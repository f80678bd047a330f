---------------------------- MODULE NameServerProofs ----------------------------
(***************************************************************************)
(* The name server keeps its promises, for any modules, drivers, boot      *)
(* images and sizes of the tables: no question is lost or answered twice,  *)
(* an instance belongs to one program, the answer to a driver precedes the *)
(* requests to it, and who is told that there is no driver is told the     *)
(* truth. The invariants come in layers, each inductive given those before *)
(*   TypeInv     the types, and which step of its life a module can be in  *)
(*   AccountInv  for each module the ledger of what is on the way from it  *)
(*               and to it (Balanced), whom the queues and the mail name   *)
(*   AnswerInv   who registers is told before anybody else                 *)
(*   OwnerInv    an instance is known to one program, and then in use      *)
(*   RefusalInv  nobody waits for a driver that could be had               *)
(***************************************************************************)
EXTENDS NameServer, FiniteSetTheorems, WellFoundedInduction, TLAPS

--------------------------------------------------------------------------------
(* Induction, with sets where the library has an operator P(_). *)

\* The order of the natural numbers, as the relation the library's theorems are about.
LEMMA LessThanRel == \A x, y \in Nat : <<x, y>> \in OpToRel(<, Nat) <=> x < y
  BY DEF OpToRel

\* A nonempty set of natural numbers has a least element.
LEMMA LeastExists ==
    ASSUME NEW T \in SUBSET Nat, T # {}
    PROVE  \E x \in T : \A y \in T : x <= y
<1>1. \E x \in T : \A y \in T : ~(<<y, x>> \in OpToRel(<, Nat))
  BY NatLessThanWellFounded, WFMin
<1>2. \A x, y \in T : <<y, x>> \in OpToRel(<, Nat) <=> y < x
  BY LessThanRel, Zenon
<1>3. \E x \in T : \A y \in T : ~(y < x)
  BY <1>1, <1>2, Zenon
<1>4. QED
  BY <1>3

\* Induction: a set of natural numbers that holds 0 and the successor of every member
\* holds them all.
LEMMA Inductive ==
    ASSUME NEW S \in SUBSET Nat, 0 \in S, \A n \in S : n + 1 \in S
    PROVE  S = Nat
<1>1. SUFFICES ASSUME Nat \ S # {} PROVE FALSE
  OBVIOUS
<1>2. PICK x \in Nat \ S : \A y \in Nat \ S : x <= y
  BY <1>1, LeastExists
<1>3. x # 0 /\ x - 1 \in Nat /\ x - 1 \in S
  BY <1>2
<1>4. QED
  BY <1>2, <1>3

\* A loop of n turns has a run, all of whose states are in the set its turns stay in.
LEMMA LoopExists ==
    ASSUME NEW T, NEW t0 \in T, NEW n \in Nat, NEW F \in [1 .. n -> [T -> T]]
    PROVE  \E g \in [0 .. n -> T] :
              g[0] = t0 /\ \A k \in 1 .. n : g[k] = F[k][g[k - 1]]
<1> DEFINE Turned(g, m) == g[0] = t0 /\ \A k \in 1 .. m : g[k] = F[k][g[k - 1]]
           S == {m \in Nat : m <= n => \E g \in [0 .. m -> T] : Turned(g, m)}
<1>1. 0 \in S
  <2>1. [k \in 0 .. 0 |-> t0] \in [0 .. 0 -> T] /\ Turned([k \in 0 .. 0 |-> t0], 0)
    OBVIOUS
  <2>2. QED
    BY <2>1
<1>2. ASSUME NEW m \in S PROVE m + 1 \in S
  <2> HIDE DEF Turned
  <2>0. SUFFICES ASSUME m + 1 <= n PROVE \E g \in [0 .. m + 1 -> T] : Turned(g, m + 1)
    BY <2>0
  <2>1. m \in Nat /\ m <= n
    BY <2>0
  <2>2. PICK g \in [0 .. m -> T] : Turned(g, m)
    BY <2>1
  <2> USE DEF Turned
  <2> DEFINE h == [k \in 0 .. m + 1 |-> IF k = m + 1 THEN F[m + 1][g[m]] ELSE g[k]]
  <2>3. h \in [0 .. m + 1 -> T]
    <3>1. F[m + 1][g[m]] \in T
      <4>1. m + 1 \in 1 .. n /\ m \in 0 .. m
        BY <2>0, <2>1
      <4>2. F[m + 1] \in [T -> T] /\ g[m] \in T
        BY <4>1
      <4>3. QED
        BY <4>2
    <3>2. QED
      BY <2>1, <3>1
  <2>4. h[0] = t0
    BY <2>1, <2>2
  <2>5. ASSUME NEW k \in 1 .. m + 1 PROVE h[k] = F[k][h[k - 1]]
    <3>1. k - 1 \in 0 .. m /\ h[k - 1] = g[k - 1]
      BY <2>1
    <3>2. CASE k = m + 1
      BY <2>1, <3>1, <3>2
    <3>3. CASE k # m + 1
      <4>1. k \in 1 .. m /\ h[k] = g[k]
        BY <2>1, <3>3
      <4>2. QED
        BY <2>2, <3>1, <4>1
    <3>4. QED
      BY <3>2, <3>3
  <2>6. QED
    BY <2>3, <2>4, <2>5
<1> HIDE DEF S
<1>3. S = Nat
  <2>1. S \in SUBSET Nat
    BY DEF S
  <2>2. QED
    BY <1>1, <1>2, <2>1, Inductive
<1>4. n \in S
  BY <1>3
<1>5. QED
  BY <1>4 DEF S


------------------------------------------------------------------------------
(* Counting: how many entries of a sequence are in a set. *)

Cnt(s, T) == Cardinality({i \in DOMAIN s : s[i] \in T})

\* What a sequence of S is, entry by entry.
LEMMA SeqIs ==
    ASSUME NEW S, NEW s \in Seq(S)
    PROVE  /\ Len(s) \in Nat /\ DOMAIN s = 1 .. Len(s) /\ s \in [1 .. Len(s) -> S]
           /\ \A i \in DOMAIN s : s[i] \in S
           /\ s = <<>> <=> Len(s) = 0
  OBVIOUS

\* A count is a natural number, 0 when no entry is in the set and positive when one is.
LEMMA CntNat ==
    ASSUME NEW S, NEW s \in Seq(S), NEW T
    PROVE  /\ IsFiniteSet({i \in DOMAIN s : s[i] \in T})
           /\ Cnt(s, T) \in Nat
           /\ Cnt(s, T) = 0 <=> \A i \in DOMAIN s : s[i] \notin T
           /\ s = <<>> => Cnt(s, T) = 0
<1> DEFINE A == {i \in DOMAIN s : s[i] \in T}
<1>1. Len(s) \in Nat /\ DOMAIN s = 1 .. Len(s) /\ (s = <<>> => Len(s) = 0)
  BY SeqIs
<1>2. IsFiniteSet(1 .. Len(s))
  BY <1>1, FS_Interval
<1>3. IsFiniteSet(A)
  <2>1. A \subseteq 1 .. Len(s)
    BY <1>1
  <2>2. QED
    BY <1>2, <2>1, FS_Subset, Zenon
<1> HIDE DEF A
<1>4. Cardinality(A) \in Nat /\ (Cardinality(A) = 0 <=> A = {})
  BY <1>3, FS_CardinalityType, FS_EmptySet
<1>5. A = {} <=> \A i \in DOMAIN s : s[i] \notin T
  BY DEF A
<1>6. s = <<>> => A = {}
  BY <1>1 DEF A
<1>7. Cnt(s, T) = Cardinality(A)
  BY DEF Cnt, A
<1>8. QED
  BY <1>3, <1>4, <1>5, <1>6, <1>7 DEF A

One(b) == IF b THEN 1 ELSE 0

\* The number of the members of a set of numbers does not change when all are moved by k.
LEMMA Shifted ==
    ASSUME NEW A \in SUBSET Nat, IsFiniteSet(A), NEW k \in Nat
    PROVE  LET B == {i + k : i \in A} IN IsFiniteSet(B) /\ Cardinality(B) = Cardinality(A)
<1> DEFINE B == {i + k : i \in A}
           f == [i \in A |-> i + k]
<1>1. f \in Bijection(A, B)
  <2>1. f \in [A -> B]
    OBVIOUS
  <2>2. \A i, j \in A : f[i] = f[j] => i = j
    OBVIOUS
  <2>3. \A b \in B : \E i \in A : f[i] = b
    OBVIOUS
  <2> HIDE DEF f, B
  <2>4. QED
    BY <2>1, <2>2, <2>3 DEF Bijection, Injection, Surjection, IsInjective
<1> HIDE DEF f, B
<1>2. QED
  BY <1>1, FS_Bijection DEF B, ExistsBijection

\* u is s with t after it: each entry is one of the first or of the second.
Joined(S, s, t, u) ==
    /\ u \in Seq(S) /\ Len(u) = Len(s) + Len(t) /\ DOMAIN u = 1 .. Len(s) + Len(t)
    /\ Len(s) \in Nat /\ Len(t) \in Nat
    /\ DOMAIN s = 1 .. Len(s) /\ DOMAIN t = 1 .. Len(t)
    /\ \A i \in 1 .. Len(s) : u[i] = s[i]
    /\ \A i \in 1 .. Len(t) : u[Len(s) + i] = t[i]
    /\ \A i \in DOMAIN u : \/ i \in DOMAIN s /\ u[i] = s[i]
                           \/ i - Len(s) \in DOMAIN t /\ u[i] = t[i - Len(s)]

\* This is what the concatenation is.
LEMMA JoinIs ==
    ASSUME NEW S, NEW s \in Seq(S), NEW t \in Seq(S), NEW u, u = s \o t
    PROVE  Joined(S, s, t, u)
<1>1. u \in Seq(S) /\ Len(u) = Len(s) + Len(t)
  OBVIOUS
<1>2. /\ Len(s) \in Nat /\ Len(t) \in Nat /\ DOMAIN u = 1 .. Len(s) + Len(t)
      /\ DOMAIN s = 1 .. Len(s) /\ DOMAIN t = 1 .. Len(t)
  BY <1>1, SeqIs
<1>3. \A i \in 1 .. Len(s) : u[i] = s[i]
  BY <1>2
<1>4. \A i \in 1 .. Len(t) : u[Len(s) + i] = t[i]
  BY <1>2
<1>5. ASSUME NEW i \in DOMAIN u
      PROVE  \/ i \in DOMAIN s /\ u[i] = s[i]
             \/ i - Len(s) \in DOMAIN t /\ u[i] = t[i - Len(s)]
  <2>1. CASE i <= Len(s)
    BY <1>2, <1>3, <2>1
  <2>2. CASE i > Len(s)
    <3>1. i - Len(s) \in 1 .. Len(t) /\ Len(s) + (i - Len(s)) = i
      BY <1>2, <2>2
    <3>2. QED
      BY <1>2, <1>4, <3>1
  <2>3. QED
    BY <1>2, <2>1, <2>2
<1>6. QED
  BY <1>1, <1>2, <1>3, <1>4, <1>5 DEF Joined

\* Counts add up when sequences are joined.
LEMMA CntJoin ==
    ASSUME NEW S, NEW s \in Seq(S), NEW t \in Seq(S), NEW T
    PROVE  s \o t \in Seq(S) /\ Cnt(s \o t, T) = Cnt(s, T) + Cnt(t, T)
<1> DEFINE n == Len(s)
           A == {i \in DOMAIN s : s[i] \in T}
           B == {i \in DOMAIN t : t[i] \in T}
           C == {i + n : i \in B}
           u == s \o t
           D == {i \in DOMAIN u : u[i] \in T}
<1>1. /\ n \in Nat /\ Len(t) \in Nat
      /\ DOMAIN s = 1 .. n /\ DOMAIN t = 1 .. Len(t) /\ DOMAIN u = 1 .. n + Len(t)
      /\ u \in Seq(S)
      /\ \A i \in 1 .. n : u[i] = s[i]
      /\ \A i \in 1 .. Len(t) : u[n + i] = t[i]
  <2>1. u \in Seq(S) /\ Len(u) = n + Len(t)
    OBVIOUS
  <2>2. DOMAIN u = 1 .. Len(u)
    BY <2>1, SeqIs
  <2>3. QED
    BY <2>1, <2>2
<1>2. /\ IsFiniteSet(A) /\ IsFiniteSet(B)
      /\ Cnt(s, T) = Cardinality(A) /\ Cnt(t, T) = Cardinality(B)
      /\ Cnt(u, T) = Cardinality(D)
  BY CntNat DEF Cnt
<1>3. IsFiniteSet(C) /\ Cardinality(C) = Cardinality(B)
  <2>1. B \in SUBSET Nat
    BY <1>1
  <2> HIDE DEF B
  <2>2. QED
    BY <1>1, <1>2, <2>1, Shifted
<1> HIDE DEF u, n
<1>4. D = A \cup C
  <2>1. A \subseteq D
    BY <1>1
  <2>2. C \subseteq D
    BY <1>1
  <2>3. ASSUME NEW i \in D, i \notin A PROVE i \in C
    <3>1. i \in 1 .. n + Len(t) /\ ~(i \in 1 .. n)
      BY <1>1, <2>3
    <3>2. i - n \in 1 .. Len(t) /\ u[n + (i - n)] = t[i - n] /\ i = n + (i - n)
      BY <1>1, <3>1
    <3>3. i - n \in B
      BY <1>1, <2>3, <3>2
    <3>4. QED
      BY <1>1, <3>1, <3>2, <3>3
  <2>4. QED
    BY <2>1, <2>2, <2>3
<1>5. A \cap C = {}
  BY <1>1
<1> HIDE DEF A, B, C, D
<1>6. Cardinality(D) = Cardinality(A) + Cardinality(C)
  <2>1. Cardinality(A \cap C) = 0
    BY <1>5, FS_EmptySet
  <2>2. Cardinality(A) \in Nat /\ Cardinality(C) \in Nat
    BY <1>2, <1>3, FS_CardinalityType
  <2>3. Cardinality(D) = Cardinality(A) + Cardinality(C) - Cardinality(A \cap C)
    BY <1>2, <1>3, <1>4, FS_Union, Zenon
  <2>4. QED
    BY <2>1, <2>2, <2>3
<1>7. QED
  BY <1>1, <1>2, <1>3, <1>6 DEF u

\* One entry counts for one if it is in the set.
LEMMA CntOne ==
    ASSUME NEW S, NEW x \in S, NEW T
    PROVE  <<x>> \in Seq(S) /\ Cnt(<<x>>, T) = One(x \in T)
<1> DEFINE s == <<x>>
           A == {i \in DOMAIN s : s[i] \in T}
<1>1. A = IF x \in T THEN {1} ELSE {}
  OBVIOUS
<1>2. Cardinality({1}) = 1 /\ Cardinality({}) = 0
  BY FS_Singleton, FS_EmptySet
<1>3. QED
  BY <1>1, <1>2 DEF Cnt, One

\* An entry more at the end ...
LEMMA CntAppend ==
    ASSUME NEW S, NEW s \in Seq(S), NEW x \in S, NEW T
    PROVE  Append(s, x) \in Seq(S) /\ Cnt(Append(s, x), T) = Cnt(s, T) + One(x \in T)
<1> DEFINE t == <<x>>
<1>1. Append(s, x) = s \o t /\ t \in Seq(S)
  OBVIOUS
<1>2. Cnt(t, T) = One(x \in T)
  BY CntOne, Zenon
<1> HIDE DEF t
<1>3. Cnt(s \o t, T) = Cnt(s, T) + Cnt(t, T) /\ s \o t \in Seq(S)
  BY <1>1, CntJoin
<1>4. QED
  BY <1>1, <1>2, <1>3, Zenon

\* ... and one less at the start.
LEMMA CntTail ==
    ASSUME NEW S, NEW s \in Seq(S), s # <<>>, NEW T
    PROVE  /\ Head(s) \in S /\ Tail(s) \in Seq(S) /\ Len(Tail(s)) = Len(s) - 1
           /\ Head(s) = s[1] /\ 1 \in DOMAIN s
           /\ DOMAIN Tail(s) = 1 .. Len(s) - 1
           /\ \A i \in DOMAIN Tail(s) : i + 1 \in DOMAIN s /\ Tail(s)[i] = s[i + 1]
           /\ Cnt(s, T) = Cnt(Tail(s), T) + One(Head(s) \in T)
<1> DEFINE h == <<Head(s)>>
           t == Tail(s)
<1>1. /\ s = h \o t /\ Head(s) \in S /\ t \in Seq(S)
      /\ h \in Seq(S) /\ Len(t) = Len(s) - 1 /\ Head(s) = s[1]
      /\ Len(s) \in Nat /\ Len(s) > 0
  OBVIOUS
<1>2. Cnt(h, T) = One(Head(s) \in T)
  BY <1>1, CntOne, Zenon
<1>3. DOMAIN t = 1 .. Len(s) - 1 /\ DOMAIN s = 1 .. Len(s)
  BY <1>1, SeqIs
<1>4. \A i \in 1 .. Len(s) - 1 : t[i] = s[i + 1]
  OBVIOUS
<1> HIDE DEF h, t
<1>5. Cnt(h \o t, T) = Cnt(h, T) + Cnt(t, T)
  <2>1. h \in Seq(S) /\ t \in Seq(S)
    BY <1>1
  <2>2. QED
    BY <2>1, CntJoin
<1>6. Cnt(t, T) \in Nat /\ Cnt(h, T) \in Nat
  BY <1>1, CntNat, Zenon
<1>7. Cnt(s, T) = Cnt(t, T) + One(Head(s) \in T)
  BY <1>1, <1>2, <1>5, <1>6
<1> USE DEF t
<1>8. QED
  BY <1>1, <1>3, <1>4, <1>7

\* r is s with the last entry moved into the gap at c.
Filled(s, c, r) ==
    /\ Len(r) = Len(s) - 1
    /\ \A i \in 1 .. Len(s) - 1 : r[i] = IF i = c THEN s[Len(s)] ELSE s[i]

\* It is what Boot_UnlockWaitingProc makes of its queue ...
LEMMA FillIs ==
    ASSUME NEW S, NEW s \in Seq(S), NEW c \in DOMAIN s
    PROVE  LET r == Front([s EXCEPT ![c] = Last(s)])
           IN  r \in Seq(S) /\ Filled(s, c, r)
<1> DEFINE n == Len(s)
           e == [s EXCEPT ![c] = Last(s)]
           r == Front(e)
<1>1. n \in Nat /\ n > 0 /\ DOMAIN s = 1 .. n /\ c \in 1 .. n /\ s \in [1 .. n -> S]
  BY SeqIs
<1>2. /\ e \in Seq(S) /\ Len(e) = n
      /\ \A i \in 1 .. n : e[i] = IF i = c THEN s[n] ELSE s[i]
  <2>1. Last(s) = s[n] /\ s[n] \in S
    BY <1>1 DEF Last
  <2>2. e \in [1 .. n -> S] /\ \A i \in 1 .. n : e[i] = IF i = c THEN s[n] ELSE s[i]
    BY <1>1, <2>1
  <2> HIDE DEF e
  <2>3. e \in Seq(S) /\ Len(e) = n
    BY <1>1, <2>2
  <2>4. QED
    BY <2>2, <2>3
<1> HIDE DEF e, n
<1>3. /\ r \in Seq(S) /\ Len(r) = n - 1
      /\ \A i \in 1 .. n - 1 : r[i] = e[i]
  BY <1>1, <1>2 DEF Front
<1>4. \A i \in 1 .. n - 1 : r[i] = IF i = c THEN s[n] ELSE s[i]
  BY <1>1, <1>2, <1>3
<1>5. QED
  BY <1>3, <1>4 DEF r, e, n, Filled

\* ... and the counts lose what was taken.
LEMMA CntFill ==
    ASSUME NEW S, NEW s \in Seq(S), NEW c \in DOMAIN s, NEW T,
           NEW r \in Seq(S), Filled(s, c, r)
    PROVE  Cnt(s, T) = Cnt(r, T) + One(s[c] \in T)
<1> DEFINE n == Len(s)
           A == {i \in DOMAIN s : s[i] \in T}
           B == {i \in DOMAIN r : r[i] \in T}
<1>1. n \in Nat /\ n > 0 /\ DOMAIN s = 1 .. n /\ c \in 1 .. n /\ s \in [1 .. n -> S]
  BY SeqIs
<1>4. DOMAIN r = 1 .. n - 1
  BY SeqIs DEF Filled
<1>5. \A i \in DOMAIN r : r[i] = IF i = c THEN s[n] ELSE s[i]
  BY <1>4 DEF Filled
<1> HIDE DEF n
<1>6. IsFiniteSet(A) /\ IsFiniteSet(B) /\ Cnt(s, T) = Cardinality(A) /\ Cnt(r, T) = Cardinality(B)
  BY CntNat DEF Cnt
<1>7. A \ {c, n} = B \ {c} /\ (c # n => (c \in B <=> n \in A))
  BY <1>1, <1>4, <1>5
<1>8. n \in A /\ c = n <=> s[c] \in T /\ c = n
  BY <1>1
<1>9. c \in A <=> s[c] \in T
  BY <1>1
<1>10. n \notin B
  BY <1>1, <1>4
<1> HIDE DEF A, B
<1> DEFINE X == A \ {c, n}
<1>11. IsFiniteSet(X) /\ Cardinality(X) \in Nat /\ Cardinality(A) \in Nat /\ Cardinality(B) \in Nat
  BY <1>6, FS_Difference, FS_CardinalityType
<1>12. Cardinality(B) = Cardinality(X) + One(c \in B)
  <2>1. B \ {c} = X
    BY <1>7
  <2>2. QED
    BY <1>6, <1>11, <2>1, FS_RemoveElement DEF One
<1>13. Cardinality(A \ {c}) = Cardinality(X) + One(n \in A /\ n # c)
  <2>1. (A \ {c}) \ {n} = X
    OBVIOUS
  <2>2. IsFiniteSet(A \ {c})
    BY <1>6, FS_RemoveElement
  <2>3. n \in A \ {c} <=> n \in A /\ n # c
    OBVIOUS
  <2> DEFINE Y == A \ {c}
  <2>4. Cardinality(Y) = IF n \in Y THEN Cardinality(Y \ {n}) + 1 ELSE Cardinality(Y \ {n})
    <3>1. Cardinality(Y \ {n}) = IF n \in Y THEN Cardinality(Y) - 1 ELSE Cardinality(Y)
      BY <2>2, FS_RemoveElement
    <3>2. Cardinality(Y) \in Int
      BY <2>2, FS_CardinalityType
    <3>3. QED
      BY <3>1, <3>2
  <2>5. Y \ {n} = X /\ (n \in Y <=> n \in A /\ n # c)
    BY <2>1, <2>3
  <2> HIDE DEF X, Y
  <2>6. Cardinality(Y) = Cardinality(X) + One(n \in A /\ n # c)
    <3>1. CASE n \in Y
      BY <1>11, <2>4, <2>5, <3>1 DEF One
    <3>2. CASE n \notin Y
      <4>1. Cardinality(Y) = Cardinality(X)
        BY <2>4, <2>5, <3>2
      <4>2. One(n \in A /\ n # c) = 0
        BY <2>5, <3>2 DEF One
      <4>3. Cardinality(X) \in Nat
        BY <1>11
      <4>4. QED
        BY <4>1, <4>2, <4>3
    <3>3. QED
      BY <3>1, <3>2
  <2>7. QED
    BY <2>6 DEF Y
<1>14. Cardinality(A) = Cardinality(A \ {c}) + One(c \in A)
  <2>1. Cardinality(A \ {c}) = IF c \in A THEN Cardinality(A) - 1 ELSE Cardinality(A)
    BY <1>6, FS_RemoveElement
  <2>2. QED
    BY <1>11, <2>1 DEF One
<1>15. One(c \in B) = One(n \in A /\ n # c)
  BY <1>7, <1>10 DEF One
<1>16. Cardinality(A) = Cardinality(B) + One(s[c] \in T)
  BY <1>9, <1>11, <1>12, <1>13, <1>14, <1>15 DEF One
<1>17. QED
  BY <1>6, <1>16

------------------------------------------------------------------------------
(* Boot_UnlockWaitingProc *)

Waiters == [pid : Module, name : Name]
OfPid(p) == [pid : {p}, name : Name]
Unlocks == [queue : Seq(Waiters), c : Nat, moved : Seq(Module)]

\* What the loop has done when it is at s: nobody is lost, what has been moved waited for
\* n, and what has been passed over did not, unless there is no more room.
Unlocking(q, n, room, s) ==
    /\ s \in Unlocks
    /\ 1 <= s.c /\ s.c <= Len(s.queue) + 1
    /\ \A p \in Module : Cnt(s.queue, OfPid(p)) + Cnt(s.moved, {p}) = Cnt(q, OfPid(p))
    /\ \A i \in DOMAIN s.queue : \E j \in DOMAIN q : s.queue[i] = q[j]
    /\ \A i \in DOMAIN s.moved : \E j \in DOMAIN q : q[j].name = n /\ s.moved[i] = q[j].pid
    /\ Len(s.queue) + Len(s.moved) = Len(q)
    /\ \/ \A i \in DOMAIN s.queue : i < s.c => s.queue[i].name # n
       \/ Len(s.moved) = room

\* The entries still to look at.
Left(s) == Len(s.queue) + 1 - s.c

\* Before the first turn.
LEMMA UnlockStarts ==
    ASSUME NEW q \in Seq(Waiters), NEW n \in Name, NEW room \in Int
    PROVE  Unlocking(q, n, room, [queue |-> q, c |-> 1, moved |-> <<>>])
<1> DEFINE s == [queue |-> q, c |-> 1, moved |-> <<>>]
<1>1. s.queue = q /\ s.c = 1 /\ s.moved = <<>> /\ s \in Unlocks
  BY DEF Unlocks
<1>2. Len(q) \in Nat /\ Len(<<>>) = 0 /\ DOMAIN <<>> = {} /\ DOMAIN q = 1 .. Len(q)
  BY SeqIs
<1> HIDE DEF s
<1>3. ASSUME NEW p \in Module
      PROVE  Cnt(s.queue, OfPid(p)) + Cnt(s.moved, {p}) = Cnt(q, OfPid(p))
  <2>1. Cnt(q, OfPid(p)) \in Nat
    BY CntNat
  <2>2. Cnt(s.moved, {p}) = 0
    <3>1. s.moved \in Seq(Module)
      BY <1>1
    <3>2. QED
      BY <1>1, <3>1, CntNat
  <2>3. QED
    BY <1>1, <2>1, <2>2
<1>4. Unlocking(q, n, room, s)
  BY <1>1, <1>2, <1>3 DEF Unlocking
<1>5. QED
  BY <1>4 DEF s

\* A turn: either the loop is over, or there is one entry less to look at.
LEMMA UnlockTurns ==
    ASSUME NEW q \in Seq(Waiters), NEW n \in Name, NEW room \in Int,
           NEW s, Unlocking(q, n, room, s)
    PROVE  LET t == UnlockTurn(s, n, room)
           IN  /\ Unlocking(q, n, room, t)
               /\ (t = s /\ Left(s) = 0) \/ Left(t) <= Left(s) - 1
<1> DEFINE t == UnlockTurn(s, n, room)
<1>0. /\ s \in Unlocks /\ s.queue \in Seq(Waiters) /\ s.moved \in Seq(Module)
      /\ s.c \in Nat /\ 1 <= s.c /\ s.c <= Len(s.queue) + 1
      /\ Len(s.queue) \in Nat /\ DOMAIN s.queue = 1 .. Len(s.queue)
      /\ Len(s.moved) \in Nat /\ DOMAIN s.moved = 1 .. Len(s.moved)
      /\ s = [queue |-> s.queue, c |-> s.c, moved |-> s.moved]
  <2>1. s \in Unlocks /\ 1 <= s.c /\ s.c <= Len(s.queue) + 1
    BY DEF Unlocking
  <2>2. /\ s.queue \in Seq(Waiters) /\ s.moved \in Seq(Module) /\ s.c \in Nat
        /\ s = [queue |-> s.queue, c |-> s.c, moved |-> s.moved]
    BY <2>1 DEF Unlocks
  <2>3. QED
    BY <2>1, <2>2, SeqIs
<1>1. CASE s.c > Len(s.queue)
  <2>1. t = s /\ Left(s) = 0
    BY <1>0, <1>1 DEF UnlockTurn, Left
  <2>2. QED
    BY <2>1
<1>2. CASE s.c <= Len(s.queue) /\ s.queue[s.c].name # n
  <2>1. t = [s EXCEPT !.c = @ + 1]
    BY <1>0, <1>2 DEF UnlockTurn
  <2> HIDE DEF t
  <2>2. t.queue = s.queue /\ t.c = s.c + 1 /\ t.moved = s.moved /\ t \in Unlocks
    <3>1. t = [queue |-> s.queue, c |-> s.c + 1, moved |-> s.moved]
      BY <1>0, <2>1
    <3>2. QED
      BY <1>0, <3>1 DEF Unlocks
  <2>3. Unlocking(q, n, room, t)
    <3>1. \/ \A i \in DOMAIN t.queue : i < t.c => t.queue[i].name # n
          \/ Len(t.moved) = room
      <4>1. CASE Len(s.moved) = room
        BY <2>2, <4>1
      <4>2. CASE \A i \in DOMAIN s.queue : i < s.c => s.queue[i].name # n
        <5>1. ASSUME NEW i \in DOMAIN t.queue, i < t.c PROVE t.queue[i].name # n
          <6>1. i \in DOMAIN s.queue /\ (i < s.c \/ i = s.c)
            BY <1>0, <2>2, <5>1
          <6>2. QED
            BY <1>2, <2>2, <4>2, <6>1
        <5>2. QED
          BY <5>1
      <4>3. QED
        BY <4>1, <4>2 DEF Unlocking
    <3>2. 1 <= t.c /\ t.c <= Len(t.queue) + 1
      BY <1>0, <1>2, <2>2
    <3>3. QED
      BY <2>2, <3>1, <3>2 DEF Unlocking
  <2>4. Left(t) <= Left(s) - 1
    BY <1>0, <2>2 DEF Left
  <2>5. QED
    BY <2>3, <2>4 DEF t
<1>3. CASE s.c <= Len(s.queue) /\ s.queue[s.c].name = n /\ Len(s.moved) = room
  <2>1. t = [s EXCEPT !.c = Len(s.queue) + 1]
    BY <1>0, <1>3 DEF UnlockTurn
  <2>2. t.queue = s.queue /\ t.c = Len(s.queue) + 1 /\ t.moved = s.moved /\ t \in Unlocks
    BY <1>0, <2>1 DEF Unlocks
  <2> HIDE DEF t
  <2>3. Unlocking(q, n, room, t)
    <3>2. 1 <= t.c /\ t.c <= Len(t.queue) + 1
      BY <1>0, <1>3, <2>2
    <3>3. QED
      BY <1>3, <2>2, <3>2 DEF Unlocking
  <2>4. Left(t) <= Left(s) - 1
    BY <1>0, <1>3, <2>2 DEF Left
  <2>5. QED
    BY <2>3, <2>4 DEF t
<1>4. CASE s.c <= Len(s.queue) /\ s.queue[s.c].name = n /\ Len(s.moved) # room
  <2> DEFINE r == Front([s.queue EXCEPT ![s.c] = Last(s.queue)])
             x == s.queue[s.c]
             L == Len(s.queue)
  <2>1. s.c \in DOMAIN s.queue /\ x \in Waiters /\ x.name = n /\ x.pid \in Module
    <3>1. s.c \in DOMAIN s.queue
      BY <1>0, <1>4
    <3>2. x \in Waiters
      BY <1>0, <3>1, SeqIs
    <3>3. QED
      BY <1>4, <3>1, <3>2 DEF Waiters
  <2>2. t = [queue |-> r, c |-> s.c, moved |-> Append(s.moved, x.pid)]
    BY <1>0, <1>4 DEF UnlockTurn
  <2>3. /\ r \in Seq(Waiters) /\ Len(r) = L - 1 /\ DOMAIN r = 1 .. L - 1
        /\ \A i \in DOMAIN r : r[i] = IF i = s.c THEN s.queue[L] ELSE s.queue[i]
        /\ \A T : Cnt(s.queue, T) = Cnt(r, T) + One(x \in T)
    <3>1. s.queue \in Seq(Waiters) /\ s.c \in DOMAIN s.queue
      BY <1>0, <2>1
    <3>2. r \in Seq(Waiters) /\ Filled(s.queue, s.c, r)
      BY <3>1, FillIs
    <3> HIDE DEF r
    <3>3. /\ DOMAIN r = 1 .. L - 1 /\ Len(r) = L - 1
          /\ \A i \in DOMAIN r : r[i] = IF i = s.c THEN s.queue[L] ELSE s.queue[i]
      BY <3>2, SeqIs DEF Filled
    <3>4. ASSUME NEW T PROVE Cnt(s.queue, T) = Cnt(r, T) + One(x \in T)
      BY <3>1, <3>2, CntFill, Zenon
    <3>5. QED
      BY <3>2, <3>3, <3>4
  <2>4. Append(s.moved, x.pid) \in Seq(Module)
    BY <1>0, <2>1
  <2>5. /\ t.queue = r /\ t.c = s.c /\ t.moved = Append(s.moved, x.pid) /\ t \in Unlocks
        /\ Len(t.moved) = Len(s.moved) + 1
        /\ DOMAIN t.moved = 1 .. Len(s.moved) + 1
        /\ \A i \in 1 .. Len(s.moved) : t.moved[i] = s.moved[i]
        /\ t.moved[Len(s.moved) + 1] = x.pid
    <3>1. t.queue = r /\ t.c = s.c /\ t.moved = Append(s.moved, x.pid) /\ t \in Unlocks
      BY <1>0, <2>2, <2>3, <2>4 DEF Unlocks
    <3>2. QED
      BY <1>0, <3>1
  <2> HIDE DEF t, r
  <2>6. ASSUME NEW p \in Module
        PROVE  Cnt(t.queue, OfPid(p)) + Cnt(t.moved, {p}) = Cnt(q, OfPid(p))
    <3>1. Cnt(s.queue, OfPid(p)) = Cnt(r, OfPid(p)) + One(x \in OfPid(p))
      BY <2>3
    <3>2. Cnt(t.moved, {p}) = Cnt(s.moved, {p}) + One(x.pid \in {p})
      BY <1>0, <2>1, <2>5, CntAppend
    <3>3. Cnt(s.queue, OfPid(p)) + Cnt(s.moved, {p}) = Cnt(q, OfPid(p))
      BY DEF Unlocking
    <3>4. Cnt(r, OfPid(p)) \in Nat /\ Cnt(s.moved, {p}) \in Nat
      BY <1>0, <2>3, CntNat
    <3>5. x \in OfPid(p) <=> x.pid \in {p}
      BY <2>1 DEF OfPid, Waiters
    <3>6. One(x \in OfPid(p)) = One(x.pid \in {p}) /\ One(x.pid \in {p}) \in Nat
      BY <3>5 DEF One
    <3>7. QED
      BY <2>5, <3>1, <3>2, <3>3, <3>4, <3>6
  <2>7. ASSUME NEW i \in DOMAIN t.queue
        PROVE  /\ \E j \in DOMAIN q : t.queue[i] = q[j]
               /\ i < t.c => t.queue[i] = s.queue[i] /\ i \in DOMAIN s.queue
    <3>1. i \in 1 .. L - 1 /\ r[i] = IF i = s.c THEN s.queue[L] ELSE s.queue[i]
      BY <2>3, <2>5
    <3>2. i \in DOMAIN s.queue /\ L \in DOMAIN s.queue
      BY <1>0, <1>4, <3>1
    <3>3. \A k \in DOMAIN s.queue : \E j \in DOMAIN q : s.queue[k] = q[j]
      BY DEF Unlocking
    <3>4. \E j \in DOMAIN q : t.queue[i] = q[j]
      BY <2>5, <3>1, <3>2, <3>3
    <3>5. i < t.c => t.queue[i] = s.queue[i]
      BY <1>0, <2>5, <3>1
    <3>6. QED
      BY <3>2, <3>4, <3>5
  <2>8. ASSUME NEW i \in DOMAIN t.moved
        PROVE  \E j \in DOMAIN q : q[j].name = n /\ t.moved[i] = q[j].pid
    <3>1. CASE i = Len(s.moved) + 1
      <4>1. \E j \in DOMAIN q : x = q[j]
        BY <2>1 DEF Unlocking
      <4>2. QED
        BY <2>1, <2>5, <3>1, <4>1
    <3>2. CASE i # Len(s.moved) + 1
      <4>1. i \in DOMAIN s.moved /\ t.moved[i] = s.moved[i]
        BY <1>0, <2>5, <3>2
      <4>2. QED
        BY <4>1 DEF Unlocking
    <3>3. QED
      BY <3>1, <3>2
  <2>9. Len(t.queue) + Len(t.moved) = Len(q)
    <3>1. Len(s.queue) + Len(s.moved) = Len(q)
      BY DEF Unlocking
    <3>2. Len(t.queue) = L - 1 /\ Len(t.moved) = Len(s.moved) + 1
      BY <2>3, <2>5
    <3>3. L \in Nat /\ Len(s.moved) \in Nat /\ L + Len(s.moved) = Len(q)
      BY <1>0, <3>1
    <3> HIDE DEF L
    <3>4. QED
      BY <3>2, <3>3
  <2>10. \A i \in DOMAIN t.queue : i < t.c => t.queue[i].name # n
    <3>1. \A i \in DOMAIN s.queue : i < s.c => s.queue[i].name # n
      BY <1>4 DEF Unlocking
    <3>2. QED
      BY <2>5, <2>7, <3>1
  <2>11. 1 <= t.c /\ t.c <= Len(t.queue) + 1
    BY <1>0, <1>4, <2>3, <2>5
  <2>12. Unlocking(q, n, room, t)
    BY <2>5, <2>6, <2>7, <2>8, <2>9, <2>10, <2>11 DEF Unlocking
  <2>13. Left(t) <= Left(s) - 1
    BY <1>0, <2>3, <2>5 DEF Left
  <2>14. QED
    BY <2>12, <2>13 DEF t
<1>5. QED
  BY <1>0, <1>1, <1>2, <1>3, <1>4

\* A run of a loop of n turns, as LoopExists finds it.
HasRun(T, t0, n, F) ==
    \E g \in [0 .. n -> T] : g[0] = t0 /\ \A k \in 1 .. n : g[k] = F[k][g[k - 1]]

\* Every such loop has a run: there is a function from the turns to the states.
LEMMA LoopRuns ==
    ASSUME NEW T, NEW t0 \in T, NEW n \in Nat, NEW F \in [1 .. n -> [T -> T]]
    PROVE  HasRun(T, t0, n, F)
  BY LoopExists, SMTT(40) DEF HasRun

\* The loop has a run, and what it returns is the state after as many turns as there are
\* entries.
LEMMA UnlockRun ==
    ASSUME NEW q \in Seq(Waiters), NEW n \in Name, NEW room \in Int
    PROVE  \E g : /\ g[0] = [queue |-> q, c |-> 1, moved |-> <<>>]
                  /\ \A k \in 1 .. Len(q) : g[k] = UnlockTurn(g[k - 1], n, room)
                  /\ Boot_UnlockWaitingProc(q, n, room) = g[Len(q)]
<1> DEFINE s0 == [queue |-> q, c |-> 1, moved |-> <<>>]
           T == {z \in Unlocks : Unlocking(q, n, room, z)}
           N == Len(q)
           F == [k \in 1 .. N |-> [z \in T |-> UnlockTurn(z, n, room)]]
           Turns(g) == g = [k \in 0 .. N |->
                            IF k = 0 THEN [queue |-> q, c |-> 1, moved |-> <<>>]
                            ELSE UnlockTurn(g[k - 1], n, room)]
<1>1. N \in Nat
  BY SeqIs
<1>2. s0 \in T
  <2>1. Unlocking(q, n, room, s0)
    BY UnlockStarts
  <2> HIDE DEF s0
  <2>2. QED
    BY <2>1 DEF Unlocking
<1>3. ASSUME NEW s \in T PROVE UnlockTurn(s, n, room) \in T
  <2>1. Unlocking(q, n, room, UnlockTurn(s, n, room))
    BY UnlockTurns
  <2>2. QED
    BY <2>1 DEF Unlocking
<1> HIDE DEF T, s0
<1>4. F \in [1 .. N -> [T -> T]]
  BY <1>3
<1>5. PICK g \in [0 .. N -> T] : g[0] = s0 /\ \A k \in 1 .. N : g[k] = F[k][g[k - 1]]
  <2> HIDE DEF F, N
  <2>1. HasRun(T, s0, N, F)
    BY <1>1, <1>2, <1>4, LoopRuns, Zenon
  <2>2. QED
    BY <2>1 DEF HasRun
<1>6. ASSUME NEW k \in 0 .. N
      PROVE  g[k] = IF k = 0 THEN [queue |-> q, c |-> 1, moved |-> <<>>]
                    ELSE UnlockTurn(g[k - 1], n, room)
  <2>1. CASE k = 0
    BY <1>5, <2>1 DEF s0
  <2>2. CASE k # 0
    <3>1. k \in 1 .. N /\ g[k - 1] \in T
      BY <1>1, <1>5, <2>2
    <3>2. F[k][g[k - 1]] = UnlockTurn(g[k - 1], n, room)
      BY <3>1
    <3> HIDE DEF F
    <3>3. QED
      BY <1>5, <2>2, <3>1, <3>2
  <2>3. QED
    BY <2>1, <2>2
<1>7. Turns(g)
  BY <1>5, <1>6
<1> DEFINE turn == CHOOSE h : Turns(h)
<1>8. Turns(turn)
  BY <1>7, ZenonT(60)
<1>9. Boot_UnlockWaitingProc(q, n, room) = turn[N]
  BY ZenonT(60) DEF Boot_UnlockWaitingProc
<1> HIDE DEF turn
<1>10. /\ turn[0] = [queue |-> q, c |-> 1, moved |-> <<>>]
       /\ \A k \in 1 .. N : turn[k] = UnlockTurn(turn[k - 1], n, room)
  BY <1>1, <1>8, SMTT(40)
<1>11. QED
  BY <1>9, <1>10

\* The entries that are still to be looked at are so many.
LEMMA LeftNat ==
    ASSUME NEW q, NEW n, NEW room, NEW s, Unlocking(q, n, room, s)
    PROVE  Left(s) \in Nat /\ s.c \in Nat /\ Len(s.queue) \in Nat
<1>1. s \in Unlocks /\ s.c <= Len(s.queue) + 1
  BY DEF Unlocking
<1>2. Len(s.queue) \in Nat /\ s.c \in Nat
  BY <1>1 DEF Unlocks
<1>3. QED
  BY <1>1, <1>2 DEF Left

\* The loop as a whole looks at every entry: nobody is lost, and who is left waits for
\* another driver, unless there was no more room.
LEMMA UnlockIs ==
    ASSUME NEW q \in Seq(Waiters), NEW n \in Name, NEW room \in Int
    PROVE  LET u == Boot_UnlockWaitingProc(q, n, room)
           IN  Unlocking(q, n, room, u) /\ Left(u) = 0
<1> DEFINE N == Len(q)
<1>1. PICK g : /\ g[0] = [queue |-> q, c |-> 1, moved |-> <<>>]
               /\ \A k \in 1 .. N : g[k] = UnlockTurn(g[k - 1], n, room)
               /\ Boot_UnlockWaitingProc(q, n, room) = g[N]
  BY UnlockRun
<1>2. N \in Nat
  BY SeqIs
<1> HIDE DEF N
<1> DEFINE S == {k \in Nat : k <= N => /\ Unlocking(q, n, room, g[k])
                                       /\ Left(g[k]) = 0 \/ Left(g[k]) <= N - k}
<1>3. 0 \in S
  <2>1. Unlocking(q, n, room, g[0])
    BY <1>1, UnlockStarts
  <2>2. Left(g[0]) <= N - 0
    BY <1>1, <1>2 DEF N, Left
  <2>3. QED
    BY <2>1, <2>2
<1>4. ASSUME NEW k \in S PROVE k + 1 \in S
  <2>0. SUFFICES ASSUME k + 1 <= N
                 PROVE  /\ Unlocking(q, n, room, g[k + 1])
                        /\ Left(g[k + 1]) = 0 \/ Left(g[k + 1]) <= N - (k + 1)
    OBVIOUS
  <2>1. k \in Nat /\ k <= N /\ k + 1 \in 1 .. N /\ (k + 1) - 1 = k
    BY <1>2, <2>0
  <2> DEFINE s == g[k]
             t == g[k + 1]
  <2>2. Unlocking(q, n, room, s) /\ (Left(s) = 0 \/ Left(s) <= N - k)
    BY <2>1
  <2>3. t = UnlockTurn(s, n, room)
    BY <1>1, <2>1
  <2> HIDE DEF S, s, t
  <2>4. Unlocking(q, n, room, t) /\ ((t = s /\ Left(s) = 0) \/ Left(t) <= Left(s) - 1)
    BY <2>2, <2>3, UnlockTurns
  <2>5. Left(s) \in Nat /\ Left(t) \in Nat
    BY <2>2, <2>4, LeftNat
  <2>6. Left(t) = 0 \/ Left(t) <= N - (k + 1)
    BY <1>2, <2>1, <2>2, <2>4, <2>5
  <2>7. QED
    BY <2>4, <2>6 DEF t
<1> HIDE DEF S
<1>5. S = Nat
  <2>1. S \in SUBSET Nat
    BY DEF S
  <2>2. QED
    BY <1>3, <1>4, <2>1, Inductive
<1> DEFINE u == g[N]
<1>6. Unlocking(q, n, room, u) /\ (Left(u) = 0 \/ Left(u) <= N - N)
  BY <1>2, <1>5 DEF S
<1> HIDE DEF u
<1>7. Left(u) = 0
  BY <1>2, <1>6, LeftNat
<1>8. QED
  BY <1>1, <1>6, <1>7 DEF u

------------------------------------------------------------------------------
(* What mps and the modules send, and the types of the state *)

Statuses == {"NOERR", "DRVNOTFOUND", "DRVPRESENT", "DRVNOTPRESENT"}
Telling == [type : {"ASKPID_REPLY"}, status : {"NOERR"}, pid : Driver]
Refusing == [type : {"ERROR", "ASKPID_REPLY"}, status : Statuses \ {"NOERR"}, pid : {NoPid}]
            \cup [type : {"INIT_REPLY"}, status : {"NOERR"}, pid : {NoPid}]
Requests == [type : {"REQUEST"}, status : {"NOERR"}, pid : Module]
Mails == Telling \cup Refusing \cup Requests
Replies == [to : Module, msg : Telling \cup Refusing]
Letters == [type : {"ASKPID"}, from : {p \in Module : Asks[p] \in Name}]
           \cup [type : {"INIT"}, from : Driver]
           \cup [type : {"TERM", "WAITFORDRIVER"}, from : Module]
           \cup [type : {"INIT_COMPLETE"}, from : {NoPid}]
Instances == [pid : Driver, in_use : BOOLEAN]
PCs == {"off", "ask", "asked", "register", "starting", "serving", "exited", "done"}

Typed ==
    /\ image \in Seq(Module) /\ IsInjective(image)
    /\ started \in 0 .. Len(image) /\ announced \in Nat
    /\ pc \in [Module -> PCs]
    /\ got \in [Module -> Driver \cup {NoPid}]
    /\ mail \in [Module -> Seq(Mails)]
    /\ inbox \in Seq(Letters) /\ out \in Seq(Replies)
    /\ instances \in [Name -> Seq(Instances)]
    /\ is_multi \subseteq Name
    /\ waiting \in [Name -> Seq(Module)]
    /\ BootWaitQueue \in Seq(Waiters)
    /\ BootRegisterFinished \in BOOLEAN

\* The replies of mps tell one thing each: a driver, or nothing.
LEMMA ReplyIs ==
    ASSUME NEW p \in Module
    PROVE  /\ \A d \in Driver : /\ Send_AskPid_Reply(p, d) \in Replies
                                /\ Send_AskPid_Reply(p, d).msg \in Telling
                                /\ Send_AskPid_Reply(p, d).msg.pid = d
                                /\ Send_AskPid_Reply(p, d).msg.status = "NOERR"
                                /\ Send_AskPid_Reply(p, d).to = p
           /\ \A r \in {Send_AskPid_Reply(p, NoPid), ReplyError(p, "DRVNOTFOUND"),
                        ReplyError(p, "DRVPRESENT"), ReplyError(p, "DRVNOTPRESENT"),
                        Driver_Init_Reply(p)} :
                 r \in Replies /\ r.msg \in Refusing /\ r.msg.pid = NoPid /\ r.to = p
           /\ Driver_Init_Reply(p).msg.status = "NOERR"
           /\ ReplyError(p, "DRVPRESENT").msg.status = "DRVPRESENT"
           /\ ReplyError(p, "DRVNOTPRESENT").msg.status = "DRVNOTPRESENT"
<1>1. NoPid \notin Driver
  BY ModuleAssumption
<1>2. QED
  BY <1>1 DEF Send_AskPid_Reply, ReplyError, Driver_Init_Reply, Reply, Replies, Telling,
              Refusing, Statuses

\* Counts of two sequences that correspond entry by entry.
LEMMA CntMap ==
    ASSUME NEW s, NEW r, NEW A, NEW B, DOMAIN r = DOMAIN s,
           \A i \in DOMAIN s : s[i] \in A <=> r[i] \in B
    PROVE  Cnt(s, A) = Cnt(r, B)
<1>1. {i \in DOMAIN s : s[i] \in A} = {i \in DOMAIN r : r[i] \in B}
  OBVIOUS
<1>2. QED
  BY <1>1 DEF Cnt

To(p) == {r \in Replies : r.to = p}

\* What CloseReplies sends: one refusal to each in the queue.
LEMMA CloseIs ==
    ASSUME NEW q \in Seq(Waiters)
    PROVE  /\ CloseReplies(q) \in Seq(Replies)
           /\ DOMAIN CloseReplies(q) = DOMAIN q
           /\ \A i \in DOMAIN q : /\ CloseReplies(q)[i] = Send_AskPid_Reply(q[i].pid, NoPid)
                                  /\ CloseReplies(q)[i].to = q[i].pid
                                  /\ CloseReplies(q)[i].msg \in Refusing
                                  /\ CloseReplies(q)[i].msg.pid = NoPid
           /\ \A p \in Module : Cnt(CloseReplies(q), To(p)) = Cnt(q, OfPid(p))
<1> DEFINE r == CloseReplies(q)
<1>1. /\ Len(q) \in Nat /\ DOMAIN q = 1 .. Len(q)
      /\ \A i \in DOMAIN q : q[i] \in Waiters /\ q[i].pid \in Module
  <2>1. \A e \in Waiters : e.pid \in Module
    BY DEF Waiters
  <2>2. QED
    BY <2>1, SeqIs
<1>2. /\ DOMAIN r = DOMAIN q
      /\ \A i \in DOMAIN q : r[i] = Send_AskPid_Reply(q[i].pid, NoPid)
  BY DEF CloseReplies
<1> HIDE DEF r
<1>3. \A i \in DOMAIN q : /\ r[i].to = q[i].pid /\ r[i].msg \in Refusing
                          /\ r[i].msg.pid = NoPid /\ r[i] \in Replies
  BY <1>1, <1>2, ReplyIs
<1>4. r \in Seq(Replies)
  <2>1. r = [i \in 1 .. Len(q) |-> r[i]]
    BY <1>1 DEF r, CloseReplies
  <2>2. QED
    BY <1>1, <1>2, <1>3, <2>1
<1>5. ASSUME NEW p \in Module PROVE Cnt(r, To(p)) = Cnt(q, OfPid(p))
  <2>1. ASSUME NEW i \in DOMAIN q PROVE q[i] \in OfPid(p) <=> r[i] \in To(p)
    <3>1. q[i] \in OfPid(p) <=> q[i].pid = p
      BY <1>1 DEF OfPid, Waiters
    <3>2. QED
      BY <1>3, <3>1 DEF To
  <2>2. QED
    BY <1>2, <2>1, CntMap
<1>6. QED
  BY <1>2, <1>3, <1>4, <1>5 DEF r

Told(d, s) == [i \in DOMAIN s |-> Send_AskPid_Reply(s[i], d)]

\* The replies that tell those in s of d.
LEMMA ToldIs ==
    ASSUME NEW d \in Driver, NEW s \in Seq(Module)
    PROVE  /\ Told(d, s) \in Seq(Replies)
           /\ DOMAIN Told(d, s) = DOMAIN s
           /\ \A i \in DOMAIN s : /\ Told(d, s)[i].to = s[i] /\ Told(d, s)[i].msg.pid = d
                                  /\ Told(d, s)[i].msg.status = "NOERR"
           /\ \A p \in Module : Cnt(Told(d, s), To(p)) = Cnt(s, {p})
<1> DEFINE r == Told(d, s)
<1>1. Len(s) \in Nat /\ DOMAIN s = 1 .. Len(s) /\ \A i \in DOMAIN s : s[i] \in Module
  BY SeqIs
<1>2. /\ DOMAIN r = DOMAIN s
      /\ \A i \in DOMAIN s : r[i] = Send_AskPid_Reply(s[i], d)
  BY DEF Told
<1> HIDE DEF r
<1>3. \A i \in DOMAIN s : /\ r[i].to = s[i] /\ r[i].msg.status = "NOERR"
                          /\ r[i].msg.pid = d /\ r[i] \in Replies
  BY <1>1, <1>2, ReplyIs
<1>4. r \in Seq(Replies)
  <2>1. r = [i \in 1 .. Len(s) |-> r[i]]
    BY <1>1 DEF r, Told
  <2>2. QED
    BY <1>1, <1>2, <1>3, <2>1
<1>5. ASSUME NEW p \in Module PROVE Cnt(r, To(p)) = Cnt(s, {p})
  <2>1. \A i \in DOMAIN s : s[i] \in {p} <=> r[i] \in To(p)
    BY <1>1, <1>3 DEF To
  <2>2. QED
    BY <1>2, <2>1, CntMap
<1>6. QED
  BY <1>2, <1>3, <1>4, <1>5 DEF r

\* Of the queue w of p, s is served and u is not: the first is served, and all are one
\* or the other.
Serving(p, w, s, u) ==
    /\ s \in Seq(Module) /\ u \in Seq(Module)
    /\ \A T : Cnt(s, T) + Cnt(u, T) = Cnt(w, T)
    /\ \A i \in DOMAIN u : \E j \in DOMAIN w : u[i] = w[j]
    /\ s = <<>> <=> w = <<>>
    /\ p \notin Multi \/ w = <<>> => u = <<>>
    /\ p \in Multi => Len(s) <= 1

\* Whom AddNewDriver gives a new instance to, and who stays in the queue of the driver.
LEMMA ServedIs ==
    ASSUME NEW p \in Driver, NEW w \in Seq(Module)
    PROVE  Serving(p, w, Served(p, w), Unserved(p, w))
<1> DEFINE s == Served(p, w)
           u == Unserved(p, w)
<1>0. Len(w) \in Nat /\ (w = <<>> <=> Len(w) = 0) /\ DOMAIN w = 1 .. Len(w) /\ DOMAIN <<>> = {}
  BY SeqIs
<1>1. CASE p \notin Multi
  <2>1. s = w /\ u = <<>>
    BY <1>1 DEF Served, Unserved
  <2>2. ASSUME NEW T PROVE Cnt(w, T) + Cnt(<<>>, T) = Cnt(w, T)
    <3>1. Cnt(w, T) \in Nat
      BY CntNat
    <3>2. <<>> \in Seq(Module)
      OBVIOUS
    <3>3. Cnt(<<>>, T) = 0
      BY <3>2, CntNat
    <3>4. QED
      BY <3>1, <3>3
  <2> HIDE DEF s, u
  <2>3. \A T : Cnt(s, T) + Cnt(u, T) = Cnt(w, T)
    BY <2>1, <2>2
  <2>4. <<>> \in Seq(Module)
    OBVIOUS
  <2>5. Serving(p, w, s, u)
    BY <1>0, <1>1, <2>1, <2>3, <2>4 DEF Serving
  <2>6. QED
    BY <2>5 DEF s, u
<1>2. CASE p \in Multi /\ w = <<>>
  <2>1. s = <<>> /\ u = <<>>
    BY <1>2 DEF Served, Unserved
  <2>2. <<>> \in Seq(Module) /\ Len(<<>>) = 0
    OBVIOUS
  <2>3. ASSUME NEW T PROVE Cnt(<<>>, T) = 0
    BY <2>2, CntNat
  <2> HIDE DEF s, u
  <2>4. \A T : Cnt(s, T) + Cnt(u, T) = Cnt(w, T)
    BY <1>2, <2>1, <2>3
  <2>5. Serving(p, w, s, u)
    BY <1>0, <1>2, <2>1, <2>2, <2>4 DEF Serving
  <2>6. QED
    BY <2>5 DEF s, u
<1>3. CASE p \in Multi /\ w # <<>>
  <2>1. s = SubSeq(w, 1, 1) /\ u = Tail(w)
    BY <1>3 DEF Served, Unserved
  <2>2. s = <<w[1]>> /\ Head(w) = w[1] /\ w[1] \in Module /\ s \in Seq(Module) /\ Len(s) = 1
    <3>1. Len(w) >= 1 /\ w[1] \in Module /\ Head(w) = w[1]
      BY <1>0, <1>3
    <3>2. SubSeq(w, 1, 1) = <<w[1]>>
      <4>1. SubSeq(w, 1, 1) = [i \in 1 .. 1 |-> w[i]]
        BY <1>0, <3>1
      <4>2. [i \in 1 .. 1 |-> w[i]] = <<w[1]>>
        OBVIOUS
      <4>3. QED
        BY <4>1, <4>2
    <3>3. QED
      BY <2>1, <3>1, <3>2
  <2>3. ASSUME NEW T PROVE Cnt(s, T) + Cnt(u, T) = Cnt(w, T)
    <3>1. Cnt(s, T) = One(w[1] \in T)
      BY <2>2, CntOne
    <3>2. Cnt(w, T) = Cnt(u, T) + One(w[1] \in T) /\ u \in Seq(Module)
      BY <1>3, <2>1, <2>2, CntTail
    <3>3. Cnt(u, T) \in Nat /\ One(w[1] \in T) \in Nat
      BY <3>2, CntNat DEF One
    <3>4. QED
      BY <3>1, <3>2, <3>3
  <2>4. u \in Seq(Module) /\ \A i \in DOMAIN u : \E j \in DOMAIN w : u[i] = w[j]
    BY <1>3, <2>1, CntTail
  <2>5. s # <<>>
    BY <2>2
  <2> HIDE DEF s, u
  <2>6. Serving(p, w, s, u)
    BY <1>3, <2>2, <2>3, <2>4, <2>5 DEF Serving
  <2>7. QED
    BY <2>6 DEF s, u
<1>4. QED
  BY <1>1, <1>2, <1>3

------------------------------------------------------------------------------
(* The registration of a driver *)

\* How mps sorts its boot queue when p registers: queue stays, moved goes to the driver.
Sorted(p, queue, moved) ==
    /\ queue \in Seq(Waiters) /\ moved \in Seq(Module)
    /\ \A q \in Module :
          Cnt(queue, OfPid(q)) + Cnt(moved, {q}) = Cnt(BootWaitQueue, OfPid(q))
    /\ \A i \in DOMAIN queue : \E j \in DOMAIN BootWaitQueue : queue[i] = BootWaitQueue[j]
    /\ \A i \in DOMAIN moved : \E j \in DOMAIN BootWaitQueue :
          BootWaitQueue[j].name = NameOf[p] /\ moved[i] = BootWaitQueue[j].pid
    /\ Len(queue) + Len(moved) = Len(BootWaitQueue)
    /\ \/ BootRegisterFinished
       \/ \A i \in DOMAIN queue : queue[i].name # NameOf[p]
       \/ Len(moved) = MAX_WAITQUEUE - Len(waiting[NameOf[p]])

\* What the registration does then; closing says that it ends the boot phase.
Registering(p, queue, moved, closing) ==
    LET n == NameOf[p]
        w == waiting[n] \o moved
    IN  /\ instances' = [instances EXCEPT ![n] = Append(@, [pid |-> p, in_use |-> w # <<>>])]
        /\ is_multi' = IF p \in Multi THEN is_multi \cup {n} ELSE is_multi
        /\ waiting' = [m \in Name |-> IF m = n THEN Unserved(p, w)
                                      ELSE IF closing THEN <<>> ELSE waiting[m]]
        /\ out' = (IF closing THEN CloseReplies(queue) ELSE <<>>)
                  \o <<Driver_Init_Reply(p)>> \o Told(p, Served(p, w))
        /\ BootWaitQueue' = IF closing THEN <<>> ELSE queue
        /\ BootRegisterFinished' = (BootRegisterFinished \/ closing)

\* AddNewDriver() does this, in the boot phase and later.
LEMMA RegisterIs ==
    ASSUME Typed, NEW p \in Driver, RegisterAtBoot(p) \/ RegisterLater(p)
    PROVE  \E queue, moved : \E closing \in BOOLEAN :
              Sorted(p, queue, moved) /\ Registering(p, queue, moved, closing)
<1> DEFINE n == NameOf[p]
<1>1. /\ n \in Name /\ p \in Module
      /\ BootWaitQueue \in Seq(Waiters) /\ BootRegisterFinished \in BOOLEAN
      /\ waiting \in [Name -> Seq(Module)] /\ waiting[n] \in Seq(Module)
      /\ Len(waiting[n]) \in Nat /\ MAX_WAITQUEUE \in Nat
  BY ModuleAssumption, BoundAssumption DEF Typed
<1>2. CASE RegisterAtBoot(p)
  <2> DEFINE u == Boot_UnlockWaitingProc(BootWaitQueue, n, MAX_WAITQUEUE - Len(waiting[n]))
             w == waiting[n] \o u.moved
  <2>1. ~BootRegisterFinished
    BY <1>2 DEF RegisterAtBoot
  <2>2. Sorted(p, u.queue, u.moved)
    <3>1. Unlocking(BootWaitQueue, n, MAX_WAITQUEUE - Len(waiting[n]), u) /\ Left(u) = 0
      BY <1>1, UnlockIs
    <3> HIDE DEF u
    <3>2. u \in Unlocks
      BY <3>1 DEF Unlocking
    <3>3. u.queue \in Seq(Waiters) /\ u.moved \in Seq(Module)
      BY <3>2 DEF Unlocks
    <3>4. u.c \in Nat /\ Len(u.queue) \in Nat /\ u.c = Len(u.queue) + 1
      BY <3>1, LeftNat DEF Left
    <3>5. \A i \in DOMAIN u.queue : i < u.c
      BY <3>3, <3>4, SeqIs
    <3>6. QED
      BY <3>1, <3>3, <3>5 DEF Unlocking, Sorted
  <2>3. CASE /\ BootWaitQueue' = <<>>
             /\ BootRegisterFinished' = TRUE
             /\ Install(p, w, CloseReplies(u.queue), [m \in Name |-> <<>>])
    <3>1. Registering(p, u.queue, u.moved, TRUE)
      <4> HIDE DEF u
      <4>1. waiting' = [m \in Name |-> IF m = n THEN Unserved(p, w) ELSE <<>>]
        BY <1>1, <2>3 DEF Install
      <4>2. /\ instances' = [instances EXCEPT
                                ![n] = Append(@, [pid |-> p, in_use |-> w # <<>>])]
            /\ is_multi' = IF p \in Multi THEN is_multi \cup {n} ELSE is_multi
            /\ out' = CloseReplies(u.queue) \o <<Driver_Init_Reply(p)>> \o Told(p, Served(p, w))
        BY <2>3 DEF Install, InstallOrder, Told
      <4>3. QED
        BY <2>3, <4>1, <4>2 DEF Registering
    <3>2. QED
      BY <2>2, <3>1
  <2>4. CASE /\ BootWaitQueue' = u.queue
             /\ UNCHANGED BootRegisterFinished
             /\ Install(p, w, <<>>, waiting)
    <3>1. Registering(p, u.queue, u.moved, FALSE)
      <4> HIDE DEF u
      <4>1. waiting' = [m \in Name |-> IF m = n THEN Unserved(p, w) ELSE waiting[m]]
        BY <1>1, <2>4 DEF Install
      <4>2. /\ instances' = [instances EXCEPT
                                ![n] = Append(@, [pid |-> p, in_use |-> w # <<>>])]
            /\ is_multi' = IF p \in Multi THEN is_multi \cup {n} ELSE is_multi
            /\ out' = <<>> \o <<Driver_Init_Reply(p)>> \o Told(p, Served(p, w))
        BY <2>4 DEF Install, InstallOrder, Told
      <4>3. QED
        BY <1>1, <2>4, <4>1, <4>2 DEF Registering
    <3>2. QED
      BY <2>2, <3>1
  <2>5. QED
    BY <1>2, <2>3, <2>4 DEF RegisterAtBoot
<1>3. CASE RegisterLater(p)
  <2> DEFINE w == waiting[n]
  <2>1. BootRegisterFinished /\ Install(p, w, <<>>, waiting) /\ UNCHANGED boot
    BY <1>3 DEF RegisterLater
  <2>2. w \o <<>> = w /\ <<>> \in Seq(Module) /\ Len(<<>>) = 0
    BY <1>1
  <2>3. Sorted(p, BootWaitQueue, <<>>)
    <3>1. ASSUME NEW q \in Module
          PROVE Cnt(BootWaitQueue, OfPid(q)) + Cnt(<<>>, {q}) = Cnt(BootWaitQueue, OfPid(q))
      <4>1. Cnt(BootWaitQueue, OfPid(q)) \in Nat
        BY <1>1, CntNat
      <4>2. Cnt(<<>>, {q}) = 0
        BY <2>2, CntNat
      <4>3. QED
        BY <4>1, <4>2
    <3>2. Len(BootWaitQueue) \in Nat
      BY <1>1
    <3>3. QED
      BY <1>1, <2>1, <2>2, <3>1, <3>2 DEF Sorted
  <2>4. Registering(p, BootWaitQueue, <<>>, FALSE)
    <3>1. waiting' = [m \in Name |-> IF m = n THEN Unserved(p, w) ELSE waiting[m]]
      BY <1>1, <2>1 DEF Install
    <3>2. /\ instances' = [instances EXCEPT
                              ![n] = Append(@, [pid |-> p, in_use |-> w # <<>>])]
          /\ is_multi' = IF p \in Multi THEN is_multi \cup {n} ELSE is_multi
          /\ out' = <<>> \o <<Driver_Init_Reply(p)>> \o Told(p, Served(p, w))
      BY <2>1 DEF Install, InstallOrder, Told
    <3>3. BootWaitQueue' = BootWaitQueue /\ BootRegisterFinished' = BootRegisterFinished
      BY <2>1 DEF boot
    <3>4. QED
      BY <1>1, <2>2, <3>1, <3>2, <3>3 DEF Registering
  <2>5. QED
    BY <2>3, <2>4
<1>4. QED
  BY <1>2, <1>3

\* A registration keeps the types, and answers the driver first of those it concerns.
Concerned(p, queue, closing, served) ==
    /\ out' \in Seq(Replies)
    /\ \A q \in Module : Cnt(out', To(q)) = (IF closing THEN Cnt(queue, OfPid(q)) ELSE 0)
                                            + One(q = p) + Cnt(served, {q})
    /\ \E k \in Nat \ {0} :
          /\ k \in DOMAIN out' /\ out'[k] = Driver_Init_Reply(p)
          /\ \A i \in DOMAIN out' :
                /\ i < k => closing /\ i \in DOMAIN queue
                            /\ out'[i] = Send_AskPid_Reply(queue[i].pid, NoPid)
                /\ i > k => i - k \in DOMAIN served
                            /\ out'[i] = Send_AskPid_Reply(served[i - k], p)

\* What a registration sends: the refusals of Boot_CloseBootPhase, the answer to the
\* driver, the pid of the driver to each client it serves, in this order.
LEMMA OrderIs ==
    ASSUME NEW p \in Driver, NEW queue \in Seq(Waiters), NEW closing \in BOOLEAN,
           NEW served \in Seq(Module),
           out' = (IF closing THEN CloseReplies(queue) ELSE <<>>)
                  \o <<Driver_Init_Reply(p)>> \o Told(p, served)
    PROVE  Concerned(p, queue, closing, served)
<1> DEFINE a == IF closing THEN CloseReplies(queue) ELSE <<>>
           b == <<Driver_Init_Reply(p)>>
           c == Told(p, served)
           k == Len(a) + 1
<1>0. p \in Module
  BY ModuleAssumption
<1>1. /\ a \in Seq(Replies)
      /\ \A i \in DOMAIN a : closing /\ i \in DOMAIN queue
                             /\ a[i] = Send_AskPid_Reply(queue[i].pid, NoPid)
      /\ \A q \in Module : Cnt(a, To(q)) = IF closing THEN Cnt(queue, OfPid(q)) ELSE 0
  <2>1. CASE closing
    BY <2>1, CloseIs
  <2>2. CASE ~closing
    <3>1. a = <<>> /\ a \in Seq(Replies) /\ DOMAIN a = {}
      BY <2>2
    <3> HIDE DEF a
    <3>2. \A q \in Module : Cnt(a, To(q)) = 0
      BY <3>1, CntNat
    <3>3. QED
      BY <2>2, <3>1, <3>2
  <2>3. QED
    BY <2>1, <2>2
<1>2. /\ b \in Seq(Replies) /\ Len(b) = 1 /\ b[1] = Driver_Init_Reply(p)
      /\ \A q \in Module : Cnt(b, To(q)) = One(q = p)
  <2>1. Driver_Init_Reply(p) \in Replies /\ Driver_Init_Reply(p).to = p
    BY <1>0, ReplyIs
  <2>2. ASSUME NEW q \in Module PROVE Cnt(b, To(q)) = One(q = p)
    <3>1. Cnt(b, To(q)) = One(Driver_Init_Reply(p) \in To(q))
      BY <2>1, CntOne
    <3>2. Driver_Init_Reply(p) \in To(q) <=> q = p
      BY <2>1 DEF To
    <3>3. QED
      BY <3>1, <3>2 DEF One
  <2>3. QED
    BY <2>1, <2>2
<1>3. /\ c \in Seq(Replies) /\ DOMAIN c = DOMAIN served
      /\ \A i \in DOMAIN c : c[i] = Send_AskPid_Reply(served[i], p)
      /\ \A q \in Module : Cnt(c, To(q)) = Cnt(served, {q})
  <2>1. \A i \in DOMAIN served : c[i] = Send_AskPid_Reply(served[i], p)
    BY DEF Told
  <2>2. QED
    BY <2>1, ToldIs
<1>4. out' = a \o b \o c
  OBVIOUS
<1> HIDE DEF a, b, c
<1> DEFINE ab == a \o b
<1>51. Joined(Replies, a, b, ab)
  BY <1>1, <1>2, JoinIs
<1>50. k = Len(a) + 1
  OBVIOUS
<1> HIDE DEF ab, k
<1>52. Joined(Replies, ab, c, out')
  <2>1. out' = ab \o c /\ ab \in Seq(Replies)
    BY <1>4, <1>51 DEF ab, Joined
  <2>2. QED
    BY <1>3, <2>1, JoinIs
<1>5. /\ ab \in Seq(Replies) /\ out' \in Seq(Replies)
      /\ Len(a) \in Nat /\ Len(c) \in Nat
      /\ DOMAIN a = 1 .. Len(a) /\ DOMAIN c = 1 .. Len(c)
  BY <1>51, <1>52 DEF Joined
<1>6. /\ DOMAIN out' = 1 .. Len(a) + 1 + Len(c)
      /\ \A i \in 1 .. Len(a) : out'[i] = a[i]
      /\ out'[k] = b[1]
      /\ \A i \in 1 .. Len(c) : out'[k + i] = c[i]
  <2>1. Len(ab) = k /\ ab[k] = b[1] /\ k \in Nat /\ \A i \in 1 .. Len(a) : ab[i] = a[i]
    BY <1>2, <1>50, <1>51 DEF Joined
  <2>2. DOMAIN out' = 1 .. k + Len(c) /\ \A i \in 1 .. Len(c) : out'[k + i] = c[i]
    BY <1>52, <2>1 DEF Joined
  <2>3. \A i \in 1 .. k : out'[i] = ab[i]
    BY <1>52, <2>1 DEF Joined
  <2>31. Len(a) \in Nat
    BY <1>5
  <2> DEFINE L == Len(a)
  <2> HIDE DEF L
  <2>32. k \in 1 .. k /\ \A i \in 1 .. L : i \in 1 .. k
    BY <1>50, <2>31 DEF L
  <2>4. \A i \in 1 .. Len(a) : out'[i] = a[i]
    BY <2>1, <2>3, <2>32 DEF L
  <2>5. out'[k] = b[1]
    BY <2>1, <2>3, <2>32
  <2>6. QED
    BY <1>50, <2>2, <2>4, <2>5
<1>7. ASSUME NEW q \in Module
      PROVE  Cnt(out', To(q)) = (IF closing THEN Cnt(queue, OfPid(q)) ELSE 0)
                                + One(q = p) + Cnt(served, {q})
  <2>1. Cnt(a \o b, To(q)) = Cnt(a, To(q)) + Cnt(b, To(q))
    BY <1>1, <1>2, CntJoin
  <2>2. ab \in Seq(Replies) /\ out' = ab \o c
    BY <1>4, <1>5 DEF ab
  <2>3. Cnt(ab \o c, To(q)) = Cnt(ab, To(q)) + Cnt(c, To(q))
    BY <1>3, <2>2, CntJoin
  <2>4. QED
    BY <1>1, <1>2, <1>3, <2>1, <2>2, <2>3 DEF ab
<1>8. \A i \in DOMAIN out' :
         /\ i < k => i \in DOMAIN a
         /\ i > k => i - k \in DOMAIN c /\ out'[i] = c[i - k]
  <2>1. ASSUME NEW i \in DOMAIN out', i > k PROVE i - k \in DOMAIN c /\ out'[i] = c[i - k]
    <3>1. i - k \in 1 .. Len(c) /\ k + (i - k) = i
      BY <1>5, <1>50, <1>6, <2>1
    <3>2. QED
      BY <1>5, <1>6, <3>1
  <2>2. ASSUME NEW i \in DOMAIN out', i < k PROVE i \in DOMAIN a
    BY <1>5, <1>50, <1>6, <2>2
  <2>3. QED
    BY <2>1, <2>2
<1>9. k \in Nat \ {0} /\ k \in DOMAIN out'
  BY <1>5, <1>50, <1>6
<1>10. \A i \in DOMAIN out' :
          /\ i < k => closing /\ i \in DOMAIN queue
                      /\ out'[i] = Send_AskPid_Reply(queue[i].pid, NoPid)
          /\ i > k => i - k \in DOMAIN served
                      /\ out'[i] = Send_AskPid_Reply(served[i - k], p)
  BY <1>1, <1>3, <1>5, <1>6, <1>8
<1>11. out'[k] = Driver_Init_Reply(p) /\ out' \in Seq(Replies)
  BY <1>2, <1>5, <1>6
<1>12. QED
  BY <1>7, <1>9, <1>10, <1>11 DEF Concerned

------------------------------------------------------------------------------
(* What mps does with a message *)

tables == <<instances, is_multi, waiting, BootWaitQueue, BootRegisterFinished>>

Errs(p, err) == out' = <<ReplyError(p, err)>> /\ UNCHANGED tables
Idle == out' = <<>> /\ UNCHANGED tables
Closing ==
    /\ out' = CloseReplies(BootWaitQueue)
    /\ BootWaitQueue' = <<>> /\ BootRegisterFinished' = TRUE
    /\ waiting' = [n \in Name |-> <<>>]
    /\ UNCHANGED <<instances, is_multi>>
Queuing(p) ==
    /\ Usable(Asks[p]) = {} /\ ~BootRegisterFinished
    /\ Len(BootWaitQueue) < MAX_BOOT_WAIT_QUEUE
    /\ BootWaitQueue' = Append(BootWaitQueue, [pid |-> p, name |-> Asks[p]])
    /\ out' = <<>>
    /\ UNCHANGED <<instances, is_multi, waiting, BootRegisterFinished>>
Missing(p) ==
    /\ Usable(Asks[p]) = {}
    /\ p \notin Waits \/ BootRegisterFinished \/ Len(BootWaitQueue) = MAX_BOOT_WAIT_QUEUE
    /\ Errs(p, "DRVNOTFOUND")
Registers(p) ==
    \E queue, moved : \E closing \in BOOLEAN :
        Sorted(p, queue, moved) /\ Registering(p, queue, moved, closing)

\* A handler answers an asker, with a pid or without, or queues it; registers a driver,
\* refuses it or says nothing; closes the boot phase or not.
Handling(type, p) ==
    \/ type = "ASKPID" /\ FindDriverPid(p, Asks[p])
    \/ type = "ASKPID" /\ Queuing(p)
    \/ type = "ASKPID" /\ Missing(p)
    \/ type = "INIT" /\ Registers(p)
    \/ type \in {"INIT", "TERM"} /\ \E err \in {"DRVPRESENT", "DRVNOTPRESENT"} : Errs(p, err)
    \/ type # "ASKPID" /\ type # "TERM" /\ Idle
    \/ type = "INIT_COMPLETE" /\ Closing

\* Every message in the mailbox of mps is of a known kind.
LEMMA LetterIs ==
    ASSUME NEW m \in Letters
    PROVE  /\ m.type \in {"ASKPID", "INIT", "TERM", "WAITFORDRIVER", "INIT_COMPLETE"}
           /\ m.type = "ASKPID" => m.from \in Module /\ Asks[m.from] \in Name
           /\ m.type = "INIT" => m.from \in Driver
           /\ m.type = "TERM" => m.from \in Module
           /\ m.type # "INIT_COMPLETE" => m.from \in Module
           /\ m = [type |-> m.type, from |-> m.from]
  BY ModuleAssumption DEF Letters

\* What mps does with the message it receives, whatever the message is.
LEMMA HandleIs ==
    ASSUME Typed, Handle
    PROVE  /\ out = <<>> /\ inbox # <<>> /\ inbox' = Tail(inbox)
           /\ UNCHANGED <<init, modules>>
           /\ Head(inbox) \in Letters
           /\ Handling(Head(inbox).type, Head(inbox).from)
<1> DEFINE m == Head(inbox)
           p == m.from
<1>1. /\ out = <<>> /\ inbox # <<>> /\ inbox' = Tail(inbox)
      /\ UNCHANGED <<init, modules>>
      /\ \/ m.type = "ASKPID" /\ Program_AskPid(p)
         \/ m.type = "INIT" /\ Driver_Init(p)
         \/ m.type = "TERM" /\ Driver_Term(p)
         \/ m.type = "WAITFORDRIVER" /\ Boot_AddDriver(p)
         \/ m.type = "INIT_COMPLETE" /\ Boot_Complete
  BY DEF Handle
<1>2. m \in Letters
  <2>1. inbox \in Seq(Letters)
    BY DEF Typed
  <2>2. QED
    BY <1>1, <2>1, CntTail
<1>20. SUFFICES Handling(m.type, p)
  BY <1>1, <1>2
<1> HIDE DEF m
<1>3. CASE m.type = "ASKPID" /\ Program_AskPid(p)
  <2>1. CASE FindDriverPid(p, Asks[p])
    BY <1>3, <2>1 DEF Handling
  <2>2. CASE Usable(Asks[p]) = {} /\ p \in Waits /\ Boot_WaitForDriver(p, Asks[p])
    <3>1. Queuing(p)
      BY <2>2 DEF Boot_WaitForDriver, Queuing, registry
    <3>2. QED
      BY <1>3, <3>1 DEF Handling
  <2>3. CASE /\ Usable(Asks[p]) = {}
             /\ p \notin Waits \/ BootRegisterFinished
                               \/ Len(BootWaitQueue) = MAX_BOOT_WAIT_QUEUE
             /\ NotFound(p)
    <3>1. Errs(p, "DRVNOTFOUND")
      BY <2>3 DEF NotFound, Errs, tables, registry, boot
    <3>2. Missing(p)
      BY <2>3, <3>1 DEF Missing
    <3>3. QED
      BY <1>3, <3>2 DEF Handling
  <2>4. QED
    BY <1>3, <2>1, <2>2, <2>3 DEF Program_AskPid
<1>4. CASE m.type = "INIT" /\ Driver_Init(p)
  <2>1. CASE out' = <<>> /\ UNCHANGED <<registry, boot>>
    <3>1. Idle
      BY <2>1 DEF Idle, tables, registry, boot
    <3>2. QED
      BY <1>4, <3>1 DEF Handling
  <2>2. CASE out' = <<ReplyError(p, "DRVPRESENT")>> /\ UNCHANGED <<registry, boot>>
    <3>1. Errs(p, "DRVPRESENT")
      BY <2>2 DEF Errs, tables, registry, boot
    <3>2. QED
      BY <1>4, <3>1 DEF Handling
  <2>3. CASE RegisterAtBoot(p) \/ RegisterLater(p)
    <3>1. p \in Driver
      BY <1>2, <1>4, LetterIs
    <3>2. Registers(p)
      BY <2>3, <3>1, RegisterIs DEF Registers
    <3>3. QED
      BY <1>4, <3>2 DEF Handling
  <2>4. QED
    BY <1>4, <2>1, <2>2, <2>3 DEF Driver_Init
<1>5. CASE m.type = "TERM" /\ Driver_Term(p)
  <2>1. Errs(p, "DRVNOTPRESENT")
    BY <1>5 DEF Driver_Term, Errs, tables, registry, boot
  <2>2. QED
    BY <1>5, <2>1 DEF Handling
<1>6. CASE m.type = "WAITFORDRIVER" /\ Boot_AddDriver(p)
  <2>1. Idle
    BY <1>6 DEF Boot_AddDriver, Idle, tables, registry
  <2>2. QED
    BY <1>6, <2>1 DEF Handling
<1>7. CASE m.type = "INIT_COMPLETE" /\ Boot_Complete
  <2>1. Idle \/ Closing
    BY <1>7 DEF Boot_Complete, Idle, Closing, tables
  <2>2. QED
    BY <1>7, <2>1 DEF Handling
<1>8. QED
  BY <1>1, <1>3, <1>4, <1>5, <1>6, <1>7

\* Nothing about the instances changes but that the i-th of n is in use now.
Marked(n, i) ==
    /\ instances' \in [Name -> Seq(Instances)]
    /\ \A m \in Name :
          /\ DOMAIN instances'[m] = DOMAIN instances[m]
          /\ instances'[m] = <<>> <=> instances[m] = <<>>
          /\ \A j \in DOMAIN instances[m] :
                /\ instances'[m][j].pid = instances[m][j].pid
                /\ instances'[m][j].in_use <=> instances[m][j].in_use \/ (m = n /\ j = i)

Finding(p, n, i) ==
    /\ i \in Usable(n) /\ i \in DOMAIN instances[n] /\ instances[n][i].pid \in Driver
    /\ ~(n \in is_multi /\ instances[n][i].in_use)
    /\ Marked(n, i)
    /\ out' = <<Send_AskPid_Reply(p, instances[n][i].pid)>>
    /\ UNCHANGED <<is_multi, waiting, BootWaitQueue, BootRegisterFinished>>

\* FindDriverPid() gives p an instance that is usable, and marks it.
LEMMA FindIs ==
    ASSUME Typed, NEW p \in Module, NEW n \in Name, FindDriverPid(p, n)
    PROVE  \E i \in Usable(n) : Finding(p, n, i)
<1> DEFINE i == FirstOf(Usable(n))
           I == instances[n]
<1>1. /\ Usable(n) # {}
      /\ instances' = [instances EXCEPT ![n][i].in_use = TRUE]
      /\ out' = <<Send_AskPid_Reply(p, instances[n][i].pid)>>
      /\ UNCHANGED <<is_multi, waiting, BootWaitQueue, BootRegisterFinished>>
  BY DEF FindDriverPid, boot
<1>2. I \in Seq(Instances) /\ instances \in [Name -> Seq(Instances)]
  BY DEF Typed
<1>3. DOMAIN I = 1 .. Len(I) /\ Len(I) \in Nat /\ \A j \in DOMAIN I : I[j] \in Instances
  BY <1>2, SeqIs
<1>4. i \in Usable(n)
  <2>1. Usable(n) \in SUBSET Nat
    BY <1>3 DEF Usable
  <2>2. QED
    BY <1>1, <2>1, LeastExists DEF FirstOf
<1> HIDE DEF i
<1>5. i \in DOMAIN I /\ ~(n \in is_multi /\ I[i].in_use) /\ I[i].pid \in Driver
  BY <1>3, <1>4 DEF Usable, Instances
<1> DEFINE J == [I EXCEPT ![i].in_use = TRUE]
<1>6. /\ J \in Seq(Instances) /\ DOMAIN J = DOMAIN I
      /\ \A j \in DOMAIN I : /\ J[j].pid = I[j].pid
                             /\ J[j].in_use <=> I[j].in_use \/ j = i
  <2>1. \A x \in Instances : /\ [x EXCEPT !.in_use = TRUE] \in Instances
                             /\ [x EXCEPT !.in_use = TRUE].pid = x.pid
                             /\ [x EXCEPT !.in_use = TRUE].in_use = TRUE
                             /\ x.in_use \in BOOLEAN
    BY DEF Instances
  <2>2. J = [I EXCEPT ![i] = [I[i] EXCEPT !.in_use = TRUE]]
    OBVIOUS
  <2> DEFINE x == [I[i] EXCEPT !.in_use = TRUE]
  <2>3. x \in Instances /\ x.pid = I[i].pid /\ x.in_use = TRUE
    BY <1>3, <1>5, <2>1
  <2> HIDE DEF x, J
  <2>4. J = [I EXCEPT ![i] = x]
    BY <2>2 DEF x
  <2>5. DOMAIN J = DOMAIN I /\ \A j \in DOMAIN I : J[j] = IF j = i THEN x ELSE I[j]
    BY <1>3, <1>5, <2>4
  <2>6. J \in Seq(Instances)
    BY <1>2, <1>3, <1>5, <2>3, <2>4
  <2>7. QED
    BY <1>3, <1>5, <2>1, <2>3, <2>5, <2>6
<1>7. instances' = [instances EXCEPT ![n] = J]
  BY <1>1
<1> HIDE DEF J
<1>8. Marked(n, i)
  <2>1. \A m \in Name : instances'[m] = IF m = n THEN J ELSE instances[m]
    BY <1>2, <1>7
  <2>2. instances' \in [Name -> Seq(Instances)]
    BY <1>2, <1>6, <1>7
  <2>3. ASSUME NEW m \in Name
        PROVE  /\ DOMAIN instances'[m] = DOMAIN instances[m]
               /\ instances'[m] = <<>> <=> instances[m] = <<>>
    <3>1. DOMAIN instances'[m] = DOMAIN instances[m]
      BY <1>6, <2>1
    <3>2. instances'[m] \in Seq(Instances) /\ instances[m] \in Seq(Instances)
      BY <1>2, <2>2
    <3>3. \A s \in Seq(Instances) : s = <<>> <=> DOMAIN s = {}
      OBVIOUS
    <3>4. QED
      BY <3>1, <3>2, <3>3
  <2>4. ASSUME NEW m \in Name, NEW j \in DOMAIN instances[m]
        PROVE  /\ instances'[m][j].pid = instances[m][j].pid
               /\ instances'[m][j].in_use <=> instances[m][j].in_use \/ (m = n /\ j = i)
    BY <1>6, <2>1
  <2>5. QED
    BY <2>2, <2>3, <2>4 DEF Marked
<1>9. QED
  BY <1>1, <1>4, <1>5, <1>8 DEF Finding

\* The instances of the names but that p is a new one of its name, given away or not.
Grown(p, given) ==
    LET n == NameOf[p]
    IN  /\ instances' \in [Name -> Seq(Instances)]
        /\ \A m \in Name \ {n} : instances'[m] = instances[m]
        /\ Len(instances[n]) \in Nat
        /\ DOMAIN instances[n] = 1 .. Len(instances[n])
        /\ DOMAIN instances'[n] = 1 .. Len(instances[n]) + 1
        /\ \A i \in DOMAIN instances[n] : instances'[n][i] = instances[n][i]
        /\ instances'[n][Len(instances[n]) + 1] = [pid |-> p, in_use |-> given]
        /\ instances'[n] # <<>>

\* What a registration does to the tables.
Entering(p, queue, moved, closing, w, served, unserved) ==
    /\ w = waiting[NameOf[p]] \o moved /\ w \in Seq(Module)
    /\ \A T : Cnt(w, T) = Cnt(waiting[NameOf[p]], T) + Cnt(moved, T)
    /\ \A i \in DOMAIN w : \/ \E j \in DOMAIN waiting[NameOf[p]] : w[i] = waiting[NameOf[p]][j]
                           \/ \E j \in DOMAIN moved : w[i] = moved[j]
    /\ Serving(p, w, served, unserved)
    /\ Grown(p, w # <<>>)
    /\ is_multi' = IF p \in Multi THEN is_multi \cup {NameOf[p]} ELSE is_multi
    /\ waiting' = [m \in Name |-> IF m = NameOf[p] THEN unserved
                                  ELSE IF closing THEN <<>> ELSE waiting[m]]
    /\ Concerned(p, queue, closing, served)
    /\ BootWaitQueue' = IF closing THEN <<>> ELSE queue
    /\ BootRegisterFinished' = (BootRegisterFinished \/ closing)

\* AddNewDriver(): the tables after a registration, in terms of who is moved and served.
LEMMA EnterIs ==
    ASSUME Typed, NEW p \in Driver, NEW queue, NEW moved, NEW closing \in BOOLEAN,
           Sorted(p, queue, moved), Registering(p, queue, moved, closing)
    PROVE  \E w, served, unserved : Entering(p, queue, moved, closing, w, served, unserved)
<1> DEFINE n == NameOf[p]
           v == waiting[n]
           w == v \o moved
           s == Served(p, w)
           u == Unserved(p, w)
           I == instances[n]
           x == [pid |-> p, in_use |-> w # <<>>]
<1>1. /\ n \in Name /\ v \in Seq(Module) /\ moved \in Seq(Module) /\ queue \in Seq(Waiters)
      /\ I \in Seq(Instances) /\ instances \in [Name -> Seq(Instances)]
  BY ModuleAssumption DEF Typed, Sorted
<1>2. /\ instances' = [instances EXCEPT ![n] = Append(I, x)]
      /\ is_multi' = IF p \in Multi THEN is_multi \cup {n} ELSE is_multi
      /\ waiting' = [m \in Name |-> IF m = n THEN u
                                    ELSE IF closing THEN <<>> ELSE waiting[m]]
      /\ out' = (IF closing THEN CloseReplies(queue) ELSE <<>>)
                  \o <<Driver_Init_Reply(p)>> \o Told(p, s)
      /\ BootWaitQueue' = IF closing THEN <<>> ELSE queue
      /\ BootRegisterFinished' = (BootRegisterFinished \/ closing)
  BY <1>1 DEF Registering
<1>3. Joined(Module, v, moved, w)
  BY <1>1, JoinIs
<1>4. \A T : Cnt(w, T) = Cnt(v, T) + Cnt(moved, T)
  BY <1>1, CntJoin
<1>5. w \in Seq(Module) /\ x \in Instances /\ x = [pid |-> p, in_use |-> w # <<>>]
  BY <1>3 DEF Joined, Instances
<1>6. \A i \in DOMAIN w : \/ \E j \in DOMAIN v : w[i] = v[j]
                          \/ \E j \in DOMAIN moved : w[i] = moved[j]
  <2> HIDE DEF w, v
  <2>1. QED
    BY <1>3 DEF Joined
<1>7. Serving(p, w, s, u)
  <2> HIDE DEF w
  <2>1. QED
    BY <1>5, ServedIs
<1> HIDE DEF s, u, x
<1>8. Concerned(p, queue, closing, s)
  <2>1. s \in Seq(Module)
    BY <1>7 DEF Serving
  <2>2. QED
    BY <1>1, <1>2, <2>1, OrderIs
<1>9. Grown(p, w # <<>>)
  <2>1. Append(I, x) = I \o <<x>> /\ <<x>> \in Seq(Instances) /\ Len(<<x>>) = 1
    <3> HIDE DEF I
    <3>1. I \in Seq(Instances) /\ x \in Instances
      BY <1>1, <1>5 DEF I
    <3>2. QED
      BY <3>1
  <2>2. Joined(Instances, I, <<x>>, Append(I, x))
    BY <1>1, <2>1, JoinIs
  <2> DEFINE J == Append(I, x)
             L == Len(I)
  <2> HIDE DEF J, L
  <2>3. /\ J \in Seq(Instances) /\ L \in Nat /\ DOMAIN I = 1 .. L /\ DOMAIN J = 1 .. L + 1
        /\ Len(J) = L + 1 /\ \A i \in DOMAIN I : J[i] = I[i]
    BY <2>1, <2>2 DEF Joined, J, L
  <2>4. J[L + 1] = x
    BY <1>1, <1>5 DEF J, L
  <2>5. instances' \in [Name -> Seq(Instances)] /\ instances'[n] = J
        /\ \A m \in Name \ {n} : instances'[m] = instances[m]
    BY <1>1, <1>2, <2>3 DEF J
  <2>6. J # <<>>
    BY <2>3
  <2>7. QED
    BY <1>5, <2>3, <2>4, <2>5, <2>6 DEF Grown, L
<1>10. Entering(p, queue, moved, closing, w, s, u)
  <2> HIDE DEF w
  <2>1. w = waiting[NameOf[p]] \o moved
    BY DEF w
  <2>2. QED
    BY <1>2, <1>4, <1>5, <1>6, <1>7, <1>8, <1>9, <2>1 DEF Entering
<1>11. QED
  BY <1>10

------------------------------------------------------------------------------
(* The types, and where the modules stand *)

Asked(p) == [type : {"ASKPID"}, from : {p}]
Inits(p) == [type : {"INIT"}, from : {p}]
Terms(p) == [type : {"TERM"}, from : {p}]

\* Who asks asks for something, who registers is a driver, a module not yet started is
\* off, and TERM comes from the dead.
Stations ==
    /\ \A p \in Module : pc[p] \in {"ask", "asked"} => Asks[p] \in Name
    /\ \A p \in Module : pc[p] \in {"register", "starting", "serving"} => p \in Driver
    /\ \A i \in DOMAIN image : i > started => pc[image[i]] = "off"
    /\ \A i \in DOMAIN inbox : inbox[i].type = "TERM" => pc[inbox[i].from] = "exited"

TypeInv == Typed /\ Stations

\* What a module receives.
LEMMA MailIs ==
    ASSUME NEW m \in Mails
    PROVE  /\ m.status = "NOERR" /\ m.type = "ASKPID_REPLY" => m \in Telling
           /\ m \in Telling => /\ m.pid \in Driver /\ m.status = "NOERR"
                               /\ m.type = "ASKPID_REPLY" /\ m \notin Requests
           /\ m \in Refusing => m.pid = NoPid /\ m \notin Telling /\ m \notin Requests
           /\ m \in Requests <=> m.type = "REQUEST"
<1>1. NoPid \notin Driver
  BY ModuleAssumption
<1>2. CASE m \in Telling
  BY <1>1, <1>2 DEF Telling, Refusing, Requests
<1>3. CASE m \in Refusing
  BY <1>1, <1>3 DEF Telling, Refusing, Requests, Statuses
<1>4. CASE m \in Requests
  BY <1>1, <1>4 DEF Telling, Refusing, Requests
<1>5. QED
  BY <1>2, <1>3, <1>4 DEF Mails

\* What mps sends.
LEMMA ReplyKinds ==
    ASSUME NEW r \in Replies
    PROVE  /\ r.to \in Module /\ r.msg \in Mails /\ r.msg \notin Requests
           /\ r.msg \in Telling \/ r.msg.pid = NoPid
           /\ r.msg \in Telling <=> r.msg.pid \in Driver
<1>1. r.to \in Module /\ r.msg \in Telling \cup Refusing
  BY DEF Replies
<1>2. r.msg \in Mails
  BY <1>1 DEF Mails
<1>3. NoPid \notin Driver
  BY ModuleAssumption
<1>4. QED
  BY <1>1, <1>2, <1>3, MailIs

\* At the start the mailboxes and the queues are empty and nothing has started.
LEMMA TypeInit == Init => TypeInv
<1> SUFFICES ASSUME Init PROVE TypeInv
  OBVIOUS
<1>1. image \in Seq(Module) /\ IsInjective(image)
  BY ModuleAssumption DEF Init
<1>2. Len(image) \in Nat /\ DOMAIN image = 1 .. Len(image) /\ \A i \in DOMAIN image : image[i] \in Module
  BY <1>1, SeqIs
<1>3. Typed
  <2>1. \A S : <<>> \in Seq(S)
    OBVIOUS
  <2>2. started \in 0 .. Len(image) /\ announced \in Nat
    BY <1>2 DEF Init
  <2>3. pc \in [Module -> PCs] /\ got \in [Module -> Driver \cup {NoPid}]
    BY DEF Init, PCs
  <2>4. /\ mail \in [Module -> Seq(Mails)] /\ instances \in [Name -> Seq(Instances)]
        /\ waiting \in [Name -> Seq(Module)]
    BY <2>1 DEF Init
  <2>5. /\ inbox \in Seq(Letters) /\ out \in Seq(Replies) /\ BootWaitQueue \in Seq(Waiters)
        /\ is_multi \subseteq Name /\ BootRegisterFinished \in BOOLEAN
    BY <2>1 DEF Init
  <2>6. QED
    BY <1>1, <2>2, <2>3, <2>4, <2>5 DEF Typed
<1>4. Stations
  BY <1>2 DEF Init, Stations
<1>5. QED
  BY <1>3, <1>4 DEF TypeInv

\* A handler of mps keeps the types.
LEMMA HandleTypes ==
    ASSUME TypeInv, Handle
    PROVE  TypeInv'
<1> DEFINE m == Head(inbox)
           p == m.from
<1>1. /\ out = <<>> /\ inbox # <<>> /\ inbox' = Tail(inbox)
      /\ UNCHANGED <<image, started, announced, pc, got, mail>>
      /\ m \in Letters /\ Handling(m.type, p)
  BY HandleIs DEF TypeInv, init, modules
<1> HIDE DEF m
<1>2. inbox' \in Seq(Letters) /\ \A i \in DOMAIN inbox' : \E j \in DOMAIN inbox : inbox'[i] = inbox[j]
  <2>1. inbox \in Seq(Letters)
    BY DEF TypeInv, Typed
  <2>2. QED
    BY <1>1, <2>1, CntTail
<1>3. Stations'
  <2>1. Stations
    BY DEF TypeInv
  <2>2. \A q \in Module : pc'[q] \in {"ask", "asked"} => Asks[q] \in Name
    BY <1>1, <2>1 DEF Stations
  <2>3. \A q \in Module : pc'[q] \in {"register", "starting", "serving"} => q \in Driver
    BY <1>1, <2>1 DEF Stations
  <2>4. \A i \in DOMAIN image' : i > started' => pc'[image'[i]] = "off"
    BY <1>1, <2>1 DEF Stations
  <2>5. \A i \in DOMAIN inbox' : inbox'[i].type = "TERM" => pc'[inbox'[i].from] = "exited"
    BY <1>1, <1>2, <2>1 DEF Stations
  <2>6. QED
    BY <2>2, <2>3, <2>4, <2>5 DEF Stations
<1>4. /\ instances \in [Name -> Seq(Instances)] /\ is_multi \subseteq Name
      /\ waiting \in [Name -> Seq(Module)] /\ BootWaitQueue \in Seq(Waiters)
      /\ BootRegisterFinished \in BOOLEAN
  BY DEF TypeInv, Typed
<1> DEFINE Goal == /\ out' \in Seq(Replies)
                   /\ instances' \in [Name -> Seq(Instances)] /\ is_multi' \subseteq Name
                   /\ waiting' \in [Name -> Seq(Module)] /\ BootWaitQueue' \in Seq(Waiters)
                   /\ BootRegisterFinished' \in BOOLEAN
<1>5. Goal
  <2>1. CASE m.type = "ASKPID" /\ FindDriverPid(p, Asks[p])
    <3>1. p \in Module /\ Asks[p] \in Name
      BY <1>1, <2>1, LetterIs
    <3>2. PICK i \in Usable(Asks[p]) : Finding(p, Asks[p], i)
      BY <2>1, <3>1, FindIs DEF TypeInv
    <3>3. Send_AskPid_Reply(p, instances[Asks[p]][i].pid) \in Replies
      BY <3>1, <3>2, ReplyIs DEF Finding
    <3>4. QED
      BY <1>4, <3>2, <3>3 DEF Finding, Marked
  <2>2. CASE m.type = "ASKPID" /\ Queuing(p)
    <3>1. p \in Module /\ Asks[p] \in Name
      BY <1>1, <2>2, LetterIs
    <3>2. [pid |-> p, name |-> Asks[p]] \in Waiters
      BY <3>1 DEF Waiters
    <3>3. QED
      BY <1>4, <2>2, <3>2 DEF Queuing
  <2>3. ASSUME p \in Module, NEW err \in {"DRVPRESENT", "DRVNOTPRESENT", "DRVNOTFOUND"},
               Errs(p, err)
        PROVE  Goal
    <3>1. ReplyError(p, err) \in Replies
      BY <2>3, ReplyIs
    <3>2. QED
      BY <1>4, <2>3, <3>1 DEF Errs, tables
  <2>4. CASE m.type = "INIT" /\ Registers(p)
    <3>1. p \in Driver
      BY <1>1, <2>4, LetterIs
    <3>2. PICK queue, moved : \E closing \in BOOLEAN :
             Sorted(p, queue, moved) /\ Registering(p, queue, moved, closing)
      BY <2>4 DEF Registers
    <3>3. PICK closing \in BOOLEAN : Sorted(p, queue, moved) /\ Registering(p, queue, moved, closing)
      BY <3>2
    <3>4. PICK w, served, unserved : Entering(p, queue, moved, closing, w, served, unserved)
      BY <3>1, <3>3, EnterIs DEF TypeInv
    <3>5. unserved \in Seq(Module) /\ out' \in Seq(Replies) /\ NameOf[p] \in Name
      BY <3>1, <3>4, ModuleAssumption DEF Entering, Serving, Concerned
    <3>6. instances' \in [Name -> Seq(Instances)] /\ is_multi' \subseteq Name
      BY <1>4, <3>4, <3>5 DEF Entering, Grown
    <3>7. waiting' \in [Name -> Seq(Module)]
      BY <1>4, <3>4, <3>5 DEF Entering
    <3>8. BootWaitQueue' \in Seq(Waiters) /\ BootRegisterFinished' \in BOOLEAN
      BY <1>4, <3>3, <3>4, SMTT(40) DEF Entering, Sorted
    <3>9. QED
      BY <3>5, <3>6, <3>7, <3>8
  <2>5. CASE Idle
    BY <1>4, <2>5 DEF Idle, tables
  <2>6. CASE Closing
    BY <1>4, <2>6, CloseIs DEF Closing
  <2>7. m.type \in {"ASKPID", "INIT", "TERM"} => p \in Module
    BY <1>1, LetterIs
  <2>8. QED
    BY <1>1, <2>1, <2>2, <2>3, <2>4, <2>5, <2>6, <2>7 DEF Handling, Missing
<1>6. Typed'
  BY <1>1, <1>2, <1>5 DEF TypeInv, Typed
<1>7. QED
  BY <1>3, <1>6 DEF TypeInv

\* A message sent to mps.
LEMMA ToMPSIs ==
    ASSUME inbox \in Seq(Letters), NEW m \in Letters, inbox' = Append(inbox, m)
    PROVE  /\ inbox' \in Seq(Letters)
           /\ \A i \in DOMAIN inbox' : inbox'[i] = m \/ \E j \in DOMAIN inbox : inbox'[i] = inbox[j]
           /\ \A T : Cnt(inbox', T) = Cnt(inbox, T) + One(m \in T)
<1>1. inbox' = inbox \o <<m>> /\ <<m>> \in Seq(Letters)
  OBVIOUS
<1>2. Joined(Letters, inbox, <<m>>, inbox')
  BY <1>1, JoinIs
<1>3. \A T : Cnt(inbox', T) = Cnt(inbox, T) + One(m \in T)
  BY CntAppend
<1>4. \A i \in DOMAIN <<m>> : <<m>>[i] = m
  OBVIOUS
<1> DEFINE t == <<m>>
<1> HIDE DEF t
<1>5. Joined(Letters, inbox, t, inbox') /\ \A i \in DOMAIN t : t[i] = m
  BY <1>2, <1>4 DEF t
<1>6. QED
  BY <1>3, <1>5 DEF Joined

\* What init does keeps the types.
LEMMA RunModulesTypes ==
    ASSUME TypeInv, RunModules
    PROVE  TypeInv'
<1>0. /\ Typed /\ Stations /\ inbox \in Seq(Letters) /\ image \in Seq(Module)
      /\ Len(image) \in Nat /\ DOMAIN image = 1 .. Len(image)
      /\ started \in 0 .. Len(image) /\ announced \in Nat /\ pc \in [Module -> PCs]
      /\ \A i \in DOMAIN image : image[i] \in Module
      /\ \A i \in DOMAIN inbox : inbox[i] \in Letters
  <2>1. Typed /\ Stations
    BY DEF TypeInv
  <2>2. /\ image \in Seq(Module) /\ inbox \in Seq(Letters) /\ pc \in [Module -> PCs]
        /\ started \in 0 .. Len(image) /\ announced \in Nat
    BY <2>1 DEF Typed
  <2>3. QED
    BY <2>1, <2>2, SeqIs
<1>1. CASE StartModule
  <2> DEFINE p == image[started + 1]
  <2>1. /\ started < Len(image) /\ started' = started + 1
        /\ announced' \in {announced, started + 1}
        /\ pc' = [pc EXCEPT ![p] = Asking(p)]
        /\ UNCHANGED <<image, got, mail, inbox, out, registry, boot>>
    BY <1>1 DEF StartModule
  <2>2. started + 1 \in DOMAIN image /\ p \in Module /\ pc[p] = "off"
    BY <1>0, <2>1 DEF Stations
  <2> HIDE DEF p
  <2>3. \A q \in Module : pc'[q] = IF q = p THEN Asking(p) ELSE pc[q]
    BY <1>0, <2>1, <2>2
  <2>4. /\ Asking(p) \in {"ask", "register", "done"}
        /\ Asking(p) = "ask" => Asks[p] \in Name
        /\ Asking(p) = "register" => p \in Driver
    BY <2>2, ModuleAssumption DEF Asking
  <2>5. Typed'
    <3>1. pc' \in [Module -> PCs]
      BY <1>0, <2>1, <2>2, <2>4 DEF PCs
    <3>2. started' \in 0 .. Len(image') /\ announced' \in Nat
      BY <1>0, <2>1
    <3>3. QED
      BY <1>0, <2>1, <3>1, <3>2 DEF Typed, registry, boot
  <2>6. Stations'
    <3>1. ASSUME NEW i \in DOMAIN image', i > started' PROVE pc'[image'[i]] = "off"
      <4>1. i \in DOMAIN image /\ i > started /\ i # started + 1 /\ image[i] \in Module
        BY <1>0, <2>1, <3>1
      <4>2. image[i] # p
        BY <1>0, <2>2, <4>1 DEF p, Typed, IsInjective
      <4>3. pc[image[i]] = "off"
        BY <1>0, <4>1 DEF Stations
      <4>4. QED
        BY <2>1, <2>3, <4>1, <4>2, <4>3
    <3>2. ASSUME NEW i \in DOMAIN inbox', inbox'[i].type = "TERM"
          PROVE  pc'[inbox'[i].from] = "exited"
      <4>1. inbox[i] \in Letters /\ inbox'[i] = inbox[i] /\ pc[inbox[i].from] = "exited"
        BY <1>0, <2>1, <3>2 DEF Stations
      <4>2. inbox[i].from \in Module
        BY <2>1, <3>2, <4>1, LetterIs
      <4>3. QED
        BY <2>2, <2>3, <4>1, <4>2
    <3>3. \A q \in Module : pc'[q] \in {"ask", "asked"} => Asks[q] \in Name
      BY <1>0, <2>3, <2>4 DEF Stations
    <3>4. \A q \in Module : pc'[q] \in {"register", "starting", "serving"} => q \in Driver
      BY <1>0, <2>3, <2>4 DEF Stations
    <3>5. QED
      BY <3>1, <3>2, <3>3, <3>4 DEF Stations
  <2>7. QED
    BY <2>5, <2>6 DEF TypeInv
<1>2. CASE Announce \/ Complete
  <2>1. /\ UNCHANGED <<image, started, modules, out, registry, boot>>
        /\ announced' \in Nat
        /\ \E m \in Letters : m.type # "TERM" /\ inbox' = Append(inbox, m)
    <3>1. CASE Announce
      <4>1. image[started] \in Module
        BY <1>0, <3>1 DEF Announce
      <4>2. [type |-> "WAITFORDRIVER", from |-> image[started]] \in Letters
        BY <4>1 DEF Letters
      <4>3. QED
        BY <1>0, <3>1, <4>2 DEF Announce, ToMPS
    <3>2. CASE Complete
      <4>1. [type |-> "INIT_COMPLETE", from |-> NoPid] \in Letters
        BY DEF Letters
      <4>2. QED
        BY <1>0, <3>2, <4>1 DEF Complete, ToMPS
    <3>3. QED
      BY <1>2, <3>1, <3>2
  <2>2. PICK m \in Letters : m.type # "TERM" /\ inbox' = Append(inbox, m)
    BY <2>1
  <2>3. /\ inbox' \in Seq(Letters)
        /\ \A i \in DOMAIN inbox' : inbox'[i] = m \/ \E j \in DOMAIN inbox : inbox'[i] = inbox[j]
    BY <1>0, <2>2, ToMPSIs
  <2>4. Typed'
    BY <1>0, <2>1, <2>3 DEF Typed, modules, registry, boot
  <2>5. Stations'
    <3>1. \A i \in DOMAIN inbox' : inbox'[i].type = "TERM" => pc'[inbox'[i].from] = "exited"
      BY <1>0, <2>1, <2>2, <2>3 DEF Stations, modules
    <3>2. QED
      BY <1>0, <2>1, <3>1 DEF Stations, modules
  <2>6. QED
    BY <2>4, <2>5 DEF TypeInv
<1>3. QED
  BY <1>1, <1>2 DEF RunModules

\* So does what mps sends.
LEMMA SendTypes ==
    ASSUME TypeInv, Send
    PROVE  TypeInv'
<1> DEFINE r == Head(out)
<1>1. /\ out # <<>> /\ out' = Tail(out)
      /\ mail' = [mail EXCEPT ![r.to] = IF pc[r.to] = "exited" THEN @ ELSE Append(@, r.msg)]
      /\ UNCHANGED <<init, pc, got, inbox, registry, boot>>
  BY DEF Send
<1>2. Typed /\ Stations /\ out \in Seq(Replies) /\ mail \in [Module -> Seq(Mails)]
  BY DEF TypeInv, Typed
<1>3. r \in Replies /\ out' \in Seq(Replies)
  BY <1>1, <1>2, CntTail
<1> HIDE DEF r
<1>4. r.to \in Module /\ r.msg \in Mails
  BY <1>3, ReplyKinds
<1>5. mail' \in [Module -> Seq(Mails)]
  BY <1>1, <1>2, <1>4
<1>6. Typed'
  BY <1>1, <1>2, <1>3, <1>5 DEF Typed, init, registry, boot
<1>7. Stations'
  BY <1>1, <1>2 DEF Stations, init
<1>8. QED
  BY <1>6, <1>7 DEF TypeInv

Request(p) == [type |-> "REQUEST", status |-> "NOERR", pid |-> p]

\* p has read its mail and learnt of d, to whom it sends a request.
Learning(p, d) ==
    /\ Head(mail[p]) \in Telling /\ Head(mail[p]).pid = d /\ d \in Driver
    /\ got' = [got EXCEPT ![p] = d]
    /\ pc' = [pc EXCEPT ![p] = Afterwards(p)]
    /\ mail' \in [Module -> Seq(Mails)]
    /\ \A q \in Module \ {p, d} : mail'[q] = mail[q]
    /\ p # d => mail'[p] = Tail(mail[p])
    /\ p # d => mail'[d] = IF pc[d] = "exited" THEN mail[d] ELSE Append(mail[d], Request(p))

\* p has read that there is no such driver.
Despairing(p) ==
    /\ Head(mail[p]) \notin Telling
    /\ pc' = [pc EXCEPT ![p] = IF p \in Driver THEN "exited" ELSE "done"]
    /\ mail' = [mail EXCEPT ![p] = Tail(@)]
    /\ UNCHANGED got

\* Who has asked takes the first message it finds for the answer.
LEMMA AnsweredIs ==
    ASSUME Typed, NEW p \in Module, Answered(p)
    PROVE  /\ pc[p] = "asked" /\ mail[p] # <<>> /\ mail[p] \in Seq(Mails)
           /\ Head(mail[p]) \in Mails /\ mail' \in [Module -> Seq(Mails)]
           /\ UNCHANGED <<init, inbox, out, registry, boot>>
           /\ Despairing(p) \/ \E d \in Driver : Learning(p, d)
<1> DEFINE m == Head(mail[p])
           taken == [mail EXCEPT ![p] = Tail(@)]
<1>1. /\ pc[p] = "asked" /\ mail[p] # <<>>
      /\ UNCHANGED <<init, inbox, out, registry, boot>>
      /\ \/ /\ m.status = "NOERR" /\ m.type = "ASKPID_REPLY"
            /\ got' = [got EXCEPT ![p] = m.pid]
            /\ pc' = [pc EXCEPT ![p] = Afterwards(p)]
            /\ mail' = IF pc[m.pid] = "exited" THEN taken
                       ELSE [taken EXCEPT ![m.pid] = Append(@, Request(p))]
         \/ /\ m.status # "NOERR" \/ m.type # "ASKPID_REPLY"
            /\ pc' = [pc EXCEPT ![p] = IF p \in Driver THEN "exited" ELSE "done"]
            /\ mail' = taken
            /\ UNCHANGED got
  BY DEF Answered, Request
<1>2. mail \in [Module -> Seq(Mails)] /\ mail[p] \in Seq(Mails)
  BY DEF Typed
<1>3. m \in Mails /\ Tail(mail[p]) \in Seq(Mails)
  BY <1>1, <1>2, CntTail
<1> HIDE DEF m
<1>4. taken \in [Module -> Seq(Mails)] /\ taken[p] = Tail(mail[p])
      /\ \A q \in Module \ {p} : taken[q] = mail[q]
  BY <1>2, <1>3
<1> HIDE DEF taken
<1>5. Request(p) \in Mails
  BY DEF Request, Mails, Requests
<1>6. CASE /\ m.status = "NOERR" /\ m.type = "ASKPID_REPLY"
           /\ got' = [got EXCEPT ![p] = m.pid]
           /\ pc' = [pc EXCEPT ![p] = Afterwards(p)]
           /\ mail' = IF pc[m.pid] = "exited" THEN taken
                      ELSE [taken EXCEPT ![m.pid] = Append(@, Request(p))]
  <2> DEFINE d == m.pid
  <2>1. m \in Telling /\ d \in Driver /\ d \in Module
    BY <1>3, <1>6, MailIs, ModuleAssumption
  <2>2. got' = [got EXCEPT ![p] = d] /\ pc' = [pc EXCEPT ![p] = Afterwards(p)]
    BY <1>6
  <2> HIDE DEF d
  <2>3. Append(taken[d], Request(p)) \in Seq(Mails)
    BY <1>4, <1>5, <2>1
  <2>4. CASE pc[d] = "exited"
    <3>1. mail' = taken
      BY <1>6, <2>4 DEF d
    <3>2. Learning(p, d)
      BY <1>4, <2>1, <2>2, <2>4, <3>1 DEF Learning, m, d
    <3>3. QED
      BY <1>1, <1>2, <1>3, <1>4, <2>1, <3>1, <3>2 DEF m
  <2>5. CASE pc[d] # "exited"
    <3>1. mail' = [taken EXCEPT ![d] = Append(taken[d], Request(p))]
      BY <1>6, <2>5 DEF d
    <3>2. /\ mail' \in [Module -> Seq(Mails)]
          /\ \A q \in Module : mail'[q] = IF q = d THEN Append(taken[d], Request(p)) ELSE taken[q]
      BY <1>4, <2>1, <2>3, <3>1
    <3>3. p # d => mail'[p] = Tail(mail[p]) /\ mail'[d] = Append(mail[d], Request(p))
      BY <1>4, <2>1, <3>2
    <3>4. \A q \in Module \ {p, d} : mail'[q] = mail[q]
      BY <1>4, <3>2
    <3>5. Learning(p, d)
      BY <2>1, <2>2, <2>5, <3>2, <3>3, <3>4 DEF Learning, m, d
    <3>6. QED
      BY <1>1, <1>2, <1>3, <2>1, <3>2, <3>5 DEF m
  <2>6. QED
    BY <2>4, <2>5
<1>7. CASE /\ m.status # "NOERR" \/ m.type # "ASKPID_REPLY"
           /\ pc' = [pc EXCEPT ![p] = IF p \in Driver THEN "exited" ELSE "done"]
           /\ mail' = taken
           /\ UNCHANGED got
  <2>1. m \notin Telling
    BY <1>3, <1>7, MailIs
  <2>2. Despairing(p)
    BY <1>7, <2>1 DEF Despairing, taken, m
  <2>3. QED
    BY <1>1, <1>2, <1>3, <1>4, <1>7, <2>2 DEF m
<1>8. QED
  BY <1>1, <1>6, <1>7

\* A module that is not the last to have been started moves on: what must be shown.
LEMMA MoveTypes ==
    ASSUME TypeInv, NEW p \in Module, NEW x \in PCs,
           pc[p] # "off", pc[p] # "exited",
           pc' = [pc EXCEPT ![p] = x],
           x \in {"ask", "asked"} => Asks[p] \in Name,
           x \in {"register", "starting", "serving"} => p \in Driver,
           got' \in [Module -> Driver \cup {NoPid}], mail' \in [Module -> Seq(Mails)],
           \/ UNCHANGED inbox
           \/ \E m \in Letters : /\ inbox' = Append(inbox, m)
                                 /\ m.type = "TERM" => m.from = p /\ x = "exited",
           UNCHANGED <<init, out, registry, boot>>
    PROVE  TypeInv'
<1>1. Typed /\ Stations /\ pc \in [Module -> PCs] /\ inbox \in Seq(Letters)
  BY DEF TypeInv, Typed
<1>2. \A q \in Module : pc'[q] = IF q = p THEN x ELSE pc[q]
  BY <1>1
<1>3. inbox' \in Seq(Letters)
      /\ \A i \in DOMAIN inbox' :
            \/ inbox'[i].type = "TERM" => inbox'[i].from = p /\ x = "exited"
            \/ \E j \in DOMAIN inbox : inbox'[i] = inbox[j]
  <2>1. CASE UNCHANGED inbox
    BY <1>1, <2>1
  <2>2. ASSUME NEW m \in Letters, inbox' = Append(inbox, m),
               m.type = "TERM" => m.from = p /\ x = "exited"
        PROVE  <1>3!:
    <3>1. /\ inbox' \in Seq(Letters)
          /\ \A i \in DOMAIN inbox' : inbox'[i] = m \/ \E j \in DOMAIN inbox : inbox'[i] = inbox[j]
      BY <1>1, <2>2, ToMPSIs
    <3>2. QED
      BY <2>2, <3>1
  <2>3. QED
    BY <2>1, <2>2
<1>4. Typed'
  <2>1. pc' \in [Module -> PCs]
    BY <1>1
  <2>2. QED
    BY <1>1, <1>3, <2>1 DEF Typed, init, registry, boot
<1>5. \A i \in DOMAIN inbox' : inbox'[i].type = "TERM" => pc'[inbox'[i].from] = "exited"
  <2>1. SUFFICES ASSUME NEW i \in DOMAIN inbox', inbox'[i].type = "TERM"
                 PROVE  pc'[inbox'[i].from] = "exited"
    OBVIOUS
  <2>2. CASE inbox'[i].from = p /\ x = "exited"
    BY <1>2, <2>2
  <2>3. ASSUME NEW j \in DOMAIN inbox, inbox'[i] = inbox[j] PROVE pc'[inbox'[i].from] = "exited"
    <3>1. pc[inbox[j].from] = "exited" /\ inbox[j] \in Letters /\ inbox[j].type = "TERM"
      BY <1>1, <2>1, <2>3, SeqIs DEF Stations
    <3>2. inbox[j].from \in Module
      BY <3>1, LetterIs
    <3>3. QED
      BY <1>2, <2>3, <3>1, <3>2
  <2>4. QED
    BY <1>3, <2>1, <2>2, <2>3
<1>6. \A i \in DOMAIN image' : i > started' => pc'[image'[i]] = "off"
  <2>1. image' = image /\ started' = started /\ image \in Seq(Module)
    BY <1>1 DEF init, Typed
  <2>2. \A i \in DOMAIN image : image[i] \in Module
    BY <2>1, SeqIs
  <2>3. QED
    BY <1>1, <1>2, <2>1, <2>2 DEF Stations
<1>7. Stations'
  BY <1>1, <1>2, <1>5, <1>6 DEF Stations
<1>8. QED
  BY <1>4, <1>7 DEF TypeInv

\* What the modules do keeps the types.
LEMMA RunTypes ==
    ASSUME TypeInv, NEW p \in Module, Run(p)
    PROVE  TypeInv'
<1>0. /\ Typed /\ Stations /\ pc \in [Module -> PCs] /\ mail \in [Module -> Seq(Mails)]
      /\ got \in [Module -> Driver \cup {NoPid}]
  BY DEF TypeInv, Typed
<1>1. CASE Ask(p)
  <2>1. pc[p] = "ask" /\ pc' = [pc EXCEPT ![p] = "asked"]
        /\ inbox' = Append(inbox, [type |-> "ASKPID", from |-> p])
        /\ UNCHANGED <<init, got, mail, out, registry, boot>>
    BY <1>1 DEF Ask, ToMPS
  <2>2. Asks[p] \in Name /\ [type |-> "ASKPID", from |-> p] \in Letters /\ "asked" \in PCs
    BY <1>0, <2>1 DEF Stations, Letters, PCs
  <2>3. QED
    BY <1>0, <2>1, <2>2, MoveTypes
<1>2. CASE Answered(p)
  <2>1. /\ pc[p] = "asked" /\ mail' \in [Module -> Seq(Mails)]
        /\ UNCHANGED <<init, inbox, out, registry, boot>>
        /\ Despairing(p) \/ \E d \in Driver : Learning(p, d)
    BY <1>0, <1>2, AnsweredIs
  <2>2. CASE Despairing(p)
    <3>1. PICK x \in {"exited", "done"} : pc' = [pc EXCEPT ![p] = x]
      BY <2>2 DEF Despairing
    <3>2. got' \in [Module -> Driver \cup {NoPid}] /\ x \in PCs
      BY <1>0, <2>2, <3>1 DEF Despairing, PCs
    <3>3. QED
      BY <2>1, <3>1, <3>2, MoveTypes
  <2>3. ASSUME NEW d \in Driver, Learning(p, d) PROVE TypeInv'
    <3>1. pc' = [pc EXCEPT ![p] = Afterwards(p)] /\ got' = [got EXCEPT ![p] = d]
      BY <2>3 DEF Learning
    <3>2. Afterwards(p) \in {"register", "done"} /\ (Afterwards(p) = "register" => p \in Driver)
      BY DEF Afterwards
    <3>3. Afterwards(p) \in PCs /\ got' \in [Module -> Driver \cup {NoPid}]
      BY <1>0, <3>1, <3>2 DEF PCs
    <3>4. QED
      BY <2>1, <3>1, <3>2, <3>3, MoveTypes
  <2>4. QED
    BY <2>1, <2>2, <2>3
<1>3. CASE Fail(p)
  <2>1. pc[p] = "register" /\ pc' = [pc EXCEPT ![p] = "exited"]
        /\ (UNCHANGED inbox \/ inbox' = Append(inbox, [type |-> "TERM", from |-> p]))
        /\ UNCHANGED <<init, got, mail, out, registry, boot>>
    BY <1>3 DEF Fail, ToMPS
  <2>2. [type |-> "TERM", from |-> p] \in Letters /\ "exited" \in PCs
    BY DEF Letters, PCs
  <2>3. QED
    BY <1>0, <2>1, <2>2, MoveTypes
<1>4. CASE DriverStart(p)
  <2>1. p \in Driver /\ pc[p] = "register" /\ pc' = [pc EXCEPT ![p] = "starting"]
        /\ inbox' = Append(inbox, [type |-> "INIT", from |-> p])
        /\ UNCHANGED <<init, got, mail, out, registry, boot>>
    BY <1>4 DEF DriverStart, ToMPS
  <2>2. [type |-> "INIT", from |-> p] \in Letters /\ "starting" \in PCs
    BY <2>1 DEF Letters, PCs
  <2>3. QED
    BY <1>0, <2>1, <2>2, MoveTypes
<1>5. CASE DriverStarted(p)
  <2>1. /\ pc[p] = "starting" /\ mail[p] # <<>>
        /\ mail' = [mail EXCEPT ![p] = Tail(@)]
        /\ UNCHANGED <<init, got, out, registry, boot>>
        /\ \E x \in {"serving", "exited"} :
              /\ pc' = [pc EXCEPT ![p] = x]
              /\ \/ UNCHANGED inbox
                 \/ x = "exited" /\ inbox' = Append(inbox, [type |-> "TERM", from |-> p])
    BY <1>5 DEF DriverStarted, ToMPS
  <2>2. PICK x \in {"serving", "exited"} :
              /\ pc' = [pc EXCEPT ![p] = x]
              /\ \/ UNCHANGED inbox
                 \/ x = "exited" /\ inbox' = Append(inbox, [type |-> "TERM", from |-> p])
    BY <2>1
  <2>3. [type |-> "TERM", from |-> p] \in Letters /\ x \in PCs /\ p \in Driver
    BY <1>0, <2>1 DEF Letters, PCs, Stations
  <2>4. mail' \in [Module -> Seq(Mails)]
    <3>1. mail[p] \in Seq(Mails)
      BY <1>0
    <3>2. Tail(mail[p]) \in Seq(Mails)
      BY <2>1, <3>1, CntTail
    <3>3. QED
      BY <1>0, <2>1, <3>2
  <2>5. QED
    BY <1>0, <2>1, <2>2, <2>3, <2>4, MoveTypes
<1>6. QED
  BY <1>1, <1>2, <1>3, <1>4, <1>5 DEF Run

\* Every step keeps the types and the modules where they can be.
LEMMA TypeNext == TypeInv /\ [Next]_vars => TypeInv'
<1> SUFFICES ASSUME TypeInv, [Next]_vars PROVE TypeInv'
  OBVIOUS
<1>1. CASE Next
  BY <1>1, RunModulesTypes, HandleTypes, SendTypes, RunTypes DEF Next, MPS
<1>2. CASE UNCHANGED vars
  BY <1>2 DEF vars, init, modules, registry, boot, TypeInv, Typed, Stations
<1>3. QED
  BY <1>1, <1>2

------------------------------------------------------------------------------
(* Every question is somewhere: the account of each module *)

Registered(d) == \E n \in Name : \E i \in DOMAIN instances[n] : instances[n][i].pid = d
HasMail(p, d) == \E j \in DOMAIN mail[p] : mail[p][j] \in Telling /\ mail[p][j].pid = d
HasReply(p, d) == \E j \in DOMAIN out : out[j].to = p /\ out[j].msg.pid = d

\* p has been told of d, or is about to be.
Knows(p, d) == got[p] = d \/ HasMail(p, d) \/ HasReply(p, d)

Dropped(p) == BootRegisterFinished /\ Asks[p] \in is_multi
InWaiting(p) == IF Asks[p] \in Name THEN Cnt(waiting[Asks[p]], {p}) ELSE 0

\* The account of a module that is at this point: asks questions of it are in the mailbox
\* of mps, boots in the boot queue, waits in the queue of the driver, replies on the way to
\* it, mails in its mailbox and inits registrations of it in the mailbox of mps.
Balanced(at, asks, boots, waits, replies, mails, inits, registered, dropped) ==
    /\ at # "asked" => asks = 0 /\ boots = 0 /\ waits = 0
    /\ at \in {"off", "ask", "register"} => replies = 0 /\ mails = 0
    /\ at = "asked" => LET all == asks + boots + waits + replies + mails
                       IN  all = 1 \/ (all = 0 /\ dropped)
    /\ at \in {"off", "ask", "asked", "register"} => ~registered
    /\ at # "starting" => inits = 0
    /\ inits = 0 \/ (inits = 1 /\ replies = 0 /\ mails = 0 /\ ~registered)

Account(p) ==
    Balanced(pc[p], Cnt(inbox, Asked(p)), Cnt(BootWaitQueue, OfPid(p)), InWaiting(p),
             Cnt(out, To(p)), Len(mail[p]), Cnt(inbox, Inits(p)), Registered(p), Dropped(p))

\* Who waits, waits for what it has asked for, and only for a driver with instances.
Named ==
    /\ \A i \in DOMAIN BootWaitQueue : BootWaitQueue[i].name = Asks[BootWaitQueue[i].pid]
    /\ \A n \in Name : \A i \in DOMAIN waiting[n] : Asks[waiting[n][i]] = n
    /\ \A n \in Name : waiting[n] # <<>> => n \in is_multi

\* Nobody is told of a driver before it is registered ...
Known == \A p \in Module : \A d \in Driver : Knows(p, d) => Registered(d)

\* ... and nobody sends requests to who still asks.
Unsought == \A p \in Module : pc[p] = "asked" => \A j \in DOMAIN mail[p] : mail[p][j] \notin Requests

AccountInv == TypeInv /\ Named /\ Known /\ Unsought /\ \A p \in Module : Account(p)

\* The entries of an account are numbers.
LEMMA AccountNat ==
    ASSUME Typed, NEW p \in Module
    PROVE  /\ Cnt(inbox, Asked(p)) \in Nat /\ Cnt(BootWaitQueue, OfPid(p)) \in Nat
           /\ InWaiting(p) \in Nat /\ Cnt(out, To(p)) \in Nat
           /\ Len(mail[p]) \in Nat /\ Cnt(inbox, Inits(p)) \in Nat
<1>1. /\ inbox \in Seq(Letters) /\ BootWaitQueue \in Seq(Waiters) /\ out \in Seq(Replies)
      /\ mail[p] \in Seq(Mails) /\ waiting \in [Name -> Seq(Module)]
  BY DEF Typed
<1>2. Cnt(inbox, Asked(p)) \in Nat /\ Cnt(inbox, Inits(p)) \in Nat
  BY <1>1, CntNat
<1>3. Cnt(BootWaitQueue, OfPid(p)) \in Nat /\ Cnt(out, To(p)) \in Nat
  BY <1>1, CntNat
<1>4. InWaiting(p) \in Nat
  <2>1. CASE Asks[p] \in Name
    <3>1. waiting[Asks[p]] \in Seq(Module)
      BY <1>1, <2>1
    <3>2. QED
      BY <2>1, <3>1, CntNat DEF InWaiting
  <2>2. CASE Asks[p] \notin Name
    BY <2>2 DEF InWaiting
  <2>3. QED
    BY <2>1, <2>2
<1>5. QED
  BY <1>1, <1>2, <1>3, <1>4, SeqIs

\* Letters are counted by their kind and their sender.
LEMMA LetterCounts ==
    ASSUME NEW m \in Letters, NEW q \in Module
    PROVE  /\ One(m \in Asked(q)) = One(m.type = "ASKPID" /\ m.from = q)
           /\ One(m \in Inits(q)) = One(m.type = "INIT" /\ m.from = q)
<1>1. m = [type |-> m.type, from |-> m.from]
  BY LetterIs
<1>2. m \in Asked(q) <=> m.type = "ASKPID" /\ m.from = q
  BY <1>1 DEF Asked
<1>3. m \in Inits(q) <=> m.type = "INIT" /\ m.from = q
  BY <1>1 DEF Inits
<1>4. QED
  BY <1>2, <1>3 DEF One

\* A letter more for mps.
LEMMA LetterSent ==
    ASSUME Typed, NEW m \in Letters, inbox' = Append(inbox, m), NEW q \in Module
    PROVE  /\ Cnt(inbox', Asked(q)) = Cnt(inbox, Asked(q)) + One(m.type = "ASKPID" /\ m.from = q)
           /\ Cnt(inbox', Inits(q)) = Cnt(inbox, Inits(q)) + One(m.type = "INIT" /\ m.from = q)
<1>1. inbox \in Seq(Letters)
  BY DEF Typed
<1>2. \A T : Cnt(inbox', T) = Cnt(inbox, T) + One(m \in T)
  BY <1>1, ToMPSIs
<1>3. QED
  BY <1>2, LetterCounts

\* The letter mps receives.
LEMMA LetterRead ==
    ASSUME Typed, inbox # <<>>, inbox' = Tail(inbox), NEW q \in Module,
           NEW m, m = Head(inbox)
    PROVE  /\ Cnt(inbox, Asked(q)) = Cnt(inbox', Asked(q)) + One(m.type = "ASKPID" /\ m.from = q)
           /\ Cnt(inbox, Inits(q)) = Cnt(inbox', Inits(q)) + One(m.type = "INIT" /\ m.from = q)
<1>1. inbox \in Seq(Letters)
  BY DEF Typed
<1>2. m \in Letters /\ \A T : Cnt(inbox, T) = Cnt(inbox', T) + One(m \in T)
  BY <1>1, CntTail
<1>3. QED
  BY <1>2, LetterCounts

\* One reply to send.
LEMMA OneReply ==
    ASSUME NEW r \in Replies, out' = <<r>>, NEW q \in Module
    PROVE  Cnt(out', To(q)) = One(r.to = q)
<1>1. Cnt(<<r>>, To(q)) = One(r \in To(q))
  BY CntOne
<1>2. r \in To(q) <=> r.to = q
  BY DEF To
<1>3. QED
  BY <1>1, <1>2 DEF One

\* None to send.
LEMMA NoReply ==
    ASSUME NEW q \in Module
    PROVE  /\ out = <<>> => Cnt(out, To(q)) = 0
           /\ out' = <<>> => Cnt(out', To(q)) = 0
<1>1. <<>> \in Seq(Replies)
  OBVIOUS
<1>2. Cnt(<<>>, To(q)) = 0
  BY <1>1, CntNat
<1>3. QED
  BY <1>2

\* Who is registered when an instance is marked or a new one comes.
LEMMA RegisteredThen ==
    ASSUME NEW d
    PROVE  /\ \A n, i : Marked(n, i) => (Registered(d)' <=> Registered(d))
           /\ UNCHANGED instances => (Registered(d)' <=> Registered(d))
           /\ \A p \in Driver : \A b : Grown(p, b) => (Registered(d)' <=> Registered(d) \/ d = p)
<1>1. ASSUME NEW n, NEW i, Marked(n, i) PROVE Registered(d)' <=> Registered(d)
  BY <1>1 DEF Marked, Registered
<1>2. ASSUME UNCHANGED instances PROVE Registered(d)' <=> Registered(d)
  BY <1>2 DEF Registered
<1>3. ASSUME NEW p \in Driver, NEW b, Grown(p, b)
      PROVE  Registered(d)' <=> Registered(d) \/ d = p
  <2> DEFINE n == NameOf[p]
             L == Len(instances[n])
  <2>1. n \in Name
    BY ModuleAssumption
  <2>2. /\ \A m \in Name \ {n} : instances'[m] = instances[m]
        /\ L \in Nat /\ DOMAIN instances[n] = 1 .. L /\ DOMAIN instances'[n] = 1 .. L + 1
        /\ \A i \in DOMAIN instances[n] : instances'[n][i] = instances[n][i]
        /\ instances'[n][L + 1].pid = p
    BY <1>3 DEF Grown
  <2> HIDE DEF n, L
  <2>3. Registered(d) => Registered(d)'
    <3>1. SUFFICES ASSUME NEW m \in Name, NEW i \in DOMAIN instances[m], instances[m][i].pid = d
                   PROVE  Registered(d)'
      BY DEF Registered
    <3>2. i \in DOMAIN instances'[m] /\ instances'[m][i] = instances[m][i]
      BY <2>1, <2>2, <3>1
    <3>3. QED
      BY <3>1, <3>2 DEF Registered
  <2>4. d = p => Registered(d)'
    <3>1. L + 1 \in DOMAIN instances'[n]
      BY <2>2
    <3>2. QED
      BY <2>1, <2>2, <3>1 DEF Registered
  <2>5. Registered(d)' => Registered(d) \/ d = p
    <3>1. SUFFICES ASSUME NEW m \in Name, NEW i \in DOMAIN instances'[m], instances'[m][i].pid = d
                   PROVE  Registered(d) \/ d = p
      BY DEF Registered
    <3>2. CASE m = n /\ i = L + 1
      BY <2>2, <3>1, <3>2
    <3>3. CASE ~(m = n /\ i = L + 1)
      <4>1. i \in DOMAIN instances[m] /\ instances'[m][i] = instances[m][i]
        BY <2>1, <2>2, <3>1, <3>3
      <4>2. QED
        BY <3>1, <4>1 DEF Registered
    <3>4. QED
      BY <3>2, <3>3
  <2>6. QED
    BY <2>3, <2>4, <2>5
<1>4. QED
  BY <1>1, <1>2, <1>3

\* An account whose entries do not change stays balanced.
LEMMA AccountKept ==
    ASSUME NEW q \in Module, Account(q),
           pc'[q] = pc[q], Cnt(inbox', Asked(q)) = Cnt(inbox, Asked(q)),
           Cnt(inbox', Inits(q)) = Cnt(inbox, Inits(q)),
           Cnt(out', To(q)) = Cnt(out, To(q)), Len(mail'[q]) = Len(mail[q]),
           UNCHANGED tables
    PROVE  Account(q)'
<1>1. /\ Cnt(BootWaitQueue, OfPid(q))' = Cnt(BootWaitQueue, OfPid(q))
      /\ InWaiting(q)' = InWaiting(q) /\ Registered(q)' = Registered(q)
      /\ Dropped(q)' = Dropped(q)
  BY DEF tables, InWaiting, Registered, Dropped
<1>2. QED
  BY <1>1 DEF Account

\* What the modules and init do leaves the tables of mps alone.
LEMMA TablesKept ==
    ASSUME UNCHANGED <<registry, boot>>
    PROVE  /\ UNCHANGED tables
           /\ \A q \in Module : /\ Cnt(BootWaitQueue, OfPid(q))' = Cnt(BootWaitQueue, OfPid(q))
                                /\ InWaiting(q)' = InWaiting(q)
                                /\ Registered(q)' = Registered(q) /\ Dropped(q)' = Dropped(q)
           /\ Named => Named'
<1>1. UNCHANGED tables
  BY DEF registry, boot, tables
<1>2. QED
  BY <1>1 DEF tables, InWaiting, Registered, Dropped, Named

\* Who is told of whom does not change.
LEMMA KnownKept ==
    ASSUME Known, UNCHANGED <<got, mail, out, instances>>
    PROVE  Known'
  BY DEF Known, Knows, HasMail, HasReply, Registered

\* init.
LEMMA RunModulesAccount ==
    ASSUME AccountInv, RunModules
    PROVE  AccountInv'
<1>1. TypeInv /\ Typed /\ Stations /\ Named /\ Known /\ Unsought /\ \A q \in Module : Account(q)
  BY DEF AccountInv, TypeInv
<1>2. TypeInv'
  BY <1>1, RunModulesTypes
<1>3. UNCHANGED <<got, mail, out, registry, boot>>
  BY DEF RunModules, StartModule, Announce, Complete, modules
<1>4. Named'
  BY <1>1, <1>3, TablesKept
<1>5. Known'
  <2>1. UNCHANGED <<got, mail, out, instances>>
    BY <1>3 DEF registry
  <2>2. QED
    BY <1>1, <2>1, KnownKept
<1>6. CASE StartModule
  <2> DEFINE p == image[started + 1]
  <2>1. /\ started < Len(image) /\ pc' = [pc EXCEPT ![p] = Asking(p)] /\ UNCHANGED inbox
    BY <1>6 DEF StartModule
  <2>2. p \in Module /\ pc[p] = "off" /\ pc \in [Module -> PCs]
    <3>1. image \in Seq(Module) /\ started \in 0 .. Len(image) /\ pc \in [Module -> PCs]
      BY <1>1 DEF Typed
    <3>2. Len(image) \in Nat /\ DOMAIN image = 1 .. Len(image)
      BY <3>1, SeqIs
    <3>3. started + 1 \in DOMAIN image /\ started + 1 > started
      BY <2>1, <3>1, <3>2
    <3>4. QED
      BY <1>1, <3>1, <3>3, SeqIs DEF Stations
  <2> HIDE DEF p
  <2>3. \A q \in Module : pc'[q] = IF q = p THEN Asking(p) ELSE pc[q]
    BY <2>1, <2>2
  <2>4. Asking(p) \in {"ask", "register", "done"}
    BY DEF Asking
  <2>5. ASSUME NEW q \in Module PROVE Account(q)'
    <3>1. CASE q # p
      BY <1>1, <1>3, <2>1, <2>3, <3>1, AccountKept, TablesKept
    <3>2. CASE q = p
      <4>1. Account(p) /\ pc'[p] = Asking(p)
        BY <1>1, <2>2, <2>3
      <4>2. Balanced(Asking(p), Cnt(inbox, Asked(p)), Cnt(BootWaitQueue, OfPid(p)), InWaiting(p),
             Cnt(out, To(p)), Len(mail[p]), Cnt(inbox, Inits(p)), Registered(p), Dropped(p))
        BY <2>2, <2>4, <4>1 DEF Account, Balanced
      <4>3. QED
        BY <1>3, <2>1, <2>2, <3>2, <4>1, <4>2, TablesKept DEF Account
    <3>3. QED
      BY <3>1, <3>2
  <2>6. Unsought'
    BY <1>1, <1>3, <2>2, <2>3, <2>4 DEF Unsought
  <2>7. QED
    BY <1>2, <1>4, <1>5, <2>5, <2>6 DEF AccountInv
<1>7. CASE Announce \/ Complete
  <2>1. UNCHANGED pc
    BY <1>7 DEF Announce, Complete, modules
  <2>2. PICK m \in {[type |-> "WAITFORDRIVER", from |-> image[started]],
                    [type |-> "INIT_COMPLETE", from |-> NoPid]} : inbox' = Append(inbox, m)
    BY <1>7 DEF Announce, Complete, ToMPS
  <2>3. m.type \notin {"ASKPID", "INIT"}
    BY <2>2
  <2>4. \A q \in Module : Cnt(inbox', Asked(q)) = Cnt(inbox, Asked(q))
                          /\ Cnt(inbox', Inits(q)) = Cnt(inbox, Inits(q))
    <3>1. inbox' \in Seq(Letters) /\ inbox \in Seq(Letters)
      BY <1>1, <1>2 DEF TypeInv, Typed
    <3>2. m \in Letters
      <4>1. Len(inbox) \in Nat /\ DOMAIN inbox' = 1 .. Len(inbox) + 1 /\ inbox'[Len(inbox) + 1] = m
        BY <2>2, <3>1
      <4>2. Len(inbox) + 1 \in DOMAIN inbox'
        BY <4>1
      <4>3. QED
        BY <3>1, <4>1, <4>2, SeqIs
    <3>3. ASSUME NEW q \in Module
          PROVE  Cnt(inbox', Asked(q)) = Cnt(inbox, Asked(q))
                 /\ Cnt(inbox', Inits(q)) = Cnt(inbox, Inits(q))
      <4>1. /\ Cnt(inbox', Asked(q)) = Cnt(inbox, Asked(q)) + One(m.type = "ASKPID" /\ m.from = q)
            /\ Cnt(inbox', Inits(q)) = Cnt(inbox, Inits(q)) + One(m.type = "INIT" /\ m.from = q)
        BY <1>1, <2>2, <3>2, LetterSent
      <4>2. One(m.type = "ASKPID" /\ m.from = q) = 0 /\ One(m.type = "INIT" /\ m.from = q) = 0
        BY <2>3 DEF One
      <4>3. Cnt(inbox, Asked(q)) \in Nat /\ Cnt(inbox, Inits(q)) \in Nat
        BY <1>1, AccountNat
      <4>4. QED
        BY <4>1, <4>2, <4>3
    <3>4. QED
      BY <3>3
  <2>5. ASSUME NEW q \in Module PROVE Account(q)'
    BY <1>1, <1>3, <2>1, <2>4, AccountKept, TablesKept
  <2>6. Unsought'
    BY <1>1, <1>3, <2>1 DEF Unsought
  <2>7. QED
    BY <1>2, <1>4, <1>5, <2>5, <2>6 DEF AccountInv
<1>8. QED
  BY <1>6, <1>7 DEF RunModules

\* What the head of out is and what it leaves.
LEMMA SendIs ==
    ASSUME Typed, Send, NEW r, r = Head(out)
    PROVE  /\ r \in Replies /\ r.to \in Module /\ r.msg \in Mails /\ r.msg \notin Requests
           /\ r = out[1] /\ out' \in Seq(Replies)
           /\ 1 \in DOMAIN out /\ DOMAIN out' = 1 .. Len(out) - 1
           /\ \A i \in DOMAIN out' : i + 1 \in DOMAIN out /\ out'[i] = out[i + 1]
           /\ \A q \in Module : Cnt(out, To(q)) = Cnt(out', To(q)) + One(r.to = q)
           /\ \A q \in Module : mail'[q] = IF q = r.to /\ pc[q] # "exited"
                                           THEN Append(mail[q], r.msg) ELSE mail[q]
           /\ UNCHANGED <<init, pc, got, inbox, registry, boot>>
<1>1. /\ out # <<>> /\ out' = Tail(out) /\ out \in Seq(Replies)
      /\ mail' = [mail EXCEPT ![r.to] = IF pc[r.to] = "exited" THEN @ ELSE Append(@, r.msg)]
      /\ UNCHANGED <<init, pc, got, inbox, registry, boot>>
  BY DEF Send, Typed
<1>2. /\ r \in Replies /\ r = out[1] /\ 1 \in DOMAIN out /\ DOMAIN out' = 1 .. Len(out) - 1
      /\ out' \in Seq(Replies)
      /\ \A i \in DOMAIN out' : i + 1 \in DOMAIN out /\ out'[i] = out[i + 1]
      /\ \A T : Cnt(out, T) = Cnt(out', T) + One(r \in T)
  BY <1>1, CntTail
<1>3. r.to \in Module /\ r.msg \in Mails /\ r.msg \notin Requests
  BY <1>2, ReplyKinds
<1>4. \A q \in Module : r \in To(q) <=> r.to = q
  BY <1>2 DEF To
<1>5. \A q \in Module : Cnt(out, To(q)) = Cnt(out', To(q)) + One(r.to = q)
  BY <1>2, <1>4 DEF One
<1>6. mail \in [Module -> Seq(Mails)]
  BY DEF Typed
<1>7. \A q \in Module : mail'[q] = IF q = r.to /\ pc[q] # "exited"
                                   THEN Append(mail[q], r.msg) ELSE mail[q]
  BY <1>1, <1>3, <1>6
<1>8. QED
  BY <1>1, <1>2, <1>3, <1>5, <1>7

\* u is s with x at the end.
LEMMA AppendIs ==
    ASSUME NEW S, NEW s \in Seq(S), NEW x \in S, NEW u, u = Append(s, x)
    PROVE  /\ u \in Seq(S) /\ Len(u) = Len(s) + 1 /\ u # <<>>
           /\ DOMAIN u = 1 .. Len(s) + 1 /\ DOMAIN s = 1 .. Len(s) /\ Len(s) \in Nat
           /\ \A i \in DOMAIN s : i \in DOMAIN u /\ u[i] = s[i]
           /\ \A i \in DOMAIN u : u[i] = x \/ (i \in DOMAIN s /\ u[i] = s[i])
           /\ u[Len(s) + 1] = x
           /\ Head(u) = IF s = <<>> THEN x ELSE Head(s)
<1> DEFINE t == <<x>>
<1>1. u = s \o t /\ t \in Seq(S) /\ Len(t) = 1 /\ t[1] = x
  OBVIOUS
<1> HIDE DEF t
<1>2. Joined(S, s, t, u)
  BY <1>1, JoinIs
<1>3. DOMAIN s = 1 .. Len(s) /\ Len(s) \in Nat /\ (s = <<>> <=> Len(s) = 0)
  BY SeqIs
<1>4. u \in Seq(S) /\ Len(u) = Len(s) + 1 /\ DOMAIN u = 1 .. Len(s) + 1
  BY <1>1, <1>2 DEF Joined
<1>5. u # <<>>
  BY <1>3, <1>4
<1>6. \A i \in DOMAIN s : i \in DOMAIN u /\ u[i] = s[i]
  BY <1>2, <1>3, <1>4 DEF Joined
<1>7. u[Len(s) + 1] = x
  BY <1>1, <1>2 DEF Joined
<1>8. \A i \in DOMAIN u : u[i] = x \/ (i \in DOMAIN s /\ u[i] = s[i])
  <2>1. \A i \in DOMAIN u : i \in DOMAIN s \/ i = Len(s) + 1
    BY <1>3, <1>4
  <2>2. QED
    BY <1>6, <1>7, <2>1
<1>9. Head(u) = IF s = <<>> THEN x ELSE Head(s)
  <2>1. Head(u) = u[1]
    BY <1>4, <1>5
  <2>2. CASE s = <<>>
    BY <1>3, <1>7, <2>1, <2>2
  <2>3. CASE s # <<>>
    <3>1. Head(s) = s[1] /\ 1 \in DOMAIN s
      BY <1>3, <2>3
    <3>2. QED
      BY <1>6, <2>1, <2>3, <3>1
  <2>4. QED
    BY <2>2, <2>3
<1>10. QED
  BY <1>3, <1>4, <1>5, <1>6, <1>7, <1>8, <1>9

\* What a mailbox tells, with a message more or one less.
LEMMA HasMailThen ==
    ASSUME NEW q, mail[q] \in Seq(Mails), NEW d
    PROVE  /\ \A x \in Mails : mail'[q] = Append(mail[q], x) =>
                 (HasMail(q, d)' => HasMail(q, d) \/ (x \in Telling /\ x.pid = d))
           /\ mail[q] # <<>> /\ mail'[q] = Tail(mail[q]) => (HasMail(q, d)' => HasMail(q, d))
           /\ mail'[q] = mail[q] => (HasMail(q, d)' => HasMail(q, d))
<1> DEFINE s == mail[q]
           u == mail'[q]
           Tells(v) == \E j \in DOMAIN v : v[j] \in Telling /\ v[j].pid = d
<1>1. ASSUME NEW x \in Mails, u = Append(s, x), Tells(u)
      PROVE  Tells(s) \/ (x \in Telling /\ x.pid = d)
  <2> HIDE DEF s, u
  <2>1. s \in Seq(Mails)
    BY DEF s
  <2>2. \A i \in DOMAIN u : u[i] = x \/ (i \in DOMAIN s /\ u[i] = s[i])
    BY <1>1, <2>1, AppendIs
  <2>3. QED
    BY <1>1, <2>2
<1>2. ASSUME s # <<>>, u = Tail(s), Tells(u) PROVE Tells(s)
  <2> HIDE DEF s, u
  <2>1. s \in Seq(Mails)
    BY DEF s
  <2>2. \A i \in DOMAIN u : i + 1 \in DOMAIN s /\ u[i] = s[i + 1]
    BY <1>2, <2>1, CntTail
  <2>3. QED
    BY <1>2, <2>2
<1>3. u = s => (Tells(u) => Tells(s))
  OBVIOUS
<1>4. (HasMail(q, d) <=> Tells(s)) /\ (HasMail(q, d)' <=> Tells(u))
  BY DEF HasMail
<1> HIDE DEF s, u, Tells
<1>5. QED
  BY <1>1, <1>2, <1>3, <1>4 DEF s, u

\* Sending a reply tells nobody what was not on its way.
LEMMA SendKnows ==
    ASSUME Typed, Send, NEW q \in Module, NEW d \in Driver, Knows(q, d)'
    PROVE  Knows(q, d)
<1> DEFINE r == Head(out)
<1>1. /\ r \in Replies /\ r.msg \in Mails /\ r = out[1] /\ 1 \in DOMAIN out
      /\ \A i \in DOMAIN out' : i + 1 \in DOMAIN out /\ out'[i] = out[i + 1]
      /\ mail'[q] = IF q = r.to /\ pc[q] # "exited" THEN Append(mail[q], r.msg) ELSE mail[q]
      /\ got' = got /\ mail[q] \in Seq(Mails)
  BY SendIs DEF Typed
<1> HIDE DEF r
<1>2. CASE got'[q] = d
  BY <1>1, <1>2 DEF Knows
<1>3. CASE HasReply(q, d)'
  <2>1. HasReply(q, d)
    BY <1>1, <1>3 DEF HasReply
  <2>2. QED
    BY <2>1 DEF Knows
<1>4. CASE HasMail(q, d)'
  <2>1. CASE mail'[q] = mail[q]
    BY <1>1, <1>4, <2>1, HasMailThen DEF Knows
  <2>2. CASE q = r.to /\ mail'[q] = Append(mail[q], r.msg)
    <3>1. HasMail(q, d) \/ r.msg.pid = d
      BY <1>1, <1>4, <2>2, HasMailThen
    <3>2. r.msg.pid = d => HasReply(q, d)
      BY <1>1, <2>2 DEF HasReply
    <3>3. QED
      BY <3>1, <3>2 DEF Knows
  <2>3. QED
    BY <1>1, <2>1, <2>2
<1>5. QED
  BY <1>2, <1>3, <1>4 DEF Knows

\* The pid of d has reached p.
Holds(p, d) == got[p] = d \/ HasMail(p, d)

\* Reading tells nobody of a driver he has not held before, except who asked for himself,
\* and what is written to a driver tells it of no driver.
LEMMA AnsweredHolds ==
    ASSUME Typed, NEW p \in Module, Answered(p),
           NEW q \in Module, NEW d \in Driver, Holds(q, d)'
    PROVE  Holds(q, d) \/ (q = p /\ p \in Driver /\ Holds(p, p))
<1>1. /\ mail[p] # <<>> /\ mail[p] \in Seq(Mails)
      /\ Despairing(p) \/ \E e \in Driver : Learning(p, e)
  BY AnsweredIs
<1>2. mail[q] \in Seq(Mails) /\ mail \in [Module -> Seq(Mails)] /\ got \in [Module -> Driver \cup {NoPid}]
  BY DEF Typed
<1>3. CASE Despairing(p)
  <2>1. /\ mail'[q] = IF q = p THEN Tail(mail[p]) ELSE mail[q]
        /\ got' = got
    BY <1>2, <1>3 DEF Despairing
  <2>2. HasMail(q, d)' => HasMail(q, d)
    BY <1>1, <1>2, <2>1, HasMailThen
  <2>3. QED
    BY <2>1, <2>2 DEF Holds
<1>4. ASSUME NEW e \in Driver, Learning(p, e)
      PROVE  Holds(q, d) \/ (q = p /\ p \in Driver /\ Holds(p, p))
  <2>1. HasMail(p, e)
    <3>1. Head(mail[p]) = mail[p][1] /\ 1 \in DOMAIN mail[p]
      BY <1>1, CntTail
    <3>2. QED
      BY <1>4, <3>1 DEF Learning, HasMail
  <2>2. got'[q] = IF q = p THEN e ELSE got[q]
    BY <1>2, <1>4 DEF Learning
  <2>3. CASE p = e
    BY <2>1, <2>3, <1>4, <2>2, <1>2 DEF Holds, Learning, HasMail
  <2>4. CASE p # e
    <3>1. Request(p) \in Mails /\ Request(p) \notin Telling
      BY DEF Request, Mails, Requests, Telling
    <3>2. \/ q = p /\ mail'[q] = Tail(mail[q])
          \/ mail'[q] = mail[q]
          \/ mail'[q] = Append(mail[q], Request(p))
      BY <1>4, <2>4 DEF Learning
    <3>3. HasMail(q, d)' => HasMail(q, d)
      BY <1>1, <1>2, <3>1, <3>2, HasMailThen
    <3>4. QED
      BY <2>1, <2>2, <3>3 DEF Holds
  <2>5. QED
    BY <2>3, <2>4
<1>5. QED
  BY <1>1, <1>3, <1>4

\* The same with the replies that are on the way.
LEMMA AnsweredKnows ==
    ASSUME Typed, NEW p \in Module, Answered(p),
           NEW q \in Module, NEW d \in Driver, Knows(q, d)'
    PROVE  Knows(q, d) \/ (q = p /\ p \in Driver /\ Knows(p, p))
<1>1. UNCHANGED out
  BY AnsweredIs
<1>2. HasReply(q, d)' <=> HasReply(q, d)
  BY <1>1 DEF HasReply
<1>3. Holds(q, d)' => Holds(q, d) \/ (q = p /\ p \in Driver /\ Holds(p, p))
  BY AnsweredHolds
<1>4. QED
  BY <1>2, <1>3 DEF Knows, Holds

\* A reply that arrives, or that is lost because the module is dead.
LEMMA BalanceSent ==
    ASSUME NEW at, NEW a \in Nat, NEW b \in Nat, NEW c \in Nat, NEW d \in Nat, NEW e \in Nat,
           NEW i, NEW reg, NEW dropped, NEW d2 \in Nat, NEW e2 \in Nat,
           Balanced(at, a, b, c, d, e, i, reg, dropped),
           d = d2 + 1, at = "exited" \/ e2 = e + 1
    PROVE  Balanced(at, a, b, c, d2, e2, i, reg, dropped)
<1>1. d # 0 /\ (at = "asked" => a + b + c + d2 + e2 = a + b + c + d + e)
  OBVIOUS
<1>2. QED
  BY <1>1 DEF Balanced

\* Send.
LEMMA SendAccount ==
    ASSUME AccountInv, Send
    PROVE  AccountInv'
<1> DEFINE r == Head(out)
<1>1. TypeInv /\ Typed /\ Named /\ Known /\ Unsought /\ \A q \in Module : Account(q)
  BY DEF AccountInv, TypeInv
<1>2. TypeInv'
  BY <1>1, SendTypes
<1>3. /\ r \in Replies /\ r.to \in Module /\ r.msg \in Mails /\ r.msg \notin Requests
      /\ \A q \in Module : Cnt(out, To(q)) = Cnt(out', To(q)) + One(r.to = q)
      /\ \A q \in Module : mail'[q] = IF q = r.to /\ pc[q] # "exited"
                                      THEN Append(mail[q], r.msg) ELSE mail[q]
      /\ UNCHANGED <<init, pc, got, inbox, registry, boot>>
  BY <1>1, SendIs
<1> HIDE DEF r
<1>4. UNCHANGED <<tables, pc, got, inbox, instances>>
  BY <1>3 DEF tables, registry, boot
<1>5. Named'
  BY <1>1, <1>3, TablesKept
<1>6. Known'
  <2>1. ASSUME NEW q \in Module, NEW d \in Driver, Knows(q, d)' PROVE Registered(d)'
    <3>1. Registered(d)
      BY <1>1, <2>1, SendKnows DEF Known
    <3>2. QED
      BY <1>4, <3>1, RegisteredThen
  <2>2. QED
    BY <2>1 DEF Known
<1>7. \A q \in Module : mail[q] \in Seq(Mails)
  BY <1>1 DEF Typed
<1>8. Unsought'
  <2>1. ASSUME NEW q \in Module, pc'[q] = "asked", NEW j \in DOMAIN mail'[q]
        PROVE  mail'[q][j] \notin Requests
    <3>1. \A i \in DOMAIN mail[q] : mail[q][i] \notin Requests
      BY <1>1, <1>4, <2>1 DEF Unsought
    <3>2. CASE mail'[q] = mail[q]
      BY <2>1, <3>1, <3>2
    <3>3. CASE mail'[q] = Append(mail[q], r.msg)
      <4>1. mail'[q][j] = r.msg \/ (j \in DOMAIN mail[q] /\ mail'[q][j] = mail[q][j])
        BY <1>3, <1>7, <2>1, <3>3, AppendIs
      <4>2. QED
        BY <1>3, <3>1, <4>1
    <3>4. QED
      BY <1>3, <3>2, <3>3
  <2>2. QED
    BY <2>1 DEF Unsought
<1>9. ASSUME NEW q \in Module PROVE Account(q)'
  <2>1. Account(q) /\ mail[q] \in Seq(Mails)
    BY <1>1, <1>7
  <2>2. /\ Cnt(out, To(q)) = Cnt(out', To(q)) + One(r.to = q)
        /\ Cnt(out', To(q)) \in Nat /\ Len(mail[q]) \in Nat /\ Len(mail'[q]) \in Nat
        /\ Cnt(inbox, Asked(q)) \in Nat /\ Cnt(BootWaitQueue, OfPid(q)) \in Nat
        /\ InWaiting(q) \in Nat
    <3>1. Typed'
      BY <1>2 DEF TypeInv
    <3>2. out' \in Seq(Replies) /\ mail'[q] \in Seq(Mails)
      BY <3>1 DEF Typed
    <3>3. QED
      BY <1>1, <1>3, <3>2, CntNat, SeqIs, AccountNat
  <2>3. q = r.to /\ pc[q] # "exited" => Len(mail'[q]) = Len(mail[q]) + 1
    <3>1. SUFFICES ASSUME q = r.to, pc[q] # "exited" PROVE Len(mail'[q]) = Len(mail[q]) + 1
      OBVIOUS
    <3>2. mail'[q] = Append(mail[q], r.msg)
      BY <1>3, <3>1
    <3>3. QED
      BY <1>3, <2>1, <3>2, AppendIs
  <2>4. Balanced(pc[q], Cnt(inbox, Asked(q)), Cnt(BootWaitQueue, OfPid(q)), InWaiting(q),
                 Cnt(out', To(q)), Len(mail'[q]), Cnt(inbox, Inits(q)), Registered(q), Dropped(q))
    <3>1. CASE q # r.to
      <4>1. Cnt(out', To(q)) = Cnt(out, To(q)) /\ Len(mail'[q]) = Len(mail[q])
        BY <1>3, <2>2, <3>1 DEF One
      <4>2. QED
        BY <2>1, <4>1 DEF Account
    <3>2. CASE q = r.to
      <4>1. Cnt(out, To(q)) = Cnt(out', To(q)) + 1
        BY <2>2, <3>2 DEF One
      <4>2. Cnt(out, To(q)) \in Nat
        BY <2>2, <4>1
      <4>3. QED
        BY <2>1, <2>2, <2>3, <3>2, <4>1, <4>2, BalanceSent DEF Account
    <3>3. QED
      BY <3>1, <3>2
  <2>5. QED
    BY <1>3, <1>4, <2>4, TablesKept DEF Account
<1>10. QED
  BY <1>2, <1>5, <1>6, <1>8, <1>9 DEF AccountInv

\* A step of a module that leaves the tables of mps and what it sends alone, and changes
\* nobody else's account: what must be shown.
LEMMA MoveAccount ==
    ASSUME AccountInv, TypeInv', NEW p \in Module, NEW x \in PCs,
           pc' = [pc EXCEPT ![p] = x], UNCHANGED <<mail, got, out, registry, boot>>,
           x # "asked" \/ mail[p] = <<>>,
           NEW a \in {0, 1}, NEW i \in {0, 1},
           \A q \in Module : /\ Cnt(inbox', Asked(q)) = Cnt(inbox, Asked(q)) + (IF q = p THEN a ELSE 0)
                             /\ Cnt(inbox', Inits(q)) = Cnt(inbox, Inits(q)) + (IF q = p THEN i ELSE 0),
           Balanced(x, Cnt(inbox, Asked(p)) + a, Cnt(BootWaitQueue, OfPid(p)), InWaiting(p),
                    Cnt(out, To(p)), Len(mail[p]), Cnt(inbox, Inits(p)) + i,
                    Registered(p), Dropped(p))
    PROVE  AccountInv'
<1>1. TypeInv /\ Typed /\ Named /\ Known /\ Unsought /\ (\A q \in Module : Account(q))
      /\ pc \in [Module -> PCs]
  BY DEF AccountInv, TypeInv, Typed
<1>2. \A q \in Module : pc'[q] = IF q = p THEN x ELSE pc[q]
  BY <1>1
<1>3. Named'
  BY <1>1, TablesKept
<1>4. Known'
  <2>1. UNCHANGED instances
    BY DEF registry
  <2>2. QED
    BY <1>1, <2>1, KnownKept
<1>5. Unsought'
  <2>1. mail[p] = <<>> => DOMAIN mail[p] = {}
    OBVIOUS
  <2>2. QED
    BY <1>1, <1>2, <2>1 DEF Unsought
<1>6. ASSUME NEW q \in Module PROVE Account(q)'
  <2>1. CASE q = p
    <3>1. pc'[p] = x /\ Cnt(inbox', Asked(p)) = Cnt(inbox, Asked(p)) + a
          /\ Cnt(inbox', Inits(p)) = Cnt(inbox, Inits(p)) + i
      BY <1>2
    <3>2. QED
      BY <2>1, <3>1, TablesKept DEF Account
  <2>2. CASE q # p
    <3>1. /\ pc'[q] = pc[q] /\ Cnt(inbox', Asked(q)) = Cnt(inbox, Asked(q))
          /\ Cnt(inbox', Inits(q)) = Cnt(inbox, Inits(q))
      BY <1>1, <1>2, <2>2, AccountNat
    <3>2. QED
      BY <1>1, <3>1, AccountKept, TablesKept
  <2>3. QED
    BY <2>1, <2>2
<1>7. QED
  BY <1>3, <1>4, <1>5, <1>6 DEF AccountInv

\* Ask, Fail, DriverStart.
LEMMA MovesAccount ==
    ASSUME AccountInv, NEW p \in Module, Ask(p) \/ Fail(p) \/ DriverStart(p)
    PROVE  AccountInv'
<1>1. TypeInv /\ Typed /\ Account(p) /\ pc \in [Module -> PCs]
  BY DEF AccountInv, TypeInv, Typed
<1>2. TypeInv'
  BY <1>1, RunTypes DEF Run
<1> DEFINE a == Cnt(inbox, Asked(p))
           b == Cnt(BootWaitQueue, OfPid(p))
           c == InWaiting(p)
           d == Cnt(out, To(p))
           e == Len(mail[p])
           i == Cnt(inbox, Inits(p))
<1>3. /\ a \in Nat /\ b \in Nat /\ c \in Nat /\ d \in Nat /\ e \in Nat /\ i \in Nat
      /\ Balanced(pc[p], a, b, c, d, e, i, Registered(p), Dropped(p))
  BY <1>1, AccountNat DEF Account
<1>4. mail[p] = <<>> <=> e = 0
  <2>1. mail[p] \in Seq(Mails)
    BY <1>1 DEF Typed
  <2>2. QED
    BY <2>1, SeqIs
<1>5. ASSUME NEW m \in Letters, inbox' = Append(inbox, m), m.from = p,
             NEW x \in {"ASKPID", "INIT", "TERM"}, m.type = x
      PROVE  \A q \in Module :
                /\ Cnt(inbox', Asked(q)) = Cnt(inbox, Asked(q))
                                           + (IF q = p THEN One(x = "ASKPID") ELSE 0)
                /\ Cnt(inbox', Inits(q)) = Cnt(inbox, Inits(q))
                                           + (IF q = p THEN One(x = "INIT") ELSE 0)
  BY <1>1, <1>5, LetterSent DEF One
<1> HIDE DEF a, b, c, d, e, i
<1>6. CASE Ask(p)
  <2> DEFINE m == [type |-> "ASKPID", from |-> p]
  <2>1. /\ pc[p] = "ask" /\ pc' = [pc EXCEPT ![p] = "asked"] /\ inbox' = Append(inbox, m)
        /\ UNCHANGED <<mail, got, out, registry, boot>>
    BY <1>6 DEF Ask, ToMPS
  <2>2. m \in Letters /\ m.type = "ASKPID" /\ m.from = p
    BY <1>1, <2>1 DEF Letters, TypeInv, Stations
  <2> HIDE DEF m
  <2>3. Balanced("asked", a + 1, b, c, d, e, i + 0, Registered(p), Dropped(p)) /\ e = 0
    BY <1>3, <2>1 DEF Balanced
  <2>4. \A q \in Module : /\ Cnt(inbox', Asked(q)) = Cnt(inbox, Asked(q)) + (IF q = p THEN 1 ELSE 0)
                          /\ Cnt(inbox', Inits(q)) = Cnt(inbox, Inits(q)) + (IF q = p THEN 0 ELSE 0)
    BY <1>5, <2>1, <2>2 DEF One
  <2>5. "asked" \in PCs
    BY DEF PCs
  <2>6. QED
    BY <1>2, <1>4, <2>1, <2>3, <2>4, <2>5, MoveAccount DEF a, b, c, d, e, i
<1>7. CASE DriverStart(p)
  <2> DEFINE m == [type |-> "INIT", from |-> p]
  <2>1. /\ pc[p] = "register" /\ pc' = [pc EXCEPT ![p] = "starting"] /\ inbox' = Append(inbox, m)
        /\ p \in Driver /\ UNCHANGED <<mail, got, out, registry, boot>>
    BY <1>7 DEF DriverStart, ToMPS
  <2>2. m \in Letters /\ m.type = "INIT" /\ m.from = p
    BY <2>1 DEF Letters
  <2> HIDE DEF m
  <2>3. Balanced("starting", a + 0, b, c, d, e, i + 1, Registered(p), Dropped(p))
    BY <1>3, <2>1 DEF Balanced
  <2>4. \A q \in Module : /\ Cnt(inbox', Asked(q)) = Cnt(inbox, Asked(q)) + (IF q = p THEN 0 ELSE 0)
                          /\ Cnt(inbox', Inits(q)) = Cnt(inbox, Inits(q)) + (IF q = p THEN 1 ELSE 0)
    BY <1>5, <2>1, <2>2 DEF One
  <2>5. "starting" \in PCs
    BY DEF PCs
  <2>6. QED
    BY <1>2, <2>1, <2>3, <2>4, <2>5, MoveAccount DEF a, b, c, d, e, i
<1>8. CASE Fail(p)
  <2> DEFINE m == [type |-> "TERM", from |-> p]
  <2>1. /\ pc[p] = "register" /\ pc' = [pc EXCEPT ![p] = "exited"]
        /\ UNCHANGED inbox \/ inbox' = Append(inbox, m)
        /\ UNCHANGED <<mail, got, out, registry, boot>>
    BY <1>8 DEF Fail, ToMPS
  <2>2. m \in Letters /\ m.type = "TERM" /\ m.from = p
    BY DEF Letters
  <2> HIDE DEF m
  <2>3. Balanced("exited", a + 0, b, c, d, e, i + 0, Registered(p), Dropped(p))
    BY <1>3, <2>1 DEF Balanced
  <2>4. \A q \in Module : /\ Cnt(inbox', Asked(q)) = Cnt(inbox, Asked(q)) + (IF q = p THEN 0 ELSE 0)
                          /\ Cnt(inbox', Inits(q)) = Cnt(inbox, Inits(q)) + (IF q = p THEN 0 ELSE 0)
    <3>1. CASE UNCHANGED inbox
      <4>1. \A q \in Module : Cnt(inbox, Asked(q)) \in Nat /\ Cnt(inbox, Inits(q)) \in Nat
        BY <1>1, AccountNat
      <4>2. QED
        BY <3>1, <4>1
    <3>2. CASE inbox' = Append(inbox, m)
      BY <1>5, <2>2, <3>2 DEF One
    <3>3. QED
      BY <2>1, <3>1, <3>2
  <2>5. "exited" \in PCs
    BY DEF PCs
  <2>6. QED
    BY <1>2, <2>1, <2>3, <2>4, <2>5, MoveAccount DEF a, b, c, d, e, i
<1>9. QED
  BY <1>6, <1>7, <1>8

\* DriverStarted.
LEMMA StartedAccount ==
    ASSUME AccountInv, NEW p \in Module, DriverStarted(p)
    PROVE  AccountInv'
<1>1. TypeInv /\ Typed /\ Named /\ Known /\ Unsought /\ (\A q \in Module : Account(q))
      /\ pc \in [Module -> PCs] /\ mail \in [Module -> Seq(Mails)]
  BY DEF AccountInv, TypeInv, Typed
<1>2. TypeInv'
  BY <1>1, RunTypes DEF Run
<1> DEFINE m == [type |-> "TERM", from |-> p]
<1>3. /\ pc[p] = "starting" /\ mail[p] # <<>>
      /\ mail' = [mail EXCEPT ![p] = Tail(@)]
      /\ UNCHANGED <<init, got, out, registry, boot>>
      /\ \E x \in {"serving", "exited"} : pc' = [pc EXCEPT ![p] = x]
      /\ UNCHANGED inbox \/ inbox' = Append(inbox, m)
  BY DEF DriverStarted, ToMPS
<1>4. m \in Letters /\ m.type = "TERM"
  BY DEF Letters
<1> HIDE DEF m
<1>5. PICK x \in {"serving", "exited"} : pc' = [pc EXCEPT ![p] = x]
  BY <1>3
<1>6. /\ \A q \in Module : pc'[q] = IF q = p THEN x ELSE pc[q]
      /\ \A q \in Module : mail'[q] = IF q = p THEN Tail(mail[p]) ELSE mail[q]
  BY <1>1, <1>3, <1>5
<1>7. \A q \in Module : /\ Cnt(inbox', Asked(q)) = Cnt(inbox, Asked(q))
                        /\ Cnt(inbox', Inits(q)) = Cnt(inbox, Inits(q))
  <2>1. CASE UNCHANGED inbox
    BY <2>1
  <2>2. ASSUME inbox' = Append(inbox, m), NEW q \in Module
        PROVE  /\ Cnt(inbox', Asked(q)) = Cnt(inbox, Asked(q))
               /\ Cnt(inbox', Inits(q)) = Cnt(inbox, Inits(q))
    <3>1. Cnt(inbox, Asked(q)) \in Nat /\ Cnt(inbox, Inits(q)) \in Nat
      BY <1>1, AccountNat
    <3>2. QED
      BY <1>1, <1>4, <2>2, <3>1, LetterSent DEF One
  <2>3. QED
    BY <1>3, <2>1, <2>2
<1>8. Named'
  BY <1>1, <1>3, TablesKept
<1>9. Known'
  <2>1. ASSUME NEW q \in Module, NEW d \in Driver, Knows(q, d)' PROVE Registered(d)'
    <3>1. HasMail(q, d)' => HasMail(q, d)
      BY <1>1, <1>3, <1>6, HasMailThen
    <3>2. Knows(q, d)
      BY <1>3, <2>1, <3>1 DEF Knows, HasReply
    <3>3. UNCHANGED instances
      BY <1>3 DEF registry
    <3>4. QED
      BY <1>1, <3>2, <3>3, RegisteredThen DEF Known
  <2>2. QED
    BY <2>1 DEF Known
<1>10. Unsought'
  BY <1>1, <1>6 DEF Unsought
<1>11. ASSUME NEW q \in Module PROVE Account(q)'
  <2>1. CASE q # p
    <3>1. Account(q) /\ pc'[q] = pc[q] /\ mail'[q] = mail[q]
      BY <1>1, <1>6, <2>1
    <3>2. QED
      BY <1>3, <1>7, <3>1, AccountKept, TablesKept
  <2>2. CASE q = p
    <3> DEFINE a == Cnt(inbox, Asked(p))
               b == Cnt(BootWaitQueue, OfPid(p))
               c == InWaiting(p)
               d == Cnt(out, To(p))
               i == Cnt(inbox, Inits(p))
    <3>1. Balanced(pc[p], a, b, c, d, Len(mail[p]), i, Registered(p), Dropped(p))
      BY <1>1 DEF Account
    <3>2. Len(mail[p]) # 0
      <4>1. mail[p] \in Seq(Mails)
        BY <1>1
      <4>2. QED
        BY <1>3, <4>1, SeqIs
    <3> HIDE DEF a, b, c, d, i
    <3>3. Balanced(x, a, b, c, d, Len(mail'[p]), i, Registered(p), Dropped(p))
      BY <1>3, <3>1, <3>2 DEF Balanced
    <3>4. pc'[p] = x
      BY <1>6
    <3>5. QED
      BY <1>3, <1>7, <2>2, <3>3, <3>4, TablesKept DEF Account, a, b, c, d, i
  <2>3. QED
    BY <2>1, <2>2
<1>12. QED
  BY <1>2, <1>8, <1>9, <1>10, <1>11 DEF AccountInv

\* Answered.
LEMMA AnsweredAccount ==
    ASSUME AccountInv, NEW p \in Module, Answered(p)
    PROVE  AccountInv'
<1>1. TypeInv /\ Typed /\ Named /\ Known /\ Unsought /\ (\A q \in Module : Account(q))
      /\ pc \in [Module -> PCs] /\ mail \in [Module -> Seq(Mails)]
  BY DEF AccountInv, TypeInv, Typed
<1>2. TypeInv'
  BY <1>1, RunTypes DEF Run
<1>3. /\ pc[p] = "asked" /\ mail[p] # <<>> /\ mail[p] \in Seq(Mails)
      /\ UNCHANGED <<init, inbox, out, registry, boot>>
      /\ Despairing(p) \/ \E d \in Driver : Learning(p, d)
  BY <1>1, AnsweredIs
<1>4. PICK x \in {"exited", "done", "register"} : pc' = [pc EXCEPT ![p] = x]
  BY <1>3 DEF Despairing, Learning, Afterwards
<1>5. \A q \in Module : pc'[q] = IF q = p THEN x ELSE pc[q]
  BY <1>1, <1>4
<1>6. ~Registered(p)
  BY <1>1, <1>3 DEF Account, Balanced
<1>7. Named'
  BY <1>1, <1>3, TablesKept
<1>8. Known'
  <2>1. ASSUME NEW q \in Module, NEW d \in Driver, Knows(q, d)' PROVE Registered(d)'
    <3>1. Knows(q, d)
      BY <1>1, <1>6, <2>1, AnsweredKnows DEF Known
    <3>2. UNCHANGED instances
      BY <1>3 DEF registry
    <3>3. QED
      BY <1>1, <3>1, <3>2, RegisteredThen DEF Known
  <2>2. QED
    BY <2>1 DEF Known
\* Its own account: it had one message and has none.
<1>9. ASSUME mail'[p] = Tail(mail[p]) PROVE Account(p)'
  <2> DEFINE a == Cnt(inbox, Asked(p))
             b == Cnt(BootWaitQueue, OfPid(p))
             c == InWaiting(p)
             d == Cnt(out, To(p))
             e == Len(mail[p])
             i == Cnt(inbox, Inits(p))
             f == Len(mail'[p])
  <2>1. /\ a \in Nat /\ b \in Nat /\ c \in Nat /\ d \in Nat /\ e \in Nat /\ i \in Nat
        /\ Balanced("asked", a, b, c, d, e, i, Registered(p), Dropped(p))
    BY <1>1, <1>3, AccountNat DEF Account
  <2>2. f = e - 1 /\ e # 0
    BY <1>3, <1>9
  <2> HIDE DEF a, b, c, d, e, i, f
  <2>3. a = 0 /\ b = 0 /\ c = 0 /\ d = 0 /\ f = 0
    BY <2>1, <2>2 DEF Balanced
  <2>4. i = 0
    BY <2>1 DEF Balanced
  <2>5. Balanced(x, a, b, c, d, f, i, Registered(p), Dropped(p))
    BY <1>6, <2>3, <2>4 DEF Balanced
  <2>6. pc'[p] = x
    BY <1>5
  <2>7. QED
    BY <1>3, <2>5, <2>6, TablesKept DEF Account, a, b, c, d, f, i
<1>10. CASE Despairing(p)
  <2>1. \A q \in Module : mail'[q] = IF q = p THEN Tail(mail[p]) ELSE mail[q]
    BY <1>1, <1>10 DEF Despairing
  <2>2. ASSUME NEW q \in Module PROVE Account(q)'
    <3>1. CASE q = p
      BY <1>9, <2>1, <3>1
    <3>2. CASE q # p
      BY <1>1, <1>3, <1>5, <2>1, <3>2, AccountKept, TablesKept
    <3>3. QED
      BY <3>1, <3>2
  <2>3. Unsought'
    BY <1>1, <1>5, <2>1 DEF Unsought
  <2>4. QED
    BY <1>2, <1>7, <1>8, <2>2, <2>3 DEF AccountInv
<1>11. ASSUME NEW d \in Driver, Learning(p, d) PROVE AccountInv'
  <2>1. Registered(d)
    <3>1. Head(mail[p]) = mail[p][1] /\ 1 \in DOMAIN mail[p]
      BY <1>3, CntTail
    <3>2. HasMail(p, d)
      BY <1>11, <3>1 DEF Learning, HasMail
    <3>3. QED
      BY <1>1, <3>2 DEF Known, Knows
  <2>2. p # d /\ d \in Module
    BY <1>6, <2>1, ModuleAssumption
  <2>3. /\ \A q \in Module \ {p, d} : mail'[q] = mail[q]
        /\ mail'[p] = Tail(mail[p])
        /\ mail'[d] = mail[d] \/ mail'[d] = Append(mail[d], Request(p))
    BY <1>11, <2>2 DEF Learning
  <2>4. pc[d] \notin {"off", "ask", "asked", "register"}
    BY <1>1, <2>1, <2>2 DEF Account, Balanced
  <2>5. Account(d)'
    <3> DEFINE e == Len(mail[d])
               f == Len(mail'[d])
    <3>1. Balanced(pc[d], Cnt(inbox, Asked(d)), Cnt(BootWaitQueue, OfPid(d)), InWaiting(d),
                   Cnt(out, To(d)), e, Cnt(inbox, Inits(d)), Registered(d), Dropped(d))
      BY <1>1, <2>2 DEF Account
    <3> HIDE DEF e, f
    <3>2. Balanced(pc[d], Cnt(inbox, Asked(d)), Cnt(BootWaitQueue, OfPid(d)), InWaiting(d),
                   Cnt(out, To(d)), f, Cnt(inbox, Inits(d)), Registered(d), Dropped(d))
      BY <2>1, <2>4, <3>1 DEF Balanced
    <3>3. pc'[d] = pc[d]
      BY <1>5, <2>2
    <3>4. QED
      BY <1>3, <2>2, <3>2, <3>3, TablesKept DEF Account, f
  <2>6. ASSUME NEW q \in Module PROVE Account(q)'
    <3>1. CASE q = p
      BY <1>9, <2>3, <3>1
    <3>2. CASE q = d
      BY <2>5, <3>2
    <3>3. CASE q \notin {p, d}
      BY <1>1, <1>3, <1>5, <2>3, <3>3, AccountKept, TablesKept
    <3>4. QED
      BY <3>1, <3>2, <3>3
  <2>7. Unsought'
    <3>1. ASSUME NEW q \in Module, pc'[q] = "asked" PROVE \A j \in DOMAIN mail'[q] : mail'[q][j] \notin Requests
      <4>1. q \notin {p, d} /\ pc[q] = "asked"
        BY <1>5, <2>4, <3>1
      <4>2. QED
        BY <1>1, <2>3, <4>1 DEF Unsought
    <3>2. QED
      BY <3>1 DEF Unsought
  <2>8. QED
    BY <1>2, <1>7, <1>8, <2>6, <2>7 DEF AccountInv
<1>12. QED
  BY <1>3, <1>10, <1>11

\* A question that mps takes from its mailbox goes to the boot queue or is answered.
LEMMA BalanceTaken ==
    ASSUME NEW at, NEW a \in Nat, NEW b \in Nat, NEW c \in Nat, NEW e \in Nat, NEW i, NEW reg,
           NEW dropped, NEW a2 \in Nat, NEW b2 \in Nat, NEW d2 \in Nat,
           Balanced(at, a, b, c, 0, e, i, reg, dropped),
           a = a2 + 1, b2 + d2 = b + 1
    PROVE  Balanced(at, a2, b2, c, d2, e, i, reg, dropped)
<1>1. at = "asked" /\ a2 + b2 + c + d2 + e = a + b + c + 0 + e
  BY DEF Balanced
<1>2. QED
  BY <1>1 DEF Balanced

\* Who is in a queue changes queue or is answered; or it is dropped.
LEMMA BalanceShift ==
    ASSUME NEW at, NEW a \in Nat, NEW b \in Nat, NEW c \in Nat, NEW e \in Nat, NEW i, NEW reg,
           NEW dropped, NEW b2 \in Nat, NEW c2 \in Nat, NEW d2 \in Nat, NEW dropped2,
           Balanced(at, a, b, c, 0, e, i, reg, dropped), dropped => dropped2,
           \/ b2 + c2 + d2 = b + c
           \/ c2 = 0 /\ b2 + d2 = b /\ (c = 0 \/ dropped2)
    PROVE  Balanced(at, a, b2, c2, d2, e, i, reg, dropped2)
<1>1. CASE at # "asked"
  <2>1. b = 0 /\ c = 0
    BY <1>1 DEF Balanced
  <2>2. b2 = 0 /\ c2 = 0 /\ d2 = 0
    BY <2>1
  <2>3. QED
    BY <1>1, <2>1, <2>2 DEF Balanced
<1>2. CASE at = "asked"
  <2>1. a + b + c + 0 + e = 1 \/ (a + b + c + 0 + e = 0 /\ dropped)
    BY <1>2 DEF Balanced
  <2>2. a + b2 + c2 + d2 + e = 1 \/ (a + b2 + c2 + d2 + e = 0 /\ dropped2)
    BY <2>1
  <2>3. i = 0 /\ ~reg
    BY <1>2 DEF Balanced
  <2>4. QED
    BY <1>2, <2>2, <2>3 DEF Balanced
<1>3. QED
  BY <1>1, <1>2

\* Nobody in an empty queue.
LEMMA NobodyWaits == \A T : Cnt(<<>>, T) = 0
<1>1. <<>> \in Seq({})
  OBVIOUS
<1>2. QED
  BY <1>1, CntNat

\* Where the questions go when p registers.
LEMMA EnterCounts ==
    ASSUME Typed, Named, NEW p \in Driver, NEW queue, NEW moved, NEW closing \in BOOLEAN,
           NEW w, NEW served, NEW unserved, Sorted(p, queue, moved),
           Entering(p, queue, moved, closing, w, served, unserved), NEW q \in Module
    PROVE  LET b == Cnt(BootWaitQueue, OfPid(q))
               b2 == Cnt(BootWaitQueue', OfPid(q))
               c == InWaiting(q)
               c2 == InWaiting(q)'
               d2 == Cnt(out', To(q))
           IN  /\ b2 \in Nat /\ c2 \in Nat /\ d2 \in Nat
               /\ \/ b2 + c2 + d2 = b + c + One(q = p)
                  \/ c2 = 0 /\ b2 + d2 = b + One(q = p) /\ (c = 0 \/ Dropped(q)')
               /\ Dropped(q) => Dropped(q)'
<1> DEFINE n == NameOf[p]
           kept == Cnt(queue, OfPid(q))
           gone == Cnt(moved, {q})
           before == Cnt(waiting[n], {q})
           all == Cnt(w, {q})
           now == Cnt(served, {q})
           later == Cnt(unserved, {q})
           b == Cnt(BootWaitQueue, OfPid(q))
           b2 == Cnt(BootWaitQueue', OfPid(q))
           c == InWaiting(q)
           c2 == InWaiting(q)'
           d2 == Cnt(out', To(q))
           one == One(q = p)
<1>1. /\ n \in Name /\ queue \in Seq(Waiters) /\ moved \in Seq(Module) /\ w \in Seq(Module)
      /\ served \in Seq(Module) /\ unserved \in Seq(Module) /\ waiting \in [Name -> Seq(Module)]
      /\ waiting[n] \in Seq(Module)
  BY ModuleAssumption DEF Sorted, Entering, Serving, Typed
<1>2. /\ kept \in Nat /\ gone \in Nat /\ before \in Nat /\ all \in Nat
      /\ now \in Nat /\ later \in Nat
  BY <1>1, CntNat
<1>3. kept + gone = b
  BY DEF Sorted
<1>4. all = before + gone
  BY DEF Entering
<1>5. now + later = all
  BY DEF Entering, Serving
<1>6. b2 = IF closing THEN 0 ELSE kept
  BY NobodyWaits DEF Entering
<1>7. d2 = (IF closing THEN kept ELSE 0) + one + now /\ one \in Nat
  BY DEF Entering, Concerned, One
<1>8. waiting' = [m \in Name |-> IF m = n THEN unserved ELSE IF closing THEN <<>> ELSE waiting[m]]
  BY DEF Entering
<1>9. Dropped(q) => Dropped(q)'
  BY DEF Dropped, Entering
<1>10. closing => BootRegisterFinished'
  BY DEF Entering
<1>11. is_multi \subseteq is_multi'
  BY DEF Entering
<1>12. CASE Asks[q] = n
  <2>1. c = before /\ c2 = later
    BY <1>1, <1>8, <1>12 DEF InWaiting
  <2> HIDE DEF kept, gone, before, all, now, later, b, b2, c, c2, d2, one
  <2>2. b2 + c2 + d2 = b + c + one /\ b2 \in Nat /\ c2 \in Nat /\ d2 \in Nat
    BY <1>2, <1>3, <1>4, <1>5, <1>6, <1>7, <2>1
  <2>3. QED
    BY <1>9, <2>2 DEF b, b2, c, c2, d2, one
<1>13. CASE Asks[q] # n
  <2>1. before = 0
    <3>1. \A i \in DOMAIN waiting[n] : waiting[n][i] \notin {q}
      BY <1>1, <1>13 DEF Named
    <3>2. QED
      BY <1>1, <3>1, CntNat
  <2>2. gone = 0
    <3>1. \A i \in DOMAIN moved : moved[i] \notin {q}
      BY <1>13 DEF Named, Sorted
    <3>2. QED
      BY <1>1, <3>1, CntNat
  <2>3. c2 = IF closing THEN 0 ELSE c
    <3>1. CASE Asks[q] \in Name
      <4>1. waiting'[Asks[q]] = IF closing THEN <<>> ELSE waiting[Asks[q]]
        BY <1>8, <1>13, <3>1
      <4>2. QED
        BY <3>1, <4>1, NobodyWaits DEF InWaiting
    <3>2. CASE Asks[q] \notin Name
      BY <3>2 DEF InWaiting
    <3>3. QED
      BY <3>1, <3>2
  <2>4. c = 0 \/ Asks[q] \in is_multi
    <3>1. CASE Asks[q] \in Name
      <4>1. waiting[Asks[q]] = <<>> => c = 0
        BY <3>1, NobodyWaits DEF InWaiting
      <4>2. QED
        BY <3>1, <4>1 DEF Named
    <3>2. CASE Asks[q] \notin Name
      BY <3>2 DEF InWaiting
    <3>3. QED
      BY <3>1, <3>2
  <2>5. c \in Nat
    BY AccountNat
  <2>6. closing => (c = 0 \/ Dropped(q)')
    BY <1>10, <1>11, <2>4 DEF Dropped
  <2> HIDE DEF kept, gone, before, all, now, later, b, b2, c, c2, d2, one
  <2>7. now = 0
    BY <1>2, <1>4, <1>5, <2>1, <2>2
  <2>8. CASE closing
    <3>1. c2 = 0 /\ b2 = 0 /\ b2 + d2 = b + one /\ d2 \in Nat
      BY <1>2, <1>3, <1>6, <1>7, <2>2, <2>3, <2>7, <2>8
    <3>2. QED
      BY <1>9, <2>6, <2>8, <3>1 DEF b, b2, c, c2, d2, one
  <2>9. CASE ~closing
    <3>1. c2 = c /\ b2 \in Nat /\ b2 + c2 + d2 = b + c + one /\ d2 \in Nat
      BY <1>2, <1>3, <1>6, <1>7, <2>2, <2>3, <2>5, <2>7, <2>9
    <3>2. QED
      BY <1>9, <2>5, <3>1 DEF b, b2, c, c2, d2, one
  <2>10. QED
    BY <2>8, <2>9
<1>14. QED
  BY <1>12, <1>13

\* Of a driver that registers, only those it serves are told.
LEMMA EnterReplies ==
    ASSUME NEW p \in Driver, NEW queue \in Seq(Waiters), NEW closing \in BOOLEAN,
           NEW served \in Seq(Module), Concerned(p, queue, closing, served),
           NEW q \in Module, NEW d \in Driver, HasReply(q, d)'
    PROVE  d = p /\ \E j \in DOMAIN served : served[j] = q
<1>1. PICK i \in DOMAIN out' : out'[i].to = q /\ out'[i].msg.pid = d
  BY DEF HasReply
<1>2. PICK k \in Nat \ {0} :
          /\ k \in DOMAIN out' /\ out'[k] = Driver_Init_Reply(p)
          /\ \A j \in DOMAIN out' :
                /\ j < k => closing /\ j \in DOMAIN queue
                            /\ out'[j] = Send_AskPid_Reply(queue[j].pid, NoPid)
                /\ j > k => j - k \in DOMAIN served
                            /\ out'[j] = Send_AskPid_Reply(served[j - k], p)
  BY DEF Concerned
<1>3. p \in Module /\ NoPid \notin Driver
  BY ModuleAssumption
<1>4. ~(i < k)
  <2>1. ASSUME i < k PROVE FALSE
    <3>1. i \in DOMAIN queue /\ out'[i] = Send_AskPid_Reply(queue[i].pid, NoPid)
      BY <1>1, <1>2, <2>1
    <3>2. out'[i].msg.pid = NoPid
      BY <3>1 DEF Send_AskPid_Reply, Reply
    <3>3. QED
      BY <1>1, <1>3, <3>2
  <2>2. QED
    BY <2>1
<1>5. i # k
  BY <1>1, <1>2, <1>3, ReplyIs
<1>6. i - k \in DOMAIN served /\ out'[i] = Send_AskPid_Reply(served[i - k], p)
  <2>1. out' \in Seq(Replies)
    BY DEF Concerned
  <2>2. i \in Nat
    BY <1>1, <2>1
  <2>3. i > k
    BY <1>2, <1>4, <1>5, <2>2
  <2>4. QED
    BY <1>1, <1>2, <2>3
<1>7. served[i - k] \in Module
  BY <1>6, SeqIs
<1>8. out'[i].to = served[i - k] /\ out'[i].msg.pid = p
  BY <1>6, <1>7, ReplyIs
<1>9. QED
  BY <1>1, <1>6, <1>8

\* What the handlers of mps tell: FindDriverPid of the instance it gives away, a
\* registration of the new one, the others of nobody.
LEMMA HandleKnows ==
    ASSUME Typed, Handle, NEW q \in Module, NEW d \in Driver, Knows(q, d)'
    PROVE  \/ Knows(q, d)
           \/ \E n \in Name : \E i \in Usable(n) : Finding(q, n, i) /\ d = instances[n][i].pid
           \/ \E queue, moved, w, served, unserved : \E closing \in BOOLEAN :
                 /\ Head(inbox).type = "INIT" /\ Head(inbox).from = d
                 /\ Sorted(d, queue, moved)
                 /\ Entering(d, queue, moved, closing, w, served, unserved)
                 /\ \E j \in DOMAIN served : served[j] = q
<1> DEFINE m == Head(inbox)
           p == m.from
<1>1. /\ UNCHANGED <<got, mail>> /\ m \in Letters /\ Handling(m.type, p)
  BY HandleIs DEF modules
<1>2. Knows(q, d) \/ HasReply(q, d)'
  BY <1>1 DEF Knows, HasMail
<1>3. NoPid \notin Driver /\ BootWaitQueue \in Seq(Waiters)
  BY ModuleAssumption DEF Typed
<1>4. SUFFICES ASSUME HasReply(q, d)'
               PROVE  \/ \E n \in Name : \E i \in Usable(n) : Finding(q, n, i) /\ d = instances[n][i].pid
                      \/ \E queue, moved, w, served, unserved : \E closing \in BOOLEAN :
                            /\ m.type = "INIT" /\ p = d
                            /\ Sorted(d, queue, moved)
                            /\ Entering(d, queue, moved, closing, w, served, unserved)
                            /\ \E j \in DOMAIN served : served[j] = q
  BY <1>2
<1>5. PICK k \in DOMAIN out' : out'[k].to = q /\ out'[k].msg.pid = d
  BY <1>4 DEF HasReply
<1> HIDE DEF m
<1>6. CASE m.type = "ASKPID" /\ FindDriverPid(p, Asks[p])
  <2>1. p \in Module /\ Asks[p] \in Name
    BY <1>1, <1>6, LetterIs
  <2>2. PICK i \in Usable(Asks[p]) : Finding(p, Asks[p], i)
    BY <1>6, <2>1, FindIs
  <2> DEFINE e == instances[Asks[p]][i].pid
  <2>3. e \in Driver /\ out' = <<Send_AskPid_Reply(p, e)>>
    BY <2>2 DEF Finding
  <2>4. out'[k] = Send_AskPid_Reply(p, e)
    BY <1>5, <2>3
  <2>5. q = p /\ d = e
    BY <1>5, <2>1, <2>3, <2>4, ReplyIs
  <2>6. QED
    BY <2>1, <2>2, <2>5
<1>7. CASE out' = <<>>
  BY <1>5, <1>7
<1>8. ASSUME p \in Module, NEW err \in {"DRVPRESENT", "DRVNOTPRESENT", "DRVNOTFOUND"}, Errs(p, err)
      PROVE  FALSE
  <2>1. out'[k] = ReplyError(p, err)
    BY <1>5, <1>8 DEF Errs
  <2>2. out'[k].msg.pid = NoPid
    BY <2>1 DEF ReplyError, Reply
  <2>3. QED
    BY <1>3, <1>5, <2>2
<1>9. CASE Closing
  <2>1. k \in DOMAIN BootWaitQueue /\ out'[k].msg.pid = NoPid
    BY <1>3, <1>5, <1>9, CloseIs DEF Closing
  <2>2. QED
    BY <1>3, <1>5, <2>1
<1>10. CASE m.type = "INIT" /\ Registers(p)
  <2>1. p \in Driver
    BY <1>1, <1>10, LetterIs
  <2>2. PICK queue, moved : \E closing \in BOOLEAN :
           Sorted(p, queue, moved) /\ Registering(p, queue, moved, closing)
    BY <1>10 DEF Registers
  <2>3. PICK closing \in BOOLEAN : Sorted(p, queue, moved) /\ Registering(p, queue, moved, closing)
    BY <2>2
  <2>4. PICK w, served, unserved : Entering(p, queue, moved, closing, w, served, unserved)
    BY <2>1, <2>3, EnterIs
  <2>5. queue \in Seq(Waiters) /\ served \in Seq(Module) /\ Concerned(p, queue, closing, served)
    BY <2>3, <2>4 DEF Sorted, Entering, Serving
  <2>6. d = p /\ \E j \in DOMAIN served : served[j] = q
    BY <1>4, <2>1, <2>5, EnterReplies
  <2>7. QED
    BY <1>10, <2>3, <2>4, <2>6
<1>11. m.type \in {"ASKPID", "INIT", "TERM"} => p \in Module
  BY <1>1, LetterIs
<1>12. QED
  BY <1>1, <1>6, <1>7, <1>8, <1>9, <1>10, <1>11 DEF Handling, Missing, Queuing, Idle

\* A registration puts nobody into the queue of another driver.
LEMMA EnterNamed ==
    ASSUME Typed, Named, NEW p \in Driver, NEW queue, NEW moved, NEW closing \in BOOLEAN,
           NEW w, NEW served, NEW unserved, Sorted(p, queue, moved),
           Entering(p, queue, moved, closing, w, served, unserved)
    PROVE  /\ Named'
           /\ \A j \in DOMAIN served : Asks[served[j]] = NameOf[p]
<1> DEFINE n == NameOf[p]
<1>1. /\ n \in Name /\ waiting \in [Name -> Seq(Module)] /\ w \in Seq(Module)
      /\ served \in Seq(Module)
  BY ModuleAssumption DEF Typed, Entering, Serving
<1>2. waiting' = [m \in Name |-> IF m = n THEN unserved ELSE IF closing THEN <<>> ELSE waiting[m]]
  BY DEF Entering
<1>3. \A i \in DOMAIN w : Asks[w[i]] = n
  <2>1. ASSUME NEW i \in DOMAIN w PROVE Asks[w[i]] = n
    <3>1. ASSUME NEW j \in DOMAIN waiting[n], w[i] = waiting[n][j] PROVE Asks[w[i]] = n
      BY <1>1, <3>1 DEF Named
    <3>2. ASSUME NEW j \in DOMAIN moved, w[i] = moved[j] PROVE Asks[w[i]] = n
      BY <3>2 DEF Named, Sorted
    <3>3. QED
      BY <3>1, <3>2 DEF Entering
  <2>2. QED
    BY <2>1
<1>4. \A i \in DOMAIN unserved : Asks[unserved[i]] = n
  BY <1>3, ZenonT(60) DEF Entering, Serving
<1>5. \A i \in DOMAIN BootWaitQueue' : BootWaitQueue'[i].name = Asks[BootWaitQueue'[i].pid]
  <2>1. CASE closing
    BY <2>1 DEF Entering
  <2>2. CASE ~closing
    BY <2>2 DEF Entering, Sorted, Named
  <2>3. QED
    BY <2>1, <2>2
<1>6. \A m \in Name : \A i \in DOMAIN waiting'[m] : Asks[waiting'[m][i]] = m
  <2>1. ASSUME NEW m \in Name, NEW i \in DOMAIN waiting'[m] PROVE Asks[waiting'[m][i]] = m
    <3>1. CASE m = n
      BY <1>2, <1>4, <2>1, <3>1
    <3>2. CASE m # n
      <4>1. waiting'[m] = IF closing THEN <<>> ELSE waiting[m]
        BY <1>2, <3>2
      <4>2. waiting'[m] # <<>>
        BY <2>1
      <4>3. QED
        BY <2>1, <4>1, <4>2 DEF Named
    <3>3. QED
      BY <3>1, <3>2
  <2>2. QED
    BY <2>1
<1>7. \A m \in Name : waiting'[m] # <<>> => m \in is_multi'
  <2>1. ASSUME NEW m \in Name, waiting'[m] # <<>> PROVE m \in is_multi'
    <3>1. CASE m = n
      <4>1. unserved # <<>>
        BY <1>2, <2>1, <3>1
      <4>2. p \in Multi
        BY <4>1 DEF Entering, Serving
      <4>3. QED
        BY <3>1, <4>2 DEF Entering
    <3>2. CASE m # n
      <4>1. waiting[m] # <<>>
        BY <1>2, <2>1, <3>2
      <4>2. QED
        BY <4>1 DEF Named, Entering
    <3>3. QED
      BY <3>1, <3>2
  <2>2. QED
    BY <2>1
<1>8. Named'
  BY <1>5, <1>6, <1>7 DEF Named
\* Who is served is in w.
<1>9. ASSUME NEW j \in DOMAIN served PROVE Asks[served[j]] = n
  <2>1. Cnt(served, {served[j]}) # 0
    <3>1. served[j] \in {served[j]}
      OBVIOUS
    <3>2. QED
      BY <1>1, <3>1, CntNat
  <2>2. Cnt(served, {served[j]}) + Cnt(unserved, {served[j]}) = Cnt(w, {served[j]})
    BY DEF Entering, Serving
  <2>3. Cnt(served, {served[j]}) \in Nat /\ Cnt(unserved, {served[j]}) \in Nat
    <3>1. unserved \in Seq(Module)
      BY DEF Entering, Serving
    <3>2. QED
      BY <1>1, <3>1, CntNat
  <2>4. Cnt(w, {served[j]}) # 0
    BY <2>1, <2>2, <2>3
  <2>5. PICK i \in DOMAIN w : w[i] \in {served[j]}
    BY <1>1, <2>4, CntNat
  <2>6. QED
    BY <1>3, <2>5
<1>10. QED
  BY <1>8, <1>9

\* A handler of mps keeps who waits where it waits for what it asked for.
LEMMA HandleNamed ==
    ASSUME Typed, Named, Handle
    PROVE  Named'
<1> DEFINE m == Head(inbox)
           p == m.from
<1>1. m \in Letters /\ Handling(m.type, p)
  BY HandleIs
<1>2. BootWaitQueue \in Seq(Waiters)
  BY DEF Typed
<1> HIDE DEF m
<1>3. CASE m.type = "ASKPID" /\ FindDriverPid(p, Asks[p])
  <2>1. UNCHANGED <<is_multi, waiting, BootWaitQueue>>
    BY <1>3 DEF FindDriverPid, boot
  <2>2. QED
    BY <2>1 DEF Named
<1>4. CASE m.type = "ASKPID" /\ Queuing(p)
  <2> DEFINE e == [pid |-> p, name |-> Asks[p]]
  <2>1. e \in Waiters /\ e.name = Asks[e.pid]
    BY <1>1, <1>4, LetterIs DEF Waiters
  <2>2. BootWaitQueue' = Append(BootWaitQueue, e) /\ UNCHANGED <<is_multi, waiting>>
    BY <1>4 DEF Queuing
  <2> HIDE DEF e
  <2>3. \A i \in DOMAIN BootWaitQueue' :
           BootWaitQueue'[i] = e \/ (i \in DOMAIN BootWaitQueue /\ BootWaitQueue'[i] = BootWaitQueue[i])
    BY <1>2, <2>1, <2>2, AppendIs
  <2>4. QED
    BY <2>1, <2>2, <2>3 DEF Named
<1>5. CASE UNCHANGED tables
  BY <1>5 DEF Named, tables
<1>6. CASE m.type = "INIT" /\ Registers(p)
  <2>1. p \in Driver
    BY <1>1, <1>6, LetterIs
  <2>2. PICK queue, moved : \E closing \in BOOLEAN :
           Sorted(p, queue, moved) /\ Registering(p, queue, moved, closing)
    BY <1>6 DEF Registers
  <2>3. PICK closing \in BOOLEAN : Sorted(p, queue, moved) /\ Registering(p, queue, moved, closing)
    BY <2>2
  <2>4. PICK w, served, unserved : Entering(p, queue, moved, closing, w, served, unserved)
    BY <2>1, <2>3, EnterIs
  <2>5. QED
    BY <2>1, <2>3, <2>4, EnterNamed
<1>7. CASE Closing
  BY <1>7 DEF Closing, Named
<1>8. QED
  BY <1>1, <1>3, <1>4, <1>5, <1>6, <1>7 DEF Handling, Missing, Errs, Idle

\* What a handler of mps does to the tables of the instances.
LEMMA HandleInstances ==
    ASSUME Typed, Handle
    PROVE  \/ UNCHANGED <<instances, is_multi>>
           \/ \E q \in Module, n \in Name : \E i \in Usable(n) : Finding(q, n, i)
           \/ \E p \in Driver : \E queue, moved, w, served, unserved : \E closing \in BOOLEAN :
                 /\ Head(inbox).type = "INIT" /\ Head(inbox).from = p
                 /\ Sorted(p, queue, moved)
                 /\ Entering(p, queue, moved, closing, w, served, unserved)
<1> DEFINE m == Head(inbox)
           p == m.from
<1>1. m \in Letters /\ Handling(m.type, p)
  BY HandleIs
<1> HIDE DEF m
<1>2. CASE m.type = "ASKPID" /\ FindDriverPid(p, Asks[p])
  <2>1. p \in Module /\ Asks[p] \in Name
    BY <1>1, <1>2, LetterIs
  <2>2. \E i \in Usable(Asks[p]) : Finding(p, Asks[p], i)
    BY <1>2, <2>1, FindIs
  <2>3. QED
    BY <2>1, <2>2
<1>3. CASE m.type = "INIT" /\ Registers(p)
  <2>1. p \in Driver
    BY <1>1, <1>3, LetterIs
  <2>2. PICK queue, moved : \E closing \in BOOLEAN :
           Sorted(p, queue, moved) /\ Registering(p, queue, moved, closing)
    BY <1>3 DEF Registers
  <2>3. PICK closing \in BOOLEAN : Sorted(p, queue, moved) /\ Registering(p, queue, moved, closing)
    BY <2>2
  <2>4. PICK w, served, unserved : Entering(p, queue, moved, closing, w, served, unserved)
    BY <2>1, <2>3, EnterIs
  <2>5. QED
    BY <1>3, <2>1, <2>3, <2>4 DEF m
<1>4. QED
  BY <1>1, <1>2, <1>3 DEF Handling, Missing, Errs, Idle, Queuing, Closing, tables

\* A handler of mps tells of nobody who is not registered then.
LEMMA HandleKnown ==
    ASSUME Typed, Known, Handle
    PROVE  Known'
\* Who is registered stays registered.
<1>1. ASSUME NEW d \in Driver, Registered(d) PROVE Registered(d)'
  <2>1. CASE UNCHANGED <<instances, is_multi>>
    BY <1>1, <2>1, RegisteredThen
  <2>2. ASSUME NEW n, NEW i, Marked(n, i) PROVE Registered(d)'
    BY <1>1, <2>2, RegisteredThen
  <2>3. ASSUME NEW p \in Driver, NEW b, Grown(p, b) PROVE Registered(d)'
    BY <1>1, <2>3, RegisteredThen
  <2>4. QED
    BY <2>1, <2>2, <2>3, HandleInstances DEF Finding, Entering
<1>2. ASSUME NEW q \in Module, NEW d \in Driver, Knows(q, d)' PROVE Registered(d)'
  <2>1. CASE Knows(q, d)
    BY <1>1, <2>1 DEF Known
  <2>2. ASSUME NEW n \in Name, NEW i \in Usable(n), Finding(q, n, i), d = instances[n][i].pid
        PROVE  Registered(d)'
    <3>1. i \in DOMAIN instances[n]
      BY <2>2 DEF Finding
    <3>2. Registered(d)
      BY <2>2, <3>1 DEF Registered
    <3>3. QED
      BY <1>1, <3>2
  <2>3. ASSUME NEW queue, NEW moved, NEW w, NEW served, NEW unserved, NEW closing \in BOOLEAN,
               Entering(d, queue, moved, closing, w, served, unserved)
        PROVE  Registered(d)'
    <3>1. Grown(d, w # <<>>)
      BY <2>3 DEF Entering
    <3>2. QED
      BY <3>1, RegisteredThen
  <2>4. QED
    BY <1>2, <2>1, <2>2, <2>3, HandleKnows
<1>3. QED
  BY <1>2 DEF Known

\* The handlers of mps.
LEMMA HandleAccount ==
    ASSUME AccountInv, Handle
    PROVE  AccountInv'
<1> DEFINE m == Head(inbox)
           p == m.from
<1>1. TypeInv /\ Typed /\ Stations /\ Named /\ Known /\ Unsought /\ \A q \in Module : Account(q)
  BY DEF AccountInv, TypeInv
<1>2. TypeInv' /\ Typed'
  BY <1>1, HandleTypes DEF TypeInv
<1>3. /\ out = <<>> /\ inbox # <<>> /\ inbox' = Tail(inbox)
      /\ UNCHANGED <<init, modules>> /\ UNCHANGED <<pc, got, mail>>
      /\ m \in Letters /\ Handling(m.type, p)
  BY <1>1, HandleIs DEF modules
<1>4. Named' /\ Known'
  BY <1>1, HandleNamed, HandleKnown
<1>5. Unsought'
  BY <1>1, <1>3 DEF Unsought
<1>6. ASSUME NEW q \in Module PROVE Account(q)'
  <2> DEFINE a == Cnt(inbox, Asked(q))
             b == Cnt(BootWaitQueue, OfPid(q))
             c == InWaiting(q)
             e == Len(mail[q])
             i == Cnt(inbox, Inits(q))
             a2 == Cnt(inbox', Asked(q))
             b2 == Cnt(BootWaitQueue', OfPid(q))
             c2 == InWaiting(q)'
             d2 == Cnt(out', To(q))
             i2 == Cnt(inbox', Inits(q))
  <2>1. /\ a \in Nat /\ b \in Nat /\ c \in Nat /\ e \in Nat /\ i \in Nat
        /\ a2 \in Nat /\ b2 \in Nat /\ c2 \in Nat /\ d2 \in Nat /\ i2 \in Nat
    <3>1. a2 \in Nat /\ b2 \in Nat /\ d2 \in Nat /\ i2 \in Nat
      <4>1. inbox' \in Seq(Letters) /\ BootWaitQueue' \in Seq(Waiters) /\ out' \in Seq(Replies)
        BY <1>2 DEF Typed
      <4>2. QED
        BY <4>1, CntNat
    <3>2. c2 \in Nat
      <4>1. InWaiting(q)' = IF Asks[q] \in Name THEN Cnt(waiting'[Asks[q]], {q}) ELSE 0
        BY DEF InWaiting
      <4>2. CASE Asks[q] \in Name
        <5>1. waiting'[Asks[q]] \in Seq(Module)
          BY <1>2, <4>2 DEF Typed
        <5>2. Cnt(waiting'[Asks[q]], {q}) \in Nat
          BY <5>1, CntNat
        <5>3. QED
          BY <4>1, <4>2, <5>2
      <4>3. CASE Asks[q] \notin Name
        BY <4>1, <4>3
      <4>4. QED
        BY <4>2, <4>3
    <3>3. QED
      BY <1>1, <3>1, <3>2, AccountNat
  <2>2. Balanced(pc[q], a, b, c, 0, e, i, Registered(q), Dropped(q))
    <3>1. Cnt(out, To(q)) = 0
      BY <1>3, NoReply
    <3>2. QED
      BY <1>1, <3>1 DEF Account
  <2>3. a = a2 + One(m.type = "ASKPID" /\ p = q) /\ i = i2 + One(m.type = "INIT" /\ p = q)
    BY <1>1, <1>3, LetterRead
  <2>4. SUFFICES Balanced(pc[q], a2, b2, c2, d2, e, i2, Registered(q)', Dropped(q)')
    BY <1>3 DEF Account
  <2> HIDE DEF a, b, c, e, i, a2, b2, c2, d2, i2
\* A letter that is no question and no registration leaves the account of who sent it.
  <2>5. ~(m.type = "ASKPID" /\ p = q) => a2 = a
    BY <2>1, <2>3 DEF One
  <2>6. ~(m.type = "INIT" /\ p = q) => i2 = i
    BY <2>1, <2>3 DEF One
  <2>7. m.type = "ASKPID" /\ p = q => a = a2 + 1
    BY <2>3 DEF One
  <2>8. m.type = "INIT" /\ p = q =>
           i2 = 0 /\ a = 0 /\ b = 0 /\ c = 0 /\ e = 0 /\ pc[q] = "starting"
    <3>1. SUFFICES ASSUME m.type = "INIT", p = q
                   PROVE  i2 = 0 /\ a = 0 /\ b = 0 /\ c = 0 /\ e = 0 /\ pc[q] = "starting"
      OBVIOUS
    <3>2. i = i2 + 1
      BY <2>3, <3>1 DEF One
    <3>3. i = 1 /\ i2 = 0
      BY <2>1, <2>2, <3>2 DEF Balanced
    <3>4. QED
      BY <2>2, <3>3 DEF Balanced
  <2>9. ASSUME UNCHANGED instances PROVE Registered(q)' = Registered(q)
    BY <2>9 DEF Registered
\* mps answers a question, or queues it.
  <2>10. ASSUME m.type = "ASKPID", b2 + d2 = b + (IF p = q THEN 1 ELSE 0), c2 = c,
                p = q \/ (b2 = b /\ d2 = 0),
                Registered(q)' = Registered(q), Dropped(q)' = Dropped(q)
         PROVE  Balanced(pc[q], a2, b2, c2, d2, e, i2, Registered(q)', Dropped(q)')
    <3>1. i2 = i
      BY <2>6, <2>10
    <3>2. CASE p = q
      <4>1. b2 + d2 = b + 1 /\ a = a2 + 1
        BY <2>7, <2>10, <3>2
      <4>2. Balanced(pc[q], a2, b2, c, d2, e, i, Registered(q), Dropped(q))
        BY <2>1, <2>2, <4>1, BalanceTaken
      <4>3. QED
        BY <2>10, <3>1, <4>2
    <3>3. CASE p # q
      <4>1. b2 = b /\ d2 = 0 /\ a2 = a
        BY <2>5, <2>10, <3>3
      <4>2. QED
        BY <2>2, <2>10, <3>1, <4>1
    <3>4. QED
      BY <3>2, <3>3
\* mps answers something else, or nothing.
  <2>11. ASSUME UNCHANGED tables
         PROVE  b2 = b /\ c2 = c /\ Registered(q)' = Registered(q) /\ Dropped(q)' = Dropped(q)
    BY <2>11 DEF tables, b, b2, c, c2, InWaiting, Registered, Dropped
  <2>12. ASSUME p \in Module, NEW err \in {"DRVPRESENT", "DRVNOTPRESENT", "DRVNOTFOUND"},
                Errs(p, err)
         PROVE  d2 = (IF p = q THEN 1 ELSE 0) /\ UNCHANGED tables
    <3>1. ReplyError(p, err) \in Replies /\ ReplyError(p, err).to = p
      BY <2>12, ReplyIs
    <3>2. Cnt(out', To(q)) = One(p = q)
      BY <2>12, <3>1, OneReply DEF Errs
    <3>3. QED
      BY <2>12, <3>2 DEF d2, One, Errs
  <2>13. CASE m.type = "ASKPID" /\ FindDriverPid(p, Asks[p])
    <3>1. p \in Module /\ Asks[p] \in Name
      BY <1>3, <2>13, LetterIs
    <3>2. PICK j \in Usable(Asks[p]) : Finding(p, Asks[p], j)
      BY <1>1, <2>13, <3>1, FindIs
    <3>3. b2 = b /\ c2 = c /\ Dropped(q)' = Dropped(q)
      BY <3>2 DEF Finding, b, b2, c, c2, InWaiting, Dropped
    <3>4. Registered(q)' = Registered(q)
      <4>1. Registered(q)' <=> Registered(q)
        BY <3>2, RegisteredThen DEF Finding
      <4>2. Registered(q) \in BOOLEAN /\ Registered(q)' \in BOOLEAN
        BY DEF Registered
      <4>3. QED
        BY <4>1, <4>2
    <3> DEFINE r == Send_AskPid_Reply(p, instances[Asks[p]][j].pid)
    <3>5. r \in Replies /\ r.to = p /\ out' = <<r>>
      BY <3>1, <3>2, ReplyIs DEF Finding
    <3> HIDE DEF r
    <3>6. d2 = IF p = q THEN 1 ELSE 0
      BY <3>5, OneReply DEF d2, One
    <3>7. QED
      BY <2>1, <2>10, <2>13, <3>3, <3>4, <3>6
  <2>14. CASE m.type = "ASKPID" /\ Queuing(p)
    <3> DEFINE w == [pid |-> p, name |-> Asks[p]]
    <3>1. w \in Waiters /\ (w \in OfPid(q) <=> p = q)
      BY <1>3, <2>14, LetterIs DEF Waiters, OfPid
    <3>2. BootWaitQueue' = Append(BootWaitQueue, w) /\ out' = <<>>
          /\ UNCHANGED <<instances, is_multi, waiting, BootRegisterFinished>>
      BY <2>14 DEF Queuing
    <3>3. BootWaitQueue \in Seq(Waiters)
      BY <1>1 DEF Typed
    <3> HIDE DEF w
    <3>4. b2 = b + One(w \in OfPid(q))
      BY <3>1, <3>2, <3>3, CntAppend DEF b, b2
    <3>5. d2 = 0
      BY <3>2, NoReply DEF d2
    <3>6. c2 = c /\ Dropped(q)' = Dropped(q)
      BY <3>2 DEF c, c2, InWaiting, Dropped
    <3>7. b2 = b + (IF p = q THEN 1 ELSE 0)
      BY <3>1, <3>4 DEF One
    <3>8. b2 + d2 = b + (IF p = q THEN 1 ELSE 0) /\ (p = q \/ b2 = b)
      BY <2>1, <3>5, <3>7
    <3>9. QED
      BY <2>9, <2>10, <2>14, <3>2, <3>5, <3>6, <3>8
  <2>15. CASE m.type = "ASKPID" /\ Missing(p)
    <3>1. p \in Module
      BY <1>3, <2>15, LetterIs
    <3>2. d2 = (IF p = q THEN 1 ELSE 0) /\ UNCHANGED tables
      BY <2>12, <2>15, <3>1 DEF Missing
    <3>3. b2 = b /\ c2 = c /\ Registered(q)' = Registered(q) /\ Dropped(q)' = Dropped(q)
      BY <2>11, <3>2
    <3>4. QED
      BY <2>1, <2>10, <2>15, <3>2, <3>3
  <2>16. ASSUME m.type \in {"INIT", "TERM"}, NEW err \in {"DRVPRESENT", "DRVNOTPRESENT"}, Errs(p, err)
         PROVE  Balanced(pc[q], a2, b2, c2, d2, e, i2, Registered(q)', Dropped(q)')
    <3>1. p \in Module
      BY <1>3, <2>16, LetterIs
    <3>2. d2 = (IF p = q THEN 1 ELSE 0) /\ UNCHANGED tables
      BY <2>12, <2>16, <3>1
    <3>3. b2 = b /\ c2 = c /\ Registered(q)' = Registered(q) /\ Dropped(q)' = Dropped(q)
      BY <2>11, <3>2
    <3>4. a2 = a
      BY <2>5, <2>16
    <3>5. CASE p # q
      BY <2>2, <2>6, <3>2, <3>3, <3>4, <3>5
    <3>6. CASE p = q /\ m.type = "INIT"
      BY <2>8, <3>3, <3>4, <3>6 DEF Balanced
    <3>7. CASE p = q /\ m.type = "TERM"
      <4>1. i2 = i
        BY <2>6, <3>7
      <4>2. pc[q] = "exited"
        <5>1. m = inbox[1] /\ 1 \in DOMAIN inbox
          <6>1. inbox \in Seq(Letters)
            BY <1>1 DEF Typed
          <6>2. QED
            BY <1>3, <6>1, CntTail
        <5>2. QED
          BY <1>1, <3>7, <5>1 DEF Stations
      <4>3. QED
        BY <2>2, <3>3, <3>4, <4>1, <4>2 DEF Balanced
    <3>8. QED
      BY <2>16, <3>5, <3>6, <3>7
  <2>17. CASE m.type # "ASKPID" /\ m.type # "TERM" /\ Idle
    <3>1. d2 = 0 /\ UNCHANGED tables
      BY <2>17, NoReply DEF Idle, d2
    <3>2. b2 = b /\ c2 = c /\ Registered(q)' = Registered(q) /\ Dropped(q)' = Dropped(q)
      BY <2>11, <3>1
    <3>3. a2 = a
      BY <2>5, <2>17
    <3>4. CASE m.type = "INIT" /\ p = q
      BY <2>8, <3>1, <3>2, <3>3, <3>4 DEF Balanced
    <3>5. CASE ~(m.type = "INIT" /\ p = q)
      BY <2>2, <2>6, <3>1, <3>2, <3>3, <3>5
    <3>6. QED
      BY <3>4, <3>5
  <2>18. CASE m.type = "INIT_COMPLETE" /\ Closing
    <3>1. a2 = a /\ i2 = i
      BY <2>5, <2>6, <2>18
    <3>2. b2 = 0 /\ c2 = 0 /\ d2 = b
      <4>1. BootWaitQueue \in Seq(Waiters)
        BY <1>1 DEF Typed
      <4>2. d2 = b
        BY <2>18, <4>1, CloseIs DEF Closing, d2, b
      <4>3. QED
        BY <2>18, <4>2, NobodyWaits DEF Closing, b2, c2, InWaiting
    <3>3. c = 0 \/ Dropped(q)'
      <4>1. CASE Asks[q] \in Name /\ waiting[Asks[q]] # <<>>
        BY <1>1, <2>18, <4>1 DEF Named, Closing, Dropped
      <4>2. CASE ~(Asks[q] \in Name /\ waiting[Asks[q]] # <<>>)
        BY <4>2, NobodyWaits DEF c, InWaiting
      <4>3. QED
        BY <4>1, <4>2
    <3>4. Dropped(q) => Dropped(q)'
      BY <2>18 DEF Closing, Dropped
    <3>5. Registered(q)' = Registered(q)
      BY <2>9, <2>18 DEF Closing
    <3>6. Balanced(pc[q], a, b2, c2, d2, e, i, Registered(q), Dropped(q)')
      BY <2>1, <2>2, <3>2, <3>3, <3>4, BalanceShift
    <3>7. QED
      BY <3>1, <3>5, <3>6
  <2>19. CASE m.type = "INIT" /\ Registers(p)
    <3>1. p \in Driver
      BY <1>3, <2>19, LetterIs
    <3>2. PICK queue, moved : \E closing \in BOOLEAN :
             Sorted(p, queue, moved) /\ Registering(p, queue, moved, closing)
      BY <2>19 DEF Registers
    <3>3. PICK closing \in BOOLEAN : Sorted(p, queue, moved) /\ Registering(p, queue, moved, closing)
      BY <3>2
    <3>4. PICK w, served, unserved : Entering(p, queue, moved, closing, w, served, unserved)
      BY <1>1, <3>1, <3>3, EnterIs
    <3>5. /\ \/ b2 + c2 + d2 = b + c + One(q = p)
             \/ c2 = 0 /\ b2 + d2 = b + One(q = p) /\ (c = 0 \/ Dropped(q)')
          /\ Dropped(q) => Dropped(q)'
      BY <1>1, <3>1, <3>3, <3>4, EnterCounts DEF b, b2, c, c2, d2
    <3>6. Grown(p, w # <<>>)
      BY <3>4 DEF Entering
    <3>7. a2 = a
      BY <2>5, <2>19
    <3>8. CASE q = p
      <4>1. i2 = 0 /\ a = 0 /\ b = 0 /\ c = 0 /\ e = 0 /\ pc[q] = "starting"
        BY <2>8, <2>19, <3>8
      <4>2. d2 # 0
        <5>1. PICK k \in DOMAIN out' : out'[k] = Driver_Init_Reply(p)
          BY <3>4 DEF Entering, Concerned
        <5>2. out' \in Seq(Replies) /\ out'[k] \in To(q)
          <6>1. out' \in Seq(Replies) /\ p \in Module
            BY <1>2, <3>1, ModuleAssumption DEF Typed
          <6>2. QED
            BY <3>8, <5>1, <6>1, ReplyIs DEF To
        <5>3. QED
          BY <5>1, <5>2, CntNat DEF d2
      <4>3. b2 = 0 /\ c2 = 0
        BY <2>1, <3>5, <3>8, <4>1, <4>2 DEF One
      <4>4. QED
        BY <3>7, <4>1, <4>3 DEF Balanced
    <3>9. CASE q # p
      <4>1. i2 = i
        BY <2>6, <3>9
      <4>2. Registered(q)' = Registered(q)
        <5>1. Registered(q)' <=> Registered(q)
          BY <3>1, <3>6, <3>9, RegisteredThen
        <5>2. Registered(q) \in BOOLEAN /\ Registered(q)' \in BOOLEAN
          BY DEF Registered
        <5>3. QED
          BY <5>1, <5>2
      <4>3. /\ \/ b2 + c2 + d2 = b + c
               \/ c2 = 0 /\ b2 + d2 = b /\ (c = 0 \/ Dropped(q)')
            /\ Dropped(q) => Dropped(q)'
        BY <2>1, <3>5, <3>9 DEF One
      <4>4. Balanced(pc[q], a, b2, c2, d2, e, i, Registered(q), Dropped(q)')
        BY <2>1, <2>2, <4>3, BalanceShift
      <4>5. QED
        BY <3>7, <4>1, <4>2, <4>4
    <3>10. QED
      BY <3>8, <3>9
  <2>20. QED
    BY <1>3, <2>13, <2>14, <2>15, <2>16, <2>17, <2>18, <2>19 DEF Handling
<1>7. QED
  BY <1>2, <1>4, <1>5, <1>6 DEF AccountInv

\* At the start nobody has asked.
LEMMA AccountInit == Init => AccountInv
<1> SUFFICES ASSUME Init PROVE AccountInv
  OBVIOUS
<1>1. TypeInv
  BY TypeInit
<1>2. Named
  BY DEF Init, Named
<1>3. Known
  <2>1. NoPid \notin Driver
    BY ModuleAssumption
  <2>2. QED
    BY <2>1 DEF Init, Known, Knows, HasMail, HasReply
<1>4. Unsought
  BY DEF Init, Unsought
<1>5. ASSUME NEW q \in Module PROVE Account(q)
  <2>1. /\ Cnt(inbox, Asked(q)) = 0 /\ Cnt(BootWaitQueue, OfPid(q)) = 0
        /\ Cnt(out, To(q)) = 0 /\ Cnt(inbox, Inits(q)) = 0
    BY NobodyWaits DEF Init
  <2>2. Len(mail[q]) = 0 /\ ~Registered(q) /\ pc[q] = "off"
    BY DEF Init, Registered
  <2>3. InWaiting(q) = 0
    BY NobodyWaits DEF Init, InWaiting
  <2>4. QED
    BY <2>1, <2>2, <2>3 DEF Account, Balanced
<1>6. QED
  BY <1>1, <1>2, <1>3, <1>4, <1>5 DEF AccountInv

\* Every step keeps the accounts.
LEMMA AccountNext == AccountInv /\ [Next]_vars => AccountInv'
<1> SUFFICES ASSUME AccountInv, [Next]_vars PROVE AccountInv'
  OBVIOUS
<1>1. CASE RunModules
  BY <1>1, RunModulesAccount
<1>2. CASE MPS
  BY <1>2, HandleAccount, SendAccount DEF MPS
<1>3. ASSUME NEW p \in Module, Run(p) PROVE AccountInv'
  BY <1>3, MovesAccount, AnsweredAccount, StartedAccount DEF Run
<1>4. CASE UNCHANGED vars
  <2>1. TypeInv' /\ Named /\ Known /\ Unsought /\ \A q \in Module : Account(q)
    BY TypeNext DEF AccountInv
  <2>2. UNCHANGED <<registry, boot>> /\ UNCHANGED <<got, mail, out, instances>>
    BY <1>4 DEF vars, modules, registry, boot
  <2>3. UNCHANGED tables /\ Named'
    BY <2>1, <2>2, TablesKept
  <2>4. Known'
    BY <2>1, <2>2, KnownKept
  <2>5. UNCHANGED <<pc, mail, inbox, out>>
    BY <1>4 DEF vars, modules
  <2>6. Unsought'
    BY <2>1, <2>5 DEF Unsought
  <2>7. ASSUME NEW q \in Module PROVE Account(q)'
    <3>1. Account(q)
      BY <2>1
    <3>2. QED
      BY <2>3, <2>5, <3>1, AccountKept
  <2>8. QED
    BY <2>1, <2>3, <2>4, <2>6, <2>7 DEF AccountInv
<1>5. QED
  BY <1>1, <1>2, <1>3, <1>4 DEF Next

\* Where the question of p is, or its answer, counted as the account counts.
LEMMA PlacesAre ==
    ASSUME TypeInv, NEW p \in Module, pc[p] = "asked"
    PROVE  Places(p) = Cnt(inbox, Asked(p)) + Cnt(BootWaitQueue, OfPid(p)) + InWaiting(p)
                       + Cnt(out, To(p)) + Len(mail[p])
<1>1. /\ inbox \in Seq(Letters) /\ BootWaitQueue \in Seq(Waiters) /\ out \in Seq(Replies)
      /\ waiting \in [Name -> Seq(Module)] /\ Asks[p] \in Name
  BY DEF TypeInv, Typed, Stations
<1>2. Cnt(inbox, Asked(p)) = Cardinality({i \in DOMAIN inbox : inbox[i].type = "ASKPID" /\ inbox[i].from = p})
  <2>1. \A i \in DOMAIN inbox : inbox[i] \in Asked(p) <=> inbox[i].type = "ASKPID" /\ inbox[i].from = p
    <3>1. \A m \in Letters : m \in Asked(p) <=> m.type = "ASKPID" /\ m.from = p
      <4>1. ASSUME NEW m \in Letters PROVE m \in Asked(p) <=> m.type = "ASKPID" /\ m.from = p
        <5>1. m = [type |-> m.type, from |-> m.from]
          BY LetterIs
        <5>2. QED
          BY <5>1 DEF Asked
      <4>2. QED
        BY <4>1
    <3>2. QED
      BY <1>1, <3>1, SeqIs
  <2>2. {i \in DOMAIN inbox : inbox[i] \in Asked(p)}
           = {i \in DOMAIN inbox : inbox[i].type = "ASKPID" /\ inbox[i].from = p}
    BY <2>1
  <2>3. QED
    BY <2>2 DEF Cnt
<1>3. Cnt(BootWaitQueue, OfPid(p)) = Cardinality({i \in DOMAIN BootWaitQueue : BootWaitQueue[i].pid = p})
  <2>1. \A e \in Waiters : e \in OfPid(p) <=> e.pid = p
    BY DEF Waiters, OfPid
  <2>2. \A i \in DOMAIN BootWaitQueue : BootWaitQueue[i] \in OfPid(p) <=> BootWaitQueue[i].pid = p
    BY <1>1, <2>1, SeqIs
  <2>3. {i \in DOMAIN BootWaitQueue : BootWaitQueue[i] \in OfPid(p)}
           = {i \in DOMAIN BootWaitQueue : BootWaitQueue[i].pid = p}
    BY <2>2
  <2>4. QED
    BY <2>3 DEF Cnt
<1>4. InWaiting(p) = Cardinality({i \in DOMAIN waiting[Asks[p]] : waiting[Asks[p]][i] = p})
  <2>1. {i \in DOMAIN waiting[Asks[p]] : waiting[Asks[p]][i] \in {p}}
           = {i \in DOMAIN waiting[Asks[p]] : waiting[Asks[p]][i] = p}
    OBVIOUS
  <2>2. QED
    BY <1>1, <2>1 DEF InWaiting, Cnt
<1>5. Cnt(out, To(p)) = Cardinality({i \in DOMAIN out : out[i].to = p})
  <2>1. \A i \in DOMAIN out : out[i] \in To(p) <=> out[i].to = p
    BY <1>1, SeqIs DEF To
  <2>2. {i \in DOMAIN out : out[i] \in To(p)} = {i \in DOMAIN out : out[i].to = p}
    BY <2>1
  <2>3. QED
    BY <2>2 DEF Cnt
<1>6. QED
  BY <1>2, <1>3, <1>4, <1>5 DEF Places

\* As long as a program waits in GetDriverPid, its question or the answer to it is in
\* exactly one place, or it was dropped when the boot phase closed.
THEOREM QuestionsKept == Spec => []NoClientLost
<1>1. AccountInv => NoClientLost
  <2>1. SUFFICES ASSUME AccountInv, NEW p \in Module, pc[p] = "asked"
                 PROVE  Places(p) = 1 \/ (Places(p) = 0 /\ BootRegisterFinished /\ Asks[p] \in is_multi)
    BY DEF NoClientLost
  <2>2. TypeInv /\ Account(p)
    BY <2>1 DEF AccountInv
  <2>3. Places(p) = Cnt(inbox, Asked(p)) + Cnt(BootWaitQueue, OfPid(p)) + InWaiting(p)
                    + Cnt(out, To(p)) + Len(mail[p])
    BY <2>1, <2>2, PlacesAre
  <2>4. QED
    BY <2>1, <2>2, <2>3 DEF Account, Balanced, Dropped
<1>2. QED
  BY <1>1, AccountInit, AccountNext, PTL DEF Spec

------------------------------------------------------------------------------
(* The answer to a driver comes before any request *)

\* Nobody holds the pid of d, and whoever is about to be told it is told after d.
Unheard(d) ==
    /\ \A p \in Module : ~Holds(p, d)
    /\ \A i \in DOMAIN out : out[i].msg.pid = d =>
           \E j \in DOMAIN out : j < i /\ out[j].to = d
    /\ Registered(d) => \E j \in DOMAIN out : out[j].to = d

\* As long as the mailbox of a driver that registers is empty, nobody can write to it.
Awaiting(d) ==
    /\ mail[d] # <<>> => Head(mail[d]) \notin Requests
    /\ mail[d] = <<>> => Unheard(d)

Answering == \A d \in Driver : pc[d] = "starting" => Awaiting(d)

AnswerInv == AccountInv /\ Answering

\* What is as it was.
LEMMA AwaitingKept ==
    ASSUME NEW d \in Driver, Awaiting(d), mail'[d] = mail[d], UNCHANGED <<out, instances>>,
           \A q \in Module : Holds(q, d)' => Holds(q, d)
    PROVE  Awaiting(d)'
<1>1. Registered(d)' <=> Registered(d)
  BY RegisteredThen
<1>2. CASE mail[d] # <<>>
  BY <1>2 DEF Awaiting
<1>3. CASE mail[d] = <<>>
  <2>1. Unheard(d)
    BY <1>3 DEF Awaiting
  <2>2. Unheard(d)'
    <3>1. \A q \in Module : ~Holds(q, d)'
      BY <2>1 DEF Unheard
    <3>2. QED
      BY <1>1, <2>1, <3>1 DEF Unheard
  <2>3. QED
    BY <1>3, <2>2 DEF Awaiting
<1>4. QED
  BY <1>2, <1>3

\* init, and the modules that ask, give up or register.
LEMMA MovesAnswering ==
    ASSUME AnswerInv, RunModules \/ \E p \in Module : Ask(p) \/ Fail(p) \/ DriverStart(p)
    PROVE  Answering'
<1>1. /\ TypeInv /\ Typed /\ Known /\ Answering /\ (\A q \in Module : Account(q))
      /\ pc \in [Module -> PCs]
  BY DEF AnswerInv, AccountInv, TypeInv, Typed
<1>2. UNCHANGED <<got, mail, out, instances>>
  BY DEF RunModules, StartModule, Announce, Complete, Ask, Fail, DriverStart, modules, registry
<1>3. ASSUME NEW d \in Driver, pc'[d] = "starting"
      PROVE  Awaiting(d)'
  <2>1. \A q \in Module : Holds(q, d)' <=> Holds(q, d)
    BY <1>2 DEF Holds, HasMail
  <2>2. CASE pc[d] = "starting"
    <3>1. Awaiting(d)
      BY <1>1, <2>2 DEF Answering
    <3>2. QED
      BY <1>2, <2>1, <3>1, AwaitingKept
  <2>3. CASE pc[d] # "starting"
    <3>1. pc[d] = "register"
      <4>1. d \in Module
        BY ModuleAssumption
      <4>2. ~RunModules
        BY <1>1, <1>3, <2>3, <4>1
           DEF RunModules, StartModule, Announce, Complete, Asking, modules
      <4>3. \A p \in Module : ~Ask(p) /\ ~Fail(p)
        BY <1>1, <1>3, <2>3, <4>1 DEF Ask, Fail
      <4>4. PICK p \in Module : DriverStart(p) /\ d = p
        BY <1>1, <1>3, <2>3, <4>1, <4>2, <4>3 DEF DriverStart
      <4>5. QED
        BY <4>4 DEF DriverStart
    <3>2. d \in Module /\ Account(d) /\ Len(mail[d]) = 0 /\ ~Registered(d)
      BY <1>1, <3>1, ModuleAssumption DEF Account, Balanced
    <3>3. mail[d] = <<>>
      BY <1>1, <3>2 DEF Typed
    <3>4. \A q \in Module : ~Knows(q, d)
      BY <1>1, <3>2 DEF Known
    <3>5. Unheard(d)
      <4>1. \A i \in DOMAIN out : out[i].to \in Module
        <5>1. out \in Seq(Replies) /\ \A x \in Replies : x.to \in Module
          BY <1>1 DEF Typed, Replies
        <5>2. QED
          BY <5>1, SeqIs
      <4>2. \A i \in DOMAIN out : out[i].msg.pid # d
        BY <3>4, <4>1 DEF Knows, HasReply
      <4>3. QED
        BY <3>2, <3>4, <4>2 DEF Unheard, Knows, Holds
    <3>6. Awaiting(d)
      BY <3>3, <3>5 DEF Awaiting
    <3>7. QED
      BY <1>2, <2>1, <3>6, AwaitingKept
  <2>4. QED
    BY <2>2, <2>3
<1>4. QED
  BY <1>3 DEF Answering

\* The modules that read their mail.
LEMMA ReadingAnswering ==
    ASSUME AnswerInv, NEW p \in Module, Answered(p) \/ DriverStarted(p)
    PROVE  Answering'
<1>1. /\ TypeInv /\ Typed /\ Known /\ Answering /\ (\A q \in Module : Account(q))
      /\ pc \in [Module -> PCs] /\ mail \in [Module -> Seq(Mails)]
  BY DEF AnswerInv, AccountInv, TypeInv, Typed
<1>2. ASSUME NEW d \in Driver, pc'[d] = "starting", DriverStarted(p)
      PROVE  Awaiting(d)'
  <2>1. /\ pc[p] = "starting" /\ mail[p] # <<>>
        /\ mail' = [mail EXCEPT ![p] = Tail(@)]
        /\ UNCHANGED <<got, out>> /\ UNCHANGED instances
        /\ \E x \in {"serving", "exited"} : pc' = [pc EXCEPT ![p] = x]
    BY <1>2 DEF DriverStarted, registry
  <2>2. d \in Module
    BY ModuleAssumption
  <2>3. d # p /\ pc[d] = "starting" /\ mail'[d] = mail[d]
    BY <1>1, <1>2, <2>1, <2>2
  <2>4. \A q \in Module : Holds(q, d)' => Holds(q, d)
    <3>1. ASSUME NEW q \in Module PROVE HasMail(q, d)' => HasMail(q, d)
      <4>1. mail[q] \in Seq(Mails) /\ (mail'[q] = mail[q] \/ (mail[q] # <<>> /\ mail'[q] = Tail(mail[q])))
        BY <1>1, <2>1
      <4>2. QED
        BY <4>1, HasMailThen
    <3>2. QED
      BY <2>1, <3>1 DEF Holds
  <2>5. Awaiting(d)
    BY <1>1, <2>3 DEF Answering
  <2>6. QED
    BY <2>1, <2>3, <2>4, <2>5, AwaitingKept
<1>3. ASSUME NEW d \in Driver, pc'[d] = "starting", Answered(p)
      PROVE  Awaiting(d)'
  <2>1. /\ pc[p] = "asked" /\ mail[p] # <<>> /\ mail[p] \in Seq(Mails)
        /\ UNCHANGED out /\ UNCHANGED instances
        /\ Despairing(p) \/ \E e \in Driver : Learning(p, e)
    BY <1>1, <1>3, AnsweredIs DEF registry
  <2>2. d \in Module
    BY ModuleAssumption
  <2>3. PICK x \in {"exited", "done", "register"} : pc' = [pc EXCEPT ![p] = x]
    BY <2>1 DEF Despairing, Learning, Afterwards
  <2>4. d # p /\ pc[d] = "starting"
    BY <1>1, <1>3, <2>2, <2>3
  <2>5. Awaiting(d)
    BY <1>1, <2>4 DEF Answering
  <2>6. \A q \in Module : Holds(q, d)' => Holds(q, d)
    <3>1. ~(p \in Driver /\ Holds(p, p))
      BY <1>1, <2>1 DEF Account, Balanced, Known, Knows, Holds
    <3>2. QED
      BY <1>1, <1>3, <3>1, AnsweredHolds
  <2>7. CASE mail'[d] = mail[d]
    BY <2>1, <2>5, <2>6, <2>7, AwaitingKept
  <2>8. CASE mail'[d] # mail[d]
    <3>1. Learning(p, d)
      <4>1. ~Despairing(p)
        BY <1>1, <2>2, <2>4, <2>8 DEF Despairing
      <4>2. PICK e \in Driver : Learning(p, e)
        BY <2>1, <4>1
      <4>3. e = d
        BY <2>2, <2>4, <2>8, <4>2 DEF Learning
      <4>4. QED
        BY <4>2, <4>3
    <3>2. Holds(p, d)
      <4>1. Head(mail[p]) = mail[p][1] /\ 1 \in DOMAIN mail[p]
        BY <2>1, CntTail
      <4>2. QED
        BY <3>1, <4>1 DEF Learning, HasMail, Holds
    <3>3. mail[d] # <<>> /\ Head(mail[d]) \notin Requests
      BY <2>5, <3>2 DEF Awaiting, Unheard
    <3>4. mail'[d] = Append(mail[d], Request(p)) /\ Request(p) \in Mails
      BY <2>4, <3>1 DEF Learning, Request, Mails, Requests
    <3>5. mail[d] \in Seq(Mails)
      BY <1>1, <2>2
    <3>6. mail'[d] # <<>> /\ Head(mail'[d]) = Head(mail[d])
      BY <3>3, <3>4, <3>5, AppendIs
    <3>7. QED
      BY <3>3, <3>6 DEF Awaiting
  <2>9. QED
    BY <2>7, <2>8
<1>4. QED
  BY <1>2, <1>3 DEF Answering

\* A reply of mps that arrives. The answer to a driver arrives before the others know it.
LEMMA SendAnswering ==
    ASSUME AnswerInv, Send
    PROVE  Answering'
<1> DEFINE r == Head(out)
<1>1. /\ TypeInv /\ Typed /\ Answering /\ pc \in [Module -> PCs] /\ mail \in [Module -> Seq(Mails)]
  BY DEF AnswerInv, AccountInv, TypeInv, Typed
<1>2. /\ r \in Replies /\ r.to \in Module /\ r.msg \in Mails /\ r.msg \notin Requests
      /\ r = out[1] /\ out' \in Seq(Replies)
      /\ 1 \in DOMAIN out /\ DOMAIN out' = 1 .. Len(out) - 1
      /\ \A i \in DOMAIN out' : i + 1 \in DOMAIN out /\ out'[i] = out[i + 1]
      /\ \A q \in Module : mail'[q] = IF q = r.to /\ pc[q] # "exited"
                                      THEN Append(mail[q], r.msg) ELSE mail[q]
      /\ UNCHANGED <<init, pc, got, inbox, registry, boot>>
  BY <1>1, SendIs
<1> HIDE DEF r
<1>3. DOMAIN out = 1 .. Len(out) /\ Len(out) \in Nat /\ UNCHANGED <<pc, got, instances>>
  BY <1>1, <1>2, SeqIs DEF Typed, registry
<1>4. ASSUME NEW d \in Driver, pc'[d] = "starting"
      PROVE  Awaiting(d)'
  <2>1. d \in Module /\ pc[d] = "starting"
    BY <1>3, <1>4, ModuleAssumption
  <2>2. Awaiting(d) /\ mail[d] \in Seq(Mails)
    BY <1>1, <2>1 DEF Answering
  <2>3. CASE r.to = d
    <3>1. mail'[d] = Append(mail[d], r.msg)
      BY <1>2, <2>1, <2>3
    <3>2. /\ mail'[d] # <<>>
          /\ Head(mail'[d]) = IF mail[d] = <<>> THEN r.msg ELSE Head(mail[d])
      BY <1>2, <2>2, <3>1, AppendIs, SMTT(40)
    <3>3. r.msg \notin Requests
      BY <1>2
    <3>4. QED
      BY <2>2, <3>2, <3>3 DEF Awaiting
  <2>4. CASE r.to # d
    <3>1. mail'[d] = mail[d]
      BY <1>2, <2>1, <2>4
    <3>2. CASE mail[d] # <<>>
      BY <2>2, <3>1, <3>2 DEF Awaiting
    <3>3. CASE mail[d] = <<>>
      <4>1. Unheard(d)
        BY <2>2, <3>3 DEF Awaiting
      <4>2. r.msg.pid # d
        <5>1. ~ \E j \in DOMAIN out : j < 1
          BY <1>3
        <5>2. QED
          BY <1>2, <4>1, <5>1 DEF Unheard
      <4>3. \A q \in Module : ~Holds(q, d)'
        <5>1. ASSUME NEW q \in Module PROVE ~HasMail(q, d)'
          <6>1. mail[q] \in Seq(Mails) /\ (mail'[q] = mail[q] \/ mail'[q] = Append(mail[q], r.msg))
            BY <1>1, <1>2
          <6>2. ~HasMail(q, d)
            BY <4>1 DEF Unheard, Holds
          <6>3. QED
            BY <1>2, <4>2, <6>1, <6>2, HasMailThen
        <5>2. QED
          BY <1>3, <4>1, <5>1 DEF Unheard, Holds
      <4>4. ASSUME NEW i \in DOMAIN out', out'[i].msg.pid = d
            PROVE  \E j \in DOMAIN out' : j < i /\ out'[j].to = d
        <5>1. i \in Nat /\ i + 1 \in DOMAIN out /\ out[i + 1].msg.pid = d
          BY <1>2, <1>3, <4>4
        <5>2. PICK k \in DOMAIN out : k < i + 1 /\ out[k].to = d
          BY <4>1, <5>1 DEF Unheard
        <5>3. k # 1
          BY <1>2, <2>4, <5>2
        <5>4. k - 1 \in DOMAIN out' /\ k - 1 < i /\ (k - 1) + 1 = k
          BY <1>2, <1>3, <5>1, <5>2, <5>3
        <5>5. QED
          BY <1>2, <5>2, <5>4
      <4>5. Registered(d)' => \E j \in DOMAIN out' : out'[j].to = d
        <5>1. Registered(d)' => Registered(d)
          BY <1>3, RegisteredThen
        <5>2. ASSUME Registered(d) PROVE \E j \in DOMAIN out' : out'[j].to = d
          <6>1. PICK k \in DOMAIN out : out[k].to = d
            BY <4>1, <5>2 DEF Unheard
          <6>2. k # 1
            BY <1>2, <2>4, <6>1
          <6>3. k - 1 \in DOMAIN out' /\ (k - 1) + 1 = k
            BY <1>2, <1>3, <6>1, <6>2
          <6>4. QED
            BY <1>2, <6>1, <6>3
        <5>3. QED
          BY <5>1, <5>2
      <4>6. Unheard(d)'
        BY <4>3, <4>4, <4>5 DEF Unheard
      <4>7. QED
        BY <3>1, <3>3, <4>6 DEF Awaiting
    <3>4. QED
      BY <3>2, <3>3
  <2>5. QED
    BY <2>3, <2>4
<1>5. QED
  BY <1>4 DEF Answering

\* Whoever is registered by a handler, has just been entered.
LEMMA NewlyRegistered ==
    ASSUME Typed, Handle, NEW d, ~Registered(d), Registered(d)'
    PROVE  \E queue, moved, w, served, unserved : \E closing \in BOOLEAN :
               d \in Driver /\ Entering(d, queue, moved, closing, w, served, unserved)
<1>1. ~ UNCHANGED instances
  BY RegisteredThen
<1>2. ASSUME NEW n, NEW i, Marked(n, i) PROVE FALSE
  BY <1>2, RegisteredThen
<1>3. ASSUME NEW p \in Driver, NEW b, Grown(p, b) PROVE d = p
  BY <1>3, RegisteredThen
<1>4. PICK p \in Driver : \E queue, moved, w, served, unserved : \E closing \in BOOLEAN :
         Entering(p, queue, moved, closing, w, served, unserved)
  BY <1>1, <1>2, HandleInstances DEF Finding
<1>5. d = p
  BY <1>3, <1>4 DEF Entering
<1>6. QED
  BY <1>4, <1>5

\* The handlers of mps: what registers a driver sends the answer to it first.
LEMMA HandleAnswering ==
    ASSUME AnswerInv, Handle
    PROVE  Answering'
<1>1. /\ TypeInv /\ Typed /\ Known /\ Answering
  BY DEF AnswerInv, AccountInv, TypeInv
<1>2. out = <<>> /\ UNCHANGED <<pc, got, mail>> /\ Typed' /\ NoPid \notin Driver
  BY <1>1, HandleTypes, ModuleAssumption DEF Handle, modules, TypeInv
<1>3. out' \in Seq(Replies) /\ \A i \in DOMAIN out' : out'[i].to \in Module
  <2>1. out' \in Seq(Replies) /\ \A x \in Replies : x.to \in Module
    BY <1>2 DEF Typed, Replies
  <2>2. QED
    BY <2>1, SeqIs
<1>4. ASSUME NEW d \in Driver, pc'[d] = "starting"
      PROVE  Awaiting(d)'
  <2>1. Awaiting(d)
    BY <1>1, <1>2, <1>4 DEF Answering
  <2>2. CASE mail[d] # <<>>
    BY <1>2, <2>1, <2>2 DEF Awaiting
  <2>3. CASE mail[d] = <<>>
    <3>1. Unheard(d) /\ ~Registered(d)
      BY <1>2, <2>1, <2>3 DEF Awaiting, Unheard
    <3>2. \A q \in Module : ~Holds(q, d)' /\ ~Knows(q, d)
      <4>1. \A q \in Module : ~Holds(q, d)'
        BY <1>2, <3>1 DEF Unheard, Holds, HasMail
      <4>2. QED
        BY <1>1, <3>1, <4>1 DEF Known
\* If d is entered, the answer to it precedes the replies to its clients.
    <3>3. ASSUME NEW queue, NEW moved, NEW w, NEW served, NEW unserved, NEW closing \in BOOLEAN,
                 Entering(d, queue, moved, closing, w, served, unserved)
          PROVE  /\ \A i \in DOMAIN out' : out'[i].msg.pid = d =>
                        \E j \in DOMAIN out' : j < i /\ out'[j].to = d
                 /\ \E j \in DOMAIN out' : out'[j].to = d
      <4>1. d \in Module /\ Concerned(d, queue, closing, served)
        BY <3>3, ModuleAssumption DEF Entering
      <4>2. PICK k \in Nat \ {0} :
               /\ k \in DOMAIN out' /\ out'[k] = Driver_Init_Reply(d)
               /\ \A i \in DOMAIN out' :
                     i < k => out'[i] = Send_AskPid_Reply(queue[i].pid, NoPid)
        BY <4>1 DEF Concerned
      <4>3. out'[k].to = d /\ out'[k].msg.pid = NoPid
        BY <4>1, <4>2, ReplyIs
      <4>4. \A i \in DOMAIN out' : i < k => out'[i].msg.pid = NoPid
        BY <4>2 DEF Send_AskPid_Reply, Reply
      <4>5. DOMAIN out' \subseteq Nat
        BY <1>3, SeqIs
      <4>6. \A i \in DOMAIN out' : out'[i].msg.pid = d => k < i
        BY <1>2, <4>2, <4>3, <4>4, <4>5
      <4>7. QED
        BY <4>2, <4>3, <4>6
    <3>4. Registered(d)' => \E j \in DOMAIN out' : out'[j].to = d
      BY <1>1, <3>1, <3>3, NewlyRegistered
    <3>5. ASSUME NEW i \in DOMAIN out', out'[i].msg.pid = d
          PROVE  \E j \in DOMAIN out' : j < i /\ out'[j].to = d
      <4>1. PICK q \in Module : q = out'[i].to
        BY <1>3
      <4>2. Knows(q, d)' /\ ~Knows(q, d)
        BY <3>2, <3>5, <4>1 DEF Knows, HasReply
      <4>3. ASSUME NEW n \in Name, NEW u \in Usable(n), Finding(q, n, u),
                   d = instances[n][u].pid
            PROVE  FALSE
        BY <3>1, <4>3 DEF Finding, Registered
      <4>4. \E queue, moved, w, served, unserved : \E closing \in BOOLEAN :
                Entering(d, queue, moved, closing, w, served, unserved)
        BY <1>1, <4>2, <4>3, HandleKnows
      <4>5. QED
        BY <3>3, <3>5, <4>4
    <3>6. Unheard(d)'
      BY <3>2, <3>4, <3>5 DEF Unheard
    <3>7. QED
      BY <1>2, <2>3, <3>6 DEF Awaiting
  <2>4. QED
    BY <2>2, <2>3
<1>5. QED
  BY <1>4 DEF Answering

\* At the start no driver registers.
LEMMA AnswerInit == Init => AnswerInv
<1>1. Init => Answering
  BY ModuleAssumption DEF Init, Answering
<1>2. QED
  BY <1>1, AccountInit DEF AnswerInv

\* Every step keeps the answer to a driver ahead of the requests.
LEMMA AnswerNext == AnswerInv /\ [Next]_vars => AnswerInv'
<1> SUFFICES ASSUME AnswerInv, [Next]_vars PROVE AnswerInv'
  OBVIOUS
<1>1. AccountInv'
  BY AccountNext DEF AnswerInv
<1>2. CASE RunModules \/ \E p \in Module : Run(p)
  <2>1. Answering'
    BY <1>2, MovesAnswering, ReadingAnswering DEF Run
  <2>2. QED
    BY <1>1, <2>1 DEF AnswerInv
<1>3. CASE MPS
  BY <1>1, <1>3, SendAnswering, HandleAnswering DEF MPS, AnswerInv
<1>4. CASE UNCHANGED vars
  <2>1. UNCHANGED <<pc, got, mail, out>> /\ UNCHANGED instances
    BY <1>4 DEF vars, modules, registry
  <2>2. Answering'
    BY <2>1 DEF AnswerInv, Answering, Awaiting, Unheard, Holds, HasMail, Registered
  <2>3. QED
    BY <1>1, <2>2 DEF AnswerInv
<1>5. QED
  BY <1>2, <1>3, <1>4 DEF Next

\* The first message that a driver which registers finds is the answer of mps: nobody can
\* write to it before.
THEOREM RepliesComeFirst == Spec => []AnswerComesFirst
<1>1. AnswerInv => AnswerComesFirst
  <2>1. SUFFICES ASSUME AnswerInv, NEW d \in Driver, pc[d] = "starting", mail[d] # <<>>
                 PROVE  Head(mail[d]).type # "REQUEST"
    BY DEF AnswerComesFirst
  <2>2. Head(mail[d]) \notin Requests
    BY <2>1 DEF AnswerInv, Answering, Awaiting
  <2>3. Head(mail[d]) \in Mails
    <3>1. mail[d] \in Seq(Mails)
      BY <2>1, ModuleAssumption DEF AnswerInv, AccountInv, TypeInv, Typed
    <3>2. QED
      BY <2>1, <3>1
  <2>4. \A m \in Mails : m.type = "REQUEST" => m \in Requests
    BY DEF Mails, Telling, Refusing, Requests
  <2>5. QED
    BY <2>2, <2>3, <2>4
<1>2. QED
  BY <1>1, AnswerInit, AnswerNext, PTL DEF Spec

------------------------------------------------------------------------------
(* An instance of a multi-instance driver belongs to one program *)

\* The names of the drivers that say DRV_I_MULTI are known as such, and a driver is
\* registered once.
Kinds ==
    \A n \in Name : \A i \in DOMAIN instances[n] :
        instances[n][i].pid \in Multi => n \in is_multi
Distinct ==
    \A n, m \in Name : \A i \in DOMAIN instances[n], j \in DOMAIN instances[m] :
        instances[n][i].pid = instances[m][j].pid => n = m /\ i = j

\* The instance d is marked as in use.
Given(d) ==
    \E n \in Name : \E i \in DOMAIN instances[n] :
        instances[n][i].pid = d /\ instances[n][i].in_use

\* One program at most is told of d, and then d is in use.
Owned(d) ==
    /\ \A p, q \in Module : Knows(p, d) /\ Knows(q, d) => p = q
    /\ \A p \in Module : Knows(p, d) => Given(d)

OwnerInv == AccountInv /\ Kinds /\ Distinct /\ \A d \in Multi : Owned(d)

\* A step that tells nobody of a driver and leaves the instances alone.
LEMMA OwnerKept ==
    ASSUME OwnerInv, AccountInv', UNCHANGED <<instances, is_multi>>,
           \A q \in Module : \A d \in Driver : Knows(q, d)' => Knows(q, d)
    PROVE  OwnerInv'
<1>1. Kinds' /\ Distinct'
  BY DEF OwnerInv, Kinds, Distinct
<1>2. ASSUME NEW d \in Multi PROVE Owned(d)'
  <2>1. d \in Driver /\ Owned(d)
    BY ModuleAssumption DEF OwnerInv
  <2>2. Given(d)' <=> Given(d)
    BY DEF Given
  <2>3. \A q \in Module : Knows(q, d)' => Knows(q, d)
    BY <2>1
  <2>4. QED
    BY <2>1, <2>2, <2>3 DEF Owned
<1>3. QED
  BY <1>1, <1>2 DEF OwnerInv

\* init and the modules tell nobody of a driver.
LEMMA ModulesOwner ==
    ASSUME OwnerInv, AccountInv', RunModules \/ Send \/ \E p \in Module : Run(p)
    PROVE  OwnerInv'
<1>1. /\ TypeInv /\ Typed /\ Known /\ (\A q \in Module : Account(q))
      /\ mail \in [Module -> Seq(Mails)]
  BY DEF OwnerInv, AccountInv, TypeInv, Typed
<1>2. UNCHANGED <<instances, is_multi>>
  <2>1. UNCHANGED registry
    <3>1. StartModule \/ Announce \/ Complete \/ Send => UNCHANGED registry
      BY DEF StartModule, Announce, Complete, Send
    <3>2. ASSUME NEW p \in Module, Ask(p) \/ Fail(p) \/ DriverStart(p) \/ DriverStarted(p)
          PROVE  UNCHANGED registry
      BY <3>2 DEF Ask, Fail, DriverStart, DriverStarted
    <3>3. ASSUME NEW p \in Module, Answered(p) PROVE UNCHANGED registry
      BY <3>3 DEF Answered
    <3>4. QED
      BY <3>1, <3>2, <3>3 DEF RunModules, Run
  <2>2. QED
    BY <2>1 DEF registry
<1>3. ASSUME NEW q \in Module, NEW d \in Driver, Knows(q, d)' PROVE Knows(q, d)
  <2>1. ASSUME NEW p \in Module, RunModules \/ Ask(p) \/ Fail(p) \/ DriverStart(p)
        PROVE  Knows(q, d)
    <3>1. UNCHANGED <<got, mail, out>>
      BY <2>1 DEF RunModules, StartModule, Announce, Complete, Ask, Fail, DriverStart, modules
    <3>2. QED
      BY <1>3, <3>1 DEF Knows, HasMail, HasReply
  <2>2. ASSUME NEW p \in Module, DriverStarted(p) PROVE Knows(q, d)
    <3>1. /\ mail[p] # <<>> /\ mail' = [mail EXCEPT ![p] = Tail(@)] /\ UNCHANGED <<got, out>>
      BY <2>2 DEF DriverStarted
    <3>2. mail[q] \in Seq(Mails) /\ (mail'[q] = mail[q] \/ (mail[q] # <<>> /\ mail'[q] = Tail(mail[q])))
      BY <1>1, <3>1
    <3>3. HasMail(q, d)' => HasMail(q, d)
      BY <3>2, HasMailThen
    <3>4. QED
      BY <1>3, <3>1, <3>3 DEF Knows, HasReply
  <2>3. ASSUME NEW p \in Module, Answered(p) PROVE Knows(q, d)
    <3>1. pc[p] = "asked"
      BY <2>3 DEF Answered
    <3>2. ~(p \in Driver /\ Knows(p, p))
      BY <1>1, <3>1 DEF Account, Balanced, Known
    <3>3. QED
      BY <1>1, <1>3, <2>3, <3>2, AnsweredKnows
  <2>4. CASE Send
    BY <1>1, <1>3, <2>4, SendKnows
  <2>5. QED
    BY <2>1, <2>2, <2>3, <2>4, q \in Module DEF Run
<1>4. QED
  BY <1>2, <1>3, OwnerKept

\* Who registers is not registered.
LEMMA Registrant ==
    ASSUME AccountInv, Handle, NEW p \in Driver,
           Head(inbox).type = "INIT", Head(inbox).from = p
    PROVE  ~Registered(p)
<1> DEFINE a == Cnt(inbox, Inits(p))
           b == Cnt(inbox', Inits(p))
<1>1. Typed /\ Typed' /\ p \in Module /\ Account(p)
  BY HandleTypes, ModuleAssumption DEF AccountInv, TypeInv
<1>2. inbox # <<>> /\ inbox' = Tail(inbox)
  BY DEF Handle
<1>3. a = b + One(TRUE)
  BY <1>1, <1>2, LetterRead
<1>4. b \in Nat
  <2>1. inbox' \in Seq(Letters)
    BY <1>1 DEF Typed
  <2>2. QED
    BY <2>1, CntNat
<1> HIDE DEF a, b
<1>5. a # 0
  BY <1>3, <1>4 DEF One
<1>6. QED
  BY <1>1, <1>5 DEF Account, Balanced, a

\* A new instance of a multi-instance driver is told to one program.
LEMMA EnteredOne ==
    ASSUME NEW d \in Multi, NEW queue, NEW moved, NEW w, NEW served, NEW unserved,
           NEW closing, Entering(d, queue, moved, closing, w, served, unserved),
           NEW i \in DOMAIN out', NEW j \in DOMAIN out',
           out'[i].msg.pid = d, out'[j].msg.pid = d
    PROVE  i = j
<1>1. NoPid # d /\ d \in Module
  BY ModuleAssumption
<1>2. out' \in Seq(Replies) /\ served \in Seq(Module) /\ Len(served) <= 1
  BY DEF Entering, Concerned, Serving
<1>3. PICK k \in Nat \ {0} :
         /\ k \in DOMAIN out' /\ out'[k] = Driver_Init_Reply(d)
         /\ \A h \in DOMAIN out' :
               /\ h < k => out'[h] = Send_AskPid_Reply(queue[h].pid, NoPid)
               /\ h > k => h - k \in DOMAIN served
  BY DEF Entering, Concerned
<1>4. ASSUME NEW h \in DOMAIN out', out'[h].msg.pid = d PROVE h = k + 1
  <2>1. h \in Nat
    BY <1>2, SeqIs
  <2>2. h # k
    BY <1>1, <1>3, <1>4 DEF Driver_Init_Reply, Reply
  <2>3. ~(h < k)
    <3>1. SUFFICES ASSUME h < k PROVE FALSE
      OBVIOUS
    <3>2. out'[h].msg.pid = NoPid
      BY <1>3, <3>1 DEF Send_AskPid_Reply, Reply
    <3>3. QED
      BY <1>1, <1>4, <3>2
  <2>4. h - k \in DOMAIN served
    BY <1>3, <2>1, <2>2, <2>3
  <2>5. DOMAIN served = 1 .. Len(served) /\ Len(served) \in Nat
    BY <1>2, SeqIs
  <2>6. QED
    BY <1>2, <2>1, <2>4, <2>5
<1>5. QED
  BY <1>4

\* The instances after a registration: those before, and the new one.
LEMMA GrownIs ==
    ASSUME NEW p \in Driver, NEW given, Grown(p, given)
    PROVE  LET h == NameOf[p]
               last == Len(instances[h]) + 1
           IN  /\ h \in Name /\ last \in DOMAIN instances'[h]
               /\ instances'[h][last].pid = p /\ (given => instances'[h][last].in_use)
               /\ \A n \in Name : \A i \in DOMAIN instances[n] :
                     i \in DOMAIN instances'[n] /\ instances'[n][i] = instances[n][i]
               /\ \A n \in Name : \A i \in DOMAIN instances'[n] :
                     \/ i \in DOMAIN instances[n] /\ instances'[n][i] = instances[n][i]
                     \/ n = h /\ i = last
<1> DEFINE h == NameOf[p]
           last == Len(instances[h]) + 1
<1>1. /\ h \in Name /\ last \in DOMAIN instances'[h]
      /\ instances'[h][last] = [pid |-> p, in_use |-> given]
      /\ DOMAIN instances'[h] = DOMAIN instances[h] \cup {last}
      /\ \A i \in DOMAIN instances[h] : instances'[h][i] = instances[h][i]
      /\ \A n \in Name \ {h} : instances'[n] = instances[n]
  BY ModuleAssumption DEF Grown
<1> HIDE DEF h, last
<1>2. instances'[h][last].pid = p /\ (given => instances'[h][last].in_use)
  BY <1>1
<1>3. QED
  BY <1>1, <1>2 DEF h, last

\* The handlers of mps: FindDriverPid gives away an instance that is not in use, and
\* marks it; a registration gives the new instance away and marks it.
LEMMA HandleOwner ==
    ASSUME OwnerInv, AccountInv', Handle
    PROVE  OwnerInv'
<1>1. /\ AccountInv /\ TypeInv /\ Typed /\ Known /\ Kinds /\ Distinct
      /\ out = <<>> /\ UNCHANGED <<got, mail>>
  BY DEF OwnerInv, AccountInv, TypeInv, Handle, modules
<1> DEFINE Found(q, n, i) == i \in Usable(n) /\ Finding(q, n, i)
           Entered(p, queue, moved, closing, w, served, unserved) ==
               /\ closing \in BOOLEAN
               /\ Head(inbox).type = "INIT" /\ Head(inbox).from = p
               /\ Sorted(p, queue, moved)
               /\ Entering(p, queue, moved, closing, w, served, unserved)
<1>2. \/ UNCHANGED <<instances, is_multi>>
      \/ \E q \in Module, n \in Name : \E i : Found(q, n, i)
      \/ \E p \in Driver : \E queue, moved, closing, w, served, unserved :
             Entered(p, queue, moved, closing, w, served, unserved)
  BY <1>1, HandleInstances
<1>3. ASSUME NEW q \in Module, NEW d \in Driver, Knows(q, d)'
      PROVE  \/ Knows(q, d)
             \/ \E n \in Name : \E i : Found(q, n, i) /\ d = instances[n][i].pid
             \/ \E queue, moved, closing, w, served, unserved :
                    /\ Entered(d, queue, moved, closing, w, served, unserved)
                    /\ \E j \in DOMAIN served : served[j] = q
  BY <1>1, <1>3, HandleKnows
<1>4. ASSUME NEW q, NEW n, NEW i, Found(q, n, i)
      PROVE  /\ i \in DOMAIN instances[n] /\ ~(n \in is_multi /\ instances[n][i].in_use)
             /\ Marked(n, i) /\ is_multi' = is_multi
             /\ out' = <<Send_AskPid_Reply(q, instances[n][i].pid)>>
  BY <1>4 DEF Finding
<1>5. ASSUME NEW p \in Driver, NEW queue, NEW moved, NEW closing, NEW w, NEW served, NEW unserved,
             Entered(p, queue, moved, closing, w, served, unserved)
      PROVE  /\ ~Registered(p) /\ Grown(p, w # <<>>) /\ NameOf[p] \in Name
             /\ is_multi' = IF p \in Multi THEN is_multi \cup {NameOf[p]} ELSE is_multi
             /\ Entering(p, queue, moved, closing, w, served, unserved)
             /\ served = <<>> <=> w = <<>>
             /\ served \in Seq(Module)
  <2>1. ~Registered(p)
    BY <1>1, <1>5, Registrant
  <2>2. QED
    BY <1>5, <2>1, ModuleAssumption DEF Entering, Serving
<1> HIDE DEF Found, Entered
<1>6. Kinds' /\ Distinct'
  <2>1. CASE UNCHANGED <<instances, is_multi>>
    BY <1>1, <2>1 DEF Kinds, Distinct
  <2>2. ASSUME NEW q \in Module, NEW n \in Name, NEW i, Found(q, n, i) PROVE Kinds' /\ Distinct'
    <3>1. /\ is_multi' = is_multi
          /\ \A m \in Name : /\ DOMAIN instances'[m] = DOMAIN instances[m]
                             /\ \A j \in DOMAIN instances[m] :
                                   instances'[m][j].pid = instances[m][j].pid
      BY <1>4, <2>2 DEF Marked
    <3>2. Kinds'
      BY <1>1, <3>1 DEF Kinds
    <3>3. Distinct'
      BY <1>1, <3>1 DEF Distinct
    <3>4. QED
      BY <3>2, <3>3
  <2>3. ASSUME NEW p \in Driver, NEW queue, NEW moved, NEW closing, NEW w, NEW served, NEW unserved,
               Entered(p, queue, moved, closing, w, served, unserved)
        PROVE  Kinds' /\ Distinct'
    <3> DEFINE h == NameOf[p]
               last == Len(instances[h]) + 1
    <3>1. /\ ~Registered(p) /\ h \in Name
          /\ is_multi \subseteq is_multi' /\ (p \in Multi => h \in is_multi')
          /\ Grown(p, w # <<>>)
      BY <1>5, <2>3
    <3>2. ASSUME NEW n \in Name, NEW i \in DOMAIN instances'[n]
          PROVE  \/ i \in DOMAIN instances[n] /\ instances'[n][i] = instances[n][i]
                 \/ n = h /\ i = last /\ instances'[n][i].pid = p
      BY <3>1, GrownIs
    <3> HIDE DEF h, last
    <3>3. \A n \in Name : \A i \in DOMAIN instances[n] : instances[n][i].pid # p
      BY <3>1 DEF Registered
    <3>4. Kinds'
      <4>1. ASSUME NEW n \in Name, NEW i \in DOMAIN instances'[n], instances'[n][i].pid \in Multi
            PROVE  n \in is_multi'
        BY <1>1, <3>1, <3>2, <4>1 DEF Kinds
      <4>2. QED
        BY <4>1 DEF Kinds
    <3>5. Distinct'
      <4>1. ASSUME NEW n \in Name, NEW m \in Name,
                   NEW i \in DOMAIN instances'[n], NEW j \in DOMAIN instances'[m],
                   instances'[n][i].pid = instances'[m][j].pid
            PROVE  n = m /\ i = j
        BY <1>1, <3>2, <3>3, <4>1 DEF Distinct
      <4>2. QED
        BY <4>1 DEF Distinct
    <3>6. QED
      BY <3>4, <3>5
  <2>4. QED
    BY <1>2, <2>1, <2>2, <2>3
\* Who is in use stays in use.
<1>7. ASSUME NEW d, Given(d) PROVE Given(d)'
  <2>1. PICK n \in Name : \E i \in DOMAIN instances[n] :
           instances[n][i].pid = d /\ instances[n][i].in_use
    BY <1>7 DEF Given
  <2>2. PICK i \in DOMAIN instances[n] : instances[n][i].pid = d /\ instances[n][i].in_use
    BY <2>1
  <2>3. i \in DOMAIN instances'[n] /\ instances'[n][i].pid = d /\ instances'[n][i].in_use
    <3>1. CASE UNCHANGED <<instances, is_multi>>
      BY <2>2, <3>1
    <3>2. ASSUME NEW q \in Module, NEW m \in Name, NEW j, Found(q, m, j)
          PROVE  i \in DOMAIN instances'[n] /\ instances'[n][i].pid = d /\ instances'[n][i].in_use
      BY <1>4, <2>2, <3>2 DEF Marked
    <3>3. ASSUME NEW p \in Driver, NEW queue, NEW moved, NEW closing, NEW w, NEW served,
                 NEW unserved, Entered(p, queue, moved, closing, w, served, unserved)
          PROVE  i \in DOMAIN instances'[n] /\ instances'[n][i].pid = d /\ instances'[n][i].in_use
      <4>1. Grown(p, w # <<>>)
        BY <1>5, <3>3
      <4>2. QED
        BY <2>2, <4>1, GrownIs
    <3>4. QED
      BY <1>2, <3>1, <3>2, <3>3
  <2>4. QED
    BY <2>3 DEF Given
<1>8. ASSUME NEW d \in Multi PROVE Owned(d)'
  <2>1. d \in Driver /\ Owned(d)
    BY ModuleAssumption DEF OwnerInv
\* An instance that FindDriverPid gives away is nobody's.
  <2>2. ASSUME NEW q \in Module, NEW n \in Name, NEW i, Found(q, n, i), d = instances[n][i].pid
        PROVE  Registered(d) /\ (\A x \in Module : ~Knows(x, d)) /\ Given(d)'
    <3>1. i \in DOMAIN instances[n] /\ n \in is_multi /\ ~instances[n][i].in_use
      BY <1>1, <1>4, <2>2 DEF Kinds
    <3>2. ~Given(d)
      BY <1>1, <2>2, <3>1 DEF Given, Distinct
    <3>3. i \in DOMAIN instances'[n] /\ instances'[n][i].pid = d /\ instances'[n][i].in_use
      BY <1>4, <2>2, <3>1 DEF Marked
    <3>4. Registered(d) /\ Given(d)'
      BY <2>2, <3>1, <3>3 DEF Registered, Given
    <3>5. QED
      BY <2>1, <3>2, <3>4 DEF Owned
\* A new instance is nobody's either.
  <2>3. ASSUME NEW queue, NEW moved, NEW closing, NEW w, NEW served, NEW unserved,
               Entered(d, queue, moved, closing, w, served, unserved)
        PROVE  ~Registered(d) /\ (\A x \in Module : ~Knows(x, d))
    BY <1>1, <1>5, <2>1, <2>3 DEF Known
  <2>4. ASSUME NEW q \in Module, NEW r \in Module, Knows(q, d)', Knows(r, d)'
        PROVE  q = r
    <3>1. CASE Knows(q, d)
      <4>1. ~ \E n \in Name : \E i : Found(r, n, i) /\ d = instances[n][i].pid
        BY <2>2, <3>1
      <4>2. ~ \E queue, moved, closing, w, served, unserved :
                 Entered(d, queue, moved, closing, w, served, unserved)
        BY <2>3, <3>1
      <4>3. Knows(r, d)
        BY <1>3, <2>1, <2>4, <4>1, <4>2
      <4>4. QED
        BY <2>1, <3>1, <4>3 DEF Owned
    <3>2. ASSUME NEW n \in Name, NEW i, Found(q, n, i), d = instances[n][i].pid
          PROVE  q = r
      <4>1. ~Knows(r, d) /\ Registered(d)
        BY <2>2, <3>2
      <4>2. HasReply(r, d)'
        BY <1>1, <2>4, <4>1 DEF Knows, HasMail
      <4>3. PICK k \in DOMAIN out' : out'[k].to = r
        BY <4>2 DEF HasReply
      <4>4. out' = <<Send_AskPid_Reply(q, d)>>
        BY <1>4, <3>2
      <4>5. out'[k] = Send_AskPid_Reply(q, d)
        BY <4>3, <4>4
      <4>6. QED
        BY <4>3, <4>5 DEF Send_AskPid_Reply, Reply
    <3>3. ASSUME NEW queue, NEW moved, NEW closing, NEW w, NEW served, NEW unserved,
                 Entered(d, queue, moved, closing, w, served, unserved)
          PROVE  q = r
      <4>1. HasReply(q, d)' /\ HasReply(r, d)'
        BY <1>1, <2>3, <2>4, <3>3 DEF Knows, HasMail
      <4>2. PICK k \in DOMAIN out' : out'[k].to = q /\ out'[k].msg.pid = d
        BY <4>1 DEF HasReply
      <4>3. PICK j \in DOMAIN out' : out'[j].to = r /\ out'[j].msg.pid = d
        BY <4>1 DEF HasReply
      <4>4. Entering(d, queue, moved, closing, w, served, unserved)
        BY <1>5, <2>1, <3>3
      <4>5. k = j
        BY <4>2, <4>3, <4>4, EnteredOne
      <4>6. QED
        BY <4>2, <4>3, <4>5
    <3>4. QED
      BY <1>3, <2>1, <2>4, <3>1, <3>2, <3>3
  <2>5. ASSUME NEW q \in Module, Knows(q, d)' PROVE Given(d)'
    <3>1. CASE Knows(q, d)
      BY <1>7, <2>1, <3>1 DEF Owned
    <3>2. ASSUME NEW queue, NEW moved, NEW closing, NEW w, NEW served, NEW unserved,
                 Entered(d, queue, moved, closing, w, served, unserved),
                 NEW j \in DOMAIN served
          PROVE  Given(d)'
      <4>1. Grown(d, w # <<>>) /\ served \in Seq(Module) /\ (served = <<>> <=> w = <<>>) /\ NameOf[d] \in Name
        BY <1>5, <2>1, <3>2
      <4>2. w # <<>>
        BY <3>2, <4>1
      <4>3. LET h == NameOf[d]
                k == Len(instances[h]) + 1
            IN  k \in DOMAIN instances'[h] /\ instances'[h][k].pid = d /\ instances'[h][k].in_use
        BY <2>1, <4>1, <4>2, GrownIs
      <4>4. QED
        BY <4>1, <4>3 DEF Given
    <3>3. QED
      BY <1>3, <2>1, <2>2, <2>5, <3>1, <3>2
  <2>6. QED
    BY <2>4, <2>5 DEF Owned
<1>9. QED
  BY <1>6, <1>8 DEF OwnerInv

\* At the start there are no instances.
LEMMA OwnerInit == Init => OwnerInv
<1> SUFFICES ASSUME Init PROVE OwnerInv
  OBVIOUS
<1>1. AccountInv
  BY AccountInit
<1>2. Kinds /\ Distinct
  BY DEF Init, Kinds, Distinct
<1>3. ASSUME NEW d \in Multi PROVE Owned(d)
  <2>1. d \in Driver /\ NoPid # d
    BY ModuleAssumption
  <2>2. \A p \in Module : ~Knows(p, d)
    BY <2>1 DEF Init, Knows, HasMail, HasReply
  <2>3. QED
    BY <2>2 DEF Owned
<1>4. QED
  BY <1>1, <1>2, <1>3 DEF OwnerInv

\* Every step keeps each instance with one program.
LEMMA OwnerNext == OwnerInv /\ [Next]_vars => OwnerInv'
<1> SUFFICES ASSUME OwnerInv, [Next]_vars PROVE OwnerInv'
  OBVIOUS
<1>1. AccountInv'
  BY AccountNext DEF OwnerInv
<1>2. CASE Next
  BY <1>1, <1>2, ModulesOwner, HandleOwner DEF Next, MPS
<1>3. CASE UNCHANGED vars
  <2>1. UNCHANGED <<got, mail, out, instances, is_multi>>
    BY <1>3 DEF vars, modules, registry
  <2>2. \A q \in Module : \A d \in Driver : Knows(q, d)' => Knows(q, d)
    BY <2>1 DEF Knows, HasMail, HasReply
  <2>3. QED
    BY <1>1, <2>1, <2>2, OwnerKept
<1>4. QED
  BY <1>2, <1>3

\* An instance of a multi-instance driver is told to one program: FindDriverPid never
\* gives it to a second one, even when it was given away from the queue.
THEOREM InstancesOwned == Spec => []OneClientPerInstance
<1>1. OwnerInv => OneClientPerInstance
  <2>1. SUFFICES ASSUME OwnerInv, NEW d \in Multi
                 PROVE  Cardinality(ToldOf(d)) <= 1
    BY DEF OneClientPerInstance
  <2>2. /\ d \in Driver /\ NoPid # d /\ Owned(d) /\ Typed /\ Unsought
        /\ mail \in [Module -> Seq(Mails)]
    BY <2>1, ModuleAssumption DEF OwnerInv, AccountInv, TypeInv, Typed
  <2>3. ASSUME NEW p \in ToldOf(d) PROVE p \in Module /\ Knows(p, d)
    <3>1. p \in Module
      BY DEF ToldOf
    <3>2. CASE pc[p] = "asked" /\ \E m \in Range(mail[p]) : m.pid = d
      <4>1. PICK j \in DOMAIN mail[p] : mail[p][j].pid = d
        BY <3>2 DEF Range
      <4>2. mail[p][j] \in Mails /\ mail[p][j] \notin Requests
        <5>1. mail[p] \in Seq(Mails)
          BY <2>2, <3>1
        <5>2. QED
          BY <2>2, <3>1, <3>2, <4>1, <5>1, SeqIs DEF Unsought
      <4>3. \A m \in Refusing : m.pid = NoPid
        BY DEF Refusing
      <4>4. QED
        BY <2>2, <3>1, <4>1, <4>2, <4>3 DEF Mails, Knows, HasMail
    <3>3. CASE \E r \in Range(out) : r.to = p /\ r.msg.pid = d
      BY <3>1, <3>3 DEF Range, Knows, HasReply
    <3>4. QED
      BY <3>1, <3>2, <3>3 DEF ToldOf, Knows
  <2>4. \A p, q \in ToldOf(d) : p = q
    BY <2>2, <2>3 DEF Owned
  <2>5. CASE ToldOf(d) = {}
    BY <2>5, FS_EmptySet
  <2>6. ASSUME NEW p \in ToldOf(d) PROVE Cardinality(ToldOf(d)) <= 1
    <3>1. ToldOf(d) = {p}
      BY <2>4
    <3>2. Cardinality({p}) = 1
      BY FS_Singleton
    <3>3. QED
      BY <3>1, <3>2
  <2>7. QED
    BY <2>5, <2>6
<1>2. QED
  BY <1>1, OwnerInit, OwnerNext, PTL DEF Spec

------------------------------------------------------------------------------
(* Who is told that there is no driver is told the truth *)

\* Nobody waits for a driver of which an instance could be given away, and the boot queue
\* keeps to its limits.
NobodyInVain ==
    /\ Len(BootWaitQueue) <= MAX_BOOT_WAIT_QUEUE
    /\ BootRegisterFinished => BootWaitQueue = <<>>
    /\ \A i \in DOMAIN BootWaitQueue : Usable(BootWaitQueue[i].name) = {}
    /\ \A n \in Name : waiting[n] # <<>> => Usable(n) = {}

\* There is no driver for p, and no place to wait in.
Without(p) ==
    /\ BootRegisterFinished \/ Len(BootWaitQueue) = MAX_BOOT_WAIT_QUEUE
    /\ Usable(Asks[p]) = {}
Truthful ==
    \A j \in DOMAIN out :
        out[j].msg.status = "DRVNOTFOUND" /\ out[j].to \in Waits => Without(out[j].to)

RefusalInv == AccountInv /\ NobodyInVain /\ Truthful

\* A step that leaves the tables of mps alone and sends no reply that was not there.
LEMMA RefusalKept ==
    ASSUME RefusalInv, AccountInv', UNCHANGED tables,
           \A j \in DOMAIN out' : \E i \in DOMAIN out : out'[j] = out[i]
    PROVE  RefusalInv'
<1>1. UNCHANGED <<instances, is_multi, waiting, BootWaitQueue, BootRegisterFinished>>
  BY DEF tables
<1>2. \A n : Usable(n)' = Usable(n)
  BY <1>1 DEF Usable
<1>3. \A p : Without(p)' <=> Without(p)
  BY <1>1, <1>2 DEF Without
<1>4. NobodyInVain'
  BY <1>1, <1>2 DEF RefusalInv, NobodyInVain
<1>5. Truthful'
  <2>1. ASSUME NEW j \in DOMAIN out', NEW q, q = out'[j].to,
               out'[j].msg.status = "DRVNOTFOUND", q \in Waits
        PROVE  Without(q)'
    <3>1. PICK i \in DOMAIN out : out'[j] = out[i]
      OBVIOUS
    <3>2. Without(q)
      BY <2>1, <3>1 DEF RefusalInv, Truthful
    <3>3. QED
      BY <1>3, <3>2
  <2>2. QED
    BY <2>1 DEF Truthful
<1>6. QED
  BY <1>4, <1>5 DEF RefusalInv

\* init, the modules, and the sending of replies.
LEMMA ModulesRefusal ==
    ASSUME RefusalInv, AccountInv', RunModules \/ Send \/ \E p \in Module : Run(p)
    PROVE  RefusalInv'
<1>1. Typed
  BY DEF RefusalInv, AccountInv, TypeInv
<1>2. UNCHANGED <<registry, boot>> /\ (Send \/ UNCHANGED out)
  <2>1. StartModule \/ Announce \/ Complete => UNCHANGED <<registry, boot, out>>
    BY DEF StartModule, Announce, Complete
  <2>2. ASSUME NEW p \in Module, Ask(p) \/ Fail(p) \/ DriverStart(p) \/ DriverStarted(p)
        PROVE  UNCHANGED <<registry, boot, out>>
    BY <2>2 DEF Ask, Fail, DriverStart, DriverStarted
  <2>3. ASSUME NEW p \in Module, Answered(p) PROVE UNCHANGED <<registry, boot, out>>
    BY <2>3 DEF Answered
  <2>4. Send => UNCHANGED <<registry, boot>>
    BY DEF Send
  <2>5. QED
    BY <2>1, <2>2, <2>3, <2>4 DEF RunModules, Run
<1>3. UNCHANGED tables
  BY <1>2, TablesKept
<1>4. CASE Send
  <2>1. \A j \in DOMAIN out' : j + 1 \in DOMAIN out /\ out'[j] = out[j + 1]
    BY <1>1, <1>4, SendIs
  <2>2. QED
    BY <1>3, <2>1, RefusalKept
<1>5. CASE UNCHANGED out
  BY <1>3, <1>5, RefusalKept
<1>6. QED
  BY <1>2, <1>4, <1>5

\* A registration gives the instances of p to those who wait first: if there were none
\* to give, there are none after it, for all who still wait.
LEMMA EnterUsable ==
    ASSUME Typed, Named, NobodyInVain, MAX_BOOT_WAIT_QUEUE <= MAX_WAITQUEUE,
           NEW p \in Driver, NEW queue, NEW moved, NEW closing \in BOOLEAN,
           NEW w, NEW served, NEW unserved, Sorted(p, queue, moved),
           Entering(p, queue, moved, closing, w, served, unserved)
    PROVE  /\ \A m \in Name \ {NameOf[p]} : Usable(m)' = Usable(m)
           /\ \A i \in DOMAIN queue : Usable(queue[i].name)' = {}
           /\ unserved # <<>> => Usable(NameOf[p])' = {}
<1> DEFINE n == NameOf[p]
           v == waiting[n]
<1>1. /\ n \in Name /\ v \in Seq(Module) /\ moved \in Seq(Module) /\ queue \in Seq(Waiters)
      /\ BootWaitQueue \in Seq(Waiters) /\ w = v \o moved
      /\ MAX_WAITQUEUE \in Nat /\ MAX_BOOT_WAIT_QUEUE \in Nat
  BY ModuleAssumption, BoundAssumption DEF Typed, Sorted, Entering
<1>2. /\ Len(v) \in Nat /\ Len(moved) \in Nat /\ Len(queue) \in Nat /\ Len(BootWaitQueue) \in Nat
      /\ DOMAIN queue = 1 .. Len(queue) /\ DOMAIN moved = 1 .. Len(moved)
      /\ (v = <<>> <=> Len(v) = 0) /\ (moved = <<>> <=> Len(moved) = 0)
      /\ (w = <<>> <=> v = <<>> /\ moved = <<>>)
  BY <1>1, SeqIs
<1>3. /\ Grown(p, w # <<>>)
      /\ is_multi' = IF p \in Multi THEN is_multi \cup {n} ELSE is_multi
      /\ (unserved # <<>> => p \in Multi /\ w # <<>>)
  BY DEF Entering, Serving
<1>4. ASSUME NEW m \in Name \ {n} PROVE Usable(m)' = Usable(m)
  <2>1. instances'[m] = instances[m] /\ (m \in is_multi' <=> m \in is_multi)
    BY <1>3 DEF Grown
  <2>2. QED
    BY <2>1 DEF Usable
<1>5. ASSUME w # <<>>, Usable(n) = {}, n \in is_multi' PROVE Usable(n)' = {}
  <2> DEFINE last == Len(instances[n]) + 1
  <2>1. /\ instances'[n][last].in_use
        /\ \A i \in DOMAIN instances'[n] :
              \/ i \in DOMAIN instances[n] /\ instances'[n][i] = instances[n][i]
              \/ i = last
    <3>1. instances'[n][last].in_use
      BY <1>3, <1>5, GrownIs
    <3>2. \A m \in Name : \A i \in DOMAIN instances'[m] :
              \/ i \in DOMAIN instances[m] /\ instances'[m][i] = instances[m][i]
              \/ m = n /\ i = last
      BY <1>3, GrownIs
    <3>3. QED
      BY <1>1, <3>1, <3>2
  <2> HIDE DEF last
  <2>2. \A i \in DOMAIN instances[n] : instances[n][i].in_use
    BY <1>5 DEF Usable
  <2>3. \A i \in DOMAIN instances'[n] : instances'[n][i].in_use
    BY <2>1, <2>2
  <2>4. QED
    BY <1>5, <2>3 DEF Usable
<1>6. ASSUME w # <<>> PROVE Usable(n) = {}
  <2>1. CASE v # <<>>
    BY <1>1, <2>1 DEF NobodyInVain
  <2>2. CASE moved # <<>>
    <3>1. 1 \in DOMAIN moved
      BY <1>2, <2>2
    <3>2. PICK j \in DOMAIN BootWaitQueue : BootWaitQueue[j].name = n
      BY <3>1 DEF Sorted
    <3>3. QED
      BY <3>2 DEF NobodyInVain
  <2>3. QED
    BY <1>2, <1>6, <2>1, <2>2
<1>7. ASSUME NEW i \in DOMAIN queue PROVE Usable(queue[i].name)' = {}
  <2>1. PICK j \in DOMAIN BootWaitQueue : queue[i] = BootWaitQueue[j]
    BY DEF Sorted
  <2>2. Usable(queue[i].name) = {} /\ queue[i].name \in Name
    <3>1. \A e \in Waiters : e.name \in Name
      BY DEF Waiters
    <3>2. QED
      BY <1>1, <2>1, <3>1, SeqIs DEF NobodyInVain
  <2>3. CASE queue[i].name # n
    BY <1>4, <2>2, <2>3
  <2>4. CASE queue[i].name = n
\* The queue of the driver is full: then it was not empty.
    <3>1. Len(moved) = MAX_WAITQUEUE - Len(v)
      <4>1. ~BootRegisterFinished
        <5>1. BootWaitQueue # <<>>
          BY <1>1, <2>1, SeqIs
        <5>2. QED
          BY <5>1 DEF NobodyInVain
      <4>2. QED
        BY <2>4, <4>1 DEF Sorted
    <3>2. v # <<>>
      <4>1. Len(queue) + Len(moved) = Len(BootWaitQueue) /\ Len(BootWaitQueue) <= MAX_BOOT_WAIT_QUEUE
        BY DEF Sorted, NobodyInVain
      <4>2. Len(queue) # 0
        BY <1>2
      <4> DEFINE x == Len(v)
                 y == Len(moved)
                 z == Len(queue)
      <4>3. /\ x \in Nat /\ y \in Nat /\ z \in Nat /\ z # 0
            /\ y = MAX_WAITQUEUE - x /\ z + y <= MAX_BOOT_WAIT_QUEUE
        BY <1>2, <3>1, <4>1, <4>2
      <4>4. v = <<>> <=> x = 0
        BY <1>2
      <4> HIDE DEF x, y, z
      <4>5. x # 0
        BY <1>1, <4>3
      <4>6. QED
        BY <4>4, <4>5
    <3>3. n \in is_multi' /\ w # <<>>
      BY <1>1, <1>2, <1>3, <3>2 DEF Named
    <3>4. QED
      BY <1>5, <2>2, <2>4, <3>3
  <2>5. QED
    BY <2>3, <2>4
<1>8. QED
  BY <1>3, <1>4, <1>5, <1>6, <1>7

\* A handler that only answers an asker, or nobody, or queues the asker.
LEMMA AskRefusal ==
    ASSUME RefusalInv, AccountInv', NEW p \in Module, Asks[p] \in Name,
           (\E i \in Usable(Asks[p]) : Finding(p, Asks[p], i)) \/ Queuing(p) \/ Missing(p)
    PROVE  RefusalInv'
<1> DEFINE n == Asks[p]
<1>1. /\ Typed /\ NobodyInVain /\ NoPid \notin Driver
      /\ BootWaitQueue \in Seq(Waiters) /\ [pid |-> p, name |-> n] \in Waiters
  BY ModuleAssumption DEF RefusalInv, AccountInv, TypeInv, Typed, Waiters
<1>2. ASSUME NEW i \in Usable(n), Finding(p, n, i) PROVE RefusalInv'
  <2>1. /\ UNCHANGED <<is_multi, waiting, BootWaitQueue, BootRegisterFinished>>
        /\ out' = <<Send_AskPid_Reply(p, instances[n][i].pid)>> /\ instances[n][i].pid \in Driver
    BY <1>2 DEF Finding
  <2>2. \A m \in Name : Usable(m) = {} => Usable(m)' = {}
    BY <1>2, <2>1 DEF Finding, Marked, Usable
  <2>3. NobodyInVain'
    <3>1. \A j \in DOMAIN BootWaitQueue : BootWaitQueue[j].name \in Name
      <4>1. \A e \in Waiters : e.name \in Name
        BY DEF Waiters
      <4>2. QED
        BY <1>1, <4>1, SeqIs
    <3>2. QED
      BY <1>1, <2>1, <2>2, <3>1 DEF NobodyInVain
  <2>4. Truthful'
    <3>1. \A j \in DOMAIN out' : out'[j].msg.status = "NOERR"
      <4> DEFINE d == instances[n][i].pid
      <4>1. d # NoPid
        BY <1>1, <2>1
      <4>2. \A j \in DOMAIN out' : out'[j] = Send_AskPid_Reply(p, d)
        BY <2>1
      <4> HIDE DEF d
      <4>3. QED
        BY <4>1, <4>2 DEF Send_AskPid_Reply, Reply
    <3>2. QED
      BY <3>1 DEF Truthful
  <2>5. QED
    BY <2>3, <2>4 DEF RefusalInv
<1>3. CASE Queuing(p)
  <2> DEFINE e == [pid |-> p, name |-> n]
  <2>1. /\ Usable(n) = {} /\ ~BootRegisterFinished /\ Len(BootWaitQueue) < MAX_BOOT_WAIT_QUEUE
        /\ BootWaitQueue' = Append(BootWaitQueue, e) /\ out' = <<>>
        /\ UNCHANGED <<instances, is_multi, waiting, BootRegisterFinished>>
    BY <1>3 DEF Queuing
  <2>2. e \in Waiters /\ e.name = n
    BY <1>1
  <2> HIDE DEF e
  <2>3. \A m : Usable(m)' = Usable(m)
    BY <2>1 DEF Usable
  <2>4. /\ Len(BootWaitQueue') = Len(BootWaitQueue) + 1
        /\ \A j \in DOMAIN BootWaitQueue' :
              BootWaitQueue'[j] = e \/ (j \in DOMAIN BootWaitQueue /\ BootWaitQueue'[j] = BootWaitQueue[j])
        /\ Len(BootWaitQueue) \in Nat
    BY <1>1, <2>1, <2>2, AppendIs
  <2>5. \A j \in DOMAIN BootWaitQueue' : Usable(BootWaitQueue'[j].name) = {}
    BY <1>1, <2>1, <2>2, <2>4 DEF NobodyInVain
  <2>6. NobodyInVain'
    <3>1. Len(BootWaitQueue') <= MAX_BOOT_WAIT_QUEUE
      BY <2>1, <2>4, BoundAssumption
    <3>2. \A m \in Name : waiting'[m] # <<>> => Usable(m)' = {}
      BY <1>1, <2>1, <2>3 DEF NobodyInVain
    <3>3. QED
      BY <2>1, <2>3, <2>5, <3>1, <3>2 DEF NobodyInVain
  <2>7. Truthful'
    BY <2>1 DEF Truthful
  <2>8. QED
    BY <2>6, <2>7 DEF RefusalInv
<1>4. CASE Missing(p)
  <2>1. /\ Usable(n) = {}
        /\ p \notin Waits \/ BootRegisterFinished \/ Len(BootWaitQueue) = MAX_BOOT_WAIT_QUEUE
        /\ out' = <<ReplyError(p, "DRVNOTFOUND")>>
        /\ UNCHANGED <<instances, is_multi, waiting, BootWaitQueue, BootRegisterFinished>>
    BY <1>4 DEF Missing, Errs, tables
  <2>2. \A m : Usable(m)' = Usable(m)
    BY <2>1 DEF Usable
  <2>3. NobodyInVain'
    BY <1>1, <2>1, <2>2 DEF NobodyInVain
  <2>4. p \in Waits => Without(p)'
    BY <2>1, <2>2 DEF Without
  <2>5. Truthful'
    <3>1. \A j \in DOMAIN out' : out'[j].to = p
      <4>1. \A j \in DOMAIN out' : out'[j] = ReplyError(p, "DRVNOTFOUND")
        BY <2>1
      <4>2. QED
        BY <4>1 DEF ReplyError, Reply
    <3>2. QED
      BY <2>4, <3>1 DEF Truthful
  <2>6. QED
    BY <2>3, <2>5 DEF RefusalInv
<1>5. QED
  BY <1>2, <1>3, <1>4

\* A registration: who is refused when it closes the boot phase is refused rightly.
LEMMA EnterRefusal ==
    ASSUME RefusalInv, AccountInv', MAX_BOOT_WAIT_QUEUE <= MAX_WAITQUEUE,
           NEW p \in Driver, NEW queue, NEW moved, NEW closing \in BOOLEAN,
           NEW w, NEW served, NEW unserved, Sorted(p, queue, moved),
           Entering(p, queue, moved, closing, w, served, unserved)
    PROVE  RefusalInv'
<1> DEFINE n == NameOf[p]
<1>1. /\ Typed /\ Named /\ NobodyInVain /\ NoPid # p /\ n \in Name
      /\ queue \in Seq(Waiters) /\ moved \in Seq(Module) /\ BootWaitQueue \in Seq(Waiters)
  BY ModuleAssumption DEF RefusalInv, AccountInv, TypeInv, Typed, Sorted
<1>2. /\ BootWaitQueue' = (IF closing THEN <<>> ELSE queue)
      /\ BootRegisterFinished' = (BootRegisterFinished \/ closing)
      /\ waiting' = [m \in Name |-> IF m = n THEN unserved
                                    ELSE IF closing THEN <<>> ELSE waiting[m]]
      /\ Concerned(p, queue, closing, served)
  BY DEF Entering
<1>3. /\ \A m \in Name \ {n} : Usable(m)' = Usable(m)
      /\ \A i \in DOMAIN queue : Usable(queue[i].name)' = {}
      /\ unserved # <<>> => Usable(n)' = {}
  <2>1. Typed /\ Named /\ NobodyInVain
    BY <1>1
  <2>2. Sorted(p, queue, moved) /\ Entering(p, queue, moved, closing, w, served, unserved)
    OBVIOUS
  <2>3. \A m \in Name \ {NameOf[p]} : Usable(m)' = Usable(m)
    BY <2>1, <2>2, EnterUsable
  <2>4. \A i \in DOMAIN queue : Usable(queue[i].name)' = {}
    BY <2>1, <2>2, EnterUsable
  <2>5. unserved # <<>> => Usable(NameOf[p])' = {}
    BY <2>1, <2>2, EnterUsable
  <2>6. QED
    BY <2>3, <2>4, <2>5
<1>4. /\ Len(queue) \in Nat /\ Len(moved) \in Nat /\ Len(BootWaitQueue) \in Nat
      /\ Len(queue) + Len(moved) = Len(BootWaitQueue)
      /\ (queue = <<>> <=> Len(queue) = 0) /\ (BootWaitQueue = <<>> <=> Len(BootWaitQueue) = 0)
  BY <1>1, SeqIs DEF Sorted
<1>5. NobodyInVain'
  <2>1. Len(BootWaitQueue') <= MAX_BOOT_WAIT_QUEUE
    <3>1. Len(queue) <= MAX_BOOT_WAIT_QUEUE /\ MAX_BOOT_WAIT_QUEUE \in Nat
      BY <1>1, <1>4, BoundAssumption DEF NobodyInVain
    <3>2. CASE closing
      BY <1>2, <3>1, <3>2
    <3>3. CASE ~closing
      BY <1>2, <3>1, <3>3
    <3>4. QED
      BY <3>2, <3>3
  <2>2. BootRegisterFinished' => BootWaitQueue' = <<>>
    <3>1. BootRegisterFinished => queue = <<>>
      <4>1. BootRegisterFinished => Len(BootWaitQueue) = 0
        BY <1>1, <1>4 DEF NobodyInVain
      <4> DEFINE x == Len(queue)
                 y == Len(moved)
                 z == Len(BootWaitQueue)
      <4>2. x \in Nat /\ y \in Nat /\ x + y = z /\ (x = 0 => queue = <<>>)
        BY <1>4
      <4>3. BootRegisterFinished => z = 0
        BY <4>1
      <4> HIDE DEF x, y, z
      <4>4. QED
        BY <4>2, <4>3
    <3>2. CASE closing
      BY <1>2, <3>2
    <3>3. CASE ~closing
      <4>1. BootRegisterFinished' => BootRegisterFinished
        <5>1. BootRegisterFinished' = (BootRegisterFinished \/ closing)
          BY DEF Entering
        <5>2. QED
          BY <3>3, <5>1, Zenon
      <4>2. BootWaitQueue' = queue
        BY <1>2, <3>3
      <4>3. QED
        BY <3>1, <4>1, <4>2
    <3>4. QED
      BY <3>2, <3>3
  <2>3. ASSUME NEW i \in DOMAIN BootWaitQueue' PROVE Usable(BootWaitQueue[i].name)' = {}
    <3>1. ~closing /\ BootWaitQueue' = queue
      BY <1>2, <2>3
    <3>2. PICK m : m = queue[i].name
      OBVIOUS
    <3>3. Usable(m)' = {}
      BY <1>3, <2>3, <3>1, <3>2
    <3>4. QED
      BY <3>1, <3>2, <3>3
  <2>4. ASSUME NEW m \in Name, waiting'[m] # <<>> PROVE Usable(m)' = {}
    <3>1. CASE m = n
      BY <1>2, <1>3, <2>4, <3>1
    <3>2. CASE m # n
      <4>1. waiting[m] # <<>>
        BY <1>2, <2>4, <3>2
      <4>2. QED
        BY <1>1, <1>3, <3>2, <4>1 DEF NobodyInVain
    <3>3. QED
      BY <3>1, <3>2
  <2>5. QED
    BY <2>1, <2>2, <2>3, <2>4 DEF NobodyInVain
<1>6. Truthful'
  <2>1. ASSUME NEW j \in DOMAIN out', NEW q, q = out'[j].to, out'[j].msg.status = "DRVNOTFOUND"
        PROVE  Without(q)'
    <3>1. PICK k \in Nat \ {0} :
             /\ k \in DOMAIN out' /\ out'[k] = Driver_Init_Reply(p)
             /\ \A i \in DOMAIN out' :
                   /\ i < k => closing /\ i \in DOMAIN queue
                               /\ out'[i] = Send_AskPid_Reply(queue[i].pid, NoPid)
                   /\ i > k => i - k \in DOMAIN served
                               /\ out'[i] = Send_AskPid_Reply(served[i - k], p)
      BY <1>2 DEF Concerned
    <3>2. j \in Nat
      <4>1. out' \in Seq(Replies)
        BY <1>2 DEF Concerned
      <4>2. QED
        BY <4>1, SeqIs
    <3>3. j # k
      BY <2>1, <3>1 DEF Driver_Init_Reply, Reply
    <3>4. ~(j > k)
      <4>1. SUFFICES ASSUME j > k PROVE FALSE
        OBVIOUS
      <4>2. out'[j] = Send_AskPid_Reply(served[j - k], p)
        BY <3>1, <4>1
      <4>3. out'[j].msg.status = "NOERR"
        BY <1>1, <4>2 DEF Send_AskPid_Reply, Reply
      <4>4. QED
        BY <2>1, <4>3
    <3>5. closing /\ j \in DOMAIN queue /\ out'[j] = Send_AskPid_Reply(queue[j].pid, NoPid)
      BY <3>1, <3>2, <3>3, <3>4
    <3>6. q = queue[j].pid
      BY <2>1, <3>5 DEF Send_AskPid_Reply, Reply
    <3>7. queue[j].name = Asks[q]
      <4>1. PICK i \in DOMAIN BootWaitQueue : queue[j] = BootWaitQueue[i]
        BY <3>5 DEF Sorted
      <4>2. QED
        BY <1>1, <3>6, <4>1 DEF Named
    <3>8. Usable(Asks[q])' = {}
      BY <1>3, <3>5, <3>7
    <3>9. QED
      BY <1>2, <3>5, <3>8 DEF Without
  <2>2. QED
    BY <2>1 DEF Truthful
<1>7. QED
  BY <1>5, <1>6 DEF RefusalInv

\* The handlers of mps.
LEMMA HandleRefusal ==
    ASSUME RefusalInv, AccountInv', MAX_BOOT_WAIT_QUEUE <= MAX_WAITQUEUE, Handle
    PROVE  RefusalInv'
<1> DEFINE m == Head(inbox)
           p == m.from
<1>1. /\ Typed /\ Named /\ NobodyInVain /\ BootWaitQueue \in Seq(Waiters)
      /\ m \in Letters /\ Handling(m.type, p)
  BY HandleIs DEF RefusalInv, AccountInv, TypeInv, Typed
<1> HIDE DEF m
<1>2. CASE m.type = "ASKPID"
  <2>1. p \in Module /\ Asks[p] \in Name
    BY <1>1, <1>2, LetterIs
  <2>2. CASE FindDriverPid(p, Asks[p])
    <3>1. \E i \in Usable(Asks[p]) : Finding(p, Asks[p], i)
      BY <1>1, <2>1, <2>2, FindIs
    <3>2. QED
      BY <2>1, <3>1, AskRefusal
  <2>3. CASE Queuing(p) \/ Missing(p)
    BY <2>1, <2>3, AskRefusal
  <2>4. QED
    BY <1>1, <1>2, <2>2, <2>3 DEF Handling
<1>3. CASE m.type = "INIT" /\ Registers(p)
  <2>1. p \in Driver
    BY <1>1, <1>3, LetterIs
  <2>2. PICK queue, moved : \E closing \in BOOLEAN :
           Sorted(p, queue, moved) /\ Registering(p, queue, moved, closing)
    BY <1>3 DEF Registers
  <2>3. PICK closing \in BOOLEAN : Sorted(p, queue, moved) /\ Registering(p, queue, moved, closing)
    BY <2>2
  <2>4. PICK w, served, unserved : Entering(p, queue, moved, closing, w, served, unserved)
    BY <1>1, <2>1, <2>3, EnterIs
  <2>5. QED
    BY <2>1, <2>3, <2>4, EnterRefusal
\* A handler that leaves the tables alone and says at most that a driver is or is not
\* there already.
<1>4. ASSUME UNCHANGED tables, \A j \in DOMAIN out' : out'[j].msg.status # "DRVNOTFOUND"
      PROVE  RefusalInv'
  <2>1. UNCHANGED <<instances, is_multi, waiting, BootWaitQueue, BootRegisterFinished>>
    BY <1>4 DEF tables
  <2>2. \A n : Usable(n)' = Usable(n)
    BY <2>1 DEF Usable
  <2>3. NobodyInVain'
    BY <1>1, <2>1, <2>2 DEF NobodyInVain
  <2>4. Truthful'
    BY <1>4 DEF Truthful
  <2>5. QED
    BY <2>3, <2>4 DEF RefusalInv
<1>5. CASE \E err \in {"DRVPRESENT", "DRVNOTPRESENT"} : Errs(p, err)
  <2>1. PICK err \in {"DRVPRESENT", "DRVNOTPRESENT"} : Errs(p, err)
    BY <1>5
  <2>2. \A j \in DOMAIN out' : out'[j] = ReplyError(p, err)
    BY <2>1 DEF Errs
  <2>3. \A j \in DOMAIN out' : out'[j].msg.status # "DRVNOTFOUND"
    BY <2>2 DEF ReplyError, Reply
  <2>4. QED
    BY <1>4, <2>1, <2>3 DEF Errs
<1>6. CASE Idle
  BY <1>4, <1>6 DEF Idle
\* Init says that all is started, and the boot phase ends.
<1>7. CASE Closing
  <2>1. /\ out' = CloseReplies(BootWaitQueue)
        /\ BootWaitQueue' = <<>> /\ BootRegisterFinished' = TRUE
        /\ waiting' = [n \in Name |-> <<>>]
        /\ UNCHANGED <<instances, is_multi>>
    BY <1>7 DEF Closing
  <2>2. \A n : Usable(n)' = Usable(n)
    BY <2>1 DEF Usable
  <2>3. NobodyInVain'
    <3>1. Len(BootWaitQueue') = 0 /\ DOMAIN BootWaitQueue' = {}
      BY <2>1
    <3>2. QED
      BY <2>1, <3>1, BoundAssumption DEF NobodyInVain
  <2>4. Truthful'
    <3>1. ASSUME NEW j \in DOMAIN out', NEW q, q = out'[j].to PROVE Without(q)'
      <4>1. j \in DOMAIN BootWaitQueue /\ q = BootWaitQueue[j].pid
        BY <1>1, <2>1, <3>1, CloseIs
      <4>2. Usable(Asks[q]) = {}
        BY <1>1, <4>1 DEF Named, NobodyInVain
      <4>3. QED
        BY <2>1, <2>2, <4>2 DEF Without
    <3>2. QED
      BY <3>1 DEF Truthful
  <2>5. QED
    BY <2>3, <2>4 DEF RefusalInv
<1>8. QED
  BY <1>1, <1>2, <1>3, <1>5, <1>6, <1>7 DEF Handling

\* At the start nobody waits and nobody is refused.
LEMMA RefusalInit == Init => RefusalInv
<1> SUFFICES ASSUME Init PROVE RefusalInv
  OBVIOUS
<1>1. AccountInv
  BY AccountInit
<1>2. NobodyInVain
  <2>1. Len(BootWaitQueue) = 0 /\ DOMAIN BootWaitQueue = {}
    BY DEF Init
  <2>2. QED
    BY <2>1, BoundAssumption DEF Init, NobodyInVain
<1>3. Truthful
  BY DEF Init, Truthful
<1>4. QED
  BY <1>1, <1>2, <1>3 DEF RefusalInv

\* Every step keeps the refusals true.
LEMMA RefusalNext ==
    MAX_BOOT_WAIT_QUEUE <= MAX_WAITQUEUE => (RefusalInv /\ [Next]_vars => RefusalInv')
<1> SUFFICES ASSUME MAX_BOOT_WAIT_QUEUE <= MAX_WAITQUEUE, RefusalInv, [Next]_vars
             PROVE  RefusalInv'
  OBVIOUS
<1>1. AccountInv'
  BY AccountNext DEF RefusalInv
<1>2. CASE Next
  BY <1>1, <1>2, ModulesRefusal, HandleRefusal DEF Next, MPS
<1>3. CASE UNCHANGED vars
  <2>1. UNCHANGED out /\ UNCHANGED tables
    BY <1>3 DEF vars, registry, boot, tables
  <2>2. QED
    BY <1>1, <2>1, RefusalKept
<1>4. QED
  BY <1>2, <1>3

\* Who asks with MPS_WAITRUN is refused only when the boot phase is over or its queue is
\* full, and never while an instance it could have is registered, if the queue of a driver
\* has room for all whom the boot queue can hold, as in the code.
THEOREM RefusalsAreTrue ==
    ASSUME MAX_BOOT_WAIT_QUEUE <= MAX_WAITQUEUE
    PROVE  Spec => []NotFoundIsTrue
<1>1. RefusalInv => NotFoundIsTrue
  BY DEF RefusalInv, Truthful, Without, NotFoundIsTrue, ToldNotFound, Range
<1>2. RefusalInv /\ [Next]_vars => RefusalInv'
  BY RefusalNext
<1>3. QED
  BY <1>1, <1>2, RefusalInit, PTL DEF Spec
================================================================================
