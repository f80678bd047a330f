------------------------------- MODULE ReadyRing -------------------------------
(***************************************************************************)
(* The ready queue of coda_pronti.c: an array CodaPronti of MAX_REFERENCES *)
(* thread indices used as a ring, testa_CodaPronti the cell of the first   *)
(* thread and coda_CodaPronti the first free cell.  A ring is a record     *)
(* [cell, testa, coda].  The effects on Threads[] are in module Kernel.    *)
(***************************************************************************)
EXTENDS Integers

CONSTANT MAX_REFERENCES

Cells == 0..MAX_REFERENCES - 1

Succ(i) == (i + 1) % MAX_REFERENCES

EmptyRing == [cell |-> [i \in Cells |-> 0], testa |-> 0, coda |-> 0]

IsEmpty(q) == q.coda = q.testa

IsFull(q) == q.testa = Succ(q.coda)

\* The place of cell i in the queue, the first being 0, and the cells in use.
Place(q, i) == (i - q.testa) % MAX_REFERENCES

Used(q) == {i \in Cells : Place(q, i) < Place(q, q.coda)}

\* Add_Thread_To_CodaPronti, past its panics.
Put(q, t) == [q EXCEPT !.cell[q.coda] = t, !.coda = Succ(@)]

First(q) == q.cell[q.testa]

\* Get_Thread_From_CodaPronti on a ring that is not empty.
DropFirst(q) == [q EXCEPT !.testa = Succ(@)]

Holds(q, t) == \E i \in Used(q) : q.cell[i] = t

\* Wrong variant: the shift stops one cell early.
TakeOut_ShortShift(q, t) ==
    LET at == CHOOSE i \in Used(q) :
                 q.cell[i] = t /\ \A k \in Used(q) : q.cell[k] = t => Place(q, i) <= Place(q, k)
        moved == {i \in Used(q) : Place(q, i) >= Place(q, at) /\ Succ(Succ(i)) # q.coda}
    IN  [q EXCEPT !.cell = [i \in Cells |-> IF i = q.coda THEN 0
                                            ELSE IF i \in moved THEN q.cell[Succ(i)]
                                            ELSE q.cell[i]],
                  !.coda = (@ - 1) % MAX_REFERENCES]

\* Remove_Thread_From_CodaPronti on a ring that holds t: the threads behind its
\* first occurrence move one cell forward and the old end of the queue is zeroed.
TakeOut(q, t) ==
    LET at == CHOOSE i \in Used(q) :
                 q.cell[i] = t /\ \A k \in Used(q) : q.cell[k] = t => Place(q, i) <= Place(q, k)
        moved == {i \in Used(q) : Place(q, i) >= Place(q, at) /\ Succ(i) # q.coda}
    IN  [q EXCEPT !.cell = [i \in Cells |-> IF i = q.coda THEN 0
                                            ELSE IF i \in moved THEN q.cell[Succ(i)]
                                            ELSE q.cell[i]],
                  !.coda = (@ - 1) % MAX_REFERENCES]

\* The sequence a ring stands for.
Contents(q) == [n \in 1..Place(q, q.coda) |-> q.cell[(q.testa + n - 1) % MAX_REFERENCES]]

================================================================================
