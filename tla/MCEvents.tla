--------------------------------- MODULE MCEvents ---------------------------------
(* Events with two processes, the first of which has two threads.                *)
EXTENDS Events, TLC

CONSTANTS proc1, proc2, t1, t2, t3, irq, a, b

MCtask == t1 :> proc1 @@ t2 :> proc1 @@ t3 :> proc2

\* A thread that names no event makes no calls.
MCClients ==
    {[careless |-> {}, names |-> t1 :> {irq, a, b} @@ t2 :> {} @@ t3 :> {irq, a, b}],
     [careless |-> {}, names |-> t1 :> {irq, a} @@ t2 :> {irq, a} @@ t3 :> {irq}],
     [careless |-> {"clears"}, names |-> t1 :> {a, b} @@ t2 :> {} @@ t3 :> {a}]}

================================================================================
