------------------------------- MODULE CharQueues -------------------------------
(* What character buffers promise: each open buffer is a first-in first-out queue  *)
(* of bounded length. A write appends as much of its bytes as fits, a read returns *)
(* and removes as many as it asks for, or all there are, and no call on a buffer   *)
(* touches another. last is the last transfer, as its caller sees it: what it      *)
(* asked for (the bytes to write, or a number of bytes) and the bytes that went.   *)
EXTENDS Integers, Sequences

CONSTANT Id

VARIABLES
    room,   \* Id -> how many bytes the queue can hold, -1 when it is closed
    queue,  \* Id -> what was written and not yet read
    last

vars == <<room, queue, last>>

Least(a, b) == IF a < b THEN a ELSE b

Init ==
    /\ room = [i \in Id |-> -1]
    /\ queue = [i \in Id |-> <<>>]
    /\ last = [kind |-> "none"]

Open(i) ==
    /\ room[i] = -1
    /\ room'[i] \in Nat /\ room' = [room EXCEPT ![i] = room'[i]]
    /\ UNCHANGED <<queue, last>>

Close(i) ==
    /\ room[i] # -1
    /\ room' = [room EXCEPT ![i] = -1]
    /\ queue' = [queue EXCEPT ![i] = <<>>]
    /\ UNCHANGED last

Put(i) ==
    /\ room[i] # -1
    /\ last'.kind = "write"
    /\ LET n == Least(Len(last'.asked), room[i] - Len(queue[i]))
           s == SubSeq(last'.asked, 1, n)
       IN queue' = [queue EXCEPT ![i] = @ \o s] /\ last'.bytes = s
    /\ UNCHANGED room

Get(i) ==
    /\ room[i] # -1
    /\ last'.kind = "read"
    /\ LET n == Least(last'.asked, Len(queue[i]))
       IN /\ last'.bytes = SubSeq(queue[i], 1, n)
          /\ queue' = [queue EXCEPT ![i] = SubSeq(@, n + 1, Len(@))]
    /\ UNCHANGED room

Next == \E i \in Id : Open(i) \/ Close(i) \/ Put(i) \/ Get(i)

Spec == Init /\ [][Next]_vars
================================================================================
