--------------------------------- MODULE Events ---------------------------------
(***************************************************************************)
(* events.c: the public events, one per interrupt line, and the private    *)
(* events of each process, lists of cells taken from a common pool.        *)
(*                                                                         *)
(* A call runs with interrupts off until it returns or is suspended in a   *)
(* P: kernel is the thread that executes one.  Unlike the other mutexes of *)
(* the kernel, those of this file can stay taken after the call that took  *)
(* them, so they are modelled: Events_Sem, for the public events, and the  *)
(* Events_Sem of each process, called by the name of the process here.     *)
(* Priv_Events_Sem is always released by the step that takes it.           *)
(*                                                                         *)
(* Left out: names (an event is one of Public or Private), INTERRUPT0,     *)
(* which belongs to the kernel, and the permissions: no public event ever  *)
(* gets E_MASK_EXT or, but for INTERRUPT0, E_MASK_FIX, so setevent refuses *)
(* every public event, and nothing reads those of a private one.           *)
(***************************************************************************)
EXTENDS Integers, Sequences, FiniteSets

CONSTANTS
    Thread, Process,
    task,              \* the process of each thread
    Public, Private,   \* names of events
    MAX_EVENT_NUMBER,  \* cells in the pool
    MaxStatus,         \* bound on the value of an event's semaphore
    Clients,           \* what the clients can be like: the kinds of careless calls that
                       \* they make, and the events that each thread names in its calls
    Events_Sem,        \* the mutex of the public events
    None

ASSUME EventsAssumption ==
    /\ task \in [Thread -> Process]
    /\ MAX_EVENT_NUMBER \in Nat \ {0} /\ MaxStatus \in Nat \ {0}
    /\ Clients \subseteq [careless : SUBSET {"clears", "leaves_locked", "clears_inside"},
                          names : [Thread -> SUBSET (Public \cup Private)]]
    /\ None \notin Thread \cup Process \cup Public \cup Private

NULL == 0
Cell == 1..MAX_EVENT_NUMBER
Mutex == {Events_Sem} \cup Process
Key == Mutex \cup Public \cup Cell

\* Different semaphores and different events have different names.
ASSUME NamesAssumption ==
    /\ Events_Sem \notin Process /\ Mutex \cap Public = {}
    /\ (Mutex \cup Public) \cap Cell = {} /\ NULL \notin Mutex \cup Public
    /\ None \notin Mutex \cup Cell /\ Public \cap Private = {}

VARIABLES
    clients,      \* what the clients are like, the same for ever
    sem,          \* value and queue of every semaphore
    kernel,       \* the thread executing a call, or None
    call,         \* the call each thread is in, or None
    at,           \* how far it has got: what it does next
    asleep,       \* the threads suspended in P
    owner,        \* the owner of each public event, None if it is not taken
    next, name,   \* the cells
    events_freelist, Events_List

vars == <<clients, sem, kernel, call, at, asleep, owner, next, name, events_freelist, Events_List>>

\* init_Events and a process table without events.
Init ==
    /\ clients \in Clients
    /\ sem = [k \in Key |-> [Status |-> IF k \in Mutex THEN 1 ELSE 0, queue |-> <<>>]]
    /\ kernel = None
    /\ call = [t \in Thread |-> None]
    /\ at = [t \in Thread |-> [do |-> "user"]]
    /\ asleep = {}
    /\ owner = [e \in Public |-> None]
    /\ next = [c \in Cell \cup {NULL} |-> IF c \in Cell \ {MAX_EVENT_NUMBER} THEN c + 1 ELSE NULL]
    /\ name = [c \in Cell |-> None]
    /\ events_freelist = 1
    /\ Events_List = [p \in Process |-> NULL]

--------------------------------------------------------------------------------
(* Semaphores: what an operation makes of sem, and whom it wakes.              *)

\* V and Bool_V on k with the value v if nobody waits.
Up(s, k, v) == IF s[k].queue = <<>> THEN [s EXCEPT ![k].Status = v]
                                    ELSE [s EXCEPT ![k].queue = Tail(@)]

\* Wrong variant: Bool_V counts.
Bool_V_Counts(s, k) == Up(s, k, s[k].Status + 1)

Bool_V(s, k) == Up(s, k, 1)

V(s, k) == Up(s, k, s[k].Status + 1)

\* Init_Semaphore: whoever was waiting is forgotten.
Init_Semaphore(s, k, v) == [s EXCEPT ![k] = [Status |-> v, queue |-> <<>>]]

\* The threads that V and Bool_V on the semaphores of K wake.
Woken(K) == {Head(sem[k].queue) : k \in {j \in K : sem[j].queue # <<>>}}

--------------------------------------------------------------------------------
(* The list of a process.                                                      *)

\* The cells found by following the links nx from c; a walk longer than the pool is cut.
Walk(nx, c) ==
    LET step[n \in 1..MAX_EVENT_NUMBER + 1] ==
          IF n = 1 THEN c ELSE IF step[n - 1] = NULL THEN NULL ELSE nx[step[n - 1]]
    IN  [n \in {m \in 1..MAX_EVENT_NUMBER + 1 : step[m] # NULL} |-> step[n]]

Mine(p) == Walk(next, Events_List[p])

\* searchevent_priv: the first cell of p with that name.
Search(p, e) ==
    LET found == {i \in DOMAIN Mine(p) : name[Mine(p)[i]] = e}
    IN  IF found = {} THEN NULL ELSE Mine(p)[CHOOSE i \in found : \A j \in found : i <= j]

--------------------------------------------------------------------------------
(* Calls.                                                                      *)

Call == [op : {"getevent", "clearevent", "wait"}, ev : Public \cup Private, to : {None}]
        \cup [op : {"setevent"}, ev : Public \cup Private, to : {None}]
        \cup [op : {"signal"}, ev : Private, to : Process]
        \cup [op : {"signal"}, ev : Public, to : {None}]

\* A thread in a call is told from one that is in none.
ASSUME CallAssumption == None \notin Call

\* clearevent of a private event keeps Events_Sem.
Clears(c) == c.op = "clearevent" /\ c.ev \in Private

\* The other calls that return with a mutex taken, or make a semaphore forget a
\* waiter: setevent of a private event that exists and wait for one that does not
\* keep the process's Events_Sem; clearevent of a public event lets the next getevent
\* reset its semaphore.
Leaves_Locked(t, c) ==
    LET p == task[t]
    IN  \/ c.op = "clearevent" /\ c.ev \in Public /\ sem[c.ev].queue # <<>>
        \/ c.op = "setevent" /\ c.ev \in Private /\ Search(p, c.ev) # NULL
        \/ c.op = "wait" /\ c.ev \in Private /\ Search(p, c.ev) = NULL

\* No client makes the calls of Clears and Leaves_Locked.
Careful == clients.careless \cap {"clears", "leaves_locked"} = {}

\* free_event_in_list is right for the first event of the process's list only.
Clears_Inside(t, c) ==
    /\ c.op = "clearevent" /\ c.ev \in Private
    /\ Search(task[t], c.ev) \notin {NULL, Events_List[task[t]]}

\* Where a call starts: getevent looks at the public events without the mutex
\* (its Bool_P is commented out), signal to a process takes that process's.
Start(c) == CASE c.op = "getevent" -> [do |-> "public"]
              [] c.op = "signal" /\ c.to # None -> [do |-> "P", on |-> c.to, then |-> "private"]
              [] OTHER -> [do |-> "P", on |-> Events_Sem, then |-> "public"]

\* The semaphore that c signals is not at the bound.
Bounded(c) ==
    LET k == IF c.ev \in Public THEN c.ev ELSE IF c.to = None THEN NULL ELSE Search(c.to, c.ev)
    IN  c.op = "signal" /\ k # NULL => sem[k].Status < MaxStatus

\* A thread calls events.c.
Enter(t) ==
    /\ kernel = None /\ call[t] = None
    /\ \E c \in Call :
          /\ "clears" \notin clients.careless => ~Clears(c)
          /\ "leaves_locked" \notin clients.careless => ~Leaves_Locked(t, c)
          /\ "clears_inside" \notin clients.careless => ~Clears_Inside(t, c)
          /\ c.ev \in clients.names[t] /\ Bounded(c)
          /\ call' = [call EXCEPT ![t] = c]
          /\ at' = [at EXCEPT ![t] = Start(c)]
    /\ kernel' = t
    /\ UNCHANGED <<clients, sem, asleep, owner, next, name, events_freelist, Events_List>>

\* P and Bool_P: goes on with the semaphore, or is suspended.
P(t) ==
    LET k == at[t].on
    IN  /\ kernel = t /\ at[t].do = "P"
        /\ at' = [at EXCEPT ![t] = [do |-> at[t].then]]
        /\ IF sem[k].Status > 0
           THEN /\ sem' = [sem EXCEPT ![k].Status = IF k \in Mutex THEN 0 ELSE @ - 1]
                /\ UNCHANGED <<kernel, asleep>>
           ELSE /\ sem' = [sem EXCEPT ![k].queue = Append(@, t)]
                /\ asleep' = asleep \cup {t}
                /\ kernel' = None
        /\ UNCHANGED <<call, owner, next, name, events_freelist, Events_List>>

\* A thread that has been woken in P gets the processor again.
Resume(t) ==
    /\ kernel = None /\ call[t] # None /\ t \notin asleep
    /\ kernel' = t
    /\ UNCHANGED <<clients, sem, call, at, asleep, owner, next, name, events_freelist, Events_List>>

Returns(t) ==
    /\ kernel' = None
    /\ call' = [call EXCEPT ![t] = None]
    /\ at' = [at EXCEPT ![t] = [do |-> "user"]]

\* The call of t goes on with P(k) and then with the step then.
GoesOn(t, k, then) ==
    /\ at' = [at EXCEPT ![t] = [do |-> "P", on |-> k, then |-> then]]
    /\ UNCHANGED <<kernel, call>>

\* The call of t goes on with the private events of its process.
LooksPrivate(t) ==
    /\ sem' = Bool_V(sem, Events_Sem)
    /\ asleep' = asleep \ Woken({Events_Sem})
    /\ GoesOn(t, task[t], "private")
    /\ UNCHANGED <<owner, next, name, events_freelist, Events_List>>

\* Thread t is about to execute the step do of a call of op.
In(t, op, do) == kernel = t /\ call[t].op = op /\ at[t].do = do

--------------------------------------------------------------------------------
(* The part of each call about the public events, with Events_Sem.             *)

\* Wrong variant: does not look whether the event is taken.
getevent_Steals(t) ==
    LET e == call[t].ev
    IN  /\ In(t, "getevent", "public")
        /\ IF e \in Private
           THEN LooksPrivate(t)
           ELSE /\ sem' = Bool_V(Init_Semaphore(sem, e, 0), Events_Sem)
                /\ owner' = [owner EXCEPT ![e] = task[t]]
                /\ asleep' = asleep \ Woken({Events_Sem})
                /\ Returns(t)
                /\ UNCHANGED <<next, name, events_freelist, Events_List>>

\* getevent of a public event takes it, if it is free, and resets its semaphore.
getevent(t) ==
    LET e == call[t].ev
    IN  /\ In(t, "getevent", "public")
        /\ IF e \in Private
           THEN LooksPrivate(t)
           ELSE /\ IF owner[e] # None
                   THEN sem' = Bool_V(sem, Events_Sem) /\ UNCHANGED owner
                   ELSE /\ sem' = Bool_V(Init_Semaphore(sem, e, 0), Events_Sem)
                        /\ owner' = [owner EXCEPT ![e] = task[t]]
                /\ asleep' = asleep \ Woken({Events_Sem})
                /\ Returns(t)
                /\ UNCHANGED <<next, name, events_freelist, Events_List>>

\* Wrong variant: the cell becomes the last of the free list.
free_event_in_list_DropsRest(p, e) ==
    LET c == Search(p, e)
        freed == IF c = Events_List[p] THEN c ELSE next[c]
    IN  IF c = NULL
        THEN UNCHANGED <<next, events_freelist, Events_List>>
        ELSE /\ Events_List' = [Events_List EXCEPT ![p] = IF c = @ THEN next[c] ELSE @]
             /\ next' = [next EXCEPT ![freed] = NULL]
             /\ events_freelist' = freed

\* free_event_in_list(e) for the process p.  The cell at the head of the list goes
\* to the free list.  For any other, base points to cursore itself: the cell after
\* it goes to the free list, and no link of the list changes but that cell's; after
\* the last there is none, and the kernel writes to address 0, which it has mapped.
free_event_in_list(p, e) ==
    LET c == Search(p, e)
        freed == IF c = Events_List[p] THEN c ELSE next[c]
    IN  IF c = NULL
        THEN UNCHANGED <<next, events_freelist, Events_List>>
        ELSE /\ Events_List' = [Events_List EXCEPT ![p] = IF c = @ THEN next[c] ELSE @]
             /\ next' = [next EXCEPT ![freed] = events_freelist]
             /\ events_freelist' = freed

\* clearevent: for a private event it returns without Bool_V(Events_Sem).
clearevent(t) ==
    LET e == call[t].ev
    IN  /\ In(t, "clearevent", "public")
        /\ IF e \in Private
           THEN free_event_in_list(task[t], e) /\ UNCHANGED <<sem, asleep, owner>>
           ELSE /\ owner' = [owner EXCEPT ![e] = IF @ = task[t] THEN None ELSE @]
                /\ sem' = Bool_V(sem, Events_Sem)
                /\ asleep' = asleep \ Woken({Events_Sem})
                /\ UNCHANGED <<next, events_freelist, Events_List>>
        /\ Returns(t)
        /\ UNCHANGED name

\* setevent: every public event is refused.
setevent(t) ==
    /\ In(t, "setevent", "public")
    /\ IF call[t].ev \in Private
       THEN LooksPrivate(t)
       ELSE /\ sem' = Bool_V(sem, Events_Sem)
            /\ asleep' = asleep \ Woken({Events_Sem})
            /\ Returns(t)
            /\ UNCHANGED <<owner, next, name, events_freelist, Events_List>>

\* signal(0, e): only the owner may signal a public event.
signal(t) ==
    LET e == call[t].ev
        mine == owner[e] = task[t]
    IN  /\ In(t, "signal", "public")
        /\ sem' = Bool_V(IF mine THEN V(sem, e) ELSE sem, Events_Sem)
        /\ asleep' = asleep \ Woken({Events_Sem} \cup (IF mine THEN {e} ELSE {}))
        /\ Returns(t)
        /\ UNCHANGED <<owner, next, name, events_freelist, Events_List>>

\* Wrong variant: waits for the event with Events_Sem taken.
wait_Locked(t) ==
    LET e == call[t].ev
    IN  /\ In(t, "wait", "public")
        /\ IF e \in Private
           THEN LooksPrivate(t)
           ELSE /\ IF owner[e] = task[t]
                   THEN GoesOn(t, e, "return") /\ UNCHANGED <<sem, asleep>>
                   ELSE /\ sem' = Bool_V(sem, Events_Sem)
                        /\ asleep' = asleep \ Woken({Events_Sem})
                        /\ Returns(t)
                /\ UNCHANGED <<owner, next, name, events_freelist, Events_List>>

\* wait: the owner of a public event waits on its semaphore, others are refused.
wait(t) ==
    LET e == call[t].ev
    IN  /\ In(t, "wait", "public")
        /\ IF e \in Private
           THEN LooksPrivate(t)
           ELSE /\ sem' = Bool_V(sem, Events_Sem)
                /\ asleep' = asleep \ Woken({Events_Sem})
                /\ IF owner[e] = task[t] THEN GoesOn(t, e, "return") ELSE Returns(t)
                /\ UNCHANGED <<owner, next, name, events_freelist, Events_List>>

--------------------------------------------------------------------------------
(* The part about the private events, with the Events_Sem of the process.      *)

\* Wrong variant: does not look for the name in the list first.
getevent_Twice(t) ==
    LET p == task[t]
        c == events_freelist
    IN  /\ In(t, "getevent", "private")
        /\ IF c = NULL
           THEN /\ sem' = Bool_V(sem, p)
                /\ UNCHANGED <<next, name, events_freelist, Events_List>>
           ELSE /\ events_freelist' = next[c]
                /\ next' = [next EXCEPT ![c] = Events_List[p]]
                /\ Events_List' = [Events_List EXCEPT ![p] = c]
                /\ name' = [name EXCEPT ![c] = call[t].ev]
                /\ sem' = Bool_V(Init_Semaphore(sem, c, 0), p)
        /\ asleep' = asleep \ Woken({p})
        /\ Returns(t)
        /\ UNCHANGED owner

\* getevent of a name the process does not have takes a cell, if there is one
\* (add_event_to_list), and puts it at the head of the list.
getevent_private(t) ==
    LET p == task[t]
        c == events_freelist
    IN  /\ In(t, "getevent", "private")
        /\ IF Search(p, call[t].ev) # NULL \/ c = NULL
           THEN /\ sem' = Bool_V(sem, p)
                /\ UNCHANGED <<next, name, events_freelist, Events_List>>
           ELSE /\ events_freelist' = next[c]
                /\ next' = [next EXCEPT ![c] = Events_List[p]]
                /\ Events_List' = [Events_List EXCEPT ![p] = c]
                /\ name' = [name EXCEPT ![c] = call[t].ev]
                /\ sem' = Bool_V(Init_Semaphore(sem, c, 0), p)
        /\ asleep' = asleep \ Woken({p})
        /\ Returns(t)
        /\ UNCHANGED owner

\* setevent of an event that exists sets its semaphore and calls Bool_V on
\* Events_Sem, not on the process's; a value greater than 1 is refused.
setevent_private(t) ==
    LET p == task[t]
        c == Search(p, call[t].ev)
    IN  /\ In(t, "setevent", "private")
        /\ \E valore \in 0..2 :
              IF c = NULL \/ valore > 1
              THEN sem' = Bool_V(sem, p) /\ asleep' = asleep \ Woken({p})
              ELSE /\ sem' = Bool_V(Init_Semaphore(sem, c, valore), Events_Sem)
                   /\ asleep' = asleep \ Woken({Events_Sem})
        /\ Returns(t)
        /\ UNCHANGED <<owner, next, name, events_freelist, Events_List>>

\* Wrong variant: no Bool_V when the event is not found.
signal_KeepsLock(t) ==
    LET q == call[t].to
        c == Search(q, call[t].ev)
    IN  /\ In(t, "signal", "private")
        /\ sem' = IF c = NULL THEN sem ELSE Bool_V(V(sem, c), q)
        /\ asleep' = IF c = NULL THEN asleep ELSE asleep \ Woken({q, c})
        /\ Returns(t)
        /\ UNCHANGED <<owner, next, name, events_freelist, Events_List>>

\* signal(pid, e): V on the event of that process, if it has it.
signal_private(t) ==
    LET q == call[t].to
        c == Search(q, call[t].ev)
    IN  /\ In(t, "signal", "private")
        /\ sem' = Bool_V(IF c = NULL THEN sem ELSE V(sem, c), q)
        /\ asleep' = asleep \ Woken({q} \cup ({c} \ {NULL}))
        /\ Returns(t)
        /\ UNCHANGED <<owner, next, name, events_freelist, Events_List>>

\* wait for a private event that does not exist returns without Bool_V.
wait_private(t) ==
    LET p == task[t]
        c == Search(p, call[t].ev)
    IN  /\ In(t, "wait", "private")
        /\ IF c = NULL
           THEN Returns(t) /\ UNCHANGED <<sem, asleep>>
           ELSE /\ sem' = Bool_V(sem, p)
                /\ asleep' = asleep \ Woken({p})
                /\ GoesOn(t, c, "return")
        /\ UNCHANGED <<owner, next, name, events_freelist, Events_List>>

\* The P of wait has returned.
wait_returns(t) ==
    /\ In(t, "wait", "return")
    /\ Returns(t)
    /\ UNCHANGED <<sem, asleep, owner, next, name, events_freelist, Events_List>>

\* The handler of an interrupt line calls V on the semaphore of its event.
IRQ(e) ==
    /\ kernel = None
    /\ sem[e].Status < MaxStatus
    /\ sem' = V(sem, e)
    /\ asleep' = asleep \ Woken({e})
    /\ UNCHANGED <<clients, kernel, call, at, owner, next, name, events_freelist, Events_List>>

--------------------------------------------------------------------------------
Proceed(t) ==
    /\ \/ P(t)
       \/ getevent(t) \/ clearevent(t) \/ setevent(t) \/ signal(t) \/ wait(t)
       \/ getevent_private(t) \/ setevent_private(t) \/ signal_private(t) \/ wait_private(t)
       \/ wait_returns(t)
    /\ UNCHANGED clients

Next == (\E t \in Thread : Enter(t) \/ Proceed(t) \/ Resume(t)) \/ (\E e \in Public : IRQ(e))

\* A call goes on without interruption until it returns or sleeps (only the thread
\* in the kernel can proceed), and the round robin gives the processor to whoever has
\* been woken, whatever the others do.
Fairness == WF_vars(\E t \in Thread : Proceed(t)) /\ \A t \in Thread : SF_vars(Resume(t))

Spec == Init /\ [][Next]_vars /\ Fairness

--------------------------------------------------------------------------------
(* Properties.                                                                 *)

\* Type invariant of the events, for careful clients: after the others a semaphore can
\* pass the bound.
EventsTypeOK ==
    Careful =>
    /\ \A k \in Key \ Mutex : sem[k].Status \in 0..MaxStatus
    /\ \A m \in Mutex : sem[m].Status \in {0, 1}
    /\ kernel \in Thread \cup {None}
    /\ asleep \in SUBSET Thread
    /\ owner \in [Public -> Process \cup {None}]
    /\ next \in [Cell \cup {NULL} -> Cell \cup {NULL}]
    /\ name \in [Cell -> Private \cup {None}]
    /\ events_freelist \in Cell \cup {NULL}
    /\ Events_List \in [Process -> Cell \cup {NULL}]

SleepsOn(t, k) == \E i \in 1..Len(sem[k].queue) : sem[k].queue[i] = t

\* No call of events.c that careful clients make ends, or goes to sleep on an event,
\* with a mutex taken.
MutexesFree == Careful /\ kernel = None => \A m \in Mutex : sem[m] = [Status |-> 1, queue |-> <<>>]

Times(c, q) == Cardinality({i \in 1..Len(q) : q[i] = c})

\* events.c on free_event_in_list: "This remove the requested event from the list",
\* "Add the event to the free list".  A cell is in the free list or in the list of
\* one process, once, and a process has no two events with the same name.  It holds for
\* clients that leave mutexes locked too, but not for those of Clears_Inside.
CellsAccounted ==
    /\ \A c \in Cell : \E l \in Process \cup {None} :
          \A k \in Process \cup {None} :
             Times(c, IF k = None THEN Walk(next, events_freelist) ELSE Mine(k)) = (IF k = l THEN 1 ELSE 0)
    /\ \A p \in Process : \A i, j \in 1..Len(Mine(p)) : name[Mine(p)[i]] = name[Mine(p)[j]] => i = j

\* A thread of careful clients suspended in wait sleeps on an event that its process
\* still has and that has the name it asked for, so that a signal or an interrupt can
\* wake it.
WaitersReachable ==
    Careful => \A t \in asleep :
       /\ \E k \in Key : SleepsOn(t, k)
       /\ \A e \in Public : SleepsOn(t, e) => owner[e] = task[t] /\ call[t].ev = e
       /\ \A c \in Cell : SleepsOn(t, c) => Search(task[t], call[t].ev) = c

\* A call of careful clients, other than a wait for something that has not happened,
\* returns.  events.c calls Events_Sem the "Semaphore for concurrent use of public events".
CallsReturn ==
    \A t \in Thread :
       Careful /\ call[t] # None ~> call[t] = None \/ \E k \in Public \cup Cell : SleepsOn(t, k)

================================================================================
