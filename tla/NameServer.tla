------------------------------- MODULE NameServer -------------------------------
(* The name server of OSSO, mps (drivers/mps.c, mps_struct.c, mps_boot.c), with    *)
(* init, which starts the modules of the boot image, and the libraries through     *)
(* which drivers register (lib/drv2mps.c) and programs ask for the pid of a driver *)
(* (lib/prg2mps.c). Mailboxes are those of the kernel: first in, first out, and    *)
(* whoever receives takes whatever comes first.                                    *)
(* mps handles a message in one step, since its tables are its own, but what the   *)
(* handler sends leaves one message at a time: others run in between.              *)
(* A name stands for a category and a name; mallosso finds memory and what it      *)
(* returns reads as zero. No instance is ever "loading", RunDriver() being empty.  *)
EXTENDS Integers, FiniteSets, SequencesExt

CONSTANTS
    Module,         \* the modules of the boot images, mps apart
    Driver,         \* those that register
    Name,           \* the names drivers register
    NameOf,         \* Driver -> its name
    Multi,          \* the drivers that say DRV_I_MULTI
    Asks,           \* Module -> the name it asks for before anything else, or NoName
    NoName,
    NoPid,          \* pid 0
    Waits,          \* the modules that ask with MPS_WAITRUN or MPS_WAITLOAD
    Images,         \* the boot images: modules in the order init starts them
    BootDrivers,    \* the drivers whose attribute has bit 2: mps must wait for them
    Failing,        \* the drivers that may exit before they register
    Notifying,      \* the drivers that exit by Exit(), which calls DriverExit()
    Areas,          \* what the uninitialised pointer of MyRealloc may be: usable or NULL
    MAX_BOOT_DRIVER_NUM,
    MAX_BOOT_WAIT_QUEUE,
    MAX_WAITQUEUE

ASSUME ModuleAssumption ==
    /\ Driver \subseteq Module /\ NoPid \notin Module
    /\ NameOf \in [Driver -> Name] /\ NoName \notin Name
    /\ Asks \in [Module -> Name \cup {NoName}]
    /\ Multi \subseteq Driver /\ BootDrivers \subseteq Driver
    /\ Failing \subseteq Driver /\ Notifying \subseteq Driver /\ Waits \subseteq Module
    /\ \A i \in Images : i \in Seq(Module) /\ IsInjective(i)
ASSUME BoundAssumption ==
    /\ MAX_BOOT_DRIVER_NUM \in Nat /\ MAX_BOOT_WAIT_QUEUE \in Nat
    /\ MAX_WAITQUEUE \in Nat /\ Areas \subseteq BOOLEAN /\ Areas # {}

VARIABLES
    image,      \* the boot image, which does not change
    started,    \* how many modules init has started
    announced,  \* ... and has dealt with, WAITFORDRIVER included; one more at the end
    pc,         \* Module -> where it is
    got,        \* Module -> the pid it was told, or NoPid
    mail,       \* Module -> its mailbox
    inbox,      \* the mailbox of mps
    out,        \* what the handler of mps has still to send
    instances,  \* Name -> the instances of the driver, in the order of the list
    is_multi,   \* the names whose first driver is DRV_I_MULTI
    waiting,    \* Name -> dr->waiting, dr->num_waiting long
    PidList,    \* the pids in the list
    TotPid,     \* has the list been allocated?
    BootDRV,    \* the drivers awaited: the entries of BootDRV[] that are not 0
    numBootDRV, \* the entries in use
    BootWaitQueue,
    BootInitFinished,
    BootRegisterFinished

init == <<image, started, announced>>
modules == <<pc, got, mail>>
registry == <<instances, is_multi, waiting, PidList, TotPid>>
boot == <<BootDRV, numBootDRV, BootWaitQueue, BootInitFinished, BootRegisterFinished>>
vars == <<init, modules, inbox, out, registry, boot>>

BootDRVremaining == Cardinality(BootDRV)

------------------------------------------------------------------------------
(* What mps sends *)

Reply(p, type, status, pid) ==
    [to |-> p, msg |-> [type |-> type, status |-> status, pid |-> pid]]
ReplyError(p, err) == Reply(p, "ERROR", err, NoPid)
Send_AskPid_Reply(p, d) ==
    Reply(p, "ASKPID_REPLY", IF d = NoPid THEN "DRVNOTFOUND" ELSE "NOERR", d)
Driver_Init_Reply(p) == Reply(p, "INIT_REPLY", "NOERR", NoPid)

------------------------------------------------------------------------------
(* A program asks *)

\* An instance that can be given away: one of a mono driver always can.
Usable(n) ==
    {i \in DOMAIN instances[n] : ~(n \in is_multi /\ instances[n][i].in_use)}

FirstOf(S) == CHOOSE i \in S : \A j \in S : i <= j

\* FindDriverPid() takes the first that is usable and marks it.
FindDriverPid(p, n) ==
    /\ Usable(n) # {}
    /\ LET i == FirstOf(Usable(n))
       IN /\ instances' = [instances EXCEPT ![n][i].in_use = TRUE]
          /\ out' = <<Send_AskPid_Reply(p, instances[n][i].pid)>>
    /\ UNCHANGED <<is_multi, waiting, PidList, TotPid, boot>>

\* The boot queue takes the client while the boot phase lasts and there is room.
Boot_WaitForDriver(p, n) ==
    /\ ~BootRegisterFinished
    /\ Len(BootWaitQueue) < MAX_BOOT_WAIT_QUEUE
    /\ BootWaitQueue' = Append(BootWaitQueue, [pid |-> p, name |-> n])
    /\ out' = <<>>
    /\ UNCHANGED <<registry, BootDRV, numBootDRV, BootInitFinished, BootRegisterFinished>>

NotFound(p) ==
    /\ out' = <<ReplyError(p, "DRVNOTFOUND")>>
    /\ UNCHANGED <<registry, boot>>

Program_AskPid(p) ==
    LET n == Asks[p]
    IN \/ FindDriverPid(p, n)
       \/ /\ Usable(n) = {} /\ p \in Waits
          /\ Boot_WaitForDriver(p, n)
       \/ /\ Usable(n) = {}
          /\ p \notin Waits \/ BootRegisterFinished
                            \/ Len(BootWaitQueue) = MAX_BOOT_WAIT_QUEUE
          /\ NotFound(p)

------------------------------------------------------------------------------
(* A driver registers *)

\* Wrong variant: the entry moved into the gap is not looked at.
UnlockTurn_Skips(s, n, room) ==
    IF s.c > Len(s.queue) THEN s
    ELSE IF s.queue[s.c].name # n THEN [s EXCEPT !.c = @ + 1]
    ELSE IF Len(s.moved) = room THEN [s EXCEPT !.c = Len(s.queue) + 1]
    ELSE [queue |-> Front([s.queue EXCEPT ![s.c] = Last(s.queue)]),
          c     |-> s.c + 1,
          moved |-> Append(s.moved, s.queue[s.c].pid)]

\* One turn of the loops of Boot_UnlockWaitingProc(): a waiter for n goes to the queue
\* of the driver and the last of the boot queue takes its place, to be looked at next.
UnlockTurn(s, n, room) ==
    IF s.c > Len(s.queue) THEN s
    ELSE IF s.queue[s.c].name # n THEN [s EXCEPT !.c = @ + 1]
    ELSE IF Len(s.moved) = room THEN [s EXCEPT !.c = Len(s.queue) + 1]
    ELSE [queue |-> Front([s.queue EXCEPT ![s.c] = Last(s.queue)]),
          c     |-> s.c,
          moved |-> Append(s.moved, s.queue[s.c].pid)]

Boot_UnlockWaitingProc(queue, n, room) ==
    LET turn[k \in 0 .. Len(queue)] ==
            IF k = 0 THEN [queue |-> queue, c |-> 1, moved |-> <<>>]
            ELSE UnlockTurn(turn[k - 1], n, room)
    IN turn[Len(queue)]

\* Wrong variant: the last of the queue is forgotten.
CloseReplies_ButLast(queue) ==
    [i \in 1 .. Len(queue) - 1 |-> Send_AskPid_Reply(queue[i].pid, NoPid)]

\* Boot_CloseBootPhase(): the queue is told that there is no such driver, and the
\* queues of all the drivers are emptied.
CloseReplies(queue) == [i \in DOMAIN queue |-> Send_AskPid_Reply(queue[i].pid, NoPid)]

AddPid(p) ==
    \/ /\ TotPid
       /\ PidList' = PidList \cup {p} /\ UNCHANGED TotPid
    \/ /\ ~TotPid
       /\ \E usable \in Areas :
             /\ TotPid' = usable
             /\ PidList' = IF usable THEN PidList \cup {p} ELSE PidList

\* Whom a new instance is given to: the first who waits, or all if the driver is mono.
Served(p, w) == IF p \in Multi THEN SubSeq(w, 1, IF w = <<>> THEN 0 ELSE 1) ELSE w
Unserved(p, w) == IF p \in Multi /\ w # <<>> THEN Tail(w) ELSE <<>>

\* Wrong variant: the driver gets its reply after its clients got theirs.
InstallOrder_ReplyLast(sent, p, w) ==
    sent \o [i \in DOMAIN Served(p, w) |-> Send_AskPid_Reply(Served(p, w)[i], p)]
         \o <<Driver_Init_Reply(p)>>

\* The registration proper, w the queue of the driver at the end, sent what closing
\* the boot phase has sent, emptied the queues of the other drivers.
InstallOrder(sent, p, w) ==
    sent \o <<Driver_Init_Reply(p)>>
         \o [i \in DOMAIN Served(p, w) |-> Send_AskPid_Reply(Served(p, w)[i], p)]
\* Wrong variant: an instance given to a waiting client is still free.
Install_NotInUse(p, w, sent, emptied) ==
    LET n == NameOf[p]
    IN /\ instances' = [instances EXCEPT ![n] = Append(@, [pid |-> p, in_use |-> FALSE])]
       /\ is_multi' = IF p \in Multi THEN is_multi \cup {n} ELSE is_multi
       /\ AddPid(p)
       /\ waiting' = [emptied EXCEPT ![n] = Unserved(p, w)]
       /\ out' = InstallOrder(sent, p, w)

Install(p, w, sent, emptied) ==
    LET n == NameOf[p]
    IN /\ instances' = [instances EXCEPT
                           ![n] = Append(@, [pid |-> p, in_use |-> w # <<>>])]
       /\ is_multi' = IF p \in Multi THEN is_multi \cup {n} ELSE is_multi
       /\ AddPid(p)
       /\ waiting' = [emptied EXCEPT ![n] = Unserved(p, w)]
       /\ out' = InstallOrder(sent, p, w)

\* Wrong variant: the last awaited driver does not end the boot phase.
RegisterAtBoot_NeverCloses(p) ==
    LET n == NameOf[p]
        u == Boot_UnlockWaitingProc(BootWaitQueue, n, MAX_WAITQUEUE - Len(waiting[n]))
    IN /\ ~BootRegisterFinished
       /\ BootDRV' = BootDRV \ {p}
       /\ BootWaitQueue' = u.queue
       /\ Install(p, waiting[n] \o u.moved, <<>>, waiting)
       /\ UNCHANGED <<numBootDRV, BootInitFinished, BootRegisterFinished>>

\* AddNewDriver() with Boot_RegisterDriver() while the boot phase lasts.
RegisterAtBoot(p) ==
    LET n == NameOf[p]
        u == Boot_UnlockWaitingProc(BootWaitQueue, n, MAX_WAITQUEUE - Len(waiting[n]))
        w == waiting[n] \o u.moved
    IN /\ ~BootRegisterFinished
       /\ BootDRV' = BootDRV \ {p}
       /\ \/ /\ BootInitFinished /\ BootDRV' = {}
             /\ BootWaitQueue' = <<>>
             /\ BootRegisterFinished' = TRUE
             /\ Install(p, w, CloseReplies(u.queue), [m \in Name |-> <<>>])
          \/ /\ ~(BootInitFinished /\ BootDRV' = {})
             /\ BootWaitQueue' = u.queue
             /\ UNCHANGED BootRegisterFinished
             /\ Install(p, w, <<>>, waiting)
       /\ UNCHANGED <<numBootDRV, BootInitFinished>>

RegisterLater(p) ==
    /\ BootRegisterFinished
    /\ Install(p, waiting[NameOf[p]], <<>>, waiting)
    /\ UNCHANGED boot

\* Driver_Init(). A driver whose name is taken by drivers of the other kind gets no
\* answer: AddNewDriver() returns 0 before it sends one.
Driver_Init(p) ==
    LET n == NameOf[p]
        present == instances[n] # <<>>
        compatible == (n \in is_multi) = (p \in Multi)
    IN \/ /\ present /\ ~compatible
          /\ out' = <<>> /\ UNCHANGED <<registry, boot>>
       \/ /\ present /\ compatible /\ p \notin Multi
          /\ out' = <<ReplyError(p, "DRVPRESENT")>>
          /\ UNCHANGED <<registry, boot>>
       \/ /\ ~present \/ (compatible /\ p \in Multi)
          /\ RegisterAtBoot(p) \/ RegisterLater(p)

\* Driver_Term(): the drivers that exit have not registered.
Driver_Term(p) ==
    /\ out' = <<ReplyError(p, "DRVNOTPRESENT")>>
    /\ UNCHANGED <<registry, boot>>

------------------------------------------------------------------------------
(* Init tells mps how the boot goes *)

Boot_AddDriver(p) ==
    /\ IF BootRegisterFinished \/ p \in PidList \/ numBootDRV = MAX_BOOT_DRIVER_NUM
       THEN UNCHANGED <<BootDRV, numBootDRV>>
       ELSE /\ BootDRV' = BootDRV \cup {p}
            /\ numBootDRV' = numBootDRV + 1
    /\ out' = <<>>
    /\ UNCHANGED <<registry, BootWaitQueue, BootInitFinished, BootRegisterFinished>>

Boot_Complete ==
    /\ BootInitFinished' = TRUE
    /\ \/ /\ BootDRVremaining = 0
          /\ BootRegisterFinished' = TRUE
          /\ BootWaitQueue' = <<>>
          /\ out' = CloseReplies(BootWaitQueue)
          /\ waiting' = [n \in Name |-> <<>>]
       \/ /\ BootDRVremaining # 0
          /\ out' = <<>>
          /\ UNCHANGED <<BootRegisterFinished, BootWaitQueue, waiting>>
    /\ UNCHANGED <<instances, is_multi, PidList, TotPid, BootDRV, numBootDRV>>

\* mps receives a message once it has sent what the one before asked for.
Handle ==
    /\ out = <<>> /\ inbox # <<>>
    /\ inbox' = Tail(inbox)
    /\ LET m == Head(inbox)
       IN \/ m.type = "ASKPID" /\ Program_AskPid(m.from)
          \/ m.type = "INIT" /\ Driver_Init(m.from)
          \/ m.type = "TERM" /\ Driver_Term(m.from)
          \/ m.type = "WAITFORDRIVER" /\ Boot_AddDriver(m.from)
          \/ m.type = "INIT_COMPLETE" /\ Boot_Complete
    /\ UNCHANGED <<init, modules>>

\* A send_msg() of a handler; the dead receive nothing.
Send ==
    /\ out # <<>>
    /\ out' = Tail(out)
    /\ mail' = [mail EXCEPT ![Head(out).to] =
                   IF pc[Head(out).to] = "exited" THEN @ ELSE Append(@, Head(out).msg)]
    /\ UNCHANGED <<init, pc, got, inbox, registry, boot>>

------------------------------------------------------------------------------
(* Modules *)

ToMPS(type, p) == inbox' = Append(inbox, [type |-> type, from |-> p])

\* What a module does first: it asks for a driver, registers, or works.
Asking(p) == IF Asks[p] # NoName THEN "ask" ELSE IF p \in Driver THEN "register" ELSE "done"
Afterwards(p) == IF p \in Driver THEN "register" ELSE "done"

\* RunModules(): the next module is created, let run and sent START ...
StartModule ==
    /\ started = announced /\ started < Len(image)
    /\ started' = started + 1
    /\ announced' = IF image[started'] \in BootDrivers THEN announced ELSE started'
    /\ pc' = [pc EXCEPT ![image[started']] = Asking(image[started'])]
    /\ UNCHANGED <<image, got, mail, inbox, out, registry, boot>>

\* ... and only then mps is told to wait for it.
Announce ==
    /\ started > announced
    /\ announced' = started
    /\ ToMPS("WAITFORDRIVER", image[started])
    /\ UNCHANGED <<image, started, modules, out, registry, boot>>

Complete ==
    /\ announced = Len(image) /\ started = Len(image)
    /\ announced' = Len(image) + 1
    /\ ToMPS("INIT_COMPLETE", NoPid)
    /\ UNCHANGED <<image, started, modules, out, registry, boot>>

\* GetDriverPid() asks ...
Ask(p) ==
    /\ pc[p] = "ask"
    /\ ToMPS("ASKPID", p)
    /\ pc' = [pc EXCEPT ![p] = "asked"]
    /\ UNCHANGED <<init, got, mail, out, registry, boot>>

\* ... and waits for whatever message comes. With the pid, a request goes to the
\* driver, if it lives; without, a driver exits.
Answered(p) ==
    /\ pc[p] = "asked" /\ mail[p] # <<>>
    /\ LET m == Head(mail[p])
           taken == [mail EXCEPT ![p] = Tail(@)]
       IN \/ /\ m.status = "NOERR" /\ m.type = "ASKPID_REPLY"
             /\ got' = [got EXCEPT ![p] = m.pid]
             /\ pc' = [pc EXCEPT ![p] = Afterwards(p)]
             /\ mail' = IF pc[m.pid] = "exited" THEN taken
                        ELSE [taken EXCEPT ![m.pid] = Append(@,
                                 [type |-> "REQUEST", status |-> "NOERR", pid |-> p])]
          \/ /\ m.status # "NOERR" \/ m.type # "ASKPID_REPLY"
             /\ pc' = [pc EXCEPT ![p] = IF p \in Driver THEN "exited" ELSE "done"]
             /\ mail' = taken
             /\ UNCHANGED got
    /\ UNCHANGED <<init, inbox, out, registry, boot>>

\* A driver finds that its device is not there, or that vfs refuses it.
Fail(p) ==
    /\ p \in Failing /\ pc[p] = "register"
    /\ pc' = [pc EXCEPT ![p] = "exited"]
    /\ IF p \in Notifying THEN ToMPS("TERM", p) ELSE UNCHANGED inbox
    /\ UNCHANGED <<init, got, mail, out, registry, boot>>

DriverStart(p) ==
    /\ p \in Driver /\ pc[p] = "register"
    /\ pc' = [pc EXCEPT ![p] = "starting"]
    /\ ToMPS("INIT", p)
    /\ UNCHANGED <<init, got, mail, out, registry, boot>>

DriverStarted(p) ==
    /\ pc[p] = "starting" /\ mail[p] # <<>>
    /\ mail' = [mail EXCEPT ![p] = Tail(@)]
    /\ LET m == Head(mail[p])
           ok == m.status = "NOERR" /\ m.type = "INIT_REPLY"
       IN /\ pc' = [pc EXCEPT ![p] = IF ok THEN "serving" ELSE "exited"]
          /\ IF ~ok /\ p \in Notifying THEN ToMPS("TERM", p) ELSE UNCHANGED inbox
    /\ UNCHANGED <<init, got, out, registry, boot>>

Run(p) ==
    \/ Ask(p) \/ Answered(p)
    \/ Fail(p) \/ DriverStart(p) \/ DriverStarted(p)

------------------------------------------------------------------------------
Init ==
    /\ image \in Images
    /\ started = 0 /\ announced = 0
    /\ pc = [p \in Module |-> "off"]
    /\ got = [p \in Module |-> NoPid]
    /\ mail = [p \in Module |-> <<>>]
    /\ inbox = <<>> /\ out = <<>>
    /\ instances = [n \in Name |-> <<>>]
    /\ is_multi = {}
    /\ waiting = [n \in Name |-> <<>>]
    /\ PidList = {} /\ TotPid = FALSE
    /\ BootDRV = {} /\ numBootDRV = 0
    /\ BootWaitQueue = <<>>
    /\ BootInitFinished = FALSE /\ BootRegisterFinished = FALSE

RunModules == StartModule \/ Announce \/ Complete
MPS == Handle \/ Send

Next == RunModules \/ MPS \/ \E p \in Module : Run(p)

\* The kernel gives every ready process its turn (ReadyRuns of ThreadSched).
Spec ==
    /\ Init /\ [][Next]_vars
    /\ WF_vars(RunModules) /\ WF_vars(MPS)
    /\ \A p \in Module : WF_vars(Run(p))

------------------------------------------------------------------------------
(* Properties *)

\* The places where the question of p, or the answer to it, is.
Places(p) ==
    LET In(s, Test(_)) == Cardinality({i \in DOMAIN s : Test(s[i])})
    IN In(inbox, LAMBDA m : m.type = "ASKPID" /\ m.from = p)
       + In(BootWaitQueue, LAMBDA e : e.pid = p)
       + In(waiting[Asks[p]], LAMBDA e : e = p)
       + In(out, LAMBDA r : r.to = p)
       + Len(mail[p])

\* Program_AskPid and the queues of AddNewDriver, Boot_UnlockWaitingProc and
\* Boot_CloseBootPhase neither lose nor answer twice a question: as long as a program
\* waits in GetDriverPid, its question or its answer is in exactly one place. The
\* exception: those left in the queue of a multi-instance driver when the boot phase
\* closes, whom CloseBootPhase drops.
NoClientLost ==
    \A p \in Module : pc[p] = "asked" =>
        \/ Places(p) = 1
        \/ Places(p) = 0 /\ BootRegisterFinished /\ Asks[p] \in is_multi

\* Told there is no driver, by ReplyError or at the end of the boot phase.
ToldNotFound(p) ==
    \E r \in Range(out) : r.to = p /\ r.msg.status = "DRVNOTFOUND"

\* Who asks with MPS_WAITRUN is told that there is no driver only when the boot phase
\* is over or its queue is full, and never while an instance it could have is
\* registered: nobody is left behind in the boot queue by Boot_UnlockWaitingProc.
NotFoundIsTrue ==
    \A p \in Waits : ToldNotFound(p) =>
        /\ BootRegisterFinished \/ Len(BootWaitQueue) = MAX_BOOT_WAIT_QUEUE
        /\ Usable(Asks[p]) = {}

\* The programs that have been told the pid of d, or are about to be.
ToldOf(d) ==
    {p \in Module : \/ got[p] = d
                    \/ pc[p] = "asked" /\ \E m \in Range(mail[p]) : m.pid = d
                    \/ \E r \in Range(out) : r.to = p /\ r.msg.pid = d}

\* An instance of a multi-instance driver belongs to one program: FindDriverPid never
\* gives it to a second one, even when AddNewDriver gave it away from the queue.
OneClientPerInstance ==
    \A d \in Multi : Cardinality(ToldOf(d)) <= 1

\* DriverStart takes the first message it receives for the answer of mps. It is: no
\* program learns the pid of a driver, and can write to it, before the answer to the
\* driver is in its mailbox.
AnswerComesFirst ==
    \A d \in Driver : pc[d] = "starting" /\ mail[d] # <<>> => Head(mail[d]).type # "REQUEST"

\* A boot driver that mps awaits in vain: it exited before it registered, registered
\* before WAITFORDRIVER came while the list of pids was not there to tell, or gets no
\* answer because its name is taken by drivers of the other kind.
BootBlocked ==
    \E d \in BootDRV :
        \/ pc[d] \in {"exited", "serving"}
        \/ pc[d] = "starting" /\ instances[NameOf[d]] # <<>>
                              /\ (NameOf[d] \in is_multi) # (d \in Multi)

\* Who asks for a driver that gets registered, or with a boot phase that can end, is
\* answered in the end, whatever the order in which questions, registrations and the
\* messages of init reach mps. Left out are the askers of a multi-instance driver.
ClientsAnswered ==
    \A p \in Module :
        pc[p] = "asked" ~>
            \/ pc[p] # "asked"
            \/ Asks[p] \in is_multi
            \/ BootBlocked /\ instances[Asks[p]] = <<>>
================================================================================
