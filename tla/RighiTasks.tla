------------------------------- MODULE RighiTasks -------------------------------
(* Tasks, scheduler and semaphores of minirighi32 (os/kernel/sched.c, task.c,      *)
(* semaphore.c, kpagerd.c), which switches tasks at every clock tick, in kernel    *)
(* code too: system calls and IRQs go through trap gates that leave interrupts on. *)
(* What runs between spin_lock_irqsave and its restore, or between                 *)
(* sched_enter_critical_region and sched_leave_critical_region, is one step; all   *)
(* else can be interrupted between steps, and pc tells where.                      *)
(* One semaphore stands for the mutexes of the kernel; it starts unlocked.         *)
(* set_task_state() is one step: what an interrupt finds between the state and the *)
(* flag it finds again once the flag is set.                                       *)
EXTENDS Integers, FiniteSets, SequencesExt

CONSTANTS
    Task,           \* The task structures there can be
    Idle,           \* idle_task, which is the task of k_main()
    Kpagd,          \* kpagd, which frees the dead
    Shells,         \* the threads that k_main() creates after kpagd
    NoTask,         \* NULL
    Levels,         \* the priority of every task is minus this: 16
    Program,        \* Task -> the calls it makes
    Allocates,      \* does memory last for a new task? {TRUE}, or FALSE too
    KillWaiters     \* may a task in the queue of a semaphore be killed?

ASSUME TaskAssumption ==
    /\ IsFiniteSet(Task)
    /\ Idle \in Task /\ Kpagd \in Task \ {Idle}
    /\ Shells \subseteq Task \ {Idle, Kpagd}
    /\ NoTask \notin Task
    /\ Allocates \subseteq BOOLEAN
    /\ Program \in [Task -> SUBSET {"DOWN", "create", "fork", "waitpid", "kill", "exit"}]
ASSUME PriorityAssumption == Levels \in Nat \ {0}

VARIABLES
    state,      \* Task -> state of the task, "none" before it is created and once freed
    born,       \* the tasks created so far
    process,    \* the tasks that are processes; the others are threads
    freed,      \* the tasks whose structure kpagerd has freed
    father,     \* Task -> the task that created it, or NULL
    ready,      \* the three queues, from the head
    wait,
    zombie,
    counter,    \* Task -> dynamic priority: the lowest runs
    curr,       \* curr_task
    refresh,    \* refresh_queues_flag
    pc,         \* Task -> where it is
    child,      \* Task -> the task waitpid() waits for, NULL: any
    reaping,    \* the task kpagerd has picked
    holds,      \* Task -> is it between DOWN and UP?
    count,      \* the semaphore
    sleepers,
    waitq

tasks == <<state, born, process, freed, father, child, reaping>>
queues == <<ready, wait, zombie, counter, curr, refresh>>
sem == <<count, sleepers, waitq>>
vars == <<tasks, queues, pc, holds, sem>>

HIGH_PRIORITY == -Levels

States == {"none", "READY", "WAIT", "ZOMBIE"}

(* Where a call goes on when its schedule() returns.                               *)
After ==
    [ down |-> "down_retry", waitpid |-> "waitpid", pager |-> "pick",
      idle |-> "idle", create |-> "run", boot |-> "boot", dead |-> "spin" ]

(* Sleeping is two steps: the state is set, then schedule() is called.             *)
SleepPc ==
    [ down |-> "sleep_down", waitpid |-> "sleep_waitpid", pager |-> "sleep_pager",
      idle |-> "sleep_idle" ]
SchedPc ==
    [ down |-> "sched_down", waitpid |-> "sched_waitpid", pager |-> "sched_pager",
      idle |-> "sched_idle", create |-> "sched_create", boot |-> "sched_boot",
      dead |-> "sched_dead" ]
PCs == {"none", "run", "boot", "idle", "pick", "reap", "waitpid", "spin",
        "down_failed", "down_retry", "up_wakeup"}
       \cup {SleepPc[c] : c \in DOMAIN SleepPc} \cup {SchedPc[c] : c \in DOMAIN SchedPc}

(* The running task is in code of its own and makes the call c.                    *)
Running(c) == pc[curr] = "run" /\ c \in Program[curr]

-----------------------------------------------------------------------------
(* The scheduler *)

Queues == [ready |-> ready, wait |-> wait, zombie |-> zombie,
           state |-> state, counter |-> counter]

(* One entry of the ready queue: it goes where its state says. A zombie wakes kpagd.*)
RefreshReady(q, p) ==
    CASE q.state[p] = "WAIT" ->
            [q EXCEPT !.ready = RemoveFirst(@, p), !.wait = Append(@, p)]
      [] q.state[p] = "ZOMBIE" ->
            [q EXCEPT !.ready = RemoveFirst(@, p), !.zombie = Append(@, p),
                      !.state[Kpagd] = "READY"]
      [] OTHER -> q

RefreshWait(q, p) ==
    CASE q.state[p] = "READY" ->
            [q EXCEPT !.wait = RemoveFirst(@, p), !.ready = Append(@, p),
                      !.counter[p] = 3 * HIGH_PRIORITY]
      [] q.state[p] = "ZOMBIE" ->
            [q EXCEPT !.wait = RemoveFirst(@, p), !.zombie = Append(@, p),
                      !.state[Kpagd] = "READY"]
      [] OTHER -> q

(* Both queues in turn, entry by entry. The flag is cleared last, although waking   *)
(* kpagd sets it.                                                                  *)
RefreshedReady ==
    LET turn[k \in 0 .. Len(ready)] ==
            IF k = 0 THEN Queues ELSE RefreshReady(turn[k - 1], ready[k])
    IN  turn[Len(ready)]

do_refresh_queues ==
    LET r == RefreshedReady
        turn[k \in 0 .. Len(r.wait)] ==
            IF k = 0 THEN r ELSE RefreshWait(turn[k - 1], r.wait[k])
    IN  turn[Len(r.wait)]

(* The first task of the ready queue with the lowest counter; the idle task if the  *)
(* queue is empty.                                                                 *)
IsNext(t, rq, c) ==
    IF rq = <<>> THEN t = Idle
    ELSE \E i \in DOMAIN rq :
            /\ t = rq[i]
            /\ \A j \in DOMAIN rq :
                  IF j < i THEN c[t] < c[rq[j]] ELSE c[t] <= c[rq[j]]

(* Wrong variant: a counter is lowered without limit.                                      *)
schedule_NoFloor ==
    LET q == IF refresh THEN do_refresh_queues ELSE Queues
        c == [q.counter EXCEPT ![curr] = HIGH_PRIORITY]
    IN  /\ ready' = q.ready /\ wait' = q.wait /\ zombie' = q.zombie
        /\ state' = q.state
        /\ refresh' = FALSE
        /\ \E t \in Task : IsNext(t, q.ready, c) /\ curr' = t
        /\ counter' = [t \in Task |-> IF t \in ToSet(q.ready) THEN c[t] - 1 ELSE c[t]]

(* schedule(), with scheduling enabled.                                            *)
schedule ==
    LET q == IF refresh THEN do_refresh_queues ELSE Queues
        c == [q.counter EXCEPT ![curr] = HIGH_PRIORITY]
    IN  /\ ready' = q.ready /\ wait' = q.wait /\ zombie' = q.zombie
        /\ state' = q.state
        /\ refresh' = FALSE
        /\ \E t \in Task : IsNext(t, q.ready, c) /\ curr' = t
        /\ counter' = [t \in Task |->
                         IF t \in ToSet(q.ready) /\ c[t] > 2 * HIGH_PRIORITY
                         THEN c[t] - 1 ELSE c[t]]

(* A clock tick: clock_handler() calls schedule().                                 *)
clock_handler ==
    /\ schedule
    /\ UNCHANGED <<born, process, freed, father, child, reaping, pc, holds, sem>>

(* The running task, in a call c, is past the setting of its state.                *)
Calls_schedule ==
    /\ \E c \in DOMAIN After :
        /\ pc[curr] = SchedPc[c]
        /\ pc' = [pc EXCEPT ![curr] = After[c]]
    /\ schedule
    /\ UNCHANGED <<born, process, freed, father, child, reaping, holds, sem>>

(* sleep_task(): the state is set, if it is not WAIT already.                      *)
sleep_task ==
    /\ \E c \in DOMAIN SleepPc :
        /\ pc[curr] = SleepPc[c]
        /\ pc' = [pc EXCEPT ![curr] = SchedPc[c]]
    /\ state' = [state EXCEPT ![curr] = "WAIT"]
    /\ refresh' = (refresh \/ state[curr] # "WAIT")
    /\ UNCHANGED <<born, process, freed, father, child, reaping, ready, wait, zombie,
                   counter, curr, holds, sem>>

(* wakeup_task(p) for p the head of a queue, if there is one. Waking a zombie that *)
(* no refresh has moved yet undoes its death.                                      *)
wakeup_head(q) ==
    IF q = <<>> \/ Head(q) \in freed THEN UNCHANGED <<state, refresh>>
    ELSE /\ state' = [state EXCEPT ![Head(q)] = "READY"]
         /\ refresh' = (refresh \/ state[Head(q)] # "READY")

-----------------------------------------------------------------------------
(* Semaphores *)

(* DOWN: the decrement, and the call of __down_failed() when it is below zero.     *)
DOWN ==
    /\ Running("DOWN") /\ ~holds[curr]
    /\ count' = count - 1
    /\ IF count' >= 0
       THEN /\ holds' = [holds EXCEPT ![curr] = TRUE]
            /\ UNCHANGED pc
       ELSE /\ pc' = [pc EXCEPT ![curr] = "down_failed"]
            /\ UNCHANGED holds
    /\ UNCHANGED <<tasks, queues, sleepers, waitq>>

(* Wrong variant: a task that retries adds all the sleepers, itself included.              *)
Try_AllSleepers(s, q) ==
    /\ count' = count + s
    /\ IF count' >= 0
       THEN /\ sleepers' = 0
            /\ waitq' = RemoveFirst(q, curr)
            /\ wakeup_head(RemoveFirst(q, curr))
            /\ holds' = [holds EXCEPT ![curr] = TRUE]
            /\ pc' = [pc EXCEPT ![curr] = "run"]
       ELSE /\ sleepers' = 1
            /\ waitq' = q
            /\ pc' = [pc EXCEPT ![curr] = SleepPc.down]
            /\ UNCHANGED <<state, refresh, holds>>
    /\ UNCHANGED <<born, process, freed, father, child, reaping, ready, wait, zombie,
                   counter, curr>>

(* The loop of __down_failed() from the taking of the lock to its release, for s   *)
(* sleepers and the wait queue q.                                                  *)
Try(s, q) ==
    /\ count' = count + s - 1
    /\ IF count' >= 0
       THEN /\ sleepers' = 0
            /\ waitq' = RemoveFirst(q, curr)
            /\ wakeup_head(RemoveFirst(q, curr))
            /\ holds' = [holds EXCEPT ![curr] = TRUE]
            /\ pc' = [pc EXCEPT ![curr] = "run"]
       ELSE /\ sleepers' = 1
            /\ waitq' = q
            /\ pc' = [pc EXCEPT ![curr] = SleepPc.down]
            /\ UNCHANGED <<state, refresh, holds>>
    /\ UNCHANGED <<born, process, freed, father, child, reaping, ready, wait, zombie,
                   counter, curr>>

down_failed == pc[curr] = "down_failed" /\ Try(sleepers + 1, Append(waitq, curr))
down_retry  == pc[curr] = "down_retry"  /\ Try(sleepers, waitq)

(* UP: the increment, and the call of __up_wakeup() when the result is not positive.*)
UP ==
    /\ Running("DOWN") /\ holds[curr]
    /\ count' = count + 1
    /\ holds' = [holds EXCEPT ![curr] = FALSE]
    /\ pc' = [pc EXCEPT ![curr] = IF count' <= 0 THEN "up_wakeup" ELSE "run"]
    /\ UNCHANGED <<tasks, queues, sleepers, waitq>>

up_wakeup ==
    /\ pc[curr] = "up_wakeup"
    /\ wakeup_head(waitq)
    /\ pc' = [pc EXCEPT ![curr] = "run"]
    /\ UNCHANGED <<born, process, freed, father, child, reaping, ready, wait, zombie,
                   counter, curr, holds, sem>>

-----------------------------------------------------------------------------
(* Life of a task *)

Queued == ToSet(ready) \cup ToSet(wait)     \* where kill() and waitpid() look

(* Wrong variant: the queues are swept once, and only children of the dead task die.       *)
Doomed_OneSweep(st) ==
    {t \in Queued \ process : father[t] # NoTask /\ st[father[t]] = "ZOMBIE"}

(* D has every queued thread whose father is a zombie of st or in D.               *)
Swept(st, D) ==
    \A t \in Queued \ process :
        father[t] # NoTask /\ (st[father[t]] = "ZOMBIE" \/ father[t] \in D) => t \in D

(* The threads that die with a task, through any number of generations: kill()     *)
(* sweeps the queues until it finds no more, so they are the smallest such set.    *)
Doomed(st) == {t \in Task : \A D \in SUBSET Task : Swept(st, D) => t \in D}

(* Wrong variant: the children of the dead keep their father.                              *)
kill_KeepsFather(p) ==
    LET found == p \in Queued
        st1   == IF found THEN [state EXCEPT ![p] = "ZOMBIE"] ELSE state
        woken == IF found /\ father[p] # NoTask
                 THEN [st1 EXCEPT ![father[p]] = "READY"] ELSE st1
        dead  == Doomed(woken)
        st    == [t \in Task |-> IF t \in dead THEN "ZOMBIE" ELSE woken[t]]
    IN  /\ (dead \cup {p}) \cap ToSet(waitq) = {} \/ KillWaiters
        /\ state' = st
        /\ refresh' = (refresh \/ found \/ dead # {})
        /\ pc' = [pc EXCEPT ![curr] =
                    IF st[curr] = "ZOMBIE" THEN SchedPc.dead ELSE @]
        /\ UNCHANGED <<born, process, freed, father, child, reaping, ready, wait, zombie,
                       counter, curr, holds, sem>>

(* kill(p), in its critical region. The caller goes on to schedule() if it has     *)
(* killed itself.                                                                  *)
kill(p) ==
    LET found == p \in Queued
        st1   == IF found THEN [state EXCEPT ![p] = "ZOMBIE"] ELSE state
        woken == IF found /\ father[p] # NoTask
                 THEN [st1 EXCEPT ![father[p]] = "READY"] ELSE st1
        dead  == Doomed(woken)
        st    == [t \in Task |-> IF t \in dead THEN "ZOMBIE" ELSE woken[t]]
    IN  /\ (dead \cup {p}) \cap ToSet(waitq) = {} \/ KillWaiters
        /\ state' = st
        /\ refresh' = (refresh \/ found \/ dead # {})
        /\ father' = [t \in Task |->
                        IF /\ t \in Queued
                           /\ father[t] # NoTask
                           /\ st[father[t]] = "ZOMBIE"
                        THEN NoTask ELSE father[t]]
        /\ pc' = [pc EXCEPT ![curr] =
                    IF st[curr] = "ZOMBIE" THEN SchedPc.dead ELSE @]
        /\ UNCHANGED <<born, process, freed, child, reaping, ready, wait, zombie, counter,
                       curr, holds, sem>>

(* A task kills another: the kill command, the network and serial drivers.         *)
Kill ==
    /\ Running("kill")
    /\ \E p \in born \ {curr, Idle, Kpagd} : kill(p)

(* auto_kill(): exit, or an exception.                                             *)
auto_kill == Running("exit") /\ kill(curr)

(* create_thread(), do_fork() or exec_file(): the new task leaves the zombie queue, *)
(* where it was put first, in the same critical region, and the caller then calls  *)
(* schedule(). If memory ends after the task structure, that is freed and is left  *)
(* in the zombie queue.                                                            *)
create(t, from, call) ==
    /\ pc[curr] = from
    /\ born' = born \cup {t}
    /\ \E ok \in Allocates :
        IF ok
        THEN /\ state' = [state EXCEPT ![t] = "READY"]
             /\ father' = [father EXCEPT ![t] = curr]
             /\ ready' = Append(ready, t)
             /\ counter' = [counter EXCEPT ![t] = HIGH_PRIORITY]
             /\ pc' = [pc EXCEPT ![curr] = call, ![t] = "run"]
             /\ UNCHANGED <<zombie, freed>>
        ELSE /\ zombie' = Append(zombie, t)
             /\ freed' = freed \cup {t}
             /\ UNCHANGED <<state, father, ready, counter, pc>>
    /\ UNCHANGED <<child, reaping, wait, curr, refresh, holds, sem>>

create_thread ==
    /\ Running("create")
    /\ \E t \in Task \ (born \cup Shells) : create(t, "run", "sched_create")
    /\ UNCHANGED process

do_fork ==
    /\ Running("fork")
    /\ \E t \in Task \ (born \cup Shells) :
        /\ create(t, "run", "sched_create")
        /\ process' = process \cup {t}

(* k_main() creates the shells and becomes the idle task.                          *)
k_main ==
    /\ \E t \in Shells \ born : create(t, "boot", "sched_boot")
    /\ UNCHANGED process

init_done ==
    /\ \/ pc[curr] = "boot" /\ Shells \subseteq born
       \/ pc[curr] = "idle"
    /\ pc' = [pc EXCEPT ![curr] = SleepPc.idle]
    /\ UNCHANGED <<tasks, queues, holds, sem>>

(* waitpid(): for a child or, with NULL, for any. What it finds first in the       *)
(* queues it waits for, until it finds it no more.                                 *)
WaitsFor(t, c) == {p \in Queued : father[p] = t /\ c \in {NoTask, p}}
FirstFound(t, c) ==
    LET all == ready \o wait
    IN  all[SelectInSeq(all, LAMBDA p : p \in WaitsFor(t, c))]

waitpid(c) ==
    /\ IF WaitsFor(curr, c) = {}
       THEN /\ pc' = [pc EXCEPT ![curr] = "run"]
            /\ child' = [child EXCEPT ![curr] = NoTask]
       ELSE /\ pc' = [pc EXCEPT ![curr] = SleepPc.waitpid]
            /\ child' = [child EXCEPT ![curr] = FirstFound(curr, c)]
    /\ UNCHANGED <<state, born, process, freed, father, reaping, queues, holds, sem>>

Waitpid ==
    \/ /\ Running("waitpid")
       /\ \E c \in (born \cup {NoTask}) \ {curr} : waitpid(c)
    \/ /\ pc[curr] = "waitpid"
       /\ waitpid(child[curr])

-----------------------------------------------------------------------------
(* kpagerd() *)

(* pick_queue() moves the head of the queue on and leaves the task in it.          *)
pick ==
    /\ pc[curr] = "pick"
    /\ IF zombie = <<>>
       THEN /\ pc' = [pc EXCEPT ![curr] = SleepPc.pager]
            /\ UNCHANGED <<reaping, zombie>>
       ELSE /\ reaping' = Head(zombie)
            /\ zombie' = Append(Tail(zombie), Head(zombie))
            /\ pc' = [pc EXCEPT ![curr] = "reap"]
    /\ UNCHANGED <<state, born, process, freed, father, child, ready, wait, counter, curr,
                   refresh, holds, sem>>

(* Wrong variant: pick_queue() is taken to remove the task, and rem_queue() is left out.   *)
reap_NotRemoved ==
    /\ pc[curr] = "reap"
    /\ freed' = freed \cup {reaping}
    /\ reaping' = NoTask
    /\ state' = [state EXCEPT ![reaping] = "none"]
    /\ counter' = [counter EXCEPT ![reaping] = HIGH_PRIORITY]
    /\ pc' = [pc EXCEPT ![curr] = "pick"]
    /\ UNCHANGED <<born, process, father, child, ready, wait, zombie, curr, refresh,
                   holds, sem>>

(* The stack of a thread goes back to its father, the rest is freed.               *)
reap ==
    /\ pc[curr] = "reap"
    /\ zombie' = RemoveFirst(zombie, reaping)
    /\ freed' = freed \cup {reaping}
    /\ reaping' = NoTask
    /\ state' = [state EXCEPT ![reaping] = "none"]
    /\ counter' = [counter EXCEPT ![reaping] = HIGH_PRIORITY]
    /\ pc' = [pc EXCEPT ![curr] = "pick"]
    /\ UNCHANGED <<born, process, father, child, ready, wait, curr, refresh,
                   holds, sem>>

-----------------------------------------------------------------------------
(* k_main() has just created kpagd.                                                *)
Init ==
    /\ state = [t \in Task |-> IF t \in {Idle, Kpagd} THEN "READY" ELSE "none"]
    /\ born = {Idle, Kpagd} /\ process = {Idle} /\ freed = {}
    /\ father = [t \in Task |-> IF t = Kpagd THEN Idle ELSE NoTask]
    /\ ready = <<Idle, Kpagd>> /\ wait = <<>> /\ zombie = <<>>
    /\ counter = [t \in Task |-> HIGH_PRIORITY]
    /\ curr = Idle
    /\ refresh = FALSE
    /\ pc = [t \in Task |-> CASE t = Idle -> "boot" [] t = Kpagd -> "pick"
                              [] OTHER -> "none"]
    /\ child = [t \in Task |-> NoTask]
    /\ reaping = NoTask
    /\ holds = [t \in Task |-> FALSE]
    /\ count = 1 /\ sleepers = 0 /\ waitq = <<>>

Next ==
    \/ clock_handler \/ Calls_schedule \/ sleep_task
    \/ DOWN \/ down_failed \/ down_retry \/ UP \/ up_wakeup
    \/ Kill \/ auto_kill \/ create_thread \/ do_fork \/ Waitpid
    \/ k_main \/ init_done \/ pick \/ reap

Spec == Init /\ [][Next]_vars
-----------------------------------------------------------------------------
(* Type invariant. The dynamic priorities, which schedule() lowers at each tick     *)
(* and do_refresh_queues() sets low at a wakeup, stay within three times the        *)
(* highest priority, and sleepers stays 0 or 1.                                    *)
TypeOK ==
    /\ state \in [Task -> States]
    /\ born \subseteq Task /\ process \subseteq born /\ freed \subseteq born
    /\ father \in [Task -> Task \cup {NoTask}]
    /\ ready \in Seq(Task) /\ wait \in Seq(Task) /\ zombie \in Seq(Task)
    /\ counter \in [Task -> 3 * HIGH_PRIORITY .. HIGH_PRIORITY]
    /\ curr \in Task
    /\ refresh \in BOOLEAN
    /\ pc \in [Task -> PCs]
    /\ child \in [Task -> Task \cup {NoTask}]
    /\ reaping \in Task \cup {NoTask}
    /\ holds \in [Task -> BOOLEAN]
    /\ count \in Int /\ sleepers \in {0, 1} /\ waitq \in Seq(Task)

Arriving == {t \in Task : pc[t] = "down_failed"}
Holders == {t \in Task : holds[t]}

(* semaphore.c: the count is one, less the holders, less the tasks that have        *)
(* decremented it and are not yet in the queue, less the one unit that stands for   *)
(* all the sleepers.                                                               *)
CountAccounts ==
    count = 1 - Cardinality(Holders) - Cardinality(Arriving) - sleepers

(* DOWN and UP: two tasks are never both past their DOWN, whatever is interrupted   *)
(* where, and although __down_failed() takes away and gives back units of the count.*)
MutualExclusion == \A t, u \in Holders : t = u

(* do_refresh_queues() and kpagerd(): every task that is not freed is once in one   *)
(* of the three queues, so that it can be found, scheduled or freed, and no freed   *)
(* task is in any.                                                                 *)
OneQueue ==
    LET all == ready \o wait \o zombie
    IN  /\ ToSet(all) = born \ freed
        /\ Len(all) = Cardinality(born \ freed)

(* kpagerd() frees no task that the kernel will still read: the running one, one    *)
(* that a semaphore will wake, the father of a task that is there, dead ones        *)
(* included, since kpagerd() gives the stack of a thread back to its father.        *)
NoDangling ==
    /\ curr \notin freed
    /\ freed \cap ToSet(waitq) = {}
    /\ \A t \in born \ freed : father[t] \notin freed

(* kill(): a thread does not outlive its father, whose address space it uses,       *)
(* through any number of generations.                                              *)
NoOrphanThread ==
    \A t \in Queued \ process :
        father[t] = NoTask \/ state[father[t]] = "ZOMBIE" => state[t] = "ZOMBIE"

(* Asleep: in the wait queue, and no refresh of the queues would take it out.      *)
Asleep(t) == t \in ToSet(wait) /\ state[t] = "WAIT"

(* __up_wakeup(): while the semaphore is free and nobody is in the code that would  *)
(* give it away, it has no sleeper.                                                *)
NoLostWakeup ==
    \/ Holders # {}
    \/ \E t \in Task : pc[t] \in {"down_failed", "down_retry", "up_wakeup"}
    \/ \E t \in ToSet(waitq) : ~Asleep(t)
    \/ waitq = <<>>
=============================================================================
