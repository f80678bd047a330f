---------------------------- MODULE RighiTasksProofs ----------------------------
(***************************************************************************)
(* minirighi32, for any set of tasks, any programs and any interruption:   *)
(* its semaphores exclude each other and count correctly (SemInv), the     *)
(* variables keep their types (TypeInv) and, while memory lasts and no     *)
(* task is killed in the queue of a semaphore, no task is lost, freed      *)
(* while something still names it, or left alive by a dead father          *)
(* (LifeInv).                                                              *)
(***************************************************************************)
EXTENDS RighiTasks, FiniteSetTheorems, WellFoundedInduction, TLAPS

--------------------------------------------------------------------------------
(* Induction, with sets where the library has an operator P(_). *)

\* The order of the natural numbers, as the relation the library's theorems are about.
LEMMA LessThanRel == \A x, y \in Nat : <<x, y>> \in OpToRel(<, Nat) <=> x < y
  BY DEF OpToRel

\* A nonempty set of natural numbers has a least element.
LEMMA LeastExists ==
    ASSUME NEW T \in SUBSET Nat, T # {}
    PROVE  \E x \in T : \A y \in T : x <= y
<1>1. \E x \in T : \A y \in T : ~(<<y, x>> \in OpToRel(<, Nat))
  BY NatLessThanWellFounded, WFMin
<1>2. \A x, y \in T : <<y, x>> \in OpToRel(<, Nat) <=> y < x
  BY LessThanRel, Zenon
<1>3. \E x \in T : \A y \in T : ~(y < x)
  BY <1>1, <1>2, Zenon
<1>4. QED
  BY <1>3

\* Induction: a set of natural numbers that holds 0 and the successor of every member
\* holds them all.
LEMMA Inductive ==
    ASSUME NEW S \in SUBSET Nat, 0 \in S, \A n \in S : n + 1 \in S
    PROVE  S = Nat
<1>1. SUFFICES ASSUME Nat \ S # {} PROVE FALSE
  OBVIOUS
<1>2. PICK x \in Nat \ S : \A y \in Nat \ S : x <= y
  BY <1>1, LeastExists
<1>3. x # 0 /\ x - 1 \in Nat /\ x - 1 \in S
  BY <1>2
<1>4. QED
  BY <1>2, <1>3

\* A loop of n turns has a run, all of whose states are in the set its turns stay in.
LEMMA LoopExists ==
    ASSUME NEW T, NEW t0 \in T, NEW n \in Nat, NEW F \in [1 .. n -> [T -> T]]
    PROVE  \E g \in [0 .. n -> T] :
              g[0] = t0 /\ \A k \in 1 .. n : g[k] = F[k][g[k - 1]]
<1> DEFINE Turned(g, m) == g[0] = t0 /\ \A k \in 1 .. m : g[k] = F[k][g[k - 1]]
           S == {m \in Nat : m <= n => \E g \in [0 .. m -> T] : Turned(g, m)}
<1>1. 0 \in S
  <2>1. [k \in 0 .. 0 |-> t0] \in [0 .. 0 -> T] /\ Turned([k \in 0 .. 0 |-> t0], 0)
    OBVIOUS
  <2>2. QED
    BY <2>1
<1>2. ASSUME NEW m \in S PROVE m + 1 \in S
  <2> HIDE DEF Turned
  <2>0. SUFFICES ASSUME m + 1 <= n PROVE \E g \in [0 .. m + 1 -> T] : Turned(g, m + 1)
    BY <2>0
  <2>1. m \in Nat /\ m <= n
    BY <2>0
  <2>2. PICK g \in [0 .. m -> T] : Turned(g, m)
    BY <2>1
  <2> USE DEF Turned
  <2> DEFINE h == [k \in 0 .. m + 1 |-> IF k = m + 1 THEN F[m + 1][g[m]] ELSE g[k]]
  <2>3. h \in [0 .. m + 1 -> T]
    <3>1. F[m + 1][g[m]] \in T
      <4>1. m + 1 \in 1 .. n /\ m \in 0 .. m
        BY <2>0, <2>1
      <4>2. F[m + 1] \in [T -> T] /\ g[m] \in T
        BY <4>1
      <4>3. QED
        BY <4>2
    <3>2. QED
      BY <2>1, <3>1
  <2>4. h[0] = t0
    BY <2>1, <2>2
  <2>5. ASSUME NEW k \in 1 .. m + 1 PROVE h[k] = F[k][h[k - 1]]
    <3>1. k - 1 \in 0 .. m /\ h[k - 1] = g[k - 1]
      BY <2>1
    <3>2. CASE k = m + 1
      BY <2>1, <3>1, <3>2
    <3>3. CASE k # m + 1
      <4>1. k \in 1 .. m /\ h[k] = g[k]
        BY <2>1, <3>3
      <4>2. QED
        BY <2>2, <3>1, <4>1
    <3>4. QED
      BY <3>2, <3>3
  <2>6. QED
    BY <2>3, <2>4, <2>5
<1> HIDE DEF S
<1>3. S = Nat
  <2>1. S \in SUBSET Nat
    BY DEF S
  <2>2. QED
    BY <1>1, <1>2, <2>1, Inductive
<1>4. n \in S
  BY <1>3
<1>5. QED
  BY <1>4 DEF S


USE DEF SleepPc, SchedPc

(* Where a task is inside __down_failed().                                     *)
DownPcs == {"down_failed", "sleep_down", "sched_down", "down_retry"}

(* What the counting needs: who is where, that only created tasks move, and    *)
(* that no task waits for what it holds.                                       *)
Placed ==
    /\ pc \in [Task -> PCs]
    /\ holds \in [Task -> BOOLEAN]
    /\ curr \in Task
    /\ count \in Int /\ sleepers \in {0, 1}
    /\ \A t \in Task \ born : pc[t] = "none"
    /\ \A t \in Task : pc[t] \in DownPcs => ~holds[t]

(* The inductive invariant: the count accounts for everybody, and at most one  *)
(* task is past its DOWN.                                                      *)
SemInv == Placed /\ CountAccounts /\ Cardinality(Holders) <= 1

--------------------------------------------------------------------------------
(* Counting.                                                                   *)

\* Sets of tasks are finite and their sizes are natural numbers.
LEMMA Sizes ==
    /\ IsFiniteSet(Holders) /\ Cardinality(Holders) \in Nat
    /\ IsFiniteSet(Arriving) /\ Cardinality(Arriving) \in Nat
<1>1. IsFiniteSet(Task)
  BY TaskAssumption
<1>2. Holders \in SUBSET Task /\ Arriving \in SUBSET Task
  BY DEF Holders, Arriving
<1>3. IsFiniteSet(Holders) /\ IsFiniteSet(Arriving)
  BY <1>1, <1>2, FS_Subset
<1>4. QED
  BY <1>3, FS_CardinalityType

\* A step that moves no task into or out of the two sets, and leaves the count
\* and the sleepers alone, keeps the invariant.
LEMMA Untouched ==
    ASSUME SemInv, Placed', Holders' = Holders, Arriving' = Arriving,
           UNCHANGED <<count, sleepers>>
    PROVE  SemInv'
BY DEF SemInv, CountAccounts

\* One task more in Holders, or in Arriving, or one less.
LEMMA MoveCounts ==
    ASSUME NEW t \in Task, NEW S, IsFiniteSet(S)
    PROVE  /\ t \notin S => Cardinality(S \cup {t}) = Cardinality(S) + 1
           /\ t \in S => Cardinality(S \ {t}) = Cardinality(S) - 1
BY FS_AddElement, FS_RemoveElement

\* What the inductive invariant is for.
LEMMA Excludes ==
    ASSUME SemInv
    PROVE  MutualExclusion
<1> SUFFICES ASSUME NEW t \in Holders, NEW u \in Holders
             PROVE  t = u
  BY DEF MutualExclusion
<1>1. IsFiniteSet(Holders) /\ Cardinality(Holders) \in Nat /\ Cardinality(Holders) <= 1
  BY Sizes DEF SemInv
<1>2. Cardinality(Holders) # 0
  BY <1>1, FS_EmptySet
<1>3. Cardinality(Holders) = 1
  BY <1>1, <1>2
<1>4. QED
  BY <1>1, <1>3, FS_Singleton

--------------------------------------------------------------------------------
(* The operations of the semaphore.                                            *)

\* A DOWN either gets the free semaphore or is on its way to the queue.
LEMMA DownKeeps == SemInv /\ DOWN => SemInv'
<1> SUFFICES ASSUME SemInv, DOWN PROVE SemInv'
  OBVIOUS
<1>1. /\ Placed /\ CountAccounts /\ Cardinality(Holders) <= 1
      /\ pc[curr] = "run" /\ holds[curr] = FALSE
      /\ count' = count - 1
      /\ UNCHANGED <<curr, born, sleepers>>
  BY DEF SemInv, DOWN, Running, tasks, queues, Placed
<1>2. CASE count' >= 0
  <2>1. holds' = [holds EXCEPT ![curr] = TRUE] /\ pc' = pc
    BY <1>2 DEF DOWN
  <2>2. Placed'
    BY <1>1, <2>1 DEF Placed, DownPcs
  <2>3. Holders' = Holders \cup {curr} /\ curr \notin Holders /\ Arriving' = Arriving
    BY <1>1, <2>1 DEF Placed, Holders, Arriving
  <2>4. Cardinality(Holders') = Cardinality(Holders) + 1
    BY <1>1, <2>3, MoveCounts, Sizes DEF Placed
  <2>5. QED
    BY <1>1, <1>2, <2>2, <2>3, <2>4, Sizes DEF SemInv, CountAccounts, Placed
<1>3. CASE ~(count' >= 0)
  <2>1. pc' = [pc EXCEPT ![curr] = "down_failed"] /\ holds' = holds
    BY <1>3 DEF DOWN
  <2>2. Placed'
    BY <1>1, <2>1 DEF Placed, PCs, DownPcs
  <2>3. Arriving' = Arriving \cup {curr} /\ curr \notin Arriving /\ Holders' = Holders
    BY <1>1, <2>1 DEF Placed, Holders, Arriving
  <2>4. Cardinality(Arriving') = Cardinality(Arriving) + 1
    BY <1>1, <2>3, MoveCounts, Sizes DEF Placed
  <2>5. QED
    BY <1>1, <2>2, <2>3, <2>4, Sizes DEF SemInv, CountAccounts, Placed
<1>4. QED
  BY <1>2, <1>3

\* The loop of __down_failed(), entered with s sleepers by a task that does not
\* hold the semaphore: n is the number of arriving tasks without it.
LEMMA TryKeeps ==
    ASSUME Placed, NEW s \in Int, NEW q, Try(s, q),
           pc[curr] \in {"down_failed", "down_retry"}, holds[curr] = FALSE,
           count = 1 - Cardinality(Holders) - Cardinality(Arriving \ {curr}) - s,
           Cardinality(Holders) <= 1
    PROVE  SemInv'
<1>1. count' = count + s - 1 /\ UNCHANGED <<curr, born>>
  BY DEF Try
<1>2. curr \in Task /\ IsFiniteSet(Arriving \ {curr})
      /\ Cardinality(Arriving \ {curr}) \in Nat
  BY Sizes, FS_RemoveElement, FS_CardinalityType DEF Placed
<1>3. CASE count' >= 0
  <2>1. sleepers' = 0 /\ holds' = [holds EXCEPT ![curr] = TRUE]
        /\ pc' = [pc EXCEPT ![curr] = "run"]
    BY <1>3 DEF Try
  <2>2. Placed'
    BY <1>1, <2>1 DEF Placed, PCs, DownPcs
  <2>3. Holders' = Holders \cup {curr} /\ curr \notin Holders
        /\ Arriving' = Arriving \ {curr}
    BY <1>1, <2>1 DEF Placed, Holders, Arriving
  <2>4. Cardinality(Holders') = Cardinality(Holders) + 1
    BY <1>2, <2>3, MoveCounts, Sizes
  <2>5. count' = 1 - Cardinality(Holders') - Cardinality(Arriving') - sleepers'
    BY <1>1, <1>2, <2>1, <2>3, <2>4, Sizes DEF Placed
  <2>6. Cardinality(Holders') <= 1
    BY <1>2, <1>3, <2>1, <2>3, <2>4, <2>5, Sizes
  <2>7. QED
    BY <2>2, <2>5, <2>6 DEF SemInv, CountAccounts
<1>4. CASE ~(count' >= 0)
  <2>1. sleepers' = 1 /\ holds' = holds
        /\ pc' = [pc EXCEPT ![curr] = "sleep_down"]
    BY <1>4 DEF Try
  <2>2. Placed'
    BY <1>1, <2>1 DEF Placed, PCs, DownPcs
  <2>3. Holders' = Holders /\ Arriving' = Arriving \ {curr}
    BY <1>1, <2>1 DEF Placed, Holders, Arriving
  <2>4. count' = 1 - Cardinality(Holders') - Cardinality(Arriving') - sleepers'
    <3>1. count \in Int
      BY DEF Placed
    <3>2. QED
      BY <1>1, <1>2, <2>1, <2>3, <3>1, Sizes
  <2>5. QED
    BY <2>2, <2>3, <2>4 DEF SemInv, CountAccounts
<1>5. QED
  BY <1>3, <1>4

\* A task that fails in DOWN counts itself as a sleeper and is no longer arriving.
LEMMA DownFailedKeeps == SemInv /\ down_failed => SemInv'
<1> SUFFICES ASSUME SemInv, down_failed PROVE SemInv'
  OBVIOUS
<1>1. pc[curr] = "down_failed" /\ Try(sleepers + 1, Append(waitq, curr))
  BY DEF down_failed
<1>2. curr \in Arriving /\ holds[curr] = FALSE /\ sleepers \in Int /\ count \in Int
  BY <1>1 DEF Arriving, SemInv, Placed, DownPcs
<1>3. Cardinality(Arriving \ {curr}) = Cardinality(Arriving) - 1
  BY <1>2, MoveCounts, Sizes DEF SemInv, Placed
<1>4. count = 1 - Cardinality(Holders) - Cardinality(Arriving \ {curr}) - (sleepers + 1)
  BY <1>2, <1>3, Sizes DEF SemInv, CountAccounts
<1>5. sleepers + 1 \in Int /\ Cardinality(Holders) <= 1
  BY <1>2 DEF SemInv
<1>6. QED
  BY <1>1, <1>2, <1>4, <1>5, TryKeeps DEF SemInv

\* A task that has slept tries again with the sleepers there are.
LEMMA DownRetryKeeps == SemInv /\ down_retry => SemInv'
<1> SUFFICES ASSUME SemInv, down_retry PROVE SemInv'
  OBVIOUS
<1>1. pc[curr] = "down_retry" /\ Try(sleepers, waitq)
  BY DEF down_retry
<1>2. Arriving \ {curr} = Arriving /\ holds[curr] = FALSE /\ sleepers \in Int
  BY <1>1 DEF Arriving, SemInv, Placed, DownPcs
<1>3. count = 1 - Cardinality(Holders) - Cardinality(Arriving \ {curr}) - sleepers
  BY <1>2 DEF SemInv, CountAccounts
<1>4. Cardinality(Holders) <= 1
  BY DEF SemInv
<1>5. QED
  BY <1>1, <1>2, <1>3, <1>4, TryKeeps DEF SemInv

\* An UP gives back what its task had.
LEMMA UpKeeps == SemInv /\ UP => SemInv'
<1> SUFFICES ASSUME SemInv, UP PROVE SemInv'
  OBVIOUS
<1>1. /\ Placed /\ CountAccounts /\ Cardinality(Holders) <= 1
      /\ pc[curr] = "run" /\ holds[curr]
      /\ count' = count + 1
      /\ holds' = [holds EXCEPT ![curr] = FALSE]
      /\ pc' = [pc EXCEPT ![curr] = IF count' <= 0 THEN "up_wakeup" ELSE "run"]
      /\ UNCHANGED <<curr, born, sleepers>>
  BY DEF SemInv, UP, Running, tasks, queues
<1>2. Placed'
  BY <1>1 DEF Placed, PCs, DownPcs
<1>3. Holders' = Holders \ {curr} /\ curr \in Holders /\ Arriving' = Arriving
  BY <1>1 DEF Placed, Holders, Arriving
<1>4. Cardinality(Holders') = Cardinality(Holders) - 1
  BY <1>1, <1>3, MoveCounts, Sizes DEF Placed
<1>5. QED
  BY <1>1, <1>2, <1>3, <1>4, Sizes DEF SemInv, CountAccounts, Placed

--------------------------------------------------------------------------------
(* The other steps move tasks, but not past a DOWN or an UP.                   *)

\* schedule() leaves a task running.
LEMMA ScheduleType == schedule => curr' \in Task
BY Zenon DEF schedule

\* A step in which a task moves between points outside the semaphore.
LEMMA MoveKeeps ==
    ASSUME SemInv, NEW to \in PCs \ {"down_failed"}, curr' \in Task,
           pc[curr] \notin {"down_failed", "none"},
           to \in DownPcs => pc[curr] \in DownPcs,
           pc' = [pc EXCEPT ![curr] = to],
           UNCHANGED <<born, holds, count, sleepers>>
    PROVE  SemInv'
<1>1. Placed
  BY DEF SemInv
<1>2. Placed'
  BY <1>1 DEF Placed
<1>3. Holders' = Holders
  BY DEF Holders
<1>4. Arriving' = Arriving
  BY <1>1 DEF Placed, Arriving
<1>5. QED
  BY <1>2, <1>3, <1>4, Untouched

\* The creation of a task, which was nowhere before.
LEMMA CreateKeeps ==
    ASSUME SemInv, NEW t \in Task \ born, NEW from \in {"run", "boot"},
           NEW call \in {"sched_create", "sched_boot"}, create(t, from, call)
    PROVE  SemInv'
<1>1. /\ Placed /\ pc[curr] = from /\ pc[t] = "none" /\ t # curr
      /\ born' = born \cup {t}
      /\ UNCHANGED <<curr, holds, count, sleepers>>
  BY DEF SemInv, Placed, create, sem
<1>2. \/ pc' = [pc EXCEPT ![curr] = call, ![t] = "run"]
      \/ pc' = pc
  BY DEF create
<1>3. Placed'
  BY <1>1, <1>2 DEF Placed, PCs, DownPcs
<1>4. Holders' = Holders
  BY <1>1 DEF Holders
<1>5. Arriving' = Arriving
  BY <1>1, <1>2 DEF Placed, Arriving
<1>6. QED
  BY <1>1, <1>3, <1>4, <1>5, Untouched

\* kill() moves the caller only, if it is among the dead.
LEMMA KillKeeps ==
    ASSUME SemInv, NEW p, kill(p), pc[curr] = "run"
    PROVE  SemInv'
<1>1. /\ pc' = [pc EXCEPT ![curr] = "sched_dead"] \/ pc' = pc
      /\ UNCHANGED <<curr, born, holds, count, sleepers>>
  BY DEF kill, sem, SemInv, Placed
<1>2. curr \in Task /\ curr' \in Task
  BY <1>1 DEF SemInv, Placed
<1>3. CASE pc' = [pc EXCEPT ![curr] = "sched_dead"]
  <2>1. "sched_dead" \in PCs \ {"down_failed"}
    BY DEF PCs
  <2>2. QED
    BY <1>1, <1>2, <1>3, <2>1, MoveKeeps DEF DownPcs
<1>4. CASE pc' = pc
  BY <1>1, <1>4, Untouched DEF SemInv, Placed, Holders, Arriving
<1>5. QED
  BY <1>1, <1>3, <1>4

\* Every step keeps the invariant.
LEMMA NextKeeps == SemInv /\ [Next]_vars => SemInv'
<1> SUFFICES ASSUME SemInv, [Next]_vars PROVE SemInv'
  OBVIOUS
<1> USE DEF PCs, DownPcs
<1>p. curr \in Task
  BY DEF SemInv, Placed
<1>1. CASE clock_handler
  <2>1. curr' \in Task /\ UNCHANGED <<pc, born, holds, count, sleepers>>
    BY <1>1, ScheduleType DEF clock_handler, sem
  <2>2. QED
    BY <2>1, Untouched DEF SemInv, Placed, Holders, Arriving
<1>2. CASE Calls_schedule
  <2>1. curr' \in Task /\ UNCHANGED <<born, holds, count, sleepers>>
    BY <1>2, ScheduleType DEF Calls_schedule, sem
  <2>2. PICK c \in DOMAIN After :
          pc[curr] = SchedPc[c] /\ pc' = [pc EXCEPT ![curr] = After[c]]
    BY <1>2 DEF Calls_schedule
  <2>3. After[c] \in PCs \ {"down_failed"} /\ pc[curr] \notin {"down_failed", "none"}
        /\ (After[c] \in DownPcs => pc[curr] \in DownPcs)
    BY <2>2 DEF After
  <2>4. QED
    BY <2>1, <2>2, <2>3, MoveKeeps
<1>3. CASE sleep_task
  <2>1. UNCHANGED <<curr, born, holds, count, sleepers>>
    BY <1>3 DEF sleep_task, sem
  <2>2. PICK c \in DOMAIN SleepPc :
          pc[curr] = SleepPc[c] /\ pc' = [pc EXCEPT ![curr] = SchedPc[c]]
    BY <1>3 DEF sleep_task
  <2>3. SchedPc[c] \in PCs \ {"down_failed"} /\ pc[curr] \notin {"down_failed", "none"}
        /\ (SchedPc[c] \in DownPcs => pc[curr] \in DownPcs)
    BY <2>2
  <2>4. QED
    BY <1>p, <2>1, <2>2, <2>3, MoveKeeps
<1>4. CASE DOWN
  BY <1>4, DownKeeps
<1>5. CASE down_failed
  BY <1>5, DownFailedKeeps
<1>6. CASE down_retry
  BY <1>6, DownRetryKeeps
<1>7. CASE UP
  BY <1>7, UpKeeps
<1>8. CASE up_wakeup
  <2>1. pc[curr] = "up_wakeup" /\ pc' = [pc EXCEPT ![curr] = "run"]
        /\ UNCHANGED <<curr, born, holds, count, sleepers>>
    BY <1>8 DEF up_wakeup, sem
  <2>2. QED
    BY <1>p, <2>1, MoveKeeps
<1>9. CASE Kill
  <2>1. PICK p : pc[curr] = "run" /\ kill(p)
    BY <1>9, Zenon DEF Kill, Running
  <2>2. QED
    BY <2>1, KillKeeps
<1>10. CASE auto_kill
  BY <1>p, <1>10, KillKeeps DEF auto_kill, Running
<1>11. CASE create_thread \/ do_fork
  BY <1>11, CreateKeeps DEF create_thread, do_fork
<1>12. CASE k_main
  BY <1>12, CreateKeeps, TaskAssumption DEF k_main
<1>13. CASE Waitpid
  <2>1. PICK c : waitpid(c) /\ pc[curr] \in {"run", "waitpid"}
    BY <1>13 DEF Waitpid, Running
  <2>2. PICK to \in {"run", "sleep_waitpid"} : pc' = [pc EXCEPT ![curr] = to]
    BY <2>1 DEF waitpid
  <2>3. UNCHANGED <<curr, born, holds, count, sleepers>>
    BY <2>1 DEF waitpid, sem, queues
  <2>4. to \in PCs \ {"down_failed"} /\ to \notin DownPcs
    BY <2>2
  <2>5. QED
    BY <1>p, <2>1, <2>2, <2>3, <2>4, MoveKeeps
<1>14. CASE init_done
  <2>1. pc[curr] \in {"boot", "idle"} /\ pc' = [pc EXCEPT ![curr] = "sleep_idle"]
        /\ UNCHANGED <<curr, born, holds, count, sleepers>>
    BY <1>14 DEF init_done, sem, queues, tasks
  <2>2. QED
    BY <1>p, <2>1, MoveKeeps
<1>15. CASE pick
  <2>1. PICK to \in {"sleep_pager", "reap"} : pc' = [pc EXCEPT ![curr] = to]
    BY <1>15 DEF pick
  <2>2. pc[curr] = "pick" /\ UNCHANGED <<curr, born, holds, count, sleepers>>
    BY <1>15 DEF pick, sem
  <2>3. to \in PCs \ {"down_failed"} /\ to \notin DownPcs
    BY <2>1
  <2>4. QED
    BY <1>p, <2>1, <2>2, <2>3, MoveKeeps
<1>16. CASE reap
  <2>1. pc[curr] = "reap" /\ pc' = [pc EXCEPT ![curr] = "pick"]
        /\ UNCHANGED <<curr, born, holds, count, sleepers>>
    BY <1>16 DEF reap, sem
  <2>2. QED
    BY <1>p, <2>1, MoveKeeps
<1>17. CASE UNCHANGED vars
  BY <1>17, Untouched DEF vars, tasks, queues, sem, SemInv, Placed, Holders, Arriving
<1>18. QED
  BY <1>1, <1>2, <1>3, <1>4, <1>5, <1>6, <1>7, <1>8, <1>9, <1>10, <1>11, <1>12,
     <1>13, <1>14, <1>15, <1>16, <1>17 DEF Next

\* At boot nobody holds the semaphore and its count is one.
LEMMA InitSem == Init => SemInv
<1> SUFFICES ASSUME Init PROVE SemInv
  OBVIOUS
<1>1. Placed
  BY TaskAssumption DEF Init, Placed, PCs, DownPcs
<1>2. Holders = {} /\ Arriving = {}
  BY TaskAssumption DEF Init, Holders, Arriving
<1>3. Cardinality(Holders) = 0 /\ Cardinality(Arriving) = 0
  BY <1>2, FS_EmptySet
<1>4. QED
  BY <1>1, <1>3 DEF Init, SemInv, CountAccounts

--------------------------------------------------------------------------------
\* The count of a semaphore always tells how many tasks are at it, whatever the
\* clock interrupts and whoever is killed.
THEOREM CountCorrect == Spec => []CountAccounts
<1>1. SemInv => CountAccounts
  BY DEF SemInv
<1>2. QED
  BY <1>1, InitSem, NextKeeps, PTL DEF Spec

\* DOWN and UP of semaphore.h exclude each other: two tasks are never both past
\* their DOWN, for any number of tasks and any interleaving of their steps.
THEOREM SemaphoreExcludes == Spec => []MutualExclusion
BY InitSem, NextKeeps, Excludes, PTL DEF Spec

--------------------------------------------------------------------------------
(* Queues: what append, removal and rotation make of the tasks in a queue and of   *)
(* their order.                                                                    *)

(* x comes before y in the queue s.                                            *)
Before(s, x, y) == \E i, j \in DOMAIN s : i < j /\ s[i] = x /\ s[j] = y

\* The members of a queue, by their places.
LEMMA Members ==
    ASSUME NEW T, NEW s \in Seq(T)
    PROVE  /\ DOMAIN s = 1 .. Len(s) /\ Len(s) \in Nat
           /\ \A x : x \in ToSet(s) <=> \E i \in 1 .. Len(s) : s[i] = x
           /\ \A i \in 1 .. Len(s) : s[i] \in ToSet(s)
           /\ ToSet(s) \subseteq T
           /\ IsInjective(s) <=> \A i, j \in 1 .. Len(s) : s[i] = s[j] => i = j
           /\ \A x, y : Before(s, x, y) <=>
                 \E i, j \in 1 .. Len(s) : i < j /\ s[i] = x /\ s[j] = y
<1>1. DOMAIN s = 1 .. Len(s) /\ Len(s) \in Nat /\ \A i \in 1 .. Len(s) : s[i] \in T
  OBVIOUS
<1>2. ToSet(s) = {s[i] : i \in 1 .. Len(s)}
  BY <1>1 DEF ToSet
<1>3. IsInjective(s) <=> \A i, j \in 1 .. Len(s) : s[i] = s[j] => i = j
  BY <1>1 DEF IsInjective
<1>4. \A x, y : Before(s, x, y) <=>
                 \E i, j \in 1 .. Len(s) : i < j /\ s[i] = x /\ s[j] = y
  BY <1>1 DEF Before
<1>5. QED
  BY <1>1, <1>2, <1>3, <1>4

\* A task more at the end.
LEMMA AppendQueue ==
    ASSUME NEW T, NEW s \in Seq(T), NEW x \in T
    PROVE  /\ Append(s, x) \in Seq(T)
           /\ ToSet(Append(s, x)) = ToSet(s) \cup {x}
           /\ IsInjective(s) /\ x \notin ToSet(s) => IsInjective(Append(s, x))
           /\ \A u, v : Before(Append(s, x), u, v) =>
                 Before(s, u, v) \/ (u \in ToSet(s) /\ v = x)
<1> DEFINE a == Append(s, x)
<1>1. /\ a \in Seq(T) /\ Len(s) \in Nat /\ Len(a) = Len(s) + 1 /\ a[Len(s) + 1] = x
      /\ \A i \in 1 .. Len(s) : a[i] = s[i]
  OBVIOUS
<1> HIDE DEF a
<1>2. /\ \A v : v \in ToSet(s) <=> \E i \in 1 .. Len(s) : s[i] = v
      /\ \A v : v \in ToSet(a) <=> \E i \in 1 .. Len(a) : a[i] = v
  BY <1>1, Members
<1>3. ToSet(a) = ToSet(s) \cup {x}
  <2>1. ASSUME NEW v PROVE v \in ToSet(a) <=> v \in ToSet(s) \/ v = x
    BY <1>1, <1>2
  <2>2. QED
    BY <2>1
<1>4. ASSUME IsInjective(s), x \notin ToSet(s) PROVE IsInjective(a)
  <2>1. \A i, j \in 1 .. Len(s) : s[i] = s[j] => i = j
    BY <1>4, Members
  <2>2. \A i \in 1 .. Len(s) : s[i] # x
    BY <1>2, <1>4
  <2>3. \A i, j \in 1 .. Len(a) : a[i] = a[j] => i = j
    BY <1>1, <2>1, <2>2
  <2>4. QED
    BY <1>1, <2>3, Members
<1>5. ASSUME NEW u, NEW v, Before(a, u, v)
      PROVE  Before(s, u, v) \/ (u \in ToSet(s) /\ v = x)
  <2>1. PICK i \in 1 .. Len(a), j \in 1 .. Len(a) : i < j /\ a[i] = u /\ a[j] = v
    BY <1>1, <1>5, Members
  <2>2. i \in 1 .. Len(s) /\ s[i] = u
    BY <1>1, <2>1
  <2>3. CASE j \in 1 .. Len(s)
    BY <1>1, <2>1, <2>2, <2>3, Members
  <2>4. CASE j = Len(s) + 1
    BY <1>1, <1>2, <2>1, <2>2, <2>4
  <2>5. QED
    BY <1>1, <2>1, <2>3, <2>4
<1>6. QED
  BY <1>1, <1>3, <1>4, <1>5 DEF a

\* The first occurrence of a task is taken out, and those behind it move up.
LEMMA RemoveIs ==
    ASSUME NEW T, NEW s \in Seq(T), NEW x
    PROVE  \/ RemoveFirst(s, x) = s /\ x \notin ToSet(s)
           \/ \E k \in 1 .. Len(s) :
                /\ s[k] = x
                /\ RemoveFirst(s, x) \in Seq(T)
                /\ Len(RemoveFirst(s, x)) = Len(s) - 1
                /\ \A i \in 1 .. Len(s) - 1 :
                      RemoveFirst(s, x)[i] = IF i < k THEN s[i] ELSE s[i + 1]
<1> DEFINE I == {i \in 1 .. Len(s) : s[i] = x}
<1>1. CASE I = {}
  <2>1. ~\E i \in 1 .. Len(s) : s[i] = x
    BY <1>1
  <2>2. RemoveFirst(s, x) = s
    BY <2>1 DEF RemoveFirst
  <2>3. QED
    BY <2>1, <2>2, Members
<1>2. CASE I # {}
  <2>1. I \in SUBSET Nat /\ Len(s) \in Nat
    OBVIOUS
  <2>2. \E k \in I : \A j \in I : k <= j
    BY <1>2, <2>1, LeastExists
  <2> DEFINE k == Min(I)
  <2>3. k \in I
    BY <2>2 DEF Min
  <2>4. SelectInSeq(s, LAMBDA v : v = x) = k
    BY <1>2 DEF SelectInSeq
  <2>5. RemoveFirst(s, x) = RemoveAt(s, k)
    <3>1. \E i \in 1 .. Len(s) : s[i] = x
      BY <1>2
    <3>2. QED
      BY <2>4, <3>1 DEF RemoveFirst
  <2> HIDE DEF k
  <2>6. k \in 1 .. Len(s) /\ s[k] = x
    BY <2>3
  <2> DEFINE l == SubSeq(s, 1, k - 1)
             r == SubSeq(s, k + 1, Len(s))
  <2>7. RemoveFirst(s, x) = l \o r
    BY <2>5 DEF RemoveAt
  <2>8. l \in Seq(T) /\ Len(l) = k - 1 /\ \A i \in 1 .. k - 1 : l[i] = s[i]
    BY <2>1, <2>6
  <2>9. r \in Seq(T) /\ Len(r) = Len(s) - k /\ \A i \in 1 .. Len(s) - k : r[i] = s[k + i]
    BY <2>1, <2>6
  <2> HIDE DEF l, r, I
  <2>10. \A u, v \in Seq(T) :
           /\ u \o v \in Seq(T) /\ Len(u \o v) = Len(u) + Len(v)
           /\ \A i \in 1 .. Len(u) + Len(v) :
                 (u \o v)[i] = IF i <= Len(u) THEN u[i] ELSE v[i - Len(u)]
    OBVIOUS
  <2>11. /\ l \o r \in Seq(T) /\ Len(l \o r) = Len(s) - 1
         /\ \A i \in 1 .. Len(s) - 1 :
               (l \o r)[i] = IF i <= k - 1 THEN l[i] ELSE r[i - (k - 1)]
    <3>1. Len(l) + Len(r) = Len(s) - 1
      BY <2>1, <2>6, <2>8, <2>9
    <3>2. QED
      BY <2>8, <2>9, <2>10, <3>1
  <2>12. ASSUME NEW i \in 1 .. Len(s) - 1
         PROVE  (l \o r)[i] = IF i < k THEN s[i] ELSE s[i + 1]
    <3>1. CASE i < k
      BY <2>1, <2>6, <2>8, <2>11, <3>1
    <3>2. CASE ~(i < k)
      <4>1. i - (k - 1) \in 1 .. Len(s) - k /\ k + (i - (k - 1)) = i + 1 /\ ~(i <= k - 1)
        BY <2>1, <2>6, <3>2
      <4>2. (l \o r)[i] = r[i - (k - 1)]
        BY <2>11, <4>1
      <4>3. QED
        BY <2>9, <3>2, <4>1, <4>2
    <3>3. QED
      BY <3>1, <3>2
  <2>13. QED
    BY <2>6, <2>7, <2>11, <2>12
<1>3. QED
  BY <1>1, <1>2

\* The removed task is out if it was there once; the others stay, in their order.
LEMMA RemoveQueue ==
    ASSUME NEW T, NEW s \in Seq(T), NEW x
    PROVE  /\ RemoveFirst(s, x) \in Seq(T)
           /\ ToSet(RemoveFirst(s, x)) \subseteq ToSet(s)
           /\ \A u \in ToSet(s) : u # x => u \in ToSet(RemoveFirst(s, x))
           /\ IsInjective(s) => /\ IsInjective(RemoveFirst(s, x))
                                /\ x \notin ToSet(RemoveFirst(s, x))
           /\ \A u, v : Before(RemoveFirst(s, x), u, v) => Before(s, u, v)
<1> DEFINE w == RemoveFirst(s, x)
<1>1. CASE w = s /\ x \notin ToSet(s)
  BY <1>1
<1>2. ASSUME NEW k \in 1 .. Len(s), s[k] = x, w \in Seq(T), Len(w) = Len(s) - 1,
             \A i \in 1 .. Len(s) - 1 : w[i] = IF i < k THEN s[i] ELSE s[i + 1]
      PROVE  /\ w \in Seq(T)
             /\ ToSet(w) \subseteq ToSet(s)
             /\ \A u \in ToSet(s) : u # x => u \in ToSet(w)
             /\ IsInjective(s) => IsInjective(w) /\ x \notin ToSet(w)
             /\ \A u, v : Before(w, u, v) => Before(s, u, v)
  <2> HIDE DEF w
  <2>1. Len(s) \in Nat
    OBVIOUS
  <2>2. /\ \A v : v \in ToSet(s) <=> \E i \in 1 .. Len(s) : s[i] = v
        /\ \A v : v \in ToSet(w) <=> \E i \in 1 .. Len(s) - 1 : w[i] = v
    BY <1>2, Members
  <2> DEFINE at(i) == IF i < k THEN i ELSE i + 1
  <2>3. /\ \A i \in 1 .. Len(s) - 1 : at(i) \in 1 .. Len(s) /\ at(i) # k /\ w[i] = s[at(i)]
        /\ \A i, j \in 1 .. Len(s) - 1 : (i < j => at(i) < at(j)) /\ (at(i) = at(j) => i = j)
    BY <1>2, <2>1, SMTT(40)
  <2>4. ToSet(w) \subseteq ToSet(s)
    <3> HIDE DEF at
    <3>1. QED
      BY <2>2, <2>3
  <2>5. ASSUME NEW u \in ToSet(s), u # x PROVE u \in ToSet(w)
    <3>1. PICK i \in 1 .. Len(s) : s[i] = u
      BY <2>2
    <3>2. CASE i < k
      <4>1. i \in 1 .. Len(s) - 1 /\ w[i] = u
        BY <1>2, <2>1, <3>1, <3>2
      <4>2. QED
        BY <2>2, <4>1
    <3>3. CASE i > k
      <4>1. i - 1 \in 1 .. Len(s) - 1 /\ ~(i - 1 < k) /\ (i - 1) + 1 = i
        BY <2>1, <3>1, <3>3
      <4>2. w[i - 1] = u
        BY <1>2, <3>1, <4>1
      <4>3. QED
        BY <2>2, <4>1, <4>2
    <3>4. QED
      BY <1>2, <2>5, <3>1, <3>2, <3>3
  <2>6. ASSUME IsInjective(s) PROVE IsInjective(w) /\ x \notin ToSet(w)
    <3> HIDE DEF at
    <3>1. \A i, j \in 1 .. Len(s) : s[i] = s[j] => i = j
      BY <2>6, Members
    <3>2. \A i, j \in 1 .. Len(w) : w[i] = w[j] => i = j
      BY <1>2, <2>3, <3>1
    <3>3. \A i \in 1 .. Len(s) - 1 : w[i] # x
      BY <1>2, <2>3, <3>1
    <3>4. QED
      BY <1>2, <2>2, <3>2, <3>3, Members
  <2>7. ASSUME NEW u, NEW v, Before(w, u, v) PROVE Before(s, u, v)
    <3> HIDE DEF at
    <3>1. PICK i \in 1 .. Len(w), j \in 1 .. Len(w) : i < j /\ w[i] = u /\ w[j] = v
      BY <1>2, <2>7, Members
    <3>2. i \in 1 .. Len(s) - 1 /\ j \in 1 .. Len(s) - 1
      BY <1>2, <3>1
    <3>3. at(i) \in 1 .. Len(s) /\ at(j) \in 1 .. Len(s) /\ at(i) < at(j)
          /\ s[at(i)] = u /\ s[at(j)] = v
      BY <2>3, <3>1, <3>2
    <3>4. QED
      BY <3>3, Members
  <2>8. QED
    BY <1>2, <2>4, <2>5, <2>6, <2>7
<1> HIDE DEF w
<1>3. \/ w = s /\ x \notin ToSet(s)
      \/ \E k \in 1 .. Len(s) :
           /\ s[k] = x
           /\ w \in Seq(T)
           /\ Len(w) = Len(s) - 1
           /\ \A i \in 1 .. Len(s) - 1 : w[i] = IF i < k THEN s[i] ELSE s[i + 1]
  BY RemoveIs DEF w
<1>4. /\ w \in Seq(T)
      /\ ToSet(w) \subseteq ToSet(s)
      /\ \A u \in ToSet(s) : u # x => u \in ToSet(w)
      /\ IsInjective(s) => IsInjective(w) /\ x \notin ToSet(w)
      /\ \A u, v : Before(w, u, v) => Before(s, u, v)
  BY <1>1, <1>2, <1>3, Zenon
<1>5. QED
  BY <1>4 DEF w

\* Without a queue's head, the others stay as they are; the head can go to the end.
LEMMA RotateQueue ==
    ASSUME NEW T, NEW s \in Seq(T), s # <<>>
    PROVE  /\ Head(s) \in ToSet(s)
           /\ Append(Tail(s), Head(s)) \in Seq(T)
           /\ ToSet(Append(Tail(s), Head(s))) = ToSet(s)
           /\ IsInjective(s) => IsInjective(Append(Tail(s), Head(s)))
           /\ \A u, v : Before(Append(Tail(s), Head(s)), u, v) =>
                 Before(s, u, v) \/ v = Head(s)
           /\ IsInjective(s) => \A v \in ToSet(s) : v # Head(s) => Before(s, Head(s), v)
<1> DEFINE h == Head(s)
           t == Tail(s)
<1>1. /\ Len(s) \in Nat /\ Len(s) > 0 /\ h = s[1] /\ h \in T /\ t \in Seq(T)
      /\ Len(t) = Len(s) - 1 /\ \A i \in 1 .. Len(s) - 1 : t[i] = s[i + 1]
  OBVIOUS
<1> HIDE DEF h, t
<1>2. /\ \A v : v \in ToSet(s) <=> \E i \in 1 .. Len(s) : s[i] = v
      /\ \A v : v \in ToSet(t) <=> \E i \in 1 .. Len(s) - 1 : t[i] = v
  BY <1>1, Members
<1>3. h \in ToSet(s)
  BY <1>1, <1>2
<1>4. ToSet(s) = ToSet(t) \cup {h}
  <2>1. ASSUME NEW v, v \in ToSet(t) PROVE v \in ToSet(s)
    BY <1>1, <1>2, <2>1
  <2>2. ASSUME NEW v, v \in ToSet(s), v # h PROVE v \in ToSet(t)
    <3>1. PICK i \in 1 .. Len(s) : s[i] = v
      BY <1>2, <2>2
    <3>2. i - 1 \in 1 .. Len(s) - 1 /\ t[i - 1] = v
      BY <1>1, <2>2, <3>1
    <3>3. QED
      BY <1>2, <3>2
  <2>3. QED
    BY <1>3, <2>1, <2>2
<1>5. ASSUME NEW u, NEW v, Before(t, u, v) PROVE Before(s, u, v)
  <2>1. PICK i \in 1 .. Len(t), j \in 1 .. Len(t) : i < j /\ t[i] = u /\ t[j] = v
    BY <1>1, <1>5, Members
  <2>2. i + 1 \in 1 .. Len(s) /\ j + 1 \in 1 .. Len(s) /\ i + 1 < j + 1
        /\ s[i + 1] = u /\ s[j + 1] = v
    BY <1>1, <2>1
  <2>3. QED
    BY <2>2, Members
<1>6. ASSUME IsInjective(s) PROVE IsInjective(t) /\ h \notin ToSet(t)
  <2>1. \A i, j \in 1 .. Len(s) : s[i] = s[j] => i = j
    BY <1>6, Members
  <2>2. \A i, j \in 1 .. Len(t) : t[i] = t[j] => i = j
    BY <1>1, <2>1
  <2>3. \A i \in 1 .. Len(s) - 1 : t[i] # h
    BY <1>1, <2>1
  <2>4. QED
    BY <1>1, <1>2, <2>2, <2>3, Members
<1>7. ASSUME NEW v \in ToSet(s), v # h PROVE Before(s, h, v)
  <2>1. PICK i \in 1 .. Len(s) : s[i] = v
    BY <1>2
  <2>2. 1 \in 1 .. Len(s) /\ 1 < i /\ s[1] = h
    BY <1>1, <1>7, <2>1
  <2>3. QED
    BY <2>1, <2>2, Members
<1>8. /\ Append(t, h) \in Seq(T)
      /\ ToSet(Append(t, h)) = ToSet(s)
      /\ IsInjective(s) => IsInjective(Append(t, h))
      /\ \A u, v : Before(Append(t, h), u, v) => Before(s, u, v) \/ v = h
  BY <1>1, <1>4, <1>5, <1>6, AppendQueue
<1>9. QED
  BY <1>3, <1>7, <1>8 DEF h, t

\* A queue with no task twice is as long as the set of its tasks is large.
LEMMA QueueSize ==
    ASSUME NEW T, NEW s \in Seq(T), IsInjective(s)
    PROVE  IsFiniteSet(ToSet(s)) /\ Cardinality(ToSet(s)) = Len(s)
<1>1. /\ Len(s) \in Nat
      /\ \A x : x \in ToSet(s) <=> \E i \in 1 .. Len(s) : s[i] = x
      /\ \A i, j \in 1 .. Len(s) : s[i] = s[j] => i = j
  BY Members
<1>2. s \in Bijection(1 .. Len(s), ToSet(s))
  <2>1. s \in [1 .. Len(s) -> ToSet(s)]
    BY <1>1
  <2>2. QED
    BY <1>1, <2>1 DEF Bijection, Injection, Surjection, IsInjective
<1>3. ExistsBijection(1 .. Len(s), ToSet(s))
  BY <1>2 DEF ExistsBijection
<1>4. IsFiniteSet(1 .. Len(s)) /\ Cardinality(1 .. Len(s)) = Len(s)
  <2>1. 1 \in Int /\ Len(s) \in Int /\ Len(s) \in Nat
    OBVIOUS
  <2>2. /\ IsFiniteSet(1 .. Len(s))
        /\ Cardinality(1 .. Len(s)) = IF 1 > Len(s) THEN 0 ELSE Len(s) - 1 + 1
    BY <2>1, FS_Interval, Zenon
  <2>3. QED
    BY <2>1, <2>2
<1>5. QED
  BY <1>3, <1>4, FS_Bijection

--------------------------------------------------------------------------------
(* The refresh of the queues is a loop over the ready tasks and one over those     *)
(* that wait.                                                                      *)

Priorities == 3 * HIGH_PRIORITY .. HIGH_PRIORITY

QueueSets == [ready : Seq(Task), wait : Seq(Task), zombie : Seq(Task),
              state : [Task -> States], counter : [Task -> Priorities]]

Listed(q) == ToSet(q.ready) \cup ToSet(q.wait) \cup ToSet(q.zombie)

(* What has a type, but for what Placed types.                                 *)
Typed ==
    /\ state \in [Task -> States]
    /\ born \subseteq Task /\ process \subseteq born /\ freed \subseteq born
    /\ father \in [Task -> Task \cup {NoTask}]
    /\ ready \in Seq(Task) /\ wait \in Seq(Task) /\ zombie \in Seq(Task)
    /\ ToSet(ready) \cup ToSet(wait) \cup ToSet(zombie) \subseteq born
    /\ counter \in [Task -> Priorities]
    /\ refresh \in BOOLEAN
    /\ child \in [Task -> Task \cup {NoTask}]
    /\ reaping \in Task \cup {NoTask}
    /\ waitq \in Seq(Task)

(* The queues in a loop of the refresh: of created tasks, and no dead task lost. *)
Sorting(q) ==
    /\ q \in QueueSets
    /\ Listed(q) \subseteq born
    /\ ToSet(zombie) \subseteq ToSet(q.zombie)

\* The highest priority is negative.
LEMMA HighPriority == HIGH_PRIORITY \in Int /\ HIGH_PRIORITY <= -1
BY PriorityAssumption DEF HIGH_PRIORITY

\* The two loops keep one shape.
LEMMA RefreshSorts ==
    ASSUME NEW q, Sorting(q), born \subseteq Task, NEW p \in born
    PROVE  Sorting(RefreshReady(q, p)) /\ Sorting(RefreshWait(q, p))
<1>1. /\ q.ready \in Seq(Task) /\ q.wait \in Seq(Task) /\ q.zombie \in Seq(Task)
      /\ q.state \in [Task -> States] /\ q.counter \in [Task -> Priorities]
      /\ q = [ready |-> q.ready, wait |-> q.wait, zombie |-> q.zombie,
              state |-> q.state, counter |-> q.counter]
      /\ ToSet(q.ready) \subseteq born /\ ToSet(q.wait) \subseteq born
      /\ ToSet(q.zombie) \subseteq born /\ ToSet(zombie) \subseteq ToSet(q.zombie)
  BY DEF Sorting, QueueSets, Listed
<1>2. p \in Task /\ Kpagd \in Task
  BY TaskAssumption
<1>3. /\ [q.state EXCEPT ![Kpagd] = "READY"] \in [Task -> States]
      /\ [q.counter EXCEPT ![p] = 3 * HIGH_PRIORITY] \in [Task -> Priorities]
  BY <1>1, <1>2, HighPriority DEF States, Priorities
<1>4. ASSUME NEW s \in Seq(Task), ToSet(s) \subseteq born
      PROVE  /\ Append(s, p) \in Seq(Task) /\ ToSet(Append(s, p)) \subseteq born
             /\ ToSet(s) \subseteq ToSet(Append(s, p))
             /\ RemoveFirst(s, p) \in Seq(Task) /\ ToSet(RemoveFirst(s, p)) \subseteq born
  <2>1. /\ Append(s, p) \in Seq(Task) /\ ToSet(Append(s, p)) = ToSet(s) \cup {p}
        /\ RemoveFirst(s, p) \in Seq(Task) /\ ToSet(RemoveFirst(s, p)) \subseteq ToSet(s)
    BY <1>2, AppendQueue, RemoveQueue
  <2>2. QED
    BY <1>4, <2>1
<1>5. Sorting(RefreshReady(q, p))
  <2>1. CASE q.state[p] = "WAIT"
    <3> DEFINE e == RefreshReady(q, p)
    <3>1. e = [ready |-> RemoveFirst(q.ready, p), wait |-> Append(q.wait, p), zombie |-> q.zombie,
               state |-> q.state, counter |-> q.counter]
      BY <1>1, <2>1 DEF RefreshReady
    <3> HIDE DEF e
    <3>2. e \in QueueSets /\ e.ready = RemoveFirst(q.ready, p) /\ e.wait = Append(q.wait, p)
          /\ e.zombie = q.zombie
      BY <1>1, <1>3, <1>4, <3>1 DEF QueueSets
    <3>3. /\ ToSet(RemoveFirst(q.ready, p)) \subseteq born /\ ToSet(Append(q.wait, p)) \subseteq born
          /\ ToSet(q.zombie) \subseteq born /\ ToSet(zombie) \subseteq ToSet(q.zombie)
      BY <1>1, <1>4
    <3>4. Sorting(e)
      BY <3>2, <3>3 DEF Sorting, Listed
    <3>5. QED
      BY <3>4 DEF e
  <2>2. CASE q.state[p] = "ZOMBIE"
    <3> DEFINE e == RefreshReady(q, p)
    <3>1. e = [ready |-> RemoveFirst(q.ready, p), wait |-> q.wait, zombie |-> Append(q.zombie, p),
               state |-> [q.state EXCEPT ![Kpagd] = "READY"], counter |-> q.counter]
      BY <1>1, <2>2 DEF RefreshReady
    <3> HIDE DEF e
    <3>2. e \in QueueSets /\ e.ready = RemoveFirst(q.ready, p) /\ e.wait = q.wait
          /\ e.zombie = Append(q.zombie, p)
      BY <1>1, <1>3, <1>4, <3>1 DEF QueueSets
    <3>3. /\ ToSet(RemoveFirst(q.ready, p)) \subseteq born /\ ToSet(q.wait) \subseteq born
          /\ ToSet(Append(q.zombie, p)) \subseteq born /\ ToSet(zombie) \subseteq ToSet(Append(q.zombie, p))
      BY <1>1, <1>4
    <3>4. Sorting(e)
      BY <3>2, <3>3 DEF Sorting, Listed
    <3>5. QED
      BY <3>4 DEF e
  <2>3. CASE q.state[p] \notin {"WAIT", "ZOMBIE"}
    BY <2>3 DEF RefreshReady
  <2>4. QED
    BY <2>1, <2>2, <2>3
<1>6. Sorting(RefreshWait(q, p))
  <2>1. CASE q.state[p] = "READY"
    <3> DEFINE e == RefreshWait(q, p)
    <3>1. e = [ready |-> Append(q.ready, p), wait |-> RemoveFirst(q.wait, p), zombie |-> q.zombie,
               state |-> q.state, counter |-> [q.counter EXCEPT ![p] = 3 * HIGH_PRIORITY]]
      BY <1>1, <2>1 DEF RefreshWait
    <3> HIDE DEF e
    <3>2. e \in QueueSets /\ e.ready = Append(q.ready, p) /\ e.wait = RemoveFirst(q.wait, p)
          /\ e.zombie = q.zombie
      BY <1>1, <1>3, <1>4, <3>1 DEF QueueSets
    <3>3. /\ ToSet(Append(q.ready, p)) \subseteq born /\ ToSet(RemoveFirst(q.wait, p)) \subseteq born
          /\ ToSet(q.zombie) \subseteq born /\ ToSet(zombie) \subseteq ToSet(q.zombie)
      BY <1>1, <1>4
    <3>4. Sorting(e)
      BY <3>2, <3>3 DEF Sorting, Listed
    <3>5. QED
      BY <3>4 DEF e
  <2>2. CASE q.state[p] = "ZOMBIE"
    <3> DEFINE e == RefreshWait(q, p)
    <3>1. e = [ready |-> q.ready, wait |-> RemoveFirst(q.wait, p), zombie |-> Append(q.zombie, p),
               state |-> [q.state EXCEPT ![Kpagd] = "READY"], counter |-> q.counter]
      BY <1>1, <2>2 DEF RefreshWait
    <3> HIDE DEF e
    <3>2. e \in QueueSets /\ e.ready = q.ready /\ e.wait = RemoveFirst(q.wait, p)
          /\ e.zombie = Append(q.zombie, p)
      BY <1>1, <1>3, <1>4, <3>1 DEF QueueSets
    <3>3. /\ ToSet(q.ready) \subseteq born /\ ToSet(RemoveFirst(q.wait, p)) \subseteq born
          /\ ToSet(Append(q.zombie, p)) \subseteq born /\ ToSet(zombie) \subseteq ToSet(Append(q.zombie, p))
      BY <1>1, <1>4
    <3>4. Sorting(e)
      BY <3>2, <3>3 DEF Sorting, Listed
    <3>5. QED
      BY <3>4 DEF e
  <2>3. CASE q.state[p] \notin {"READY", "ZOMBIE"}
    BY <2>3 DEF RefreshWait
  <2>4. QED
    BY <2>1, <2>2, <2>3
<1>7. QED
  BY <1>5, <1>6

\* The loop over the ready tasks has a run, and its end is what the loop leaves.
LEMMA ReadyRun ==
    ASSUME Typed
    PROVE  \E g : /\ g[0] = Queues
                  /\ \A k \in 1 .. Len(ready) : g[k] = RefreshReady(g[k - 1], ready[k])
                  /\ RefreshedReady = g[Len(ready)]
<1> DEFINE T == {q \in QueueSets : Sorting(q)}
           n == Len(ready)
           F == [k \in 1 .. n |-> [q \in T |-> RefreshReady(q, ready[k])]]
           Run(g) == g = [k \in 0 .. n |->
                            IF k = 0 THEN Queues ELSE RefreshReady(g[k - 1], ready[k])]
<1>1. /\ n \in Nat /\ born \subseteq Task
      /\ \A k \in 1 .. n : ready[k] \in born
  BY Members DEF Typed
<1>2. Queues \in T
  <2>1. Queues \in QueueSets /\ Listed(Queues) \subseteq born /\ Queues.zombie = zombie
    BY DEF Typed, Queues, QueueSets, Listed
  <2>2. QED
    BY <2>1 DEF Sorting
<1>3. ASSUME NEW k \in 1 .. n, NEW q \in T PROVE RefreshReady(q, ready[k]) \in T
  BY <1>1, RefreshSorts DEF Sorting
<1> HIDE DEF T
<1>4. F \in [1 .. n -> [T -> T]]
  BY <1>3
<1>5. PICK g \in [0 .. n -> T] : g[0] = Queues /\ \A k \in 1 .. n : g[k] = F[k][g[k - 1]]
  <2> HIDE DEF F, n
  <2>1. QED
    BY <1>1, <1>2, <1>4, LoopExists, SMTT(20)
<1>6. ASSUME NEW k \in 0 .. n
      PROVE  g[k] = IF k = 0 THEN Queues ELSE RefreshReady(g[k - 1], ready[k])
  <2>1. CASE k = 0
    BY <1>5, <2>1
  <2>2. CASE k # 0
    <3>1. k \in 1 .. n /\ g[k - 1] \in T
      BY <1>1, <1>5, <2>2
    <3>2. F[k][g[k - 1]] = RefreshReady(g[k - 1], ready[k])
      BY <3>1
    <3> HIDE DEF F
    <3>3. QED
      BY <1>5, <2>2, <3>1, <3>2
  <2>3. QED
    BY <2>1, <2>2
<1>7. Run(g)
  BY <1>5, <1>6
<1> DEFINE turn == CHOOSE h : Run(h)
<1>8. Run(turn)
  BY <1>7, Zenon
<1>9. RefreshedReady = turn[n]
  BY Zenon DEF RefreshedReady
<1> HIDE DEF turn
<1>10. turn[0] = Queues
       /\ \A k \in 1 .. n : turn[k] = RefreshReady(turn[k - 1], ready[k])
  BY <1>1, <1>8
<1>11. QED
  BY <1>9, <1>10

\* The same for the loop over the tasks that wait once the first loop has ended.
LEMMA WaitRun ==
    ASSUME Sorting(RefreshedReady), born \subseteq Task
    PROVE  \E g : /\ g[0] = RefreshedReady
                  /\ \A k \in 1 .. Len(RefreshedReady.wait) :
                        g[k] = RefreshWait(g[k - 1], RefreshedReady.wait[k])
                  /\ do_refresh_queues = g[Len(RefreshedReady.wait)]
<1> DEFINE r == RefreshedReady
           T == {q \in QueueSets : Sorting(q)}
           n == Len(r.wait)
           F == [k \in 1 .. n |-> [q \in T |-> RefreshWait(q, r.wait[k])]]
           Run(g) == g = [k \in 0 .. n |->
                            IF k = 0 THEN r ELSE RefreshWait(g[k - 1], r.wait[k])]
<1>0. r \in T
  BY DEF Sorting
<1>1. n \in Nat /\ \A k \in 1 .. n : r.wait[k] \in born
  <2>1. r \in QueueSets /\ Listed(r) \subseteq born
    BY DEF Sorting
  <2>2. r.wait \in Seq(Task) /\ ToSet(r.wait) \subseteq born
    BY <2>1 DEF QueueSets, Listed
  <2>3. QED
    BY <2>1, <2>2, Members
<1> HIDE DEF r
<1>2. ASSUME NEW k \in 1 .. n, NEW q \in T PROVE RefreshWait(q, r.wait[k]) \in T
  BY <1>1, RefreshSorts DEF Sorting
<1> HIDE DEF T
<1>3. F \in [1 .. n -> [T -> T]]
  BY <1>2
<1>4. PICK g \in [0 .. n -> T] : g[0] = r /\ \A k \in 1 .. n : g[k] = F[k][g[k - 1]]
  <2> HIDE DEF F, n
  <2>1. n \in Nat
    BY <1>1
  <2>2. QED
    BY <1>0, <1>3, <2>1, LoopExists, SMTT(20)
<1>5. ASSUME NEW k \in 0 .. n
      PROVE  g[k] = IF k = 0 THEN r ELSE RefreshWait(g[k - 1], r.wait[k])
  <2>1. CASE k = 0
    BY <1>4, <2>1
  <2>2. CASE k # 0
    <3>1. k \in 1 .. n /\ g[k - 1] \in T
      BY <1>1, <1>4, <2>2
    <3>2. F[k][g[k - 1]] = RefreshWait(g[k - 1], r.wait[k])
      BY <3>1
    <3> HIDE DEF F
    <3>3. QED
      BY <1>4, <2>2, <3>1, <3>2
  <2>3. QED
    BY <2>1, <2>2
<1>6. Run(g)
  BY <1>4, <1>5
<1> DEFINE turn == CHOOSE h : Run(h)
<1>7. Run(turn)
  BY <1>6, Zenon
<1>8. do_refresh_queues = turn[n]
  BY Zenon DEF do_refresh_queues, r
<1> HIDE DEF turn
<1>9. turn[0] = r /\ \A k \in 1 .. n : turn[k] = RefreshWait(turn[k - 1], r.wait[k])
  BY <1>1, <1>7, SMTT(40)
<1>10. QED
  BY <1>8, <1>9 DEF r

\* What holds before a loop and is kept by each of its turns holds after it.
LEMMA Turns ==
    ASSUME NEW n \in Nat, NEW S, 0 \in S, \A k \in 0 .. n - 1 : k \in S => k + 1 \in S
    PROVE  n \in S
<1> DEFINE D == {k \in Nat : k <= n => k \in S}
<1>1. 0 \in D
  OBVIOUS
<1>2. ASSUME NEW k \in D PROVE k + 1 \in D
  <2>1. SUFFICES ASSUME k + 1 <= n PROVE k + 1 \in S
    OBVIOUS
  <2>2. k \in 0 .. n - 1 /\ k \in S
    BY <2>1
  <2>3. QED
    BY <2>2
<1>3. D \in SUBSET Nat
  OBVIOUS
<1> HIDE DEF D
<1>4. n \in D
  BY <1>1, <1>2, <1>3, Inductive
<1>5. QED
  BY <1>4 DEF D

\* The refresh keeps the queues in shape.
LEMMA RefreshedSorted ==
    ASSUME Typed
    PROVE  Sorting(RefreshedReady) /\ Sorting(do_refresh_queues)
<1>0. born \subseteq Task /\ ready \in Seq(Task) /\ Len(ready) \in Nat
      /\ \A k \in 1 .. Len(ready) : ready[k] \in born
  BY Members DEF Typed
<1>1. Sorting(RefreshedReady)
  <2>1. PICK g : /\ g[0] = Queues
                 /\ \A k \in 1 .. Len(ready) : g[k] = RefreshReady(g[k - 1], ready[k])
                 /\ RefreshedReady = g[Len(ready)]
    BY ReadyRun
  <2> DEFINE S == {k \in Nat : Sorting(g[k])}
  <2>2. 0 \in S
    <3>1. Queues \in QueueSets /\ Listed(Queues) \subseteq born /\ Queues.zombie = zombie
      BY DEF Typed, Queues, QueueSets, Listed
    <3>2. QED
      BY <2>1, <3>1 DEF Sorting
  <2>3. ASSUME NEW k \in 0 .. Len(ready) - 1, k \in S PROVE k + 1 \in S
    <3>1. k + 1 \in 1 .. Len(ready) /\ (k + 1) - 1 = k /\ k + 1 \in Nat
      BY <1>0
    <3>2. g[k + 1] = RefreshReady(g[k], ready[k + 1])
      BY <2>1, <3>1
    <3>3. QED
      BY <1>0, <2>3, <3>1, <3>2, RefreshSorts
  <2> HIDE DEF S
  <2>4. Len(ready) \in S
    BY <1>0, <2>2, <2>3, Turns
  <2>5. QED
    BY <2>1, <2>4 DEF S
<1>2. Sorting(do_refresh_queues)
  <2> DEFINE w == RefreshedReady.wait
  <2>0. Len(w) \in Nat /\ \A k \in 1 .. Len(w) : w[k] \in born
    <3>1. w \in Seq(Task) /\ ToSet(w) \subseteq born
      BY <1>1 DEF Sorting, QueueSets, Listed
    <3> HIDE DEF w
    <3>2. QED
      BY <3>1, Members
  <2>1. PICK g : /\ g[0] = RefreshedReady
                 /\ \A k \in 1 .. Len(w) : g[k] = RefreshWait(g[k - 1], w[k])
                 /\ do_refresh_queues = g[Len(w)]
    BY <1>0, <1>1, WaitRun
  <2> HIDE DEF w
  <2> DEFINE S == {k \in Nat : Sorting(g[k])}
  <2>2. 0 \in S
    BY <1>1, <2>1
  <2>3. ASSUME NEW k \in 0 .. Len(w) - 1, k \in S PROVE k + 1 \in S
    <3>1. k + 1 \in 1 .. Len(w) /\ (k + 1) - 1 = k /\ k + 1 \in Nat
      BY <2>0
    <3>2. g[k + 1] = RefreshWait(g[k], w[k + 1])
      BY <2>1, <3>1
    <3>3. QED
      BY <1>0, <2>0, <2>3, <3>1, <3>2, RefreshSorts
  <2> HIDE DEF S
  <2>4. Len(w) \in S
    BY <2>0, <2>2, <2>3, Turns
  <2>5. QED
    BY <2>1, <2>4 DEF S
<1>3. QED
  BY <1>1, <1>2

--------------------------------------------------------------------------------
(* Types, and who runs which code: the idle task and kpagd stay in their loops, and *)
(* no other task enters them.                                                      *)

IdlePcs == {"boot", "sched_boot", "sleep_idle", "sched_idle", "idle"}
PagerPcs == {"pick", "reap", "sleep_pager", "sched_pager"}

Stations ==
    /\ {Idle, Kpagd} \subseteq born
    /\ pc[Idle] \in IdlePcs /\ pc[Kpagd] \in PagerPcs
    /\ \A t \in Task \ {Idle, Kpagd} : pc[t] \notin IdlePcs \cup PagerPcs
    /\ IF pc[Kpagd] = "reap" THEN reaping \in ToSet(zombie) ELSE reaping = NoTask

(* The inductive invariant of the types.                                       *)
TypeInv == SemInv /\ Typed /\ Stations

\* What schedule() does to the queues, with their refresh or without.
LEMMA ScheduleTyped ==
    ASSUME TypeInv, schedule
    PROVE  /\ curr' \in Task /\ refresh' = FALSE
           /\ state' \in [Task -> States] /\ counter' \in [Task -> Priorities]
           /\ ready' \in Seq(Task) /\ wait' \in Seq(Task) /\ zombie' \in Seq(Task)
           /\ ToSet(ready') \cup ToSet(wait') \cup ToSet(zombie') \subseteq born
           /\ ToSet(zombie) \subseteq ToSet(zombie')
<1> DEFINE q == IF refresh THEN do_refresh_queues ELSE Queues
           c == [q.counter EXCEPT ![curr] = HIGH_PRIORITY]
<1>1. Sorting(q)
  <2>1. Sorting(Queues)
    <3>1. Queues \in QueueSets /\ Listed(Queues) \subseteq born /\ Queues.zombie = zombie
      BY DEF TypeInv, Typed, Queues, QueueSets, Listed
    <3>2. QED
      BY <3>1 DEF Sorting
  <2>2. Sorting(do_refresh_queues)
    BY RefreshedSorted DEF TypeInv
  <2>3. QED
    BY <2>1, <2>2
<1>2. /\ ready' = q.ready /\ wait' = q.wait /\ zombie' = q.zombie /\ state' = q.state
      /\ refresh' = FALSE
      /\ counter' = [t \in Task |->
                        IF t \in ToSet(q.ready) /\ c[t] > 2 * HIGH_PRIORITY
                        THEN c[t] - 1 ELSE c[t]]
  BY DEF schedule
<1>3. curr' \in Task
  BY ScheduleType
<1> HIDE DEF q
<1>4. /\ q.ready \in Seq(Task) /\ q.wait \in Seq(Task) /\ q.zombie \in Seq(Task)
      /\ q.state \in [Task -> States] /\ q.counter \in [Task -> Priorities]
      /\ Listed(q) \subseteq born /\ ToSet(zombie) \subseteq ToSet(q.zombie)
  BY <1>1 DEF Sorting, QueueSets
<1>5. counter' \in [Task -> Priorities]
  <2>1. c \in [Task -> Priorities]
    <3>1. HIGH_PRIORITY \in Priorities
      BY HighPriority DEF Priorities
    <3>2. QED
      BY <1>4, <3>1
  <2> HIDE DEF c
  <2>2. ASSUME NEW t \in Task
        PROVE  (IF t \in ToSet(q.ready) /\ c[t] > 2 * HIGH_PRIORITY
                THEN c[t] - 1 ELSE c[t]) \in Priorities
    <3>1. c[t] \in Int /\ 3 * HIGH_PRIORITY <= c[t] /\ c[t] <= HIGH_PRIORITY
      BY <2>1 DEF Priorities
    <3>2. QED
      BY <3>1, HighPriority DEF Priorities
  <2>3. QED
    BY <1>2, <2>2
<1>6. QED
  BY <1>2, <1>3, <1>4, <1>5 DEF Listed

\* A step of one task between two points of the same loop, or outside the loops, while
\* kpagd holds what it holds and no dead task is lost.
LEMMA StationsKept ==
    ASSUME TypeInv, NEW to, pc' = [pc EXCEPT ![curr] = to],
           pc[curr] \in IdlePcs <=> to \in IdlePcs,
           pc[curr] \in PagerPcs <=> to \in PagerPcs,
           pc[curr] # "reap", to # "reap", reaping' = reaping,
           born \subseteq born', ToSet(zombie) \subseteq ToSet(zombie')
    PROVE  Stations'
<1>1. pc \in [Task -> PCs] /\ curr \in Task /\ Stations
  BY DEF TypeInv, SemInv, Placed
<1>2. Idle \in Task /\ Kpagd \in Task /\ Idle # Kpagd
  BY TaskAssumption
<1>3. \A t \in Task : pc'[t] = IF t = curr THEN to ELSE pc[t]
  BY <1>1
<1>4. \A t \in Task : pc'[t] \in IdlePcs <=> pc[t] \in IdlePcs
  BY <1>3
<1>5. \A t \in Task : pc'[t] \in PagerPcs <=> pc[t] \in PagerPcs
  BY <1>3
<1>6. pc'[Kpagd] = "reap" <=> pc[Kpagd] = "reap"
  BY <1>2, <1>3
<1>7. QED
  BY <1>1, <1>2, <1>4, <1>5, <1>6 DEF Stations

\* The steps that only move a task.
LEMMA StationsSame ==
    ASSUME TypeInv, UNCHANGED <<pc, reaping>>,
           born \subseteq born', ToSet(zombie) \subseteq ToSet(zombie')
    PROVE  Stations'
BY DEF TypeInv, Stations

\* wakeup_task() of the head of a queue.
LEMMA WakeupTyped ==
    ASSUME Typed, NEW q \in Seq(Task), wakeup_head(q)
    PROVE  /\ state' \in [Task -> States] /\ refresh' \in BOOLEAN
           /\ \A t \in Task : state'[t] = state[t] \/ (t \in ToSet(q) /\ state'[t] = "READY")
           /\ ~refresh' => state' = state /\ ~refresh
<1>0. state \in [Task -> States] /\ refresh \in BOOLEAN
  BY DEF Typed
<1>1. CASE UNCHANGED <<state, refresh>>
  BY <1>0, <1>1
<1>2. CASE ~(q = <<>> \/ Head(q) \in freed)
  <2>1. Head(q) \in Task /\ Head(q) \in ToSet(q)
    BY <1>2, RotateQueue
  <2>2. /\ state' = [state EXCEPT ![Head(q)] = "READY"]
        /\ refresh' = (refresh \/ state[Head(q)] # "READY")
    BY <1>2 DEF wakeup_head
  <2>3. QED
    BY <1>0, <2>1, <2>2 DEF States
<1>3. QED
  BY <1>1, <1>2 DEF wakeup_head

\* A step of the semaphore, up to its queue.
LEMMA TryTypes ==
    ASSUME TypeInv, NEW s, NEW q \in Seq(Task), Try(s, q),
           pc[curr] \in {"down_failed", "down_retry"}
    PROVE  Typed' /\ Stations'
<1>1. Typed /\ curr \in Task
  BY DEF TypeInv, SemInv, Placed
<1>2. /\ waitq' \in Seq(Task)
      /\ state' \in [Task -> States] /\ refresh' \in BOOLEAN
  <2>1. CASE count' >= 0
    <3>1. waitq' = RemoveFirst(q, curr) /\ wakeup_head(RemoveFirst(q, curr))
      BY <2>1 DEF Try
    <3>2. RemoveFirst(q, curr) \in Seq(Task)
      BY RemoveQueue
    <3>3. QED
      BY <1>1, <3>1, <3>2, WakeupTyped
  <2>2. CASE ~(count' >= 0)
    BY <1>1, <2>2 DEF Try, Typed
  <2>3. QED
    BY <2>1, <2>2
<1>3. UNCHANGED <<born, process, freed, father, child, reaping, ready, wait, zombie, counter>>
  BY DEF Try
<1>4. Typed'
  BY <1>1, <1>2, <1>3 DEF Typed
<1>5. PICK to \in {"run", "sleep_down"} : pc' = [pc EXCEPT ![curr] = to]
  BY DEF Try
<1>6. Stations'
  BY <1>3, <1>5, StationsKept DEF IdlePcs, PagerPcs
<1>7. QED
  BY <1>4, <1>6

\* kill() changes states, fathers and the place of the caller.
LEMMA KillTypes ==
    ASSUME TypeInv, NEW p \in Task, kill(p), pc[curr] = "run"
    PROVE  Typed' /\ Stations'
<1>1. Typed /\ curr \in Task /\ pc \in [Task -> PCs]
  BY DEF TypeInv, SemInv, Placed
<1> DEFINE found == p \in Queued
           st1   == IF found THEN [state EXCEPT ![p] = "ZOMBIE"] ELSE state
           woken == IF found /\ father[p] # NoTask
                    THEN [st1 EXCEPT ![father[p]] = "READY"] ELSE st1
           dead  == Doomed(woken)
           st    == [t \in Task |-> IF t \in dead THEN "ZOMBIE" ELSE woken[t]]
<1>2. /\ state' = st
      /\ refresh' = (refresh \/ found \/ dead # {})
      /\ father' = [t \in Task |->
                      IF /\ t \in Queued
                         /\ father[t] # NoTask
                         /\ st[father[t]] = "ZOMBIE"
                      THEN NoTask ELSE father[t]]
      /\ pc' = [pc EXCEPT ![curr] = IF st[curr] = "ZOMBIE" THEN SchedPc.dead ELSE @]
      /\ UNCHANGED <<born, process, freed, child, reaping, ready, wait, zombie, counter,
                     curr, waitq>>
  BY DEF kill, sem
<1>3. woken \in [Task -> States]
  <2>1. st1 \in [Task -> States]
    BY <1>1 DEF Typed, States
  <2>2. QED
    BY <1>1, <2>1 DEF Typed, States
<1> HIDE DEF woken, dead
<1>4. st \in [Task -> States]
  BY <1>3 DEF States
<1> HIDE DEF st
<1>5. father' \in [Task -> Task \cup {NoTask}]
  BY <1>1, <1>2 DEF Typed
<1>6. Typed'
  BY <1>1, <1>2, <1>4, <1>5 DEF Typed
<1>7. PICK to \in {"run", "sched_dead"} : pc' = [pc EXCEPT ![curr] = to]
  BY <1>1, <1>2
<1>8. Stations'
  BY <1>2, <1>7, StationsKept DEF IdlePcs, PagerPcs
<1>9. QED
  BY <1>6, <1>8

\* The creation of a task that is neither the idle task nor kpagd.
LEMMA CreateTypes ==
    ASSUME TypeInv, NEW t \in Task \ born, NEW from \in {"run", "boot"},
           NEW call \in {"sched_create", "sched_boot"}, create(t, from, call),
           from = "boot" <=> call = "sched_boot",
           process' \subseteq born'
    PROVE  Typed' /\ Stations'
<1>1. /\ Typed /\ Stations /\ curr \in Task /\ pc \in [Task -> PCs] /\ pc[t] = "none"
      /\ pc[curr] = from /\ t # curr
  BY DEF TypeInv, SemInv, Placed, create
<1>2. /\ born' = born \cup {t}
      /\ UNCHANGED <<child, reaping, wait, curr, refresh, waitq>>
  BY DEF create, sem
<1>3. t \notin {Idle, Kpagd}
  BY <1>1 DEF Stations
<1>4. CASE /\ state' = [state EXCEPT ![t] = "READY"]
           /\ father' = [father EXCEPT ![t] = curr]
           /\ ready' = Append(ready, t)
           /\ counter' = [counter EXCEPT ![t] = HIGH_PRIORITY]
           /\ pc' = [pc EXCEPT ![curr] = call, ![t] = "run"]
           /\ UNCHANGED <<zombie, freed>>
  <2>1. ready' \in Seq(Task) /\ ToSet(ready') = ToSet(ready) \cup {t}
    BY <1>1, <1>4, AppendQueue DEF Typed
  <2>2. counter' \in [Task -> Priorities]
    BY <1>1, <1>4, HighPriority DEF Typed, Priorities
  <2>3. state' \in [Task -> States] /\ father' \in [Task -> Task \cup {NoTask}]
    BY <1>1, <1>4 DEF Typed, States
  <2>4. ToSet(ready') \cup ToSet(wait') \cup ToSet(zombie') \subseteq born'
    BY <1>1, <1>2, <1>4, <2>1 DEF Typed
  <2>5. Typed'
    BY <1>1, <1>2, <1>4, <2>1, <2>2, <2>3, <2>4 DEF Typed
  <2>6. \A u \in Task : pc'[u] = IF u = t THEN "run" ELSE IF u = curr THEN call ELSE pc[u]
    BY <1>1, <1>4
  <2>7. \A u \in Task \ {t} : pc'[u] \in IdlePcs <=> pc[u] \in IdlePcs
    BY <1>1, <2>6 DEF IdlePcs
  <2>8. \A u \in Task \ {t} : /\ pc'[u] \in PagerPcs <=> pc[u] \in PagerPcs
                              /\ pc'[u] = "reap" <=> pc[u] = "reap"
    BY <1>1, <2>6 DEF PagerPcs
  <2>9. pc'[t] \notin IdlePcs \cup PagerPcs
    BY <1>1, <2>6 DEF IdlePcs, PagerPcs
  <2>10. Stations'
    BY <1>1, <1>2, <1>3, <1>4, <2>7, <2>8, <2>9, TaskAssumption DEF Stations
  <2>11. QED
    BY <2>5, <2>10
<1>5. CASE /\ zombie' = Append(zombie, t)
           /\ freed' = freed \cup {t}
           /\ UNCHANGED <<state, father, ready, counter, pc>>
  <2>1. zombie' \in Seq(Task) /\ ToSet(zombie') = ToSet(zombie) \cup {t}
    BY <1>1, <1>5, AppendQueue DEF Typed
  <2>2. Typed'
    BY <1>1, <1>2, <1>5, <2>1 DEF Typed
  <2>3. Stations'
    BY <1>2, <1>5, <2>1, StationsSame
  <2>4. QED
    BY <2>2, <2>3
<1>6. QED
  BY <1>4, <1>5 DEF create

\* waitpid() remembers a task it found in the queues.
LEMMA WaitpidTypes ==
    ASSUME TypeInv, NEW c \in Task \cup {NoTask}, waitpid(c),
           pc[curr] \in {"run", "waitpid"}
    PROVE  Typed' /\ Stations'
<1>1. Typed /\ curr \in Task
  BY DEF TypeInv, SemInv, Placed
<1>2. WaitsFor(curr, c) # {} => FirstFound(curr, c) \in Task
  <2> DEFINE all == ready \o wait
             I == {i \in 1 .. Len(all) : all[i] \in WaitsFor(curr, c)}
  <2>1. SUFFICES ASSUME WaitsFor(curr, c) # {} PROVE FirstFound(curr, c) \in Task
    OBVIOUS
  <2>2. /\ ready \in Seq(Task) /\ wait \in Seq(Task)
        /\ all \in Seq(Task) /\ Len(all) \in Nat /\ Len(all) = Len(ready) + Len(wait)
        /\ Len(ready) \in Nat /\ Len(wait) \in Nat
        /\ \A i \in 1 .. Len(ready) : all[i] = ready[i]
        /\ \A i \in 1 .. Len(wait) : all[Len(ready) + i] = wait[i]
    BY <1>1 DEF Typed
  <2> HIDE DEF all
  <2>3. PICK p \in Queued : p \in WaitsFor(curr, c)
    BY <2>1 DEF WaitsFor
  <2>4. \E i \in 1 .. Len(all) : all[i] = p
    <3>1. CASE p \in ToSet(ready)
      <4>1. PICK i \in 1 .. Len(ready) : ready[i] = p
        BY <2>2, <3>1, Members
      <4>2. QED
        BY <2>2, <4>1
    <3>2. CASE p \in ToSet(wait)
      <4>1. PICK i \in 1 .. Len(wait) : wait[i] = p
        BY <2>2, <3>2, Members
      <4>2. Len(ready) + i \in 1 .. Len(all)
        BY <2>2
      <4>3. QED
        BY <2>2, <4>1, <4>2
    <3>3. QED
      BY <3>1, <3>2 DEF Queued
  <2>5. I # {} /\ I \in SUBSET Nat
    BY <2>3, <2>4
  <2>6. \E x \in I : \A y \in I : x <= y
    BY <2>5, LeastExists
  <2>7. Min(I) \in I
    BY <2>6 DEF Min
  <2>8. SelectInSeq(all, LAMBDA v : v \in WaitsFor(curr, c)) = Min(I)
    BY <2>5 DEF SelectInSeq
  <2>9. FirstFound(curr, c) = all[Min(I)]
    BY <2>8 DEF FirstFound, all
  <2> HIDE DEF I
  <2>10. Min(I) \in 1 .. Len(all)
    BY <2>7 DEF I
  <2>11. QED
    BY <2>2, <2>9, <2>10
<1>3. child' \in [Task -> Task \cup {NoTask}]
  BY <1>1, <1>2 DEF waitpid, Typed
<1>4. /\ UNCHANGED <<state, born, process, freed, father, reaping, ready, wait, zombie,
                     counter, refresh, waitq>>
  BY DEF waitpid, queues, sem
<1>5. Typed'
  BY <1>1, <1>3, <1>4 DEF Typed
<1>6. PICK to \in {"run", "sleep_waitpid"} : pc' = [pc EXCEPT ![curr] = to]
  BY DEF waitpid
<1>7. Stations'
  BY <1>4, <1>6, StationsKept DEF IdlePcs, PagerPcs
<1>8. QED
  BY <1>5, <1>7

\* Only kpagd picks and frees the dead.
LEMMA PagerRuns ==
    ASSUME TypeInv, pc[curr] \in PagerPcs
    PROVE  curr = Kpagd
BY TaskAssumption DEF TypeInv, SemInv, Placed, Stations, IdlePcs, PagerPcs

\* The dead task that kpagd picks goes to the end of its queue.
LEMMA PickTypes == TypeInv /\ pick => Typed' /\ Stations'
<1> SUFFICES ASSUME TypeInv, pick PROVE Typed' /\ Stations'
  OBVIOUS
<1>1. /\ Typed /\ Stations /\ curr \in Task /\ pc \in [Task -> PCs]
      /\ pc[curr] = "pick" /\ curr = Kpagd
  BY PagerRuns DEF TypeInv, SemInv, Placed, pick, PagerPcs
<1>2. UNCHANGED <<state, born, process, freed, father, child, ready, wait, counter,
                  refresh, waitq>>
  BY DEF pick, sem
<1>3. CASE zombie = <<>>
  <2>1. pc' = [pc EXCEPT ![curr] = "sleep_pager"] /\ UNCHANGED <<reaping, zombie>>
    BY <1>3 DEF pick
  <2>2. Typed'
    BY <1>1, <1>2, <2>1 DEF Typed
  <2>3. Stations'
    BY <1>1, <1>2, <2>1, StationsKept DEF IdlePcs, PagerPcs
  <2>4. QED
    BY <2>2, <2>3
<1>4. CASE zombie # <<>>
  <2>1. /\ reaping' = Head(zombie) /\ zombie' = Append(Tail(zombie), Head(zombie))
        /\ pc' = [pc EXCEPT ![curr] = "reap"]
    BY <1>4 DEF pick
  <2>2. /\ reaping' \in ToSet(zombie) /\ zombie' \in Seq(Task) /\ ToSet(zombie') = ToSet(zombie)
    BY <1>1, <1>4, <2>1, RotateQueue DEF Typed
  <2>3. Typed'
    BY <1>1, <1>2, <2>2 DEF Typed
  <2>4. /\ pc'[Kpagd] = "reap" /\ pc'[Kpagd] \in PagerPcs
        /\ \A t \in Task \ {Kpagd} : pc'[t] = pc[t]
    BY <1>1, <2>1 DEF PagerPcs
  <2>5. Stations'
    BY <1>1, <1>2, <2>2, <2>4, TaskAssumption DEF Stations
  <2>6. QED
    BY <2>3, <2>5
<1>5. QED
  BY <1>3, <1>4

\* It leaves the queue when it is freed.
LEMMA ReapTypes == TypeInv /\ reap => Typed' /\ Stations'
<1> SUFFICES ASSUME TypeInv, reap PROVE Typed' /\ Stations'
  OBVIOUS
<1>1. /\ Typed /\ Stations /\ curr \in Task /\ pc \in [Task -> PCs]
      /\ pc[curr] = "reap" /\ curr = Kpagd
  BY PagerRuns DEF TypeInv, SemInv, Placed, reap, PagerPcs
<1>2. reaping \in ToSet(zombie) /\ reaping \in born /\ reaping \in Task
  BY <1>1 DEF Stations, Typed
<1>3. /\ zombie' = RemoveFirst(zombie, reaping) /\ freed' = freed \cup {reaping}
      /\ reaping' = NoTask
      /\ state' = [state EXCEPT ![reaping] = "none"]
      /\ counter' = [counter EXCEPT ![reaping] = HIGH_PRIORITY]
      /\ pc' = [pc EXCEPT ![curr] = "pick"]
      /\ UNCHANGED <<born, process, father, child, ready, wait, refresh, waitq>>
  BY DEF reap, sem
<1>4. zombie' \in Seq(Task) /\ ToSet(zombie') \subseteq ToSet(zombie)
  BY <1>1, <1>3, RemoveQueue DEF Typed
<1>5. state' \in [Task -> States] /\ counter' \in [Task -> Priorities]
  <2>1. HIGH_PRIORITY \in Priorities
    BY HighPriority DEF Priorities
  <2>2. QED
    BY <1>1, <1>3, <2>1 DEF Typed, States
<1>6. Typed'
  BY <1>1, <1>2, <1>3, <1>4, <1>5 DEF Typed
<1>7. /\ pc'[Kpagd] = "pick" /\ pc'[Kpagd] \in PagerPcs
      /\ \A t \in Task \ {Kpagd} : pc'[t] = pc[t]
  BY <1>1, <1>3 DEF PagerPcs
<1>8. Stations'
  BY <1>1, <1>3, <1>7, TaskAssumption DEF Stations
<1>9. QED
  BY <1>6, <1>8

\* Every step keeps the types.
LEMMA NextTypes == TypeInv /\ [Next]_vars => TypeInv'
<1> SUFFICES ASSUME TypeInv, [Next]_vars PROVE Typed' /\ Stations'
  BY NextKeeps DEF TypeInv
<1>p. Typed /\ curr \in Task /\ born \subseteq Task
  BY DEF TypeInv, SemInv, Placed, Typed
<1>1. CASE clock_handler
  <2>1. UNCHANGED <<born, process, freed, father, child, reaping, pc, waitq>>
    BY <1>1 DEF clock_handler, sem
  <2>2. schedule
    BY <1>1 DEF clock_handler
  <2>3. Typed'
    BY <1>p, <2>1, <2>2, ScheduleTyped DEF Typed
  <2>4. Stations'
    BY <2>1, <2>2, ScheduleTyped, StationsSame
  <2>5. QED
    BY <2>3, <2>4
<1>2. CASE Calls_schedule
  <2>1. UNCHANGED <<born, process, freed, father, child, reaping, waitq>> /\ schedule
    BY <1>2 DEF Calls_schedule, sem
  <2>2. Typed'
    BY <1>p, <2>1, ScheduleTyped DEF Typed
  <2>3. PICK c \in DOMAIN After :
          pc[curr] = SchedPc[c] /\ pc' = [pc EXCEPT ![curr] = After[c]]
    BY <1>2 DEF Calls_schedule
  <2>4. /\ pc[curr] \in IdlePcs <=> After[c] \in IdlePcs
        /\ pc[curr] \in PagerPcs <=> After[c] \in PagerPcs
        /\ pc[curr] # "reap" /\ After[c] # "reap"
    BY <2>3 DEF After, IdlePcs, PagerPcs
  <2>5. Stations'
    BY <2>1, <2>3, <2>4, ScheduleTyped, StationsKept
  <2>6. QED
    BY <2>2, <2>5
<1>3. CASE sleep_task
  <2>1. /\ state' = [state EXCEPT ![curr] = "WAIT"]
        /\ refresh' = (refresh \/ state[curr] # "WAIT")
        /\ UNCHANGED <<born, process, freed, father, child, reaping, ready, wait, zombie,
                       counter, waitq>>
    BY <1>3 DEF sleep_task, sem
  <2>2. Typed'
    BY <1>p, <2>1 DEF Typed, States
  <2>3. PICK c \in DOMAIN SleepPc :
          pc[curr] = SleepPc[c] /\ pc' = [pc EXCEPT ![curr] = SchedPc[c]]
    BY <1>3 DEF sleep_task
  <2>4. /\ pc[curr] \in IdlePcs <=> SchedPc[c] \in IdlePcs
        /\ pc[curr] \in PagerPcs <=> SchedPc[c] \in PagerPcs
        /\ pc[curr] # "reap" /\ SchedPc[c] # "reap"
    BY <2>3 DEF IdlePcs, PagerPcs
  <2>5. Stations'
    BY <2>1, <2>3, <2>4, StationsKept
  <2>6. QED
    BY <2>2, <2>5
<1>4. CASE DOWN
  <2>1. UNCHANGED <<state, born, process, freed, father, child, reaping, ready, wait,
                    zombie, counter, refresh, waitq>> /\ pc[curr] = "run"
    BY <1>4 DEF DOWN, Running, tasks, queues
  <2>2. Typed'
    BY <1>p, <2>1 DEF Typed
  <2>3. pc' = pc \/ pc' = [pc EXCEPT ![curr] = "down_failed"]
    BY <1>4 DEF DOWN
  <2>4. Stations'
    BY <2>1, <2>3, StationsKept, StationsSame DEF IdlePcs, PagerPcs
  <2>5. QED
    BY <2>2, <2>4
<1>5. CASE down_failed
  <2>1. Append(waitq, curr) \in Seq(Task)
    BY <1>p, AppendQueue DEF Typed
  <2>2. QED
    BY <1>5, <2>1, TryTypes DEF down_failed
<1>6. CASE down_retry
  BY <1>p, <1>6, TryTypes DEF down_retry, Typed
<1>7. CASE UP
  <2>1. UNCHANGED <<state, born, process, freed, father, child, reaping, ready, wait,
                    zombie, counter, refresh, waitq>> /\ pc[curr] = "run"
    BY <1>7 DEF UP, Running, tasks, queues
  <2>2. Typed'
    BY <1>p, <2>1 DEF Typed
  <2>3. PICK to \in {"run", "up_wakeup"} : pc' = [pc EXCEPT ![curr] = to]
    BY <1>7 DEF UP
  <2>4. Stations'
    BY <2>1, <2>3, StationsKept DEF IdlePcs, PagerPcs
  <2>5. QED
    BY <2>2, <2>4
<1>8. CASE up_wakeup
  <2>1. /\ wakeup_head(waitq) /\ pc[curr] = "up_wakeup" /\ pc' = [pc EXCEPT ![curr] = "run"]
        /\ UNCHANGED <<born, process, freed, father, child, reaping, ready, wait, zombie,
                       counter, waitq>>
    BY <1>8 DEF up_wakeup, sem
  <2>2. state' \in [Task -> States] /\ refresh' \in BOOLEAN
    BY <1>p, <2>1, WakeupTyped DEF Typed
  <2>3. Typed'
    BY <1>p, <2>1, <2>2 DEF Typed
  <2>4. Stations'
    BY <2>1, StationsKept DEF IdlePcs, PagerPcs
  <2>5. QED
    BY <2>3, <2>4
<1>9. CASE Kill
  <2>1. PICK p \in born : pc[curr] = "run" /\ kill(p)
    BY <1>9, Zenon DEF Kill, Running
  <2>2. QED
    BY <1>p, <2>1, KillTypes
<1>10. CASE auto_kill
  BY <1>p, <1>10, KillTypes DEF auto_kill, Running
<1>11. CASE create_thread
  <2>1. PICK t \in Task \ (born \cup Shells) : create(t, "run", "sched_create")
    BY <1>11 DEF create_thread
  <2>2. process' = process /\ born' = born \cup {t}
    BY <1>11, <2>1 DEF create_thread, create
  <2>3. process' \subseteq born'
    BY <1>p, <2>2 DEF Typed
  <2>4. QED
    BY <2>1, <2>3, CreateTypes
<1>12. CASE do_fork
  <2>1. PICK t \in Task \ (born \cup Shells) :
          create(t, "run", "sched_create") /\ process' = process \cup {t}
    BY <1>12 DEF do_fork
  <2>2. born' = born \cup {t}
    BY <2>1 DEF create
  <2>3. process' \subseteq born'
    BY <1>p, <2>1, <2>2 DEF Typed
  <2>4. QED
    BY <2>1, <2>3, CreateTypes
<1>13. CASE k_main
  <2>1. PICK t \in Shells \ born : create(t, "boot", "sched_boot")
    BY <1>13 DEF k_main
  <2>2. process' = process /\ born' = born \cup {t} /\ t \in Task \ born
    BY <1>13, <2>1, TaskAssumption DEF k_main, create
  <2>3. process' \subseteq born'
    BY <1>p, <2>2 DEF Typed
  <2>4. QED
    BY <2>1, <2>2, <2>3, CreateTypes
<1>14. CASE Waitpid
  <2>1. PICK c \in Task \cup {NoTask} : waitpid(c) /\ pc[curr] \in {"run", "waitpid"}
    BY <1>p, <1>14 DEF Waitpid, Running, Typed
  <2>2. QED
    BY <2>1, WaitpidTypes
<1>15. CASE init_done
  <2>1. /\ pc[curr] \in {"boot", "idle"} /\ pc' = [pc EXCEPT ![curr] = "sleep_idle"]
        /\ UNCHANGED <<state, born, process, freed, father, child, reaping, ready, wait,
                       zombie, counter, refresh, waitq>>
    BY <1>15 DEF init_done, tasks, queues, sem
  <2>2. Typed'
    BY <1>p, <2>1 DEF Typed
  <2>3. Stations'
    BY <2>1, StationsKept DEF IdlePcs, PagerPcs
  <2>4. QED
    BY <2>2, <2>3
<1>16. CASE pick
  BY <1>16, PickTypes
<1>17. CASE reap
  BY <1>17, ReapTypes
<1>18. CASE UNCHANGED vars
  <2>1. UNCHANGED <<state, born, process, freed, father, child, reaping, ready, wait,
                    zombie, counter, refresh, waitq, pc>>
    BY <1>18 DEF vars, tasks, queues, sem
  <2>2. Typed'
    BY <1>p, <2>1 DEF Typed
  <2>3. QED
    BY <2>1, <2>2, StationsSame
<1>19. QED
  BY <1>1, <1>2, <1>3, <1>4, <1>5, <1>6, <1>7, <1>8, <1>9, <1>10, <1>11, <1>12, <1>13,
     <1>14, <1>15, <1>16, <1>17, <1>18 DEF Next

\* At boot there are the idle task and kpagd.
LEMMA InitTypes == Init => TypeInv
<1> SUFFICES ASSUME Init PROVE Typed /\ Stations
  BY InitSem DEF TypeInv
<1>1. ready = <<Idle, Kpagd>> /\ wait = <<>> /\ zombie = <<>> /\ waitq = <<>>
      /\ {Idle, Kpagd} \subseteq Task /\ born = {Idle, Kpagd}
  BY TaskAssumption DEF Init
<1>2. /\ ready \in Seq(Task) /\ wait \in Seq(Task) /\ zombie \in Seq(Task)
      /\ waitq \in Seq(Task)
      /\ ToSet(ready) \cup ToSet(wait) \cup ToSet(zombie) \subseteq born
  BY <1>1 DEF ToSet
<1>3. counter \in [Task -> Priorities]
  BY HighPriority DEF Init, Priorities
<1>4. Typed
  BY <1>1, <1>2, <1>3 DEF Init, Typed, States
<1>5. Stations
  BY TaskAssumption DEF Init, Stations, IdlePcs, PagerPcs
<1>6. QED
  BY <1>4, <1>5

\* What the types are for.
LEMMA TypesOK == TypeInv => TypeOK
BY DEF TypeInv, SemInv, Placed, Typed, Priorities, TypeOK

\* The type invariant: whatever is interrupted, killed, or fails for want of memory, the
\* dynamic priorities of schedule() stay within their bounds and every queue holds tasks.
THEOREM RighiTypeCorrect == Spec => []TypeOK
BY InitTypes, NextTypes, TypesOK, PTL DEF Spec

--------------------------------------------------------------------------------
(* The queues hold every task once, and no father dies before his children are     *)
(* told, so that none is freed while it is still named.                            *)

Alive == {t \in Task : state[t] \in {"READY", "WAIT"}}

(* Every task that is not freed is in one of the queues a, b and c, once.      *)
Once(a, b, c) ==
    /\ IsInjective(a) /\ IsInjective(b) /\ IsInjective(c)
    /\ ToSet(a) \cap ToSet(b) = {}
    /\ ToSet(a) \cap ToSet(c) = {}
    /\ ToSet(b) \cap ToSet(c) = {}
    /\ ToSet(a) \cup ToSet(b) \cup ToSet(c) = born \ freed

Unborn == \A t \in Task : state[t] = "none" <=> t \notin born \ freed

(* A queue z of the dead: a child is in it before its father, but for the one that *)
(* kpagd has picked, which is the father of none that is left.                     *)
Graves(z) ==
    /\ \A t \in ToSet(z) : state[t] = "ZOMBIE" /\ father[t] \notin freed
    /\ \A x, y \in ToSet(z) : Before(z, x, y) /\ reaping \notin {x, y} => father[y] # x
    /\ reaping # NoTask => \A y \in ToSet(z) : y # reaping => father[y] # reaping

(* The idle task and kpagd never die.                                          *)
Roots ==
    /\ Idle \in Alive /\ Kpagd \in Alive
    /\ Idle \in process /\ Kpagd \notin process
    /\ father[Kpagd] = Idle /\ father[Idle] = NoTask

(* The running task: one that has killed itself is about to leave the processor. *)
Runs ==
    /\ state[curr] = "ZOMBIE" => pc[curr] = "sched_dead"
    /\ curr = Idle \/ curr \in ToSet(ready)

(* Until a refresh is asked for, the ready queue is that of the ready tasks.   *)
Fresh == ~refresh => \A t \in ToSet(ready) : state[t] = "READY"

(* The father of a task in the two queues is alive; a thread that has lost its *)
(* father is dead.                                                             *)
Fathers ==
    \A t \in Queued :
        /\ father[t] # NoTask => father[t] \in Alive
        /\ father[t] = NoTask /\ t \notin process => state[t] = "ZOMBIE"

Lives ==
    /\ Once(ready, wait, zombie)
    /\ Unborn
    /\ Graves(zombie)
    /\ Roots
    /\ Runs
    /\ Fresh
    /\ ToSet(waitq) \subseteq Alive
    /\ Fathers

(* What the lives of the tasks depend on: memory lasts, and a task that waits for  *)
(* a semaphore is not killed.                                                      *)
Spared == FALSE \notin Allocates /\ KillWaiters = FALSE

LifeInv == TypeInv /\ Lives

\* The order in which the three queues are named does not matter, and a task that goes
\* from one to another is still once in them.
LEMMA OnceMoves ==
    ASSUME NEW a \in Seq(Task), NEW b \in Seq(Task), NEW c \in Seq(Task),
           Once(a, b, c), NEW p \in ToSet(a)
    PROVE  /\ Once(b, a, c) /\ Once(c, b, a)
           /\ Once(RemoveFirst(a, p), Append(b, p), c)
           /\ Once(RemoveFirst(a, p), b, Append(c, p))
           /\ ToSet(RemoveFirst(a, p)) = ToSet(a) \ {p}
<1>1. /\ IsInjective(a) /\ IsInjective(b) /\ IsInjective(c)
      /\ ToSet(a) \cap ToSet(b) = {}
      /\ ToSet(a) \cap ToSet(c) = {}
      /\ ToSet(b) \cap ToSet(c) = {}
      /\ ToSet(a) \cup ToSet(b) \cup ToSet(c) = born \ freed
  BY DEF Once
<1>2. p \in Task
  BY Members
<1>3. /\ IsInjective(RemoveFirst(a, p)) /\ ToSet(RemoveFirst(a, p)) = ToSet(a) \ {p}
  BY <1>1, RemoveQueue
<1>4. ASSUME NEW s \in Seq(Task), IsInjective(s), p \notin ToSet(s)
      PROVE  IsInjective(Append(s, p)) /\ ToSet(Append(s, p)) = ToSet(s) \cup {p}
  BY <1>2, <1>4, AppendQueue
<1>5. p \notin ToSet(b) /\ p \notin ToSet(c)
  BY <1>1
<1>6. /\ IsInjective(Append(b, p)) /\ ToSet(Append(b, p)) = ToSet(b) \cup {p}
      /\ IsInjective(Append(c, p)) /\ ToSet(Append(c, p)) = ToSet(c) \cup {p}
  BY <1>1, <1>4, <1>5
<1>7. Once(b, a, c) /\ Once(c, b, a)
  BY <1>1 DEF Once
<1>8. Once(RemoveFirst(a, p), Append(b, p), c)
  BY <1>1, <1>3, <1>5, <1>6 DEF Once
<1>9. Once(RemoveFirst(a, p), b, Append(c, p))
  BY <1>1, <1>3, <1>5, <1>6 DEF Once
<1>10. QED
  BY <1>3, <1>7, <1>8, <1>9

\* A task that dies in a queue comes after its children among the dead.
LEMMA GravesGrow ==
    ASSUME LifeInv, NEW z \in Seq(Task), Graves(z), NEW p \in Queued,
           p \notin ToSet(z), state[p] = "ZOMBIE"
    PROVE  Graves(Append(z, p))
<1>1. Typed /\ Stations /\ Unborn /\ Graves(zombie) /\ Fathers
  BY DEF LifeInv, TypeInv, Lives
<1>2. p \in Task /\ ToSet(z) \subseteq Task
  BY <1>1, Members DEF Typed, Queued
<1>3. father[p] = NoTask \/ father[p] \in Alive
  BY <1>1 DEF Fathers
<1>4. father[p] \notin freed
  BY <1>1, <1>3, TaskAssumption DEF Unborn, Alive, Typed
<1>5. \A x \in ToSet(z) : father[p] # x
  BY <1>2, <1>3, TaskAssumption DEF Graves, Alive
<1>6. reaping # NoTask => father[p] # reaping
  <2>1. reaping # NoTask => reaping \in ToSet(zombie)
    BY <1>1 DEF Stations
  <2>2. reaping # NoTask => state[reaping] = "ZOMBIE"
    BY <1>1, <2>1 DEF Graves
  <2>3. QED
    BY <1>3, <2>2 DEF Alive
<1>7. /\ ToSet(Append(z, p)) = ToSet(z) \cup {p}
      /\ \A x, y : Before(Append(z, p), x, y) => Before(z, x, y) \/ (x \in ToSet(z) /\ y = p)
  BY <1>2, AppendQueue
<1>8. ASSUME NEW x \in ToSet(Append(z, p)), NEW y \in ToSet(Append(z, p)),
             Before(Append(z, p), x, y), reaping \notin {x, y}
      PROVE  father[y] # x
  <2>1. CASE Before(z, x, y)
    <3>1. x \in ToSet(z) /\ y \in ToSet(z)
      BY <2>1 DEF Before, ToSet
    <3>2. QED
      BY <1>8, <2>1, <3>1 DEF Graves
  <2>2. CASE x \in ToSet(z) /\ y = p
    BY <1>5, <2>2
  <2>3. QED
    BY <1>7, <1>8, <2>1, <2>2
<1>9. \A t \in ToSet(Append(z, p)) : state[t] = "ZOMBIE" /\ father[t] \notin freed
  BY <1>4, <1>7 DEF Graves
<1>10. reaping # NoTask =>
          \A y \in ToSet(Append(z, p)) : y # reaping => father[y] # reaping
  BY <1>6, <1>7 DEF Graves
<1>11. QED
  BY <1>8, <1>9, <1>10 DEF Graves

(* The queues inside the refresh, whatever its loops have done so far.         *)
Refreshing(q) ==
    /\ Sorting(q)
    /\ Once(q.ready, q.wait, q.zombie)
    /\ Graves(q.zombie)
    /\ ToSet(q.ready) \cup ToSet(q.wait) \subseteq Queued
    /\ \A t \in Task : q.state[t] = state[t] \/ (t = Kpagd /\ q.state[t] = "READY")

\* A turn of the first loop leaves the task ready or takes it out of the queue.
LEMMA ReadyTurn ==
    ASSUME LifeInv, NEW q, Refreshing(q), NEW p \in ToSet(q.ready)
    PROVE  LET e == RefreshReady(q, p)
           IN  /\ Refreshing(e)
               /\ ToSet(q.ready) \ {p} \subseteq ToSet(e.ready)
               /\ \A t \in ToSet(e.ready) :
                     /\ t \in ToSet(q.ready)
                     /\ q.state[t] = "READY" \/ t = p => e.state[t] = "READY"
<1> DEFINE e == RefreshReady(q, p)
<1>1. /\ q.ready \in Seq(Task) /\ q.wait \in Seq(Task) /\ q.zombie \in Seq(Task)
      /\ q.state \in [Task -> States] /\ q.counter \in [Task -> Priorities]
      /\ q = [ready |-> q.ready, wait |-> q.wait, zombie |-> q.zombie,
              state |-> q.state, counter |-> q.counter]
      /\ ToSet(q.ready) \subseteq born
  BY DEF Refreshing, Sorting, QueueSets, Listed
<1>2. /\ Typed /\ Unborn /\ Kpagd \in Task /\ Sorting(q)
      /\ Once(q.ready, q.wait, q.zombie) /\ Graves(q.zombie)
      /\ ToSet(q.ready) \cup ToSet(q.wait) \subseteq Queued
      /\ \A t \in Task : q.state[t] = state[t] \/ (t = Kpagd /\ q.state[t] = "READY")
  BY TaskAssumption DEF LifeInv, TypeInv, Lives, Refreshing
<1>3. p \in born /\ born \subseteq Task /\ p \in Task /\ p \in Queued
  BY <1>1, <1>2 DEF Typed
<1>4. Sorting(e)
  BY <1>2, <1>3, RefreshSorts
<1>5. p \notin ToSet(q.zombie) /\ q.state[p] # "none"
  BY <1>2, <1>3 DEF Once, Unborn
<1>6. /\ Once(RemoveFirst(q.ready, p), Append(q.wait, p), q.zombie)
      /\ Once(RemoveFirst(q.ready, p), q.wait, Append(q.zombie, p))
      /\ ToSet(RemoveFirst(q.ready, p)) = ToSet(q.ready) \ {p}
      /\ ToSet(Append(q.wait, p)) = ToSet(q.wait) \cup {p}
  BY <1>1, <1>2, <1>3, OnceMoves, AppendQueue
<1>7. CASE q.state[p] = "WAIT"
  <2>1. e = [ready |-> RemoveFirst(q.ready, p), wait |-> Append(q.wait, p),
             zombie |-> q.zombie, state |-> q.state, counter |-> q.counter]
    BY <1>1, <1>7 DEF RefreshReady
  <2> HIDE DEF e
  <2>2. /\ e.ready = RemoveFirst(q.ready, p) /\ e.wait = Append(q.wait, p)
        /\ e.zombie = q.zombie /\ e.state = q.state
    BY <2>1
  <2>3. ToSet(e.ready) \cup ToSet(e.wait) \subseteq Queued
    BY <1>2, <1>3, <1>6, <2>2
  <2>4. Refreshing(e)
    BY <1>2, <1>4, <1>6, <2>2, <2>3 DEF Refreshing
  <2>5. ToSet(e.ready) = ToSet(q.ready) \ {p}
    BY <1>6, <2>2
  <2>6. /\ ToSet(q.ready) \ {p} \subseteq ToSet(e.ready)
        /\ \A t \in ToSet(e.ready) :
              /\ t \in ToSet(q.ready)
              /\ q.state[t] = "READY" \/ t = p => e.state[t] = "READY"
    BY <2>2, <2>5
  <2>7. QED
    BY <2>4, <2>6 DEF e
<1>8. CASE q.state[p] = "ZOMBIE"
  <2>1. e = [ready |-> RemoveFirst(q.ready, p), wait |-> q.wait,
             zombie |-> Append(q.zombie, p),
             state |-> [q.state EXCEPT ![Kpagd] = "READY"], counter |-> q.counter]
    BY <1>1, <1>8 DEF RefreshReady
  <2> HIDE DEF e
  <2>2. /\ e.ready = RemoveFirst(q.ready, p) /\ e.wait = q.wait
        /\ e.zombie = Append(q.zombie, p) /\ e.state = [q.state EXCEPT ![Kpagd] = "READY"]
    BY <2>1
  <2>3. \A t \in Task : e.state[t] = IF t = Kpagd THEN "READY" ELSE q.state[t]
    BY <1>1, <1>2, <2>2
  <2>4. state[p] = "ZOMBIE"
    BY <1>2, <1>3, <1>8
  <2>5. Graves(Append(q.zombie, p))
    BY <1>1, <1>2, <1>3, <1>5, <2>4, GravesGrow
  <2>6. ToSet(e.ready) \cup ToSet(e.wait) \subseteq Queued
    BY <1>2, <1>6, <2>2
  <2>7. Refreshing(e)
    BY <1>2, <1>4, <1>6, <2>2, <2>3, <2>5, <2>6 DEF Refreshing
  <2>8. ToSet(e.ready) = ToSet(q.ready) \ {p} /\ ToSet(q.ready) \subseteq Task
    BY <1>1, <1>3, <1>6, <2>2
  <2>9. /\ ToSet(q.ready) \ {p} \subseteq ToSet(e.ready)
        /\ \A t \in ToSet(e.ready) :
              /\ t \in ToSet(q.ready)
              /\ q.state[t] = "READY" \/ t = p => e.state[t] = "READY"
    BY <2>3, <2>8
  <2>10. QED
    BY <2>7, <2>9 DEF e
<1>9. CASE q.state[p] \notin {"WAIT", "ZOMBIE"}
  <2>1. e = q
    BY <1>9 DEF RefreshReady
  <2>2. q.state[p] = "READY"
    BY <1>1, <1>3, <1>5, <1>9 DEF States
  <2> HIDE DEF e
  <2>3. /\ Refreshing(e)
        /\ ToSet(q.ready) \ {p} \subseteq ToSet(e.ready)
        /\ \A t \in ToSet(e.ready) :
              /\ t \in ToSet(q.ready)
              /\ q.state[t] = "READY" \/ t = p => e.state[t] = "READY"
    BY <2>1, <2>2
  <2>4. QED
    BY <2>3 DEF e
<1>10. QED
  BY <1>7, <1>8, <1>9

\* A turn of the second loop adds nothing to the ready queue but a ready task.
LEMMA WaitTurn ==
    ASSUME LifeInv, NEW q, Refreshing(q), NEW p \in ToSet(q.wait)
    PROVE  LET e == RefreshWait(q, p)
           IN  /\ Refreshing(e)
               /\ ToSet(q.wait) \ {p} \subseteq ToSet(e.wait)
               /\ \A t \in ToSet(e.ready) :
                     (t \in ToSet(q.ready) /\ q.state[t] # "READY") \/ e.state[t] = "READY"
<1> DEFINE e == RefreshWait(q, p)
<1>1. /\ q.ready \in Seq(Task) /\ q.wait \in Seq(Task) /\ q.zombie \in Seq(Task)
      /\ q.state \in [Task -> States] /\ q.counter \in [Task -> Priorities]
      /\ q = [ready |-> q.ready, wait |-> q.wait, zombie |-> q.zombie,
              state |-> q.state, counter |-> q.counter]
      /\ ToSet(q.wait) \subseteq born /\ ToSet(q.ready) \subseteq born
  BY DEF Refreshing, Sorting, QueueSets, Listed
<1>2. /\ Typed /\ Kpagd \in Task /\ Sorting(q)
      /\ Once(q.ready, q.wait, q.zombie) /\ Graves(q.zombie)
      /\ ToSet(q.ready) \cup ToSet(q.wait) \subseteq Queued
      /\ \A t \in Task : q.state[t] = state[t] \/ (t = Kpagd /\ q.state[t] = "READY")
  BY TaskAssumption DEF LifeInv, TypeInv, Lives, Refreshing
<1>3. p \in born /\ born \subseteq Task /\ p \in Task /\ p \in Queued
  BY <1>1, <1>2 DEF Typed
<1>4. Sorting(e)
  BY <1>2, <1>3, RefreshSorts
<1>5. p \notin ToSet(q.zombie)
  BY <1>2 DEF Once
<1>6. /\ Once(Append(q.ready, p), RemoveFirst(q.wait, p), q.zombie)
      /\ Once(q.ready, RemoveFirst(q.wait, p), Append(q.zombie, p))
      /\ ToSet(RemoveFirst(q.wait, p)) = ToSet(q.wait) \ {p}
      /\ ToSet(Append(q.ready, p)) = ToSet(q.ready) \cup {p}
  <2>1. Once(q.wait, q.ready, q.zombie)
    BY <1>2 DEF Once
  <2>2. /\ Once(RemoveFirst(q.wait, p), Append(q.ready, p), q.zombie)
        /\ Once(RemoveFirst(q.wait, p), q.ready, Append(q.zombie, p))
        /\ ToSet(RemoveFirst(q.wait, p)) = ToSet(q.wait) \ {p}
    BY <1>1, <2>1, OnceMoves
  <2>3. ToSet(Append(q.ready, p)) = ToSet(q.ready) \cup {p}
    BY <1>1, <1>3, AppendQueue
  <2>4. QED
    BY <2>2, <2>3 DEF Once
<1>7. CASE q.state[p] = "READY"
  <2>1. e = [ready |-> Append(q.ready, p), wait |-> RemoveFirst(q.wait, p),
             zombie |-> q.zombie, state |-> q.state,
             counter |-> [q.counter EXCEPT ![p] = 3 * HIGH_PRIORITY]]
    BY <1>1, <1>7 DEF RefreshWait
  <2> HIDE DEF e
  <2>2. /\ e.ready = Append(q.ready, p) /\ e.wait = RemoveFirst(q.wait, p)
        /\ e.zombie = q.zombie /\ e.state = q.state
    BY <2>1
  <2>3. ToSet(e.ready) \cup ToSet(e.wait) \subseteq Queued
    BY <1>2, <1>3, <1>6, <2>2
  <2>4. Refreshing(e)
    BY <1>2, <1>4, <1>6, <2>2, <2>3 DEF Refreshing
  <2>5. ToSet(e.wait) = ToSet(q.wait) \ {p} /\ ToSet(e.ready) = ToSet(q.ready) \cup {p}
    BY <1>6, <2>2
  <2>6. /\ ToSet(q.wait) \ {p} \subseteq ToSet(e.wait)
        /\ \A t \in ToSet(e.ready) :
              (t \in ToSet(q.ready) /\ q.state[t] # "READY") \/ e.state[t] = "READY"
    BY <1>7, <2>2, <2>5
  <2>7. QED
    BY <2>4, <2>6 DEF e
<1>8. CASE q.state[p] = "ZOMBIE"
  <2>1. e = [ready |-> q.ready, wait |-> RemoveFirst(q.wait, p),
             zombie |-> Append(q.zombie, p),
             state |-> [q.state EXCEPT ![Kpagd] = "READY"], counter |-> q.counter]
    BY <1>1, <1>8 DEF RefreshWait
  <2> HIDE DEF e
  <2>2. /\ e.ready = q.ready /\ e.wait = RemoveFirst(q.wait, p)
        /\ e.zombie = Append(q.zombie, p) /\ e.state = [q.state EXCEPT ![Kpagd] = "READY"]
    BY <2>1
  <2>3. \A t \in Task : e.state[t] = IF t = Kpagd THEN "READY" ELSE q.state[t]
    BY <1>1, <1>2, <2>2
  <2>4. state[p] = "ZOMBIE"
    BY <1>2, <1>3, <1>8
  <2>5. Graves(Append(q.zombie, p))
    BY <1>1, <1>2, <1>3, <1>5, <2>4, GravesGrow
  <2>6. ToSet(e.ready) \cup ToSet(e.wait) \subseteq Queued
    BY <1>2, <1>6, <2>2
  <2>7. Refreshing(e)
    BY <1>2, <1>4, <1>6, <2>2, <2>3, <2>5, <2>6 DEF Refreshing
  <2>8. ToSet(e.wait) = ToSet(q.wait) \ {p} /\ ToSet(q.ready) \subseteq Task
    BY <1>1, <1>3, <1>6, <2>2
  <2>9. /\ ToSet(q.wait) \ {p} \subseteq ToSet(e.wait)
        /\ \A t \in ToSet(e.ready) :
              (t \in ToSet(q.ready) /\ q.state[t] # "READY") \/ e.state[t] = "READY"
    BY <2>2, <2>3, <2>8
  <2>10. QED
    BY <2>7, <2>9 DEF e
<1>9. CASE q.state[p] \notin {"READY", "ZOMBIE"}
  <2>1. e = q
    BY <1>9 DEF RefreshWait
  <2> HIDE DEF e
  <2>2. /\ Refreshing(e)
        /\ ToSet(q.wait) \ {p} \subseteq ToSet(e.wait)
        /\ \A t \in ToSet(e.ready) :
              (t \in ToSet(q.ready) /\ q.state[t] # "READY") \/ e.state[t] = "READY"
    BY <2>1
  <2>3. QED
    BY <2>2 DEF e
<1>10. QED
  BY <1>7, <1>8, <1>9

\* After the two loops the ready queue is that of the ready tasks.
LEMMA RefreshSound ==
    ASSUME LifeInv
    PROVE  /\ Refreshing(do_refresh_queues)
           /\ \A t \in ToSet(do_refresh_queues.ready) : do_refresh_queues.state[t] = "READY"
<1>0. /\ Typed /\ Once(ready, wait, zombie) /\ Graves(zombie) /\ born \subseteq Task
      /\ Len(ready) \in Nat /\ ready \in Seq(Task)
  BY DEF LifeInv, TypeInv, Lives, Typed
<1>1. \A i, j \in 1 .. Len(ready) : ready[i] = ready[j] => i = j
  BY <1>0, Members DEF Once
<1>2. Refreshing(RefreshedReady)
      /\ \A t \in ToSet(RefreshedReady.ready) : RefreshedReady.state[t] = "READY"
  <2>1. PICK g : /\ g[0] = Queues
                 /\ \A k \in 1 .. Len(ready) : g[k] = RefreshReady(g[k - 1], ready[k])
                 /\ RefreshedReady = g[Len(ready)]
    BY <1>0, ReadyRun
  <2> DEFINE Left(k) == {ready[j] : j \in k + 1 .. Len(ready)}
             S == {k \in Nat : /\ Refreshing(g[k])
                               /\ Left(k) \subseteq ToSet(g[k].ready)
                               /\ \A t \in ToSet(g[k].ready) :
                                     g[k].state[t] = "READY" \/ t \in Left(k)}
  <2>2. 0 \in S
    <3>1. /\ Queues.ready = ready /\ Queues.wait = wait /\ Queues.zombie = zombie
          /\ Queues.state = state /\ Queues \in QueueSets
          /\ Listed(Queues) \subseteq born
      BY <1>0 DEF Queues, QueueSets, Listed, Typed
    <3>2. Refreshing(Queues)
      BY <1>0, <3>1 DEF Refreshing, Sorting, Queued
    <3>3. Left(0) = ToSet(ready)
      BY <1>0 DEF ToSet
    <3> HIDE DEF Left
    <3>4. QED
      BY <2>1, <3>1, <3>2, <3>3
  <2>3. ASSUME NEW k \in 0 .. Len(ready) - 1, k \in S PROVE k + 1 \in S
    <3>1. k \in Nat /\ k + 1 \in 1 .. Len(ready) /\ (k + 1) - 1 = k /\ k + 1 \in Nat
      BY <1>0
    <3> DEFINE q == g[k]
               p == ready[k + 1]
               e == g[k + 1]
    <3>2. e = RefreshReady(q, p)
      BY <2>1, <3>1
    <3>3. Left(k) = Left(k + 1) \cup {p} /\ p \notin Left(k + 1)
      <4>1. \A j : j \in k + 1 .. Len(ready) <=> (j = k + 1 \/ j \in (k + 1) + 1 .. Len(ready))
        BY <1>0, <3>1
      <4>2. k + 1 \notin (k + 1) + 1 .. Len(ready)
        BY <3>1
      <4>3. \A j \in (k + 1) + 1 .. Len(ready) : j \in 1 .. Len(ready)
        BY <1>0, <3>1
      <4>4. Left(k) = Left(k + 1) \cup {p}
        BY <4>1
      <4>5. p \notin Left(k + 1)
        BY <1>1, <3>1, <4>2, <4>3
      <4>6. QED
        BY <4>4, <4>5
    <3>4. /\ Refreshing(q) /\ Left(k) \subseteq ToSet(q.ready)
          /\ \A t \in ToSet(q.ready) : q.state[t] = "READY" \/ t \in Left(k)
      BY <2>3
    <3> HIDE DEF Left, q, p, e
    <3>5. p \in ToSet(q.ready)
      BY <3>3, <3>4
    <3>6. /\ Refreshing(e)
          /\ ToSet(q.ready) \ {p} \subseteq ToSet(e.ready)
          /\ \A t \in ToSet(e.ready) :
                /\ t \in ToSet(q.ready)
                /\ q.state[t] = "READY" \/ t = p => e.state[t] = "READY"
      BY <3>2, <3>4, <3>5, ReadyTurn
    <3>7. /\ Left(k + 1) \subseteq ToSet(e.ready)
          /\ \A t \in ToSet(e.ready) : e.state[t] = "READY" \/ t \in Left(k + 1)
      BY <3>3, <3>4, <3>6
    <3>8. QED
      BY <3>1, <3>6, <3>7 DEF e
  <2>4. Left(Len(ready)) = {}
    BY <1>0
  <2> HIDE DEF Left
  <2>5. Len(ready) \in S
    <3> HIDE DEF S
    <3>1. QED
      BY <1>0, <2>2, <2>3, Turns
  <2>6. QED
    BY <2>1, <2>4, <2>5
<1>3. QED
  <2> DEFINE w == RefreshedReady.wait
  <2>0. /\ w \in Seq(Task) /\ IsInjective(w) /\ Len(w) \in Nat
    BY <1>2 DEF Refreshing, Sorting, QueueSets, Once
  <2>1. PICK g : /\ g[0] = RefreshedReady
                 /\ \A k \in 1 .. Len(w) : g[k] = RefreshWait(g[k - 1], w[k])
                 /\ do_refresh_queues = g[Len(w)]
    <3>1. Sorting(RefreshedReady)
      BY <1>2 DEF Refreshing
    <3>2. QED
      BY <1>0, <3>1, WaitRun
  <2>2. w = g[0].wait
    BY <2>1
  <2> HIDE DEF w
  <2>3. \A i, j \in 1 .. Len(w) : w[i] = w[j] => i = j
    BY <2>0, Members
  <2> DEFINE Left(k) == {w[j] : j \in k + 1 .. Len(w)}
             S == {k \in Nat : /\ Refreshing(g[k])
                               /\ Left(k) \subseteq ToSet(g[k].wait)
                               /\ \A t \in ToSet(g[k].ready) : g[k].state[t] = "READY"}
  <2>4. 0 \in S
    <3>1. Left(0) = ToSet(w)
      BY <2>0 DEF ToSet
    <3> HIDE DEF Left
    <3>2. QED
      BY <1>2, <2>1, <2>2, <3>1
  <2>5. ASSUME NEW k \in 0 .. Len(w) - 1, k \in S PROVE k + 1 \in S
    <3>1. k \in Nat /\ k + 1 \in 1 .. Len(w) /\ (k + 1) - 1 = k /\ k + 1 \in Nat
      BY <2>0
    <3> DEFINE q == g[k]
               p == w[k + 1]
               e == g[k + 1]
    <3>2. e = RefreshWait(q, p)
      BY <2>1, <3>1
    <3>3. Left(k) = Left(k + 1) \cup {p} /\ p \notin Left(k + 1)
      <4>1. \A j : j \in k + 1 .. Len(w) <=> (j = k + 1 \/ j \in (k + 1) + 1 .. Len(w))
        BY <2>0, <3>1
      <4>2. k + 1 \notin (k + 1) + 1 .. Len(w)
        BY <3>1
      <4>3. \A j \in (k + 1) + 1 .. Len(w) : j \in 1 .. Len(w)
        BY <2>0, <3>1
      <4>4. Left(k) = Left(k + 1) \cup {p}
        BY <4>1
      <4>5. p \notin Left(k + 1)
        BY <2>3, <3>1, <4>2, <4>3
      <4>6. QED
        BY <4>4, <4>5
    <3>4. /\ Refreshing(q) /\ Left(k) \subseteq ToSet(q.wait)
          /\ \A t \in ToSet(q.ready) : q.state[t] = "READY"
      BY <2>5
    <3> HIDE DEF Left, q, p, e
    <3>5. p \in ToSet(q.wait)
      BY <3>3, <3>4
    <3>6. /\ Refreshing(e)
          /\ ToSet(q.wait) \ {p} \subseteq ToSet(e.wait)
          /\ \A t \in ToSet(e.ready) :
                (t \in ToSet(q.ready) /\ q.state[t] # "READY") \/ e.state[t] = "READY"
      BY <3>2, <3>4, <3>5, WaitTurn
    <3>7. /\ Left(k + 1) \subseteq ToSet(e.wait)
          /\ \A t \in ToSet(e.ready) : e.state[t] = "READY"
      BY <3>3, <3>4, <3>6
    <3>8. QED
      BY <3>1, <3>6, <3>7 DEF e
  <2> HIDE DEF Left
  <2>6. Len(w) \in S
    <3> HIDE DEF S
    <3>1. QED
      BY <2>0, <2>4, <2>5, Turns
  <2>7. QED
    BY <2>1, <2>6

--------------------------------------------------------------------------------
(* The steps keep the lives of the tasks in order.                                 *)

\* The running task exists, and it is dead only between its kill() and its schedule().
LEMMA RunningLives ==
    ASSUME LifeInv
    PROVE  /\ curr \in Task /\ curr \in born \ freed /\ state[curr] # "none"
           /\ pc[curr] # "sched_dead" => curr \in Alive
<1>1. /\ curr \in Task /\ Unborn /\ Runs /\ Roots /\ Once(ready, wait, zombie)
      /\ state \in [Task -> States]
  BY DEF LifeInv, TypeInv, SemInv, Placed, Typed, Lives
<1>2. state[curr] # "none"
  BY <1>1 DEF Unborn, Runs, Roots, Alive, Once
<1>3. QED
  BY <1>1, <1>2 DEF Unborn, Runs, Alive, States

\* schedule() runs a ready task, and its refresh keeps the queues in order.
LEMMA ScheduleLives ==
    ASSUME LifeInv, schedule, UNCHANGED <<born, process, freed, father, reaping, waitq>>
    PROVE  Lives'
<1>1. /\ Typed /\ curr \in Task /\ Once(ready, wait, zombie) /\ Graves(zombie) /\ Fathers
      /\ Unborn /\ Roots /\ Fresh /\ ToSet(waitq) \subseteq Alive
      /\ Idle \in Task /\ Kpagd \in Task /\ Idle # Kpagd
  BY TaskAssumption DEF LifeInv, TypeInv, SemInv, Placed, Lives
<1> DEFINE q == IF refresh THEN do_refresh_queues ELSE Queues
<1>2. Refreshing(q) /\ \A t \in ToSet(q.ready) : q.state[t] = "READY"
  <2>1. CASE refresh
    BY <2>1, RefreshSound
  <2>2. CASE ~refresh
    <3>1. /\ Queues.ready = ready /\ Queues.wait = wait /\ Queues.zombie = zombie
          /\ Queues.state = state /\ Queues \in QueueSets
          /\ Listed(Queues) \subseteq born
      BY <1>1 DEF Queues, QueueSets, Listed, Typed
    <3>2. Refreshing(Queues)
      BY <1>1, <3>1 DEF Refreshing, Sorting, Queued
    <3>3. QED
      BY <1>1, <2>2, <3>1, <3>2 DEF Fresh
  <2>3. QED
    BY <2>1, <2>2
<1>3. /\ ready' = q.ready /\ wait' = q.wait /\ zombie' = q.zombie /\ state' = q.state
      /\ refresh' = FALSE
      /\ \E t \in Task :
            IsNext(t, q.ready, [q.counter EXCEPT ![curr] = HIGH_PRIORITY]) /\ curr' = t
  BY DEF schedule
<1> HIDE DEF q
<1>4. /\ state' \in [Task -> States]
      /\ ready' \in Seq(Task) /\ Once(ready', wait', zombie') /\ Graves(zombie')
      /\ ToSet(ready') \cup ToSet(wait') \subseteq Queued
      /\ \A t \in Task : state'[t] = state[t] \/ (t = Kpagd /\ state'[t] = "READY")
      /\ \A t \in ToSet(ready') : state'[t] = "READY"
  BY <1>2, <1>3 DEF Refreshing, Sorting, QueueSets
<1>5. /\ Alive' = Alive
      /\ \A t \in Task : /\ state[t] = "ZOMBIE" => state'[t] = "ZOMBIE"
                         /\ state'[t] = "none" <=> state[t] = "none"
  BY <1>1, <1>4 DEF Roots, Alive
<1>6. Once(ready, wait, zombie)'
  BY <1>4 DEF Once
<1>7. Unborn'
  BY <1>1, <1>5 DEF Unborn
<1>8. Graves(zombie)'
  <2>1. ToSet(zombie') \subseteq Task
    BY <1>2, <1>3, Members DEF Refreshing, Sorting, QueueSets
  <2>2. QED
    BY <1>4, <1>5, <2>1 DEF Graves, Before
<1>9. Roots'
  BY <1>1, <1>5 DEF Roots
<1>10. curr' = Idle \/ curr' \in ToSet(ready')
  BY <1>3 DEF IsNext, ToSet
<1>11. Runs'
  <2>1. state'[curr'] # "ZOMBIE"
    BY <1>4, <1>9, <1>10 DEF Roots, Alive
  <2>2. QED
    BY <1>10, <2>1 DEF Runs
<1>12. Fresh'
  BY <1>4 DEF Fresh
<1>13. ToSet(waitq') \subseteq Alive'
  BY <1>1, <1>5
<1>14. Fathers'
  <2>1. Queued' \subseteq Queued /\ Queued \subseteq Task
    BY <1>1, <1>4 DEF Queued, Typed
  <2>2. QED
    BY <1>1, <1>5, <2>1 DEF Fathers
<1>15. QED
  BY <1>6, <1>7, <1>8, <1>9, <1>11, <1>12, <1>13, <1>14 DEF Lives

\* A step that moves no task between the queues and at most puts one to sleep or wakes one.
LEMMA QuietLives ==
    ASSUME LifeInv, Typed', pc[curr] = "sched_dead" => pc'[curr] = "sched_dead",
           UNCHANGED <<born, process, freed, father, reaping, ready, wait, zombie, curr>>,
           \A t \in Task : \/ state'[t] = state[t]
                           \/ t \in Alive /\ state'[t] \in {"READY", "WAIT"},
           ~refresh' => state' = state /\ ~refresh,
           ToSet(waitq') \subseteq Alive
    PROVE  Lives'
<1>1. /\ Typed /\ curr \in Task /\ Once(ready, wait, zombie) /\ Graves(zombie) /\ Fathers
      /\ Unborn /\ Roots /\ Runs /\ Fresh /\ Idle \in Task /\ Kpagd \in Task
  BY TaskAssumption DEF LifeInv, TypeInv, SemInv, Placed, Lives
<1>2. Alive' = Alive /\ \A t \in Task : /\ state'[t] = "ZOMBIE" <=> state[t] = "ZOMBIE"
                                        /\ state'[t] = "none" <=> state[t] = "none"
  BY <1>1 DEF Alive
<1>3. Once(ready, wait, zombie)'
  BY <1>1 DEF Once
<1>4. Unborn'
  BY <1>1, <1>2 DEF Unborn
<1>5. Graves(zombie)'
  <2>1. ToSet(zombie) \subseteq Task
    BY <1>1, Members DEF Typed
  <2>2. QED
    BY <1>1, <1>2, <2>1 DEF Graves, Before
<1>6. Roots'
  BY <1>1, <1>2 DEF Roots
<1>7. Runs'
  BY <1>1, <1>2 DEF Runs
<1>8. Fresh'
  BY <1>1 DEF Fresh
<1>9. Fathers'
  <2>1. Queued' = Queued /\ Queued \subseteq Task
    BY <1>1 DEF Queued, Typed
  <2>2. QED
    BY <1>1, <1>2, <2>1 DEF Fathers
<1>10. QED
  BY <1>2, <1>3, <1>4, <1>5, <1>6, <1>7, <1>8, <1>9 DEF Lives

\* What waking the head of a queue of living tasks does.
LEMMA WakeupLives ==
    ASSUME LifeInv, NEW q \in Seq(Task), ToSet(q) \subseteq Alive, wakeup_head(q)
    PROVE  /\ \A t \in Task : \/ state'[t] = state[t]
                              \/ t \in Alive /\ state'[t] \in {"READY", "WAIT"}
           /\ ~refresh' => state' = state /\ ~refresh
BY WakeupTyped DEF LifeInv, TypeInv

\* A task in __down_failed().
LEMMA TryLives ==
    ASSUME LifeInv, NEW s, NEW q \in Seq(Task), ToSet(q) \subseteq Alive, Try(s, q),
           pc[curr] \in {"down_failed", "down_retry"}
    PROVE  Lives'
<1>1. Typed' /\ Typed
  BY TryTypes DEF LifeInv, TypeInv
<1>2. UNCHANGED <<born, process, freed, father, reaping, ready, wait, zombie, curr>>
  BY DEF Try
<1>3. /\ \A t \in Task : \/ state'[t] = state[t]
                         \/ t \in Alive /\ state'[t] \in {"READY", "WAIT"}
      /\ ~refresh' => state' = state /\ ~refresh
      /\ ToSet(waitq') \subseteq Alive
  <2>1. CASE count' >= 0
    <3>1. waitq' = RemoveFirst(q, curr) /\ wakeup_head(RemoveFirst(q, curr))
      BY <2>1 DEF Try
    <3>2. RemoveFirst(q, curr) \in Seq(Task) /\ ToSet(RemoveFirst(q, curr)) \subseteq Alive
      BY RemoveQueue
    <3>3. QED
      BY <3>1, <3>2, WakeupLives
  <2>2. CASE ~(count' >= 0)
    BY <2>2 DEF Try
  <2>3. QED
    BY <2>1, <2>2
<1>4. QED
  BY <1>1, <1>2, <1>3, QuietLives

\* The threads that die with a task are the smallest set that has every thread whose
\* father is dead or in it.
LEMMA DoomedIs ==
    ASSUME Typed, NEW st
    PROVE  /\ Swept(st, Doomed(st))
           /\ \A t \in Doomed(st) : t \in Queued \ process /\ father[t] # NoTask
           /\ \A D \in SUBSET Task : Swept(st, D) => Doomed(st) \subseteq D
<1>1. Queued \subseteq Task
  BY DEF Typed, Queued
<1>2. ASSUME NEW D \in SUBSET Task, Swept(st, D) PROVE Doomed(st) \subseteq D
  BY <1>2 DEF Doomed
<1>3. Swept(st, Doomed(st))
  <2> SUFFICES ASSUME NEW t \in Queued \ process, father[t] # NoTask,
                      st[father[t]] = "ZOMBIE" \/ father[t] \in Doomed(st)
               PROVE  t \in Doomed(st)
    BY DEF Swept
  <2>1. ASSUME NEW D \in SUBSET Task, Swept(st, D) PROVE t \in D
    BY <1>2, <2>1 DEF Swept
  <2>2. QED
    BY <1>1, <2>1 DEF Doomed
<1>4. Doomed(st) \subseteq {t \in Queued \ process : father[t] # NoTask}
  <2> DEFINE D == {t \in Queued \ process : father[t] # NoTask}
  <2>1. D \in SUBSET Task /\ Swept(st, D)
    BY <1>1 DEF Swept
  <2> HIDE DEF D
  <2>2. Doomed(st) \subseteq D
    BY <1>2, <2>1
  <2>3. QED
    BY <2>2 DEF D
<1>5. QED
  BY <1>2, <1>3, <1>4

\* kill(): a task other than the idle task and kpagd dies, with all its threads; their
\* children lose a father that is no more.
LEMMA KillLives ==
    ASSUME LifeInv, Spared, NEW p \in Task \ {Idle, Kpagd}, kill(p), pc[curr] = "run"
    PROVE  Lives'
<1>1. /\ Typed /\ curr \in Task /\ Once(ready, wait, zombie) /\ Graves(zombie) /\ Fathers
      /\ Unborn /\ Roots /\ Runs /\ Fresh /\ ToSet(waitq) \subseteq Alive
      /\ Idle \in Task /\ Kpagd \in Task /\ Idle # Kpagd
      /\ Typed' /\ pc \in [Task -> PCs] /\ NoTask \notin Task
  BY TaskAssumption, KillTypes DEF LifeInv, TypeInv, SemInv, Placed, Lives
<1> DEFINE found == p \in Queued
           st1   == IF found THEN [state EXCEPT ![p] = "ZOMBIE"] ELSE state
           woken == IF found /\ father[p] # NoTask
                    THEN [st1 EXCEPT ![father[p]] = "READY"] ELSE st1
           dead  == Doomed(woken)
           st    == [t \in Task |-> IF t \in dead THEN "ZOMBIE" ELSE woken[t]]
<1>2. /\ (dead \cup {p}) \cap ToSet(waitq) = {} \/ KillWaiters
      /\ state' = st
      /\ refresh' = (refresh \/ found \/ dead # {})
      /\ father' = [t \in Task |->
                      IF /\ t \in Queued
                         /\ father[t] # NoTask
                         /\ st[father[t]] = "ZOMBIE"
                      THEN NoTask ELSE father[t]]
      /\ pc' = [pc EXCEPT ![curr] = IF st[curr] = "ZOMBIE" THEN SchedPc.dead ELSE @]
      /\ UNCHANGED <<born, process, freed, reaping, ready, wait, zombie, curr, waitq>>
  BY DEF kill, sem
<1>3. Queued \subseteq born \ freed /\ Queued \cap ToSet(zombie) = {} /\ born \subseteq Task
      /\ Queued \subseteq Task /\ ToSet(zombie) \subseteq Task
  BY <1>1 DEF Once, Queued, Typed
<1>4. found /\ father[p] # NoTask => father[p] \in Alive
  BY <1>1 DEF Fathers
<1>5. \A t \in Task : woken[t] = IF found /\ father[p] # NoTask /\ t = father[p] THEN "READY"
                                 ELSE IF found /\ t = p THEN "ZOMBIE" ELSE state[t]
  BY <1>1 DEF Typed
<1>6. /\ Swept(woken, dead)
      /\ \A t \in dead : t \in Queued \ process /\ father[t] # NoTask
      /\ \A D \in SUBSET Task : Swept(woken, D) => dead \subseteq D
  BY <1>1, DoomedIs
<1>7. Kpagd \notin dead /\ Idle \notin dead
  <2> DEFINE D == Task \ {Idle, Kpagd}
  <2> HIDE DEF woken
  <2>1. woken[Idle] # "ZOMBIE"
    BY <1>1, <1>5 DEF Roots, Alive
  <2>2. ASSUME NEW t \in Queued \ process,
               woken[father[t]] = "ZOMBIE" \/ father[t] \in D
        PROVE  t \in D
    BY <1>1, <1>3, <2>1, <2>2 DEF Roots
  <2>3. Swept(woken, D) /\ D \in SUBSET Task
    BY <2>2 DEF Swept
  <2> HIDE DEF D, dead
  <2>4. dead \subseteq D
    BY <1>6, <2>3
  <2>5. QED
    BY <2>4 DEF D
<1> HIDE DEF woken, dead
<1>8. \A t \in Task : st[t] = IF t \in dead THEN "ZOMBIE" ELSE woken[t]
  OBVIOUS
<1> HIDE DEF st, found
<1>9. \A t \in Task : /\ st[t] \in {"ZOMBIE", state[t]} \/ (t \in Alive /\ st[t] = "READY")
                      /\ state[t] = "ZOMBIE" => st[t] = "ZOMBIE"
                      /\ t \notin dead \cup {p} => (st[t] = "ZOMBIE" <=> state[t] = "ZOMBIE")
  BY <1>4, <1>5, <1>8 DEF Alive
<1>10. \A t \in Task : st[t] = "none" <=> state[t] = "none"
  <2>1. ASSUME NEW t \in dead \cup {p}, t \in Queued PROVE state[t] # "none"
    BY <1>1, <1>3, <2>1 DEF Unborn
  <2>2. ASSUME NEW t \in Task PROVE st[t] = "none" <=> state[t] = "none"
    <3>1. CASE t \in dead
      BY <1>6, <1>8, <2>1, <3>1
    <3>2. CASE t \notin dead
      BY <1>4, <1>5, <1>8, <2>1, <3>2 DEF Alive, found
    <3>3. QED
      BY <3>1, <3>2
  <2>3. QED
    BY <2>2
<1>11. \A t \in Alive : st[t] # "ZOMBIE" => t \in Alive'
  BY <1>2, <1>9 DEF Alive
<1>12. Once(ready, wait, zombie)'
  BY <1>1, <1>2 DEF Once
<1>13. Unborn'
  BY <1>1, <1>2, <1>10 DEF Unborn
<1>14. Graves(zombie)'
  <2>1. \A t \in ToSet(zombie) : father'[t] = father[t] /\ state'[t] = "ZOMBIE"
    BY <1>1, <1>2, <1>3, <1>9 DEF Graves
  <2>2. UNCHANGED <<freed, reaping, zombie>>
    BY <1>2
  <2>3. QED
    BY <1>1, <2>1, <2>2 DEF Graves, Before
<1>15. Roots'
  <2>1. st[Idle] # "ZOMBIE" /\ st[Kpagd] # "ZOMBIE"
    BY <1>1, <1>7, <1>9 DEF Roots, Alive
  <2>2. Idle \in Alive' /\ Kpagd \in Alive'
    BY <1>1, <1>11, <2>1 DEF Roots
  <2>3. father'[Kpagd] = Idle /\ father'[Idle] = NoTask
    BY <1>1, <1>2, <2>1 DEF Roots
  <2>4. QED
    BY <1>1, <1>2, <2>2, <2>3 DEF Roots
<1>16. Runs'
  BY <1>1, <1>2 DEF Runs
<1>17. Fresh'
  <2>1. ASSUME ~refresh', NEW t \in ToSet(ready) PROVE state'[t] = "READY"
    <3>1. ~refresh /\ ~found /\ dead = {}
      BY <1>2, <2>1
    <3>2. t \in Task /\ state[t] = "READY"
      BY <1>1, <1>3, <3>1 DEF Fresh, Queued
    <3>3. QED
      BY <1>2, <1>5, <1>8, <3>1, <3>2
  <2>2. QED
    BY <1>2, <2>1 DEF Fresh
<1>18. ToSet(waitq') \subseteq Alive'
  <2>1. ASSUME NEW t \in ToSet(waitq) PROVE t \in Alive'
    <3>1. t \in Alive /\ t \notin dead \cup {p} /\ t \in Task
      BY <1>1, <1>2 DEF Spared, Alive
    <3>2. QED
      BY <1>9, <1>11, <3>1 DEF Alive
  <2>2. QED
    BY <1>2, <2>1
<1>19. Fathers'
  <2>1. ASSUME NEW t \in Queued
        PROVE  /\ father'[t] # NoTask => father'[t] \in Alive'
               /\ father'[t] = NoTask /\ t \notin process => state'[t] = "ZOMBIE"
    <3>1. CASE father[t] = NoTask
      BY <1>1, <1>2, <1>3, <1>9, <3>1 DEF Fathers
    <3>2. CASE father[t] # NoTask /\ st[father[t]] # "ZOMBIE"
      BY <1>1, <1>2, <1>3, <1>11, <3>2 DEF Fathers
    <3>3. CASE father[t] # NoTask /\ st[father[t]] = "ZOMBIE"
      <4>1. father'[t] = NoTask /\ father[t] \in Task
        BY <1>1, <1>2, <1>3, <3>3 DEF Typed
      <4>2. woken[father[t]] = "ZOMBIE" \/ father[t] \in dead
        BY <1>8, <3>3, <4>1
      <4>3. t \notin process => t \in dead
        BY <1>6, <3>3, <4>2 DEF Swept
      <4>4. QED
        BY <1>2, <1>3, <1>8, <4>1, <4>3
    <3>4. QED
      BY <3>1, <3>2, <3>3
  <2>2. Queued' = Queued /\ process' = process
    BY <1>2 DEF Queued
  <2>3. QED
    BY <2>1, <2>2 DEF Fathers
<1>20. QED
  BY <1>12, <1>13, <1>14, <1>15, <1>16, <1>17, <1>18, <1>19 DEF Lives

\* A new task, whose father is running, is ready to run.
LEMMA CreateLives ==
    ASSUME LifeInv, Spared, NEW t \in Task \ born, NEW from \in {"run", "boot"},
           NEW call \in {"sched_create", "sched_boot"}, create(t, from, call),
           Typed', process' \in {process, process \cup {t}}
    PROVE  Lives'
<1>1. /\ Typed /\ curr \in Task /\ Once(ready, wait, zombie) /\ Graves(zombie) /\ Fathers
      /\ Unborn /\ Roots /\ Runs /\ Fresh /\ ToSet(waitq) \subseteq Alive
      /\ Idle \in Task /\ Kpagd \in Task /\ NoTask \notin Task
      /\ pc \in [Task -> PCs] /\ {Idle, Kpagd} \subseteq born
  BY TaskAssumption DEF LifeInv, TypeInv, SemInv, Placed, Lives, Stations
<1>2. pc[curr] = from /\ curr \in Alive /\ curr \in born
  BY RunningLives DEF create
<1>3. /\ born' = born \cup {t}
      /\ state' = [state EXCEPT ![t] = "READY"]
      /\ father' = [father EXCEPT ![t] = curr]
      /\ ready' = Append(ready, t)
      /\ UNCHANGED <<zombie, freed, reaping, wait, curr, refresh, waitq>>
  <2>1. \A ok \in Allocates : ok = TRUE
    BY TaskAssumption DEF Spared
  <2>2. /\ state' = [state EXCEPT ![t] = "READY"]
        /\ father' = [father EXCEPT ![t] = curr]
        /\ ready' = Append(ready, t)
        /\ UNCHANGED <<zombie, freed>>
    BY <2>1, Zenon DEF create
  <2>3. QED
    BY <2>2 DEF create, sem
<1>4. t \notin ToSet(ready) /\ t \notin ToSet(wait) /\ t \notin ToSet(zombie) /\ t \notin freed
      /\ t # curr /\ t # Idle /\ t # Kpagd /\ t # NoTask
      /\ ToSet(ready) \subseteq Task /\ ToSet(wait) \subseteq Task /\ ToSet(zombie) \subseteq Task
  BY <1>1, <1>2 DEF Typed
<1>5. IsInjective(ready') /\ ToSet(ready') = ToSet(ready) \cup {t}
  BY <1>1, <1>3, <1>4, AppendQueue DEF Once, Typed
<1>6. \A u \in Task : /\ state'[u] = IF u = t THEN "READY" ELSE state[u]
                      /\ father'[u] = IF u = t THEN curr ELSE father[u]
  BY <1>1, <1>3 DEF Typed
<1>7. Alive \subseteq Alive' /\ t \in Alive'
  BY <1>6 DEF Alive
<1>8. Once(ready, wait, zombie)'
  BY <1>1, <1>3, <1>4, <1>5 DEF Once
<1>9. Unborn'
  BY <1>1, <1>3, <1>4, <1>6 DEF Unborn
<1>10. Graves(zombie)'
  <2>1. \A u \in ToSet(zombie) : u # t /\ state'[u] = state[u] /\ father'[u] = father[u]
    BY <1>4, <1>6
  <2>2. QED
    BY <1>1, <1>3, <2>1 DEF Graves, Before
<1>11. Roots'
  BY <1>1, <1>4, <1>6, <1>7 DEF Roots
<1>12. Runs'
  BY <1>1, <1>2, <1>3, <1>5, <1>6 DEF Runs, Alive
<1>13. Fresh'
  BY <1>1, <1>3, <1>4, <1>5, <1>6 DEF Fresh
<1>14. ToSet(waitq') \subseteq Alive'
  BY <1>1, <1>3, <1>7
<1>15. Fathers'
  <2>1. Queued' = Queued \cup {t} /\ Queued \subseteq Task /\ t \notin Queued
    BY <1>3, <1>4, <1>5 DEF Queued
  <2>2. ASSUME NEW u \in Queued
        PROVE  /\ father'[u] # NoTask => father'[u] \in Alive'
               /\ father'[u] = NoTask /\ u \notin process' => state'[u] = "ZOMBIE"
    BY <1>1, <1>6, <1>7, <2>1 DEF Fathers
  <2>3. /\ father'[t] # NoTask => father'[t] \in Alive'
        /\ father'[t] = NoTask /\ t \notin process' => state'[t] = "ZOMBIE"
    BY <1>1, <1>2, <1>6, <1>7
  <2>4. QED
    BY <2>1, <2>2, <2>3 DEF Fathers
<1>16. QED
  BY <1>8, <1>9, <1>10, <1>11, <1>12, <1>13, <1>14, <1>15 DEF Lives

\* kpagd picks the dead task that has been so for longest: its children have gone.
LEMMA PickLives == LifeInv /\ pick => Lives'
<1> SUFFICES ASSUME LifeInv, pick PROVE Lives'
  OBVIOUS
<1>1. /\ TypeInv /\ Typed /\ Stations /\ curr \in Task /\ Once(ready, wait, zombie)
      /\ Graves(zombie) /\ Fathers /\ Unborn /\ Roots /\ Runs /\ Fresh
      /\ ToSet(waitq) \subseteq Alive /\ NoTask \notin Task /\ Typed'
  BY TaskAssumption, PickTypes DEF LifeInv, TypeInv, SemInv, Placed, Lives
<1>2. /\ pc[curr] = "pick" /\ curr = Kpagd
      /\ UNCHANGED <<state, born, process, freed, father, ready, wait, curr, refresh, waitq>>
  BY <1>1, PagerRuns DEF pick, sem, PagerPcs
<1>3. reaping = NoTask
  BY <1>1, <1>2 DEF Stations
<1>4. CASE zombie = <<>>
  <2>1. UNCHANGED <<reaping, zombie>>
    BY <1>4 DEF pick
  <2>2. pc[curr] # "sched_dead"
    BY <1>2
  <2>3. QED
    BY <1>1, <1>2, <2>1, <2>2, QuietLives
<1>5. CASE zombie # <<>>
  <2>1. reaping' = Head(zombie) /\ zombie' = Append(Tail(zombie), Head(zombie))
    BY <1>5 DEF pick
  <2>2. /\ IsInjective(zombie') /\ ToSet(zombie') = ToSet(zombie)
        /\ \A x, y : Before(zombie', x, y) => Before(zombie, x, y) \/ y = reaping'
        /\ \A y \in ToSet(zombie) : y # reaping' => Before(zombie, reaping', y)
        /\ reaping' \in ToSet(zombie)
    BY <1>1, <1>5, <2>1, RotateQueue DEF Typed, Once
  <2>3. ToSet(zombie) \subseteq Task
    BY <1>1, Members DEF Typed
  <2>4. \A x, y \in ToSet(zombie) : Before(zombie, x, y) => father[y] # x
    BY <1>1, <1>3, <2>3 DEF Graves
  <2>5. Once(ready, wait, zombie)'
    BY <1>1, <1>2, <2>2 DEF Once
  <2>6. Graves(zombie)'
    <3>1. \A t \in ToSet(zombie') : state'[t] = "ZOMBIE" /\ father'[t] \notin freed'
      BY <1>1, <1>2, <2>2 DEF Graves
    <3>2. \A x, y \in ToSet(zombie') :
             Before(zombie', x, y) /\ reaping' \notin {x, y} => father'[y] # x
      BY <1>2, <2>2, <2>4
    <3>3. \A y \in ToSet(zombie') : y # reaping' => father'[y] # reaping'
      BY <1>2, <2>2, <2>4
    <3>4. QED
      BY <3>1, <3>2, <3>3 DEF Graves, Before
  <2>7. /\ Unborn' /\ Roots' /\ Fresh' /\ ToSet(waitq') \subseteq Alive' /\ Fathers'
    BY <1>1, <1>2 DEF Unborn, Roots, Alive, Fresh, Fathers, Queued
  <2>8. Runs'
    BY <1>1, <1>2 DEF Runs, Roots, Alive
  <2>9. QED
    BY <2>5, <2>6, <2>7, <2>8 DEF Lives
<1>6. QED
  BY <1>4, <1>5

\* The task that kpagd frees is dead, waits for nothing and is the father of none.
LEMMA ReapLives == LifeInv /\ reap => Lives'
<1> SUFFICES ASSUME LifeInv, reap PROVE Lives'
  OBVIOUS
<1>1. /\ TypeInv /\ Typed /\ Stations /\ curr \in Task /\ Once(ready, wait, zombie)
      /\ Graves(zombie) /\ Fathers /\ Unborn /\ Roots /\ Runs /\ Fresh
      /\ ToSet(waitq) \subseteq Alive /\ NoTask \notin Task /\ Kpagd \in Task
  BY TaskAssumption DEF LifeInv, TypeInv, SemInv, Placed, Lives
<1>2. /\ pc[curr] = "reap" /\ curr = Kpagd
      /\ zombie' = RemoveFirst(zombie, reaping) /\ freed' = freed \cup {reaping}
      /\ reaping' = NoTask
      /\ state' = [state EXCEPT ![reaping] = "none"]
      /\ UNCHANGED <<born, process, father, ready, wait, curr, refresh, waitq>>
  BY <1>1, PagerRuns DEF reap, sem, PagerPcs
<1>3. /\ reaping \in ToSet(zombie) /\ reaping \in Task /\ reaping # NoTask
      /\ state[reaping] = "ZOMBIE" /\ reaping \in born \ freed
      /\ ToSet(zombie) \subseteq Task
  BY <1>1, <1>2, Members DEF Stations, Graves, Once, Typed
<1>4. /\ IsInjective(zombie') /\ ToSet(zombie') = ToSet(zombie) \ {reaping}
      /\ \A x, y : Before(zombie', x, y) => Before(zombie, x, y)
  BY <1>1, <1>2, RemoveQueue DEF Typed, Once
<1>5. \A t \in Task : state'[t] = IF t = reaping THEN "none" ELSE state[t]
  BY <1>1, <1>2 DEF Typed
<1>6. Alive' = Alive /\ reaping \notin Alive
  BY <1>3, <1>5 DEF Alive
<1>7. Once(ready, wait, zombie)'
  BY <1>1, <1>2, <1>3, <1>4 DEF Once
<1>8. Unborn'
  BY <1>1, <1>2, <1>3, <1>5 DEF Unborn
<1>9. Graves(zombie)'
  <2>1. \A t \in ToSet(zombie') : state'[t] = "ZOMBIE" /\ father'[t] \notin freed'
    BY <1>1, <1>2, <1>3, <1>4, <1>5 DEF Graves
  <2>2. \A x, y \in ToSet(zombie') : Before(zombie', x, y) => father'[y] # x
    BY <1>1, <1>2, <1>4 DEF Graves
  <2>3. QED
    BY <1>2, <2>1, <2>2 DEF Graves, Before
<1>10. Roots'
  BY <1>1, <1>2, <1>6 DEF Roots
<1>11. Runs'
  BY <1>1, <1>2, <1>6 DEF Runs, Roots, Alive
<1>12. Queued \subseteq Task /\ reaping \notin Queued
  BY <1>1, <1>3 DEF Typed, Queued, Once
<1>13. Fresh'
  BY <1>1, <1>2, <1>5, <1>12 DEF Fresh, Queued
<1>14. ToSet(waitq') \subseteq Alive'
  BY <1>1, <1>2, <1>6
<1>15. Fathers'
  <2>1. Queued' = Queued
    BY <1>2 DEF Queued
  <2>2. QED
    BY <1>1, <1>2, <1>5, <1>6, <1>12, <2>1 DEF Fathers
<1>16. QED
  BY <1>7, <1>8, <1>9, <1>10, <1>11, <1>13, <1>14, <1>15 DEF Lives

\* Every step keeps the lives of the tasks in order.
LEMMA NextLives == Spared /\ LifeInv /\ [Next]_vars => LifeInv'
<1> SUFFICES ASSUME Spared, LifeInv, [Next]_vars PROVE Lives'
  BY NextTypes DEF LifeInv
<1>p. /\ Typed /\ curr \in Task /\ state \in [Task -> States] /\ Typed'
      /\ ToSet(waitq) \subseteq Alive /\ waitq \in Seq(Task) /\ Stations
  BY NextTypes DEF LifeInv, TypeInv, SemInv, Placed, Typed, Lives
<1>q. pc[curr] # "sched_dead" => curr \in Alive
  BY RunningLives
<1>1. CASE clock_handler
  <2>1. schedule /\ UNCHANGED <<born, process, freed, father, reaping, waitq>>
    BY <1>1 DEF clock_handler, sem
  <2>2. QED
    BY <2>1, ScheduleLives
<1>2. CASE Calls_schedule
  <2>1. schedule /\ UNCHANGED <<born, process, freed, father, reaping, waitq>>
    BY <1>2 DEF Calls_schedule, sem
  <2>2. QED
    BY <2>1, ScheduleLives
<1>3. CASE sleep_task
  <2>1. /\ state' = [state EXCEPT ![curr] = "WAIT"]
        /\ refresh' = (refresh \/ state[curr] # "WAIT")
        /\ UNCHANGED <<born, process, freed, father, reaping, ready, wait, zombie, curr, waitq>>
    BY <1>3 DEF sleep_task, sem
  <2>2. pc[curr] # "sched_dead"
    BY <1>3 DEF sleep_task
  <2>3. /\ \A t \in Task : \/ state'[t] = state[t]
                           \/ t \in Alive /\ state'[t] \in {"READY", "WAIT"}
        /\ ~refresh' => state' = state /\ ~refresh
    BY <1>p, <1>q, <2>1, <2>2
  <2>4. QED
    BY <1>p, <2>1, <2>2, <2>3, QuietLives
<1>4. CASE DOWN \/ UP \/ Waitpid \/ init_done
  <2>1. UNCHANGED <<state, born, process, freed, father, reaping, ready, wait, zombie, curr,
                    refresh, waitq>>
    BY <1>4 DEF DOWN, UP, Waitpid, waitpid, init_done, tasks, queues, sem
  <2>2. pc[curr] # "sched_dead"
    BY <1>4 DEF DOWN, UP, Waitpid, init_done, Running
  <2>3. QED
    BY <1>p, <2>1, <2>2, QuietLives
<1>5. CASE down_failed
  <2>1. Append(waitq, curr) \in Seq(Task) /\ ToSet(Append(waitq, curr)) = ToSet(waitq) \cup {curr}
    BY <1>p, AppendQueue
  <2>2. pc[curr] = "down_failed" /\ Try(sleepers + 1, Append(waitq, curr))
    BY <1>5 DEF down_failed
  <2>3. ToSet(Append(waitq, curr)) \subseteq Alive
    BY <1>p, <1>q, <2>1, <2>2
  <2>4. QED
    BY <2>1, <2>2, <2>3, TryLives
<1>6. CASE down_retry
  BY <1>p, <1>6, TryLives DEF down_retry
<1>7. CASE up_wakeup
  <2>1. /\ wakeup_head(waitq) /\ pc[curr] = "up_wakeup"
        /\ UNCHANGED <<born, process, freed, father, reaping, ready, wait, zombie, curr, waitq>>
    BY <1>7 DEF up_wakeup, sem
  <2>2. /\ \A t \in Task : \/ state'[t] = state[t]
                           \/ t \in Alive /\ state'[t] \in {"READY", "WAIT"}
        /\ ~refresh' => state' = state /\ ~refresh
    BY <1>p, <2>1, WakeupLives
  <2>3. QED
    BY <1>p, <2>1, <2>2, QuietLives
<1>8. CASE Kill
  <2>1. PICK p \in born \ {curr, Idle, Kpagd} : pc[curr] = "run" /\ kill(p)
    BY <1>8, Zenon DEF Kill, Running
  <2>2. p \in Task \ {Idle, Kpagd}
    BY <1>p, <2>1 DEF Typed
  <2>3. QED
    BY <2>1, <2>2, KillLives
<1>9. CASE auto_kill
  <2>1. pc[curr] = "run" /\ kill(curr)
    BY <1>9 DEF auto_kill, Running
  <2>2. curr \in Task \ {Idle, Kpagd}
    BY <1>p, <2>1 DEF Stations, IdlePcs, PagerPcs
  <2>3. QED
    BY <2>1, <2>2, KillLives
<1>10. CASE create_thread
  <2>1. PICK t \in Task \ (born \cup Shells) : create(t, "run", "sched_create")
    BY <1>10 DEF create_thread
  <2>2. process' = process
    BY <1>10 DEF create_thread
  <2>3. QED
    BY <1>p, <2>1, <2>2, CreateLives
<1>11. CASE do_fork
  <2>1. PICK t \in Task \ (born \cup Shells) :
          create(t, "run", "sched_create") /\ process' = process \cup {t}
    BY <1>11 DEF do_fork
  <2>2. QED
    BY <1>p, <2>1, CreateLives
<1>12. CASE k_main
  <2>1. PICK t \in Shells \ born : create(t, "boot", "sched_boot")
    BY <1>12 DEF k_main
  <2>2. process' = process /\ t \in Task \ born
    BY <1>12, <2>1, TaskAssumption DEF k_main
  <2>3. QED
    BY <1>p, <2>1, <2>2, CreateLives
<1>13. CASE pick
  BY <1>13, PickLives
<1>14. CASE reap
  BY <1>14, ReapLives
<1>15. CASE UNCHANGED vars
  <2>1. UNCHANGED <<state, born, process, freed, father, reaping, ready, wait, zombie, curr,
                    refresh, waitq, pc>>
    BY <1>15 DEF vars, tasks, queues, sem
  <2>2. QED
    BY <1>p, <2>1, QuietLives
<1>16. QED
  BY <1>1, <1>2, <1>3, <1>4, <1>5, <1>6, <1>7, <1>8, <1>9, <1>10, <1>11, <1>12, <1>13,
     <1>14, <1>15 DEF Next

\* At boot the idle task and kpagd are ready.
LEMMA InitLives == Init => LifeInv
<1> SUFFICES ASSUME Init PROVE Lives
  BY InitTypes DEF LifeInv
<1>1. /\ ready = <<Idle, Kpagd>> /\ wait = <<>> /\ zombie = <<>> /\ waitq = <<>>
      /\ Idle \in Task /\ Kpagd \in Task /\ Idle # Kpagd /\ NoTask \notin Task
      /\ born = {Idle, Kpagd} /\ freed = {} /\ process = {Idle} /\ curr = Idle
      /\ state = [t \in Task |-> IF t \in {Idle, Kpagd} THEN "READY" ELSE "none"]
      /\ father = [t \in Task |-> IF t = Kpagd THEN Idle ELSE NoTask]
      /\ reaping = NoTask
  BY TaskAssumption DEF Init
<1>2. ToSet(ready) = {Idle, Kpagd} /\ ToSet(wait) = {} /\ ToSet(zombie) = {} /\ ToSet(waitq) = {}
  BY <1>1 DEF ToSet
<1>3. IsInjective(ready) /\ IsInjective(wait) /\ IsInjective(zombie)
  BY <1>1 DEF IsInjective
<1>4. Once(ready, wait, zombie)
  BY <1>1, <1>2, <1>3 DEF Once
<1>5. Idle \in Alive /\ Kpagd \in Alive
  BY <1>1 DEF Alive
<1>6. Unborn /\ Roots /\ Runs
  BY <1>1, <1>5 DEF Unborn, Roots, Runs
<1>7. Graves(zombie)
  BY <1>1, <1>2 DEF Graves
<1>8. Fresh /\ Fathers /\ ToSet(waitq) \subseteq Alive
  BY <1>1, <1>2, <1>5 DEF Fresh, Fathers, Queued
<1>9. QED
  BY <1>4, <1>6, <1>7, <1>8 DEF Lives

\* Every task that is not freed is in one of the three queues, once.
LEMMA OnceCounted == LifeInv => OneQueue
<1> SUFFICES ASSUME LifeInv PROVE OneQueue
  OBVIOUS
<1>1. ready \in Seq(Task) /\ wait \in Seq(Task) /\ zombie \in Seq(Task)
      /\ Once(ready, wait, zombie)
  BY DEF LifeInv, TypeInv, Typed, Lives
<1> DEFINE all == ready \o wait \o zombie
           R == Len(ready)
           W == Len(wait)
           Z == Len(zombie)
<1>2. R \in Nat /\ W \in Nat /\ Z \in Nat
  BY <1>1
<1>3. /\ all \in Seq(Task) /\ Len(all) = R + W + Z
      /\ \A i \in 1 .. R : all[i] = ready[i]
      /\ \A i \in 1 .. W : all[R + i] = wait[i]
      /\ \A i \in 1 .. Z : all[R + W + i] = zombie[i]
  BY <1>1
<1> HIDE DEF all, R, W, Z
<1>4. /\ IsFiniteSet(ToSet(ready)) /\ Cardinality(ToSet(ready)) = R
      /\ IsFiniteSet(ToSet(wait)) /\ Cardinality(ToSet(wait)) = W
      /\ IsFiniteSet(ToSet(zombie)) /\ Cardinality(ToSet(zombie)) = Z
  BY <1>1, QueueSize DEF Once, R, W, Z
<1>5. ToSet(all) = ToSet(ready) \cup ToSet(wait) \cup ToSet(zombie)
  <2>1. /\ \A x : x \in ToSet(all) <=> \E i \in 1 .. R + W + Z : all[i] = x
        /\ \A x : x \in ToSet(ready) <=> \E i \in 1 .. R : ready[i] = x
        /\ \A x : x \in ToSet(wait) <=> \E i \in 1 .. W : wait[i] = x
        /\ \A x : x \in ToSet(zombie) <=> \E i \in 1 .. Z : zombie[i] = x
    <3>1. \A x : x \in ToSet(all) <=> \E i \in 1 .. R + W + Z : all[i] = x
      <4>1. \A x : x \in ToSet(all) <=> \E i \in 1 .. Len(all) : all[i] = x
        BY <1>3, Members
      <4>2. QED
        BY <1>3, <4>1
    <3>2. \A x : x \in ToSet(ready) <=> \E i \in 1 .. R : ready[i] = x
      BY <1>1, Members DEF R
    <3>3. \A x : x \in ToSet(wait) <=> \E i \in 1 .. W : wait[i] = x
      BY <1>1, Members DEF W
    <3>4. \A x : x \in ToSet(zombie) <=> \E i \in 1 .. Z : zombie[i] = x
      BY <1>1, Members DEF Z
    <3>5. QED
      BY <3>1, <3>2, <3>3, <3>4
  <2>2. ASSUME NEW x \in ToSet(all)
        PROVE  x \in ToSet(ready) \cup ToSet(wait) \cup ToSet(zombie)
    <3>1. PICK i \in 1 .. R + W + Z : all[i] = x
      BY <2>1
    <3>2. CASE i <= R
      BY <1>2, <1>3, <2>1, <3>1, <3>2
    <3>3. CASE R < i /\ i <= R + W
      <4>1. i - R \in 1 .. W /\ R + (i - R) = i
        BY <1>2, <3>3
      <4>2. QED
        BY <1>3, <2>1, <3>1, <4>1
    <3>4. CASE R + W < i
      <4>1. i - (R + W) \in 1 .. Z /\ R + W + (i - (R + W)) = i
        BY <1>2, <3>1, <3>4
      <4>2. QED
        BY <1>3, <2>1, <3>1, <4>1
    <3>5. QED
      BY <1>2, <3>1, <3>2, <3>3, <3>4
  <2>3. ASSUME NEW x, x \in ToSet(ready) \cup ToSet(wait) \cup ToSet(zombie)
        PROVE  x \in ToSet(all)
    <3>1. CASE x \in ToSet(ready)
      <4>1. PICK i \in 1 .. R : ready[i] = x
        BY <2>1, <3>1
      <4>2. i \in 1 .. R + W + Z
        BY <1>2
      <4>3. QED
        BY <1>3, <2>1, <4>1, <4>2
    <3>2. CASE x \in ToSet(wait)
      <4>1. PICK i \in 1 .. W : wait[i] = x
        BY <2>1, <3>2
      <4>2. R + i \in 1 .. R + W + Z
        BY <1>2
      <4>3. QED
        BY <1>3, <2>1, <4>1, <4>2
    <3>3. CASE x \in ToSet(zombie)
      <4>1. PICK i \in 1 .. Z : zombie[i] = x
        BY <2>1, <3>3
      <4>2. R + W + i \in 1 .. R + W + Z
        BY <1>2
      <4>3. QED
        BY <1>3, <2>1, <4>1, <4>2
    <3>4. QED
      BY <2>3, <3>1, <3>2, <3>3
  <2>4. QED
    BY <2>2, <2>3
<1>6. /\ ToSet(ready) \cap ToSet(wait) = {}
      /\ (ToSet(ready) \cup ToSet(wait)) \cap ToSet(zombie) = {}
      /\ ToSet(all) = born \ freed
  BY <1>1, <1>5 DEF Once
<1>7. ASSUME NEW S, NEW U, IsFiniteSet(S), IsFiniteSet(U), S \cap U = {}
      PROVE  /\ IsFiniteSet(S \cup U)
             /\ Cardinality(S \cup U) = Cardinality(S) + Cardinality(U)
  <2>1. /\ IsFiniteSet(S \cup U)
        /\ Cardinality(S \cup U) = Cardinality(S) + Cardinality(U) - Cardinality(S \cap U)
    BY <1>7, FS_Union
  <2>2. Cardinality(S \cap U) = 0
    BY <1>7, FS_EmptySet
  <2>3. Cardinality(S) \in Nat /\ Cardinality(U) \in Nat
    BY <1>7, FS_CardinalityType
  <2>4. QED
    BY <2>1, <2>2, <2>3
<1>8. /\ IsFiniteSet(ToSet(ready) \cup ToSet(wait))
      /\ Cardinality(ToSet(ready) \cup ToSet(wait)) = R + W
  BY <1>4, <1>6, <1>7
<1>9. Cardinality((ToSet(ready) \cup ToSet(wait)) \cup ToSet(zombie)) = R + W + Z
  BY <1>4, <1>6, <1>7, <1>8
<1>10. born \ freed = (ToSet(ready) \cup ToSet(wait)) \cup ToSet(zombie)
  BY <1>5, <1>6
<1>11. QED
  BY <1>3, <1>6, <1>9, <1>10 DEF OneQueue, all

\* No freed task is named by what the kernel still reads.
LEMMA NothingDangles == LifeInv => NoDangling
<1> SUFFICES ASSUME LifeInv PROVE NoDangling
  OBVIOUS
<1>1. /\ Typed /\ Once(ready, wait, zombie) /\ Unborn /\ Graves(zombie) /\ Fathers
      /\ ToSet(waitq) \subseteq Alive
  BY DEF LifeInv, TypeInv, Lives
<1>2. Alive \cap freed = {}
  BY <1>1 DEF Unborn, Alive
<1>3. curr \notin freed
  BY RunningLives
<1>4. ASSUME NEW t \in born \ freed PROVE father[t] \notin freed
  <2>1. CASE t \in Queued
    BY <1>1, <1>2, <2>1, TaskAssumption DEF Fathers, Typed
  <2>2. CASE t \in ToSet(zombie)
    BY <1>1, <2>2 DEF Graves
  <2>3. QED
    BY <1>1, <2>1, <2>2 DEF Once, Queued
<1>5. QED
  BY <1>1, <1>2, <1>3, <1>4 DEF NoDangling

\* A thread in the queues whose father is gone or dead is dead itself.
LEMMA NoOrphan == LifeInv => NoOrphanThread
BY DEF LifeInv, Lives, Fathers, Alive, NoOrphanThread

\* While memory lasts and no task is killed in the queue of a semaphore, do_refresh_queues()
\* and kpagerd() lose no task: each that is not freed is once in one of the three queues,
\* for any number of tasks, any programs and any interruption.
THEOREM TasksInOneQueue ==
    ASSUME Spared
    PROVE  Spec => []OneQueue
<1>1. LifeInv /\ [Next]_vars => LifeInv'
  BY NextLives
<1>2. QED
  BY <1>1, InitLives, OnceCounted, PTL DEF Spec

\* Then kpagerd() frees no task that runs, that a semaphore will wake, or that is still the
\* father of another, alive or dead.
THEOREM NoTaskFreedInUse ==
    ASSUME Spared
    PROVE  Spec => []NoDangling
<1>1. LifeInv /\ [Next]_vars => LifeInv'
  BY NextLives
<1>2. QED
  BY <1>1, InitLives, NothingDangles, PTL DEF Spec

\* Then kill() leaves no thread alive whose father is dead, through any number of
\* generations.
THEOREM NoThreadOutlives ==
    ASSUME Spared
    PROVE  Spec => []NoOrphanThread
<1>1. LifeInv /\ [Next]_vars => LifeInv'
  BY NextLives
<1>2. QED
  BY <1>1, InitLives, NoOrphan, PTL DEF Spec
================================================================================
