-------------------------- MODULE ThreadPoolProofs --------------------------
(***************************************************************************)
(* Theorems about ThreadPool, for every number of threads and jobs and     *)
(* every set of weights.                                                   *)
(***************************************************************************)
EXTENDS ThreadPool, SequenceTheorems, WellFoundedInduction, TLAPS

-----------------------------------------------------------------------------
(* Type correctness *)

\* The scan of the pool and the spins of wait look at threads, and what is pushed
\* is a job.  A worker runs the first job of its queue.
Located ==
    /\ main = "scanning" => scan \in Threads
    /\ \A c \in Threads \cup {Main} : spinning[c] => waitAt[c] \in Threads
    /\ main \in {"scanning", "pushing"} => job \in Jobs
    /\ \A t \in Threads :
        worker[t] = "running" => tasks[t] # << >> /\ current[t] = Head(tasks[t])

TypeInv == TypeOK /\ Located

\* The weight of a job is a number, also that of no job.
LEMMA WeightIsInt ==
    ASSUME NEW j \in Jobs \cup {NoJob}
    PROVE  j.weight \in Int
<1>1. CASE j \in Jobs
  BY <1>1, ThreadPoolAssumption DEF Jobs
<1>2. CASE j = NoJob
  BY <1>2 DEF NoJob
<1> QED BY <1>1, <1>2

\* The initial state has the types.
LEMMA TypeInit == Init => TypeInv
BY ThreadPoolAssumption DEF Init, TypeInv, TypeOK, Located, Threads, Main

\* Every step keeps the types, action by action.
LEMMA TypeNext == TypeInv /\ [Next]_vars => TypeInv'
<1> SUFFICES ASSUME TypeOK, Located, [Next]_vars
             PROVE  TypeOK' /\ Located'
  BY DEF TypeInv
<1> USE ThreadPoolAssumption DEF Threads, Main
<1> DEFINE WorkerStates == {"checking", "asleep", "running", "finished", "ended"}
<1>1. ASSUME NEW w \in Weights, AssignNewTask(w) PROVE TypeOK' /\ Located'
  <2>1. job' \in Jobs
    BY <1>1 DEF TypeOK, AssignNewTask, Jobs
  <2>2. scan' \in Threads /\ least' \in Threads /\ leastWeight' \in Nat /\ given' \in 0..MaxJobs
    BY <1>1 DEF TypeOK, AssignNewTask
  <2>3. TypeOK'
    BY <1>1, <2>1, <2>2 DEF TypeOK, AssignNewTask, poolVars, waitVars
  <2>4. Located'
    BY <1>1, <2>1, <2>2 DEF Located, AssignNewTask, poolVars, waitVars
  <2> QED BY <2>3, <2>4
<1>2. CASE GetLeastBusyThread
  <2>1. scan \in Threads
    BY <1>2 DEF Located, GetLeastBusyThread
  <2>2. least' \in Threads /\ leastWeight' \in Nat
    BY <1>2, <2>1 DEF TypeOK, GetLeastBusyThread, Lighter
  <2>3. (main' = "scanning" /\ scan' \in Threads) \/ (main' = "pushing" /\ scan' = 0)
    BY <1>2, <2>1 DEF GetLeastBusyThread, LastScanned
  <2>4. TypeOK'
    BY <1>2, <2>2, <2>3 DEF TypeOK, GetLeastBusyThread, poolVars, waitVars
  <2>5. Located'
    BY <1>2, <2>3 DEF Located, GetLeastBusyThread, poolVars, waitVars
  <2> QED BY <2>4, <2>5
<1>3. CASE PushTask
  <2>1. tasks' \in [Threads -> Seq(Jobs)]
    BY <1>3 DEF TypeOK, Located, PushTask
  <2>2. worker' \in [Threads -> WorkerStates]
    BY <1>3 DEF TypeOK, PushTask, Notified
  <2>3. TypeOK'
    BY <1>3, <2>1, <2>2 DEF TypeOK, PushTask, waitVars
  <2>4. ASSUME NEW u \in Threads, worker'[u] = "running"
        PROVE  tasks'[u] # << >> /\ current'[u] = Head(tasks'[u])
    <3>1. worker[u] = "running"
      BY <1>3, <2>4 DEF TypeOK, PushTask, Notified
    <3>2. tasks[u] \in Seq(Jobs) /\ tasks[u] # << >> /\ current[u] = Head(tasks[u])
      BY <3>1 DEF TypeOK, Located
    <3>3. tasks'[u] = tasks[u] \/ tasks'[u] = Append(tasks[u], job)
      BY <1>3 DEF TypeOK, PushTask
    <3>4. job \in Jobs /\ current' = current
      BY <1>3 DEF Located, PushTask
    <3> QED BY <3>2, <3>3, <3>4
  <2>5. Located'
    BY <1>3, <2>4 DEF Located, PushTask, waitVars
  <2> QED BY <2>3, <2>5
<1>4. CASE AddWeight
  <2>1. job.weight \in Int
    BY WeightIsInt DEF TypeOK
  <2>2. weight' \in [Threads -> Int]
    BY <1>4, <2>1, SMTT(30) DEF TypeOK, AddWeight
  <2>3. TypeOK'
    BY <1>4, <2>2 DEF TypeOK, AddWeight, waitVars
  <2>4. Located'
    BY <1>4 DEF Located, AddWeight, waitVars
  <2> QED BY <2>3, <2>4
<1>5. ASSUME NEW t \in Threads, TakeTask(t) PROVE TypeOK' /\ Located'
  <2>1. tasks[t] # << >> => Head(tasks[t]) \in Jobs
    BY DEF TypeOK
  <2>2. worker' \in [Threads -> WorkerStates]
    BY <1>5 DEF TypeOK, TakeTask
  <2>3. current' \in [Threads -> Jobs \cup {NoJob}]
    BY <1>5, <2>1 DEF TypeOK, TakeTask
  <2>4. TypeOK'
    BY <1>5, <2>2, <2>3 DEF TypeOK, TakeTask, mainVars, waitVars
  <2>5. ASSUME NEW u \in Threads, worker'[u] = "running"
        PROVE  tasks'[u] # << >> /\ current'[u] = Head(tasks'[u])
    <3>1. CASE u = t
      BY <1>5, <2>5, <3>1 DEF TypeOK, TakeTask
    <3>2. CASE u # t
      <4>1. worker'[u] = worker[u] /\ tasks' = tasks /\ current'[u] = current[u]
        BY <1>5, <3>2 DEF TypeOK, TakeTask
      <4> QED BY <2>5, <4>1 DEF Located
    <3> QED BY <3>1, <3>2
  <2>6. Located'
    BY <1>5, <2>5 DEF Located, TakeTask, mainVars, waitVars
  <2> QED BY <2>4, <2>6
<1>6. ASSUME NEW t \in Threads, FinishTask(t) PROVE TypeOK' /\ Located'
  <2>0. tasks[t] \in Seq(Jobs) /\ tasks[t] # << >> /\ current[t] = Head(tasks[t])
    BY <1>6 DEF TypeOK, Located, FinishTask
  <2>1. tasks' \in [Threads -> Seq(Jobs)]
    BY <1>6, <2>0 DEF TypeOK, FinishTask, Popped
  <2>2. worker' \in [Threads -> WorkerStates] /\ done' \subseteq Jobs
    BY <1>6, <2>0 DEF TypeOK, Located, FinishTask
  <2>3. waitAt' \in [Threads \cup {Main} -> 0..(NumThreads + 1)]
    BY <1>6 DEF TypeOK, FinishTask
  <2>4. TypeOK'
    BY <1>6, <2>1, <2>2, <2>3 DEF TypeOK, FinishTask, mainVars
  <2>5. ~spinning[t]
    BY <1>6, SMTT(30) DEF TypeOK, Located, FinishTask
  <2>6. Located'
    BY <1>6, <2>5 DEF TypeOK, Located, FinishTask, mainVars
  <2> QED BY <2>4, <2>6
<1>7. ASSUME NEW t \in Threads, LowerWeight(t) PROVE TypeOK' /\ Located'
  <2>1. current[t].weight \in Int
    BY WeightIsInt DEF TypeOK
  <2>2. weight' \in [Threads -> Int] /\ worker' \in [Threads -> WorkerStates]
    BY <1>7, <2>1, SMTT(30) DEF TypeOK, LowerWeight, Lowered
  <2>3. TypeOK'
    BY <1>7, <2>2 DEF TypeOK, LowerWeight, mainVars, waitVars
  <2>4. Located'
    BY <1>7 DEF TypeOK, Located, LowerWeight, mainVars, waitVars
  <2> QED BY <2>3, <2>4
<1>8. ASSUME NEW c \in Threads \cup {Main}, BeginWait(c) PROVE TypeOK' /\ Located'
  <2>1. waitAt' \in [Threads \cup {Main} -> 0..(NumThreads + 1)]
    BY <1>8 DEF TypeOK, BeginWait
  <2>2. main' \in {"waiting", main}
    BY <1>8 DEF BeginWait
  <2>3. TypeOK'
    BY <1>8, <2>1, <2>2 DEF TypeOK, BeginWait, poolVars
  <2>4. Located'
    BY <1>8, <2>2 DEF TypeOK, Located, BeginWait, poolVars
  <2> QED BY <2>3, <2>4
<1>9. ASSUME NEW c \in Threads \cup {Main}, WaitLooks(c) PROVE TypeOK' /\ Located'
  <2>0. waitAt[c] \in Threads
    BY <1>9 DEF WaitLooks
  <2>1. waitAt[c] + 1 \in 0..(NumThreads + 1)
    BY <2>0
  <2>2. waitAt' \in [Threads \cup {Main} -> 0..(NumThreads + 1)]
    BY <1>9, <2>1 DEF TypeOK, WaitLooks
  <2>3. spinning' \in [Threads \cup {Main} -> BOOLEAN]
    BY <1>9, Zenon DEF TypeOK, WaitLooks
  <2>4. TypeOK'
    BY <1>9, <2>2, <2>3 DEF TypeOK, WaitLooks, poolVars, mainVars
  <2>5. ASSUME NEW d \in Threads \cup {Main}, spinning'[d] PROVE waitAt'[d] \in Threads
    BY <1>9, <2>5 DEF TypeOK, Located, WaitLooks
  <2>6. Located'
    BY <1>9, <2>5 DEF Located, WaitLooks, poolVars, mainVars
  <2> QED BY <2>4, <2>6
<1>10. ASSUME NEW c \in Threads \cup {Main}, WaitSpins(c) PROVE TypeOK' /\ Located'
  <2>0. waitAt[c] \in Threads
    BY <1>10 DEF Located, WaitSpins
  <2>1. waitAt[c] + 1 \in 0..(NumThreads + 1)
    BY <2>0
  <2>2. waitAt' \in [Threads \cup {Main} -> 0..(NumThreads + 1)]
    BY <1>10, <2>1 DEF TypeOK, WaitSpins
  <2>3. spinning' \in [Threads \cup {Main} -> BOOLEAN]
    BY <1>10, Zenon DEF TypeOK, WaitSpins
  <2>4. TypeOK'
    BY <1>10, <2>2, <2>3 DEF TypeOK, WaitSpins, poolVars, mainVars
  <2>5. ASSUME NEW d \in Threads \cup {Main}, spinning'[d] PROVE waitAt'[d] \in Threads
    BY <1>10, <2>5 DEF TypeOK, Located, WaitSpins
  <2>6. Located'
    BY <1>10, <2>5 DEF Located, WaitSpins, poolVars, mainVars
  <2> QED BY <2>4, <2>6
<1>11. CASE WaitReturns
  <2>1. waitAt' \in [Threads \cup {Main} -> 0..(NumThreads + 1)]
    BY <1>11 DEF TypeOK, WaitReturns
  <2>2. TypeOK'
    BY <1>11, <2>1 DEF TypeOK, WaitReturns, poolVars
  <2>3. ~spinning[Main]
    BY <1>11 DEF TypeOK, Located, WaitReturns
  <2>4. Located'
    BY <1>11, <2>3 DEF TypeOK, Located, WaitReturns, poolVars
  <2> QED BY <2>2, <2>4
<1>12. CASE DeleteThread
  <2>1. scan' \in Threads
    BY <1>12, SMTT(30) DEF TypeOK, DeleteThread
  <2>2. worker' \in [Threads -> WorkerStates]
    BY <1>12 DEF TypeOK, DeleteThread, Notified
  <2>3. terminated' \in [Threads -> BOOLEAN]
    BY <1>12, <2>1, Zenon DEF TypeOK, DeleteThread
  <2>4. TypeOK'
    BY <1>12, <2>1, <2>2, <2>3 DEF TypeOK, DeleteThread, waitVars
  <2>5. Located'
    BY <1>12, <2>1 DEF TypeOK, Located, DeleteThread, Notified, waitVars
  <2> QED BY <2>4, <2>5
<1>13. CASE Deleted
  BY <1>13 DEF TypeOK, Located, Deleted, poolVars, waitVars
<1>14. CASE UNCHANGED vars
  BY <1>14 DEF TypeOK, Located, vars, poolVars, mainVars, waitVars
<1> QED
  BY <1>1, <1>2, <1>3, <1>4, <1>5, <1>6, <1>7, <1>8, <1>9, <1>10, <1>11, <1>12, <1>13, <1>14
  DEF Next, MainNext, WorkerNext, Waiting

\* The types, and where the main thread and the workers are.
LEMMA TypeAlways == Spec => []TypeInv
<1>1. TypeInv /\ [Next]_vars => TypeInv'
  BY TypeNext
<1> QED BY TypeInit, <1>1, PTL DEF Spec

\* Thread and ThreadPool keep their types: a worker's state, indices that stay on the threads
\* there are, queues of jobs.
THEOREM TypeCorrect == Spec => []TypeOK
<1>1. TypeInv => TypeOK
  BY DEF TypeInv
<1> QED BY TypeAlways, <1>1, PTL

-----------------------------------------------------------------------------
(* Jobs are kept *)

\* Ids are given out in order; the one given last is in no queue before it is pushed.
IdsInOrder ==
    /\ \A t \in Threads : \A i \in DOMAIN tasks[t] : tasks[t][i].id <= given
    /\ \A j \in done : j.id <= given
    /\ main \in {"scanning", "pushing"} =>
        job.id = given /\ ~Queued(given) /\ ~Returned(given)

JobsInv == IdsInOrder /\ JobsKept

\* No job is given in the initial state.
LEMMA JobsInit == Init => JobsInv
BY DEF Init, JobsInv, IdsInOrder, JobsKept, Queued, Returned

\* What leaves queues, returned jobs and the job in hand alone keeps the invariant.
LEMMA JobsUntouched ==
    ASSUME JobsInv, tasks' = tasks, done' = done, given' = given, job' = job,
           main' \in {"scanning", "pushing"} => main \in {"scanning", "pushing"},
           main \in {"scanning", "pushing"} => main' \in {"scanning", "pushing"}
    PROVE  JobsInv'
BY DEF JobsInv, IdsInOrder, JobsKept, Queued, Returned

\* A job that is given has an id of its own.
LEMMA JobsAssigned ==
    ASSUME TypeInv, JobsInv, NEW w \in Weights, AssignNewTask(w)
    PROVE  JobsInv'
<1>1. tasks' = tasks /\ done' = done /\ given \in Nat /\ given' = given + 1
  BY DEF AssignNewTask, poolVars, TypeInv, TypeOK
<1>2. \A t \in Threads : tasks[t] \in Seq(Jobs)
  BY DEF TypeInv, TypeOK
<1>3. \A j \in Jobs : j.id \in Nat
  BY DEF Jobs
<1>4. done \subseteq Jobs
  BY DEF TypeInv, TypeOK
<1>5. \A t \in Threads : \A i \in DOMAIN tasks[t] : tasks[t][i].id \in Nat
  BY <1>2, <1>3
<1>6. ~Queued(given + 1) /\ ~Returned(given + 1)
  BY <1>1, <1>3, <1>4, <1>5 DEF JobsInv, IdsInOrder, Queued, Returned
<1>7. IdsInOrder'
  BY <1>1, <1>3, <1>4, <1>5, <1>6 DEF JobsInv, IdsInOrder, AssignNewTask, Queued, Returned
<1>8. JobsKept'
  BY <1>1, ThreadPoolAssumption DEF JobsInv, JobsKept, AssignNewTask, Queued, Returned
<1> QED BY <1>7, <1>8 DEF JobsInv

\* A queue that has grown by one job.
LEMMA JobsPushed ==
    ASSUME TypeInv, JobsInv, PushTask
    PROVE  JobsInv'
<1> DEFINE n == Len(tasks[least])
<1>1. /\ tasks \in [Threads -> Seq(Jobs)] /\ least \in Threads /\ job \in Jobs /\ given \in Nat
      /\ tasks' = [tasks EXCEPT ![least] = Append(@, job)]
      /\ done' = done /\ given' = given /\ main' = "weighing"
  BY DEF PushTask, TypeInv, TypeOK, Located
<1>2. job.id = given /\ ~Queued(given) /\ ~Returned(given)
  BY DEF PushTask, JobsInv, IdsInOrder
<1>3. /\ DOMAIN tasks'[least] = DOMAIN tasks[least] \cup {n + 1}
      /\ tasks'[least][n + 1] = job /\ n + 1 \notin DOMAIN tasks[least]
      /\ \A i \in DOMAIN tasks[least] : tasks'[least][i] = tasks[least][i]
  BY <1>1
<1>4. \A t \in Threads \ {least} : tasks'[t] = tasks[t]
  BY <1>1
<1>5. \A k : Returned(k)' <=> Returned(k)
  BY <1>1 DEF Returned
<1>6. \A k : Queued(k) => Queued(k)'
  BY <1>1, <1>3, <1>4 DEF Queued
<1>7. Queued(given)'
  BY <1>1, <1>2, <1>3 DEF Queued
<1>8. IdsInOrder'
  BY <1>1, <1>2, <1>3, <1>4 DEF JobsInv, IdsInOrder
<1>9. JobsKept'
  <2>1. ASSUME NEW s \in Threads, NEW t \in Threads, NEW i \in DOMAIN tasks'[s],
               NEW k \in DOMAIN tasks'[t], tasks'[s][i].id = tasks'[t][k].id
        PROVE  s = t /\ i = k
    <3>1. (i \in DOMAIN tasks[s] /\ tasks'[s][i] = tasks[s][i])
            \/ (s = least /\ i = n + 1 /\ tasks'[s][i] = job)
      BY <1>3, <1>4
    <3>2. (k \in DOMAIN tasks[t] /\ tasks'[t][k] = tasks[t][k])
            \/ (t = least /\ k = n + 1 /\ tasks'[t][k] = job)
      BY <1>3, <1>4
    <3> QED BY <1>2, <2>1, <3>1, <3>2 DEF JobsInv, JobsKept, Queued
  <2>2. ASSUME NEW t \in Threads, NEW i \in DOMAIN tasks'[t]
        PROVE  ~Returned(tasks'[t][i].id)
    BY <1>2, <1>3, <1>4 DEF JobsInv, JobsKept
  <2>3. ASSUME NEW k \in 1..given PROVE Returned(k)' \/ Queued(k)'
    BY <1>1, <1>5, <1>6, <1>7 DEF JobsInv, JobsKept
  <2> QED BY <1>1, <1>5, <2>1, <2>2, <2>3 DEF JobsKept
<1> QED BY <1>8, <1>9 DEF JobsInv

\* A queue that has lost its first job, which has returned.
LEMMA JobsFinished ==
    ASSUME TypeInv, JobsInv, NEW u \in Threads, FinishTask(u)
    PROVE  JobsInv'
<1> DEFINE j == Head(tasks[u])
<1>1. /\ tasks \in [Threads -> Seq(Jobs)] /\ tasks[u] # << >> /\ given \in Nat
      /\ tasks' = [tasks EXCEPT ![u] = Tail(@)]
      /\ done' = done \cup {j} /\ given' = given /\ main' = main /\ job' = job
  BY DEF FinishTask, Popped, mainVars, TypeInv, TypeOK, Located
<1>2. /\ 1 \in DOMAIN tasks[u] /\ tasks[u][1] = j
      /\ \A i : i \in DOMAIN tasks'[u] =>
            i + 1 \in DOMAIN tasks[u] /\ i + 1 # 1 /\ tasks'[u][i] = tasks[u][i + 1]
      /\ \A i \in DOMAIN tasks[u] :
            i = 1 \/ (i - 1 \in DOMAIN tasks'[u] /\ tasks'[u][i - 1] = tasks[u][i])
  BY <1>1
<1>3. \A t \in Threads \ {u} : tasks'[t] = tasks[t]
  BY <1>1
<1>4. \A k : Returned(k)' <=> Returned(k) \/ k = j.id
  BY <1>1 DEF Returned
<1>5. \A k : Queued(k) => Queued(k)' \/ k = j.id
  BY <1>2, <1>3 DEF Queued
<1>6. \A k : Queued(k)' => Queued(k)
  BY <1>2, <1>3 DEF Queued
<1>7. Queued(j.id)
  BY <1>2 DEF Queued
<1>8. IdsInOrder'
  <2>1. j.id <= given
    BY <1>2 DEF JobsInv, IdsInOrder
  <2>2. \A t \in Threads : \A i \in DOMAIN tasks'[t] : tasks'[t][i].id <= given
    BY <1>2, <1>3 DEF JobsInv, IdsInOrder
  <2>3. main \in {"scanning", "pushing"} =>
            job.id = given /\ ~Queued(given)' /\ ~Returned(given)'
    BY <1>1, <1>4, <1>6, <1>7 DEF JobsInv, IdsInOrder
  <2> QED BY <1>1, <2>1, <2>2, <2>3 DEF JobsInv, IdsInOrder
<1>9. JobsKept'
  <2>1. ASSUME NEW s \in Threads, NEW t \in Threads, NEW i \in DOMAIN tasks'[s],
               NEW k \in DOMAIN tasks'[t], tasks'[s][i].id = tasks'[t][k].id
        PROVE  s = t /\ i = k
    <3>1. i \in Int /\ k \in Int
      BY <1>1
    <3>2. IF s = u THEN i + 1 \in DOMAIN tasks[s] /\ tasks'[s][i] = tasks[s][i + 1]
                   ELSE i \in DOMAIN tasks[s] /\ tasks'[s][i] = tasks[s][i]
      BY <1>2, <1>3
    <3>3. IF t = u THEN k + 1 \in DOMAIN tasks[t] /\ tasks'[t][k] = tasks[t][k + 1]
                   ELSE k \in DOMAIN tasks[t] /\ tasks'[t][k] = tasks[t][k]
      BY <1>2, <1>3
    <3>4. s = t
      BY <2>1, <3>2, <3>3 DEF JobsInv, JobsKept
    <3>5. i = k
      BY <2>1, <3>1, <3>2, <3>3, <3>4 DEF JobsInv, JobsKept
    <3> QED BY <3>4, <3>5
  <2>2. ASSUME NEW t \in Threads, NEW i \in DOMAIN tasks'[t]
        PROVE  ~Returned(tasks'[t][i].id) /\ tasks'[t][i].id # j.id
    <3>1. CASE t = u
      BY <1>2, <3>1 DEF JobsInv, JobsKept
    <3>2. CASE t # u
      BY <1>2, <1>3, <3>2 DEF JobsInv, JobsKept
    <3> QED BY <3>1, <3>2
  <2>3. ASSUME NEW k \in 1..given
        PROVE  Returned(k)' \/ Queued(k)' \/ (k = given /\ main \in {"scanning", "pushing"})
    BY <1>4, <1>5 DEF JobsInv, JobsKept
  <2> QED BY <1>1, <1>4, <2>1, <2>2, <2>3 DEF JobsKept
<1> QED BY <1>8, <1>9 DEF JobsInv

\* Every step keeps the jobs, action by action.
LEMMA JobsNext == TypeInv /\ JobsInv /\ [Next]_vars => JobsInv'
<1> SUFFICES ASSUME TypeInv, JobsInv, [Next]_vars PROVE JobsInv'
  OBVIOUS
<1>1. ASSUME NEW w \in Weights, AssignNewTask(w) PROVE JobsInv'
  BY <1>1, JobsAssigned
<1>2. CASE PushTask
  BY <1>2, JobsPushed
<1>3. ASSUME NEW t \in Threads, FinishTask(t) PROVE JobsInv'
  BY <1>3, JobsFinished
<1>4. CASE GetLeastBusyThread
  BY <1>4, JobsUntouched DEF GetLeastBusyThread, poolVars
<1>5. CASE AddWeight \/ WaitReturns \/ Deleted
  BY <1>5, JobsUntouched DEF AddWeight, WaitReturns, Deleted, poolVars
<1>6. CASE DeleteThread
  BY <1>6, JobsUntouched DEF DeleteThread
<1>7. ASSUME NEW t \in Threads, TakeTask(t) \/ LowerWeight(t) PROVE JobsInv'
  BY <1>7, JobsUntouched DEF TakeTask, LowerWeight, mainVars
<1>8. ASSUME NEW c \in Threads \cup {Main}, BeginWait(c) \/ WaitLooks(c) \/ WaitSpins(c)
      PROVE  JobsInv'
  BY <1>8, JobsUntouched DEF BeginWait, WaitLooks, WaitSpins, poolVars, mainVars
<1>9. CASE UNCHANGED vars
  BY <1>9, JobsUntouched DEF vars, poolVars, mainVars
<1> QED
  BY <1>1, <1>2, <1>3, <1>4, <1>5, <1>6, <1>7, <1>8, <1>9 DEF Next, MainNext, WorkerNext, Waiting

\* thread.cpp:29-61, threadpool.cpp:8-49: whatever the threads do at the same time, a job that
\* was given is in one queue, at one place, or has returned: none is lost, none runs twice.
THEOREM JobsAreKept == Spec => []JobsKept
<1>1. TypeInv /\ JobsInv /\ [Next]_vars => JobsInv'
  BY JobsNext
<1>2. JobsInv => JobsKept
  BY DEF JobsInv
<1> QED BY TypeAlways, JobsInit, <1>1, <1>2, PTL DEF Spec

-----------------------------------------------------------------------------
(* Sums.  Induction over the numbers is induction over a set of them. *)

\* A set of natural numbers that has 0, and with every number the next one, has them all.
LEMMA SetInduction ==
    ASSUME NEW S \in SUBSET Nat, 0 \in S, \A n \in Nat : n \in S => n + 1 \in S
    PROVE  S = Nat
<1>1. OpToRel(<, Nat) = {ss \in Nat \X Nat : ss[1] < ss[2]}
  BY DEF OpToRel
<1>2. SUFFICES ASSUME Nat \ S # {} PROVE FALSE
  OBVIOUS
<1>3. PICK x \in Nat \ S : \A y \in Nat \ S : ~ (<<y, x>> \in OpToRel(<, Nat))
  BY <1>2, NatLessThanWellFounded, WFMin
<1>4. x - 1 \in Nat /\ x - 1 < x /\ (x - 1) + 1 = x
  <2>1. x \in Nat /\ x # 0
    BY <1>3
  <2> QED BY <2>1
<1>5. x - 1 \in S
  <2>1. <<x - 1, x>> \notin {ss \in Nat \X Nat : ss[1] < ss[2]} \/ x - 1 \in S
    BY <1>1, <1>3, <1>4
  <2> QED BY <1>3, <1>4, <2>1
<1> QED BY <1>3, <1>4, <1>5

\* The sums of the first parts of a sequence, as PartialSums defines them.
AreSums(f, s) == f = [n \in 0..Len(s) |-> IF n = 0 THEN 0 ELSE f[n - 1] + s[n]]

\* The recursive definition of PartialSums has a solution.
LEMMA SumsExist ==
    ASSUME NEW s \in Seq(Int)
    PROVE  \E f \in [0..Len(s) -> Int] : AreSums(f, s)
<1> DEFINE Good(f, n) == f[0] = 0 /\ \A k \in 1..n : f[k] = f[k - 1] + s[k]
           Has(n) == \E f \in [0..n -> Int] : Good(f, n)
           S == {n \in Nat : n <= Len(s) => Has(n)}
<1>1. Len(s) \in Nat /\ \A k \in 1..Len(s) : s[k] \in Int
  BY ElementOfSeq, LenProperties
<1>2. 0 \in S
  <2> DEFINE f == [k \in 0..0 |-> 0]
  <2>1. f \in [0..0 -> Int] /\ Good(f, 0)
    OBVIOUS
  <2> QED BY <2>1
<1>3. ASSUME NEW n \in Nat, n \in S, n + 1 <= Len(s)
      PROVE  Has(n + 1)
  <2>1. n <= Len(s) /\ n + 1 \in 1..Len(s) /\ s[n + 1] \in Int
    BY <1>1, <1>3
  <2>2. PICK f \in [0..n -> Int] : Good(f, n)
    BY <1>3, <2>1
  <2> DEFINE g == [k \in 0..(n + 1) |-> IF k = n + 1 THEN f[n] + s[n + 1] ELSE f[k]]
  <2>3. g \in [0..(n + 1) -> Int]
    BY <2>1
  <2>4. g[0] = 0
    BY <2>2
  <2>5. ASSUME NEW k \in 1..(n + 1)
        PROVE  g[k] = g[k - 1] + s[k]
    BY <2>2
  <2> QED BY <2>3, <2>4, <2>5
<1>4. S = Nat
  <2> HIDE DEF Has
  <2>1. \A n \in Nat : n \in S => n + 1 \in S
    BY <1>3
  <2> HIDE DEF S
  <2>2. S \in SUBSET Nat
    BY DEF S
  <2> QED BY <1>2, <2>1, <2>2, SetInduction
<1>5. PICK f \in [0..Len(s) -> Int] : Good(f, Len(s))
  <2> HIDE DEF Good
  <2>1. Has(Len(s))
    <3> HIDE DEF Has
    <3>1. Len(s) \in S
      BY <1>1, <1>4
    <3> QED BY <1>1, <3>1
  <2> QED BY <2>1
<1>6. AreSums(f, s)
  <2>1. f = [n \in 0..Len(s) |-> f[n]]
    OBVIOUS
  <2>2. \A n \in 0..Len(s) : f[n] = IF n = 0 THEN 0 ELSE f[n - 1] + s[n]
    BY <1>1, <1>5
  <2> QED BY <2>1, <2>2 DEF AreSums
<1> QED BY <1>6

\* What PartialSums and Total are made of.
LEMMA SumsProperties ==
    ASSUME NEW s \in Seq(Int)
    PROVE  /\ PartialSums(s)[0] = 0
           /\ \A n \in 1..Len(s) : PartialSums(s)[n] = PartialSums(s)[n - 1] + s[n]
           /\ \A n \in 0..Len(s) : PartialSums(s)[n] \in Int
           /\ Total(s) \in Int
<1> DEFINE f == PartialSums(s)
<1>1. f = CHOOSE g : AreSums(g, s)
  BY DEF PartialSums, AreSums
<1>2. AreSums(f, s)
  BY <1>1, SumsExist
<1>3. Len(s) \in Nat /\ \A k \in 1..Len(s) : s[k] \in Int
  BY ElementOfSeq, LenProperties
<1> HIDE DEF f
<1>4. f[0] = 0 /\ \A n \in 1..Len(s) : f[n] = f[n - 1] + s[n]
  <2>1. \A n \in 0..Len(s) : f[n] = IF n = 0 THEN 0 ELSE f[n - 1] + s[n]
    BY <1>2 DEF AreSums
  <2> QED BY <1>3, <2>1
<1>5. \A n \in 0..Len(s) : f[n] \in Int
  <2> DEFINE S == {n \in Nat : n <= Len(s) => f[n] \in Int}
  <2>1. 0 \in S
    BY <1>4
  <2>2. ASSUME NEW n \in Nat, n \in S, n + 1 <= Len(s)
        PROVE  f[n + 1] \in Int
    <3>1. n + 1 \in 1..Len(s) /\ f[n] \in Int /\ s[n + 1] \in Int
      BY <1>3, <2>2
    <3>2. f[n + 1] = f[(n + 1) - 1] + s[n + 1] /\ (n + 1) - 1 = n
      BY <1>4, <3>1
    <3> QED BY <3>1, <3>2
  <2>3. S = Nat
    <3>1. \A n \in Nat : n \in S => n + 1 \in S
      BY <2>2
    <3> HIDE DEF S
    <3>2. S \in SUBSET Nat
      BY DEF S
    <3> QED BY <2>1, <3>1, <3>2, SetInduction
  <2> QED BY <1>3, <2>3
<1> QED BY <1>3, <1>4, <1>5 DEF f, Total

\* One more number at the end.
LEMMA TotalAppend ==
    ASSUME NEW s \in Seq(Int), NEW x \in Int
    PROVE  Total(Append(s, x)) = Total(s) + x
<1> DEFINE r == Append(s, x)
           f == PartialSums(s)
           g == PartialSums(r)
<1>1. /\ r \in Seq(Int) /\ Len(r) = Len(s) + 1 /\ Len(s) \in Nat
      /\ \A n \in 1..Len(s) : r[n] = s[n]
      /\ r[Len(s) + 1] = x
  OBVIOUS
<1> HIDE DEF r
<1>2. /\ f[0] = 0 /\ \A n \in 1..Len(s) : f[n] = f[n - 1] + s[n]
      /\ Total(s) = f[Len(s)]
  BY SumsProperties DEF Total
<1>3. /\ g[0] = 0 /\ \A n \in 1..(Len(s) + 1) : g[n] = g[n - 1] + r[n]
      /\ Total(r) = g[Len(s) + 1]
  BY <1>1, SumsProperties DEF Total
<1> HIDE DEF f, g
<1> DEFINE S == {n \in Nat : n <= Len(s) => g[n] = f[n]}
<1>4. 0 \in S
  BY <1>2, <1>3
<1>5. ASSUME NEW n \in Nat, n \in S, n + 1 <= Len(s)
      PROVE  g[n + 1] = f[n + 1]
  <2>1. n + 1 \in 1..Len(s) /\ n + 1 \in 1..(Len(s) + 1) /\ (n + 1) - 1 = n /\ g[n] = f[n]
    BY <1>1, <1>5
  <2>2. g[n + 1] = g[n] + r[n + 1] /\ f[n + 1] = f[n] + s[n + 1]
    BY <1>2, <1>3, <2>1
  <2> QED BY <1>1, <2>1, <2>2
<1>6. S = Nat
  <2>1. \A n \in Nat : n \in S => n + 1 \in S
    BY <1>5
  <2> HIDE DEF S
  <2>2. S \in SUBSET Nat
    BY DEF S
  <2> QED BY <1>4, <2>1, <2>2, SetInduction
<1>7. g[Len(s)] = f[Len(s)]
  BY <1>1, <1>6
<1>8. g[Len(s) + 1] = g[Len(s)] + x
  <2>1. Len(s) + 1 \in 1..(Len(s) + 1) /\ (Len(s) + 1) - 1 = Len(s)
    BY <1>1
  <2> QED BY <1>1, <1>3, <2>1
<1> QED BY <1>2, <1>3, <1>7, <1>8 DEF r

\* One number less at the front.
LEMMA TotalTail ==
    ASSUME NEW s \in Seq(Int), s # << >>
    PROVE  Total(Tail(s)) = Total(s) - Head(s)
<1> DEFINE r == Tail(s)
           h == Head(s)
           f == PartialSums(s)
           g == PartialSums(r)
<1>1. /\ r \in Seq(Int) /\ Len(s) \in Nat \ {0} /\ Len(r) = Len(s) - 1 /\ h \in Int
      /\ \A n \in 1..(Len(s) - 1) : r[n] = s[n + 1]
      /\ h = s[1]
  OBVIOUS
<1> HIDE DEF r, h
<1>2. /\ f[0] = 0 /\ \A n \in 1..Len(s) : f[n] = f[n - 1] + s[n]
      /\ \A n \in 0..Len(s) : f[n] \in Int
      /\ Total(s) = f[Len(s)]
  BY SumsProperties DEF Total
<1>3. /\ g[0] = 0 /\ \A n \in 1..(Len(s) - 1) : g[n] = g[n - 1] + r[n]
      /\ Total(r) = g[Len(s) - 1]
  BY <1>1, SumsProperties DEF Total
<1>4. \A n \in 1..Len(s) : s[n] \in Int
  BY ElementOfSeq, LenProperties
<1> HIDE DEF f, g
<1> DEFINE S == {n \in Nat : n <= Len(s) - 1 => g[n] = f[n + 1] - h}
<1>5. 0 \in S
  <2>1. 1 \in 1..Len(s) /\ 1 - 1 = 0 /\ 0 + 1 = 1
    BY <1>1
  <2>2. f[1] = 0 + h
    BY <1>1, <1>2, <2>1
  <2> QED BY <1>1, <1>3, <2>2
<1>6. ASSUME NEW n \in Nat, n \in S, n + 1 <= Len(s) - 1
      PROVE  g[n + 1] = f[(n + 1) + 1] - h
  <2>1. /\ n + 1 \in 1..(Len(s) - 1) /\ (n + 1) - 1 = n
        /\ (n + 1) + 1 \in 1..Len(s) /\ ((n + 1) + 1) - 1 = n + 1 /\ n + 1 \in 0..Len(s)
        /\ g[n] = f[n + 1] - h
    BY <1>1, <1>6
  <2>2. g[n + 1] = g[n] + r[n + 1] /\ r[n + 1] = s[(n + 1) + 1]
    BY <1>1, <1>3, <2>1
  <2>3. f[(n + 1) + 1] = f[n + 1] + s[(n + 1) + 1]
    BY <1>2, <2>1
  <2>4. f[n + 1] \in Int /\ s[(n + 1) + 1] \in Int
    BY <1>2, <1>4, <2>1
  <2> QED BY <1>1, <2>1, <2>2, <2>3, <2>4, SMTT(30)
<1>7. S = Nat
  <2>1. \A n \in Nat : n \in S => n + 1 \in S
    BY <1>6
  <2> HIDE DEF S
  <2>2. S \in SUBSET Nat
    BY DEF S
  <2> QED BY <1>5, <2>1, <2>2, SetInduction
<1>8. g[Len(s) - 1] = f[Len(s)] - h
  <2>1. Len(s) - 1 \in Nat /\ (Len(s) - 1) + 1 = Len(s)
    BY <1>1
  <2> QED BY <1>7, <2>1, SMTT(30)
<1> QED BY <1>2, <1>3, <1>8 DEF r, h

\* Where no number is greater the sum is not, and it is less where one number is.
LEMMA TotalOrder ==
    ASSUME NEW s \in Seq(Int), NEW r \in Seq(Int), Len(r) = Len(s),
           \A n \in 1..Len(s) : s[n] <= r[n]
    PROVE  /\ Total(s) <= Total(r)
           /\ (\E n \in 1..Len(s) : s[n] < r[n]) => Total(s) < Total(r)
<1> DEFINE f == PartialSums(s)
           g == PartialSums(r)
           Less(n) == \E k \in 1..n : s[k] < r[k]
<1>1. /\ Len(s) \in Nat
      /\ \A n \in 1..Len(s) : s[n] \in Int /\ r[n] \in Int
  BY ElementOfSeq, LenProperties
<1>2. /\ f[0] = 0 /\ \A n \in 1..Len(s) : f[n] = f[n - 1] + s[n]
      /\ \A n \in 0..Len(s) : f[n] \in Int
      /\ Total(s) = f[Len(s)]
  BY SumsProperties DEF Total
<1>3. /\ g[0] = 0 /\ \A n \in 1..Len(s) : g[n] = g[n - 1] + r[n]
      /\ \A n \in 0..Len(s) : g[n] \in Int
      /\ Total(r) = g[Len(s)]
  BY SumsProperties DEF Total
<1> HIDE DEF f, g
<1> DEFINE S == {n \in Nat : n <= Len(s) => f[n] <= g[n] /\ (Less(n) => f[n] < g[n])}
<1>4. 0 \in S
  BY <1>2, <1>3
<1>5. ASSUME NEW n \in Nat, n \in S, n + 1 <= Len(s)
      PROVE  f[n + 1] <= g[n + 1] /\ (Less(n + 1) => f[n + 1] < g[n + 1])
  <2>1. n + 1 \in 1..Len(s) /\ (n + 1) - 1 = n /\ n \in 0..Len(s)
    BY <1>1, <1>5
  <2>2. f[n + 1] = f[n] + s[n + 1] /\ g[n + 1] = g[n] + r[n + 1]
    BY <1>2, <1>3, <2>1
  <2>3. /\ f[n] \in Int /\ g[n] \in Int /\ s[n + 1] \in Int /\ r[n + 1] \in Int
        /\ s[n + 1] <= r[n + 1]
    BY <1>1, <1>2, <1>3, <2>1
  <2>4. f[n] <= g[n] /\ (Less(n) => f[n] < g[n])
    BY <1>5, <2>1
  <2>5. Less(n + 1) => Less(n) \/ s[n + 1] < r[n + 1]
    OBVIOUS
  <2> HIDE DEF Less
  <2> QED BY <2>2, <2>3, <2>4, <2>5
<1>6. S = Nat
  <2>1. \A n \in Nat : n \in S => n + 1 \in S
    BY <1>5
  <2> HIDE DEF S
  <2>2. S \in SUBSET Nat
    BY DEF S
  <2> QED BY <1>4, <2>1, <2>2, SetInduction
<1>7. f[Len(s)] <= g[Len(s)] /\ (Less(Len(s)) => f[Len(s)] < g[Len(s)])
  BY <1>1, <1>6
<1> QED BY <1>2, <1>3, <1>7

\* No number is negative and neither is the sum.
LEMMA TotalNatural ==
    ASSUME NEW s \in Seq(Int), \A n \in 1..Len(s) : s[n] >= 0
    PROVE  Total(s) >= 0
<1> DEFINE f == PartialSums(s)
<1>1. Len(s) \in Nat /\ \A n \in 1..Len(s) : s[n] \in Int
  BY ElementOfSeq, LenProperties
<1>2. /\ f[0] = 0 /\ \A n \in 1..Len(s) : f[n] = f[n - 1] + s[n]
      /\ \A n \in 0..Len(s) : f[n] \in Int
      /\ Total(s) = f[Len(s)]
  BY SumsProperties DEF Total
<1> HIDE DEF f
<1> DEFINE S == {n \in Nat : n <= Len(s) => f[n] >= 0}
<1>3. 0 \in S
  BY <1>2
<1>4. ASSUME NEW n \in Nat, n \in S, n + 1 <= Len(s)
      PROVE  f[n + 1] >= 0
  <2>1. n + 1 \in 1..Len(s) /\ (n + 1) - 1 = n /\ n \in 0..Len(s) /\ f[n] >= 0
    BY <1>1, <1>4
  <2>2. f[n + 1] = f[n] + s[n + 1] /\ s[n + 1] >= 0 /\ f[n] \in Int /\ s[n + 1] \in Int
    BY <1>1, <1>2, <2>1
  <2> QED BY <2>1, <2>2
<1>5. S = Nat
  <2>1. \A n \in Nat : n \in S => n + 1 \in S
    BY <1>4
  <2> HIDE DEF S
  <2>2. S \in SUBSET Nat
    BY DEF S
  <2> QED BY <1>3, <2>1, <2>2, SetInduction
<1> QED BY <1>1, <1>2, <1>5

-----------------------------------------------------------------------------
(* Weights are accounted for *)

\* The weights of a queue are a sequence of numbers.
Weighed(q) == [i \in DOMAIN q |-> q[i].weight]

\* And the weight of the queue is their sum.
LEMMA WeighedIsSeq ==
    ASSUME NEW q \in Seq(Jobs)
    PROVE  /\ Weighed(q) \in Seq(Int) /\ Len(Weighed(q)) = Len(q)
           /\ \A i \in 1..Len(q) : Weighed(q)[i] = q[i].weight
           /\ WeightOf(q) = Total(Weighed(q)) /\ WeightOf(q) \in Int
<1>1. DOMAIN q = 1..Len(q) /\ Len(q) \in Nat /\ \A i \in 1..Len(q) : q[i] \in Jobs
  BY ElementOfSeq, LenProperties
<1>2. \A i \in 1..Len(q) : q[i].weight \in Int
  BY <1>1, WeightIsInt
<1>3. Weighed(q) = [i \in 1..Len(q) |-> q[i].weight]
  BY <1>1 DEF Weighed
<1>4. Weighed(q) \in Seq(Int) /\ Len(Weighed(q)) = Len(q)
  BY <1>1, <1>2, <1>3, IsASeq
<1> QED BY <1>3, <1>4, SumsProperties DEF WeightOf, Weighed

\* A pushed job adds its weight to that of the queue.
LEMMA WeightOfAppend ==
    ASSUME NEW q \in Seq(Jobs), NEW j \in Jobs
    PROVE  WeightOf(Append(q, j)) = WeightOf(q) + j.weight
<1>1. j.weight \in Int /\ Append(q, j) \in Seq(Jobs) /\ Len(Append(q, j)) = Len(q) + 1
  BY WeightIsInt
<1>2. Weighed(Append(q, j)) = Append(Weighed(q), j.weight)
  <2>1. /\ Weighed(Append(q, j)) \in Seq(Int) /\ Len(Weighed(Append(q, j))) = Len(q) + 1
        /\ \A i \in 1..(Len(q) + 1) : Weighed(Append(q, j))[i] = Append(q, j)[i].weight
    BY <1>1, WeighedIsSeq
  <2>2. /\ Weighed(q) \in Seq(Int) /\ Len(Weighed(q)) = Len(q) /\ Len(q) \in Nat
        /\ \A i \in 1..Len(q) : Weighed(q)[i] = q[i].weight
    BY WeighedIsSeq
  <2>3. \A i \in 1..(Len(q) + 1) : Append(q, j)[i] = IF i = Len(q) + 1 THEN j ELSE q[i]
    OBVIOUS
  <2>4. /\ Append(Weighed(q), j.weight) \in Seq(Int)
        /\ Len(Append(Weighed(q), j.weight)) = Len(q) + 1
        /\ \A i \in 1..(Len(q) + 1) : Append(Weighed(q), j.weight)[i] =
                IF i = Len(q) + 1 THEN j.weight ELSE Weighed(q)[i]
    BY <1>1, <2>2
  <2>5. \A i \in 1..(Len(q) + 1) : Weighed(Append(q, j))[i] = Append(Weighed(q), j.weight)[i]
    BY <2>1, <2>2, <2>3, <2>4, SMTT(30)
  <2> DEFINE v == Weighed(Append(q, j))
             w == Append(Weighed(q), j.weight)
  <2>6. v \in Seq(Int) /\ w \in Seq(Int) /\ Len(v) = Len(w) /\ \A i \in 1..Len(v) : v[i] = w[i]
    BY <2>1, <2>4, <2>5
  <2> HIDE DEF v, w
  <2>7. v = w
    BY <2>6, SeqEqual
  <2> QED BY <2>7 DEF v, w
<1>3. Total(Append(Weighed(q), j.weight)) = Total(Weighed(q)) + j.weight
  BY <1>1, WeighedIsSeq, TotalAppend
<1> QED BY <1>1, <1>2, <1>3, WeighedIsSeq

\* A popped job takes its weight from that of the queue.
LEMMA WeightOfTail ==
    ASSUME NEW q \in Seq(Jobs), q # << >>
    PROVE  WeightOf(Tail(q)) = WeightOf(q) - Head(q).weight
<1>1. Tail(q) \in Seq(Jobs) /\ Len(Tail(q)) = Len(q) - 1 /\ Len(q) \in Nat \ {0}
  OBVIOUS
<1>2. /\ Weighed(q) \in Seq(Int) /\ Len(Weighed(q)) = Len(q)
      /\ \A i \in 1..Len(q) : Weighed(q)[i] = q[i].weight
  BY WeighedIsSeq
<1>3. Weighed(q) # << >> /\ Head(Weighed(q)) = Head(q).weight
  BY <1>1, <1>2
<1>4. Weighed(Tail(q)) = Tail(Weighed(q))
  <2>1. /\ Weighed(Tail(q)) \in Seq(Int) /\ Len(Weighed(Tail(q))) = Len(q) - 1
        /\ \A i \in 1..(Len(q) - 1) : Weighed(Tail(q))[i] = Tail(q)[i].weight
    BY <1>1, WeighedIsSeq
  <2>2. \A i \in 1..(Len(q) - 1) : Tail(q)[i] = q[i + 1] /\ i + 1 \in 1..Len(q)
    BY <1>1
  <2>3. /\ Tail(Weighed(q)) \in Seq(Int) /\ Len(Tail(Weighed(q))) = Len(q) - 1
        /\ \A i \in 1..(Len(q) - 1) : Tail(Weighed(q))[i] = Weighed(q)[i + 1]
    BY <1>1, <1>2, <1>3
  <2>4. \A i \in 1..(Len(q) - 1) : Weighed(Tail(q))[i] = Tail(Weighed(q))[i]
    BY <1>2, <2>1, <2>2, <2>3
  <2> QED BY <2>1, <2>3, <2>4, SeqEqual
<1>5. Total(Tail(Weighed(q))) = Total(Weighed(q)) - Head(q).weight
  BY <1>2, <1>3, TotalTail
<1> QED BY <1>1, <1>4, <1>5, WeighedIsSeq

\* What the weight of thread t is ahead of, or behind, its queue.
Pending(t) ==
    (IF worker[t] = "finished" THEN current[t].weight ELSE 0)
        - (IF main = "weighing" /\ least = t THEN job.weight ELSE 0)

\* What is pending is a number.
LEMMA PendingIsInt ==
    ASSUME TypeOK, NEW t \in Threads
    PROVE  Pending(t) \in Int
<1>1. current[t].weight \in Int /\ job.weight \in Int
  BY WeightIsInt DEF TypeOK
<1> QED BY <1>1 DEF Pending

\* WeightsAccounted in terms of what is pending, in this state and in the next.
LEMMA AccountedByPending ==
    ASSUME TypeOK
    PROVE  WeightsAccounted <=> \A t \in Threads : weight[t] = WeightOf(tasks[t]) + Pending(t)
<1>1. ASSUME NEW t \in Threads
      PROVE  /\ current[t].weight \in Int /\ job.weight \in Int
             /\ WeightOf(tasks[t]) \in Int
  BY WeightIsInt, WeighedIsSeq DEF TypeOK
<1> QED BY <1>1 DEF WeightsAccounted, Pending

\* The same in the next state.
LEMMA AccountedNext ==
    ASSUME TypeOK'
    PROVE  WeightsAccounted' <=> \A t \in Threads : weight'[t] = WeightOf(tasks'[t]) + Pending(t)'
<1>1. ASSUME NEW t \in Threads
      PROVE  /\ current'[t].weight \in Int /\ job'.weight \in Int
             /\ WeightOf(tasks'[t]) \in Int
  BY WeightIsInt, WeighedIsSeq DEF TypeOK
<1> QED BY <1>1 DEF WeightsAccounted, Pending

\* Every step keeps the account, action by action.
LEMMA AccountNext == TypeInv /\ TypeOK' /\ WeightsAccounted /\ [Next]_vars => WeightsAccounted'
<1> SUFFICES ASSUME TypeInv, TypeOK', WeightsAccounted, [Next]_vars
             PROVE  WeightsAccounted'
  OBVIOUS
<1>0. TypeOK /\ Located
  BY DEF TypeInv
<1>1. \A t \in Threads : weight[t] = WeightOf(tasks[t]) + Pending(t)
  BY <1>0, AccountedByPending
<1>2. SUFFICES \A t \in Threads : weight'[t] = WeightOf(tasks'[t]) + Pending(t)'
  BY AccountedNext
<1>3. CASE PushTask
  <2>1. /\ tasks' = [tasks EXCEPT ![least] = Append(@, job)]
        /\ main = "pushing" /\ main' = "weighing"
        /\ UNCHANGED <<weight, current, job, least>>
        /\ worker' = Notified(least)
        /\ job \in Jobs /\ least \in Threads /\ job.weight \in Int
    BY <1>0, <1>3, WeightIsInt DEF PushTask, Located, TypeOK
  <2>2. ASSUME NEW t \in Threads
        PROVE  weight'[t] = WeightOf(tasks'[t]) + Pending(t)'
    <3>1. (worker'[t] = "finished") <=> (worker[t] = "finished")
      BY <1>0, <2>1 DEF Notified, TypeOK
    <3>2. /\ tasks[t] \in Seq(Jobs) /\ WeightOf(tasks[t]) \in Int
          /\ current[t].weight \in Int
      BY <1>0, WeighedIsSeq, WeightIsInt DEF TypeOK
    <3>3. CASE t = least
      <4>1. WeightOf(tasks'[t]) = WeightOf(tasks[t]) + job.weight
        BY <1>0, <2>1, <3>2, <3>3, WeightOfAppend DEF TypeOK
      <4>2. Pending(t)' = Pending(t) - job.weight
        BY <2>1, <3>1, <3>2, <3>3 DEF Pending
      <4>3. Pending(t) \in Int
        BY <1>0, PendingIsInt
      <4> QED BY <1>1, <2>1, <3>2, <4>1, <4>2, <4>3
    <3>4. CASE t # least
      <4>1. tasks'[t] = tasks[t]
        BY <1>0, <2>1, <3>4 DEF TypeOK
      <4>2. Pending(t)' = Pending(t)
        BY <2>1, <3>1, <3>4 DEF Pending
      <4> QED BY <1>1, <2>1, <4>1, <4>2
    <3> QED BY <3>3, <3>4
  <2> QED BY <2>2
<1>4. CASE AddWeight
  <2>1. /\ weight' = [weight EXCEPT ![least] = @ + job.weight]
        /\ main = "weighing" /\ main' = "ready"
        /\ UNCHANGED <<tasks, worker, current, job, least>>
        /\ job.weight \in Int
    BY <1>0, <1>4, WeightIsInt DEF AddWeight, TypeOK
  <2>2. ASSUME NEW t \in Threads
        PROVE  weight'[t] = WeightOf(tasks'[t]) + Pending(t)'
    <3>1. WeightOf(tasks[t]) \in Int /\ current[t].weight \in Int /\ weight[t] \in Int
      BY <1>0, WeighedIsSeq, WeightIsInt DEF TypeOK
    <3>2. CASE t = least
      <4>1. weight'[t] = weight[t] + job.weight
        BY <1>0, <2>1, <3>2 DEF TypeOK
      <4>2. Pending(t)' = Pending(t) + job.weight
        BY <2>1, <3>1, <3>2 DEF Pending
      <4>3. Pending(t) \in Int
        BY <1>0, PendingIsInt
      <4> QED BY <1>1, <2>1, <3>1, <4>1, <4>2, <4>3
    <3>3. CASE t # least
      <4>1. weight'[t] = weight[t] /\ Pending(t)' = Pending(t)
        BY <1>0, <2>1, <3>3 DEF TypeOK, Pending
      <4> QED BY <1>1, <2>1, <4>1
    <3> QED BY <3>2, <3>3
  <2> QED BY <2>2
<1>5. ASSUME NEW u \in Threads, FinishTask(u)
      PROVE  \A t \in Threads : weight'[t] = WeightOf(tasks'[t]) + Pending(t)'
  <2>1. /\ worker[u] = "running" /\ tasks[u] # << >> /\ current[u] = Head(tasks[u])
        /\ tasks' = [tasks EXCEPT ![u] = Tail(@)]
        /\ worker' = [worker EXCEPT ![u] = "finished"]
        /\ UNCHANGED <<weight, current, main, job, least>>
    BY <1>0, <1>5 DEF FinishTask, Popped, mainVars, Located
  <2>2. ASSUME NEW t \in Threads
        PROVE  weight'[t] = WeightOf(tasks'[t]) + Pending(t)'
    <3>1. /\ tasks[t] \in Seq(Jobs) /\ WeightOf(tasks[t]) \in Int /\ current[t].weight \in Int
          /\ job.weight \in Int
      BY <1>0, WeighedIsSeq, WeightIsInt DEF TypeOK
    <3>2. CASE t = u
      <4>1. WeightOf(tasks'[t]) = WeightOf(tasks[t]) - current[t].weight
        BY <1>0, <2>1, <3>1, <3>2, WeightOfTail DEF TypeOK
      <4>2. worker'[t] = "finished" /\ worker[t] # "finished"
        BY <1>0, <2>1, <3>2 DEF TypeOK
      <4>3. Pending(t)' = Pending(t) + current[t].weight
        BY <2>1, <3>1, <4>2 DEF Pending
      <4>4. Pending(t) \in Int
        BY <1>0, PendingIsInt
      <4> QED BY <1>1, <2>1, <3>1, <4>1, <4>3, <4>4
    <3>3. CASE t # u
      <4>1. tasks'[t] = tasks[t] /\ worker'[t] = worker[t]
        BY <1>0, <2>1, <3>3 DEF TypeOK
      <4>2. Pending(t)' = Pending(t)
        BY <2>1, <4>1 DEF Pending
      <4> QED BY <1>1, <2>1, <4>1, <4>2
    <3> QED BY <3>2, <3>3
  <2> QED BY <2>2
<1>6. ASSUME NEW u \in Threads, LowerWeight(u)
      PROVE  \A t \in Threads : weight'[t] = WeightOf(tasks'[t]) + Pending(t)'
  <2>1. /\ worker[u] = "finished"
        /\ weight' = [weight EXCEPT ![u] = @ - current[u].weight]
        /\ worker' = [worker EXCEPT ![u] = "checking"]
        /\ UNCHANGED <<tasks, current, main, job, least>>
    BY <1>6 DEF LowerWeight, Lowered, mainVars
  <2>2. ASSUME NEW t \in Threads
        PROVE  weight'[t] = WeightOf(tasks'[t]) + Pending(t)'
    <3>1. /\ WeightOf(tasks[t]) \in Int /\ current[t].weight \in Int
          /\ job.weight \in Int /\ weight[t] \in Int
      BY <1>0, WeighedIsSeq, WeightIsInt DEF TypeOK
    <3>2. CASE t = u
      <4>1. worker'[t] # "finished" /\ worker[t] = "finished"
        BY <1>0, <2>1, <3>2 DEF TypeOK
      <4>2. weight'[t] = weight[t] - current[t].weight
        BY <1>0, <2>1, <3>2 DEF TypeOK
      <4>3. Pending(t)' = Pending(t) - current[t].weight
        BY <2>1, <3>1, <4>1 DEF Pending
      <4>4. Pending(t) \in Int
        BY <1>0, PendingIsInt
      <4> QED BY <1>1, <2>1, <3>1, <4>2, <4>3, <4>4
    <3>3. CASE t # u
      <4>1. weight'[t] = weight[t] /\ worker'[t] = worker[t]
        BY <1>0, <2>1, <3>3 DEF TypeOK
      <4>2. Pending(t)' = Pending(t)
        BY <2>1, <4>1 DEF Pending
      <4> QED BY <1>1, <2>1, <4>1, <4>2
    <3> QED BY <3>2, <3>3
  <2> QED BY <2>2
<1>7. ASSUME tasks' = tasks, weight' = weight, \A t \in Threads : Pending(t)' = Pending(t)
      PROVE  \A t \in Threads : weight'[t] = WeightOf(tasks'[t]) + Pending(t)'
  BY <1>1, <1>7
<1>8. ASSUME NEW w \in Weights, AssignNewTask(w)
      PROVE  \A t \in Threads : weight'[t] = WeightOf(tasks'[t]) + Pending(t)'
  BY <1>7, <1>8 DEF AssignNewTask, Pending, poolVars
<1>9. CASE GetLeastBusyThread
  <2>1. main # "weighing" /\ main' # "weighing" /\ UNCHANGED <<tasks, weight, worker, current>>
    BY <1>9 DEF GetLeastBusyThread, poolVars
  <2> QED BY <1>7, <2>1 DEF Pending
<1>10. ASSUME NEW u \in Threads, TakeTask(u)
       PROVE  \A t \in Threads : weight'[t] = WeightOf(tasks'[t]) + Pending(t)'
  <2>1. ASSUME NEW t \in Threads
        PROVE  IF t = u THEN worker[t] # "finished" /\ worker'[t] # "finished"
                        ELSE worker'[t] = worker[t] /\ current'[t] = current[t]
    BY <1>0, <1>10 DEF TakeTask, TypeOK
  <2>2. UNCHANGED <<tasks, weight, main, least, job>>
    BY <1>10 DEF TakeTask, mainVars
  <2> QED BY <1>7, <2>1, <2>2 DEF Pending
<1>11. ASSUME NEW c \in Threads \cup {Main}, BeginWait(c) \/ WaitLooks(c) \/ WaitSpins(c)
       PROVE  \A t \in Threads : weight'[t] = WeightOf(tasks'[t]) + Pending(t)'
  <2>1. UNCHANGED <<tasks, weight, worker, current, least, job>>
    BY <1>11 DEF BeginWait, WaitLooks, WaitSpins, poolVars, mainVars
  <2>2. (main' = "weighing") <=> (main = "weighing")
    BY <1>11 DEF BeginWait, WaitLooks, WaitSpins, poolVars, mainVars
  <2> QED BY <1>7, <2>1, <2>2 DEF Pending
<1>12. CASE WaitReturns \/ Deleted \/ UNCHANGED vars
  <2>1. UNCHANGED <<tasks, weight, worker, current, least, job>>
    BY <1>12 DEF WaitReturns, Deleted, vars, poolVars, mainVars
  <2>2. (main' = "weighing") <=> (main = "weighing")
    BY <1>12 DEF WaitReturns, Deleted, vars, mainVars
  <2> QED BY <1>7, <2>1, <2>2 DEF Pending
<1>13. CASE DeleteThread
  <2>1. UNCHANGED <<tasks, weight, current, least, job>> /\ main # "weighing" /\ main' # "weighing"
    BY <1>13 DEF DeleteThread
  <2>2. \A t \in Threads : (worker'[t] = "finished") <=> (worker[t] = "finished")
    BY <1>0, <1>13 DEF DeleteThread, Notified, TypeOK
  <2> QED BY <1>7, <2>1, <2>2 DEF Pending
<1> QED
  BY <1>3, <1>4, <1>5, <1>6, <1>8, <1>9, <1>10, <1>11, <1>12, <1>13
  DEF Next, MainNext, WorkerNext, Waiting

\* Empty queues weigh nothing.
LEMMA AccountInit == Init => WeightsAccounted
<1> SUFFICES ASSUME Init PROVE WeightsAccounted
  OBVIOUS
<1>1. TypeOK
  BY TypeInit DEF TypeInv
<1>2. << >> \in Seq(Jobs) /\ WeightOf(<< >>) = 0
  <2>1. << >> \in Seq(Jobs) /\ Len(<< >>) = 0
    OBVIOUS
  <2>2. Weighed(<< >>) \in Seq(Int) /\ Len(Weighed(<< >>)) = 0
    BY <2>1, WeighedIsSeq
  <2> QED BY <2>1, <2>2, WeighedIsSeq, SumsProperties DEF Total
<1>3. \A t \in Threads : weight[t] = 0 /\ tasks[t] = << >> /\ Pending(t) = 0
  BY DEF Init, Pending
<1> QED BY <1>1, <1>2, <1>3, AccountedByPending

\* thread.cpp:29-61: the weight of a thread, written under another lock than its queue, always
\* is that of the queue, but for the job whose push or return it has not counted yet.
THEOREM WeightsAreAccounted == Spec => []WeightsAccounted
<1>1. TypeInv /\ TypeInv' /\ WeightsAccounted /\ [Next]_vars => WeightsAccounted'
  BY AccountNext DEF TypeInv
<1> QED BY TypeAlways, AccountInit, <1>1, PTL DEF Spec

-----------------------------------------------------------------------------
(* Loops *)

\* A queue without a loop weighs nothing negative.
LEMMA LoopWeighs ==
    ASSUME NEW q \in Seq(Jobs), \A i \in DOMAIN q : ~Loops(q[i])
    PROVE  WeightOf(q) >= 0
<1>1. /\ DOMAIN q = 1..Len(q)
      /\ \A i \in 1..Len(q) : q[i].weight \in Int /\ q[i].weight >= 0
  BY ElementOfSeq, LenProperties, WeightIsInt DEF Loops
<1> QED BY <1>1, WeighedIsSeq, TotalNatural

\* A thread that the scan takes weighs nothing negative, and a loop makes the whole queue
\* weigh less than its other jobs.
LEMMA PickedOutweighs ==
    ASSUME TypeInv, WeightsAccounted, main = "scanning",
           <<least', leastWeight'>> # <<least, leastWeight>>, [Next]_vars, HasLoop(scan)
    PROVE  Load(scan) > 0
<1>0. TypeOK /\ scan \in Threads
  BY DEF TypeInv, Located
<1>1. CASE GetLeastBusyThread
  <2> DEFINE q == tasks[scan]
             others == [i \in DOMAIN q |-> IF Loops(q[i]) THEN 0 ELSE q[i].weight]
  <2>1. weight[scan] >= 0 /\ weight[scan] = WeightOf(q) + Pending(scan)
    <3>1. weight[scan] >= 0
      BY <1>1 DEF GetLeastBusyThread, Lighter
    <3> QED BY <1>0, <3>1, AccountedByPending
  <2>2. /\ q \in Seq(Jobs) /\ current[scan].weight \in Int
        /\ \A i \in 1..Len(q) : q[i].weight \in Int
        /\ DOMAIN q = 1..Len(q) /\ Len(q) \in Nat
    <3>1. q \in Seq(Jobs) /\ current[scan] \in Jobs \cup {NoJob}
      BY <1>0 DEF TypeOK
    <3> HIDE DEF q
    <3> QED BY <3>1, WeightIsInt, ElementOfSeq, LenProperties
  <2>3. PICK k \in DOMAIN q : Loops(q[k])
    BY DEF HasLoop
  <2>4. Pending(scan) = IF worker[scan] = "finished" THEN current[scan].weight ELSE 0
    BY <2>2 DEF Pending
  <2>5. Load(scan) = Total(others)
                     + (IF worker[scan] = "finished" /\ ~Loops(current[scan])
                        THEN current[scan].weight ELSE 0)
    BY DEF Load
  <2> HIDE DEF q
  <2>6. /\ others \in Seq(Int) /\ Len(others) = Len(q)
        /\ \A i \in 1..Len(q) : others[i] = IF Loops(q[i]) THEN 0 ELSE q[i].weight
    <3>1. others = [i \in 1..Len(q) |-> IF Loops(q[i]) THEN 0 ELSE q[i].weight]
      BY <2>2
    <3>2. \A i \in 1..Len(q) : (IF Loops(q[i]) THEN 0 ELSE q[i].weight) \in Int
      BY <2>2
    <3> HIDE DEF others
    <3> QED BY <2>2, <3>1, <3>2, IsASeq
  <2> HIDE DEF others
  <2>7. WeightOf(q) < Total(others) /\ WeightOf(q) \in Int /\ Total(others) \in Int
    <3>1. /\ Weighed(q) \in Seq(Int) /\ Len(Weighed(q)) = Len(q)
          /\ \A i \in 1..Len(q) : Weighed(q)[i] = q[i].weight
          /\ WeightOf(q) = Total(Weighed(q)) /\ WeightOf(q) \in Int
      BY <2>2, WeighedIsSeq
    <3>2. \A i \in 1..Len(q) : Weighed(q)[i] <= others[i]
      <4> SUFFICES ASSUME NEW i \in 1..Len(q) PROVE Weighed(q)[i] <= others[i]
        OBVIOUS
      <4>1. Weighed(q)[i] = q[i].weight /\ others[i] = IF Loops(q[i]) THEN 0 ELSE q[i].weight
        BY <2>6, <3>1
      <4>2. q[i].weight \in Int
        BY <2>2
      <4> QED BY <4>1, <4>2 DEF Loops
    <3>3. k \in 1..Len(q) /\ Weighed(q)[k] < others[k]
      BY <2>2, <2>3, <2>6, <3>1 DEF Loops
    <3> QED BY <2>6, <3>1, <3>2, <3>3, TotalOrder, SumsProperties
  <2> QED BY <2>1, <2>2, <2>4, <2>5, <2>7 DEF Loops
<1>2. CASE ~GetLeastBusyThread
  BY <1>2 DEF Next, MainNext, WorkerNext, Waiting, AssignNewTask, PushTask, AddWeight, WaitReturns,
     Deleted, DeleteThread, TakeTask, FinishTask, LowerWeight, BeginWait, WaitLooks, WaitSpins,
     vars, mainVars
<1> QED BY <1>1, <1>2

\* While the main thread waits nothing is pushed: a thread that wait has passed has no job
\* left, or a loop, unless a loop has returned.
PassedOver ==
    main = "waiting" =>
        \A t \in Threads : t < waitAt[Main] => tasks[t] = << >> \/ HasLoop(t) \/ LoopReturned
FinishedReturned == \A t \in Threads : worker[t] = "finished" => current[t] \in done
WaitInv == PassedOver /\ FinishedReturned

\* Nobody waits in the initial state.
LEMMA WaitInit == Init => WaitInv
  BY DEF Init, WaitInv, PassedOver, FinishedReturned

\* A thread of negative weight has a loop, or has just returned from one.
LEMMA NegativeHasLoop ==
    ASSUME TypeOK, WeightsAccounted, FinishedReturned, NEW t \in Threads,
           main # "weighing", weight[t] < 0
    PROVE  HasLoop(t) \/ LoopReturned
<1>1. weight[t] = WeightOf(tasks[t]) + Pending(t)
  BY AccountedByPending
<1>2. tasks[t] \in Seq(Jobs) /\ WeightOf(tasks[t]) \in Int /\ current[t].weight \in Int
  BY WeighedIsSeq, WeightIsInt DEF TypeOK
<1>3. CASE WeightOf(tasks[t]) < 0
  BY <1>2, <1>3, LoopWeighs DEF HasLoop
<1>4. CASE ~ (WeightOf(tasks[t]) < 0)
  <2>1. Pending(t) < 0
    BY <1>1, <1>2, <1>4, PendingIsInt
  <2>2. worker[t] = "finished" /\ Loops(current[t])
    BY <1>2, <2>1 DEF Pending, Loops
  <2> QED BY <2>2 DEF FinishedReturned, LoopReturned
<1> QED BY <1>3, <1>4

\* What leaves the queues, the wait of the main thread and the returned jobs alone.
LEMMA WaitUntouched ==
    ASSUME WaitInv, tasks' = tasks, done' = done, waitAt'[Main] = waitAt[Main],
           main' = "waiting" => main = "waiting",
           \A t \in Threads : worker'[t] = "finished" => worker[t] = "finished" /\ current'[t] = current[t]
    PROVE  WaitInv'
  BY DEF WaitInv, PassedOver, FinishedReturned, HasLoop, LoopReturned

\* A job that returns is a loop, or leaves the loop of its thread in the queue.
LEMMA LoopStays ==
    ASSUME TypeInv, NEW u \in Threads, FinishTask(u)
    PROVE  /\ LoopReturned => LoopReturned'
           /\ \A t \in Threads : HasLoop(t) => HasLoop(t)' \/ LoopReturned'
           /\ \A t \in Threads : tasks[t] = << >> => tasks'[t] = << >>
<1>0. TypeOK /\ Located
  BY DEF TypeInv
<1>1. /\ tasks[u] \in Seq(Jobs) /\ tasks[u] # << >> /\ current[u] = Head(tasks[u])
      /\ tasks' = [tasks EXCEPT ![u] = Tail(@)]
      /\ done' = done \cup {current[u]}
  BY <1>0 DEF FinishTask, Popped, Located, TypeOK
<1>2. LoopReturned => LoopReturned'
  BY <1>1 DEF LoopReturned
<1>3. ASSUME HasLoop(u)
      PROVE  HasLoop(u)' \/ LoopReturned'
  <2>1. CASE Loops(current[u])
    BY <1>1, <2>1 DEF LoopReturned
  <2>2. CASE ~Loops(current[u])
    <3>1. PICK i \in DOMAIN tasks[u] : Loops(tasks[u][i])
      BY <1>3 DEF HasLoop
    <3>2. i # 1
      BY <1>1, <2>2, <3>1
    <3>3. tasks'[u] = Tail(tasks[u])
      BY <1>0, <1>1 DEF TypeOK
    <3>4. i - 1 \in DOMAIN tasks'[u] /\ tasks'[u][i - 1] = tasks[u][i]
      <4> DEFINE q == tasks[u]
      <4>1. q \in Seq(Jobs) /\ q # << >> /\ i \in DOMAIN q /\ i # 1
        BY <1>1, <3>1, <3>2
      <4> HIDE DEF q
      <4>2. i - 1 \in DOMAIN Tail(q) /\ Tail(q)[i - 1] = q[i]
        BY <4>1
      <4> QED BY <3>3, <4>2 DEF q
    <3> QED BY <3>1, <3>4 DEF HasLoop
  <2> QED BY <2>1, <2>2
<1>4. ASSUME NEW t \in Threads, t # u
      PROVE  tasks'[t] = tasks[t] /\ (HasLoop(t)' <=> HasLoop(t))
  BY <1>0, <1>1, <1>4 DEF TypeOK, HasLoop
<1> QED BY <1>1, <1>2, <1>3, <1>4

\* Every step keeps WaitInv, action by action.
LEMMA WaitNext == TypeInv /\ WeightsAccounted /\ WaitInv /\ [Next]_vars => WaitInv'
<1> SUFFICES ASSUME TypeInv, WeightsAccounted, WaitInv, [Next]_vars
             PROVE  WaitInv'
  OBVIOUS
<1>0. TypeOK /\ Located
  BY DEF TypeInv
<1>1. ASSUME NEW w \in Weights, AssignNewTask(w) PROVE WaitInv'
  BY <1>1, WaitUntouched DEF AssignNewTask, poolVars, waitVars
<1>2. CASE GetLeastBusyThread
  BY <1>2, WaitUntouched DEF GetLeastBusyThread, poolVars, waitVars
<1>3. CASE PushTask
  <2>1. \A t \in Threads : worker'[t] = "finished" => worker[t] = "finished"
    BY <1>0, <1>3 DEF PushTask, Notified, TypeOK
  <2> QED BY <1>3, <2>1 DEF PushTask, WaitInv, PassedOver, FinishedReturned
<1>4. CASE AddWeight \/ Deleted
  BY <1>4, WaitUntouched DEF AddWeight, Deleted, poolVars, waitVars
<1>5. CASE WaitReturns
  BY <1>5 DEF WaitReturns, WaitInv, PassedOver, FinishedReturned, poolVars
<1>6. CASE DeleteThread
  <2>1. \A t \in Threads : worker'[t] = "finished" => worker[t] = "finished"
    BY <1>0, <1>6 DEF DeleteThread, Notified, TypeOK
  <2> QED BY <1>6, <2>1, WaitUntouched DEF DeleteThread, waitVars
<1>7. ASSUME NEW u \in Threads, TakeTask(u) PROVE WaitInv'
  <2>1. \A t \in Threads : worker'[t] = "finished" => worker[t] = "finished" /\ current'[t] = current[t]
    BY <1>0, <1>7 DEF TakeTask, TypeOK
  <2> QED BY <1>7, <2>1, WaitUntouched DEF TakeTask, mainVars, waitVars
<1>8. ASSUME NEW u \in Threads, FinishTask(u) PROVE WaitInv'
  <2>1. /\ tasks[u] \in Seq(Jobs) /\ tasks[u] # << >> /\ current[u] = Head(tasks[u])
        /\ tasks' = [tasks EXCEPT ![u] = Tail(@)]
        /\ worker' = [worker EXCEPT ![u] = "finished"]
        /\ done' = done \cup {current[u]}
        /\ waitAt' = [waitAt EXCEPT ![u] = 0]
        /\ UNCHANGED <<current, main>>
    BY <1>0, <1>8 DEF FinishTask, Popped, mainVars, Located, TypeOK
  <2>2. waitAt'[Main] = waitAt[Main]
    BY <1>0, <2>1, ThreadPoolAssumption DEF TypeOK, Threads, Main
  <2>3. FinishedReturned'
    BY <1>0, <2>1 DEF WaitInv, FinishedReturned, TypeOK
  <2>7. PassedOver'
    BY <1>8, <2>1, <2>2, LoopStays DEF WaitInv, PassedOver
  <2> QED BY <2>3, <2>7 DEF WaitInv
<1>9. ASSUME NEW u \in Threads, LowerWeight(u) PROVE WaitInv'
  <2>1. \A t \in Threads : worker'[t] = "finished" => worker[t] = "finished"
    BY <1>0, <1>9 DEF LowerWeight, TypeOK
  <2> QED BY <1>9, <2>1, WaitUntouched DEF LowerWeight, mainVars, waitVars
<1>10. ASSUME NEW c \in Threads \cup {Main}, BeginWait(c) PROVE WaitInv'
  <2>1. CASE c = Main
    <3>1. waitAt'[Main] = 1 /\ UNCHANGED <<tasks, done, worker, current>>
      BY <1>0, <1>10, <2>1 DEF BeginWait, TypeOK, poolVars
    <3> QED BY <3>1 DEF WaitInv, PassedOver, FinishedReturned, Threads
  <2>2. CASE c # Main
    <3>1. waitAt'[Main] = waitAt[Main] /\ main' = main
      BY <1>0, <1>10, <2>2 DEF BeginWait, TypeOK
    <3> QED BY <1>10, <3>1, WaitUntouched DEF BeginWait, poolVars
  <2> QED BY <2>1, <2>2
<1>11. ASSUME NEW c \in Threads \cup {Main}, WaitLooks(c) \/ WaitSpins(c) PROVE WaitInv'
  <2>1. UNCHANGED <<tasks, done, worker, current, main>>
    BY <1>11 DEF WaitLooks, WaitSpins, poolVars, mainVars
  <2>2. waitAt[c] \in Threads
    BY <1>0, <1>11 DEF WaitLooks, WaitSpins, Located
  <2>3. waitAt' = waitAt \/ waitAt' = [waitAt EXCEPT ![c] = @ + 1]
    BY <1>11 DEF WaitLooks, WaitSpins
  <2>4. CASE c # Main \/ waitAt' = waitAt
    <3>1. waitAt'[Main] = waitAt[Main]
      BY <1>0, <2>3, <2>4 DEF TypeOK
    <3> QED BY <2>1, <3>1, WaitUntouched
  <2>5. CASE c = Main /\ waitAt' # waitAt
    <3>1. waitAt'[Main] = waitAt[Main] + 1
      BY <1>0, <2>3, <2>5 DEF TypeOK
    <3>2. main = "waiting" =>
            tasks[waitAt[Main]] = << >> \/ HasLoop(waitAt[Main]) \/ LoopReturned
      <4>1. CASE WaitSpins(c)
        BY <2>5, <4>1 DEF WaitSpins, Busy
      <4>2. CASE WaitLooks(c)
        <5>1. weight[waitAt[Main]] < 0
          BY <2>5, <4>2 DEF WaitLooks
        <5> QED BY <1>0, <2>2, <2>5, <5>1, NegativeHasLoop DEF WaitInv
      <4> QED BY <1>11, <4>1, <4>2
    <3>3. \A t \in Threads : t < waitAt[Main] + 1 => t < waitAt[Main] \/ t = waitAt[Main]
      BY <2>2, <2>5 DEF Threads
    <3>4. PassedOver'
      BY <2>1, <3>1, <3>2, <3>3 DEF WaitInv, PassedOver, HasLoop, LoopReturned
    <3> QED BY <2>1, <3>4 DEF WaitInv, FinishedReturned
  <2> QED BY <2>4, <2>5
<1>12. CASE UNCHANGED vars
  BY <1>12, WaitUntouched DEF vars, poolVars, mainVars, waitVars
<1> QED
  BY <1>1, <1>2, <1>3, <1>4, <1>5, <1>6, <1>7, <1>8, <1>9, <1>10, <1>11, <1>12
  DEF Next, MainNext, WorkerNext, Waiting

\* threadpool.cpp:23-38: when wait returns to the main thread every job given has returned,
\* but those of a thread that has a loop, as long as no loop has returned.
THEOREM WaitIsOver == Spec => WaitWaits
<1>1. TypeInv /\ WaitInv /\ [Next]_vars =>
        [main = "waiting" /\ main' = "waited" =>
            \/ \A t \in Threads : tasks[t] = << >> \/ HasLoop(t)
            \/ \E j \in done : Loops(j)]_vars
  <2> SUFFICES ASSUME TypeInv, WaitInv, [Next]_vars, main = "waiting", main' = "waited"
               PROVE  \/ \A t \in Threads : tasks[t] = << >> \/ HasLoop(t)
                      \/ LoopReturned
    BY DEF LoopReturned
  <2>1. WaitReturns
    BY DEF Next, MainNext, WorkerNext, Waiting, AssignNewTask, GetLeastBusyThread, PushTask, AddWeight,
       Deleted, DeleteThread, TakeTask, FinishTask, LowerWeight, BeginWait, WaitLooks, WaitSpins,
       vars, mainVars
  <2>2. \A t \in Threads : t < waitAt[Main]
    BY <2>1, ThreadPoolAssumption DEF WaitReturns, Threads
  <2> QED BY <2>2 DEF WaitInv, PassedOver
<1>2. TypeInv /\ WeightsAccounted /\ WaitInv /\ [Next]_vars => WaitInv'
  BY WaitNext
<1> QED BY <1>1, <1>2, WaitInit, TypeAlways, WeightsAreAccounted, PTL DEF Spec, WaitWaits
-----------------------------------------------------------------------------
(* The scan *)

\* Numbers of at most w add up to at most w each.
LEMMA TotalBound ==
    ASSUME NEW s \in Seq(Int), NEW w \in Nat, \A n \in 1..Len(s) : s[n] <= w
    PROVE  Total(s) <= w * Len(s)
<1> DEFINE f == PartialSums(s)
<1>1. Len(s) \in Nat /\ \A n \in 1..Len(s) : s[n] \in Int
  BY ElementOfSeq, LenProperties
<1>2. /\ f[0] = 0 /\ \A n \in 1..Len(s) : f[n] = f[n - 1] + s[n]
      /\ \A n \in 0..Len(s) : f[n] \in Int
      /\ Total(s) = f[Len(s)]
  BY SumsProperties DEF Total
<1> HIDE DEF f
<1> DEFINE S == {n \in Nat : n <= Len(s) => f[n] <= w * n}
<1>3. 0 \in S
  BY <1>2
<1>4. ASSUME NEW n \in Nat, n \in S, n + 1 <= Len(s)
      PROVE  f[n + 1] <= w * (n + 1)
  <2>1. n + 1 \in 1..Len(s) /\ (n + 1) - 1 = n /\ n \in 0..Len(s) /\ f[n] <= w * n
    BY <1>1, <1>4
  <2>2. f[n + 1] = f[n] + s[n + 1] /\ s[n + 1] <= w /\ f[n] \in Int /\ s[n + 1] \in Int
    BY <1>1, <1>2, <2>1
  <2>3. w * (n + 1) = w * n + w /\ w * n \in Int
    OBVIOUS
  <2> QED BY <2>1, <2>2, <2>3
<1>5. S = Nat
  <2>1. \A n \in Nat : n \in S => n + 1 \in S
    BY <1>4
  <2> HIDE DEF S
  <2>2. S \in SUBSET Nat
    BY DEF S
  <2> QED BY <1>3, <2>1, <2>2, SetInduction
<1> QED BY <1>1, <1>2, <1>5

\* No thread has more jobs than were given, that of which it has yet to take the weight back
\* included.
Tally(t) == Len(tasks[t]) + (IF worker[t] = "finished" THEN 1 ELSE 0)
CountInv == \A t \in Threads : Tally(t) <= given - (IF main \in {"scanning", "pushing"} THEN 1 ELSE 0)

\* Every step keeps the count, action by action.
LEMMA CountNext == TypeInv /\ CountInv /\ [Next]_vars => CountInv'
<1> SUFFICES ASSUME TypeInv, CountInv, [Next]_vars
             PROVE  CountInv'
  OBVIOUS
<1>0. TypeOK /\ Located
  BY DEF TypeInv
<1>1. given \in Nat /\ \A t \in Threads : Len(tasks[t]) \in Nat /\ Tally(t) \in Nat
  BY <1>0, LenProperties DEF TypeOK, Tally
<1>2. ASSUME NEW w \in Weights, AssignNewTask(w) PROVE CountInv'
  <2>1. main = "ready" /\ main' = "scanning" /\ given' = given + 1
    BY <1>2 DEF AssignNewTask
  <2>2. \A t \in Threads : Tally(t)' = Tally(t)
    BY <1>2 DEF AssignNewTask, poolVars, Tally
  <2>3. \A t \in Threads : Tally(t) <= given
    BY <1>1, <2>1 DEF CountInv
  <2>4. ASSUME NEW t \in Threads
        PROVE  Tally(t)' <= given' - (IF main' \in {"scanning", "pushing"} THEN 1 ELSE 0)
    <3>1. Tally(t)' = Tally(t) /\ Tally(t) <= given /\ Tally(t) \in Nat
      BY <1>1, <2>2, <2>3
    <3> QED BY <1>1, <2>1, <3>1
  <2> QED BY <2>4 DEF CountInv
<1>3. CASE GetLeastBusyThread
  BY <1>1, <1>3 DEF GetLeastBusyThread, poolVars, CountInv, Tally
<1>4. CASE PushTask
  <2>1. \A t \in Threads : worker'[t] = "finished" <=> worker[t] = "finished"
    BY <1>0, <1>4 DEF PushTask, Notified, TypeOK
  <2>2. \A t \in Threads : Len(tasks'[t]) <= Len(tasks[t]) + 1 /\ Len(tasks'[t]) \in Nat
    <3> SUFFICES ASSUME NEW t \in Threads
                 PROVE  Len(tasks'[t]) <= Len(tasks[t]) + 1 /\ Len(tasks'[t]) \in Nat
      OBVIOUS
    <3>1. tasks[t] \in Seq(Jobs) /\ job \in Jobs
      BY <1>0, <1>4 DEF PushTask, TypeOK, Located
    <3>2. tasks'[t] = tasks[t] \/ tasks'[t] = Append(tasks[t], job)
      BY <1>0, <1>4 DEF PushTask, TypeOK
    <3> QED BY <3>1, <3>2
  <2>3. main = "pushing" /\ main' = "weighing" /\ given' = given
    BY <1>4 DEF PushTask
  <2>4. ASSUME NEW t \in Threads
        PROVE  Tally(t)' <= Tally(t) + 1 /\ Tally(t)' \in Nat
    <3>1. Len(tasks'[t]) <= Len(tasks[t]) + 1 /\ Len(tasks'[t]) \in Nat /\ Len(tasks[t]) \in Nat
      BY <1>1, <2>2
    <3>2. worker'[t] = "finished" <=> worker[t] = "finished"
      BY <2>1
    <3>3. CASE worker[t] = "finished"
      <4>1. worker'[t] = "finished"
        BY <3>2, <3>3
      <4>2. Tally(t)' = Len(tasks'[t]) + 1 /\ Tally(t) = Len(tasks[t]) + 1
        BY <3>3, <4>1 DEF Tally
      <4> QED BY <3>1, <4>2
    <3>4. CASE worker[t] # "finished"
      <4>1. worker'[t] # "finished"
        BY <3>2, <3>4
      <4>2. Tally(t)' = Len(tasks'[t]) + 0 /\ Tally(t) = Len(tasks[t]) + 0
        BY <3>4, <4>1 DEF Tally
      <4> QED BY <3>1, <4>2
    <3> QED BY <3>3, <3>4
  <2>5. \A t \in Threads : Tally(t) <= given - 1
    BY <2>3 DEF CountInv
  <2> QED BY <1>1, <2>3, <2>4, <2>5 DEF CountInv
<1>5. CASE AddWeight \/ WaitReturns \/ Deleted
  BY <1>1, <1>5 DEF AddWeight, WaitReturns, Deleted, poolVars, CountInv, Tally
<1>6. CASE DeleteThread
  <2>1. \A t \in Threads : worker'[t] = "finished" <=> worker[t] = "finished"
    BY <1>0, <1>6 DEF DeleteThread, Notified, TypeOK
  <2> QED BY <1>1, <1>6, <2>1 DEF DeleteThread, CountInv, Tally
<1>7. ASSUME NEW u \in Threads, TakeTask(u) PROVE CountInv'
  <2>1. \A t \in Threads : worker'[t] = "finished" <=> worker[t] = "finished"
    BY <1>0, <1>7 DEF TakeTask, TypeOK
  <2> QED BY <1>1, <1>7, <2>1 DEF TakeTask, mainVars, CountInv, Tally
<1>8. ASSUME NEW u \in Threads, FinishTask(u) PROVE CountInv'
  <2>1. tasks[u] \in Seq(Jobs) /\ tasks[u] # << >>
    BY <1>0, <1>8 DEF FinishTask, TypeOK, Located
  <2>2. tasks' = [tasks EXCEPT ![u] = Tail(tasks[u])] /\ worker' = [worker EXCEPT ![u] = "finished"]
        /\ worker[u] = "running" /\ UNCHANGED <<main, given>>
    BY <1>8 DEF FinishTask, Popped, mainVars
  <2>3. Len(Tail(tasks[u])) = Len(tasks[u]) - 1
    BY <2>1
  <2>4. \A t \in Threads : Tally(t)' = Tally(t)
    <3>1. Tally(u)' = Tally(u)
      BY <1>0, <1>1, <2>2, <2>3 DEF TypeOK, Tally
    <3>2. \A t \in Threads \ {u} : tasks'[t] = tasks[t] /\ worker'[t] = worker[t]
      BY <1>0, <2>2 DEF TypeOK
    <3> QED BY <3>1, <3>2 DEF Tally
  <2> QED BY <2>2, <2>4 DEF CountInv
<1>9. ASSUME NEW u \in Threads, LowerWeight(u) PROVE CountInv'
  <2>1. \A t \in Threads : worker'[t] = "finished" => worker[t] = "finished"
    BY <1>0, <1>9 DEF LowerWeight, TypeOK
  <2>2. UNCHANGED <<tasks, main, given>>
    BY <1>9 DEF LowerWeight, mainVars
  <2>3. ASSUME NEW t \in Threads
        PROVE  Tally(t)' <= Tally(t) /\ Tally(t)' \in Nat
    <3>1. tasks'[t] = tasks[t] /\ Len(tasks[t]) \in Nat
      BY <1>1, <2>2
    <3>2. worker'[t] = "finished" => worker[t] = "finished"
      BY <2>1
    <3>3. CASE worker'[t] = "finished"
      BY <3>1, <3>2, <3>3 DEF Tally
    <3>4. CASE worker'[t] # "finished"
      BY <3>1, <3>2, <3>4 DEF Tally
    <3> QED BY <3>3, <3>4
  <2> QED BY <1>1, <2>2, <2>3 DEF CountInv
<1>10. ASSUME NEW c \in Threads \cup {Main}, BeginWait(c) \/ WaitLooks(c) \/ WaitSpins(c) PROVE CountInv'
  BY <1>1, <1>10 DEF BeginWait, WaitLooks, WaitSpins, poolVars, mainVars, CountInv, Tally
<1>11. CASE UNCHANGED vars
  BY <1>11 DEF vars, poolVars, mainVars, CountInv, Tally
<1> QED
  BY <1>2, <1>3, <1>4, <1>5, <1>6, <1>7, <1>8, <1>9, <1>10, <1>11
  DEF Next, MainNext, WorkerNext, Waiting

\* The weights stay below what the scan starts from.
LEMMA WeightsBelow ==
    ASSUME TypeOK, WeightsAccounted, CountInv, main = "scanning", NEW t \in Threads
    PROVE  weight[t] < INT32_MAX
<1>1. PICK most \in 0..INT32_MAX : most * MaxJobs < INT32_MAX /\ \A w \in Weights : w <= most
  BY WeightsFit
<1> DEFINE q == tasks[t]
<1>2. weight[t] = WeightOf(q) + (IF worker[t] = "finished" THEN current[t].weight ELSE 0)
  <2>1. WeightOf(q) \in Int /\ current[t].weight \in Int
    BY WeighedIsSeq, WeightIsInt DEF TypeOK
  <2> QED BY <2>1 DEF WeightsAccounted
<1>3. q \in Seq(Jobs) /\ current[t] \in Jobs \cup {NoJob} /\ given \in 0..MaxJobs
  BY DEF TypeOK
<1>4. Len(q) + (IF worker[t] = "finished" THEN 1 ELSE 0) <= given - 1
  BY DEF CountInv, Tally
<1> HIDE DEF q
<1>5. WeightOf(q) <= most * Len(q) /\ WeightOf(q) \in Int /\ Len(q) \in Nat
  <2>1. /\ Weighed(q) \in Seq(Int) /\ Len(Weighed(q)) = Len(q)
        /\ WeightOf(q) = Total(Weighed(q)) /\ WeightOf(q) \in Int
    BY <1>3, WeighedIsSeq
  <2>2. \A i \in 1..Len(Weighed(q)) : Weighed(q)[i] <= most
    <3>1. \A i \in 1..Len(q) : q[i] \in Jobs /\ Weighed(q)[i] = q[i].weight
      BY <1>3, ElementOfSeq, WeighedIsSeq
    <3> QED BY <1>1, <2>1, <3>1 DEF Jobs
  <2>3. Total(Weighed(q)) <= most * Len(Weighed(q))
    <3> DEFINE v == Weighed(q)
    <3>1. v \in Seq(Int) /\ \A i \in 1..Len(v) : v[i] <= most
      BY <2>1, <2>2
    <3>2. most \in Nat
      BY <1>1
    <3> HIDE DEF v
    <3>3. Total(v) <= most * Len(v)
      BY <3>1, <3>2, TotalBound
    <3> QED BY <3>3 DEF v
  <2> QED BY <1>3, <2>1, <2>3, LenProperties
<1>6. current[t].weight <= most /\ current[t].weight \in Int
  BY <1>1, <1>3, WeightIsInt DEF Jobs, NoJob
<1>7. weight[t] <= most * Len(q) + (IF worker[t] = "finished" THEN most ELSE 0)
  BY <1>1, <1>2, <1>5, <1>6
<1> DEFINE n == Len(q) + (IF worker[t] = "finished" THEN 1 ELSE 0)
<1>8. weight[t] <= most * n /\ n \in Nat /\ n <= MaxJobs /\ MaxJobs \in Nat
  <2>1. most * (Len(q) + 1) = most * Len(q) + most /\ most * (Len(q) + 0) = most * Len(q) + 0
    BY <1>1, <1>5
  <2>2. weight[t] <= most * n
    BY <1>7, <2>1
  <2> QED BY <1>3, <1>4, <1>5, <2>2, ThreadPoolAssumption
<1> HIDE DEF n
<1>9. most * n <= most * MaxJobs
  BY <1>1, <1>8
<1>10. most * n \in Int /\ most * MaxJobs \in Int /\ INT32_MAX \in Nat /\ weight[t] \in Int
  BY <1>1, <1>8, ThreadPoolAssumption DEF TypeOK
<1> QED BY <1>1, <1>8, <1>9, <1>10

\* As long as the scan has taken no thread, each that it has passed has a loop, unless a loop
\* has returned, and the choice is still the first.
ScanInv ==
    main = "scanning" /\ leastWeight = INT32_MAX =>
        least = 1 /\ \A t \in Threads : t < scan => HasLoop(t) \/ LoopReturned

\* The thread that the scan looks at and does not take has a loop.
LEMMA ScanPasses ==
    ASSUME TypeInv, WeightsAccounted, CountInv, WaitInv, ScanInv, GetLeastBusyThread,
           leastWeight' = INT32_MAX
    PROVE  least' = 1 /\ \A t \in Threads : t <= scan => HasLoop(t) \/ LoopReturned
<1>0. TypeOK /\ scan \in Threads /\ main = "scanning"
  BY DEF TypeInv, Located, GetLeastBusyThread
<1>1. weight[scan] < INT32_MAX /\ weight[scan] \in Int
  BY <1>0, WeightsBelow DEF TypeOK
<1>2. ~Lighter(scan) /\ leastWeight = INT32_MAX /\ least' = least
  BY <1>1 DEF GetLeastBusyThread
<1>3. weight[scan] < 0
  BY <1>1, <1>2 DEF Lighter
<1>4. HasLoop(scan) \/ LoopReturned
  BY <1>0, <1>3, NegativeHasLoop DEF WaitInv
<1>5. \A t \in Threads : t <= scan => t < scan \/ t = scan
  BY <1>0 DEF Threads
<1> QED BY <1>0, <1>2, <1>4, <1>5 DEF ScanInv

\* Every step keeps it: only a job that returns changes the queues during a scan.
LEMMA ScanNext == TypeInv /\ WeightsAccounted /\ CountInv /\ WaitInv /\ ScanInv /\ [Next]_vars => ScanInv'
<1> SUFFICES ASSUME TypeInv, WeightsAccounted, CountInv, WaitInv, ScanInv, [Next]_vars
             PROVE  ScanInv'
  OBVIOUS
<1>1. CASE GetLeastBusyThread
  <2> SUFFICES ASSUME main' = "scanning", leastWeight' = INT32_MAX
               PROVE  least' = 1 /\ \A t \in Threads : t < scan' => HasLoop(t)' \/ LoopReturned'
    BY DEF ScanInv
  <2>1. scan' = scan + 1 /\ scan \in Threads /\ UNCHANGED <<tasks, done>>
    BY <1>1 DEF GetLeastBusyThread, poolVars, TypeInv, Located
  <2>2. \A t \in Threads : t < scan' => t <= scan
    BY <2>1 DEF Threads
  <2> QED BY <1>1, <2>1, <2>2, ScanPasses DEF HasLoop, LoopReturned
<1>2. ASSUME NEW w \in Weights, AssignNewTask(w) PROVE ScanInv'
  BY <1>2 DEF AssignNewTask, ScanInv, Threads
<1>3. ASSUME NEW u \in Threads, FinishTask(u) PROVE ScanInv'
  <2>1. UNCHANGED <<main, scan, least, leastWeight>>
    BY <1>3 DEF FinishTask, mainVars
  <2> QED BY <1>3, <2>1, LoopStays DEF ScanInv
<1>4. CASE PushTask \/ AddWeight \/ WaitReturns \/ Deleted \/ DeleteThread
  BY <1>4 DEF PushTask, AddWeight, WaitReturns, Deleted, DeleteThread, ScanInv
<1>5. ASSUME NEW u \in Threads, TakeTask(u) \/ LowerWeight(u) PROVE ScanInv'
  BY <1>5 DEF TakeTask, LowerWeight, mainVars, ScanInv, HasLoop, LoopReturned
<1>6. ASSUME NEW c \in Threads \cup {Main}, BeginWait(c) PROVE ScanInv'
  BY <1>6 DEF BeginWait, poolVars, ScanInv, HasLoop, LoopReturned
<1>7. ASSUME NEW c \in Threads \cup {Main}, WaitLooks(c) \/ WaitSpins(c) PROVE ScanInv'
  BY <1>7 DEF WaitLooks, WaitSpins, poolVars, mainVars, ScanInv, HasLoop, LoopReturned
<1>8. CASE UNCHANGED vars
  BY <1>8 DEF vars, poolVars, mainVars, ScanInv, HasLoop, LoopReturned
<1> QED
  BY <1>1, <1>2, <1>3, <1>4, <1>5, <1>6, <1>7, <1>8
  DEF Next, MainNext, WorkerNext, Waiting

\* thread.hpp:29-30, threadpool.cpp:35-48, for every number of threads, jobs and weights: the
\* scan takes a thread that has a loop only while its other jobs have a weight; and it ends
\* without having taken any, which leaves the first, only when every thread has a loop or a
\* loop has returned.
THEOREM LoopsAreNotPicked == Spec => LoopsNotPicked
<1> DEFINE LInv == WeightsAccounted /\ CountInv /\ WaitInv /\ ScanInv
<1>1. Init => LInv
  BY AccountInit, WaitInit DEF Init, CountInv, Tally, ScanInv
<1>2. TypeInv /\ TypeInv' /\ LInv /\ [Next]_vars => LInv'
  BY AccountNext, CountNext, WaitNext, ScanNext DEF TypeInv
<1>3. TypeInv /\ LInv /\ [Next]_vars =>
        [main = "scanning" =>
            /\ <<least', leastWeight'>> # <<least, leastWeight>> /\ HasLoop(scan) => Load(scan) > 0
            /\ main' = "pushing" /\ leastWeight' = INT32_MAX =>
                 least' = 1 /\ ((\A t \in Threads : HasLoop(t)) \/ LoopReturned)]_vars
  <2> SUFFICES ASSUME TypeInv, LInv, [Next]_vars, main = "scanning",
                      main' = "pushing", leastWeight' = INT32_MAX
               PROVE  least' = 1 /\ ((\A t \in Threads : HasLoop(t)) \/ LoopReturned)
    BY PickedOutweighs
  <2>1. GetLeastBusyThread
    BY DEF Next, MainNext, WorkerNext, Waiting, AssignNewTask, PushTask, AddWeight, WaitReturns,
       Deleted, DeleteThread, TakeTask, FinishTask, LowerWeight, BeginWait, WaitLooks, WaitSpins,
       vars, mainVars
  <2>2. scan = NumThreads
    BY <2>1, ThreadPoolAssumption DEF GetLeastBusyThread, LastScanned
  <2>3. \A t \in Threads : t <= scan
    BY <2>2, ThreadPoolAssumption DEF Threads
  <2> QED BY <2>1, <2>3, ScanPasses
<1> QED BY <1>1, <1>2, <1>3, TypeAlways, PTL DEF Spec, LoopsNotPicked
=============================================================================
