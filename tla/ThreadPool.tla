----------------------------- MODULE ThreadPool -----------------------------
(***************************************************************************)
(* Thread and ThreadPool: worker threads with a queue and a weight each,   *)
(* the main thread that gives them jobs, waits for them and deletes them.  *)
(*                                                                         *)
(* A job of negative weight is a loop: Server::input and Client::read,     *)
(* which go on until they are told to stop and then call                   *)
(* ThreadPool::wait themselves, on the worker that runs them               *)
(* (server.cpp:54, client.cpp:45).  Queue and weight have a mutex each;    *)
(* one action is one critical section.                                     *)
(***************************************************************************)
EXTENDS Integers, Sequences

CONSTANTS
    NumThreads,  \* std::thread::hardware_concurrency()
    Weights,     \* weights of the jobs
    MaxJobs,     \* bound: jobs given to the pool
    INT32_MAX

ASSUME ThreadPoolAssumption ==
    /\ NumThreads \in Nat \ {0}
    /\ MaxJobs \in Nat
    /\ Weights \subseteq Int
    /\ INT32_MAX \in Nat \ {0}
    /\ \A w \in Weights : w < INT32_MAX

\* No sum of weights leaves the int32_t it is kept in.
ASSUME WeightsFit ==
    \E most \in 0..INT32_MAX : most * MaxJobs < INT32_MAX /\ \A w \in Weights : w <= most

Threads == 1..NumThreads
Main == 0
Jobs == [id : 1..MaxJobs, weight : Weights]
NoJob == [id |-> 0, weight |-> 0]
Loops(job) == job.weight < 0

VARIABLES
    tasks,       \* Thread::tasks; the job a worker runs is the first until it has returned
    weight,      \* Thread::weight
    terminated,  \* Thread::terminated
    worker,      \* what the worker of a thread does
    current,     \* the pair the worker took from the queue
    main,        \* what the main thread does
    job,         \* the job it gives to the pool
    scan,        \* the thread it looks at, in getLeastBusyThread and in the destructor
    least,       \* the thread it has chosen so far
    leastWeight, \* and the weight it read from it
    waitAt,      \* by caller: the thread ThreadPool::wait looks at, 0 outside wait
    spinning,    \* by caller: wait is in "while(t->busy()){}"
    done,        \* the jobs that have returned
    given        \* jobs given so far

poolVars == <<tasks, weight, terminated, worker, current>>
mainVars == <<main, job, scan, least, leastWeight, given>>
waitVars == <<waitAt, spinning>>
vars == <<poolVars, mainVars, waitVars, done>>

Init ==
    /\ tasks = [t \in Threads |-> << >>]
    /\ weight = [t \in Threads |-> 0]
    /\ terminated = [t \in Threads |-> FALSE]
    /\ worker = [t \in Threads |-> "checking"]
    /\ current = [t \in Threads |-> NoJob]
    /\ main = "ready"
    /\ job = NoJob
    /\ scan = 0
    /\ least = 1
    /\ leastWeight = INT32_MAX
    /\ waitAt = [c \in Threads \cup {Main} |-> 0]
    /\ spinning = [c \in Threads \cup {Main} |-> FALSE]
    /\ done = {}
    /\ given = 0

\* condition.notify_one(): only the worker of the thread waits on its condition.
\* Mutant: nobody is notified.
NotNotified(t) == worker
Notified(t) == [worker EXCEPT ![t] = IF @ = "asleep" THEN "checking" ELSE @]

-----------------------------------------------------------------------------
(* The main thread: assignNewTask *)

AssignNewTask(w) ==
    /\ main = "ready"
    /\ given < MaxJobs
    /\ given' = given + 1
    /\ job' = [id |-> given + 1, weight |-> w]
    /\ main' = "scanning"
    /\ scan' = 1
    /\ least' = 1
    /\ leastWeight' = INT32_MAX
    /\ UNCHANGED <<poolVars, waitVars, done>>

\* getLeastBusyThread reads the weights one after the other; a negative one is a loop's.
\* Mutant: the weight of a loop is the least of all.
LighterAny(t) == weight[t] < leastWeight
Lighter(t) == weight[t] >= 0 /\ weight[t] < leastWeight
LastScanned(t) == t = NumThreads
GetLeastBusyThread ==
    /\ main = "scanning"
    /\ least' = IF Lighter(scan) THEN scan ELSE least
    /\ leastWeight' = IF Lighter(scan) THEN weight[scan] ELSE leastWeight
    /\ IF LastScanned(scan) \/ leastWeight' = 0
       THEN main' = "pushing" /\ scan' = 0
       ELSE main' = main /\ scan' = scan + 1
    /\ UNCHANGED <<poolVars, job, given, waitVars, done>>

\* addToQueue, under tasksMutex.
PushTask ==
    /\ main = "pushing"
    /\ tasks' = [tasks EXCEPT ![least] = Append(@, job)]
    /\ worker' = Notified(least)
    /\ main' = "weighing"
    /\ UNCHANGED <<weight, terminated, current, job, scan, least, leastWeight, given, waitVars, done>>

\* addToQueue, under weightMutex: by now the worker may be running the job.
AddWeight ==
    /\ main = "weighing"
    /\ weight' = [weight EXCEPT ![least] = @ + job.weight]
    /\ main' = "ready"
    /\ UNCHANGED <<tasks, terminated, worker, current, job, scan, least, leastWeight, given, waitVars, done>>

-----------------------------------------------------------------------------
(* The workers: Thread::run *)

\* The wait on the condition, and the job taken when it is over.
TakeTask(t) ==
    /\ worker[t] = "checking"
    /\ \/ /\ terminated[t]
          /\ worker' = [worker EXCEPT ![t] = "ended"]
          /\ UNCHANGED current
       \/ /\ ~terminated[t]
          /\ tasks[t] = << >>
          /\ worker' = [worker EXCEPT ![t] = "asleep"]
          /\ UNCHANGED current
       \/ /\ ~terminated[t]
          /\ tasks[t] # << >>
          /\ worker' = [worker EXCEPT ![t] = "running"]
          /\ current' = [current EXCEPT ![t] = Head(tasks[t])]
    /\ UNCHANGED <<tasks, weight, terminated, mainVars, waitVars, done>>

\* Mutant: the job stays in the queue.
PoppedNever(q) == q
\* Mutant: the next job goes with the one that has returned.
PoppedTwice(q) == IF Len(q) > 1 THEN Tail(Tail(q)) ELSE Tail(q)
Popped(q) == Tail(q)

\* The job returns; a loop does when its call of wait has.
FinishTask(t) ==
    /\ worker[t] = "running"
    /\ waitAt[t] = IF Loops(current[t]) THEN NumThreads + 1 ELSE 0
    /\ waitAt' = [waitAt EXCEPT ![t] = 0]
    /\ tasks' = [tasks EXCEPT ![t] = Popped(@)]
    /\ worker' = [worker EXCEPT ![t] = "finished"]
    /\ done' = done \cup {current[t]}
    /\ UNCHANGED <<weight, terminated, current, mainVars, spinning>>

\* Mutant: the weight of the job stays on the thread.
LoweredNot(w, j) == w
Lowered(w, j) == w - j.weight
LowerWeight(t) ==
    /\ worker[t] = "finished"
    /\ weight' = [weight EXCEPT ![t] = Lowered(@, current[t])]
    /\ worker' = [worker EXCEPT ![t] = "checking"]
    /\ UNCHANGED <<tasks, terminated, current, mainVars, waitVars, done>>

-----------------------------------------------------------------------------
(* ThreadPool::wait, called by the main thread or by a loop that is to stop *)

\* Mutant: the job that is running does not count.
BusyIfMore(t) == Len(tasks[t]) > 1
Busy(t) == tasks[t] # << >>

BeginWait(c) ==
    /\ waitAt[c] = 0
    /\ IF c = Main
       THEN main = "ready" /\ main' = "waiting"
       ELSE worker[c] = "running" /\ Loops(current[c]) /\ UNCHANGED main
    /\ waitAt' = [waitAt EXCEPT ![c] = 1]
    /\ UNCHANGED <<poolVars, job, scan, least, leastWeight, given, spinning, done>>

\* getWeight: a thread of negative weight is passed over.
WaitLooks(c) ==
    /\ waitAt[c] \in Threads
    /\ ~spinning[c]
    /\ IF weight[waitAt[c]] < 0
       THEN waitAt' = [waitAt EXCEPT ![c] = @ + 1] /\ UNCHANGED spinning
       ELSE spinning' = [spinning EXCEPT ![c] = TRUE] /\ UNCHANGED waitAt
    /\ UNCHANGED <<poolVars, mainVars, done>>

\* while(t->busy()){}: the weight is not looked at again.
WaitSpins(c) ==
    /\ spinning[c]
    /\ ~Busy(waitAt[c])
    /\ spinning' = [spinning EXCEPT ![c] = FALSE]
    /\ waitAt' = [waitAt EXCEPT ![c] = @ + 1]
    /\ UNCHANGED <<poolVars, mainVars, done>>

WaitReturns ==
    /\ main = "waiting"
    /\ waitAt[Main] = NumThreads + 1
    /\ waitAt' = [waitAt EXCEPT ![Main] = 0]
    /\ main' = "waited"
    /\ UNCHANGED <<poolVars, job, scan, least, leastWeight, given, spinning, done>>

-----------------------------------------------------------------------------
(* The destructors: one thread after the other is terminated and joined *)

DeleteThread ==
    /\ \/ main \in {"ready", "waited"} /\ scan' = 1
       \/ main = "joining" /\ scan < NumThreads /\ worker[scan] = "ended" /\ scan' = scan + 1
    /\ terminated' = [terminated EXCEPT ![scan'] = TRUE]
    /\ worker' = Notified(scan')
    /\ main' = "joining"
    /\ UNCHANGED <<tasks, weight, current, job, least, leastWeight, given, waitVars, done>>

Deleted ==
    /\ main = "joining"
    /\ scan = NumThreads
    /\ worker[scan] = "ended"
    /\ main' = "deleted"
    /\ UNCHANGED <<poolVars, job, scan, least, leastWeight, given, waitVars, done>>

-----------------------------------------------------------------------------
MainNext ==
    \/ GetLeastBusyThread
    \/ PushTask
    \/ AddWeight
    \/ WaitReturns
    \/ Deleted
    \/ main = "joining" /\ DeleteThread

WorkerNext(t) == TakeTask(t) \/ FinishTask(t) \/ LowerWeight(t)

Waiting(c) == WaitLooks(c) \/ WaitSpins(c)

Next ==
    \/ \E w \in Weights : AssignNewTask(w)
    \/ MainNext
    \/ DeleteThread
    \/ \E t \in Threads : WorkerNext(t)
    \/ \E c \in Threads \cup {Main} : BeginWait(c) \/ Waiting(c)

Spec == Init /\ [][Next]_vars

\* Every thread that can run does.  That a job is given, that a loop is told to stop and
\* that the pool is waited for or deleted is for the program to decide.
Fairness ==
    /\ WF_vars(MainNext)
    /\ \A t \in Threads : WF_vars(WorkerNext(t))
    /\ \A c \in Threads \cup {Main} : WF_vars(Waiting(c))
FairSpec == Spec /\ Fairness

-----------------------------------------------------------------------------
(* Properties *)

TypeOK ==
    /\ tasks \in [Threads -> Seq(Jobs)]
    /\ weight \in [Threads -> Int]
    /\ terminated \in [Threads -> BOOLEAN]
    /\ worker \in [Threads -> {"checking", "asleep", "running", "finished", "ended"}]
    /\ current \in [Threads -> Jobs \cup {NoJob}]
    /\ main \in {"ready", "scanning", "pushing", "weighing", "waiting", "waited", "joining", "deleted"}
    /\ job \in Jobs \cup {NoJob}
    /\ scan \in Threads \cup {0} /\ least \in Threads
    /\ leastWeight \in Nat
    /\ waitAt \in [Threads \cup {Main} -> 0..(NumThreads + 1)]
    /\ spinning \in [Threads \cup {Main} -> BOOLEAN]
    /\ done \subseteq Jobs
    /\ given \in 0..MaxJobs

\* The sum of a sequence of numbers.
PartialSums(s) == LET sums[n \in 0..Len(s)] == IF n = 0 THEN 0 ELSE sums[n - 1] + s[n] IN sums
Total(s) == PartialSums(s)[Len(s)]

WeightOf(q) == Total([i \in DOMAIN q |-> q[i].weight])

\* The weight of a thread is that of its queue, up to the two moments when the queue has
\* changed and the weight has not: it neither drifts nor forgets a job.
WeightsAccounted ==
    \A t \in Threads :
        weight[t] = WeightOf(tasks[t])
                    - (IF main = "weighing" /\ least = t THEN job.weight ELSE 0)
                    + (IF worker[t] = "finished" THEN current[t].weight ELSE 0)

Returned(n) == \E j \in done : j.id = n
Queued(n) == \E t \in Threads : \E i \in DOMAIN tasks[t] : tasks[t][i].id = n

\* A job that was given waits in one queue, at one place, or has returned: none is lost
\* and none runs twice.
JobsKept ==
    /\ \A s, t \in Threads : \A i \in DOMAIN tasks[s], k \in DOMAIN tasks[t] :
        tasks[s][i].id = tasks[t][k].id => s = t /\ i = k
    /\ \A t \in Threads : \A i \in DOMAIN tasks[t] : ~Returned(tasks[t][i].id)
    /\ \A n \in 1..given :
        Returned(n) \/ Queued(n) \/ (n = given /\ main \in {"scanning", "pushing"})

HasLoop(t) == \E i \in DOMAIN tasks[t] : Loops(tasks[t][i])

\* When wait returns every job given has returned, but those of threads that have, or had,
\* a loop.
WaitWaits ==
    [][main = "waiting" /\ main' = "waited" =>
        \/ \A t \in Threads : tasks[t] = << >> \/ HasLoop(t)
        \/ \E j \in done : Loops(j)]_vars

\* The job is a loop or waits behind one.
Held(i) ==
    \E t \in Threads : \E k, n \in DOMAIN tasks[t] :
        k <= n /\ Loops(tasks[t][k]) /\ tasks[t][n].id = i

\* Every job that no loop holds up is run unless the pool is deleted before: no
\* notification is missed.
JobsReturn ==
    \A i \in 1..MaxJobs : given >= i ~> Returned(i) \/ Held(i) \/ main \in {"joining", "deleted"}

\* wait comes back to the main thread, unless it spins on the queue of a loop.
WaitEnds ==
    main = "waiting" ~> main = "waited" \/ (spinning[Main] /\ HasLoop(waitAt[Main]))

\* A deleted pool leaves no thread behind, unless it has to join one that runs a loop.
DeletionEnds ==
    main = "joining" ~>
        main = "deleted" \/ (scan \in Threads /\ worker[scan] = "running" /\ Loops(current[scan]))

\* README.md:23: "stop stops the server": a loop that is told to stop, and waits for the
\* pool first, gets past that.
StopEnds == \A t \in Threads : waitAt[t] # 0 ~> waitAt[t] = 0

\* What a thread's jobs weigh without its loops, while the weight is not up to date either.
Load(t) ==
    Total([i \in DOMAIN tasks[t] |-> IF Loops(tasks[t][i]) THEN 0 ELSE tasks[t][i].weight])
        + (IF worker[t] = "finished" /\ ~Loops(current[t]) THEN current[t].weight ELSE 0)

LoopReturned == \E j \in done : Loops(j)

\* thread.hpp:29-30: "negative weight means function will take forever (loop) thus we
\* don't pick such threads for new jobs".  There are two ways for a new job to get behind a
\* loop all the same, and no third: the scan takes the loop's thread while its other jobs have
\* a weight, which hides the loop's in the sum; or it takes no thread at all, and so keeps the
\* first, and then every thread has a loop, or a loop has returned.
LoopsNotPicked ==
    [][main = "scanning" =>
        /\ <<least', leastWeight'>> # <<least, leastWeight>> /\ HasLoop(scan) => Load(scan) > 0
        /\ main' = "pushing" /\ leastWeight' = INT32_MAX =>
             least' = 1 /\ ((\A t \in Threads : HasLoop(t)) \/ LoopReturned)]_vars
=============================================================================
