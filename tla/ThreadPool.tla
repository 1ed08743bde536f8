----------------------------- MODULE ThreadPool -----------------------------
(***************************************************************************)
(* The pool of threads of src/food-sys/thpool.c: a job queue, a binary     *)
(* semaphore that says it may not be empty, threads that pull jobs from    *)
(* it, and callers that add work, wait for all work or destroy the pool.   *)
(*                                                                         *)
(* A step is one critical section of a mutex, or one access to memory that *)
(* is shared without one (threads_keepalive, jobqueue.len in thpool_wait,  *)
(* num_threads_alive in thpool_destroy).  The mutex of the semaphore is    *)
(* never held across a step and does not appear; rwmutex and thcount_lock  *)
(* do where a section is split.  A thread in pthread_cond_wait() is        *)
(* "asleep": a signal moves one of them, chosen freely, back to where it   *)
(* takes the mutex and tests its condition again, and so does a wakeup     *)
(* nobody asked for.                                                       *)
(***************************************************************************)
EXTENDS Naturals, Sequences, FiniteSets

CONSTANTS
  Workers,      \* the threads thpool_init() makes
  Callers,      \* the threads that call thpool_* functions
  Waiters,      \* those of them that call thpool_wait()
  Jobs,         \* what is added; a job is added at most once
  NoJob,        \* the null pointer jobqueue_pull() may return
  Nobody,       \* the owner of a free mutex
  MaxSpurious   \* bound on the wakeups nobody asked for

ASSUME PoolAssumption ==
  /\ IsFiniteSet(Workers)
  /\ Workers \cap Callers = {} /\ Waiters \subseteq Callers
  /\ Nobody \notin Workers \cup Callers
  /\ NoJob \notin Jobs
  /\ MaxSpurious \in Nat

VARIABLES
  threads_keepalive,
  num_threads_alive,
  num_threads_working,
  thcount_lock,   \* the owner of the mutex, where it is held across a step
  rwmutex,        \* likewise
  jobqueue,       \* front first
  has_jobs,       \* jobqueue.has_jobs->v
  pc,             \* where each thread of the pool is
  job_p,          \* the job it pulled
  call,           \* where each caller is
  freed,          \* thpool_destroy() has freed the pool
  spurious,       \* wakeups nobody asked for so far
  added,          \* history: the jobs added so far
  executed,       \* history: the jobs whose function has returned
  before          \* history: the jobs added before a caller began to wait

queueVars == <<jobqueue, rwmutex, has_jobs>>
countVars == <<num_threads_alive, num_threads_working, thcount_lock>>
historyVars == <<added, executed, before>>
vars == <<threads_keepalive, countVars, queueVars, pc, job_p, call, freed,
          spurious, historyVars>>

\* start: the thread is not counted yet; loop, woken: at the two tests of
\* threads_keepalive; wait, asleep: in bsem_wait(); unlock: after
\* num_threads_alive--.
WorkerPC == {"start", "loop", "wait", "asleep", "woken", "inc", "pull", "post",
             "run", "dec", "exit", "unlock", "dead"}

\* init: in thpool_init(); post: in jobqueue_push(); len, working, asleep: in
\* thpool_wait(); destroy: in thpool_destroy().
CallPC == {"init", "idle", "post", "len", "working", "asleep", "destroy", "done"}

Init ==
  /\ threads_keepalive = TRUE
  /\ num_threads_alive = 0
  /\ num_threads_working = 0
  /\ thcount_lock = Nobody
  /\ rwmutex = Nobody
  /\ jobqueue = <<>>
  /\ has_jobs = 0
  /\ pc = [w \in Workers |-> "start"]
  /\ job_p = [w \in Workers |-> NoJob]
  /\ call = [c \in Callers |-> "init"]
  /\ freed = FALSE
  /\ spurious = 0
  /\ added = {}
  /\ executed = {}
  /\ before = [c \in Callers |-> {}]

-----------------------------------------------------------------------------
(* The semaphore and the condition variables.  A step of thread w or caller *)
(* c gives its next place and says whom it wakes.                           *)

Asleep == {w \in Workers : pc[w] = "asleep"}
Waiting == {c \in Callers : call[c] = "asleep"}

\* pthread_cond_signal() wakes one sleeper when there is one.
OneOf(S) == IF S = {} THEN {{}} ELSE {{s} : s \in S}

\* pc after the sleepers in S are woken.
Wake(S) == [w \in Workers |-> IF w \in S THEN "wait" ELSE pc[w]]

\* Mutant: the flag is set and no thread is told.
SetsFlagOnly == has_jobs' = 1 /\ UNCHANGED pc

\* bsem_post() by a caller; a thread goes on to somewhere, too.
BsemPost == has_jobs' = 1 /\ \E S \in OneOf(Asleep) : pc' = Wake(S)
BsemPostBy(w, to) ==
  has_jobs' = 1 /\ \E S \in OneOf(Asleep) : pc' = [Wake(S) EXCEPT ![w] = to]

BsemPostAll == has_jobs' = 1 /\ pc' = Wake(Asleep)

-----------------------------------------------------------------------------
(* thread_do().                                                            *)

Step(w, from) ==
  /\ pc[w] = from
  /\ UNCHANGED <<threads_keepalive, freed, spurious, added, before>>

Goto(w, to) == pc' = [pc EXCEPT ![w] = to]

Starts(w) ==
  /\ Step(w, "start")
  /\ thcount_lock = Nobody
  /\ num_threads_alive' = num_threads_alive + 1
  /\ Goto(w, "loop")
  /\ UNCHANGED <<num_threads_working, thcount_lock, queueVars, job_p, call, executed>>

\* while(threads_keepalive)
Loops(w) ==
  /\ Step(w, "loop")
  /\ Goto(w, IF threads_keepalive THEN "wait" ELSE "exit")
  /\ UNCHANGED <<countVars, queueVars, job_p, call, executed>>

\* bsem_wait(): takes the flag, or sleeps.
TakesFlag(w) ==
  /\ Step(w, "wait")
  /\ has_jobs = 1
  /\ has_jobs' = 0
  /\ Goto(w, "woken")
  /\ UNCHANGED <<countVars, jobqueue, rwmutex, job_p, call, executed>>

FallsAsleep(w) ==
  /\ Step(w, "wait")
  /\ has_jobs # 1
  /\ Goto(w, "asleep")
  /\ UNCHANGED <<countVars, queueVars, job_p, call, executed>>

\* if (threads_keepalive)
TestsKeepalive(w) ==
  /\ Step(w, "woken")
  /\ Goto(w, IF threads_keepalive THEN "inc" ELSE "loop")
  /\ UNCHANGED <<countVars, queueVars, job_p, call, executed>>

\* Mutant: a thread that has a job is not counted as working.
CountsNothing(w) ==
  /\ Step(w, "inc")
  /\ thcount_lock = Nobody
  /\ Goto(w, "pull")
  /\ UNCHANGED <<num_threads_working, num_threads_alive, thcount_lock, queueVars,
                 job_p, call, executed>>

BeginsWork(w) ==
  /\ Step(w, "inc")
  /\ thcount_lock = Nobody
  /\ num_threads_working' = num_threads_working + 1
  /\ Goto(w, "pull")
  /\ UNCHANGED <<num_threads_alive, thcount_lock, queueVars, job_p, call, executed>>

\* jobqueue_pull(): the last job of the queue, or none ...
PullsLast(w) ==
  /\ Step(w, "pull")
  /\ rwmutex = Nobody
  /\ Len(jobqueue) <= 1
  /\ job_p' = [job_p EXCEPT ![w] = IF jobqueue = <<>> THEN NoJob ELSE Head(jobqueue)]
  /\ jobqueue' = <<>>
  /\ Goto(w, IF jobqueue = <<>> THEN "dec" ELSE "run")
  /\ UNCHANGED <<countVars, rwmutex, has_jobs, call, executed>>

\* Mutant: the other threads are not told of the jobs that are left.
PullsQuietly(w) ==
  /\ Step(w, "pull")
  /\ rwmutex = Nobody
  /\ Len(jobqueue) > 1
  /\ job_p' = [job_p EXCEPT ![w] = Head(jobqueue)]
  /\ jobqueue' = Tail(jobqueue)
  /\ Goto(w, "run")
  /\ UNCHANGED <<countVars, rwmutex, has_jobs, call, executed>>

\* Mutant: the front of the queue stays where it is.
PullsAndLeaves(w) ==
  /\ Step(w, "pull")
  /\ rwmutex = Nobody
  /\ Len(jobqueue) > 1
  /\ rwmutex' = w
  /\ job_p' = [job_p EXCEPT ![w] = Head(jobqueue)]
  /\ Goto(w, "post")
  /\ UNCHANGED <<countVars, jobqueue, has_jobs, call, executed>>

\* Mutant: the queue is a stack.
PullsNewest(w) ==
  /\ Step(w, "pull")
  /\ rwmutex = Nobody
  /\ Len(jobqueue) > 1
  /\ rwmutex' = w
  /\ job_p' = [job_p EXCEPT ![w] = jobqueue[Len(jobqueue)]]
  /\ jobqueue' = SubSeq(jobqueue, 1, Len(jobqueue) - 1)
  /\ Goto(w, "post")
  /\ UNCHANGED <<countVars, has_jobs, call, executed>>

\* ... or the first of several, after which it posts.
PullsFirst(w) ==
  /\ Step(w, "pull")
  /\ rwmutex = Nobody
  /\ Len(jobqueue) > 1
  /\ rwmutex' = w
  /\ job_p' = [job_p EXCEPT ![w] = Head(jobqueue)]
  /\ jobqueue' = Tail(jobqueue)
  /\ Goto(w, "post")
  /\ UNCHANGED <<countVars, has_jobs, call, executed>>

PostsRest(w) ==
  /\ Step(w, "post")
  /\ BsemPostBy(w, "run")
  /\ rwmutex' = Nobody
  /\ UNCHANGED <<countVars, jobqueue, job_p, call, executed>>

\* func_buff(arg_buff) returns.
Executes(w) ==
  /\ Step(w, "run")
  /\ executed' = executed \cup {job_p[w]}
  /\ job_p' = [job_p EXCEPT ![w] = NoJob]
  /\ Goto(w, "dec")
  /\ UNCHANGED <<countVars, queueVars, call>>

\* Mutant: the number is tested before it is decremented.
AllIdleTooLate == IF num_threads_working = 0 THEN OneOf(Waiting) ELSE {{}}

\* The last thread at work tells one caller of thpool_wait().
AllIdle == IF num_threads_working = 1 THEN OneOf(Waiting) ELSE {{}}

EndsWork(w) ==
  /\ Step(w, "dec")
  /\ thcount_lock = Nobody
  /\ num_threads_working' = num_threads_working - 1
  /\ \E S \in AllIdle :
       call' = [c \in Callers |-> IF c \in S THEN "len" ELSE call[c]]
  /\ Goto(w, "loop")
  /\ UNCHANGED <<num_threads_alive, thcount_lock, queueVars, job_p, executed>>

\* thpool_destroy() reads the count as soon as it is written ...
Exits(w) ==
  /\ Step(w, "exit")
  /\ thcount_lock = Nobody
  /\ thcount_lock' = w
  /\ num_threads_alive' = num_threads_alive - 1
  /\ Goto(w, "unlock")
  /\ UNCHANGED <<num_threads_working, queueVars, job_p, call, executed>>

\* ... and the mutex of the pool is used once more after that.
Unlocks(w) ==
  /\ Step(w, "unlock")
  /\ thcount_lock' = Nobody
  /\ Goto(w, "dead")
  /\ UNCHANGED <<num_threads_alive, num_threads_working, queueVars, job_p, call, executed>>

WorkerNext(w) ==
  \/ Starts(w) \/ Loops(w) \/ TakesFlag(w) \/ FallsAsleep(w) \/ TestsKeepalive(w)
  \/ BeginsWork(w) \/ PullsLast(w) \/ PullsFirst(w) \/ PostsRest(w) \/ Executes(w)
  \/ EndsWork(w) \/ Exits(w) \/ Unlocks(w)

-----------------------------------------------------------------------------
(* The functions of thpool.h.                                              *)

CallStep(c, from, to) ==
  /\ call[c] = from
  /\ call' = [call EXCEPT ![c] = to]
  /\ UNCHANGED <<num_threads_alive, num_threads_working, job_p, spurious, executed>>

\* thpool_init() spins until every thread has counted itself.
InitReturns ==
  /\ \A c \in Callers : call[c] = "init"
  /\ num_threads_alive = Cardinality(Workers)
  /\ call' = [c \in Callers |-> "idle"]
  /\ UNCHANGED <<threads_keepalive, countVars, queueVars, pc, job_p, freed,
                 spurious, historyVars>>

\* Nobody has called thpool_destroy().
InUse == \A d \in Callers : call[d] \notin {"destroy", "done"}

\* thpool_add_work(): jobqueue_push() appends, then posts.
AddWork(c, j) ==
  /\ CallStep(c, "idle", "post")
  /\ InUse
  /\ j \notin added
  /\ rwmutex = Nobody
  /\ rwmutex' = c
  /\ jobqueue' = Append(jobqueue, j)
  /\ added' = added \cup {j}
  /\ UNCHANGED <<threads_keepalive, thcount_lock, has_jobs, pc, freed, before>>

PostsWork(c) ==
  /\ CallStep(c, "post", "idle")
  /\ BsemPost
  /\ rwmutex' = Nobody
  /\ UNCHANGED <<threads_keepalive, thcount_lock, jobqueue, freed, added, before>>

\* thpool_wait(): under thcount_lock, the length of the queue is read without
\* rwmutex and then the number of working threads.
Wait(c) ==
  /\ c \in Waiters
  /\ CallStep(c, "idle", "len")
  /\ InUse
  /\ before' = [before EXCEPT ![c] = added]
  /\ UNCHANGED <<threads_keepalive, thcount_lock, queueVars, pc, freed, added>>

SeesJobs(c) ==
  /\ CallStep(c, "len", "asleep")
  /\ thcount_lock = Nobody
  /\ jobqueue # <<>>
  /\ UNCHANGED <<threads_keepalive, thcount_lock, queueVars, pc, freed, added, before>>

\* Mutant: the length of the queue is not looked at.
IgnoresJobs(c) ==
  /\ CallStep(c, "len", "working")
  /\ thcount_lock = Nobody
  /\ thcount_lock' = c
  /\ UNCHANGED <<threads_keepalive, queueVars, pc, freed, added, before>>

SeesNoJobs(c) ==
  /\ CallStep(c, "len", "working")
  /\ thcount_lock = Nobody
  /\ jobqueue = <<>>
  /\ thcount_lock' = c
  /\ UNCHANGED <<threads_keepalive, queueVars, pc, freed, added, before>>

SeesWork(c) ==
  /\ CallStep(c, "working", "asleep")
  /\ num_threads_working # 0
  /\ thcount_lock' = Nobody
  /\ UNCHANGED <<threads_keepalive, queueVars, pc, freed, added, before>>

WaitReturns(c) ==
  /\ CallStep(c, "working", "idle")
  /\ num_threads_working = 0
  /\ thcount_lock' = Nobody
  /\ UNCHANGED <<threads_keepalive, queueVars, pc, freed, added, before>>

\* thpool_destroy(), by a caller that knows of no other call: the pool is not
\* to be used from then on.
Destroy(c) ==
  /\ CallStep(c, "idle", "destroy")
  /\ \A d \in Callers : call[d] = "idle"
  /\ threads_keepalive' = FALSE
  /\ UNCHANGED <<thcount_lock, queueVars, pc, freed, added, before>>

\* Both its loops, the one that lasts a second and the one that does not.
DestroyPosts(c) ==
  /\ CallStep(c, "destroy", "destroy")
  /\ num_threads_alive # 0
  /\ BsemPostAll
  /\ UNCHANGED <<threads_keepalive, thcount_lock, jobqueue, rwmutex, freed, added, before>>

\* Mutant: only the threads at work are waited for.
DestroyFreesEarly(c) ==
  /\ CallStep(c, "destroy", "done")
  /\ num_threads_working = 0
  /\ jobqueue' = <<>>
  /\ has_jobs' = 0
  /\ freed' = TRUE
  /\ UNCHANGED <<threads_keepalive, thcount_lock, rwmutex, pc, added, before>>

DestroyFrees(c) ==
  /\ CallStep(c, "destroy", "done")
  /\ num_threads_alive = 0
  /\ jobqueue' = <<>>
  /\ has_jobs' = 0
  /\ freed' = TRUE
  /\ UNCHANGED <<threads_keepalive, thcount_lock, rwmutex, pc, added, before>>

CallerNext(c) ==
  \/ \E j \in Jobs : AddWork(c, j)
  \/ PostsWork(c)
  \/ Wait(c) \/ SeesJobs(c) \/ SeesNoJobs(c) \/ SeesWork(c) \/ WaitReturns(c)
  \/ Destroy(c) \/ DestroyPosts(c) \/ DestroyFrees(c)

\* pthread_cond_wait() may return for no reason.
SpuriousWakeup ==
  /\ spurious < MaxSpurious
  /\ spurious' = spurious + 1
  /\ \/ /\ \E w \in Asleep : Goto(w, "wait")
        /\ UNCHANGED call
     \/ /\ \E c \in Waiting : call' = [call EXCEPT ![c] = "len"]
        /\ UNCHANGED pc
  /\ UNCHANGED <<threads_keepalive, countVars, queueVars, job_p, freed, historyVars>>

-----------------------------------------------------------------------------
Next ==
  \/ \E w \in Workers : WorkerNext(w)
  \/ InitReturns
  \/ \E c \in Callers : CallerNext(c)
  \/ SpuriousWakeup

Spec == Init /\ [][Next]_vars

\* The threads run, and a function of thpool.h that was called goes on; nobody
\* need call one.
Proceeds(c) ==
  \/ PostsWork(c)
  \/ SeesJobs(c) \/ SeesNoJobs(c) \/ SeesWork(c) \/ WaitReturns(c)
  \/ DestroyPosts(c) \/ DestroyFrees(c)

Fairness ==
  /\ \A w \in Workers : WF_vars(WorkerNext(w))
  /\ \A c \in Callers : WF_vars(Proceeds(c))
  /\ WF_vars(InitReturns)

FairSpec == Spec /\ Fairness

-----------------------------------------------------------------------------
(* Properties.                                                             *)

TypeOK ==
  /\ threads_keepalive \in BOOLEAN
  /\ num_threads_alive \in 0..Cardinality(Workers)
  /\ num_threads_working \in 0..Cardinality(Workers)
  /\ thcount_lock \in Workers \cup Callers \cup {Nobody}
  /\ rwmutex \in Workers \cup Callers \cup {Nobody}
  /\ jobqueue \in Seq(Jobs)
  /\ has_jobs \in {0, 1}
  /\ pc \in [Workers -> WorkerPC]
  /\ job_p \in [Workers -> Jobs \cup {NoJob}]
  /\ call \in [Callers -> CallPC]
  /\ freed \in BOOLEAN
  /\ spurious \in 0..MaxSpurious
  /\ added \in SUBSET Jobs
  /\ executed \in SUBSET Jobs
  /\ before \in [Callers -> SUBSET Jobs]

Queued == {jobqueue[i] : i \in DOMAIN jobqueue}
Held == {job_p[w] : w \in Workers} \ {NoJob}

\* A job that was added is in the queue, in one thread's hands, or done, and
\* never in two of these or twice in one, until the pool is destroyed.
EveryJobIsSomewhere ==
  /\ ~freed => added = Queued \cup Held \cup executed
  /\ Queued \cap Held = {} /\ (Queued \cup Held) \cap executed = {}
  /\ \A i, j \in DOMAIN jobqueue : jobqueue[i] = jobqueue[j] => i = j
  /\ \A v, w \in Workers : job_p[v] = job_p[w] => v = w \/ job_p[v] = NoJob

\* thpool_wait() returns only when all that was added before the call is done,
\* although it reads the queue's length without the queue's mutex and the two
\* numbers one after the other.
WaitReturnsAfterWork ==
  \A c \in Callers :
    call[c] = "working" /\ num_threads_working = 0 => before[c] \subseteq executed

\* A job in the queue always has somebody coming for it: a flag that is raised
\* while a thread is awake to see it, a thread that took it, or a poster.
Coming(w) == pc[w] \in {"woken", "inc", "pull"}
Awake(w) == pc[w] \notin {"asleep", "dead"}
NoLostWakeup ==
  jobqueue # <<>> /\ threads_keepalive
    => \/ rwmutex # Nobody
       \/ \E w \in Workers : Coming(w)
       \/ has_jobs = 1 /\ \E w \in Workers : Awake(w)

\* The pool is freed only when no thread of it can touch its queue any more.
\* One may have yet to unlock thcount_lock, although thpool.h:143 says "This will
\* wait for the currently active threads to finish".
DestroyOutlivesWork ==
  freed => \A w \in Workers : pc[w] \in {"unlock", "dead"}

\* Every job that is added is executed, unless the pool is destroyed first.
EveryJobIsExecuted ==
  \A j \in Jobs : j \in added ~> (j \in executed \/ ~InUse)

\* thpool.h, "Once the queue is empty and all work has completed, the calling
\* thread (probably the main program) will continue": every call returns.
EveryWaitReturns ==
  \A c \in Callers : call[c] = "len" ~> call[c] = "idle"

\* thpool_destroy() comes to its end, however many threads sleep or work.
DestroyReturns ==
  \A c \in Callers : call[c] = "destroy" ~> call[c] = "done"

\* What the pool promises those who add work: see JobPool.
Promise == INSTANCE JobPool WITH Idle <- NoJob, pending <- jobqueue, running <- job_p
Implements == Promise!PoolSpec
=============================================================================
