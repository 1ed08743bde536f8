-------------------------- MODULE ThreadPoolProofs --------------------------
(***************************************************************************)
(* What holds of ThreadPool for any number of threads, callers and jobs;   *)
(* and that pauses take nothing from it: wherever a thread of PausedPool   *)
(* is held, its execution is one that ThreadPool allows.                   *)
(***************************************************************************)
EXTENDS PausedPool, Integers, FiniteSetTheorems, TLAPS

-----------------------------------------------------------------------------
(* The inductive invariant, in the order in which its parts are proved.    *)

\* TypeOK but for the ranges of the two counters and what Hands is needed for.
Shape ==
  /\ threads_keepalive \in BOOLEAN
  /\ num_threads_alive \in Int
  /\ num_threads_working \in Int
  /\ thcount_lock \in Workers \cup Callers \cup {Nobody}
  /\ rwmutex \in Workers \cup Callers \cup {Nobody}
  /\ jobqueue \in Seq(Jobs)
  /\ has_jobs \in {0, 1}
  /\ pc \in [Workers -> WorkerPC]
  /\ job_p \in [Workers -> Jobs \cup {NoJob}]
  /\ call \in [Callers -> CallPC]
  /\ freed \in BOOLEAN
  /\ spurious \in 0..MaxSpurious
  /\ added \in SUBSET Jobs
  /\ before \in [Callers -> SUBSET Jobs]

\* The counters count.
AtWork == {w \in Workers : pc[w] \in {"pull", "post", "run", "dec"}}
Alive == {w \in Workers : pc[w] \notin {"start", "unlock", "dead"}}
Counts ==
  /\ num_threads_working = Cardinality(AtWork)
  /\ num_threads_alive = Cardinality(Alive)

\* A thread has a job in its hands from the pull to the end of its function,
\* and nothing but jobs is executed.
Hands ==
  /\ \A w \in Workers : job_p[w] # NoJob <=> pc[w] \in {"post", "run"}
  /\ executed \subseteq Jobs

\* thpool_init(), the pool in use, thpool_destroy().
Phases ==
  /\ \A w \in Workers : pc[w] = "start" => \A c \in Callers : call[c] = "init"
  /\ threads_keepalive =>
       /\ \A w \in Workers : pc[w] \notin {"exit", "unlock", "dead"}
       /\ \A c \in Callers : call[c] \notin {"destroy", "done"}
       /\ ~freed
  /\ ~threads_keepalive =>
       /\ \A c \in Callers : call[c] \in {"idle", "destroy", "done"}
       /\ ~InUse

\* What a caller of thpool_wait() waits for was added, and is in somebody's
\* hands or done once the caller has seen the queue empty.
WaitSeesAll ==
  \A c \in Callers :
    /\ before[c] \subseteq added
    /\ call[c] = "working" => before[c] \subseteq Held \cup executed

\* NoLostWakeup in two parts: a raised flag has somebody to see it; a job in
\* the queue has a flag or somebody who comes for it or will raise the flag.
FlagIsSeen ==
  threads_keepalive /\ has_jobs = 1 => \E w \in Workers : Awake(w)
QueueIsCovered ==
  threads_keepalive /\ jobqueue # <<>>
    => rwmutex # Nobody \/ has_jobs = 1 \/ \E w \in Workers : Coming(w)

-----------------------------------------------------------------------------
(* Whom the semaphore and the condition variable wake.                     *)

\* Everyone stays where they are, or was asleep and is about to try again.
SleepersWake(S) ==
  \A w \in S : pc'[w] = pc[w] \/ (pc[w] = "asleep" /\ pc'[w] = "wait")

\* bsem_post() by a caller wakes a sleeper when there is one, and moves no one else.
LEMMA PostWakes ==
  ASSUME Shape, BsemPost
  PROVE  /\ has_jobs' = 1 /\ pc' \in [Workers -> WorkerPC]
         /\ SleepersWake(Workers)
         /\ Asleep # {} => \E w \in Workers : pc'[w] = "wait"
<1>1. PICK S \in OneOf(Asleep) : pc' = Wake(S)
  BY DEF BsemPost
<1>2. S \subseteq Asleep /\ (Asleep # {} => S # {})
  BY <1>1 DEF OneOf
<1> QED
  BY <1>1, <1>2 DEF BsemPost, Wake, Asleep, SleepersWake, Shape, WorkerPC

\* bsem_post() by a thread that pulled moves it on, and sleepers only.
LEMMA PostByWakes ==
  ASSUME Shape, NEW v \in Workers, BsemPostBy(v, "run")
  PROVE  /\ has_jobs' = 1 /\ pc' \in [Workers -> WorkerPC]
         /\ pc'[v] = "run"
         /\ SleepersWake(Workers \ {v})
<1>1. PICK S \in OneOf(Asleep) : pc' = [Wake(S) EXCEPT ![v] = "run"]
  BY DEF BsemPostBy
<1>2. S \subseteq Asleep
  BY <1>1 DEF OneOf
<1> QED
  BY <1>1, <1>2 DEF BsemPostBy, Wake, Asleep, SleepersWake, Shape, WorkerPC

\* bsem_post_all() moves sleepers only.
LEMMA PostAllWakes ==
  ASSUME Shape, BsemPostAll
  PROVE  /\ has_jobs' = 1 /\ pc' \in [Workers -> WorkerPC]
         /\ SleepersWake(Workers)
BY DEF BsemPostAll, Wake, Asleep, SleepersWake, Shape, WorkerPC

\* The signal after num_threads_working-- moves callers asleep in thpool_wait() only.
LEMMA EndsWorkWakes ==
  ASSUME Shape, NEW w \in Workers, EndsWork(w)
  PROVE  /\ call' \in [Callers -> CallPC]
         /\ \A c \in Callers :
              call'[c] = call[c] \/ (call[c] = "asleep" /\ call'[c] = "len")
<1>1. PICK S \in AllIdle : call' = [c \in Callers |-> IF c \in S THEN "len" ELSE call[c]]
  BY DEF EndsWork
<1>2. S \subseteq Waiting
  BY <1>1 DEF AllIdle, OneOf
<1> QED
  BY <1>1, <1>2 DEF Waiting, Shape, CallPC

-----------------------------------------------------------------------------
\* Every step keeps the variables in their ranges.
LEMMA ShapeInvariant == Spec => []Shape
<1>1. Init => Shape
  <2> SUFFICES ASSUME Init PROVE Shape
    OBVIOUS
  <2>1. pc \in [Workers -> WorkerPC] /\ call \in [Callers -> CallPC]
    BY DEF Init, WorkerPC, CallPC
  <2>2. spurious \in 0..MaxSpurious
    BY PoolAssumption DEF PoolAssumption, Init
  <2>3. job_p \in [Workers -> Jobs \cup {NoJob}] /\ before \in [Callers -> SUBSET Jobs]
    BY DEF Init
  <2>4. threads_keepalive \in BOOLEAN /\ freed \in BOOLEAN
    BY DEF Init
  <2>5. /\ num_threads_alive \in Int /\ num_threads_working \in Int
        /\ jobqueue \in Seq(Jobs) /\ has_jobs \in {0, 1}
    BY DEF Init
  <2>6. /\ thcount_lock \in Workers \cup Callers \cup {Nobody}
        /\ rwmutex \in Workers \cup Callers \cup {Nobody}
        /\ added \in SUBSET Jobs
    BY DEF Init
  <2> QED
    BY <2>1, <2>2, <2>3, <2>4, <2>5, <2>6 DEF Shape
<1>2. Shape /\ [Next]_vars => Shape'
  <2> SUFFICES ASSUME Shape, [Next]_vars PROVE Shape'
    OBVIOUS
  <2> USE DEF Shape, WorkerPC, CallPC
  <2>1. ASSUME NEW w \in Workers, Starts(w) PROVE Shape'
    BY <2>1 DEF Starts, Step, Goto, queueVars
  <2>2. ASSUME NEW w \in Workers, Loops(w) PROVE Shape'
    BY <2>2 DEF Loops, Step, Goto, countVars, queueVars
  <2>3. ASSUME NEW w \in Workers, TakesFlag(w) PROVE Shape'
    BY <2>3 DEF TakesFlag, Step, Goto, countVars
  <2>4. ASSUME NEW w \in Workers, FallsAsleep(w) PROVE Shape'
    BY <2>4 DEF FallsAsleep, Step, Goto, countVars, queueVars
  <2>5. ASSUME NEW w \in Workers, TestsKeepalive(w) PROVE Shape'
    BY <2>5 DEF TestsKeepalive, Step, Goto, countVars, queueVars
  <2>6. ASSUME NEW w \in Workers, BeginsWork(w) PROVE Shape'
    BY <2>6 DEF BeginsWork, Step, Goto, queueVars
  <2>7. ASSUME NEW w \in Workers, PullsLast(w) PROVE Shape'
    BY <2>7 DEF PullsLast, Step, Goto, countVars
  <2>8. ASSUME NEW w \in Workers, PullsFirst(w) PROVE Shape'
    BY <2>8 DEF PullsFirst, Step, Goto, countVars
  <2>9. ASSUME NEW w \in Workers, PostsRest(w) PROVE Shape'
    <3>1. has_jobs' \in {0, 1} /\ pc' \in [Workers -> WorkerPC]
      BY <2>9, PostByWakes DEF PostsRest
    <3> QED
      BY <2>9, <3>1 DEF PostsRest, Step, countVars
  <2>10. ASSUME NEW w \in Workers, Executes(w) PROVE Shape'
    BY <2>10 DEF Executes, Step, Goto, countVars, queueVars
  <2>11. ASSUME NEW w \in Workers, EndsWork(w) PROVE Shape'
    BY <2>11, EndsWorkWakes DEF EndsWork, Step, Goto, queueVars
  <2>12. ASSUME NEW w \in Workers, Exits(w) PROVE Shape'
    BY <2>12 DEF Exits, Step, Goto, queueVars
  <2>13. ASSUME NEW w \in Workers, Unlocks(w) PROVE Shape'
    BY <2>13 DEF Unlocks, Step, Goto, queueVars
  <2>14. ASSUME InitReturns PROVE Shape'
    BY <2>14 DEF InitReturns, countVars, queueVars, historyVars
  <2>15. ASSUME NEW c \in Callers, NEW j \in Jobs, AddWork(c, j) PROVE Shape'
    BY <2>15 DEF AddWork, CallStep
  <2>16. ASSUME NEW c \in Callers, PostsWork(c) PROVE Shape'
    <3>1. has_jobs' \in {0, 1} /\ pc' \in [Workers -> WorkerPC]
      BY <2>16, PostWakes DEF PostsWork
    <3> QED
      BY <2>16, <3>1 DEF PostsWork, CallStep
  <2>17. ASSUME NEW c \in Callers, Wait(c) PROVE Shape'
    BY <2>17 DEF Wait, CallStep, queueVars
  <2>18. ASSUME NEW c \in Callers, SeesJobs(c) PROVE Shape'
    BY <2>18 DEF SeesJobs, CallStep, queueVars
  <2>19. ASSUME NEW c \in Callers, SeesNoJobs(c) PROVE Shape'
    BY <2>19 DEF SeesNoJobs, CallStep, queueVars
  <2>20. ASSUME NEW c \in Callers, SeesWork(c) PROVE Shape'
    BY <2>20 DEF SeesWork, CallStep, queueVars
  <2>21. ASSUME NEW c \in Callers, WaitReturns(c) PROVE Shape'
    BY <2>21 DEF WaitReturns, CallStep, queueVars
  <2>22. ASSUME NEW c \in Callers, Destroy(c) PROVE Shape'
    BY <2>22 DEF Destroy, CallStep, queueVars
  <2>23. ASSUME NEW c \in Callers, DestroyPosts(c) PROVE Shape'
    <3>1. has_jobs' \in {0, 1} /\ pc' \in [Workers -> WorkerPC]
      BY <2>23, PostAllWakes DEF DestroyPosts
    <3> QED
      BY <2>23, <3>1 DEF DestroyPosts, CallStep
  <2>24. ASSUME NEW c \in Callers, DestroyFrees(c) PROVE Shape'
    BY <2>24 DEF DestroyFrees, CallStep
  <2>25. ASSUME SpuriousWakeup PROVE Shape'
    <3>1. pc' \in [Workers -> WorkerPC]
      BY <2>25 DEF SpuriousWakeup, Goto
    <3>2. call' \in [Callers -> CallPC]
      BY <2>25 DEF SpuriousWakeup
    <3>3. spurious' \in 0..MaxSpurious
      BY <2>25, PoolAssumption DEF PoolAssumption, SpuriousWakeup
    <3> QED
      BY <2>25, <3>1, <3>2, <3>3 DEF SpuriousWakeup, countVars, queueVars, historyVars
  <2>26. CASE UNCHANGED vars
    BY <2>26 DEF vars, countVars, queueVars, historyVars
  <2> QED
    BY <2>1, <2>2, <2>3, <2>4, <2>5, <2>6, <2>7, <2>8, <2>9, <2>10, <2>11,
      <2>12, <2>13, <2>14, <2>15, <2>16, <2>17, <2>18, <2>19, <2>20, <2>21,
      <2>22, <2>23, <2>24, <2>25, <2>26 DEF Next, WorkerNext, CallerNext
<1> QED
  BY <1>1, <1>2, PTL DEF Spec

\* jobqueue_pull() fills a thread's hands, its job's function empties them.
LEMMA HandsInvariant == Spec => []Hands
<1>1. Init => Hands
  BY DEF Init, Hands
<1>2. Shape /\ Hands /\ [Next]_vars => Hands'
  <2> SUFFICES ASSUME Shape, Hands, [Next]_vars PROVE Hands'
    OBVIOUS
  <2>0. /\ pc \in [Workers -> WorkerPC] /\ job_p \in [Workers -> Jobs \cup {NoJob}]
        /\ jobqueue \in Seq(Jobs) /\ NoJob \notin Jobs
    BY PoolAssumption DEF PoolAssumption, Shape
  <2> USE DEF Hands
  <2>1. ASSUME NEW w \in Workers, Starts(w) PROVE Hands'
    BY <2>1, <2>0 DEF Starts, Step, Goto, queueVars
  <2>2. ASSUME NEW w \in Workers, Loops(w) PROVE Hands'
    BY <2>2, <2>0 DEF Loops, Step, Goto, countVars, queueVars
  <2>3. ASSUME NEW w \in Workers, TakesFlag(w) PROVE Hands'
    BY <2>3, <2>0 DEF TakesFlag, Step, Goto, countVars
  <2>4. ASSUME NEW w \in Workers, FallsAsleep(w) PROVE Hands'
    BY <2>4, <2>0 DEF FallsAsleep, Step, Goto, countVars, queueVars
  <2>5. ASSUME NEW w \in Workers, TestsKeepalive(w) PROVE Hands'
    BY <2>5, <2>0 DEF TestsKeepalive, Step, Goto, countVars, queueVars
  <2>6. ASSUME NEW w \in Workers, BeginsWork(w) PROVE Hands'
    BY <2>6, <2>0 DEF BeginsWork, Step, Goto, queueVars
  <2>7. ASSUME NEW w \in Workers, PullsLast(w) PROVE Hands'
    BY <2>7, <2>0 DEF PullsLast, Step, Goto, countVars
  <2>8. ASSUME NEW w \in Workers, PullsFirst(w) PROVE Hands'
    BY <2>8, <2>0 DEF PullsFirst, Step, Goto, countVars
  <2>9. ASSUME NEW w \in Workers, PostsRest(w) PROVE Hands'
    BY <2>9, <2>0, PostByWakes DEF PostsRest, Step, SleepersWake
  <2>10. ASSUME NEW w \in Workers, Executes(w) PROVE Hands'
    BY <2>10, <2>0 DEF Executes, Step, Goto, countVars, queueVars
  <2>11. ASSUME NEW w \in Workers, EndsWork(w) PROVE Hands'
    BY <2>11, <2>0 DEF EndsWork, Step, Goto, AllIdle, queueVars
  <2>12. ASSUME NEW w \in Workers, Exits(w) PROVE Hands'
    BY <2>12, <2>0 DEF Exits, Step, Goto, queueVars
  <2>13. ASSUME NEW w \in Workers, Unlocks(w) PROVE Hands'
    BY <2>13, <2>0 DEF Unlocks, Step, Goto, queueVars
  <2>14. ASSUME InitReturns PROVE Hands'
    BY <2>14, <2>0 DEF InitReturns, countVars, queueVars, historyVars
  <2>15. ASSUME NEW c \in Callers, NEW j \in Jobs, AddWork(c, j) PROVE Hands'
    BY <2>15, <2>0 DEF AddWork, CallStep
  <2>16. ASSUME NEW c \in Callers, PostsWork(c) PROVE Hands'
    BY <2>16, <2>0, PostWakes DEF PostsWork, CallStep, SleepersWake
  <2>17. ASSUME NEW c \in Callers, Wait(c) PROVE Hands'
    BY <2>17, <2>0 DEF Wait, CallStep, queueVars
  <2>18. ASSUME NEW c \in Callers, SeesJobs(c) PROVE Hands'
    BY <2>18, <2>0 DEF SeesJobs, CallStep, queueVars
  <2>19. ASSUME NEW c \in Callers, SeesNoJobs(c) PROVE Hands'
    BY <2>19, <2>0 DEF SeesNoJobs, CallStep, queueVars
  <2>20. ASSUME NEW c \in Callers, SeesWork(c) PROVE Hands'
    BY <2>20, <2>0 DEF SeesWork, CallStep, queueVars
  <2>21. ASSUME NEW c \in Callers, WaitReturns(c) PROVE Hands'
    BY <2>21, <2>0 DEF WaitReturns, CallStep, queueVars
  <2>22. ASSUME NEW c \in Callers, Destroy(c) PROVE Hands'
    BY <2>22, <2>0 DEF Destroy, CallStep, queueVars
  <2>23. ASSUME NEW c \in Callers, DestroyPosts(c) PROVE Hands'
    BY <2>23, <2>0, PostAllWakes DEF DestroyPosts, CallStep, SleepersWake
  <2>24. ASSUME NEW c \in Callers, DestroyFrees(c) PROVE Hands'
    BY <2>24, <2>0 DEF DestroyFrees, CallStep
  <2>25. ASSUME SpuriousWakeup PROVE Hands'
    BY <2>25, <2>0 DEF SpuriousWakeup, Goto, Asleep, Waiting, countVars,
      queueVars, historyVars
  <2>26. CASE UNCHANGED vars
    BY <2>26, <2>0 DEF vars, countVars, queueVars, historyVars
  <2> QED
    BY <2>1, <2>2, <2>3, <2>4, <2>5, <2>6, <2>7, <2>8, <2>9, <2>10, <2>11,
      <2>12, <2>13, <2>14, <2>15, <2>16, <2>17, <2>18, <2>19, <2>20, <2>21,
      <2>22, <2>23, <2>24, <2>25, <2>26 DEF Next, WorkerNext, CallerNext
<1> QED
  BY <1>1, <1>2, ShapeInvariant, PTL DEF Spec

\* num_threads_alive and num_threads_working are the sizes of two sets of threads:
\* each is written where a thread enters or leaves the set.
LEMMA CountsInvariant == Spec => []Counts
<1>1. Init => Counts
  <2> SUFFICES ASSUME Init PROVE Counts
    OBVIOUS
  <2>1. AtWork = {} /\ Alive = {}
    BY DEF Init, AtWork, Alive
  <2> QED
    BY <2>1, FS_EmptySet DEF Init, Counts
<1>2. Shape /\ Counts /\ [Next]_vars => Counts'
  <2> SUFFICES ASSUME Shape, Counts, [Next]_vars PROVE Counts'
    OBVIOUS
  <2>0. /\ pc \in [Workers -> WorkerPC]
        /\ IsFiniteSet(AtWork) /\ IsFiniteSet(Alive)
    <3>1. AtWork \subseteq Workers /\ Alive \subseteq Workers
      BY DEF AtWork, Alive
    <3> QED
      BY <3>1, PoolAssumption, FS_Subset DEF PoolAssumption, Shape
  <2> USE DEF Counts
  <2>1. ASSUME NEW w \in Workers, Starts(w) PROVE Counts'
    <3>1. AtWork' = AtWork /\ Alive' = Alive \cup {w} /\ w \notin Alive
      BY <2>1, <2>0 DEF Starts, Step, Goto, AtWork, Alive, WorkerPC
    <3> QED
      BY <2>1, <2>0, <3>1, FS_AddElement DEF Starts
  <2>2. ASSUME NEW w \in Workers, Loops(w) PROVE Counts'
    <3>1. AtWork' = AtWork /\ Alive' = Alive
      BY <2>2, <2>0 DEF Loops, Step, Goto, countVars, queueVars, AtWork, Alive
    <3> QED
      BY <2>2, <3>1 DEF Loops, Step, countVars
  <2>3. ASSUME NEW w \in Workers, TakesFlag(w) PROVE Counts'
    <3>1. AtWork' = AtWork /\ Alive' = Alive
      BY <2>3, <2>0 DEF TakesFlag, Step, Goto, countVars, AtWork, Alive
    <3> QED
      BY <2>3, <3>1 DEF TakesFlag, Step, countVars
  <2>4. ASSUME NEW w \in Workers, FallsAsleep(w) PROVE Counts'
    <3>1. AtWork' = AtWork /\ Alive' = Alive
      BY <2>4, <2>0 DEF FallsAsleep, Step, Goto, countVars, queueVars, AtWork,
        Alive
    <3> QED
      BY <2>4, <3>1 DEF FallsAsleep, Step, countVars
  <2>5. ASSUME NEW w \in Workers, TestsKeepalive(w) PROVE Counts'
    <3>1. AtWork' = AtWork /\ Alive' = Alive
      BY <2>5, <2>0 DEF TestsKeepalive, Step, Goto, countVars, queueVars, AtWork,
        Alive
    <3> QED
      BY <2>5, <3>1 DEF TestsKeepalive, Step, countVars
  <2>6. ASSUME NEW w \in Workers, BeginsWork(w) PROVE Counts'
    <3>1. AtWork' = AtWork \cup {w} /\ w \notin AtWork /\ Alive' = Alive
      BY <2>6, <2>0 DEF BeginsWork, Step, Goto, AtWork, Alive
    <3> QED
      BY <2>6, <2>0, <3>1, FS_AddElement DEF BeginsWork
  <2>7. ASSUME NEW w \in Workers, PullsLast(w) PROVE Counts'
    <3>1. AtWork' = AtWork /\ Alive' = Alive
      BY <2>7, <2>0 DEF PullsLast, Step, Goto, countVars, AtWork, Alive
    <3> QED
      BY <2>7, <3>1 DEF PullsLast, Step, countVars
  <2>8. ASSUME NEW w \in Workers, PullsFirst(w) PROVE Counts'
    <3>1. AtWork' = AtWork /\ Alive' = Alive
      BY <2>8, <2>0 DEF PullsFirst, Step, Goto, countVars, AtWork, Alive
    <3> QED
      BY <2>8, <3>1 DEF PullsFirst, Step, countVars
  <2>9. ASSUME NEW w \in Workers, PostsRest(w) PROVE Counts'
    <3>1. AtWork' = AtWork /\ Alive' = Alive
      BY <2>9, <2>0, PostByWakes DEF PostsRest, Step, countVars, SleepersWake,
        AtWork, Alive
    <3> QED
      BY <2>9, <3>1 DEF PostsRest, Step, countVars
  <2>10. ASSUME NEW w \in Workers, Executes(w) PROVE Counts'
    <3>1. AtWork' = AtWork /\ Alive' = Alive
      BY <2>10, <2>0 DEF Executes, Step, Goto, countVars, queueVars, AtWork, Alive
    <3> QED
      BY <2>10, <3>1 DEF Executes, Step, countVars
  <2>11. ASSUME NEW w \in Workers, EndsWork(w) PROVE Counts'
    <3>1. AtWork' = AtWork \ {w} /\ w \in AtWork /\ Alive' = Alive
      BY <2>11, <2>0 DEF EndsWork, Step, Goto, AtWork, Alive
    <3> QED
      BY <2>11, <2>0, <3>1, FS_RemoveElement DEF EndsWork
  <2>12. ASSUME NEW w \in Workers, Exits(w) PROVE Counts'
    <3>1. AtWork' = AtWork /\ Alive' = Alive \ {w} /\ w \in Alive
      BY <2>12, <2>0 DEF Exits, Step, Goto, AtWork, Alive
    <3> QED
      BY <2>12, <2>0, <3>1, FS_RemoveElement DEF Exits
  <2>13. ASSUME NEW w \in Workers, Unlocks(w) PROVE Counts'
    <3>1. AtWork' = AtWork /\ Alive' = Alive
      BY <2>13, <2>0 DEF Unlocks, Step, Goto, queueVars, AtWork, Alive
    <3> QED
      BY <2>13, <3>1 DEF Unlocks, Step
  <2>14. ASSUME InitReturns PROVE Counts'
    <3>1. AtWork' = AtWork /\ Alive' = Alive
      BY <2>14, <2>0 DEF InitReturns, countVars, queueVars, historyVars, AtWork,
        Alive
    <3> QED
      BY <2>14, <3>1 DEF InitReturns, countVars
  <2>15. ASSUME NEW c \in Callers, NEW j \in Jobs, AddWork(c, j) PROVE Counts'
    <3>1. AtWork' = AtWork /\ Alive' = Alive
      BY <2>15, <2>0 DEF AddWork, CallStep, AtWork, Alive
    <3> QED
      BY <2>15, <3>1 DEF AddWork, CallStep
  <2>16. ASSUME NEW c \in Callers, PostsWork(c) PROVE Counts'
    <3>1. AtWork' = AtWork /\ Alive' = Alive
      BY <2>16, <2>0, PostWakes DEF PostsWork, CallStep, SleepersWake, AtWork,
        Alive
    <3> QED
      BY <2>16, <3>1 DEF PostsWork, CallStep
  <2>17. ASSUME NEW c \in Callers, Wait(c) PROVE Counts'
    <3>1. AtWork' = AtWork /\ Alive' = Alive
      BY <2>17, <2>0 DEF Wait, CallStep, queueVars, AtWork, Alive
    <3> QED
      BY <2>17, <3>1 DEF Wait, CallStep
  <2>18. ASSUME NEW c \in Callers, SeesJobs(c) PROVE Counts'
    <3>1. AtWork' = AtWork /\ Alive' = Alive
      BY <2>18, <2>0 DEF SeesJobs, CallStep, queueVars, AtWork, Alive
    <3> QED
      BY <2>18, <3>1 DEF SeesJobs, CallStep
  <2>19. ASSUME NEW c \in Callers, SeesNoJobs(c) PROVE Counts'
    <3>1. AtWork' = AtWork /\ Alive' = Alive
      BY <2>19, <2>0 DEF SeesNoJobs, CallStep, queueVars, AtWork, Alive
    <3> QED
      BY <2>19, <3>1 DEF SeesNoJobs, CallStep
  <2>20. ASSUME NEW c \in Callers, SeesWork(c) PROVE Counts'
    <3>1. AtWork' = AtWork /\ Alive' = Alive
      BY <2>20, <2>0 DEF SeesWork, CallStep, queueVars, AtWork, Alive
    <3> QED
      BY <2>20, <3>1 DEF SeesWork, CallStep
  <2>21. ASSUME NEW c \in Callers, WaitReturns(c) PROVE Counts'
    <3>1. AtWork' = AtWork /\ Alive' = Alive
      BY <2>21, <2>0 DEF WaitReturns, CallStep, queueVars, AtWork, Alive
    <3> QED
      BY <2>21, <3>1 DEF WaitReturns, CallStep
  <2>22. ASSUME NEW c \in Callers, Destroy(c) PROVE Counts'
    <3>1. AtWork' = AtWork /\ Alive' = Alive
      BY <2>22, <2>0 DEF Destroy, CallStep, queueVars, AtWork, Alive
    <3> QED
      BY <2>22, <3>1 DEF Destroy, CallStep
  <2>23. ASSUME NEW c \in Callers, DestroyPosts(c) PROVE Counts'
    <3>1. AtWork' = AtWork /\ Alive' = Alive
      BY <2>23, <2>0, PostAllWakes DEF DestroyPosts, CallStep, SleepersWake,
        AtWork, Alive
    <3> QED
      BY <2>23, <3>1 DEF DestroyPosts, CallStep
  <2>24. ASSUME NEW c \in Callers, DestroyFrees(c) PROVE Counts'
    <3>1. AtWork' = AtWork /\ Alive' = Alive
      BY <2>24, <2>0 DEF DestroyFrees, CallStep, AtWork, Alive
    <3> QED
      BY <2>24, <3>1 DEF DestroyFrees, CallStep
  <2>25. ASSUME SpuriousWakeup PROVE Counts'
    <3>1. AtWork' = AtWork /\ Alive' = Alive
      BY <2>25, <2>0 DEF SpuriousWakeup, Goto, Asleep, Waiting, countVars,
        queueVars, historyVars, AtWork, Alive
    <3> QED
      BY <2>25, <3>1 DEF SpuriousWakeup, countVars
  <2>26. CASE UNCHANGED vars
    <3>1. AtWork' = AtWork /\ Alive' = Alive
      BY <2>26 DEF vars, AtWork, Alive
    <3> QED
      BY <2>26, <3>1 DEF vars, countVars
  <2> QED
    BY <2>1, <2>2, <2>3, <2>4, <2>5, <2>6, <2>7, <2>8, <2>9, <2>10, <2>11,
      <2>12, <2>13, <2>14, <2>15, <2>16, <2>17, <2>18, <2>19, <2>20, <2>21,
      <2>22, <2>23, <2>24, <2>25, <2>26 DEF Next, WorkerNext, CallerNext
<1> QED
  BY <1>1, <1>2, ShapeInvariant, PTL DEF Spec

\* Nobody uses the pool before thpool_init() returns or after thpool_destroy()
\* is called, and no thread exits before that.
LEMMA PhasesInvariant == Spec => []Phases
<1>1. Init => Phases
  BY DEF Init, Phases, InUse
<1>2. Shape /\ Counts /\ Phases /\ [Next]_vars => Phases'
  <2> SUFFICES ASSUME Shape, Counts, Phases, [Next]_vars PROVE Phases'
    OBVIOUS
  <2>0. /\ pc \in [Workers -> WorkerPC] /\ call \in [Callers -> CallPC]
        /\ threads_keepalive \in BOOLEAN /\ freed \in BOOLEAN
    BY DEF Shape
  <2> USE DEF Phases, InUse
  <2>1. ASSUME NEW w \in Workers, Starts(w) PROVE Phases'
    BY <2>1, <2>0 DEF Starts, Step, Goto, queueVars
  <2>2. ASSUME NEW w \in Workers, Loops(w) PROVE Phases'
    BY <2>2, <2>0 DEF Loops, Step, Goto, countVars, queueVars
  <2>3. ASSUME NEW w \in Workers, TakesFlag(w) PROVE Phases'
    BY <2>3, <2>0 DEF TakesFlag, Step, Goto, countVars
  <2>4. ASSUME NEW w \in Workers, FallsAsleep(w) PROVE Phases'
    BY <2>4, <2>0 DEF FallsAsleep, Step, Goto, countVars, queueVars
  <2>5. ASSUME NEW w \in Workers, TestsKeepalive(w) PROVE Phases'
    BY <2>5, <2>0 DEF TestsKeepalive, Step, Goto, countVars, queueVars
  <2>6. ASSUME NEW w \in Workers, BeginsWork(w) PROVE Phases'
    BY <2>6, <2>0 DEF BeginsWork, Step, Goto, queueVars
  <2>7. ASSUME NEW w \in Workers, PullsLast(w) PROVE Phases'
    BY <2>7, <2>0 DEF PullsLast, Step, Goto, countVars
  <2>8. ASSUME NEW w \in Workers, PullsFirst(w) PROVE Phases'
    BY <2>8, <2>0 DEF PullsFirst, Step, Goto, countVars
  <2>9. ASSUME NEW w \in Workers, PostsRest(w) PROVE Phases'
    BY <2>9, <2>0, PostByWakes DEF PostsRest, Step, SleepersWake
  <2>10. ASSUME NEW w \in Workers, Executes(w) PROVE Phases'
    BY <2>10, <2>0 DEF Executes, Step, Goto, countVars, queueVars
  <2>11. ASSUME NEW w \in Workers, EndsWork(w) PROVE Phases'
    BY <2>11, <2>0, EndsWorkWakes DEF EndsWork, Step, Goto
  <2>12. ASSUME NEW w \in Workers, Exits(w) PROVE Phases'
    BY <2>12, <2>0 DEF Exits, Step, Goto, queueVars
  <2>13. ASSUME NEW w \in Workers, Unlocks(w) PROVE Phases'
    BY <2>13, <2>0 DEF Unlocks, Step, Goto, queueVars
  <2>14. ASSUME InitReturns PROVE Phases'
    <3>1. Alive = Workers
      BY <2>14, <2>0, PoolAssumption, FS_Subset DEF PoolAssumption, InitReturns, Counts, Alive
    <3> QED
      BY <2>14, <2>0, <3>1 DEF InitReturns, Alive
  <2>15. ASSUME NEW c \in Callers, NEW j \in Jobs, AddWork(c, j) PROVE Phases'
    BY <2>15, <2>0 DEF AddWork, CallStep
  <2>16. ASSUME NEW c \in Callers, PostsWork(c) PROVE Phases'
    BY <2>16, <2>0, PostWakes DEF PostsWork, CallStep, SleepersWake
  <2>17. ASSUME NEW c \in Callers, Wait(c) PROVE Phases'
    BY <2>17, <2>0 DEF Wait, CallStep, queueVars
  <2>18. ASSUME NEW c \in Callers, SeesJobs(c) PROVE Phases'
    BY <2>18, <2>0 DEF SeesJobs, CallStep, queueVars
  <2>19. ASSUME NEW c \in Callers, SeesNoJobs(c) PROVE Phases'
    BY <2>19, <2>0 DEF SeesNoJobs, CallStep, queueVars
  <2>20. ASSUME NEW c \in Callers, SeesWork(c) PROVE Phases'
    BY <2>20, <2>0 DEF SeesWork, CallStep, queueVars
  <2>21. ASSUME NEW c \in Callers, WaitReturns(c) PROVE Phases'
    BY <2>21, <2>0 DEF WaitReturns, CallStep, queueVars
  <2>22. ASSUME NEW c \in Callers, Destroy(c) PROVE Phases'
    BY <2>22, <2>0 DEF Destroy, CallStep, queueVars
  <2>23. ASSUME NEW c \in Callers, DestroyPosts(c) PROVE Phases'
    BY <2>23, <2>0, PostAllWakes DEF DestroyPosts, CallStep, SleepersWake
  <2>24. ASSUME NEW c \in Callers, DestroyFrees(c) PROVE Phases'
    BY <2>24, <2>0 DEF DestroyFrees, CallStep
  <2>25. ASSUME SpuriousWakeup PROVE Phases'
    BY <2>25, <2>0 DEF SpuriousWakeup, Goto, Asleep, Waiting, countVars,
      queueVars, historyVars
  <2>26. CASE UNCHANGED vars
    BY <2>26, <2>0 DEF vars, countVars, queueVars, historyVars
  <2> QED
    BY <2>1, <2>2, <2>3, <2>4, <2>5, <2>6, <2>7, <2>8, <2>9, <2>10, <2>11,
      <2>12, <2>13, <2>14, <2>15, <2>16, <2>17, <2>18, <2>19, <2>20, <2>21,
      <2>22, <2>23, <2>24, <2>25, <2>26 DEF Next, WorkerNext, CallerNext
<1> QED
  BY <1>1, <1>2, ShapeInvariant, CountsInvariant, PTL DEF Spec

-----------------------------------------------------------------------------
(* The queue as a sequence.                                                *)

Elements(q) == {q[i] : i \in DOMAIN q}
Distinct(q) == \A i, j \in DOMAIN q : q[i] = q[j] => i = j

\* What a queue holds after jobqueue_push().
LEMMA AppendElements ==
  ASSUME NEW S, NEW q \in Seq(S), NEW e \in S
  PROVE  /\ Elements(Append(q, e)) = Elements(q) \cup {e}
         /\ Distinct(q) /\ e \notin Elements(q) => Distinct(Append(q, e))
<1> DEFINE r == Append(q, e)
<1>1. /\ DOMAIN q = 1..Len(q) /\ DOMAIN r = 1..Len(q) + 1 /\ Len(q) \in Nat
      /\ \A i \in 1..Len(q) : r[i] = q[i]
      /\ r[Len(q) + 1] = e
  OBVIOUS
<1> HIDE DEF r
<1>2. Elements(r) = Elements(q) \cup {e}
  BY <1>1 DEF Elements
<1>3. Distinct(q) /\ e \notin Elements(q) => Distinct(r)
  BY <1>1 DEF Elements, Distinct
<1> QED
  BY <1>2, <1>3 DEF r

\* What a queue holds, and what its front is, before jobqueue_pull().
LEMMA TailElements ==
  ASSUME NEW S, NEW q \in Seq(S), q # <<>>
  PROVE  /\ Head(q) \in S /\ Tail(q) \in Seq(S)
         /\ Elements(q) = Elements(Tail(q)) \cup {Head(q)}
         /\ Distinct(q) => Distinct(Tail(q)) /\ Head(q) \notin Elements(Tail(q))
<1> DEFINE r == Tail(q)
<1>1. /\ DOMAIN q = 1..Len(q) /\ DOMAIN r = 1..Len(q) - 1
      /\ Len(q) \in Nat /\ Len(q) >= 1
      /\ \A i \in 1..Len(q) - 1 : r[i] = q[i + 1]
      /\ Head(q) = q[1] /\ Head(q) \in S /\ r \in Seq(S)
  OBVIOUS
<1> HIDE DEF r
<1>2. Elements(q) = Elements(r) \cup {Head(q)}
  <2>1. ASSUME NEW i \in 1..Len(q) PROVE q[i] \in Elements(r) \cup {Head(q)}
    <3>1. CASE i = 1
      BY <3>1, <1>1
    <3>2. CASE i # 1
      <4>1. i - 1 \in 1..Len(q) - 1 /\ r[i - 1] = q[i]
        BY <3>2, <1>1
      <4> QED
        BY <4>1, <1>1 DEF Elements
    <3> QED
      BY <3>1, <3>2
  <2>2. ASSUME NEW i \in 1..Len(q) - 1 PROVE r[i] \in Elements(q)
    <3>1. i + 1 \in 1..Len(q) /\ r[i] = q[i + 1]
      BY <1>1
    <3> QED
      BY <3>1, <1>1 DEF Elements
  <2>3. Head(q) \in Elements(q)
    BY <1>1 DEF Elements
  <2> QED
    <3>1. \A x \in Elements(q) : x \in Elements(r) \cup {Head(q)}
      BY <2>1, <1>1 DEF Elements
    <3>2. \A x \in Elements(r) : x \in Elements(q)
      BY <2>2, <1>1 DEF Elements
    <3> QED
      BY ONLY <3>1, <3>2, <2>3
<1>3. Distinct(q) => Distinct(r)
  <2> SUFFICES ASSUME Distinct(q), NEW i \in 1..Len(q) - 1, NEW j \in 1..Len(q) - 1,
                      r[i] = r[j]
               PROVE  i = j
    BY <1>1 DEF Distinct
  <2>1. i + 1 \in 1..Len(q) /\ j + 1 \in 1..Len(q) /\ q[i + 1] = q[j + 1]
    BY <1>1
  <2>2. i + 1 = j + 1
    BY <2>1, <1>1 DEF Distinct
  <2> QED
    BY <2>2
<1>4. Distinct(q) => Head(q) \notin Elements(r)
  BY <1>1 DEF Distinct, Elements
<1> QED
  BY <1>1, <1>2, <1>3, <1>4 DEF r

\* A pull takes the front of the queue into the thread's hands.
LEMMA Pulls ==
  ASSUME Shape, Hands, NEW w \in Workers, PullsLast(w) \/ PullsFirst(w), jobqueue # <<>>
  PROVE  /\ jobqueue' = Tail(jobqueue) /\ Head(jobqueue) \in Jobs
         /\ job_p[w] = NoJob /\ job_p' = [job_p EXCEPT ![w] = Head(jobqueue)]
         /\ Held' = Held \cup {Head(jobqueue)}
<1>1. jobqueue' = Tail(jobqueue)
  <2>1. CASE PullsFirst(w)
    BY <2>1 DEF PullsFirst
  <2>2. CASE PullsLast(w)
    <3>1. Len(jobqueue) <= 1 /\ jobqueue' = <<>>
      BY <2>2 DEF PullsLast
    <3>2. jobqueue \in Seq(Jobs)
      BY DEF Shape
    <3>3. ASSUME NEW q \in Seq(Jobs), q # <<>>, Len(q) <= 1 PROVE Tail(q) = <<>>
      BY <3>3, SMT
    <3> QED
      BY <3>1, <3>2, <3>3
  <2> QED
    BY <2>1, <2>2
<1>2. Head(jobqueue) \in Jobs /\ NoJob \notin Jobs
  BY TailElements, PoolAssumption DEF PoolAssumption, Shape
<1>3. job_p[w] = NoJob /\ job_p' = [job_p EXCEPT ![w] = Head(jobqueue)]
  BY DEF PullsLast, PullsFirst, Step, Hands
<1>4. Held' = Held \cup {Head(jobqueue)}
  BY <1>2, <1>3 DEF Held, Shape
<1> QED
  BY <1>1, <1>2, <1>3, <1>4

\* No job is lost, and none is executed twice: jobqueue_push() and
\* jobqueue_pull() keep every job in one place.
THEOREM JobsAccountedFor == Spec => []EveryJobIsSomewhere
<1>1. Init => EveryJobIsSomewhere
  BY DEF Init, EveryJobIsSomewhere, Queued, Held
<1>2. Shape /\ Hands /\ Phases /\ EveryJobIsSomewhere /\ [Next]_vars => EveryJobIsSomewhere'
  <2> SUFFICES ASSUME Shape, Hands, Phases, EveryJobIsSomewhere, [Next]_vars
               PROVE  EveryJobIsSomewhere'
    OBVIOUS
  <2>0. /\ jobqueue \in Seq(Jobs) /\ NoJob \notin Jobs
        /\ job_p \in [Workers -> Jobs \cup {NoJob}]
    BY PoolAssumption DEF PoolAssumption, Shape
  <2>a. ASSUME NEW w \in Workers, PullsLast(w) \/ PullsFirst(w), jobqueue # <<>>
        PROVE  EveryJobIsSomewhere'
    <3>1. UNCHANGED <<added, executed, freed>>
      BY <2>a DEF PullsLast, PullsFirst, Step
    <3>2. /\ Queued = Elements(jobqueue) /\ Queued' = Elements(jobqueue')
          /\ Distinct(jobqueue)
      BY DEF Queued, Elements, Distinct, EveryJobIsSomewhere
    <3>3. /\ Queued = Queued' \cup {Head(jobqueue)} /\ Head(jobqueue) \notin Queued'
          /\ Distinct(jobqueue')
      BY <2>a, <2>0, <3>2, Pulls, TailElements
    <3>4. Head(jobqueue) \notin Held
      BY <3>3 DEF EveryJobIsSomewhere
    <3>5. \A u, v \in Workers : job_p'[u] = job_p'[v] => u = v \/ job_p'[u] = NoJob
      BY <2>a, <2>0, <3>4, Pulls DEF EveryJobIsSomewhere, Held
    <3> QED
      BY <2>a, <3>1, <3>3, <3>4, <3>5, Pulls DEF EveryJobIsSomewhere, Distinct
  <2>b. threads_keepalive => ~freed
    BY DEF Phases
  <2>1. ASSUME NEW w \in Workers, Starts(w) PROVE EveryJobIsSomewhere'
    <3>1. UNCHANGED <<jobqueue, job_p, added, executed, freed>>
      BY <2>1 DEF Starts, Step, queueVars
    <3> QED
      BY <3>1 DEF EveryJobIsSomewhere, Queued, Held
  <2>2. ASSUME NEW w \in Workers, Loops(w) PROVE EveryJobIsSomewhere'
    <3>1. UNCHANGED <<jobqueue, job_p, added, executed, freed>>
      BY <2>2 DEF Loops, Step, queueVars
    <3> QED
      BY <3>1 DEF EveryJobIsSomewhere, Queued, Held
  <2>3. ASSUME NEW w \in Workers, TakesFlag(w) PROVE EveryJobIsSomewhere'
    <3>1. UNCHANGED <<jobqueue, job_p, added, executed, freed>>
      BY <2>3 DEF TakesFlag, Step
    <3> QED
      BY <3>1 DEF EveryJobIsSomewhere, Queued, Held
  <2>4. ASSUME NEW w \in Workers, FallsAsleep(w) PROVE EveryJobIsSomewhere'
    <3>1. UNCHANGED <<jobqueue, job_p, added, executed, freed>>
      BY <2>4 DEF FallsAsleep, Step, queueVars
    <3> QED
      BY <3>1 DEF EveryJobIsSomewhere, Queued, Held
  <2>5. ASSUME NEW w \in Workers, TestsKeepalive(w) PROVE EveryJobIsSomewhere'
    <3>1. UNCHANGED <<jobqueue, job_p, added, executed, freed>>
      BY <2>5 DEF TestsKeepalive, Step, queueVars
    <3> QED
      BY <3>1 DEF EveryJobIsSomewhere, Queued, Held
  <2>6. ASSUME NEW w \in Workers, BeginsWork(w) PROVE EveryJobIsSomewhere'
    <3>1. UNCHANGED <<jobqueue, job_p, added, executed, freed>>
      BY <2>6 DEF BeginsWork, Step, queueVars
    <3> QED
      BY <3>1 DEF EveryJobIsSomewhere, Queued, Held
  <2>7. ASSUME NEW w \in Workers, PullsLast(w) PROVE EveryJobIsSomewhere'
    <3>1. CASE jobqueue = <<>>
      <4>1. UNCHANGED <<jobqueue, job_p, added, executed, freed>>
        BY <2>7, <3>1, <2>0 DEF PullsLast, Step, Hands
      <4> QED
        BY <4>1 DEF EveryJobIsSomewhere, Queued, Held
    <3> QED
      BY <2>7, <3>1, <2>a
  <2>8. ASSUME NEW w \in Workers, PullsFirst(w) PROVE EveryJobIsSomewhere'
    <3>1. jobqueue # <<>>
      BY <2>8 DEF PullsFirst
    <3> QED
      BY <2>8, <3>1, <2>a
  <2>9. ASSUME NEW w \in Workers, PostsRest(w) PROVE EveryJobIsSomewhere'
    <3>1. UNCHANGED <<jobqueue, job_p, added, executed, freed>>
      BY <2>9 DEF PostsRest, Step
    <3> QED
      BY <3>1 DEF EveryJobIsSomewhere, Queued, Held
  <2>10. ASSUME NEW w \in Workers, Executes(w) PROVE EveryJobIsSomewhere'
    <3>1. job_p[w] # NoJob /\ executed' = executed \cup {job_p[w]}
      BY <2>10 DEF Executes, Step, Hands
    <3>2. job_p' = [job_p EXCEPT ![w] = NoJob] /\ UNCHANGED <<jobqueue, added, freed>>
      BY <2>10 DEF Executes, Step, queueVars
    <3>3. Held' = Held \ {job_p[w]} /\ job_p[w] \in Held /\ Queued' = Queued
      BY <2>0, <3>1, <3>2 DEF Held, Queued, EveryJobIsSomewhere
    <3>4. \A u, v \in Workers : job_p'[u] = job_p'[v] => u = v \/ job_p'[u] = NoJob
      BY <2>0, <3>2 DEF EveryJobIsSomewhere
    <3> QED
      BY <3>1, <3>2, <3>3, <3>4 DEF EveryJobIsSomewhere
  <2>11. ASSUME NEW w \in Workers, EndsWork(w) PROVE EveryJobIsSomewhere'
    <3>1. UNCHANGED <<jobqueue, job_p, added, executed, freed>>
      BY <2>11 DEF EndsWork, Step, queueVars
    <3> QED
      BY <3>1 DEF EveryJobIsSomewhere, Queued, Held
  <2>12. ASSUME NEW w \in Workers, Exits(w) PROVE EveryJobIsSomewhere'
    <3>1. UNCHANGED <<jobqueue, job_p, added, executed, freed>>
      BY <2>12 DEF Exits, Step, queueVars
    <3> QED
      BY <3>1 DEF EveryJobIsSomewhere, Queued, Held
  <2>13. ASSUME NEW w \in Workers, Unlocks(w) PROVE EveryJobIsSomewhere'
    <3>1. UNCHANGED <<jobqueue, job_p, added, executed, freed>>
      BY <2>13 DEF Unlocks, Step, queueVars
    <3> QED
      BY <3>1 DEF EveryJobIsSomewhere, Queued, Held
  <2>14. ASSUME InitReturns PROVE EveryJobIsSomewhere'
    <3>1. UNCHANGED <<jobqueue, job_p, added, executed, freed>>
      BY <2>14 DEF InitReturns, queueVars, historyVars
    <3> QED
      BY <3>1 DEF EveryJobIsSomewhere, Queued, Held
  <2>15. ASSUME NEW c \in Callers, NEW j \in Jobs, AddWork(c, j) PROVE EveryJobIsSomewhere'
    <3>1. /\ jobqueue' = Append(jobqueue, j) /\ added' = added \cup {j} /\ j \notin added
          /\ UNCHANGED <<job_p, executed, freed>>
      BY <2>15 DEF AddWork, CallStep
    <3>2. ~freed
      BY <2>15, <2>b DEF AddWork, Phases
    <3>3. /\ Queued = Elements(jobqueue) /\ Queued' = Elements(jobqueue')
          /\ Distinct(jobqueue)
      BY DEF Queued, Elements, Distinct, EveryJobIsSomewhere
    <3>4. Queued' = Queued \cup {j} /\ Held' = Held /\ Distinct(jobqueue')
      BY <2>0, <3>1, <3>2, <3>3, AppendElements DEF EveryJobIsSomewhere, Held
    <3> QED
      BY <3>1, <3>2, <3>4 DEF EveryJobIsSomewhere, Distinct
  <2>16. ASSUME NEW c \in Callers, PostsWork(c) PROVE EveryJobIsSomewhere'
    <3>1. UNCHANGED <<jobqueue, job_p, added, executed, freed>>
      BY <2>16 DEF PostsWork, CallStep
    <3> QED
      BY <3>1 DEF EveryJobIsSomewhere, Queued, Held
  <2>17. ASSUME NEW c \in Callers, Wait(c) PROVE EveryJobIsSomewhere'
    <3>1. UNCHANGED <<jobqueue, job_p, added, executed, freed>>
      BY <2>17 DEF Wait, CallStep, queueVars
    <3> QED
      BY <3>1 DEF EveryJobIsSomewhere, Queued, Held
  <2>18. ASSUME NEW c \in Callers, SeesJobs(c) PROVE EveryJobIsSomewhere'
    <3>1. UNCHANGED <<jobqueue, job_p, added, executed, freed>>
      BY <2>18 DEF SeesJobs, CallStep, queueVars
    <3> QED
      BY <3>1 DEF EveryJobIsSomewhere, Queued, Held
  <2>19. ASSUME NEW c \in Callers, SeesNoJobs(c) PROVE EveryJobIsSomewhere'
    <3>1. UNCHANGED <<jobqueue, job_p, added, executed, freed>>
      BY <2>19 DEF SeesNoJobs, CallStep, queueVars
    <3> QED
      BY <3>1 DEF EveryJobIsSomewhere, Queued, Held
  <2>20. ASSUME NEW c \in Callers, SeesWork(c) PROVE EveryJobIsSomewhere'
    <3>1. UNCHANGED <<jobqueue, job_p, added, executed, freed>>
      BY <2>20 DEF SeesWork, CallStep, queueVars
    <3> QED
      BY <3>1 DEF EveryJobIsSomewhere, Queued, Held
  <2>21. ASSUME NEW c \in Callers, WaitReturns(c) PROVE EveryJobIsSomewhere'
    <3>1. UNCHANGED <<jobqueue, job_p, added, executed, freed>>
      BY <2>21 DEF WaitReturns, CallStep, queueVars
    <3> QED
      BY <3>1 DEF EveryJobIsSomewhere, Queued, Held
  <2>22. ASSUME NEW c \in Callers, Destroy(c) PROVE EveryJobIsSomewhere'
    <3>1. UNCHANGED <<jobqueue, job_p, added, executed, freed>>
      BY <2>22 DEF Destroy, CallStep, queueVars
    <3> QED
      BY <3>1 DEF EveryJobIsSomewhere, Queued, Held
  <2>23. ASSUME NEW c \in Callers, DestroyPosts(c) PROVE EveryJobIsSomewhere'
    <3>1. UNCHANGED <<jobqueue, job_p, added, executed, freed>>
      BY <2>23 DEF DestroyPosts, CallStep
    <3> QED
      BY <3>1 DEF EveryJobIsSomewhere, Queued, Held
  <2>24. ASSUME NEW c \in Callers, DestroyFrees(c) PROVE EveryJobIsSomewhere'
    <3>1. jobqueue' = <<>> /\ freed' /\ UNCHANGED <<job_p, executed>>
      BY <2>24 DEF DestroyFrees, CallStep
    <3> QED
      BY <3>1 DEF EveryJobIsSomewhere, Queued, Held
  <2>25. ASSUME SpuriousWakeup PROVE EveryJobIsSomewhere'
    <3>1. UNCHANGED <<jobqueue, job_p, added, executed, freed>>
      BY <2>25 DEF SpuriousWakeup, queueVars, historyVars
    <3> QED
      BY <3>1 DEF EveryJobIsSomewhere, Queued, Held
  <2>26. CASE UNCHANGED vars
    BY <2>26 DEF vars, queueVars, historyVars, EveryJobIsSomewhere, Queued, Held
  <2> QED
    BY <2>1, <2>2, <2>3, <2>4, <2>5, <2>6, <2>7, <2>8, <2>9, <2>10, <2>11,
      <2>12, <2>13, <2>14, <2>15, <2>16, <2>17, <2>18, <2>19, <2>20, <2>21,
      <2>22, <2>23, <2>24, <2>25, <2>26 DEF Next, WorkerNext, CallerNext
<1> QED
  BY <1>1, <1>2, ShapeInvariant, HandsInvariant, PhasesInvariant, PTL DEF Spec

-----------------------------------------------------------------------------
\* What keeps WaitSeesAll in a step that is not about waiting.
LEMMA SeesAllKept ==
  ASSUME WaitSeesAll, added \subseteq added', before' = before,
         Held \cup executed \subseteq Held' \cup executed',
         \A c \in Callers : call'[c] = "working" => call[c] = "working"
  PROVE  WaitSeesAll'
BY DEF WaitSeesAll

\* A caller of thpool_wait() past the test of the queue's length misses no job.
LEMMA WaitSeesAllInvariant == Spec => []WaitSeesAll
<1>1. Init => WaitSeesAll
  BY DEF Init, WaitSeesAll
<1>2. Shape /\ Hands /\ Phases /\ EveryJobIsSomewhere /\ WaitSeesAll /\ [Next]_vars
        => WaitSeesAll'
  <2> SUFFICES ASSUME Shape, Hands, Phases, EveryJobIsSomewhere, WaitSeesAll, [Next]_vars
               PROVE  WaitSeesAll'
    OBVIOUS
  <2>0. /\ call \in [Callers -> CallPC] /\ before \in [Callers -> SUBSET Jobs]
        /\ job_p \in [Workers -> Jobs \cup {NoJob}]
    BY DEF Shape
  <2>1. ASSUME NEW w \in Workers, Starts(w) PROVE WaitSeesAll'
    <3>1. UNCHANGED <<job_p, executed, before, added>>
      BY <2>1 DEF Starts, Step
    <3>2. \A d \in Callers : call'[d] = "working" => call[d] = "working"
      BY <2>1, <2>0 DEF Starts, Step
    <3> QED
      BY <3>1, <3>2, SeesAllKept DEF Held
  <2>2. ASSUME NEW w \in Workers, Loops(w) PROVE WaitSeesAll'
    <3>1. UNCHANGED <<job_p, executed, before, added>>
      BY <2>2 DEF Loops, Step
    <3>2. \A d \in Callers : call'[d] = "working" => call[d] = "working"
      BY <2>2, <2>0 DEF Loops, Step
    <3> QED
      BY <3>1, <3>2, SeesAllKept DEF Held
  <2>3. ASSUME NEW w \in Workers, TakesFlag(w) PROVE WaitSeesAll'
    <3>1. UNCHANGED <<job_p, executed, before, added>>
      BY <2>3 DEF TakesFlag, Step
    <3>2. \A d \in Callers : call'[d] = "working" => call[d] = "working"
      BY <2>3, <2>0 DEF TakesFlag, Step
    <3> QED
      BY <3>1, <3>2, SeesAllKept DEF Held
  <2>4. ASSUME NEW w \in Workers, FallsAsleep(w) PROVE WaitSeesAll'
    <3>1. UNCHANGED <<job_p, executed, before, added>>
      BY <2>4 DEF FallsAsleep, Step
    <3>2. \A d \in Callers : call'[d] = "working" => call[d] = "working"
      BY <2>4, <2>0 DEF FallsAsleep, Step
    <3> QED
      BY <3>1, <3>2, SeesAllKept DEF Held
  <2>5. ASSUME NEW w \in Workers, TestsKeepalive(w) PROVE WaitSeesAll'
    <3>1. UNCHANGED <<job_p, executed, before, added>>
      BY <2>5 DEF TestsKeepalive, Step
    <3>2. \A d \in Callers : call'[d] = "working" => call[d] = "working"
      BY <2>5, <2>0 DEF TestsKeepalive, Step
    <3> QED
      BY <3>1, <3>2, SeesAllKept DEF Held
  <2>6. ASSUME NEW w \in Workers, BeginsWork(w) PROVE WaitSeesAll'
    <3>1. UNCHANGED <<job_p, executed, before, added>>
      BY <2>6 DEF BeginsWork, Step
    <3>2. \A d \in Callers : call'[d] = "working" => call[d] = "working"
      BY <2>6, <2>0 DEF BeginsWork, Step
    <3> QED
      BY <3>1, <3>2, SeesAllKept DEF Held
  <2>7. ASSUME NEW w \in Workers, PullsLast(w) PROVE WaitSeesAll'
    <3>1. UNCHANGED <<executed, before, added, call>>
      BY <2>7 DEF PullsLast, Step
    <3>2. Held \subseteq Held'
      <4>1. CASE jobqueue = <<>>
        BY <2>7, <4>1, <2>0 DEF PullsLast, Step, Held, Hands
      <4>2. CASE jobqueue # <<>>
        BY <2>7, <4>2, Pulls
      <4> QED
        BY <4>1, <4>2
    <3> QED
      BY <3>1, <3>2, SeesAllKept
  <2>8. ASSUME NEW w \in Workers, PullsFirst(w) PROVE WaitSeesAll'
    <3>1. UNCHANGED <<executed, before, added, call>>
      BY <2>8 DEF PullsFirst, Step
    <3>2. Held \subseteq Held'
      <4>1. jobqueue # <<>>
        BY <2>8 DEF PullsFirst
      <4> QED
        BY <2>8, <4>1, Pulls
    <3> QED
      BY <3>1, <3>2, SeesAllKept
  <2>9. ASSUME NEW w \in Workers, PostsRest(w) PROVE WaitSeesAll'
    <3>1. UNCHANGED <<job_p, executed, before, added>>
      BY <2>9 DEF PostsRest, Step
    <3>2. \A d \in Callers : call'[d] = "working" => call[d] = "working"
      BY <2>9, <2>0 DEF PostsRest, Step
    <3> QED
      BY <3>1, <3>2, SeesAllKept DEF Held
  <2>10. ASSUME NEW w \in Workers, Executes(w) PROVE WaitSeesAll'
    <3>1. UNCHANGED <<before, added, call>>
      BY <2>10 DEF Executes, Step
    <3>2. /\ executed' = executed \cup {job_p[w]}
          /\ job_p' = [job_p EXCEPT ![w] = NoJob]
      BY <2>10 DEF Executes
    <3>3. Held \cup executed \subseteq Held' \cup executed'
      BY <2>0, <3>2 DEF Held
    <3> QED
      BY <3>1, <3>3, SeesAllKept
  <2>11. ASSUME NEW w \in Workers, EndsWork(w) PROVE WaitSeesAll'
    <3>1. UNCHANGED <<job_p, executed, before, added>>
      BY <2>11 DEF EndsWork, Step
    <3>2. \A d \in Callers : call'[d] = "working" => call[d] = "working"
      BY <2>11, EndsWorkWakes
    <3> QED
      BY <3>1, <3>2, SeesAllKept DEF Held
  <2>12. ASSUME NEW w \in Workers, Exits(w) PROVE WaitSeesAll'
    <3>1. UNCHANGED <<job_p, executed, before, added>>
      BY <2>12 DEF Exits, Step
    <3>2. \A d \in Callers : call'[d] = "working" => call[d] = "working"
      BY <2>12, <2>0 DEF Exits, Step
    <3> QED
      BY <3>1, <3>2, SeesAllKept DEF Held
  <2>13. ASSUME NEW w \in Workers, Unlocks(w) PROVE WaitSeesAll'
    <3>1. UNCHANGED <<job_p, executed, before, added>>
      BY <2>13 DEF Unlocks, Step
    <3>2. \A d \in Callers : call'[d] = "working" => call[d] = "working"
      BY <2>13, <2>0 DEF Unlocks, Step
    <3> QED
      BY <3>1, <3>2, SeesAllKept DEF Held
  <2>14. ASSUME InitReturns PROVE WaitSeesAll'
    <3>1. UNCHANGED <<job_p, executed, before, added>>
      BY <2>14 DEF InitReturns, historyVars
    <3>2. \A d \in Callers : call'[d] = "working" => call[d] = "working"
      BY <2>14, <2>0 DEF InitReturns
    <3> QED
      BY <3>1, <3>2, SeesAllKept DEF Held
  <2>15. ASSUME NEW c \in Callers, NEW j \in Jobs, AddWork(c, j) PROVE WaitSeesAll'
    <3>1. UNCHANGED <<job_p, executed, before>> /\ added \subseteq added'
      BY <2>15 DEF AddWork, CallStep
    <3>2. \A d \in Callers : call'[d] = "working" => call[d] = "working"
      BY <2>15, <2>0 DEF AddWork, CallStep
    <3> QED
      BY <3>1, <3>2, SeesAllKept DEF Held
  <2>16. ASSUME NEW c \in Callers, PostsWork(c) PROVE WaitSeesAll'
    <3>1. UNCHANGED <<job_p, executed, before, added>>
      BY <2>16 DEF PostsWork, CallStep
    <3>2. \A d \in Callers : call'[d] = "working" => call[d] = "working"
      BY <2>16, <2>0 DEF PostsWork, CallStep
    <3> QED
      BY <3>1, <3>2, SeesAllKept DEF Held
  <2>17. ASSUME NEW c \in Callers, Wait(c) PROVE WaitSeesAll'
    <3>1. /\ UNCHANGED <<job_p, executed, added>>
          /\ before' = [before EXCEPT ![c] = added]
          /\ call' = [call EXCEPT ![c] = "len"]
      BY <2>17 DEF Wait, CallStep
    <3> QED
      BY <3>1, <2>0 DEF WaitSeesAll, Held
  <2>18. ASSUME NEW c \in Callers, SeesJobs(c) PROVE WaitSeesAll'
    <3>1. UNCHANGED <<job_p, executed, before, added>>
      BY <2>18 DEF SeesJobs, CallStep
    <3>2. \A d \in Callers : call'[d] = "working" => call[d] = "working"
      BY <2>18, <2>0 DEF SeesJobs, CallStep
    <3> QED
      BY <3>1, <3>2, SeesAllKept DEF Held
  <2>19. ASSUME NEW c \in Callers, SeesNoJobs(c) PROVE WaitSeesAll'
    <3>1. /\ UNCHANGED <<job_p, executed, before, added>>
          /\ call[c] = "len" /\ call' = [call EXCEPT ![c] = "working"]
          /\ jobqueue = <<>>
      BY <2>19 DEF SeesNoJobs, CallStep
    <3>2. ~freed
      BY <3>1 DEF Phases
    <3>3. before[c] \subseteq Held \cup executed
      BY <3>1, <3>2 DEF WaitSeesAll, EveryJobIsSomewhere, Queued
    <3> QED
      BY <3>1, <3>3, <2>0 DEF WaitSeesAll, Held
  <2>20. ASSUME NEW c \in Callers, SeesWork(c) PROVE WaitSeesAll'
    <3>1. UNCHANGED <<job_p, executed, before, added>>
      BY <2>20 DEF SeesWork, CallStep
    <3>2. \A d \in Callers : call'[d] = "working" => call[d] = "working"
      BY <2>20, <2>0 DEF SeesWork, CallStep
    <3> QED
      BY <3>1, <3>2, SeesAllKept DEF Held
  <2>21. ASSUME NEW c \in Callers, WaitReturns(c) PROVE WaitSeesAll'
    <3>1. UNCHANGED <<job_p, executed, before, added>>
      BY <2>21 DEF WaitReturns, CallStep
    <3>2. \A d \in Callers : call'[d] = "working" => call[d] = "working"
      BY <2>21, <2>0 DEF WaitReturns, CallStep
    <3> QED
      BY <3>1, <3>2, SeesAllKept DEF Held
  <2>22. ASSUME NEW c \in Callers, Destroy(c) PROVE WaitSeesAll'
    <3>1. UNCHANGED <<job_p, executed, before, added>>
      BY <2>22 DEF Destroy, CallStep
    <3>2. \A d \in Callers : call'[d] = "working" => call[d] = "working"
      BY <2>22, <2>0 DEF Destroy, CallStep
    <3> QED
      BY <3>1, <3>2, SeesAllKept DEF Held
  <2>23. ASSUME NEW c \in Callers, DestroyPosts(c) PROVE WaitSeesAll'
    <3>1. UNCHANGED <<job_p, executed, before, added>>
      BY <2>23 DEF DestroyPosts, CallStep
    <3>2. \A d \in Callers : call'[d] = "working" => call[d] = "working"
      BY <2>23, <2>0 DEF DestroyPosts, CallStep
    <3> QED
      BY <3>1, <3>2, SeesAllKept DEF Held
  <2>24. ASSUME NEW c \in Callers, DestroyFrees(c) PROVE WaitSeesAll'
    <3>1. UNCHANGED <<job_p, executed, before, added>>
      BY <2>24 DEF DestroyFrees, CallStep
    <3>2. \A d \in Callers : call'[d] = "working" => call[d] = "working"
      BY <2>24, <2>0 DEF DestroyFrees, CallStep
    <3> QED
      BY <3>1, <3>2, SeesAllKept DEF Held
  <2>25. ASSUME SpuriousWakeup PROVE WaitSeesAll'
    <3>1. UNCHANGED <<job_p, executed, before, added>>
      BY <2>25 DEF SpuriousWakeup, historyVars
    <3>2. \A d \in Callers : call'[d] = "working" => call[d] = "working"
      BY <2>25, <2>0 DEF SpuriousWakeup, Waiting
    <3> QED
      BY <3>1, <3>2, SeesAllKept DEF Held
  <2>26. CASE UNCHANGED vars
    <3>1. UNCHANGED <<job_p, executed, before, added, call>>
      BY <2>26 DEF vars, historyVars
    <3> QED
      BY <3>1, SeesAllKept DEF Held
  <2> QED
    BY <2>1, <2>2, <2>3, <2>4, <2>5, <2>6, <2>7, <2>8, <2>9, <2>10, <2>11,
      <2>12, <2>13, <2>14, <2>15, <2>16, <2>17, <2>18, <2>19, <2>20, <2>21,
      <2>22, <2>23, <2>24, <2>25, <2>26 DEF Next, WorkerNext, CallerNext
<1> QED
  BY <1>1, <1>2, ShapeInvariant, HandsInvariant, PhasesInvariant, JobsAccountedFor, PTL
     DEF Spec

-----------------------------------------------------------------------------
\* Not all threads sleep while the semaphore's flag is raised.
LEMMA FlagIsSeenInvariant ==
  ASSUME Workers # {}
  PROVE  Spec => []FlagIsSeen
<1>1. Init => FlagIsSeen
  BY DEF Init, FlagIsSeen
<1>2. Shape /\ Phases /\ FlagIsSeen /\ [Next]_vars => FlagIsSeen'
  <2> SUFFICES ASSUME Shape, Phases, FlagIsSeen, [Next]_vars
               PROVE  FlagIsSeen'
    OBVIOUS
  <2>0. pc \in [Workers -> WorkerPC]
    BY DEF Shape
  <2>1. ASSUME NEW w \in Workers, Starts(w) PROVE FlagIsSeen'
    <3>1. pc'[w] \notin {"asleep", "dead"}
      BY <2>1, <2>0 DEF Starts, Step, Goto
    <3> QED
      BY <3>1 DEF FlagIsSeen, Awake
  <2>2. ASSUME NEW w \in Workers, Loops(w) PROVE FlagIsSeen'
    <3>1. pc'[w] \notin {"asleep", "dead"}
      BY <2>2, <2>0 DEF Loops, Step, Goto
    <3> QED
      BY <3>1 DEF FlagIsSeen, Awake
  <2>3. ASSUME NEW w \in Workers, TakesFlag(w) PROVE FlagIsSeen'
    <3>1. pc'[w] \notin {"asleep", "dead"}
      BY <2>3, <2>0 DEF TakesFlag, Step, Goto
    <3> QED
      BY <3>1 DEF FlagIsSeen, Awake
  <2>4. ASSUME NEW w \in Workers, FallsAsleep(w) PROVE FlagIsSeen'
    BY <2>4 DEF FallsAsleep, queueVars, FlagIsSeen
  <2>5. ASSUME NEW w \in Workers, TestsKeepalive(w) PROVE FlagIsSeen'
    <3>1. pc'[w] \notin {"asleep", "dead"}
      BY <2>5, <2>0 DEF TestsKeepalive, Step, Goto
    <3> QED
      BY <3>1 DEF FlagIsSeen, Awake
  <2>6. ASSUME NEW w \in Workers, BeginsWork(w) PROVE FlagIsSeen'
    <3>1. pc'[w] \notin {"asleep", "dead"}
      BY <2>6, <2>0 DEF BeginsWork, Step, Goto
    <3> QED
      BY <3>1 DEF FlagIsSeen, Awake
  <2>7. ASSUME NEW w \in Workers, PullsLast(w) PROVE FlagIsSeen'
    <3>1. pc'[w] \notin {"asleep", "dead"}
      BY <2>7, <2>0 DEF PullsLast, Step, Goto
    <3> QED
      BY <3>1 DEF FlagIsSeen, Awake
  <2>8. ASSUME NEW w \in Workers, PullsFirst(w) PROVE FlagIsSeen'
    <3>1. pc'[w] \notin {"asleep", "dead"}
      BY <2>8, <2>0 DEF PullsFirst, Step, Goto
    <3> QED
      BY <3>1 DEF FlagIsSeen, Awake
  <2>9. ASSUME NEW w \in Workers, PostsRest(w) PROVE FlagIsSeen'
    <3>1. pc'[w] = "run"
      BY <2>9, PostByWakes DEF PostsRest
    <3> QED
      BY <3>1 DEF FlagIsSeen, Awake
  <2>10. ASSUME NEW w \in Workers, Executes(w) PROVE FlagIsSeen'
    <3>1. pc'[w] \notin {"asleep", "dead"}
      BY <2>10, <2>0 DEF Executes, Step, Goto
    <3> QED
      BY <3>1 DEF FlagIsSeen, Awake
  <2>11. ASSUME NEW w \in Workers, EndsWork(w) PROVE FlagIsSeen'
    <3>1. pc'[w] \notin {"asleep", "dead"}
      BY <2>11, <2>0 DEF EndsWork, Step, Goto
    <3> QED
      BY <3>1 DEF FlagIsSeen, Awake
  <2>12. ASSUME NEW w \in Workers, Exits(w) PROVE FlagIsSeen'
    <3>1. pc'[w] \notin {"asleep", "dead"}
      BY <2>12, <2>0 DEF Exits, Step, Goto
    <3> QED
      BY <3>1 DEF FlagIsSeen, Awake
  <2>13. ASSUME NEW w \in Workers, Unlocks(w) PROVE FlagIsSeen'
    BY <2>13 DEF Unlocks, Step, Phases, FlagIsSeen
  <2>14. ASSUME InitReturns PROVE FlagIsSeen'
    BY <2>14 DEF InitReturns, queueVars, FlagIsSeen, Awake
  <2>15. ASSUME NEW c \in Callers, NEW j \in Jobs, AddWork(c, j) PROVE FlagIsSeen'
    BY <2>15 DEF AddWork, FlagIsSeen, Awake
  <2>16. ASSUME NEW c \in Callers, PostsWork(c) PROVE FlagIsSeen'
    <3>1. CASE Asleep # {}
      BY <2>16, <3>1, PostWakes DEF PostsWork, FlagIsSeen, Awake
    <3>2. CASE Asleep = {}
      <4>1. threads_keepalive => \A w \in Workers : Awake(w)
        BY <3>2 DEF Asleep, Awake, Phases
      <4>2. SleepersWake(Workers) /\ UNCHANGED threads_keepalive
        BY <2>16, PostWakes DEF PostsWork
      <4> QED
        BY <4>1, <4>2 DEF SleepersWake, FlagIsSeen, Awake
    <3> QED
      BY <3>1, <3>2
  <2>17. ASSUME NEW c \in Callers, Wait(c) PROVE FlagIsSeen'
    BY <2>17 DEF Wait, queueVars, FlagIsSeen, Awake
  <2>18. ASSUME NEW c \in Callers, SeesJobs(c) PROVE FlagIsSeen'
    BY <2>18 DEF SeesJobs, queueVars, FlagIsSeen, Awake
  <2>19. ASSUME NEW c \in Callers, SeesNoJobs(c) PROVE FlagIsSeen'
    BY <2>19 DEF SeesNoJobs, queueVars, FlagIsSeen, Awake
  <2>20. ASSUME NEW c \in Callers, SeesWork(c) PROVE FlagIsSeen'
    BY <2>20 DEF SeesWork, queueVars, FlagIsSeen, Awake
  <2>21. ASSUME NEW c \in Callers, WaitReturns(c) PROVE FlagIsSeen'
    BY <2>21 DEF WaitReturns, queueVars, FlagIsSeen, Awake
  <2>22. ASSUME NEW c \in Callers, Destroy(c) PROVE FlagIsSeen'
    BY <2>22 DEF Destroy, queueVars, FlagIsSeen, Awake
  <2>23. ASSUME NEW c \in Callers, DestroyPosts(c) PROVE FlagIsSeen'
    BY <2>23 DEF DestroyPosts, CallStep, Phases, FlagIsSeen
  <2>24. ASSUME NEW c \in Callers, DestroyFrees(c) PROVE FlagIsSeen'
    BY <2>24 DEF DestroyFrees, CallStep, Phases, FlagIsSeen
  <2>25. ASSUME SpuriousWakeup PROVE FlagIsSeen'
    <3>1. CASE UNCHANGED pc
      BY <2>25, <3>1 DEF SpuriousWakeup, queueVars, FlagIsSeen, Awake
    <3>2. CASE \E w \in Asleep : Goto(w, "wait")
      BY <3>2, <2>0 DEF Asleep, Goto, FlagIsSeen, Awake
    <3> QED
      BY <2>25, <3>1, <3>2 DEF SpuriousWakeup
  <2>26. CASE UNCHANGED vars
    BY <2>26 DEF vars, queueVars, FlagIsSeen, Awake
  <2> QED
    BY <2>1, <2>2, <2>3, <2>4, <2>5, <2>6, <2>7, <2>8, <2>9, <2>10, <2>11,
      <2>12, <2>13, <2>14, <2>15, <2>16, <2>17, <2>18, <2>19, <2>20, <2>21,
      <2>22, <2>23, <2>24, <2>25, <2>26 DEF Next, WorkerNext, CallerNext
<1> QED
  BY <1>1, <1>2, ShapeInvariant, PhasesInvariant, PTL DEF Spec

\* While jobs are queued the flag is raised, or somebody who will raise it or pull
\* is under way.
LEMMA QueueIsCoveredInvariant == Spec => []QueueIsCovered
<1>1. Init => QueueIsCovered
  BY DEF Init, QueueIsCovered
<1>2. Shape /\ Phases /\ QueueIsCovered /\ [Next]_vars => QueueIsCovered'
  <2> SUFFICES ASSUME Shape, Phases, QueueIsCovered, [Next]_vars
               PROVE  QueueIsCovered'
    OBVIOUS
  <2>0. pc \in [Workers -> WorkerPC]
    BY DEF Shape
  <2>1. ASSUME NEW w \in Workers, Starts(w) PROVE QueueIsCovered'
    <3>1. UNCHANGED <<threads_keepalive, jobqueue, rwmutex>>
      BY <2>1 DEF Starts, Step, queueVars
    <3>2. has_jobs = 1 => has_jobs' = 1
      BY <2>1 DEF Starts, queueVars
    <3>3. \A u \in Workers : Coming(u) => Coming(u)'
      BY <2>1, <2>0 DEF Starts, Step, Goto, Coming
    <3> QED
      BY <3>1, <3>2, <3>3 DEF QueueIsCovered
  <2>2. ASSUME NEW w \in Workers, Loops(w) PROVE QueueIsCovered'
    <3>1. UNCHANGED <<threads_keepalive, jobqueue, rwmutex>>
      BY <2>2 DEF Loops, Step, queueVars
    <3>2. has_jobs = 1 => has_jobs' = 1
      BY <2>2 DEF Loops, queueVars
    <3>3. \A u \in Workers : Coming(u) => Coming(u)'
      BY <2>2, <2>0 DEF Loops, Step, Goto, Coming
    <3> QED
      BY <3>1, <3>2, <3>3 DEF QueueIsCovered
  <2>3. ASSUME NEW w \in Workers, TakesFlag(w) PROVE QueueIsCovered'
    <3>1. pc'[w] = "woken"
      BY <2>3, <2>0 DEF TakesFlag, Step, Goto
    <3> QED
      BY <3>1 DEF QueueIsCovered, Coming
  <2>4. ASSUME NEW w \in Workers, FallsAsleep(w) PROVE QueueIsCovered'
    <3>1. UNCHANGED <<threads_keepalive, jobqueue, rwmutex>>
      BY <2>4 DEF FallsAsleep, Step, queueVars
    <3>2. has_jobs = 1 => has_jobs' = 1
      BY <2>4 DEF FallsAsleep, queueVars
    <3>3. \A u \in Workers : Coming(u) => Coming(u)'
      BY <2>4, <2>0 DEF FallsAsleep, Step, Goto, Coming
    <3> QED
      BY <3>1, <3>2, <3>3 DEF QueueIsCovered
  <2>5. ASSUME NEW w \in Workers, TestsKeepalive(w) PROVE QueueIsCovered'
    <3>1. threads_keepalive' => threads_keepalive /\ pc'[w] = "inc"
      BY <2>5, <2>0 DEF TestsKeepalive, Step, Goto
    <3> QED
      BY <3>1 DEF QueueIsCovered, Coming
  <2>6. ASSUME NEW w \in Workers, BeginsWork(w) PROVE QueueIsCovered'
    <3>1. pc'[w] = "pull"
      BY <2>6, <2>0 DEF BeginsWork, Step, Goto
    <3> QED
      BY <3>1 DEF QueueIsCovered, Coming
  <2>7. ASSUME NEW w \in Workers, PullsLast(w) PROVE QueueIsCovered'
    BY <2>7 DEF PullsLast, QueueIsCovered
  <2>8. ASSUME NEW w \in Workers, PullsFirst(w) PROVE QueueIsCovered'
    BY <2>8, PoolAssumption DEF PoolAssumption, PullsFirst, QueueIsCovered
  <2>9. ASSUME NEW w \in Workers, PostsRest(w) PROVE QueueIsCovered'
    BY <2>9, PostByWakes DEF PostsRest, QueueIsCovered
  <2>10. ASSUME NEW w \in Workers, Executes(w) PROVE QueueIsCovered'
    <3>1. UNCHANGED <<threads_keepalive, jobqueue, rwmutex>>
      BY <2>10 DEF Executes, Step, queueVars
    <3>2. has_jobs = 1 => has_jobs' = 1
      BY <2>10 DEF Executes, queueVars
    <3>3. \A u \in Workers : Coming(u) => Coming(u)'
      BY <2>10, <2>0 DEF Executes, Step, Goto, Coming
    <3> QED
      BY <3>1, <3>2, <3>3 DEF QueueIsCovered
  <2>11. ASSUME NEW w \in Workers, EndsWork(w) PROVE QueueIsCovered'
    <3>1. UNCHANGED <<threads_keepalive, jobqueue, rwmutex>>
      BY <2>11 DEF EndsWork, Step, queueVars
    <3>2. has_jobs = 1 => has_jobs' = 1
      BY <2>11 DEF EndsWork, queueVars
    <3>3. \A u \in Workers : Coming(u) => Coming(u)'
      BY <2>11, <2>0 DEF EndsWork, Step, Goto, Coming
    <3> QED
      BY <3>1, <3>2, <3>3 DEF QueueIsCovered
  <2>12. ASSUME NEW w \in Workers, Exits(w) PROVE QueueIsCovered'
    <3>1. UNCHANGED <<threads_keepalive, jobqueue, rwmutex>>
      BY <2>12 DEF Exits, Step, queueVars
    <3>2. has_jobs = 1 => has_jobs' = 1
      BY <2>12 DEF Exits, queueVars
    <3>3. \A u \in Workers : Coming(u) => Coming(u)'
      BY <2>12, <2>0 DEF Exits, Step, Goto, Coming
    <3> QED
      BY <3>1, <3>2, <3>3 DEF QueueIsCovered
  <2>13. ASSUME NEW w \in Workers, Unlocks(w) PROVE QueueIsCovered'
    <3>1. UNCHANGED <<threads_keepalive, jobqueue, rwmutex>>
      BY <2>13 DEF Unlocks, Step, queueVars
    <3>2. has_jobs = 1 => has_jobs' = 1
      BY <2>13 DEF Unlocks, queueVars
    <3>3. \A u \in Workers : Coming(u) => Coming(u)'
      BY <2>13, <2>0 DEF Unlocks, Step, Goto, Coming
    <3> QED
      BY <3>1, <3>2, <3>3 DEF QueueIsCovered
  <2>14. ASSUME InitReturns PROVE QueueIsCovered'
    BY <2>14 DEF InitReturns, queueVars, QueueIsCovered, Coming
  <2>15. ASSUME NEW c \in Callers, NEW j \in Jobs, AddWork(c, j) PROVE QueueIsCovered'
    BY <2>15, PoolAssumption DEF PoolAssumption, AddWork, QueueIsCovered
  <2>16. ASSUME NEW c \in Callers, PostsWork(c) PROVE QueueIsCovered'
    BY <2>16, PostWakes DEF PostsWork, QueueIsCovered
  <2>17. ASSUME NEW c \in Callers, Wait(c) PROVE QueueIsCovered'
    BY <2>17 DEF Wait, queueVars, QueueIsCovered, Coming
  <2>18. ASSUME NEW c \in Callers, SeesJobs(c) PROVE QueueIsCovered'
    BY <2>18 DEF SeesJobs, queueVars, QueueIsCovered, Coming
  <2>19. ASSUME NEW c \in Callers, SeesNoJobs(c) PROVE QueueIsCovered'
    BY <2>19 DEF SeesNoJobs, queueVars, QueueIsCovered, Coming
  <2>20. ASSUME NEW c \in Callers, SeesWork(c) PROVE QueueIsCovered'
    BY <2>20 DEF SeesWork, queueVars, QueueIsCovered, Coming
  <2>21. ASSUME NEW c \in Callers, WaitReturns(c) PROVE QueueIsCovered'
    BY <2>21 DEF WaitReturns, queueVars, QueueIsCovered, Coming
  <2>22. ASSUME NEW c \in Callers, Destroy(c) PROVE QueueIsCovered'
    BY <2>22 DEF Destroy, QueueIsCovered
  <2>23. ASSUME NEW c \in Callers, DestroyPosts(c) PROVE QueueIsCovered'
    BY <2>23 DEF DestroyPosts, CallStep, Phases, QueueIsCovered
  <2>24. ASSUME NEW c \in Callers, DestroyFrees(c) PROVE QueueIsCovered'
    BY <2>24 DEF DestroyFrees, CallStep, Phases, QueueIsCovered
  <2>25. ASSUME SpuriousWakeup PROVE QueueIsCovered'
    <3>1. UNCHANGED <<threads_keepalive, jobqueue, rwmutex, has_jobs>>
      BY <2>25 DEF SpuriousWakeup, queueVars
    <3>2. \A u \in Workers : Coming(u) => Coming(u)'
      BY <2>25, <2>0 DEF SpuriousWakeup, Asleep, Goto, Coming
    <3> QED
      BY <3>1, <3>2 DEF QueueIsCovered
  <2>26. CASE UNCHANGED vars
    BY <2>26 DEF vars, queueVars, QueueIsCovered, Coming
  <2> QED
    BY <2>1, <2>2, <2>3, <2>4, <2>5, <2>6, <2>7, <2>8, <2>9, <2>10, <2>11,
      <2>12, <2>13, <2>14, <2>15, <2>16, <2>17, <2>18, <2>19, <2>20, <2>21,
      <2>22, <2>23, <2>24, <2>25, <2>26 DEF Next, WorkerNext, CallerNext
<1> QED
  BY <1>1, <1>2, ShapeInvariant, PhasesInvariant, PTL DEF Spec

-----------------------------------------------------------------------------
(* The theorems.                                                           *)

\* The two counters stay within the number of threads the pool has, however
\* the threads start, work and exit: num_threads_alive counts threads that are
\* not done, num_threads_working some of them.
THEOREM TypeCorrect == Spec => []TypeOK
<1>1. Shape /\ Hands /\ Counts => TypeOK
  <2> SUFFICES ASSUME Shape, Hands, Counts PROVE TypeOK
    OBVIOUS
  <2>1. AtWork \subseteq Workers /\ Alive \subseteq Workers
    BY DEF AtWork, Alive
  <2>2. /\ Cardinality(AtWork) \in Nat /\ Cardinality(AtWork) <= Cardinality(Workers)
        /\ Cardinality(Alive) \in Nat /\ Cardinality(Alive) <= Cardinality(Workers)
        /\ Cardinality(Workers) \in Nat
    BY <2>1, PoolAssumption, FS_Subset, FS_CardinalityType DEF PoolAssumption
  <2>3. /\ num_threads_working \in 0..Cardinality(Workers)
        /\ num_threads_alive \in 0..Cardinality(Workers)
    BY <2>2 DEF Counts
  <2> QED
    BY <2>3 DEF Shape, Hands, TypeOK
<1> QED
  BY <1>1, ShapeInvariant, HandsInvariant, CountsInvariant, PTL

\* thpool_wait() returns only after all that was added before it, although it
\* tests the queue's length and then the count of working threads: what left
\* the queue meanwhile is in the hands of a thread that was counted first.
THEOREM WaitCorrect == Spec => []WaitReturnsAfterWork
<1>1. Shape /\ Hands /\ Counts /\ WaitSeesAll => WaitReturnsAfterWork
  <2> SUFFICES ASSUME Shape, Hands, Counts, WaitSeesAll,
                      NEW c \in Callers, call[c] = "working", num_threads_working = 0
               PROVE  before[c] \subseteq executed
    BY DEF WaitReturnsAfterWork
  <2>1. IsFiniteSet(AtWork)
    <3>1. AtWork \subseteq Workers
      BY DEF AtWork
    <3> QED
      BY <3>1, PoolAssumption, FS_Subset DEF PoolAssumption
  <2>2. AtWork = {}
    BY <2>1, FS_EmptySet DEF Counts
  <2>3. Held = {}
    BY <2>2 DEF AtWork, Held, Hands
  <2> QED
    BY <2>3 DEF WaitSeesAll
<1> QED
  BY <1>1, ShapeInvariant, HandsInvariant, CountsInvariant, WaitSeesAllInvariant, PTL

\* The binary semaphore loses no wakeup that matters, although it holds one
\* flag for any number of jobs and a signal may find nobody asleep.
THEOREM WakeupsKept ==
  ASSUME Workers # {}
  PROVE  Spec => []NoLostWakeup
<1>1. FlagIsSeen /\ QueueIsCovered => NoLostWakeup
  BY DEF FlagIsSeen, QueueIsCovered, NoLostWakeup
<1> QED
  BY <1>1, FlagIsSeenInvariant, QueueIsCoveredInvariant, PTL

-----------------------------------------------------------------------------
\* thpool_destroy() frees the pool when it reads num_threads_alive = 0, which is
\* after every thread has written it for the last time, and no thread comes
\* alive again.
THEOREM DestroyCorrect == Spec => []DestroyOutlivesWork
<1>1. Init => DestroyOutlivesWork
  BY DEF Init, DestroyOutlivesWork
<1>2. Shape /\ Counts /\ Phases /\ DestroyOutlivesWork /\ [Next]_vars
        => DestroyOutlivesWork'
  <2> SUFFICES ASSUME Shape, Counts, Phases, DestroyOutlivesWork, [Next]_vars
               PROVE  DestroyOutlivesWork'
    OBVIOUS
  <2>0. pc \in [Workers -> WorkerPC]
    BY DEF Shape
  <2>1. ASSUME NEW w \in Workers, Starts(w) PROVE DestroyOutlivesWork'
    BY <2>1, <2>0 DEF Starts, Step, Goto, DestroyOutlivesWork
  <2>2. ASSUME NEW w \in Workers, Loops(w) PROVE DestroyOutlivesWork'
    BY <2>2, <2>0 DEF Loops, Step, Goto, DestroyOutlivesWork
  <2>3. ASSUME NEW w \in Workers, TakesFlag(w) PROVE DestroyOutlivesWork'
    BY <2>3, <2>0 DEF TakesFlag, Step, Goto, DestroyOutlivesWork
  <2>4. ASSUME NEW w \in Workers, FallsAsleep(w) PROVE DestroyOutlivesWork'
    BY <2>4, <2>0 DEF FallsAsleep, Step, Goto, DestroyOutlivesWork
  <2>5. ASSUME NEW w \in Workers, TestsKeepalive(w) PROVE DestroyOutlivesWork'
    BY <2>5, <2>0 DEF TestsKeepalive, Step, Goto, DestroyOutlivesWork
  <2>6. ASSUME NEW w \in Workers, BeginsWork(w) PROVE DestroyOutlivesWork'
    BY <2>6, <2>0 DEF BeginsWork, Step, Goto, DestroyOutlivesWork
  <2>7. ASSUME NEW w \in Workers, PullsLast(w) PROVE DestroyOutlivesWork'
    BY <2>7, <2>0 DEF PullsLast, Step, Goto, DestroyOutlivesWork
  <2>8. ASSUME NEW w \in Workers, PullsFirst(w) PROVE DestroyOutlivesWork'
    BY <2>8, <2>0 DEF PullsFirst, Step, Goto, DestroyOutlivesWork
  <2>9. ASSUME NEW w \in Workers, PostsRest(w) PROVE DestroyOutlivesWork'
    BY <2>9 DEF PostsRest, Step, DestroyOutlivesWork
  <2>10. ASSUME NEW w \in Workers, Executes(w) PROVE DestroyOutlivesWork'
    BY <2>10, <2>0 DEF Executes, Step, Goto, DestroyOutlivesWork
  <2>11. ASSUME NEW w \in Workers, EndsWork(w) PROVE DestroyOutlivesWork'
    BY <2>11, <2>0 DEF EndsWork, Step, Goto, DestroyOutlivesWork
  <2>12. ASSUME NEW w \in Workers, Exits(w) PROVE DestroyOutlivesWork'
    BY <2>12, <2>0 DEF Exits, Step, Goto, DestroyOutlivesWork
  <2>13. ASSUME NEW w \in Workers, Unlocks(w) PROVE DestroyOutlivesWork'
    BY <2>13, <2>0 DEF Unlocks, Step, Goto, DestroyOutlivesWork
  <2>14. ASSUME InitReturns PROVE DestroyOutlivesWork'
    BY <2>14 DEF InitReturns, DestroyOutlivesWork
  <2>15. ASSUME NEW c \in Callers, NEW j \in Jobs, AddWork(c, j) PROVE DestroyOutlivesWork'
    BY <2>15 DEF AddWork, DestroyOutlivesWork
  <2>16. ASSUME NEW c \in Callers, PostsWork(c) PROVE DestroyOutlivesWork'
    BY <2>16, PostWakes DEF PostsWork, SleepersWake, DestroyOutlivesWork
  <2>17. ASSUME NEW c \in Callers, Wait(c) PROVE DestroyOutlivesWork'
    BY <2>17 DEF Wait, DestroyOutlivesWork
  <2>18. ASSUME NEW c \in Callers, SeesJobs(c) PROVE DestroyOutlivesWork'
    BY <2>18 DEF SeesJobs, DestroyOutlivesWork
  <2>19. ASSUME NEW c \in Callers, SeesNoJobs(c) PROVE DestroyOutlivesWork'
    BY <2>19 DEF SeesNoJobs, DestroyOutlivesWork
  <2>20. ASSUME NEW c \in Callers, SeesWork(c) PROVE DestroyOutlivesWork'
    BY <2>20 DEF SeesWork, DestroyOutlivesWork
  <2>21. ASSUME NEW c \in Callers, WaitReturns(c) PROVE DestroyOutlivesWork'
    BY <2>21 DEF WaitReturns, DestroyOutlivesWork
  <2>22. ASSUME NEW c \in Callers, Destroy(c) PROVE DestroyOutlivesWork'
    BY <2>22 DEF Destroy, DestroyOutlivesWork
  <2>23. ASSUME NEW c \in Callers, DestroyPosts(c) PROVE DestroyOutlivesWork'
    BY <2>23, PostAllWakes DEF DestroyPosts, SleepersWake, DestroyOutlivesWork
  <2>24. ASSUME NEW c \in Callers, DestroyFrees(c) PROVE DestroyOutlivesWork'
    <3>1. call[c] = "destroy" /\ num_threads_alive = 0 /\ UNCHANGED pc
      BY <2>24 DEF DestroyFrees, CallStep
    <3>2. Alive \subseteq Workers /\ IsFiniteSet(Alive)
      <4>1. Alive \subseteq Workers
        BY DEF Alive
      <4> QED
        BY <4>1, PoolAssumption, FS_Subset DEF PoolAssumption
    <3>3. Alive = {}
      BY <3>1, <3>2, FS_EmptySet DEF Counts
    <3>4. \A w \in Workers : pc[w] # "start"
      BY <3>1 DEF Phases
    <3> QED
      BY <3>1, <3>3, <3>4 DEF Alive, DestroyOutlivesWork
  <2>25. ASSUME SpuriousWakeup PROVE DestroyOutlivesWork'
    <3>1. CASE UNCHANGED pc
      BY <2>25, <3>1 DEF SpuriousWakeup, DestroyOutlivesWork
    <3>2. CASE \E w \in Asleep : Goto(w, "wait")
      BY <2>25, <3>2, <2>0 DEF SpuriousWakeup, Asleep, Goto, DestroyOutlivesWork
    <3> QED
      BY <2>25, <3>1, <3>2 DEF SpuriousWakeup
  <2>26. CASE UNCHANGED vars
    BY <2>26 DEF vars, DestroyOutlivesWork
  <2> QED
    BY <2>1, <2>2, <2>3, <2>4, <2>5, <2>6, <2>7, <2>8, <2>9, <2>10, <2>11,
      <2>12, <2>13, <2>14, <2>15, <2>16, <2>17, <2>18, <2>19, <2>20, <2>21,
      <2>22, <2>23, <2>24, <2>25, <2>26 DEF Next, WorkerNext, CallerNext
<1> QED
  BY <1>1, <1>2, ShapeInvariant, CountsInvariant, PhasesInvariant, PTL DEF Spec

-----------------------------------------------------------------------------
\* With all its locks, flags and counters the pool does what JobPool promises:
\* it starts the jobs in the order in which they were added, each on one idle
\* thread, and discards them only when no thread executes any.
THEOREM Refines == Spec => Implements
<1>1. Init => Promise!PoolInit
  BY DEF Init, Promise!PoolInit
<1>2. Shape /\ Hands /\ DestroyOutlivesWork' /\ [Next]_vars
        => [Promise!PoolNext]_(Promise!poolVars)
  <2> SUFFICES ASSUME Shape, Hands, DestroyOutlivesWork', [Next]_vars
               PROVE  [Promise!PoolNext]_(Promise!poolVars)
    OBVIOUS
  <2>0. job_p \in [Workers -> Jobs \cup {NoJob}]
    BY DEF Shape
  <2>1. ASSUME NEW w \in Workers, Starts(w) PROVE [Promise!PoolNext]_(Promise!poolVars)
    <3>1. UNCHANGED <<jobqueue, job_p>>
      BY <2>1 DEF Starts, Step, queueVars
    <3> QED
      BY <3>1 DEF Promise!poolVars
  <2>2. ASSUME NEW w \in Workers, Loops(w) PROVE [Promise!PoolNext]_(Promise!poolVars)
    <3>1. UNCHANGED <<jobqueue, job_p>>
      BY <2>2 DEF Loops, Step, queueVars
    <3> QED
      BY <3>1 DEF Promise!poolVars
  <2>3. ASSUME NEW w \in Workers, TakesFlag(w) PROVE [Promise!PoolNext]_(Promise!poolVars)
    <3>1. UNCHANGED <<jobqueue, job_p>>
      BY <2>3 DEF TakesFlag, Step
    <3> QED
      BY <3>1 DEF Promise!poolVars
  <2>4. ASSUME NEW w \in Workers, FallsAsleep(w) PROVE [Promise!PoolNext]_(Promise!poolVars)
    <3>1. UNCHANGED <<jobqueue, job_p>>
      BY <2>4 DEF FallsAsleep, Step, queueVars
    <3> QED
      BY <3>1 DEF Promise!poolVars
  <2>5. ASSUME NEW w \in Workers, TestsKeepalive(w) PROVE [Promise!PoolNext]_(Promise!poolVars)
    <3>1. UNCHANGED <<jobqueue, job_p>>
      BY <2>5 DEF TestsKeepalive, Step, queueVars
    <3> QED
      BY <3>1 DEF Promise!poolVars
  <2>6. ASSUME NEW w \in Workers, BeginsWork(w) PROVE [Promise!PoolNext]_(Promise!poolVars)
    <3>1. UNCHANGED <<jobqueue, job_p>>
      BY <2>6 DEF BeginsWork, Step, queueVars
    <3> QED
      BY <3>1 DEF Promise!poolVars
  <2>7. ASSUME NEW w \in Workers, PullsLast(w) PROVE [Promise!PoolNext]_(Promise!poolVars)
    <3>1. CASE jobqueue # <<>>
      <4>1. Promise!Take(w)
        BY <2>7, <3>1, Pulls DEF Promise!Take
      <4> QED
        BY <4>1 DEF Promise!PoolNext
    <3>2. CASE jobqueue = <<>>
      <4>1. UNCHANGED <<jobqueue, job_p>>
        BY <2>7, <3>2, <2>0 DEF PullsLast, Step, Hands
      <4> QED
        BY <4>1 DEF Promise!poolVars
    <3> QED
      BY <3>1, <3>2
  <2>8. ASSUME NEW w \in Workers, PullsFirst(w) PROVE [Promise!PoolNext]_(Promise!poolVars)
    <3>1. jobqueue # <<>>
      BY <2>8 DEF PullsFirst
    <3>2. Promise!Take(w)
      BY <2>8, <3>1, Pulls DEF Promise!Take
    <3> QED
      BY <3>2 DEF Promise!PoolNext
  <2>9. ASSUME NEW w \in Workers, PostsRest(w) PROVE [Promise!PoolNext]_(Promise!poolVars)
    <3>1. UNCHANGED <<jobqueue, job_p>>
      BY <2>9 DEF PostsRest, Step
    <3> QED
      BY <3>1 DEF Promise!poolVars
  <2>10. ASSUME NEW w \in Workers, Executes(w) PROVE [Promise!PoolNext]_(Promise!poolVars)
    <3>1. Promise!Complete(w)
      BY <2>10 DEF Executes, Step, queueVars, Hands, Promise!Complete
    <3> QED
      BY <3>1 DEF Promise!PoolNext
  <2>11. ASSUME NEW w \in Workers, EndsWork(w) PROVE [Promise!PoolNext]_(Promise!poolVars)
    <3>1. UNCHANGED <<jobqueue, job_p>>
      BY <2>11 DEF EndsWork, Step, queueVars
    <3> QED
      BY <3>1 DEF Promise!poolVars
  <2>12. ASSUME NEW w \in Workers, Exits(w) PROVE [Promise!PoolNext]_(Promise!poolVars)
    <3>1. UNCHANGED <<jobqueue, job_p>>
      BY <2>12 DEF Exits, Step, queueVars
    <3> QED
      BY <3>1 DEF Promise!poolVars
  <2>13. ASSUME NEW w \in Workers, Unlocks(w) PROVE [Promise!PoolNext]_(Promise!poolVars)
    <3>1. UNCHANGED <<jobqueue, job_p>>
      BY <2>13 DEF Unlocks, Step, queueVars
    <3> QED
      BY <3>1 DEF Promise!poolVars
  <2>14. ASSUME InitReturns PROVE [Promise!PoolNext]_(Promise!poolVars)
    <3>1. UNCHANGED <<jobqueue, job_p>>
      BY <2>14 DEF InitReturns, queueVars
    <3> QED
      BY <3>1 DEF Promise!poolVars
  <2>15. ASSUME NEW c \in Callers, NEW j \in Jobs, AddWork(c, j) PROVE [Promise!PoolNext]_(Promise!poolVars)
    <3>1. Promise!Submit(j)
      BY <2>15 DEF AddWork, CallStep, Promise!Submit
    <3> QED
      BY <3>1 DEF Promise!PoolNext
  <2>16. ASSUME NEW c \in Callers, PostsWork(c) PROVE [Promise!PoolNext]_(Promise!poolVars)
    <3>1. UNCHANGED <<jobqueue, job_p>>
      BY <2>16 DEF PostsWork, CallStep
    <3> QED
      BY <3>1 DEF Promise!poolVars
  <2>17. ASSUME NEW c \in Callers, Wait(c) PROVE [Promise!PoolNext]_(Promise!poolVars)
    <3>1. UNCHANGED <<jobqueue, job_p>>
      BY <2>17 DEF Wait, CallStep, queueVars
    <3> QED
      BY <3>1 DEF Promise!poolVars
  <2>18. ASSUME NEW c \in Callers, SeesJobs(c) PROVE [Promise!PoolNext]_(Promise!poolVars)
    <3>1. UNCHANGED <<jobqueue, job_p>>
      BY <2>18 DEF SeesJobs, CallStep, queueVars
    <3> QED
      BY <3>1 DEF Promise!poolVars
  <2>19. ASSUME NEW c \in Callers, SeesNoJobs(c) PROVE [Promise!PoolNext]_(Promise!poolVars)
    <3>1. UNCHANGED <<jobqueue, job_p>>
      BY <2>19 DEF SeesNoJobs, CallStep, queueVars
    <3> QED
      BY <3>1 DEF Promise!poolVars
  <2>20. ASSUME NEW c \in Callers, SeesWork(c) PROVE [Promise!PoolNext]_(Promise!poolVars)
    <3>1. UNCHANGED <<jobqueue, job_p>>
      BY <2>20 DEF SeesWork, CallStep, queueVars
    <3> QED
      BY <3>1 DEF Promise!poolVars
  <2>21. ASSUME NEW c \in Callers, WaitReturns(c) PROVE [Promise!PoolNext]_(Promise!poolVars)
    <3>1. UNCHANGED <<jobqueue, job_p>>
      BY <2>21 DEF WaitReturns, CallStep, queueVars
    <3> QED
      BY <3>1 DEF Promise!poolVars
  <2>22. ASSUME NEW c \in Callers, Destroy(c) PROVE [Promise!PoolNext]_(Promise!poolVars)
    <3>1. UNCHANGED <<jobqueue, job_p>>
      BY <2>22 DEF Destroy, CallStep, queueVars
    <3> QED
      BY <3>1 DEF Promise!poolVars
  <2>23. ASSUME NEW c \in Callers, DestroyPosts(c) PROVE [Promise!PoolNext]_(Promise!poolVars)
    <3>1. UNCHANGED <<jobqueue, job_p>>
      BY <2>23 DEF DestroyPosts, CallStep
    <3> QED
      BY <3>1 DEF Promise!poolVars
  <2>24. ASSUME NEW c \in Callers, DestroyFrees(c) PROVE [Promise!PoolNext]_(Promise!poolVars)
    <3>1. \A w \in Workers : pc'[w] \in {"unlock", "dead"} /\ UNCHANGED pc
      BY <2>24 DEF DestroyFrees, DestroyOutlivesWork
    <3>2. Promise!Discard
      BY <2>24, <3>1 DEF DestroyFrees, CallStep, Hands, Promise!Discard
    <3> QED
      BY <3>2 DEF Promise!PoolNext
  <2>25. ASSUME SpuriousWakeup PROVE [Promise!PoolNext]_(Promise!poolVars)
    <3>1. UNCHANGED <<jobqueue, job_p>>
      BY <2>25 DEF SpuriousWakeup, queueVars
    <3> QED
      BY <3>1 DEF Promise!poolVars
  <2>26. CASE UNCHANGED vars
    BY <2>26 DEF vars, queueVars, Promise!poolVars
  <2> QED
    BY <2>1, <2>2, <2>3, <2>4, <2>5, <2>6, <2>7, <2>8, <2>9, <2>10, <2>11,
      <2>12, <2>13, <2>14, <2>15, <2>16, <2>17, <2>18, <2>19, <2>20, <2>21,
      <2>22, <2>23, <2>24, <2>25, <2>26 DEF Next, WorkerNext, CallerNext
<1> QED
  BY <1>1, <1>2, ShapeInvariant, HandsInvariant, DestroyCorrect, PTL
     DEF Spec, Implements, Promise!PoolSpec

-----------------------------------------------------------------------------
(* Pauses.                                                                 *)

LEMMA PausedIsPool == PausedSpec => Spec
<1>1. PausedInit => Init
  BY DEF PausedInit
<1>2. [PausedNext]_allVars => [Next]_vars
  <2> SUFFICES ASSUME [PausedNext]_allVars PROVE [Next]_vars
    OBVIOUS
  <2>1. ASSUME NEW w \in Workers, Works(w) PROVE Next
    BY <2>1 DEF Works, Next
  <2>2. ASSUME NEW w \in Workers, Holds(w) \/ Continues(w) PROVE UNCHANGED vars
    BY <2>2 DEF Holds, Continues
  <2>3. ASSUME InitReturns \/ (\E c \in Callers : CallerNext(c)) \/ SpuriousWakeup
        PROVE  Next
    BY <2>3 DEF Next
  <2>4. Pause \/ Resume => UNCHANGED vars
    BY DEF Pause, Resume
  <2>5. UNCHANGED allVars => UNCHANGED vars
    BY DEF allVars
  <2> QED
    BY <2>1, <2>2, <2>3, <2>4, <2>5 DEF PausedNext
<1> QED
  BY <1>1, <1>2, PTL DEF PausedSpec, Spec

\* A pool whose threads are held and continued, inside and outside of its
\* critical sections, still executes each job at most once and in the order
\* in which they were added, lets no caller of thpool_wait() go on too early,
\* and is not freed under a thread that uses its queue.
THEOREM PausedCorrect ==
  PausedSpec => /\ []TypeOK /\ []EveryJobIsSomewhere /\ []WaitReturnsAfterWork
                /\ []DestroyOutlivesWork /\ Implements
BY PausedIsPool, TypeCorrect, JobsAccountedFor, WaitCorrect, DestroyCorrect, Refines, PTL
=============================================================================
