------------------------------ MODULE JobPool ------------------------------
(***************************************************************************)
(* What src/food-sys/thpool.h promises the server: work that is added is   *)
(* queued, every queued job is handed to one idle thread of the pool, in   *)
(* the order in which it was added, and is executed once.  The state is    *)
(* the queue and what each thread executes; locks, semaphores and the      *)
(* counting of threads belong to the thread pool that implements this.     *)
(*                                                                         *)
(* FoodServer takes its thread pool from here.                             *)
(***************************************************************************)
EXTENDS Sequences

CONSTANTS
  Workers,   \* the threads of the pool
  Jobs,      \* what can be submitted
  Idle       \* the job of a thread that executes none, no member of Jobs

VARIABLES
  pending,   \* the jobs nobody has started, oldest first
  running    \* the job each thread executes

poolVars == <<pending, running>>

PoolTypeOK ==
  /\ pending \in Seq(Jobs)
  /\ running \in [Workers -> Jobs \cup {Idle}]

PoolInit ==
  /\ pending = <<>>
  /\ running = [w \in Workers |-> Idle]

\* thpool_add_work() returns: the job is in the queue.
Submit(j) ==
  /\ pending' = Append(pending, j)
  /\ UNCHANGED running

\* An idle thread pulls the oldest job.
Take(w) ==
  /\ running[w] = Idle
  /\ pending # <<>>
  /\ running' = [running EXCEPT ![w] = Head(pending)]
  /\ pending' = Tail(pending)

\* The job's function returns.
Complete(w) ==
  /\ running[w] # Idle
  /\ running' = [running EXCEPT ![w] = Idle]
  /\ UNCHANGED pending

\* The pool is destroyed: what nobody has started is not started any more.
Discard ==
  /\ \A w \in Workers : running[w] = Idle
  /\ pending' = <<>>
  /\ UNCHANGED running

PoolNext ==
  \/ Discard
  \/ \E j \in Jobs : Submit(j)
  \/ \E w \in Workers : Take(w) \/ Complete(w)

PoolSpec == PoolInit /\ [][PoolNext]_poolVars
=============================================================================
