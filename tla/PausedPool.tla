----------------------------- MODULE PausedPool -----------------------------
(***************************************************************************)
(* thpool_pause() and thpool_resume(): the threads of ThreadPool are sent a*)
(* signal and stay in its handler, wherever it finds them, with the mutexes*)
(* they hold, until threads_on_hold is cleared.                            *)
(***************************************************************************)
EXTENDS ThreadPool

CONSTANT MaxPauses   \* bound on the calls of thpool_pause()

ASSUME PauseAssumption == MaxPauses \in Nat

VARIABLES
  threads_on_hold,
  handler,   \* of each thread: the signal is "pending", thread_hold() is "running",
             \* or it runs and the signal is pending "again"
  pauses     \* the calls of thpool_pause() so far

pauseVars == <<threads_on_hold, handler, pauses>>
allVars == <<vars, pauseVars>>

PausedInit ==
  /\ Init
  /\ threads_on_hold = FALSE
  /\ handler = [w \in Workers |-> "none"]
  /\ pauses = 0

\* thpool_pause(): a signal that is pending already stays one signal.
Signalled(h) ==
  CASE h \in {"none", "pending"} -> "pending" [] h \in {"running", "again"} -> "again"

Pause ==
  /\ \E c \in Callers : call[c] = "idle"
  /\ InUse
  /\ pauses < MaxPauses
  /\ pauses' = pauses + 1
  /\ handler' = [w \in Workers |-> Signalled(handler[w])]
  /\ UNCHANGED <<vars, threads_on_hold>>

\* thpool_resume(), by a thread of the program that is in no call of the pool.
Resume ==
  /\ threads_on_hold
  /\ threads_on_hold' = FALSE
  /\ UNCHANGED <<vars, handler, pauses>>

\* thread_hold() begins ...
Holds(w) ==
  /\ handler[w] = "pending" /\ pc[w] # "dead"
  /\ handler' = [handler EXCEPT ![w] = "running"]
  /\ threads_on_hold' = TRUE
  /\ UNCHANGED <<vars, pauses>>

\* ... and ends.
Continues(w) ==
  /\ handler[w] \in {"running", "again"}
  /\ ~threads_on_hold
  /\ handler' = [handler EXCEPT ![w] = IF @ = "again" THEN "pending" ELSE "none"]
  /\ UNCHANGED <<vars, threads_on_hold, pauses>>

\* What a thread does in thread_do() it does outside the handler.
Works(w) ==
  /\ handler[w] \in {"none", "pending"}
  /\ WorkerNext(w)
  /\ UNCHANGED pauseVars

PausedNext ==
  \/ \E w \in Workers : Works(w) \/ Holds(w) \/ Continues(w)
  \/ (InitReturns \/ (\E c \in Callers : CallerNext(c)) \/ SpuriousWakeup)
       /\ UNCHANGED pauseVars
  \/ Pause \/ Resume

PausedSpec == PausedInit /\ [][PausedNext]_allVars

\* Fairness of ThreadPool; and who pauses the pool resumes it, once more if a
\* thread has only begun to hold after the last thpool_resume().
PausedFairness ==
  /\ \A w \in Workers : WF_allVars(Works(w) \/ Holds(w) \/ Continues(w))
  /\ \A c \in Callers : WF_allVars(Proceeds(c) /\ UNCHANGED pauseVars)
  /\ WF_allVars(InitReturns /\ UNCHANGED pauseVars)
  /\ WF_allVars(Resume)

PausedFairSpec == PausedSpec /\ PausedFairness
=============================================================================
