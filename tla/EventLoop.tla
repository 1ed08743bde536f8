----------------------------- MODULE EventLoop -----------------------------
(***************************************************************************)
(* event.c: events and deferred callbacks, the queues an event base keeps  *)
(* them in, and the loop that waits for descriptors and timeouts and runs  *)
(* callbacks by priority.  One thread uses the base, and it has no signals.*)
(*                                                                         *)
(* The record base is the struct event_base with the structs of the events *)
(* and what the kernel watches for it; its operators follow the functions  *)
(* of the code, one each.  Times are relative to the present: Tick makes   *)
(* all of them smaller.                                                    *)
(***************************************************************************)
EXTENDS EvMap, MinHeap

CONSTANTS
  Deferreds,   \* the deferred callbacks
  Persist,     \* the events with EV_PERSIST
  Pri, NPri,   \* the priority of each event and callback, and how many there are
  Delays,      \* the timeouts each event may be added with
  MaxDeferreds,\* MAX_DEFERREDS_QUEUED
  Together,    \* the sequence of callbacks that are finalized together
  Activated,   \* the events the program calls event_active() for
  MaxLate,     \* bound: how late a timeout may be handled, or how old the cached time
  None         \* no callback, no time

Callbacks == Events \cup Deferreds
Timed == {e \in Events : Delays[e] # {}}

ASSUME EventAssumption ==
  /\ IsFiniteSet(Deferreds) /\ Events \cap Deferreds = {}
  /\ Persist \subseteq Events /\ Activated \subseteq Events
  /\ NPri \in Nat \ {0} /\ Pri \in [Callbacks -> 0..NPri - 1]
  /\ Delays \in [Events -> SUBSET Nat]
  /\ MaxDeferreds \in Nat /\ MaxLate \in Nat
  /\ Together \in Seq(Callbacks)
  /\ None \notin Callbacks /\ None \notin Int

VARIABLES
  base,       \* the event base
  loop,       \* where event_base_loop() is; "idle": it is not called
  current,    \* the callback that runs
  deadline,   \* when epoll_wait() times out; None: never
  ready,      \* what the kernel finds each descriptor ready for
  open,       \* the descriptors that are open
  asked,      \* history: what was added, activated or scheduled and not deleted since
  finalizer   \* history: of Together; "none", "pending", "run"

vars == <<base, loop, current, deadline, ready, open, asked, finalizer>>

Init ==
  /\ \E changelist \in BOOLEAN :
       base =
         [changelist |-> changelist,
          count |-> [f \in Fds |-> NoEvents],
          list |-> [f \in Fds |-> <<>>],
          changes |-> [f \in Fds |-> NoChange],
          epoll |-> [f \in Fds |-> {}],
          flags |-> [c \in Callbacks |-> {}],
          res |-> [c \in Callbacks |-> {}],
          timeout |-> [e \in Events |-> -MaxLate],
          io_timeout |-> [e \in Events |-> 0],
          timeheap |-> <<>>,
          activequeues |-> [i \in 0..NPri - 1 |-> <<>>],
          active_later |-> <<>>,
          event_count |-> 0,
          tv_cache |-> None,
          running_priority |-> -1,
          event_continue |-> FALSE,
          n_deferreds |-> 0]
  /\ loop = "idle" /\ current = None /\ deadline = None
  /\ ready = [f \in Fds |-> {}] /\ open = Fds
  /\ asked = {} /\ finalizer = "none"

Is(b, c, flag) == flag \in b.flags[c]
Pending(b, e) == Is(b, e, "INSERTED") \/ Is(b, e, "ACTIVE") \/ Is(b, e, "LATER")
Active(b) == {c \in Callbacks : Is(b, c, "ACTIVE") \/ Is(b, c, "LATER")}
Now(b) == IF b.tv_cache = None THEN 0 ELSE b.tv_cache

-----------------------------------------------------------------------------
(* The queues.  Every flag of every callback counts as an event.  Why an   *)
(* event is active, ev_res, matters only while it is.                      *)

Raise(b, c, flag) ==
  [b EXCEPT !.flags[c] = @ \cup {flag}, !.event_count = @ + 1]
Lower(b, c, flag) ==
  [b EXCEPT !.flags[c] = @ \ {flag}, !.event_count = @ - 1]

InsertActive(b, c) ==
  [Raise(b, c, "ACTIVE") EXCEPT !.activequeues[Pri[c]] = Append(@, c)]
RemoveActive(b, c) ==
  IF ~Is(b, c, "ACTIVE") THEN b
  ELSE [Lower(b, c, "ACTIVE") EXCEPT !.activequeues[Pri[c]] = RemoveFirst(@, c),
                                     !.res[c] = {}]
InsertLater(b, c) ==
  [Raise(b, c, "LATER") EXCEPT !.active_later = Append(@, c)]
RemoveLater(b, c) ==
  IF ~Is(b, c, "LATER") THEN b
  ELSE [Lower(b, c, "LATER") EXCEPT !.active_later = RemoveFirst(@, c)]
InsertTimeout(b, e, at) ==
  LET set == [Raise(b, e, "TIMEOUT") EXCEPT !.timeout[e] = at]
  IN [set EXCEPT !.timeheap = Push(@, e, set.timeout)]
RemoveTimeout(b, e) ==
  IF ~Is(b, e, "TIMEOUT") THEN b
  ELSE [Lower(b, e, "TIMEOUT") EXCEPT !.timeheap = Erase(@, e, b.timeout)]

\* Callbacks that were put off join the others.
MakeLaterActive(b) ==
  FoldLeft(LAMBDA r, c : [InsertActive(RemoveLater(r, c), c) EXCEPT
                            !.n_deferreds = IF c \in Deferreds THEN @ + 1 ELSE @],
           b, b.active_later)

-----------------------------------------------------------------------------
(* Adding, deleting and activating.                                        *)

\* What event_add() watches the descriptor for: nothing new while the event is
\* pending, and nothing either while it waits for its callback.
AddIo(b, e) ==
  IF What[e] = {} \/ Pending(b, e) THEN b
  ELSE Raise(EvmapIoAdd(b, e), e, "INSERTED")

\* A timeout that is given replaces the last one, also one that has passed and
\* has not been handled.
AddTimeout(b, e, at) ==
  LET removed == RemoveTimeout(b, e)
      quiet == IF "TIMEOUT" \in b.res[e] THEN RemoveActive(removed, e) ELSE removed
  IN InsertTimeout(quiet, e, at)

\* event_add(); tv is None or an interval.
EventAdd(b, e, tv) ==
  IF Is(b, e, "FINALIZING") THEN b
  ELSE IF tv = None THEN AddIo(b, e)
  ELSE LET added == AddIo(b, e)
           remembers == IF e \in Persist THEN [added EXCEPT !.io_timeout[e] = tv]
                        ELSE added
       IN AddTimeout(remembers, e, Now(b) + tv)

\* Mutant: a callback that is active already is run once more.
DelLeavesActive(b, c) ==
  IF Is(b, c, "FINALIZING") THEN b
  ELSE IF c \in Deferreds THEN RemoveLater(b, c)
  ELSE LET quiet == RemoveTimeout(b, c)
       IN IF Is(b, c, "INSERTED") THEN EvmapIoDel(Lower(quiet, c, "INSERTED"), c)
          ELSE quiet

\* event_del(), event_callback_cancel_(): off all queues.
EventDel(b, c) ==
  IF Is(b, c, "FINALIZING") THEN b
  ELSE IF c \in Deferreds THEN RemoveActive(RemoveLater(b, c), c)
  ELSE LET quiet == RemoveActive(RemoveTimeout(b, c), c)
       IN IF Is(b, c, "INSERTED") THEN EvmapIoDel(Lower(quiet, c, "INSERTED"), c)
          ELSE quiet

\* event_callback_activate_nolock_().
CallbackActivate(b, c) ==
  IF Is(b, c, "FINALIZING") \/ Is(b, c, "ACTIVE") THEN b
  ELSE InsertActive(RemoveLater(b, c), c)

\* Mutant: the loop is not told of an event that goes before the running one.
EventActiveQuietly(b, e, res) ==
  IF Is(b, e, "FINALIZING") THEN b
  ELSE IF Is(b, e, "ACTIVE") THEN [b EXCEPT !.res[e] = @ \cup res]
  ELSE CallbackActivate([b EXCEPT !.res[e] = res], e)

\* event_active_nolock_().
EventActive(b, e, res) ==
  IF Is(b, e, "FINALIZING") THEN b
  ELSE IF Is(b, e, "ACTIVE") THEN [b EXCEPT !.res[e] = @ \cup res]
  ELSE CallbackActivate(
         [b EXCEPT !.res[e] = res,
                   !.event_continue = @ \/ Pri[e] < b.running_priority], e)

\* Mutant: deferred callbacks never wait for the next turn.
ScheduleAtOnce(b, d) == CallbackActivate(b, d)

\* event_deferred_cb_schedule_(): put off to the next turn when this one has
\* seen too many.
DeferredSchedule(b, d) ==
  IF b.n_deferreds > MaxDeferreds
  THEN IF d \in Active(b) THEN b ELSE InsertLater(b, d)
  ELSE LET scheduled == CallbackActivate(b, d)
       IN IF d \in Active(b) THEN scheduled
          ELSE [scheduled EXCEPT !.n_deferreds = @ + 1]

\* event_callback_finalize_nolock_().
CallbackFinalize(b, c) ==
  LET deleted == EventDel(b, c)
  IN [CallbackActivate(deleted, c) EXCEPT !.flags[c] = @ \cup {"FINALIZING"}]

\* Mutant: only one of the callbacks is cancelled.
FinalizeOne(b, running) ==
  CallbackFinalize(b, IF running \in ToSet(Together) THEN running ELSE Together[1])

\* event_callback_finalize_many_(): all of them are cancelled, and one runs the
\* finalizer: the running one, or the first.
FinalizeMany(b, running) ==
  LET cancelled == FoldLeft(LAMBDA r, c : IF c = running THEN r ELSE EventDel(r, c),
                            b, Together)
  IN CallbackFinalize(cancelled,
       IF running \in ToSet(Together) THEN running ELSE Together[1])

-----------------------------------------------------------------------------
(* What the program does before it calls the loop, and in callbacks.       *)

InProgram == loop \in {"idle", "callback"}

\* After event_callback_finalize_many_() the program leaves its callbacks alone.
Usable(c) == finalizer = "none" \/ c \notin ToSet(Together)

Call(b) ==
  /\ InProgram
  /\ base' = b
  /\ UNCHANGED <<loop, current, deadline, ready>>

Add(e) ==
  /\ Usable(e) /\ (What[e] # {} => Fd[e] \in open)
  /\ \E tv \in Delays[e] \cup {None} :
       /\ What[e] = {} => tv # None
       /\ Call(EventAdd(base, e, tv))
  /\ asked' = asked \cup {e}
  /\ UNCHANGED <<open, finalizer>>

Del(c) ==
  /\ Usable(c) /\ c \in asked
  /\ Call(EventDel(base, c))
  /\ asked' = asked \ {c}
  /\ UNCHANGED <<open, finalizer>>

RemoveTimer(e) ==
  /\ Usable(e) /\ Is(base, e, "TIMEOUT")
  /\ Call([RemoveTimeout(base, e) EXCEPT !.io_timeout[e] = 0])
  /\ UNCHANGED <<open, asked, finalizer>>

\* No callback activates its own event: it would keep the loop from waiting.
Activate(e) ==
  /\ Usable(e) /\ e \in Activated /\ e # current
  /\ Call(EventActive(base, e, {"WRITE"}))
  /\ asked' = asked \cup {e}
  /\ UNCHANGED <<open, finalizer>>

Schedule(d) ==
  /\ Usable(d)
  /\ Call(DeferredSchedule(base, d))
  /\ asked' = asked \cup {d}
  /\ UNCHANGED <<open, finalizer>>

Finalize ==
  /\ finalizer = "none" /\ Together # <<>>
  /\ Call(FinalizeMany(base, current))
  /\ finalizer' = "pending"
  /\ asked' = asked \ ToSet(Together)
  /\ UNCHANGED open

\* A descriptor is closed when its events are deleted, or were never added.
Close(fd) ==
  /\ fd \in open /\ \A e \in asked \cap Events : Fd[e] # fd
  /\ InProgram
  /\ base' = CloseFd(base, fd)
  /\ open' = open \ {fd}
  /\ ready' = [ready EXCEPT ![fd] = {}]
  /\ UNCHANGED <<loop, current, deadline, asked, finalizer>>

Open(fd) ==
  /\ fd \notin open
  /\ Call(base)
  /\ open' = open \cup {fd}
  /\ UNCHANGED <<asked, finalizer>>

\* The program reads or writes until the descriptor is not ready any more; a
\* hangup stays.
Drain(fd) ==
  /\ InProgram
  /\ \E t \in ready[fd] \ {"HUP"} : ready' = [ready EXCEPT ![fd] = @ \ {t}]
  /\ UNCHANGED <<base, loop, current, deadline, open, asked, finalizer>>

-----------------------------------------------------------------------------
(* The kernel and the time.                                                *)

\* What nobody waits for, or what comes while nobody asks, is left out.
BecomesReady(fd) ==
  /\ loop = "wait" /\ fd \in open
  /\ "HUP" \notin ready[fd]
  /\ \/ \E t \in UNION Range(What) : ready' = [ready EXCEPT ![fd] = @ \cup {t}]
     \/ ready' = [ready EXCEPT ![fd] = {"HUP"}]
  /\ UNCHANGED <<base, loop, current, deadline, open, asked, finalizer>>

\* The times that still count; the others stop at -MaxLate.
TimesInUse ==
  {base.timeout[e] : e \in {f \in Events :
      Is(base, f, "TIMEOUT") \/ (Is(base, f, "ACTIVE") /\ "TIMEOUT" \in base.res[f])}}
  \cup ({base.tv_cache} \ {None})

Earlier(t) == IF t > -MaxLate THEN t - 1 ELSE t

\* Only epoll_wait() and callbacks take time.
Tick ==
  /\ loop \in {"wait", "callback"}
  /\ TimesInUse # {}
  /\ \A t \in TimesInUse : t > -MaxLate
  /\ base' = [base EXCEPT !.timeout = [e \in Events |-> Earlier(@[e])],
                          !.tv_cache = IF @ = None THEN @ ELSE @ - 1]
  /\ deadline' = IF deadline = None \/ deadline = 0 THEN deadline ELSE deadline - 1
  /\ UNCHANGED <<loop, current, ready, open, asked, finalizer>>

-----------------------------------------------------------------------------
(* event_base_loop().                                                      *)

Dispatch ==
  /\ loop = "idle"
  /\ loop' = "top"
  /\ base' = [base EXCEPT !.tv_cache = None]
  /\ UNCHANGED <<current, deadline, ready, open, asked, finalizer>>

Turn == [base EXCEPT !.event_continue = FALSE, !.n_deferreds = 0]

\* No event is left.
Ends ==
  /\ loop = "top"
  /\ base.event_count = 0
  /\ loop' = "idle"
  /\ base' = [Turn EXCEPT !.tv_cache = None]
  /\ UNCHANGED <<current, deadline, ready, open, asked, finalizer>>

\* Mutant: only activity ends the wait.
NoTimeout == IF Active(base) # {} THEN 0 ELSE None

\* timeout_next(), from the time that was cached before the last callbacks.
NextTimeout ==
  IF Active(base) # {} THEN 0
  ELSE IF base.timeheap = <<>> THEN None
  ELSE Max({0, base.timeout[base.timeheap[1]] - Now(base)})

Waits ==
  /\ loop = "top"
  /\ base.event_count # 0
  /\ loop' = "wait"
  /\ deadline' = NextTimeout
  /\ base' = ApplyChanges([MakeLaterActive(Turn) EXCEPT !.tv_cache = None])
  /\ UNCHANGED <<current, ready, open, asked, finalizer>>

ReadyFds == {fd \in open : Reported(base, ready, fd) # {}}

\* evmap_io_active_().
IoActive(b, fd) ==
  FoldLeft(LAMBDA r, e : LET types == What[e] \cap Reported(b, ready, fd)
                         IN IF types = {} THEN r ELSE EventActive(r, e, types),
           b, b.list[fd])

\* timeout_process(): every event whose time has come is deleted and activated,
\* the earliest first.
TimeoutProcess(b) ==
  LET step(r, i) ==
        IF r.timeheap = <<>> \/ r.timeout[r.timeheap[1]] > 0 THEN r
        ELSE LET e == r.timeheap[1]
             IN EventActive(EventDel(r, e), e, {"TIMEOUT"})
  IN FoldLeft(step, b, b.timeheap)

\* The most urgent queue that is not empty; -1: there is none.
Urgent(b) ==
  LET queues == {i \in 0..NPri - 1 : b.activequeues[i] # <<>>}
  IN IF queues = {} THEN -1 ELSE Min(queues)

\* epoll_wait() returns, and what is ready or late is activated.
Returns ==
  /\ loop = "wait"
  /\ ReadyFds # {} \/ deadline = 0
  /\ \E fds \in SetToSeqs(ReadyFds) :
       LET cached == [FoldLeft(IoActive, base, fds) EXCEPT !.tv_cache = 0]
           late == TimeoutProcess(cached)
       IN /\ base' = [late EXCEPT !.running_priority = Urgent(late)]
          /\ loop' = IF Urgent(late) = -1 THEN "top" ELSE "process"
  /\ deadline' = None
  /\ UNCHANGED <<current, ready, open, asked, finalizer>>

\* event_persist_closure(): the next timeout counts from the last one, or from
\* now if the event is run for another reason or too late.
Reschedule(b, e, res) ==
  LET from == IF "TIMEOUT" \in res THEN b.timeout[e] ELSE Now(b)
      run_at == from + b.io_timeout[e]
      at == IF run_at < Now(b) THEN Now(b) + b.io_timeout[e] ELSE run_at
  IN IF b.io_timeout[e] = 0 THEN b ELSE AddTimeout(AddIo(b, e), e, at)

\* The first of the queue is taken off it, off all queues if it is not to stay.
Runs ==
  /\ loop = "process"
  /\ LET c == Head(base.activequeues[base.running_priority])
         finalizes == Is(base, c, "FINALIZING")
         stays == c \in Persist \/ c \in Deferreds \/ finalizes
         taken == IF stays THEN RemoveActive(base, c) ELSE EventDel(base, c)
     IN /\ base' = IF c \in Persist /\ ~finalizes THEN Reschedule(taken, c, base.res[c])
                    ELSE taken
        /\ current' = IF finalizes THEN None ELSE c
        /\ finalizer' = IF finalizes THEN "run" ELSE finalizer
        /\ asked' = IF stays /\ c \notin Deferreds THEN asked ELSE asked \ {c}
  /\ loop' = "callback"
  /\ UNCHANGED <<deadline, ready, open>>

\* The callback returns.
Done ==
  /\ loop = "callback"
  /\ current' = None
  /\ LET more == ~base.event_continue /\ base.activequeues[base.running_priority] # <<>>
     IN /\ loop' = IF more THEN "process" ELSE "top"
        /\ base' = IF more THEN base ELSE [base EXCEPT !.running_priority = -1]
  /\ UNCHANGED <<deadline, ready, open, asked, finalizer>>

LoopNext == Ends \/ Waits \/ Returns \/ Runs \/ Done

Next ==
  \/ \E e \in Events : Add(e) \/ RemoveTimer(e) \/ Activate(e)
  \/ \E c \in Callbacks : Del(c)
  \/ \E d \in Deferreds : Schedule(d)
  \/ \E fd \in Fds : Close(fd) \/ Open(fd) \/ Drain(fd) \/ BecomesReady(fd)
  \/ Finalize \/ Tick \/ Dispatch \/ LoopNext

Spec == Init /\ [][Next]_vars

\* A step of LoopNext is possible, and is made: no other step from there changes
\* loop.
Moves ==
  /\ loop # "idle" /\ (loop = "wait" => ReadyFds # {} \/ deadline = 0)
  /\ loop' \in {"idle", "top", "wait", "process", "callback"} \ {loop}

\* The loop runs on, callbacks return, and time passes.
Fairness == WF_loop(Moves) /\ WF_vars(Tick)

FairSpec == Spec /\ Fairness
-----------------------------------------------------------------------------
(* Properties.                                                             *)

Counted == {"INSERTED", "ACTIVE", "LATER", "TIMEOUT"}
Flagged(flag) == {c \in Callbacks : Is(base, c, flag)}
Lists(queue, S) == ToSet(queue) = S /\ Len(queue) = Cardinality(S)

\* The flags say what the queues hold, each callback once; the heap has the
\* earliest timeout on top; event_count and the counts of each descriptor, which
\* decide when the loop ends and what the kernel is told, are right.
Bookkeeping ==
  /\ base.flags \in [Callbacks -> SUBSET (Counted \cup {"FINALIZING"})]
  /\ loop \in {"idle", "top", "wait", "process", "callback"}
  /\ base.event_count =
       Cardinality({p \in Callbacks \X Counted : Is(base, p[1], p[2])})
  /\ \A i \in 0..NPri - 1 :
       Lists(base.activequeues[i], {c \in Flagged("ACTIVE") : Pri[c] = i})
  /\ Lists(base.active_later, Flagged("LATER"))
  /\ Lists(base.timeheap, Flagged("TIMEOUT")) /\ IsHeap(base.timeheap, base.timeout)
  /\ \A fd \in Fds :
       LET here == {e \in Flagged("INSERTED") : Fd[e] = fd}
       IN /\ Lists(base.list[fd], here)
          /\ \A t \in Types :
               base.count[fd][t] = Cardinality({e \in here : t \in What[e]})

\* While the loop waits the kernel watches every open descriptor for what its
\* events want and for nothing else, whichever way it is told, and however often
\* the descriptor was closed and opened in between.
KernelWatches ==
  loop = "wait" =>
    \A fd \in Fds :
      LET wanted == UNION {What[e] : e \in {f \in Flagged("INSERTED") : Fd[f] = fd}}
      IN base.epoll[fd] = wanted

\* A callback that was deleted, and not added, activated or scheduled since, is
\* on no queue and does not run.
DeletedStaysQuiet ==
  \A c \in Callbacks \ asked : Counted \cap base.flags[c] # {} =>
    finalizer = "pending" /\ c \in ToSet(Together)

\* When the finalizer runs, which frees the memory, no queue holds any of the
\* callbacks that were finalized together, and it runs once.
NothingAfterFinalizer ==
  [][/\ finalizer' = "run" =>
          \A c \in ToSet(Together) : Counted \cap base'.flags[c] = {}
     /\ finalizer = "run" => finalizer' = "run" /\ current' \notin ToSet(Together)]_vars

\* event_priority_init(): an event runs only when no event that is active has a
\* more urgent priority.
UrgentFirst ==
  [][loop = "process" /\ loop' = "callback" =>
       \A e \in Events : Is(base, e, "ACTIVE") => Pri[e] >= base.running_priority]_vars

\* A persistent event of the most urgent priority is run again and again while its
\* descriptor is ready, whatever other callbacks schedule.
ReadyIsServed ==
  \A e \in {f \in Persist : Pri[f] = 0 /\ What[f] # {} /\ f \notin Timed} :
    <>[](/\ Is(base, e, "INSERTED") /\ loop # "idle"
         /\ What[e] \cap Reported(base, ready, Fd[e]) # {}) => []<>(current = e)

\* A timeout is handled, or replaced or removed, when its time has come.
TimeoutIsHandled ==
  \A e \in Timed :
    <>[](Is(base, e, "TIMEOUT") /\ loop # "idle") => []<>(base.timeout[e] > 0)
=============================================================================
