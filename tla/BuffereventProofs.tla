------------------------- MODULE BuffereventProofs -------------------------
(***************************************************************************)
(* The bufferevent for any writers, any bounds and any options: its        *)
(* watermark, its references and the silence after its end; with a lock,   *)
(* that its output is watched; with unlocked callbacks, that it and the    *)
(* application's mutex are never taken crosswise.                          *)
(***************************************************************************)
EXTENDS Bufferevent, TLAPS

-----------------------------------------------------------------------------
(* Safety properties, besides those that the runs check.                   *)

\* With a lock, a packet in the buffer has an event that will write it, or a
\* writer that is about to insert that event, whatever bufferevent_writecb() has
\* deleted and whoever has disabled and enabled writing meanwhile.
OutputIsWatched ==
  Threadsafe /\ output # <<>> /\ "WRITE" \in bev.enabled /\ bev.refcnt > 0 =>
    \/ "WRITE" \in bev.watched
    \/ \E w \in Writers : pc[w] \in {"test", "insert"}

\* refcnt counts the application until bufferevent_free(), the deferred callback
\* while it is scheduled, and the function that the loop is in: none is dropped
\* twice, whatever ends the connection inside of which callback, and none is lost.
One(condition) == IF condition THEN 1 ELSE 0
Outside == {"wait", "run", "READ", "WRITE", "FINALIZE"}
EveryReferenceIsHeld ==
  bev.refcnt = One(bev.callbacks) + One("DEFERRED" \in bev.active) + One(at \notin Outside)

\* The loop does not wait for the mutex with the bufferevent's lock while a writer
\* waits for that lock with the mutex.
NoDeadlyEmbrace ==
  \A w \in Writers : ~(/\ mutex = w /\ pc[w] = "add"
                        /\ lock = Loop /\ at = "event callback")

-----------------------------------------------------------------------------
(* The struct and where the threads are.                                   *)

Callbacks == {"READ", "WRITE", "DEFERRED", "FINALIZE"}
Bev == [enabled : SUBSET Types, suspended : BOOLEAN, high : Nat, refcnt : Nat,
        callbacks : BOOLEAN, read_pending : BOOLEAN, event_pending : BOOLEAN,
        watched : SUBSET Types, active : SUBSET Callbacks, gone : BOOLEAN]
InApplication == {"read callback", "event callback", "unlink", "free"}
Places == {"wait", "run", "write", "length", "delete", "pending event", "end"}
            \cup Callbacks \cup InApplication
Sockets == [coming : Nat, unread : Nat, closed : BOOLEAN, full : Int]
Threads == Writers \cup {Loop, Nobody}

Typed ==
  /\ bev \in Bev
  /\ input \in Nat
  /\ lock \in Threads
  /\ at \in Places
  /\ pc \in [Writers -> {"idle", "mutex", "add", "test", "insert", "return"}]
  /\ socket \in Sockets

-----------------------------------------------------------------------------
(* What the code makes of a struct, one operator at a time.                *)

\* Of references, only the one of a deferred callback is taken, with the
\* callback; no finalizer is scheduled.
Balanced(b, c) ==
  /\ c.refcnt >= b.refcnt
  /\ c.refcnt - One("DEFERRED" \in c.active) = b.refcnt - One("DEFERRED" \in b.active)
  /\ c.callbacks = b.callbacks /\ c.gone = b.gone
  /\ "FINALIZE" \in c.active <=> "FINALIZE" \in b.active

\* InputFollowsWatermark, of any struct and length.
Watches(b) == "READ" \in b.watched <=> "READ" \in b.enabled /\ ~b.suspended
Follows(b, length) == /\ b.suspended <=> b.high # 0 /\ length >= b.high
                      /\ Watches(b)
KeepsReading(b, c) == \A n \in Nat : Follows(b, n) => Follows(c, n)

\* Writing does not come to be enabled without being watched.
Unwatched(b) == "WRITE" \in b.enabled /\ "WRITE" \notin b.watched
ActiveIsWatched(b) == "WRITE" \in b.active => "WRITE" \in b.watched
KeepsWriting(b, c) == /\ Unwatched(c) => Unwatched(b)
                      /\ ActiveIsWatched(b) => ActiveIsWatched(c)

\* Nothing but what is enabled, watched and active changes.
OnlyEvents(b, c) ==
  /\ c \in Bev
  /\ c.high = b.high /\ c.refcnt = b.refcnt /\ c.callbacks = b.callbacks /\ c.gone = b.gone
  /\ \A f \in {"DEFERRED", "FINALIZE"} : f \in c.active <=> f \in b.active

LEMMA EventsOnly ==
  ASSUME NEW b \in Bev, NEW c, OnlyEvents(b, c)
  PROVE  c \in Bev /\ Balanced(b, c)
  BY DEF OnlyEvents, Balanced, Bev, One

LEMMA SocketStruct ==
  ASSUME NEW b \in Bev, NEW types \in SUBSET Types
  PROVE  /\ OnlyEvents(b, SocketEnable(b, types)) /\ OnlyEvents(b, SocketDisable(b, types))
         /\ SocketEnable(b, types).watched = b.watched \cup types
         /\ SocketDisable(b, types).watched = b.watched \ types
         /\ SocketEnable(b, types).active = b.active
         /\ SocketDisable(b, types).active = b.active \ types
         /\ SocketEnable(b, types).enabled = b.enabled
         /\ SocketDisable(b, types).enabled = b.enabled
         /\ SocketEnable(b, types).suspended = b.suspended
         /\ SocketDisable(b, types).suspended = b.suspended
  <1>1. /\ b.watched \cup types \in SUBSET Types /\ b.watched \ types \in SUBSET Types
        /\ b.active \ types \in SUBSET Callbacks
    BY DEF Bev
  <1>2. "DEFERRED" \notin types /\ "FINALIZE" \notin types
    BY DEF Types
  <1> QED  BY <1>1, <1>2 DEF Bev, SocketEnable, SocketDisable, OnlyEvents

LEMMA EnableStruct ==
  ASSUME NEW b \in Bev, NEW types \in SUBSET Types
  PROVE  /\ Enable(b, types) \in Bev
         /\ Balanced(b, Enable(b, types))
         /\ KeepsReading(b, Enable(b, types)) /\ KeepsWriting(b, Enable(b, types))
  <1> DEFINE e == [b EXCEPT !.enabled = @ \cup types]
             w == types \ (IF b.suspended THEN {"READ"} ELSE {})
  <1>1. b.enabled \cup types \in SUBSET Types /\ w \in SUBSET Types
    BY DEF Bev
  <1>2. /\ e \in Bev /\ OnlyEvents(b, e)
        /\ e.enabled = b.enabled \cup types /\ e.watched = b.watched
        /\ e.active = b.active /\ e.suspended = b.suspended
    BY <1>1 DEF Bev, OnlyEvents
  <1>3. Enable(b, types) = SocketEnable(e, w)
    BY DEF Enable
  <1> HIDE DEF e
  <1>4. OnlyEvents(b, Enable(b, types))
    BY <1>1, <1>2, <1>3, SocketStruct DEF OnlyEvents
  <1>5. /\ Enable(b, types).watched = b.watched \cup w
        /\ Enable(b, types).enabled = b.enabled \cup types
        /\ Enable(b, types).suspended = b.suspended
        /\ Enable(b, types).active = b.active
    BY <1>1, <1>2, <1>3, SocketStruct
  <1>6. KeepsReading(b, Enable(b, types))
    BY <1>4, <1>5 DEF OnlyEvents, KeepsReading, Follows, Watches
  <1>7. KeepsWriting(b, Enable(b, types))
    BY <1>5 DEF KeepsWriting, Unwatched, ActiveIsWatched
  <1> QED  BY <1>4, <1>6, <1>7, EventsOnly

LEMMA DisableStruct ==
  ASSUME NEW b \in Bev, NEW types \in SUBSET Types
  PROVE  /\ Disable(b, types) \in Bev
         /\ Balanced(b, Disable(b, types))
         /\ KeepsReading(b, Disable(b, types)) /\ KeepsWriting(b, Disable(b, types))
  <1> DEFINE e == [b EXCEPT !.enabled = @ \ types]
  <1>1. b.enabled \ types \in SUBSET Types
    BY DEF Bev
  <1>2. /\ e \in Bev /\ OnlyEvents(b, e)
        /\ e.enabled = b.enabled \ types /\ e.watched = b.watched
        /\ e.active = b.active /\ e.suspended = b.suspended
    BY <1>1 DEF Bev, OnlyEvents
  <1>3. Disable(b, types) = SocketDisable(e, types)
    BY DEF Disable
  <1> HIDE DEF e
  <1>4. OnlyEvents(b, Disable(b, types))
    BY <1>2, <1>3, SocketStruct DEF OnlyEvents
  <1>5. /\ Disable(b, types).watched = b.watched \ types
        /\ Disable(b, types).enabled = b.enabled \ types
        /\ Disable(b, types).suspended = b.suspended
        /\ Disable(b, types).active = b.active \ types
    BY <1>2, <1>3, SocketStruct
  <1>6. KeepsReading(b, Disable(b, types))
    BY <1>4, <1>5 DEF OnlyEvents, KeepsReading, Follows, Watches
  <1>7. KeepsWriting(b, Disable(b, types))
    BY <1>5 DEF KeepsWriting, Unwatched, ActiveIsWatched
  <1> QED  BY <1>4, <1>6, <1>7, EventsOnly

LEMMA SuspendStruct ==
  ASSUME NEW b \in Bev
  PROVE  /\ Suspend(b) \in Bev
         /\ Balanced(b, Suspend(b)) /\ KeepsWriting(b, Suspend(b))
         /\ Suspend(b).suspended /\ Suspend(b).high = b.high
         /\ Watches(b) => Watches(Suspend(b))
  <1> DEFINE d == IF b.suspended THEN b ELSE SocketDisable(b, {"READ"})
  <1>1. {"READ"} \in SUBSET Types
    BY DEF Types
  <1>2. OnlyEvents(b, d) /\ d.enabled = b.enabled
    BY <1>1, SocketStruct DEF OnlyEvents
  <1>3. /\ d.watched = IF b.suspended THEN b.watched ELSE b.watched \ {"READ"}
        /\ d.active = IF b.suspended THEN b.active ELSE b.active \ {"READ"}
    BY <1>1, SocketStruct
  <1>4. Suspend(b) = [d EXCEPT !.suspended = TRUE]
    BY DEF Suspend
  <1> HIDE DEF d
  <1>5. /\ OnlyEvents(b, Suspend(b)) /\ Suspend(b).suspended
        /\ Suspend(b).enabled = d.enabled /\ Suspend(b).watched = d.watched
        /\ Suspend(b).active = d.active
    BY <1>2, <1>4 DEF OnlyEvents, Bev
  <1>6. Watches(b) => Watches(Suspend(b))
    BY <1>2, <1>3, <1>5 DEF Watches
  <1>7. KeepsWriting(b, Suspend(b))
    BY <1>2, <1>3, <1>5 DEF KeepsWriting, Unwatched, ActiveIsWatched
  <1> QED  BY <1>5, <1>6, <1>7, EventsOnly DEF OnlyEvents

LEMMA UnsuspendStruct ==
  ASSUME NEW b \in Bev
  PROVE  /\ Unsuspend(b) \in Bev
         /\ Balanced(b, Unsuspend(b)) /\ KeepsWriting(b, Unsuspend(b))
         /\ ~Unsuspend(b).suspended /\ Unsuspend(b).high = b.high
         /\ Watches(b) => Watches(Unsuspend(b))
  <1> DEFINE d == [b EXCEPT !.suspended = FALSE]
             w == {"READ"} \cap b.enabled
  <1>1. w \in SUBSET Types
    BY DEF Types
  <1>2. /\ d \in Bev /\ OnlyEvents(b, d) /\ d.enabled = b.enabled /\ d.watched = b.watched
        /\ d.active = b.active /\ ~d.suspended
    BY DEF OnlyEvents, Bev
  <1>3. Unsuspend(b) = SocketEnable(d, w)
    BY DEF Unsuspend
  <1> HIDE DEF d
  <1>4. /\ OnlyEvents(d, Unsuspend(b)) /\ ~Unsuspend(b).suspended
        /\ Unsuspend(b).enabled = b.enabled /\ Unsuspend(b).watched = b.watched \cup w
        /\ Unsuspend(b).active = b.active
    BY <1>1, <1>2, <1>3, SocketStruct
  <1>5. OnlyEvents(b, Unsuspend(b))
    BY <1>2, <1>4 DEF OnlyEvents
  <1>6. Watches(b) => Watches(Unsuspend(b))
    BY <1>4 DEF Watches
  <1>7. KeepsWriting(b, Unsuspend(b))
    BY <1>4 DEF KeepsWriting, Unwatched, ActiveIsWatched
  <1> QED  BY <1>4, <1>5, <1>6, <1>7, EventsOnly DEF OnlyEvents

LEMMA MarkedStruct ==
  ASSUME NEW b \in Bev, NEW n \in Nat
  PROVE  /\ Marked(b, n) \in Bev
         /\ Balanced(b, Marked(b, n)) /\ KeepsWriting(b, Marked(b, n))
         /\ Watches(b) => Follows(Marked(b, n), n)
  BY SuspendStruct, UnsuspendStruct DEF Marked, Follows

LEMMA InputChangedStruct ==
  ASSUME NEW b \in Bev, NEW m \in Nat, NEW n \in Nat
  PROVE  /\ InputChanged(b, n) \in Bev
         /\ Balanced(b, InputChanged(b, n)) /\ KeepsWriting(b, InputChanged(b, n))
         /\ Follows(b, m) => Follows(InputChanged(b, n), n)
  <1>1. CASE b.high = 0
    BY <1>1 DEF Bev, InputChanged, Follows, Balanced, KeepsWriting
  <1>2. CASE b.high # 0
    BY <1>2, MarkedStruct DEF InputChanged, Follows
  <1> QED  BY <1>1, <1>2

LEMMA ScheduleStruct ==
  ASSUME NEW b \in Bev
  PROVE  /\ Schedule(b) \in Bev
         /\ Balanced(b, Schedule(b))
         /\ KeepsReading(b, Schedule(b)) /\ KeepsWriting(b, Schedule(b))
  <1>1. CASE "DEFERRED" \in b.active
    BY <1>1 DEF Bev, Schedule, Balanced, KeepsReading, KeepsWriting
  <1>2. CASE "DEFERRED" \notin b.active
    <2>1. Schedule(b) = [b EXCEPT !.refcnt = b.refcnt + 1, !.active = b.active \cup {"DEFERRED"}]
      BY <1>2 DEF Schedule
    <2>2. b.refcnt \in Nat /\ b.refcnt + 1 \in Nat /\ b.active \cup {"DEFERRED"} \in SUBSET Callbacks
      BY DEF Bev, Callbacks
    <2>3. Schedule(b) \in Bev
      BY <2>1, <2>2 DEF Bev
    <2>4. /\ Schedule(b).suspended = b.suspended /\ Schedule(b).high = b.high
          /\ Schedule(b).watched = b.watched /\ Schedule(b).enabled = b.enabled
          /\ Schedule(b).callbacks = b.callbacks /\ Schedule(b).gone = b.gone
          /\ Schedule(b).active = b.active \cup {"DEFERRED"}
          /\ Schedule(b).refcnt = b.refcnt + 1
      BY <2>1 DEF Bev
    <2>5. Balanced(b, Schedule(b))
      BY <1>2, <2>2, <2>4 DEF Balanced, One
    <2>6. KeepsReading(b, Schedule(b)) /\ KeepsWriting(b, Schedule(b))
      BY <2>4 DEF KeepsReading, Follows, Watches, KeepsWriting, Unwatched, ActiveIsWatched
    <2> QED  BY <2>3, <2>5, <2>6
  <1> QED  BY <1>1, <1>2

LEMMA IncrefStruct ==
  ASSUME NEW b \in Bev
  PROVE  /\ Incref(b) \in Bev
         /\ Incref(b).refcnt = b.refcnt + 1
         /\ Incref(b).active = b.active
         /\ Incref(b).callbacks = b.callbacks /\ Incref(b).gone = b.gone
         /\ KeepsReading(b, Incref(b)) /\ KeepsWriting(b, Incref(b))
  <1>1. Incref(b) = [b EXCEPT !.refcnt = b.refcnt + 1] /\ b.refcnt + 1 \in Nat
    BY DEF Incref, Bev
  <1>2. /\ Incref(b).suspended = b.suspended /\ Incref(b).high = b.high
        /\ Incref(b).watched = b.watched /\ Incref(b).enabled = b.enabled
        /\ Incref(b).callbacks = b.callbacks /\ Incref(b).gone = b.gone
        /\ Incref(b).active = b.active /\ Incref(b).refcnt = b.refcnt + 1
        /\ Incref(b) \in Bev
    BY <1>1 DEF Bev
  <1> QED  BY <1>2 DEF KeepsReading, Follows, Watches, KeepsWriting, Unwatched, ActiveIsWatched

LEMMA DecrefStruct ==
  ASSUME NEW b \in Bev, b.refcnt > 0
  PROVE  /\ Decref(b) \in Bev
         /\ Decref(b).refcnt = b.refcnt - 1
         /\ Decref(b).callbacks = b.callbacks /\ Decref(b).gone = b.gone
         /\ Decref(b).refcnt > 0 =>
              /\ Decref(b).active = b.active
              /\ KeepsReading(b, Decref(b)) /\ KeepsWriting(b, Decref(b))
         /\ Decref(b).refcnt = 0 => Decref(b).active = {"FINALIZE"} /\ Decref(b).watched = {}
  <1>1. CASE b.refcnt > 1
    <2>1. Decref(b) = [b EXCEPT !.refcnt = b.refcnt - 1]
      BY <1>1 DEF Decref
    <2>2. b.refcnt \in Nat /\ b.refcnt - 1 \in Nat /\ b.refcnt - 1 > 0
      BY <1>1 DEF Bev
    <2>3. Decref(b) \in Bev
      BY <2>1, <2>2 DEF Bev
    <2>4. /\ Decref(b).suspended = b.suspended /\ Decref(b).high = b.high
          /\ Decref(b).watched = b.watched /\ Decref(b).enabled = b.enabled
          /\ Decref(b).callbacks = b.callbacks /\ Decref(b).gone = b.gone
          /\ Decref(b).active = b.active /\ Decref(b).refcnt = b.refcnt - 1
      BY <2>1 DEF Bev
    <2> QED  BY <2>2, <2>3, <2>4 DEF KeepsReading, Follows, Watches, KeepsWriting, Unwatched,
                                     ActiveIsWatched
  <1>2. CASE ~(b.refcnt > 1)
    <2>1. b.refcnt = 1
      BY <1>2 DEF Bev
    <2>2. Decref(b) = [b EXCEPT !.refcnt = 0, !.watched = {}, !.active = {"FINALIZE"}]
      BY <1>2 DEF Decref
    <2>3. \E n \in Nat, w \in SUBSET Types, a \in SUBSET Callbacks :
            Decref(b) = [b EXCEPT !.refcnt = n, !.watched = w, !.active = a]
      <3>1. 0 \in Nat /\ {} \in SUBSET Types /\ {"FINALIZE"} \in SUBSET Callbacks
        BY DEF Callbacks
      <3> QED  BY <2>2, <3>1, Zenon
    <2>4. Decref(b) \in Bev
      BY <2>3 DEF Bev
    <2>5. /\ Decref(b).callbacks = b.callbacks /\ Decref(b).gone = b.gone
          /\ Decref(b).active = {"FINALIZE"} /\ Decref(b).refcnt = 0 /\ Decref(b).watched = {}
      BY <2>2 DEF Bev
    <2> QED  BY <2>1, <2>4, <2>5
  <1> QED  BY <1>1, <1>2

\* What every call but those that count references keeps.
Kept(b, c) == c \in Bev /\ Balanced(b, c) /\ KeepsReading(b, c) /\ KeepsWriting(b, c)

LEMMA KeptItself ==
  ASSUME NEW b \in Bev
  PROVE  Balanced(b, b) /\ Kept(b, b)
  <1>1. b.refcnt \in Nat
    BY DEF Bev
  <1> QED  BY <1>1 DEF Balanced, Kept, KeepsReading, KeepsWriting

LEMMA KeptTwice ==
  ASSUME NEW b \in Bev, NEW c, NEW d, Kept(b, c), Kept(c, d)
  PROVE  Kept(b, d)
  <1>1. b.refcnt \in Nat /\ c.refcnt \in Nat /\ d.refcnt \in Nat
    BY DEF Kept, Bev
  <1>2. Balanced(b, d)
    BY <1>1 DEF Kept, Balanced, One
  <1> QED  BY <1>2 DEF Kept, KeepsReading, KeepsWriting

LEMMA PendingStruct ==
  ASSUME NEW b \in Bev, NEW v \in BOOLEAN
  PROVE  /\ Kept(b, [b EXCEPT !.read_pending = v])
         /\ Kept(b, [b EXCEPT !.event_pending = v])
  <1>1. ASSUME NEW c, c \in {[b EXCEPT !.read_pending = v], [b EXCEPT !.event_pending = v]}
        PROVE  Kept(b, c)
    <2>1. /\ c \in Bev
          /\ c.enabled = b.enabled /\ c.suspended = b.suspended /\ c.high = b.high
          /\ c.refcnt = b.refcnt /\ c.callbacks = b.callbacks /\ c.watched = b.watched
          /\ c.active = b.active /\ c.gone = b.gone
      BY <1>1 DEF Bev
    <2>2. Balanced(b, c)
      BY <2>1 DEF Balanced, Bev
    <2> QED  BY <2>1, <2>2 DEF Kept, KeepsReading, Follows, Watches, KeepsWriting, Unwatched,
                                ActiveIsWatched
  <1> QED  BY <1>1

\* The other fields of a struct whose callbacks become active or are taken.
LEMMA ActiveStruct ==
  ASSUME NEW b \in Bev, NEW x \in SUBSET Callbacks, NEW c, c = [b EXCEPT !.active = x]
  PROVE  /\ c \in Bev /\ c.active = x
         /\ c.enabled = b.enabled /\ c.suspended = b.suspended /\ c.high = b.high
         /\ c.refcnt = b.refcnt /\ c.callbacks = b.callbacks /\ c.watched = b.watched
         /\ c.gone = b.gone
  BY DEF Bev

LEMMA FailsStruct ==
  ASSUME NEW b \in Bev, NEW type \in Types, Fails(b, type)
  PROVE  /\ Kept(b, bev')
         /\ at' \in {"end", "event callback"}
         /\ at' = "event callback" => b.callbacks /\ ~Deferring
  <1> DEFINE d == Disable(b, {type})
             e == [d EXCEPT !.event_pending = TRUE]
  <1>1. Kept(b, d)
    BY DisableStruct DEF Kept
  <1>2. d \in Bev
    BY <1>1 DEF Kept
  <1> HIDE DEF d
  <1>3. Kept(b, e) /\ e \in Bev
    BY <1>1, <1>2, PendingStruct, KeptTwice DEF Kept
  <1> HIDE DEF e
  <1>4. Kept(e, Schedule(e))
    BY <1>3, ScheduleStruct DEF Kept
  <1>5. Kept(b, Schedule(e))
    BY <1>3, <1>4, KeptTwice
  <1>6. bev' = d \/ bev' = Schedule(e)
    BY DEF Fails, d, e
  <1>7. /\ at' \in {"end", "event callback"}
        /\ at' = "event callback" => b.callbacks /\ ~Deferring
    BY DEF Fails
  <1> QED  BY <1>1, <1>5, <1>6, <1>7

LEMMA ReadsStruct ==
  ASSUME NEW b \in Bev, NEW n \in Nat, input \in Nat, socket.unread \in Nat, ReadsSome(b, n)
  PROVE  /\ bev' \in Bev /\ Balanced(b, bev') /\ KeepsWriting(b, bev')
         /\ input' \in Nat
         /\ Follows(b, input) => Follows(bev', input')
         /\ at' \in {"end", "read callback"}
         /\ at' = "read callback" => b.callbacks
  <1> DEFINE d == InputChanged(b, input + n)
             e == [d EXCEPT !.read_pending = TRUE]
  <1>1. input' = input + n /\ input' \in Nat
    <2>1. input' = input + n
      BY Zenon DEF ReadsSome
    <2> QED  BY <2>1
  <1>2. /\ d \in Bev /\ Balanced(b, d) /\ KeepsWriting(b, d)
        /\ Follows(b, input) => Follows(d, input')
    BY <1>1, InputChangedStruct
  <1>3. bev' = d \/ bev' = Schedule(e)
    BY DEF ReadsSome
  <1>4. /\ at' \in {"end", "read callback"}
        /\ at' = "read callback" => b.callbacks
    BY DEF ReadsSome
  <1> HIDE DEF d
  <1>5. Kept(d, e) /\ e \in Bev
    BY <1>2, PendingStruct DEF Kept
  <1> HIDE DEF e
  <1>6. Kept(e, Schedule(e))
    BY <1>5, ScheduleStruct DEF Kept
  <1>7. Kept(d, Schedule(e))
    BY <1>2, <1>5, <1>6, KeptTwice
  <1>8. /\ Schedule(e) \in Bev /\ Balanced(d, Schedule(e)) /\ KeepsWriting(d, Schedule(e))
        /\ Follows(d, input') => Follows(Schedule(e), input')
    BY <1>1, <1>7 DEF Kept, KeepsReading
  <1>9. b.refcnt \in Nat /\ d.refcnt \in Nat /\ Schedule(e).refcnt \in Nat
    BY <1>2, <1>8 DEF Bev
  <1>10. Balanced(b, Schedule(e))
    BY <1>2, <1>8, <1>9 DEF Balanced, One
  <1>11. KeepsWriting(b, Schedule(e))
    BY <1>2, <1>8 DEF KeepsWriting
  <1> QED  BY <1>1, <1>2, <1>3, <1>4, <1>8, <1>10, <1>11

-----------------------------------------------------------------------------
(* The invariant.                                                          *)

\* When the last reference is gone nothing is left but the finalizer; before
\* that there is none.  The application ends the bufferevent inside of its event
\* callback, at a moment when no writer uses it.
Ending ==
  /\ bev.refcnt = 0 => bev.watched = {} /\ bev.active \subseteq {"FINALIZE"}
  /\ "FINALIZE" \in bev.active \/ at = "FINALIZE" \/ bev.gone => bev.refcnt = 0
  /\ at \in {"READ", "WRITE"} => bev.refcnt > 0
  /\ at \in InApplication => bev.callbacks
  /\ bev.callbacks \/ \A w \in Writers : pc[w] \in {"idle", "mutex"}

\* InputFollowsWatermark, whoever has the lock.
Watermark == bev.refcnt > 0 => Follows(bev, input)

Life == Typed /\ EveryReferenceIsHeld /\ Ending /\ Watermark

\* NothingAfterFree, of a step.
Silent ==
  /\ at' # at /\ at' \in {"read callback", "event callback"} => bev.callbacks
  /\ at' # at /\ at' \in {"READ", "WRITE", "DEFERRED"} => bev.refcnt > 0
  /\ bev'.gone # bev.gone => bev'.gone /\ bev.refcnt = 0

LEMMA LifeInit == Init => Life
  BY BuffereventAssumption
  DEF Init, Life, Typed, Sockets, Bev, Types, Callbacks, Places, Threads, InApplication,
      EveryReferenceIsHeld, One, Outside, Ending, Watermark, Follows, Watches

\* Inside a function that the loop runs: its reference is counted.
LEMMA InsideCounted ==
  ASSUME Life
  PROVE  /\ bev.refcnt \in Nat
         /\ at \notin Outside => bev.refcnt > 0
         /\ bev.callbacks => bev.refcnt > 0
         /\ bev.callbacks /\ at \notin Outside => bev.refcnt > 1
         /\ "DEFERRED" \in bev.active => bev.refcnt > 0
         /\ bev.refcnt = 0 => ~bev.callbacks /\ at \in Outside
  <1>1. bev.refcnt \in Nat
    BY DEF Life, Typed, Bev
  <1> QED  BY <1>1 DEF Life, EveryReferenceIsHeld, One

\* A step of the loop, inside of a function, that takes no reference for itself.
LEMMA InsideStep ==
  ASSUME Life, at \notin Outside, at' \notin Outside, at' \in Places,
         bev' \in Bev, Balanced(bev, bev'), lock' \in Threads, input' \in Nat,
         Follows(bev, input) => Follows(bev', input'),
         UNCHANGED pc, socket' \in Sockets,
         at' \in InApplication => bev.callbacks
  PROVE  Life' /\ Silent
  <1>1. /\ bev.refcnt \in Nat /\ bev'.refcnt \in Nat /\ bev.refcnt > 0 /\ bev'.refcnt > 0
        /\ bev'.callbacks = bev.callbacks /\ bev'.gone = bev.gone
        /\ "FINALIZE" \in bev'.active <=> "FINALIZE" \in bev.active
    BY InsideCounted DEF Balanced, Bev
  <1>2. Typed'
    BY DEF Life, Typed
  <1>3. EveryReferenceIsHeld'
    BY <1>1 DEF Life, EveryReferenceIsHeld, Balanced, One
  <1>4. Ending'
    BY <1>1 DEF Life, Ending, Outside
  <1>5. Watermark'
    BY <1>1 DEF Life, Watermark
  <1>6. Silent
    BY <1>1 DEF Silent, Outside, InApplication
  <1> QED  BY <1>2, <1>3, <1>4, <1>5, <1>6 DEF Life

\* The same, in a function that begins.
LEMMA BeginStep ==
  ASSUME Life, at \in {"READ", "WRITE"}, at' \notin Outside, at' \in Places,
         NEW b, b = Incref(bev),
         bev' \in Bev, Balanced(b, bev'), lock' \in Threads, input' \in Nat,
         Follows(b, input) => Follows(bev', input'),
         UNCHANGED pc, socket' \in Sockets,
         at' \in InApplication => bev.callbacks
  PROVE  Life' /\ Silent
  <1>1. bev \in Bev /\ bev.refcnt \in Nat /\ bev.refcnt > 0 /\ bev'.refcnt \in Nat /\ at \in Outside
    BY DEF Life, Typed, Ending, Bev, Outside
  <1>2. /\ b.refcnt = bev.refcnt + 1 /\ b.active = bev.active
        /\ b.callbacks = bev.callbacks /\ b.gone = bev.gone
        /\ KeepsReading(bev, b)
    BY <1>1, IncrefStruct
  <1>3. /\ bev'.refcnt > 0 /\ bev'.callbacks = bev.callbacks /\ bev'.gone = bev.gone
        /\ "FINALIZE" \in bev'.active <=> "FINALIZE" \in bev.active
        /\ bev'.refcnt - One("DEFERRED" \in bev'.active)
             = bev.refcnt + 1 - One("DEFERRED" \in bev.active)
    BY <1>1, <1>2 DEF Balanced, One
  <1>4. Typed'
    BY DEF Life, Typed
  <1>5. EveryReferenceIsHeld'
    BY <1>1, <1>3 DEF Life, EveryReferenceIsHeld, One
  <1>6. Ending'
    BY <1>1, <1>3 DEF Life, Ending, Outside
  <1>7. Follows(bev, input) /\ input \in Nat
    BY <1>1 DEF Life, Watermark, Typed
  <1>8. Watermark'
    BY <1>2, <1>7 DEF Watermark, KeepsReading
  <1>9. Silent
    BY <1>1, <1>3 DEF Silent, Outside, InApplication
  <1> QED  BY <1>4, <1>5, <1>6, <1>8, <1>9 DEF Life

LEMMA ReadcbKeeps ==
  ASSUME Life, Readcb
  PROVE  Life' /\ Silent
  <1> DEFINE b == Incref(bev)
             full == b.high # 0 /\ input >= b.high
  <1>1. /\ bev \in Bev /\ input \in Nat /\ socket \in Sockets /\ socket.unread \in Nat
        /\ at = "READ" /\ UNCHANGED pc /\ lock' \in Threads
    BY DEF Life, Typed, Readcb, elsewhere, Lock, Threads, Sockets
  <1>2. /\ b \in Bev /\ b.refcnt \in Nat /\ b.callbacks = bev.callbacks
    BY <1>1, IncrefStruct DEF Bev
  <1>3. Balanced(b, b)
    BY <1>2 DEF Balanced
  <1> HIDE DEF b
  <1>4. CASE /\ full \/ b.suspended
             /\ bev' = IF full THEN Suspend(b) ELSE b
             /\ at' = "end"
             /\ UNCHANGED <<input, socket>>
    <2>1. bev' \in Bev /\ Balanced(b, bev')
      BY <1>2, <1>3, <1>4, SuspendStruct
    <2>2. Follows(b, input) => Follows(bev', input')
      BY <1>2, <1>4, SuspendStruct DEF Follows
    <2> QED  BY <1>1, <1>4, <2>1, <2>2, BeginStep DEF b, Outside, Places, InApplication
  <1>5. ASSUME NEW n \in 1..socket.unread, ReadsSome(b, n)
        PROVE  Life' /\ Silent
    <2>1. n \in Nat
      BY <1>1
    <2>2. /\ bev' \in Bev /\ Balanced(b, bev')
          /\ input' \in Nat
          /\ Follows(b, input) => Follows(bev', input')
          /\ at' \in {"end", "read callback"}
          /\ at' = "read callback" => b.callbacks
      BY <1>1, <1>2, <1>5, <2>1, ReadsStruct
    <2>3. socket' \in Sockets
      <3>1. socket' = [socket EXCEPT !.unread = @ - n]
        BY <1>5, Zenon DEF ReadsSome
      <3>2. socket.unread - n \in Nat
        BY <1>1
      <3> QED  BY <1>1, <3>1, <3>2 DEF Sockets
    <2> QED  BY <1>1, <1>2, <2>2, <2>3, BeginStep DEF b, Outside, Places, InApplication
  <1>6. CASE /\ IF socket.closed THEN Fails(b, "READ") ELSE bev' = b /\ at' = "end"
             /\ UNCHANGED <<input, socket>>
    <2>1. /\ Kept(b, bev')
          /\ at' \in {"end", "event callback"}
          /\ at' = "event callback" => b.callbacks
      BY <1>2, <1>3, <1>6, FailsStruct DEF Types, Kept, KeepsReading, KeepsWriting
    <2>2. /\ bev' \in Bev /\ Balanced(b, bev')
          /\ Follows(b, input) => Follows(bev', input')
      BY <1>1, <1>6, <2>1 DEF Kept, KeepsReading
    <2> QED  BY <1>1, <1>2, <1>6, <2>1, <2>2, BeginStep DEF b, Outside, Places, InApplication
  <1> QED  BY <1>4, <1>5, <1>6 DEF Readcb, b

LEMMA WritecbKeeps ==
  ASSUME Life, Writecb
  PROVE  Life' /\ Silent
  <1>1. /\ bev \in Bev /\ input \in Nat /\ socket \in Sockets
        /\ at = "WRITE" /\ UNCHANGED <<pc, input, socket>> /\ lock' \in Threads
        /\ bev' = Incref(bev) /\ at' \in {"length", "write"}
    BY DEF Life, Typed, Writecb, elsewhere, Lock, Threads
  <1>2. bev' \in Bev /\ Balanced(bev', bev') /\ (Follows(bev', input) => Follows(bev', input'))
    BY <1>1, IncrefStruct DEF Balanced, Bev
  <1> QED  BY <1>1, <1>2, BeginStep DEF Outside, Places, InApplication

LEMMA WritesSomeKeeps ==
  ASSUME Life, WritesSome
  PROVE  Life' /\ Silent
  <1>1. /\ bev \in Bev /\ input \in Nat /\ socket \in Sockets /\ lock \in Threads
        /\ at = "write" /\ UNCHANGED <<pc, input, lock>>
    BY DEF Life, Typed, WritesSome, elsewhere
  <1>2. Balanced(bev, bev)
    BY <1>1 DEF Balanced, Bev
  <1>3. /\ Kept(bev, bev')
        /\ at' \in {"length", "end", "event callback"}
        /\ at' = "event callback" => bev.callbacks
    BY <1>1, <1>2, FailsStruct DEF WritesSome, Types, Kept, KeepsReading, KeepsWriting
  <1>4. socket' \in Sockets
    <2>1. ASSUME NEW n \in 1..Len(output), socket' = [socket EXCEPT !.full = @ + n]
          PROVE  socket' \in Sockets
      <3>1. n \in Int
        OBVIOUS
      <3> QED  BY <1>1, <2>1, <3>1 DEF Sockets
    <2>2. \/ \E n \in 1..Len(output) : socket' = [socket EXCEPT !.full = @ + n]
          \/ socket' = socket
      BY Zenon DEF WritesSome
    <2> QED  BY <1>1, <2>1, <2>2
  <1>5. /\ bev' \in Bev /\ Balanced(bev, bev')
        /\ Follows(bev, input) => Follows(bev', input')
    BY <1>1, <1>3 DEF Kept, KeepsReading
  <1> QED  BY <1>1, <1>3, <1>4, <1>5, InsideStep DEF Outside, Places, InApplication

LEMMA WriteEndKeeps ==
  ASSUME Life, TestsLength \/ DeletesEvWrite
  PROVE  Life' /\ Silent
  <1>1. /\ bev \in Bev /\ input \in Nat /\ socket \in Sockets /\ lock \in Threads
        /\ at \in {"length", "delete"} /\ at' \in {"delete", "end"}
        /\ UNCHANGED <<pc, input, lock, socket>>
    BY DEF Life, Typed, TestsLength, DeletesEvWrite, elsewhere
  <1>2. OnlyEvents(bev, SocketDisable(bev, {"WRITE"}))
        /\ SocketDisable(bev, {"WRITE"}).enabled = bev.enabled
        /\ SocketDisable(bev, {"WRITE"}).suspended = bev.suspended
        /\ SocketDisable(bev, {"WRITE"}).watched = bev.watched \ {"WRITE"}
    BY <1>1, SocketStruct DEF Types
  <1>3. bev' \in Bev /\ Balanced(bev, bev')
    BY <1>1, <1>2, EventsOnly DEF TestsLength, DeletesEvWrite, Balanced, Bev
  <1>4. Follows(bev, input) => Follows(bev', input')
    BY <1>1, <1>2 DEF TestsLength, DeletesEvWrite, Follows, Watches, OnlyEvents
  <1> QED  BY <1>1, <1>3, <1>4, InsideStep DEF Outside, Places, InApplication

LEMMA DeferredKeeps ==
  ASSUME Life, RunsDeferred \/ RunsPendingEvent
  PROVE  Life' /\ Silent
  <1>1. /\ bev \in Bev /\ input \in Nat /\ socket \in Sockets
        /\ at \in {"DEFERRED", "pending event"}
        /\ UNCHANGED <<pc, input, socket>>
    BY DEF Life, Typed, RunsDeferred, RunsPendingEvent, elsewhere
  <1>2. lock' \in Threads
    BY DEF RunsDeferred, RunsPendingEvent, ForCallback, Lock, Threads
  <1>3. /\ at' \in {"read callback", "event callback", "pending event", "end"}
        /\ at' \in InApplication => bev.callbacks
    BY DEF RunsDeferred, RunsPendingEvent, InApplication
  <1>4. /\ Kept(bev, [bev EXCEPT !.read_pending = FALSE])
        /\ Kept(bev, [bev EXCEPT !.event_pending = FALSE])
        /\ Kept(bev, bev)
    <2>1. FALSE \in BOOLEAN
      OBVIOUS
    <2> QED
      BY ONLY <1>1, <2>1, PendingStruct, KeptItself
  <1>5. Kept(bev, bev')
    BY <1>4 DEF RunsDeferred, RunsPendingEvent
  <1>6. /\ bev' \in Bev /\ Balanced(bev, bev')
        /\ Follows(bev, input) => Follows(bev', input')
    BY <1>1, <1>5 DEF Kept, KeepsReading
  <1> QED  BY <1>1, <1>2, <1>3, <1>6, InsideStep DEF Outside, Places, InApplication

LEMMA ReadCallbackKeeps ==
  ASSUME Life, BufferedOnRead
  PROVE  Life' /\ Silent
  <1>1. /\ bev \in Bev /\ input \in Nat /\ input' = 0 /\ socket \in Sockets /\ lock \in Threads
        /\ at = "read callback" /\ at' \in {"pending event", "end"}
        /\ UNCHANGED <<pc, socket, lock>>
    BY DEF Life, Typed, BufferedOnRead, Free, elsewhere
  <1>2. /\ InputChanged(bev, 0) \in Bev /\ Balanced(bev, InputChanged(bev, 0))
        /\ Follows(bev, input) => Follows(InputChanged(bev, 0), 0)
    <2>1. 0 \in Nat
      OBVIOUS
    <2> QED  BY <1>1, <2>1, InputChangedStruct, Zenon
  <1>3. Balanced(bev, bev)
    BY <1>1, KeptItself
  <1>4. /\ bev' \in Bev /\ Balanced(bev, bev')
        /\ Follows(bev, input) => Follows(bev', input')
    BY <1>1, <1>2, <1>3 DEF BufferedOnRead
  <1> QED  BY <1>1, <1>4, InsideStep DEF Outside, Places, InApplication

LEMMA EventCallbackKeeps ==
  ASSUME Life, BufferedOnError \/ Unlinks
  PROVE  Life' /\ Silent
  <1>1. /\ bev \in Bev /\ input \in Nat /\ socket \in Sockets /\ lock \in Threads
        /\ at \in {"event callback", "unlink"} /\ at' \in {"unlink", "free"}
        /\ UNCHANGED <<pc, socket, lock, bev, input>>
    BY DEF Life, Typed, BufferedOnError, Unlinks
  <1>2. bev' \in Bev /\ Balanced(bev, bev')
    BY <1>1, KeptItself
  <1>3. bev.callbacks
    BY <1>1 DEF Life, Ending, InApplication
  <1> QED  BY <1>1, <1>2, <1>3, InsideStep DEF Outside, Places, InApplication

\* epoll_dispatch() makes active what is watched, which after the end is nothing.
LEMMA PollsKeeps ==
  ASSUME Life, Polls
  PROVE  Life' /\ Silent
  <1> DEFINE x == bev.active \cup Ready
  <1>1. bev \in Bev /\ bev.watched \subseteq Types /\ bev.active \subseteq Callbacks
    BY DEF Life, Typed, Bev
  <1>2. Ready \subseteq bev.watched /\ x \in SUBSET Callbacks
        /\ "DEFERRED" \notin Ready /\ "FINALIZE" \notin Ready
    BY <1>1 DEF Ready, Types, Callbacks
  <1>3. bev' = [bev EXCEPT !.active = x] /\ at = "wait" /\ at' = "run"
        /\ UNCHANGED <<input, lock, socket, pc>>
    BY DEF Polls, elsewhere
  <1> HIDE DEF x
  <1>4. /\ bev' \in Bev /\ bev'.active = x
        /\ bev'.enabled = bev.enabled /\ bev'.suspended = bev.suspended /\ bev'.high = bev.high
        /\ bev'.refcnt = bev.refcnt /\ bev'.callbacks = bev.callbacks
        /\ bev'.watched = bev.watched /\ bev'.gone = bev.gone
    BY <1>1, <1>2, <1>3, ActiveStruct
  <1>5. Typed'
    BY <1>3, <1>4 DEF Life, Typed, Places
  <1>6. EveryReferenceIsHeld'
    BY <1>2, <1>3, <1>4 DEF x, Life, EveryReferenceIsHeld, Outside, One
  <1>7. Ending'
    BY <1>2, <1>3, <1>4 DEF x, Life, Ending, InApplication
  <1>8. Watermark'
    BY <1>3, <1>4 DEF Life, Watermark, Follows, Watches
  <1>9. Silent
    BY <1>3, <1>4 DEF Silent
  <1> QED  BY <1>5, <1>6, <1>7, <1>8, <1>9 DEF Life

\* The deferred callback takes its reference with it when it is picked.
LEMMA PicksKeeps ==
  ASSUME Life, Picks
  PROVE  Life' /\ Silent
  <1>1. bev \in Bev /\ bev.active \subseteq Callbacks /\ bev.refcnt \in Nat
    BY DEF Life, Typed, Bev
  <1>2. at = "run" /\ UNCHANGED <<input, lock, socket, pc>>
    BY DEF Picks, elsewhere
  <1>3. CASE bev.active = {} /\ at' = "wait" /\ UNCHANGED bev
    BY <1>2, <1>3 DEF Life, Typed, Places, EveryReferenceIsHeld, Outside, Ending,
                     InApplication, Watermark, Silent
  <1>4. ASSUME NEW c \in bev.active, at' = c, bev' = [bev EXCEPT !.active = @ \ {c}]
        PROVE  Life' /\ Silent
    <2>1. bev.active \ {c} \in SUBSET Callbacks /\ c \in Callbacks
      BY <1>1
    <2>2. /\ bev' \in Bev /\ bev'.active = bev.active \ {c}
          /\ bev'.enabled = bev.enabled /\ bev'.suspended = bev.suspended /\ bev'.high = bev.high
          /\ bev'.refcnt = bev.refcnt /\ bev'.callbacks = bev.callbacks
          /\ bev'.watched = bev.watched /\ bev'.gone = bev.gone
      BY <1>1, <1>4, <2>1, ActiveStruct
    <2>3. Typed'
      BY <1>2, <1>4, <2>1, <2>2 DEF Life, Typed, Places
    <2>4. EveryReferenceIsHeld'
      BY <1>1, <1>2, <1>4, <2>1, <2>2
      DEF Life, EveryReferenceIsHeld, Outside, One, Callbacks
    <2>5. Ending'
      <3>1. Ending
        BY DEF Life
      <3>2. bev.refcnt = 0 => c = "FINALIZE"
        BY <1>4, <3>1 DEF Ending
      <3>3. c \in {"READ", "WRITE"} => bev.refcnt > 0
        BY <1>1, <3>2
      <3>4. c \notin InApplication
        BY <2>1 DEF Callbacks, InApplication
      <3>5. bev'.refcnt = 0 => bev'.watched = {} /\ bev'.active \subseteq {"FINALIZE"}
        BY <2>2, <3>1 DEF Ending
      <3>6. "FINALIZE" \in bev'.active \/ c = "FINALIZE" \/ bev'.gone => bev'.refcnt = 0
        BY <1>4, <2>2, <3>1 DEF Ending
      <3> QED  BY <1>2, <1>4, <2>2, <3>1, <3>3, <3>4, <3>5, <3>6 DEF Ending
    <2>6. Watermark'
      BY <1>2, <2>2 DEF Life, Watermark, Follows, Watches
    <2>7. Silent
      <3>1. bev.refcnt = 0 => c = "FINALIZE"
        BY <1>4 DEF Life, Ending
      <3>2. c \in {"READ", "WRITE", "DEFERRED"} => bev.refcnt > 0
        BY <1>1, <3>1
      <3>3. c \notin {"read callback", "event callback"}
        BY <2>1 DEF Callbacks
      <3> QED  BY <1>4, <2>2, <3>2, <3>3 DEF Silent
    <2> QED  BY <2>3, <2>4, <2>5, <2>6, <2>7 DEF Life
  <1> QED  BY <1>3, <1>4 DEF Picks

\* A function ends; the last reference may go with it.
LEMMA EndsKeeps ==
  ASSUME Life, Ends
  PROVE  Life' /\ Silent
  <1>1. /\ bev \in Bev /\ bev.refcnt \in Nat /\ at = "end" /\ at' = "run"
        /\ bev' = Decref(bev) /\ lock' \in Threads
        /\ UNCHANGED <<input, socket, pc>>
    BY DEF Life, Typed, Bev, Ends, Unlock, Threads, elsewhere
  <1>2. bev.refcnt > 0
    BY <1>1, InsideCounted DEF Outside
  <1>3. /\ bev' \in Bev /\ bev'.refcnt = bev.refcnt - 1
        /\ bev'.callbacks = bev.callbacks /\ bev'.gone = bev.gone
        /\ bev'.refcnt > 0 => bev'.active = bev.active /\ KeepsReading(bev, bev')
        /\ bev'.refcnt = 0 => bev'.active = {"FINALIZE"} /\ bev'.watched = {}
    BY <1>1, <1>2, DecrefStruct
  <1>4. bev'.refcnt \in Nat
    BY <1>1, <1>2, <1>3
  <1>5. Typed'
    BY <1>1, <1>3 DEF Life, Typed, Places
  <1>6. bev'.refcnt = 0 => "DEFERRED" \notin bev.active /\ ~bev.callbacks
    BY <1>1, <1>3 DEF Life, EveryReferenceIsHeld, One, Outside
  <1>7. EveryReferenceIsHeld'
    BY <1>1, <1>3, <1>4, <1>6 DEF Life, EveryReferenceIsHeld, One, Outside
  <1>8. ~bev.gone /\ "FINALIZE" \notin bev.active
    BY <1>2 DEF Life, Ending
  <1>9. Ending'
    BY <1>1, <1>3, <1>4, <1>8 DEF Life, Ending, InApplication
  <1>10. Watermark'
    BY <1>1, <1>2, <1>3 DEF Life, Watermark, KeepsReading, Typed
  <1>11. Silent
    BY <1>1, <1>3 DEF Silent
  <1> QED  BY <1>5, <1>7, <1>9, <1>10, <1>11 DEF Life

LEMMA FinalizesKeeps ==
  ASSUME Life, Finalizes
  PROVE  Life' /\ Silent
  <1>1. /\ bev \in Bev /\ at = "FINALIZE" /\ at' = "run" /\ bev.refcnt = 0
        /\ bev' = [bev EXCEPT !.gone = TRUE]
        /\ UNCHANGED <<input, socket, pc, lock>>
    BY DEF Life, Typed, Ending, Finalizes, Free, elsewhere
  <1>2. /\ bev' \in Bev /\ bev'.refcnt = bev.refcnt /\ bev'.active = bev.active
        /\ bev'.callbacks = bev.callbacks /\ bev'.watched = bev.watched /\ bev'.gone
    BY <1>1 DEF Bev
  <1>3. Typed'
    BY <1>1, <1>2 DEF Life, Typed, Places
  <1>4. EveryReferenceIsHeld' /\ Watermark'
    BY <1>1, <1>2 DEF Life, EveryReferenceIsHeld, Outside, One, Watermark
  <1>5. Ending'
    BY <1>1, <1>2 DEF Life, Ending, InApplication
  <1>6. Silent
    BY <1>1, <1>2 DEF Silent
  <1> QED  BY <1>3, <1>4, <1>5, <1>6 DEF Life

\* bufferevent_free() inside of a callback never drops the last reference.
LEMMA FreeKeeps ==
  ASSUME Life, BuffereventFree
  PROVE  Life' /\ Silent
  <1> DEFINE b == [bev EXCEPT !.callbacks = FALSE]
  <1>1. /\ bev \in Bev /\ bev.refcnt \in Nat /\ at = "free" /\ at' = "end"
        /\ bev' = Decref(b)
        /\ UNCHANGED <<input, socket, pc, lock>>
        /\ \A w \in Writers : pc[w] \in {"idle", "mutex"}
    BY DEF Life, Typed, Bev, BuffereventFree, Free, elsewhere
  <1>2. bev.callbacks /\ bev.refcnt > 1
    BY <1>1, InsideCounted DEF Life, Ending, InApplication, Outside
  <1>3. /\ b \in Bev /\ b.refcnt = bev.refcnt /\ b.active = bev.active /\ b.gone = bev.gone
        /\ b.enabled = bev.enabled /\ b.suspended = bev.suspended /\ b.high = bev.high
        /\ b.watched = bev.watched /\ ~b.callbacks
    BY <1>1 DEF Bev
  <1> HIDE DEF b
  <1>4. /\ bev' \in Bev /\ bev'.refcnt = bev.refcnt - 1 /\ bev'.refcnt > 0
        /\ ~bev'.callbacks /\ bev'.gone = bev.gone
        /\ bev'.active = bev.active /\ KeepsReading(b, bev')
    BY <1>1, <1>2, <1>3, DecrefStruct
  <1>5. Typed'
    BY <1>1, <1>4 DEF Life, Typed, Places
  <1>6. EveryReferenceIsHeld'
    BY <1>1, <1>2, <1>4 DEF Life, EveryReferenceIsHeld, One, Outside
  <1>7. Ending'
    BY <1>1, <1>2, <1>4 DEF Life, Ending, InApplication
  <1>8. Follows(b, input) /\ input \in Nat
    <2>1. Follows(bev, input) /\ input \in Nat
      BY <1>1, <1>2 DEF Life, Watermark, Typed
    <2> QED  BY <1>3, <2>1 DEF Follows, Watches
  <1>9. Watermark'
    BY <1>1, <1>4, <1>8 DEF Watermark, KeepsReading
  <1>10. Silent
    BY <1>1, <1>4 DEF Silent
  <1> QED  BY <1>5, <1>6, <1>7, <1>9, <1>10 DEF Life

PCs == {"idle", "mutex", "add", "test", "insert", "return"}

\* A step of another thread, a call or the peer: only before the end does it
\* use the bufferevent.
LEMMA AsideStep ==
  ASSUME Life, UNCHANGED <<at, input>>, lock' \in Threads, socket' \in Sockets,
         pc' \in [Writers -> PCs],
         bev' \in Bev, Balanced(bev, bev'), Follows(bev, input) => Follows(bev', input),
         \/ bev.callbacks
         \/ bev' = bev /\ \A w \in Writers : pc'[w] = pc[w] \/ pc'[w] = "idle"
  PROVE  Life' /\ Silent
  <1>1. Typed'
    BY DEF Life, Typed, PCs
  <1>2. bev.refcnt \in Nat /\ bev'.refcnt \in Nat
    BY DEF Life, Typed, Bev
  <1>3. CASE bev.callbacks
    <2>1. bev.refcnt > 0 /\ bev'.refcnt > 0
      BY <1>2, <1>3, InsideCounted DEF Balanced
    <2>2. EveryReferenceIsHeld'
      BY <1>2 DEF Life, EveryReferenceIsHeld, Balanced, One
    <2>3. Ending'
      BY <1>3, <2>1 DEF Life, Ending, Balanced
    <2>4. Watermark'
      BY <2>1 DEF Life, Watermark
    <2> QED  BY <1>1, <2>2, <2>3, <2>4 DEF Life, Silent, Balanced
  <1>4. CASE bev' = bev /\ \A w \in Writers : pc'[w] = pc[w] \/ pc'[w] = "idle"
    <2>1. Ending'
      BY <1>4 DEF Life, Ending
    <2> QED  BY <1>1, <1>4, <2>1 DEF Life, EveryReferenceIsHeld, Watermark, Silent
  <1> QED  BY <1>3, <1>4

LEMMA WritersKeep ==
  ASSUME Life, NEW w \in Writers, Begins(w) \/ WriterNext(w)
  PROVE  Life' /\ Silent
  <1>1. /\ bev \in Bev /\ lock \in Threads /\ socket \in Sockets /\ pc \in [Writers -> PCs]
    BY DEF Life, Typed, PCs
  <1>2. UNCHANGED <<at, input, socket>>
    BY DEF Begins, WriterNext, TakesMutex, Adds, TestsPending, InsertsEvWrite, Returns, inLoop
  <1>3. lock' \in Threads
    BY <1>1 DEF Begins, WriterNext, TakesMutex, Adds, TestsPending, InsertsEvWrite, Returns,
                inLoop, Lock, Threads
  <1>4. \E p \in PCs : pc' = [pc EXCEPT ![w] = p]
    BY DEF Begins, WriterNext, TakesMutex, Adds, TestsPending, InsertsEvWrite, Returns, PCs
  <1>5. pc' \in [Writers -> PCs]
    BY <1>1, <1>4
  <1>6. Balanced(bev, bev)
    BY <1>1, KeptItself
  <1>7. CASE InsertsEvWrite(w)
    <2>1. /\ OnlyEvents(bev, bev')
          /\ bev'.watched = bev.watched \cup {"WRITE"} /\ bev'.enabled = bev.enabled
          /\ bev'.suspended = bev.suspended
      BY <1>1, <1>7, SocketStruct DEF InsertsEvWrite, Types
    <2>2. bev' \in Bev /\ Balanced(bev, bev')
      BY <1>1, <2>1, EventsOnly
    <2>3. Follows(bev, input) => Follows(bev', input')
      BY <1>2, <2>1 DEF Follows, Watches, OnlyEvents
    <2>4. bev.callbacks
      BY <1>7 DEF InsertsEvWrite, Life, Ending
    <2> QED  BY <1>1, <1>2, <1>3, <1>5, <2>2, <2>3, <2>4, AsideStep
  <1>8. CASE Begins(w) \/ Adds(w) \/ TestsPending(w) \/ Returns(w)
    <2>1. bev' = bev /\ bev.callbacks
      BY <1>8 DEF Begins, Adds, TestsPending, Returns, inLoop, Listed, Life, Ending
    <2> QED  BY <1>1, <1>2, <1>3, <1>5, <1>6, <2>1, AsideStep
  <1>9. CASE TakesMutex(w)
    <2>1. bev' = bev
      BY <1>9 DEF TakesMutex
    <2>2. bev.callbacks \/ pc' = [pc EXCEPT ![w] = "idle"]
      BY <1>9 DEF TakesMutex, Listed
    <2>3. bev.callbacks \/ \A v \in Writers : pc'[v] = pc[v] \/ pc'[v] = "idle"
      BY <1>1, <2>2
    <2> QED  BY <1>1, <1>2, <1>3, <1>5, <1>6, <2>1, <2>3, AsideStep
  <1> QED  BY <1>7, <1>8, <1>9 DEF WriterNext

LEMMA CallsKeep ==
  ASSUME Life, SetsWatermark \/ Enables \/ Disables
  PROVE  Life' /\ Silent
  <1>1. /\ bev \in Bev /\ input \in Nat /\ lock \in Threads /\ socket \in Sockets
        /\ pc \in [Writers -> PCs]
    BY DEF Life, Typed, PCs
  <1>2. /\ bev.callbacks /\ UNCHANGED <<at, input, lock, pc, socket>>
    BY DEF SetsWatermark, Enables, Disables, Calls, Listed
  <1>3. Follows(bev, input)
    BY <1>2, InsideCounted DEF Life, Watermark
  <1>4. CASE SetsWatermark
    <2>1. PICK m \in Marks : bev' = Marked([bev EXCEPT !.high = m], input)
      BY <1>4 DEF SetsWatermark, Calls
    <2> DEFINE b == [bev EXCEPT !.high = m]
    <2>2. m \in Nat
      BY BuffereventAssumption
    <2>3. /\ b \in Bev /\ b.refcnt = bev.refcnt /\ b.active = bev.active /\ b.gone = bev.gone
          /\ b.enabled = bev.enabled /\ b.suspended = bev.suspended
          /\ b.watched = bev.watched /\ b.callbacks = bev.callbacks
      BY <1>1, <2>2 DEF Bev
    <2>4. bev' = Marked(b, input)
      BY <2>1
    <2> HIDE DEF b
    <2>5. Watches(b)
      BY <1>3, <2>3 DEF Follows, Watches
    <2>6. bev' \in Bev /\ Balanced(b, bev') /\ Follows(bev', input)
      BY <1>1, <2>3, <2>4, <2>5, MarkedStruct
    <2>7. Balanced(bev, bev')
      BY <2>3, <2>6 DEF Balanced
    <2> QED  BY <1>1, <1>2, <2>6, <2>7, AsideStep
  <1>5. CASE Enables \/ Disables
    <2>1. PICK t \in Types : bev' \in {Enable(bev, {t}), Disable(bev, {t})}
      BY <1>5 DEF Enables, Disables, Calls
    <2>2. bev' \in Bev /\ Balanced(bev, bev') /\ KeepsReading(bev, bev')
      BY <1>1, <2>1, EnableStruct, DisableStruct
    <2> QED  BY <1>1, <1>2, <2>2, AsideStep DEF KeepsReading
  <1> QED  BY <1>4, <1>5

LEMMA PeerKeeps ==
  ASSUME Life, PeerSends \/ PeerCloses \/ PeerReads
  PROVE  Life' /\ Silent
  <1>1. /\ bev \in Bev /\ lock \in Threads /\ socket \in Sockets /\ pc \in [Writers -> PCs]
    BY DEF Life, Typed, PCs
  <1>2. UNCHANGED <<bev, at, input, lock, pc>>
    BY DEF PeerSends, PeerCloses, PeerReads, Peer
  <1>3. socket' \in Sockets
    <2>1. CASE PeerSends
      <3>1. socket.coming - 1 \in Nat /\ socket.unread + 1 \in Nat
        BY <1>1, <2>1 DEF PeerSends, Sockets
      <3> QED  BY <1>1, <2>1, <3>1 DEF PeerSends, Peer, Sockets
    <2>2. CASE PeerCloses
      BY <1>1, <2>2 DEF PeerCloses, Peer, Sockets
    <2>3. CASE PeerReads
      BY <1>1, <2>3 DEF PeerReads, Peer, Sockets
    <2> QED  BY <2>1, <2>2, <2>3
  <1> QED  BY <1>1, <1>2, <1>3, KeptItself, AsideStep

LEMMA LifeNext ==
  ASSUME Life, [Next]_vars
  PROVE  Life' /\ Silent
  <1>1. ASSUME LoopNext  PROVE Life' /\ Silent
    BY <1>1, PollsKeeps, PicksKeeps, ReadcbKeeps, WritecbKeeps, WritesSomeKeeps, WriteEndKeeps,
       DeferredKeeps, EndsKeeps, FinalizesKeeps, ReadCallbackKeeps, EventCallbackKeeps, FreeKeeps
    DEF LoopNext
  <1>2. ASSUME UNCHANGED vars  PROVE Life' /\ Silent
    BY <1>2 DEF vars, Life, Typed, EveryReferenceIsHeld, Ending, Watermark, Silent
  <1> QED  BY <1>1, <1>2, WritersKeep, CallsKeep, PeerKeeps DEF Next

LEMMA LifeInvariant == Spec => []Life
  BY LifeInit, LifeNext, PTL DEF Spec

-----------------------------------------------------------------------------
(* What follows for reading and for the end.                               *)

\* Whatever is read, taken, enabled, disabled and marked in whatever order, the
\* bufferevent is suspended exactly at its mark and watched exactly if it is not:
\* reading neither overfills the buffer nor stops for good.
THEOREM WatermarkKept == Spec => []InputFollowsWatermark
  <1>1. Life => InputFollowsWatermark
    BY DEF Life, Watermark, Follows, Watches, InputFollowsWatermark
  <1> QED  BY <1>1, LifeInvariant, PTL

\* No reference is taken or dropped too much by any path through the callbacks,
\* with any of the options: the last one goes when the application, the deferred
\* callback and the loop have all let go.
THEOREM ReferencesCounted == Spec => []EveryReferenceIsHeld
  BY LifeInvariant, PTL DEF Life

\* bufferevent_free() is the end: no callback of the application begins after it,
\* and after the last reference the loop runs the finalizer alone.
THEOREM SilentAfterFree == Spec => NothingAfterFree
  <1>1. Life /\ [Next]_vars => [Silent]_vars
    BY LifeNext
  <1>2. Spec => [][Silent]_vars
    BY <1>1, LifeInvariant, PTL DEF Spec
  <1> QED  BY <1>2 DEF NothingAfterFree, Silent

-----------------------------------------------------------------------------
(* Writing.                                                                *)

\* Before the end only bufferevent_writecb() stops watching for writing without
\* disabling it.
Watching == bev'.refcnt > 0 => /\ bev.refcnt > 0
                               /\ KeepsWriting(bev, bev') \/ DeletesEvWrite

LEMMA ReadcbWatches ==
  ASSUME Life, Readcb
  PROVE  KeepsWriting(bev, bev')
  <1> DEFINE b == Incref(bev)
             full == b.high # 0 /\ input >= b.high
  <1>1. /\ bev \in Bev /\ input \in Nat /\ socket.unread \in Nat
    BY DEF Life, Typed, Sockets
  <1>2. b \in Bev /\ KeepsWriting(bev, b)
    BY <1>1, IncrefStruct
  <1> HIDE DEF b
  <1>3. CASE bev' = IF full THEN Suspend(b) ELSE b
    BY <1>2, <1>3, SuspendStruct DEF KeepsWriting
  <1>4. ASSUME NEW n \in 1..socket.unread, ReadsSome(b, n)
        PROVE  KeepsWriting(bev, bev')
    <2>1. n \in Nat
      BY <1>1
    <2> QED  BY <1>1, <1>2, <1>4, <2>1, ReadsStruct DEF KeepsWriting
  <1>5. CASE Fails(b, "READ")
    BY <1>2, <1>5, FailsStruct DEF Types, Kept, KeepsWriting
  <1>6. CASE bev' = b
    BY <1>2, <1>6
  <1> QED  BY <1>3, <1>4, <1>5, <1>6 DEF Readcb, b

LEMMA LoopWatches ==
  ASSUME Life, LoopNext
  PROVE  Watching
  <1>1. /\ bev \in Bev /\ bev.refcnt \in Nat /\ bev.active \subseteq Callbacks
        /\ bev.watched \subseteq Types /\ input \in Nat /\ 0 \in Nat
    BY DEF Life, Typed, Bev
  <1>2. KeepsWriting(bev, bev)
    BY DEF KeepsWriting
  <1>3. at \in {"READ", "WRITE"} \/ at \notin Outside => bev.refcnt > 0
    BY InsideCounted DEF Life, Ending
  <1>4. CASE Polls
    <2> DEFINE x == bev.active \cup Ready
    <2>1. Ready \subseteq bev.watched /\ x \in SUBSET Callbacks
      BY <1>1 DEF Ready, Types, Callbacks
    <2>2. bev' = [bev EXCEPT !.active = x]
      BY <1>4 DEF Polls
    <2> HIDE DEF x
    <2>3. /\ bev'.active = x /\ bev'.enabled = bev.enabled
          /\ bev'.watched = bev.watched /\ bev'.refcnt = bev.refcnt
      BY <1>1, <2>1, <2>2, ActiveStruct
    <2> QED  BY <2>1, <2>3 DEF x, Watching, KeepsWriting, Unwatched, ActiveIsWatched
  <1>5. CASE Picks
    <2>1. ASSUME NEW c \in bev.active, bev' = [bev EXCEPT !.active = @ \ {c}]
          PROVE  Watching
      <3>1. bev.active \ {c} \in SUBSET Callbacks
        BY <1>1
      <3>2. /\ bev'.active = bev.active \ {c} /\ bev'.enabled = bev.enabled
            /\ bev'.watched = bev.watched /\ bev'.refcnt = bev.refcnt
        BY <1>1, <2>1, <3>1, ActiveStruct
      <3> QED  BY <3>2 DEF Watching, KeepsWriting, Unwatched, ActiveIsWatched
    <2> QED  BY <1>2, <1>5, <2>1 DEF Picks, Watching
  <1>6. CASE Readcb
    BY <1>3, <1>6, ReadcbWatches DEF Readcb, Watching
  <1>7. CASE Writecb
    BY <1>1, <1>3, <1>7, IncrefStruct DEF Writecb, Watching
  <1>8. CASE WritesSome
    <2>1. bev' = bev \/ Fails(bev, "WRITE")
      BY <1>8 DEF WritesSome
    <2>2. KeepsWriting(bev, bev')
      BY <1>1, <1>2, <2>1, FailsStruct DEF Types, Kept
    <2> QED  BY <1>3, <1>8, <2>2 DEF WritesSome, Watching, Outside
  <1>9. CASE DeletesEvWrite
    BY <1>3, <1>9 DEF DeletesEvWrite, Watching, Outside
  <1>10. CASE RunsDeferred \/ RunsPendingEvent
    <2>1. bev' \in {bev, [bev EXCEPT !.read_pending = FALSE], [bev EXCEPT !.event_pending = FALSE]}
      BY <1>10 DEF RunsDeferred, RunsPendingEvent
    <2>2. KeepsWriting(bev, bev')
      BY <1>1, <1>2, <2>1, PendingStruct DEF Kept
    <2> QED  BY <1>3, <1>10, <2>2 DEF RunsDeferred, RunsPendingEvent, Watching, Outside
  <1>11. CASE Ends
    <2>1. bev' = Decref(bev) /\ bev.refcnt > 0
      BY <1>3, <1>11 DEF Ends, Outside
    <2> QED  BY <1>1, <2>1, DecrefStruct DEF Watching
  <1>12. CASE Finalizes
    <2>1. bev.refcnt = 0
      BY <1>12 DEF Finalizes, Life, Ending
    <2>2. bev'.refcnt = bev.refcnt
      BY <1>1, <1>12 DEF Finalizes, Bev
    <2> QED  BY <2>1, <2>2 DEF Watching
  <1>13. CASE BufferedOnRead
    <2>1. KeepsWriting(bev, InputChanged(bev, 0))
      BY <1>1, InputChangedStruct
    <2> QED  BY <1>2, <1>3, <1>13, <2>1 DEF BufferedOnRead, Watching, Outside
  <1>14. CASE TestsLength \/ BufferedOnError \/ Unlinks
    BY <1>2, <1>14 DEF TestsLength, BufferedOnError, Unlinks, Watching
  <1>15. CASE BuffereventFree
    <2> DEFINE b == [bev EXCEPT !.callbacks = FALSE]
    <2>1. bev' = Decref(b) /\ bev.refcnt > 0
      BY <1>3, <1>15 DEF BuffereventFree, Outside
    <2>2. /\ b \in Bev /\ b.refcnt = bev.refcnt /\ b.active = bev.active
          /\ b.enabled = bev.enabled /\ b.watched = bev.watched
      BY <1>1 DEF Bev
    <2> HIDE DEF b
    <2>3. bev'.refcnt > 0 => KeepsWriting(b, bev')
      BY <2>1, <2>2, DecrefStruct
    <2> QED  BY <2>1, <2>2, <2>3 DEF Watching, KeepsWriting, Unwatched, ActiveIsWatched
  <1> QED  BY <1>4, <1>5, <1>6, <1>7, <1>8, <1>9, <1>10, <1>11, <1>12, <1>13, <1>14, <1>15
           DEF LoopNext

LEMMA NextWatches ==
  ASSUME Life, [Next]_vars
  PROVE  Watching
  <1>1. bev \in Bev /\ bev.refcnt \in Nat /\ input \in Nat
    BY DEF Life, Typed, Bev
  <1>2. ASSUME bev' = bev  PROVE Watching
    BY <1>2 DEF Watching, KeepsWriting
  <1>3. ASSUME NEW w \in Writers, InsertsEvWrite(w)
        PROVE  Watching
    <2>1. bev.callbacks
      BY <1>3 DEF InsertsEvWrite, Life, Ending
    <2>2. /\ bev'.watched = bev.watched \cup {"WRITE"} /\ bev'.enabled = bev.enabled
      BY <1>1, <1>3, SocketStruct DEF InsertsEvWrite, Types
    <2> QED  BY <2>1, <2>2, InsideCounted
             DEF Watching, KeepsWriting, Unwatched, ActiveIsWatched
  <1>4. ASSUME NEW w \in Writers, Begins(w) \/ WriterNext(w)
        PROVE  Watching
    <2>1. bev' = bev \/ InsertsEvWrite(w)
      BY <1>4 DEF Begins, WriterNext, TakesMutex, Adds, TestsPending, Returns, inLoop
    <2> QED  BY <1>2, <1>3, <2>1
  <1>5. CASE SetsWatermark
    <2>1. PICK m \in Marks : bev' = Marked([bev EXCEPT !.high = m], input)
      BY <1>5 DEF SetsWatermark, Calls
    <2> DEFINE b == [bev EXCEPT !.high = m]
    <2>2. m \in Nat
      BY BuffereventAssumption
    <2>3. /\ b \in Bev /\ b.active = bev.active
          /\ b.enabled = bev.enabled /\ b.watched = bev.watched
      BY <1>1, <2>2 DEF Bev
    <2>4. bev' = Marked(b, input)
      BY <2>1
    <2> HIDE DEF b
    <2>5. KeepsWriting(b, bev')
      BY <1>1, <2>3, <2>4, MarkedStruct
    <2>6. bev.callbacks
      BY <1>5 DEF SetsWatermark, Calls, Listed
    <2> QED  BY <2>3, <2>5, <2>6, InsideCounted
             DEF Watching, KeepsWriting, Unwatched, ActiveIsWatched
  <1>6. CASE Enables \/ Disables
    <2>1. PICK t \in Types : bev' \in {Enable(bev, {t}), Disable(bev, {t})}
      BY <1>6 DEF Enables, Disables, Calls
    <2>2. bev.callbacks
      BY <1>6 DEF Enables, Disables, Calls, Listed
    <2> QED  BY <1>1, <2>1, <2>2, EnableStruct, DisableStruct, InsideCounted DEF Watching
  <1>7. CASE PeerSends \/ PeerCloses \/ PeerReads
    BY <1>2, <1>7 DEF PeerSends, PeerCloses, PeerReads, Peer
  <1>8. CASE UNCHANGED vars
    BY <1>2, <1>8 DEF vars
  <1> QED  BY <1>4, <1>5, <1>6, <1>7, <1>8, LoopWatches DEF Next

\* With a lock, a writer holds it from adding its packet to its return, and the
\* loop from its test of the length to what it concludes from it.
Locked ==
  Threadsafe =>
    /\ \A w \in Writers : pc[w] \in {"test", "insert", "return"} => lock = w
    /\ at \in {"write", "length", "delete"} => lock = Loop
    /\ at = "delete" => output = <<>>

Written == /\ bev.refcnt > 0 => ActiveIsWatched(bev)
           /\ Locked
           /\ OutputIsWatched

LEMMA LockedNext ==
  ASSUME Life, Locked, [Next]_vars
  PROVE  Locked'
  <1>1. Loop \notin Writers /\ Nobody \notin Writers /\ Loop # Nobody
    BY BuffereventAssumption
  <1>2. CASE LoopNext
    <2>1. UNCHANGED pc
      BY <1>2 DEF LoopNext, Polls, Picks, Readcb, Writecb, WritesSome, TestsLength,
                  DeletesEvWrite, RunsDeferred, RunsPendingEvent, Ends, Finalizes,
                  BufferedOnRead, BufferedOnError, Unlinks, BuffereventFree, elsewhere
    <2>2. lock' # lock => lock \in {Nobody, Loop}
      BY <1>2 DEF LoopNext, Polls, Picks, Readcb, Writecb, WritesSome, TestsLength,
                  DeletesEvWrite, RunsDeferred, RunsPendingEvent, Ends, Finalizes,
                  BufferedOnRead, BufferedOnError, Unlinks, BuffereventFree, Lock, Unlock,
                  Free, ForCallback
    <2>3. Threadsafe => \A w \in Writers : pc'[w] \in {"test", "insert", "return"} => lock' = w
      BY <1>1, <2>1, <2>2 DEF Locked
    <2>4. at' \in {"write", "length", "delete"} =>
            \/ Writecb \/ (WritesSome /\ at' = "length") \/ TestsLength
      <3>1. CASE Picks
        BY <3>1 DEF Picks, Life, Typed, Bev, Callbacks
      <3>2. CASE Readcb
        BY <3>2 DEF Readcb, ReadsSome, Fails
      <3>3. CASE WritesSome
        BY <3>3 DEF WritesSome, Fails
      <3> QED  BY <1>2, <3>1, <3>2, <3>3
               DEF LoopNext, Polls, DeletesEvWrite, RunsDeferred,
                   RunsPendingEvent, Ends, Finalizes, BufferedOnRead, BufferedOnError, Unlinks,
                   BuffereventFree
    <2>5. Threadsafe /\ at' \in {"write", "length", "delete"} => lock' = Loop
      BY <2>4 DEF Writecb, Lock, WritesSome, TestsLength, Locked
    <2>6. at' = "delete" => output' = <<>>
      BY <2>4 DEF Writecb, WritesSome, TestsLength
    <2> QED  BY <2>3, <2>5, <2>6 DEF Locked
  <1>3. ASSUME NEW w \in Writers, Begins(w) \/ WriterNext(w)
        PROVE  Locked'
    <2>1. /\ pc \in [Writers -> PCs] /\ at' = at
          /\ \A v \in Writers \ {w} : pc'[v] = pc[v]
      BY <1>3 DEF Life, Typed, PCs, Begins, WriterNext, TakesMutex, Adds, TestsPending,
                  InsertsEvWrite, Returns, inLoop
    <2>2. CASE Adds(w)
      BY <1>1, <2>1, <2>2 DEF Adds, Lock, Locked
    <2>3. CASE Returns(w)
      <3>1. pc'[w] = "idle" /\ output' = output /\ pc[w] = "return"
        BY <2>1, <2>3 DEF Returns
      <3>2. lock' # lock => lock = w
        BY <2>3 DEF Returns
      <3> QED  BY <1>1, <2>1, <3>1, <3>2 DEF Locked
    <2>4. CASE Begins(w) \/ TakesMutex(w) \/ TestsPending(w) \/ InsertsEvWrite(w)
      <3>1. /\ lock' = lock /\ output' = output
            /\ pc'[w] \in {"test", "insert", "return"} => pc[w] \in {"test", "insert", "return"}
        BY <2>1, <2>4 DEF Begins, TakesMutex, TestsPending, InsertsEvWrite
      <3> QED  BY <2>1, <3>1 DEF Locked
    <2> QED  BY <1>3, <2>2, <2>3, <2>4 DEF WriterNext
  <1>4. CASE \/ SetsWatermark \/ Enables \/ Disables
             \/ PeerSends \/ PeerCloses \/ PeerReads \/ UNCHANGED vars
    <2>1. UNCHANGED <<lock, at, pc, output>>
      BY <1>4 DEF SetsWatermark, Enables, Disables, Calls, PeerSends, PeerCloses, PeerReads,
                  Peer, vars
    <2> QED  BY <2>1 DEF Locked
  <1> QED  BY <1>2, <1>3, <1>4 DEF Next

\* The output comes to be there with a writer that tests, and stays until the
\* loop, which has the lock, finds it empty.
LEMMA WrittenNext ==
  ASSUME Life, Written, [Next]_vars
  PROVE  Written'
  <1>1. /\ bev'.refcnt > 0 => bev.refcnt > 0
        /\ bev'.refcnt > 0 => KeepsWriting(bev, bev') \/ DeletesEvWrite
    BY NextWatches DEF Watching
  <1>2. Locked'
    BY LockedNext DEF Written
  <1>3. CASE DeletesEvWrite
    <2>1. /\ bev \in Bev /\ bev' = SocketDisable(bev, {"WRITE"}) /\ output' = output
          /\ at = "delete"
      BY <1>3 DEF DeletesEvWrite, Life, Typed
    <2>2. bev'.active = bev.active \ {"WRITE"}
      BY <2>1, SocketStruct DEF Types
    <2>3. OutputIsWatched'
      BY <2>1 DEF Written, Locked, OutputIsWatched
    <2> QED  BY <1>2, <2>2, <2>3 DEF Written, ActiveIsWatched
  <1>4. CASE ~DeletesEvWrite
    <2>1. bev'.refcnt > 0 => /\ ActiveIsWatched(bev) /\ ActiveIsWatched(bev')
                             /\ Unwatched(bev') => Unwatched(bev)
      BY <1>1, <1>4 DEF Written, KeepsWriting
    <2>2. SUFFICES ASSUME Threadsafe, output' # <<>>, Unwatched(bev'), bev'.refcnt > 0
                   PROVE  \E w \in Writers : pc'[w] \in {"test", "insert"}
      BY <1>2, <2>1 DEF Written, OutputIsWatched, Unwatched
    <2>3. Unwatched(bev) /\ bev.refcnt > 0 /\ "WRITE" \notin bev.active
      BY <1>1, <2>1, <2>2 DEF ActiveIsWatched, Unwatched
    <2>4. pc \in [Writers -> PCs]
      BY DEF Life, Typed, PCs
    <2>5. ASSUME NEW w \in Writers, Adds(w)
          PROVE  pc'[w] = "test"
      BY <2>4, <2>5 DEF Adds
    <2>6. ASSUME ~\E w \in Writers : Adds(w)
          PROVE  output # <<>>
      <3>1. CASE WritesSome
        BY <2>2, <3>1 DEF WritesSome
      <3>2. CASE LoopNext /\ ~WritesSome
        <4>1. output' = output
          BY <3>2 DEF LoopNext, Polls, Picks, Readcb, Writecb, TestsLength,
                      DeletesEvWrite, RunsDeferred, RunsPendingEvent, Ends, Finalizes,
                      BufferedOnRead, BufferedOnError, Unlinks, BuffereventFree
        <4> QED  BY <2>2, <4>1
      <3>3. CASE ~LoopNext
        <4>1. output' = output
          BY <2>6, <3>3 DEF Next, Begins, WriterNext, TakesMutex, TestsPending, InsertsEvWrite,
                      Returns, SetsWatermark, Enables, Disables, Calls, PeerSends, PeerCloses,
                      PeerReads, Peer, vars
        <4> QED  BY <2>2, <4>1
      <3> QED  BY <3>1, <3>2, <3>3
    <2>7. ASSUME output # <<>>
          PROVE  \E w \in Writers : pc'[w] \in {"test", "insert"}
      <3>1. PICK w \in Writers : pc[w] \in {"test", "insert"}
        BY <2>2, <2>3, <2>7 DEF Written, OutputIsWatched, Unwatched
      <3>2. ~InsertsEvWrite(w)
        <4>1. ASSUME InsertsEvWrite(w)
              PROVE  "WRITE" \in bev'.watched
          BY <4>1, SocketStruct DEF InsertsEvWrite, Types, Life, Typed
        <4> QED  BY <2>2, <4>1 DEF Unwatched
      <3>3. TestsPending(w) => pc'[w] = "insert"
        BY <2>3, <2>4 DEF TestsPending, Unwatched
      <3>4. CASE LoopNext
        BY <3>1, <3>4 DEF LoopNext, Polls, Picks, Readcb, Writecb, WritesSome, TestsLength,
                    DeletesEvWrite, RunsDeferred, RunsPendingEvent, Ends, Finalizes,
                    BufferedOnRead, BufferedOnError, Unlinks, BuffereventFree, elsewhere
      <3>5. ASSUME NEW v \in Writers, Begins(v) \/ WriterNext(v)
            PROVE  pc'[w] \in {"test", "insert"}
        <4>1. CASE v = w
          BY <3>1, <3>2, <3>3, <3>5, <4>1 DEF Begins, WriterNext, TakesMutex, Adds, Returns
        <4>2. CASE v # w
          BY <2>4, <3>1, <3>5, <4>2 DEF Begins, WriterNext, TakesMutex, Adds, TestsPending,
                                        InsertsEvWrite, Returns
        <4> QED  BY <4>1, <4>2
      <3>6. CASE \/ SetsWatermark \/ Enables \/ Disables
                 \/ PeerSends \/ PeerCloses \/ PeerReads \/ UNCHANGED vars
        BY <3>1, <3>6 DEF SetsWatermark, Enables, Disables, Calls, PeerSends, PeerCloses,
                    PeerReads, Peer, vars
      <3> QED  BY <3>4, <3>5, <3>6 DEF Next
    <2> QED  BY <2>5, <2>6, <2>7
  <1> QED  BY <1>3, <1>4

\* With a lock no packet is left in the buffer by two threads that each rely on
\* the other, the writer because writing is still watched, the loop because the
\* buffer was empty: the safety part of what the run without a lock refutes.
THEOREM OutputNotForgotten == Spec => []OutputIsWatched
  <1>1. Init => Written
    BY DEF Init, Written, Locked, OutputIsWatched, ActiveIsWatched
  <1>2. Life /\ Written /\ [Next]_vars => Written'
    BY WrittenNext
  <1>3. Written => OutputIsWatched
    BY DEF Written
  <1> QED  BY <1>1, <1>2, <1>3, LifeInvariant, PTL DEF Spec

-----------------------------------------------------------------------------
(* The bufferevent's lock and the application's mutex.                     *)

\* The loop takes the mutex without the lock, whoever has the lock.
UnlockedCallback == at = "event callback" => lock # Loop

\* If callbacks run unlocked, or nothing is locked at all, a thread that holds the
\* mutex and wants the lock never meets the loop holding the lock and wanting the
\* mutex.
THEOREM NoEmbrace ==
  ASSUME Unlocking \/ ~Threadsafe
  PROVE  Spec => []NoDeadlyEmbrace
  <1> DEFINE Inv == UnlockedCallback /\ (~Threadsafe => lock = Nobody)
  <1>0. Loop \notin Writers /\ Nobody \notin Writers /\ Loop # Nobody /\ (Unlocking => Deferring)
    BY BuffereventAssumption DEF Unlocking, Deferring
  <1>1. Init => Inv
    BY <1>0 DEF Init, UnlockedCallback
  <1>2. ASSUME Life, Inv, [Next]_vars
        PROVE  Inv'
    <2>1. CASE LoopNext
      <3>1. ~Threadsafe => lock' = Nobody
        BY <1>2, <2>1 DEF LoopNext, Polls, Picks, Readcb, Writecb, WritesSome, TestsLength,
                    DeletesEvWrite, RunsDeferred, RunsPendingEvent, Ends, Finalizes,
                    BufferedOnRead, BufferedOnError, Unlinks, BuffereventFree, Lock, Unlock,
                    Free, ForCallback
      <3>2. Threadsafe /\ at' = "event callback" => RunsPendingEvent
        <4>1. CASE Picks
          BY <1>2, <4>1 DEF Picks, Life, Typed, Bev, Callbacks
        <4>2. CASE Readcb \/ WritesSome
          BY <1>0, <4>2 DEF Readcb, WritesSome, ReadsSome, Fails
        <4> QED  BY <2>1, <4>1, <4>2
                 DEF LoopNext, Polls, Writecb, TestsLength, DeletesEvWrite, RunsDeferred, Ends,
                     Finalizes, BufferedOnRead, BufferedOnError, Unlinks, BuffereventFree
      <3>3. Threadsafe /\ at' = "event callback" => lock' = Nobody
        BY <3>2 DEF RunsPendingEvent, ForCallback
      <3> QED  BY <1>0, <3>1, <3>3 DEF UnlockedCallback
    <2>2. ASSUME NEW w \in Writers, Begins(w) \/ WriterNext(w)
          PROVE  Inv'
      <3>1. at' = at /\ lock' \in {lock, w, Nobody} /\ (~Threadsafe => lock' \in {lock, Nobody})
        BY <2>2 DEF Begins, WriterNext, TakesMutex, Adds, TestsPending, InsertsEvWrite, Returns,
                    inLoop, Lock
      <3> QED  BY <1>0, <1>2, <3>1 DEF UnlockedCallback
    <2>3. CASE \/ SetsWatermark \/ Enables \/ Disables
               \/ PeerSends \/ PeerCloses \/ PeerReads \/ UNCHANGED vars
      <3>1. UNCHANGED <<lock, at>>
        BY <2>3 DEF SetsWatermark, Enables, Disables, Calls, PeerSends, PeerCloses, PeerReads,
                    Peer, vars
      <3> QED  BY <1>2, <3>1 DEF UnlockedCallback
    <2> QED  BY <1>2, <2>1, <2>2, <2>3 DEF Next
  <1>3. Inv => NoDeadlyEmbrace
    BY DEF UnlockedCallback, NoDeadlyEmbrace
  <1> QED  BY <1>1, <1>2, <1>3, LifeInvariant, PTL DEF Spec
=============================================================================
