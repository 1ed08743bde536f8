---------------------------- MODULE Bufferevent ----------------------------
(***************************************************************************)
(* bufferevent.c and bufferevent_sock.c: a socket with a buffer for input  *)
(* and one for output, between the event loop, which reads and writes the  *)
(* socket, and threads that add packets to the output.  Of the two buffers *)
(* (Evbuffer) and of the event base (EventLoop) this module keeps what     *)
(* they promise: a string, and the events that are watched and active.     *)
(*                                                                         *)
(* Without BEV_OPT_THREADSAFE there is no lock, and a step is one access to*)
(* what the threads share.  Of executions without the lock, these are the  *)
(* ones in which no two such accesses overlap; in the others the memory of *)
(* buffer and base may come to hold anything.                              *)
(*                                                                         *)
(* The application is that of server.c: its read callback takes all there  *)
(* is, its event callback takes a mutex and frees the bufferevent, and some*)
(* of its threads write while they hold that mutex.                        *)
(***************************************************************************)
EXTENDS Integers, Sequences, SequencesExt

CONSTANTS
  Options,     \* the options of bufferevent_socket_new()
  Writers,     \* the threads that call bufferevent_write()
  Holders,     \* those that hold the application's mutex meanwhile
  Loop,        \* the thread of the event loop
  Nobody,      \* no thread
  Room,        \* what the socket holds until the peer reads
  Marks,       \* the high-water marks that the application may set; 0: none
  MaxWrites,   \* bound: the packets that each writer writes
  MaxArrivals, \* bound: the units that the peer sends
  MaxCalls     \* bound: the calls that enable, disable and set marks

ASSUME BuffereventAssumption ==
  /\ Options \subseteq {"THREADSAFE", "DEFER_CALLBACKS", "UNLOCK_CALLBACKS"}
  /\ "UNLOCK_CALLBACKS" \in Options => "DEFER_CALLBACKS" \in Options
  /\ Holders \subseteq Writers
  /\ Loop \notin Writers /\ Nobody \notin Writers \cup {Loop}
  /\ Room \in Nat \ {0}
  /\ Marks \subseteq Nat
  /\ {MaxWrites, MaxArrivals, MaxCalls} \subseteq Nat

VARIABLES
  bev,      \* the struct bufferevent_private, and its callbacks in the event base
  output,   \* its buffer for output: packets
  input,    \* the number of units in its buffer for input
  lock,     \* who holds the bufferevent's lock
  mutex,    \* who holds the application's mutex
  at,       \* where the loop is
  pc,       \* where each writer is
  socket,   \* both directions of the connection
  sent,     \* history: the packets that were written to the socket
  written,  \* the number of packets of each writer so far
  calls     \* the number of other calls so far

vars == <<bev, output, input, lock, mutex, at, pc, socket, sent, written, calls>>

Types == {"READ", "WRITE"}
Threadsafe == "THREADSAFE" \in Options
Deferring == "DEFER_CALLBACKS" \in Options
Unlocking == "UNLOCK_CALLBACKS" \in Options

\* on_accept(): bufferevent_socket_new(), bufferevent_setcb() and
\* bufferevent_enable(EV_READ).
Init ==
  /\ bev = [enabled |-> Types,
            suspended |-> FALSE,     \* read_suspended
            high |-> 0,              \* wm_read.high
            refcnt |-> 1,
            callbacks |-> TRUE,      \* bufferevent_free() was not called
            read_pending |-> FALSE,  \* readcb_pending
            event_pending |-> FALSE, \* eventcb_pending
            watched |-> {"READ"},    \* which of ev_read and ev_write are inserted
            active |-> {},           \* the callbacks that the loop has yet to run
            gone |-> FALSE]          \* its memory was freed
  /\ output = <<>>
  /\ input = 0
  /\ lock = Nobody
  /\ mutex = Nobody
  /\ at = "wait"
  /\ pc = [w \in Writers |-> "idle"]
  /\ socket = [coming |-> MaxArrivals, unread |-> 0, closed |-> FALSE, full |-> 0]
  /\ sent = <<>>
  /\ written = [w \in Writers |-> 0]
  /\ calls = 0

---------------------------------------------------------------------------
(* What the code makes of bev.                                             *)

\* be_socket_enable() and be_socket_disable().
SocketEnable(b, types) == [b EXCEPT !.watched = @ \cup types]
SocketDisable(b, types) == [b EXCEPT !.watched = @ \ types, !.active = @ \ types]

\* bufferevent_enable() and bufferevent_disable().
Enable(b, types) ==
  SocketEnable([b EXCEPT !.enabled = @ \cup types],
               types \ (IF b.suspended THEN {"READ"} ELSE {}))
Disable(b, types) == SocketDisable([b EXCEPT !.enabled = @ \ types], types)

\* bufferevent_suspend_read_() and bufferevent_unsuspend_read_().
Suspend(b) ==
  [(IF b.suspended THEN b ELSE SocketDisable(b, {"READ"})) EXCEPT !.suspended = TRUE]
Unsuspend(b) == SocketEnable([b EXCEPT !.suspended = FALSE], {"READ"} \cap b.enabled)

\* Mutant: a buffer that is as long as the mark is not full.
MarkedAbove(b, length) ==
  IF b.high # 0 /\ length > b.high THEN Suspend(b) ELSE Unsuspend(b)

\* bufferevent_inbuf_wm_cb(), and the same test in bufferevent_setwatermark().
Marked(b, length) ==
  IF b.high # 0 /\ length >= b.high THEN Suspend(b) ELSE Unsuspend(b)

\* The callback of the buffer for input is enabled while there is a mark.
InputChanged(b, length) == IF b.high = 0 THEN b ELSE Marked(b, length)

\* Mutant: a reference is taken although the callback is scheduled already.
ScheduleAgain(b) == [b EXCEPT !.refcnt = @ + 1, !.active = @ \cup {"DEFERRED"}]

\* SCHEDULE_DEFERRED().
Schedule(b) ==
  IF "DEFERRED" \in b.active THEN b
  ELSE [b EXCEPT !.refcnt = @ + 1, !.active = @ \cup {"DEFERRED"}]

Incref(b) == [b EXCEPT !.refcnt = @ + 1]

\* Mutant: what is active stays active.
DecrefOnly(b) ==
  IF b.refcnt > 1 THEN [b EXCEPT !.refcnt = @ - 1]
  ELSE [b EXCEPT !.refcnt = 0, !.watched = {}, !.active = @ \cup {"FINALIZE"}]

\* bufferevent_decref_and_unlock_(); after the last reference, the base runs the
\* finalizer in place of every other callback.
Decref(b) ==
  IF b.refcnt > 1 THEN [b EXCEPT !.refcnt = @ - 1]
  ELSE [b EXCEPT !.refcnt = 0, !.watched = {}, !.active = {"FINALIZE"}]

---------------------------------------------------------------------------
(* The lock is recursive.                                                  *)

Lock(t) == lock \in {Nobody, t} /\ lock' = IF Threadsafe THEN t ELSE Nobody
Free(t) == lock \in {Nobody, t} /\ UNCHANGED lock
Unlock(t) == lock \in {Nobody, t} /\ lock' = Nobody

\* Mutant: the lock is kept.
LockedCallback(t) == lock \in {Nobody, t} /\ lock' = IF Threadsafe THEN t ELSE Nobody

\* UNLOCKED(), or bufferevent_run_deferred_callbacks_locked().
ForCallback(t) ==
  lock \in {Nobody, t} /\ lock' = IF Unlocking \/ ~Threadsafe THEN Nobody ELSE t

---------------------------------------------------------------------------
(* The event loop.                                                         *)

elsewhere == <<mutex, pc, written, calls>>

Ready ==
  {t \in bev.watched : IF t = "READ" THEN socket.unread > 0 \/ socket.closed
                       ELSE socket.full < Room \/ socket.closed}

\* epoll_dispatch().
Polls ==
  /\ at = "wait"
  /\ Ready \cup bev.active # {}
  /\ bev' = [bev EXCEPT !.active = @ \cup Ready]
  /\ at' = "run"
  /\ UNCHANGED <<output, input, lock, socket, sent, elsewhere>>

\* event_process_active() takes a callback, whichever it is, from its queue.
Picks ==
  /\ at = "run"
  /\ IF bev.active = {} THEN at' = "wait" /\ UNCHANGED bev
     ELSE \E c \in bev.active : at' = c /\ bev' = [bev EXCEPT !.active = @ \ {c}]
  /\ UNCHANGED <<output, input, lock, socket, sent, elsewhere>>

\* bufferevent_run_eventcb_(), after bufferevent_disable().
Fails(b, type) ==
  /\ bev' = IF ~b.callbacks \/ ~Deferring THEN Disable(b, {type})
            ELSE Schedule([Disable(b, {type}) EXCEPT !.event_pending = TRUE])
  /\ at' = IF b.callbacks /\ ~Deferring THEN "event callback" ELSE "end"

\* evbuffer_read() and bufferevent_run_readcb_().
ReadsSome(b, n) ==
  LET filled == InputChanged(b, input + n)
  IN /\ input' = input + n
     /\ socket' = [socket EXCEPT !.unread = @ - n]
     /\ bev' = IF ~b.callbacks \/ ~Deferring THEN filled
               ELSE Schedule([filled EXCEPT !.read_pending = TRUE])
     /\ at' = IF b.callbacks /\ ~Deferring THEN "read callback" ELSE "end"

\* bufferevent_readcb().
Readcb ==
  LET b == Incref(bev)
      full == b.high # 0 /\ input >= b.high
  IN /\ at = "READ"
     /\ Lock(Loop)
     /\ \/ /\ full \/ b.suspended
           /\ bev' = IF full THEN Suspend(b) ELSE b
           /\ at' = "end"
           /\ UNCHANGED <<input, socket>>
        \/ /\ ~full /\ ~b.suspended
           /\ \E n \in 1..socket.unread :
                /\ b.high # 0 => input + n <= b.high
                /\ ReadsSome(b, n)
        \/ /\ ~full /\ ~b.suspended
           /\ socket.unread = 0
           /\ IF socket.closed THEN Fails(b, "READ") ELSE bev' = b /\ at' = "end"
           /\ UNCHANGED <<input, socket>>
     /\ UNCHANGED <<output, sent, elsewhere>>

\* bufferevent_writecb() up to its test for something to write.
Writecb ==
  /\ at = "WRITE"
  /\ Lock(Loop)
  /\ bev' = Incref(bev)
  /\ at' = IF output = <<>> THEN "length" ELSE "write"
  /\ UNCHANGED <<output, input, socket, sent, elsewhere>>

\* evbuffer_write_atmost(): the socket takes some, takes none, or fails.
WritesSome ==
  /\ at = "write"
  /\ \/ \E n \in 1..Len(output) :
          /\ socket.full + n <= Room
          /\ socket' = [socket EXCEPT !.full = @ + n]
          /\ sent' = sent \o SubSeq(output, 1, n)
          /\ output' = SubSeq(output, n + 1, Len(output))
          /\ at' = "length"
          /\ UNCHANGED bev
     \/ /\ socket.full = Room
        /\ at' = "length"
        /\ UNCHANGED <<bev, output, socket, sent>>
     \/ /\ socket.closed
        /\ Fails(bev, "WRITE")
        /\ UNCHANGED <<output, socket, sent>>
  /\ UNCHANGED <<input, lock, elsewhere>>

\* Mutant: writing ends whatever is left.
StopsWriting ==
  /\ at = "length"
  /\ at' = "delete"
  /\ UNCHANGED <<bev, output, input, lock, socket, sent, elsewhere>>

TestsLength ==
  /\ at = "length"
  /\ at' = IF output = <<>> THEN "delete" ELSE "end"
  /\ UNCHANGED <<bev, output, input, lock, socket, sent, elsewhere>>

DeletesEvWrite ==
  /\ at = "delete"
  /\ bev' = SocketDisable(bev, {"WRITE"})
  /\ at' = "end"
  /\ UNCHANGED <<output, input, lock, socket, sent, elsewhere>>

\* bufferevent_run_deferred_callbacks_unlocked() or _locked().
RunsDeferred ==
  /\ at = "DEFERRED"
  /\ IF bev.read_pending /\ bev.callbacks
     THEN /\ bev' = [bev EXCEPT !.read_pending = FALSE]
          /\ at' = "read callback"
          /\ ForCallback(Loop)
     ELSE at' = "pending event" /\ Lock(Loop) /\ UNCHANGED bev
  /\ UNCHANGED <<output, input, socket, sent, elsewhere>>

RunsPendingEvent ==
  /\ at = "pending event"
  /\ IF bev.event_pending /\ bev.callbacks
     THEN /\ bev' = [bev EXCEPT !.event_pending = FALSE]
          /\ at' = "event callback"
          /\ ForCallback(Loop)
     ELSE at' = "end" /\ Lock(Loop) /\ UNCHANGED bev
  /\ UNCHANGED <<output, input, socket, sent, elsewhere>>

\* The end of each function that is run by the loop.
Ends ==
  /\ at = "end"
  /\ Unlock(Loop)
  /\ bev' = Decref(bev)
  /\ at' = "run"
  /\ UNCHANGED <<output, input, socket, sent, elsewhere>>

\* bufferevent_finalize_cb_().
Finalizes ==
  /\ at = "FINALIZE"
  /\ Free(Loop)
  /\ bev' = [bev EXCEPT !.gone = TRUE]
  /\ at' = "run"
  /\ UNCHANGED <<output, input, socket, sent, elsewhere>>

---------------------------------------------------------------------------
(* The application's callbacks.                                            *)

\* buffered_on_read(): bufferevent_read() takes all there is.
BufferedOnRead ==
  /\ at = "read callback"
  /\ Free(Loop)
  /\ bev' = IF input = 0 THEN bev ELSE InputChanged(bev, 0)
  /\ input' = 0
  /\ at' = IF Deferring THEN "pending event" ELSE "end"
  /\ UNCHANGED <<output, socket, sent, elsewhere>>

\* buffered_on_error(): the mutex, for the list of connections.
BufferedOnError ==
  /\ at = "event callback"
  /\ mutex = Nobody
  /\ mutex' = Loop
  /\ at' = "unlink"
  /\ UNCHANGED <<bev, output, input, lock, socket, sent, pc, written, calls>>

Unlinks ==
  /\ at = "unlink"
  /\ mutex' = Nobody
  /\ at' = "free"
  /\ UNCHANGED <<bev, output, input, lock, socket, sent, pc, written, calls>>

\* bufferevent_free(), which no application may call while one of its threads is
\* about to use the bufferevent.
BuffereventFree ==
  /\ at = "free"
  /\ \A w \in Writers : pc[w] \in {"idle", "mutex"}
  /\ Free(Loop)
  /\ bev' = Decref([bev EXCEPT !.callbacks = FALSE])
  /\ at' = "end"
  /\ UNCHANGED <<output, input, socket, sent, elsewhere>>

LoopNext ==
  \/ Polls \/ Picks
  \/ Readcb \/ Writecb \/ WritesSome \/ TestsLength \/ DeletesEvWrite
  \/ RunsDeferred \/ RunsPendingEvent \/ Ends \/ Finalizes
  \/ BufferedOnRead \/ BufferedOnError \/ Unlinks \/ BuffereventFree

---------------------------------------------------------------------------
(* The writers.                                                            *)

inLoop == <<input, at, socket, sent, calls>>

\* The list has the connection until it is unlinked.
Listed == bev.callbacks /\ at # "free"

Begins(w) ==
  /\ pc[w] = "idle"
  /\ written[w] < MaxWrites
  /\ Listed
  /\ pc' = [pc EXCEPT ![w] = IF w \in Holders THEN "mutex" ELSE "add"]
  /\ UNCHANGED <<bev, output, lock, mutex, written, inLoop>>

\* assign_orders() looks for the connection under the mutex.
TakesMutex(w) ==
  /\ pc[w] = "mutex"
  /\ mutex = Nobody
  /\ IF Listed THEN mutex' = w /\ pc' = [pc EXCEPT ![w] = "add"]
     ELSE pc' = [pc EXCEPT ![w] = "idle"] /\ UNCHANGED mutex
  /\ UNCHANGED <<bev, output, lock, written, inLoop>>

\* bufferevent_write(): evbuffer_add() up to its callback.
Adds(w) ==
  /\ pc[w] = "add"
  /\ Lock(w)
  /\ output' = Append(output, <<w, written[w] + 1>>)
  /\ written' = [written EXCEPT ![w] = @ + 1]
  /\ pc' = [pc EXCEPT ![w] = "test"]
  /\ UNCHANGED <<bev, mutex, inLoop>>

\* bufferevent_socket_outbuf_cb().
TestsPending(w) ==
  /\ pc[w] = "test"
  /\ pc' = [pc EXCEPT ![w] =
       IF "WRITE" \in bev.enabled \ (bev.watched \cup bev.active) THEN "insert" ELSE "return"]
  /\ UNCHANGED <<bev, output, lock, mutex, written, inLoop>>

InsertsEvWrite(w) ==
  /\ pc[w] = "insert"
  /\ bev' = SocketEnable(bev, {"WRITE"})
  /\ pc' = [pc EXCEPT ![w] = "return"]
  /\ UNCHANGED <<output, lock, mutex, written, inLoop>>

Returns(w) ==
  /\ pc[w] = "return"
  /\ lock' = IF lock = w THEN Nobody ELSE lock
  /\ mutex' = IF mutex = w THEN Nobody ELSE mutex
  /\ pc' = [pc EXCEPT ![w] = "idle"]
  /\ UNCHANGED <<bev, output, written, inLoop>>

WriterNext(w) ==
  TakesMutex(w) \/ Adds(w) \/ TestsPending(w) \/ InsertsEvWrite(w) \/ Returns(w)

---------------------------------------------------------------------------
(* Other calls, each of them under the lock, and the peer.                 *)

Calls(b) ==
  /\ calls < MaxCalls
  /\ Listed
  /\ lock = Nobody
  /\ bev' = b
  /\ calls' = calls + 1
  /\ UNCHANGED <<output, input, lock, mutex, at, pc, socket, sent, written>>

SetsWatermark ==
  \E m \in Marks : Calls(Marked([bev EXCEPT !.high = m], input))
Enables == \E t \in Types : Calls(Enable(bev, {t}))
Disables == \E t \in Types : Calls(Disable(bev, {t}))

Peer(s) ==
  /\ socket' = s
  /\ UNCHANGED <<bev, output, input, lock, mutex, at, pc, sent, written, calls>>

PeerSends ==
  /\ ~socket.closed /\ socket.coming > 0
  /\ Peer([socket EXCEPT !.coming = @ - 1, !.unread = @ + 1])
PeerCloses == ~socket.closed /\ Peer([socket EXCEPT !.closed = TRUE])
PeerReads == ~socket.closed /\ socket.full > 0 /\ Peer([socket EXCEPT !.full = @ - 1])

Next ==
  \/ LoopNext
  \/ \E w \in Writers : Begins(w) \/ WriterNext(w)
  \/ SetsWatermark \/ Enables \/ Disables
  \/ PeerSends \/ PeerCloses \/ PeerReads

Spec == Init /\ [][Next]_vars

\* The threads are scheduled, and the peer reads what it is sent.
Fairness ==
  /\ WF_vars(LoopNext)
  /\ \A w \in Writers : WF_vars(WriterNext(w))
  /\ WF_vars(PeerReads)

FairSpec == Spec /\ Fairness

---------------------------------------------------------------------------

\* While nobody is at work on the bufferevent, it is suspended exactly if its
\* input has reached the mark, and reading is watched for exactly if it is
\* enabled and not suspended: it neither overfills nor stops for good.
InputFollowsWatermark ==
  lock = Nobody /\ bev.refcnt > 0 =>
    /\ bev.suspended <=> bev.high # 0 /\ input >= bev.high
    /\ "READ" \in bev.watched <=> "READ" \in bev.enabled /\ ~bev.suspended

\* Once bufferevent_free() is called, the application hears no more of the
\* bufferevent, and once its last reference is dropped, the loop runs nothing
\* but the finalizer, which frees the memory, and that once.
NothingAfterFree ==
  [][/\ at' # at /\ at' \in {"read callback", "event callback"} => bev.callbacks
     /\ at' # at /\ at' \in {"READ", "WRITE", "DEFERRED"} => bev.refcnt > 0
     /\ bev'.gone # bev.gone => bev'.gone /\ bev.refcnt = 0]_vars

\* "The data is appended to the output buffer and written to the descriptor
\* automatically as it becomes available for writing" (bufferevent.h:376-377): no
\* packet stays in the buffer for ever, unless writing is disabled or the
\* connection ends.
WrittenIsSent ==
  \A w \in Writers : \A n \in 1..MaxWrites :
    <>[](<<w, n>> \in ToSet(output)) =>
      <>[]("WRITE" \notin bev.enabled \/ socket.closed)

\* Threads that write under the application's mutex and callbacks that take it
\* do not wait for one another: every write and every callback returns.
CallsReturn ==
  /\ \A w \in Writers : pc[w] # "idle" ~> pc[w] = "idle"
  /\ at = "event callback" ~> at = "run"

\* A bufferevent whose bufferevent_free() was called is freed in the end: no
\* reference is lost.
FreedIsReclaimed == ~bev.callbacks ~> bev.gone
=============================================================================
