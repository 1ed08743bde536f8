# Verification of the food ordering system

TLA+ specifications of the program in `src/food-sys`, of what it uses of the
vendored libevent, and of the message server in `src/basic-server-client`,
checked with TLC and, for the thread pool, the server, the bufferevent and the
message server, proved with TLAPS.
`PROJECT.json` lists components, runs, mutants, hazards, findings, theorems, and
the lines each definition models.

## The system

| component | source | state | operations |
|---|---|---|---|
| event loop | `server.c` | list of connections, a `struct client` each, `client_q_mutex` | `on_accept`, `buffered_on_read`, `buffered_on_error`, `handler_func_dispatch` |
| packet handlers | `pkt_handlers.c`, `std_defs.h` | `state`, `menu_items`, `assigned_client`, `num_of_orders` of the structs | `reg_cook`, `cust_order`, `cook_update` (server), `cook_order`, `cust_update` (clients) |
| thread pool | `thpool.c`, `thpool.h` | job queue, binary semaphore, counts of live and working threads, `threads_keepalive`, `threads_on_hold` | init, add work, wait, destroy, pause, resume, `thread_do` |
| customer | `client.c` | one connection | order once, read until a final text |
| cook | `cook-client.c` | one connection | register once, then cook and update for ever |
| tail queue | `queue.h` (BSD) | links of the list | insert at the tail, remove, walk |
| logging | `logging.c` | none | syslog |
| event base | libevent's `event.c`, `evmap.c`, `epoll.c`, `minheap-internal.h` | queues of active callbacks, heap of timeouts, events of each descriptor, what epoll watches | add, delete, activate, schedule, finalize, and the loop |
| evbuffer | `buffer.c`, `evbuffer-internal.h` | a list of chains, the last one with data | add, prepend, drain, move, expand, read, write |
| bufferevent | `bufferevent.c`, `bufferevent_sock.c` | two evbuffers, two events, lock, references, what is suspended and deferred | write, enable, watermark, free, and the loop's callbacks |
| rest of libevent | HTTP, DNS, RPC, TLS, ... | | not used by any program here |
| message server | `src/basic-server-client` | sorted list of groups, each with a list of messages | one connection after the other |

The event loop is one thread. A packet it reads becomes a job of the thread
pool; ten threads run the handlers, at the same time as one another and as the
loop. They share the structs, of which only the list is under `client_q_mutex`;
`cook_update_handler()` and the end of `cust_order_handler()` use them without
it. The loop frees a struct when its connection ends, whatever job points at
it. A job points at its packet, too: at the local array of
`buffered_on_read()`, which the next call overwrites.

What makes each part correct:

* handlers: a cook has one order at a time; a dish of an order goes to one cook;
  a dish is marked assigned only while somebody cooks it; a cook is not left
  busy for nothing; a customer is answered, and answered truly;
* event loop: the list holds the connections there are; the mutex is released;
* thread pool: every job is executed once and in order; no wakeup is lost;
  `thpool_wait()` returns, and not early; `thpool_destroy()` returns, and frees
  nothing that is in use;
* event base: queues, counts and the kernel agree; what is deleted stays quiet;
  priorities hold and nothing that is ready or late is starved;
* evbuffer: a string is a string whatever chains it lies in, also when memory is
  short, but for two functions that do not stand that; `last_with_datap` is where every function expects it;
* bufferevent: what is written is sent; input stops at the mark and goes on below
  it; no callback after the end, memory freed once; no deadlock with the
  application's mutex;
* message server: the lists stay sorted and whole; every client is served, with
  one message in its group.

The hard behaviour is the interleaving of handlers with one another and with the
loop, memory that is freed and allocated again under a pointer, the semaphore,
and callbacks that change the queues they are called from. Nothing is persisted, and a client never reconnects.

## Modules

`JobPool` is the abstract thread pool: a queue, and what each thread executes.
`ThreadPool` models `thpool.c` and implements it; `PausedPool` adds
`thpool_pause()` and `thpool_resume()`; `ThreadPoolProofs`
proves things about both. `FoodServer` is composed with `JobPool` (`Pool == INSTANCE`):
its event loop submits, its workers take and complete; that `thpool.c` is such a
pool is the theorem `Refines`. `FoodServerProofs` proves what holds of the
server's memory and follows the cooks; `Reuse` extends `FoodServer` with the history of
memory used again, and `OrderProofs`, about it, follows the orders and the dishes;
`BuffereventProofs` is about the bufferevent alone. `Bufferevent` looks beneath `FoodServer`'s
`BuffereventWrite`: the same threads and callbacks, with libevent's buffer, lock
and events. `EventLoop` extends `EvMap` (descriptors) and `MinHeap` (timeouts), and
`EventLoopProofs` rests on `MinHeapProofs`;
`Evbuffer` is the buffers by themselves, and `EvbufferProofs`, which takes lemmas on
numbers and folds from `MinHeapProofs` too, what is proved of them; of both, `Bufferevent` keeps what they
promise: a string, and events that are watched and active. `GroupList` is the
other program, and `GroupListProofs` what is proved of it. Each has an `MC` module that instantiates it for TLC.

### ThreadPool

A step is a critical section of one mutex or an unprotected access to shared
memory. `pc[w]` is where thread `w` is in `thread_do()`, `call[c]` where a
caller is in a function of `thpool.h`. `jobqueue` is the linked list as a
sequence, its `len` the length; `has_jobs` is the semaphore's `v`. The
semaphore's mutex is never held across a step and is left out. `rwmutex` and
`thcount_lock` are variables because `jobqueue_pull()`, `jobqueue_push()`,
`thpool_wait()` and the exit of a thread are split while they hold them: the
queue changes, then the semaphore is posted (`PullsFirst`, `PostsRest`); the
length of the queue is read, then the count (`SeesNoJobs`, `SeesWork`). A thread
in `pthread_cond_wait()` is `"asleep"`; a signal moves one sleeper, any one, to
where it tests its condition again, and up to `MaxSpurious` wakeups come for no
reason. `thpool_destroy()`'s two loops differ in how long they wait between
posts only, and are one action. Assumed of the callers, as `thpool.h` expects of
them: the pool is used after `thpool_init()` has returned, and destroyed, once,
by a caller when no other call is under way.

### PausedPool

`handler[w]` is what has become of the signal that `thpool_pause()` sends to
thread `w`. Until it is delivered the thread goes on; then it takes no step of
`ThreadPool` while `thread_hold()` runs, with the mutexes it holds, and others may
wake it from a condition variable meanwhile. A step of `ThreadPool` that is a
critical section is not interrupted: a thread held inside it delays the others as
one that is held right before it does. The program pauses a pool it has not
destroyed.

### FoodServer

Processes: each client program (`peer`), the event loop, each thread (`pc`,
`frame` for its locals). A handler is split at each access that another process
can see; under the mutex a visit of one list element is a step (`VisitSkips`,
`VisitAssigns`), and everything outside it re-reads what the code re-reads.
`client[a]` is the memory at address `a`, `struct_of[p]` the address of the
connection of `p`, `NoClient` once it is freed. `on_accept()` may reuse any free
address. A handler of a freed struct reads what is left there (`StateSeen`) or
ends the server (`Crash`); a write through a freed `buf_ev` always ends it.

`data` is `buffered_on_read()`'s array. When the packet there is not of the
type a job was dispatched for, the job may read any packet of its own type
(`Seen`, `Misread`), but no dish number outside the menu, for which
`cust_order_handler()` would write outside `menu_items`. `Paced = TRUE` restricts runs to executions in which no packet is read
while a job has yet to read its own: the packet is intact in them, since it lies
at the low end of an 8 KB array, deeper in the stack than the loop's other
calls reach. The runs about orders are paced, because an order that is
overwritten makes each of their properties meaningless; `memory` and `roles` are
not.

Abstractions:

* Packets carry sets of dishes and the number of entries; names and the texts'
  wording are dropped but for the three kinds of text a client tells apart.
* A packet arrives whole. The client programs send the next only after an answer
  to the last, so two never arrive in one read.
* Three loops over `menu_items` hold no mutex, and touch an entry a step:
  `reg_cook_handler()` fills the entries (`RegCookMenu`), `cook_update_handler()`
  marks them (`UpdateMarks`), then scans them until one is `ASSIGNED`
  (`UpdateScans`). `todo` is what is left. They go in any order, any the compiler may
  choose. Between two entries another cook's update may mark one, and any order
  handler that walks the list for this customer turn one from `NEW` into `ASSIGNED`.
* The interval from `TAILQ_REMOVE` to `free()` is one step with the removal.
* `num_of_active_conn` is logged only and left out. `reg_customer_handler()`
  does nothing and no program sends its packet.

### Reuse

The allocator may give a client the struct of one that has gone, while a job in the
queue or at a thread, or a busy cook's `assigned_client`, still points at it.
Nothing in the code prevents it, and what the handlers then do to the client is
their doing in another's name. `heirs` is the set of the clients that were given
such a struct, `wards` the customers that were sent to a cook among them. The steps
are those of `FoodServer`; the histories restrict nothing. The properties of `Reuse`
are about everybody else: that the heirs' misfortune, which "What does not hold"
describes, does not spread.

### EvMap, MinHeap, EventLoop

The record `base` is the `struct event_base` with the structs of its events and
what the kernel watches for it. Each operator on it follows one function of the
code: `EventAdd`, `EventDel`, `EventActive`, `CallbackActivate`,
`DeferredSchedule`, `FinalizeMany`; beneath them the queues, the heap and the maps
of descriptors. `loop` is where `event_base_loop()` is: at its top, in
`epoll_wait()`, about to run a callback, or in one. A callback is whatever the
program likes to do next: in it any of the calls may be made, in any number,
descriptors closed and opened again. `Init` chooses whether epoll is told of
changes at once or by the list of changes.

Times are differences from the present, which `Tick` moves; only `epoll_wait()`
and callbacks take time. `MaxLate` bounds how late a timeout may be handled. A
descriptor is closed when its events are deleted, and no callback activates its
own event: the loop would never wait again, nor would the real one. A hangup
stays until the descriptor is closed; readiness goes when the program reads.
One thread uses the base in this model. In the server the pool's threads use it too,
through `bufferevent_write()`, without a lock: `Bufferevent` has that for the write
event, and the run `stuck` shows what comes of it; the queues and maps of the base
under such calls are not modelled. What the list of changes says of a descriptor is a record,
whose `listed` is `fdinfo`'s index; the loops of the heap are recursive functions of
the position they are at.

### Evbuffer

A buffer is the sequence of its chains, and `with` the index of the chain that
`*last_with_datap` is: `i` also says that the pointer is `&buf->first` or the
`next` of the chain before. A chain is its memory, its misalignment and its
bytes. Each operation takes a boolean `mem`, whether `malloc()` finds memory.
`bytes` is what each buffer should hold; bytes are numbered, so that one that is
lost, doubled or moved shows. `MIN_BUFFER_SIZE` and the four limits are
constants, one or two bytes instead of hundreds or thousands: what matters is
which of the comparisons with them come out how, and all do.

`Careful` is a set of calls, of `Delicate`, that the caller keeps off when they would
go wrong: `evbuffer_remove_buffer()` and `evbuffer_prepend()` when memory is short,
`evbuffer_prepend_buffer()` of a buffer that ends in an empty chain. The run
and the theorems have all three in it; "What does not hold" says what TLC shows if
one is left out. Of the memory layout, the model keeps lengths; what
`memcpy()` copies is right if `ChainsFit`.

### Bufferevent

`at` is where the loop is in the functions it calls, `pc[w]` where a writer is in
`bufferevent_write()` and its callback on the buffer. `Options` are those of
`bufferevent_socket_new()`. With `THREADSAFE` a step that finds the lock taken
waits; without, the steps interleave. The application is `server.c`: a read
callback that takes all there is, an event callback that takes `client_q_mutex`,
unlinks and frees, and handlers that write, `assign_orders` with that mutex and
`cook_update` without. The peer sends, reads and may close. Freeing drops a
reference; the last one makes the loop run the finalizer.

Assumed of the application: it does not free the bufferevent while a thread is in
or about to begin a call. `pkt_handlers.c` does not keep to that; `FoodServer` has
the step (`Crash`).

### GroupList

Both lists are linked by addresses, indices into what `malloc()` has returned so
far, since nothing is freed. The server reads a group id and a message from each
connection; `read()` waits while nothing is there and the client lives, and
returns nothing at the end of the connection, which the code does not test:
`EndOfFile`. The group is any number then, and the message what the stack held
(`recv_buff`, `Garbage`). A message may be cut, the rest of the buffer being what
it was. `sleep(1)` and printing are left out.

## Runs

All runs finish within three minutes on two workers. Constants are in the `.cfg`
files; `Alike`, `OpenSymmetry` and `Symmetry` are symmetry sets of safety runs, in which the
permuted processes are interchangeable. No run of a liveness property uses symmetry.

| run | question | bounds |
|---|---|---|
| `MCReuse_orders` | bookkeeping of cooks and dishes, also when a struct is used again under a job or a cook | 2 cooks, registered (`OpenReuse`), one for one dish and one for both, 2 customers of which the user of one may end it, 2 dishes, 2 threads, 4 addresses |
| `MCReuse_opening` | the same from the empty server, whose cooks may get such a struct too | 2 cooks, 2 customers one after the other, the first of which its user may end, orders of 1 of 2 dishes, 2 threads, 3 addresses |
| `MCFoodServer_memory` | list, mutex and pointers with overwritten packets, freed and reused structs | 1 cook, 2 customers, 1 dish, not paced |
| `MCFoodServer_answers` | every order is answered, and not as complete before it is | 2 cooks with any menu, 1 customer, 2 dishes, 3 threads, up to 3 entries (a dish twice) |
| `MCThreadPool_pool` | jobs, waiting, wakeups, destruction, pauses; implements `JobPool`; everything executes and returns | 2 threads, 2 callers of which 1 waits, 2 jobs, 1 spurious wakeup, 1 pause |
| `MCGroupList_board` | the lists are right, clients are served | 3 clients, 3 groups |
| `MCEventLoop_events` | queues, kernel, silence after deletion, priorities, no starvation | the read and the write event of one descriptor, the latter with a timeout, a one-shot event, a deferred callback; 2 priorities; times up to 1 late; `MAX_DEFERREDS_QUEUED` 0 |
| `MCEvbuffer_evbuffer` | strings in chains, with a careful caller | 2 buffers, 3 bytes, calls of up to 2 bytes, 4 chains a buffer |
| `MCBufferevent_output` | sending, watermarks, freeing and locking with all options for threads | 2 writers with a packet each, one under the mutex, 2 units of input, 2 other calls, a mark of 1, a socket that holds 1 |

The bounds: a race of handlers takes two threads; two cooks and two dishes are the least
for an order that is split, one that is partly serviceable, and a cook that is done
before the other has begun; two customers are the least for competition and for an
address used again. A third thread lets both updates of one order run beside an order,
and an update wait for the walk of the order it belongs to. With four addresses the
second customer gets the first one's struct or one of its own; with three, from the
empty server, a cook may get it. In the pool two jobs are the least for a pull that
leaves one behind and for an order in which they are started, and two threads for one
that sleeps or is held while one works; safety is proved for any number of them. Three
clients are the least for a group between two others. Two events of one descriptor share
it in the kernel, a third competes with them for priority 0 and with the deferred
callback's 1; the `ASSUME` of `MCEventLoop` checks the heap by itself, on all heaps of
up to six events. Three bytes in chains of one or two let data lie in three chains with
empty ones behind (before data and between, they come only of what a careful caller does
not do); four chains are never exceeded by calls within the bounds but for expansions,
which are cut off there. A write by each of two threads is the least for one that meets
the end of the other.

`CHECK_DEADLOCK FALSE` is set where the system may stop, because customers have
gone and no user does anything more, the pool is destroyed, all clients are
served, or the connection has ended.

Refuted, one property each; every one is a sentence of the repository:

| run | what the repository says | what the run shows |
|---|---|---|
| `cooked` | "All orders processed" (`std_defs.h:10`) | said while a cook has yet to cook: another, whose menu says `ASSIGNED` of the same dish since an earlier order, has marked it for it |
| `roles` | REG_COOK registers a cook (`std_defs.h:109`) | a customer becomes a cook when its packet is overwritten |
| `stuck` | what is written is sent "automatically" (`bufferevent.h:376`) | with the server's options, a packet a handler writes while the loop finishes the last one stays in the buffer |

`cooked` has one customer after the other. In the run `answers`, of one customer and
three threads, the same property holds: the update of a first cook cannot be scanned
before the second has been given the order, although neither loop has the mutex, for
the search of the list before them waits for it until the order's walk is over. Its
mutant lets the search go ahead. `stuck` has the constants of `output` but for
`Options = {}`, as `server.c:167` has it, and no other calls.

### What does not hold

Sentences that do not hold of the code and have no run. Of the server:

* `README.txt:19` again: when a user ends a customer, its struct is freed, and the
  next client may get its address while a job, or a busy cook's `assigned_client`,
  still holds it. The order of the one that has gone then runs for the other:
  it is told UNSERVICEABLE for dishes that are cooked, a dish is given twice, or
  its dish is marked by a cook of the one before. The runs `orders` and `opening`
  contain all of that: without the exclusion of heirs and wards TLC violates each of
  `OwnRefusalIsTrue`, `OwnDishGivenOnce` and `OwnDishIsBeingCooked` in one of them.
* "All orders processed" is also said to a customer none of whose dishes went to
  a cook: the cook's `assigned_client` outlives the customer, and its address is
  used again (`pkt_handlers.c:133`).
* `README.txt:19`, "the cook will become free for other orders": its menu stays
  `ASSIGNED`, so that it cooks no dish twice (`pkt_handlers.c:71`), and the cook of
  a customer that has gone stays busy (`pkt_handlers.c:142`).
* `pkt_handlers.c:141` speaks of updates to a non existing customer as refused;
  the customer may be freed after the search of the list, before line 147 (the
  steps `UpdateFinds`, `BufferedOnError`, `UpdateMarks`).
* `README.txt:19`, "the message will be relayed to the customer": it is not while
  another cook is at work on the order (`UpdateScans` with a dish `ASSIGNED`).
* `thpool.h:143`, "This will wait for the currently active threads to finish": the
  last one has yet to unlock `thcount_lock` of the pool that is freed (`Exits`,
  `DestroyFrees`, `Unlocks`).
* `thpool.h:74`, "the calling thread (probably the main program) will continue":
  of two callers of `thpool_wait()` one may sleep for ever, for the last thread at
  work signals once (`thpool.c:373`).
* `thpool.h:104`, "The threads return to their previous states once thpool_resume
  is called": a thread whose signal is delivered after that sets
  `threads_on_hold` again (`Holds`) and holds, with the others that still sleep.
  The fairness of `PausedPool` has the program call `thpool_resume()` once more.
* `thpool.h:107`, "While the thread is being paused, new work can be added": not
  if the signal finds a thread between the two halves of `jobqueue_pull()`, with
  `rwmutex`; `thpool_add_work()` waits until the thread continues. A pool that is
  destroyed while paused is never freed.
* `server.c:133-134` frees the bufferevent and closes the descriptor. Inside a
  callback the former only drops a reference, and the events are still registered
  when the descriptor is closed, against the order libevent asks for.

Of libevent:

* `bufferevent.h` offers `BEV_OPT_THREADSAFE` by itself. With that option alone,
  in `server.c` the loop would hold the bufferevent's lock in the event callback
  and wait for `client_q_mutex`, which `assign_orders` holds while it waits for the
  lock (`CallsReturn` is violated for `Options = {"THREADSAFE"}`):
  `BEV_OPT_UNLOCK_CALLBACKS` is needed as well, and `evthread_use_pthreads()`, which
  the server never calls, for any of them to have a lock.
* `event.h:1211`, `event_add()` schedules an event for its condition and its
  timeout: an event whose timeout has passed and whose callback has not run is
  added for the timeout only (`event.c:2597`), and its descriptor is not watched.
* `event.h:1213`, "If atimeout is NULL, no timeout occurs": a persistent event that
  was added with a timeout, deleted, and added with `NULL` gets the old timeout
  back after its first callback, from `ev_io_timeout`.
* `epoll.c:486` reports a hangup as `READ` and `WRITE`: an event for `EV_CLOSED` alone
  is not activated by it. `EventLoop` has no such event in its run.
* `event.h:1450`, "Active events with a lower priority are always processed before": of
  callbacks that are finalized together in a callback that is none of them, the first
  one is activated by `event_callback_finalize_nolock_()`, which calls
  `event_callback_activate_nolock_()` (`event.c:2251`). That one does not set
  `event_continue`, as `event_active_nolock_()` does (`event.c:2898`), and less urgent
  callbacks that were active already run before the finalizer. With a first of priority 0 in
  `Together` TLC violates `UrgentFirst`; the run's is of priority 1, the theorem's of
  the last one (`FirstIsLast`). All of the server's events have one priority.
* `evbuffer-internal.h:88`, "The last_with_data chain is the last chain that has any
  data in it": `evbuffer_prepend_buffer()` of a buffer that ends in an empty chain
  leaves that chain in the middle; `evbuffer_remove_buffer()` that moves it along with
  those around it leaves the other buffer's pointer before it (`advance_last_with_data()`
  stops there, `buffer.c:711`, called in `buffer.c:1314`), and an `evbuffer_add()` that needs a new chain
  stops at the assertion in `buffer.c:297`. `LastWithData` is violated with
  `Careful = {"prepend", "remove_buffer"}`.
* `buffer.h:393`, the result is the number of bytes read: `evbuffer_remove_buffer()`
  ignores a failing `evbuffer_add()` (`buffer.c:1322`) and drops the bytes. `SameBytes` is
  violated with `Careful = {"prepend", "prepend_buffer"}`.
* `buffer.h:872`, a callback is invoked "whenever data is added", and `buffer.h:1001`,
  `evbuffer_prepend()` returns -1 if it fails: when `malloc()` does at `buffer.c:1877`, a
  part of the data has been prepended, and no callback is told before the next change.
  `LengthsAgree` is violated with `Careful = {"remove_buffer", "prepend_buffer"}`.

### Fairness

`FoodServer!Fairness`: weak fairness of each thread, and of each callback of the
event loop for each connection. The operating system schedules threads, and the
loop serves every descriptor that is ready in each of its turns. A thread that
waits for the mutex is not starved in the runs because customers order once. A
client program reads what has arrived, and a cook presses enter; without the
latter no customer could be served. No fairness for what a user need not do:
start or end a program, order.

`PausedPool!PausedFairness`: weak fairness of each thread, its signal handler
included, and of each call that was begun, none of `AddWork`, `Wait`, `Destroy` and
`Pause`, which nobody need call; and a pool that holds is resumed.

`GroupList!Fairness`: the server runs, and a client that was started sends what it
has to unless it is killed; its user need not start it.

`EventLoop!Fairness`: the loop goes on while it can, callbacks return, and time
passes. `Moves` says when a step of the loop is possible and that it changes
`loop`; weak fairness of it is that of `LoopNext`, whose big steps TLC would
evaluate in every state. Nothing of what callbacks do is fair.

`Bufferevent!Fairness`: the loop's thread, each writer that has begun, and a peer
that reads what it is sent; it need not send or close.

## Proofs

### The thread pool

`ThreadPoolProofs` proves, for any finite set of threads, any callers, jobs and
any number of spurious wakeups, under `PoolAssumption` (threads and callers
differ, the null values are no members of the sets):

| theorem | statement |
|---|---|
| `TypeCorrect` | `Spec => []TypeOK`, with both counters within the number of threads |
| `JobsAccountedFor` | `Spec => []EveryJobIsSomewhere` |
| `WaitCorrect` | `Spec => []WaitReturnsAfterWork` |
| `WakeupsKept` | `Workers # {}` implies `Spec => []NoLostWakeup` |
| `DestroyCorrect` | `Spec => []DestroyOutlivesWork` |
| `Refines` | `Spec => Implements`, that is `JobPool`'s `PoolSpec` |
| `PausedCorrect` | `PausedSpec` implies all of these but `WakeupsKept`: every execution with pauses is one of `ThreadPool` (`PausedIsPool`) |

The inductive invariant is built in layers, each proved with those before it:

1. `Shape`: the variables' ranges, the counters being just integers.
2. `Hands`: `job_p[w]` is not null exactly from the pull to the end of the job.
3. `Counts`: each counter is the cardinality of a set of threads defined by their
   `pc`. This is why the counters stay in range, which no bound on the steps
   themselves shows, and what a caller can conclude from reading 0.
4. `Phases`: no call begins before `thpool_init()` returns (which takes
   `Counts`: all threads are alive, so none is still to start) and none goes on
   after `thpool_destroy()` is called; no thread exits before that, and the flag
   the threads test is cleared by that alone.
5. `EveryJobIsSomewhere`, inductive with the first four.
6. `WaitSeesAll`: once a caller has seen the queue empty, what it waits for is in
   the hands of a thread or executed. With the count at 0, `Counts` says no
   thread is at work and `Hands` that none holds a job.
7. `FlagIsSeen` and `QueueIsCovered`: the parts of `NoLostWakeup` that are
   inductive each by itself. `FlagIsSeen` needs a thread to exist.

### The server

`FoodServerProofs` and `OrderProofs` prove, for any clients, threads and
addresses and any finite set of dishes, under `PeersAssumption`, of `Spec` and, the
last three, of `ReuseSpec`:

| theorem | under | statement |
|---|---|---|
| `ServerTypeCorrect` | | `[]TypeOK` |
| `ListIsOfConnections` | | `[]ListHoldsConnections` |
| `WalkerHoldsMutex` | | `[]MutexHeldByWalker` |
| `BusyCookIsBookedForSomeone` | | `[]BusyCookHasCustomer` |
| `OneOrderAtATime` | `Orderly` | `[]NoDoubleBooking` |
| `OnlyDesertedCooksIdle` | `Orderly` | `[]IdleBusyCookWasDeserted` |
| `TurnedAwayWhole` | `Orderly` | `[]OwnRefusalIsTrue` |
| `DishToOneCook` | `Orderly` | `OwnDishGivenOnce` |
| `AssignedMeansCooking` | `Orderly` | `[]OwnDishIsBeingCooked` |

`Orderly` is `Paced`, as in the runs about orders, and that no cook is ended by its
user. Customers may be, all of them, and structs freed and used again by whoever
comes. Of `calloc()` nothing is assumed: it may return any free address. An order that
is overwritten before it is read is not Paced; of executions with one the first four
theorems speak.

The last three say of the clients that are no heirs what fails of the heirs. Each
exclusion was found when the invariant turned out not to be inductive, and TLC
confirmed that it is needed: without `heirs` the run `orders` violates the first two, and
without `wards` the run `opening` the last. There a cook that is busy for a customer that has gone marks
the menu of the cook that now lives at the address: what that one was given reads
`COMPLETED`, so that its own update leaves its customer's dish `ASSIGNED`.

The inductive invariant:

1. `Typed`: `TypeOK` with `Handlers` (a thread has a job exactly in a handler, a walk
   has begun at an element, a reply has a text), and `Listed`: the list holds the
   address of each connection, no address twice, and no two connections have the same.
   Neither is inductive alone: what `buffered_on_error()` removes has to be in
   the list for the list to keep its type. `ListCounted` turns the bijection
   between list and connections into the equation on their numbers.
2. `MutexHeldByWalker` and `BusyHasCustomer`, the latter over all memory, freed or
   not, since handlers write to freed structs.
3. `Kitchen`. `OneUnread`: of all jobs one at most has not read its packet, and the
   packet is still there. `CookJobs`, `CustomersOrder`: handlers for
   cooks run on structs of cooks. `Owners`: the address of a job was a client's
   that has it still or has gone. `Bookings`: a busy cook's `assigned_client` is the
   struct of the customer it serves, or that customer has gone.
   `EveryCookIsSomewhere`: each cook is in one of eleven `Stages`, from the
   registration that is sent, through the order on its way, the cooking, the update
   sent, queued and handled, to free again; `At(k, s)` says for each where the cook is
   seen (program, socket, queue, thread, struct) and that it is seen nowhere else.
   No step but those of the cycle moves a cook from one stage to another, so that
   `Outstanding(k)` is 1 in five of the stages, 0 in the others, and the struct
   reads `COOK_BUSY` in those five and when the cook was deserted.
4. `Desk`, of the customers that are no heirs. `OrdersAreCustomers`: a job for an order
   holds the struct of a customer, or of an heir. `OneOrderEach`: the order of a
   customer is to come, waits in the queue, or
   is at one thread. `OrderBook`: nothing is handed out before it is placed, nothing
   that was handed out is still `NEW` in the struct of its job, and while
   `orders_assigned` is 0 nothing was. Since a dish is handed out only if `NEW`, it
   is handed out once; since UNSERVICEABLE is said only at 0, to no one who is given
   something. An heir has its struct by `on_accept()` alone, and an address that a job
   holds has an owner that stays or is an heir (`OwnersStay`), so that no stale job
   becomes another's.
5. `Stove`, of the cooks that are no heirs (`OwnCooks`). `MenusFilled`: a cook is
   `COOK_FREE` before its menu is filled in, so orders come while `reg_cook_handler()`
   still writes entries; it touches only those still `UNDEFINED`, hence never an
   `ASSIGNED` one. `BusyForCustomers`. `DishesCooked`: an `ASSIGNED` dish of a customer
   that is neither heir nor ward has a cook that is busy for it with this dish and whose
   update has not been past the dish in the loop that marks them (`Past`, `Marked`: the
   loop is between any two entries).

### The bufferevent

`BuffereventProofs` proves, for any writers, marks, bounds and options that
`BuffereventAssumption` allows:

| theorem | under | statement |
|---|---|---|
| `WatermarkKept` | | `[]InputFollowsWatermark` |
| `ReferencesCounted` | | `[]EveryReferenceIsHeld` |
| `SilentAfterFree` | | `NothingAfterFree` |
| `OutputNotForgotten` | a lock, in the statement | `[]OutputIsWatched` |
| `NoEmbrace` | `UNLOCK_CALLBACKS`, or no lock | `[]NoDeadlyEmbrace` |

`OutputIsWatched`, `NoDeadlyEmbrace` and `EveryReferenceIsHeld` are defined with the
proofs: they are the safety behind the liveness properties `WrittenIsSent`,
`CallsReturn` and `FreedIsReclaimed` that the run `output` checks. Their hypotheses
are what the server's options lack: without a lock the first is what the run
`stuck` shows broken, and with a lock but without `UNLOCK_CALLBACKS` TLC violates
the second.

1. First each operator on the struct by itself (`EnableStruct`, `MarkedStruct`,
   `ScheduleStruct`, `DecrefStruct`, ...): what it does to references (`Balanced`),
   to reading (`Follows`) and to writing (`KeepsWriting`).
2. `Life`: `Typed`, the references exactly as `EveryReferenceIsHeld` counts them,
   `Ending` (with no reference left nothing is watched and only the finalizer active;
   in the application's callbacks the bufferevent is not freed; after it is
   freed no writer uses it) and `Watermark`, which holds also while somebody has
   the lock. The exact count is what the rest needs: it shows that
   `bufferevent_free()` in a callback never drops the last reference, and that the
   last one goes when nothing is deferred. `InsideStep`, `BeginStep` and `AsideStep`
   are the frames of the steps in, into and beside a function of the loop.
3. `Locked`: who is between which steps has the lock, and the loop that is about to
   delete `ev_write` has an empty output. `Written`: an active write event is
   watched, and `OutputIsWatched`.

### The message server

`GroupListProofs` proves, for any clients, finite set of groups, and lists of any
length (`GroupAssumption`):

| theorem | statement |
|---|---|
| `GroupsStaySorted` | `Spec => []SortedGroups` |
| `MessagesStayInOrder` | `Spec => []MessagesInOrder` |
| `OneMessageEachHolds` | `Spec => OneMessageEach` |

The lists are walked by recursive functions, and what such a function is on a list
of any length takes induction. The library's `NatInduction` cannot be used, for its
parameter is an operator; its theorem `WFMin` about well-founded relations speaks of
sets, and gives `Induction` for sets of numbers, from which everything follows.

1. `Strung`: the memory is made up of lists that share nothing. `WalkExists`,
   `WalkFinds`: a walk along such a list is a function (the `CHOOSE` that TLA+ takes
   a recursive definition for has a witness), and it stops at the first address
   where it may. `ReadExists` and `ReadFinds` are the same for the walks that print.
2. `Ordered`, `Listed`: the groups are one list, sorted; the messages one for each
   group, apart from one another. `PointFound` and `EndFound` say what
   `ItemOrInsertPoint` and `MsgListEnd` find then, `WritingShape` and `MakingShape` that
   linking a message or a group in keeps both, and adds one to one group's messages.
3. `Protocol`: where each client, the queue of connections and the server are. A
   connection is not served twice, and unless its client was killed the group and the
   message that are read are its own.
4. `Inv`: `Protocol`, that there are such lists (`Shaped`), and `MessagesInOrder`. A
   message is added to `Board` and to `SentTo` by the same step.

### The event base

`EventLoopProofs` proves, for any finite sets of events, deferred callbacks and
descriptors, any types, priorities, delays and callbacks that are finalized together,
with the list of changes and without it (`EvMapAssumption`, `EventAssumption`):

| theorem | statement |
|---|---|
| `QueuesAsFlagged` | `Spec => []Bookkeeping` |
| `KernelWatchesWhatIsWanted` | `Spec => []KernelWatches` |
| `DeletedIsOffTheQueues` | `Spec => []DeletedStaysQuiet` |
| `FreedAfterTheLastUse` | `Spec => NothingAfterFinalizer` |
| `UrgentGoFirst` | `Spec => UrgentFirst`, under `FirstIsLast` |
| `HeapPush`, `HeapErase` (`MinHeapProofs`) | a heap of any size stays one, of one event more or less |

`FirstIsLast`: the first of the callbacks that are finalized together is a deferred
one or of the last priority. Without it `UrgentFirst` does not hold (see above).

1. `Good(b)` is the invariant of a base. `Bookkeeping` is not inductive, for it says
   nothing of which flags go together (`Rules`: no callback is active and to be
   active later), of the fields' types, and of what the kernel has yet to be told. `Told`
   fills that in: a change has in `old` what the kernel watched when it was begun, or
   the kernel has forgotten the descriptor, which was closed, and then nothing of `old`
   is left that no change mentions. A close without it could leave the next wait
   watching nothing.
2. The heap: `Holds(q, S)` says that a sequence is a set, each member once; shifting a
   hole up or down is a recursive function, which exists because positions are
   numbers that shrink or grow within the heap, and what it returns follows by
   `Induction` over them. Only the hole may be out of order meanwhile.
3. One lemma for each operator (`EventAddWorks`, `EventDelWorks`, `EventActiveWorks`,
   `FinalizeManyWorks`, ...): it keeps `Good`, and changes only the flags it is said to.
   What the loop does to many callbacks (`Returns` activates all that is ready, then
   all that is late; `MakeLaterActive`) is a fold, of which `FoldSteps` says that what
   holds of the first prefix and is kept by each step holds of the last.
4. `Inv` adds the loop. `Asked`: what is on a queue was asked for, or runs the finalizer.
   `Finalizing`: one of the callbacks that are finalized together is on a queue,
   active, until the finalizer runs. `Informed`: what the kernel was told before a wait
   stays true during it, when time alone and readiness change. `Running`:
   the callback that runs is of the priority the loop is at.
   `UrgentRuns`, which `FirstIsLast` keeps, says that the loop knows of each active
   event that goes before those it runs.

### The evbuffer

`EvbufferProofs` proves, for any buffers, chains of any size, limits and calls of
any length that `EvbufferAssumption` allows, under `Careful = Delicate`:

| theorem | statement |
|---|---|
| `BytesAreKept` | `Spec => []SameBytes` |
| `LastWithDataIsRight` | `Spec => []LastWithData` |
| `ChainsStayWithin` | `Spec => []ChainsFit` |
| `LengthsAreTold` | `Spec => []LengthsAgree` |

A caller that is not careful meets what "What does not hold" says of
`evbuffer_remove_buffer()`, `evbuffer_prepend()` and `evbuffer_prepend_buffer()`. The
other calls may fail for want of memory at any time.

1. The inductive invariant is `Holding`: each buffer is `Settled` with its string.
   `Sound` is that its chains with data are the first `k` of the list (`Upto`), that
   `with` is `Mark(k)`, that the text of the chains is the string, and that an empty
   chain is free from its start (`Chains`); `Settled` adds that the callback knows of
   every byte. The four invariants do not say that no empty chain comes before one
   with data, nor that an empty one is not misaligned. Without the first
   `evbuffer_add()`, which writes behind `with`, could put bytes before others, and
   `evbuffer_free_trailing_empty_chains()` free some; with the second an empty chain
   always has space, so that `evbuffer_read()` finds where `evbuffer_expand_fast_()` meant.
2. Sequences: what is cut from two that were joined (`CutJoined`), what `FlattenSeq`,
   the sums and the doubling of `Memory` give. They are recursive functions, which exist by
   `Induction` over numbers, as those of the heap do.
3. One lemma for each operation (`AddWorks`, `PrependWorks`, `DrainWorks`,
   `PullupWorks`, `ExpandSingleWorks`, `ExpandFastWorks`, `ReadWorks`, `AddBufferWorks`,
   `PrependBufferWorks`, `RemoveWorks`): of a settled buffer it makes a settled one, and
   which string that holds. `LeftIs` is what is left of a list when `n` bytes are taken
   from its start, `PulledUp` what is pulled into one chain, `SpreadIs` what `readv()` spreads
   over several.
4. `FreshIs`: as long as `Sizes` is not empty, there are bytes that no buffer holds.

### What is not proved

Only model-checked, of safety: `CompleteMeansCooked`, which holds in the run `answers`
for one customer and is refuted for two. `OnlyCooksBecomeCooks` holds if packets come
apart, by what the theorems' invariant says of them (`CookJobs`), and is no theorem:
the code does not see to it. Of liveness all (`EveryJobIsExecuted`,
`EveryWaitReturns`, `DestroyReturns`, `OrdersAreAnswered`,
`EveryClientIsServed`, `ReadyIsServed`, `TimeoutIsHandled`, `WrittenIsSent`,
`CallsReturn`, `FreedIsReclaimed`), which needs fairness and `ENABLED`, out of the
prover's reach.

## Not modelled

* `thpool.c`: failures of `malloc()`, which the server does not test, and several
  pools that share the static `threads_keepalive` and `threads_on_hold`. A pool
  that is destroyed takes the threads of every other with it, although
  `thpool.h:146-154` destroys one of two; the server has one.
* The server: packets split by TCP, the overrun of `cook-client.c:84`, logging, the
  scale test, `accept()` without descriptors.
* `event.c`: other threads that use the base, as the pool's do when a handler writes
  (`Bufferevent` has one event of it, run `stuck`); signals, common timeouts,
  `event_base_loopexit()` and `loopbreak()`, flags of the loop, limits on the
  callbacks of a turn, of which the server uses none.
* `buffer.c`: chains that are pinned, referenced, of files or shared, frozen ends,
  deferred callbacks, reserving and committing space, searching and reading lines.
* `bufferevent*.c`: connecting, timeouts, rate limits, low-water marks, a write
  callback, `bufferevent_setfd()`.
* The rest of libevent, by far the most of the repository's lines: HTTP, DNS, RPC,
  TLS, filters, the backends of other systems, portability, tests and samples. No
  program here calls any of it, and models of it would say nothing about them.

Reasons are in `PROJECT.json`, component by component.

## Plan

Done: `JobPool`, `ThreadPool`, `PausedPool`, `FoodServer`, `Reuse`, `GroupList`, `MinHeap`,
`EvMap`, `EventLoop`, `Evbuffer`, `Bufferevent`, their runs; `ThreadPoolProofs`,
`FoodServerProofs`, `OrderProofs`, `BuffereventProofs`,
`GroupListProofs`, `MinHeapProofs`, `EventLoopProofs`, `EvbufferProofs`. The safety
properties of the passing runs are theorems, but for those named under "What is not
proved".

1. `OrderDesk`: an abstract specification of the handlers (cooks, orders, who
   cooks what for whom), implemented by `FoodServer` while no customer leaves; the
   invariants of `OrderProofs` are what its refinement needs.
2. `TailQueue`: `queue.h`'s links, shown to implement the sequence `tailq`.
