----------------------------- MODULE FoodServer -----------------------------
(***************************************************************************)
(* The food ordering system of src/food-sys: the libevent loop and the     *)
(* packet handlers of the server (server.c, pkt_handlers.c) running on a   *)
(* pool of threads, with the two client programs (client.c, cook-client.c) *)
(* at the other end of the sockets.                                        *)
(*                                                                         *)
(* Three kinds of process interleave: the event loop (OnAccept,            *)
(* BufferedOnRead, BufferedOnError), the threads of the pool, which run    *)
(* the handlers, and the client programs.  A handler is split at every     *)
(* access to memory or to a lock that another process can see: a step of a *)
(* handler is a maximal run of accesses that no other process can tell     *)
(* apart, and every step re-reads what the code re-reads.                  *)
(*                                                                         *)
(* Memory is modelled where the code shares it: a `struct client' lives at *)
(* an address that free() returns and that calloc() may hand out again,    *)
(* and a handler holds addresses, not clients.  The packet of a job is not *)
(* copied: the job points at buffered_on_read()'s local array.             *)
(***************************************************************************)
EXTENDS Naturals, Sequences, FiniteSets

CONSTANTS
  Cooks, Customers,  \* the processes that run cook-client and client
  Dishes,            \* enum order_type without NONE
  Workers,           \* the threads of the pool
  Addr,              \* addresses calloc() can return for a struct client;
                     \* as many as the process can have sockets
  NoClient,          \* the null pointer
  NoThread,          \* nobody: the owner of a free mutex
  Capabilities,      \* the menus a cook may register, sets of dishes
  MaxOrderLen,       \* bound on the entries of an order
  Mortal,            \* the client processes whose user may end them early
  Paced              \* TRUE: no packet is read while a job has not read its own

Peers == Cooks \cup Customers

ASSUME PeersAssumption ==
  /\ Cooks \cap Customers = {}
  /\ IsFiniteSet(Dishes)
  /\ Capabilities \subseteq SUBSET Dishes
  /\ Mortal \subseteq Peers
  /\ MaxOrderLen \in Nat
  /\ Paced \in BOOLEAN
  /\ NoClient \notin Addr /\ NoThread \notin Workers

-----------------------------------------------------------------------------
(* Data.  UNDEFINED is what calloc() leaves in menu_items.                 *)

UserState == {"UNKNOWN", "CUSTOMER", "COOK_FREE", "COOK_BUSY"}
MenuState == {"UNDEFINED", "CAPABLE", "NEW", "ASSIGNED", "COMPLETED"}

\* Packets to the server.  items: the dishes a packet names; n: its entries,
\* more than the dishes when an order names a dish twice.
RegCook(items) == [type |-> "REG_COOK", items |-> items, n |-> 0]
CustOrder(items, n) == [type |-> "CUST_ORDER", items |-> items, n |-> n]
CookUpdate == [type |-> "COOK_UPDATE", items |-> {}, n |-> 0]

Orders == {o \in [items : SUBSET Dishes, n : 0..MaxOrderLen] :
             /\ Cardinality(o.items) <= o.n
             /\ o.items = {} => o.n = 0}

ServerPacket == {RegCook(items) : items \in Capabilities}
                  \cup {CustOrder(o.items, o.n) : o \in Orders}
                  \cup {CookUpdate}

\* Packets from the server: an order for a cook, and the three texts a
\* customer can be sent.
CookOrder(items) == [type |-> "COOK_ORDER", items |-> items, text |-> ""]
CustUpdate(text) == [type |-> "CUST_UPDATE", items |-> {}, text |-> text]

Texts == {"UNSERVICEABLE", "PARTIAL", "COMPLETE"}

PeerPacket == {CookOrder(items) : items \in SUBSET Dishes}
                \cup {CustUpdate(text) : text \in Texts}

Client == [state : UserState,
           buf_ev : Peers \cup {NoClient},
           assigned_client : Addr \cup {NoClient},
           menu_items : [Dishes -> MenuState],
           num_of_orders : 0..MaxOrderLen]

\* Mutant: malloc() for calloc(), the menu is whatever was there.
MallocedClient == [state |-> "UNKNOWN", buf_ev |-> NoClient,
                   assigned_client |-> NoClient,
                   menu_items |-> [d \in Dishes |-> "CLOBBERED"],
                   num_of_orders |-> 0]

ZeroClient == [state |-> "UNKNOWN", buf_ev |-> NoClient,
               assigned_client |-> NoClient,
               menu_items |-> [d \in Dishes |-> "UNDEFINED"],
               num_of_orders |-> 0]

-----------------------------------------------------------------------------
VARIABLES
  peer,      \* where each client program is
  toServer,  \* packets on the way to the server, per connection
  toPeer,    \* packets on the way to the peer, per connection
  accepted,  \* the connections that were accepted
  struct_of, \* the address of the struct client of a connection; NoClient
             \* before it is accepted and after it is freed
  client,    \* the memory at each address
  tailq,     \* client_tailq_head
  mutex,     \* the owner of client_q_mutex
  data,      \* buffered_on_read()'s local array: the packet last read
  pending, running,  \* the thread pool; a job is the address job_data->arg
  pc,        \* where each thread is in its handler
  frame,     \* the handler's locals
  crashed,   \* the server was killed by an access to freed memory
  given,     \* history: the dishes cooks were sent for each customer
  servesFor  \* history: the customer of each cook's last COOK_ORDER

memVars == <<client, tailq, mutex, data, struct_of, accepted>>
netVars == <<toServer, toPeer>>
poolVars == <<pending, running, pc, frame>>
historyVars == <<given, servesFor>>
vars == <<peer, netVars, memVars, poolVars, crashed, historyVars>>

Pool == INSTANCE JobPool WITH Jobs <- Addr, Idle <- NoClient

\* Allocated struct clients.
Live == {struct_of[p] : p \in Peers} \ {NoClient}

\* cur: the element of the list TAILQ_FOREACH is at; taken: orders_assigned;
\* todo: the dishes that a loop over menu_items outside the mutex has not
\* reached; text: customer_msg.
Frame == [cur : Nat, taken : Nat, todo : SUBSET Dishes, text : Texts \cup {""}]
NoFrame == [cur |-> 0, taken |-> 0, todo |-> {}, text |-> ""]

PC == {"idle", "dispatch", "reg_state", "reg_menu",
       "ord_check", "ord_lock", "ord_visit", "ord_decide", "ord_send",
       "upd_find", "upd_mark", "upd_scan", "upd_send", "upd_free"}

\* Where a client program is: blocked in fgets() for its first packet, blocked
\* in read() ("again": a customer whose retval is not 0), cooking, or gone.
PeerState == {"start", "connected", "reading", "again", "cooking", "exited"}

NoPacket == [type |-> "NONE", items |-> {}, n |-> 0]

Init ==
  /\ peer = [p \in Peers |-> "start"]
  /\ toServer = [p \in Peers |-> <<>>]
  /\ toPeer = [p \in Peers |-> <<>>]
  /\ accepted = [p \in Peers |-> FALSE]
  /\ struct_of = [p \in Peers |-> NoClient]
  /\ client = [a \in Addr |-> ZeroClient]
  /\ tailq = <<>>
  /\ mutex = NoThread
  /\ data = NoPacket
  /\ Pool!PoolInit
  /\ pc = [w \in Workers |-> "idle"]
  /\ frame = [w \in Workers |-> NoFrame]
  /\ crashed = FALSE
  /\ given = [p \in Peers |-> {}]
  /\ servesFor = [p \in Peers |-> NoClient]

-----------------------------------------------------------------------------
(* The client programs.                                                    *)

Send(p, pkt) == toServer' = [toServer EXCEPT ![p] = Append(@, pkt)]
Receive(p) == toPeer' = [toPeer EXCEPT ![p] = Tail(@)]

ClientStep(p, from, to) ==
  /\ peer[p] = from
  /\ peer' = [peer EXCEPT ![p] = to]
  /\ UNCHANGED <<memVars, poolVars, crashed, historyVars>>

Connect(p) ==
  /\ ClientStep(p, "start", "connected")
  /\ UNCHANGED netVars

Register(k, items) ==
  /\ ClientStep(k, "connected", "reading")
  /\ Send(k, RegCook(items))
  /\ UNCHANGED toPeer

PlaceOrder(c, o) ==
  /\ ClientStep(c, "connected", "reading")
  /\ Send(c, CustOrder(o.items, o.n))
  /\ UNCHANGED toPeer

\* cook-client acts on COOK_ORDER only; whatever else it reads it drops.
CookReads(k) ==
  /\ toPeer[k] # <<>>
  /\ ClientStep(k, "reading",
                IF Head(toPeer[k]).type = "COOK_ORDER" THEN "cooking" ELSE "reading")
  /\ Receive(k)
  /\ UNCHANGED toServer

CookFinishes(k) ==
  /\ ClientStep(k, "cooking", "reading")
  /\ Send(k, CookUpdate)
  /\ UNCHANGED toPeer

\* client reads on after a text it does not know (PARTIAL) and exits after the
\* other two; a packet of another type leaves retval as it was.
CustomerReads(c) ==
  /\ toPeer[c] # <<>>
  /\ \E from \in {"reading", "again"} :
       LET pkt == Head(toPeer[c])
           retval == IF pkt.type = "CUST_UPDATE" THEN pkt.text = "PARTIAL"
                     ELSE from = "again"
       IN ClientStep(c, from, IF retval THEN "again" ELSE "exited")
  /\ Receive(c)
  /\ UNCHANGED toServer

\* The user ends the program.
Kill(p) ==
  /\ p \in Mortal
  /\ peer[p] \notin {"start", "exited"}
  /\ peer' = [peer EXCEPT ![p] = "exited"]
  /\ UNCHANGED <<netVars, memVars, poolVars, crashed, historyVars>>

-----------------------------------------------------------------------------
(* The event loop of server.c.  The two callbacks that touch the list wait *)
(* for its mutex and do nothing under it that a thread could see before    *)
(* they release it.                                                        *)

LoopStep ==
  /\ ~crashed
  /\ UNCHANGED <<peer, crashed, historyVars, pc, frame>>

\* accept() fails when no descriptor is left, which changes nothing.
OnAccept(p) ==
  /\ LoopStep
  /\ peer[p] # "start" /\ ~accepted[p]
  /\ mutex = NoThread
  /\ \E a \in Addr \ Live :
       /\ client' = [client EXCEPT ![a] = [ZeroClient EXCEPT !.buf_ev = p]]
       /\ struct_of' = [struct_of EXCEPT ![p] = a]
       /\ tailq' = Append(tailq, a)
  /\ accepted' = [accepted EXCEPT ![p] = TRUE]
  /\ UNCHANGED <<netVars, mutex, data, pending, running>>

\* A job that has not read its packet yet.
Unread(w) == pc[w] \in {"dispatch", "reg_state", "reg_menu", "ord_check"}

BufferedOnRead(p) ==
  /\ LoopStep
  /\ struct_of[p] # NoClient
  /\ toServer[p] # <<>>
  /\ Paced => pending = <<>> /\ \A w \in Workers : ~Unread(w)
  /\ data' = Head(toServer[p])
  /\ toServer' = [toServer EXCEPT ![p] = Tail(@)]
  /\ Pool!Submit(struct_of[p])
  /\ UNCHANGED <<toPeer, client, tailq, mutex, struct_of, accepted>>

\* Mutant: the struct is freed and stays in the list.
NotRemoved(a) == tailq

\* TAILQ_REMOVE().
Removed(a) ==
  LET i == CHOOSE j \in DOMAIN tailq : tailq[j] = a
  IN [j \in 1..(Len(tailq) - 1) |-> tailq[IF j < i THEN j ELSE j + 1]]

\* End of file comes after what the peer sent; a reset, which a peer causes
\* that leaves data unread, may overtake it.
BufferedOnError(p) ==
  /\ LoopStep
  /\ peer[p] = "exited" /\ struct_of[p] # NoClient
  /\ toServer[p] = <<>> \/ toPeer[p] # <<>>
  /\ mutex = NoThread
  /\ tailq' = Removed(struct_of[p])
  /\ struct_of' = [struct_of EXCEPT ![p] = NoClient]
  /\ UNCHANGED <<netVars, client, mutex, data, accepted, pending, running>>

-----------------------------------------------------------------------------
(* The packet handlers of pkt_handlers.c, on a thread w of the pool; its   *)
(* argument, the address of the sender's struct client, is running[w].     *)

HandlerStep(w, from) ==
  /\ ~crashed
  /\ pc[w] = from
  /\ UNCHANGED <<peer, toServer, tailq, data, struct_of, accepted, crashed>>

Goto(w, to) ==
  /\ pc' = [pc EXCEPT ![w] = to]
  /\ UNCHANGED <<pending, running>>

Return(w) ==
  /\ pc' = [pc EXCEPT ![w] = "idle"]
  /\ frame' = [frame EXCEPT ![w] = NoFrame]
  /\ Pool!Complete(w)

\* bufferevent_write() on the connection of the struct at address a.
BuffereventWrite(a, pkt) ==
  toPeer' = [toPeer EXCEPT ![client[a].buf_ev] = Append(@, pkt)]

\* Reading through the pointer to buffered_on_read()'s array.  When a later
\* packet of another type is there, its bytes are read as this one's fields.
Misread == {RegCook(items) : items \in SUBSET Dishes}
             \cup {CustOrder(o.items, o.n) : o \in Orders}
Seen(type) ==
  IF data.type = type THEN {data} ELSE {pkt \in Misread : pkt.type = type}

\* free() puts its own links over fd, state and buf_ev: a freed struct's state
\* reads as 0 or as no enum value.  The rest stays until calloc() clears it.
StateSeen(a) == IF a \in Live THEN {client[a].state} ELSE {"UNKNOWN", "CLOBBERED"}

WorkerTakes(w) ==
  /\ HandlerStep(w, "idle")
  /\ Pool!Take(w)
  /\ pc' = [pc EXCEPT ![w] = "dispatch"]
  /\ UNCHANGED <<toPeer, client, mutex, frame, historyVars>>

HandlerOf == [REG_COOK |-> "reg_state", CUST_ORDER |-> "ord_check",
              COOK_UPDATE |-> "upd_find"]

Dispatch(w) ==
  /\ HandlerStep(w, "dispatch")
  /\ Goto(w, HandlerOf[data.type])
  /\ UNCHANGED <<toPeer, client, mutex, frame, historyVars>>

\* reg_cook_handler: the cook is free before its menu is filled in.
RegCookState(w) ==
  /\ HandlerStep(w, "reg_state")
  /\ client' = [client EXCEPT ![running[w]].state = "COOK_FREE"]
  /\ frame' = [frame EXCEPT ![w].todo = Dishes]
  /\ Goto(w, "reg_menu")
  /\ UNCHANGED <<toPeer, mutex, historyVars>>

RegCookMenu(w, d) ==
  /\ HandlerStep(w, "reg_menu")
  /\ d \in frame[w].todo
  /\ \E pkt \in Seen("REG_COOK") :
       client' = IF d \in pkt.items
                 THEN [client EXCEPT ![running[w]].menu_items[d] = "CAPABLE"]
                 ELSE client
  /\ \/ /\ frame[w].todo # {d}
        /\ frame' = [frame EXCEPT ![w].todo = @ \ {d}]
        /\ Goto(w, "reg_menu")
     \/ /\ frame[w].todo = {d}
        /\ Return(w)
  /\ UNCHANGED <<toPeer, mutex, historyVars>>

\* cust_order_handler: the order is entered in the customer's struct ...
OrderEntered(w) ==
  /\ HandlerStep(w, "ord_check")
  /\ StateSeen(running[w]) \cap {"UNKNOWN", "CUSTOMER"} # {}
  /\ \E pkt \in Seen("CUST_ORDER") :
       client' = [client EXCEPT
         ![running[w]].state = "CUSTOMER",
         ![running[w]].menu_items =
             [d \in Dishes |-> IF d \in pkt.items THEN "NEW" ELSE @[d]],
         ![running[w]].num_of_orders = pkt.n]
  /\ Goto(w, "ord_lock")
  /\ UNCHANGED <<toPeer, mutex, frame, historyVars>>

OrderRefused(w) ==
  /\ HandlerStep(w, "ord_check")
  /\ StateSeen(running[w]) \ {"UNKNOWN", "CUSTOMER"} # {}
  /\ Return(w)
  /\ UNCHANGED <<toPeer, client, mutex, historyVars>>

\* ... then, under the mutex, handed out to the free cooks in list order.
OrderLocks(w) ==
  /\ HandlerStep(w, "ord_lock")
  /\ mutex = NoThread
  /\ mutex' = w
  /\ frame' = [frame EXCEPT ![w].cur = 1]
  /\ Goto(w, "ord_visit")
  /\ UNCHANGED <<toPeer, client, historyVars>>

\* Mutant: dishes that another cook was given are handed out again.
TakesAssigned(k, a) == {d \in Dishes : /\ client[a].menu_items[d] \in {"NEW", "ASSIGNED"}
                                       /\ client[k].menu_items[d] = "CAPABLE"}

Takes(k, a) == {d \in Dishes : /\ client[a].menu_items[d] = "NEW"
                               /\ client[k].menu_items[d] = "CAPABLE"}

Assigned(menu, dishes) ==
  [d \in Dishes |-> IF d \in dishes THEN "ASSIGNED" ELSE menu[d]]

\* Mutants: the cook is not made busy, its customer is not noted down, its menu
\* does not say what it was given.
BookedStillFree(cook, a, dishes) ==
  [cook EXCEPT !.menu_items = Assigned(@, dishes), !.assigned_client = a]
BookedForNobody(cook, a, dishes) ==
  [cook EXCEPT !.menu_items = Assigned(@, dishes), !.state = "COOK_BUSY"]
BookedBlindly(cook, a, dishes) ==
  [cook EXCEPT !.assigned_client = a, !.state = "COOK_BUSY"]

\* A cook's struct after it was sent the dishes of the customer at a.
Booked(cook, a, dishes) ==
  [cook EXCEPT !.menu_items = Assigned(@, dishes),
               !.assigned_client = a,
               !.state = "COOK_BUSY"]

AllAssigned(w, taken) == client[running[w]].num_of_orders = taken

\* Mutant: the mutex is not released at the end of the list.
OrderKeepsLock(w) ==
  /\ HandlerStep(w, "ord_visit")
  /\ frame[w].cur > Len(tailq)
  /\ UNCHANGED mutex
  /\ Goto(w, "ord_decide")
  /\ UNCHANGED <<toPeer, client, frame, historyVars>>

OrderUnlocks(w) ==
  /\ HandlerStep(w, "ord_visit")
  /\ frame[w].cur > Len(tailq)
  /\ mutex' = NoThread
  /\ Goto(w, "ord_decide")
  /\ UNCHANGED <<toPeer, client, frame, historyVars>>

VisitSkips(w) ==
  /\ HandlerStep(w, "ord_visit")
  /\ frame[w].cur <= Len(tailq)
  /\ LET k == tailq[frame[w].cur] IN
       \/ /\ client[k].state # "COOK_FREE"
          /\ UNCHANGED client
       \/ /\ client[k].state = "COOK_FREE"
          /\ Takes(k, running[w]) = {}
          /\ client' = [client EXCEPT ![k].assigned_client = running[w]]
  /\ frame' = [frame EXCEPT ![w].cur = @ + 1]
  /\ Goto(w, "ord_visit")
  /\ UNCHANGED <<toPeer, mutex, historyVars>>

VisitAssigns(w) ==
  /\ HandlerStep(w, "ord_visit")
  /\ frame[w].cur <= Len(tailq)
  /\ LET a == running[w]
         k == tailq[frame[w].cur]
         dishes == Takes(k, a)
         taken == frame[w].taken + Cardinality(dishes)
     IN /\ client[k].state = "COOK_FREE"
        /\ dishes # {}
        /\ client' = [client EXCEPT ![a].menu_items = Assigned(@, dishes),
                                    ![k] = Booked(@, a, dishes)]
        /\ BuffereventWrite(k, CookOrder(dishes))
        /\ given' = [given EXCEPT ![client[a].buf_ev] = @ \cup dishes]
        /\ servesFor' = [servesFor EXCEPT ![client[k].buf_ev] = client[a].buf_ev]
        /\ frame' = [frame EXCEPT ![w].cur = @ + 1, ![w].taken = taken]
        /\ \/ /\ AllAssigned(w, taken)
              /\ mutex' = NoThread
              /\ Goto(w, "ord_decide")
           \/ /\ ~AllAssigned(w, taken)
              /\ UNCHANGED mutex
              /\ Goto(w, "ord_visit")

\* What is left over is told to the customer, after the mutex is released.
OrderComplete(w) ==
  /\ HandlerStep(w, "ord_decide")
  /\ AllAssigned(w, frame[w].taken)
  /\ Return(w)
  /\ UNCHANGED <<toPeer, client, mutex, historyVars>>

\* Mutant: whatever is left over makes the whole order unserviceable.
AlwaysUnserviceable(w) == "UNSERVICEABLE"

CustomerMsg(w) == IF frame[w].taken = 0 THEN "UNSERVICEABLE" ELSE "PARTIAL"

OrderIncomplete(w) ==
  /\ HandlerStep(w, "ord_decide")
  /\ ~AllAssigned(w, frame[w].taken)
  /\ frame' = [frame EXCEPT ![w].text = CustomerMsg(w)]
  /\ Goto(w, "ord_send")
  /\ UNCHANGED <<toPeer, client, mutex, historyVars>>

OrderReplies(w) ==
  /\ HandlerStep(w, "ord_send")
  /\ running[w] \in Live
  /\ BuffereventWrite(running[w], CustUpdate(frame[w].text))
  /\ Return(w)
  /\ UNCHANGED <<client, mutex, historyVars>>

\* cook_update_handler.
AssignedClient(w) == client[running[w]].assigned_client

\* Mutant: the list is searched without its mutex, while an order is handed out.
FindsUnlocked(w) ==
  /\ HandlerStep(w, "upd_find")
  /\ \E i \in DOMAIN tailq : tailq[i] = AssignedClient(w)
  /\ frame' = [frame EXCEPT ![w].todo = Dishes]
  /\ Goto(w, "upd_mark")
  /\ UNCHANGED <<toPeer, client, mutex, historyVars>>

UpdateFinds(w) ==
  /\ HandlerStep(w, "upd_find")
  /\ mutex = NoThread
  /\ \E i \in DOMAIN tailq : tailq[i] = AssignedClient(w)
  /\ frame' = [frame EXCEPT ![w].todo = Dishes]
  /\ Goto(w, "upd_mark")
  /\ UNCHANGED <<toPeer, client, mutex, historyVars>>

UpdateRefused(w) ==
  /\ HandlerStep(w, "upd_find")
  /\ mutex = NoThread
  /\ \A i \in DOMAIN tailq : tailq[i] # AssignedClient(w)
  /\ Return(w)
  /\ UNCHANGED <<toPeer, client, mutex, historyVars>>

\* What the cook was given is completed in its customer's menu, an entry at a
\* time; the loop reads assigned_client again for each.
UpdateMarks(w, d) ==
  /\ HandlerStep(w, "upd_mark")
  /\ d \in frame[w].todo
  /\ AssignedClient(w) # NoClient
  /\ client' = IF client[running[w]].menu_items[d] = "ASSIGNED"
               THEN [client EXCEPT ![AssignedClient(w)].menu_items[d] = "COMPLETED"]
               ELSE client
  /\ \/ /\ frame[w].todo # {d}
        /\ frame' = [frame EXCEPT ![w].todo = @ \ {d}]
        /\ Goto(w, "upd_mark")
     \/ /\ frame[w].todo = {d}
        /\ frame' = [frame EXCEPT ![w].todo = Dishes]
        /\ Goto(w, "upd_scan")
  /\ UNCHANGED <<toPeer, mutex, historyVars>>

\* Mutant: the scan takes a dish nobody cooks for one that is being cooked.
NotCompleted(a, d) == client[a].menu_items[d] # "COMPLETED"

StillAssigned(a, d) == client[a].menu_items[d] = "ASSIGNED"

\* The loop ends at the first dish that somebody still cooks.
UpdateScans(w, d) ==
  /\ HandlerStep(w, "upd_scan")
  /\ d \in frame[w].todo
  /\ AssignedClient(w) # NoClient
  /\ frame' = [frame EXCEPT ![w].todo = @ \ {d}]
  /\ Goto(w, IF StillAssigned(AssignedClient(w), d) THEN "upd_free"
             ELSE IF frame[w].todo = {d} THEN "upd_send" ELSE "upd_scan")
  /\ UNCHANGED <<toPeer, client, mutex, historyVars>>

UpdateReplies(w) ==
  /\ HandlerStep(w, "upd_send")
  /\ AssignedClient(w) \in Live
  /\ BuffereventWrite(AssignedClient(w), CustUpdate("COMPLETE"))
  /\ Goto(w, "upd_free")
  /\ UNCHANGED <<client, mutex, frame, historyVars>>

\* Mutant: the cook is not made free.
StillBusy(cook) == cook

Freed(cook) == [cook EXCEPT !.state = "COOK_FREE"]

UpdateFreesCook(w) ==
  /\ HandlerStep(w, "upd_free")
  /\ client' = [client EXCEPT ![running[w]] = Freed(@)]
  /\ Return(w)
  /\ UNCHANGED <<toPeer, mutex, historyVars>>

\* The addresses the next step of a handler reads or writes through.
Pointers(w) ==
  CASE pc[w] \in {"idle", "dispatch", "ord_lock"} -> {}
    [] pc[w] \in {"upd_mark", "upd_scan", "upd_send"} -> {running[w], AssignedClient(w)}
    [] OTHER -> {running[w]}

\* A use of freed memory may end the server; the steps above are what else
\* it may do.  bufferevent_write() through a freed struct always ends it.
Crash(w) ==
  /\ ~crashed
  /\ Pointers(w) \ Live # {}
  /\ crashed' = TRUE
  /\ UNCHANGED <<peer, netVars, memVars, poolVars, historyVars>>

-----------------------------------------------------------------------------
PeerNext(p) ==
  \/ Connect(p)
  \/ /\ p \in Cooks
     /\ \/ \E items \in Capabilities : Register(p, items)
        \/ CookReads(p)
        \/ CookFinishes(p)
  \/ /\ p \in Customers
     /\ \/ \E o \in Orders : PlaceOrder(p, o)
        \/ CustomerReads(p)

LoopNext(p) == OnAccept(p) \/ BufferedOnRead(p) \/ BufferedOnError(p)

HandlerNext(w) ==
  \/ WorkerTakes(w) \/ Dispatch(w)
  \/ RegCookState(w) \/ \E d \in Dishes : RegCookMenu(w, d)
  \/ OrderEntered(w) \/ OrderRefused(w) \/ OrderLocks(w) \/ OrderUnlocks(w)
  \/ VisitSkips(w) \/ VisitAssigns(w)
  \/ OrderComplete(w) \/ OrderIncomplete(w) \/ OrderReplies(w)
  \/ UpdateFinds(w) \/ UpdateRefused(w)
  \/ \E d \in Dishes : UpdateMarks(w, d) \/ UpdateScans(w, d)
  \/ UpdateReplies(w) \/ UpdateFreesCook(w)

Next ==
  \/ \E p \in Peers : PeerNext(p) \/ Kill(p) \/ LoopNext(p)
  \/ \E w \in Workers : HandlerNext(w) \/ Crash(w)

Spec == Init /\ [][Next]_vars

(* The threads and the loop run whenever they can; a cook presses enter and *)
(* a client program reads what has arrived.  A user need not end a program,  *)
(* start one or type an order.                                              *)
Fairness ==
  /\ \A w \in Workers : WF_vars(HandlerNext(w) \/ Crash(w))
  /\ \A p \in Peers : /\ WF_vars(OnAccept(p))
                      /\ WF_vars(BufferedOnRead(p))
                      /\ WF_vars(BufferedOnError(p))
  /\ \A k \in Cooks : WF_vars(CookReads(k)) /\ WF_vars(CookFinishes(k))
  /\ \A c \in Customers : WF_vars(CustomerReads(c))

FairSpec == Spec /\ Fairness

-----------------------------------------------------------------------------
(* Properties.                                                             *)

TypeOK ==
  /\ peer \in [Peers -> PeerState]
  /\ toServer \in [Peers -> Seq(ServerPacket)]
  /\ toPeer \in [Peers -> Seq(PeerPacket)]
  /\ accepted \in [Peers -> BOOLEAN]
  /\ struct_of \in [Peers -> Addr \cup {NoClient}]
  /\ client \in [Addr -> Client]
  /\ tailq \in Seq(Addr)
  /\ mutex \in Workers \cup {NoThread}
  /\ data \in ServerPacket \cup {NoPacket}
  /\ Pool!PoolTypeOK
  /\ pc \in [Workers -> PC]
  /\ frame \in [Workers -> Frame]
  /\ crashed \in BOOLEAN
  /\ given \in [Peers -> SUBSET Dishes]
  /\ servesFor \in [Peers -> Peers \cup {NoClient}]

\* What a cook owes the server: orders on the way to it, the one it cooks, and
\* updates on the way to the server, queued in the pool or being handled.
OrdersSent(k) ==
  Cardinality({i \in DOMAIN toPeer[k] : toPeer[k][i].type = "COOK_ORDER"})
UpdatesSent(k) ==
  Cardinality({i \in DOMAIN toServer[k] : toServer[k][i].type = "COOK_UPDATE"})
UpdatesQueued(k) ==
  IF data.type # "COOK_UPDATE" THEN 0
  ELSE Cardinality({i \in DOMAIN pending : pending[i] = struct_of[k]})
Updating(w) ==
  \/ pc[w] \in {"upd_find", "upd_mark", "upd_scan", "upd_send", "upd_free"}
  \/ pc[w] = "dispatch" /\ data.type = "COOK_UPDATE"
UpdatesHandled(k) ==
  Cardinality({w \in Workers : running[w] = struct_of[k] /\ Updating(w)})

Outstanding(k) ==
  OrdersSent(k) + (IF peer[k] = "cooking" THEN 1 ELSE 0)
    + UpdatesSent(k) + UpdatesQueued(k) + UpdatesHandled(k)

Connected(k) == struct_of[k] # NoClient /\ peer[k] # "exited"
StateOf(p) == client[struct_of[p]].state

\* No cook is given an order before the server has dealt with its update for
\* the last one, whichever threads hand out orders and handle updates.
NoDoubleBooking ==
  \A k \in Cooks : Connected(k) =>
    /\ Outstanding(k) <= 1
    /\ Outstanding(k) = 1 => StateOf(k) = "COOK_BUSY"

\* A cook is left busy with nothing to do only by a customer that has gone:
\* cook_update_handler() returns before it frees the cook in no other case.
IdleBusyCookWasDeserted ==
  \A k \in Cooks :
    Connected(k) /\ StateOf(k) = "COOK_BUSY" /\ Outstanding(k) = 0
      => peer[servesFor[k]] = "exited"

Has(c, text) ==
  \E i \in DOMAIN toPeer[c] : /\ toPeer[c][i].type = "CUST_UPDATE"
                             /\ toPeer[c][i].text = text

\* The list holds the struct of every connection the server has, once.
ListHoldsConnections ==
  /\ {tailq[i] : i \in DOMAIN tailq} = Live
  /\ Len(tailq) = Cardinality(Live)
  /\ \A p, q \in Peers : struct_of[p] = struct_of[q] => p = q \/ struct_of[p] = NoClient

\* A struct that reads COOK_BUSY names the customer it cooks for, whatever was
\* freed and allocated again meanwhile: the NULL of calloc() comes with UNKNOWN.
BusyCookHasCustomer ==
  \A a \in Live : client[a].state = "COOK_BUSY" => client[a].assigned_client # NoClient

\* The mutex is held by the thread that walks the list and by no other, on
\* every way out of the walk.
MutexHeldByWalker ==
  \A w \in Workers : mutex = w <=> pc[w] = "ord_visit"

\* Every customer that has ordered something gets an answer after which its
\* program ends, unless the server dies.
OrdersAreAnswered ==
  \A c \in Customers :
    (\E i \in DOMAIN toServer[c] : toServer[c][i].n > 0)
      ~> (peer[c] = "exited" \/ crashed)

-----------------------------------------------------------------------------
(* What the repository says of the server and the code does not do.  Each  *)
(* of these is refuted by a run of its own.                                *)

\* std_defs.h:10, "All orders processed, Enjoy your meal!": when a customer is
\* told so, no cook has yet to cook a dish of the order.  So it is for the first
\* customer, because an update waits at the mutex until the order is handed out
\* whole; a later one meets cooks whose menus still say ASSIGNED of its dishes.
CompleteMeansCooked ==
  \A c \in Customers, k \in Cooks :
    Connected(c) /\ Has(c, "COMPLETE") /\ servesFor[k] = c
      => peer[k] # "cooking" /\ OrdersSent(k) = 0

\* std_defs.h:109, a REG_COOK packet is "sent to register a cook. from client
\* to server": only a cook's struct enters a cook's state.
OnlyCooksBecomeCooks ==
  \A c \in Customers : Connected(c) => StateOf(c) \in {"UNKNOWN", "CUSTOMER"}
=============================================================================
