---------------------------- MODULE OrderProofs ----------------------------
(***************************************************************************)
(* What becomes of the dishes of an order, for any number of cooks,        *)
(* customers, threads and addresses: a dish goes to one cook, once         *)
(* (OwnDishGivenOnce), a customer is turned away only if nothing of its    *)
(* order was handed out (OwnRefusalIsTrue), and what reads ASSIGNED in its *)
(* menu is being cooked for it (OwnDishIsBeingCooked).  Structs are freed  *)
(* under the jobs and the cooks that point at them and are used again.     *)
(* Nothing is assumed of calloc(): the theorems say that whoever is no     *)
(* heir (nor, for the last of them, served by a cook that is one) is not   *)
(* harmed by what happens to the heirs.                                    *)
(***************************************************************************)
EXTENDS FoodServerProofs, Reuse

\* What a step does to the heirs, a stuttering one included.
Heritage ==
  /\ heirs' = heirs \cup {p \in Peers : Inherits(p)}
  /\ wards \subseteq wards'
  /\ \/ UNCHANGED vars
     \/ \A c \in Customers, k \in Cooks \cap heirs' : servesFor'[k] = c => c \in wards'

-----------------------------------------------------------------------------
(* The invariant.                                                          *)

\* Where the one order of a customer may be: with its program or on the way to
\* the server, in the pool's queue, at a thread.
Placing(w) == pc[w] \in {"ord_lock", "ord_visit", "ord_decide", "ord_send"}
Ordering(w) == \/ pc[w] = "ord_check" \/ Placing(w)
               \/ pc[w] = "dispatch" /\ data.type = "CUST_ORDER"
OwnerOf(a) == client[a].buf_ev

ToCome(c) == peer[c] \in {"start", "connected"} \/ toServer[c] # <<>>
Waits(c) == pending # <<>> /\ data.type = "CUST_ORDER" /\ OwnerOf(Head(pending)) = c
PlacedBy(c, w) == Ordering(w) /\ OwnerOf(running[w]) = c

OrdersAreCustomers ==
  /\ pending # <<>> /\ data.type = "CUST_ORDER"
       => OwnerOf(Head(pending)) \in Customers \cup heirs
  /\ \A w \in Workers : Ordering(w) => OwnerOf(running[w]) \in Customers \cup heirs

OneOrderEach ==
  \A c \in Customers \ heirs :
    /\ Len(toServer[c]) <= 1
    /\ peer[c] \in {"start", "connected"} => toServer[c] = <<>>
    /\ ~(ToCome(c) /\ Waits(c))
    /\ \A w \in Workers : PlacedBy(c, w) => ~ToCome(c) /\ ~Waits(c)
    /\ \A v, w \in Workers : PlacedBy(c, v) /\ PlacedBy(c, w) => v = w

\* orders_assigned counts from 0, and what the customer is told goes by it.
Early == {"idle", "dispatch", "reg_state", "reg_menu", "ord_check", "ord_lock"}
Counting ==
  \A w \in Workers :
    /\ pc[w] \in Early => frame[w].taken = 0
    /\ pc[w] = "ord_send" /\ frame[w].text = "UNSERVICEABLE" => frame[w].taken = 0

\* Nothing is handed out before the order is placed; what is, is not NEW any
\* more in the struct that the job of the order holds.
OrderBook ==
  \A c \in Customers \ heirs :
    /\ ToCome(c) \/ Waits(c) => given[c] = {} /\ ~Has(c, "UNSERVICEABLE")
    /\ \A w \in Workers : PlacedBy(c, w) =>
         /\ ~Has(c, "UNSERVICEABLE")
         /\ frame[w].taken = 0 => given[c] = {}
         /\ \A d \in given[c] : client[running[w]].menu_items[d] # "NEW"

Desk == /\ OrdersAreCustomers /\ OneOrderEach /\ Counting /\ OrderBook
        /\ OwnRefusalIsTrue

-----------------------------------------------------------------------------
(* What the steps may do to an order.                                      *)

LEMMA TypedFacts ==
  ASSUME Memory
  PROVE  /\ peer \in [Peers -> PeerState]
         /\ toServer \in [Peers -> Seq(ServerPacket)]
         /\ toPeer \in [Peers -> Seq(PeerPacket)]
         /\ struct_of \in [Peers -> Addr \cup {NoClient}]
         /\ client \in [Addr -> Client] /\ tailq \in Seq(Addr)
         /\ pending \in Seq(Addr) /\ running \in [Workers -> Addr \cup {NoClient}]
         /\ pc \in [Workers -> PC] /\ frame \in [Workers -> Frame]
         /\ given \in [Peers -> SUBSET Dishes]
         /\ servesFor \in [Peers -> Peers \cup {NoClient}]
         /\ Typed /\ Listed /\ NoClient \notin Addr
         /\ Cooks \subseteq Peers /\ Customers \subseteq Peers /\ Cooks \cap Customers = {}
         /\ \A w \in Workers : pc[w] # "idle" => running[w] \in Addr
         /\ pending # <<>> => Head(pending) \in Addr /\ 1 \in DOMAIN pending
                              /\ Head(pending) = pending[1]
  BY PeersAssumption, MemoryTyped DEF Memory, Typed, TypeOK, Pool!PoolTypeOK, Peers

\* An accepted connection has a clear struct that nobody else has.
LEMMA ClearStruct ==
  ASSUME Memory, NEW p \in Peers, OnAccept(p)
  PROVE  /\ UNCHANGED <<peer, running, pc, frame, servesFor>>
         /\ struct_of'[p] \in Addr \ Live
         /\ client'[struct_of'[p]].state = "UNKNOWN"
         /\ client'[struct_of'[p]].buf_ev = p
         /\ \A d \in Dishes : client'[struct_of'[p]].menu_items[d] = "UNDEFINED"
         /\ \A b \in Addr \ {struct_of'[p]} : client'[b] = client[b]
         /\ \A q \in Peers \ {p} :
              /\ struct_of'[q] = struct_of[q]
              /\ struct_of[q] # NoClient => client'[struct_of[q]] = client[struct_of[q]]
                                            /\ struct_of[q] \in Addr
  <1>0. struct_of \in [Peers -> Addr \cup {NoClient}] /\ client \in [Addr -> Client]
    BY TypedFacts
  <1>1. PICK a \in Addr \ Live :
            /\ client' = [client EXCEPT ![a] = [ZeroClient EXCEPT !.buf_ev = p]]
            /\ struct_of' = [struct_of EXCEPT ![p] = a]
    BY DEF OnAccept
  <1>2. /\ [ZeroClient EXCEPT !.buf_ev = p].state = "UNKNOWN"
        /\ [ZeroClient EXCEPT !.buf_ev = p].buf_ev = p
        /\ \A d \in Dishes : [ZeroClient EXCEPT !.buf_ev = p].menu_items[d] = "UNDEFINED"
    BY DEF ZeroClient
  <1>3. UNCHANGED <<peer, running, pc, frame, servesFor>>
    BY DEF OnAccept, LoopStep, historyVars
  <1>4. \A q \in Peers : struct_of[q] # NoClient => struct_of[q] \in Live
    BY DEF Live
  <1> QED  BY <1>0, <1>1, <1>2, <1>3, <1>4

LEMMA HeirOfMemory ==
  ASSUME Memory, Heritage, NEW p \in Peers, OnAccept(p), PointedAt(struct_of'[p])
  PROVE  p \in heirs'
  <1>1. accepted \in [Peers -> BOOLEAN]
    BY DEF Memory, Typed, TypeOK
  <1>2. ~accepted[p] /\ accepted'[p]
    BY <1>1 DEF OnAccept
  <1> QED  BY <1>2 DEF Heritage, Inherits

\* A struct that is pointed at keeps its owner or gets an heir.
LEMMA OwnersStay ==
  ASSUME Memory, [Next]_vars, Heritage, NEW a \in Addr, PointedAt(a)
  PROVE  OwnerOf(a)' = OwnerOf(a) \/ OwnerOf(a)' \in heirs'
  <1>1. CASE Still
    BY <1>1 DEF Still, memVars, OwnerOf
  <1>2. ASSUME NEW p \in Peers, OnAccept(p)
        PROVE  OwnerOf(a)' = OwnerOf(a) \/ OwnerOf(a)' \in heirs'
    <2>1. CASE struct_of'[p] # a
      BY <1>2, <2>1, ClearStruct DEF OwnerOf
    <2>2. CASE struct_of'[p] = a
      <3>1. client'[a].buf_ev = p
        BY <1>2, <2>2, ClearStruct
      <3>2. p \in heirs'
        BY <1>2, <2>2, HeirOfMemory
      <3> QED  BY <3>1, <3>2 DEF OwnerOf
    <2> QED  BY <2>1, <2>2
  <1>3. ASSUME NEW p \in Peers, BufferedOnRead(p) \/ BufferedOnError(p)
        PROVE  OwnerOf(a)' = OwnerOf(a)
    BY <1>3 DEF BufferedOnRead, BufferedOnError, OwnerOf
  <1>4. ASSUME NEW w \in Workers, HandlerNext(w)
        PROVE  OwnerOf(a)' = OwnerOf(a)
    BY <1>4, HandlerKeepsBufEvs, TypedFacts DEF BufEvsKept, OwnerOf
  <1> QED  BY <1>1, <1>2, <1>3, <1>4, StillSteps DEF Next, LoopNext

\* From its dispatch on, an order is with its thread until the handler returns.
LEMMA OrderGoesOn ==
  ASSUME Typed, NEW w \in Workers, HandlerNext(w), ~WorkerTakes(w)
  PROVE  /\ Ordering(w)' => Ordering(w) /\ Goes(w)
         /\ pc'[w] \in Early => pc[w] \in Early \/ (pc'[w] = "idle" /\ Returns(w))
         /\ pc'[w] = "ord_send" => OrderIncomplete(w)
  <1>0. pc \in [Workers -> PC] /\ data' = data
    BY HandlerFrame DEF Typed, TypeOK
  <1>1. CASE Dispatch(w)
    <2>1. /\ pc[w] = "dispatch" /\ Goes(w) /\ pc'[w] = HandlerOf[data.type]
      BY <1>0, <1>1 DEF Dispatch, HandlerStep, Goto, Goes
    <2>2. /\ data.type \in {"REG_COOK", "CUST_ORDER", "COOK_UPDATE"}
          /\ HandlerOf["REG_COOK"] = "reg_state" /\ HandlerOf["CUST_ORDER"] = "ord_check"
          /\ HandlerOf["COOK_UPDATE"] = "upd_find"
      BY <2>1, PacketRead DEF HandlerOf
    <2> QED  BY <1>0, <2>1, <2>2 DEF Ordering, Placing, Early
  <1>2. CASE ~Dispatch(w)
    <2> USE DEF HandlerStep, Goto, Return, Goes, Returns, Pool!Complete
    <2>1. CASE RegCookState(w) \/ \E d \in Dishes : RegCookMenu(w, d)
      <3>1. /\ pc[w] \in {"reg_state", "reg_menu"}
            /\ pc'[w] = "reg_menu" \/ (pc'[w] = "idle" /\ Returns(w))
        BY <1>0, <2>1 DEF RegCookState, RegCookMenu
      <3> QED  BY <3>1 DEF Ordering, Placing, Early
    <2>2. CASE OrderRefused(w) \/ OrderComplete(w) \/ OrderReplies(w)
      <3>1. pc'[w] = "idle" /\ Returns(w)
        BY <1>0, <2>2 DEF OrderRefused, OrderComplete, OrderReplies
      <3> QED  BY <3>1 DEF Ordering, Placing, Early
    <2>3. CASE OrderEntered(w) \/ OrderLocks(w) \/ OrderUnlocks(w) \/ VisitSkips(w)
               \/ VisitAssigns(w)
      <3>1. /\ pc[w] \in {"ord_check", "ord_lock", "ord_visit"} /\ Goes(w)
            /\ pc'[w] \in {"ord_lock", "ord_visit", "ord_decide"}
            /\ pc'[w] = "ord_lock" => pc[w] = "ord_check"
        BY <1>0, <2>3 DEF OrderEntered, OrderLocks, OrderUnlocks, VisitSkips, VisitAssigns
      <3> QED  BY <3>1 DEF Ordering, Placing, Early
    <2>4. CASE OrderIncomplete(w)
      <3>1. pc[w] = "ord_decide" /\ Goes(w) /\ pc'[w] = "ord_send"
        BY <1>0, <2>4 DEF OrderIncomplete
      <3> QED  BY <2>4, <3>1 DEF Ordering, Placing, Early
    <2>5. CASE UpdateFinds(w) \/ Marks(w) \/ Scans(w) \/ UpdateReplies(w)
               \/ UpdateRefused(w) \/ UpdateFreesCook(w)
      <3>1. \/ pc'[w] \in {"upd_mark", "upd_scan", "upd_send", "upd_free"}
            \/ pc'[w] = "idle" /\ Returns(w)
        BY <1>0, <2>5 DEF UpdateFinds, Marks, UpdateMarks, Scans, UpdateScans, UpdateReplies,
           UpdateRefused,
                          UpdateFreesCook
      <3> QED  BY <3>1 DEF Ordering, Placing, Early
    <2> QED  BY <1>2, <2>1, <2>2, <2>3, <2>4, <2>5 DEF HandlerNext, Marks, Scans
  <1> QED  BY <1>1, <1>2

LEMMA ShortTail ==
  ASSUME NEW S, NEW q \in Seq(S), Len(q) <= 1, q # <<>>
  PROVE  Tail(q) = <<>> /\ Len(Tail(q)) = 0
  <1> DEFINE n == Len(q)
  <1>1. n \in Nat /\ n # 0 /\ n <= 1
    OBVIOUS
  <1> HIDE DEF n
  <1>2. n = 1
    BY <1>1
  <1>3. Len(q) = 1
    BY <1>2 DEF n
  <1>4. \A t \in Seq(S) : Len(t) = 1 => Tail(t) = <<>>
    OBVIOUS
  <1> QED  BY <1>3, <1>4

\* What is yet to come of a customer's order gets less.
LEMMA LessToCome ==
  ASSUME Memory, Kitchen, OneOrderEach, [Next]_vars, NEW c \in Customers, c \notin heirs
  PROVE  /\ Len(toServer'[c]) <= 1
         /\ peer'[c] \in {"start", "connected"} => toServer'[c] = <<>>
         /\ ToCome(c)' => ToCome(c)
         /\ \A p \in Peers : BufferedOnRead(p) /\ ToCome(c)' => p # c
  <1> DEFINE Goal ==
         /\ Len(toServer'[c]) <= 1
         /\ peer'[c] \in {"start", "connected"} => toServer'[c] = <<>>
         /\ ToCome(c)' => ToCome(c)
  <1>0. /\ Len(toServer[c]) <= 1 /\ toServer[c] \in Seq(ServerPacket)
        /\ peer[c] \in {"start", "connected"} => toServer[c] = <<>>
        /\ peer \in [Peers -> PeerState] /\ toServer \in [Peers -> Seq(ServerPacket)]
        /\ c \in Peers /\ c \notin Cooks
    BY TypedFacts DEF OneOrderEach
  <1>1. ASSUME peer'[c] = peer[c], toServer'[c] = toServer[c]
        PROVE  Goal
    BY <1>0, <1>1 DEF ToCome
  <1>2. ASSUME NEW p \in Peers, PeerNext(p) \/ Kill(p)
        PROVE  Goal
    <2>1. CASE p # c
      <3>1. peer'[c] = peer[c] /\ toServer'[c] = toServer[c]
        BY <1>0, <1>2, <2>1
        DEF PeerNext, Kill, Connect, Register, PlaceOrder, CookReads, CookFinishes,
            CustomerReads, ClientStep, Send, Receive, netVars
      <3> QED  BY <1>1, <3>1
    <2>2. ASSUME NEW o \in Orders, PlaceOrder(c, o)
          PROVE  Goal
      <3>1. /\ peer[c] = "connected" /\ peer'[c] = "reading"
            /\ toServer[c] = <<>> /\ toServer'[c] = Append(toServer[c], CustOrder(o.items, o.n))
        BY <1>0, <2>2 DEF PlaceOrder, ClientStep, Send
      <3>2. Len(toServer'[c]) = 1
        BY <3>1
      <3> QED  BY <3>1, <3>2 DEF ToCome
    <2>3. CASE Connect(c) \/ CustomerReads(c) \/ Kill(c)
      <3>1. /\ toServer' = toServer
            /\ peer'[c] \in {"start", "connected"} => peer[c] \in {"start", "connected"}
        BY <1>0, <2>3 DEF Connect, CustomerReads, Kill, ClientStep, netVars
      <3> QED  BY <1>0, <3>1 DEF ToCome
    <2> QED  BY <1>0, <1>2, <2>1, <2>2, <2>3 DEF PeerNext
  <1>3. ASSUME NEW p \in Peers, BufferedOnRead(p)
        PROVE  Goal /\ (ToCome(c)' => p # c)
    <2>1. /\ peer' = peer /\ toServer[p] # <<>>
          /\ toServer' = [toServer EXCEPT ![p] = Tail(@)]
      BY <1>3 DEF BufferedOnRead, LoopStep
    <2>2. CASE p # c
      BY <1>0, <1>1, <2>1, <2>2
    <2>3. CASE p = c
      <3>1. toServer'[c] = <<>> /\ Len(toServer'[c]) = 0
        BY <1>0, <2>1, <2>3, ShortTail
      <3> QED  BY <1>0, <2>1, <2>3, <3>1 DEF ToCome
    <2> QED  BY <2>2, <2>3
  <1>4. ASSUME NEW p \in Peers, OnAccept(p) \/ BufferedOnError(p)
        PROVE  Goal
    BY <1>1, <1>4 DEF OnAccept, BufferedOnError, LoopStep, netVars
  <1>5. ASSUME NEW w \in Workers, HandlerNext(w) \/ Crash(w)
        PROVE  Goal
    BY <1>1, <1>5, HandlerFrame DEF Crash, netVars
  <1>6. ASSUME UNCHANGED vars
        PROVE  Goal
    BY <1>1, <1>6 DEF vars, netVars
  <1> QED  BY <1>2, <1>3, <1>4, <1>5, <1>6 DEF Next, LoopNext

\* Where the order of a customer goes in a step, if anywhere: out of what is to
\* come into the queue, or out of the queue to a thread.
Read(c) ==
  /\ ToCome(c) /\ ~ToCome(c)'
  /\ Waits(c)' /\ \A v \in Workers : PlacedBy(c, v)' => PlacedBy(c, v)
Taken(c, w) ==
  /\ Waits(c) /\ ~Waits(c)'
  /\ \A v \in Workers \ {w} : PlacedBy(c, v)' => PlacedBy(c, v)
NoFurther(c) ==
  /\ Waits(c)' => Waits(c)
  /\ \A v \in Workers : PlacedBy(c, v)' => PlacedBy(c, v)

LEMMA CookPackets ==
  ASSUME Memory, Kitchen, NEW k \in Cooks, BufferedOnRead(k)
  PROVE  data'.type # "CUST_ORDER"
  <1>1. toServer[k] # <<>> /\ data' = Head(toServer[k])
    BY DEF BufferedOnRead
  <1>2. PICK s \in Stages : AtToServer(k, s)
    BY DEF Kitchen, EveryCookIsSomewhere, At
  <1> QED  BY <1>1, <1>2 DEF AtToServer

LEMMA OrderMoves ==
  ASSUME Paced, Memory, Kitchen, Desk, [Next]_vars, Heritage
  PROVE  /\ OrdersAreCustomers'
         /\ \A c \in Customers \ heirs' :
              Read(c) \/ NoFurther(c) \/ \E w \in Workers : Taken(c, w)
  <1> DEFINE Goal == /\ OrdersAreCustomers'
                     /\ \A c \in Customers \ heirs' :
                          Read(c) \/ NoFurther(c) \/ \E w \in Workers : Taken(c, w)
  <1>0. /\ OrdersAreCustomers /\ OneOrderEach /\ OneUnread /\ Owners
        /\ pending \in Seq(Addr) /\ running \in [Workers -> Addr \cup {NoClient}]
        /\ struct_of \in [Peers -> Addr \cup {NoClient}]
        /\ \A w \in Workers : Ordering(w) => running[w] \in Addr /\ PointedAt(running[w])
        /\ pending # <<>> => Head(pending) \in Addr /\ PointedAt(Head(pending))
    BY TypedFacts DEF Desk, Kitchen, PointedAt, Ordering, Placing
  <1>1. /\ heirs \subseteq heirs'
        /\ \A a \in Addr : PointedAt(a) => \/ client'[a].buf_ev = client[a].buf_ev
                                           \/ client'[a].buf_ev \in heirs'
    BY OwnersStay DEF OwnerOf, Heritage
  <1>2. ASSUME UNCHANGED <<pending, data, running, pc>>
        PROVE  Goal
    <2>1. \A w \in Workers : Ordering(w)' <=> Ordering(w)
      BY <1>2 DEF Ordering, Placing
    <2>2. OrdersAreCustomers'
      BY <1>0, <1>1, <1>2, <2>1 DEF OrdersAreCustomers, OwnerOf
    <2>3. \A c \in Customers \ heirs' : NoFurther(c)
      BY <1>0, <1>1, <1>2, <2>1 DEF NoFurther, Waits, PlacedBy, OwnerOf
    <2> QED  BY <2>2, <2>3
  <1>3. ASSUME NEW p \in Peers, BufferedOnRead(p)
        PROVE  Goal
    <2>1. /\ pending = <<>> /\ pending' = Append(pending, struct_of[p])
          /\ UNCHANGED <<pc, running, client, struct_of>>
          /\ toServer[p] # <<>> /\ struct_of[p] \in Addr /\ client[struct_of[p]].buf_ev = p
          /\ \A w \in Workers : pc[w] # "dispatch"
      BY <1>0, <1>3 DEF BufferedOnRead, LoopStep, Pool!Submit, Unread, Owners
    <2>2. pending' # <<>> /\ Head(pending') = struct_of[p]
      BY <1>0, <2>1
    <2>3. data'.type = "CUST_ORDER" <=> p \in Customers
      BY <1>3, CookPackets, WhoSendsWhat, TypedFacts DEF Desk, Kitchen, Peers
    <2>4. \A w \in Workers : Ordering(w)' <=> Ordering(w)
      BY <2>1 DEF Ordering, Placing
    <2>5. OrdersAreCustomers'
      BY <1>0, <1>1, <2>1, <2>2, <2>3, <2>4 DEF OrdersAreCustomers, OwnerOf
    <2>6. ASSUME NEW c \in Customers \ heirs'
          PROVE  Read(c) \/ NoFurther(c)
      <3>1. \A w \in Workers : PlacedBy(c, w)' => PlacedBy(c, w)
        BY <2>1, <2>4 DEF PlacedBy, OwnerOf
      <3>2. Waits(c)' <=> p = c
        BY <2>1, <2>2, <2>3 DEF Waits, OwnerOf
      <3>3. p = c => ToCome(c) /\ ~ToCome(c)'
        BY <1>0, <1>1, <1>3, <2>1, LessToCome DEF ToCome
      <3> QED  BY <3>1, <3>2, <3>3 DEF Read, NoFurther
    <2> QED  BY <2>5, <2>6
  <1>4. ASSUME NEW w \in Workers, HandlerNext(w)
        PROVE  Goal
    <2>1. /\ data' = data
          /\ \A v \in Workers \ {w} : pc'[v] = pc[v] /\ running'[v] = running[v]
      BY <1>4, HandlerFrame, HandlerPool, TypedFacts
    <2>2. \A v \in Workers \ {w} : Ordering(v)' <=> Ordering(v)
      BY <2>1 DEF Ordering, Placing
    <2>3. \A c \in Customers \ heirs' : \A v \in Workers \ {w} : PlacedBy(c, v)' => PlacedBy(c, v)
      BY <1>0, <1>1, <2>1, <2>2 DEF PlacedBy, OwnerOf
    <2>4. \A v \in Workers \ {w} : Ordering(v)' => OwnerOf(running[v])' \in Customers \cup heirs'
      BY <1>0, <1>1, <2>1, <2>2 DEF OrdersAreCustomers, OwnerOf
    <2>5. CASE WorkerTakes(w)
      <3>1. /\ pc[w] = "idle" /\ pc'[w] = "dispatch"
            /\ pending # <<>> /\ running'[w] = Head(pending) /\ pending' = Tail(pending)
            /\ client' = client
        BY <2>5, HandlerTakes, TypedFacts DEF WorkerTakes
      <3>2. pending' = <<>>
        BY <1>0, <3>1 DEF OneUnread
      <3>3. Ordering(w)' <=> data.type = "CUST_ORDER"
        BY <2>1, <3>1 DEF Ordering, Placing
      <3>4. OrdersAreCustomers'
        BY <1>0, <1>1, <2>1, <2>4, <3>1, <3>2, <3>3 DEF OrdersAreCustomers, OwnerOf
      <3>5. \A c \in Customers : PlacedBy(c, w)' => Waits(c)
        BY <2>1, <3>1, <3>3 DEF PlacedBy, Waits, OwnerOf
      <3>6. \A c \in Customers \ heirs' : Taken(c, w) \/ NoFurther(c)
        BY <2>3, <3>2, <3>5 DEF Taken, NoFurther, Waits
      <3> QED  BY <3>4, <3>6
    <2>6. CASE ~WorkerTakes(w)
      <3>1. pending' = pending /\ (Ordering(w)' => Ordering(w) /\ running' = running)
        BY <1>4, <2>6, HandlerPool, OrderGoesOn, TypedFacts DEF Goes, Returns
      <3>2. OrdersAreCustomers'
        BY <1>0, <1>1, <2>1, <2>4, <3>1 DEF OrdersAreCustomers, OwnerOf
      <3>3. \A c \in Customers \ heirs' : NoFurther(c)
        BY <1>0, <1>1, <2>1, <2>3, <3>1 DEF NoFurther, Waits, PlacedBy, OwnerOf
      <3> QED  BY <3>2, <3>3
    <2> QED  BY <2>5, <2>6
  <1>5. CASE Still
    BY <1>2, <1>5 DEF Still, memVars, poolVars
  <1>6. ASSUME NEW p \in Peers, OnAccept(p) \/ BufferedOnError(p)
        PROVE  Goal
    BY <1>2, <1>6 DEF OnAccept, BufferedOnError, LoopStep
  <1> QED  BY <1>3, <1>4, <1>5, <1>6, StillSteps DEF Next, LoopNext

LEMMA OneOrderNext ==
  ASSUME Paced, Memory, Kitchen, Desk, [Next]_vars, Heritage
  PROVE  OneOrderEach'
  <1> SUFFICES ASSUME NEW c \in Customers, c \notin heirs'
               PROVE  /\ Len(toServer'[c]) <= 1
                      /\ peer'[c] \in {"start", "connected"} => toServer'[c] = <<>>
                      /\ ~(ToCome(c)' /\ Waits(c)')
                      /\ \A w \in Workers : PlacedBy(c, w)' => ~ToCome(c)' /\ ~Waits(c)'
                      /\ \A v, w \in Workers : PlacedBy(c, v)' /\ PlacedBy(c, w)' => v = w
    BY DEF OneOrderEach
  <1>0. c \notin heirs
    BY DEF Heritage
  <1>1. /\ ~(ToCome(c) /\ Waits(c))
        /\ \A w \in Workers : PlacedBy(c, w) => ~ToCome(c) /\ ~Waits(c)
        /\ \A v, w \in Workers : PlacedBy(c, v) /\ PlacedBy(c, w) => v = w
    BY <1>0 DEF Desk, OneOrderEach
  <1>2. /\ Len(toServer'[c]) <= 1
        /\ peer'[c] \in {"start", "connected"} => toServer'[c] = <<>>
        /\ ToCome(c)' => ToCome(c)
    BY <1>0, LessToCome DEF Desk
  <1>3. CASE Read(c)
    BY <1>1, <1>2, <1>3 DEF Read
  <1>4. CASE NoFurther(c)
    BY <1>1, <1>2, <1>4 DEF NoFurther
  <1>5. ASSUME NEW w \in Workers, Taken(c, w)
        PROVE  /\ ~(ToCome(c)' /\ Waits(c)')
               /\ \A v \in Workers : PlacedBy(c, v)' => ~ToCome(c)' /\ ~Waits(c)'
               /\ \A u, v \in Workers : PlacedBy(c, u)' /\ PlacedBy(c, v)' => u = v
    BY <1>1, <1>2, <1>5 DEF Taken
  <1> QED  BY <1>2, <1>3, <1>4, <1>5, OrderMoves

\* orders_assigned goes up only where a dish is handed out, and the text is
\* chosen only where the handler has decided.
LEMMA LocalsKept ==
  ASSUME Memory, NEW w \in Workers, HandlerNext(w), ~VisitAssigns(w), ~OrderIncomplete(w)
  PROVE  /\ \A v \in Workers \ {w} : frame'[v] = frame[v]
         /\ \/ pc'[w] = "idle" /\ frame'[w] = NoFrame
            \/ /\ pc'[w] # "idle"
               /\ frame'[w].taken = frame[w].taken /\ frame'[w].text = frame[w].text
  <1> DEFINE Goal == /\ \A v \in Workers \ {w} : frame'[v] = frame[v]
                     /\ \/ pc'[w] = "idle" /\ frame'[w] = NoFrame
                        \/ /\ pc'[w] # "idle"
                           /\ frame'[w].taken = frame[w].taken
                           /\ frame'[w].text = frame[w].text
  <1>0. /\ pc \in [Workers -> PC] /\ frame \in [Workers -> Frame] /\ Typed
        /\ \A f \in Frame : \A x : /\ [f EXCEPT !.cur = x].taken = f.taken
                                   /\ [f EXCEPT !.cur = x].text = f.text
                                   /\ [f EXCEPT !.todo = x].taken = f.taken
                                   /\ [f EXCEPT !.todo = x].text = f.text
    BY TypedFacts DEF Frame
  <1>1. CASE Return(w)
    BY <1>0, <1>1 DEF Return
  <1>2. ASSUME pc'[w] # "idle", frame' = frame
        PROVE  Goal
    BY <1>2
  <1>3. ASSUME pc'[w] # "idle", NEW x,
               frame' = [frame EXCEPT ![w].cur = x] \/ frame' = [frame EXCEPT ![w].todo = x]
        PROVE  Goal
    <2>1. CASE frame' = [frame EXCEPT ![w].cur = x]
      BY <1>0, <1>3, <2>1
    <2>2. CASE frame' = [frame EXCEPT ![w].todo = x]
      BY <1>0, <1>3, <2>2
    <2> QED  BY <1>3, <2>1, <2>2
  <1>4. CASE WorkerTakes(w) \/ Dispatch(w)
    <2>1. frame' = frame /\ pc'[w] # "idle"
      <3>1. CASE WorkerTakes(w)
        BY <1>0, <3>1 DEF WorkerTakes
      <3>2. CASE Dispatch(w)
        <4>1. pc[w] # "idle"
          BY <3>2 DEF Dispatch, HandlerStep
        <4>2. HandlerOf[data.type] # "idle"
          BY <1>0, <4>1, PacketRead
        <4> QED  BY <1>0, <3>2, <4>2 DEF Dispatch, Goto
      <3> QED  BY <1>4, <3>1, <3>2
    <2> QED  BY <1>2, <2>1
  <1>5. CASE OrderLocks(w) \/ VisitSkips(w)
    <2>1. pc'[w] # "idle" /\ \E x : frame' = [frame EXCEPT ![w].cur = x]
      BY <1>0, <1>5 DEF OrderLocks, VisitSkips, Goto
    <2> QED  BY <1>3, <2>1
  <1>6. CASE RegCookState(w) \/ \E d \in Dishes : RegCookMenu(w, d)
    <2>1. \/ Return(w)
          \/ pc'[w] # "idle" /\ \E x : frame' = [frame EXCEPT ![w].todo = x]
      BY <1>0, <1>6 DEF RegCookState, RegCookMenu, Goto
    <2> QED  BY <1>1, <1>3, <2>1
  <1>7. CASE \/ OrderEntered(w) \/ OrderRefused(w) \/ OrderUnlocks(w) \/ OrderComplete(w)
             \/ OrderReplies(w) \/ UpdateRefused(w) \/ UpdateReplies(w) \/ UpdateFreesCook(w)
    <2>1. \/ Return(w)
          \/ pc'[w] # "idle" /\ frame' = frame
      BY <1>0, <1>7
      DEF OrderEntered, OrderRefused, OrderUnlocks, OrderComplete, OrderReplies,
          UpdateRefused, UpdateReplies, UpdateFreesCook, Goto
    <2> QED  BY <1>1, <1>2, <2>1
  <1>8. CASE UpdateFinds(w) \/ \E d \in Dishes : UpdateMarks(w, d) \/ UpdateScans(w, d)
    <2>1. pc'[w] # "idle" /\ \E x : frame' = [frame EXCEPT ![w].todo = x]
      <3>1. CASE UpdateFinds(w)
        BY <1>0, <3>1 DEF UpdateFinds, Goto
      <3>2. ASSUME NEW d \in Dishes, UpdateMarks(w, d)
            PROVE  pc'[w] # "idle" /\ \E x : frame' = [frame EXCEPT ![w].todo = x]
        BY <1>0, <3>2 DEF UpdateMarks, Goto
      <3>3. ASSUME NEW d \in Dishes, UpdateScans(w, d)
            PROVE  pc'[w] # "idle" /\ \E x : frame' = [frame EXCEPT ![w].todo = x]
        BY <1>0, <3>3 DEF UpdateScans, Goto
      <3> QED  BY <1>8, <3>1, <3>2, <3>3
    <2> QED  BY <1>3, <2>1
  <1> QED  BY <1>4, <1>5, <1>6, <1>7, <1>8 DEF HandlerNext

\* A visit to a cook that gets some of the order.
LEMMA VisitCounts ==
  ASSUME Memory, NEW w \in Workers, VisitAssigns(w)
  PROVE  /\ \A v \in Workers \ {w} : frame'[v] = frame[v]
         /\ pc[w] = "ord_visit" /\ pc'[w] \in {"ord_visit", "ord_decide"} /\ Goes(w)
         /\ frame'[w].taken > 0
  <1> DEFINE k == tailq[frame[w].cur]
             dishes == Takes(k, running[w])
             n == frame[w].taken + Cardinality(dishes)
  <1>0. /\ pc \in [Workers -> PC] /\ frame \in [Workers -> Frame]
        /\ frame[w].taken \in Nat
        /\ \A f \in Frame : \A x, y : [f EXCEPT !.cur = x, !.taken = y].taken = y
    BY TypedFacts DEF Frame
  <1>1. dishes # {} /\ frame' = [frame EXCEPT ![w].cur = @ + 1, ![w].taken = n]
    BY DEF VisitAssigns
  <1>2. IsFiniteSet(dishes) /\ Cardinality(dishes) \in Nat /\ Cardinality(dishes) # 0
    <2>1. dishes \subseteq Dishes
      BY DEF Takes
    <2> HIDE DEF dishes
    <2>2. IsFiniteSet(dishes)
      BY <2>1, PeersAssumption, FS_Subset
    <2> QED  BY <1>1, <2>2, FS_CardinalityType, FS_EmptySet
  <1>3. n > 0
    <2> HIDE DEF dishes
    <2> QED  BY <1>0, <1>2
  <1>4. /\ pc[w] = "ord_visit" /\ pc'[w] \in {"ord_visit", "ord_decide"} /\ Goes(w)
    BY <1>0 DEF VisitAssigns, HandlerStep, Goto, Goes
  <1> HIDE DEF n
  <1> QED  BY <1>0, <1>1, <1>3, <1>4

LEMMA CountingNext ==
  ASSUME Memory, Counting, [Next]_vars
  PROVE  Counting'
  <1>0. pc \in [Workers -> PC] /\ frame \in [Workers -> Frame] /\ Typed
    BY TypedFacts
  <1>1. CASE UNCHANGED <<pc, frame>>
    BY <1>1 DEF Counting
  <1>2. ASSUME NEW w \in Workers, HandlerNext(w)
        PROVE  Counting'
    <2>1. \A v \in Workers \ {w} : pc'[v] = pc[v]
      BY <1>0, <1>2, HandlerPool
    <2>2. CASE VisitAssigns(w)
      BY <2>1, <2>2, VisitCounts DEF Counting, Early
    <2>3. CASE OrderIncomplete(w)
      <3>1. /\ frame' = [frame EXCEPT ![w].text = CustomerMsg(w)]
            /\ pc'[w] = "ord_send"
        BY <1>0, <2>3 DEF OrderIncomplete, Goto
      <3>2. \A f \in Frame : \A x : /\ [f EXCEPT !.text = x].taken = f.taken
                                    /\ [f EXCEPT !.text = x].text = x
        BY DEF Frame
      <3>3. /\ frame'[w].taken = frame[w].taken /\ frame'[w].text = CustomerMsg(w)
            /\ \A v \in Workers \ {w} : frame'[v] = frame[v]
        BY <1>0, <3>1, <3>2
      <3> QED  BY <2>1, <3>1, <3>3 DEF Counting, Early, CustomerMsg
    <2>4. CASE ~VisitAssigns(w) /\ ~OrderIncomplete(w)
      <3>1. /\ \A v \in Workers \ {w} : frame'[v] = frame[v]
            /\ \/ pc'[w] = "idle" /\ frame'[w] = NoFrame
               \/ pc'[w] # "idle" /\ frame'[w].taken = frame[w].taken
        BY <1>2, <2>4, LocalsKept
      <3>2. NoFrame.taken = 0
        BY DEF NoFrame
      <3>3. /\ pc'[w] # "ord_send"
            /\ pc'[w] \in Early => pc[w] \in Early \/ pc'[w] = "idle"
        <4>1. CASE WorkerTakes(w)
          BY <1>0, <4>1, HandlerTakes DEF Early
        <4> QED  BY <1>0, <1>2, <2>4, <4>1, OrderGoesOn
      <3> QED  BY <2>1, <3>1, <3>2, <3>3 DEF Counting
    <2> QED  BY <2>2, <2>3, <2>4
  <1>3. CASE Still
    BY <1>1, <1>3 DEF Still, poolVars
  <1>4. ASSUME NEW p \in Peers, LoopNext(p)
        PROVE  Counting'
    BY <1>1, <1>4 DEF LoopNext, OnAccept, BufferedOnRead, BufferedOnError, LoopStep
  <1> QED  BY <1>2, <1>3, <1>4, StillSteps DEF Next

LEMMA AssigningMenus ==
  ASSUME Memory, NEW w \in Workers, VisitAssigns(w),
         NEW k, k = tailq[frame[w].cur], NEW dishes, dishes = Takes(k, running[w])
  PROVE  /\ running[w] \in Addr /\ k \in Addr /\ k # running[w]
         /\ client'[running[w]].menu_items = Assigned(client[running[w]].menu_items, dishes)
         /\ client'[k].menu_items = Assigned(client[k].menu_items, dishes)
         /\ \A a \in Addr \ {k, running[w]} : client'[a] = client[a]
  <1> DEFINE a == running[w]
  <1>0. client \in [Addr -> Client] /\ a \in Addr /\ k \in Addr
    BY TypedFacts, AssigningMemory
  <1>1. k # a
    BY DEF VisitAssigns, Takes
  <1>2. client' = [client EXCEPT ![a].menu_items = Assigned(@, dishes),
                                 ![k] = Booked(@, a, dishes)]
    BY DEF VisitAssigns
  <1>3. \A c \in Client :
          /\ Booked(c, a, dishes).menu_items = Assigned(c.menu_items, dishes)
          /\ [c EXCEPT !.menu_items = Assigned(@, dishes)].menu_items
               = Assigned(c.menu_items, dishes)
    BY DEF Booked, Client
  <1> HIDE DEF a
  <1>4. /\ client'[k] = Booked(client[k], a, dishes)
        /\ client'[a] = [client[a] EXCEPT !.menu_items = Assigned(@, dishes)]
        /\ \A b \in Addr \ {k, a} : client'[b] = client[b]
    BY <1>0, <1>1, <1>2
  <1>5. client[k] \in Client /\ client[a] \in Client
    BY <1>0
  <1> QED  BY <1>0, <1>1, <1>3, <1>4, <1>5 DEF a

\* What a handler may do to a dish in a menu.
DishMoves(w, a, d) ==
  LET now == client[a].menu_items[d]
      next == client'[a].menu_items[d]
  IN \/ next = now
     \/ next = "CAPABLE" /\ RegCookMenu(w, d) /\ running[w] = a
     \/ next = "NEW" /\ OrderEntered(w) /\ running[w] = a
     \/ /\ next = "ASSIGNED" /\ VisitAssigns(w)
        /\ a \in {running[w], tailq[frame[w].cur]}
        /\ d \in Takes(tailq[frame[w].cur], running[w])
     \/ /\ next = "COMPLETED" /\ UpdateMarks(w, d) /\ AssignedClient(w) = a
        /\ client[running[w]].menu_items[d] = "ASSIGNED"

LEMMA MarkingMenus ==
  ASSUME Memory, NEW w \in Workers, NEW e \in Dishes, UpdateMarks(w, e), NEW d \in Dishes
  PROVE  /\ AssignedClient(w) \in Addr
         /\ client'[AssignedClient(w)].menu_items[d] =
              IF d = e /\ client[running[w]].menu_items[d] = "ASSIGNED" THEN "COMPLETED"
              ELSE client[AssignedClient(w)].menu_items[d]
         /\ \A a \in Addr \ {AssignedClient(w)} : client'[a] = client[a]
  <1> DEFINE b == AssignedClient(w)
  <1>1. /\ client \in [Addr -> Client] /\ running[w] \in Addr
    BY TypedFacts DEF UpdateMarks, HandlerStep
  <1>2. b \in Addr
    BY <1>1 DEF UpdateMarks, AssignedClient, Client
  <1>3. client' = IF client[running[w]].menu_items[e] = "ASSIGNED"
                  THEN [client EXCEPT ![b].menu_items[e] = "COMPLETED"] ELSE client
    BY DEF UpdateMarks
  <1> HIDE DEF b
  <1>4. CASE client[running[w]].menu_items[e] = "ASSIGNED"
    <2>1. client' = [client EXCEPT ![b].menu_items[e] = "COMPLETED"]
      BY <1>3, <1>4
    <2>2. /\ client'[b].menu_items[d] = IF d = e THEN "COMPLETED" ELSE client[b].menu_items[d]
          /\ \A a \in Addr \ {b} : client'[a] = client[a]
      BY <1>1, <1>2, <2>1 DEF Client
    <2> QED  BY <1>2, <1>4, <2>2 DEF b
  <1>5. CASE client[running[w]].menu_items[e] # "ASSIGNED"
    <2>1. client' = client
      BY <1>3, <1>5
    <2> QED  BY <1>2, <1>5, <2>1 DEF b
  <1> QED  BY <1>4, <1>5

LEMMA HandlerMenus ==
  ASSUME Memory, NEW w \in Workers, HandlerNext(w), NEW a \in Addr, NEW d \in Dishes
  PROVE  DishMoves(w, a, d)
  <1>0. /\ client \in [Addr -> Client] /\ running \in [Workers -> Addr \cup {NoClient}]
        /\ pc[w] # "idle" => running[w] \in Addr
    BY TypedFacts
  <1>1. CASE client'[a].menu_items[d] = client[a].menu_items[d]
    BY <1>1 DEF DishMoves
  <1>2. CASE RegCookState(w) \/ UpdateFreesCook(w)
    <2>1. running[w] \in Addr /\ client' = [client EXCEPT ![running[w]].state = "COOK_FREE"]
      BY <1>0, <1>2 DEF RegCookState, UpdateFreesCook, Freed, HandlerStep
    <2> QED  BY <1>0, <1>1, <2>1 DEF Client
  <1>3. ASSUME NEW e \in Dishes, RegCookMenu(w, e)
        PROVE  DishMoves(w, a, d)
    <2>1. /\ running[w] \in Addr
          /\ \/ client' = client
             \/ client' = [client EXCEPT ![running[w]].menu_items[e] = "CAPABLE"]
      BY <1>0, <1>3 DEF RegCookMenu, HandlerStep
    <2>2. \/ client'[a].menu_items[d] = client[a].menu_items[d]
          \/ client'[a].menu_items[d] = "CAPABLE" /\ d = e /\ running[w] = a
      BY <1>0, <2>1 DEF Client
    <2> QED  BY <1>1, <1>3, <2>2 DEF DishMoves
  <1>4. CASE OrderEntered(w)
    <2>1. running[w] \in Addr
      BY <1>0, <1>4 DEF OrderEntered, HandlerStep
    <2>2. PICK pkt \in Seen("CUST_ORDER") :
            client' = [client EXCEPT
              ![running[w]].state = "CUSTOMER",
              ![running[w]].menu_items =
                  [e \in Dishes |-> IF e \in pkt.items THEN "NEW" ELSE @[e]],
              ![running[w]].num_of_orders = pkt.n]
      BY <1>4 DEF OrderEntered
    <2>3. \/ client'[a].menu_items[d] = client[a].menu_items[d]
          \/ client'[a].menu_items[d] = "NEW" /\ running[w] = a
      BY <1>0, <2>1, <2>2 DEF Client
    <2> QED  BY <1>1, <1>4, <2>3 DEF DishMoves
  <1>5. CASE VisitSkips(w)
    <2>1. pc[w] = "ord_visit" /\ frame[w].cur <= Len(tailq)
      BY <1>5 DEF VisitSkips, HandlerStep
    <2>2. tailq[frame[w].cur] \in Addr
      BY <2>1, VisitedIsLive, TypedFacts DEF Live
    <2>3. \/ client' = client
          \/ client' = [client EXCEPT ![tailq[frame[w].cur]].assigned_client = running[w]]
      BY <1>5 DEF VisitSkips
    <2> DEFINE k == tailq[frame[w].cur]
    <2> HIDE DEF k
    <2>4. /\ k \in Addr
          /\ \/ client' = client
             \/ client' = [client EXCEPT ![k].assigned_client = running[w]]
      BY <2>2, <2>3 DEF k
    <2> QED  BY <1>0, <1>1, <2>4 DEF Client
  <1>6. CASE VisitAssigns(w)
    <2>1. \A menu, dishes : Assigned(menu, dishes)[d] = IF d \in dishes THEN "ASSIGNED"
                                                        ELSE menu[d]
      BY DEF Assigned
    <2> QED  BY <1>1, <1>6, <2>1, AssigningMenus DEF DishMoves
  <1>7. ASSUME NEW e \in Dishes, UpdateMarks(w, e)
        PROVE  DishMoves(w, a, d)
    <2>1. CASE a = AssignedClient(w)
      BY <1>1, <1>7, <2>1, MarkingMenus DEF DishMoves
    <2>2. CASE a # AssignedClient(w)
      BY <1>1, <1>7, <2>2, MarkingMenus
    <2> QED  BY <2>1, <2>2
  <1>8. CASE client' = client
    BY <1>1, <1>8
  <1> QED
    BY <1>2, <1>3, <1>4, <1>5, <1>6, <1>7, <1>8
    DEF HandlerNext, WorkerTakes, Dispatch, OrderRefused, OrderLocks, OrderUnlocks,
        OrderComplete, OrderIncomplete, OrderReplies, UpdateFinds, UpdateRefused, Scans,
        UpdateScans,
        UpdateReplies

\* A dish becomes NEW only when an order is entered.
NewAt(a, d) == client[a].menu_items[d] = "NEW"

LEMMA NewOnlyWhenEntered ==
  ASSUME Memory, [Next]_vars, NEW a \in Addr, NEW d \in Dishes, NewAt(a, d)'
  PROVE  NewAt(a, d) \/ \E w \in Workers : OrderEntered(w) /\ running[w] = a
  <1>1. CASE client' = client
    BY <1>1 DEF NewAt
  <1>2. ASSUME NEW p \in Peers, OnAccept(p)
        PROVE  NewAt(a, d)
    BY <1>2, ClearStruct DEF NewAt
  <1>3. ASSUME NEW p \in Peers, BufferedOnRead(p) \/ BufferedOnError(p)
        PROVE  client' = client
    BY <1>3 DEF BufferedOnRead, BufferedOnError
  <1>4. ASSUME NEW w \in Workers, HandlerNext(w)
        PROVE  NewAt(a, d) \/ (OrderEntered(w) /\ running[w] = a)
    BY <1>4, HandlerMenus DEF NewAt, DishMoves
  <1>5. CASE Still
    BY <1>1, <1>5 DEF Still, memVars
  <1> QED  BY <1>1, <1>2, <1>3, <1>4, <1>5, StillSteps DEF Next, LoopNext

\* What a connection carries.
LEMMA TextsSent ==
  ASSUME NEW c, NEW text, toPeer[c] \in Seq(PeerPacket), NEW pkt,
         toPeer'[c] = Append(toPeer[c], pkt), Has(c, text)'
  PROVE  Has(c, text) \/ (pkt.type = "CUST_UPDATE" /\ pkt.text = text)
  <1>1. PICK i \in DOMAIN toPeer'[c] : /\ toPeer'[c][i].type = "CUST_UPDATE"
                                       /\ toPeer'[c][i].text = text
    BY DEF Has
  <1> DEFINE n == Len(toPeer[c])
  <1>2. /\ n \in Nat /\ DOMAIN toPeer[c] = 1..n /\ DOMAIN toPeer'[c] = 1..(n + 1)
        /\ toPeer'[c][n + 1] = pkt
        /\ \A j \in 1..n : toPeer'[c][j] = toPeer[c][j]
    OBVIOUS
  <1> HIDE DEF n
  <1>3. CASE i = n + 1
    BY <1>1, <1>2, <1>3
  <1>4. CASE i # n + 1
    <2>1. i \in 1..n
      BY <1>2, <1>4
    <2> QED  BY <1>1, <1>2, <2>1 DEF Has
  <1> QED  BY <1>3, <1>4

LEMMA TextsRead ==
  ASSUME NEW c, NEW text, toPeer[c] \in Seq(PeerPacket), toPeer[c] # <<>>,
         toPeer'[c] = Tail(toPeer[c]), Has(c, text)'
  PROVE  Has(c, text)
  <1>1. PICK i \in DOMAIN toPeer'[c] : /\ toPeer'[c][i].type = "CUST_UPDATE"
                                       /\ toPeer'[c][i].text = text
    BY DEF Has
  <1>2. i + 1 \in DOMAIN toPeer[c] /\ toPeer'[c][i] = toPeer[c][i + 1]
    OBVIOUS
  <1> QED  BY <1>1, <1>2 DEF Has

\* Handlers that hand out nothing send texts, UNSERVICEABLE only in reply to an
\* order.
LEMMA RefusalIsReply ==
  ASSUME Memory, NEW w \in Workers, HandlerNext(w), ~VisitAssigns(w),
         NEW c \in Customers, Has(c, "UNSERVICEABLE")'
  PROVE  \/ Has(c, "UNSERVICEABLE")
         \/ OrderReplies(w) /\ OwnerOf(running[w]) = c /\ frame[w].text = "UNSERVICEABLE"
  <1>0. toPeer \in [Peers -> Seq(PeerPacket)] /\ c \in Peers
    BY TypedFacts
  <1>1. CASE toPeer' = toPeer
    BY <1>1 DEF Has
  <1>2. CASE OrderReplies(w)
    <2>1. toPeer' = [toPeer EXCEPT ![OwnerOf(running[w])] = Append(@, CustUpdate(frame[w].text))]
      BY <1>2 DEF OrderReplies, BuffereventWrite, OwnerOf
    <2>2. CASE OwnerOf(running[w]) = c
      <3>1. toPeer'[c] = Append(toPeer[c], CustUpdate(frame[w].text))
        BY <1>0, <2>1, <2>2
      <3>2. CustUpdate(frame[w].text).text = frame[w].text
        BY DEF CustUpdate
      <3> QED  BY <1>0, <1>2, <2>2, <3>1, <3>2, TextsSent
    <2>3. CASE OwnerOf(running[w]) # c
      <3>1. toPeer'[c] = toPeer[c]
        BY <1>0, <2>1, <2>3
      <3> QED  BY <3>1 DEF Has
    <2> QED  BY <2>2, <2>3
  <1>3. CASE UpdateReplies(w)
    <2>1. toPeer' = [toPeer EXCEPT ![client[AssignedClient(w)].buf_ev] =
                       Append(@, CustUpdate("COMPLETE"))]
      BY <1>3 DEF UpdateReplies, BuffereventWrite
    <2>2. toPeer'[c] = toPeer[c] \/ toPeer'[c] = Append(toPeer[c], CustUpdate("COMPLETE"))
      BY <1>0, <2>1
    <2>3. CustUpdate("COMPLETE").text = "COMPLETE"
      BY DEF CustUpdate
    <2>4. CASE toPeer'[c] = toPeer[c]
      BY <2>4 DEF Has
    <2> QED  BY <1>0, <2>2, <2>3, <2>4, TextsSent
  <1> QED
    BY <1>1, <1>2, <1>3
    DEF HandlerNext, WorkerTakes, Dispatch, RegCookState, RegCookMenu, OrderEntered,
        OrderRefused,
        OrderLocks, OrderUnlocks, VisitSkips, OrderComplete, OrderIncomplete, UpdateFinds,
        UpdateRefused, Marks, UpdateMarks, Scans, UpdateScans, UpdateFreesCook

LEMMA NothingGiven ==
  ASSUME NEW w \in Workers, HandlerNext(w), ~VisitAssigns(w)
  PROVE  given' = given
  BY DEF HandlerNext, WorkerTakes, Dispatch, RegCookState, RegCookMenu,
     OrderEntered, OrderRefused, OrderLocks, OrderUnlocks, VisitSkips, OrderComplete,
     OrderIncomplete, OrderReplies, UpdateFinds, UpdateRefused, Marks, UpdateMarks, Scans,
     UpdateScans,
     UpdateReplies, UpdateFreesCook, historyVars

\* What a visit hands out, and to whom: dishes that were NEW, to a cook.
LEMMA VisitGives ==
  ASSUME Memory, Kitchen, NEW w \in Workers, VisitAssigns(w),
         NEW dishes, dishes = Takes(tailq[frame[w].cur], running[w])
  PROVE  /\ given' = [given EXCEPT ![OwnerOf(running[w])] = @ \cup dishes]
         /\ \A d \in dishes : d \in Dishes /\ NewAt(running[w], d)
         /\ \E q \in Peers :
              /\ client[tailq[frame[w].cur]].buf_ev = q /\ struct_of[q] = tailq[frame[w].cur]
              /\ toPeer' = [toPeer EXCEPT ![q] = Append(@, CookOrder(dishes))]
              /\ servesFor' = [servesFor EXCEPT ![q] = OwnerOf(running[w])]
         /\ \A c \in Customers : Has(c, "UNSERVICEABLE")' => Has(c, "UNSERVICEABLE")
  <1> DEFINE b == tailq[frame[w].cur]
  <1>0. /\ toPeer \in [Peers -> Seq(PeerPacket)] /\ Customers \subseteq Peers
        /\ Typed /\ Listed /\ Owners
    BY TypedFacts DEF Kitchen
  <1>1. b \in Live
    BY <1>0, AssigningMemory
  <1>2. PICK q \in Peers : b = struct_of[q] /\ client[b].buf_ev = q /\ b # NoClient
    BY <1>0, <1>1 DEF Live, Owners
  <1>3. /\ given' = [given EXCEPT ![OwnerOf(running[w])] = @ \cup dishes]
        /\ toPeer' = [toPeer EXCEPT ![q] = Append(@, CookOrder(dishes))]
        /\ servesFor' = [servesFor EXCEPT ![q] = OwnerOf(running[w])]
    BY <1>2 DEF VisitAssigns, BuffereventWrite, OwnerOf
  <1>4. \A d \in dishes : d \in Dishes /\ NewAt(running[w], d)
    BY DEF Takes, NewAt
  <1>5. ASSUME NEW c \in Customers, Has(c, "UNSERVICEABLE")'
        PROVE  Has(c, "UNSERVICEABLE")
    <2>1. toPeer'[c] = toPeer[c] \/ toPeer'[c] = Append(toPeer[c], CookOrder(dishes))
      BY <1>0, <1>3
    <2>2. CookOrder(dishes).type = "COOK_ORDER"
      BY DEF CookOrder
    <2>3. CASE toPeer'[c] = toPeer[c]
      BY <1>5, <2>3 DEF Has
    <2> QED  BY <1>0, <1>5, <2>1, <2>2, <2>3, TextsSent
  <1> QED  BY <1>2, <1>3, <1>4, <1>5

\* The programs and the loop send no texts and hand out nothing.
LEMMA NoTexts ==
  ASSUME Memory, [Next]_vars, \A w \in Workers : ~HandlerNext(w)
  PROVE  /\ UNCHANGED <<given, frame>>
         /\ \A c \in Customers : Has(c, "UNSERVICEABLE")' => Has(c, "UNSERVICEABLE")
  <1>0. toPeer \in [Peers -> Seq(PeerPacket)] /\ Customers \subseteq Peers
    BY TypedFacts
  <1>1. UNCHANGED <<given, frame>>
    <2>1. CASE Still
      BY <2>1 DEF Still, historyVars, poolVars
    <2>2. ASSUME NEW p \in Peers, LoopNext(p)
          PROVE  UNCHANGED <<given, frame>>
      BY <2>2 DEF LoopNext, OnAccept, BufferedOnRead, BufferedOnError, LoopStep, historyVars
    <2> QED  BY <2>1, <2>2, StillSteps DEF Next
  <1>2. ASSUME NEW c \in Customers, Has(c, "UNSERVICEABLE")'
        PROVE  Has(c, "UNSERVICEABLE")
    <2>1. CASE toPeer'[c] = toPeer[c]
      BY <1>2, <2>1 DEF Has
    <2>2. ASSUME NEW p \in Peers, CookReads(p) \/ CustomerReads(p)
          PROVE  Has(c, "UNSERVICEABLE")
      <3>1. toPeer[p] # <<>> /\ toPeer' = [toPeer EXCEPT ![p] = Tail(@)]
        BY <2>2 DEF CookReads, CustomerReads, Receive
      <3>2. CASE p = c
        BY <1>0, <1>2, <3>1, <3>2, TextsRead
      <3> QED  BY <1>0, <2>1, <3>1, <3>2
    <2>3. \/ toPeer' = toPeer
          \/ \E p \in Peers : CookReads(p) \/ CustomerReads(p)
      <3>1. ASSUME NEW p \in Peers, PeerNext(p) \/ Kill(p)
            PROVE  toPeer' = toPeer \/ CookReads(p) \/ CustomerReads(p)
        BY <3>1 DEF PeerNext, Kill, Connect, Register, PlaceOrder, CookFinishes, netVars
      <3>2. ASSUME NEW p \in Peers, LoopNext(p)
            PROVE  toPeer' = toPeer
        BY <3>2 DEF LoopNext, OnAccept, BufferedOnRead, BufferedOnError, netVars
      <3>3. ASSUME NEW w \in Workers, Crash(w)
            PROVE  toPeer' = toPeer
        BY <3>3 DEF Crash, netVars
      <3>4. CASE UNCHANGED vars
        BY <3>4 DEF vars, netVars
      <3> QED  BY <3>1, <3>2, <3>3, <3>4 DEF Next
    <2> QED  BY <2>1, <2>2, <2>3
  <1> QED  BY <1>1, <1>2

-----------------------------------------------------------------------------
(* The book.                                                               *)

\* A thread that is still at the order of c has the struct it had.
LEMMA PlacedStays ==
  ASSUME Memory, [Next]_vars, NEW c \in Customers, NEW w \in Workers,
         PlacedBy(c, w), PlacedBy(c, w)'
  PROVE  running'[w] = running[w]
  <1>1. pc[w] # "idle" /\ pc'[w] # "idle"
    BY DEF PlacedBy, Ordering, Placing
  <1>2. ASSUME NEW v \in Workers, HandlerNext(v)
        PROVE  running'[w] = running[w]
    <2>1. CASE v # w
      BY <1>2, <2>1, HandlerPool, TypedFacts
    <2>2. CASE v = w
      <3>1. ~WorkerTakes(w)
        BY <1>1 DEF WorkerTakes, HandlerStep
      <3> QED  BY <1>2, <2>2, <3>1, OrderGoesOn, TypedFacts DEF PlacedBy, Goes
    <2> QED  BY <2>1, <2>2
  <1>3. CASE Still
    BY <1>3 DEF Still, poolVars
  <1>4. ASSUME NEW p \in Peers, LoopNext(p)
        PROVE  running' = running
    BY <1>4 DEF LoopNext, OnAccept, BufferedOnRead, BufferedOnError, Pool!Submit
  <1> QED  BY <1>2, <1>3, <1>4, StillSteps DEF Next

\* The entries of a customer that a step tells nothing and gives nothing.
LEMMA EntryKept ==
  ASSUME Paced, Memory, Kitchen, Desk, [Next]_vars, Heritage,
         NEW c \in Customers, c \notin heirs',
         given'[c] = given[c], Has(c, "UNSERVICEABLE")' => Has(c, "UNSERVICEABLE")
  PROVE  /\ ToCome(c)' \/ Waits(c)' => given'[c] = {} /\ ~Has(c, "UNSERVICEABLE")'
         /\ \A w \in Workers : PlacedBy(c, w)' =>
              /\ ~Has(c, "UNSERVICEABLE")'
              /\ frame'[w].taken = 0 => given'[c] = {}
              /\ \A d \in given'[c] : ~NewAt(running[w], d)'
         /\ Has(c, "UNSERVICEABLE")' => given'[c] = {}
  <1>0. c \notin heirs
    BY DEF Heritage
  <1>1. /\ ToCome(c) \/ Waits(c) => given[c] = {} /\ ~Has(c, "UNSERVICEABLE")
        /\ \A w \in Workers : PlacedBy(c, w) =>
             /\ ~Has(c, "UNSERVICEABLE")
             /\ frame[w].taken = 0 => given[c] = {}
             /\ \A d \in given[c] : ~NewAt(running[w], d)
        /\ Has(c, "UNSERVICEABLE") => given[c] = {}
    BY <1>0 DEF Desk, OrderBook, OwnRefusalIsTrue, NewAt
  <1>2. /\ ToCome(c)' => ToCome(c)
        /\ Read(c) \/ NoFurther(c) \/ \E w \in Workers : Taken(c, w)
    BY <1>0, LessToCome, OrderMoves DEF Desk
  <1>3. ToCome(c)' \/ Waits(c)' => ToCome(c) \/ Waits(c)
    BY <1>2 DEF Read, NoFurther, Taken
  <1>4. ASSUME NEW w \in Workers, PlacedBy(c, w)', ~PlacedBy(c, w)
        PROVE  given[c] = {} /\ ~Has(c, "UNSERVICEABLE")
    BY <1>1, <1>2, <1>4 DEF Read, NoFurther, Taken
  <1>5. ASSUME NEW w \in Workers, PlacedBy(c, w)', PlacedBy(c, w)
        PROVE  /\ frame'[w].taken = 0 => given[c] = {}
               /\ \A d \in given[c] : ~NewAt(running[w], d)'
    <2>1. running'[w] = running[w] /\ running[w] \in Addr
          /\ pc[w] # "idle" /\ pc'[w] # "idle"
      BY <1>5, PlacedStays, TypedFacts DEF PlacedBy, Ordering, Placing
    <2>2. frame'[w].taken = 0 => frame[w].taken = 0
      <3>1. ASSUME NEW v \in Workers, HandlerNext(v)
            PROVE  frame'[w].taken = 0 => frame[w].taken = 0
        <4>1. CASE VisitAssigns(v)
          BY <4>1, VisitCounts
        <4>2. CASE OrderIncomplete(v)
          <5>1. frame' = [frame EXCEPT ![v].text = CustomerMsg(v)]
            BY <4>2 DEF OrderIncomplete
          <5>2. \A f \in Frame : \A x : [f EXCEPT !.text = x].taken = f.taken
            BY DEF Frame
          <5> QED  BY <5>1, <5>2, TypedFacts
        <4>3. CASE ~VisitAssigns(v) /\ ~OrderIncomplete(v)
          BY <2>1, <3>1, <4>3, LocalsKept
        <4> QED  BY <4>1, <4>2, <4>3
      <3>2. CASE \A v \in Workers : ~HandlerNext(v)
        BY <3>2, NoTexts
      <3> QED  BY <3>1, <3>2
    <2>3. ASSUME NEW d \in given[c], NewAt(running[w], d)'
          PROVE  FALSE
      <3>1. d \in Dishes
        BY TypedFacts
      <3>2. ~NewAt(running[w], d)
        BY <1>1, <1>5
      <3>3. PICK v \in Workers : OrderEntered(v) /\ running[v] = running[w]
        BY <2>1, <2>3, <3>1, <3>2, NewOnlyWhenEntered
      <3>4. PlacedBy(c, v) /\ pc[v] = "ord_check"
        BY <1>5, <3>3 DEF PlacedBy, Ordering, OrderEntered, HandlerStep
      <3>5. given[c] = {}
        BY <1>1, <3>4 DEF Desk, Counting, Early
      <3> QED  BY <3>5
    <2> QED  BY <1>1, <1>5, <2>2, <2>3
  <1>6. ASSUME NEW w \in Workers, PlacedBy(c, w)'
        PROVE  /\ ~Has(c, "UNSERVICEABLE")'
               /\ frame'[w].taken = 0 => given'[c] = {}
               /\ \A d \in given'[c] : ~NewAt(running[w], d)'
    <2>1. CASE PlacedBy(c, w)
      BY <1>1, <1>5, <1>6, <2>1
    <2>2. CASE ~PlacedBy(c, w)
      BY <1>4, <1>6, <2>2
    <2> QED  BY <2>1, <2>2
  <1> QED  BY <1>1, <1>3, <1>6

LEMMA BookNext ==
  ASSUME Paced, Memory, Kitchen, Desk, [Next]_vars, Heritage
  PROVE  OrderBook' /\ OwnRefusalIsTrue'
  <1> DEFINE Entry(c) ==
         /\ ToCome(c)' \/ Waits(c)' => given'[c] = {} /\ ~Has(c, "UNSERVICEABLE")'
         /\ \A w \in Workers : PlacedBy(c, w)' =>
              /\ ~Has(c, "UNSERVICEABLE")'
              /\ frame'[w].taken = 0 => given'[c] = {}
              /\ \A d \in given'[c] : ~NewAt(running[w], d)'
         /\ Has(c, "UNSERVICEABLE")' => given'[c] = {}
  <1> SUFFICES ASSUME NEW c \in Customers, c \notin heirs'
               PROVE  Entry(c)
    BY DEF OrderBook, OwnRefusalIsTrue, NewAt
  <1>0. /\ c \notin heirs
        /\ given \in [Peers -> SUBSET Dishes] /\ c \in Peers
        /\ running \in [Workers -> Addr \cup {NoClient}]
        /\ \A w \in Workers : pc[w] # "idle" => running[w] \in Addr
    BY TypedFacts DEF Heritage
  <1>1. ASSUME given'[c] = given[c], Has(c, "UNSERVICEABLE")' => Has(c, "UNSERVICEABLE")
        PROVE  Entry(c)
    BY <1>1, EntryKept
  <1>2. CASE \A w \in Workers : ~HandlerNext(w)
    BY <1>1, <1>2, NoTexts
  <1>3. ASSUME NEW w \in Workers, VisitAssigns(w)
        PROVE  Entry(c)
    <2> DEFINE dishes == Takes(tailq[frame[w].cur], running[w])
    <2>1. /\ pc[w] = "ord_visit" /\ pc'[w] \in {"ord_visit", "ord_decide"}
          /\ running' = running /\ frame'[w].taken > 0
      BY <1>3, VisitCounts DEF Goes
    <2>2. Ordering(w) /\ Ordering(w)' /\ running[w] \in Addr
      BY <1>0, <2>1 DEF Ordering, Placing
    <2>3. client'[running[w]].buf_ev = client[running[w]].buf_ev
      <3>1. HandlerNext(w)
        BY <1>3 DEF HandlerNext
      <3> QED  BY <2>2, <3>1, HandlerKeepsBufEvs, TypedFacts DEF BufEvsKept
    <2>4. /\ given' = [given EXCEPT ![OwnerOf(running[w])] = @ \cup dishes]
          /\ Has(c, "UNSERVICEABLE")' => Has(c, "UNSERVICEABLE")
      BY <1>3, VisitGives
    <2> HIDE DEF dishes
    <2>5. CASE OwnerOf(running[w]) # c
      <3>1. given'[c] = given[c]
        BY <1>0, <2>4, <2>5
      <3> QED  BY <1>1, <2>4, <3>1
    <2>6. CASE OwnerOf(running[w]) = c
      <3>1. PlacedBy(c, w) /\ PlacedBy(c, w)'
        <4>1. OwnerOf(running[w])' = c
          BY <2>1, <2>3, <2>6 DEF OwnerOf
        <4> QED  BY <2>2, <2>6, <4>1 DEF PlacedBy
      <3>2. /\ ~ToCome(c)' /\ ~Waits(c)'
            /\ \A v \in Workers : PlacedBy(c, v)' => v = w
        BY <3>1, OneOrderNext DEF OneOrderEach
      <3>3. ~Has(c, "UNSERVICEABLE")'
        BY <1>0, <2>4, <3>1 DEF Desk, OrderBook
      <3>4. given'[c] = given[c] \cup dishes
        BY <1>0, <2>4, <2>6
      <3>5. ASSUME NEW d \in given'[c]
            PROVE  ~NewAt(running[w], d)'
        <4>1. client'[running[w]].menu_items = Assigned(client[running[w]].menu_items, dishes)
          BY <1>3, AssigningMenus DEF dishes
        <4>2. d \in Dishes
          BY <1>0, <3>4 DEF dishes, Takes
        <4>3. d \notin dishes => ~NewAt(running[w], d)
          BY <1>0, <3>1, <3>4 DEF Desk, OrderBook, NewAt
        <4> QED  BY <2>1, <4>1, <4>2, <4>3 DEF NewAt, Assigned
      <3>6. frame'[w].taken # 0
        BY <2>1
      <3> QED  BY <2>1, <3>2, <3>3, <3>5, <3>6
    <2> QED  BY <2>5, <2>6
  <1>4. ASSUME NEW w \in Workers, OrderReplies(w), OwnerOf(running[w]) = c,
               frame[w].text = "UNSERVICEABLE"
        PROVE  Entry(c)
    <2>1. pc[w] = "ord_send" /\ pc'[w] = "idle" /\ HandlerNext(w) /\ ~VisitAssigns(w)
      BY <1>4, TypedFacts DEF OrderReplies, HandlerStep, Return, HandlerNext, VisitAssigns
    <2>2. PlacedBy(c, w)
      BY <1>4, <2>1 DEF PlacedBy, Ordering, Placing
    <2>3. frame[w].taken = 0 /\ given[c] = {} /\ given' = given
      BY <1>0, <1>4, <2>1, <2>2, NothingGiven DEF Desk, Counting, OrderBook
    <2>4. /\ ~ToCome(c) /\ ~Waits(c)
          /\ \A v \in Workers : PlacedBy(c, v) => v = w
      BY <1>0, <2>2 DEF Desk, OneOrderEach
    <2>5. NoFurther(c)
      BY <2>4, OrderMoves DEF Read, Taken
    <2>6. ~PlacedBy(c, w)'
      BY <2>1 DEF PlacedBy, Ordering, Placing
    <2>7. ~ToCome(c)'
      BY <1>0, <2>4, LessToCome DEF Desk
    <2> QED  BY <2>3, <2>4, <2>5, <2>6, <2>7 DEF NoFurther
  <1>5. ASSUME NEW w \in Workers, HandlerNext(w), ~VisitAssigns(w)
        PROVE  Entry(c)
    BY <1>1, <1>4, <1>5, NothingGiven, RefusalIsReply
  <1> QED  BY <1>2, <1>3, <1>5

LEMMA DeskInit ==
  ASSUME ReuseInit
  PROVE  Desk
  <1>0. Customers \subseteq Peers /\ Init
    BY DEF Peers, ReuseInit
  <1>1. pending = <<>> /\ running = [w \in Workers |-> NoClient]
    BY <1>0 DEF Init, Pool!PoolInit
  <1>2. OrdersAreCustomers /\ OneOrderEach
    BY <1>0, <1>1 DEF Init, OrdersAreCustomers, OneOrderEach, Ordering, Placing, Waits, PlacedBy
  <1>3. Counting
    BY <1>0 DEF Init, Counting, NoFrame
  <1>4. OrderBook /\ OwnRefusalIsTrue
    BY <1>0, <1>1 DEF Init, OrderBook, OwnRefusalIsTrue, Has, PlacedBy, Ordering, Placing
  <1> QED  BY <1>2, <1>3, <1>4 DEF Desk

LEMMA DeskNext ==
  ASSUME Orderly, Memory, Kitchen, Desk, [Next]_vars, Heritage
  PROVE  Desk'
  BY OrderMoves, OneOrderNext, CountingNext, BookNext DEF Desk, Orderly

-----------------------------------------------------------------------------
(* The theorems.                                                           *)

LEMMA ReuseSteps ==
  ASSUME Memory, [ReuseNext]_reuseVars
  PROVE  [Next]_vars /\ Heritage
  <1>1. CASE ReuseNext
    BY <1>1 DEF ReuseNext, Heritage
  <1>2. CASE UNCHANGED reuseVars
    <2>1. UNCHANGED <<vars, heirs, wards>> /\ accepted' = accepted
      BY <1>2 DEF reuseVars, vars, memVars
    <2>2. \A p \in Peers : ~Inherits(p)
      BY <2>1 DEF Inherits
    <2> QED  BY <2>1, <2>2 DEF Heritage
  <1> QED  BY <1>1, <1>2

LEMMA ReuseIsServing == ReuseSpec => Spec
  <1>1. ReuseInit => Init
    BY DEF ReuseInit
  <1>2. [ReuseNext]_reuseVars => [Next]_vars
    BY DEF ReuseNext, reuseVars
  <1> QED  BY <1>1, <1>2, PTL DEF ReuseSpec, Spec

LEMMA DeskInvariant ==
  ASSUME Orderly
  PROVE  ReuseSpec => [](Memory /\ Kitchen /\ Desk)
  <1>1. ReuseInit => Desk
    BY DeskInit
  <1>2. Memory /\ Kitchen /\ Desk /\ [ReuseNext]_reuseVars => Desk'
    BY DeskNext, ReuseSteps
  <1> QED  BY <1>1, <1>2, ReuseIsServing, KitchenInvariant, PTL DEF ReuseSpec

\* Whatever the threads and the loop do between an order's dishes and its
\* answer, and whatever stale jobs do to the heirs of customers that have gone,
\* cust_order_handler() tells no customer that is no heir UNSERVICEABLE of which
\* a cook was or will be sent a dish.
THEOREM TurnedAwayWhole ==
  ASSUME Orderly
  PROVE  ReuseSpec => []OwnRefusalIsTrue
  <1>1. Desk => OwnRefusalIsTrue
    BY DEF Desk
  <1> QED  BY <1>1, DeskInvariant, PTL

LEMMA OrdersAreVisits ==
  ASSUME Memory, Kitchen, Desk, [Next]_vars, NEW k \in Cooks,
         Len(toPeer'[k]) > Len(toPeer[k]), toPeer'[k][Len(toPeer'[k])].type = "COOK_ORDER"
  PROVE  \E w \in Workers : VisitAssigns(w)
  <1>0. toPeer \in [Peers -> Seq(PeerPacket)] /\ k \in Peers
    BY TypedFacts
  <1>1. toPeer'[k] # toPeer[k]
    OBVIOUS
  <1>2. ASSUME NEW p \in Peers, CookReads(p) \/ CustomerReads(p)
        PROVE  FALSE
    <2>1. toPeer[p] # <<>> /\ toPeer' = [toPeer EXCEPT ![p] = Tail(@)]
      BY <1>2 DEF CookReads, CustomerReads, Receive
    <2>2. toPeer[k] # <<>> /\ toPeer'[k] = Tail(toPeer[k])
      BY <1>0, <1>1, <2>1
    <2>3. \A q \in Seq(PeerPacket) : q # <<>> => ~(Len(Tail(q)) > Len(q))
      OBVIOUS
    <2> QED  BY <1>0, <2>2, <2>3
  <1>3. ASSUME NEW w \in Workers, HandlerNext(w), ~VisitAssigns(w)
        PROVE  FALSE
    <2>1. PICK text : toPeer'[k] = Append(toPeer[k], CustUpdate(text))
      BY <1>0, <1>1, <1>3, OnlyTexts
    <2>2. \A q \in Seq(PeerPacket) : \A x : Append(q, x)[Len(Append(q, x))] = x
      OBVIOUS
    <2>3. CustUpdate(text).type # "COOK_ORDER"
      BY DEF CustUpdate
    <2> QED  BY <1>0, <2>1, <2>2, <2>3
  <1>4. ASSUME NEW p \in Peers, PeerNext(p) \/ Kill(p)
        PROVE  FALSE
    BY <1>1, <1>2, <1>4 DEF PeerNext, Kill, Connect, Register, PlaceOrder, CookFinishes, netVars
  <1>5. ASSUME NEW p \in Peers, LoopNext(p)
        PROVE  FALSE
    BY <1>1, <1>5 DEF LoopNext, OnAccept, BufferedOnRead, BufferedOnError, netVars
  <1>6. ASSUME NEW w \in Workers, Crash(w)
        PROVE  FALSE
    BY <1>1, <1>6 DEF Crash, netVars
  <1>7. CASE UNCHANGED vars
    BY <1>1, <1>7 DEF vars, netVars
  <1> QED  BY <1>3, <1>4, <1>5, <1>6, <1>7 DEF Next

\* Whichever threads hand out orders at the same time, for whomever, the walks
\* under the mutex send a dish of an order to one cook, once, unless the customer
\* is the heir of one whose stale job may walk the list for it.
THEOREM DishToOneCook ==
  ASSUME Orderly
  PROVE  ReuseSpec => OwnDishGivenOnce
  <1>1. ASSUME Memory, Kitchen, Desk, [Next]_vars, Heritage, NEW k \in Cooks,
               Len(toPeer'[k]) > Len(toPeer[k]),
               toPeer'[k][Len(toPeer'[k])].type = "COOK_ORDER", servesFor'[k] \notin heirs'
        PROVE  toPeer'[k][Len(toPeer'[k])].items \cap given[servesFor'[k]] = {}
    <2>0. /\ toPeer \in [Peers -> Seq(PeerPacket)] /\ k \in Peers
          /\ servesFor \in [Peers -> Peers \cup {NoClient}]
      BY <1>1, TypedFacts
    <2>1. PICK w \in Workers : VisitAssigns(w)
      BY <1>1, OrdersAreVisits
    <2> DEFINE dishes == Takes(tailq[frame[w].cur], running[w])
               c == OwnerOf(running[w])
    <2>2. Ordering(w) /\ c \in Customers \cup heirs /\ PlacedBy(c, w)
      BY <1>1, <2>1
      DEF VisitAssigns, HandlerStep, Ordering, Placing, Desk, OrdersAreCustomers, PlacedBy
    <2>3. c \notin heirs => \A d \in given[c] : ~NewAt(running[w], d)
      BY <1>1, <2>2 DEF Desk, OrderBook, NewAt
    <2>4. dishes = Takes(tailq[frame[w].cur], running[w]) /\ c = OwnerOf(running[w])
      OBVIOUS
    <2> HIDE DEF dishes, c
    <2>5. /\ \A d \in dishes : NewAt(running[w], d)
          /\ \E q \in Peers :
               /\ toPeer' = [toPeer EXCEPT ![q] = Append(@, CookOrder(dishes))]
               /\ servesFor' = [servesFor EXCEPT ![q] = c]
      BY <1>1, <2>1, <2>4, VisitGives
    <2>6. toPeer'[k] = Append(toPeer[k], CookOrder(dishes)) /\ servesFor'[k] = c
      <3>1. PICK q \in Peers :
              /\ toPeer' = [toPeer EXCEPT ![q] = Append(@, CookOrder(dishes))]
              /\ servesFor' = [servesFor EXCEPT ![q] = c]
        BY <2>5
      <3>2. toPeer'[k] # toPeer[k]
        BY <1>1, <2>0
      <3>3. q = k
        BY <2>0, <3>1, <3>2
      <3> QED  BY <2>0, <3>1, <3>3
    <2>7. \A q \in Seq(PeerPacket) : \A x : Append(q, x)[Len(Append(q, x))] = x
      OBVIOUS
    <2>8. CookOrder(dishes).items = dishes
      BY DEF CookOrder
    <2>9. c \notin heirs
      BY <1>1, <2>6 DEF Heritage
    <2> QED  BY <2>0, <2>3, <2>5, <2>6, <2>7, <2>8, <2>9
  <1>2. Memory /\ Kitchen /\ Desk /\ [ReuseNext]_reuseVars =>
          \A k \in Cooks :
            /\ Len(toPeer'[k]) > Len(toPeer[k])
            /\ toPeer'[k][Len(toPeer'[k])].type = "COOK_ORDER"
            /\ servesFor'[k] \notin heirs'
            => toPeer'[k][Len(toPeer'[k])].items \cap given[servesFor'[k]] = {}
    BY <1>1, ReuseSteps
  <1> QED  BY <1>2, DeskInvariant, PTL DEF ReuseSpec, OwnDishGivenOnce

-----------------------------------------------------------------------------
(* When a dish of a customer that is neither heir nor ward reads ASSIGNED: *)
(* a cook works on it whose update will mark it (OwnDishIsBeingCooked).    *)
(* The menus of the cooks that are heirs may say what they will.           *)

OwnCooks == Cooks \ heirs
Busy(k) == struct_of[k] # NoClient /\ StateOf(k) = "COOK_BUSY"

-----------------------------------------------------------------------------
(* The invariant of the menus and of the dishes that are being cooked.     *)

Menu(k) == client[struct_of[k]].menu_items
Fills(w, k) == running[w] = struct_of[k] /\ pc[w] = "reg_menu"
Unknown(k) == StateOf(k) \in {"UNKNOWN", "CUSTOMER"}

\* A menu is filled in once, by the one registration of its cook; what the loop
\* has yet to come to is as calloc() left it, though the cook may have orders.
MenusFilled ==
  \A k \in OwnCooks : struct_of[k] # NoClient =>
    /\ Unknown(k) => \A d \in Dishes : Menu(k)[d] = "UNDEFINED"
    /\ \A w \in Workers : Fills(w, k) =>
         ~Unknown(k) /\ \A d \in frame[w].todo : Menu(k)[d] = "UNDEFINED"
    /\ \A v, w \in Workers : Fills(v, k) /\ Fills(w, k) => v = w

BusyForCustomers ==
  \A k \in Cooks : Busy(k) =>
    OwnerOf(client[struct_of[k]].assigned_client) \in Customers \cup heirs

\* The cook that works on a dish, until its update marks the dish.
Past(w, d) == \/ pc[w] \in {"upd_scan", "upd_send", "upd_free"}
              \/ pc[w] = "upd_mark" /\ d \notin frame[w].todo
Marked(k, d) == \E w \in Workers : running[w] = struct_of[k] /\ Past(w, d)
Works(k, c, d) ==
  /\ k \in OwnCooks
  /\ Busy(k) /\ ~Marked(k, d)
  /\ servesFor[k] = c
  /\ client[struct_of[k]].assigned_client = struct_of[c]
  /\ Menu(k)[d] = "ASSIGNED"

AssignedAt(a, d) == client[a].menu_items[d] = "ASSIGNED"
DishesCooked ==
  \A c \in Customers \ (heirs \cup wards), d \in Dishes :
    Connected(c) /\ AssignedAt(struct_of[c], d) => \E k \in Cooks : Works(k, c, d)

Stove == MenusFilled /\ BusyForCustomers /\ DishesCooked

-----------------------------------------------------------------------------
(* Whose structs the handlers work on.                                     *)

LEMMA CooksStruct ==
  ASSUME Memory, Kitchen, Desk, NEW k \in Cooks, struct_of[k] # NoClient
  PROVE  /\ struct_of[k] \in Addr /\ struct_of[k] \in Live /\ OwnerOf(struct_of[k]) = k
         /\ \A w \in Workers : k \notin heirs /\ Ordering(w) => running[w] # struct_of[k]
         /\ \A w \in Workers : Registering(w) /\ running[w] = struct_of[k] => Unknown(k)
         /\ \A w \in Workers : Updating(w) /\ running[w] = struct_of[k] => Busy(k)
         /\ \A q \in Peers : struct_of[q] = struct_of[k] => q = k
  <1>0. /\ struct_of \in [Peers -> Addr \cup {NoClient}] /\ Listed /\ Owners
        /\ Cooks \subseteq Peers /\ Cooks \cap Customers = {} /\ OrdersAreCustomers
    BY TypedFacts DEF Kitchen, Desk
  <1>1. struct_of[k] \in Addr /\ struct_of[k] \in Live /\ OwnerOf(struct_of[k]) = k
    BY <1>0 DEF Live, Owners, OwnerOf
  <1>2. \A w \in Workers : k \notin heirs /\ Ordering(w) => running[w] # struct_of[k]
    BY <1>0, <1>1 DEF OrdersAreCustomers
  <1>3. PICK s \in Stages : At(k, s)
    BY DEF Kitchen, EveryCookIsSomewhere
  <1>4. ASSUME NEW w \in Workers, running[w] = struct_of[k], Registering(w) \/ Updating(w)
        PROVE  IF Registering(w) THEN Unknown(k) ELSE Busy(k)
    <2>1. /\ s \in {"regHandled", "updHandled"}
          /\ IF s = "regHandled" THEN Registering(w) ELSE Updating(w)
      BY <1>3, <1>4 DEF At, AtThread, HandledBy
    <2>2. ~(Registering(w) /\ Updating(w))
      BY DEF Registering, Updating
    <2> QED  BY <1>3, <2>1, <2>2 DEF At, AtStruct, Unregistered, Unknown, Busy
  <1>5. \A q \in Peers : struct_of[q] = struct_of[k] => q = k
    BY <1>0 DEF Listed, OneStructEach
  <1>6. \A w \in Workers : ~(Registering(w) /\ Updating(w))
    BY DEF Registering, Updating
  <1> QED  BY <1>1, <1>2, <1>4, <1>5, <1>6

\* Only a cook that is accepted becomes an heir.
LEMMA NoLateHeir ==
  ASSUME Memory, Heritage, NEW k \in Cooks, struct_of[k] # NoClient
  PROVE  k \in heirs' => k \in heirs
  <1>1. accepted[k]
    BY TypedFacts DEF Listed
  <1> QED  BY <1>1 DEF Heritage, Inherits

\* A struct in the state of a free cook is a cook's.
LEMMA FreeIsCook ==
  ASSUME Memory, Kitchen, NEW a \in Live, client[a].state \in {"COOK_FREE", "COOK_BUSY"}
  PROVE  \E k \in Cooks : struct_of[k] = a
  <1>1. PICK q \in Peers : struct_of[q] = a /\ a # NoClient
    BY DEF Live
  <1> QED  BY <1>1 DEF Kitchen, CustomersOrder, StateOf, Peers

\* What a visit does to the cook that it gives dishes to.
LEMMA CookVisited ==
  ASSUME Memory, Kitchen, Desk, NEW w \in Workers, VisitAssigns(w)
  PROVE  /\ running[w] \in Addr /\ OwnerOf(running[w]) \in Customers \cup heirs
         /\ \E k \in Cooks :
              /\ struct_of[k] = tailq[frame[w].cur] /\ struct_of[k] # NoClient
              /\ StateOf(k) = "COOK_FREE" /\ client'[struct_of[k]].state = "COOK_BUSY"
              /\ client'[struct_of[k]].assigned_client = running[w]
              /\ servesFor' = [servesFor EXCEPT ![k] = OwnerOf(running[w])]
         /\ \A a \in Addr \ {tailq[frame[w].cur]} : Kept(a)
  <1> DEFINE b == tailq[frame[w].cur]
  <1>1. /\ running[w] \in Addr /\ b \in Live /\ b # NoClient
        /\ client[b].state = "COOK_FREE" /\ client'[b].state = "COOK_BUSY"
        /\ client'[b].assigned_client = running[w]
        /\ \A a \in Addr \ {b} : Kept(a)
    BY TypedFacts, AssigningMemory DEF Live
  <1>2. OwnerOf(running[w]) \in Customers \cup heirs
    BY DEF Desk, OrdersAreCustomers, VisitAssigns, HandlerStep, Ordering, Placing
  <1>3. servesFor' = [servesFor EXCEPT ![client[b].buf_ev] = OwnerOf(running[w])]
    BY DEF VisitAssigns, OwnerOf
  <1> HIDE DEF b
  <1>4. PICK k \in Cooks : struct_of[k] = b
    BY <1>1, FreeIsCook
  <1>5. client[b].buf_ev = k
    BY <1>1, <1>4 DEF Kitchen, Owners, Peers
  <1> QED  BY <1>1, <1>2, <1>3, <1>4, <1>5 DEF StateOf, b

\* A handler leaves a busy cook and its customer as they are until it frees it.
LEMMA BusyKept ==
  ASSUME Memory, Kitchen, Desk, NEW w \in Workers, HandlerNext(w), NEW k \in Cooks, Busy(k),
         Busy(k)'
  PROVE  Kept(struct_of[k]) /\ servesFor'[k] = servesFor[k]
  <1>0. /\ struct_of[k] \in Addr /\ Typed /\ Listed /\ k \in Peers
        /\ client[struct_of[k]].state = "COOK_BUSY"
        /\ client'[struct_of[k]].state = "COOK_BUSY"
        /\ servesFor \in [Peers -> Peers \cup {NoClient}]
    BY CooksStruct, HandlerFrame, TypedFacts DEF Busy, StateOf
  <1>1. CASE VisitAssigns(w)
    <2>1. PICK j \in Cooks :
            /\ struct_of[j] = tailq[frame[w].cur] /\ StateOf(j) = "COOK_FREE"
            /\ servesFor' = [servesFor EXCEPT ![j] = OwnerOf(running[w])]
      BY <1>1, CookVisited
    <2>2. struct_of[k] # tailq[frame[w].cur] /\ j # k
      BY <1>0, <2>1 DEF StateOf
    <2> QED  BY <1>0, <1>1, <2>1, <2>2, CookVisited
  <1>2. CASE ~VisitAssigns(w)
    <2>1. servesFor' = servesFor
      BY <1>2, HandlerServes
    <2>2. Kept(struct_of[k])
      BY <1>0, <1>2, FreeingMemory, EnteringMemory, SkippingMemory, OtherMemory DEF WritesState
    <2> QED  BY <2>1, <2>2
  <1> QED  BY <1>1, <1>2

\* How the dishes of a cook's menu move: into the menu by its registration, and
\* to ASSIGNED by an order.
LEMMA CooksDishMoves ==
  ASSUME Memory, Kitchen, Desk, BusyForCustomers, NEW w \in Workers, HandlerNext(w),
         NEW k \in OwnCooks, struct_of[k] # NoClient, NEW d \in Dishes
  PROVE  \/ Menu(k)[d]' = Menu(k)[d]
         \/ Menu(k)[d]' = "CAPABLE" /\ RegCookMenu(w, d) /\ running[w] = struct_of[k]
         \/ Menu(k)[d]' = "ASSIGNED" /\ VisitAssigns(w) /\ Menu(k)[d] = "CAPABLE"
            /\ StateOf(k) = "COOK_FREE"
  <1>0. /\ k \in Cooks /\ k \notin heirs
        /\ struct_of[k] \in Addr /\ OwnerOf(struct_of[k]) = k /\ struct_of' = struct_of
        /\ Cooks \cap Customers = {}
        /\ \A v \in Workers : Ordering(v) => running[v] # struct_of[k]
    BY CooksStruct, HandlerFrame, TypedFacts DEF OwnCooks
  <1>1. DishMoves(w, struct_of[k], d)
    BY <1>0, HandlerMenus
  <1>2. ~(OrderEntered(w) /\ running[w] = struct_of[k])
    BY <1>0 DEF OrderEntered, HandlerStep, Ordering
  <1>3. ~(UpdateMarks(w, d) /\ AssignedClient(w) = struct_of[k])
    <2> SUFFICES ASSUME UpdateMarks(w, d), AssignedClient(w) = struct_of[k]
                 PROVE  FALSE
      OBVIOUS
    <2>1. Updating(w)
      BY DEF UpdateMarks, HandlerStep, Updating
    <2>2. PICK j \in Cooks : running[w] = struct_of[j]
      BY <2>1 DEF Kitchen, CookJobs
    <2>3. struct_of[j] # NoClient
      BY <2>1, <2>2, TypedFacts DEF Updating
    <2>4. Busy(j)
      BY <2>1, <2>2, <2>3, CooksStruct
    <2>5. OwnerOf(struct_of[k]) \in Customers \cup heirs
      BY <2>2, <2>4 DEF BusyForCustomers, AssignedClient
    <2> QED  BY <1>0, <2>5
  <1>4. ASSUME VisitAssigns(w), struct_of[k] \in {running[w], tailq[frame[w].cur]},
               d \in Takes(tailq[frame[w].cur], running[w])
        PROVE  Menu(k)[d] = "CAPABLE" /\ StateOf(k) = "COOK_FREE"
    <2>1. Ordering(w)
      BY <1>4 DEF VisitAssigns, HandlerStep, Ordering, Placing
    <2>2. struct_of[k] = tailq[frame[w].cur]
      BY <1>0, <1>4, <2>1
    <2>3. Menu(k)[d] = "CAPABLE"
      BY <1>4, <2>2 DEF Takes, Menu
    <2>4. StateOf(k) = "COOK_FREE"
      BY <1>4, <2>2 DEF VisitAssigns, StateOf
    <2> QED  BY <2>3, <2>4
  <1>5. Menu(k)[d]' = client'[struct_of[k]].menu_items[d]
        /\ Menu(k)[d] = client[struct_of[k]].menu_items[d]
    BY <1>0 DEF Menu
  <1> QED  BY <1>1, <1>2, <1>3, <1>4, <1>5 DEF DishMoves

-----------------------------------------------------------------------------
(* What the steps change that the invariant is about.                      *)

\* The other steps but those of the handlers leave structs and jobs alone.
LEMMA Elsewhere ==
  ASSUME Memory, [Next]_vars, \A w \in Workers : ~HandlerNext(w), \A p \in Peers : ~OnAccept(p)
  PROVE  /\ UNCHANGED <<client, pc, running, frame, servesFor>>
         /\ \A q \in Peers : struct_of'[q] = struct_of[q] \/ struct_of'[q] = NoClient
  <1>1. CASE Still
    BY <1>1 DEF Still, memVars, poolVars, historyVars
  <1>2. ASSUME NEW p \in Peers, BufferedOnRead(p)
        PROVE  UNCHANGED <<client, pc, running, frame, servesFor, struct_of>>
    BY <1>2 DEF BufferedOnRead, LoopStep, historyVars, Pool!Submit
  <1>3. ASSUME NEW p \in Peers, BufferedOnError(p)
        PROVE  /\ UNCHANGED <<client, pc, running, frame, servesFor>>
               /\ struct_of' = [struct_of EXCEPT ![p] = NoClient]
    BY <1>3 DEF BufferedOnError, LoopStep, historyVars
  <1>4. ASSUME NEW p \in Peers, BufferedOnError(p), NEW q \in Peers
        PROVE  struct_of'[q] = struct_of[q] \/ struct_of'[q] = NoClient
    BY <1>3, <1>4, TypedFacts
  <1> QED  BY <1>1, <1>2, <1>3, <1>4, StillSteps DEF Next, LoopNext

LEMMA FramesKept ==
  ASSUME Memory, NEW w \in Workers, HandlerNext(w), NEW v \in Workers \ {w}
  PROVE  frame'[v] = frame[v]
  <1>1. CASE OrderIncomplete(w)
    BY <1>1, TypedFacts DEF OrderIncomplete
  <1> QED  BY <1>1, LocalsKept, VisitCounts

\* A thread comes to the menu by its cook's state, and goes through it dish by
\* dish.
LEMMA FillingSteps ==
  ASSUME Memory, NEW w \in Workers, HandlerNext(w), pc'[w] = "reg_menu"
  PROVE  /\ running' = running
         /\ \/ RegCookState(w) /\ Registering(w)
            \/ pc[w] = "reg_menu" /\ frame'[w].todo \subseteq frame[w].todo
         /\ \A d \in Dishes : RegCookMenu(w, d) => d \in frame[w].todo /\ d \notin frame'[w].todo
  <1>0. pc \in [Workers -> PC] /\ frame \in [Workers -> Frame] /\ Typed
        /\ \A f \in Frame : \A x : [f EXCEPT !.todo = x].todo = x
    BY TypedFacts DEF Frame
  <1>1. ~WorkerTakes(w)
    BY HandlerTakes, <1>0
  <1>2. (Registering(w) \/ pc[w] = "reg_menu") /\ running' = running
    BY <1>0, <1>1, HandlerGoesOn DEF Goes
  <1>3. ASSUME NEW d \in Dishes, RegCookMenu(w, d)
        PROVE  /\ pc[w] = "reg_menu" /\ d \in frame[w].todo
               /\ frame'[w].todo = frame[w].todo \ {d}
    <2>1. ~Return(w)
      BY <1>0 DEF Return
    <2>2. /\ pc[w] = "reg_menu" /\ d \in frame[w].todo
          /\ frame' = [frame EXCEPT ![w].todo = @ \ {d}]
      BY <1>3, <2>1 DEF RegCookMenu, HandlerStep
    <2> QED  BY <1>0, <2>2
  <1>4. RegCookState(w) => Registering(w)
    BY DEF RegCookState, HandlerStep, Registering
  <1>5. RegCookState(w) \/ \E d \in Dishes : RegCookMenu(w, d)
    <2>1. ASSUME Dispatch(w)
          PROVE  FALSE
      <3>1. HandlerOf[data.type] # "reg_menu"
        BY <1>0, <2>1, PacketRead DEF Dispatch, HandlerStep
      <3> QED  BY <1>0, <2>1, <3>1 DEF Dispatch, Goto
    <2>2. ASSUME pc[w] \notin {"dispatch", "reg_state", "reg_menu"}
          PROVE  FALSE
      BY <1>2, <2>2 DEF Registering
    <2> QED
      BY <1>1, <2>1, <2>2
      DEF HandlerNext, HandlerStep, OrderEntered, OrderRefused, OrderLocks, OrderUnlocks,
          VisitSkips,
          VisitAssigns, OrderComplete, OrderIncomplete, OrderReplies, UpdateFinds,
          UpdateRefused,
          Marks, UpdateMarks, Scans, UpdateScans, UpdateReplies, UpdateFreesCook
  <1> QED  BY <1>2, <1>3, <1>4, <1>5

\* What makes a struct a busy cook's, and what ends that.
LEMMA StateMoves ==
  ASSUME Memory, NEW w \in Workers, HandlerNext(w), NEW a \in Addr
  PROVE  \/ client'[a].state = client[a].state
         \/ client'[a].state = "COOK_FREE" /\ running[w] = a
            /\ (RegCookState(w) \/ UpdateFreesCook(w))
         \/ client'[a].state = "CUSTOMER" /\ running[w] = a /\ OrderEntered(w)
         \/ client'[a].state = "COOK_BUSY" /\ tailq[frame[w].cur] = a /\ VisitAssigns(w)
  <1>0. Typed /\ Listed
    BY TypedFacts
  <1>1. CASE RegCookState(w) \/ UpdateFreesCook(w)
    BY <1>0, <1>1, FreeingMemory DEF Kept
  <1>2. CASE OrderEntered(w)
    BY <1>0, <1>2, EnteringMemory DEF Kept
  <1>3. CASE VisitSkips(w)
    BY <1>0, <1>3, SkippingMemory
  <1>4. CASE VisitAssigns(w)
    BY <1>0, <1>4, AssigningMemory DEF Kept
  <1>5. CASE ~WritesState(w)
    BY <1>0, <1>5, OtherMemory DEF Kept
  <1> QED  BY <1>1, <1>2, <1>3, <1>4, <1>5 DEF WritesState

\* An update is past the marking of a dish by marking it.
LEMMA MarkingSteps ==
  ASSUME Memory, NEW w \in Workers, HandlerNext(w), NEW d \in Dishes, Past(w, d)'
  PROVE  running' = running /\ (UpdateMarks(w, d) \/ Past(w, d))
  <1>0. /\ pc \in [Workers -> PC] /\ frame \in [Workers -> Frame] /\ Typed
        /\ \A f \in Frame : \A x : [f EXCEPT !.todo = x].todo = x
    BY TypedFacts DEF Frame
  <1>1. ~WorkerTakes(w)
    BY HandlerTakes, <1>0 DEF Past
  <1>2. Updating(w) /\ running' = running
    BY <1>0, <1>1, HandlerGoesOn DEF Goes, Updating, Past
  <1>3. ASSUME Dispatch(w)
        PROVE  FALSE
    <2>1. HandlerOf[data.type] \notin {"upd_mark", "upd_scan", "upd_send", "upd_free"}
      BY <1>0, <1>3, PacketRead DEF Dispatch, HandlerStep
    <2> QED  BY <1>0, <1>3, <2>1 DEF Dispatch, Goto, Past
  <1>4. ASSUME UpdateRefused(w) \/ UpdateFreesCook(w)
        PROVE  FALSE
    BY <1>0, <1>4 DEF UpdateRefused, UpdateFreesCook, Return, Past
  <1>5. ASSUME UpdateFinds(w)
        PROVE  FALSE
    <2>1. pc'[w] = "upd_mark" /\ frame' = [frame EXCEPT ![w].todo = Dishes]
      BY <1>0, <1>5 DEF UpdateFinds, Goto
    <2>2. frame'[w].todo = Dishes
      BY <1>0, <2>1
    <2> QED  BY <2>1, <2>2 DEF Past
  <1>6. ASSUME NEW e \in Dishes, UpdateMarks(w, e), e # d
        PROVE  Past(w, d)
    <2>1. pc[w] = "upd_mark"
      BY <1>6 DEF UpdateMarks, HandlerStep
    <2>2. CASE frame[w].todo = {e}
      BY <1>6, <2>1, <2>2 DEF Past
    <2>3. CASE frame[w].todo # {e}
      <3>1. pc'[w] = "upd_mark" /\ frame' = [frame EXCEPT ![w].todo = @ \ {e}]
        BY <1>0, <1>6, <2>3 DEF UpdateMarks, Goto
      <3>2. frame'[w].todo = frame[w].todo \ {e}
        BY <1>0, <3>1
      <3> QED  BY <1>6, <2>1, <3>1, <3>2 DEF Past
    <2> QED  BY <2>2, <2>3
  <1>7. CASE pc[w] \in {"upd_scan", "upd_send", "upd_free"}
    BY <1>2, <1>7 DEF Past
  <1>8. CASE pc[w] \in {"dispatch", "upd_find", "upd_mark"}
    <2>1. UpdateFinds(w) \/ UpdateRefused(w) \/ Dispatch(w) \/ \E e \in Dishes : UpdateMarks(w, e)
      BY <1>1, <1>8
      DEF HandlerNext, HandlerStep, RegCookState, RegCookMenu, OrderEntered, OrderRefused,
          OrderLocks,
          OrderUnlocks, VisitSkips, VisitAssigns, OrderComplete, OrderIncomplete, OrderReplies,
          UpdateScans, UpdateReplies, UpdateFreesCook
    <2> QED  BY <1>2, <1>3, <1>4, <1>5, <1>6, <2>1
  <1> QED  BY <1>2, <1>7, <1>8 DEF Updating

-----------------------------------------------------------------------------
(* The invariant is kept.                                                  *)

LEMMA MenusFilledNext ==
  ASSUME Memory, Kitchen, Desk, Stove, [Next]_vars, Heritage
  PROVE  MenusFilled'
  <1> DEFINE Goal(k) ==
         /\ Unknown(k)' => \A d \in Dishes : Menu(k)[d]' = "UNDEFINED"
         /\ \A w \in Workers : Fills(w, k)' =>
              ~Unknown(k)' /\ \A d \in frame'[w].todo : Menu(k)[d]' = "UNDEFINED"
         /\ \A v, w \in Workers : Fills(v, k)' /\ Fills(w, k)' => v = w
  <1> SUFFICES ASSUME NEW k \in Cooks, k \notin heirs', struct_of'[k] # NoClient
               PROVE  Goal(k)
    BY DEF MenusFilled, OwnCooks
  <1>0. /\ k \in OwnCooks /\ k \notin heirs
        /\ k \in Peers /\ frame \in [Workers -> Frame] /\ BusyForCustomers
        /\ \A w \in Workers : frame[w].todo \subseteq Dishes
    BY TypedFacts DEF Frame, Stove, OwnCooks, Heritage
  <1>1. struct_of[k] # NoClient =>
          /\ Unknown(k) => \A d \in Dishes : Menu(k)[d] = "UNDEFINED"
          /\ \A w \in Workers : Fills(w, k) =>
               ~Unknown(k) /\ \A d \in frame[w].todo : Menu(k)[d] = "UNDEFINED"
          /\ \A v, w \in Workers : Fills(v, k) /\ Fills(w, k) => v = w
    BY <1>0 DEF Stove, MenusFilled
  <1>2. ASSUME struct_of'[k] = struct_of[k], client'[struct_of[k]] = client[struct_of[k]],
               UNCHANGED <<pc, running, frame>>
        PROVE  Goal(k)
    BY <1>1, <1>2 DEF Unknown, StateOf, Menu, Fills
  <1>3. ASSUME NEW p \in Peers, OnAccept(p)
        PROVE  Goal(k)
    <2>1. CASE p # k
      <3>1. struct_of'[k] = struct_of[k]
        BY <1>0, <1>3, <2>1, ClearStruct
      <3> QED  BY <1>0, <1>2, <1>3, <2>1, <3>1, ClearStruct
    <2>2. CASE p = k
      <3>1. /\ struct_of'[k] \in Addr \ Live /\ client'[struct_of'[k]].state = "UNKNOWN"
            /\ \A d \in Dishes : client'[struct_of'[k]].menu_items[d] = "UNDEFINED"
            /\ UNCHANGED <<running, pc>>
        BY <1>0, <1>3, <2>2, ClearStruct
      <3>2. \A w \in Workers : ~Fills(w, k)'
        <4> SUFFICES ASSUME NEW w \in Workers, Fills(w, k)'
                     PROVE  FALSE
          OBVIOUS
        <4>1. pc[w] = "reg_menu" /\ running[w] = struct_of'[k]
          BY <3>1 DEF Fills
        <4>2. PICK j \in Cooks : running[w] = struct_of[j]
          BY <4>1 DEF Kitchen, CookJobs
        <4>3. struct_of[j] # NoClient
          BY <4>1, <4>2, TypedFacts
        <4> QED  BY <3>1, <4>1, <4>2, <4>3, CooksStruct
      <3> QED  BY <3>1, <3>2 DEF Unknown, StateOf, Menu
    <2> QED  BY <2>1, <2>2
  <1>4. CASE (\A w \in Workers : ~HandlerNext(w)) /\ \A p \in Peers : ~OnAccept(p)
    BY <1>0, <1>2, <1>4, Elsewhere
  <1>5. ASSUME NEW w \in Workers, HandlerNext(w)
        PROVE  Goal(k)
    <2>1. /\ struct_of' = struct_of /\ struct_of[k] # NoClient /\ struct_of[k] \in Addr
          /\ \A v \in Workers : Registering(v) /\ running[v] = struct_of[k] => Unknown(k)
          /\ \A v \in Workers : Ordering(v) => running[v] # struct_of[k]
      BY <1>0, <1>5, HandlerFrame, CooksStruct
    <2>2. \A v \in Workers \ {w} : /\ frame'[v] = frame[v]
                                   /\ Fills(v, k)' <=> Fills(v, k)
      BY <1>5, <2>1, HandlerPool, FramesKept, TypedFacts DEF Fills
    <2>3. \A d \in Dishes :
            \/ Menu(k)[d]' = Menu(k)[d]
            \/ RegCookMenu(w, d) /\ Fills(w, k)
            \/ Menu(k)[d] = "CAPABLE" /\ StateOf(k) = "COOK_FREE"
      <3>1. \A d \in Dishes : RegCookMenu(w, d) /\ running[w] = struct_of[k] => Fills(w, k)
        BY DEF RegCookMenu, HandlerStep, Fills
      <3> QED  BY <1>0, <1>5, <2>1, <3>1, CooksDishMoves
    <2>4. Unknown(k)' => Unknown(k)
      <3>1. ~(OrderEntered(w) /\ running[w] = struct_of[k])
        BY <2>1 DEF OrderEntered, HandlerStep, Ordering
      <3> QED  BY <1>5, <2>1, <3>1, StateMoves DEF Unknown, StateOf
    <2>5. Unknown(k)' => \A d \in Dishes : Menu(k)[d]' = "UNDEFINED"
      BY <1>1, <2>1, <2>3, <2>4 DEF Unknown
    <2>6. ASSUME NEW v \in Workers, v # w, Fills(v, k)'
          PROVE  ~Unknown(k)' /\ \A d \in frame'[v].todo : Menu(k)[d]' = "UNDEFINED"
      <3>1. Fills(v, k) /\ frame'[v] = frame[v]
        BY <2>2, <2>6
      <3>2. ~Unknown(k) /\ \A d \in frame[v].todo : Menu(k)[d] = "UNDEFINED" /\ d \in Dishes
        BY <1>0, <1>1, <2>1, <3>1
      <3>3. ~Fills(w, k)
        BY <1>1, <2>1, <2>6, <3>1
      <3> QED  BY <2>3, <2>4, <3>1, <3>2, <3>3
    <2>7. ASSUME Fills(w, k)'
          PROVE  /\ ~Unknown(k)' /\ \A d \in frame'[w].todo : Menu(k)[d]' = "UNDEFINED"
                 /\ \A v \in Workers \ {w} : ~Fills(v, k)
      <3>1. /\ running[w] = struct_of[k]
            /\ \/ RegCookState(w) /\ Registering(w)
               \/ pc[w] = "reg_menu" /\ frame'[w].todo \subseteq frame[w].todo
            /\ \A d \in Dishes : RegCookMenu(w, d) => d \notin frame'[w].todo
        BY <1>5, <2>1, <2>7, FillingSteps DEF Fills
      <3>2. frame'[w].todo \subseteq Dishes
        <4>1. frame' \in [Workers -> Frame]
          BY MemoryNext DEF Memory, Typed, TypeOK
        <4> QED  BY <4>1 DEF Frame
      <3>3. CASE RegCookState(w) /\ Registering(w)
        <4>1. Unknown(k) /\ \A d \in Dishes : Menu(k)[d] = "UNDEFINED"
          BY <1>1, <2>1, <3>1, <3>3
        <4>2. \A v \in Workers : ~Fills(v, k)
          BY <1>1, <2>1, <4>1
        <4>3. client'[struct_of[k]].state = "COOK_FREE"
          BY <3>1, <3>3, FreeingMemory, TypedFacts
        <4>4. ~Unknown(k)'
          BY <2>1, <4>3 DEF Unknown, StateOf
        <4> QED  BY <2>3, <3>2, <4>1, <4>2, <4>4
      <3>4. CASE pc[w] = "reg_menu" /\ frame'[w].todo \subseteq frame[w].todo
        <4>1. Fills(w, k)
          BY <3>1, <3>4 DEF Fills
        <4>2. ~Unknown(k) /\ \A d \in frame[w].todo : Menu(k)[d] = "UNDEFINED"
          BY <1>1, <2>1, <4>1
        <4>3. \A v \in Workers \ {w} : ~Fills(v, k)
          BY <1>1, <2>1, <4>1
        <4> QED  BY <2>3, <2>4, <3>1, <3>2, <3>4, <4>2, <4>3
      <3> QED  BY <3>1, <3>3, <3>4
    <2>8. \A u, v \in Workers : Fills(u, k)' /\ Fills(v, k)' => u = v
      <3>1. ASSUME NEW u \in Workers, NEW v \in Workers, Fills(u, k)', Fills(v, k)', u # v
            PROVE  FALSE
        <4>1. CASE u # w /\ v # w
          BY <1>1, <2>1, <2>2, <3>1, <4>1
        <4> QED  BY <2>2, <2>7, <3>1, <4>1
      <3> QED  BY <3>1
    <2> QED  BY <2>5, <2>6, <2>7, <2>8
  <1> QED  BY <1>3, <1>4, <1>5

LEMMA BusyForCustomersNext ==
  ASSUME Memory, Kitchen, Desk, Stove, [Next]_vars, Heritage
  PROVE  BusyForCustomers'
  <1> SUFFICES ASSUME NEW k \in Cooks, Busy(k)'
               PROVE  OwnerOf(client[struct_of[k]].assigned_client)' \in Customers \cup heirs'
    BY DEF BusyForCustomers
  <1> DEFINE b == client[struct_of[k]].assigned_client
  <1>0. /\ heirs \subseteq heirs'
        /\ k \in Peers /\ client \in [Addr -> Client]
        /\ Busy(k) => OwnerOf(b) \in Customers \cup heirs
        /\ Busy(k) => b \in Addr /\ struct_of[k] \in Addr
    <2>1. Busy(k) => struct_of[k] \in Addr
      BY CooksStruct DEF Busy
    <2>2. Busy(k) => b \in Addr
      BY <2>1, TypedFacts DEF Busy, StateOf, Memory, BusyHasCustomer, Client
    <2> QED  BY <2>1, <2>2, TypedFacts DEF Stove, BusyForCustomers, Heritage
  <1>1. ASSUME Busy(k), client'[struct_of'[k]].assigned_client = b,
               client'[b].buf_ev = client[b].buf_ev
        PROVE  OwnerOf(client[struct_of[k]].assigned_client)' \in Customers \cup heirs'
    BY <1>0, <1>1 DEF OwnerOf
  <1>2. ASSUME NEW p \in Peers, OnAccept(p)
        PROVE  OwnerOf(client[struct_of[k]].assigned_client)' \in Customers \cup heirs'
    <2>1. p # k
      BY <1>2, ClearStruct DEF Busy, StateOf
    <2>2. /\ struct_of'[k] = struct_of[k] /\ struct_of[k] # NoClient
          /\ client'[struct_of[k]] = client[struct_of[k]]
      BY <1>0, <1>2, <2>1, ClearStruct DEF Busy
    <2>3. Busy(k)
      BY <2>2 DEF Busy, StateOf
    <2>4. CASE b # struct_of'[p]
      <3>1. client'[b] = client[b]
        BY <1>0, <1>2, <2>3, <2>4, ClearStruct
      <3> QED  BY <1>1, <2>2, <2>3, <3>1
    <2>5. CASE b = struct_of'[p]
      <3>1. PointedAt(struct_of'[p])
        BY <2>3, <2>5 DEF PointedAt, Busy
      <3>2. p \in heirs' /\ client'[b].buf_ev = p
        BY <1>2, <2>5, <3>1, HeirOfMemory, ClearStruct
      <3> QED  BY <2>2, <3>2 DEF OwnerOf
    <2> QED  BY <2>4, <2>5
  <1>3. CASE (\A w \in Workers : ~HandlerNext(w)) /\ \A p \in Peers : ~OnAccept(p)
    <2>1. client' = client /\ struct_of'[k] = struct_of[k]
      BY <1>0, <1>3, Elsewhere DEF Busy
    <2> QED  BY <1>1, <2>1 DEF Busy, StateOf
  <1>4. ASSUME NEW w \in Workers, HandlerNext(w)
        PROVE  OwnerOf(client[struct_of[k]].assigned_client)' \in Customers \cup heirs'
    <2>1. struct_of' = struct_of /\ BufEvsKept /\ struct_of[k] # NoClient
      BY <1>4, HandlerFrame, HandlerKeepsBufEvs, TypedFacts DEF Busy
    <2>2. CASE Busy(k)
      BY <1>0, <1>1, <1>4, <2>1, <2>2, BusyKept DEF Kept, BufEvsKept
    <2>3. CASE ~Busy(k)
      <3>1. struct_of[k] \in Addr
        BY <2>1, CooksStruct
      <3>2. VisitAssigns(w) /\ tailq[frame[w].cur] = struct_of[k]
        BY <1>4, <2>1, <2>3, <3>1, StateMoves DEF Busy, StateOf
      <3>3. /\ client'[struct_of[k]].assigned_client = running[w]
            /\ running[w] \in Addr /\ OwnerOf(running[w]) \in Customers \cup heirs
        BY <2>1, <3>2, CookVisited
      <3> QED  BY <1>0, <2>1, <3>3 DEF OwnerOf, BufEvsKept
    <2> QED  BY <2>2, <2>3
  <1> QED  BY <1>2, <1>3, <1>4

\* A handler that leaves a dish ASSIGNED leaves it to the cook that had it.
LEMMA CookWorksOn ==
  ASSUME Memory, Kitchen, Desk, Stove, Heritage, NEW w \in Workers, HandlerNext(w),
         NEW c \in Customers, NEW d \in Dishes, NEW k \in Cooks, Works(k, c, d),
         AssignedAt(struct_of[c], d)'
  PROVE  Works(k, c, d)'
  <1>0. /\ k \in OwnCooks /\ k \notin heirs
        /\ struct_of' = struct_of /\ struct_of[k] \in Addr /\ struct_of[k] # NoClient
        /\ Busy(k) /\ ~Marked(k, d) /\ servesFor[k] = c /\ Menu(k)[d] = "ASSIGNED"
        /\ client[struct_of[k]].assigned_client = struct_of[c]
        /\ StateOf(k) = "COOK_BUSY"
    BY HandlerFrame, CooksStruct DEF Works, Busy, OwnCooks
  <1>1. Busy(k)'
    <2>1. ~(RegCookState(w) /\ running[w] = struct_of[k])
      <3>1. RegCookState(w) => Registering(w)
        BY DEF RegCookState, HandlerStep, Registering
      <3> QED  BY <1>0, <3>1, CooksStruct DEF Unknown
    <2>2. ~(UpdateFreesCook(w) /\ running[w] = struct_of[k])
      BY <1>0 DEF UpdateFreesCook, HandlerStep, Marked, Past
    <2>3. ~(OrderEntered(w) /\ running[w] = struct_of[k])
      <3>1. OrderEntered(w) => Ordering(w)
        BY DEF OrderEntered, HandlerStep, Ordering
      <3> QED  BY <1>0, <3>1, CooksStruct
    <2>4. client'[struct_of[k]].state = "COOK_BUSY"
      BY <1>0, <2>1, <2>2, <2>3, StateMoves DEF StateOf
    <2> QED  BY <1>0, <2>4 DEF Busy, StateOf
  <1>2. servesFor'[k] = c /\ client'[struct_of[k]].assigned_client = struct_of[c]
    BY <1>0, <1>1, BusyKept DEF Kept
  <1>3. Menu(k)[d]' = "ASSIGNED"
    <2>1. ~(RegCookMenu(w, d) /\ running[w] = struct_of[k])
      <3>1. RegCookMenu(w, d) /\ running[w] = struct_of[k] => Fills(w, k) /\ d \in frame[w].todo
        BY DEF RegCookMenu, HandlerStep, Fills
      <3> QED  BY <1>0, <3>1 DEF Stove, MenusFilled
    <2> QED  BY <1>0, <2>1, CooksDishMoves DEF Stove
  <1>4. ~Marked(k, d)'
    <2> SUFFICES ASSUME NEW v \in Workers, running'[v] = struct_of[k], Past(v, d)'
                 PROVE  FALSE
      BY <1>0 DEF Marked
    <2>1. CASE v # w
      <3>1. running'[v] = running[v] /\ pc'[v] = pc[v] /\ frame'[v] = frame[v]
        BY <2>1, HandlerPool, FramesKept, TypedFacts
      <3> QED  BY <1>0, <3>1 DEF Marked, Past
    <2>2. CASE v = w
      <3>1. running[w] = struct_of[k] /\ (UpdateMarks(w, d) \/ Past(w, d))
        BY <2>2, MarkingSteps
      <3>2. UpdateMarks(w, d)
        BY <1>0, <3>1 DEF Marked
      <3>3. AssignedClient(w) = struct_of[c] /\ client[running[w]].menu_items[d] = "ASSIGNED"
        BY <1>0, <3>1 DEF AssignedClient, Menu
      <3>4. client'[struct_of[c]].menu_items[d] = "COMPLETED"
        BY <3>2, <3>3, MarkingMenus
      <3> QED  BY <1>0, <3>4 DEF AssignedAt
    <2> QED  BY <2>1, <2>2
  <1>5. k \notin heirs'
    BY <1>0, NoLateHeir
  <1> QED  BY <1>0, <1>1, <1>2, <1>3, <1>4, <1>5 DEF Works, OwnCooks

\* A dish becomes ASSIGNED for a customer in the visit that sends it to a cook.
LEMMA CookStarts ==
  ASSUME Memory, Kitchen, Desk, Heritage, NEW w \in Workers, HandlerNext(w),
         NEW c \in Customers, c \notin wards', NEW d \in Dishes, struct_of[c] # NoClient,
         ~AssignedAt(struct_of[c], d), AssignedAt(struct_of[c], d)'
  PROVE  \E k \in Cooks : Works(k, c, d)'
  <1>0. /\ struct_of' = struct_of /\ struct_of[c] \in Addr /\ c \in Peers
        /\ Cooks \cap Customers = {} /\ Cooks \subseteq Peers
        /\ servesFor \in [Peers -> Peers \cup {NoClient}] /\ pc \in [Workers -> PC]
    BY HandlerFrame, TypedFacts
  <1>1. /\ VisitAssigns(w)
        /\ struct_of[c] \in {running[w], tailq[frame[w].cur]}
        /\ d \in Takes(tailq[frame[w].cur], running[w])
    BY <1>0, HandlerMenus DEF DishMoves, AssignedAt
  <1>2. PICK k \in Cooks :
          /\ struct_of[k] = tailq[frame[w].cur] /\ struct_of[k] # NoClient
          /\ StateOf(k) = "COOK_FREE" /\ client'[struct_of[k]].state = "COOK_BUSY"
          /\ client'[struct_of[k]].assigned_client = running[w]
          /\ servesFor' = [servesFor EXCEPT ![k] = OwnerOf(running[w])]
    BY <1>1, CookVisited
  <1>3. struct_of[k] # struct_of[c]
    BY <1>0, <1>2, CooksStruct
  <1>4. running[w] = struct_of[c] /\ OwnerOf(running[w]) = c
    BY <1>0, <1>1, <1>2, <1>3 DEF Kitchen, Owners, OwnerOf
  <1>5. servesFor'[k] = c
    BY <1>0, <1>2, <1>4
  <1>6. Menu(k)[d]' = "ASSIGNED"
    <2>1. client'[struct_of[k]].menu_items =
            Assigned(client[struct_of[k]].menu_items, Takes(tailq[frame[w].cur], running[w]))
      BY <1>1, <1>2, AssigningMenus
    <2> QED  BY <1>0, <1>1, <2>1 DEF Menu, Assigned
  <1>7. ~Marked(k, d)'
    <2> SUFFICES ASSUME NEW v \in Workers, running'[v] = struct_of[k], Past(v, d)'
                 PROVE  FALSE
      BY <1>0 DEF Marked
    <2>1. v # w
      BY <1>1, VisitCounts DEF Past
    <2>2. running[v] = struct_of[k] /\ Updating(v)
      BY <2>1, HandlerPool, TypedFacts DEF Updating, Past
    <2>3. Busy(k)
      BY <1>2, <2>2, CooksStruct
    <2> QED  BY <1>2, <2>3 DEF Busy
  <1>8. Busy(k)'
    BY <1>0, <1>2 DEF Busy, StateOf
  <1>9. k \notin heirs'
    <2>1. ~UNCHANGED vars
      BY DEF vars, memVars, AssignedAt
    <2> QED  BY <1>5, <2>1 DEF Heritage
  <1> QED  BY <1>0, <1>2, <1>4, <1>5, <1>6, <1>7, <1>8, <1>9 DEF Works, OwnCooks

LEMMA DishesCookedNext ==
  ASSUME Memory, Kitchen, Desk, Stove, [Next]_vars, Heritage
  PROVE  DishesCooked'
  <1> SUFFICES ASSUME NEW c \in Customers, c \notin heirs', c \notin wards',
                      NEW d \in Dishes, Connected(c)', AssignedAt(struct_of[c], d)'
               PROVE  \E k \in Cooks : Works(k, c, d)'
    BY DEF DishesCooked
  <1>0. /\ c \in Peers /\ Cooks \subseteq Peers /\ Typed
        /\ struct_of'[c] # NoClient /\ peer[c] # "exited" /\ c \notin heirs /\ c \notin wards
    BY TypedFacts, ExitIsFinal DEF Connected, Heritage
  <1>1. Connected(c) /\ AssignedAt(struct_of[c], d) => \E k \in Cooks : Works(k, c, d)
    BY <1>0 DEF Stove, DishesCooked
  <1>2. ASSUME NEW p \in Peers, OnAccept(p)
        PROVE  \E k \in Cooks : Works(k, c, d)'
    <2>1. p # c
      BY <1>2, ClearStruct DEF AssignedAt
    <2>2. /\ struct_of'[c] = struct_of[c] /\ client'[struct_of[c]] = client[struct_of[c]]
          /\ UNCHANGED <<running, pc, frame, servesFor>>
      BY <1>0, <1>2, <2>1, ClearStruct
    <2>3. PICK k \in Cooks : Works(k, c, d)
      BY <1>0, <1>1, <2>2 DEF Connected, AssignedAt
    <2>4. struct_of[k] # NoClient /\ k \in Cooks /\ k \notin heirs'
      BY <2>3, NoLateHeir DEF Works, Busy, OwnCooks
    <2>5. k # p
      BY <1>2, <2>4, Accepts
    <2>6. struct_of'[k] = struct_of[k] /\ client'[struct_of[k]] = client[struct_of[k]]
      BY <1>0, <1>2, <2>4, <2>5, ClearStruct
    <2>7. Works(k, c, d)'
      BY <2>2, <2>3, <2>4, <2>6 DEF Works, Busy, StateOf, Menu, Marked, Past, OwnCooks
    <2> QED  BY <2>7
  <1>3. CASE (\A w \in Workers : ~HandlerNext(w)) /\ \A p \in Peers : ~OnAccept(p)
    <2>1. /\ UNCHANGED <<client, pc, running, frame, servesFor>> /\ struct_of'[c] = struct_of[c]
      BY <1>0, <1>3, Elsewhere
    <2>2. PICK k \in Cooks : Works(k, c, d)
      BY <1>0, <1>1, <2>1 DEF Connected, AssignedAt
    <2>3. struct_of'[k] = struct_of[k]
      <3>1. struct_of[k] # NoClient /\ peer[k] # "exited"
        BY <2>2, CooksStay DEF Works, Busy, Kitchen
      <3> QED  BY <1>0, <3>1, StructStays
    <2>4. k \notin heirs'
      BY <2>2, NoLateHeir DEF Works, Busy, OwnCooks
    <2>5. Works(k, c, d)'
      BY <2>1, <2>2, <2>3, <2>4 DEF Works, Busy, StateOf, Menu, Marked, Past, OwnCooks
    <2> QED  BY <2>5
  <1>4. ASSUME NEW w \in Workers, HandlerNext(w)
        PROVE  \E k \in Cooks : Works(k, c, d)'
    <2>1. struct_of' = struct_of /\ struct_of[c] # NoClient
      BY <1>0, <1>4, HandlerFrame
    <2>2. CASE AssignedAt(struct_of[c], d)
      <3>1. PICK k \in Cooks : Works(k, c, d)
        BY <1>0, <1>1, <2>1, <2>2 DEF Connected
      <3> QED  BY <1>4, <3>1, CookWorksOn
    <2>3. CASE ~AssignedAt(struct_of[c], d)
      BY <1>4, <2>1, <2>3, CookStarts
    <2> QED  BY <2>2, <2>3
  <1> QED  BY <1>2, <1>3, <1>4

LEMMA StoveInit ==
  ASSUME Init
  PROVE  Stove
  <1>1. Cooks \subseteq Peers /\ Customers \subseteq Peers
    BY DEF Peers
  <1> QED
    BY <1>1
    DEF Init, Stove, MenusFilled, BusyForCustomers, DishesCooked, Busy, Connected, OwnCooks

LEMMA StoveNext ==
  ASSUME Memory, Kitchen, Desk, Stove, [Next]_vars, Heritage
  PROVE  Stove'
  BY MenusFilledNext, BusyForCustomersNext, DishesCookedNext DEF Stove

LEMMA StoveInvariant ==
  ASSUME Orderly
  PROVE  ReuseSpec => [](Memory /\ Kitchen /\ Desk /\ Stove)
  <1>1. ReuseInit => Stove
    BY StoveInit DEF ReuseInit
  <1>2. Memory /\ Kitchen /\ Desk /\ Stove /\ [ReuseNext]_reuseVars => Stove'
    BY ReuseSteps, StoveNext
  <1> QED  BY <1>1, <1>2, DeskInvariant, PTL DEF ReuseSpec

-----------------------------------------------------------------------------
\* Whatever cooks finish and customers order at the same time, a dish of a
\* customer that is neither heir nor ward reads ASSIGNED only while the cook it
\* was sent to works for this customer and has its update, which will find and
\* mark the dish, still before it: jobs and cooks that point at memory used again
\* take no dish from anybody else.
THEOREM AssignedMeansCooking ==
  ASSUME Orderly
  PROVE  ReuseSpec => []OwnDishIsBeingCooked
  <1>1. ASSUME Memory, Kitchen, Stove, NEW c \in Customers \ (heirs \cup wards),
               NEW d \in Dishes, Connected(c),
               client[struct_of[c]].menu_items[d] = "ASSIGNED"
        PROVE  \E k \in Cooks : /\ Outstanding(k) = 1
                                /\ servesFor[k] = c
                                /\ client[struct_of[k]].assigned_client = struct_of[c]
                                /\ client[struct_of[k]].menu_items[d] = "ASSIGNED"
    <2>1. PICK k \in Cooks : Works(k, c, d)
      BY <1>1 DEF Stove, DishesCooked, AssignedAt, OwnCooks
    <2>2. PICK s \in Stages : At(k, s)
      BY <1>1 DEF Kitchen, EveryCookIsSomewhere
    <2>3. /\ struct_of[k] # NoClient /\ StateOf(k) = "COOK_BUSY" /\ servesFor[k] = c
          /\ peer[c] # "exited"
      BY <1>1, <2>1 DEF Works, Busy, Connected
    <2>4. s \notin Unregistered \cup {"free"} /\ s # "deserted"
      BY <2>2, <2>3 DEF At, AtStruct, Deserted
    <2>5. s \in Owing
      BY <2>4 DEF Stages, Unregistered, Owing
    <2>6. Outstanding(k) = 1
      BY <1>1, <2>2, <2>3, <2>5, WhatACookOwes
    <2> QED  BY <2>1, <2>6 DEF Works, Menu
  <1>2. Memory /\ Kitchen /\ Stove => OwnDishIsBeingCooked
    BY <1>1 DEF OwnDishIsBeingCooked
  <1> QED  BY <1>2, StoveInvariant, PTL
=============================================================================
