-------------------------- MODULE FoodServerProofs --------------------------
(***************************************************************************)
(* What holds of the memory that the loop and the handlers of FoodServer   *)
(* share, for any number of clients, threads, dishes and addresses, and    *)
(* whether packets come apart (Paced) or not: the types, the mutex, the    *)
(* list of connections, and the customers of busy cooks.  Then, for those  *)
(* that come apart, where the order of each cook is.                       *)
(***************************************************************************)
EXTENDS FoodServer, Integers, FiniteSetTheorems, TLAPS

-----------------------------------------------------------------------------
(* What TypeOK needs to be inductive.                                      *)

\* A thread has a job exactly while it is in a handler; a walk of the list has
\* begun at its first element; a reply has a text; every job was read.
Handlers ==
  /\ \A w \in Workers : running[w] = NoClient <=> pc[w] = "idle"
  /\ \A w \in Workers : pc[w] = "ord_visit" => frame[w].cur > 0
  /\ \A w \in Workers : pc[w] = "ord_send" => frame[w].text # ""
  /\ data.type = "NONE" => pending = <<>> /\ \A w \in Workers : pc[w] = "idle"

Typed == TypeOK /\ Handlers

\* A turn of one of the two loops of cook_update_handler().
Marks(w) == \E d \in Dishes : UpdateMarks(w, d)
Scans(w) == \E d \in Dishes : UpdateScans(w, d)

\* A dish is taken from the customer's own list of dishes, and so is counted.
LEMMA TakesFinite ==
  ASSUME NEW k, NEW a
  PROVE  Takes(k, a) \in SUBSET Dishes /\ Cardinality(Takes(k, a)) \in Nat
  BY PeersAssumption, FS_Subset, FS_CardinalityType DEF Takes

\* The packets a handler may see where it expects one of its own type.
LEMMA SeenTyped ==
  ASSUME Typed, NEW type, NEW pkt \in Seen(type)
  PROVE  /\ type \in {"REG_COOK", "CUST_ORDER"} => pkt.items \in SUBSET Dishes
         /\ type = "CUST_ORDER" => pkt.n \in 0..MaxOrderLen
  <1>1. CASE data.type = type
    <2>1. pkt = data  BY <1>1 DEF Seen
    <2>2. data \in ServerPacket \cup {NoPacket}  BY DEF Typed, TypeOK
    <2> QED  BY <1>1, <2>1, <2>2, PeersAssumption
             DEF ServerPacket, NoPacket, RegCook, CustOrder, CookUpdate, Orders
  <1>2. CASE data.type # type
    <2>1. pkt \in Misread /\ pkt.type = type  BY <1>2 DEF Seen
    <2> QED  BY <2>1 DEF Misread, RegCook, CustOrder, Orders
  <1> QED  BY <1>1, <1>2

\* A thread that is in a handler was given a packet that the loop read.
LEMMA PacketRead ==
  ASSUME Typed, NEW w \in Workers, pc[w] # "idle"
  PROVE  /\ data \in ServerPacket
         /\ data.type \in {"REG_COOK", "CUST_ORDER", "COOK_UPDATE"}
         /\ HandlerOf[data.type] \in {"reg_state", "ord_check", "upd_find"}
  <1>1. data.type # "NONE"
    BY DEF Typed, Handlers
  <1>2. data \in ServerPacket \cup {NoPacket}
    BY DEF Typed, TypeOK
  <1>3. data \in ServerPacket
    BY <1>1, <1>2 DEF NoPacket
  <1>4. data.type \in {"REG_COOK", "CUST_ORDER", "COOK_UPDATE"}
    BY <1>3 DEF ServerPacket, RegCook, CustOrder, CookUpdate
  <1> QED  BY <1>3, <1>4 DEF HandlerOf

LEMMA TypedInit == Init => Typed
  <1> SUFFICES ASSUME Init PROVE Typed
    OBVIOUS
  <1>1. TypeOK
    <2> USE DEF Init
    <2>1. client \in [Addr -> Client]
      BY PeersAssumption DEF Client, ZeroClient, UserState, MenuState
    <2>2. frame \in [Workers -> Frame]
      BY DEF Frame, NoFrame
    <2>3. Pool!PoolTypeOK
      BY DEF Pool!PoolInit, Pool!PoolTypeOK
    <2>4. /\ peer \in [Peers -> PeerState]
          /\ toServer \in [Peers -> Seq(ServerPacket)]
          /\ toPeer \in [Peers -> Seq(PeerPacket)]
          /\ accepted \in [Peers -> BOOLEAN]
          /\ struct_of \in [Peers -> Addr \cup {NoClient}]
          /\ tailq \in Seq(Addr)
      BY DEF PeerState
    <2>5. /\ mutex \in Workers \cup {NoThread}
          /\ data \in ServerPacket \cup {NoPacket}
          /\ pc \in [Workers -> PC]
          /\ crashed \in BOOLEAN
          /\ given \in [Peers -> SUBSET Dishes]
          /\ servesFor \in [Peers -> Peers \cup {NoClient}]
      BY DEF PC
    <2> QED  BY <2>1, <2>2, <2>3, <2>4, <2>5 DEF TypeOK
  <1>2. Handlers
    BY PeersAssumption DEF Init, Handlers, Pool!PoolInit, NoFrame, NoPacket
  <1> QED  BY <1>1, <1>2 DEF Typed

\* What a step of a handler leaves to be shown of the types: its thread goes on
\* in the handler or returns from it, and frame keeps to Handlers.
LEMMA GotoTyped ==
  ASSUME Typed, NEW w \in Workers, NEW to \in PC \ {"idle"}, pc[w] # "idle",
         Goto(w, to), data' = data,
         frame' \in [Workers -> Frame], \A v \in Workers \ {w} : frame'[v] = frame[v],
         to = "ord_visit" => frame'[w].cur > 0,
         to = "ord_send" => frame'[w].text # ""
  PROVE  pc' \in [Workers -> PC] /\ Pool!PoolTypeOK' /\ Handlers'
  BY DEF Typed, TypeOK, Handlers, Goto, Pool!PoolTypeOK

LEMMA ReturnTyped ==
  ASSUME Typed, NEW w \in Workers, pc[w] # "idle", Return(w), data' = data
  PROVE  /\ pc' \in [Workers -> PC] /\ frame' \in [Workers -> Frame]
         /\ Pool!PoolTypeOK' /\ Handlers'
  <1>1. pc' \in [Workers -> PC]
    BY DEF Typed, TypeOK, Return, PC
  <1>2. NoFrame \in Frame
    BY DEF Frame, NoFrame
  <1>3. frame' \in [Workers -> Frame]
    BY <1>2 DEF Typed, TypeOK, Return
  <1>4. Pool!PoolTypeOK'
    BY DEF Typed, TypeOK, Return, Pool!PoolTypeOK, Pool!Complete
  <1>5. Handlers'
    BY PeersAssumption DEF Typed, TypeOK, Handlers, Return, Pool!PoolTypeOK, Pool!Complete
  <1> QED  BY <1>1, <1>3, <1>4, <1>5

LEMMA HandlerTyped ==
  ASSUME Typed, NEW w \in Workers, HandlerStep(w, pc[w]),
         toPeer' \in [Peers -> Seq(PeerPacket)],
         client' \in [Addr -> Client],
         mutex' \in Workers \cup {NoThread},
         pc' \in [Workers -> PC], frame' \in [Workers -> Frame],
         Pool!PoolTypeOK', Handlers',
         given' \in [Peers -> SUBSET Dishes],
         servesFor' \in [Peers -> Peers \cup {NoClient}]
  PROVE  Typed'
  BY DEF Typed, TypeOK, HandlerStep

\* bufferevent_write() adds a packet for a peer, or goes nowhere.
LEMMA WriteTyped ==
  ASSUME Typed, NEW a \in Addr, NEW pkt \in PeerPacket, BuffereventWrite(a, pkt)
  PROVE  toPeer' \in [Peers -> Seq(PeerPacket)]
  <1> DEFINE p == client[a].buf_ev
  <1>1. toPeer' = [toPeer EXCEPT ![p] = Append(toPeer[p], pkt)]
    BY DEF BuffereventWrite
  <1>2. toPeer \in [Peers -> Seq(PeerPacket)]
    BY DEF Typed, TypeOK
  <1>3. p \in Peers => Append(toPeer[p], pkt) \in Seq(PeerPacket)
    BY <1>2
  <1> HIDE DEF p
  <1> QED  BY <1>1, <1>2, <1>3

\* A walk moves on in the list and adds to what it counts.
LEMMA FrameTyped ==
  ASSUME frame \in [Workers -> Frame], NEW w \in Workers, NEW n \in Nat,
         \/ frame' = [frame EXCEPT ![w].cur = n]
         \/ \E m \in Nat : frame' = [frame EXCEPT ![w].cur = n, ![w].taken = m]
  PROVE  /\ frame' \in [Workers -> Frame] /\ frame'[w].cur = n
         /\ \A v \in Workers \ {w} : frame'[v] = frame[v]
  <1>1. ASSUME NEW f \in Frame
        PROVE  /\ [f EXCEPT !.cur = n] \in Frame
               /\ [f EXCEPT !.cur = n].cur = n
    BY DEF Frame
  <1>2. ASSUME NEW f \in Frame, NEW m \in Nat
        PROVE  /\ [f EXCEPT !.taken = m] \in Frame
               /\ [f EXCEPT !.taken = m].cur = f.cur
    BY DEF Frame
  <1>3. CASE frame' = [frame EXCEPT ![w].cur = n]
    BY <1>1, <1>3
  <1>4. ASSUME NEW m \in Nat, frame' = [frame EXCEPT ![w].cur = n, ![w].taken = m]
        PROVE  /\ frame' \in [Workers -> Frame] /\ frame'[w].cur = n
               /\ \A v \in Workers \ {w} : frame'[v] = frame[v]
    <2> DEFINE g == [frame[w] EXCEPT !.cur = n]
               h == [g EXCEPT !.taken = m]
    <2>1. frame' = [frame EXCEPT ![w] = h]
      BY <1>4
    <2>2. g \in Frame /\ g.cur = n
      BY <1>1
    <2>3. h \in Frame /\ h.cur = n
      BY <1>2, <2>2
    <2> HIDE DEF h
    <2> QED  BY <2>1, <2>3
  <1> QED  BY <1>3, <1>4

\* The ways in which the handlers write to a struct client.
LEMMA ClientTyped ==
  ASSUME client \in [Addr -> Client], NEW a \in Addr
  PROVE  /\ \A s \in UserState : [client EXCEPT ![a].state = s] \in [Addr -> Client]
         /\ \A b \in Addr : [client EXCEPT ![a].assigned_client = b] \in [Addr -> Client]
         /\ \A menu \in [Dishes -> MenuState] :
              [client EXCEPT ![a].menu_items = menu] \in [Addr -> Client]
  BY DEF Client

LEMMA HandlerNextTyped ==
  ASSUME Typed, NEW w \in Workers, HandlerNext(w)
  PROVE  Typed'
  <1>0. /\ toPeer \in [Peers -> Seq(PeerPacket)] /\ client \in [Addr -> Client]
        /\ mutex \in Workers \cup {NoThread}
        /\ pc \in [Workers -> PC] /\ frame \in [Workers -> Frame]
        /\ Pool!PoolTypeOK /\ Handlers
        /\ given \in [Peers -> SUBSET Dishes]
        /\ servesFor \in [Peers -> Peers \cup {NoClient}]
    BY DEF Typed, TypeOK
  <1>a. pc[w] # "idle" => running[w] \in Addr
    BY <1>0 DEF Handlers, Pool!PoolTypeOK
  <1>1. CASE WorkerTakes(w)
    <2>1. Pool!PoolTypeOK' /\ pc' \in [Workers -> PC] /\ running'[w] \in Addr
      BY <1>0, <1>1 DEF WorkerTakes, Pool!Take, Pool!PoolTypeOK, PC
    <2>2. Handlers'
      BY <1>0, <1>1, <2>1, PeersAssumption
      DEF WorkerTakes, HandlerStep, Pool!Take, Pool!PoolTypeOK, Handlers
    <2> QED  BY <1>0, <1>1, <2>1, <2>2, HandlerTyped DEF WorkerTakes, HandlerStep, historyVars
  <1>2. CASE Dispatch(w)
    <2>2. HandlerOf[data.type] \in {"reg_state", "ord_check", "upd_find"}
      BY <1>2, PacketRead DEF Dispatch, HandlerStep
    <2>3. pc' \in [Workers -> PC] /\ Pool!PoolTypeOK' /\ Handlers'
      BY <1>0, <1>2, <2>2, GotoTyped DEF Dispatch, HandlerStep, PC
    <2> QED  BY <1>0, <1>2, <2>3, HandlerTyped DEF Dispatch, HandlerStep, historyVars
  <1>3. CASE RegCookState(w)
    <2>1. client' \in [Addr -> Client]
      BY <1>0, <1>a, <1>3, ClientTyped DEF RegCookState, HandlerStep, UserState
    <2>2. frame' \in [Workers -> Frame] /\ \A v \in Workers \ {w} : frame'[v] = frame[v]
      BY <1>0, <1>3 DEF RegCookState, Frame
    <2>3. pc' \in [Workers -> PC] /\ Pool!PoolTypeOK' /\ Handlers'
      BY <1>0, <1>3, <2>2, GotoTyped DEF RegCookState, HandlerStep, PC
    <2> QED  BY <1>0, <1>3, <2>1, <2>2, <2>3, HandlerTyped DEF RegCookState, HandlerStep,
                historyVars
  <1>4. ASSUME NEW d \in Dishes, RegCookMenu(w, d) PROVE Typed'
    <2>1. client' \in [Addr -> Client]
      <3>1. \/ client' = client
            \/ client' = [client EXCEPT ![running[w]].menu_items[d] = "CAPABLE"]
        BY <1>4 DEF RegCookMenu
      <3>2. running[w] \in Addr
        BY <1>a, <1>4 DEF RegCookMenu, HandlerStep
      <3>3. ASSUME NEW c \in Client PROVE [c EXCEPT !.menu_items[d] = "CAPABLE"] \in Client
        BY DEF Client, MenuState
      <3>4. CASE client' = client
        BY <1>0, <3>4
      <3>5. CASE client' = [client EXCEPT ![running[w]].menu_items[d] = "CAPABLE"]
        <4>1. client' = [client EXCEPT ![running[w]] = [@ EXCEPT !.menu_items[d] = "CAPABLE"]]
          BY <3>5
        <4> QED  BY <1>0, <3>2, <3>3, <4>1
      <3> QED  BY <3>1, <3>4, <3>5
    <2>2. CASE Goto(w, "reg_menu") /\ frame' = [frame EXCEPT ![w].todo = @ \ {d}]
      <3>1. frame' \in [Workers -> Frame] /\ \A v \in Workers \ {w} : frame'[v] = frame[v]
        BY <1>0, <2>2 DEF Frame
      <3>2. pc' \in [Workers -> PC] /\ Pool!PoolTypeOK' /\ Handlers'
        BY <1>0, <1>4, <2>2, <3>1, GotoTyped DEF RegCookMenu, HandlerStep, PC
      <3> QED  BY <1>0, <1>4, <2>1, <3>1, <3>2, HandlerTyped DEF RegCookMenu, HandlerStep,
                  historyVars
    <2>3. CASE Return(w)
      BY <1>0, <1>4, <2>1, <2>3, ReturnTyped, HandlerTyped DEF RegCookMenu, HandlerStep,
         historyVars
    <2> QED  BY <1>4, <2>2, <2>3 DEF RegCookMenu
  <1>5. CASE OrderEntered(w)
    <2>1. client' \in [Addr -> Client]
      <3>1. PICK pkt \in Seen("CUST_ORDER") :
              client' = [client EXCEPT
                ![running[w]].state = "CUSTOMER",
                ![running[w]].menu_items =
                    [d \in Dishes |-> IF d \in pkt.items THEN "NEW" ELSE @[d]],
                ![running[w]].num_of_orders = pkt.n]
        BY <1>5 DEF OrderEntered
      <3>2. pkt.n \in 0..MaxOrderLen
        BY SeenTyped
      <3>3. running[w] \in Addr
        BY <1>a, <1>5 DEF OrderEntered, HandlerStep
      <3>4. [d \in Dishes |-> IF d \in pkt.items THEN "NEW" ELSE client[running[w]].menu_items[d]]
              \in [Dishes -> MenuState]
        BY <1>0, <3>3 DEF Client, MenuState
      <3>5. client' = [client EXCEPT ![running[w]] = [client[running[w]] EXCEPT
              !.state = "CUSTOMER",
              !.menu_items = [d \in Dishes |-> IF d \in pkt.items THEN "NEW"
                                               ELSE client[running[w]].menu_items[d]],
              !.num_of_orders = pkt.n]]
        BY <1>0, <3>1, <3>3
      <3> DEFINE menu == [d \in Dishes |-> IF d \in pkt.items THEN "NEW"
                                         ELSE client[running[w]].menu_items[d]]
      <3>6. ASSUME NEW c \in Client
            PROVE  [c EXCEPT !.state = "CUSTOMER", !.menu_items = menu, !.num_of_orders = pkt.n]
                     \in Client
        <4> HIDE DEF menu
        <4> QED  BY <3>2, <3>4 DEF Client, UserState, menu
      <3> QED  BY <1>0, <3>3, <3>5, <3>6
    <2>2. pc' \in [Workers -> PC] /\ Pool!PoolTypeOK' /\ Handlers'
      BY <1>0, <1>5, GotoTyped DEF OrderEntered, HandlerStep, PC
    <2> QED  BY <1>0, <1>5, <2>1, <2>2, HandlerTyped DEF OrderEntered, HandlerStep, historyVars
  <1>6. CASE OrderRefused(w)
    BY <1>0, <1>6, ReturnTyped, HandlerTyped DEF OrderRefused, HandlerStep, historyVars
  <1>7. CASE OrderLocks(w)
    <2>1. /\ frame' \in [Workers -> Frame] /\ \A v \in Workers \ {w} : frame'[v] = frame[v]
          /\ frame'[w].cur > 0
      <3>1. frame' = [frame EXCEPT ![w].cur = 1]
        BY <1>7 DEF OrderLocks
      <3> DEFINE n == 1
      <3>2. n \in Nat /\ n > 0 /\ frame' = [frame EXCEPT ![w].cur = n]
        BY <3>1
      <3> HIDE DEF n
      <3> QED  BY <1>0, <3>2, FrameTyped
    <2>2. pc' \in [Workers -> PC] /\ Pool!PoolTypeOK' /\ Handlers'
      BY <1>0, <1>7, <2>1, GotoTyped DEF OrderLocks, HandlerStep, PC
    <2> QED  BY <1>0, <1>7, <2>1, <2>2, HandlerTyped DEF OrderLocks, HandlerStep, historyVars
  <1>8. CASE OrderUnlocks(w)
    <2>1. pc' \in [Workers -> PC] /\ Pool!PoolTypeOK' /\ Handlers'
      BY <1>0, <1>8, GotoTyped DEF OrderUnlocks, HandlerStep, PC
    <2> QED  BY <1>0, <1>8, <2>1, HandlerTyped DEF OrderUnlocks, HandlerStep, historyVars
  <1>b. ASSUME pc[w] = "ord_visit", frame[w].cur <= Len(tailq)
        PROVE  running[w] \in Addr /\ tailq[frame[w].cur] \in Addr
    <2>1. tailq \in Seq(Addr) /\ frame[w].cur \in Nat /\ frame[w].cur > 0
      BY <1>0, <1>b DEF Typed, TypeOK, Handlers, Frame
    <2> QED  BY <1>a, <1>b, <2>1
  <1>9. CASE VisitSkips(w)
    <2>1. client' \in [Addr -> Client]
      BY <1>0, <1>9, <1>b, ClientTyped DEF VisitSkips, HandlerStep
    <2>2. /\ frame' \in [Workers -> Frame] /\ \A v \in Workers \ {w} : frame'[v] = frame[v]
          /\ frame'[w].cur > 0
      <3>0. frame[w].cur \in Nat
        BY <1>0 DEF Frame
      <3>1. frame[w].cur + 1 \in Nat /\ frame[w].cur + 1 > 0
        BY <3>0
      <3>2. frame' = [frame EXCEPT ![w].cur = frame[w].cur + 1]
        BY <1>0, <1>9 DEF VisitSkips
      <3> QED  BY <1>0, <3>1, <3>2, FrameTyped
    <2>3. pc' \in [Workers -> PC] /\ Pool!PoolTypeOK' /\ Handlers'
      BY <1>0, <1>9, <2>2, GotoTyped DEF VisitSkips, HandlerStep, PC
    <2> QED  BY <1>0, <1>9, <2>1, <2>2, <2>3, HandlerTyped DEF VisitSkips, HandlerStep,
                historyVars
  <1>10. CASE VisitAssigns(w)
    <2> DEFINE a == running[w]
               k == tailq[frame[w].cur]
               dishes == Takes(k, a)
               taken == frame[w].taken + Cardinality(dishes)
    <2>1. a \in Addr /\ k \in Addr
      BY <1>10, <1>b DEF VisitAssigns, HandlerStep
    <2>2. dishes \in SUBSET Dishes /\ Cardinality(dishes) \in Nat
      BY TakesFinite
    <2>3. client' \in [Addr -> Client]
      <3>1. client' = [client EXCEPT ![a].menu_items = Assigned(@, dishes),
                                     ![k] = Booked(@, a, dishes)]
        BY <1>10 DEF VisitAssigns
      <3>2. \A menu \in [Dishes -> MenuState] : Assigned(menu, dishes) \in [Dishes -> MenuState]
        BY DEF Assigned, MenuState
      <3>3. \A cook \in Client : Booked(cook, a, dishes) \in Client
        BY <2>1, <3>2 DEF Booked, Client, UserState
      <3>4. [client EXCEPT ![a].menu_items = Assigned(@, dishes)] \in [Addr -> Client]
        BY <1>0, <2>1, <3>2 DEF Client
      <3> HIDE DEF a, k, dishes
      <3> QED  BY <2>1, <3>1, <3>3, <3>4
    <2>4. toPeer' \in [Peers -> Seq(PeerPacket)]
      <3>1. CookOrder(dishes) \in PeerPacket
        BY <2>2 DEF PeerPacket
      <3> QED  BY <1>10, <2>1, <3>1, WriteTyped DEF VisitAssigns
    <2>5. /\ given' \in [Peers -> SUBSET Dishes]
          /\ servesFor' \in [Peers -> Peers \cup {NoClient}]
      BY <1>0, <1>10, <2>1, <2>2 DEF VisitAssigns, Client
    <2>6. /\ frame' \in [Workers -> Frame] /\ \A v \in Workers \ {w} : frame'[v] = frame[v]
          /\ frame'[w].cur > 0
      <3>1. frame' = [frame EXCEPT ![w].cur = @ + 1, ![w].taken = taken]
        BY <1>10 DEF VisitAssigns
      <3>2. frame[w] \in Frame /\ frame[w].cur \in Nat /\ frame[w].taken \in Nat
        BY <1>0 DEF Frame
      <3>3. taken \in Nat /\ frame[w].cur + 1 \in Nat /\ frame[w].cur + 1 > 0
        BY <2>2, <3>2
      <3>4. frame' = [frame EXCEPT ![w].cur = frame[w].cur + 1, ![w].taken = taken]
        BY <1>0, <3>1
      <3> HIDE DEF taken
      <3> QED  BY <1>0, <3>3, <3>4, FrameTyped
    <2>7. mutex' \in Workers \cup {NoThread}
      BY <1>0, <1>10 DEF VisitAssigns
    <2>8. pc' \in [Workers -> PC] /\ Pool!PoolTypeOK' /\ Handlers'
      <3>1. PICK to \in {"ord_decide", "ord_visit"} : Goto(w, to)
        BY <1>10 DEF VisitAssigns
      <3> QED  BY <1>0, <1>10, <2>6, <3>1, GotoTyped DEF VisitAssigns, HandlerStep, PC
    <2> QED  BY <1>10, <2>3, <2>4, <2>5, <2>6, <2>7, <2>8, HandlerTyped DEF VisitAssigns,
                HandlerStep
  <1>11. CASE OrderComplete(w)
    BY <1>0, <1>11, ReturnTyped, HandlerTyped DEF OrderComplete, HandlerStep, historyVars
  <1>12. CASE OrderIncomplete(w)
    <2>1. /\ frame' \in [Workers -> Frame] /\ \A v \in Workers \ {w} : frame'[v] = frame[v]
          /\ frame'[w].text # ""
      BY <1>0, <1>12 DEF OrderIncomplete, CustomerMsg, Frame, Texts
    <2>2. pc' \in [Workers -> PC] /\ Pool!PoolTypeOK' /\ Handlers'
      BY <1>0, <1>12, <2>1, GotoTyped DEF OrderIncomplete, HandlerStep, PC
    <2> QED  BY <1>0, <1>12, <2>1, <2>2, HandlerTyped DEF OrderIncomplete, HandlerStep,
                historyVars
  <1>13. CASE OrderReplies(w)
    <2>1. CustUpdate(frame[w].text) \in PeerPacket
      BY <1>0, <1>13 DEF OrderReplies, HandlerStep, Handlers, Frame, PeerPacket
    <2>2. toPeer' \in [Peers -> Seq(PeerPacket)]
      BY <1>a, <1>13, <2>1, WriteTyped DEF OrderReplies, HandlerStep
    <2> QED  BY <1>0, <1>13, <2>2, ReturnTyped, HandlerTyped DEF OrderReplies, HandlerStep,
                historyVars
  <1>d. ASSUME NEW to \in SUBSET Dishes, frame' = [frame EXCEPT ![w].todo = to]
        PROVE  /\ frame' \in [Workers -> Frame]
               /\ \A v \in Workers \ {w} : frame'[v] = frame[v]
    BY <1>0, <1>d DEF Frame
  <1>14. CASE UpdateFinds(w)
    <2>1. frame' \in [Workers -> Frame] /\ \A v \in Workers \ {w} : frame'[v] = frame[v]
      BY <1>14, <1>d DEF UpdateFinds
    <2>2. pc' \in [Workers -> PC] /\ Pool!PoolTypeOK' /\ Handlers'
      BY <1>0, <1>14, <2>1, GotoTyped DEF UpdateFinds, HandlerStep, PC
    <2> QED  BY <1>0, <1>14, <2>1, <2>2, HandlerTyped DEF UpdateFinds, HandlerStep, historyVars
  <1>15. CASE UpdateRefused(w)
    BY <1>0, <1>15, ReturnTyped, HandlerTyped DEF UpdateRefused, HandlerStep, historyVars
  <1>c. ASSUME pc[w] # "idle", AssignedClient(w) # NoClient
        PROVE  AssignedClient(w) \in Addr
    BY <1>0, <1>a, <1>c DEF AssignedClient, Client
  <1>16. ASSUME NEW d \in Dishes, UpdateMarks(w, d)
         PROVE  Typed'
    <2>1. client' \in [Addr -> Client]
      <3> DEFINE a == AssignedClient(w)
      <3>1. a \in Addr
        BY <1>16, <1>c DEF UpdateMarks, HandlerStep
      <3>2. ASSUME NEW c \in Client PROVE [c EXCEPT !.menu_items[d] = "COMPLETED"] \in Client
        BY DEF Client, MenuState
      <3>3. CASE client' = client
        BY <1>0, <3>3
      <3>4. CASE client' = [client EXCEPT ![a].menu_items[d] = "COMPLETED"]
        <4> HIDE DEF a
        <4>1. client' = [client EXCEPT ![a] = [@ EXCEPT !.menu_items[d] = "COMPLETED"]]
          BY <3>4
        <4> QED  BY <1>0, <3>1, <3>2, <4>1
      <3> QED  BY <1>16, <3>3, <3>4 DEF UpdateMarks
    <2>2. \/ Goto(w, "upd_mark") /\ frame' = [frame EXCEPT ![w].todo = @ \ {d}]
          \/ Goto(w, "upd_scan") /\ frame' = [frame EXCEPT ![w].todo = Dishes]
      BY <1>16 DEF UpdateMarks
    <2>3. frame[w].todo \ {d} \in SUBSET Dishes
      BY <1>0 DEF Frame
    <2>4. frame' \in [Workers -> Frame] /\ \A v \in Workers \ {w} : frame'[v] = frame[v]
      BY <1>0, <1>d, <2>2, <2>3
    <2>5. pc' \in [Workers -> PC] /\ Pool!PoolTypeOK' /\ Handlers'
      BY <1>0, <1>16, <2>2, <2>4, GotoTyped DEF UpdateMarks, HandlerStep, PC
    <2> QED  BY <1>0, <1>16, <2>1, <2>4, <2>5, HandlerTyped DEF UpdateMarks, HandlerStep,
                historyVars
  <1>17. ASSUME NEW d \in Dishes, UpdateScans(w, d)
         PROVE  Typed'
    <2>1. PICK to \in {"upd_free", "upd_send", "upd_scan"} : Goto(w, to)
      BY <1>17 DEF UpdateScans
    <2>2. frame[w].todo \ {d} \in SUBSET Dishes /\ frame' = [frame EXCEPT ![w].todo = @ \ {d}]
      BY <1>0, <1>17 DEF Frame, UpdateScans
    <2>3. frame' \in [Workers -> Frame] /\ \A v \in Workers \ {w} : frame'[v] = frame[v]
      BY <1>0, <1>d, <2>2
    <2>4. pc' \in [Workers -> PC] /\ Pool!PoolTypeOK' /\ Handlers'
      BY <1>0, <1>17, <2>1, <2>3, GotoTyped DEF UpdateScans, HandlerStep, PC
    <2> QED  BY <1>0, <1>17, <2>3, <2>4, HandlerTyped DEF UpdateScans, HandlerStep, historyVars
  <1>18. CASE UpdateReplies(w)
    <2>1. CustUpdate("COMPLETE") \in PeerPacket
      BY DEF PeerPacket, Texts
    <2>2. AssignedClient(w) \in Addr
      BY <1>18, <1>0 DEF UpdateReplies, Live, Typed, TypeOK
    <2>3. toPeer' \in [Peers -> Seq(PeerPacket)]
      BY <1>18, <2>1, <2>2, WriteTyped DEF UpdateReplies
    <2>4. pc' \in [Workers -> PC] /\ Pool!PoolTypeOK' /\ Handlers'
      BY <1>0, <1>18, GotoTyped DEF UpdateReplies, HandlerStep, PC
    <2> QED  BY <1>0, <1>18, <2>3, <2>4, HandlerTyped DEF UpdateReplies, HandlerStep,
                historyVars
  <1>19. CASE UpdateFreesCook(w)
    <2>1. client' \in [Addr -> Client]
      <3>1. running[w] \in Addr
        BY <1>a, <1>19 DEF UpdateFreesCook, HandlerStep
      <3>2. client' = [client EXCEPT ![running[w]] = Freed(@)]
        BY <1>19 DEF UpdateFreesCook
      <3>3. \A c \in Client : Freed(c) \in Client
        BY DEF Freed, Client, UserState
      <3> QED
        BY <1>0, <3>1, <3>2, <3>3
    <2> QED  BY <1>0, <1>19, <2>1, ReturnTyped, HandlerTyped DEF UpdateFreesCook,
                HandlerStep, historyVars
  <1> QED
    BY <1>1, <1>2, <1>3, <1>4, <1>5, <1>6, <1>7, <1>8, <1>9, <1>10, <1>11, <1>12, <1>13, <1>14,
       <1>15, <1>16, <1>17, <1>18, <1>19 DEF HandlerNext

\* A client program has nothing but its own ends of the connection.
LEMMA PeerTyped ==
  ASSUME Typed, NEW p \in Peers, PeerNext(p) \/ Kill(p)
  PROVE  Typed'
  <1>0. /\ peer \in [Peers -> PeerState]
        /\ toServer \in [Peers -> Seq(ServerPacket)]
        /\ toPeer \in [Peers -> Seq(PeerPacket)]
    BY DEF Typed, TypeOK
  <1>1. /\ Handlers'
        /\ UNCHANGED <<memVars, poolVars, crashed, historyVars>>
        /\ \E to \in PeerState : peer' = [peer EXCEPT ![p] = to]
    BY DEF Typed, PeerNext, Kill, Connect, Register, PlaceOrder, CookReads, CookFinishes,
       CustomerReads, ClientStep, Handlers, memVars, poolVars, PeerState
  <1>2. ASSUME NEW pkt \in ServerPacket, Send(p, pkt)
        PROVE  toServer' \in [Peers -> Seq(ServerPacket)]
    BY <1>0, <1>2 DEF Send
  <1>3. /\ CookUpdate \in ServerPacket
        /\ \A items \in Capabilities : RegCook(items) \in ServerPacket
        /\ \A o \in Orders : CustOrder(o.items, o.n) \in ServerPacket
    BY DEF ServerPacket
  <1>4. toServer' \in [Peers -> Seq(ServerPacket)]
    <2>1. CASE \E items \in Capabilities : Register(p, items)
      BY <1>2, <1>3, <2>1 DEF Register
    <2>2. CASE \E o \in Orders : PlaceOrder(p, o)
      <3>1. PICK o \in Orders : Send(p, CustOrder(o.items, o.n))
        BY <2>2 DEF PlaceOrder
      <3>2. CustOrder(o.items, o.n) \in ServerPacket
        BY <1>3
      <3> QED  BY <1>2, <3>1, <3>2
    <2>3. CASE CookFinishes(p)
      BY <1>2, <1>3, <2>3 DEF CookFinishes
    <2>4. CASE Connect(p) \/ CookReads(p) \/ CustomerReads(p) \/ Kill(p)
      BY <1>0, <2>4 DEF Connect, CookReads, CustomerReads, Kill, netVars
    <2> QED  BY <2>1, <2>2, <2>3, <2>4 DEF PeerNext
  <1>5. toPeer[p] # <<>> => Tail(toPeer[p]) \in Seq(PeerPacket)
    BY <1>0
  <1>6. toPeer' \in [Peers -> Seq(PeerPacket)]
    BY <1>0, <1>5
    DEF PeerNext, Kill, Connect, Register, PlaceOrder, CookReads, CookFinishes, CustomerReads,
        Receive, netVars
  <1>7. peer' \in [Peers -> PeerState]
    BY <1>0, <1>1
  <1> QED
    BY <1>1, <1>4, <1>6, <1>7
    DEF Typed, TypeOK, Pool!PoolTypeOK, memVars, poolVars, historyVars

\* The list without an element it holds.
LEMMA RemovedTyped ==
  ASSUME tailq \in Seq(Addr), NEW i \in DOMAIN tailq
  PROVE  /\ Removed(tailq[i]) \in Seq(Addr)
         /\ (\A j, k \in DOMAIN tailq : tailq[j] = tailq[k] => j = k) =>
              Removed(tailq[i]) = [j \in 1..(Len(tailq) - 1) |-> tailq[IF j < i THEN j ELSE j + 1]]
  <1> DEFINE h == CHOOSE j \in DOMAIN tailq : tailq[j] = tailq[i]
             q == [j \in 1..(Len(tailq) - 1) |-> tailq[IF j < h THEN j ELSE j + 1]]
  <1>1. h \in DOMAIN tailq /\ tailq[h] = tailq[i]
    OBVIOUS
  <1>2. Len(tailq) \in Nat /\ DOMAIN tailq = 1..Len(tailq) /\ Len(tailq) - 1 \in Nat
    BY <1>1
  <1>3. Removed(tailq[i]) = q
    BY DEF Removed
  <1> HIDE DEF h
  <1>4. \A j \in 1..(Len(tailq) - 1) : (IF j < h THEN j ELSE j + 1) \in DOMAIN tailq
    BY <1>1, <1>2
  <1>5. q \in [1..(Len(tailq) - 1) -> Addr]
    BY <1>2, <1>4
  <1>6. q \in Seq(Addr)
    BY <1>2, <1>5
  <1> QED  BY <1>1, <1>3, <1>6

LEMMA LoopTyped ==
  ASSUME Typed, NEW p \in Peers, LoopNext(p),
         BufferedOnError(p) => \E i \in DOMAIN tailq : tailq[i] = struct_of[p]
  PROVE  Typed'
  <1>0. /\ toServer \in [Peers -> Seq(ServerPacket)]
        /\ struct_of \in [Peers -> Addr \cup {NoClient}]
        /\ client \in [Addr -> Client]
        /\ tailq \in Seq(Addr)
        /\ accepted \in [Peers -> BOOLEAN]
        /\ Pool!PoolTypeOK /\ Handlers
    BY DEF Typed, TypeOK
  <1>1. CASE OnAccept(p)
    <2>1. PICK a \in Addr \ Live :
            /\ client' = [client EXCEPT ![a] = [ZeroClient EXCEPT !.buf_ev = p]]
            /\ struct_of' = [struct_of EXCEPT ![p] = a]
            /\ tailq' = Append(tailq, a)
      BY <1>1 DEF OnAccept
    <2>2. [ZeroClient EXCEPT !.buf_ev = p] \in Client
      BY PeersAssumption DEF ZeroClient, Client, UserState, MenuState
    <2>3. client' \in [Addr -> Client]
      BY <1>0, <2>1, <2>2
    <2>4. struct_of' \in [Peers -> Addr \cup {NoClient}] /\ tailq' \in Seq(Addr)
      BY <1>0, <2>1
    <2>5. accepted' \in [Peers -> BOOLEAN]
      BY <1>0, <1>1 DEF OnAccept
    <2>6. Handlers'
      BY <1>0, <1>1 DEF OnAccept, LoopStep, Handlers
    <2> QED
      BY <1>0, <1>1, <2>3, <2>4, <2>5, <2>6
      DEF OnAccept, LoopStep, Typed, TypeOK, Pool!PoolTypeOK, netVars, historyVars
  <1>2. CASE BufferedOnRead(p)
    <2>1. struct_of[p] \in Addr
      BY <1>0, <1>2 DEF BufferedOnRead
    <2>2. toServer[p] # <<>> /\ toServer[p] \in Seq(ServerPacket)
      BY <1>0, <1>2 DEF BufferedOnRead
    <2>3. Head(toServer[p]) \in ServerPacket /\ Tail(toServer[p]) \in Seq(ServerPacket)
      BY <2>2
    <2>4. data' \in ServerPacket /\ toServer' \in [Peers -> Seq(ServerPacket)]
      BY <1>0, <1>2, <2>3 DEF BufferedOnRead
    <2>5. Pool!PoolTypeOK'
      BY <1>0, <1>2, <2>1 DEF BufferedOnRead, Pool!PoolTypeOK, Pool!Submit
    <2>6. data'.type # "NONE"
      BY <2>4 DEF ServerPacket, RegCook, CustOrder, CookUpdate
    <2>7. Handlers'
      BY <1>0, <1>2, <2>6 DEF BufferedOnRead, LoopStep, Handlers, Pool!Submit
    <2> QED
      BY <1>0, <1>2, <2>4, <2>5, <2>7
      DEF BufferedOnRead, LoopStep, Typed, TypeOK, historyVars
  <1>3. CASE BufferedOnError(p)
    <2>1. tailq' \in Seq(Addr)
      BY <1>0, <1>3, RemovedTyped DEF BufferedOnError
    <2>2. struct_of' \in [Peers -> Addr \cup {NoClient}]
      BY <1>0, <1>3 DEF BufferedOnError
    <2>3. Handlers'
      BY <1>0, <1>3 DEF BufferedOnError, LoopStep, Handlers
    <2> QED
      BY <1>0, <1>3, <2>1, <2>2, <2>3
      DEF BufferedOnError, LoopStep, Typed, TypeOK, Pool!PoolTypeOK, netVars, historyVars
  <1> QED  BY <1>1, <1>2, <1>3 DEF LoopNext

-----------------------------------------------------------------------------
(* The list of connections.                                                *)

\* ListHoldsConnections with the elements of the list told apart, not counted.
ListInjective == \A i, j \in DOMAIN tailq : tailq[i] = tailq[j] => i = j
OneStructEach ==
  \A p, q \in Peers : struct_of[p] = struct_of[q] => p = q \/ struct_of[p] = NoClient
Listed ==
  /\ {tailq[i] : i \in DOMAIN tailq} = Live
  /\ ListInjective
  /\ OneStructEach
  /\ \A p \in Peers : struct_of[p] # NoClient => accepted[p]

\* Only the loop's two callbacks change the list and who has which struct.
LEMMA ListUnchanged ==
  ASSUME [Next]_vars, \A p \in Peers : ~OnAccept(p) /\ ~BufferedOnError(p)
  PROVE  UNCHANGED <<tailq, struct_of, accepted>>
  <1>1. ASSUME NEW p \in Peers, PeerNext(p) \/ Kill(p) \/ LoopNext(p)
        PROVE  UNCHANGED <<tailq, struct_of, accepted>>
    BY <1>1
    DEF PeerNext, Kill, Connect, Register, PlaceOrder, CookReads, CookFinishes, CustomerReads,
        ClientStep, LoopNext, BufferedOnRead, memVars
  <1>2. ASSUME NEW w \in Workers, HandlerNext(w) \/ Crash(w)
        PROVE  UNCHANGED <<tailq, struct_of, accepted>>
    BY <1>2
    DEF HandlerNext, Crash, HandlerStep, WorkerTakes, Dispatch, RegCookState, RegCookMenu,
        OrderEntered, OrderRefused, OrderLocks, OrderUnlocks, VisitSkips, VisitAssigns,
        OrderComplete, OrderIncomplete, OrderReplies, UpdateFinds, UpdateRefused, Marks,
        UpdateMarks,
        Scans, UpdateScans, UpdateReplies, UpdateFreesCook, memVars
  <1> QED  BY <1>1, <1>2 DEF Next, vars, memVars

LEMMA AcceptLists ==
  ASSUME Typed, Listed, NEW p \in Peers, OnAccept(p)
  PROVE  Listed'
  <1>0. /\ tailq \in Seq(Addr) /\ struct_of \in [Peers -> Addr \cup {NoClient}]
        /\ accepted \in [Peers -> BOOLEAN]
    BY DEF Typed, TypeOK
  <1>1. PICK a \in Addr \ Live :
          struct_of' = [struct_of EXCEPT ![p] = a] /\ tailq' = Append(tailq, a)
    BY DEF OnAccept
  <1>2. struct_of[p] = NoClient /\ accepted' = [accepted EXCEPT ![p] = TRUE]
    BY DEF OnAccept, Listed
  <1>3. Live' = Live \cup {a}
    BY <1>0, <1>1, <1>2, PeersAssumption DEF Live
  <1>4. /\ DOMAIN tailq = 1..Len(tailq) /\ DOMAIN tailq' = 1..(Len(tailq) + 1)
        /\ Len(tailq) \in Nat
        /\ \A i \in 1..Len(tailq) : tailq'[i] = tailq[i]
        /\ tailq'[Len(tailq) + 1] = a
    BY <1>0, <1>1
  <1>5. \A i \in 1..Len(tailq) : tailq[i] \in Live
    BY <1>4 DEF Listed
  <1>6. {tailq'[i] : i \in DOMAIN tailq'} = Live'
    BY <1>3, <1>4 DEF Listed
  <1>7. ListInjective'
    BY <1>1, <1>4, <1>5 DEF Listed, ListInjective
  <1>8. OneStructEach'
    BY <1>0, <1>1, <1>2 DEF Listed, OneStructEach, Live
  <1>9. \A q \in Peers : struct_of'[q] # NoClient => accepted'[q]
    BY <1>0, <1>1, <1>2 DEF Listed
  <1> QED  BY <1>6, <1>7, <1>8, <1>9 DEF Listed

LEMMA ErrorUnlists ==
  ASSUME Typed, Listed, NEW p \in Peers, BufferedOnError(p)
  PROVE  Listed' /\ \E i \in DOMAIN tailq : tailq[i] = struct_of[p]
  <1>0. /\ tailq \in Seq(Addr) /\ struct_of \in [Peers -> Addr \cup {NoClient}]
    BY DEF Typed, TypeOK
  <1>1. struct_of[p] \in Live
    BY DEF BufferedOnError, Live
  <1>2. PICK i \in DOMAIN tailq : tailq[i] = struct_of[p]
    BY <1>1 DEF Listed
  <1>3. tailq' = [j \in 1..(Len(tailq) - 1) |-> tailq[IF j < i THEN j ELSE j + 1]]
    BY <1>0, <1>2, RemovedTyped DEF BufferedOnError, Listed, ListInjective
  <1>4. struct_of' = [struct_of EXCEPT ![p] = NoClient] /\ accepted' = accepted
    BY DEF BufferedOnError
  <1>5. Live' = Live \ {struct_of[p]}
    BY <1>0, <1>1, <1>4 DEF Live, Listed, OneStructEach
  <1>6. DOMAIN tailq = 1..Len(tailq) /\ DOMAIN tailq' = 1..(Len(tailq) - 1) /\ Len(tailq) \in Nat
    BY <1>0, <1>3
  <1>7. \A j \in DOMAIN tailq' :
          /\ j < i => j \in DOMAIN tailq /\ tailq'[j] = tailq[j]
          /\ j >= i => j + 1 \in DOMAIN tailq /\ tailq'[j] = tailq[j + 1]
    BY <1>2, <1>3, <1>6
  <1>8. \A j \in DOMAIN tailq \ {i} : \E k \in DOMAIN tailq' : tailq'[k] = tailq[j]
    <2>1. TAKE j \in DOMAIN tailq \ {i}
    <2>2. CASE j < i
      <3>1. j \in DOMAIN tailq'
        BY <1>2, <1>6, <2>2
      <3> QED  BY <1>7, <2>2, <3>1
    <2>3. CASE j > i
      <3>1. j - 1 \in DOMAIN tailq' /\ j - 1 >= i /\ (j - 1) + 1 = j
        BY <1>2, <1>6, <2>3
      <3> QED  BY <1>7, <3>1
    <2> QED  BY <1>2, <1>6, <2>2, <2>3
  <1>9. {tailq'[j] : j \in DOMAIN tailq'} = Live'
    <2>1. \A j \in DOMAIN tailq' : tailq'[j] \in Live /\ tailq'[j] # tailq[i]
      BY <1>2, <1>6, <1>7 DEF Listed, ListInjective
    <2>2. \A a \in Live : a # tailq[i] => \E k \in DOMAIN tailq' : tailq'[k] = a
      BY <1>8 DEF Listed
    <2> QED  BY <1>2, <1>5, <2>1, <2>2
  <1>10. ListInjective'
    BY <1>2, <1>6, <1>7 DEF Listed, ListInjective
  <1>11. OneStructEach' /\ \A q \in Peers : struct_of'[q] # NoClient => accepted'[q]
    BY <1>0, <1>4 DEF Listed, OneStructEach
  <1> QED  BY <1>2, <1>9, <1>10, <1>11 DEF Listed

\* Memory is type-correct and the list holds the connections: the first needs
\* the second, for what is removed from the list must be in it.
LEMMA MemoryInit == Init => Typed /\ Listed
  <1>1. Init => Listed
    BY DEF Init, Listed, Live, ListInjective, OneStructEach
  <1> QED  BY <1>1, TypedInit

LEMMA MemoryNext == Typed /\ Listed /\ [Next]_vars => Typed' /\ Listed'
  <1> SUFFICES ASSUME Typed, Listed, [Next]_vars
               PROVE  Typed' /\ Listed'
    OBVIOUS
  <1>1. Listed'
    <2>1. CASE \E p \in Peers : OnAccept(p) \/ BufferedOnError(p)
      BY <2>1, AcceptLists, ErrorUnlists
    <2>2. CASE \A p \in Peers : ~OnAccept(p) /\ ~BufferedOnError(p)
      BY <2>2, ListUnchanged DEF Listed, Live, ListInjective, OneStructEach
    <2> QED  BY <2>1, <2>2
  <1>2. ASSUME NEW p \in Peers, PeerNext(p) \/ Kill(p) \/ LoopNext(p)
        PROVE  Typed'
    BY <1>2, PeerTyped, LoopTyped, ErrorUnlists
  <1>3. ASSUME NEW w \in Workers, HandlerNext(w) \/ Crash(w)
        PROVE  Typed'
    <2>1. CASE Crash(w)
      BY <2>1 DEF Crash, Typed, TypeOK, Handlers, Pool!PoolTypeOK, netVars, memVars, poolVars,
         historyVars
    <2> QED  BY <1>3, <2>1, HandlerNextTyped
  <1>4. CASE UNCHANGED vars
    BY <1>1, <1>4 DEF vars, Typed, TypeOK, Handlers, Pool!PoolTypeOK, netVars, memVars,
       poolVars, historyVars
  <1> QED  BY <1>1, <1>2, <1>3, <1>4 DEF Next

\* Every variable of the server, of its threads and of its clients keeps to its
\* type: no step of the loop or of a handler makes of a struct client or of a
\* packet something that is neither.
THEOREM ServerTypeCorrect == Spec => []TypeOK
  <1>1. Spec => [](Typed /\ Listed)
    BY MemoryInit, MemoryNext, PTL DEF Spec
  <1>2. Typed => TypeOK
    BY DEF Typed
  <1> QED  BY <1>1, <1>2, PTL

LEMMA MemoryInvariant == Spec => [](Typed /\ Listed)
  BY MemoryInit, MemoryNext, PTL DEF Spec

\* What is in the list once is as many as the list is long.
LEMMA ListCounted ==
  ASSUME Typed, Listed
  PROVE  Len(tailq) = Cardinality(Live)
  <1>1. tailq \in Seq(Addr) /\ Len(tailq) \in Nat /\ DOMAIN tailq = 1..Len(tailq)
    BY DEF Typed, TypeOK
  <1>2. tailq \in Bijection(1..Len(tailq), Live)
    BY <1>1 DEF Listed, ListInjective, Bijection, Injection, Surjection, IsInjective
  <1> QED  BY <1>1, <1>2, FS_CountingElements DEF ExistsBijection

\* The list that the handlers walk holds the struct of every connection once,
\* however connections come and go: no handler meets a freed struct in it.
THEOREM ListIsOfConnections == Spec => []ListHoldsConnections
  <1>1. Typed /\ Listed => ListHoldsConnections
    BY ListCounted DEF Listed, OneStructEach, ListHoldsConnections
  <1> QED  BY <1>1, MemoryInvariant, PTL

-----------------------------------------------------------------------------
(* The mutex.                                                              *)

LEMMA MutexNext ==
  Typed /\ MutexHeldByWalker /\ [Next]_vars => MutexHeldByWalker'
  <1> SUFFICES ASSUME Typed, MutexHeldByWalker, [Next]_vars
               PROVE  MutexHeldByWalker'
    OBVIOUS
  <1>0. pc \in [Workers -> PC] /\ NoThread \notin Workers
    BY PeersAssumption DEF Typed, TypeOK
  <1>1. ASSUME NEW p \in Peers, PeerNext(p) \/ Kill(p) \/ LoopNext(p)
        PROVE  UNCHANGED <<mutex, pc>>
    BY <1>1
    DEF PeerNext, Kill, Connect, Register, PlaceOrder, CookReads, CookFinishes, CustomerReads,
        ClientStep, LoopNext, LoopStep, OnAccept, BufferedOnRead, BufferedOnError, memVars,
        poolVars
  <1>2. ASSUME NEW w \in Workers, HandlerNext(w)
        PROVE  MutexHeldByWalker'
    <2>1. CASE OrderLocks(w)
      BY <1>0, <2>1 DEF OrderLocks, HandlerStep, Goto, MutexHeldByWalker
    <2>2. CASE OrderUnlocks(w)
      BY <1>0, <2>2 DEF OrderUnlocks, HandlerStep, Goto, MutexHeldByWalker
    <2>3. CASE VisitSkips(w)
      BY <1>0, <2>3 DEF VisitSkips, HandlerStep, Goto, MutexHeldByWalker
    <2>4. CASE VisitAssigns(w)
      BY <1>0, <2>4 DEF VisitAssigns, HandlerStep, Goto, MutexHeldByWalker
    <2>5. CASE Dispatch(w)
      <3>1. pc[w] = "dispatch" /\ pc' = [pc EXCEPT ![w] = HandlerOf[data.type]] /\ mutex' = mutex
        BY <2>5 DEF Dispatch, HandlerStep, Goto
      <3>2. HandlerOf[data.type] # "ord_visit"
        BY <3>1, PacketRead
      <3> QED  BY <1>0, <3>1, <3>2 DEF MutexHeldByWalker
    <2>6. CASE ~OrderLocks(w) /\ ~OrderUnlocks(w) /\ ~VisitSkips(w) /\ ~VisitAssigns(w)
               /\ ~Dispatch(w)
      <3>1. mutex' = mutex /\ pc[w] # "ord_visit"
            /\ \E to \in PC \ {"ord_visit"} : pc' = [pc EXCEPT ![w] = to]
        BY <1>2, <2>6
        DEF HandlerNext, HandlerStep, Goto, Return, PC, WorkerTakes, RegCookState, RegCookMenu,
            OrderEntered, OrderRefused, OrderComplete, OrderIncomplete, OrderReplies,
            UpdateFinds, UpdateRefused, Marks, UpdateMarks, Scans, UpdateScans,
            UpdateReplies, UpdateFreesCook
      <3> QED  BY <1>0, <3>1 DEF MutexHeldByWalker
    <2> QED  BY <2>1, <2>2, <2>3, <2>4, <2>5, <2>6
  <1>3. ASSUME NEW w \in Workers, Crash(w)
        PROVE  UNCHANGED <<mutex, pc>>
    BY <1>3 DEF Crash, memVars, poolVars
  <1>4. CASE UNCHANGED vars
    BY <1>4 DEF vars, memVars, poolVars, MutexHeldByWalker
  <1> QED  BY <1>1, <1>2, <1>3, <1>4 DEF Next, MutexHeldByWalker

\* The mutex is held by the thread that walks the list, from the start of the
\* walk to each of its two ends, and by nobody else: of two orders at most one
\* is being handed out.
THEOREM WalkerHoldsMutex == Spec => []MutexHeldByWalker
  <1>1. Init => MutexHeldByWalker
    BY PeersAssumption DEF Init, MutexHeldByWalker
  <1>2. Spec => []Typed
    BY MemoryInvariant, PTL
  <1> QED  BY <1>1, <1>2, MutexNext, PTL DEF Spec

-----------------------------------------------------------------------------
(* The customers of busy cooks.                                            *)

\* BusyCookHasCustomer of all memory, freed or not: what calloc() hands out
\* again was cleared.
BusyHasCustomer ==
  \A a \in Addr : client[a].state = "COOK_BUSY" => client[a].assigned_client # NoClient

LEMMA BusyNext ==
  Typed /\ Listed /\ BusyHasCustomer /\ [Next]_vars => BusyHasCustomer'
  <1> SUFFICES ASSUME Typed, Listed, BusyHasCustomer, [Next]_vars
               PROVE  BusyHasCustomer'
    OBVIOUS
  <1>0. /\ client \in [Addr -> Client] /\ NoClient \notin Addr
        /\ tailq \in Seq(Addr)
    BY PeersAssumption DEF Typed, TypeOK
  <1>1. ASSUME NEW p \in Peers, PeerNext(p) \/ Kill(p) \/ LoopNext(p), ~OnAccept(p)
        PROVE  UNCHANGED client
    BY <1>1
    DEF PeerNext, Kill, Connect, Register, PlaceOrder, CookReads, CookFinishes, CustomerReads,
        ClientStep, LoopNext, BufferedOnRead, BufferedOnError, memVars
  <1>2. ASSUME NEW p \in Peers, OnAccept(p)
        PROVE  BusyHasCustomer'
    <2>1. PICK a \in Addr : client' = [client EXCEPT ![a] = [ZeroClient EXCEPT !.buf_ev = p]]
      BY <1>2 DEF OnAccept
    <2>2. [ZeroClient EXCEPT !.buf_ev = p].state = "UNKNOWN"
      BY DEF ZeroClient
    <2> QED  BY <1>0, <2>1, <2>2 DEF BusyHasCustomer
  <1>3. ASSUME NEW w \in Workers, HandlerNext(w)
        PROVE  BusyHasCustomer'
    <2>a. pc[w] # "idle" => running[w] \in Addr
      BY DEF Typed, TypeOK, Handlers, Pool!PoolTypeOK
    <2>1. CASE RegCookState(w)
      <3>1. running[w] \in Addr
            /\ client' = [client EXCEPT ![running[w]].state = "COOK_FREE"]
        BY <2>a, <2>1 DEF RegCookState, HandlerStep
      <3> QED  BY <1>0, <3>1 DEF BusyHasCustomer, Client
    <2>2. ASSUME NEW d \in Dishes, RegCookMenu(w, d)
          PROVE  BusyHasCustomer'
      <3>1. \/ client' = client
            \/ client' = [client EXCEPT ![running[w]].menu_items[d] = "CAPABLE"]
        BY <2>2 DEF RegCookMenu
      <3>2. running[w] \in Addr
        BY <2>a, <2>2 DEF RegCookMenu, HandlerStep
      <3> QED  BY <1>0, <3>1, <3>2 DEF BusyHasCustomer, Client
    <2>3. CASE OrderEntered(w)
      <3>1. running[w] \in Addr
        BY <2>a, <2>3 DEF OrderEntered, HandlerStep
      <3>2. PICK pkt \in Seen("CUST_ORDER") :
              client' = [client EXCEPT
                ![running[w]].state = "CUSTOMER",
                ![running[w]].menu_items =
                    [d \in Dishes |-> IF d \in pkt.items THEN "NEW" ELSE @[d]],
                ![running[w]].num_of_orders = pkt.n]
        BY <2>3 DEF OrderEntered
      <3>3. client'[running[w]].state = "CUSTOMER"
            /\ \A a \in Addr \ {running[w]} : client'[a] = client[a]
        BY <1>0, <3>1, <3>2 DEF Client
      <3> QED  BY <1>0, <3>1, <3>3 DEF BusyHasCustomer
    <2>4. CASE VisitSkips(w)
      <3>1. running[w] \in Addr
        BY <2>a, <2>4 DEF VisitSkips, HandlerStep
      <3> DEFINE k == tailq[frame[w].cur]
      <3>2. client' = client \/ client' = [client EXCEPT ![k].assigned_client = running[w]]
        BY <2>4 DEF VisitSkips
      <3> HIDE DEF k
      <3> QED  BY <1>0, <3>1, <3>2 DEF BusyHasCustomer, Client
    <2>5. CASE VisitAssigns(w)
      <3> DEFINE a == running[w]
                 k == tailq[frame[w].cur]
                 dishes == Takes(k, a)
      <3>1. a \in Addr
        BY <2>a, <2>5 DEF VisitAssigns, HandlerStep
      <3>2. client' = [client EXCEPT ![a].menu_items = Assigned(@, dishes),
                                     ![k] = Booked(@, a, dishes)]
        BY <2>5 DEF VisitAssigns
      <3>3. ASSUME NEW c \in Client
            PROVE  /\ Booked(c, a, dishes).assigned_client = a
                   /\ [c EXCEPT !.menu_items = Assigned(@, dishes)].state = c.state
                   /\ [c EXCEPT !.menu_items = Assigned(@, dishes)].assigned_client
                        = c.assigned_client
                   /\ Booked([c EXCEPT !.menu_items = Assigned(@, dishes)], a, dishes)
                        .assigned_client = a
        BY DEF Booked, Client
      <3> HIDE DEF a, k, dishes
      <3> QED  BY <1>0, <3>1, <3>2, <3>3 DEF BusyHasCustomer
    <2>6. ASSUME NEW d \in Dishes, UpdateMarks(w, d)
          PROVE  BusyHasCustomer'
      <3>1. \/ client' = client
            \/ client' = [client EXCEPT ![AssignedClient(w)].menu_items[d] = "COMPLETED"]
        BY <2>6 DEF UpdateMarks
      <3> QED  BY <1>0, <3>1 DEF BusyHasCustomer, Client
    <2>7. CASE UpdateFreesCook(w)
      <3>1. running[w] \in Addr /\ client' = [client EXCEPT ![running[w]].state = "COOK_FREE"]
        BY <2>a, <2>7 DEF UpdateFreesCook, HandlerStep, Freed
      <3> QED  BY <1>0, <3>1 DEF BusyHasCustomer, Client
    <2>8. CASE UNCHANGED client
      BY <2>8 DEF BusyHasCustomer
    <2> QED
      BY <1>3, <2>1, <2>2, <2>3, <2>4, <2>5, <2>6, <2>7, <2>8
      DEF HandlerNext, WorkerTakes, Dispatch, OrderRefused, OrderLocks, OrderUnlocks,
          OrderComplete, OrderIncomplete, OrderReplies, UpdateFinds, UpdateRefused, Scans,
          UpdateScans,
          UpdateReplies
  <1>4. ASSUME NEW w \in Workers, Crash(w)
        PROVE  UNCHANGED client
    BY <1>4 DEF Crash, memVars
  <1>5. CASE UNCHANGED vars
    BY <1>5 DEF vars, memVars, BusyHasCustomer
  <1> QED  BY <1>1, <1>2, <1>3, <1>4, <1>5 DEF Next, BusyHasCustomer

\* A struct that reads COOK_BUSY names the customer it cooks for: what the
\* handler of a cook's update reads there is never the NULL of calloc().
THEOREM BusyCookIsBookedForSomeone == Spec => []BusyCookHasCustomer
  <1>1. Init => BusyHasCustomer
    BY DEF Init, BusyHasCustomer, ZeroClient
  <1>2. Typed /\ BusyHasCustomer => BusyCookHasCustomer
    BY DEF Typed, TypeOK, Live, BusyHasCustomer, BusyCookHasCustomer
  <1> QED  BY <1>1, <1>2, BusyNext, MemoryInvariant, PTL DEF Spec

-----------------------------------------------------------------------------
(* Where the order of each cook is, for any number of cooks, customers and *)
(* threads: if packets come apart and no cook is ended by its user, a cook *)
(* has one order at a time (NoDoubleBooking) and is left busy with nothing *)
(* to do only by a customer that has gone (IdleBusyCookWasDeserted).       *)
(* Customers may come and go, and their memory may be used again.          *)

Orderly == Paced /\ Mortal \cap Cooks = {}

-----------------------------------------------------------------------------
(* The invariant.                                                          *)

\* The life of a cook: its registration is sent, queued and handled; then its
\* orders go round, each until the update for it is handled.
Stages == {"out", "regSent", "regQueued", "regHandled", "free", "deserted",
           "ordered", "cooking", "updSent", "updQueued", "updHandled"}
Unregistered == {"out", "regSent", "regQueued", "regHandled"}

Registering(w) == \/ pc[w] = "reg_state"
                  \/ pc[w] = "dispatch" /\ data.type = "REG_COOK"
FromCook == data.type # "CUST_ORDER"
Queued(k) == pending # <<>> /\ FromCook /\ Head(pending) = struct_of[k]
HandledBy(k, w) == running[w] = struct_of[k] /\ (Registering(w) \/ Updating(w))
IsOrder(k, i) == toPeer[k][i].type = "COOK_ORDER"

\* Where a cook in stage s is seen, and that it is seen nowhere else: in its
\* program, on the way to the server, in the pool's queue, at a thread, on the
\* way back, in its struct client.
AtProgram(k, s) ==
  /\ peer[k] \in {"start", "connected", "reading", "cooking"}
  /\ s = "out" <=> peer[k] \in {"start", "connected"}
  /\ s = "cooking" <=> peer[k] = "cooking"
AtToServer(k, s) ==
  IF s \in {"regSent", "updSent"}
  THEN /\ Len(toServer[k]) = 1
       /\ Head(toServer[k]).type = IF s = "regSent" THEN "REG_COOK" ELSE "COOK_UPDATE"
  ELSE toServer[k] = <<>>
AtQueue(k, s) ==
  /\ Queued(k) <=> s \in {"regQueued", "updQueued"}
  /\ s = "regQueued" => data.type = "REG_COOK"
  /\ s = "updQueued" => data.type = "COOK_UPDATE"
AtThread(k, s) ==
  /\ s \in {"regHandled", "updHandled"} <=> \E w \in Workers : HandledBy(k, w)
  /\ \A w \in Workers : HandledBy(k, w) =>
       IF s = "regHandled" THEN Registering(w) ELSE Updating(w)
  /\ \A v, w \in Workers : HandledBy(k, v) /\ HandledBy(k, w) => v = w
AtToPeer(k, s) ==
  /\ s = "ordered" <=> \E i \in DOMAIN toPeer[k] : IsOrder(k, i)
  /\ \A i, j \in DOMAIN toPeer[k] : IsOrder(k, i) /\ IsOrder(k, j) => i = j
AtStruct(k, s) ==
  IF struct_of[k] = NoClient THEN s \in {"out", "regSent"}
  ELSE \/ s \in Unregistered /\ StateOf(k) \in {"UNKNOWN", "CUSTOMER"}
       \/ s = "free" /\ StateOf(k) = "COOK_FREE"
       \/ s \notin Unregistered \cup {"free"} /\ StateOf(k) = "COOK_BUSY"
Deserted(k, s) == s = "deserted" => peer[servesFor[k]] = "exited"

At(k, s) ==
  /\ AtProgram(k, s) /\ AtToServer(k, s) /\ AtQueue(k, s) /\ AtThread(k, s)
  /\ AtToPeer(k, s) /\ AtStruct(k, s) /\ Deserted(k, s)

EveryCookIsSomewhere == \A k \in Cooks : \E s \in Stages : At(k, s)

\* Paced: of all jobs at most one has not read its packet, and that packet is
\* the one in the loop's array.
OneUnread ==
  /\ pending # <<>> => Len(pending) = 1 /\ \A w \in Workers : ~Unread(w)
  /\ \A v, w \in Workers : Unread(v) /\ Unread(w) => v = w

\* The handlers for cooks run on the structs of cooks.
CookJobs ==
  /\ pending # <<>> /\ FromCook => \E k \in Cooks : Head(pending) = struct_of[k]
  /\ \A w \in Workers :
       Registering(w) \/ pc[w] = "reg_menu" \/ Updating(w)
         => \E k \in Cooks : running[w] = struct_of[k]

CustomersOrder ==
  \A c \in Customers :
    /\ \A i \in DOMAIN toServer[c] : toServer[c][i].type = "CUST_ORDER"
    /\ struct_of[c] # NoClient => StateOf(c) \in {"UNKNOWN", "CUSTOMER"}

\* The address of a job was some client's: it is still, or that client has gone.
Used(a) == LET p == client[a].buf_ev
           IN p \in Peers /\ (struct_of[p] = a \/ peer[p] = "exited")
Owners ==
  /\ \A p \in Peers : struct_of[p] # NoClient => client[struct_of[p]].buf_ev = p
  /\ \A i \in DOMAIN pending : Used(pending[i])
  /\ \A w \in Workers : running[w] # NoClient => Used(running[w])

\* A busy cook's struct points at the struct of the customer that it serves,
\* unless the customer has gone.
BookedFor(k) ==
  /\ servesFor[k] \in Peers
  /\ \/ peer[servesFor[k]] = "exited"
     \/ struct_of[servesFor[k]] = client[struct_of[k]].assigned_client
Bookings ==
  \A k \in Cooks : struct_of[k] # NoClient /\ StateOf(k) = "COOK_BUSY" => BookedFor(k)

Memory == Typed /\ Listed /\ BusyHasCustomer
Kitchen ==
  /\ OneUnread /\ CookJobs /\ CustomersOrder /\ Owners /\ Bookings
  /\ EveryCookIsSomewhere

-----------------------------------------------------------------------------
(* What the steps may do at all.                                           *)

LEMMA HandlerFrame ==
  ASSUME NEW w \in Workers, HandlerNext(w)
  PROVE  UNCHANGED <<peer, toServer, tailq, data, struct_of, accepted>>
  BY DEF HandlerNext, HandlerStep, WorkerTakes, Dispatch, RegCookState, RegCookMenu,
     OrderEntered, OrderRefused, OrderLocks, OrderUnlocks, VisitSkips, VisitAssigns,
     OrderComplete, OrderIncomplete, OrderReplies, UpdateFinds, UpdateRefused, Marks,
     UpdateMarks,
     Scans, UpdateScans, UpdateReplies, UpdateFreesCook

LEMMA PeerFrame ==
  ASSUME NEW p \in Peers, PeerNext(p) \/ Kill(p)
  PROVE  UNCHANGED <<memVars, poolVars, crashed, historyVars>>
  BY DEF PeerNext, Kill, Connect, Register, PlaceOrder, CookReads, CookFinishes,
     CustomerReads, ClientStep

\* A client program that has ended stays so.
LEMMA ExitIsFinal ==
  ASSUME Typed, [Next]_vars, NEW q \in Peers, peer[q] = "exited"
  PROVE  peer'[q] = "exited"
  <1>0. peer \in [Peers -> PeerState]
    BY DEF Typed, TypeOK
  <1>1. ASSUME NEW p \in Peers, PeerNext(p) \/ Kill(p)
        PROVE  peer'[q] = "exited"
    BY <1>0, <1>1
    DEF PeerNext, Kill, Connect, Register, PlaceOrder, CookReads, CookFinishes, CustomerReads,
        ClientStep
  <1>2. ASSUME NEW p \in Peers, LoopNext(p)
        PROVE  peer' = peer
    BY <1>2 DEF LoopNext, LoopStep, OnAccept, BufferedOnRead, BufferedOnError
  <1>3. ASSUME NEW w \in Workers, HandlerNext(w) \/ Crash(w)
        PROVE  peer' = peer
    BY <1>3, HandlerFrame DEF Crash
  <1> QED  BY <1>1, <1>2, <1>3 DEF Next, vars

\* A handler is at one thread, which takes a job, goes on, or returns.
Goes(w) == pending' = pending /\ running' = running
Returns(w) == pending' = pending /\ running' = [running EXCEPT ![w] = NoClient]

LEMMA HandlerPool ==
  ASSUME Typed, NEW w \in Workers, HandlerNext(w)
  PROVE  /\ WorkerTakes(w) \/ Goes(w) \/ Returns(w)
         /\ \A v \in Workers \ {w} : pc'[v] = pc[v] /\ running'[v] = running[v]
  <1>0. pc \in [Workers -> PC] /\ running \in [Workers -> Addr \cup {NoClient}]
    BY DEF Typed, TypeOK, Pool!PoolTypeOK
  <1>1. WorkerTakes(w) \/ Goes(w) \/ Returns(w)
    BY DEF HandlerNext, Dispatch, RegCookState, RegCookMenu, OrderEntered, OrderRefused,
       OrderLocks, OrderUnlocks, VisitSkips, VisitAssigns, OrderComplete, OrderIncomplete,
       OrderReplies, UpdateFinds, UpdateRefused, Marks, UpdateMarks, Scans, UpdateScans,
       UpdateReplies,
       UpdateFreesCook, Goto, Return, Pool!Complete, Goes, Returns
  <1>2. \E to : pc' = [pc EXCEPT ![w] = to]
    BY DEF HandlerNext, WorkerTakes, Dispatch, RegCookState, RegCookMenu, OrderEntered,
       OrderRefused, OrderLocks, OrderUnlocks, VisitSkips, VisitAssigns, OrderComplete,
       OrderIncomplete, OrderReplies, UpdateFinds, UpdateRefused, Marks, UpdateMarks, Scans,
       UpdateScans,
       UpdateReplies, UpdateFreesCook, Goto, Return
  <1>3. ASSUME WorkerTakes(w) PROVE \A v \in Workers \ {w} : running'[v] = running[v]
    BY <1>0, <1>3 DEF WorkerTakes, Pool!Take
  <1> QED  BY <1>0, <1>1, <1>2, <1>3 DEF Goes, Returns

\* What handlers do to a struct client, as far as the kitchen goes.
Kept(a) == /\ client'[a].state = client[a].state
           /\ client'[a].assigned_client = client[a].assigned_client

BufEvsKept == \A a \in Addr : client'[a].buf_ev = client[a].buf_ev

LEMMA MemoryTyped ==
  ASSUME Typed, NEW w \in Workers
  PROVE  /\ client \in [Addr -> Client] /\ tailq \in Seq(Addr)
         /\ pc[w] # "idle" => running[w] \in Addr
  BY DEF Typed, TypeOK, Handlers, Pool!PoolTypeOK

LEMMA VisitedIsLive ==
  ASSUME Typed, Listed, NEW w \in Workers, pc[w] = "ord_visit", frame[w].cur <= Len(tailq)
  PROVE  tailq[frame[w].cur] \in Live
  <1>1. frame[w].cur \in Nat /\ frame[w].cur > 0
    BY DEF Typed, TypeOK, Frame, Handlers
  <1>2. frame[w].cur \in DOMAIN tailq
    BY <1>1, MemoryTyped
  <1> QED  BY <1>2 DEF Listed

LEMMA FreeingMemory ==
  ASSUME Typed, NEW w \in Workers, RegCookState(w) \/ UpdateFreesCook(w)
  PROVE  /\ BufEvsKept /\ running[w] \in Addr
         /\ client'[running[w]].state = "COOK_FREE"
         /\ \A a \in Addr \ {running[w]} : Kept(a)
  <1>1. running[w] \in Addr
    BY MemoryTyped DEF RegCookState, UpdateFreesCook, HandlerStep
  <1>2. client' = [client EXCEPT ![running[w]].state = "COOK_FREE"]
    BY DEF RegCookState, UpdateFreesCook, Freed
  <1> QED  BY <1>1, <1>2, MemoryTyped DEF Kept, BufEvsKept, Client

LEMMA EnteringMemory ==
  ASSUME Typed, NEW w \in Workers, OrderEntered(w)
  PROVE  /\ BufEvsKept /\ running[w] \in Addr
         /\ client'[running[w]].state = "CUSTOMER"
         /\ running[w] \in Live => client[running[w]].state \in {"UNKNOWN", "CUSTOMER"}
         /\ \A a \in Addr \ {running[w]} : Kept(a)
  <1>1. running[w] \in Addr
    BY MemoryTyped DEF OrderEntered, HandlerStep
  <1>2. PICK pkt \in Seen("CUST_ORDER") :
          client' = [client EXCEPT
            ![running[w]].state = "CUSTOMER",
            ![running[w]].menu_items =
                [d \in Dishes |-> IF d \in pkt.items THEN "NEW" ELSE @[d]],
            ![running[w]].num_of_orders = pkt.n]
    BY DEF OrderEntered
  <1>3. /\ BufEvsKept /\ client'[running[w]].state = "CUSTOMER"
        /\ \A a \in Addr \ {running[w]} : Kept(a)
    BY <1>1, <1>2, MemoryTyped DEF Kept, BufEvsKept, Client
  <1> QED  BY <1>1, <1>3 DEF OrderEntered, StateSeen

LEMMA SkippingMemory ==
  ASSUME Typed, NEW w \in Workers, VisitSkips(w)
  PROVE  /\ BufEvsKept
         /\ \A a \in Addr :
              /\ client'[a].state = client[a].state
              /\ client[a].state # "COOK_FREE" => Kept(a)
  <1> DEFINE k == tailq[frame[w].cur]
  <1>1. \/ client' = client
        \/ /\ client[k].state = "COOK_FREE"
           /\ client' = [client EXCEPT ![k].assigned_client = running[w]]
    BY DEF VisitSkips
  <1> HIDE DEF k
  <1>2. CASE client' = client
    BY <1>2 DEF Kept, BufEvsKept
  <1>3. CASE client[k].state = "COOK_FREE"
             /\ client' = [client EXCEPT ![k].assigned_client = running[w]]
    BY <1>3, MemoryTyped DEF Kept, BufEvsKept, Client
  <1> QED  BY <1>1, <1>2, <1>3

LEMMA AssigningMemory ==
  ASSUME Typed, Listed, NEW w \in Workers, VisitAssigns(w), NEW k, k = tailq[frame[w].cur]
  PROVE  /\ BufEvsKept /\ running[w] \in Addr /\ k \in Live /\ k \in Addr
         /\ client[k].state = "COOK_FREE" /\ client'[k].state = "COOK_BUSY"
         /\ client'[k].assigned_client = running[w]
         /\ \A a \in Addr \ {k} : Kept(a)
  <1> DEFINE a == running[w]
             dishes == Takes(k, a)
  <1>1. a \in Addr /\ k \in Live
    BY MemoryTyped, VisitedIsLive DEF VisitAssigns, HandlerStep
  <1>2. k \in Addr
    BY <1>1 DEF Live, Typed, TypeOK
  <1>3. /\ client[k].state = "COOK_FREE"
        /\ client' = [client EXCEPT ![a].menu_items = Assigned(@, dishes),
                                    ![k] = Booked(@, a, dishes)]
    BY DEF VisitAssigns
  <1>4. k # a
    <2>1. Takes(k, a) # {}
      BY DEF VisitAssigns
    <2> QED  BY <2>1 DEF Takes
  <1>5. ASSUME NEW c \in Client
        PROVE  /\ Booked(c, a, dishes).assigned_client = a
               /\ Booked(c, a, dishes).state = "COOK_BUSY"
               /\ Booked(c, a, dishes).buf_ev = c.buf_ev
               /\ [c EXCEPT !.menu_items = Assigned(@, dishes)].state = c.state
               /\ [c EXCEPT !.menu_items = Assigned(@, dishes)].assigned_client = c.assigned_client
               /\ [c EXCEPT !.menu_items = Assigned(@, dishes)].buf_ev = c.buf_ev
    BY DEF Booked, Client
  <1> HIDE DEF a, dishes
  <1>6. client \in [Addr -> Client]
    BY MemoryTyped
  <1>7. client'[k] = Booked(client[k], a, dishes)
    BY <1>1, <1>2, <1>3, <1>4, <1>6
  <1>8. \A b \in Addr \ {k} :
          client'[b] = IF b = a THEN [client[b] EXCEPT !.menu_items = Assigned(@, dishes)]
                       ELSE client[b]
    BY <1>1, <1>2, <1>3, <1>6
  <1>9. /\ client'[k].state = "COOK_BUSY" /\ client'[k].assigned_client = a
        /\ client'[k].buf_ev = client[k].buf_ev
    BY <1>2, <1>5, <1>6, <1>7
  <1>10. \A b \in Addr \ {k} : Kept(b) /\ client'[b].buf_ev = client[b].buf_ev
    BY <1>5, <1>6, <1>8 DEF Kept
  <1> QED  BY <1>1, <1>2, <1>3, <1>9, <1>10 DEF a, BufEvsKept

WritesState(w) == \/ RegCookState(w) \/ OrderEntered(w) \/ VisitSkips(w) \/ VisitAssigns(w)
                  \/ UpdateFreesCook(w)

LEMMA OtherMemory ==
  ASSUME Typed, NEW w \in Workers, HandlerNext(w), ~WritesState(w)
  PROVE  BufEvsKept /\ \A a \in Addr : Kept(a)
  <1>0. client \in [Addr -> Client]
    BY MemoryTyped
  <1>1. ASSUME NEW d \in Dishes, RegCookMenu(w, d)
        PROVE  BufEvsKept /\ \A a \in Addr : Kept(a)
    <2>1. \/ client' = client
          \/ client' = [client EXCEPT ![running[w]].menu_items[d] = "CAPABLE"]
      BY <1>1 DEF RegCookMenu
    <2> QED  BY <1>0, <2>1 DEF BufEvsKept, Kept, Client
  <1>2. ASSUME NEW d \in Dishes, UpdateMarks(w, d)
        PROVE  BufEvsKept /\ \A a \in Addr : Kept(a)
    <2>1. \/ client' = client
          \/ client' = [client EXCEPT ![AssignedClient(w)].menu_items[d] = "COMPLETED"]
      BY <1>2 DEF UpdateMarks
    <2> QED  BY <1>0, <2>1 DEF BufEvsKept, Kept, Client
  <1>3. CASE client' = client
    BY <1>3 DEF BufEvsKept, Kept
  <1> QED
    BY <1>1, <1>2, <1>3
    DEF WritesState, HandlerNext, WorkerTakes, Dispatch, OrderRefused, OrderLocks, OrderUnlocks,
        OrderComplete, OrderIncomplete, OrderReplies, UpdateFinds, UpdateRefused, Scans,
        UpdateScans,
        UpdateReplies

LEMMA HandlerKeepsBufEvs ==
  ASSUME Typed, Listed, NEW w \in Workers, HandlerNext(w)
  PROVE  BufEvsKept
  BY FreeingMemory, EnteringMemory, SkippingMemory, AssigningMemory, OtherMemory DEF WritesState

\* From its dispatch on, a handler stays what it is until it returns.
LEMMA HandlerGoesOn ==
  ASSUME Typed, NEW w \in Workers, HandlerNext(w), ~WorkerTakes(w)
  PROVE  /\ Unread(w)' => Unread(w)
         /\ Registering(w)' => Registering(w) /\ Goes(w)
         /\ Updating(w)' => Updating(w) /\ Goes(w)
         /\ pc'[w] = "reg_menu" => (Registering(w) \/ pc[w] = "reg_menu") /\ Goes(w)
         /\ Registering(w) => Registering(w)' \/ RegCookState(w)
         /\ Updating(w) => Updating(w)' \/ UpdateRefused(w) \/ UpdateFreesCook(w)
         /\ RegCookState(w) => Registering(w) /\ Goes(w) /\ pc'[w] = "reg_menu"
         /\ UpdateRefused(w) \/ UpdateFreesCook(w) => Updating(w) /\ Returns(w) /\ pc'[w] = "idle"
  <1>0. pc \in [Workers -> PC] /\ data' = data
    BY HandlerFrame DEF Typed, TypeOK
  <1>1. CASE Dispatch(w)
    <2>1. /\ pc[w] = "dispatch" /\ Goes(w)
          /\ pc'[w] = HandlerOf[data.type]
      BY <1>0, <1>1 DEF Dispatch, HandlerStep, Goto, Goes
    <2>2. /\ data.type \in {"REG_COOK", "CUST_ORDER", "COOK_UPDATE"}
          /\ HandlerOf["REG_COOK"] = "reg_state" /\ HandlerOf["CUST_ORDER"] = "ord_check"
          /\ HandlerOf["COOK_UPDATE"] = "upd_find"
      BY <2>1, PacketRead DEF HandlerOf
    <2> QED
      BY <1>0, <2>1, <2>2
      DEF Registering, Updating, Unread, RegCookState, UpdateRefused, UpdateFreesCook,
          HandlerStep
  <1>2. CASE ~Dispatch(w)
    <2> USE DEF HandlerStep, Goto, Return, Goes, Returns, Pool!Complete, Registering, Updating,
                Unread
    <2>1. CASE RegCookState(w)
      BY <1>0, <2>1 DEF RegCookState, UpdateRefused, UpdateFreesCook
    <2>2. ASSUME NEW d \in Dishes, RegCookMenu(w, d)
          PROVE  /\ pc[w] = "reg_menu"
                 /\ \/ pc'[w] = "reg_menu" /\ Goes(w)
                    \/ pc'[w] = "idle" /\ Returns(w)
      BY <1>0, <2>2 DEF RegCookMenu
    <2>3. CASE \/ OrderEntered(w) \/ OrderRefused(w) \/ OrderLocks(w) \/ OrderUnlocks(w)
               \/ VisitSkips(w) \/ VisitAssigns(w) \/ OrderComplete(w) \/ OrderIncomplete(w)
               \/ OrderReplies(w)
      <3>1. /\ pc[w] \in {"ord_check", "ord_lock", "ord_visit", "ord_decide", "ord_send"}
            /\ pc'[w] \in {"ord_lock", "ord_visit", "ord_decide", "ord_send", "idle"}
        BY <1>0, <2>3
        DEF OrderEntered, OrderRefused, OrderLocks, OrderUnlocks, VisitSkips, VisitAssigns,
            OrderComplete, OrderIncomplete, OrderReplies
      <3> QED  BY <3>1 DEF RegCookState, UpdateRefused, UpdateFreesCook
    <2>4. CASE UpdateFinds(w) \/ Marks(w) \/ Scans(w) \/ UpdateReplies(w)
      <3>1. /\ pc[w] \in {"upd_find", "upd_mark", "upd_scan", "upd_send"} /\ Goes(w)
            /\ pc'[w] \in {"upd_mark", "upd_scan", "upd_send", "upd_free"}
        BY <1>0, <2>4 DEF UpdateFinds, Marks, UpdateMarks, Scans, UpdateScans, UpdateReplies
      <3> QED  BY <1>0, <2>4, <3>1
               DEF RegCookState, UpdateRefused, UpdateFreesCook, UpdateFinds, Marks,
                   UpdateMarks,
                   Scans, UpdateScans, UpdateReplies
    <2>5. CASE UpdateRefused(w) \/ UpdateFreesCook(w)
      <3>1. /\ pc[w] \in {"upd_find", "upd_free"} /\ pc'[w] = "idle" /\ Returns(w)
        BY <1>0, <2>5 DEF UpdateRefused, UpdateFreesCook
      <3> QED  BY <2>5, <3>1 DEF RegCookState
    <2>6. CASE \E d \in Dishes : RegCookMenu(w, d)
      BY <2>2, <2>6 DEF RegCookState, UpdateRefused, UpdateFreesCook
    <2> QED  BY <1>2, <2>1, <2>3, <2>4, <2>5, <2>6 DEF HandlerNext, Marks, Scans
  <1> QED  BY <1>1, <1>2

\* A thread takes the oldest job to its dispatch.
LEMMA HandlerTakes ==
  ASSUME Typed, NEW w \in Workers, WorkerTakes(w)
  PROVE  /\ pc[w] = "idle" /\ pc'[w] = "dispatch" /\ data' = data
         /\ pending # <<>> /\ running'[w] = Head(pending) /\ pending' = Tail(pending)
         /\ running'[w] \in Addr
  BY DEF Typed, TypeOK, WorkerTakes, HandlerStep, Pool!Take, Pool!PoolTypeOK

LEMMA HandlerServes ==
  ASSUME NEW w \in Workers, HandlerNext(w), ~VisitAssigns(w)
  PROVE  servesFor' = servesFor
  BY DEF HandlerNext, WorkerTakes, Dispatch, RegCookState, RegCookMenu,
     OrderEntered, OrderRefused, OrderLocks, OrderUnlocks, VisitSkips, OrderComplete,
     OrderIncomplete, OrderReplies, UpdateFinds, UpdateRefused, Marks, UpdateMarks, Scans,
     UpdateScans,
     UpdateReplies, UpdateFreesCook, historyVars

-----------------------------------------------------------------------------
(* The parts of the invariant but for the stages.                          *)

\* Steps that change nothing of the server's memory and threads.
Still == UNCHANGED <<memVars, poolVars, historyVars>>

LEMMA StillSteps ==
  /\ \A p \in Peers : PeerNext(p) \/ Kill(p) => Still
  /\ \A w \in Workers : Crash(w) => Still
  /\ UNCHANGED vars => Still
  BY PeerFrame DEF Still, Crash, vars

LEMMA Accepts ==
  ASSUME Memory, NEW p \in Peers, OnAccept(p)
  PROVE  /\ struct_of[p] = NoClient /\ peer[p] # "start"
         /\ UNCHANGED <<peer, toServer, toPeer, data, pending, running, pc, servesFor>>
         /\ \E a \in Addr \ Live :
              /\ struct_of' = [struct_of EXCEPT ![p] = a] /\ struct_of'[p] = a
              /\ client' \in [Addr -> Client]
              /\ client'[a].state = "UNKNOWN" /\ client'[a].buf_ev = p
              /\ \A b \in Addr \ {a} : client'[b] = client[b]
  <1>0. /\ struct_of \in [Peers -> Addr \cup {NoClient}] /\ client \in [Addr -> Client]
    BY DEF Memory, Typed, TypeOK
  <1>1. PICK a \in Addr \ Live :
            /\ client' = [client EXCEPT ![a] = [ZeroClient EXCEPT !.buf_ev = p]]
            /\ struct_of' = [struct_of EXCEPT ![p] = a]
    BY DEF OnAccept
  <1>2. /\ [ZeroClient EXCEPT !.buf_ev = p] \in Client
        /\ [ZeroClient EXCEPT !.buf_ev = p].state = "UNKNOWN"
        /\ [ZeroClient EXCEPT !.buf_ev = p].buf_ev = p
    BY PeersAssumption DEF ZeroClient, Client, UserState, MenuState
  <1>3. /\ struct_of[p] = NoClient /\ peer[p] # "start"
        /\ UNCHANGED <<peer, toServer, toPeer, data, pending, running, pc, servesFor>>
    BY DEF OnAccept, LoopStep, Memory, Listed, netVars, historyVars
  <1> QED  BY <1>0, <1>1, <1>2, <1>3

LEMMA UsedStays ==
  ASSUME Memory, [Next]_vars, NEW a \in Addr, Used(a)
  PROVE  Used(a)'
  <1> DEFINE q == client[a].buf_ev
  <1>0. /\ struct_of \in [Peers -> Addr \cup {NoClient}] /\ client \in [Addr -> Client]
        /\ Typed /\ Listed /\ NoClient \notin Addr
    BY PeersAssumption DEF Memory, Typed, TypeOK
  <1>1. q \in Peers /\ (struct_of[q] = a \/ peer[q] = "exited")
        /\ (peer[q] = "exited" => peer'[q] = "exited")
    BY <1>0, ExitIsFinal DEF Used
  <1>2. CASE Still
    BY <1>1, <1>2 DEF Still, memVars, Used
  <1>3. ASSUME NEW p \in Peers, OnAccept(p)
        PROVE  Used(a)'
    BY <1>0, <1>1, <1>3, Accepts DEF Used
  <1>4. ASSUME NEW p \in Peers, BufferedOnRead(p)
        PROVE  Used(a)'
    BY <1>1, <1>4 DEF BufferedOnRead, Used
  <1>5. ASSUME NEW p \in Peers, BufferedOnError(p)
        PROVE  Used(a)'
    BY <1>0, <1>1, <1>5 DEF BufferedOnError, LoopStep, Used
  <1>6. ASSUME NEW w \in Workers, HandlerNext(w)
        PROVE  Used(a)'
    BY <1>0, <1>1, <1>6, HandlerFrame, HandlerKeepsBufEvs DEF BufEvsKept, Used
  <1> QED  BY <1>2, <1>3, <1>4, <1>5, <1>6, StillSteps DEF Next, LoopNext

LEMMA OwnersNext ==
  ASSUME Memory, Owners, [Next]_vars
  PROVE  Owners'
  <1>0. /\ struct_of \in [Peers -> Addr \cup {NoClient}] /\ client \in [Addr -> Client]
        /\ Typed /\ Listed /\ NoClient \notin Addr
        /\ pending \in Seq(Addr) /\ running \in [Workers -> Addr \cup {NoClient}]
    BY PeersAssumption DEF Memory, Typed, TypeOK, Pool!PoolTypeOK
  <1> DEFINE still == {a \in Addr : Used(a)'}
  <1>1. /\ \A i \in DOMAIN pending : pending[i] \in still
        /\ \A w \in Workers : running[w] # NoClient => running[w] \in still
    BY <1>0, UsedStays DEF Owners
  <1>a. ASSUME \A i \in DOMAIN pending' : pending'[i] \in still,
               \A w \in Workers : running'[w] # NoClient => running'[w] \in still,
               \A q \in Peers : struct_of'[q] # NoClient => client'[struct_of'[q]].buf_ev = q
        PROVE  Owners'
    BY <1>a DEF Owners, Used
  <1> HIDE DEF still
  <1>2. CASE Still
    BY <1>1, <1>2, <1>a DEF Still, memVars, poolVars, Owners
  <1>3. ASSUME NEW p \in Peers, OnAccept(p)
        PROVE  Owners'
    <2>1. \A q \in Peers : struct_of'[q] # NoClient => client'[struct_of'[q]].buf_ev = q
      BY <1>0, <1>3, Accepts DEF Owners, Live
    <2>2. UNCHANGED <<pending, running>>
      BY <1>3, Accepts
    <2> QED  BY <1>1, <1>a, <2>1, <2>2
  <1>4. ASSUME NEW p \in Peers, BufferedOnRead(p)
        PROVE  Owners'
    <2>1. /\ struct_of[p] \in Addr /\ client[struct_of[p]].buf_ev = p
          /\ pending' = Append(pending, struct_of[p])
          /\ UNCHANGED <<client, struct_of, peer, running>>
      BY <1>0, <1>4 DEF BufferedOnRead, LoopStep, Pool!Submit, Owners
    <2>2. struct_of[p] \in still
      BY <1>0, <2>1 DEF Used, still
    <2>3. \A i \in DOMAIN pending' : pending'[i] \in still
      BY <1>0, <1>1, <2>1, <2>2
    <2> QED  BY <1>1, <1>a, <2>1, <2>3 DEF Owners
  <1>5. ASSUME NEW p \in Peers, BufferedOnError(p)
        PROVE  Owners'
    <2>1. \A q \in Peers : struct_of'[q] # NoClient => client'[struct_of'[q]].buf_ev = q
      BY <1>0, <1>5 DEF BufferedOnError, Owners
    <2>2. UNCHANGED <<pending, running>>
      BY <1>5 DEF BufferedOnError
    <2> QED  BY <1>1, <1>a, <2>1, <2>2
  <1>6. ASSUME NEW w \in Workers, HandlerNext(w)
        PROVE  Owners'
    <2>0. \A v \in Workers \ {w} : running'[v] = running[v]
      BY <1>0, <1>6, HandlerPool
    <2>1. \A q \in Peers : struct_of'[q] # NoClient => client'[struct_of'[q]].buf_ev = q
      BY <1>0, <1>6, HandlerFrame, HandlerKeepsBufEvs DEF BufEvsKept, Owners
    <2>2. CASE WorkerTakes(w)
      <3>1. pending # <<>> /\ running'[w] = Head(pending) /\ pending' = Tail(pending)
        BY <1>0, <2>2, HandlerTakes
      <3>2. /\ 1 \in DOMAIN pending /\ Head(pending) = pending[1]
            /\ \A i \in DOMAIN pending' : i + 1 \in DOMAIN pending /\ pending'[i] = pending[i + 1]
        BY <1>0, <3>1
      <3>3. Head(pending) \in still
        BY <1>1, <3>2
      <3>4. \A v \in Workers : running'[v] # NoClient => running'[v] \in still
        BY <1>1, <2>0, <3>1, <3>3
      <3> QED  BY <1>1, <1>a, <2>1, <3>2, <3>4
    <2>3. CASE Goes(w) \/ Returns(w)
      <3>1. pending' = pending /\ \A v \in Workers : running'[v] \in {running[v], NoClient}
        BY <1>0, <2>3 DEF Goes, Returns
      <3> QED  BY <1>1, <1>a, <2>1, <3>1
    <2> QED  BY <1>0, <1>6, <2>2, <2>3, HandlerPool
  <1> QED  BY <1>2, <1>3, <1>4, <1>5, <1>6, StillSteps DEF Next, LoopNext

LEMMA OneUnreadNext ==
  ASSUME Paced, Memory, OneUnread, [Next]_vars
  PROVE  OneUnread'
  <1>0. /\ Typed /\ pending \in Seq(Addr) /\ pc \in [Workers -> PC]
    BY DEF Memory, Typed, TypeOK, Pool!PoolTypeOK
  <1>1. CASE Still
    BY <1>1 DEF Still, poolVars, OneUnread, Unread
  <1>2. ASSUME NEW p \in Peers, OnAccept(p) \/ BufferedOnError(p)
        PROVE  OneUnread'
    BY <1>2 DEF OnAccept, BufferedOnError, LoopStep, OneUnread, Unread
  <1>3. ASSUME NEW p \in Peers, BufferedOnRead(p)
        PROVE  OneUnread'
    <2>1. /\ pending = <<>> /\ pending' = Append(pending, struct_of[p]) /\ pc' = pc
          /\ \A w \in Workers : ~Unread(w)
      BY <1>3 DEF BufferedOnRead, LoopStep, Pool!Submit
    <2>2. Len(pending') = 1
      BY <1>0, <2>1
    <2> QED  BY <2>1, <2>2 DEF OneUnread, Unread
  <1>4. ASSUME NEW w \in Workers, HandlerNext(w)
        PROVE  OneUnread'
    <2>1. \A v \in Workers \ {w} : Unread(v)' <=> Unread(v)
      BY <1>0, <1>4, HandlerPool DEF Unread
    <2>2. CASE WorkerTakes(w)
      <3>1. pending # <<>> /\ pending' = Tail(pending)
        BY <1>0, <2>2, HandlerTakes
      <3>2. Len(pending) = 1 /\ \A v \in Workers : ~Unread(v)
        BY <3>1 DEF OneUnread
      <3>3. pending' = <<>>
        BY <1>0, <3>1, <3>2
      <3> QED  BY <2>1, <3>2, <3>3 DEF OneUnread
    <2>3. CASE ~WorkerTakes(w)
      <3>1. pending' = pending /\ (Unread(w)' => Unread(w))
        BY <1>0, <1>4, <2>3, HandlerPool, HandlerGoesOn DEF Goes, Returns
      <3> QED  BY <2>1, <3>1 DEF OneUnread
    <2> QED  BY <2>2, <2>3
  <1> QED  BY <1>1, <1>2, <1>3, <1>4, StillSteps DEF Next, LoopNext

\* A cook's program does not end.
LEMMA CooksStay ==
  ASSUME EveryCookIsSomewhere, NEW k \in Cooks
  PROVE  peer[k] # "exited"
  BY DEF EveryCookIsSomewhere, At, AtProgram

\* The packets of a cook are the two of its own; those of a customer are orders.
LEMMA WhoSendsWhat ==
  ASSUME Memory, CustomersOrder, NEW p \in Peers, BufferedOnRead(p)
  PROVE  data'.type # "CUST_ORDER" => p \in Cooks
  <1>1. /\ toServer[p] # <<>> /\ data' = Head(toServer[p])
        /\ toServer[p] \in Seq(ServerPacket)
    BY DEF BufferedOnRead, Memory, Typed, TypeOK
  <1>2. 1 \in DOMAIN toServer[p] /\ data' = toServer[p][1]
    BY <1>1
  <1> QED  BY <1>2 DEF CustomersOrder, Peers

LEMMA CookJobsNext ==
  ASSUME Paced, Memory, Kitchen, [Next]_vars
  PROVE  CookJobs'
  <1>0. /\ struct_of \in [Peers -> Addr \cup {NoClient}] /\ NoClient \notin Addr
        /\ Typed /\ Listed /\ OneUnread /\ CookJobs /\ CustomersOrder /\ EveryCookIsSomewhere
        /\ pending \in Seq(Addr) /\ running \in [Workers -> Addr \cup {NoClient}]
        /\ Cooks \subseteq Peers
        /\ pending # <<>> => Head(pending) \in Addr
    BY PeersAssumption DEF Memory, Kitchen, Typed, TypeOK, Pool!PoolTypeOK, Peers
  <1>a. \A w \in Workers : Registering(w) \/ pc[w] = "reg_menu" \/ Updating(w) => running[w] \in Addr
    BY <1>0, MemoryTyped DEF Registering, Updating
  <1>1. CASE Still
    BY <1>0, <1>1 DEF Still, poolVars, memVars, CookJobs, FromCook, Registering, Updating
  <1>2. ASSUME NEW p \in Peers, OnAccept(p) \/ BufferedOnError(p)
        PROVE  CookJobs'
    <2>1. UNCHANGED <<pending, running, pc, data>>
      BY <1>2 DEF OnAccept, BufferedOnError, LoopStep
    <2>2. \A k \in Cooks : struct_of[k] # NoClient => struct_of'[k] = struct_of[k]
      <3>1. CASE OnAccept(p)
        BY <1>0, <3>1, Accepts DEF Memory
      <3>2. CASE BufferedOnError(p)
        <4>1. p \notin Cooks
          BY <1>0, <3>2, CooksStay DEF BufferedOnError
        <4> QED  BY <1>0, <3>2, <4>1 DEF BufferedOnError
      <3> QED  BY <1>2, <3>1, <3>2
    <2>3. pending # <<>> /\ FromCook => \E k \in Cooks : Head(pending) = struct_of'[k]
      BY <1>0, <2>2 DEF CookJobs
    <2>4. \A w \in Workers :
            Registering(w) \/ pc[w] = "reg_menu" \/ Updating(w)
              => \E k \in Cooks : running[w] = struct_of'[k]
      BY <1>0, <1>a, <2>2 DEF CookJobs
    <2> QED  BY <2>1, <2>3, <2>4 DEF CookJobs, FromCook, Registering, Updating
  <1>3. ASSUME NEW p \in Peers, BufferedOnRead(p)
        PROVE  CookJobs'
    <2>1. /\ pending = <<>> /\ pending' = Append(pending, struct_of[p])
          /\ UNCHANGED <<pc, running, struct_of>>
          /\ \A w \in Workers : pc[w] # "dispatch" /\ pc[w] # "reg_state" /\ pc[w] # "reg_menu"
      BY <1>3 DEF BufferedOnRead, LoopStep, Pool!Submit, Unread
    <2>2. Head(pending') = struct_of[p]
      BY <1>0, <2>1
    <2>3. FromCook' => p \in Cooks
      BY <1>0, <1>3, WhoSendsWhat DEF FromCook, Memory
    <2> QED  BY <1>0, <2>1, <2>2, <2>3 DEF CookJobs, Registering, Updating
  <1>4. ASSUME NEW w \in Workers, HandlerNext(w)
        PROVE  CookJobs'
    <2>1. /\ struct_of' = struct_of /\ data' = data
          /\ \A v \in Workers \ {w} : pc'[v] = pc[v] /\ running'[v] = running[v]
      BY <1>0, <1>4, HandlerFrame, HandlerPool
    <2>2. \A v \in Workers \ {w} :
            (Registering(v) \/ pc[v] = "reg_menu" \/ Updating(v))'
              => \E k \in Cooks : running'[v] = struct_of'[k]
      BY <1>0, <2>1 DEF CookJobs, Registering, Updating
    <2>3. CASE WorkerTakes(w)
      <3>1. /\ pc'[w] = "dispatch" /\ pending # <<>> /\ running'[w] = Head(pending)
            /\ pending' = Tail(pending)
        BY <1>0, <2>3, HandlerTakes
      <3>2. pending' = <<>>
        BY <1>0, <3>1 DEF OneUnread
      <3>3. (Registering(w) \/ pc[w] = "reg_menu" \/ Updating(w))' => FromCook
        BY <2>1, <3>1 DEF Registering, Updating, FromCook
      <3>4. FromCook => \E k \in Cooks : running'[w] = struct_of'[k]
        BY <1>0, <2>1, <3>1 DEF CookJobs
      <3> QED  BY <2>2, <3>2, <3>3, <3>4 DEF CookJobs
    <2>4. CASE ~WorkerTakes(w)
      <3>1. pending' = pending
        BY <1>0, <1>4, <2>4, HandlerPool DEF Goes, Returns
      <3>2. (Registering(w) \/ pc[w] = "reg_menu" \/ Updating(w))'
              => (Registering(w) \/ pc[w] = "reg_menu" \/ Updating(w)) /\ running' = running
        BY <1>0, <1>4, <2>4, HandlerGoesOn DEF Goes
      <3>3. (Registering(w) \/ pc[w] = "reg_menu" \/ Updating(w))'
              => \E k \in Cooks : running'[w] = struct_of'[k]
        BY <1>0, <2>1, <3>2 DEF CookJobs
      <3> QED  BY <1>0, <2>1, <2>2, <3>1, <3>3 DEF CookJobs, FromCook
    <2> QED  BY <2>3, <2>4
  <1> QED  BY <1>1, <1>2, <1>3, <1>4, StillSteps DEF Next, LoopNext

\* A cook's handler runs on the struct of that cook and of no other client.
LEMMA CookHandlerOnCook ==
  ASSUME Memory, CookJobs, NEW w \in Workers, Registering(w) \/ Updating(w), NEW p \in Peers,
         struct_of[p] = running[w]
  PROVE  p \in Cooks
  <1>1. PICK k \in Cooks : running[w] = struct_of[k]
    BY DEF CookJobs
  <1>2. running[w] \in Addr
    BY MemoryTyped DEF Memory, Registering, Updating
  <1> QED  BY <1>1, <1>2, PeersAssumption DEF Memory, Listed, OneStructEach, Peers

LEMMA CustomersOrderNext ==
  ASSUME Memory, Kitchen, [Next]_vars
  PROVE  CustomersOrder'
  <1>0. /\ struct_of \in [Peers -> Addr \cup {NoClient}] /\ NoClient \notin Addr
        /\ Typed /\ Listed /\ CookJobs /\ CustomersOrder
        /\ Customers \subseteq Peers /\ Cooks \cap Customers = {}
        /\ toServer \in [Peers -> Seq(ServerPacket)]
        /\ client \in [Addr -> Client]
    BY PeersAssumption DEF Memory, Kitchen, Typed, TypeOK, Peers
  <1> SUFFICES ASSUME NEW c \in Customers
               PROVE  /\ \A i \in DOMAIN toServer'[c] : toServer'[c][i].type = "CUST_ORDER"
                      /\ struct_of'[c] # NoClient => StateOf(c)' \in {"UNKNOWN", "CUSTOMER"}
    BY DEF CustomersOrder
  <1>1. \A i \in DOMAIN toServer'[c] : toServer'[c][i].type = "CUST_ORDER"
    <2>1. CASE toServer'[c] = toServer[c]
      BY <1>0, <2>1 DEF CustomersOrder
    <2>2. ASSUME NEW o \in Orders, toServer' = [toServer EXCEPT ![c] = Append(@, CustOrder(o.items, o.n))]
          PROVE  \A i \in DOMAIN toServer'[c] : toServer'[c][i].type = "CUST_ORDER"
      <3>1. toServer'[c] = Append(toServer[c], CustOrder(o.items, o.n))
        BY <1>0, <2>2
      <3>2. CustOrder(o.items, o.n).type = "CUST_ORDER"
        BY DEF CustOrder
      <3>3. /\ toServer[c] \in Seq(ServerPacket) /\ CustOrder(o.items, o.n) \in ServerPacket
        BY <1>0 DEF ServerPacket
      <3> QED  BY <1>0, <3>1, <3>2, <3>3 DEF CustomersOrder
    <2>3. CASE toServer[c] # <<>> /\ toServer'[c] = Tail(toServer[c])
      <3>1. \A i \in DOMAIN toServer'[c] :
              i + 1 \in DOMAIN toServer[c] /\ toServer'[c][i] = toServer[c][i + 1]
        BY <1>0, <2>3
      <3> QED  BY <1>0, <3>1 DEF CustomersOrder
    <2>4. ASSUME NEW p \in Peers, PeerNext(p) \/ Kill(p)
          PROVE  \/ toServer'[c] = toServer[c]
                 \/ \E o \in Orders :
                      toServer' = [toServer EXCEPT ![c] = Append(@, CustOrder(o.items, o.n))]
      <3>1. CASE p \in Cooks
        <4>1. p # c
          BY <1>0, <3>1
        <4>2. p \notin Customers
          BY <1>0, <3>1
        <4> QED  BY <1>0, <2>4, <4>1, <4>2
                 DEF PeerNext, Kill, Connect, Register, CookReads, CookFinishes, Send, netVars
      <3>2. CASE p \notin Cooks
        BY <1>0, <2>4, <3>2 DEF PeerNext, Kill, Connect, PlaceOrder, CustomerReads, Send,
           netVars
      <3> QED  BY <3>1, <3>2
    <2>5. ASSUME NEW p \in Peers, LoopNext(p)
          PROVE  \/ toServer'[c] = toServer[c]
                 \/ toServer[c] # <<>> /\ toServer'[c] = Tail(toServer[c])
      BY <1>0, <2>5 DEF LoopNext, OnAccept, BufferedOnRead, BufferedOnError, netVars
    <2>6. ASSUME NEW w \in Workers, HandlerNext(w) \/ Crash(w)
          PROVE  toServer' = toServer
      BY <2>6, HandlerFrame DEF Crash, netVars
    <2> QED  BY <2>1, <2>2, <2>3, <2>4, <2>5, <2>6 DEF Next, vars, netVars
  <1>2. ASSUME struct_of'[c] # NoClient
        PROVE  StateOf(c)' \in {"UNKNOWN", "CUSTOMER"}
    <2>1. CASE Still
      BY <1>0, <1>2, <2>1 DEF Still, memVars, CustomersOrder, StateOf
    <2>2. ASSUME NEW p \in Peers, OnAccept(p)
          PROVE  StateOf(c)' \in {"UNKNOWN", "CUSTOMER"}
      BY <1>0, <1>2, <2>2, Accepts DEF Memory, CustomersOrder, StateOf, Live
    <2>3. ASSUME NEW p \in Peers, BufferedOnRead(p) \/ BufferedOnError(p)
          PROVE  StateOf(c)' \in {"UNKNOWN", "CUSTOMER"}
      BY <1>0, <1>2, <2>3 DEF BufferedOnRead, BufferedOnError, CustomersOrder, StateOf
    <2>4. ASSUME NEW w \in Workers, HandlerNext(w)
          PROVE  StateOf(c)' \in {"UNKNOWN", "CUSTOMER"}
      <3> DEFINE a == struct_of[c]
      <3>1. struct_of' = struct_of /\ a \in Addr /\ client[a].state \in {"UNKNOWN", "CUSTOMER"}
        BY <1>0, <1>2, <2>4, HandlerFrame DEF CustomersOrder, StateOf
      <3>2. CASE RegCookState(w) \/ UpdateFreesCook(w)
        <4>1. Registering(w) \/ Updating(w)
          BY <3>2 DEF RegCookState, UpdateFreesCook, HandlerStep, Registering, Updating
        <4>2. running[w] # a
          BY <1>0, <4>1, CookHandlerOnCook DEF Memory
        <4> QED  BY <1>0, <3>1, <3>2, <4>2, FreeingMemory DEF Kept, StateOf
      <3>3. CASE OrderEntered(w)
        BY <1>0, <3>1, <3>3, EnteringMemory DEF Kept, StateOf
      <3>4. CASE VisitSkips(w)
        BY <1>0, <3>1, <3>4, SkippingMemory DEF Kept, StateOf
      <3>5. CASE VisitAssigns(w)
        BY <1>0, <3>1, <3>5, AssigningMemory DEF Kept, StateOf
      <3>6. CASE ~WritesState(w)
        BY <1>0, <2>4, <3>1, <3>6, OtherMemory DEF Kept, StateOf
      <3> QED  BY <3>2, <3>3, <3>4, <3>5, <3>6 DEF WritesState
    <2> QED  BY <2>1, <2>2, <2>3, <2>4, StillSteps DEF Next, LoopNext
  <1> QED  BY <1>1, <1>2

\* Only the end of its peer takes a struct from a connection.
LEMMA StructStays ==
  ASSUME Memory, [Next]_vars, NEW q \in Peers, struct_of[q] # NoClient
  PROVE  struct_of'[q] = struct_of[q] \/ peer[q] = "exited"
  <1>0. struct_of \in [Peers -> Addr \cup {NoClient}]
    BY DEF Memory, Typed, TypeOK
  <1>1. ASSUME NEW p \in Peers, OnAccept(p)
        PROVE  struct_of'[q] = struct_of[q]
    BY <1>0, <1>1, Accepts
  <1>2. ASSUME NEW p \in Peers, BufferedOnError(p)
        PROVE  struct_of'[q] = struct_of[q] \/ peer[q] = "exited"
    BY <1>0, <1>2 DEF BufferedOnError
  <1> QED  BY <1>1, <1>2, ListUnchanged

\* The steps that bring no order to a cook leave its booking good.
LEMMA BookingKept ==
  ASSUME Memory, Kitchen, [Next]_vars, NEW k \in Cooks, struct_of[k] # NoClient,
         StateOf(k) = "COOK_BUSY", struct_of'[k] = struct_of[k], Kept(struct_of[k]),
         servesFor'[k] = servesFor[k]
  PROVE  BookedFor(k)'
  <1> DEFINE q == servesFor[k]
             b == client[struct_of[k]].assigned_client
  <1>1. BookedFor(k)
    BY DEF Kitchen, Bookings
  <1>2. q \in Peers /\ (peer[q] = "exited" \/ struct_of[q] = b)
    BY <1>1 DEF BookedFor
  <1>3. struct_of[k] \in Addr
    BY DEF Memory, Typed, TypeOK, Peers
  <1>4. b # NoClient
    BY <1>3 DEF Memory, BusyHasCustomer, StateOf
  <1>5. peer'[q] = "exited" \/ struct_of'[q] = b
    BY <1>2, <1>4, StructStays, ExitIsFinal DEF Memory
  <1>6. servesFor'[k] = q /\ client'[struct_of'[k]].assigned_client = b
    BY DEF Kept
  <1> QED  BY <1>2, <1>5, <1>6 DEF BookedFor

LEMMA BookingsNext ==
  ASSUME Memory, Kitchen, [Next]_vars
  PROVE  Bookings'
  <1>0. /\ struct_of \in [Peers -> Addr \cup {NoClient}] /\ NoClient \notin Addr
        /\ Typed /\ Listed /\ Owners /\ Cooks \subseteq Peers
        /\ servesFor \in [Peers -> Peers \cup {NoClient}]
    BY PeersAssumption DEF Memory, Kitchen, Typed, TypeOK, Peers
  <1> SUFFICES ASSUME NEW k \in Cooks, struct_of'[k] # NoClient, StateOf(k)' = "COOK_BUSY"
               PROVE  BookedFor(k)'
    BY DEF Bookings
  <1> DEFINE a == struct_of[k]
  <1>1. ASSUME UNCHANGED client, struct_of'[k] = a, servesFor' = servesFor
        PROVE  BookedFor(k)'
    BY <1>1, BookingKept DEF Kept, StateOf
  <1>2. CASE Still
    BY <1>1, <1>2 DEF Still, memVars, historyVars
  <1>3. ASSUME NEW p \in Peers, OnAccept(p)
        PROVE  BookedFor(k)'
    <2>1. PICK b \in Addr \ Live :
              /\ struct_of' = [struct_of EXCEPT ![p] = b]
              /\ client'[b].state = "UNKNOWN"
              /\ \A c \in Addr \ {b} : client'[c] = client[c]
      BY <1>3, Accepts
    <2>2. p # k
      BY <1>0, <2>1 DEF StateOf
    <2>3. a \in Live /\ a \in Addr /\ struct_of'[k] = a
      BY <1>0, <2>1, <2>2 DEF Live
    <2>4. Kept(a) /\ StateOf(k) = "COOK_BUSY" /\ servesFor' = servesFor
      BY <1>3, <2>1, <2>3, Accepts DEF Kept, StateOf
    <2> QED  BY <1>0, <2>3, <2>4, BookingKept
  <1>4. ASSUME NEW p \in Peers, BufferedOnRead(p) \/ BufferedOnError(p)
        PROVE  BookedFor(k)'
    <2>1. UNCHANGED client /\ servesFor' = servesFor
      BY <1>4 DEF BufferedOnRead, BufferedOnError, LoopStep, historyVars
    <2>2. struct_of'[k] = a
      BY <1>0, <1>4 DEF BufferedOnRead, BufferedOnError
    <2> QED  BY <1>1, <2>1, <2>2
  <1>5. ASSUME NEW w \in Workers, HandlerNext(w)
        PROVE  BookedFor(k)'
    <2>1. struct_of' = struct_of /\ a \in Addr /\ a \in Live
      BY <1>0, <1>5, HandlerFrame DEF Live
    <2>2. ASSUME Kept(a), servesFor'[k] = servesFor[k]
          PROVE  BookedFor(k)'
      BY <2>1, <2>2, <1>0, BookingKept DEF Kept, StateOf
    <2>3. client'[a].state = "COOK_BUSY"
      BY <2>1 DEF StateOf
    <2>4. CASE VisitAssigns(w)
      <3> DEFINE b == tailq[frame[w].cur]
      <3>1. /\ running[w] \in Addr /\ b \in Live /\ b \in Addr
            /\ client'[b].assigned_client = running[w]
            /\ \A c \in Addr \ {b} : Kept(c)
        BY <1>0, <2>4, AssigningMemory
      <3>2. servesFor' = [servesFor EXCEPT ![client[b].buf_ev] = client[running[w]].buf_ev]
        BY <2>4 DEF VisitAssigns
      <3>3. PICK q \in Peers : b = struct_of[q] /\ client[b].buf_ev = q
        BY <1>0, <3>1 DEF Live, Owners
      <3> HIDE DEF b
      <3>4. CASE q = k
        <4>1. servesFor'[k] = client[running[w]].buf_ev /\ b = a
          BY <1>0, <3>2, <3>3, <3>4
        <4>2. Used(running[w])
          BY <1>0, <3>1 DEF Owners
        <4>3. peer' = peer
          BY <1>5, HandlerFrame
        <4> QED  BY <2>1, <3>1, <4>1, <4>2, <4>3 DEF Used, BookedFor
      <3>5. CASE q # k
        <4>1. servesFor'[k] = servesFor[k] /\ b # a
          BY <1>0, <3>1, <3>2, <3>3, <3>5, <2>1 DEF Listed, OneStructEach
        <4> QED  BY <2>1, <2>2, <3>1, <4>1
      <3> QED  BY <3>4, <3>5
    <2>5. CASE ~VisitAssigns(w)
      <3>1. servesFor' = servesFor
        BY <1>5, <2>5, HandlerServes
      <3>2. Kept(a)
        BY <1>0, <1>5, <2>1, <2>3, <2>5, FreeingMemory, EnteringMemory, SkippingMemory,
           OtherMemory
        DEF WritesState
      <3> QED  BY <2>2, <3>1, <3>2
    <2> QED  BY <2>4, <2>5
  <1> QED  BY <1>2, <1>3, <1>4, <1>5, StillSteps DEF Next, LoopNext

-----------------------------------------------------------------------------
(* The stages.                                                             *)

\* What leaves a place alone leaves the cook's stage there as it was.
LEMMA PlacesKept ==
  ASSUME Memory, Kitchen, [Next]_vars, NEW k \in Cooks, NEW s \in Stages, At(k, s)
  PROVE  /\ peer'[k] = peer[k] => AtProgram(k, s)'
         /\ toServer'[k] = toServer[k] => AtToServer(k, s)'
         /\ UNCHANGED <<pending, data>> /\ struct_of'[k] = struct_of[k] => AtQueue(k, s)'
         /\ UNCHANGED <<running, pc, data>> /\ struct_of'[k] = struct_of[k] => AtThread(k, s)'
         /\ toPeer'[k] = toPeer[k] => AtToPeer(k, s)'
         /\ struct_of'[k] = struct_of[k] /\ (struct_of[k] # NoClient => StateOf(k)' = StateOf(k))
              => AtStruct(k, s)'
         /\ servesFor'[k] = servesFor[k] => Deserted(k, s)'
  <1>1. peer'[k] = peer[k] => AtProgram(k, s)'
    BY DEF At, AtProgram
  <1>2. toServer'[k] = toServer[k] => AtToServer(k, s)'
    BY DEF At, AtToServer
  <1>3. UNCHANGED <<pending, data>> /\ struct_of'[k] = struct_of[k] => AtQueue(k, s)'
    BY DEF At, AtQueue, Queued, FromCook
  <1>4. UNCHANGED <<running, pc, data>> /\ struct_of'[k] = struct_of[k] => AtThread(k, s)'
    BY DEF At, AtThread, HandledBy, Registering, Updating
  <1>5. toPeer'[k] = toPeer[k] => AtToPeer(k, s)'
    BY DEF At, AtToPeer, IsOrder
  <1>6. struct_of'[k] = struct_of[k] /\ (struct_of[k] # NoClient => StateOf(k)' = StateOf(k))
          => AtStruct(k, s)'
    BY DEF At, AtStruct
  <1>7. ASSUME servesFor'[k] = servesFor[k], s = "deserted"
        PROVE  peer'[servesFor'[k]] = "exited"
    <2>1. struct_of[k] # NoClient /\ StateOf(k) = "COOK_BUSY" /\ peer[servesFor[k]] = "exited"
      BY <1>7 DEF At, AtStruct, Deserted, Unregistered
    <2>2. servesFor[k] \in Peers
      BY <2>1 DEF Kitchen, Bookings, BookedFor
    <2> QED  BY <1>7, <2>1, <2>2, ExitIsFinal DEF Memory
  <1> QED  BY <1>1, <1>2, <1>3, <1>4, <1>5, <1>6, <1>7 DEF Deserted

\* The program of a cook connects, registers, reads and cooks.
LEMMA CookMoves ==
  ASSUME Memory, Kitchen, [Next]_vars, NEW k \in Cooks, PeerNext(k)
  PROVE  \E t \in Stages : At(k, t)'
  <1>0. /\ peer \in [Peers -> PeerState] /\ k \in Peers /\ k \notin Customers
        /\ toServer \in [Peers -> Seq(ServerPacket)] /\ toPeer \in [Peers -> Seq(PeerPacket)]
    BY PeersAssumption DEF Memory, Typed, TypeOK, Peers
  <1>1. UNCHANGED <<pending, data, running, pc, struct_of, client, servesFor>>
    BY <1>0, PeerFrame DEF memVars, poolVars, historyVars
  <1>2. PICK s \in Stages : At(k, s)
    BY DEF Kitchen, EveryCookIsSomewhere
  <1>3. AtQueue(k, s)' /\ AtThread(k, s)' /\ AtStruct(k, s)' /\ Deserted(k, s)'
    BY <1>1, <1>2, PlacesKept DEF StateOf
  <1>4. CASE Connect(k)
    <2>1. /\ s = "out" /\ peer'[k] = "connected"
          /\ toServer' = toServer /\ toPeer' = toPeer
      BY <1>0, <1>2, <1>4 DEF Connect, ClientStep, netVars, At, AtProgram
    <2>2. AtProgram(k, s)'
      BY <2>1 DEF AtProgram
    <2> QED  BY <1>2, <1>3, <2>1, <2>2, PlacesKept DEF At
  <1>5. ASSUME NEW items \in Capabilities, Register(k, items)
        PROVE  At(k, "regSent")'
    <2>1. /\ s = "out" /\ peer'[k] = "reading" /\ toPeer' = toPeer
          /\ toServer[k] = <<>> /\ toServer'[k] = Append(toServer[k], RegCook(items))
      BY <1>0, <1>2, <1>5 DEF Register, ClientStep, Send, At, AtProgram, AtToServer
    <2>2. Len(toServer'[k]) = 1 /\ Head(toServer'[k]).type = "REG_COOK"
      <3>1. RegCook(items).type = "REG_COOK"
        BY DEF RegCook
      <3>2. toServer'[k] = <<RegCook(items)>>
        BY <2>1
      <3> QED  BY <3>1, <3>2
    <2>3. AtProgram(k, "regSent")' /\ AtToServer(k, "regSent")'
      BY <2>1, <2>2 DEF AtProgram, AtToServer
    <2>4. AtToPeer(k, s)'
      BY <1>2, <2>1, PlacesKept
    <2>5. AtQueue(k, "regSent")' /\ AtThread(k, "regSent")' /\ AtToPeer(k, "regSent")'
          /\ AtStruct(k, "regSent")' /\ Deserted(k, "regSent")'
      BY <1>3, <2>1, <2>4 DEF AtQueue, AtThread, AtToPeer, AtStruct, Deserted, Unregistered
    <2> QED  BY <2>3, <2>5 DEF At
  <1>6. CASE CookReads(k)
    <2> DEFINE q == toPeer[k]
    <2>0. /\ q # <<>> /\ peer[k] = "reading"
          /\ peer'[k] = IF Head(q).type = "COOK_ORDER" THEN "cooking" ELSE "reading"
          /\ toPeer'[k] = Tail(q) /\ toServer' = toServer
      BY <1>0, <1>6 DEF CookReads, ClientStep, Receive
    <2>1. /\ Head(q) = q[1] /\ 1 \in DOMAIN q
          /\ \A i \in DOMAIN toPeer'[k] : i + 1 \in DOMAIN q /\ toPeer'[k][i] = q[i + 1]
          /\ \A i \in DOMAIN q \ {1} : i - 1 \in DOMAIN toPeer'[k] /\ toPeer'[k][i - 1] = q[i]
          /\ \A i \in DOMAIN toPeer'[k] : i \in Int /\ i + 1 # 1
          /\ \A i \in DOMAIN q : i \in Int
      BY <1>0, <2>0
    <2>2. AtToServer(k, s)' /\ s \notin {"out", "cooking"}
      BY <1>2, <2>0, PlacesKept DEF At, AtProgram
    <2>3. CASE Head(q).type = "COOK_ORDER"
      <3>1. s = "ordered" /\ \A i \in DOMAIN q : IsOrder(k, i) => i = 1
        BY <1>2, <2>1, <2>3 DEF At, AtToPeer, IsOrder
      <3>2. \A i \in DOMAIN toPeer'[k] : ~IsOrder(k, i)'
        BY <2>1, <3>1 DEF IsOrder
      <3>3. AtProgram(k, "cooking")' /\ AtToPeer(k, "cooking")'
        BY <2>0, <2>3, <3>2 DEF AtProgram, AtToPeer
      <3>4. AtToServer(k, "cooking")' /\ AtQueue(k, "cooking")' /\ AtThread(k, "cooking")'
            /\ AtStruct(k, "cooking")' /\ Deserted(k, "cooking")'
        BY <1>3, <2>2, <3>1 DEF AtToServer, AtQueue, AtThread, AtStruct, Deserted, Unregistered
      <3> QED  BY <3>3, <3>4 DEF At, Stages
    <2>4. CASE Head(q).type # "COOK_ORDER"
      <3>1. \A i \in DOMAIN q : IsOrder(k, i) => i # 1 /\ IsOrder(k, i - 1)'
        BY <2>1, <2>4 DEF IsOrder
      <3>2. \A i \in DOMAIN toPeer'[k] : IsOrder(k, i)' => IsOrder(k, i + 1)
        BY <2>1 DEF IsOrder
      <3>3. /\ s = "ordered" <=> \E i \in DOMAIN q : IsOrder(k, i)
            /\ \A i, j \in DOMAIN q : IsOrder(k, i) /\ IsOrder(k, j) => i = j
        BY <1>2 DEF At, AtToPeer
      <3> HIDE DEF q
      <3>4. s = "ordered" <=> \E i \in DOMAIN toPeer'[k] : IsOrder(k, i)'
        BY <2>1, <3>1, <3>2, <3>3
      <3>5. \A i, j \in DOMAIN toPeer'[k] : IsOrder(k, i)' /\ IsOrder(k, j)' => i = j
        <4> SUFFICES ASSUME NEW i \in DOMAIN toPeer'[k], NEW j \in DOMAIN toPeer'[k],
                            IsOrder(k, i)', IsOrder(k, j)'
                     PROVE  i = j
          OBVIOUS
        <4>1. i + 1 = j + 1
          BY <2>1, <3>2, <3>3
        <4>2. i \in Int /\ j \in Int
          BY <2>1
        <4> QED  BY <4>1, <4>2
      <3>6. AtToPeer(k, s)'
        BY <3>4, <3>5 DEF AtToPeer
      <3>7. AtProgram(k, s)'
        BY <2>0, <2>2, <2>4 DEF AtProgram, q
      <3> QED  BY <1>3, <2>2, <3>6, <3>7 DEF At
    <2> QED  BY <2>3, <2>4
  <1>7. CASE CookFinishes(k)
    <2>1. /\ s = "cooking" /\ peer'[k] = "reading" /\ toPeer' = toPeer
          /\ toServer[k] = <<>> /\ toServer'[k] = Append(toServer[k], CookUpdate)
      BY <1>0, <1>2, <1>7 DEF CookFinishes, ClientStep, Send, At, AtProgram, AtToServer
    <2>2. Len(toServer'[k]) = 1 /\ Head(toServer'[k]).type = "COOK_UPDATE"
      <3>1. CookUpdate.type = "COOK_UPDATE"
        BY DEF CookUpdate
      <3>2. toServer'[k] = <<CookUpdate>>
        BY <2>1
      <3> QED  BY <3>1, <3>2
    <2>3. AtProgram(k, "updSent")' /\ AtToServer(k, "updSent")'
      BY <2>1, <2>2 DEF AtProgram, AtToServer
    <2>4. AtToPeer(k, s)'
      BY <1>2, <2>1, PlacesKept
    <2>5. AtQueue(k, "updSent")' /\ AtThread(k, "updSent")' /\ AtToPeer(k, "updSent")'
          /\ AtStruct(k, "updSent")' /\ Deserted(k, "updSent")'
      BY <1>3, <2>1, <2>4 DEF AtQueue, AtThread, AtToPeer, AtStruct, Deserted, Unregistered
    <2> QED  BY <2>3, <2>5 DEF At, Stages
  <1>8. "regSent" \in Stages
    BY DEF Stages
  <1> QED  BY <1>0, <1>2, <1>4, <1>5, <1>6, <1>7, <1>8 DEF PeerNext

\* The steps of other programs leave the cook where it is.
LEMMA OthersMove ==
  ASSUME Orderly, Memory, Kitchen, [Next]_vars, NEW k \in Cooks, NEW s \in Stages, At(k, s),
         NEW p \in Peers, (PeerNext(p) /\ p # k) \/ Kill(p)
  PROVE  At(k, s)'
  <1>0. /\ peer \in [Peers -> PeerState] /\ k \in Peers
        /\ toServer \in [Peers -> Seq(ServerPacket)] /\ toPeer \in [Peers -> Seq(PeerPacket)]
    BY DEF Memory, Typed, TypeOK, Peers
  <1>1. UNCHANGED <<pending, data, running, pc, struct_of, client, servesFor>>
    BY PeerFrame DEF memVars, poolVars, historyVars
  <1>2. peer'[k] = peer[k] /\ toServer'[k] = toServer[k] /\ toPeer'[k] = toPeer[k]
    <2>1. CASE Kill(p)
      BY <1>0, <2>1 DEF Kill, Orderly, netVars
    <2>2. CASE PeerNext(p) /\ p # k
      BY <1>0, <2>2
      DEF PeerNext, Connect, Register, PlaceOrder, CookReads, CookFinishes, CustomerReads,
          ClientStep, Send, Receive, netVars
    <2> QED  BY <2>1, <2>2
  <1> QED  BY <1>1, <1>2, PlacesKept DEF At, StateOf

\* An accepted connection of a cook gets a struct that no job points at.
LEMMA CookAccepted ==
  ASSUME Memory, Kitchen, [Next]_vars, NEW k \in Cooks, NEW s \in Stages, At(k, s),
         NEW p \in Peers, OnAccept(p)
  PROVE  At(k, s)'
  <1>0. /\ struct_of \in [Peers -> Addr \cup {NoClient}] /\ k \in Peers /\ NoClient \notin Addr
        /\ Cooks \subseteq Peers /\ pending \in Seq(Addr) /\ Typed /\ CookJobs
    BY PeersAssumption DEF Memory, Kitchen, Typed, TypeOK, Peers, Pool!PoolTypeOK
  <1>1. UNCHANGED <<peer, toServer, toPeer, data, pending, running, pc, servesFor>>
    BY <1>0, Accepts
  <1>2. PICK a \in Addr \ Live :
              /\ struct_of' = [struct_of EXCEPT ![p] = a]
              /\ client'[a].state = "UNKNOWN"
              /\ \A b \in Addr \ {a} : client'[b] = client[b]
    BY Accepts
  <1>3. AtProgram(k, s)' /\ AtToServer(k, s)' /\ AtToPeer(k, s)' /\ Deserted(k, s)'
    BY <1>1, PlacesKept
  <1>4. CASE p = k
    <2>1. /\ struct_of[k] = NoClient /\ struct_of'[k] = a
          /\ s \in {"out", "regSent"}
      BY <1>0, <1>2, <1>4, Accepts DEF At, AtStruct
    <2>2. AtStruct(k, s)'
      BY <1>0, <1>2, <2>1 DEF AtStruct, StateOf, Unregistered
    <2>3. \A j \in Cooks : struct_of[j] # a
      BY <1>0, <1>2 DEF Live
    <2>4. ~Queued(k)'
      BY <1>1, <2>1, <2>3, <1>0 DEF CookJobs, Queued, FromCook
    <2>5. \A w \in Workers : ~HandledBy(k, w)'
      BY <1>1, <2>1, <2>3, <1>0 DEF CookJobs, HandledBy, Registering, Updating
    <2>6. AtQueue(k, s)' /\ AtThread(k, s)'
      BY <2>1, <2>4, <2>5 DEF AtQueue, AtThread
    <2> QED  BY <1>3, <2>2, <2>6 DEF At
  <1>5. CASE p # k
    <2>1. struct_of'[k] = struct_of[k]
      BY <1>0, <1>2, <1>5
    <2>2. struct_of[k] # NoClient => StateOf(k)' = StateOf(k)
      BY <1>0, <1>2, <2>1 DEF Live, StateOf
    <2> QED  BY <1>1, <1>3, <2>1, <2>2, PlacesKept DEF At
  <1> QED  BY <1>4, <1>5

\* A packet of a cook that is read waits in the pool's queue, alone.
LEMMA CookRead ==
  ASSUME Paced, Memory, Kitchen, [Next]_vars, NEW k \in Cooks, NEW p \in Peers,
         BufferedOnRead(p)
  PROVE  \E t \in Stages : At(k, t)'
  <1>0. /\ struct_of \in [Peers -> Addr \cup {NoClient}] /\ k \in Peers
        /\ toServer \in [Peers -> Seq(ServerPacket)] /\ pending \in Seq(Addr) /\ Listed
    BY DEF Memory, Typed, TypeOK, Peers, Pool!PoolTypeOK
  <1>1. /\ UNCHANGED <<peer, toPeer, running, pc, struct_of, client, servesFor>>
        /\ toServer[p] # <<>> /\ data' = Head(toServer[p])
        /\ toServer' = [toServer EXCEPT ![p] = Tail(@)]
        /\ pending = <<>> /\ pending' = Append(pending, struct_of[p])
        /\ struct_of[p] # NoClient
        /\ \A w \in Workers : pc[w] \notin {"dispatch", "reg_state"}
    BY DEF BufferedOnRead, LoopStep, Pool!Submit, historyVars, Unread
  <1>2. PICK s \in Stages : At(k, s)
    BY DEF Kitchen, EveryCookIsSomewhere
  <1>3. AtProgram(k, s)' /\ AtToPeer(k, s)' /\ AtStruct(k, s)' /\ Deserted(k, s)'
    BY <1>1, <1>2, PlacesKept DEF StateOf
  <1>4. pending' # <<>> /\ Head(pending') = struct_of[p]
    BY <1>0, <1>1
  <1>5. \A w \in Workers : /\ HandledBy(k, w)' <=> HandledBy(k, w)
                           /\ Updating(w)' <=> Updating(w)
                           /\ ~Registering(w)
    BY <1>1 DEF HandledBy, Registering, Updating
  <1>6. AtThread(k, s)'
    BY <1>2, <1>5 DEF At, AtThread
  <1>7. s \notin {"regQueued", "updQueued"}
    BY <1>1, <1>2 DEF At, AtQueue, Queued
  <1>8. CASE p # k
    <2>1. toServer'[k] = toServer[k] /\ struct_of[k] # struct_of[p]
      BY <1>0, <1>1, <1>8 DEF Listed, OneStructEach
    <2>2. AtToServer(k, s)'
      BY <1>2, <2>1, PlacesKept
    <2>3. AtQueue(k, s)'
      BY <1>1, <1>4, <1>7, <2>1 DEF AtQueue, Queued
    <2> QED  BY <1>2, <1>3, <1>6, <2>2, <2>3 DEF At
  <1>9. CASE p = k
    <2>1. /\ s \in {"regSent", "updSent"} /\ toServer'[k] = <<>>
          /\ data'.type = IF s = "regSent" THEN "REG_COOK" ELSE "COOK_UPDATE"
      <3>1. /\ s \in {"regSent", "updSent"} /\ Len(toServer[k]) = 1
            /\ data'.type = IF s = "regSent" THEN "REG_COOK" ELSE "COOK_UPDATE"
        BY <1>1, <1>2, <1>9 DEF At, AtToServer
      <3>2. toServer'[k] = Tail(toServer[k])
        BY <1>0, <1>1, <1>9
      <3>3. toServer[k] \in Seq(ServerPacket)
        BY <1>0
      <3>4. ASSUME NEW q \in Seq(ServerPacket), Len(q) = 1
            PROVE  Tail(q) = <<>>
        BY <3>4
      <3>5. toServer'[k] = <<>>
        BY <3>1, <3>2, <3>3, <3>4
      <3> QED  BY <3>1, <3>5
    <2>2. Queued(k)'
      BY <1>1, <1>4, <1>9, <2>1 DEF Queued, FromCook
    <2> DEFINE t == IF s = "regSent" THEN "regQueued" ELSE "updQueued"
    <2>3. AtProgram(k, t)' /\ AtToPeer(k, t)' /\ AtStruct(k, t)' /\ Deserted(k, t)' /\ AtThread(k, t)'
      BY <1>1, <1>3, <1>6, <2>1, <1>9
      DEF AtProgram, AtToPeer, AtStruct, Deserted, AtThread, Unregistered
    <2>4. AtToServer(k, t)' /\ AtQueue(k, t)'
      BY <2>1, <2>2 DEF AtToServer, AtQueue
    <2> QED  BY <2>1, <2>3, <2>4 DEF At, Stages
  <1> QED  BY <1>8, <1>9

\* The end of another connection.
LEMMA CookUntouched ==
  ASSUME Memory, Kitchen, [Next]_vars, NEW k \in Cooks, NEW s \in Stages, At(k, s),
         NEW p \in Peers, BufferedOnError(p)
  PROVE  At(k, s)'
  <1>1. p # k /\ k \in Peers
    BY CooksStay DEF BufferedOnError, Kitchen, Peers
  <1>2. /\ UNCHANGED <<peer, toServer, toPeer, data, pending, running, pc, client, servesFor>>
        /\ struct_of'[k] = struct_of[k]
    BY <1>1 DEF BufferedOnError, LoopStep, netVars, historyVars, Memory, Typed, TypeOK
  <1> QED  BY <1>2, PlacesKept DEF At, StateOf

\* A thread takes the cook's packet out of the queue, or another client's.
LEMMA CookTaken ==
  ASSUME Paced, Memory, Kitchen, [Next]_vars, NEW k \in Cooks, NEW w \in Workers, WorkerTakes(w)
  PROVE  \E t \in Stages : At(k, t)'
  <1>0. /\ pending \in Seq(Addr) /\ Typed /\ OneUnread /\ HandlerNext(w)
        /\ running \in [Workers -> Addr \cup {NoClient}]
    BY DEF Memory, Kitchen, Typed, TypeOK, Pool!PoolTypeOK, HandlerNext
  <1>1. /\ UNCHANGED <<peer, toServer, toPeer, data, struct_of, client, servesFor>>
    BY DEF WorkerTakes, HandlerStep, historyVars
  <1>2. /\ pc[w] = "idle" /\ pc'[w] = "dispatch"
        /\ pending # <<>> /\ running'[w] = Head(pending) /\ pending' = Tail(pending)
    BY <1>0, HandlerTakes
  <1>3. pending' = <<>>
    BY <1>0, <1>2 DEF OneUnread
  <1>4. \A v \in Workers \ {w} : pc'[v] = pc[v] /\ running'[v] = running[v]
    BY <1>0, HandlerPool
  <1>5. PICK s \in Stages : At(k, s)
    BY DEF Kitchen, EveryCookIsSomewhere
  <1>6. AtProgram(k, s)' /\ AtToServer(k, s)' /\ AtToPeer(k, s)' /\ AtStruct(k, s)' /\ Deserted(k, s)'
    BY <1>1, <1>5, PlacesKept DEF StateOf
  <1>7. /\ \A v \in Workers \ {w} : /\ HandledBy(k, v)' <=> HandledBy(k, v)
                                    /\ Registering(v)' <=> Registering(v)
                                    /\ Updating(v)' <=> Updating(v)
        /\ ~HandledBy(k, w)
        /\ HandledBy(k, w)' => Queued(k)
        /\ Registering(w)' <=> data.type = "REG_COOK"
        /\ Updating(w)' <=> data.type = "COOK_UPDATE"
    BY <1>1, <1>2, <1>4 DEF HandledBy, Queued, FromCook, Registering, Updating
  <1>8. ~Queued(k)'
    BY <1>3 DEF Queued
  <1>9. CASE Queued(k)
    <2> DEFINE t == IF s = "regQueued" THEN "regHandled" ELSE "updHandled"
    <2>1. /\ s \in {"regQueued", "updQueued"}
          /\ data.type = IF s = "regQueued" THEN "REG_COOK" ELSE "COOK_UPDATE"
          /\ \A v \in Workers : ~HandledBy(k, v)
      BY <1>5, <1>9 DEF At, AtQueue, AtThread
    <2>2. HandledBy(k, w)'
      BY <1>1, <1>2, <1>7, <1>9, <2>1 DEF Queued, HandledBy
    <2>3. AtThread(k, t)'
      BY <1>7, <2>1, <2>2 DEF AtThread
    <2>4. AtQueue(k, t)'
      BY <1>8 DEF AtQueue
    <2>5. AtProgram(k, t)' /\ AtToServer(k, t)' /\ AtToPeer(k, t)' /\ AtStruct(k, t)' /\ Deserted(k, t)'
      BY <1>6, <2>1 DEF AtProgram, AtToServer, AtToPeer, AtStruct, Deserted, Unregistered
    <2> QED  BY <2>3, <2>4, <2>5 DEF At, Stages
  <1>10. CASE ~Queued(k)
    <2>1. AtQueue(k, s)'
      BY <1>5, <1>8, <1>10 DEF At, AtQueue
    <2>2. AtThread(k, s)'
      BY <1>5, <1>7, <1>10 DEF At, AtThread
    <2> QED  BY <1>5, <1>6, <2>1, <2>2 DEF At
  <1> QED  BY <1>9, <1>10

\* What the other handlers send is no order.
LEMMA OnlyTexts ==
  ASSUME NEW w \in Workers, HandlerNext(w), ~VisitAssigns(w)
  PROVE  \/ toPeer' = toPeer
         \/ \E p, text : toPeer' = [toPeer EXCEPT ![p] = Append(@, CustUpdate(text))]
  BY DEF HandlerNext, WorkerTakes, Dispatch, RegCookState, RegCookMenu, OrderEntered,
     OrderRefused, OrderLocks, OrderUnlocks, VisitSkips, OrderComplete, OrderIncomplete,
     OrderReplies, UpdateFinds, UpdateRefused, Marks, UpdateMarks, Scans, UpdateScans,
     UpdateReplies,
     UpdateFreesCook, BuffereventWrite

LEMMA OrdersKept ==
  ASSUME Memory, NEW k \in Cooks, NEW s \in Stages, AtToPeer(k, s),
         NEW w \in Workers, HandlerNext(w), ~VisitAssigns(w)
  PROVE  AtToPeer(k, s)'
  <1>0. toPeer \in [Peers -> Seq(PeerPacket)] /\ k \in Peers
    BY DEF Memory, Typed, TypeOK, Peers
  <1>1. CASE toPeer'[k] = toPeer[k]
    BY <1>1 DEF AtToPeer, IsOrder
  <1>2. ASSUME NEW text, toPeer'[k] = Append(toPeer[k], CustUpdate(text))
        PROVE  AtToPeer(k, s)'
    <2> DEFINE n == Len(toPeer[k])
    <2>1. /\ n \in Nat /\ DOMAIN toPeer[k] = 1..n /\ DOMAIN toPeer'[k] = 1..(n + 1)
          /\ toPeer'[k][n + 1] = CustUpdate(text)
          /\ \A i \in 1..n : toPeer'[k][i] = toPeer[k][i]
      BY <1>0, <1>2
    <2>2. CustUpdate(text).type # "COOK_ORDER"
      BY DEF CustUpdate
    <2>3. \A i \in DOMAIN toPeer'[k] : IsOrder(k, i)' <=> i \in DOMAIN toPeer[k] /\ IsOrder(k, i)
      BY <2>1, <2>2 DEF IsOrder
    <2>4. DOMAIN toPeer[k] \subseteq DOMAIN toPeer'[k]
      BY <2>1
    <2> QED  BY <2>3, <2>4 DEF AtToPeer
  <1>3. toPeer'[k] = toPeer[k] \/ \E text : toPeer'[k] = Append(toPeer[k], CustUpdate(text))
    BY <1>0, OnlyTexts
  <1> QED  BY <1>1, <1>2, <1>3

\* A handler that does not end or register the cook keeps it where it is.
LEMMA HandledOn ==
  ASSUME Memory, Kitchen, NEW k \in Cooks, NEW s \in Stages, AtThread(k, s),
         NEW w \in Workers, HandlerNext(w), ~WorkerTakes(w),
         RegCookState(w) \/ UpdateRefused(w) \/ UpdateFreesCook(w) => running[w] # struct_of[k]
  PROVE  AtThread(k, s)'
  <1>1. /\ struct_of' = struct_of
        /\ \A v \in Workers \ {w} : pc'[v] = pc[v] /\ running'[v] = running[v]
        /\ data' = data
    BY HandlerFrame, HandlerPool DEF Memory
  <1>2. \A v \in Workers \ {w} : /\ HandledBy(k, v)' <=> HandledBy(k, v)
                                 /\ Registering(v)' <=> Registering(v)
                                 /\ Updating(v)' <=> Updating(v)
    BY <1>1 DEF HandledBy, Registering, Updating
  <1>3. /\ Registering(w)' => Registering(w) /\ Goes(w)
        /\ Updating(w)' => Updating(w) /\ Goes(w)
        /\ Registering(w) => Registering(w)' \/ RegCookState(w)
        /\ Updating(w) => Updating(w)' \/ UpdateRefused(w) \/ UpdateFreesCook(w)
    BY HandlerGoesOn DEF Memory
  <1>4. ~(Registering(w) /\ Updating(w)) /\ ~(Registering(w)' /\ Updating(w)')
    BY DEF Registering, Updating
  <1>5. /\ HandledBy(k, w)' <=> HandledBy(k, w)
        /\ HandledBy(k, w) => /\ Registering(w)' <=> Registering(w)
                              /\ Updating(w)' <=> Updating(w)
    BY <1>1, <1>3, <1>4 DEF HandledBy, Goes
  <1> QED  BY <1>2, <1>5 DEF AtThread

\* The handler of the cook's own packet is done with it.
LEMMA HandledNoMore ==
  ASSUME Memory, Kitchen, NEW k \in Cooks, NEW s \in Stages, AtThread(k, s),
         NEW w \in Workers, HandlerNext(w), ~WorkerTakes(w),
         RegCookState(w) \/ UpdateRefused(w) \/ UpdateFreesCook(w), running[w] = struct_of[k]
  PROVE  /\ s = IF RegCookState(w) THEN "regHandled" ELSE "updHandled"
         /\ \A v \in Workers : ~HandledBy(k, v)'
  <1>1. /\ struct_of' = struct_of
        /\ \A v \in Workers \ {w} : pc'[v] = pc[v] /\ running'[v] = running[v]
        /\ data' = data
    BY HandlerFrame, HandlerPool DEF Memory
  <1>2. /\ RegCookState(w) => Registering(w) /\ pc'[w] = "reg_menu"
        /\ UpdateRefused(w) \/ UpdateFreesCook(w) => Updating(w) /\ pc'[w] = "idle"
    BY HandlerGoesOn DEF Memory
  <1>3. HandledBy(k, w) /\ ~(Registering(w) /\ Updating(w))
    BY <1>2 DEF HandledBy, Registering, Updating
  <1>4. ~HandledBy(k, w)'
    BY <1>2 DEF HandledBy, Registering, Updating
  <1>5. \A v \in Workers \ {w} : ~HandledBy(k, v) /\ (HandledBy(k, v)' <=> HandledBy(k, v))
    BY <1>1, <1>3 DEF AtThread, HandledBy, Registering, Updating
  <1> QED  BY <1>2, <1>3, <1>4, <1>5 DEF AtThread

\* An update is refused only when the cook's customer has gone.
LEMMA RefusalIsDesertion ==
  ASSUME Memory, Kitchen, NEW k \in Cooks, struct_of[k] # NoClient, StateOf(k) = "COOK_BUSY",
         NEW w \in Workers, UpdateRefused(w), running[w] = struct_of[k]
  PROVE  peer[servesFor[k]] = "exited"
  <1> DEFINE q == servesFor[k]
  <1>1. q \in Peers /\ (peer[q] = "exited" \/ struct_of[q] = AssignedClient(w))
    BY DEF Kitchen, Bookings, BookedFor, AssignedClient
  <1>2. struct_of[k] \in Addr
    BY DEF Memory, Typed, TypeOK, Peers
  <1>3. AssignedClient(w) # NoClient
    BY <1>2 DEF Memory, BusyHasCustomer, AssignedClient, StateOf
  <1>4. AssignedClient(w) \notin Live
    BY DEF UpdateRefused, Memory, Listed
  <1> QED  BY <1>1, <1>3, <1>4 DEF Live

\* A handler's order reaches the cook whose struct it visits and no other.
LEMMA OrderReaches ==
  ASSUME Memory, Kitchen, NEW k \in Cooks, NEW w \in Workers, VisitAssigns(w)
  PROVE  \/ /\ struct_of[k] = tailq[frame[w].cur]
            /\ \E dishes : toPeer'[k] = Append(toPeer[k], CookOrder(dishes))
         \/ /\ struct_of[k] # tailq[frame[w].cur]
            /\ toPeer'[k] = toPeer[k] /\ servesFor'[k] = servesFor[k]
  <1> DEFINE b == tailq[frame[w].cur]
  <1>0. /\ toPeer \in [Peers -> Seq(PeerPacket)] /\ k \in Peers
        /\ servesFor \in [Peers -> Peers \cup {NoClient}] /\ Typed /\ Listed /\ Owners
    BY DEF Memory, Kitchen, Typed, TypeOK, Peers
  <1>1. b \in Live
    BY <1>0, AssigningMemory
  <1>2. PICK dishes :
          /\ toPeer' = [toPeer EXCEPT ![client[b].buf_ev] = Append(@, CookOrder(dishes))]
          /\ servesFor' = [servesFor EXCEPT ![client[b].buf_ev] = client[running[w]].buf_ev]
    BY DEF VisitAssigns, BuffereventWrite
  <1>3. PICK q \in Peers : b = struct_of[q] /\ client[b].buf_ev = q /\ b # NoClient
    BY <1>0, <1>1 DEF Live, Owners
  <1> HIDE DEF b
  <1>4. CASE q = k
    BY <1>0, <1>2, <1>3, <1>4 DEF b
  <1>5. CASE q # k
    <2>1. struct_of[k] # b
      BY <1>0, <1>3, <1>5 DEF Listed, OneStructEach
    <2> QED  BY <1>0, <1>2, <1>3, <1>5, <2>1 DEF b
  <1> QED  BY <1>4, <1>5

\* A free cook's first order.
LEMMA CookOrdered ==
  ASSUME Memory, Kitchen, NEW k \in Cooks, NEW s \in Stages, AtToPeer(k, s), s = "free",
         NEW dishes, toPeer'[k] = Append(toPeer[k], CookOrder(dishes))
  PROVE  AtToPeer(k, "ordered")'
  <1> DEFINE n == Len(toPeer[k])
  <1>1. toPeer[k] \in Seq(PeerPacket)
    BY DEF Memory, Typed, TypeOK, Peers
  <1>2. /\ n \in Nat /\ DOMAIN toPeer[k] = 1..n /\ DOMAIN toPeer'[k] = 1..(n + 1)
        /\ toPeer'[k][n + 1] = CookOrder(dishes)
        /\ \A i \in 1..n : toPeer'[k][i] = toPeer[k][i]
    BY <1>1
  <1>3. CookOrder(dishes).type = "COOK_ORDER"
    BY DEF CookOrder
  <1>4. \A i \in DOMAIN toPeer'[k] : IsOrder(k, i)' <=> i = n + 1
    BY <1>2, <1>3 DEF IsOrder, AtToPeer
  <1>5. n + 1 \in DOMAIN toPeer'[k]
    BY <1>2
  <1> QED  BY <1>4, <1>5 DEF AtToPeer

LEMMA CookHandled ==
  ASSUME Memory, Kitchen, [Next]_vars, NEW k \in Cooks, NEW w \in Workers, HandlerNext(w),
         ~WorkerTakes(w)
  PROVE  \E t \in Stages : At(k, t)'
  <1> DEFINE a == struct_of[k]
  <1>0. /\ Typed /\ Listed /\ NoClient \notin Addr /\ k \in Peers
        /\ struct_of \in [Peers -> Addr \cup {NoClient}]
    BY PeersAssumption DEF Memory, Typed, TypeOK, Peers
  <1>1. UNCHANGED <<peer, toServer, data, struct_of, pending>>
    BY <1>0, HandlerFrame, HandlerPool DEF Goes, Returns
  <1>2. PICK s \in Stages : At(k, s)
    BY DEF Kitchen, EveryCookIsSomewhere
  <1>3. AtProgram(k, s)' /\ AtToServer(k, s)' /\ AtQueue(k, s)'
    BY <1>1, <1>2, PlacesKept
  <1>4. a # NoClient => a \in Addr /\ a \in Live
    BY <1>0 DEF Live
  <1>5. ASSUME ~VisitAssigns(w)
        PROVE  AtToPeer(k, s)' /\ servesFor' = servesFor /\ Deserted(k, s)'
    BY <1>2, <1>5, OrdersKept, HandlerServes, PlacesKept DEF At
  <1>6. CASE (RegCookState(w) \/ UpdateRefused(w) \/ UpdateFreesCook(w)) /\ running[w] = a
    <2>0. ~VisitAssigns(w)
      BY <1>6 DEF RegCookState, UpdateRefused, UpdateFreesCook, VisitAssigns, HandlerStep
    <2>1. /\ s = IF RegCookState(w) THEN "regHandled" ELSE "updHandled"
          /\ \A v \in Workers : ~HandledBy(k, v)'
      BY <1>2, <1>6, HandledNoMore DEF At
    <2>2. a \in Addr /\ a # NoClient
      BY <1>0, <1>6, MemoryTyped DEF RegCookState, UpdateRefused, UpdateFreesCook, HandlerStep
    <2>3. CASE UpdateRefused(w)
      <3>1. s = "updHandled"
        BY <2>1, <2>3 DEF RegCookState, UpdateRefused, HandlerStep
      <3>2. StateOf(k) = "COOK_BUSY"
        BY <1>2, <2>2, <3>1 DEF At, AtStruct, Unregistered
      <3>3. peer'[servesFor'[k]] = "exited"
        BY <1>1, <1>5, <1>6, <2>0, <2>2, <2>3, <3>2, RefusalIsDesertion
      <3>4. StateOf(k)' = StateOf(k)
        BY <1>1, <2>3 DEF UpdateRefused, StateOf
      <3>5. AtThread(k, "deserted")' /\ AtStruct(k, "deserted")' /\ Deserted(k, "deserted")'
        BY <1>1, <2>1, <2>2, <3>2, <3>3, <3>4 DEF AtThread, AtStruct, Deserted, Unregistered
      <3>6. AtProgram(k, "deserted")' /\ AtToServer(k, "deserted")' /\ AtQueue(k, "deserted")'
            /\ AtToPeer(k, "deserted")'
        BY <1>3, <1>5, <2>0, <3>1 DEF AtProgram, AtToServer, AtQueue, AtToPeer
      <3> QED  BY <3>5, <3>6 DEF At, Stages
    <2>4. CASE RegCookState(w) \/ UpdateFreesCook(w)
      <3>1. s \in {"regHandled", "updHandled"}
        BY <2>1
      <3>2. StateOf(k)' = "COOK_FREE"
        BY <1>0, <1>1, <1>6, <2>4, FreeingMemory DEF StateOf
      <3>3. AtThread(k, "free")' /\ AtStruct(k, "free")' /\ Deserted(k, "free")'
        BY <1>1, <2>1, <2>2, <3>2 DEF AtThread, AtStruct, Deserted
      <3>4. AtProgram(k, "free")' /\ AtToServer(k, "free")' /\ AtQueue(k, "free")'
            /\ AtToPeer(k, "free")'
        BY <1>3, <1>5, <2>0, <3>1 DEF AtProgram, AtToServer, AtQueue, AtToPeer
      <3> QED  BY <3>3, <3>4 DEF At, Stages
    <2> QED  BY <1>6, <2>3, <2>4
  <1>7. CASE RegCookState(w) \/ UpdateRefused(w) \/ UpdateFreesCook(w) => running[w] # a
    <2>1. AtThread(k, s)'
      BY <1>2, <1>7, HandledOn DEF At
    <2>2. ASSUME ~VisitAssigns(w), AtStruct(k, s)'
          PROVE  At(k, s)'
      BY <1>3, <1>5, <2>1, <2>2 DEF At
    <2>3. ASSUME a # NoClient => StateOf(k)' = StateOf(k)
          PROVE  AtStruct(k, s)'
      BY <1>1, <1>2, <2>3, PlacesKept
    <2>4. CASE RegCookState(w) \/ UpdateFreesCook(w)
      <3>1. a # NoClient => StateOf(k)' = StateOf(k)
        BY <1>0, <1>1, <1>4, <1>7, <2>4, FreeingMemory DEF Kept, StateOf
      <3>2. ~VisitAssigns(w)
        BY <2>4 DEF RegCookState, UpdateFreesCook, VisitAssigns, HandlerStep
      <3> QED  BY <1>2, <2>2, <2>3, <3>1, <3>2
    <2>5. CASE OrderEntered(w)
      <3>1. ~VisitAssigns(w)
        BY <2>5 DEF OrderEntered, VisitAssigns, HandlerStep
      <3>2. CASE running[w] = a
        <4>1. /\ a # NoClient /\ StateOf(k) \in {"UNKNOWN", "CUSTOMER"}
              /\ StateOf(k)' = "CUSTOMER"
          BY <1>0, <1>1, <1>4, <2>5, <3>2, EnteringMemory DEF StateOf
        <4>2. AtStruct(k, s)'
          BY <1>1, <1>2, <4>1 DEF At, AtStruct
        <4> QED  BY <1>2, <2>2, <3>1, <4>2
      <3>3. CASE running[w] # a
        <4>1. a # NoClient => StateOf(k)' = StateOf(k)
          BY <1>0, <1>1, <1>4, <2>5, <3>3, EnteringMemory DEF Kept, StateOf
        <4> QED  BY <1>2, <2>2, <2>3, <3>1, <4>1
      <3> QED  BY <3>2, <3>3
    <2>6. CASE VisitSkips(w)
      <3>1. a # NoClient => StateOf(k)' = StateOf(k)
        BY <1>0, <1>1, <1>4, <2>6, SkippingMemory DEF StateOf
      <3>2. ~VisitAssigns(w)
        BY <2>6 DEF VisitSkips, VisitAssigns
      <3> QED  BY <1>2, <2>2, <2>3, <3>1, <3>2
    <2>7. CASE VisitAssigns(w)
      <3> DEFINE b == tailq[frame[w].cur]
      <3>1. /\ b \in Addr /\ b \in Live
            /\ client[b].state = "COOK_FREE" /\ client'[b].state = "COOK_BUSY"
            /\ \A c \in Addr \ {b} : Kept(c)
        BY <1>0, <2>7, AssigningMemory
      <3>2. \/ a = b /\ \E dishes : toPeer'[k] = Append(toPeer[k], CookOrder(dishes))
            \/ a # b /\ toPeer'[k] = toPeer[k] /\ servesFor'[k] = servesFor[k]
        BY <2>7, OrderReaches
      <3> HIDE DEF b
      <3>3. CASE a = b /\ \E dishes : toPeer'[k] = Append(toPeer[k], CookOrder(dishes))
        <4>1. a # NoClient /\ StateOf(k) = "COOK_FREE" /\ StateOf(k)' = "COOK_BUSY"
          BY <1>0, <1>1, <3>1, <3>3 DEF StateOf
        <4>2. s = "free"
          BY <1>2, <4>1 DEF At, AtStruct
        <4>3. AtToPeer(k, "ordered")'
          BY <1>2, <3>3, <4>2, CookOrdered DEF At
        <4>4. AtStruct(k, "ordered")' /\ Deserted(k, "ordered")'
          BY <1>1, <4>1 DEF AtStruct, Deserted, Unregistered
        <4>5. AtProgram(k, "ordered")' /\ AtToServer(k, "ordered")' /\ AtQueue(k, "ordered")'
              /\ AtThread(k, "ordered")'
          BY <1>3, <2>1, <4>2 DEF AtProgram, AtToServer, AtQueue, AtThread
        <4> QED  BY <4>3, <4>4, <4>5 DEF At, Stages
      <3>4. CASE a # b /\ toPeer'[k] = toPeer[k] /\ servesFor'[k] = servesFor[k]
        <4>1. a # NoClient => StateOf(k)' = StateOf(k)
          BY <1>1, <1>4, <3>1, <3>4 DEF Kept, StateOf
        <4>2. AtToPeer(k, s)' /\ Deserted(k, s)'
          BY <1>2, <3>4, PlacesKept
        <4> QED  BY <1>2, <1>3, <2>1, <2>3, <4>1, <4>2 DEF At
      <3> QED  BY <3>2, <3>3, <3>4
    <2>8. CASE ~WritesState(w)
      <3>1. a # NoClient => StateOf(k)' = StateOf(k)
        BY <1>0, <1>1, <1>4, <2>8, OtherMemory DEF Kept, StateOf
      <3>2. ~VisitAssigns(w)
        BY <2>8 DEF WritesState
      <3> QED  BY <1>2, <2>2, <2>3, <3>1, <3>2
    <2> QED  BY <2>4, <2>5, <2>6, <2>7, <2>8 DEF WritesState
  <1> QED  BY <1>6, <1>7

LEMMA StagesNext ==
  ASSUME Orderly, Memory, Kitchen, [Next]_vars
  PROVE  EveryCookIsSomewhere'
  <1> SUFFICES ASSUME NEW k \in Cooks
               PROVE  \E t \in Stages : At(k, t)'
    BY DEF EveryCookIsSomewhere
  <1>0. PICK s \in Stages : At(k, s)
    BY DEF Kitchen, EveryCookIsSomewhere
  <1>1. ASSUME NEW p \in Peers, PeerNext(p) \/ Kill(p)
        PROVE  \E t \in Stages : At(k, t)'
    BY <1>0, <1>1, CookMoves, OthersMove
  <1>2. ASSUME NEW p \in Peers, LoopNext(p)
        PROVE  \E t \in Stages : At(k, t)'
    BY <1>0, <1>2, CookAccepted, CookRead, CookUntouched DEF LoopNext, Orderly
  <1>3. ASSUME NEW w \in Workers, HandlerNext(w)
        PROVE  \E t \in Stages : At(k, t)'
    BY <1>3, CookTaken, CookHandled DEF Orderly
  <1>4. CASE UNCHANGED vars \/ \E w \in Workers : Crash(w)
    <2>1. UNCHANGED <<peer, netVars, memVars, poolVars, historyVars>>
      BY <1>4 DEF vars, Crash
    <2> QED  BY <1>0, <2>1, PlacesKept DEF At, StateOf, netVars, memVars, poolVars, historyVars
  <1> QED  BY <1>1, <1>2, <1>3, <1>4 DEF Next

-----------------------------------------------------------------------------
(* The theorems.                                                           *)

LEMMA KitchenInit ==
  ASSUME Init
  PROVE  Memory /\ Kitchen
  <1>0. Cooks \subseteq Peers /\ Customers \subseteq Peers
    BY DEF Peers
  <1>1. Memory
    BY MemoryInit DEF Memory, BusyHasCustomer, Init, ZeroClient
  <1>2. OneUnread /\ CookJobs
    BY DEF Init, Pool!PoolInit, OneUnread, Unread, CookJobs, Registering, Updating
  <1>3. CustomersOrder /\ Owners /\ Bookings
    BY <1>0 DEF Init, Pool!PoolInit, CustomersOrder, Owners, Bookings
  <1>4. ASSUME NEW k \in Cooks
        PROVE  At(k, "out")
    <2>1. AtProgram(k, "out") /\ AtToServer(k, "out") /\ AtToPeer(k, "out")
          /\ AtStruct(k, "out") /\ Deserted(k, "out")
      BY <1>0 DEF Init, AtProgram, AtToServer, AtToPeer, AtStruct, Deserted
    <2>2. AtQueue(k, "out") /\ AtThread(k, "out")
      BY DEF Init, Pool!PoolInit, AtQueue, AtThread, Queued, HandledBy, Registering, Updating
    <2> QED  BY <2>1, <2>2 DEF At
  <1> QED  BY <1>1, <1>2, <1>3, <1>4 DEF Kitchen, EveryCookIsSomewhere, Stages

LEMMA KitchenNext ==
  ASSUME Orderly, Memory, Kitchen, [Next]_vars
  PROVE  Memory' /\ Kitchen'
  <1>1. Memory'
    BY MemoryNext, BusyNext DEF Memory
  <1>2. OneUnread' /\ CookJobs' /\ CustomersOrder' /\ Owners' /\ Bookings'
    BY OneUnreadNext, CookJobsNext, CustomersOrderNext, OwnersNext, BookingsNext
    DEF Orderly, Kitchen
  <1> QED  BY <1>1, <1>2, StagesNext DEF Kitchen

LEMMA KitchenInvariant ==
  ASSUME Orderly
  PROVE  Spec => [](Memory /\ Kitchen)
  <1>1. Init => Memory /\ Kitchen
    BY KitchenInit
  <1>2. Memory /\ Kitchen /\ [Next]_vars => (Memory /\ Kitchen)'
    BY KitchenNext
  <1> QED  BY <1>1, <1>2, PTL DEF Spec

\* The counts of NoDoubleBooking, by stages: a cook owes the server one thing
\* from the order that it is sent to the update that is handled.
Owing == {"ordered", "cooking", "updSent", "updQueued", "updHandled"}

LEMMA CardinalityOfOne ==
  ASSUME NEW S, \A x, y \in S : x = y
  PROVE  /\ S = {} => Cardinality(S) = 0
         /\ S # {} => Cardinality(S) = 1
  <1>1. CASE S = {}
    BY <1>1, FS_EmptySet
  <1>2. CASE S # {}
    <2>1. PICK x : x \in S
      BY <1>2
    <2>2. S = {x}
      BY <2>1
    <2> QED  BY <1>2, <2>2, FS_Singleton
  <1> QED  BY <1>1, <1>2

LEMMA WhatACookOwes ==
  ASSUME Memory, Kitchen, NEW k \in Cooks, NEW s \in Stages, At(k, s), struct_of[k] # NoClient
  PROVE  Outstanding(k) = IF s \in Owing THEN 1 ELSE 0
  <1>0. /\ toServer[k] \in Seq(ServerPacket) /\ pending \in Seq(Addr)
    BY DEF Memory, Typed, TypeOK, Peers, Pool!PoolTypeOK
  <1>1. OrdersSent(k) = IF s = "ordered" THEN 1 ELSE 0
    <2> DEFINE S == {i \in DOMAIN toPeer[k] : toPeer[k][i].type = "COOK_ORDER"}
    <2>1. /\ \A i, j \in S : i = j
          /\ S # {} <=> s = "ordered"
      BY DEF At, AtToPeer, IsOrder
    <2> HIDE DEF S
    <2>2. Cardinality(S) = IF s = "ordered" THEN 1 ELSE 0
      BY <2>1, CardinalityOfOne
    <2> QED  BY <2>2 DEF OrdersSent, S
  <1>2. UpdatesSent(k) = IF s = "updSent" THEN 1 ELSE 0
    <2> DEFINE S == {i \in DOMAIN toServer[k] : toServer[k][i].type = "COOK_UPDATE"}
    <2>1. DOMAIN toServer[k] = IF s \in {"regSent", "updSent"} THEN {1} ELSE {}
      BY <1>0 DEF At, AtToServer
    <2>2. s \in {"regSent", "updSent"} =>
            toServer[k][1].type = IF s = "regSent" THEN "REG_COOK" ELSE "COOK_UPDATE"
      BY <1>0 DEF At, AtToServer
    <2>3. S = IF s = "updSent" THEN {1} ELSE {}
      BY <2>1, <2>2
    <2> HIDE DEF S
    <2>4. Cardinality(S) = IF s = "updSent" THEN 1 ELSE 0
      BY <2>3, FS_EmptySet, FS_Singleton
    <2> QED  BY <2>4 DEF UpdatesSent, S
  <1>3. UpdatesQueued(k) = IF s = "updQueued" THEN 1 ELSE 0
    <2> DEFINE S == {i \in DOMAIN pending : pending[i] = struct_of[k]}
    <2>1. DOMAIN pending = IF pending = <<>> THEN {} ELSE {1}
      BY <1>0 DEF Kitchen, OneUnread
    <2>2. pending # <<>> => Head(pending) = pending[1]
      BY <1>0
    <2>3. s = "updQueued" <=> data.type = "COOK_UPDATE" /\ S # {}
      BY <2>1, <2>2 DEF At, AtQueue, Queued, FromCook
    <2>4. \A i, j \in S : i = j
      BY <2>1
    <2> HIDE DEF S
    <2>5. /\ S = {} => Cardinality(S) = 0
          /\ S # {} => Cardinality(S) = 1
      BY <2>4, CardinalityOfOne
    <2> QED  BY <2>3, <2>5 DEF UpdatesQueued, S
  <1>4. UpdatesHandled(k) = IF s = "updHandled" THEN 1 ELSE 0
    <2> DEFINE S == {w \in Workers : running[w] = struct_of[k] /\ Updating(w)}
    <2>1. \A w \in Workers : ~(Registering(w) /\ Updating(w))
      BY DEF Registering, Updating
    <2>2. /\ \A v, w \in S : v = w
          /\ S # {} <=> s = "updHandled"
      BY <2>1 DEF At, AtThread, HandledBy
    <2> HIDE DEF S
    <2>3. Cardinality(S) = IF s = "updHandled" THEN 1 ELSE 0
      BY <2>2, CardinalityOfOne
    <2> QED  BY <2>3 DEF UpdatesHandled, S
  <1>5. peer[k] = "cooking" <=> s = "cooking"
    BY DEF At, AtProgram
  <1> QED  BY <1>1, <1>2, <1>3, <1>4, <1>5 DEF Outstanding, Owing

\* A cook that is connected owes the server at most one update, and is busy in
\* the server's memory from the order until that update is handled.
THEOREM OneOrderAtATime ==
  ASSUME Orderly
  PROVE  Spec => []NoDoubleBooking
  <1>1. ASSUME Memory, Kitchen, NEW k \in Cooks, Connected(k)
        PROVE  Outstanding(k) <= 1 /\ (Outstanding(k) = 1 => StateOf(k) = "COOK_BUSY")
    <2>1. PICK s \in Stages : At(k, s)
      BY <1>1 DEF Kitchen, EveryCookIsSomewhere
    <2>2. Outstanding(k) = IF s \in Owing THEN 1 ELSE 0
      BY <1>1, <2>1, WhatACookOwes DEF Connected
    <2>3. s \in Owing => StateOf(k) = "COOK_BUSY"
      BY <1>1, <2>1 DEF At, AtStruct, Owing, Unregistered, Connected
    <2> QED  BY <2>2, <2>3
  <1>2. Memory /\ Kitchen => NoDoubleBooking
    BY <1>1 DEF NoDoubleBooking
  <1> QED  BY <1>2, KitchenInvariant, PTL

\* A cook that is busy and owes nothing was left by its customer: the server
\* loses a cook in no other way.
THEOREM OnlyDesertedCooksIdle ==
  ASSUME Orderly
  PROVE  Spec => []IdleBusyCookWasDeserted
  <1>1. ASSUME Memory, Kitchen, NEW k \in Cooks, Connected(k), StateOf(k) = "COOK_BUSY",
               Outstanding(k) = 0
        PROVE  peer[servesFor[k]] = "exited"
    <2>1. PICK s \in Stages : At(k, s)
      BY <1>1 DEF Kitchen, EveryCookIsSomewhere
    <2>2. s \notin Owing
      BY <1>1, <2>1, WhatACookOwes DEF Connected
    <2>3. s \notin Unregistered \cup {"free"}
      BY <1>1, <2>1 DEF At, AtStruct, Connected
    <2>4. s = "deserted"
      BY <2>2, <2>3 DEF Owing, Unregistered, Stages
    <2> QED  BY <2>1, <2>4 DEF At, Deserted
  <1>2. Memory /\ Kitchen => IdleBusyCookWasDeserted
    BY <1>1 DEF IdleBusyCookWasDeserted
  <1> QED  BY <1>2, KitchenInvariant, PTL
=============================================================================
