---------------------------- MODULE MCFoodServer ----------------------------
(* FoodServer on a handful of clients.                                     *)
EXTENDS FoodServer, TLC

AnyMenu == SUBSET Dishes
OneOrAll == {{CHOOSE d \in Dishes : TRUE}, Dishes}
EveryDish == {Dishes}

\* A bound on the runs that need two customers only one after the other.
OneCustomerAtATime ==
  Cardinality({c \in Customers : peer[c] \notin {"start", "exited"}}) <= 1

\* Clients of a kind, threads, addresses and dishes are interchangeable.
Symmetry ==
  Permutations(Cooks) \cup Permutations(Customers \ Mortal) \cup Permutations(Workers)
    \cup Permutations(Addr) \cup Permutations(Dishes)
Alike == Permutations(Workers) \cup Permutations(Customers \ Mortal)

\* Where the runs of liveness start, which symmetry cannot shorten: each cook
\* has registered one of the menus, and its job is done.
Menus == [Cooks -> Capabilities]
Places == CHOOSE at \in [Cooks -> Addr] : \A j, k \in Cooks : at[j] = at[k] => j = k
Queue == CHOOSE q \in [1..Cardinality(Cooks) -> {Places[k] : k \in Cooks}] :
           \A i, j \in DOMAIN q : q[i] = q[j] => i = j

RegisteredCook(k, items) ==
  [ZeroClient EXCEPT !.state = "COOK_FREE", !.buf_ev = k,
     !.menu_items = [d \in Dishes |-> IF d \in items THEN "CAPABLE" ELSE "UNDEFINED"]]

KitchenOpen(menu) ==
  /\ peer = [p \in Peers |-> IF p \in Cooks THEN "reading" ELSE "start"]
  /\ toServer = [p \in Peers |-> <<>>]
  /\ toPeer = [p \in Peers |-> <<>>]
  /\ accepted = [p \in Peers |-> p \in Cooks]
  /\ struct_of = [p \in Peers |-> IF p \in Cooks THEN Places[p] ELSE NoClient]
  /\ client = [a \in Addr |->
       IF \E k \in Cooks : Places[k] = a
       THEN LET k == CHOOSE k \in Cooks : Places[k] = a IN RegisteredCook(k, menu[k])
       ELSE ZeroClient]
  /\ tailq = Queue
  /\ mutex = NoThread
  /\ data \in {RegCook(menu[k]) : k \in Cooks}
  /\ Pool!PoolInit
  /\ pc = [w \in Workers |-> "idle"]
  /\ frame = [w \in Workers |-> NoFrame]
  /\ crashed = FALSE
  /\ given = [p \in Peers |-> {}]
  /\ servesFor = [p \in Peers |-> NoClient]

OpenSpec == (\E menu \in Menus : KitchenOpen(menu)) /\ [][Next]_vars /\ Fairness
=============================================================================
