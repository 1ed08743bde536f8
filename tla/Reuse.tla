------------------------------- MODULE Reuse -------------------------------
(***************************************************************************)
(* Who suffers when calloc() hands out memory that somebody still points   *)
(* at.  buffered_on_error() frees a struct client whatever job or busy     *)
(* cook holds its address; on_accept() may give it to the next client, and *)
(* what was meant for the one then happens to the other: pkt_handlers.c    *)
(* acts for whoever lives at the address.  History variables tell these    *)
(* heirs, and the wards, the customers that a cook among them works for,   *)
(* from the other clients, to whom nothing of the kind may happen, however *)
(* many heirs there are and whatever is done in their names.               *)
(***************************************************************************)
EXTENDS FoodServer

VARIABLES
  heirs,  \* history: the clients given memory that was pointed at
  wards   \* history: the customers that a cook among the heirs was sent dishes of

reuseVars == <<vars, heirs, wards>>

\* The job of a client's packet holds its address, and so does the struct of a
\* cook that is busy for it.
PointedAt(a) ==
  \/ \E i \in DOMAIN pending : pending[i] = a
  \/ \E w \in Workers : running[w] = a
  \/ \E k \in Cooks : /\ struct_of[k] # NoClient /\ StateOf(k) = "COOK_BUSY"
                      /\ client[struct_of[k]].assigned_client = a

ReuseInit == Init /\ heirs = {} /\ wards = {}

\* on_accept() takes what calloc() returns.
Inherits(p) == accepted'[p] /\ ~accepted[p] /\ PointedAt(struct_of'[p])

ReuseNext ==
  /\ Next
  /\ heirs' = heirs \cup {p \in Peers : Inherits(p)}
  /\ wards' = wards \cup {c \in Customers : \E k \in Cooks \cap heirs' : servesFor'[k] = c}

ReuseSpec == ReuseInit /\ [][ReuseNext]_reuseVars

-----------------------------------------------------------------------------
(* Properties.                                                             *)

\* A customer that is no heir and is turned away is turned away whole: no cook
\* was sent a dish of its order, nor is one once it has been told.
OwnRefusalIsTrue ==
  \A c \in Customers \ heirs : Has(c, "UNSERVICEABLE") => given[c] = {}

\* A dish of a customer that is no heir is sent to one cook, once.
OwnDishGivenOnce ==
  [][\A k \in Cooks :
       /\ Len(toPeer'[k]) > Len(toPeer[k])
       /\ toPeer'[k][Len(toPeer'[k])].type = "COOK_ORDER"
       /\ servesFor'[k] \notin heirs'
       => toPeer'[k][Len(toPeer'[k])].items \cap given[servesFor'[k]] = {}]_reuseVars

\* What is ASSIGNED in the menu of a customer that is neither heir nor ward has
\* a cook that works on it, for this customer, and whose update will be taken for
\* its.  A ward's dish may stay ASSIGNED for ever: in the menu of its cook, an
\* heir, another's update marks what the cook was given COMPLETED.
OwnDishIsBeingCooked ==
  \A c \in Customers \ (heirs \cup wards), d \in Dishes :
    Connected(c) /\ client[struct_of[c]].menu_items[d] = "ASSIGNED"
      => \E k \in Cooks : /\ Outstanding(k) = 1
                         /\ servesFor[k] = c
                         /\ client[struct_of[k]].assigned_client = struct_of[c]
                         /\ client[struct_of[k]].menu_items[d] = "ASSIGNED"
=============================================================================
