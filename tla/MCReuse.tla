------------------------------ MODULE MCReuse ------------------------------
(* Reuse with cooks that have registered, or from the empty server.        *)
EXTENDS MCFoodServer, Reuse, Functions

\* The cooks have registered different menus: with the same, the first that is
\* free would take all that either can cook.
OpenReuse ==
  /\ \E menu \in Menus : IsInjective(menu) /\ KitchenOpen(menu)
  /\ heirs = {} /\ wards = {}
  /\ [][ReuseNext]_reuseVars

\* The cooks have their places in the open kitchen; the other addresses are
\* interchangeable.
Spare == Addr \ {Places[k] : k \in Cooks}
OpenSymmetry ==
  Permutations(Mortal) \cup Permutations(Customers \ Mortal) \cup Permutations(Workers)
    \cup Permutations(Spare)
=============================================================================
