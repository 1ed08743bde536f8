---------------------------- MODULE MCGroupList ----------------------------
(* GroupList with a few clients and the groups of the README's example.    *)
EXTENDS GroupList
=============================================================================
