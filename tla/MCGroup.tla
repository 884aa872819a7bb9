------------------------------ MODULE MCGroup ------------------------------
(***************************************************************************)
(* Instances of Group for TLC.                                             *)
(***************************************************************************)
EXTENDS GroupInv

CONSTANTS n1, n2, n3, d1, d2, d3

NoPayload == {}

\* Three nodes, one daemon each.
NodeOf3 == d1 :> n1 @@ d2 :> n2 @@ d3 :> n3

EmptyGroup == <<>>

=============================================================================
