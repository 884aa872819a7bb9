----------------------------- MODULE MCStartup -----------------------------
(***************************************************************************)
(* Instances of Startup for TLC.                                           *)
(***************************************************************************)
EXTENDS Startup

CONSTANTS n1, n2, d1, d2, d3

NoPayload == {}

\* Two daemons are started on the first node.
MCNodeOf == d1 :> n1 @@ d2 :> n2 @@ d3 :> n1

EmptyGroup == <<>>

=============================================================================
