----------------------------- MODULE MCCpglockd -----------------------------
(***************************************************************************)
(* Instances of Cpglockd for TLC.                                          *)
(***************************************************************************)
EXTENDS LockInv

CONSTANTS n1, n2, n3, d1, d2, d3, d4, p1, p2, p3, p4, R1, R2

MCNodeOf == d1 :> n1 @@ d2 :> n2 @@ d3 :> n3 @@ d4 :> n1

\* p1 and p4 share a node with the first daemon.
MCProcNode == p1 :> n1 @@ p2 :> n2 @@ p3 :> n3 @@ p4 :> n1

Group1 == <<d1>>
Group2 == <<d1, d2>>
Group3 == <<d1, d2, d3>>

\* One call for each process, or two for p1.
OneCall == [p \in Proc |-> 1]
TwoCallsP1 == [p \in Proc |-> IF p = p1 THEN 2 ELSE 1]

MCNodeOfD == [d \in Daemon |-> MCNodeOf[d]]
MCProcNodeP == [p \in Proc |-> MCProcNode[p]]

=============================================================================
