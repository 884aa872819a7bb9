---------------------------- MODULE MCClientLib ----------------------------
(***************************************************************************)
(* Instances of ClientLib for TLC.                                         *)
(***************************************************************************)
EXTENDS ClientLib

CONSTANTS t1, t2, t3, R1, R2

\* Two locks, each wanted by two of the threads.
MCWants == t1 :> {R1} @@ t2 :> {R1, R2} @@ t3 :> {R2}

=============================================================================
