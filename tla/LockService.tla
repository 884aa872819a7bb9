---------------------------- MODULE LockService ----------------------------
(***************************************************************************)
(* What cpglockd and its library promise to the callers of cpg_lock: a     *)
(* lock has one holder at a time, callers get it in the order in which     *)
(* their requests were taken, a caller with FL_TRY gets it out of turn or  *)
(* not at all, and a process that goes away leaves the queues and gives up *)
(* what it held.                                                           *)
(***************************************************************************)
EXTENDS Integers

CONSTANTS
  Proc,       \* client processes
  Resource,   \* lock names
  MaxCalls,   \* calls of each process
  Triers      \* processes whose calls carry FL_TRY

VARIABLES
  ahead,      \* the calls waiting for each lock, with the calls that go before each
  holder      \* the calls each lock has been given to: at most one

svars == <<ahead, holder>>

Call == UNION { {p} \X (1..MaxCalls[p]) : p \in Proc }

Waiting(R) == DOMAIN ahead[R]

\* A queue is a function from the calls in it to the calls in front of them.
NoQueue == [c \in {} |-> {}]

WithLast(c, f) == [b \in DOMAIN f \cup {c} |-> IF b = c THEN DOMAIN f ELSE f[b]]

Without(C, f) == [c \in DOMAIN f \ C |-> f[c] \ C]

SInit ==
  /\ ahead = [R \in Resource |-> NoQueue]
  /\ holder = [R \in Resource |-> {}]

Ask(c, R) ==
  /\ c[1] \notin Triers
  /\ c \notin Waiting(R)
  /\ ahead' = [ahead EXCEPT ![R] = WithLast(c, @)]
  /\ UNCHANGED holder

\* The call nobody goes before is given the lock.
GiveTo(c, R) ==
  /\ holder[R] = {}
  /\ ahead[R][c] = {}
  /\ holder' = [holder EXCEPT ![R] = {c}]
  /\ ahead' = [ahead EXCEPT ![R] = Without({c}, @)]

Give(R) == \E c \in Waiting(R) : GiveTo(c, R)

Release(R) ==
  /\ holder[R] # {}
  /\ holder' = [holder EXCEPT ![R] = {}]
  /\ UNCHANGED ahead

\* A call with FL_TRY does not queue.
Take(c, R) ==
  /\ c[1] \in Triers
  /\ holder[R] = {}
  /\ holder' = [holder EXCEPT ![R] = {c}]
  /\ UNCHANGED ahead

Withdraw(P) ==
  /\ ahead' = [R \in Resource |->
                 Without({ c \in Waiting(R) : c[1] \in P }, ahead[R])]
  /\ holder' = [R \in Resource |-> { c \in holder[R] : c[1] \notin P }]

SNext ==
  \/ \E R \in Resource :
       Give(R) \/ Release(R) \/ \E c \in Call : Ask(c, R) \/ Take(c, R)
  \/ \E P \in SUBSET Proc : Withdraw(P)

SSpec == SInit /\ [][SNext]_svars

\* A lock that is free and wanted is given to somebody.
SFairSpec == SSpec /\ \A R \in Resource : WF_svars(Give(R))

=============================================================================
