------------------------------ MODULE GroupInv ------------------------------
(***************************************************************************)
(* The inductive invariant behind AtMostOneOldest: what the agreed order   *)
(* can look like (LogInv) and what a daemon's member list says about the   *)
(* part of it the daemon has dispatched (ViewInv).                         *)
(***************************************************************************)
EXTENDS Group

JoinAt(i, e)   == i \in 1..Len(log) /\ log[i].request = "JOIN" /\ log[i].from = e
ConfAt(k)      == k \in 1..Len(log) /\ log[k].request = "CONFCHG"
LeftAt(k, x)   == ConfAt(k) /\ x \in log[k].left
EnterAt(k, x)  == ConfAt(k) /\ x \in log[k].join
MemberAt(k, x) == ConfAt(k) /\ x \in log[k].members

Index == 1..Len(log)

\* CPG's members are the daemons between cpg_join and the end of main().
Members ==
  /\ \A d \in Daemon : d \in cpg <=> phase[d] \in {"cpg_init", "listening", "up"}
  /\ \A d, e \in cpg : NodeOf[d] = NodeOf[e] => d = e

\* A daemon sends one JOIN, after it entered and before it left.
Joins ==
  \A e \in Daemon, i \in Index : JoinAt(i, e) =>
    /\ phase[e] \in {"up", "gone"}
    /\ \A j \in Index : JoinAt(j, e) => i = j
    /\ \A k \in Index : LeftAt(k, e) => i < k
    /\ \A k \in Index : EnterAt(k, e) => k < i

\* A configuration change takes one daemon out, or lets one in.
Leaves ==
  \A x \in Daemon, k \in Index : LeftAt(k, x) =>
    /\ phase[x] = "gone"
    /\ \A y \in Daemon : LeftAt(k, y) => x = y
    /\ \A y \in Daemon : ~EnterAt(k, y)
    /\ \A j \in Index : k < j => ~MemberAt(j, x)

Enters ==
  \A x \in Daemon, k \in Index : EnterAt(k, x) =>
    /\ MemberAt(k, x)
    /\ \A y \in Daemon : EnterAt(k, y) => x = y
    /\ \A j \in Index : EnterAt(j, x) => j = k

Known ==
  /\ \A x \in Daemon, k \in Index : MemberAt(k, x) => phase[x] # "off"
  /\ \A x \in Daemon : phase[x] = "gone" => \E k \in Index : LeftAt(k, x)
  /\ \A x \in cpg : \E k \in Index : EnterAt(k, x)

\* A member that has sent its JOIN is among the members of later changes.
StillMember ==
  \A e \in cpg, i, k \in Index :
    JoinAt(i, e) /\ ConfAt(k) /\ i < k => MemberAt(k, e)

\* An earlier daemon of a member's node left before the member entered.
Replaced ==
  \A d \in cpg, x \in Daemon, k, m \in Index :
    /\ x # d /\ NodeOf[x] = NodeOf[d]
    /\ LeftAt(k, x) /\ EnterAt(m, d)
    => k < m

LogInv == Members /\ Joins /\ Leaves /\ Enters /\ Known /\ StillMember /\ Replaced

\* Member x is on the list, stands before y on it; nobody is on it twice.
Has(list, x) == \E a \in 1..Len(list) : list[a] = x

Precedes(list, x, y) ==
  \E a, b \in 1..Len(list) : a < b /\ list[a] = x /\ list[b] = y

NoDuplicates(list) == \A a, b \in 1..Len(list) : list[a] = list[b] => a = b

\* Nothing is known before the first configuration change, one's own.
Fresh(d) ==
  /\ group_members[d] = <<>>
  /\ ~joined[d]

Progress(d) ==
  /\ pos[d] <= Len(log)
  /\ phase[d] # "up" => total_members[d] = 0
  /\ total_members[d] = 0 => Fresh(d)
  /\ total_members[d] # 0 => total_members[d] > Len(group_members[d])
  /\ d \in cpg =>
       \A m \in Index : EnterAt(m, d) =>
         IF total_members[d] = 0 THEN pos[d] + 1 = m ELSE m <= pos[d]

\* The list has no duplicates, no strangers and nobody known to have left.
Sound(d) ==
  /\ NoDuplicates(group_members[d])
  /\ \A x \in Daemon : Has(group_members[d], x) =>
       /\ phase[x] # "off"
       /\ NodeOf[x] = NodeOf[d] => x = d
       /\ \A k \in Index : k <= pos[d] => ~LeftAt(k, x)
  /\ joined[d] <=> Has(group_members[d], d)
  /\ joined[d] => \E j \in Index : j <= pos[d] /\ JoinAt(j, d)

\* It has every member whose JOIN was dispatched, those before one's own first.
Complete(d) ==
  total_members[d] # 0 =>
    \A e \in cpg, i \in Index : JoinAt(i, e) /\ i <= pos[d] =>
      /\ Has(group_members[d], e)
      /\ \A j \in Index : JoinAt(j, d) /\ i < j /\ j <= pos[d] =>
           Precedes(group_members[d], e, d)

View(d) == Progress(d) /\ Sound(d) /\ Complete(d)

ViewInv == \A d \in Daemon : View(d)

(***************************************************************************)
(* The inductive invariant: the agreed order is well formed, and the view  *)
(* of every daemon is right for the prefix it has dispatched, however      *)
(* short (process_join, cpg_config_change).                                *)
(***************************************************************************)
IndInv == GTypeOK /\ LogInv /\ ViewInv

(***************************************************************************)
(* What is needed besides for somebody to be the oldest.  A member in the  *)
(* event loop has sent its JOIN, and members whose JOIN came after one's   *)
(* own stand behind oneself on the list, whatever place CPG gave them on   *)
(* the initial one (MoveToTail).                                           *)
(***************************************************************************)
SentJoin ==
  \A e \in cpg : phase[e] = "up" => \E i \in Index : JoinAt(i, e)

Ordered(d) ==
  \A y \in cpg, i, j \in Index :
    JoinAt(i, d) /\ JoinAt(j, y) /\ i < j /\ j <= pos[d] =>
      Precedes(group_members[d], d, y)

OrderInv == SentJoin /\ \A d \in Daemon : Ordered(d)

(***************************************************************************)
(* A step of the membership layer under the lock protocol: its handlers    *)
(* multicast the messages out.                                             *)
(***************************************************************************)
GMove(d, out) ==
  GStep(d) \/ cpg_config_change(d, out) \/ DeliverApp(d, out) \/ Send(d, out)

=============================================================================
