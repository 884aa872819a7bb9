------------------------------- MODULE Group -------------------------------
(***************************************************************************)
(* The membership half of cpglockd (bin/cpglockd.c): how a daemon joins    *)
(* the CPG group, how it keeps group_members, and which daemon it takes to *)
(* be the oldest, the one that grants new locks and recovers dead ones.    *)
(*                                                                         *)
(* Corosync's closed process group is external.  It gives every member     *)
(* the same sequence of messages and configuration changes (agreed order,  *)
(* virtual synchrony): `log' is that sequence, `pos[d]' the number of its  *)
(* entries daemon d has dispatched.  A message takes its place in the      *)
(* order when it is multicast; a daemon that lags behind has simply not    *)
(* dispatched it yet.  A daemon is one process: Daemon stands for the      *)
(* pairs (nodeid, pid), NodeOf gives the nodeid, and a restarted daemon is *)
(* another element of Daemon.                                              *)
(***************************************************************************)
EXTENDS Integers, Sequences, FiniteSets, SequencesExt

CONSTANTS
  Node,        \* the cluster's nodes (nodeid)
  Daemon,      \* daemon processes (nodeid, pid), each started at most once
  NodeOf,      \* the node of each daemon (my_node_id)
  Payload,     \* the lock messages daemons multicast, opaque here
  InitGroup,   \* the daemons of a group already formed, oldest first
  Crashable,   \* daemons that may crash, with messages of theirs undelivered
  Stoppable,   \* daemons that may be shut down or fail to start
  DupStart     \* may a daemon be started while its node already runs one?

ASSUME GroupAssumption ==
  /\ IsFiniteSet(Daemon)
  /\ NodeOf \in [Daemon -> Node]
  /\ InitGroup \in Seq(Daemon)
  /\ \A i, j \in 1..Len(InitGroup) :
        NodeOf[InitGroup[i]] = NodeOf[InitGroup[j]] => i = j
  /\ DupStart \in BOOLEAN

VARIABLES
  cpg,             \* the daemons CPG counts as members now
  log,             \* what CPG delivers, in the agreed order
  phase,           \* how far main() of each daemon has come
  pos,             \* entries of log each daemon has dispatched
  group_members,   \* each daemon's member list, oldest first
  total_members,   \* each daemon's count of members
  joined           \* has the daemon seen its own JOIN?

cpgVars   == <<cpg, log, phase, pos>>
groupVars == <<group_members, total_members, joined>>
gvars     == <<cpg, log, phase, pos, group_members, total_members, joined>>

-----------------------------------------------------------------------------
(***************************************************************************)
(* The entries of the agreed order.  A "LOST" entry is the slot of a       *)
(* message that died with its sender: nothing is delivered from it.        *)
(***************************************************************************)
ConfChg(members, left, join) ==
  [request |-> "CONFCHG", members |-> members, left |-> left, join |-> join]

\* Mutant: the message names the node and not the process.
JoinMsg_Node(d) == [request |-> "JOIN", from |-> NodeOf[d]]

JoinMsg(d) == [request |-> "JOIN", from |-> d]

App(d, m) == [request |-> "APP", from |-> d, body |-> m]

Lost == [request |-> "LOST"]

Entry ==
  [request : {"CONFCHG"}, members : SUBSET Daemon, left : SUBSET Daemon,
   join : SUBSET Daemon]
  \cup [request : {"JOIN"}, from : Daemon]
  \cup [request : {"APP"}, from : Daemon, body : Payload]
  \cup {Lost}

\* All sequences that list each element of S once (an iteration order).
Enumerations(S) == Bijection(1..Cardinality(S), S)

\* cpg_mcast_joined: daemon d multicasts the messages out, in this order.
Mcast(d, out) == log \o [i \in 1..Len(out) |-> App(d, out[i])]

\* The entry daemon d dispatches next, when there is one.
HasNext(d) == phase[d] = "up" /\ pos[d] < Len(log)
NextEntry(d) == log[pos[d] + 1]
Dispatched(d) == pos' = [pos EXCEPT ![d] = @ + 1]

(***************************************************************************)
(* A daemon leaves the group, whatever the reason: CPG orders the          *)
(* configuration change and the process's memory is gone.                  *)
(***************************************************************************)
Depart(d, lg) ==
  /\ cpg' = cpg \ {d}
  /\ log' = Append(lg, ConfChg(cpg \ {d}, {d}, {}))
  /\ phase' = [phase EXCEPT ![d] = "gone"]
  /\ pos' = [pos EXCEPT ![d] = 0]
  /\ group_members' = [group_members EXCEPT ![d] = <<>>]
  /\ total_members' = [total_members EXCEPT ![d] = 0]
  /\ joined' = [joined EXCEPT ![d] = FALSE]

-----------------------------------------------------------------------------
(***************************************************************************)
(* Starting: main() runs cpg_init (cpg_join, then a look at the membership *)
(* for another daemon of the same node), sock_listen, send_join and only   *)
(* then the event loop, so nothing is dispatched before the phase is "up". *)
(***************************************************************************)
SameNodeMember(d) == \E e \in cpg \ {d} : NodeOf[e] = NodeOf[d]

\* cpg_init up to cpg_join; without DupStart the pid file keeps a second
\* daemon of the node from getting here.
CpgJoin(d) ==
  /\ phase[d] = "off"
  /\ DupStart \/ ~SameNodeMember(d)
  /\ cpg' = cpg \cup {d}
  /\ log' = Append(log, ConfChg(cpg \cup {d}, {}, {d}))
  /\ phase' = [phase EXCEPT ![d] = "cpg_init"]
  /\ pos' = [pos EXCEPT ![d] = Len(log)]
  /\ UNCHANGED groupVars

\* cpg_init finds no other daemon of its node in cpg_membership_get.
CpgInitAlone(d) ==
  /\ phase[d] = "cpg_init"
  /\ ~SameNodeMember(d)
  /\ phase' = [phase EXCEPT ![d] = "listening"]
  /\ UNCHANGED <<cpg, log, pos, groupVars>>

\* cpg_init finds one, and main() gives up: cpg_fin.
CpgInitDuplicate(d) ==
  /\ phase[d] = "cpg_init"
  /\ SameNodeMember(d)
  /\ Depart(d, log)

\* The look at the membership, with its two ends.
cpg_init(d) ==
  /\ phase[d] = "cpg_init"
  /\ CpgInitAlone(d) \/ CpgInitDuplicate(d)

\* cpg_membership_get or sock_listen fails, or the CPG descriptor is bad:
\* main() ends, in cpg_fin.
StartFails(d) ==
  /\ d \in Stoppable
  /\ phase[d] \in {"cpg_init", "listening"}
  /\ Depart(d, log)

send_join(d) ==
  /\ phase[d] = "listening"
  /\ log' = Append(log, JoinMsg(d))
  /\ phase' = [phase EXCEPT ![d] = "up"]
  /\ UNCHANGED <<cpg, pos, groupVars>>

-----------------------------------------------------------------------------
(***************************************************************************)
(* cpg_config_change.  The first one a daemon sees is that of its own join *)
(* (total_members is still 0) and gives it the members that were there     *)
(* already, in the order CPG lists them.  Those who join later are added   *)
(* only by their JOIN message.  Members that left are taken out; out are   *)
(* the messages del_node multicasts for them.                              *)
(***************************************************************************)
EarlierMembers(d, e) ==
  { x \in e.members : /\ NodeOf[x] # NodeOf[d]
                      /\ e.join # {}
                      /\ \A j \in e.join : NodeOf[x] # NodeOf[j] }

\* Mutant: the count leaves the joining daemon out.
CountAfterSetup_OthersOnly(d, e) ==
  IF total_members[d] = 0 THEN Cardinality(e.members) - 1 ELSE total_members[d]

\* Mutant: the search for a leaver starts behind the first list element.
Leavers_SkipFirst(list, e) ==
  { list[i] : i \in { j \in 2..Len(list) : list[j] \in e.left } }

\* group_members once the initial node list has been set up.
ListAfterSetup(d, e) ==
  IF total_members[d] = 0
  THEN { group_members[d] \o s : s \in Enumerations(EarlierMembers(d, e)) }
  ELSE { group_members[d] }

CountAfterSetup(d, e) ==
  IF total_members[d] = 0 THEN Cardinality(e.members) ELSE total_members[d]

\* Members of list that the change e removes: same nodeid and same pid.
Leavers(list, e) == { x \in Range(list) : x \in e.left }

\* The list without the member the change e removes.
ListAfterLeave(list, e) ==
  LET gone == Leavers(list, e)
  IN  IF gone = {} THEN list
      ELSE RemoveAt(list, SelectInSeq(list, LAMBDA x : x \in gone))

\* cpg_config_change ends without finding this daemon among those that left.
cpg_config_change(d, out) ==
  /\ HasNext(d)
  /\ NextEntry(d).request = "CONFCHG"
  /\ \E list \in ListAfterSetup(d, NextEntry(d)) :
       LET gone  == Leavers(list, NextEntry(d))
           count == CountAfterSetup(d, NextEntry(d)) - Cardinality(gone)
       IN  /\ \A x \in gone : NodeOf[x] # NodeOf[d]
           /\ group_members' = [group_members EXCEPT ![d] =
                                  ListAfterLeave(list, NextEntry(d))]
           /\ total_members' = [total_members EXCEPT ![d] =
                                  IF count < 0 THEN 0 ELSE count]
  /\ Dispatched(d)
  /\ log' = Mcast(d, out)
  /\ UNCHANGED <<cpg, phase, joined>>

\* "Received DELETE message for self": a listed member of its own node left.
DeleteForSelf(d) ==
  /\ HasNext(d)
  /\ NextEntry(d).request = "CONFCHG"
  /\ \E x \in Leavers(group_members[d], NextEntry(d)) : NodeOf[x] = NodeOf[d]
  /\ Depart(d, log)

\* The callback, when there are no locks to recover.
ConfigChange(d) ==
  /\ HasNext(d)
  /\ cpg_config_change(d, <<>>) \/ DeleteForSelf(d)

(***************************************************************************)
(* process_join: a member already listed goes to the end of the list, so   *)
(* that everybody orders members by their JOIN; a second process of a      *)
(* listed node is ignored; anybody else is appended.                       *)
(***************************************************************************)
ListedAt(list, x) == SelectInSeq(list, LAMBDA y : NodeOf[y] = NodeOf[x])

\* Mutant: a listed member keeps the place it had when this daemon joined.
MoveToTail_KeepPlace(list, i) == list

MoveToTail(list, i) == Append(RemoveAt(list, i), list[i])

\* Mutant: JOIN puts the new member at the head of the list.
process_join_AddHead(d) ==
  /\ HasNext(d)
  /\ NextEntry(d).request = "JOIN"
  /\ LET x    == NextEntry(d).from
         list == group_members[d]
         i    == ListedAt(list, x)
     IN  \/ /\ i # 0
            /\ group_members' = [group_members EXCEPT ![d] =
                 IF list[i] = x THEN MoveToTail(list, i) ELSE list]
            /\ UNCHANGED <<total_members, joined>>
         \/ /\ i = 0
            /\ group_members' = [group_members EXCEPT ![d] = <<x>> \o @]
            /\ total_members' = [total_members EXCEPT ![d] = @ + 1]
            /\ joined' = [joined EXCEPT ![d] = @ \/ NodeOf[x] = NodeOf[d]]
  /\ Dispatched(d)
  /\ UNCHANGED <<cpg, log, phase>>

\* Mutant: JOIN appends without looking for a member already listed.
process_join_NoSearch(d) ==
  /\ HasNext(d)
  /\ NextEntry(d).request = "JOIN"
  /\ LET x == NextEntry(d).from IN
       /\ group_members' = [group_members EXCEPT ![d] = Append(@, x)]
       /\ total_members' = [total_members EXCEPT ![d] = @ + 1]
       /\ joined' = [joined EXCEPT ![d] = @ \/ NodeOf[x] = NodeOf[d]]
  /\ Dispatched(d)
  /\ UNCHANGED <<cpg, log, phase>>

process_join(d) ==
  /\ HasNext(d)
  /\ NextEntry(d).request = "JOIN"
  /\ LET x    == NextEntry(d).from
         list == group_members[d]
         i    == ListedAt(list, x)
     IN  \/ /\ i # 0
            /\ group_members' = [group_members EXCEPT ![d] =
                 IF list[i] = x THEN MoveToTail(list, i) ELSE list]
            /\ UNCHANGED <<total_members, joined>>
         \/ /\ i = 0
            /\ group_members' = [group_members EXCEPT ![d] = Append(@, x)]
            /\ total_members' = [total_members EXCEPT ![d] = @ + 1]
            /\ joined' = [joined EXCEPT ![d] = @ \/ NodeOf[x] = NodeOf[d]]
  /\ Dispatched(d)
  /\ UNCHANGED <<cpg, log, phase>>

\* A lock message is dispatched; its handler multicasts out.
DeliverApp(d, out) ==
  /\ HasNext(d)
  /\ NextEntry(d).request = "APP"
  /\ Dispatched(d)
  /\ log' = Mcast(d, out)
  /\ UNCHANGED <<cpg, phase, groupVars>>

\* The slot of a lost message: CPG has nothing to deliver.
DeliverLost(d) ==
  /\ HasNext(d)
  /\ NextEntry(d).request = "LOST"
  /\ Dispatched(d)
  /\ UNCHANGED <<cpg, log, phase, groupVars>>

\* A handler of the client socket multicasts out.
Send(d, out) ==
  /\ phase[d] = "up"
  /\ log' = Mcast(d, out)
  /\ UNCHANGED <<cpg, phase, pos, groupVars>>

-----------------------------------------------------------------------------
\* SIGTERM with no client connected: main() leaves the loop and the group.
Shutdown(d) ==
  /\ d \in Stoppable
  /\ phase[d] = "up"
  /\ Depart(d, log)

(***************************************************************************)
(* The node dies.  Of the messages it multicast, those no surviving member *)
(* has dispatched may be lost, and only a tail of them, because CPG keeps  *)
(* each sender's order.                                                    *)
(***************************************************************************)
Undelivered(d) ==
  { k \in 0..Len(log) : \A e \in cpg \ {d} : pos[e] <= k }

DropTail(d, k) ==
  [ i \in 1..Len(log) |->
      IF /\ i > k
         /\ log[i].request \in {"JOIN", "APP"}
         /\ log[i].from = d
      THEN Lost ELSE log[i] ]

Crash(d) ==
  /\ d \in Crashable \cap cpg
  /\ \E k \in Undelivered(d) : Depart(d, DropTail(d, k))

-----------------------------------------------------------------------------
\* A group formed by starting the daemons of InitGroup one after the other.
InitLog ==
  [ k \in 1..2 * Len(InitGroup) |->
      LET i == (k + 1) \div 2
      IN  IF k % 2 = 1
          THEN ConfChg({InitGroup[j] : j \in 1..i}, {}, {InitGroup[i]})
          ELSE JoinMsg(InitGroup[i]) ]

GInit ==
  LET started == Range(InitGroup) IN
  /\ cpg = started
  /\ log = InitLog
  /\ phase = [d \in Daemon |-> IF d \in started THEN "up" ELSE "off"]
  /\ pos = [d \in Daemon |-> IF d \in started THEN 2 * Len(InitGroup) ELSE 0]
  /\ group_members = [d \in Daemon |-> IF d \in started THEN InitGroup ELSE <<>>]
  /\ total_members =
       [d \in Daemon |-> IF d \in started THEN Len(InitGroup) + 1 ELSE 0]
  /\ joined = [d \in Daemon |-> d \in started]

\* Everything but lock traffic.
GStep(d) ==
  \/ CpgJoin(d) \/ cpg_init(d) \/ StartFails(d) \/ send_join(d)
  \/ ConfigChange(d) \/ process_join(d) \/ DeliverLost(d)
  \/ Shutdown(d) \/ Crash(d)

GNext == \E d \in Daemon : GStep(d)

(***************************************************************************)
(* A daemon that has called cpg_join goes on to send its JOIN, and its     *)
(* event loop keeps dispatching.  Nobody is obliged to start, stop or die. *)
(***************************************************************************)
GFairness ==
  \A d \in Daemon :
    /\ WF_gvars(cpg_init(d))
    /\ WF_gvars(send_join(d))
    /\ WF_gvars(ConfigChange(d) \/ process_join(d) \/ DeliverLost(d))

GSpec == GInit /\ [][GNext]_gvars
GFairSpec == GSpec /\ GFairness

-----------------------------------------------------------------------------
Phase == {"off", "cpg_init", "listening", "up", "gone"}

(***************************************************************************)
(* Type invariant.                                                         *)
(***************************************************************************)
GTypeOK ==
  /\ cpg \in SUBSET Daemon
  /\ log \in Seq(Entry)
  /\ phase \in [Daemon -> Phase]
  /\ pos \in [Daemon -> Nat]
  /\ group_members \in [Daemon -> Seq(Daemon)]
  /\ total_members \in [Daemon -> Nat]
  /\ joined \in [Daemon -> BOOLEAN]

\* get_oldest_node()->nodeid == my_node_id, asked only by a joined daemon.
SelfOldest(d) ==
  /\ joined[d]
  /\ group_members[d] # <<>>
  /\ NodeOf[Head(group_members[d])] = NodeOf[d]

(***************************************************************************)
(* "process join on receipt of JOIN message rather than here since ordered *)
(* delivery is agreed, this prevents >1 member from believing it is the    *)
(* oldest host" (cpg_config_change): at no moment, however far the daemons *)
(* lag behind one another, do two of them take themselves for the oldest.  *)
(***************************************************************************)
AtMostOneOldest ==
  \A d, e \in Daemon : SelfOldest(d) /\ SelfOldest(e) => d = e

(***************************************************************************)
(* process_lock and process_grant call get_oldest_node once joined is set, *)
(* and read the head of group_members unconditionally: the list then holds *)
(* at least the daemon itself, and holds it once.                          *)
(***************************************************************************)
JoinedIsListed ==
  \A d \in Daemon :
    /\ joined[d] => d \in Range(group_members[d])
    /\ IsInjective(group_members[d])

(***************************************************************************)
(* total_members never returns to 0 while the daemon runs, so that the     *)
(* initial node list is set up once, at the daemon's own join.             *)
(***************************************************************************)
CountCoversList ==
  \A d \in Daemon :
    total_members[d] # 0 => total_members[d] > Len(group_members[d])

\* Every member has sent its JOIN and dispatched everything.
Settled ==
  \A d \in cpg : phase[d] = "up" /\ pos[d] = Len(log)

(***************************************************************************)
(* The lists are rebuilt from messages only: the initial list at a         *)
(* daemon's own join, JOIN messages and departures afterwards.  Once all   *)
(* of them have been dispatched, every member lists exactly the members    *)
(* CPG has: nobody is missed between the two sources, nobody lingers.      *)
(***************************************************************************)
MembershipAgreed ==
  Settled => \A d \in cpg : Range(group_members[d]) = cpg

(***************************************************************************)
(* And then one member takes itself for the oldest (get_oldest_node): the  *)
(* lists agree on their head although the initial ones came in any order,  *)
(* so there is somebody to grant new locks.                                *)
(***************************************************************************)
OldestPresent ==
  Settled /\ cpg # {} => \E d \in cpg : SelfOldest(d)

(***************************************************************************)
(* Once daemons stop coming and going, somebody is and stays the oldest.   *)
(***************************************************************************)
OldestEmerges == <>[](cpg # {} => \E d \in cpg : SelfOldest(d))

=============================================================================
