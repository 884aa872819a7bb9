------------------------------ MODULE Cpglockd ------------------------------
(***************************************************************************)
(* The lock protocol of cpglockd (bin/cpglockd.c) on top of the group of   *)
(* module Group: every daemon keeps a record of each lock and a queue of   *)
(* requests, and changes them when CPG delivers LOCK, GRANT, NAK, UNLOCK   *)
(* and PURGE messages, when a member leaves and when a local client asks   *)
(* for something or goes away.  The daemon of the node that owns a lock    *)
(* passes it on; the oldest daemon grants locks nobody has asked for yet   *)
(* and releases those of nodes that left.                                  *)
(*                                                                         *)
(* A client process uses one handle (lib/libcpglock.c).  Its calls of      *)
(* cpg_lock are numbered by h->seq, so calls[p][tid] is the call whose     *)
(* messages carry owner_pid p and owner_tid tid.  A request the client     *)
(* writes is read by the daemon in the same step; an answer the daemon     *)
(* writes is taken by the waiting call in the same step.                   *)
(***************************************************************************)
EXTENDS Group

CONSTANTS
  Proc,         \* client processes (pids), each connecting at most once
  ProcNode,     \* the node a process runs on
  Resource,     \* lock names
  MaxCalls,     \* bound: cpg_lock calls of each process
  Threads,      \* bound: calls of one process in cpg_lock at a time
  Triers,       \* processes whose calls carry FL_TRY
  CpgLosers,    \* daemons that may lose their connection to CPG
  Exiters,      \* processes that may close their handle or exit
  ExitHolding   \* may they do so while their daemon has them as a holder?

ASSUME LockAssumption ==
  /\ IsFiniteSet(Proc) /\ IsFiniteSet(Resource)
  /\ ProcNode \in [Proc -> Node]
  /\ 0 \notin Node /\ 0 \notin Proc
  /\ MaxCalls \in [Proc -> Nat] /\ Threads \in Nat
  /\ ExitHolding \in BOOLEAN
  /\ ~DupStart

VARIABLES
  locks,        \* each daemon's map of lock records
  requests,     \* each daemon's request queue
  local_lockid, \* each daemon's counter of local lock ids
  clients,      \* each daemon's connected client processes
  calls,        \* the calls of cpg_lock each process has made, by tid
  ended         \* processes that have exited, died or lost their daemon

daemonVars == <<locks, requests, local_lockid>>
clientVars == <<clients, calls, ended>>
lockVars   == <<locks, requests, local_lockid, clients, calls, ended>>
vars       == <<gvars, lockVars>>

-----------------------------------------------------------------------------
Pid == Proc \cup Daemon \cup {0}

Owner(node, pid, tid) == [node |-> node, pid |-> pid, tid |-> tid]

\* The owner fields of a record fresh from calloc.
NoOwner == Owner(0, 0, 0)

Owners == [node : Node \cup {0}, pid : Pid, tid : Nat]

\* No record of the resource in the map.
NoLock == [state |-> "NONE", owner |-> NoOwner, local_id |-> 0]

LockState == {"FREE", "PENDING", "HELD"}

Msg(request, resource, owner, try) ==
  [request |-> request, resource |-> resource, owner |-> owner, try |-> try]

LockMsg ==
  [request : {"LOCK", "GRANT", "NAK", "UNLOCK"}, resource : Resource,
   owner : Owners, try : BOOLEAN]
  \cup [request : {"PURGE"}, resource : {"(none)"}, owner : Owners, try : {FALSE}]

(***************************************************************************)
(* The request queue.  Requests are queued in the order their LOCK is      *)
(* delivered: `at' is the place of that LOCK in the agreed order.          *)
(***************************************************************************)
\* Mutant: queue_request leaves the state calloc gave it.
Queued_NoState(m, at) ==
  [resource |-> m.resource, owner |-> m.owner, state |-> "FREE", at |-> at]

Queued(m, at) ==
  [resource |-> m.resource, owner |-> m.owner, state |-> "PENDING", at |-> at]

\* Mutant: requests are added at the head of the queue.
NextWaiting_Lifo(reqs, R) ==
  LET waiting == { r \in reqs : r.resource = R /\ r.state = "PENDING" }
  IN  { r \in waiting : \A q \in waiting : r.at >= q.at }

\* The request grant_next would serve: a set of at most one.
NextWaiting(reqs, R) ==
  LET waiting == { r \in reqs : r.resource = R /\ r.state = "PENDING" }
  IN  { r \in waiting : \A q \in waiting : r.at <= q.at }

\* grant_next marks the request it grants; it stays queued until delivery.
GrantMarked(reqs, Rs) ==
  { IF \E R \in Rs : r \in NextWaiting(reqs, R)
    THEN [r EXCEPT !.state = "HELD"] ELSE r : r \in reqs }

GrantMsg(reqs, R) ==
  LET r == CHOOSE x \in NextWaiting(reqs, R) : TRUE
  IN  Msg("GRANT", R, r.owner, FALSE)

UnlockMsg(R, owner) == Msg("UNLOCK", R, owner, FALSE)

\* What grant_next multicasts for R; if nobody waits, otherwise instead.
GrantOr(reqs, R, otherwise) ==
  IF NextWaiting(reqs, R) = {} THEN otherwise ELSE << GrantMsg(reqs, R) >>

\* Mutant: nobody is told when there is nobody to grant the lock to.
send_unlock_Drop(R, owner) == <<>>

send_unlock(R, owner) == << UnlockMsg(R, owner) >>

\* What recovery multicasts for each of the locks of a set, in the order in
\* which the map of locks is gone through: order enumerates the set.
ReleaseEach(reqs, order, owner) ==
  [ i \in DOMAIN order |->
      IF NextWaiting(reqs, order[i]) = {} THEN UnlockMsg(order[i], owner)
      ELSE GrantMsg(reqs, order[i]) ]

\* Mutant: the pid is not looked at.
purge_requests_Node(reqs, node, pid) ==
  { r \in reqs : r.owner.node # node }

purge_requests(reqs, node, pid) ==
  { r \in reqs : ~ (r.owner.node = node /\ (pid = 0 \/ r.owner.pid = pid)) }

\* Mutant: the first request of the resource, whoever's it is.
Matching_Anybody(reqs, m) ==
  LET same == { r \in reqs : r.resource = m.resource }
  IN  { r \in same : \A q \in same : r.at <= q.at }

\* The first request of this resource and owner, as a set.
Matching(reqs, m) ==
  LET same == { r \in reqs : r.resource = m.resource /\ r.owner = m.owner }
  IN  { r \in same : \A q \in same : r.at <= q.at }

is_member(list, node) == \E x \in Range(list) : NodeOf[x] = node

SetLocks(d, L) == locks' = [locks EXCEPT ![d] = L]
SetLock(d, R, l) == locks' = [locks EXCEPT ![d][R] = l]
SetRequests(d, reqs) == requests' = [requests EXCEPT ![d] = reqs]

-----------------------------------------------------------------------------
(***************************************************************************)
(* The client side.  A waiting call takes the answer that carries its tid; *)
(* an answer to a call that has already returned stays on h->pending.      *)
(***************************************************************************)
Answered(p, tid, st, id) ==
  IF calls[p][tid].st = "wait"
  THEN [calls EXCEPT ![p][tid].st = st, ![p][tid].lockid = id]
  ELSE calls

CallIs(p, i, st) == i \in DOMAIN calls[p] /\ calls[p][i].st = st

grant_client(p, tid, id) == Answered(p, tid, "held", id)
nak_client(p, tid) == Answered(p, tid, "nak", 0)

find_client(d, p) == p \in clients[d]

insert_client(d, p) == clients' = [clients EXCEPT ![d] = @ \cup {p}]

\* cpg_lock_init connects, client_connect_cb accepts.
Connect(p, d) ==
  /\ phase[d] = "up"
  /\ NodeOf[d] = ProcNode[p]
  /\ p \notin ended
  /\ p \notin clients[d]
  /\ insert_client(d, p)
  /\ UNCHANGED <<gvars, daemonVars, calls, ended>>

\* cpg_lock up to its first read: the call takes the next number.
cpg_lock(p, R) ==
  /\ Len(calls[p]) < MaxCalls[p]
  /\ Cardinality({ i \in DOMAIN calls[p] : CallIs(p, i, "wait") }) < Threads
  /\ calls' = [calls EXCEPT ![p] =
                 Append(@, [resource |-> R, try |-> p \in Triers,
                            st |-> "wait", lockid |-> 0])]

\* The daemon adds its node to the client's request.
send_lock(d, p, R) ==
  << Msg("LOCK", R, Owner(NodeOf[d], p, Len(calls[p]) + 1), p \in Triers) >>

\* client_activity_cb for MSG_LOCK.
ClientLock(p, d, R) ==
  /\ p \in clients[d]
  /\ cpg_lock(p, R)
  /\ Send(d, send_lock(d, p, R))
  /\ UNCHANGED <<daemonVars, clients, ended>>

\* The lock record a client's lock id stands for (find_lock_by_id).
find_lock_by_id(d, id) ==
  { R \in Resource : locks[d][R].state # "NONE" /\ locks[d][R].local_id = id }

\* cpg_unlock refuses a lock its caller does not hold.
cpg_unlock(p, i) ==
  /\ CallIs(p, i, "held")
  /\ calls' = [calls EXCEPT ![p][i].st = "done"]

\* client_activity_cb for MSG_UNLOCK: the record stays as it is until the
\* GRANT or UNLOCK comes back.
ClientUnlock(p, d, i) ==
  /\ p \in clients[d]
  /\ cpg_unlock(p, i)
  /\ LET found == find_lock_by_id(d, calls[p][i].lockid)
         R     == CHOOSE x \in found : TRUE
     IN  /\ SetRequests(d, GrantMarked(requests[d], found))
         /\ Send(d, IF found = {} THEN <<>>
                    ELSE GrantOr(requests[d], R,
                                 send_unlock(R, locks[d][R].owner)))
  /\ UNCHANGED <<locks, local_lockid, clients, ended>>

\* Mutant: the release looks for locks not granted yet.
HeldBy_Pending(d, p) ==
  { R \in Resource : /\ locks[d][R].state = "PENDING"
                     /\ locks[d][R].owner.node = NodeOf[d]
                     /\ locks[d][R].owner.pid = p }

\* Locks daemon d records as held by process p of its own node.
HeldBy(d, p) ==
  { R \in Resource : /\ locks[d][R].state = "HELD"
                     /\ locks[d][R].owner.node = NodeOf[d]
                     /\ locks[d][R].owner.pid = p }

\* Mutant: the requests are purged here, and nobody else is told.
SendPurge_LocalOnly(node, pid) == <<>>

SendPurge(node, pid) == << Msg("PURGE", "(none)", Owner(node, pid, 0), FALSE) >>

(***************************************************************************)
(* The connection closes.  A client that never sent LOCK has no pid and is *)
(* only taken off the list; otherwise its requests are purged everywhere   *)
(* and every lock recorded as its own is passed on or unlocked.            *)
(***************************************************************************)
del_client(d, p) ==
  LET kept == purge_requests(requests[d], NodeOf[d], p)
      held == HeldBy(d, p)
  IN  \E order \in Enumerations(held) :
        /\ SetRequests(d, GrantMarked(kept, held))
        /\ SetLocks(d, [R \in Resource |->
             IF R \in held THEN [locks[d][R] EXCEPT !.state = "FREE"]
             ELSE locks[d][R]])
        /\ Send(d, SendPurge(NodeOf[d], p)
                   \o ReleaseEach(kept, order, Owner(NodeOf[d], p, 0)))

\* The handle is closed, by cpg_lock_fin or because the process exits.
cpg_lock_fin(p) == ended' = ended \cup {p}

ClientExit(p, d) ==
  /\ p \in Exiters
  /\ p \in clients[d]
  /\ ExitHolding \/ HeldBy(d, p) = {}
  /\ cpg_lock_fin(p)
  /\ clients' = [clients EXCEPT ![d] = @ \ {p}]
  /\ \/ /\ calls[p] = <<>>
        /\ UNCHANGED <<gvars, locks, requests>>
     \/ /\ calls[p] # <<>>
        /\ del_client(d, p)
  /\ UNCHANGED <<local_lockid, calls>>

-----------------------------------------------------------------------------
(***************************************************************************)
(* Delivery of lock messages (process_request).  All handlers but that of  *)
(* PURGE ignore what comes before the daemon's own JOIN.                   *)
(***************************************************************************)
Delivers(d, request) ==
  /\ HasNext(d)
  /\ NextEntry(d).request = "APP"
  /\ NextEntry(d).body.request = request

Body(d) == NextEntry(d).body

IgnoreBeforeJoin(d) ==
  /\ HasNext(d)
  /\ NextEntry(d).request = "APP"
  /\ Body(d).request # "PURGE"
  /\ ~joined[d]
  /\ DeliverApp(d, <<>>)
  /\ UNCHANGED lockVars

\* get_oldest_node()->nodeid == my_node_id
IAmOldest(d) == NodeOf[Head(group_members[d])] = NodeOf[d]

\* Mutant: the record of a lock being granted still says it is free.
GrantStarted_Free(l) == [l EXCEPT !.state = "FREE"]

\* "Set local state to PENDING to avoid double-grants"
GrantStarted(l) == [l EXCEPT !.state = "PENDING"]

send_nak(m) == << Msg("NAK", m.resource, m.owner, m.try) >>

(***************************************************************************)
(* process_lock.  The request is queued.  It is granted (or rather the     *)
(* first waiting one is) by the owner of a free lock, and by the oldest    *)
(* daemon if there is no record of the lock; the owner of a lock that is   *)
(* not free refuses FL_TRY; everybody else waits to hear of the GRANT.     *)
(***************************************************************************)
process_lock(d) ==
  /\ Delivers(d, "LOCK")
  /\ joined[d]
  /\ LET m     == Body(d)
         R     == m.resource
         l     == locks[d][R]
         queue == requests[d] \cup { Queued(m, pos[d] + 1) }
         new   == l.state = "NONE"
         mine  == ~new /\ l.owner.node = NodeOf[d]
         grant == \/ mine /\ l.state = "FREE"
                  \/ new /\ IAmOldest(d)
     IN  \/ /\ grant
            /\ SetLock(d, R, GrantStarted(l))
            /\ SetRequests(d, GrantMarked(queue, {R}))
            /\ DeliverApp(d, GrantOr(queue, R, <<>>))
         \/ /\ ~grant
            /\ SetLock(d, R, IF new THEN [l EXCEPT !.state = "FREE"] ELSE l)
            /\ SetRequests(d, queue)
            /\ DeliverApp(d, IF mine /\ m.try THEN send_nak(m) ELSE <<>>)
  /\ UNCHANGED <<local_lockid, clientVars>>

(***************************************************************************)
(* process_grant.  The record names the new owner and the request leaves   *)
(* the queue.  The owner's daemon tells its client; if that is gone, it    *)
(* passes the lock on or unlocks it.  If the owner's whole node is gone,   *)
(* the oldest daemon does.  Without a record, one is made and no more.     *)
(***************************************************************************)
\* Mutant: the tid of the new owner is not copied.
GrantDelivered_KeepTid(d, m) ==
  [locks[d][m.resource] EXCEPT !.state = "HELD", !.owner.node = m.owner.node,
                               !.owner.pid = m.owner.pid]

GrantDelivered(d, m) ==
  [locks[d][m.resource] EXCEPT !.state = "HELD", !.owner = m.owner]

process_grant_local(d) ==
  /\ Delivers(d, "GRANT")
  /\ joined[d]
  /\ LET m    == Body(d)
         R    == m.resource
         p    == m.owner.pid
         id   == local_lockid[d] + 1
         left == requests[d] \ Matching(requests[d], m)
         rest == purge_requests(left, NodeOf[d], p)
     IN  /\ locks[d][R].state # "NONE"
         /\ m.owner.node = NodeOf[d]
         /\ local_lockid' = [local_lockid EXCEPT ![d] = id]
         /\ SetLock(d, R, [GrantDelivered(d, m) EXCEPT !.local_id = id])
         /\ \/ /\ find_client(d, p)
               /\ SetRequests(d, left)
               /\ calls' = grant_client(p, m.owner.tid, id)
               /\ DeliverApp(d, <<>>)
            \/ /\ ~find_client(d, p)
               /\ SetRequests(d, GrantMarked(rest, {R}))
               /\ DeliverApp(d, GrantOr(rest, R,
                                  send_unlock(R, m.owner)))
               /\ UNCHANGED calls
  /\ UNCHANGED <<clients, ended>>

process_grant_remote(d) ==
  /\ Delivers(d, "GRANT")
  /\ joined[d]
  /\ LET m    == Body(d)
         R    == m.resource
         left == requests[d] \ Matching(requests[d], m)
     IN  /\ locks[d][R].state # "NONE"
         /\ m.owner.node # NodeOf[d]
         /\ \/ /\ IAmOldest(d)
               /\ ~is_member(group_members[d], m.owner.node)
               /\ SetLock(d, R, [GrantDelivered(d, m) EXCEPT !.state = "FREE"])
               /\ SetRequests(d, GrantMarked(left, {R}))
               /\ DeliverApp(d, GrantOr(left, R,
                                  send_unlock(R, m.owner)))
            \/ /\ ~IAmOldest(d) \/ is_member(group_members[d], m.owner.node)
               /\ SetLock(d, R, GrantDelivered(d, m))
               /\ SetRequests(d, left)
               /\ DeliverApp(d, <<>>)
  /\ UNCHANGED <<local_lockid, clientVars>>

process_grant_unknown(d) ==
  /\ Delivers(d, "GRANT")
  /\ joined[d]
  /\ locks[d][Body(d).resource].state = "NONE"
  /\ SetLock(d, Body(d).resource, GrantDelivered(d, Body(d)))
  /\ DeliverApp(d, <<>>)
  /\ UNCHANGED <<requests, local_lockid, clientVars>>

process_nak(d) ==
  /\ Delivers(d, "NAK")
  /\ joined[d]
  /\ LET m     == Body(d)
         found == Matching(requests[d], m)
         left  == requests[d] \ found
         p     == m.owner.pid
         local == found # {} /\ m.owner.node = NodeOf[d]
     IN  /\ SetRequests(d, IF local /\ ~find_client(d, p)
                           THEN purge_requests(left, NodeOf[d], p) ELSE left)
         /\ calls' = IF local /\ find_client(d, p)
                     THEN nak_client(p, m.owner.tid) ELSE calls
  /\ DeliverApp(d, <<>>)
  /\ UNCHANGED <<locks, local_lockid, clients, ended>>

\* Mutant: only the owner's daemon takes notice of the UNLOCK.
Unlocks_OwnNode(d, l, m) ==
  /\ l.state = "HELD"
  /\ l.owner.node = m.owner.node
  /\ l.owner.pid = m.owner.pid
  /\ l.owner.node = NodeOf[d]

\* Does the UNLOCK m release the lock as daemon d records it?
Unlocks(d, l, m) ==
  /\ l.state = "HELD"
  /\ l.owner.node = m.owner.node
  /\ l.owner.pid = m.owner.pid

\* Mutant: the lock is freed and not passed on.
process_unlock_NoGrant(d) ==
  /\ Delivers(d, "UNLOCK")
  /\ joined[d]
  /\ LET l == locks[d][Body(d).resource]
     IN  SetLock(d, Body(d).resource,
                 IF Unlocks(d, l, Body(d)) THEN [l EXCEPT !.state = "FREE"] ELSE l)
  /\ DeliverApp(d, <<>>)
  /\ UNCHANGED <<requests, local_lockid, clientVars>>

\* process_unlock: the lock is free, and the owner's daemon passes it on.
process_unlock(d) ==
  /\ Delivers(d, "UNLOCK")
  /\ joined[d]
  /\ LET m == Body(d)
         R == m.resource
         l == locks[d][R]
         q == requests[d]
     IN  \/ /\ Unlocks(d, l, m)
            /\ l.owner.node = NodeOf[d]
            /\ SetLock(d, R, [l EXCEPT !.state =
                 IF NextWaiting(q, R) = {} THEN "FREE" ELSE "PENDING"])
            /\ SetRequests(d, GrantMarked(q, {R}))
            /\ DeliverApp(d, GrantOr(q, R, <<>>))
         \/ /\ Unlocks(d, l, m)
            /\ l.owner.node # NodeOf[d]
            /\ SetLock(d, R, [l EXCEPT !.state = "FREE"])
            /\ DeliverApp(d, <<>>)
            /\ UNCHANGED requests
         \/ /\ ~Unlocks(d, l, m)
            /\ DeliverApp(d, <<>>)
            /\ UNCHANGED <<locks, requests>>
  /\ UNCHANGED <<local_lockid, clientVars>>

process_purge(d) ==
  /\ Delivers(d, "PURGE")
  /\ SetRequests(d, purge_requests(requests[d], Body(d).owner.node,
                                   Body(d).owner.pid))
  /\ DeliverApp(d, <<>>)
  /\ UNCHANGED <<locks, local_lockid, clientVars>>

-----------------------------------------------------------------------------
(***************************************************************************)
(* del_node, called by cpg_config_change once member x is off the list.    *)
(***************************************************************************)
\* Mutant: the owner is not looked at.
OwnedBy_Anybody(d, node, state) ==
  { R \in Resource : locks[d][R].state = state }

OwnedBy(d, node, state) ==
  { R \in Resource : locks[d][R].state = state /\ locks[d][R].owner.node = node }

NewOwner(l, e) == [l EXCEPT !.owner.node = NodeOf[e], !.owner.pid = e]

\* The oldest daemon takes the dead node's locks over and passes them on.
RecoverLocks(d, x) ==
  LET node  == NodeOf[x]
      kept  == purge_requests(requests[d], node, 0)
      held  == OwnedBy(d, node, "HELD")
      free  == OwnedBy(d, node, "FREE")
      told  == held \cup { R \in free : NextWaiting(kept, R) # {} }
  IN  \E order \in Enumerations(told) :
        /\ SetRequests(d, GrantMarked(kept, held \cup free))
        /\ SetLocks(d, [R \in Resource |->
             LET l == IF R \in held THEN [locks[d][R] EXCEPT !.state = "FREE"]
                      ELSE locks[d][R]
             IN  IF R \in held \cup free /\ NextWaiting(kept, R) = {}
                 THEN NewOwner(l, d) ELSE l])
        /\ cpg_config_change(d,
             SendPurge(node, 0) \o ReleaseEach(kept, order, Owner(NodeOf[d], d, 0)))

\* Mutant: every lock is made over to the oldest daemon.
ReassignLocks_All(d, x, rest) ==
  /\ SetLocks(d, [R \in Resource |->
       IF rest # <<>> THEN NewOwner(locks[d][R], Head(rest)) ELSE locks[d][R]])
  /\ cpg_config_change(d, <<>>)
  /\ UNCHANGED requests

\* The others only write the oldest daemon in as the new owner.
ReassignLocks(d, x, rest) ==
  /\ SetLocks(d, [R \in Resource |->
       IF rest # <<>> /\ locks[d][R].owner.node = NodeOf[x]
       THEN NewOwner(locks[d][R], Head(rest)) ELSE locks[d][R]])
  /\ cpg_config_change(d, <<>>)
  /\ UNCHANGED requests

(***************************************************************************)
(* A daemon whose own JOIN is still to come may find its list empty when   *)
(* the only other member leaves; get_oldest_node then reads past the list  *)
(* head, and what it compares with my_node_id may be anything.             *)
(***************************************************************************)
del_node(d, x, rest) ==
  \/ /\ rest # <<>> => NodeOf[Head(rest)] = NodeOf[d]
     /\ RecoverLocks(d, x)
  \/ /\ rest # <<>> => NodeOf[Head(rest)] # NodeOf[d]
     /\ ReassignLocks(d, x, rest)

MemberLeaves(d) ==
  /\ HasNext(d)
  /\ NextEntry(d).request = "CONFCHG"
  /\ \E x \in Leavers(group_members[d], NextEntry(d)) :
       del_node(d, x, ListAfterLeave(group_members[d], NextEntry(d)))
  /\ UNCHANGED <<local_lockid, clientVars>>

NobodyLeaves(d) ==
  /\ HasNext(d)
  /\ NextEntry(d).request = "CONFCHG"
  /\ Leavers(group_members[d], NextEntry(d)) = {}
  /\ cpg_config_change(d, <<>>)
  /\ UNCHANGED lockVars

-----------------------------------------------------------------------------
\* The memory of a daemon that is gone.
Forget(d) ==
  /\ locks' = [locks EXCEPT ![d] = [R \in Resource |-> NoLock]]
  /\ requests' = [requests EXCEPT ![d] = {}]
  /\ local_lockid' = [local_lockid EXCEPT ![d] = 0]

\* flag_shutdown refuses while clients are connected.
CleanShutdown(d) ==
  /\ clients[d] = {}
  /\ Shutdown(d)
  /\ Forget(d)
  /\ UNCHANGED clientVars

\* The node dies with its client processes.
NodeCrash(d) ==
  /\ Crash(d)
  /\ Forget(d)
  /\ clients' = [clients EXCEPT ![d] = {}]
  /\ ended' = ended \cup clients[d]
  /\ UNCHANGED calls

\* Its request is queued: nak_client.  If not, the call reads the end of
\* the connection.
DroppedCall(d, p, i) ==
  [calls[p][i] EXCEPT !.st =
     IF @ # "wait" THEN @
     ELSE IF \E r \in requests[d] : r.owner = Owner(NodeOf[d], p, i)
          THEN "nak" ELSE "error"]

(***************************************************************************)
(* cpg_event_cb finds the connection to CPG gone, and main() ends with all *)
(* it has: locks are dropped, waiting calls refused, connections closed.   *)
(* To the others the daemon has left like one that died.  Its clients live *)
(* on, but without a daemon; a holder is not told.                         *)
(***************************************************************************)
CpgLost(d) ==
  /\ d \in CpgLosers
  /\ phase[d] = "up"
  /\ Crash(d)
  /\ Forget(d)
  /\ calls' = [p \in Proc |->
       IF p \in clients[d]
       THEN [i \in DOMAIN calls[p] |-> DroppedCall(d, p, i)] ELSE calls[p]]
  /\ clients' = [clients EXCEPT ![d] = {}]
  /\ ended' = ended \cup clients[d]

\* main() before the event loop.
Start(d) ==
  /\ CpgJoin(d) \/ CpgInitAlone(d) \/ StartFails(d) \/ send_join(d)
  /\ UNCHANGED lockVars

\* JOIN, and the slot of a lost message.
DeliverJoin(d) == process_join(d) /\ UNCHANGED lockVars
DeliverNothing(d) == DeliverLost(d) /\ UNCHANGED lockVars

\* cpg_dispatch: the callbacks CPG makes.
Deliver(d) ==
  \/ IgnoreBeforeJoin(d)
  \/ process_lock(d)
  \/ process_grant_local(d) \/ process_grant_remote(d) \/ process_grant_unknown(d)
  \/ process_nak(d) \/ process_unlock(d) \/ process_purge(d)
  \/ MemberLeaves(d) \/ NobodyLeaves(d)
  \/ DeliverJoin(d) \/ DeliverNothing(d)

ClientStep(p, d) ==
  \/ Connect(p, d)
  \/ \E R \in Resource : ClientLock(p, d, R)
  \/ \E i \in DOMAIN calls[p] : ClientUnlock(p, d, i)
  \/ ClientExit(p, d)

Init ==
  /\ GInit
  /\ locks = [d \in Daemon |-> [R \in Resource |-> NoLock]]
  /\ requests = [d \in Daemon |-> {}]
  /\ local_lockid = [d \in Daemon |-> 0]
  /\ clients = [d \in Daemon |-> {}]
  /\ calls = [p \in Proc |-> <<>>]
  /\ ended = {}

Next ==
  \E d \in Daemon :
    \/ Start(d) \/ Deliver(d)
    \/ CleanShutdown(d) \/ NodeCrash(d) \/ CpgLost(d)
    \/ \E p \in Proc : ClientStep(p, d)

Spec == Init /\ [][Next]_vars

(***************************************************************************)
(* A daemon that has begun to start goes on, and its event loop keeps      *)
(* running.  Client processes are not obliged to call cpg_lock, but one    *)
(* that holds a lock unlocks it in the end.                                *)
(***************************************************************************)
Fairness ==
  /\ \A d \in Daemon :
       /\ WF_vars(Deliver(d))
       /\ WF_vars((CpgInitAlone(d) \/ send_join(d)) /\ UNCHANGED lockVars)
  /\ \A p \in Proc, d \in Daemon :
       WF_vars(\E i \in DOMAIN calls[p] : ClientUnlock(p, d, i))

FairSpec == Spec /\ Fairness

-----------------------------------------------------------------------------
Call == [resource : Resource, try : BOOLEAN,
         st : {"wait", "held", "nak", "error", "done"}, lockid : Nat]

LockRecord ==
  [state : LockState \cup {"NONE"}, owner : Owners, local_id : Nat]

Request ==
  [resource : Resource, owner : Owners, state : {"PENDING", "HELD"}, at : Nat]

(***************************************************************************)
(* Type invariant.                                                         *)
(***************************************************************************)
TypeOK ==
  /\ GTypeOK
  /\ locks \in [Daemon -> [Resource -> LockRecord]]
  /\ requests \in [Daemon -> SUBSET Request]
  /\ local_lockid \in [Daemon -> Nat]
  /\ clients \in [Daemon -> SUBSET Proc]
  /\ calls \in [Proc -> Seq(Call)]
  /\ ended \in SUBSET Proc

\* The calls of live processes on R that are in state st.
CallsOn(R, st) ==
  UNION { { <<p, i>> : i \in { j \in DOMAIN calls[p] :
              calls[p][j].st = st /\ calls[p][j].resource = R } }
          : p \in Proc \ ended }

(***************************************************************************)
(* The lock is a lock: at no moment have two calls been told (grant_client *)
(* after process_grant) that they hold the same resource.                  *)
(***************************************************************************)
MutualExclusion ==
  \A R \in Resource : \A b, c \in CallsOn(R, "held") : b = c

(***************************************************************************)
(* Nobody is forgotten: when every message has been dispatched, a call     *)
(* still waiting in cpg_lock waits for a call that holds the lock.         *)
(***************************************************************************)
NoStrandedWaiter ==
  Settled =>
    \A R \in Resource : CallsOn(R, "wait") # {} => CallsOn(R, "held") # {}

(***************************************************************************)
(* purge_requests takes only what belongs to a process or node that is     *)
(* gone: once all messages have been dispatched, a call still waiting in   *)
(* cpg_lock has its request in the queue of its own daemon.                *)
(***************************************************************************)
RequestsKept ==
  Settled =>
    \A R \in Resource : \A c \in CallsOn(R, "wait") : \A d \in Daemon :
      c[1] \in clients[d] =>
        \E r \in requests[d] : r.resource = R /\ r.owner = Owner(NodeOf[d], c[1], c[2])

(***************************************************************************)
(* "Warning: drops all locks with this client" (cpg_lock_fin): once all    *)
(* messages have been dispatched, no daemon records a process that is gone *)
(* as a holder, or keeps a request of it.                                  *)
(***************************************************************************)
FinDropsLocks ==
  Settled =>
    \A d \in cpg :
      /\ \A R \in Resource :
           locks[d][R].state = "HELD" => locks[d][R].owner.pid \notin ended
      /\ \A r \in requests[d] : r.owner.pid \notin ended

(***************************************************************************)
(* The daemons agree: when every message has been dispatched, all members  *)
(* that know a lock as held know the same owner, and it is a call that     *)
(* holds the lock.                                                         *)
(***************************************************************************)
OwnersAgree ==
  Settled =>
    \A R \in Resource, d \in cpg :
      locks[d][R].state = "HELD" =>
        \E c \in CallsOn(R, "held") :
          locks[d][R].owner = Owner(ProcNode[c[1]], c[1], c[2])

(***************************************************************************)
(* cpg_unlock names a lock by the id its GRANT carried: as long as a call  *)
(* holds the lock, the record of its own daemon still has that id and that *)
(* owner, so that find_lock_by_id finds it and the UNLOCK is meant for it. *)
(***************************************************************************)
UnlockFindsLock ==
  \A R \in Resource : \A c \in CallsOn(R, "held") : \A d \in Daemon :
    c[1] \in clients[d] =>
      locks[d][R] = [state    |-> "HELD",
                     owner    |-> Owner(NodeOf[d], c[1], c[2]),
                     local_id |-> calls[c[1]][c[2]].lockid]

\* The place of a call's LOCK in the agreed order.
AskedAt(c) ==
  CHOOSE i \in 1..Len(log) :
    /\ log[i].request = "APP"
    /\ log[i].body.request = "LOCK"
    /\ log[i].body.owner.pid = c[1]
    /\ log[i].body.owner.tid = c[2]

\* The calls of live processes that queue for R: those without FL_TRY.
Queueing(R) == { c \in CallsOn(R, "wait") : c[1] \notin Triers }

(***************************************************************************)
(* The calls waiting and holding, seen as a service with one queue for     *)
(* each lock, in the order of the LOCK messages.                           *)
(***************************************************************************)
Service ==
  INSTANCE LockService WITH
    ahead  <- [R \in Resource |->
                 [c \in Queueing(R) |->
                    { b \in Queueing(R) : AskedAt(b) < AskedAt(c) }]],
    holder <- [R \in Resource |-> CallsOn(R, "held")]

(***************************************************************************)
(* Every step of the daemons and clients is a step of LockService or       *)
(* leaves it unchanged: in particular locks are given in the order of the  *)
(* LOCK messages, whichever daemon does the granting.                      *)
(***************************************************************************)
ImplementsService == Service!SSpec

(***************************************************************************)
(* And a lock that is free and wanted is given to the first who asked.     *)
(***************************************************************************)
ImplementsFairService == Service!SFairSpec

(***************************************************************************)
(* cpg_lock returns: every call gets an answer, unless its process dies.   *)
(***************************************************************************)
EveryCallAnswered ==
  \A p \in Proc : \A i \in 1..MaxCalls[p] :
    CallIs(p, i, "wait") ~> ~CallIs(p, i, "wait") \/ p \in ended

=============================================================================
