------------------------------ MODULE LockInv -------------------------------
(***************************************************************************)
(* The inductive invariants of the lock protocol while the members of the  *)
(* group stay: daemons may join it and clients may come and go, but none   *)
(* of them crashes, stops or loses CPG, and no client leaves as a holder.  *)
(*                                                                         *)
(* TokenInv is behind MutualExclusion.  The GRANT and UNLOCK messages of a *)
(* lock, in the agreed order, are the hops of one token.  Only the daemon  *)
(* of the owner that the last of them names can send the next, and only    *)
(* once it has dispatched that last one.                                   *)
(*                                                                         *)
(* QueueInv is behind RequestsKept, FinDropsLocks and OwnersAgree.  Every  *)
(* copy of the queue is made of LOCK messages that wait for their GRANT,   *)
(* and a call that waits has its own LOCK to be dispatched or queued.      *)
(*                                                                         *)
(* TurnInv and DutyInv are behind NoStrandedWaiter and ImplementsService:  *)
(* locks are granted in the order of the LOCK messages, and somebody       *)
(* always has to grant.                                                    *)
(***************************************************************************)
EXTENDS Cpglockd, GroupInv

MembersStay ==
  /\ Crashable = {} /\ Stoppable = {} /\ CpgLosers = {}
  /\ ~ExitHolding

MsgAt(i, request, R) ==
  /\ i \in Index
  /\ log[i].request = "APP"
  /\ log[i].body.request = request
  /\ log[i].body.resource = R

OwnerAt(i) == log[i].body.owner

Token(i, R) == MsgAt(i, "GRANT", R) \/ MsgAt(i, "UNLOCK", R)

LastToken(i, R) == Token(i, R) /\ \A k \in Index : Token(k, R) => k <= i

\* A member of this node has its JOIN among the first k entries.
NodeJoined(node, k) ==
  \E e \in cpg, j \in Index : NodeOf[e] = node /\ JoinAt(j, e) /\ j <= k

FirstJoiner(d) ==
  \E j \in Index : JoinAt(j, d) /\ \A i \in Index, e \in Daemon : JoinAt(i, e) => j <= i

NobodyGone == \A d \in Daemon : phase[d] # "gone"

\* Owner o stands for a call of cpg_lock on R.
OfCall(o, R) ==
  /\ o.pid \in Proc
  /\ o.tid \in DOMAIN calls[o.pid]
  /\ calls[o.pid][o.tid].resource = R

(***************************************************************************)
(* Who is granted a lock has asked for it, from a node that had joined.    *)
(***************************************************************************)
Asked ==
  /\ \A i \in Index, R \in Resource :
       MsgAt(i, "LOCK", R) \/ Token(i, R) =>
         OfCall(OwnerAt(i), R) /\ NodeJoined(OwnerAt(i).node, i)
  /\ \A d \in Daemon : \A r \in requests[d] :
       OfCall(r.owner, r.resource) /\ NodeJoined(r.owner.node, pos[d])

\* An UNLOCK follows the GRANT to the same owner.
Paired ==
  \A u \in Index, R \in Resource : MsgAt(u, "UNLOCK", R) =>
    \E g \in Index :
      /\ MsgAt(g, "GRANT", R) /\ g < u /\ OwnerAt(g) = OwnerAt(u)
      /\ \A k \in Index : Token(k, R) => k <= g \/ u <= k

\* The token waits until its owner's daemon has dispatched it.
AtOwner ==
  \A i \in Index, R \in Resource, d \in cpg :
    Token(i, R) /\ OwnerAt(i).node = NodeOf[d] /\ pos[d] < i => LastToken(i, R)

\* The first daemon to join has a record of every lock ever granted.
FirstKnows ==
  \A i \in Index, R \in Resource, d \in Daemon :
    Token(i, R) /\ FirstJoiner(d) => locks[d][R].state # "NONE"

(***************************************************************************)
(* What the record of R at daemon d says of the tokens d has dispatched.   *)
(***************************************************************************)
Record(d, R) ==
  LET l == locks[d][R] IN
  /\ ~joined[d] => l.state = "NONE"
  /\ l.state = "NONE" => l = NoLock
  /\ l.state = "HELD" =>
       \E g \in Index :
         /\ MsgAt(g, "GRANT", R) /\ g <= pos[d] /\ OwnerAt(g) = l.owner
         /\ \A k \in Index : Token(k, R) /\ k <= pos[d] => k <= g
  /\ l.state = "FREE" /\ l.owner.node = NodeOf[d] =>
       \E u \in Index :
         MsgAt(u, "UNLOCK", R) /\ LastToken(u, R) /\ u <= pos[d]
         /\ OwnerAt(u).node = NodeOf[d]

\* The ids a daemon gives to its clients tell its records apart.
IdsDiffer(d) ==
  \A R, S \in Resource :
    /\ locks[d][R].local_id <= local_lockid[d]
    /\ locks[d][R].local_id = locks[d][S].local_id /\ locks[d][R].local_id # 0 => R = S

Records ==
  \A d \in Daemon : IdsDiffer(d) /\ \A R \in Resource : Record(d, R)

Connected ==
  \A d \in Daemon : \A p \in clients[d] :
    phase[d] = "up" /\ NodeOf[d] = ProcNode[p] /\ p \notin ended

(***************************************************************************)
(* A call that holds R has the token: the last GRANT names it, its daemon  *)
(* has dispatched it, and records the call under the id the client has.    *)
(***************************************************************************)
HasToken(p, i, d) ==
  LET c == calls[p][i]
      o == Owner(NodeOf[d], p, i)
  IN  /\ p \in clients[d]
      /\ locks[d][c.resource] = [state |-> "HELD", owner |-> o, local_id |-> c.lockid]
      /\ c.lockid # 0
      /\ \E g \in Index :
           /\ MsgAt(g, "GRANT", c.resource) /\ LastToken(g, c.resource)
           /\ OwnerAt(g) = o /\ g <= pos[d]

Holders ==
  \A p \in Proc \ ended : \A i \in DOMAIN calls[p] :
    calls[p][i].st = "held" => \E d \in Daemon : HasToken(p, i, d)

(***************************************************************************)
(* The invariant of a group whose members stay: every lock has one token,  *)
(* and who holds the lock has it (process_lock, process_grant,             *)
(* process_unlock, client_activity_cb).                                    *)
(***************************************************************************)
TokenInv ==
  /\ NobodyGone /\ Asked /\ Paired /\ AtOwner /\ FirstKnows
  /\ Records /\ Connected /\ Holders

-----------------------------------------------------------------------------
(***************************************************************************)
(* Beside it, the queues, and the calls that wait in them.                 *)
(***************************************************************************)

\* Entry i is this message of owner o about R, or the PURGE of its process.
For(i, request, R, o) == MsgAt(i, request, R) /\ OwnerAt(i) = o

PurgeAt(i, o) ==
  /\ i \in Index
  /\ log[i].request = "APP"
  /\ log[i].body.request = "PURGE"
  /\ log[i].body.owner.node = o.node
  /\ log[i].body.owner.pid = o.pid

\* A request stands for a LOCK that was dispatched.  It leaves the queue
\* with the GRANT to its owner, or with the PURGE of a process that is gone.
Queue(d) ==
  \A r \in requests[d] :
    /\ For(r.at, "LOCK", r.resource, r.owner) /\ r.at <= pos[d]
    /\ locks[d][r.resource].state # "NONE"
    /\ \A g \in Index : For(g, "GRANT", r.resource, r.owner) => pos[d] < g
    /\ r.owner.pid \in ended => \E k \in Index : pos[d] < k /\ PurgeAt(k, r.owner)

\* A call sends one LOCK, from the node of its process, and is granted the
\* lock at most once, after that.
OneLock ==
  \A a \in Index, R \in Resource : MsgAt(a, "LOCK", R) =>
    /\ OwnerAt(a).node = ProcNode[OwnerAt(a).pid]
    /\ \A b \in Index, S \in Resource : For(b, "LOCK", S, OwnerAt(a)) => a = b

OneGrant ==
  \A g \in Index, R \in Resource : MsgAt(g, "GRANT", R) =>
    /\ \E a \in Index : a < g /\ For(a, "LOCK", R, OwnerAt(g))
    /\ \A h \in Index : For(h, "GRANT", R, OwnerAt(g)) => h = g

\* Only requests with FL_TRY are refused.
Refusals ==
  /\ \A i \in Index, R \in Resource :
       MsgAt(i, "NAK", R) \/ (MsgAt(i, "LOCK", R) /\ log[i].body.try) =>
         OwnerAt(i).pid \in Triers
  /\ \A p \in Proc : \A i \in DOMAIN calls[p] : calls[p][i].st = "nak" => p \in Triers

\* A PURGE is about a process that is gone, and follows what it asked for.
Purging ==
  /\ \A i \in Index :
       log[i].request = "APP" /\ log[i].body.request = "PURGE" => OwnerAt(i).pid \in ended
  /\ \A i \in Index, R \in Resource : MsgAt(i, "LOCK", R) /\ OwnerAt(i).pid \in ended =>
       \E k \in Index : i < k /\ PurgeAt(k, OwnerAt(i))

\* A process that has called cpg_lock is connected, until it is gone.
Callers ==
  \A p \in Proc \ ended : calls[p] # <<>> => \E d \in Daemon : p \in clients[d]

\* A call that waits has its LOCK still to be dispatched by its daemon, or
\* queued there; one that was given the lock has its GRANT behind it.
Waits(d, p, i) ==
  LET R == calls[p][i].resource
      o == Owner(NodeOf[d], p, i)
  IN  \E a \in Index :
        /\ For(a, "LOCK", R, o)
        /\ a <= pos[d] => \E r \in requests[d] : r.resource = R /\ r.owner = o

Given(d, p, i) ==
  \E g \in Index :
    For(g, "GRANT", calls[p][i].resource, Owner(NodeOf[d], p, i)) /\ g <= pos[d]

Answers(d) ==
  \A p \in clients[d] : \A i \in DOMAIN calls[p] :
    /\ calls[p][i].st = "wait" => Waits(d, p, i)
    /\ calls[p][i].st \notin {"wait", "nak"} => Given(d, p, i)

\* A daemon has a record of what its own clients asked for.
OwnKnown(d) ==
  \A a \in Index, R \in Resource :
    MsgAt(a, "LOCK", R) /\ OwnerAt(a).node = NodeOf[d] /\ a <= pos[d] =>
      locks[d][R].state # "NONE"

\* Once the owner's daemon has dispatched the last GRANT, it records the
\* owner as the holder, which is connected and was told so, unless its call
\* had been refused before.
Holds(d, R, o) ==
  /\ locks[d][R].state = "HELD" /\ locks[d][R].owner = o
  /\ o.pid \in clients[d]
  /\ CallIs(o.pid, o.tid, "held") \/ CallIs(o.pid, o.tid, "nak")

Kept(d) ==
  \A g \in Index, R \in Resource :
    /\ MsgAt(g, "GRANT", R) /\ LastToken(g, R)
    /\ OwnerAt(g).node = NodeOf[d] /\ g <= pos[d]
    => Holds(d, R, OwnerAt(g))

(***************************************************************************)
(* The invariant about the queues of a group whose members stay: they are  *)
(* made of LOCK messages, no call is granted a lock twice or loses its     *)
(* request, and what a process that is gone asked for is purged            *)
(* (queue_request, grant_next, purge_requests, del_client).                *)
(***************************************************************************)
QueueInv ==
  /\ OneLock /\ OneGrant /\ Refusals /\ Purging /\ Callers
  /\ \A d \in Daemon : Queue(d) /\ Answers(d)
  /\ \A d \in cpg : OwnKnown(d) /\ Kept(d)

-----------------------------------------------------------------------------
(***************************************************************************)
(* Whose turn it is.                                                       *)
(***************************************************************************)

\* The request of this owner keeps its place: nobody refuses or purges it.
Counts(o) == o.pid \notin Triers /\ o.pid \notin ended

Granted(R, o) == \E g \in Index : For(g, "GRANT", R, o)

AfterJoin(d, i) == \E j \in Index : JoinAt(j, d) /\ j < i

\* Whoever asked before a call that was granted the lock was granted it before.
FirstCome ==
  \A g, a, b \in Index, R \in Resource :
    /\ MsgAt(g, "GRANT", R) /\ For(a, "LOCK", R, OwnerAt(g))
    /\ MsgAt(b, "LOCK", R) /\ b < a /\ Counts(OwnerAt(b))
    => \E h \in Index : For(h, "GRANT", R, OwnerAt(b)) /\ h < g

\* A request is marked when its GRANT is sent.
Marked(d) ==
  \A r \in requests[d] : r.state = "HELD" => Granted(r.resource, r.owner)

\* A daemon has every request it has heard of that waits for its GRANT.
HasAll(d) ==
  \A b \in Index, R \in Resource :
    /\ MsgAt(b, "LOCK", R) /\ AfterJoin(d, b) /\ b <= pos[d]
    /\ Counts(OwnerAt(b))
    /\ \A g \in Index : For(g, "GRANT", R, OwnerAt(b)) => pos[d] < g
    => \E r \in requests[d] : r.at = b

(***************************************************************************)
(* The invariant about the order of service: locks are granted in the      *)
(* order of the LOCK messages, whichever daemon passes them on and however *)
(* late it joined, because a daemon that is given a lock has heard of all  *)
(* that asked before and were not granted it (grant_next).                 *)
(***************************************************************************)
TurnInv == FirstCome /\ \A d \in Daemon : Marked(d) /\ HasAll(d)

-----------------------------------------------------------------------------
(***************************************************************************)
(* Who has to grant.                                                       *)
(***************************************************************************)

\* The daemon that formed the group is the oldest and knows that it is.
Founder ==
  LET f == InitGroup[1] IN
  /\ FirstJoiner(f)
  /\ \A j \in Index : JoinAt(j, f) => j <= pos[f]
  /\ total_members[f] # 0
  /\ group_members[f] # <<>> /\ Head(group_members[f]) = f

\* The first daemon to join grants a lock when it first hears of it.
FirstServes ==
  \A d \in Daemon, R \in Resource :
    FirstJoiner(d) /\ locks[d][R].state # "NONE" => \E k \in Index : Token(k, R)

\* The token k is the last one of R that daemon d has dispatched.
LastSeen(d, k, R) ==
  Token(k, R) /\ k <= pos[d] /\ \A i \in Index : Token(i, R) /\ i <= pos[d] => i <= k

\* The owner's daemon records its GRANT until it hears of the next token.
Shows(d) ==
  \A g \in Index, R \in Resource :
    MsgAt(g, "GRANT", R) /\ LastSeen(d, g, R) /\ OwnerAt(g).node = NodeOf[d] =>
      locks[d][R].state = "HELD" /\ locks[d][R].owner = OwnerAt(g)

\* It keeps a free lock only while nobody waits for it.
Idle(d, R) ==
  /\ locks[d][R].state = "FREE" /\ locks[d][R].owner.node = NodeOf[d]
  /\ \A r \in requests[d] : r.resource = R => r.state # "PENDING"

Rests(d) ==
  \A u \in Index, R \in Resource :
    /\ MsgAt(u, "UNLOCK", R) /\ LastToken(u, R)
    /\ OwnerAt(u).node = NodeOf[d] /\ u <= pos[d]
    => Idle(d, R)

(***************************************************************************)
(* The invariant behind NoStrandedWaiter: in a group that has been formed, *)
(* a lock that is asked for is granted by the first daemon, and a lock     *)
(* that comes back is passed on by the daemon of its last owner            *)
(* (process_lock, process_unlock).                                         *)
(***************************************************************************)
DutyInv ==
  InitGroup # <<>> =>
    /\ Founder /\ FirstServes
    /\ \A d \in cpg : Shows(d) /\ Rests(d)

=============================================================================
