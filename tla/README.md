# A verification of cpglockd

cpglockd is a distributed lock server. A daemon on every node of a Corosync
cluster joins one closed process group (CPG); clients talk to the daemon of
their node through a small library. This directory holds TLA+ models of the
daemon and of the client library, TLC configurations that check
them on small clusters, and TLAPS proofs about the membership layer, the start of a
daemon, the lock protocol and the client library for any number of daemons, clients,
threads and locks; among them that the daemons implement an abstract lock service
and the library an abstract call service. Line numbers without a file are those of `src/bin/cpglockd.c`.

## 1. The system

| component | state | operations | correct when |
|---|---|---|---|
| group membership (`cpg_init`, `cpg_config_change`, `process_join`, `get_oldest_node`) | `group_members`, `total_members`, `joined` | join the group, refuse a second daemon of the node, set up the list, JOIN, take leavers off | at most one daemon takes itself for the oldest, and soon one does; the lists agree with CPG |
| lock protocol (`process_lock/grant/nak/unlock`, `grant_next`, `purge_requests`) | `locks`, `requests`, `local_lockid` | one handler per message | one holder per lock, first come first served, nobody waits for a lock nobody holds |
| clients of a daemon (`client_connect_cb`, `client_activity_cb`, `del_client`) | `clients` | connect, LOCK, UNLOCK, close | a client that goes away leaves nothing behind |
| recovery (`del_node`) | the same | purge, take over, pass on | locks of a dead node become available, those of others are untouched |
| client library (`lib/libcpglock.c`) | handle: socket, `seq`, mutex, `pending` | `cpg_lock_init/lock/unlock/fin` | a call returns the first answer given to it, whichever thread reads it, and does return |
| socket input and output (`lib/cpglock_util.c`) | none | `read_timeout`, `write_timeout`, `sock_connect` | whole messages within the time, an error when the other side is gone |
| pid file (`bin/daemon_init.c`) | `/var/run/cpglockd.pid` | check, write, remove | keeps a second daemon of the node away, mostly |
| listening socket and `main` (`bin/sock.c`, 1600-1708) | the socket path | bind, unlink, and the order of start and end | clients reach the daemon that serves the node |
| message history, state dump, `cpglockdump` | `messages`, `message_count` | record, print | diagnostics only |

**How they interact.** The daemon is one thread with an event loop. A client's
LOCK is multicast with the node added; every daemon queues it when it is
delivered. The daemon of the node that owns the lock's record (or the oldest
daemon, if there is no record) multicasts GRANT for the first request; each
daemon writes the new owner into its record on delivery, and the owner's daemon
answers its client. UNLOCK, NAK and PURGE travel the same way. There is no
acknowledgement: the agreed order of CPG is all that keeps the copies together.
In a client process the threads share one handle: whoever reads an answer that is
not its own leaves it on `h->pending`. On a node the daemons that may run at
the same time share the pid file, the socket path and the nodeid.

**What is hard.** Between a decision and the delivery of the message that
announces it, other messages are delivered, clients close their connections and
nodes die. Daemons are at different places of the agreed order at every moment.
A daemon that joins has missed the past: it knows neither locks nor requests. A
node that died may come back before the messages about its death are delivered.
The library lets go of its mutex between any two looks at the socket, and both ends
of the socket write without a time limit. The pid file is read and written without a lock.
`PROJECT.json` lists these hazards by line, with the properties that watch them.

## 2. The modules

| module | content |
|---|---|
| `Group` | CPG (external) and the membership half of the daemon |
| `GroupInv` | the inductive invariant about the agreed order and the lists |
| `SequenceLemmas` | lemmas about the sequence operators the model uses (`RemoveAt`, concatenation, `Min`) |
| `GroupProofs` | the theorems about the membership layer |
| `LockService` | abstract: a queue and at most one holder for each lock |
| `Cpglockd` | the lock protocol, `EXTENDS Group`; the refinement of `LockService` |
| `CpglockdProofs` | its types; what the membership layer promises, with the lock protocol running on it |
| `LockInv` | the inductive invariants of the lock protocol: the token of a lock, the queues, whose turn it is, who has to grant |
| `LockProofs` | mutual exclusion |
| `QueueProofs` | the queues: requests, owners, processes that are gone |
| `ServiceProofs` | the order of service, that nobody is forgotten, and the refinement of `LockService` |
| `Startup` | `main()` around the group: pid file, socket path, start and end; `EXTENDS Group` |
| `StartupProofs` | the theorems about the socket path |
| `CallService` | abstract: each call returns the first answer given to it |
| `ClientLib` | one handle of the library, its threads, the socket, the daemon's side of it; the refinement of `CallService` |
| `ClientLibProofs` | the inductive invariant of the handle, its theorems, the refinement step by step |
| `MCGroup`, `MCStartup`, `MCCpglockd`, `MCClientLib` | instances for TLC |

### Group

`log` is the agreed order: configuration changes, JOINs, lock messages, and the
slots of messages lost with their sender. `pos[d]` says how far daemon `d` has
dispatched it. `phase[d]` is how far `main()` has come: `off`, `cpg_init` (after
`cpg_join`), `listening`, `up` (after `send_join`, in the event loop), `gone`. A
daemon is a process, an element of `Daemon` with a node `NodeOf[d]`; a restart is
another element. Actions correspond to code as follows.

| action | code |
|---|---|
| `CpgJoin`, `cpg_init` (`CpgInitAlone`, `CpgInitDuplicate`) | `cpg_init` up to `cpg_join`, and its look at the membership, 1391-1447 |
| `StartFails`, `send_join` | `main`, 1655-1668, and `cpg_membership_get` failing |
| `cpg_config_change(d, out)` | 1273-1350; `out` is what `del_node` multicasts |
| `DeleteForSelf`; `ConfigChange` is either | 1323-1327 |
| `process_join` | 1179-1214 |
| `DeliverApp`, `Send` | `cpg_deliver_func`; a handler's multicasts |
| `Shutdown`, `Crash` | `flag_shutdown`; node failure |

`Crash(d)` may lose a tail of what `d` sent that no other member has dispatched.
A multicast takes its place in the order at once; a message that takes longer to
be ordered behaves as one sent later, because a daemon learns of its own messages
only by dispatching them. The order in which CPG lists members, and the order in
which libqb iterates over locks, are arbitrary (`Enumerations`). A configuration change
lets in or takes out one daemon. Nodes that die together are taken out by adjacent
changes, which is how `cpg_config_change` goes through `left`. A healed partition, where
several daemons come in at once and none sends a JOIN again, is not modelled: CPG's users
rely on fencing there, and so does this code.

### Cpglockd

`locks[d]` maps each resource to a record (`state`, `owner`, `local_id`; state
`NONE` is no record), `requests[d]` is the queue, a set of requests ordered by the
place `at` of their LOCK in the agreed order. `calls[p]` are the calls of `cpg_lock`
by process `p`, indexed by the `tid` that the library takes from `h->seq`: waiting,
held, refused or done. `clients[d]` are the connections, `ended` the processes that
are gone.

Every handler is one action with all the multicasts it makes: `process_lock`;
`process_grant`, split by its branches into `_local` (the owner is a client of
this node), `_remote` and `_unknown` (no record yet); `process_nak`;
`process_unlock`; `process_purge`; `IgnoreBeforeJoin` for the early return of all
but PURGE; `MemberLeaves` (`cpg_config_change` with `del_node`, in its two roles
`RecoverLocks` and `ReassignLocks`) and `NobodyLeaves`; `ClientLock`,
`ClientUnlock`, `ClientExit` (`del_client`), `Connect`; `CleanShutdown`,
`NodeCrash`, `CpgLost`. When `del_node` looks at an empty list (678) it reads past the list
head: the model lets it take either branch. `CpgLost` is the failing `cpg_dispatch`
(195-204) and what `main` does then (1687-1699): queued calls get NAK, the others find
their connection closed (call state `error`), and the other daemons see a departure. A
holder among the clients is not told; the model counts it among the processes that are
gone, so `MutualExclusion` says nothing of it.

Abstractions: a message between client and daemon is written and read in one step,
and a waiting call takes its answer when the daemon writes it; a request's reading
and its multicast are one step in the code too, so only the moment of reading is
chosen. The branch "GRANT averted" (982-987) needs a GRANT with owner 0, which
nobody sends. A client connects once and has one handle. A dying node takes its
clients with it. One daemon per node (`~DupStart`).

### LockService and the refinement

`ahead[R]` is the queue of `R`: it gives each waiting call without FL_TRY the set of calls
that go before it. `holder[R]` is the set of calls that have been told they hold `R`. A
step is `Ask` (a call goes behind all that wait), `Give` (to a call nobody goes before, only if
nobody holds), `Release`, `Take` (FL_TRY), `Withdraw` (processes go away), or a stutter.
`Cpglockd` maps to it by `Queueing(R)`, the calls that wait, ordered by the place `AskedAt(c)` of
their LOCK in the agreed order: none of the daemons' queues is the queue, since no two need be equal.
`ImplementsService` says cpglockd does nothing else; `ImplementsFairService` adds
that a free lock somebody waits for is given.

### ClientLib and CallService

`pc[t]` says where thread `t` is in `cpg_lock`: `idle`, `write` (it has the mutex and a
number and is about to write), `poll` (in the loop, with the mutex), `asleep` (in `usleep`,
without it). `calls` is the history of calls, indexed by `owner_tid`, and its length is
`h->seq`. `toDaemon` and `toClient` are the two directions of the socket, `writing` is the
message the daemon is in the middle of writing. `conn` is the socket as the client sees it:
`reset` is an end with requests unread, which the kernel reports as POLLERR, `eof` one
without, after which what is in the socket can still be read.

| action | code (`lib/libcpglock.c` unless said) |
|---|---|
| `cpg_lock_init`, `cpg_lock_fin` | 83-109 with `sock_connect`; 285-317 |
| `Enter`, `WriteLock` | 127-150: mutex, number, request |
| `TakePending`, `ReadOwn`, `ReadOther`, `ReadTimeout`, `ReadFails` | one turn of the loop, 154-184, by what it finds |
| `Relock` | 162, 172, 180 |
| `cpg_unlock` | 212-252, without the mutex |
| `client_activity_cb`, `grant_client`, `nak_client`, `DaemonWrite` | `bin/cpglockd.c` 130-164, 812-891; an answer is begun in one step and written in another, since the write may block |
| `DaemonStops`, `drop_all_requests`, `drop_all_clients` | 189-205, 1687-1689 |

Abstractions: when a call is granted or refused is left to chance, within what the lock
protocol does: a lock is granted to one call at a time, a request with FL_TRY may be refused and
granted afterwards. A lock id is the number of the call it was given to. Messages are
128 bytes and nothing else is written, and a local stream socket takes and hands over such a
message in one piece; so the loop over partial reads has one turn. The returns of `cpg_lock` and `cpg_unlock` before
they touch the handle (EINVAL, EBADF, ENAMETOOLONG) change nothing. The application is assumed to
ignore SIGPIPE, as the daemon does. A process has one handle; `cpg_lock_fin`, `Not thread safe`,
is called when no thread is inside.

`CallService` knows calls, the first answer given to each, and what each returned.
`ImplementsCalls` says that the library returns exactly that answer, fails only when the
connection is gone, and returns in the end.

### Startup

`stage[d]` is where `main()` is: `none`, `checked` (past the pid file), `opened` (the file
truncated), `detached` (opened, and unlinked by somebody else), `pid` (written), `bound`
(listening), `closing` (socket closed and unlinked), `cleanup` (out of the group), `exited`.
`phase[d]` of `Group` goes on beside it. `pidfile[n]` and `sockpath[n]` are what the two paths of node `n`
lead to. Each step of `main` is an action of its own: `daemon_init`, `OpenPidfile`,
`WritePidfile` (`update_pidfile`), `JoinGroup`, `CheckGroup` (the two halves of `cpg_init`), `sock_listen`, `NoSocket`
(it fails, having unlinked the path or not), `EnterLoop`,
`Dispatch`, `CloseSocket`, `LeaveGroup`, `daemon_cleanup`; `GiveUp`, `ExitForSelf`, `Killed` end it.
`CpgLost` is the loss of the connection to CPG (189-205): the others see a departure, while `main` goes on
with the socket bound, or still to be bound, and unlinks the path when it gets to 1697 (`CutOff`; the daemons of
`CpgLosers`).
The pid in a stale pid file is never that of another cpglockd.

`SocketKept` is what the pid file is there for and does not give: the path of the daemon that serves is not
taken by another one. It is the order "join the group, then look for another daemon, then bind" on the way in,
and "unlink, then leave" on the way out, that brings this about. A daemon that loses CPG is out of the group
before it unlinks, so for this one the order does not hold, and `SocketKept` excepts its steps: its successor
finds itself alone, binds, and loses the path to the unlink at 1697. `PathServed` says that on a node without
such a daemon the path always leads to the one that serves.

## 3. What the runs check

Passing runs.

| run | instance | properties | what it shows |
|---|---|---|---|
| `group_start` | 3 nodes, all may crash, 2 may be stopped | `GTypeOK`, `IndInv`, `AtMostOneOldest`, `JoinedIsListed`, `CountCoversList`, `MembershipAgreed`, `OldestPresent`, `OldestEmerges` | the membership algorithm |
| `startup` | 2 nodes, 2 daemons on one; both may be stopped or give up, one of them may lose CPG, it and the daemon of the other node may be killed | `SocketKept`, `CountCoversList`, `MembershipAgreed` | what holds although the pid file lets two daemons start |
| `service` | 2 daemons, 3 processes (2 on one node), 1 lock, one process may go away while it does not hold | `TypeOK`, `UnlockFindsLock`, `TokenInv`, `QueueInv`, `TurnInv`, `DutyInv`, `NoStrandedWaiter`, `RequestsKept`, `FinDropsLocks`, `OwnersAgree`, `EveryCallAnswered`, `ImplementsFairService` | the service, safety and liveness, with the inductive invariants of the proofs |
| `holding` | a group of 1, a second daemon comes, fails or is shut down; 1 lock; one process with 2 threads may exit while holding | `NoStrandedWaiter`, `FinDropsLocks` | `del_client` with the lock held and a GRANT in flight; a newcomer that knows no locks |
| `crash` | 3 daemons, the two oldest may die, one caller with FL_TRY | `UnlockFindsLock`, `MutualExclusion`, `ImplementsService` | recovery touches only what is dead |
| `restart` | a group of 1 that may die or lose CPG while a second daemon joins, and come back | `MutualExclusion`, `UnlockFindsLock` | joining, recovery and restart together |
| `client_lib` | 3 threads, 2 locks, 3 calls, one thread with FL_TRY, 2 messages in each direction of the socket, the daemon may stop | `CLTypeOK`, `NoAnswerLost`, `HeldAsRecorded`, `OnlyLateGrantsStay`, `NoGridlock`, `ImplementsCalls` | the shared handle, safety and liveness |

Runs that end in a counterexample: the code disagrees with its own comments.

| run | property | what happens |
|---|---|---|
| `double_grant` | `MutualExclusion` | a client unlocks and closes its connection: the lock is passed on twice. The second way there is below |
| `try_leak` | `OwnersAgree` | a call with FL_TRY gets NAK, then GRANT: it returned -1 and is recorded as the holder |
| `oldest_leaves` | `NoStrandedWaiter` | the oldest daemon dies before it dispatches the first LOCK of a resource: nobody ever grants it |
| `late_purge` | `RequestsKept` | the PURGE for a dead node takes a request of the daemon that replaced it |
| `dup_oldest` | `AtMostOneOldest` | a daemon takes the JOIN of another daemon of its node for its own, and itself for the oldest |

Seen while modelling, without a run of their own:

- the instance of `double_grant` has two shortest counterexamples, of equal length. In the second nobody
  unlocks: the client exits as the holder, `del_client` sets the record FREE (651) and multicasts a GRANT, and a LOCK
  delivered before it finds the record local and FREE (932-936) and is granted too. It takes two clients besides the one
  that exits; `holding` has one, and does not check `MutualExclusion`;
- a daemon that loses CPG unlinks the path of its successor (see `Startup`): without the exception
  `SocketKept` fails in the instance of `startup`;
- with two daemons of a node `OldestPresent` and `JoinedIsListed` fail too: the JOIN of
  the daemon that stays is ignored while the one that gives up is listed (1193);
- of two daemons that start together without a group the second to enter CPG may send its JOIN first: it
  lists the other before itself (1293) and leaves a LOCK ordered between the two JOINs to it, and the
  other ignores that LOCK (923). Nothing fails, and nobody grants the lock: `NoStrandedWaiter` does not
  hold with `InitGroup = <<>>`, two daemons and one client;
- two daemons of a node that start together can find each other at 1437, and both give up;
- the daemon that gives up removes the pid file of the one that stays (`daemon_cleanup`);
- when the oldest dies after another node and before its PURGE is delivered, the first
  node's requests stay queued (`FinDropsLocks` fails in the instance of `crash`);
- a GRANT to a node that died, delivered after its departure, makes it the owner again (995). If
  somebody waits the oldest passes the lock on. If nobody does, the oldest too is left with a FREE record whose owner is the dead
  node (1031-1039): no later LOCK finds the record its own anywhere, and the lock is stuck for the whole cluster.
  One LOCK and one crash are enough, in the instance of `crash`;
- a request with FL_TRY delivered while a new lock's first GRANT is under way waits
  instead of being refused;
- a GRANT to a call that was refused stays on `h->pending` until `cpg_lock_fin`.

**Bounds.** `MaxCalls` bounds the calls of a process and `Threads` those it has under way
at once; each daemon starts once. Three competing calls are enough for a queue of
two behind a holder, which is where order and double grants show; two processes on
one node separate "same node" from "same process"; three daemons are enough for an
oldest, a successor and a bystander. In `ClientLib`, `MaxSeq` bounds the calls of the handle and `SockBuf` the
messages in a direction of the socket. Three threads are enough for one that reads the answer
of a second while a third writes. `NoGridlock` depends on the room: for three threads
and two locks two messages suffice; with one it fails. `NeverGridlocked` proves how much room
is enough, and a real socket holds hundreds of messages. A crash may cut any undelivered tail. Every
run explores its instance completely. No symmetry is used: daemons differ by age.
`CHECK_DEADLOCK FALSE` everywhere: calls are bounded, and clients and daemons may stop.

**Settled.** Several properties speak of states where every member is up and has
dispatched the whole order. They then say what must be true with nothing under way,
which is where a lost request or a wrong owner shows.

**Fairness.** `GFairness` and `Fairness`: a daemon that called `cpg_join` goes on
(`main` has no wait before the loop), and the event loop goes on dispatching
(`qb_loop_run`, with the CPG descriptor at high priority; CPG delivers to every
member). Liveness of locks also needs that whoever holds a lock unlocks it, or that
its process goes away. `CLFairness`: a thread that has the mutex goes on unless its write
blocks, the daemon writes what it has begun to write and reads what has come. `Relock` has strong
fairness: a mutex owes nobody a turn, but each thread sleeps for a random time without it on
every turn, so one that wants it finds it free again and again. Nobody is obliged to answer a call. No client is obliged to call, no daemon to start, stop or crash.

## 4. What is proved

The theorems hold for every value of the constants that `GroupAssumption` and the
assumptions of the component allow: any finite set of daemons, any initial group,
any number of clients, threads, locks and calls.

| module | theorem | statement |
|---|---|---|
| `GroupProofs` | `TypeCorrect` | `GSpec => []GTypeOK` |
| | `Inductive` | if `~DupStart`: `GSpec => []IndInv` |
| | `OneOldest` | if `~DupStart`: `GSpec => []AtMostOneOldest` |
| | `OldestDefined` | if `~DupStart`: `GSpec => []JoinedIsListed` |
| | `SetupOnce` | if `~DupStart`: `GSpec => []CountCoversList` |
| | `OrderInductive` | if `~DupStart`: `OrderInv` always holds beside `IndInv` |
| | `ListsAgree` | if `~DupStart`: `GSpec => []MembershipAgreed` |
| | `SomebodyIsOldest` | if `~DupStart`: `GSpec => []OldestPresent` |
| `StartupProofs` | `SocketSafe` | if `DupStart` and no group is formed yet (`StartupAssumption`): `SUSpec => SocketKept` |
| | `PathLeadsToServer` | the same: `SUSpec => []PathServed` |
| `CpglockdProofs` | `LockTypeCorrect` | `Spec => []TypeOK` |
| | `MembershipUnderLocks` | the invariants of the membership layer hold under `Spec` |
| `LockProofs` | `TokenInductive` | if `MembersStay`: `TokenInv` always holds |
| | `LockExcludes` | if `MembersStay`: `Spec => []MutualExclusion` |
| | `UnlockFinds` | if `MembersStay`: `Spec => []UnlockFindsLock` |
| `QueueProofs` | `QueueInductive` | if `MembersStay`: `QueueInv` always holds beside `TokenInv` |
| | `NoRequestLost` | if `MembersStay`: `Spec => []RequestsKept` |
| | `FinDrops` | if `MembersStay`: `Spec => []FinDropsLocks` |
| | `OneOwner` | if `MembersStay` and `Triers = {}`: `Spec => []OwnersAgree` |
| `ServiceProofs` | `TurnInductive` | if `MembersStay`: `TurnInv` always holds |
| | `DutyInductive` | if `MembersStay`: `DutyInv` always holds |
| | `NobodyStranded` | if `MembersStay`, `Triers = {}` and `InitGroup # <<>>`: `Spec => []NoStrandedWaiter` |
| | `ServiceRefined` | if `MembersStay`: `Spec => ImplementsService` |
| `ClientLibProofs` | `ClientTypeCorrect` | `CLSpec => []CLTypeOK` |
| | `ClientInductive` | `CLSpec => []ClientInv` |
| | `AnswersKept` | `CLSpec => []NoAnswerLost` |
| | `HeldIsRecorded` | `CLSpec => []HeldAsRecorded` |
| | `LateGrantsOnly` | `CLSpec => []OnlyLateGrantsStay` |
| | `ImplementsCallService` | `CLSpec => Service!CSSafety`: every step of the library is a step of `CallService` or a stutter |
| | `NeverGridlocked` | if threads and locks are at most `2 * SockBuf + 1` together: `CLSpec => []NoGridlock` |

`~DupStart` is the pid file's promise that a node runs one daemon at a time;
`AtMostOneOldest` is false without it. `Cpglockd` assumes it throughout. The theorems about the
lock protocol take `Payload = LockMsg`: what travels as a lock message is
one of the messages the handlers send, as in every configuration here. `0 \notin Node` is
assumed because the code uses nodeid 0 for "nobody": a new record comes zeroed from `calloc`;
and `0 \notin Proc` because a PURGE with pid 0 is about all processes of a node.

### Membership

`AtMostOneOldest` compares two daemons that may stand at different
places of the agreed order, so it is not inductive. Take two daemons that have each
seen their own JOIN, that of `e` being the earlier one. Then `d`, whose JOIN came
later, has dispatched both, and must have `e` on its list before itself: then `d` is
not the head of its own list. This is `Complete(d)` of `GroupInv`, for every prefix
`d` may have dispatched. To keep it through a step one needs

- `Progress` and `Sound`: a daemon's list is empty until its own configuration change;
  nobody is listed twice, nobody who is known to have left, nobody else of its own node;
- `LogInv`: each daemon enters, sends one JOIN and leaves, in this order; a change
  lets in or takes out one daemon; a member that has sent its JOIN is among the
  members of all later changes; an earlier daemon of a node left before the next entered.

The last two make the initial list of a newcomer complete; its own JOIN then appends
it behind everybody whose JOIN came before.
`IndInv` is also checked by TLC in `group_start`. One lemma per action shows that it
is kept; the lemmas about `cpg_config_change` and lock traffic hold for arbitrary
`out`, so that the lock layer can use them.

That somebody is the oldest is the other half, and needs `OrderInv`: members in the
event loop have their JOIN in the order, and on every list those who joined after the
lister stand behind it. This is what `MoveToTail` in `process_join` is for: a
daemon that was listed by the membership of CPG before it joined is moved behind those
that joined earlier. In a settled state the member with the earliest JOIN then heads its list.

### The socket path

`SocketKept` speaks of single steps; what has to be excluded is that, while a daemon serves, a second one of its node
is about to bind or to unlink. `SocketInv` says who may: `OneAdmitted`, two daemons of a node are never
both past the look at the membership and in the group. It is kept because whoever has passed it is still in the
group and is seen by the other's look (`JoinedSeen`), and because a daemon that has the socket was let in and has not left
of its own accord (`BoundAdmitted`); one that is out and does not know is cut off (`CutOffLost`, `PidFirst`). `PathStep` draws from it
what a step does to the path of a daemon that serves: it has just bound it, keeps it, or loses it to one that is cut
off. Both theorems follow. Neither the pid file nor the lists are used.

### The lock protocol

Each handler is shown to be, for the variables of `Group`, one of the moves of
the membership layer with some sequence of multicasts, so that every invariant of
that layer is inherited (`MembershipUnderLocks`). This and `LockTypeCorrect` need no
condition on crashes: what `del_node`, `del_client` and `purge_requests` send is covered.

`MutualExclusion` says that no two calls hold a lock. It speaks of clients only, while
the decision to grant is made by daemons that stand at different places of the
order and keep copies of the record that differ; so it is far from inductive.
The argument is that the GRANT and UNLOCK messages of a lock are the hops of one
token. `TokenInv` of `LockInv` says:

- `AtOwner`: while the daemon of the owner a token names has not dispatched it, it is
  the last token of the lock. Every other daemon's record names an owner of another node and keeps quiet.
- `FirstKnows`: the first daemon that joined has a record of every lock that was ever granted.
  A lock without a record is granted by the oldest daemon only. Since nobody leaves, that is the first joiner, so
  it grants only a lock that has no token yet, and a newcomer that knows no locks grants none.
- `Paired`: an UNLOCK follows the GRANT to the same owner, with no token between.
- `Record`: a record in state held shows the last GRANT its daemon has dispatched, and a free
  record whose owner is of the daemon's own node means that the last token of all is an UNLOCK of that node
  which it has dispatched. Only then does `process_lock` or `grant_next` grant.
- `IdsDiffer`: lock ids tell the records of a daemon apart, so `client_activity_cb`
  releases the lock the client means.
- `Holders`: a call that holds the lock is named by the last token, a GRANT; its daemon has dispatched it and
  records the call, under the id the client has.

Two holders of one lock are then named by one message, hence are one call. `Asked` and `Connected`
say that the owners in messages are calls of processes of nodes that have joined.

`MembersStay` is the condition of these theorems: no daemon crashes, stops or loses CPG, and
no client goes away while a record names it as the holder. Daemons may join late, clients may come, go
while they wait, and use FL_TRY. The condition on clients is needed: `double_grant` is the counterexample
without it. The other three keep recovery out of the proof: `del_node`
makes the oldest daemon send a second token of its own. That this is right is only
model-checked (`crash`, `restart`). TLC checks all four invariants of `LockInv` in `service`, where
`MembersStay` holds; two instances that are not kept, one with a daemon that joins late and one with a
caller that uses FL_TRY, were explored to the end as well.

### The queues

A daemon's queue is a copy: daemons that joined at different times have heard of different LOCKs,
a request is marked by the daemon that grants it long before the others hear of the GRANT, and a
PURGE takes requests from under a GRANT that is under way. `QueueInv` therefore speaks of each
copy against the agreed order, never of two copies:

- `Queue`: a request stands for a LOCK its daemon has dispatched; it is there only as long as
  the GRANT to its owner is not dispatched, and if its process is gone, a PURGE is still to come;
- `OneLock`, `OneGrant`: a call sends one LOCK and is granted the lock at most once. This is where the marks in the
  queue matter: a daemon marks the request it grants, and `TokenInv` lets nobody else grant meanwhile;
- `Refusals`, `Purging`, `Callers`: only calls with FL_TRY are refused, and only what a process
  that is gone asked for is purged, after it has asked;
- `Answers`, `OwnKnown`, `Kept`: at its own daemon a call that waits has its LOCK to be dispatched or
  queued, and a call that was given the lock is on the record until its UNLOCK.

In a settled state nothing is under way, and `RequestsKept`, `FinDropsLocks` and `OwnersAgree` are what is left
of it. `OneOwner` assumes `Triers = {}`: `try_leak` is the counterexample with FL_TRY.

### The order of service, and that somebody serves

`TurnInv` is about who is next. `FirstCome`: whoever asked before a call that was granted the lock was granted
it before, unless it may be refused or is gone (`Counts`). Only a daemon that has heard of all that wait can keep this, and a late joiner has
not. But `HasAll` says that it has all it has heard of since its JOIN; and it grants a lock only if
it was first to join or if a GRANT has named a client of its node. That client's LOCK came after
the JOIN, so by `FirstCome` everybody who asked before the JOIN has been served.

`DutyInv` is about whether anybody is next: in a group that has been formed, its founder is the first joiner, is
the oldest for itself at all times, and grants every new lock it hears of (`Founder`, `FirstServes`); after that the
owner's daemon keeps the lock recorded until it hears of the next token (`Shows`), and keeps it free only while its
queue has nobody to grant it to (`Rests`). `NobodyStranded` combines the two: in a settled state a call that waits is in the queue
of the daemon the last token came to, so that this daemon does not rest, and the holder its
record shows is a call that holds. Both conditions are needed: with FL_TRY a call that returned -1 may be recorded as the holder
(`try_leak`), and two daemons that form a group by starting together may leave a lock to each other (section 3).

### The refinement of the lock service

`ServiceRefined` maps the queue of `LockService` to the calls that wait, ordered by their LOCK
messages, and its holder to the calls that have been told. `Places` (from the invariants) says that a call that waits has one
LOCK, at `AskedAt`, and that its daemon has dispatched no GRANT to it (`StillWaits`). A place does not change when
the order grows, so that a step which moves no call leaves the service as it is. `CallSteps` says for every
action which call it moves and from where to where (`CallMoves`):

- a client's LOCK puts a call behind everybody who waits (`Ask`);
- the GRANT dispatched by the owner's daemon gives the lock to its owner. `MutualExclusion` after
  the step gives that nobody held it. Nobody goes before the owner (`Give`): by `FirstCome` whoever asked before had his GRANT
  before, and by `AtOwner` his daemon has dispatched it. A call with FL_TRY needs the first only (`Take`);
- a client's UNLOCK is `Release`, a client that closes is `Withdraw`; a NAK, a PURGE, an UNLOCK dispatched, a JOIN or a
  configuration change moves no call of the service.

### The client library

`NoAnswerLost` is kept by a step only if whoever reads or puts aside an answer finds it where it
must be. `ClientInv` adds

- `InCall`: a thread inside `cpg_lock` is in a call of its own that has not returned; no two threads have one number;
- `Posted`: a request is in the socket at most once, and the daemon has not heard of it while it is there or not yet written;
- `Line`: what is on `h->pending`, then in the socket, then in the daemon's write, is one line in which no
  answer stands twice and the NAK of a call stands before the GRANT that followed it. A thread that puts aside an answer of another
  call takes it from the head of the socket to the end of `h->pending`, which leaves the line as it is;
- `Answered`, `Way`: which answers a call can be given, and which are under way before and after it returns;
- `Recorded`: a GRANT that is under way or was returned is on the daemon's record.

`ImplementsCallService` then shows for each action which step of
`CallService` it is. The liveness part of `ImplementsCalls` is TLC's.

`NeverGridlocked` is a matter of counting. If the daemon and a thread were both blocked, `SockBuf` messages would
be in each direction, and one more being written. `Inside` and `Releasing` are two more invariants, kept beside
`ClientInv`: a call that has not returned has a thread in it, and an UNLOCK in the socket finds its lock on record. So
for each LOCK and each NAK in between there is a thread of its own that polls or sleeps (`Awaited`), and for each GRANT and UNLOCK a
lock of its own (`OnRecord`). These are two injections, into the threads without the one that is blocked and into the locks; the
lemmas on finite cardinalities do the rest. The number of calls does not matter. The bound is met exactly by
the instance of `client_lib`.

## 5. What is only model-checked, and what is not modelled

Only checked by TLC:

- liveness (`OldestEmerges`, `EveryCallAnswered`, the fair parts of `ImplementsFairService` and `ImplementsCalls`): fairness
  and `ENABLED` are out of the prover's reach;
- of the lock protocol, everything with crashes, shutdowns, loss of CPG, or clients that exit as holders (`holding`, `crash`, `restart`):
  `MutualExclusion`, `UnlockFindsLock`, `NoStrandedWaiter`, `FinDropsLocks` and `ImplementsService` are proved for
  a group whose members stay (`MembersStay`);
- what the lists are with `DupStart` (`startup`).

Every invariant a passing run checks is stated by a theorem, under the conditions of section 4.

Not modelled:

- several handles in one process; partial reads and writes, and waiting for memory (`wait_calloc`);
- several daemons that come in by one configuration change after a partition;
- a multicast that fails and is retried (467-474), MSG_HALT (nothing sends it);
- a pid file that cannot be opened (`bin/daemon_init.c`, 152);
- message history and dump (`old_msg`, `dump_state`, `cpg_lock_dump`, `cpglockdump`): they read the
  state and print it, and no handler reads the history;
- byte order, options, logging: they do not change the protocol.

## 6. Plan

1. The membership layer, its invariant and its proof. Done.
2. The lock protocol, the abstract service, crash and restart. Done.
3. The client library and its abstract specification, the pid file and the socket path, the loss of CPG. Done.
4. Proofs: the socket path, the membership layer with `MembershipAgreed` and `OldestPresent`, the client library
   and its refinement. Done.
5. Proofs for the lock layer: types, the membership layer under it, mutual exclusion while the members stay. Done.
6. Proofs: the queues, the order of service, that nobody is forgotten, the safety part of `ImplementsService`,
   all while the members stay; the room the socket needs. Done.
7. Open: `TokenInv` with daemons that crash, where the token may be lost and is made anew by `del_node`. `AtOwner` is then
   false as it stands: a GRANT to a dead node may be followed by the one `del_node` sends.

## 7. Running it

    tlc -workers 2 -config MCService.cfg MCCpglockd
    tlc -workers 2 -config MCClientLib.cfg MCClientLib
    tlapm SequenceLemmas.tla
    tlapm GroupProofs.tla
    tlapm StartupProofs.tla
    tlapm CpglockdProofs.tla
    tlapm LockProofs.tla
    tlapm QueueProofs.tla
    tlapm ServiceProofs.tla
    tlapm ClientLibProofs.tla
