--------------------------- MODULE CpglockdProofs ---------------------------
(***************************************************************************)
(* Proofs about module Cpglockd: its types, and what it inherits from the  *)
(* membership layer under lock traffic.  Any number of nodes, daemons,     *)
(* processes, locks and calls; daemons may start, stop, crash and lose     *)
(* CPG, and processes may exit at any time.                                *)
(***************************************************************************)
EXTENDS Cpglockd, GroupProofs

-----------------------------------------------------------------------------
(***************************************************************************)
(* What each action has to show: the lock protocol's own variables keep    *)
(* their types, and the membership layer makes a step of its own, in which *)
(* messages of the lock protocol may be multicast, or none.                *)
(***************************************************************************)
LockTypes ==
  /\ locks \in [Daemon -> [Resource -> LockRecord]]
  /\ requests \in [Daemon -> SUBSET Request]
  /\ local_lockid \in [Daemon -> Nat]
  /\ clients \in [Daemon -> SUBSET Proc]
  /\ calls \in [Proc -> Seq(Call)]
  /\ ended \in SUBSET Proc

Moves(d) == (\E out \in Seq(Payload) : GMove(d, out)) \/ UNCHANGED gvars

-----------------------------------------------------------------------------
(***************************************************************************)
(* Messages, requests and records.                                         *)
(***************************************************************************)

\* Owners a daemon writes into messages and records.
LEMMA OwnerTypes ==
  ASSUME NEW d \in Daemon
  PROVE  /\ NodeOf[d] \in Node
         /\ NoOwner \in Owners /\ NoLock \in LockRecord
         /\ \A n \in Node \cup {0}, p \in Pid, t \in Nat : Owner(n, p, t) \in Owners
  BY GroupAssumption DEF Owner, Owners, NoOwner, NoLock, Pid, LockRecord, LockState

\* The messages of the lock protocol.
LEMMA MsgTypes ==
  ASSUME NEW o \in Owners
  PROVE  /\ \A R \in Resource, t \in BOOLEAN, q \in {"LOCK", "GRANT", "NAK", "UNLOCK"} :
              Msg(q, R, o, t) \in LockMsg
         /\ Msg("PURGE", "(none)", o, FALSE) \in LockMsg
  BY DEF Msg, LockMsg

\* What a handler finds in the message it is called for.
LEMMA BodyTypes ==
  ASSUME Payload = LockMsg, GTypeOK, NEW d \in Daemon, HasNext(d),
         NextEntry(d).request = "APP"
  PROVE  /\ Body(d) \in LockMsg /\ Body(d).owner \in Owners
         /\ Body(d).owner.pid \in Pid /\ Body(d).owner.tid \in Nat
         /\ Body(d).owner.node \in Node \cup {0}
         /\ Body(d).try \in BOOLEAN
         /\ Body(d).request # "PURGE" => Body(d).resource \in Resource
<1>1. NextEntry(d) \in Entry
  BY ElementOfSeq DEF GTypeOK, HasNext, NextEntry
<1>2. Body(d) \in LockMsg
  BY <1>1 DEF Entry, Lost, Body
<1>3. Body(d).owner \in Owners /\ Body(d).try \in BOOLEAN
      /\ (Body(d).request # "PURGE" => Body(d).resource \in Resource)
  BY <1>2 DEF LockMsg
<1> QED BY <1>2, <1>3 DEF Owners

\* A message is multicast alone.
LEMMA OneMessage ==
  ASSUME NEW S, NEW m \in S
  PROVE  << m >> \in Seq(S)
  OBVIOUS

\* The operations on the queue, and what is multicast from it.
LEMMA QueueTypes ==
  ASSUME NEW reqs \in SUBSET Request
  PROVE  /\ \A Rs : GrantMarked(reqs, Rs) \in SUBSET Request
         /\ \A n, p : purge_requests(reqs, n, p) \in SUBSET Request
         /\ \A R : NextWaiting(reqs, R) \in SUBSET reqs
         /\ \A R \in Resource : NextWaiting(reqs, R) # {} =>
              GrantMsg(reqs, R) \in LockMsg
<1>1. \A R : NextWaiting(reqs, R) \in SUBSET reqs
  BY DEF NextWaiting
<1>2. \A r \in Request : [r EXCEPT !.state = "HELD"] \in Request /\ r.owner \in Owners
  BY DEF Request
<1>3. ASSUME NEW Rs PROVE GrantMarked(reqs, Rs) \in SUBSET Request
  BY <1>2 DEF GrantMarked
<1>4. \A n, p : purge_requests(reqs, n, p) \in SUBSET Request
  BY DEF purge_requests
<1>5. ASSUME NEW R \in Resource, NextWaiting(reqs, R) # {}
      PROVE  GrantMsg(reqs, R) \in LockMsg
  <2>1. PICK r : r = CHOOSE x \in NextWaiting(reqs, R) : TRUE
    OBVIOUS
  <2>2. r \in NextWaiting(reqs, R)
    BY <1>5, <2>1
  <2>3. r.owner \in Owners
    BY <1>1, <1>2, <2>2
  <2> QED BY <2>1, <2>3, MsgTypes DEF GrantMsg
<1> QED BY <1>1, <1>3, <1>4, <1>5

LEMMA GrantOrTyped ==
  ASSUME Payload = LockMsg, NEW reqs \in SUBSET Request, NEW R \in Resource,
         NEW z \in Seq(Payload)
  PROVE  GrantOr(reqs, R, z) \in Seq(Payload)
<1>1. NextWaiting(reqs, R) # {} => GrantMsg(reqs, R) \in Payload
  BY QueueTypes
<1>2. NextWaiting(reqs, R) # {} => << GrantMsg(reqs, R) >> \in Seq(Payload)
  BY <1>1, OneMessage
<1> QED BY <1>2 DEF GrantOr

LEMMA SendTyped ==
  ASSUME Payload = LockMsg, NEW o \in Owners
  PROVE  /\ <<>> \in Seq(Payload)
         /\ \A R \in Resource : send_unlock(R, o) \in Seq(Payload)
         /\ \A R \in Resource, t \in BOOLEAN : << Msg("LOCK", R, o, t) >> \in Seq(Payload)
         /\ \A R \in Resource, t \in BOOLEAN : << Msg("NAK", R, o, t) >> \in Seq(Payload)
         /\ << Msg("PURGE", "(none)", o, FALSE) >> \in Seq(Payload)
<1>1. /\ \A R \in Resource : UnlockMsg(R, o) \in Payload
      /\ \A R \in Resource, t \in BOOLEAN : Msg("LOCK", R, o, t) \in Payload
      /\ \A R \in Resource, t \in BOOLEAN : Msg("NAK", R, o, t) \in Payload
      /\ Msg("PURGE", "(none)", o, FALSE) \in Payload
  BY MsgTypes DEF UnlockMsg
<1>2. \A m \in Payload : << m >> \in Seq(Payload)
  BY OneMessage
<1>3. <<>> \in Seq(Payload)
  OBVIOUS
<1> QED BY <1>1, <1>2, <1>3 DEF send_unlock

\* Recovery multicasts a message for each lock it goes through.
LEMMA ReleaseTyped ==
  ASSUME Payload = LockMsg, NEW reqs \in SUBSET Request, NEW o \in Owners,
         NEW S \in SUBSET Resource, NEW order \in Enumerations(S), NEW n \in Node,
         NEW p \in Pid
  PROVE  SendPurge(n, p) \o ReleaseEach(reqs, order, o) \in Seq(Payload)
<1>1. IsFiniteSet(S)
  BY LockAssumption, FS_Subset
<1>2. order \in Seq(S)
  BY <1>1, EnumerationsProperties
<1>3. DOMAIN order = 1..Len(order) /\ Len(order) \in Nat
      /\ \A i \in 1..Len(order) : order[i] \in Resource
  BY <1>2, LenProperties, ElementOfSeq
<1>4. \A i \in DOMAIN order :
        (IF NextWaiting(reqs, order[i]) = {} THEN UnlockMsg(order[i], o)
         ELSE GrantMsg(reqs, order[i])) \in Payload
  BY <1>3, QueueTypes, MsgTypes DEF UnlockMsg
<1>5. ReleaseEach(reqs, order, o) \in [1..Len(order) -> Payload]
  BY <1>3, <1>4 DEF ReleaseEach
<1>6. ReleaseEach(reqs, order, o) \in Seq(Payload)
  BY <1>3, <1>5
<1>7. Owner(n, p, 0) \in Owners
  BY DEF Owner, Owners
<1>8. SendPurge(n, p) \in Seq(Payload)
  BY <1>7, SendTyped DEF SendPurge
<1> QED BY <1>6, <1>8, ConcatProperties

\* The records of one daemon, written one by one or all together.
LEMMA LocksTyped ==
  ASSUME TypeOK, NEW d \in Daemon
  PROVE  /\ \A R \in Resource : locks[d][R] \in LockRecord
         /\ \A R \in Resource, l \in LockRecord : SetLock(d, R, l) =>
              locks' \in [Daemon -> [Resource -> LockRecord]]
         /\ \A L \in [Resource -> LockRecord] : SetLocks(d, L) =>
              locks' \in [Daemon -> [Resource -> LockRecord]]
         /\ requests[d] \in SUBSET Request
         /\ \A Q \in SUBSET Request : SetRequests(d, Q) =>
              requests' \in [Daemon -> SUBSET Request]
<1>0. /\ locks \in [Daemon -> [Resource -> LockRecord]]
      /\ requests \in [Daemon -> SUBSET Request]
  BY DEF TypeOK
<1>1. locks[d] \in [Resource -> LockRecord] /\ requests[d] \in SUBSET Request
  BY <1>0
<1>2. \A R \in Resource : locks[d][R] \in LockRecord
  BY <1>1
<1>3. \A R \in Resource, l \in LockRecord : SetLock(d, R, l) =>
        locks' \in [Daemon -> [Resource -> LockRecord]]
  BY <1>0, <1>1 DEF SetLock
<1>4. \A L \in [Resource -> LockRecord] : SetLocks(d, L) =>
        locks' \in [Daemon -> [Resource -> LockRecord]]
  BY <1>0 DEF SetLocks
<1>5. \A Q \in SUBSET Request : SetRequests(d, Q) =>
        requests' \in [Daemon -> SUBSET Request]
  BY <1>0 DEF SetRequests
<1> QED BY <1>1, <1>2, <1>3, <1>4, <1>5

\* Fields of a record written by the handlers.
LEMMA RecordTypes ==
  ASSUME NEW l \in LockRecord
  PROVE  /\ l.state \in LockState \cup {"NONE"} /\ l.owner \in Owners
         /\ \A s \in LockState : [l EXCEPT !.state = s] \in LockRecord
         /\ \A o \in Owners : [l EXCEPT !.state = "HELD", !.owner = o] \in LockRecord
         /\ \A i \in Nat : [l EXCEPT !.local_id = i] \in LockRecord
         /\ \A e \in Daemon : NewOwner(l, e) \in LockRecord
<1>1. \A e \in Daemon : NodeOf[e] \in Node /\ e \in Pid
  BY GroupAssumption DEF Pid
<1>2. \A e \in Daemon : NewOwner(l, e) \in LockRecord
  BY <1>1 DEF LockRecord, NewOwner, Owners
<1> QED BY <1>2 DEF LockRecord, LockState

\* An answer to a call leaves the calls well formed.
LEMMA AnsweredTyped ==
  ASSUME TypeOK, NEW p \in Proc, NEW tid \in Nat, NEW st \in {"held", "nak"},
         NEW id \in Nat
  PROVE  Answered(p, tid, st, id) \in [Proc -> Seq(Call)]
<1>1. calls \in [Proc -> Seq(Call)] /\ calls[p] \in Seq(Call)
  BY DEF TypeOK
<1>2. \A c \in Call : [[c EXCEPT !.st = st] EXCEPT !.lockid = id] \in Call
  BY DEF Call
<1> DEFINE s == calls[p]
           t == [[s EXCEPT ![tid].st = st] EXCEPT ![tid].lockid = id]
<1>3. DOMAIN s = 1..Len(s) /\ Len(s) \in Nat /\ \A i \in 1..Len(s) : s[i] \in Call
  BY <1>1, LenProperties, ElementOfSeq
<1>4. /\ DOMAIN t = 1..Len(s)
      /\ \A i \in 1..Len(s) : t[i] = IF i = tid
                                     THEN [[s[i] EXCEPT !.st = st] EXCEPT !.lockid = id]
                                     ELSE s[i]
  BY <1>3
<1>5. t \in [1..Len(s) -> Call]
  <2>1. t = [i \in 1..Len(s) |-> t[i]]
    BY <1>4
  <2>2. \A i \in 1..Len(s) : t[i] \in Call
    BY <1>2, <1>3, <1>4
  <2> HIDE DEF t, s
  <2> QED BY <2>1, <2>2
<1>6. t \in Seq(Call)
  <2>1. PICK n \in Nat : n = Len(s)
    BY <1>3
  <2>2. t \in [1..n -> Call]
    BY <1>5, <2>1
  <2> HIDE DEF t, s
  <2> QED BY <2>2
<1>7. [calls EXCEPT ![p][tid].st = st, ![p][tid].lockid = id] = [calls EXCEPT ![p] = t]
  BY <1>1
<1> HIDE DEF t
<1> QED BY <1>1, <1>6, <1>7, ZenonT(60) DEF Answered

-----------------------------------------------------------------------------
(***************************************************************************)
(* The actions.                                                            *)
(***************************************************************************)

\* A handler whose messages are well typed moves the membership layer.
LEMMA HandlerMoves ==
  ASSUME NEW d \in Daemon, NEW out \in Seq(Payload),
         DeliverApp(d, out) \/ Send(d, out) \/ cpg_config_change(d, out) \/ GStep(d)
  PROVE  Moves(d)
  BY DEF Moves, GMove

\* Start and JOIN: nothing but the membership layer.
LEMMA StartTyped ==
  ASSUME TypeOK, NEW d \in Daemon,
         Start(d) \/ DeliverJoin(d) \/ DeliverNothing(d) \/ NobodyLeaves(d)
         \/ IgnoreBeforeJoin(d)
  PROVE  LockTypes' /\ Moves(d)
<1>1. UNCHANGED lockVars
  BY DEF Start, DeliverJoin, DeliverNothing, NobodyLeaves, IgnoreBeforeJoin
<1>2. LockTypes'
  BY <1>1 DEF TypeOK, LockTypes, lockVars
<1>3. <<>> \in Seq(Payload)
  OBVIOUS
<1>4. GStep(d) \/ cpg_config_change(d, <<>>) \/ DeliverApp(d, <<>>)
  BY DEF Start, DeliverJoin, DeliverNothing, NobodyLeaves, IgnoreBeforeJoin, GStep,
         cpg_init, CpgInitAlone
<1> QED BY <1>2, <1>3, <1>4, HandlerMoves

LEMMA LockHandlerTyped ==
  ASSUME Payload = LockMsg, TypeOK, NEW d \in Daemon, process_lock(d)
  PROVE  LockTypes' /\ Moves(d)
<1> DEFINE m     == Body(d)
           R     == m.resource
           l     == locks[d][R]
           queue == requests[d] \cup { Queued(m, pos[d] + 1) }
<1>1. /\ m \in LockMsg /\ R \in Resource /\ m.owner \in Owners /\ m.try \in BOOLEAN
      /\ pos[d] \in Nat
  BY BodyTypes DEF process_lock, Delivers, TypeOK, GTypeOK, Body
<1>2. l \in LockRecord /\ requests[d] \in SUBSET Request
  BY <1>1, LocksTyped
<1>3. queue \in SUBSET Request
  BY <1>1, <1>2 DEF Queued, Request
<1>4. [l EXCEPT !.state = "PENDING"] \in LockRecord /\ [l EXCEPT !.state = "FREE"] \in LockRecord
  BY <1>2, RecordTypes DEF LockState
<1>5. /\ GrantMarked(queue, {R}) \in SUBSET Request
      /\ GrantOr(queue, R, <<>>) \in Seq(Payload)
      /\ send_nak(m) \in Seq(Payload) /\ <<>> \in Seq(Payload)
  BY <1>1, <1>3, QueueTypes, GrantOrTyped, SendTyped DEF send_nak
<1>6. PICK L \in LockRecord, Q \in SUBSET Request, out \in Seq(Payload) :
        SetLock(d, R, L) /\ SetRequests(d, Q) /\ DeliverApp(d, out)
  <2> HIDE DEF queue, l, R, m
  <2>1. \/ /\ SetLock(d, R, GrantStarted(l)) /\ SetRequests(d, GrantMarked(queue, {R}))
           /\ DeliverApp(d, GrantOr(queue, R, <<>>))
        \/ \E L \in {l, [l EXCEPT !.state = "FREE"]}, out \in {<<>>, send_nak(m)} :
              SetLock(d, R, L) /\ SetRequests(d, queue) /\ DeliverApp(d, out)
    BY DEF process_lock, queue, l, R, m
  <2> QED BY <1>2, <1>3, <1>4, <1>5, <2>1 DEF GrantStarted
<1>7. /\ locks' \in [Daemon -> [Resource -> LockRecord]]
      /\ requests' \in [Daemon -> SUBSET Request]
  BY <1>1, <1>6, LocksTyped
<1>8. UNCHANGED <<local_lockid, clients, calls, ended>>
  BY DEF process_lock, clientVars
<1> QED BY <1>6, <1>7, <1>8, HandlerMoves DEF LockTypes, TypeOK

LEMMA GrantHandlersTyped ==
  ASSUME Payload = LockMsg, TypeOK, NEW d \in Daemon,
         process_grant_local(d) \/ process_grant_remote(d) \/ process_grant_unknown(d)
  PROVE  LockTypes' /\ Moves(d)
<1> DEFINE m    == Body(d)
           R    == m.resource
           p    == m.owner.pid
           id   == local_lockid[d] + 1
           left == requests[d] \ Matching(requests[d], m)
           rest == purge_requests(left, NodeOf[d], p)
           G    == GrantDelivered(d, m)
<1>0. GTypeOK /\ HasNext(d) /\ NextEntry(d).request = "APP" /\ Body(d).request = "GRANT"
  BY DEF process_grant_local, process_grant_remote, process_grant_unknown, Delivers,
         TypeOK, Body
<1>1. m \in LockMsg /\ R \in Resource /\ m.owner \in Owners /\ m.owner.tid \in Nat
  BY <1>0, BodyTypes
<1>2. /\ locks[d][R] \in LockRecord /\ requests[d] \in SUBSET Request /\ id \in Nat
      /\ clients[d] \in SUBSET Proc
  BY <1>1, LocksTyped DEF TypeOK
<1>3. left \in SUBSET Request
  BY <1>2
<1>4. G \in LockRecord
  BY <1>1, <1>2, RecordTypes DEF GrantDelivered
<1>5. [G EXCEPT !.state = "FREE"] \in LockRecord /\ [G EXCEPT !.local_id = id] \in LockRecord
  <2> HIDE DEF G, id
  <2> QED BY <1>2, <1>4, RecordTypes DEF LockState
<1> HIDE DEF left
<1>6. rest \in SUBSET Request
  BY <1>3, QueueTypes
<1>7. send_unlock(R, m.owner) \in Seq(Payload) /\ <<>> \in Seq(Payload)
  BY <1>1, SendTyped
<1> HIDE DEF rest
<1>8. /\ GrantMarked(left, {R}) \in SUBSET Request /\ GrantMarked(rest, {R}) \in SUBSET Request
      /\ GrantOr(left, R, send_unlock(R, m.owner)) \in Seq(Payload)
      /\ GrantOr(rest, R, send_unlock(R, m.owner)) \in Seq(Payload)
  BY <1>1, <1>3, <1>6, <1>7, QueueTypes, GrantOrTyped
<1> HIDE DEF m, R, p, id, G
<1>9. find_client(d, p) => grant_client(p, m.owner.tid, id) \in [Proc -> Seq(Call)]
  BY <1>1, <1>2, AnsweredTyped DEF find_client, grant_client
<1>10. CASE process_grant_local(d)
  <2>1. /\ local_lockid' = [local_lockid EXCEPT ![d] = id]
        /\ SetLock(d, R, [G EXCEPT !.local_id = id])
        /\ UNCHANGED <<clients, ended>>
    BY <1>10 DEF process_grant_local, id, R, m, G
  <2>2. \/ /\ find_client(d, p) /\ SetRequests(d, left)
           /\ calls' = grant_client(p, m.owner.tid, id) /\ DeliverApp(d, <<>>)
        \/ /\ SetRequests(d, GrantMarked(rest, {R})) /\ UNCHANGED calls
           /\ DeliverApp(d, GrantOr(rest, R, send_unlock(R, m.owner)))
    BY <1>10 DEF process_grant_local, id, R, m, left, rest, p
  <2>3. locks' \in [Daemon -> [Resource -> LockRecord]]
    BY <1>1, <1>5, <2>1, LocksTyped
  <2>4. requests' \in [Daemon -> SUBSET Request] /\ calls' \in [Proc -> Seq(Call)]
    BY <1>3, <1>8, <1>9, <2>2, LocksTyped DEF TypeOK
  <2>5. Moves(d)
    BY <1>7, <1>8, <2>2, HandlerMoves
  <2> QED BY <1>2, <2>1, <2>3, <2>4, <2>5 DEF LockTypes, TypeOK
<1>11. CASE process_grant_remote(d)
  <2>1. PICK L \in LockRecord, Q \in SUBSET Request, out \in Seq(Payload) :
          SetLock(d, R, L) /\ SetRequests(d, Q) /\ DeliverApp(d, out)
    BY <1>3, <1>4, <1>5, <1>7, <1>8, <1>11 DEF process_grant_remote, R, m, left, G
  <2>2. locks' \in [Daemon -> [Resource -> LockRecord]]
        /\ requests' \in [Daemon -> SUBSET Request]
    BY <1>1, <2>1, LocksTyped
  <2> QED BY <1>11, <2>1, <2>2, HandlerMoves
          DEF LockTypes, TypeOK, process_grant_remote, clientVars
<1>12. CASE process_grant_unknown(d)
  <2>1. SetLock(d, R, G) /\ DeliverApp(d, <<>>)
    BY <1>12 DEF process_grant_unknown, R, m, G
  <2>2. locks' \in [Daemon -> [Resource -> LockRecord]]
    BY <1>1, <1>4, <2>1, LocksTyped
  <2> QED BY <1>7, <1>12, <2>1, <2>2, HandlerMoves
          DEF LockTypes, TypeOK, process_grant_unknown, clientVars
<1> QED BY <1>10, <1>11, <1>12

LEMMA NakHandlerTyped ==
  ASSUME Payload = LockMsg, TypeOK, NEW d \in Daemon, process_nak(d)
  PROVE  LockTypes' /\ Moves(d)
<1> DEFINE m    == Body(d)
           left == requests[d] \ Matching(requests[d], m)
           p    == m.owner.pid
<1>1. m.owner.tid \in Nat /\ requests[d] \in SUBSET Request /\ clients[d] \in SUBSET Proc
  BY BodyTypes, LocksTyped DEF process_nak, Delivers, TypeOK
<1>2. left \in SUBSET Request
  BY <1>1
<1> HIDE DEF left, p, m
<1>3. purge_requests(left, NodeOf[d], p) \in SUBSET Request
  BY <1>2, QueueTypes
<1>4. p \in clients[d] => nak_client(p, m.owner.tid) \in [Proc -> Seq(Call)]
  BY <1>1, AnsweredTyped DEF nak_client
<1>5. SetRequests(d, purge_requests(left, NodeOf[d], p)) \/ SetRequests(d, left)
  BY DEF process_nak, left, p, m
<1>6. (p \in clients[d] /\ calls' = nak_client(p, m.owner.tid)) \/ calls' = calls
  BY DEF process_nak, p, m, find_client
<1>7. requests' \in [Daemon -> SUBSET Request]
  BY <1>2, <1>3, <1>5, LocksTyped
<1>8. calls' \in [Proc -> Seq(Call)]
  BY <1>4, <1>6 DEF TypeOK
<1>9. DeliverApp(d, <<>>) /\ <<>> \in Seq(Payload)
  BY DEF process_nak
<1> QED BY <1>7, <1>8, <1>9, HandlerMoves DEF LockTypes, TypeOK, process_nak

LEMMA UnlockHandlerTyped ==
  ASSUME Payload = LockMsg, TypeOK, NEW d \in Daemon, process_unlock(d) \/ process_purge(d)
  PROVE  LockTypes' /\ Moves(d)
<1>0. <<>> \in Seq(Payload) /\ requests[d] \in SUBSET Request
  BY LocksTyped
<1>1. CASE process_unlock(d)
  <2> DEFINE m == Body(d)
             R == m.resource
             l == locks[d][R]
             q == requests[d]
  <2>0. GTypeOK /\ HasNext(d) /\ NextEntry(d).request = "APP" /\ Body(d).request = "UNLOCK"
    BY <1>1 DEF process_unlock, Delivers, TypeOK, Body
  <2>1. R \in Resource
    BY <2>0, BodyTypes
  <2>2. l \in LockRecord
    BY <2>1, LocksTyped
  <2>3. \A s \in LockState : [l EXCEPT !.state = s] \in LockRecord
    BY <2>2, RecordTypes
  <2>4. GrantMarked(q, {R}) \in SUBSET Request /\ GrantOr(q, R, <<>>) \in Seq(Payload)
    BY <1>0, <2>1, QueueTypes, GrantOrTyped
  <2>5. locks' \in [Daemon -> [Resource -> LockRecord]]
    <3>1. (\E s \in LockState : SetLock(d, R, [l EXCEPT !.state = s])) \/ UNCHANGED locks
      BY <1>1 DEF process_unlock, LockState
    <3> QED BY <2>1, <2>3, <3>1, LocksTyped DEF TypeOK
  <2>6. requests' \in [Daemon -> SUBSET Request]
    <3>1. SetRequests(d, GrantMarked(q, {R})) \/ UNCHANGED requests
      BY <1>1 DEF process_unlock
    <3> QED BY <2>4, <3>1, LocksTyped DEF TypeOK
  <2>7. DeliverApp(d, GrantOr(q, R, <<>>)) \/ DeliverApp(d, <<>>)
    BY <1>1 DEF process_unlock
  <2>8. Moves(d)
    BY <1>0, <2>4, <2>7, HandlerMoves
  <2> QED BY <1>1, <2>5, <2>6, <2>8 DEF LockTypes, TypeOK, process_unlock, clientVars
<1>2. CASE process_purge(d)
  <2>1. requests' \in [Daemon -> SUBSET Request]
    BY <1>0, <1>2, QueueTypes, LocksTyped DEF process_purge
  <2>2. DeliverApp(d, <<>>)
    BY <1>2 DEF process_purge
  <2> QED BY <1>0, <1>2, <2>1, <2>2, HandlerMoves
          DEF LockTypes, TypeOK, process_purge, clientVars
<1> QED BY <1>1, <1>2

\* del_node: both ways of dealing with a dead node's locks.
LEMMA LeaveTyped ==
  ASSUME Payload = LockMsg, TypeOK, NEW d \in Daemon, MemberLeaves(d)
  PROVE  LockTypes' /\ Moves(d)
<1>0. /\ requests[d] \in SUBSET Request /\ <<>> \in Seq(Payload)
      /\ \A R \in Resource : locks[d][R] \in LockRecord
      /\ group_members[d] \in Seq(Daemon)
  BY LocksTyped DEF TypeOK, GTypeOK
<1>1. PICK x \in Leavers(group_members[d], NextEntry(d)) :
        del_node(d, x, ListAfterLeave(group_members[d], NextEntry(d)))
  BY DEF MemberLeaves
<1>2. x \in Daemon
  <2>1. x \in Range(group_members[d])
    BY DEF Leavers
  <2> QED BY <1>0, <2>1, RangeOfSeq
<1>3. /\ \A l \in LockRecord : [l EXCEPT !.state = "FREE"] \in LockRecord
      /\ \A l \in LockRecord, e \in Daemon : NewOwner(l, e) \in LockRecord
  BY RecordTypes DEF LockState
<1>4. UNCHANGED <<local_lockid, clients, calls, ended>>
  BY DEF MemberLeaves, clientVars
<1> DEFINE rest == ListAfterLeave(group_members[d], NextEntry(d))
<1>5. rest \in Seq(Daemon)
  <2>1. CASE Leavers(group_members[d], NextEntry(d)) = {}
    BY <1>0, <2>1 DEF ListAfterLeave
  <2>2. CASE Leavers(group_members[d], NextEntry(d)) # {}
    BY <1>0, <2>2, ListAfterLeaveProperties
  <2> QED BY <2>1, <2>2
<1> HIDE DEF rest
<1>6. CASE RecoverLocks(d, x)
  <2> DEFINE node == NodeOf[x]
             kept == purge_requests(requests[d], node, 0)
             held == OwnedBy(d, node, "HELD")
             free == OwnedBy(d, node, "FREE")
             told == held \cup { R \in free : NextWaiting(kept, R) # {} }
             L    == [R \in Resource |->
                        LET l == IF R \in held THEN [locks[d][R] EXCEPT !.state = "FREE"]
                                 ELSE locks[d][R]
                        IN  IF R \in held \cup free /\ NextWaiting(kept, R) = {}
                            THEN NewOwner(l, d) ELSE l]
  <2>1. PICK order \in Enumerations(told) :
          /\ SetRequests(d, GrantMarked(kept, held \cup free))
          /\ SetLocks(d, L)
          /\ cpg_config_change(d,
               SendPurge(node, 0) \o ReleaseEach(kept, order, Owner(NodeOf[d], d, 0)))
    BY <1>6 DEF RecoverLocks
  <2>2. kept \in SUBSET Request /\ told \in SUBSET Resource /\ node \in Node
    BY <1>0, <1>2, QueueTypes, GroupAssumption DEF OwnedBy
  <2>3. L \in [Resource -> LockRecord]
    <3>1. ASSUME NEW R \in Resource PROVE L[R] \in LockRecord
      BY <1>0, <1>3
    <3> QED BY <3>1
  <2> HIDE DEF kept, held, free, told, node, L
  <2>4. Owner(NodeOf[d], d, 0) \in Owners /\ 0 \in Pid
    BY OwnerTypes DEF Pid
  <2>5. SendPurge(node, 0) \o ReleaseEach(kept, order, Owner(NodeOf[d], d, 0))
          \in Seq(Payload)
    BY <2>2, <2>4, ReleaseTyped
  <2>6. locks' \in [Daemon -> [Resource -> LockRecord]]
    BY <2>1, <2>3, LocksTyped
  <2>7. requests' \in [Daemon -> SUBSET Request]
    BY <2>1, <2>2, QueueTypes, LocksTyped
  <2>8. Moves(d)
    BY <2>1, <2>5, HandlerMoves
  <2> QED BY <1>4, <2>6, <2>7, <2>8 DEF LockTypes, TypeOK
<1>7. CASE ReassignLocks(d, x, rest)
  <2> DEFINE L == [R \in Resource |->
                     IF rest # <<>> /\ locks[d][R].owner.node = NodeOf[x]
                     THEN NewOwner(locks[d][R], Head(rest)) ELSE locks[d][R]]
  <2>1. SetLocks(d, L) /\ cpg_config_change(d, <<>>) /\ UNCHANGED requests
    BY <1>7 DEF ReassignLocks
  <2>2. rest # <<>> => Head(rest) \in Daemon
    BY <1>5
  <2>3. L \in [Resource -> LockRecord]
    BY <1>0, <1>3, <2>2
  <2> HIDE DEF L
  <2>4. locks' \in [Daemon -> [Resource -> LockRecord]]
    BY <2>1, <2>3, LocksTyped
  <2>5. Moves(d)
    BY <1>0, <2>1, HandlerMoves
  <2> QED BY <1>4, <2>1, <2>4, <2>5 DEF LockTypes, TypeOK
<1> QED BY <1>1, <1>6, <1>7 DEF del_node, rest

\* A daemon ends, whatever the reason.
LEMMA EndTyped ==
  ASSUME TypeOK, NEW d \in Daemon, CleanShutdown(d) \/ NodeCrash(d) \/ CpgLost(d)
  PROVE  LockTypes' /\ Moves(d)
<1>0. <<>> \in Seq(Payload) /\ clients[d] \in SUBSET Proc
  BY DEF TypeOK
<1>1. Forget(d)
  BY DEF CleanShutdown, NodeCrash, CpgLost
<1>2. NoLock \in LockRecord
  BY OwnerTypes
<1>3. /\ locks' \in [Daemon -> [Resource -> LockRecord]]
      /\ requests' \in [Daemon -> SUBSET Request]
      /\ local_lockid' \in [Daemon -> Nat]
  BY <1>1, <1>2 DEF Forget, TypeOK
<1>4. clients' \in [Daemon -> SUBSET Proc] /\ ended' \in SUBSET Proc
  BY <1>0 DEF CleanShutdown, NodeCrash, CpgLost, TypeOK, clientVars
<1>5. calls' \in [Proc -> Seq(Call)]
  <2>1. CASE ~CpgLost(d)
    BY <2>1 DEF CleanShutdown, NodeCrash, TypeOK, clientVars
  <2>2. CASE CpgLost(d)
    <3> SUFFICES ASSUME NEW p \in Proc
                 PROVE  [i \in DOMAIN calls[p] |-> DroppedCall(d, p, i)] \in Seq(Call)
      BY <2>2 DEF CpgLost, TypeOK
    <3>1. PICK s \in Seq(Call) : s = calls[p]
      BY DEF TypeOK
    <3>2. DOMAIN s = 1..Len(s) /\ Len(s) \in Nat /\ \A i \in 1..Len(s) : s[i] \in Call
      BY LenProperties, ElementOfSeq
    <3>3. \A c \in Call : /\ [c EXCEPT !.st = "nak"] \in Call
                          /\ [c EXCEPT !.st = "error"] \in Call
                          /\ [c EXCEPT !.st = c.st] \in Call
      BY DEF Call
    <3>4. \A i \in 1..Len(s) : DroppedCall(d, p, i) \in Call
      BY <3>1, <3>2, <3>3 DEF DroppedCall
    <3>5. PICK n \in Nat : n = Len(s)
      BY <3>2
    <3> QED BY <3>1, <3>2, <3>4, <3>5
  <2> QED BY <2>1, <2>2
<1>6. GStep(d)
  BY DEF CleanShutdown, NodeCrash, CpgLost, GStep
<1> QED BY <1>0, <1>3, <1>4, <1>5, <1>6, HandlerMoves DEF LockTypes

\* What clients ask for, and their going away.
LEMMA ClientTyped ==
  ASSUME Payload = LockMsg, TypeOK, NEW d \in Daemon, NEW p \in Proc, ClientStep(p, d)
  PROVE  LockTypes' /\ Moves(d)
<1>0. /\ <<>> \in Seq(Payload) /\ clients[d] \in SUBSET Proc
      /\ requests[d] \in SUBSET Request /\ calls[p] \in Seq(Call)
      /\ \A R \in Resource : locks[d][R] \in LockRecord
      /\ NodeOf[d] \in Node /\ p \in Pid /\ Len(calls[p]) \in Nat
  BY LocksTyped, OwnerTypes, LenProperties DEF TypeOK, Pid
<1>1. CASE Connect(p, d)
  BY <1>0, <1>1 DEF Connect, insert_client, daemonVars, LockTypes, TypeOK, Moves
<1>2. ASSUME NEW R \in Resource, ClientLock(p, d, R) PROVE LockTypes' /\ Moves(d)
  <2>1. Owner(NodeOf[d], p, Len(calls[p]) + 1) \in Owners
    BY <1>0 DEF Owner, Owners
  <2>2. send_lock(d, p, R) \in Seq(Payload)
    <3>1. Msg("LOCK", R, Owner(NodeOf[d], p, Len(calls[p]) + 1), p \in Triers) \in Payload
      BY <2>1 DEF Msg, LockMsg
    <3> QED BY <3>1, OneMessage DEF send_lock
  <2>3. calls' \in [Proc -> Seq(Call)]
    <3> DEFINE c == [resource |-> R, try |-> p \in Triers, st |-> "wait", lockid |-> 0]
    <3>1. c \in Call
      <4>1. (p \in Triers) \in BOOLEAN
        OBVIOUS
      <4> QED BY <4>1 DEF Call
    <3> HIDE DEF c
    <3>2. Append(calls[p], c) \in Seq(Call)
      BY <1>0, <3>1, AppendProperties
    <3>3. calls' = [calls EXCEPT ![p] = Append(calls[p], c)]
      BY <1>2 DEF ClientLock, cpg_lock, TypeOK, c
    <3> QED BY <3>2, <3>3 DEF TypeOK
  <2>4. Send(d, send_lock(d, p, R))
    BY <1>2 DEF ClientLock
  <2> QED BY <1>2, <2>2, <2>3, <2>4, HandlerMoves
          DEF ClientLock, daemonVars, LockTypes, TypeOK
<1>3. ASSUME NEW i \in DOMAIN calls[p], ClientUnlock(p, d, i) PROVE LockTypes' /\ Moves(d)
  <2> DEFINE found == find_lock_by_id(d, calls[p][i].lockid)
             R     == CHOOSE x \in found : TRUE
             out   == IF found = {} THEN <<>>
                      ELSE GrantOr(requests[d], R, send_unlock(R, locks[d][R].owner))
  <2>1. found # {} => R \in Resource
    BY DEF find_lock_by_id
  <2> HIDE DEF R
  <2>2. found # {} => locks[d][R].owner \in Owners
    BY <1>0, <2>1, RecordTypes
  <2> HIDE DEF found
  <2>3. found # {} => send_unlock(R, locks[d][R].owner) \in Seq(Payload)
    BY <2>1, <2>2, SendTyped
  <2>4. found # {} =>
          GrantOr(requests[d], R, send_unlock(R, locks[d][R].owner)) \in Seq(Payload)
    BY <1>0, <2>1, <2>3, GrantOrTyped
  <2>5. out \in Seq(Payload)
    BY <1>0, <2>4
  <2>6. SetRequests(d, GrantMarked(requests[d], found)) /\ Send(d, out)
    BY <1>3 DEF ClientUnlock, found, R
  <2>7. requests' \in [Daemon -> SUBSET Request]
    BY <1>0, <2>6, QueueTypes, LocksTyped
  <2>8. calls' \in [Proc -> Seq(Call)]
    <3>1. calls' = [calls EXCEPT ![p] = [calls[p] EXCEPT ![i].st = "done"]]
      BY <1>3 DEF ClientUnlock, cpg_unlock, TypeOK
    <3>2. PICK s \in Seq(Call) : s = calls[p]
      BY <1>0
    <3>3. i \in 1..Len(s) /\ s[i] \in Call
      BY <3>2, LenProperties, ElementOfSeq
    <3>4. [s[i] EXCEPT !.st = "done"] \in Call
      BY <3>3 DEF Call
    <3>5. [s EXCEPT ![i] = [s[i] EXCEPT !.st = "done"]] \in Seq(Call)
      BY <3>3, <3>4, ExceptSeq
    <3>6. [calls[p] EXCEPT ![i].st = "done"] \in Seq(Call)
      BY <3>2, <3>3, <3>5
    <3> QED BY <3>1, <3>6 DEF TypeOK
  <2>9. Moves(d)
    BY <2>5, <2>6, HandlerMoves
  <2> QED BY <1>3, <2>7, <2>8, <2>9 DEF ClientUnlock, LockTypes, TypeOK
<1>4. CASE ClientExit(p, d)
  <2>1. /\ clients' \in [Daemon -> SUBSET Proc] /\ ended' \in SUBSET Proc
        /\ UNCHANGED <<local_lockid, calls>>
    BY <1>0, <1>4 DEF ClientExit, cpg_lock_fin, TypeOK
  <2>2. CASE UNCHANGED <<gvars, locks, requests>>
    BY <2>1, <2>2 DEF LockTypes, TypeOK, Moves
  <2>3. CASE del_client(d, p)
    <3> DEFINE kept == purge_requests(requests[d], NodeOf[d], p)
               held == HeldBy(d, p)
               L    == [R \in Resource |->
                          IF R \in held THEN [locks[d][R] EXCEPT !.state = "FREE"]
                          ELSE locks[d][R]]
    <3>1. PICK order \in Enumerations(held) :
            /\ SetRequests(d, GrantMarked(kept, held))
            /\ SetLocks(d, L)
            /\ Send(d, SendPurge(NodeOf[d], p)
                       \o ReleaseEach(kept, order, Owner(NodeOf[d], p, 0)))
      BY <2>3 DEF del_client
    <3>2. kept \in SUBSET Request /\ held \in SUBSET Resource
      BY <1>0, QueueTypes DEF HeldBy
    <3>3. \A l \in LockRecord : [l EXCEPT !.state = "FREE"] \in LockRecord
      BY RecordTypes DEF LockState
    <3>4. L \in [Resource -> LockRecord]
      BY <1>0, <3>3
    <3>5. Owner(NodeOf[d], p, 0) \in Owners
      BY <1>0 DEF Owner, Owners
    <3> HIDE DEF kept, held, L
    <3>6. SendPurge(NodeOf[d], p) \o ReleaseEach(kept, order, Owner(NodeOf[d], p, 0))
            \in Seq(Payload)
      BY <1>0, <3>2, <3>5, ReleaseTyped
    <3>7. locks' \in [Daemon -> [Resource -> LockRecord]]
      BY <3>1, <3>4, LocksTyped
    <3>8. requests' \in [Daemon -> SUBSET Request]
      BY <3>1, <3>2, QueueTypes, LocksTyped
    <3>9. Moves(d)
      BY <3>1, <3>6, HandlerMoves
    <3> QED BY <2>1, <3>7, <3>8, <3>9 DEF LockTypes, TypeOK
  <2> QED BY <1>4, <2>2, <2>3 DEF ClientExit
<1> QED BY <1>1, <1>2, <1>3, <1>4 DEF ClientStep

\* Every step, then.
LEMMA NextTyped ==
  ASSUME Payload = LockMsg, TypeOK, Next
  PROVE  LockTypes' /\ \E d \in Daemon : Moves(d)
<1>1. PICK d \in Daemon :
        \/ Start(d) \/ Deliver(d)
        \/ CleanShutdown(d) \/ NodeCrash(d) \/ CpgLost(d)
        \/ \E p \in Proc : ClientStep(p, d)
  BY DEF Next
<1>2. CASE Deliver(d)
  <2>1. CASE DeliverJoin(d) \/ DeliverNothing(d) \/ NobodyLeaves(d) \/ IgnoreBeforeJoin(d)
    BY <2>1, StartTyped
  <2>2. CASE process_lock(d)
    BY <2>2, LockHandlerTyped
  <2>3. CASE process_grant_local(d) \/ process_grant_remote(d) \/ process_grant_unknown(d)
    BY <2>3, GrantHandlersTyped
  <2>4. CASE process_nak(d)
    BY <2>4, NakHandlerTyped
  <2>5. CASE process_unlock(d) \/ process_purge(d)
    BY <2>5, UnlockHandlerTyped
  <2>6. CASE MemberLeaves(d)
    BY <2>6, LeaveTyped
  <2> QED BY <1>2, <2>1, <2>2, <2>3, <2>4, <2>5, <2>6 DEF Deliver
<1>3. CASE Start(d)
  BY <1>3, StartTyped
<1>4. CASE CleanShutdown(d) \/ NodeCrash(d) \/ CpgLost(d)
  BY <1>4, EndTyped
<1>5. CASE \E p \in Proc : ClientStep(p, d)
  BY <1>5, ClientTyped
<1> QED BY <1>1, <1>2, <1>3, <1>4, <1>5

-----------------------------------------------------------------------------
(***************************************************************************)
(* The invariant: types, and the membership layer as module GroupInv has   *)
(* it, now with the lock protocol's messages among what CPG delivers.      *)
(***************************************************************************)
BaseInv == TypeOK /\ IndInv /\ OrderInv

LEMMA BaseInit ==
  ASSUME Init
  PROVE  BaseInv
<1>1. IndInv /\ OrderInv
  BY InitInv, InitOrder DEF Init
<1>2. NoLock \in LockRecord
  BY DEF NoLock, NoOwner, Owner, Owners, Pid, LockRecord
<1>3. /\ locks \in [Daemon -> [Resource -> LockRecord]]
      /\ requests \in [Daemon -> SUBSET Request]
      /\ local_lockid \in [Daemon -> Nat]
      /\ clients \in [Daemon -> SUBSET Proc]
      /\ calls \in [Proc -> Seq(Call)]
      /\ ended \in SUBSET Proc
  BY <1>2 DEF Init
<1> QED BY <1>1, <1>3 DEF BaseInv, TypeOK, IndInv

LEMMA BaseStep ==
  ASSUME Payload = LockMsg, BaseInv, Next
  PROVE  BaseInv'
<1>1. ~DupStart /\ TypeOK /\ IndInv /\ OrderInv
  BY LockAssumption DEF BaseInv
<1>2. PICK d \in Daemon : Moves(d)
  BY <1>1, NextTyped
<1>3. IndInv' /\ OrderInv'
  <2>1. CASE UNCHANGED gvars
    BY <1>1, <2>1 DEF gvars, IndInv, OrderInv, GTypeOK, LogInv, ViewInv, Members, Joins,
       Leaves, Enters, Known, StillMember, Replaced, View, Progress, Fresh, Sound, Complete,
       SentJoin, Ordered, JoinAt, ConfAt, LeftAt, EnterAt, MemberAt, Index
  <2>2. CASE \E out \in Seq(Payload) : GMove(d, out)
    BY <1>1, <2>2, MoveKeepsInv, MoveKeepsOrder
  <2> QED BY <1>2, <2>1, <2>2 DEF Moves
<1>4. LockTypes'
  BY <1>1, NextTyped
<1> QED BY <1>3, <1>4 DEF BaseInv, TypeOK, LockTypes, IndInv

LEMMA BaseInductive ==
  ASSUME Payload = LockMsg
  PROVE  Spec => []BaseInv
<1>1. Init => BaseInv
  BY BaseInit
<1>2. ASSUME BaseInv, [Next]_vars PROVE BaseInv'
  <2>1. CASE Next
    BY <1>2, <2>1, BaseStep
  <2>2. CASE UNCHANGED vars
    BY <1>2, <2>2 DEF vars, lockVars, gvars, BaseInv, TypeOK, IndInv, OrderInv, GTypeOK,
       LogInv, ViewInv, Members, Joins, Leaves, Enters, Known, StillMember, Replaced, View,
       Progress, Fresh, Sound, Complete, SentJoin, Ordered, JoinAt, ConfAt, LeftAt,
       EnterAt, MemberAt, Index
  <2> QED BY <1>2, <2>1, <2>2
<1> QED BY <1>1, <1>2, PTL DEF Spec

(***************************************************************************)
(* The lock protocol is type correct, whatever crashes, stops or exits:    *)
(* what process_lock, process_grant, del_client and del_node multicast is  *)
(* always a message the handlers can take, and records, queues and calls   *)
(* keep their shape.                                                       *)
(***************************************************************************)
THEOREM LockTypeCorrect ==
  ASSUME Payload = LockMsg
  PROVE  Spec => []TypeOK
<1>1. Spec => []BaseInv
  BY BaseInductive
<1>2. BaseInv => TypeOK
  BY DEF BaseInv
<1> QED BY <1>1, <1>2, PTL

(***************************************************************************)
(* What is proved of group membership alone holds with the whole lock      *)
(* protocol running on it: at most one daemon takes itself for the oldest  *)
(* and so grants new locks, a joined daemon finds itself on its list, and  *)
(* once all is dispatched the lists agree and somebody is the oldest.      *)
(***************************************************************************)
THEOREM MembershipUnderLocks ==
  ASSUME Payload = LockMsg
  PROVE  Spec => [](/\ AtMostOneOldest /\ JoinedIsListed
                    /\ MembershipAgreed /\ OldestPresent)
<1>1. Spec => []BaseInv
  BY BaseInductive
<1>2. BaseInv => /\ AtMostOneOldest /\ JoinedIsListed
                 /\ MembershipAgreed /\ OldestPresent
  <2> SUFFICES ASSUME BaseInv
               PROVE  /\ AtMostOneOldest /\ JoinedIsListed
                      /\ MembershipAgreed /\ OldestPresent
    OBVIOUS
  <2>1. IndInv /\ OrderInv
    BY DEF BaseInv
  <2>2. AtMostOneOldest /\ JoinedIsListed
    BY <2>1, InvGivesOneOldest, InvGivesListed
  <2>3. MembershipAgreed
    BY <2>1, SettledAgree
  <2>4. OldestPresent
    BY <2>1, FirstIsOldest DEF OldestPresent
  <2> QED BY <2>2, <2>3, <2>4
<1> QED BY <1>1, <1>2, PTL

=============================================================================
