---------------------------- MODULE ServiceProofs ---------------------------
(***************************************************************************)
(* Proofs about the order of service of module Cpglockd: that locks are    *)
(* granted in the order in which they were asked for, that somebody always *)
(* has to grant a lock that is wanted, and that the daemons together are   *)
(* the abstract service of LockService, for any number of nodes, daemons,  *)
(* processes, locks and calls, as long as members of the group stay        *)
(* (MembersStay).                                                          *)
(***************************************************************************)
EXTENDS QueueProofs

-----------------------------------------------------------------------------
(***************************************************************************)
(* How a step of d serves its queue.  reqs is the queue before the request *)
(* it grants is marked: what was queued, and the LOCK it dispatches.       *)
(***************************************************************************)
FromQueue(d, reqs) ==
  /\ reqs \in SUBSET Request
  /\ \A r \in reqs :
       \/ r \in requests[d]
       \/ Takes(d, r.at) /\ For(r.at, "LOCK", r.resource, r.owner) /\ r.state = "PENDING"

\* Nobody who counts is dropped, except with his GRANT.
KeepsPlaces(d, reqs) ==
  /\ \A r \in requests[d] : Counts(r.owner)' =>
       \/ r \in reqs
       \/ \E g \in Index : Takes(d, g) /\ For(g, "GRANT", r.resource, r.owner)
  /\ \A b \in Index, R \in Resource :
       Takes(d, b) /\ MsgAt(b, "LOCK", R) /\ AfterJoin(d, b) => \E r \in reqs : r.at = b

\* What was asked for before d joined was granted before R came to d.
Heard(d, R) ==
  \/ FirstJoiner(d)
  \/ \E g \in Index : MsgAt(g, "GRANT", R) /\ OwnerAt(g).node = NodeOf[d]

NoNewGrant ==
  \A k \in Index' \ Index : \A R \in Resource : ~MsgAt(k, "GRANT", R)'

Serves(d, reqs) ==
  \/ requests'[d] = reqs /\ NoNewGrant
  \/ \E R \in Resource : \E z :
       /\ requests'[d] = GrantMarked(reqs, {R}) /\ log' = Mcast(d, GrantOr(reqs, R, z))
       /\ AtMostOne(z) /\ \A m : z = <<m>> => m.request # "GRANT"
       /\ Heard(d, R)

TurnRule(d) ==
  \E reqs : FromQueue(d, reqs) /\ KeepsPlaces(d, reqs) /\ Serves(d, reqs)

(***************************************************************************)
(* How a step of d does its duty for lock R.                               *)
(***************************************************************************)
TakesToken(d, R) == \E i \in Index : Takes(d, i) /\ Token(i, R)

SendsToken(R) == \E k \in Index' \ Index : Token(k, R)'

DutyRule(d) ==
  \A R \in Resource :
    /\ locks[d][R].state = "NONE" /\ locks'[d][R].state # "NONE" =>
         ~IAmOldest(d) \/ \E k \in Index' : Token(k, R)'
    /\ locks[d][R].state = "HELD" /\ ~TakesToken(d, R) =>
         locks'[d][R].state = "HELD" /\ locks'[d][R].owner = locks[d][R].owner
    /\ \A g \in Index :
         Takes(d, g) /\ MsgAt(g, "GRANT", R) /\ OwnerAt(g).node = NodeOf[d] =>
           locks'[d][R].state = "HELD" /\ locks'[d][R].owner = OwnerAt(g)
    /\ Idle(d, R) => TakesToken(d, R) \/ SendsToken(R) \/ Idle(d, R)'
    /\ \A u \in Index :
         /\ Takes(d, u) /\ MsgAt(u, "UNLOCK", R) /\ OwnerAt(u).node = NodeOf[d]
         /\ locks[d][R].state = "HELD" /\ locks[d][R].owner = OwnerAt(u)
         => SendsToken(R) \/ Idle(d, R)'

ServiceRule(d) == Frame(d) /\ Moves1(d) /\ EndRule /\ TurnRule(d) /\ DutyRule(d)

-----------------------------------------------------------------------------
(***************************************************************************)
(* A step of that kind keeps the order of service.                         *)
(***************************************************************************)

\* What grant_next marks is what it multicasts.
LEMMA MarkedStates ==
  ASSUME NEW reqs \in SUBSET Request, NEW R, NEW q \in GrantMarked(reqs, {R})
  PROVE  \E r \in reqs :
           /\ Same(q, r)
           /\ q = r \/ r \in NextWaiting(reqs, R)
<1>1. PICK r \in reqs : q = IF \E S \in {R} : r \in NextWaiting(reqs, S)
                            THEN [r EXCEPT !.state = "HELD"] ELSE r
  BY DEF GrantMarked
<1>2. Same([r EXCEPT !.state = "HELD"], r) /\ Same(r, r)
  BY DEF Request, Same
<1> QED BY <1>1, <1>2

LEMMA GrantSent ==
  ASSUME BaseInv, NEW d \in Daemon, NEW reqs, NEW R, NEW z, NextWaiting(reqs, R) # {},
         log' = Mcast(d, GrantOr(reqs, R, z))
  PROVE  \E r \in NextWaiting(reqs, R), k \in Index' \ Index :
           For(k, "GRANT", R, r.owner)' /\ \A j \in Index' \ Index : j = k
<1>1. PICK r : r = CHOOSE x \in NextWaiting(reqs, R) : TRUE
  OBVIOUS
<1>2. r \in NextWaiting(reqs, R)
  BY <1>1
<1>3. PICK m, k : m = GrantMsg(reqs, R) /\ k = Len(log) + 1
  OBVIOUS
<1>4. m.request = "GRANT" /\ m.resource = R /\ m.owner = r.owner
  BY <1>1, <1>3 DEF GrantMsg, Msg
<1>5. log' = Mcast(d, <<m>>)
  BY <1>3 DEF GrantOr
<1>6. k \in Index' \ Index /\ log'[k] = App(d, m) /\ \A j \in Index' \ Index : j = k
  BY <1>3, <1>5, OutEntry
<1>7. log'[k].request = "APP" /\ log'[k].body = m
  BY <1>6 DEF App
<1>8. For(k, "GRANT", R, r.owner)'
  BY <1>4, <1>6, <1>7 DEF For, MsgAt, OwnerAt
<1> QED BY <1>2, <1>6, <1>8

\* A handler that multicasts no GRANT.
LEMMA NothingGranted ==
  ASSUME BaseInv, NEW d \in Daemon, NEW out, AtMostOne(out), log' = Mcast(d, out),
         \A m : out = <<m>> => m.request # "GRANT"
  PROVE  NoNewGrant
<1>1. CASE out = <<>>
  <2>1. log' = log
    BY <1>1, McastNothing DEF BaseInv, IndInv
  <2> QED BY <2>1 DEF NoNewGrant, Index
<1>2. ASSUME NEW m, out = <<m>> PROVE NoNewGrant
  <2>1. log'[Len(log) + 1] = App(d, m) /\ \A k \in Index' \ Index : k = Len(log) + 1
    BY <1>2, OutEntry
  <2>2. App(d, m).body = m /\ m.request # "GRANT"
    BY <1>2 DEF App
  <2> QED BY <2>1, <2>2 DEF NoNewGrant, MsgAt
<1> QED BY <1>1, <1>2 DEF AtMostOne

\* Nobody waits, and what is sent otherwise is no GRANT.
LEMMA GrantNotSent ==
  ASSUME BaseInv, NEW d \in Daemon, NEW reqs, NEW R, NEW z, NextWaiting(reqs, R) = {},
         log' = Mcast(d, GrantOr(reqs, R, z)), AtMostOne(z),
         \A m : z = <<m>> => m.request # "GRANT"
  PROVE  NoNewGrant
<1>1. log' = Mcast(d, z)
  BY DEF GrantOr
<1> QED BY <1>1, NothingGranted

\* A daemon that passes R on has heard of, or joined after the GRANT to,
\* whoever asked for it before the one it serves.
LEMMA NobodyPassedOver ==
  ASSUME BaseInv, BaseInv', Asked, OneLock, OneGrant, TurnInv,
         NEW d \in cpg, Frame(d), Moves1(d), EndRule, Queue(d),
         NEW reqs, FromQueue(d, reqs), KeepsPlaces(d, reqs),
         NEW R \in Resource, Heard(d, R), NEW r \in NextWaiting(reqs, R),
         NEW b \in Index, MsgAt(b, "LOCK", R), b < r.at, Counts(OwnerAt(b))'
  PROVE  Granted(R, OwnerAt(b))
<1>0. /\ d \in Daemon /\ Index \subseteq Nat /\ Index' \subseteq Nat
      /\ pos[d] \in Nat /\ pos'[d] \in Nat /\ pos[d] <= pos'[d]
  BY Positions DEF Frame
<1>1. PICK o : o = OwnerAt(b)
  OBVIOUS
<1>2. Counts(o) /\ o.pid \notin ended' /\ o.pid \notin Triers /\ For(b, "LOCK", R, o)
  <2>1. OwnerAt(b)' = o
    BY <1>0, <1>1, OldEntries
  <2>2. o.pid \notin Triers /\ o.pid \notin ended'
    BY <2>1 DEF Counts
  <2> QED BY <1>1, <2>2 DEF Counts, EndRule, For
<1>3. /\ \A x \in reqs : For(x.at, "LOCK", x.resource, x.owner) /\ x.at <= pos'[d]
      /\ \A x \in reqs : x.state = "HELD" => Granted(x.resource, x.owner)
  <2> SUFFICES ASSUME NEW x \in reqs
               PROVE  /\ For(x.at, "LOCK", x.resource, x.owner) /\ x.at <= pos'[d]
                      /\ x.state = "HELD" => Granted(x.resource, x.owner)
    OBVIOUS
  <2>1. CASE x \in requests[d]
    <3>1. For(x.at, "LOCK", x.resource, x.owner) /\ x.at <= pos[d]
      BY <2>1 DEF Queue
    <3>2. x.at \in Nat
      BY <1>0, <3>1 DEF For, MsgAt
    <3>3. x.state = "HELD" => Granted(x.resource, x.owner)
      BY <1>0, <2>1 DEF TurnInv, Marked
    <3> QED BY <1>0, <3>1, <3>2, <3>3
  <2>2. CASE /\ Takes(d, x.at) /\ For(x.at, "LOCK", x.resource, x.owner)
             /\ x.state = "PENDING"
    BY <1>0, <2>2 DEF Takes
  <2> QED BY <2>1, <2>2 DEF FromQueue
<1>4. /\ r \in reqs /\ r.resource = R /\ r.state = "PENDING" /\ r.at \in Index
      /\ \A x \in reqs : x.resource = R /\ x.state = "PENDING" => r.at <= x.at
  <2>1. r \in reqs /\ r.resource = R /\ r.state = "PENDING"
        /\ \A x \in reqs : x.resource = R /\ x.state = "PENDING" => r.at <= x.at
    BY DEF NextWaiting
  <2> QED BY <1>3, <2>1 DEF For, MsgAt
<1>5. b < pos'[d]
  BY <1>0, <1>3, <1>4
<1>6. CASE AfterJoin(d, b)
  <2> SUFFICES ASSUME ~Granted(R, o) PROVE FALSE
    BY <1>1
  <2>1. \A g \in Index : ~For(g, "GRANT", R, o)
    BY DEF Granted
  <2>2. \E x \in reqs : x.at = b
    <3>1. CASE b <= pos[d]
      <4>1. PICK x \in requests[d] : x.at = b
        BY <1>0, <1>1, <1>2, <1>6, <2>1, <3>1 DEF TurnInv, HasAll
      <4>2. For(b, "LOCK", x.resource, x.owner)
        BY <4>1 DEF Queue
      <4>3. x.resource = R /\ x.owner = o
        BY <1>2, <4>2 DEF For, MsgAt
      <4>4. Counts(x.owner)'
        BY <1>2, <4>3 DEF Counts
      <4> QED BY <2>1, <4>1, <4>3, <4>4 DEF KeepsPlaces
    <3>2. CASE ~(b <= pos[d])
      <4>1. Takes(d, b)
        BY <1>0, <1>5, <3>2 DEF Moves1, Takes
      <4> QED BY <1>6, <4>1 DEF KeepsPlaces
    <3> QED BY <3>1, <3>2
  <2>3. PICK x \in reqs : x.at = b
    BY <2>2
  <2>4. x.resource = R /\ x.owner = o
    <3>1. For(b, "LOCK", x.resource, x.owner)
      BY <1>3, <2>3
    <3> QED BY <1>2, <3>1 DEF For, MsgAt
  <2>5. x.state # "HELD"
    BY <1>3, <2>1, <2>4 DEF Granted
  <2>6. x.state = "PENDING"
    BY <2>3, <2>5 DEF FromQueue, Request
  <2>7. r.at <= b
    BY <1>4, <2>3, <2>4, <2>6
  <2>8. r.at \in Nat /\ b \in Nat /\ b < r.at
    BY <1>0, <1>4
  <2> QED BY <2>7, <2>8
<1>7. CASE ~AfterJoin(d, b)
  <2>1. CASE FirstJoiner(d)
    <3>1. PICK e \in cpg, i \in Index : JoinAt(i, e) /\ i <= b
      BY DEF Asked, NodeJoined
    <3>2. PICK j \in Index : JoinAt(j, d) /\ j <= i
      <4>1. e \in Daemon
        BY Positions
      <4> QED BY <2>1, <3>1, <4>1 DEF FirstJoiner
    <3>3. j # b
      BY <3>2 DEF JoinAt, MsgAt
    <3>4. j < b
      BY <1>0, <3>1, <3>2, <3>3
    <3> QED BY <1>7, <3>2, <3>4 DEF AfterJoin
  <2>2. CASE \E g \in Index : MsgAt(g, "GRANT", R) /\ OwnerAt(g).node = NodeOf[d]
    <3>1. PICK g \in Index : MsgAt(g, "GRANT", R) /\ OwnerAt(g).node = NodeOf[d]
      BY <2>2
    <3>2. PICK a \in Index : For(a, "LOCK", R, OwnerAt(g))
      BY <3>1 DEF OneGrant
    <3>3. MsgAt(a, "LOCK", R) /\ OwnerAt(a).node = NodeOf[d]
      BY <3>1, <3>2 DEF For
    <3>4. PICK e \in cpg, j \in Index : NodeOf[e] = NodeOf[d] /\ JoinAt(j, e) /\ j <= a
      BY <3>3 DEF Asked, NodeJoined
    <3>5. e = d
      BY <3>4 DEF BaseInv, IndInv, LogInv, Members
    <3>6. ~(j < b) /\ j # a
      BY <1>7, <3>3, <3>4, <3>5 DEF AfterJoin, JoinAt, MsgAt
    <3>7. b < a
      BY <1>0, <3>4, <3>6
    <3> QED BY <1>1, <1>2, <3>1, <3>2, <3>7 DEF TurnInv, FirstCome, Granted
  <2> QED BY <2>1, <2>2 DEF Heard
<1> QED BY <1>6, <1>7

\* What was so stays so: what is counted, granted and came after a JOIN.
LEMMA Monotone ==
  ASSUME BaseInv, BaseInv', NEW d \in Daemon, Frame(d), EndRule
  PROVE  /\ \A o : Counts(o)' => Counts(o)
         /\ \A R, o : Granted(R, o) => Granted(R, o)'
         /\ \A e \in Daemon : \A i \in Index : AfterJoin(e, i)' => AfterJoin(e, i)
<1>1. \A o : Counts(o)' => Counts(o)
  BY DEF Counts, EndRule
<1>2. ASSUME NEW R, NEW o, Granted(R, o) PROVE Granted(R, o)'
  <2>1. PICK g \in Index : For(g, "GRANT", R, o)
    BY <1>2 DEF Granted
  <2>2. g \in Index' /\ For(g, "GRANT", R, o)'
    BY <2>1, OldEntries, OldWords
  <2> QED BY <2>2 DEF Granted
<1>3. ASSUME NEW e \in Daemon, NEW i \in Index, AfterJoin(e, i)' PROVE AfterJoin(e, i)
  <2>1. PICK j \in Index' : JoinAt(j, e)' /\ j < i
    BY <1>3 DEF AfterJoin
  <2>2. j \in Index
    <3>1. i \in Nat /\ j \in Nat
      BY <2>1, Positions
    <3>2. j \in Index' \ Index => i < j
      BY OldWords
    <3> QED BY <2>1, <3>1, <3>2
  <2>3. JoinAt(j, e)
    BY <2>1, <2>2, OldEntries
  <2> QED BY <2>1, <2>2, <2>3 DEF AfterJoin
<1> QED BY <1>1, <1>2, <1>3

LEMMA OthersTurn ==
  ASSUME BaseInv, BaseInv', NEW d \in Daemon, Frame(d), EndRule,
         NEW e \in Daemon \ {d}, Marked(e), HasAll(e)
  PROVE  Marked(e)' /\ HasAll(e)'
<1>1. requests'[e] = requests[e] /\ pos'[e] = pos[e]
  BY DEF Frame
<1>2. Marked(e)'
  BY <1>1, Monotone DEF Marked
<1>3. ASSUME NEW b \in Index', NEW R \in Resource, MsgAt(b, "LOCK", R)',
             AfterJoin(e, b)', b <= pos'[e], Counts(OwnerAt(b))',
             \A g \in Index' : For(g, "GRANT", R, OwnerAt(b))' => pos'[e] < g
      PROVE  \E r \in requests'[e] : r.at = b
  <2>1. b \in Index
    BY <1>3, BehindIsOld
  <2>2. MsgAt(b, "LOCK", R) /\ OwnerAt(b)' = OwnerAt(b) /\ AfterJoin(e, b)
    BY <1>3, <2>1, OldEntries, Monotone
  <2>3. Counts(OwnerAt(b))
    BY <1>3, <2>2, Monotone DEF Counts
  <2>4. \A g \in Index : For(g, "GRANT", R, OwnerAt(b)) => pos[e] < g
    <3> TAKE g \in Index
    <3>1. For(g, "GRANT", R, OwnerAt(b)) => For(g, "GRANT", R, OwnerAt(b))'
      BY <2>2, OldEntries DEF For
    <3> QED BY <1>1, <1>3, <3>1, OldEntries
  <2> QED BY <1>1, <1>3, <2>1, <2>2, <2>3, <2>4 DEF HasAll
<1> QED BY <1>2, <1>3 DEF HasAll

\* The requests d has, marked or not.
LEMMA OwnTurn ==
  ASSUME BaseInv, BaseInv', NEW d \in Daemon, Frame(d), Moves1(d), EndRule, Queue(d),
         Marked(d), HasAll(d), TurnRule(d)
  PROVE  Marked(d)' /\ HasAll(d)'
<1>0. PICK reqs : FromQueue(d, reqs) /\ KeepsPlaces(d, reqs) /\ Serves(d, reqs)
  BY DEF TurnRule
<1>p. /\ Index \subseteq Nat /\ Index' \subseteq Nat
      /\ pos[d] \in Nat /\ pos'[d] \in Nat /\ pos[d] <= pos'[d]
  BY Positions DEF Frame
<1>1. /\ reqs \in SUBSET Request
      /\ \A x \in reqs : For(x.at, "LOCK", x.resource, x.owner)
      /\ \A x \in reqs : x.state = "HELD" => Granted(x.resource, x.owner)
  <2> SUFFICES ASSUME NEW x \in reqs
               PROVE  /\ For(x.at, "LOCK", x.resource, x.owner)
                      /\ x.state = "HELD" => Granted(x.resource, x.owner)
    BY <1>0 DEF FromQueue
  <2>1. CASE x \in requests[d]
    BY <2>1 DEF Queue, Marked
  <2>2. CASE Takes(d, x.at) /\ For(x.at, "LOCK", x.resource, x.owner)
             /\ x.state = "PENDING"
    BY <2>2
  <2> QED BY <1>0, <2>1, <2>2 DEF FromQueue
<1>2. Marked(d)'
  <2> SUFFICES ASSUME NEW q \in requests'[d], q.state = "HELD"
               PROVE  Granted(q.resource, q.owner)'
    BY DEF Marked
  <2>1. CASE requests'[d] = reqs
    BY <1>1, <2>1, Monotone
  <2>2. ASSUME NEW R \in Resource, NEW z, requests'[d] = GrantMarked(reqs, {R}),
               log' = Mcast(d, GrantOr(reqs, R, z))
        PROVE  Granted(q.resource, q.owner)'
    <3>1. PICK r \in reqs : Same(q, r) /\ (q = r \/ r \in NextWaiting(reqs, R))
      BY <1>1, <2>2, MarkedStates
    <3>2. CASE q = r
      BY <1>1, <3>2, Monotone
    <3>3. CASE r \in NextWaiting(reqs, R)
      <4>1. PICK s \in NextWaiting(reqs, R), k \in Index' \ Index :
              For(k, "GRANT", R, s.owner)'
        BY <2>2, <3>3, GrantSent
      <4>2. /\ r.resource = R /\ s.resource = R /\ s \in reqs
            /\ r.at <= s.at /\ s.at <= r.at
        BY <3>3, <4>1 DEF NextWaiting
      <4>3. r.at \in Nat /\ s.at \in Nat
        BY <1>1, <4>2 DEF Request
      <4>4. r.at = s.at
        BY <4>2, <4>3
      <4>5. r.owner = s.owner
        BY <1>1, <4>2, <4>4 DEF For
      <4>6. Granted(R, s.owner)'
        BY <4>1 DEF Granted
      <4>7. q.resource = R /\ q.owner = s.owner
        BY <3>1, <4>2, <4>5 DEF Same
      <4> QED BY <4>6, <4>7
    <3> QED BY <3>1, <3>2, <3>3
  <2> QED BY <1>0, <2>1, <2>2 DEF Serves
<1>3. HasAll(d)'
  <2> SUFFICES ASSUME NEW b \in Index', NEW R \in Resource, MsgAt(b, "LOCK", R)',
                      AfterJoin(d, b)', b <= pos'[d], Counts(OwnerAt(b))',
                      \A g \in Index' : For(g, "GRANT", R, OwnerAt(b))' => pos'[d] < g
               PROVE  \E r \in requests'[d] : r.at = b
    BY DEF HasAll
  <2>1. b \in Index
    BY BehindIsOld
  <2>2. PICK o : o = OwnerAt(b)
    OBVIOUS
  <2>3. /\ MsgAt(b, "LOCK", R) /\ OwnerAt(b)' = o /\ AfterJoin(d, b)
        /\ For(b, "LOCK", R, o)
    BY <2>1, <2>2, OldEntries, Monotone DEF For
  <2>4. Counts(o)' /\ Counts(OwnerAt(b))
    BY <2>2, <2>3, Monotone DEF Counts
  <2>5. \A g \in Index : For(g, "GRANT", R, o) => pos'[d] < g
    <3> TAKE g \in Index
    <3>1. For(g, "GRANT", R, o) => For(g, "GRANT", R, OwnerAt(b))'
      BY <2>3, OldEntries DEF For
    <3> QED BY <3>1, OldEntries
  <2>6. \E r \in reqs : r.at = b
    <3>1. CASE b <= pos[d]
      <4>1. \A g \in Index : For(g, "GRANT", R, OwnerAt(b)) => pos[d] < g
        <5> TAKE g \in Index
        <5>1. For(g, "GRANT", R, OwnerAt(b)) => pos'[d] < g
          BY <2>2, <2>5
        <5> QED BY <1>p, <5>1
      <4>2. PICK r \in requests[d] : r.at = b
        BY <2>1, <2>3, <2>4, <3>1, <4>1 DEF HasAll
      <4>3. For(b, "LOCK", r.resource, r.owner)
        BY <4>2 DEF Queue
      <4>4. r.resource = R /\ r.owner = o
        BY <2>3, <4>3 DEF For, MsgAt
      <4>5. \A g \in Index : Takes(d, g) => ~For(g, "GRANT", R, o)
        BY <1>p, <2>5 DEF Takes
      <4>6. Counts(r.owner)'
        BY <2>4, <4>4 DEF Counts
      <4> QED BY <1>0, <4>2, <4>4, <4>5, <4>6 DEF KeepsPlaces
    <3>2. CASE ~(b <= pos[d])
      <4>1. Takes(d, b)
        BY <1>p, <2>1, <3>2 DEF Moves1, Takes
      <4> QED BY <1>0, <2>1, <2>3, <4>1 DEF KeepsPlaces
    <3> QED BY <3>1, <3>2
  <2>7. PICK r \in reqs : r.at = b
    BY <2>6
  <2>8. CASE requests'[d] = reqs
    BY <2>7, <2>8
  <2>9. ASSUME NEW S, requests'[d] = GrantMarked(reqs, {S})
        PROVE  \E q \in requests'[d] : q.at = b
    <3>1. PICK q \in GrantMarked(reqs, {S}) : Same(q, r)
      BY <1>1, <2>7, MarkedSame
    <3> QED BY <2>7, <2>9, <3>1 DEF Same
  <2> QED BY <1>0, <2>8, <2>9 DEF Serves
<1> QED BY <1>2, <1>3

\* The one GRANT of a step goes to the first who waits.
LEMMA NewGrant ==
  ASSUME BaseInv, NEW d \in Daemon, NEW reqs, Serves(d, reqs),
         NEW g \in Index' \ Index, NEW R \in Resource, MsgAt(g, "GRANT", R)'
  PROVE  /\ \E r \in NextWaiting(reqs, R) : For(g, "GRANT", R, r.owner)'
         /\ requests'[d] = GrantMarked(reqs, {R}) /\ Heard(d, R)
<1>1. PICK S \in Resource : \E z :
        /\ requests'[d] = GrantMarked(reqs, {S}) /\ log' = Mcast(d, GrantOr(reqs, S, z))
        /\ AtMostOne(z) /\ \A m : z = <<m>> => m.request # "GRANT"
        /\ Heard(d, S)
  BY DEF Serves, NoNewGrant
<1>2. PICK z :
        /\ log' = Mcast(d, GrantOr(reqs, S, z))
        /\ AtMostOne(z) /\ \A m : z = <<m>> => m.request # "GRANT"
  BY <1>1
<1>3. NextWaiting(reqs, S) # {}
  BY <1>2, GrantNotSent DEF NoNewGrant
<1>4. PICK r \in NextWaiting(reqs, S), k \in Index' \ Index :
        For(k, "GRANT", S, r.owner)' /\ \A j \in Index' \ Index : j = k
  BY <1>2, <1>3, GrantSent
<1>5. For(g, "GRANT", S, r.owner)'
  BY <1>4
<1>6. S = R
  BY <1>5 DEF For, MsgAt
<1> QED BY <1>1, <1>4, <1>5, <1>6

LEMMA FirstComeKept ==
  ASSUME BaseInv, BaseInv', Asked, OneLock, OneGrant, OneLock', TurnInv,
         NEW d \in cpg, Frame(d), Moves1(d), EndRule, Queue(d), TurnRule(d)
  PROVE  FirstCome'
<1> d \in Daemon /\ Index \subseteq Nat /\ Index' \subseteq Nat
  BY Positions
<1> SUFFICES ASSUME NEW g \in Index', NEW a \in Index', NEW b \in Index', NEW R \in Resource,
                    MsgAt(g, "GRANT", R)', For(a, "LOCK", R, OwnerAt(g))',
                    MsgAt(b, "LOCK", R)', b < a, Counts(OwnerAt(b))'
             PROVE  \E h \in Index' : For(h, "GRANT", R, OwnerAt(b))' /\ h < g
  BY DEF FirstCome
<1>1. PICK o, x : o = OwnerAt(g)' /\ x = OwnerAt(b)'
  OBVIOUS
<1>2. For(a, "LOCK", R, o)' /\ MsgAt(a, "LOCK", R)' /\ OwnerAt(a)' = o
  BY <1>1 DEF For
<1>3. \A c \in Index : For(c, "LOCK", R, o) => c = a
  <2> SUFFICES ASSUME NEW c \in Index, For(c, "LOCK", R, o) PROVE c = a
    OBVIOUS
  <2>1. c \in Index' /\ For(c, "LOCK", R, o)'
    BY OldEntries, OldWords
  <2> QED BY <1>2, <2>1 DEF OneLock
<1>4. \A c \in Index : c = a =>
        b \in Index /\ MsgAt(b, "LOCK", R) /\ OwnerAt(b) = x /\ For(c, "LOCK", R, o)
  <2> SUFFICES ASSUME NEW c \in Index, c = a
               PROVE  b \in Index /\ MsgAt(b, "LOCK", R) /\ OwnerAt(b) = x
                      /\ For(c, "LOCK", R, o)
    OBVIOUS
  <2>1. b \in Index
    <3>1. b \in Index' \ Index => c < b
      BY OldWords
    <3>2. b \in Nat /\ c \in Nat
      OBVIOUS
    <3> QED BY <3>1, <3>2
  <2> QED BY <1>1, <1>2, <2>1, OldEntries, OldWords
<1>5. \A h \in Index : h \in Index' /\ (For(h, "GRANT", R, x) => For(h, "GRANT", R, OwnerAt(b))')
  BY <1>1, OldEntries, OldWords DEF For
<1>6. CASE g \in Index
  <2>1. MsgAt(g, "GRANT", R) /\ OwnerAt(g) = o
    BY <1>1, <1>6, OldEntries
  <2>2. PICK c \in Index : For(c, "LOCK", R, o)
    BY <1>6, <2>1 DEF OneGrant
  <2>3. c = a
    BY <1>3, <2>2
  <2>4. b \in Index /\ MsgAt(b, "LOCK", R) /\ OwnerAt(b) = x
    BY <1>4, <2>3
  <2>5. Counts(OwnerAt(b))
    BY <1>1, <2>4, Monotone DEF Counts
  <2>6. \E h \in Index : For(h, "GRANT", R, x) /\ h < g
    BY <1>6, <2>1, <2>2, <2>3, <2>4, <2>5 DEF TurnInv, FirstCome
  <2> QED BY <1>5, <2>6
<1>7. CASE g \in Index' \ Index
  <2>1. PICK reqs : FromQueue(d, reqs) /\ KeepsPlaces(d, reqs) /\ Serves(d, reqs)
    BY DEF TurnRule
  <2>2. Heard(d, R)
    BY <1>7, <2>1, NewGrant
  <2>3. PICK r \in NextWaiting(reqs, R) : For(g, "GRANT", R, r.owner)'
    BY <1>7, <2>1, NewGrant
  <2>4. r \in reqs /\ r.resource = R
    BY <2>3 DEF NextWaiting
  <2>5. For(r.at, "LOCK", R, r.owner)
    BY <2>1, <2>4 DEF FromQueue, Queue
  <2>6. r.owner = o /\ r.at \in Index
    BY <1>1, <2>3, <2>5 DEF For, MsgAt
  <2>7. r.at = a
    BY <1>3, <2>5, <2>6
  <2>8. b \in Index /\ MsgAt(b, "LOCK", R) /\ OwnerAt(b) = x
    BY <1>4, <2>6, <2>7
  <2>9. Counts(OwnerAt(b))'
    OBVIOUS
  <2>10. Granted(R, OwnerAt(b))
    BY <2>1, <2>2, <2>3, <2>7, <2>8, NobodyPassedOver
  <2>11. PICK h \in Index : For(h, "GRANT", R, x)
    BY <2>8, <2>10 DEF Granted
  <2>12. h < g
    BY <1>7, OldWords
  <2> QED BY <1>5, <2>11, <2>12
<1> QED BY <1>6, <1>7

LEMMA TurnKept ==
  ASSUME BaseInv, BaseInv', Asked, OneLock, OneGrant, OneLock', TurnInv,
         NEW d \in cpg, Frame(d), Moves1(d), EndRule, Queue(d), TurnRule(d)
  PROVE  TurnInv'
<1> d \in Daemon
  BY Positions
<1>1. FirstCome'
  BY FirstComeKept
<1>2. ASSUME NEW e \in Daemon PROVE Marked(e)' /\ HasAll(e)'
  <2>1. Marked(e) /\ HasAll(e) /\ Marked(d) /\ HasAll(d)
    BY DEF TurnInv
  <2>2. CASE e = d
    BY <2>1, <2>2, OwnTurn
  <2>3. CASE e # d
    BY <2>1, <2>3, OthersTurn
  <2> QED BY <2>2, <2>3
<1> QED BY <1>1, <1>2 DEF TurnInv

-----------------------------------------------------------------------------
(***************************************************************************)
(* The steps of the membership layer.                                      *)
(***************************************************************************)

\* Who has dispatched its own JOIN has joined, and nobody else.
LEMMA KnowsOwnJoin ==
  ASSUME BaseInv, NobodyGone, NEW d \in Daemon, NEW j \in Index, JoinAt(j, d)
  PROVE  d \in cpg /\ (j <= pos[d] => joined[d])
<1>0. View(d) /\ LogInv /\ pos[d] \in Nat /\ Index \subseteq Nat
  BY LenProperties DEF BaseInv, TypeOK, GTypeOK, IndInv, ViewInv, Index
<1>1. d \in cpg
  BY <1>0 DEF LogInv, Joins, Members, NobodyGone
<1>2. ASSUME j <= pos[d] PROVE joined[d]
  <2>1. PICK k \in Index : EnterAt(k, d)
    BY <1>0, <1>1 DEF LogInv, Known
  <2>2. k < j
    BY <1>0, <2>1 DEF LogInv, Joins
  <2>3. total_members[d] # 0
    <3> SUFFICES ASSUME total_members[d] = 0 PROVE FALSE
      OBVIOUS
    <3>1. pos[d] + 1 = k
      BY <1>0, <1>1, <2>1 DEF View, Progress
    <3>2. j \in Nat /\ k \in Nat
      BY <1>0
    <3> QED BY <1>0, <1>2, <2>2, <3>1, <3>2
  <2> QED BY <1>0, <1>1, <1>2, <2>3 DEF View, Complete, Sound
<1> QED BY <1>1, <1>2

LEMMA GroupStepTurn ==
  ASSUME BaseInv, BaseInv', TokenInv, OneLock, OneGrant, TurnInv, NEW d \in Daemon, GroupStep(d)
  PROVE  TurnInv'
<1>0. UNCHANGED <<locks, requests, local_lockid, clients, calls, ended>> /\ Frame(d)
  BY GroupStepKeeps DEF GroupStep, lockVars
<1>1. EndRule
  BY <1>0 DEF EndRule
<1> Index \subseteq Nat /\ Index' \subseteq Nat /\ pos[d] \in Nat /\ NobodyGone
  BY Positions DEF TokenInv
<1>2. \A i \in Index' : \A q, R : MsgAt(i, q, R)' => i \in Index /\ MsgAt(i, q, R)
  BY <1>0, OldEntries DEF GroupStep, MsgAt
<1>3. FirstCome'
  <2> SUFFICES ASSUME NEW g \in Index', NEW a \in Index', NEW b \in Index', NEW R \in Resource,
                      MsgAt(g, "GRANT", R)', For(a, "LOCK", R, OwnerAt(g))',
                      MsgAt(b, "LOCK", R)', b < a, Counts(OwnerAt(b))'
               PROVE  \E h \in Index' : For(h, "GRANT", R, OwnerAt(b))' /\ h < g
    BY DEF FirstCome
  <2>1. PICK o, x : o = OwnerAt(g)' /\ x = OwnerAt(b)'
    OBVIOUS
  <2>2. /\ g \in Index /\ a \in Index /\ b \in Index
        /\ MsgAt(g, "GRANT", R) /\ MsgAt(b, "LOCK", R)
    BY <1>2 DEF For
  <2>3. OwnerAt(g) = o /\ OwnerAt(b) = x
    BY <1>0, <2>1, <2>2, OldEntries
  <2>4. For(a, "LOCK", R, OwnerAt(g))
    BY <1>0, <2>1, <2>2, <2>3, OldWords
  <2>5. Counts(OwnerAt(b))
    BY <1>0, <1>1, <2>1, <2>3, Monotone DEF Counts
  <2>6. PICK h \in Index : For(h, "GRANT", R, x) /\ h < g
    BY <2>2, <2>3, <2>4, <2>5 DEF TurnInv, FirstCome
  <2>7. h \in Index' /\ For(h, "GRANT", R, OwnerAt(b))'
    BY <1>0, <2>1, <2>6, OldEntries, OldWords
  <2> QED BY <2>6, <2>7
<1>4. Marked(d)'
  BY <1>0, <1>1, Monotone DEF TurnInv, Marked
<1>5. HasAll(d)'
  <2> SUFFICES ASSUME NEW b \in Index', NEW R \in Resource, MsgAt(b, "LOCK", R)',
                      AfterJoin(d, b)', b <= pos'[d], Counts(OwnerAt(b))',
                      \A g \in Index' : For(g, "GRANT", R, OwnerAt(b))' => pos'[d] < g
               PROVE  \E r \in requests[d] : r.at = b
    BY <1>0 DEF HasAll
  <2>1. PICK o : o = OwnerAt(b)'
    OBVIOUS
  <2>2. b \in Index /\ MsgAt(b, "LOCK", R)
    BY <1>2
  <2>3. OwnerAt(b) = o /\ AfterJoin(d, b)
    BY <1>0, <1>1, <2>1, <2>2, OldEntries, Monotone
  <2>4. Counts(OwnerAt(b))
    BY <1>0, <1>1, <2>1, <2>3, Monotone DEF Counts
  <2>5. PICK j \in Index : JoinAt(j, d) /\ j < b
    BY <2>3 DEF AfterJoin
  <2>6. d \in cpg /\ (j <= pos[d] => joined[d])
    BY <2>5, KnowsOwnJoin
  <2>7. b <= pos[d]
    <3>1. pos'[d] = pos[d] \/ pos'[d] = pos[d] + 1
      BY <2>6 DEF GroupStep
    <3> SUFFICES ASSUME ~(b <= pos[d]) PROVE FALSE
      OBVIOUS
    <3>2. pos'[d] = pos[d] + 1 /\ b = pos[d] + 1
      BY <2>2, <3>1
    <3>3. pos'[d] # pos[d] /\ j <= pos[d]
      BY <2>2, <2>5, <3>2
    <3>4. NextEntry(d).request = "APP" /\ Body(d).request = "LOCK"
      BY <2>2, <3>2 DEF NextEntry, Body, MsgAt
    <3> QED BY <2>6, <3>3, <3>4 DEF GroupStep
  <2>8. \A g \in Index : For(g, "GRANT", R, OwnerAt(b)) => pos[d] < g
    <3> TAKE g \in Index
    <3>1. For(g, "GRANT", R, OwnerAt(b)) => For(g, "GRANT", R, OwnerAt(b))'
      BY <1>0, <2>1, <2>3, OldWords
    <3>2. g \in Index' /\ g \in Nat /\ pos[d] <= pos'[d] /\ pos'[d] \in Nat
      BY <1>0, OldEntries, Positions DEF Frame
    <3> QED BY <3>1, <3>2
  <2> QED BY <2>2, <2>3, <2>4, <2>7, <2>8 DEF TurnInv, HasAll
<1>6. \A e \in Daemon \ {d} : Marked(e)' /\ HasAll(e)'
  BY <1>0, <1>1, OthersTurn DEF TurnInv
<1> QED BY <1>3, <1>4, <1>5, <1>6 DEF TurnInv

-----------------------------------------------------------------------------
(***************************************************************************)
(* The handlers and the steps of the clients follow the rules.             *)
(***************************************************************************)

\* A daemon that is given a lock, or gives it back, was granted it.
LEMMA OwnToken ==
  ASSUME BaseInv, TokenInv, NEW d \in Daemon, NEW R \in Resource, NEW i \in Index,
         Token(i, R), OwnerAt(i).node = NodeOf[d]
  PROVE  Heard(d, R)
<1>1. CASE MsgAt(i, "GRANT", R)
  BY <1>1 DEF Heard
<1>2. CASE MsgAt(i, "UNLOCK", R)
  <2>1. PICK g \in Index : MsgAt(g, "GRANT", R) /\ OwnerAt(g) = OwnerAt(i)
    BY <1>2 DEF TokenInv, Paired
  <2> QED BY <2>1 DEF Heard
<1> QED BY <1>1, <1>2 DEF Token

\* Who asked from this node and is not connected to it is gone.
LEMMA GoneEnded ==
  ASSUME BaseInv, TokenInv, QueueInv, NEW d \in cpg, NEW a \in Index, NEW R \in Resource,
         NEW o, For(a, "LOCK", R, o), o.node = NodeOf[d], o.pid \notin clients[d]
  PROVE  o.pid \in ended
<1> SUFFICES ASSUME o.pid \notin ended PROVE FALSE
  OBVIOUS
<1>1. o = OwnerAt(a) /\ MsgAt(a, "LOCK", R)
  BY DEF For
<1>2. OfCall(o, R)
  BY <1>1 DEF TokenInv, Asked
<1>3. o.pid \in Proc \ ended /\ calls[o.pid] # <<>>
  BY <1>2 DEF OfCall
<1>4. PICK e \in Daemon : o.pid \in clients[e]
  BY <1>3 DEF QueueInv, Callers
<1>5. e \in cpg /\ NodeOf[e] = ProcNode[o.pid]
  BY <1>4, OneDaemon
<1>6. o.node = ProcNode[o.pid]
  BY <1>1 DEF QueueInv, OneLock
<1>7. e = d
  BY <1>5, <1>6, Positions DEF BaseInv, IndInv, LogInv, Members
<1> QED BY <1>4, <1>7

\* A request that still waits was not marked.
LEMMA StillPending ==
  ASSUME NEW reqs \in SUBSET Request, NEW Rs, NEW q \in GrantMarked(reqs, Rs),
         q.state = "PENDING"
  PROVE  q \in reqs
<1>1. PICK r \in reqs : q = IF \E S \in Rs : r \in NextWaiting(reqs, S)
                            THEN [r EXCEPT !.state = "HELD"] ELSE r
  BY DEF GrantMarked
<1>2. [r EXCEPT !.state = "HELD"].state = "HELD"
  BY DEF Request
<1> QED BY <1>1, <1>2

\* Somebody who waits is the first to wait.
LEMMA SomebodyFirst ==
  ASSUME NEW reqs \in SUBSET Request, NEW R, NEW r \in reqs, r.resource = R,
         r.state = "PENDING"
  PROVE  NextWaiting(reqs, R) # {}
<1> DEFINE waiting == { x \in reqs : x.resource = R /\ x.state = "PENDING" }
           places  == { x.at : x \in waiting }
<1>1. r \in waiting /\ places \subseteq Nat
  BY DEF Request
<1>2. places # {}
  BY <1>1
<1>3. PICK n \in places : \A k \in places : n <= k
  BY <1>1, <1>2, MinInSet
<1>4. PICK x \in waiting : x.at = n
  BY <1>3
<1>5. x \in NextWaiting(reqs, R)
  BY <1>3, <1>4 DEF NextWaiting
<1> QED BY <1>5

\* Handlers that write one record and the queue.
LEMMA PlainServes ==
  ASSUME BaseInv, BaseInv', NEW d \in Daemon, NEW R \in Resource, NEW l, NEW Q, NEW out,
         Plain(d, R, l, Q, out), TurnRule(d),
         \A q \in Q : q.state = "PENDING" /\ q.resource # R => q \in requests[d],
         \A i \in Index, S \in Resource :
           i = pos[d] + 1 /\ Token(i, S) /\ OwnerAt(i).node = NodeOf[d] => S = R,
         locks[d][R].state = "NONE" /\ l.state # "NONE" =>
           ~IAmOldest(d) \/ \E k \in Index' : Token(k, R)',
         locks[d][R].state = "HELD" =>
           \/ \E i \in Index : i = pos[d] + 1 /\ Token(i, R)
           \/ l.state = "HELD" /\ l.owner = locks[d][R].owner,
         \A g \in Index :
           g = pos[d] + 1 /\ MsgAt(g, "GRANT", R) /\ OwnerAt(g).node = NodeOf[d] =>
             l.state = "HELD" /\ l.owner = OwnerAt(g),
         Idle(d, R) => \/ \E i \in Index : i = pos[d] + 1 /\ Token(i, R)
                       \/ SendsToken(R) \/ Idle(d, R)',
         \A u \in Index :
           /\ u = pos[d] + 1 /\ MsgAt(u, "UNLOCK", R) /\ OwnerAt(u).node = NodeOf[d]
           /\ locks[d][R].state = "HELD" /\ locks[d][R].owner = OwnerAt(u)
           => SendsToken(R) \/ Idle(d, R)'
  PROVE  ServiceRule(d)
<1>1. /\ Frame(d) /\ EndRule /\ Moves1(d) /\ pos'[d] = pos[d] + 1
      /\ locks'[d][R] = l /\ requests'[d] = Q
      /\ \A S \in Resource \ {R} : locks'[d][S] = locks[d][S]
  BY PlainFrame
<1>2. \A i : Takes(d, i) <=> i = pos[d] + 1
  BY <1>1 DEF Takes
<1>3. ASSUME NEW S \in Resource
      PROVE  /\ locks[d][S].state = "NONE" /\ locks'[d][S].state # "NONE" =>
                  ~IAmOldest(d) \/ \E k \in Index' : Token(k, S)'
             /\ locks[d][S].state = "HELD" /\ ~TakesToken(d, S) =>
                  locks'[d][S].state = "HELD" /\ locks'[d][S].owner = locks[d][S].owner
             /\ \A g \in Index :
                  Takes(d, g) /\ MsgAt(g, "GRANT", S) /\ OwnerAt(g).node = NodeOf[d] =>
                    locks'[d][S].state = "HELD" /\ locks'[d][S].owner = OwnerAt(g)
             /\ Idle(d, S) => TakesToken(d, S) \/ SendsToken(S) \/ Idle(d, S)'
             /\ \A u \in Index :
                  /\ Takes(d, u) /\ MsgAt(u, "UNLOCK", S) /\ OwnerAt(u).node = NodeOf[d]
                  /\ locks[d][S].state = "HELD" /\ locks[d][S].owner = OwnerAt(u)
                  => SendsToken(S) \/ Idle(d, S)'
  <2>1. CASE S = R
    BY <1>1, <1>2, <2>1 DEF TakesToken
  <2>2. CASE S # R
    <3>1. locks'[d][S] = locks[d][S]
      BY <1>1, <2>2
    <3>2. \A i \in Index : Takes(d, i) /\ Token(i, S) => OwnerAt(i).node # NodeOf[d]
      BY <1>2, <2>2
    <3>3. \A q \in requests'[d] : q.state = "PENDING" /\ q.resource = S => q \in requests[d]
      BY <1>1, <2>2
    <3>4. Idle(d, S) => Idle(d, S)'
      BY <3>1, <3>3 DEF Idle
    <3> QED BY <3>1, <3>2, <3>4 DEF Token
  <2> QED BY <2>1, <2>2
<1> QED BY <1>1, <1>3 DEF ServiceRule, DutyRule

LEMMA LockServes ==
  ASSUME Payload = LockMsg, BaseInv, BaseInv', TokenInv, QueueInv, NEW d \in Daemon,
         process_lock(d)
  PROVE  ServiceRule(d)
<1>1. PICK m, R, l : m = Body(d) /\ R = m.resource /\ l = locks[d][R]
  OBVIOUS
<1>2. Delivers(d, "LOCK") /\ joined[d]
  BY DEF process_lock
<1>3. /\ pos[d] + 1 \in Index /\ pos[d] \in Nat /\ OwnerAt(pos[d] + 1) = m.owner
      /\ MsgAt(pos[d] + 1, "LOCK", R) /\ log[pos[d] + 1].body = m /\ m.request = "LOCK"
  BY <1>1, <1>2, Dispatching DEF Body, NextEntry
<1>4. R \in Resource /\ m.owner \in Owners
  BY <1>1, <1>2, <1>3, BodyTypes DEF BaseInv, TypeOK, Delivers
<1>5. l \in LockRecord /\ requests[d] \in SUBSET Request
  BY <1>1, <1>4, LocksTyped DEF BaseInv
<1>6. PICK new : new = Queued(m, pos[d] + 1)
  OBVIOUS
<1>7. /\ new.resource = R /\ new.owner = m.owner /\ new.at = pos[d] + 1
      /\ new.state = "PENDING"
      /\ new \in Request /\ For(new.at, "LOCK", R, new.owner)
  BY <1>1, <1>3, <1>4, <1>6 DEF Queued, Request, For
<1>8. PICK queue : queue = requests[d] \cup {new}
  OBVIOUS
<1>9. queue \in SUBSET Request /\ Record(d, R) /\ NobodyGone
  BY <1>4, <1>5, <1>7, <1>8 DEF TokenInv, Records
<1> DEFINE fresh == l.state = "NONE"
           mine  == ~fresh /\ l.owner.node = NodeOf[d]
           grant == (mine /\ l.state = "FREE") \/ (fresh /\ IAmOldest(d))
<1>10. PICK L, Q, out :
         /\ SetLock(d, R, L) /\ SetRequests(d, Q) /\ DeliverApp(d, out)
         /\ UNCHANGED <<local_lockid, clientVars>>
         /\ \/ /\ grant /\ L = [l EXCEPT !.state = "PENDING"]
               /\ Q = GrantMarked(queue, {R}) /\ out = GrantOr(queue, R, <<>>)
            \/ /\ ~grant /\ L = (IF fresh THEN [l EXCEPT !.state = "FREE"] ELSE l)
               /\ Q = queue /\ out = (IF mine /\ m.try THEN send_nak(m) ELSE <<>>)
  BY <1>1, <1>6, <1>8 DEF process_lock, GrantStarted
<1>11. L.state # "NONE" /\ (l.state = "HELD" => L = l)
  BY <1>5, <1>10 DEF LockRecord
<1>12. AtMostOne(<<>>) /\ \A x : <<>> # <<x>>
  BY DEF AtMostOne
<1>13. AtMostOne(out) /\ (~grant => \A x : out = <<x>> => x.request # "GRANT")
  <2>1. CASE grant
    BY <1>10, <1>12, <2>1, GrantOrSays
  <2>2. CASE ~grant /\ mine /\ m.try
    <3>1. out = << Msg("NAK", m.resource, m.owner, m.try) >>
      BY <1>10, <2>2 DEF send_nak
    <3>2. Msg("NAK", m.resource, m.owner, m.try).request # "GRANT"
      BY DEF Msg
    <3> QED BY <3>1, <3>2, OneEqual DEF AtMostOne
  <2>3. CASE ~grant /\ ~(mine /\ m.try)
    BY <1>10, <1>12, <2>3
  <2> QED BY <2>1, <2>2, <2>3
<1>14. Plain(d, R, L, Q, out)
  BY <1>1, <1>10, <1>11, <1>13 DEF Plain
<1>15. /\ pos'[d] = pos[d] + 1 /\ requests'[d] = Q /\ log' = Mcast(d, out) /\ locks'[d][R] = L
       /\ \A i : Takes(d, i) <=> i = pos[d] + 1
  BY <1>4, <1>14, PlainFrame DEF Takes
<1>16. grant => Heard(d, R)
  <2>1. CASE mine /\ l.state = "FREE"
    <3>1. PICK u \in Index : MsgAt(u, "UNLOCK", R) /\ OwnerAt(u).node = NodeOf[d]
      BY <1>1, <1>9, <2>1 DEF Record
    <3> QED BY <1>4, <3>1, OwnToken DEF Token
  <2>2. CASE fresh /\ IAmOldest(d)
    BY <1>2, <1>9, <2>2, OldestIsFirst DEF Heard
  <2> QED BY <2>1, <2>2
<1>17. TurnRule(d)
  <2>1. FromQueue(d, queue)
    BY <1>7, <1>8, <1>9, <1>15 DEF FromQueue
  <2>2. KeepsPlaces(d, queue)
    BY <1>7, <1>8, <1>15 DEF KeepsPlaces
  <2>3. Serves(d, queue)
    <3>1. CASE grant
      BY <1>4, <1>10, <1>12, <1>15, <1>16, <3>1 DEF Serves
    <3>2. CASE ~grant
      <4>1. NoNewGrant
        BY <1>13, <1>15, <3>2, NothingGranted
      <4> QED BY <1>10, <1>15, <3>2, <4>1 DEF Serves
    <3> QED BY <3>1, <3>2
  <2> QED BY <2>1, <2>2, <2>3 DEF TurnRule
<1>18. grant => SendsToken(R) /\ \E k \in Index' : Token(k, R)'
  <2> SUFFICES ASSUME grant PROVE SendsToken(R)
    BY DEF SendsToken
  <2>1. NextWaiting(queue, R) # {}
    BY <1>7, <1>8, <1>9, SomebodyFirst
  <2>2. PICK k \in Index' \ Index : MsgAt(k, "GRANT", R)'
    BY <1>10, <1>15, <2>1, GrantSent DEF For
  <2> QED BY <2>2 DEF SendsToken, Token
<1>19. \A q \in Q : q.state = "PENDING" /\ q.resource # R => q \in requests[d]
  BY <1>7, <1>8, <1>9, <1>10, StillPending
<1>20. Idle(d, R) => grant
  BY <1>1, <1>5 DEF Idle
<1>21. /\ fresh /\ L.state # "NONE" => ~IAmOldest(d) \/ \E k \in Index' : Token(k, R)'
       /\ \A i \in Index, S \in Resource : i = pos[d] + 1 => ~Token(i, S)
       /\ \A i \in Index : i = pos[d] + 1 => ~MsgAt(i, "GRANT", R) /\ ~MsgAt(i, "UNLOCK", R)
  <2>1. \A S : ~Token(pos[d] + 1, S)
    <3>1. "LOCK" \notin {"GRANT", "UNLOCK"}
      OBVIOUS
    <3> QED BY <1>2, <3>1, Dispatching
  <2> QED BY <1>3, <1>18, <2>1 DEF Token
<1> QED BY <1>1, <1>4, <1>11, <1>14, <1>17, <1>18, <1>19, <1>20, <1>21, PlainServes

LEMMA UnlockServes ==
  ASSUME Payload = LockMsg, BaseInv, BaseInv', TokenInv, QueueInv, NEW d \in Daemon,
         process_unlock(d)
  PROVE  ServiceRule(d)
<1>1. PICK m, R, l, reqs : m = Body(d) /\ R = m.resource /\ l = locks[d][R] /\ reqs = requests[d]
  OBVIOUS
<1>2. Delivers(d, "UNLOCK") /\ joined[d]
  BY DEF process_unlock
<1>3. /\ pos[d] + 1 \in Index /\ pos[d] \in Nat /\ OwnerAt(pos[d] + 1) = m.owner
      /\ MsgAt(pos[d] + 1, "UNLOCK", R) /\ log[pos[d] + 1].body = m /\ m.request = "UNLOCK"
  BY <1>1, <1>2, Dispatching DEF Body, NextEntry
<1>4. R \in Resource /\ m.owner \in Owners
  BY <1>1, <1>2, <1>3, BodyTypes DEF BaseInv, TypeOK, Delivers
<1>5. l \in LockRecord /\ reqs \in SUBSET Request
  BY <1>1, <1>4, LocksTyped DEF BaseInv
<1> DEFINE mine == Unlocks(d, l, m) /\ l.owner.node = NodeOf[d]
<1>6. PICK L, Q, out :
        /\ SetLock(d, R, L) /\ SetRequests(d, Q) /\ DeliverApp(d, out)
        /\ UNCHANGED <<local_lockid, clientVars>>
        /\ \/ /\ mine /\ Q = GrantMarked(reqs, {R}) /\ out = GrantOr(reqs, R, <<>>)
              /\ L = [l EXCEPT !.state = IF NextWaiting(reqs, R) = {} THEN "FREE" ELSE "PENDING"]
           \/ /\ ~mine /\ Q = reqs /\ out = <<>>
              /\ Unlocks(d, l, m) /\ L = [l EXCEPT !.state = "FREE"]
           \/ /\ ~mine /\ Q = reqs /\ out = <<>> /\ ~Unlocks(d, l, m) /\ L = l
  <2>1. /\ UNCHANGED locks => SetLock(d, R, l)
        /\ UNCHANGED requests => SetRequests(d, reqs)
    BY <1>1, <1>4, SameWritten
  <2>2. CASE mine
    BY <1>1, <2>2 DEF process_unlock
  <2>3. CASE ~mine /\ Unlocks(d, l, m)
    BY <1>1, <2>1, <2>3 DEF process_unlock
  <2>4. CASE ~Unlocks(d, l, m)
    BY <1>1, <2>1, <2>4 DEF process_unlock
  <2> QED BY <2>2, <2>3, <2>4
<1>7. AtMostOne(<<>>) /\ \A x : <<>> # <<x>>
  BY DEF AtMostOne
<1>8. AtMostOne(out) /\ (~mine => \A x : out = <<x>> => x.request # "GRANT")
  BY <1>6, <1>7, GrantOrSays
<1>9. L.state = "NONE" <=> l.state = "NONE"
  BY <1>5, <1>6 DEF LockRecord, Unlocks
<1>10. Plain(d, R, L, Q, out)
  BY <1>1, <1>6, <1>8, <1>9 DEF Plain
<1>11. /\ pos'[d] = pos[d] + 1 /\ requests'[d] = Q /\ log' = Mcast(d, out) /\ locks'[d][R] = L
       /\ \A i : Takes(d, i) <=> i = pos[d] + 1
  BY <1>4, <1>10, PlainFrame DEF Takes
<1>12. mine => Heard(d, R)
  <2>1. Token(pos[d] + 1, R)
    BY <1>3 DEF Token
  <2>2. mine => OwnerAt(pos[d] + 1).node = NodeOf[d]
    BY <1>3 DEF Unlocks
  <2> QED BY <1>3, <1>4, <2>1, <2>2, OwnToken
<1>13. TurnRule(d)
  <2>1. FromQueue(d, reqs)
    BY <1>1, <1>5 DEF FromQueue
  <2>2. KeepsPlaces(d, reqs)
    BY <1>1, <1>3, <1>11 DEF KeepsPlaces, MsgAt
  <2>3. Serves(d, reqs)
    <3>1. CASE mine
      BY <1>4, <1>6, <1>7, <1>11, <1>12, <3>1 DEF Serves
    <3>2. CASE ~mine
      <4>1. NoNewGrant
        BY <1>8, <1>11, <3>2, NothingGranted
      <4> QED BY <1>6, <1>11, <3>2, <4>1 DEF Serves
    <3> QED BY <3>1, <3>2
  <2> QED BY <2>1, <2>2, <2>3 DEF TurnRule
<1>14. mine => SendsToken(R) \/ Idle(d, R)'
  <2> SUFFICES ASSUME mine PROVE SendsToken(R) \/ Idle(d, R)'
    OBVIOUS
  <2>1. CASE NextWaiting(reqs, R) # {}
    <3>1. PICK k \in Index' \ Index : MsgAt(k, "GRANT", R)'
      BY <1>6, <1>11, <2>1, GrantSent DEF For
    <3> QED BY <3>1 DEF SendsToken, Token
  <2>2. CASE NextWaiting(reqs, R) = {}
    <3>1. L.state = "FREE" /\ L.owner.node = NodeOf[d]
      BY <1>5, <1>6, <2>2 DEF LockRecord
    <3>2. \A q \in Q : q.resource = R => q.state # "PENDING"
      BY <1>5, <1>6, <2>2, StillPending, SomebodyFirst
    <3> QED BY <1>11, <3>1, <3>2 DEF Idle
  <2> QED BY <2>1, <2>2
<1>15. \A q \in Q : q.state = "PENDING" /\ q.resource # R => q \in requests[d]
  BY <1>1, <1>5, <1>6, StillPending
<1>16. \A i \in Index, S \in Resource : i = pos[d] + 1 /\ Token(i, S) => S = R
  BY <1>1, <1>2, Dispatching
<1>17. Token(pos[d] + 1, R) /\ ~MsgAt(pos[d] + 1, "GRANT", R)
  BY <1>3 DEF Token, MsgAt
<1>18. l.state = "HELD" /\ l.owner = m.owner /\ m.owner.node = NodeOf[d] => mine
  BY DEF Unlocks
<1> QED BY <1>1, <1>3, <1>4, <1>9, <1>10, <1>13, <1>14, <1>15, <1>16, <1>17, <1>18, PlainServes

LEMMA GrantElsewhereServes ==
  ASSUME Payload = LockMsg, BaseInv, BaseInv', TokenInv, QueueInv, NEW d \in Daemon,
         process_grant_remote(d) \/ process_grant_unknown(d)
  PROVE  ServiceRule(d)
<1>1. PICK m, R, L, reqs :
        /\ m = Body(d) /\ R = m.resource /\ reqs = requests[d]
        /\ L = GrantDelivered(d, m)
  OBVIOUS
<1>2. Delivers(d, "GRANT") /\ joined[d]
  BY DEF process_grant_remote, process_grant_unknown
<1>3. /\ pos[d] + 1 \in Index /\ pos[d] \in Nat /\ OwnerAt(pos[d] + 1) = m.owner
      /\ MsgAt(pos[d] + 1, "GRANT", R) /\ log[pos[d] + 1].body = m /\ m.request = "GRANT"
  BY <1>1, <1>2, Dispatching DEF Body, NextEntry
<1>4. R \in Resource /\ m.owner \in Owners
  BY <1>1, <1>2, <1>3, BodyTypes DEF BaseInv, TypeOK, Delivers
<1>5. /\ locks[d][R] \in LockRecord /\ reqs \in SUBSET Request
      /\ L.state = "HELD" /\ L.owner = m.owner
  <2>1. locks[d][R] \in LockRecord /\ reqs \in SUBSET Request
    BY <1>1, <1>4, LocksTyped DEF BaseInv
  <2> QED BY <1>1, <2>1 DEF LockRecord, GrantDelivered
<1>6. is_member(group_members[d], m.owner.node)
  BY <1>2, <1>3, <1>4, OwnerListed DEF Token
<1>7. PICK Q :
        /\ SetLock(d, R, L) /\ SetRequests(d, Q) /\ DeliverApp(d, <<>>)
        /\ UNCHANGED <<local_lockid, clientVars>>
        /\ Q = reqs \/ Q = reqs \ Matching(reqs, m)
  <2>1. UNCHANGED requests => SetRequests(d, reqs)
    BY <1>1, <1>4, SameWritten
  <2>2. CASE process_grant_unknown(d)
    BY <1>1, <2>1, <2>2 DEF process_grant_unknown
  <2>3. CASE process_grant_remote(d)
    BY <1>1, <1>6, <2>3 DEF process_grant_remote
  <2> QED BY <2>2, <2>3
<1>8. AtMostOne(<<>>) /\ \A x : <<>> # <<x>>
  BY DEF AtMostOne
<1>9. Plain(d, R, L, Q, <<>>)
  BY <1>5, <1>7, <1>8 DEF Plain
<1>10. /\ pos'[d] = pos[d] + 1 /\ requests'[d] = Q /\ log' = Mcast(d, <<>>)
       /\ \A i : Takes(d, i) <=> i = pos[d] + 1
       /\ \A i \in Index : i \in Index' /\ \A S : Token(i, S)' <=> Token(i, S)
  BY <1>4, <1>9, PlainFrame, OldEntries DEF Takes
<1>11. TurnRule(d)
  <2>1. FromQueue(d, Q)
    BY <1>1, <1>5, <1>7 DEF FromQueue
  <2>2. \A r \in reqs : r \notin Q =>
          \E g \in Index : Takes(d, g) /\ For(g, "GRANT", r.resource, r.owner)
    <3> SUFFICES ASSUME NEW r \in reqs, r \in Matching(reqs, m)
                 PROVE  For(pos[d] + 1, "GRANT", r.resource, r.owner)
      BY <1>3, <1>7, <1>10
    <3>1. r.resource = R /\ r.owner = m.owner
      BY <1>1 DEF Matching
    <3> QED BY <1>3, <3>1 DEF For
  <2>3. KeepsPlaces(d, Q)
    BY <1>1, <1>3, <1>10, <2>2 DEF KeepsPlaces, MsgAt
  <2>4. NoNewGrant
    BY <1>8, <1>10, NothingGranted
  <2> QED BY <1>10, <2>1, <2>3, <2>4 DEF TurnRule, Serves
<1>12. \A i \in Index, S \in Resource : i = pos[d] + 1 /\ Token(i, S) => S = R
  BY <1>1, <1>2, Dispatching
<1>13. Token(pos[d] + 1, R) /\ ~MsgAt(pos[d] + 1, "UNLOCK", R)
  BY <1>3 DEF Token, MsgAt
<1>14. \E k \in Index' : Token(k, R)'
  BY <1>3, <1>10, <1>13
<1> QED BY <1>1, <1>3, <1>4, <1>5, <1>7, <1>9, <1>11, <1>12, <1>13, <1>14, PlainServes

LEMMA GrantLocalServes ==
  ASSUME Payload = LockMsg, BaseInv, BaseInv', TokenInv, QueueInv, NEW d \in Daemon,
         process_grant_local(d)
  PROVE  ServiceRule(d)
<1>1. PICK m, R, p, tid, id, L, t, o :
        /\ m = Body(d) /\ R = m.resource /\ o = m.owner /\ p = o.pid /\ tid = o.tid
        /\ id = local_lockid[d] + 1 /\ t = pos[d] + 1
        /\ L = [GrantDelivered(d, m) EXCEPT !.local_id = id]
  OBVIOUS
<1>2. /\ Delivers(d, "GRANT") /\ joined[d] /\ UNCHANGED <<clients, ended>>
      /\ o.node = NodeOf[d] /\ locks[d][R].state # "NONE"
      /\ local_lockid' = [local_lockid EXCEPT ![d] = id] /\ SetLock(d, R, L)
  BY <1>1 DEF process_grant_local
<1>3. /\ t \in Index /\ pos[d] \in Nat /\ pos[d] < Len(log)
      /\ t = pos[d] + 1 /\ t \in Nat /\ pos[d] < t
      /\ OwnerAt(t) = o /\ MsgAt(t, "GRANT", R) /\ d \in cpg
  BY <1>1, <1>2, Dispatching
<1>4. R \in Resource /\ Token(t, R) /\ o \in Owners /\ requests[d] \in SUBSET Request
  <2>1. GTypeOK /\ HasNext(d) /\ NextEntry(d).request = "APP" /\ Body(d).request = "GRANT"
    BY <1>2 DEF BaseInv, TypeOK, Delivers, Body
  <2>2. requests[d] \in SUBSET Request
    BY LocksTyped DEF BaseInv
  <2> QED BY <1>1, <1>3, <2>1, <2>2, BodyTypes DEF Token
<1>5. p \in Proc /\ p # 0 /\ tid \in DOMAIN calls[p]
  <2>1. OfCall(o, R)
    BY <1>3, <1>4 DEF TokenInv, Asked
  <2> QED BY <1>1, <2>1, LockAssumption DEF OfCall
<1>6. L.state = "HELD" /\ L.owner = o
  <2>1. locks[d][R] \in LockRecord
    BY <1>4, LocksTyped DEF BaseInv
  <2> QED BY <1>1, <2>1 DEF LockRecord, GrantDelivered
<1>7. /\ locks'[d][R] = L /\ \A S \in Resource \ {R} : locks'[d][S] = locks[d][S]
      /\ \A e \in Daemon \ {d} : /\ locks'[e] = locks[e]
                                 /\ local_lockid'[e] = local_lockid[e]
  BY <1>2, <1>4 DEF SetLock, BaseInv, TypeOK
<1> DEFINE left == requests[d] \ Matching(requests[d], m)
           rest == purge_requests(left, NodeOf[d], p)
<1>8. left \subseteq requests[d] /\ rest \subseteq left /\ rest \in SUBSET Request
  BY <1>4 DEF purge_requests
<1>9. PICK Q, out :
        /\ SetRequests(d, Q) /\ DeliverApp(d, out)
        /\ \/ Q = left /\ out = <<>> /\ p \in clients[d] /\ calls' = grant_client(p, tid, id)
           \/ /\ Q = GrantMarked(rest, {R}) /\ calls' = calls /\ p \notin clients[d]
              /\ out = GrantOr(rest, R, send_unlock(R, o))
  BY <1>1 DEF process_grant_local, find_client
<1>10. ASSUME NEW r \in requests[d], r \notin left PROVE For(t, "GRANT", r.resource, r.owner)
  <2>1. r.resource = R /\ r.owner = o
    BY <1>1, <1>10 DEF Matching
  <2> QED BY <1>3, <2>1 DEF For
<1>11. ASSUME NEW r \in left, r \notin rest, p \notin clients[d] PROVE r.owner.pid \in ended
  <2>1. r.owner.pid = p /\ r.owner.node = NodeOf[d]
    BY <1>5, <1>11 DEF purge_requests
  <2>2. For(r.at, "LOCK", r.resource, r.owner) /\ r.resource \in Resource
    BY <1>8, QueuedSays DEF QueueInv
  <2>3. r.at \in Index
    BY <2>2 DEF For, MsgAt
  <2> QED BY <1>3, <1>11, <2>1, <2>2, <2>3, GoneEnded
<1> HIDE DEF left, rest
<1>12. AtMostOne(out)
  <2>1. AtMostOne(<<>>)
    BY DEF AtMostOne
  <2> QED BY <1>9, <2>1, UnlockOrGrant
<1>13. Frame(d) /\ Moves1(d) /\ pos'[d] = t /\ requests'[d] = Q /\ log' = Mcast(d, out)
  <2>1. requests'[d] = Q /\ \A e \in Daemon \ {d} : requests'[e] = requests[e]
    BY <1>9 DEF SetRequests, BaseInv, TypeOK
  <2>2. \A S \in Resource : locks[d][S].state # "NONE" => locks'[d][S].state # "NONE"
    BY <1>6, <1>7
  <2>3. \A q \in Proc : \A i \in DOMAIN calls[q] :
          i \in DOMAIN calls'[q] /\ calls'[q][i].resource = calls[q][i].resource
    <3>1. CASE calls' = calls
      BY <3>1
    <3>2. CASE calls' = grant_client(p, tid, id)
      <4>1. calls' = Answered(p, tid, "held", id)
        BY <3>2 DEF grant_client
      <4> QED BY <1>5, <4>1, AnsweredSays
    <3> QED BY <1>9, <3>1, <3>2
  <2>4. Frame(d)
    BY <1>2, <1>7, <1>9, <1>12, <2>1, <2>2, <2>3, HandlerFrame
  <2>5. pos'[d] = t /\ log' = Mcast(d, out)
    BY <1>3, <1>9, HandlerMovesOn
  <2> QED BY <1>3, <2>1, <2>4, <2>5 DEF Moves1
<1>14. \A i : Takes(d, i) <=> i = t
  BY <1>3, <1>13 DEF Takes
<1>15. EndRule
  BY <1>2 DEF EndRule
<1>16. \A i \in Index, S \in Resource : i = t /\ Token(i, S) => S = R
  BY <1>1, <1>2, Dispatching
<1>17. \A o1 : ~Counts(o1)' <=> o1.pid \in Triers \/ o1.pid \in ended
  BY <1>2 DEF Counts
<1>18. TurnRule(d)
  <2>1. CASE p \in clients[d]
    <3>1. Q = left /\ out = <<>>
      BY <1>9, <2>1
    <3>2. FromQueue(d, left)
      BY <1>4, <1>8 DEF FromQueue
    <3>3. KeepsPlaces(d, left)
      BY <1>3, <1>10, <1>14 DEF KeepsPlaces, MsgAt
    <3>4. NoNewGrant
      <4>1. \A x : out = <<x>> => x.request # "GRANT"
        BY <3>1
      <4> QED BY <1>12, <1>13, <4>1, NothingGranted
    <3> QED BY <1>13, <3>1, <3>2, <3>3, <3>4 DEF TurnRule, Serves
  <2>2. CASE p \notin clients[d]
    <3>1. Q = GrantMarked(rest, {R}) /\ out = GrantOr(rest, R, send_unlock(R, o))
      BY <1>9, <2>2
    <3>2. FromQueue(d, rest)
      BY <1>4, <1>8 DEF FromQueue
    <3>3. \A r \in requests[d] : Counts(r.owner)' =>
            r \in rest \/ For(t, "GRANT", r.resource, r.owner)
      BY <1>10, <1>11, <1>17, <2>2
    <3>4. KeepsPlaces(d, rest)
      BY <1>3, <1>14, <3>3 DEF KeepsPlaces, MsgAt
    <3>5. Heard(d, R)
      BY <1>2, <1>3, <1>4, OwnToken
    <3>6. PICK z : z = send_unlock(R, o)
      OBVIOUS
    <3>7. AtMostOne(z) /\ \A x : z = <<x>> => x.request # "GRANT"
      <4>1. z = << UnlockMsg(R, o) >> /\ UnlockMsg(R, o).request # "GRANT"
        BY <3>6 DEF send_unlock, UnlockMsg, Msg
      <4> QED BY <4>1, OneEqual DEF AtMostOne
    <3>8. Serves(d, rest)
      BY <1>4, <1>13, <3>1, <3>5, <3>6, <3>7 DEF Serves
    <3> QED BY <3>2, <3>4, <3>8 DEF TurnRule
  <2> QED BY <2>1, <2>2
<1>19. ASSUME NEW S \in Resource
       PROVE  /\ locks[d][S].state = "NONE" /\ locks'[d][S].state # "NONE" =>
                   ~IAmOldest(d) \/ \E k \in Index' : Token(k, S)'
              /\ locks[d][S].state = "HELD" /\ ~TakesToken(d, S) =>
                   locks'[d][S].state = "HELD" /\ locks'[d][S].owner = locks[d][S].owner
              /\ \A g \in Index :
                   Takes(d, g) /\ MsgAt(g, "GRANT", S) /\ OwnerAt(g).node = NodeOf[d] =>
                     locks'[d][S].state = "HELD" /\ locks'[d][S].owner = OwnerAt(g)
              /\ Idle(d, S) => TakesToken(d, S) \/ SendsToken(S) \/ Idle(d, S)'
              /\ \A u \in Index :
                   /\ Takes(d, u) /\ MsgAt(u, "UNLOCK", S) /\ OwnerAt(u).node = NodeOf[d]
                   /\ locks[d][S].state = "HELD" /\ locks[d][S].owner = OwnerAt(u)
                   => SendsToken(S) \/ Idle(d, S)'
  <2>1. \A u \in Index : Takes(d, u) => ~MsgAt(u, "UNLOCK", S)
    BY <1>3, <1>14 DEF MsgAt
  <2>2. CASE S = R
    <3>1. TakesToken(d, S)
      BY <1>3, <1>4, <1>14, <2>2 DEF TakesToken
    <3> QED BY <1>2, <1>3, <1>6, <1>7, <1>14, <2>1, <2>2, <3>1
  <2>3. CASE S # R
    <3>1. locks'[d][S] = locks[d][S]
      BY <1>7, <2>3
    <3>2. \A i \in Index : Takes(d, i) => ~MsgAt(i, "GRANT", S)
      BY <1>14, <1>16, <2>3 DEF Token
    <3>3. \A q \in requests'[d] : q.state = "PENDING" => q \in requests[d]
      BY <1>8, <1>9, <1>13, StillPending
    <3>4. Idle(d, S) => Idle(d, S)'
      BY <3>1, <3>3 DEF Idle
    <3> QED BY <2>1, <3>1, <3>2, <3>4
  <2> QED BY <2>2, <2>3
<1>20. DutyRule(d)
  BY <1>19 DEF DutyRule
<1> QED BY <1>13, <1>15, <1>18, <1>20 DEF ServiceRule

\* Steps that write no record, and dispatch no token.
LEMMA QuietServes ==
  ASSUME BaseInv, BaseInv', NEW d \in Daemon, Frame(d), Moves1(d), EndRule, TurnRule(d),
         locks'[d] = locks[d],
         \A i \in Index, S \in Resource : Takes(d, i) => ~Token(i, S),
         \A q \in requests'[d] : q.state = "PENDING" => q \in requests[d]
  PROVE  ServiceRule(d)
<1>1. ASSUME NEW S \in Resource, Idle(d, S) PROVE Idle(d, S)'
  BY <1>1 DEF Idle
<1>2. \A i \in Index, S \in Resource :
        Takes(d, i) => ~MsgAt(i, "GRANT", S) /\ ~MsgAt(i, "UNLOCK", S)
  BY DEF Token
<1>3. DutyRule(d)
  BY <1>1, <1>2 DEF DutyRule
<1> QED BY <1>3 DEF ServiceRule

\* Handlers that only drop requests which do not count any more.
LEMMA DropServes ==
  ASSUME BaseInv, BaseInv', NEW d \in Daemon, NEW q, Delivers(d, q), q \in {"NAK", "PURGE"},
         DeliverApp(d, <<>>), UNCHANGED <<locks, local_lockid, clients, ended>>,
         \A e \in Daemon \ {d} : requests'[e] = requests[e],
         requests'[d] \subseteq requests[d],
         \A r \in requests[d] : Counts(r.owner)' => r \in requests'[d],
         \A p \in Proc : \A i \in DOMAIN calls[p] :
           i \in DOMAIN calls'[p] /\ calls'[p][i].resource = calls[p][i].resource
  PROVE  ServiceRule(d)
<1>1. AtMostOne(<<>>) /\ \A x : <<>> # <<x>>
  BY DEF AtMostOne
<1>2. Frame(d)
  BY <1>1, HandlerFrame
<1>3. pos'[d] = pos[d] + 1 /\ log' = Mcast(d, <<>>) /\ requests[d] \in SUBSET Request
  BY HandlerMovesOn, LocksTyped DEF BaseInv
<1>4. \A i : Takes(d, i) <=> i = pos[d] + 1
  BY <1>3 DEF Takes
<1>5. \A S : /\ ~MsgAt(pos[d] + 1, "LOCK", S) /\ ~Token(pos[d] + 1, S)
  <2>1. log[pos[d] + 1].body.request = q
    BY DEF Delivers, Body, NextEntry
  <2> QED BY <2>1 DEF MsgAt, Token
<1>6. TurnRule(d)
  <2>1. FromQueue(d, requests'[d]) /\ KeepsPlaces(d, requests'[d])
    BY <1>3, <1>4, <1>5 DEF FromQueue, KeepsPlaces
  <2>2. NoNewGrant
    BY <1>1, <1>3, NothingGranted
  <2> QED BY <2>1, <2>2 DEF TurnRule, Serves
<1>7. Moves1(d) /\ EndRule
  BY <1>3 DEF Moves1, EndRule
<1> QED BY <1>2, <1>4, <1>5, <1>6, <1>7, QuietServes

LEMMA PurgeServes ==
  ASSUME Payload = LockMsg, BaseInv, BaseInv', TokenInv, QueueInv, NEW d \in Daemon,
         process_purge(d)
  PROVE  ServiceRule(d)
<1>1. PICK m : m = Body(d)
  OBVIOUS
<1>2. /\ Delivers(d, "PURGE") /\ DeliverApp(d, <<>>)
      /\ UNCHANGED <<locks, local_lockid, clients, calls, ended>>
      /\ SetRequests(d, purge_requests(requests[d], m.owner.node, m.owner.pid))
  BY <1>1 DEF process_purge, clientVars
<1>3. /\ requests'[d] = purge_requests(requests[d], m.owner.node, m.owner.pid)
      /\ \A e \in Daemon \ {d} : requests'[e] = requests[e]
  BY <1>2 DEF SetRequests, BaseInv, TypeOK
<1>4. m.owner.pid \in ended
  <2>1. pos[d] + 1 \in Index /\ log[pos[d] + 1] = NextEntry(d) /\ OwnerAt(pos[d] + 1) = m.owner
    BY <1>1, <1>2, Dispatching DEF NextEntry
  <2>2. log[pos[d] + 1].request = "APP" /\ log[pos[d] + 1].body.request = "PURGE"
    BY <1>2, <2>1 DEF Delivers, Body
  <2> QED BY <2>1, <2>2 DEF QueueInv, Purging
<1>5. m.owner.pid # 0
  BY <1>4, LockAssumption DEF BaseInv, TypeOK
<1>6. \A r \in requests[d] : Counts(r.owner)' => r \in requests'[d]
  BY <1>2, <1>3, <1>4, <1>5 DEF purge_requests, Counts
<1>7. requests'[d] \subseteq requests[d]
  BY <1>3 DEF purge_requests
<1> QED BY <1>2, <1>3, <1>6, <1>7, DropServes

LEMMA NakServes ==
  ASSUME Payload = LockMsg, BaseInv, BaseInv', TokenInv, QueueInv, NEW d \in Daemon,
         process_nak(d)
  PROVE  ServiceRule(d)
<1>1. PICK m, p, tid : m = Body(d) /\ p = m.owner.pid /\ tid = m.owner.tid
  OBVIOUS
<1> DEFINE found == Matching(requests[d], m)
           left  == requests[d] \ found
           local == found # {} /\ m.owner.node = NodeOf[d]
<1>2. PICK Q :
        /\ Delivers(d, "NAK") /\ SetRequests(d, Q) /\ DeliverApp(d, <<>>)
        /\ UNCHANGED <<locks, local_lockid, clients, ended>>
        /\ \/ /\ local /\ p \in clients[d]
              /\ Q = left /\ calls' = nak_client(p, tid)
           \/ /\ local /\ p \notin clients[d]
              /\ Q = purge_requests(left, NodeOf[d], p) /\ calls' = calls
           \/ ~local /\ Q = left /\ calls' = calls
  BY <1>1 DEF process_nak, find_client
<1>3. requests'[d] = Q /\ \A e \in Daemon \ {d} : requests'[e] = requests[e]
  BY <1>2 DEF SetRequests, BaseInv, TypeOK
<1>4. p \in Triers
  <2>1. /\ MsgAt(pos[d] + 1, "NAK", m.resource) /\ pos[d] + 1 \in Index
        /\ OwnerAt(pos[d] + 1) = m.owner /\ m.request = "NAK"
    BY <1>1, <1>2, Dispatching
  <2>2. m.resource \in Resource
    BY <1>1, <1>2, <2>1, BodyTypes DEF BaseInv, TypeOK, Delivers
  <2> QED BY <1>1, <2>1, <2>2 DEF QueueInv, Refusals
<1>5. ASSUME local, p \in clients[d], calls' = nak_client(p, tid)
      PROVE  p \in Proc /\ tid \in DOMAIN calls[p] /\ calls' = Answered(p, tid, "nak", 0)
  <2>1. PICK r \in requests[d] : r.owner = m.owner
    BY <1>5 DEF Matching
  <2>2. OfCall(r.owner, r.resource)
    BY QueuedAsked DEF TokenInv
  <2> QED BY <1>1, <1>5, <2>1, <2>2 DEF OfCall, nak_client
<1>6. \A q \in Proc : \A i \in DOMAIN calls[q] :
        i \in DOMAIN calls'[q] /\ calls'[q][i].resource = calls[q][i].resource
  <2>1. CASE calls' = calls
    BY <2>1
  <2>2. CASE local /\ p \in clients[d] /\ calls' = nak_client(p, tid)
    BY <1>5, <2>2, AnsweredSays
  <2> QED BY <1>2, <2>1, <2>2
<1>7. ASSUME NEW r \in requests[d], r \notin Q PROVE r.owner.pid \in Triers
  <2>1. CASE r \in found
    <3>1. r.owner = m.owner
      BY <2>1 DEF Matching
    <3> QED BY <1>1, <1>4, <3>1
  <2>2. CASE r \in left
    <3>1. local /\ Q = purge_requests(left, NodeOf[d], p)
      BY <1>2, <1>7, <2>2
    <3>2. PICK x \in requests[d] : x.owner = m.owner
      BY <3>1 DEF Matching
    <3>3. p # 0
      <4>1. OfCall(x.owner, x.resource)
        BY QueuedAsked DEF TokenInv
      <4> QED BY <1>1, <3>2, <4>1, LockAssumption DEF OfCall
    <3>4. r.owner.pid = p
      BY <1>7, <2>2, <3>1, <3>3 DEF purge_requests
    <3> QED BY <1>4, <3>4
  <2> QED BY <2>1, <2>2
<1>8. \A r \in requests[d] : Counts(r.owner)' => r \in requests'[d]
  BY <1>3, <1>7 DEF Counts
<1>9. requests'[d] \subseteq requests[d]
  BY <1>2, <1>3 DEF purge_requests
<1> QED BY <1>2, <1>3, <1>6, <1>8, <1>9, DropServes

\* Who connects has not called cpg_lock, and nor had who goes.
LEMMA StillServes ==
  ASSUME BaseInv, BaseInv', TokenInv, NEW d \in Daemon,
         UNCHANGED <<gvars, locks, requests, local_lockid, calls>>,
         \A e \in Daemon \ {d} : clients'[e] = clients[e],
         ended \subseteq ended',
         \A q \in ended' \ ended : calls[q] = <<>>
  PROVE  ServiceRule(d)
<1>0. UNCHANGED <<cpg, log, phase, pos, joined>>
  BY DEF gvars
<1>1. Index' = Index /\ \A e \in Daemon : pos[e] \in Nat /\ pos[e] <= Len(log)
  BY <1>0, Positions DEF Index
<1>2. Frame(d)
  <2>1. LogGrows
    BY <1>0, <1>1, Positions DEF LogGrows
  <2> QED BY <1>0, <1>1, <2>1 DEF Frame
<1>3. EndRule
  <2> SUFFICES ASSUME NEW i \in Index, NEW R \in Resource, MsgAt(i, "LOCK", R),
                      OwnerAt(i).pid \in ended' \ ended
               PROVE  FALSE
    BY DEF EndRule
  <2>1. OwnerAt(i).tid \in DOMAIN calls[OwnerAt(i).pid]
    BY DEF TokenInv, Asked, OfCall
  <2>2. calls[OwnerAt(i).pid] = <<>>
    OBVIOUS
  <2> QED BY <2>1, <2>2
<1>4. pos[d] \in Nat /\ requests[d] \in SUBSET Request
  BY <1>1, LocksTyped DEF BaseInv
<1>5. Moves1(d) /\ \A i : ~Takes(d, i)
  BY <1>0, <1>4 DEF Moves1, Takes
<1>6. TurnRule(d)
  <2>1. FromQueue(d, requests[d]) /\ KeepsPlaces(d, requests[d])
    BY <1>4, <1>5 DEF FromQueue, KeepsPlaces
  <2>2. NoNewGrant
    BY <1>1 DEF NoNewGrant
  <2> QED BY <2>1, <2>2 DEF TurnRule, Serves
<1> QED BY <1>2, <1>3, <1>5, <1>6, QuietServes

LEMMA ConnectServes ==
  ASSUME BaseInv, BaseInv', TokenInv, NEW d \in Daemon, NEW p \in Proc, Connect(p, d)
  PROVE  ServiceRule(d)
<1>1. /\ UNCHANGED <<gvars, locks, requests, local_lockid, calls>> /\ UNCHANGED ended
      /\ clients' = [clients EXCEPT ![d] = clients[d] \cup {p}]
  BY DEF Connect, daemonVars, insert_client
<1>2. \A e \in Daemon \ {d} : clients'[e] = clients[e]
  BY <1>1 DEF BaseInv, TypeOK
<1> QED BY <1>1, <1>2, StillServes

LEMMA ClientExitServes ==
  ASSUME MembersStay, BaseInv, BaseInv', TokenInv, QueueInv, NEW d \in Daemon, NEW p \in Proc,
         ClientExit(p, d)
  PROVE  ServiceRule(d)
<1>1. /\ p \in clients[d] /\ HeldBy(d, p) = {} /\ ended' = ended \cup {p}
      /\ clients' = [clients EXCEPT ![d] = clients[d] \ {p}]
      /\ UNCHANGED <<local_lockid, calls>>
  BY DEF ClientExit, cpg_lock_fin, MembersStay
<1>2. \A e \in Daemon \ {d} : clients'[e] = clients[e]
  BY <1>1 DEF BaseInv, TypeOK
<1>3. CASE calls[p] = <<>> /\ UNCHANGED <<gvars, locks, requests>>
  BY <1>1, <1>2, <1>3, StillServes
<1>4. CASE del_client(d, p)
  <2>1. PICK m, reqs, kept, Q :
          /\ m = Msg("PURGE", "(none)", Owner(NodeOf[d], p, 0), FALSE) /\ reqs = requests[d]
          /\ kept = purge_requests(reqs, NodeOf[d], p) /\ Q = GrantMarked(kept, {})
    OBVIOUS
  <2>2. /\ m.request = "PURGE" /\ m.owner.pid = p /\ m.owner.node = NodeOf[d]
    BY <2>1 DEF Msg, Owner
  <2>3. SetRequests(d, Q) /\ UNCHANGED locks /\ Send(d, <<m>>)
    BY <1>1, <1>4, <2>1, PurgeOnly DEF SendPurge
  <2>4. /\ requests'[d] = Q
        /\ \A e \in Daemon \ {d} : requests'[e] = requests[e]
    BY <2>3 DEF SetRequests, BaseInv, TypeOK
  <2>5. AtMostOne(<<m>>) /\ \A x : <<m>> = <<x>> => x = m
    BY OneEqual DEF AtMostOne
  <2>6. Frame(d)
    BY <1>1, <1>2, <2>3, <2>4, <2>5, HandlerFrame
  <2>7. log' = Mcast(d, <<m>>) /\ pos'[d] = pos[d] /\ pos[d] \in Nat
    BY <2>3, HandlerMovesOn, Positions
  <2>8. EndRule
    <3> SUFFICES ASSUME NEW i \in Index, NEW R \in Resource, MsgAt(i, "LOCK", R),
                        OwnerAt(i).pid = p
                 PROVE  \E k \in Index' \ Index : PurgeAt(k, OwnerAt(i))'
      BY <1>1 DEF EndRule
    <3>1. PICK o : o = OwnerAt(i)
      OBVIOUS
    <3>2. o.pid = p /\ o.node = NodeOf[d] /\ OwnerAt(i)' = o
      <4>1. o.node = ProcNode[p]
        BY <3>1 DEF QueueInv, OneLock
      <4> QED BY <1>1, <2>6, <3>1, <4>1, OneDaemon, OldEntries
    <3>3. PICK k \in Index' \ Index : log'[k] = App(d, m)
      BY <2>7, OutEntry
    <3>4. PurgeAt(k, o)'
      BY <2>2, <3>2, <3>3 DEF PurgeAt, App
    <3> QED BY <3>2, <3>4 DEF PurgeAt
  <2>9. Moves1(d) /\ \A i : ~Takes(d, i)
    BY <2>7 DEF Moves1, Takes
  <2>10. reqs \in SUBSET Request /\ kept \subseteq reqs /\ Q = kept
    <3>1. reqs \in SUBSET Request
      BY <2>1, LocksTyped DEF BaseInv
    <3> QED BY <2>1, <3>1 DEF purge_requests, GrantMarked
  <2>11. TurnRule(d)
    <3>1. FromQueue(d, Q)
      BY <2>1, <2>10 DEF FromQueue
    <3>2. \A r \in reqs : Counts(r.owner)' => r \in Q
      <4>1. p # 0
        BY LockAssumption
      <4> QED BY <1>1, <2>1, <2>10, <4>1 DEF Counts, purge_requests
    <3>3. KeepsPlaces(d, Q)
      BY <2>1, <2>9, <3>2 DEF KeepsPlaces
    <3>4. NoNewGrant
      <4>1. \A x : <<m>> = <<x>> => x.request # "GRANT"
        BY <2>2, <2>5
      <4> QED BY <2>5, <2>7, <4>1, NothingGranted
    <3> QED BY <2>4, <3>1, <3>3, <3>4 DEF TurnRule, Serves
  <2> QED BY <2>1, <2>3, <2>4, <2>6, <2>8, <2>9, <2>10, <2>11, QuietServes
<1> QED BY <1>3, <1>4 DEF ClientExit

LEMMA ClientLockServes ==
  ASSUME BaseInv, BaseInv', TokenInv, NEW d \in Daemon, NEW p \in Proc,
         NEW R \in Resource, ClientLock(p, d, R)
  PROVE  ServiceRule(d)
<1>1. PICK m, c :
        /\ m = Msg("LOCK", R, Owner(NodeOf[d], p, Len(calls[p]) + 1), p \in Triers)
        /\ c = [resource |-> R, try |-> p \in Triers, st |-> "wait", lockid |-> 0]
  OBVIOUS
<1>2. /\ Send(d, <<m>>)
      /\ UNCHANGED <<locks, requests, local_lockid, clients, ended>>
      /\ calls' = [calls EXCEPT ![p] = Append(calls[p], c)]
  BY <1>1 DEF ClientLock, cpg_lock, send_lock, daemonVars
<1>3. \A q \in Proc : \A i \in DOMAIN calls[q] :
        i \in DOMAIN calls'[q] /\ calls'[q][i].resource = calls[q][i].resource
  <2>1. PICK s : s = calls[p]
    OBVIOUS
  <2>2. calls \in [Proc -> Seq(Call)] /\ s \in Seq(Call) /\ Len(s) \in Nat
    BY <2>1, LenProperties DEF BaseInv, TypeOK
  <2>3. /\ calls'[p] = Append(s, c) /\ \A q \in Proc \ {p} : calls'[q] = calls[q]
        /\ DOMAIN s = 1..Len(s) /\ DOMAIN Append(s, c) = 1..Len(s) + 1
        /\ \A i \in 1..Len(s) : Append(s, c)[i] = s[i]
    BY <1>2, <2>1, <2>2
  <2>4. ASSUME NEW i \in DOMAIN s PROVE i \in DOMAIN calls'[p] /\ calls'[p][i] = s[i]
    BY <2>2, <2>3
  <2> QED BY <2>1, <2>3, <2>4
<1>4. m.request # "GRANT"
  BY <1>1 DEF Msg
<1>5. AtMostOne(<<m>>) /\ \A x : <<m>> = <<x>> => x.request # "GRANT"
  BY <1>4, OneEqual DEF AtMostOne
<1>6. Frame(d)
  BY <1>2, <1>3, <1>5, HandlerFrame
<1>7. log' = Mcast(d, <<m>>) /\ pos'[d] = pos[d] /\ pos[d] \in Nat /\ requests[d] \in SUBSET Request
  BY <1>2, HandlerMovesOn, Positions, LocksTyped DEF BaseInv
<1>8. EndRule /\ Moves1(d) /\ \A i : ~Takes(d, i)
  BY <1>2, <1>7 DEF EndRule, Moves1, Takes
<1>9. TurnRule(d)
  <2>1. FromQueue(d, requests[d]) /\ KeepsPlaces(d, requests[d])
    BY <1>7, <1>8 DEF FromQueue, KeepsPlaces
  <2>2. NoNewGrant
    BY <1>5, <1>7, NothingGranted
  <2> QED BY <1>2, <2>1, <2>2 DEF TurnRule, Serves
<1> QED BY <1>2, <1>6, <1>8, <1>9, QuietServes

LEMMA ClientUnlockServes ==
  ASSUME BaseInv, BaseInv', TokenInv, NEW d \in Daemon, NEW p \in Proc,
         NEW i \in DOMAIN calls[p], ClientUnlock(p, d, i)
  PROVE  ServiceRule(d)
<1>1. PICK R, o, reqs, Q, z :
        /\ R = calls[p][i].resource /\ o = Owner(NodeOf[d], p, i) /\ reqs = requests[d]
        /\ Q = GrantMarked(reqs, {R}) /\ z = send_unlock(R, o)
  OBVIOUS
<1>2. /\ p \in clients[d] /\ calls[p][i].st = "held"
      /\ UNCHANGED <<locks, local_lockid, clients, ended>>
      /\ calls' = [calls EXCEPT ![p][i].st = "done"]
  BY DEF ClientUnlock, cpg_unlock, CallIs
<1>3. /\ HasToken(p, i, d) /\ R \in Resource
      /\ find_lock_by_id(d, calls[p][i].lockid) = {R}
  BY <1>1, <1>2, HolderFinds
<1>4. locks[d][R].owner = o
  BY <1>1, <1>3 DEF HasToken
<1>5. SetRequests(d, Q) /\ Send(d, GrantOr(reqs, R, z))
  <2>1. (CHOOSE x \in {R} : TRUE) = R
    OBVIOUS
  <2> QED BY <1>1, <1>3, <1>4, <2>1 DEF ClientUnlock
<1>6. Heard(d, R)
  <2>1. PICK g \in Index : MsgAt(g, "GRANT", R) /\ OwnerAt(g) = o
    BY <1>1, <1>3 DEF HasToken
  <2>2. o.node = NodeOf[d]
    BY <1>1 DEF Owner
  <2> QED BY <2>1, <2>2 DEF Heard
<1>7. reqs \in SUBSET Request
  BY <1>1, LocksTyped DEF BaseInv
<1>8. AtMostOne(z) /\ \A x : z = <<x>> => x.request # "GRANT"
  <2>1. z = << UnlockMsg(R, o) >> /\ UnlockMsg(R, o).request # "GRANT"
    BY <1>1 DEF send_unlock, UnlockMsg, Msg
  <2> QED BY <2>1, OneEqual DEF AtMostOne
<1>9. AtMostOne(GrantOr(reqs, R, z))
  BY <1>8, GrantOrSays
<1>10. \A q \in Proc : \A j \in DOMAIN calls[q] :
         j \in DOMAIN calls'[q] /\ calls'[q][j].resource = calls[q][j].resource
  <2>1. PICK s, c : s = calls[p] /\ c = [s[i] EXCEPT !.st = "done"]
    OBVIOUS
  <2>2. c.resource = s[i].resource
    BY <2>1, CallTypes DEF Call
  <2>3. calls' = [calls EXCEPT ![p] = [s EXCEPT ![i] = c]]
    BY <1>2, <2>1
  <2>4. /\ calls'[p] = [s EXCEPT ![i] = c]
        /\ \A q \in Proc : q # p => calls'[q] = calls[q]
    BY <2>3 DEF BaseInv, TypeOK
  <2>5. DOMAIN calls'[p] = DOMAIN s /\ \A j \in DOMAIN s : j # i => calls'[p][j] = s[j]
    BY <2>4
  <2>6. calls'[p][i] = c
    BY <2>1, <2>4
  <2>7. \A j \in DOMAIN s : calls'[p][j].resource = s[j].resource
    BY <2>2, <2>5, <2>6
  <2> QED BY <2>1, <2>4, <2>5, <2>7
<1>11. Frame(d) /\ pos'[d] = pos[d] /\ requests'[d] = Q /\ log' = Mcast(d, GrantOr(reqs, R, z))
       /\ pos[d] \in Nat
  <2>1. requests'[d] = Q /\ \A e \in Daemon \ {d} : requests'[e] = requests[e]
    BY <1>5 DEF SetRequests, BaseInv, TypeOK
  <2>2. Frame(d)
    BY <1>2, <1>5, <1>9, <1>10, <2>1, HandlerFrame
  <2> QED BY <1>5, <2>1, <2>2, HandlerMovesOn, Positions
<1>12. EndRule /\ Moves1(d) /\ \A k : ~Takes(d, k)
  BY <1>2, <1>11 DEF EndRule, Moves1, Takes
<1>13. TurnRule(d)
  <2>1. FromQueue(d, reqs) /\ KeepsPlaces(d, reqs)
    BY <1>1, <1>7, <1>12 DEF FromQueue, KeepsPlaces
  <2>2. Serves(d, reqs)
    BY <1>1, <1>3, <1>6, <1>8, <1>11 DEF Serves
  <2> QED BY <2>1, <2>2 DEF TurnRule
<1>14. \A q \in requests'[d] : q.state = "PENDING" => q \in requests[d]
  BY <1>1, <1>7, <1>11, StillPending
<1> QED BY <1>2, <1>11, <1>12, <1>13, <1>14, QuietServes

-----------------------------------------------------------------------------
(***************************************************************************)
(* Steps of that kind keep to the duty.                                    *)
(***************************************************************************)
LEMMA FounderMember ==
  ASSUME InitGroup # <<>>
  PROVE  InitGroup[1] \in Daemon /\ Len(InitGroup) \in Nat \ {0}
<1>1. InitGroup \in Seq(Daemon)
  BY GroupAssumption
<1>2. Len(InitGroup) \in Nat \ {0}
  BY <1>1, LenProperties, EmptySeq
<1> QED BY <1>1, <1>2, ElementOfSeq

LEMMA FounderKept ==
  ASSUME BaseInv, BaseInv', NEW d \in Daemon, Frame(d), NEW f \in Daemon,
         f = InitGroup[1], Founder, total_members'[f] # 0,
         group_members'[f] # <<>>, Head(group_members'[f]) = f
  PROVE  Founder'
<1>1. PICK i \in Index : JoinAt(i, f) /\ \A k \in Index, e \in Daemon : JoinAt(k, e) => i <= k
  BY DEF Founder, FirstJoiner
<1>2. i \in Index' /\ JoinAt(i, f)' /\ i <= pos[f] /\ i \in Nat
  BY <1>1, OldEntries, Positions DEF Founder
<1>3. \A k \in Index', e \in Daemon : JoinAt(k, e)' => i <= k
  <2> SUFFICES ASSUME NEW k \in Index', NEW e \in Daemon, JoinAt(k, e)' PROVE i <= k
    OBVIOUS
  <2>1. CASE k \in Index
    BY <1>1, <2>1, OldEntries
  <2>2. CASE k \notin Index
    <3>1. i < k /\ k \in Nat
      BY <2>2, OldWords, Positions
    <3> QED BY <1>2, <3>1
  <2> QED BY <2>1, <2>2
<1>4. \A j \in Index' : JoinAt(j, f)' => j <= pos'[f]
  <2>1. \A j \in Index' : JoinAt(j, f)' => j = i
    BY <1>2 DEF BaseInv, IndInv, LogInv, Joins
  <2>2. i <= pos'[f]
    <3>1. pos[f] \in Nat /\ pos'[f] \in Nat /\ pos[f] <= pos'[f]
      BY Positions DEF Frame
    <3> QED BY <1>2, <3>1
  <2> QED BY <2>1, <2>2
<1>5. FirstJoiner(f)'
  BY <1>2, <1>3 DEF FirstJoiner
<1> QED BY <1>4, <1>5 DEF Founder, FirstJoiner

\* The founder takes itself for the oldest.
LEMMA FirstServesKept ==
  ASSUME BaseInv, BaseInv', NEW d \in Daemon, Frame(d), NEW f \in Daemon,
         f = InitGroup[1], Founder, FirstServes,
         \A R \in Resource : locks[d][R].state = "NONE" /\ locks'[d][R].state # "NONE" =>
           ~IAmOldest(d) \/ \E k \in Index' : Token(k, R)'
  PROVE  FirstServes'
<1> SUFFICES ASSUME NEW e \in Daemon, NEW R \in Resource, FirstJoiner(e)',
                    locks'[e][R].state # "NONE"
             PROVE  \E k \in Index' : Token(k, R)'
  BY DEF FirstServes
<1>1. FirstJoiner(f)
  BY DEF Founder
<1>2. PICK j \in Index : JoinAt(j, f)
  BY <1>1 DEF FirstJoiner
<1>3. FirstJoiner(e) /\ e = f
  BY <1>1, <1>2, FirstStays, OneFirst
<1>4. CASE locks[e][R].state # "NONE"
  <2>1. PICK k \in Index : Token(k, R)
    BY <1>3, <1>4 DEF FirstServes
  <2> QED BY <2>1, OldEntries
<1>5. CASE locks[e][R].state = "NONE"
  <2>1. e = d
    BY <1>5 DEF Frame
  <2>2. IAmOldest(d)
    BY <1>3, <2>1 DEF Founder, IAmOldest
  <2> QED BY <1>5, <2>1, <2>2
<1> QED BY <1>4, <1>5

\* What was seen last and dispatched before was seen last before.
LEMMA SeenBefore ==
  ASSUME BaseInv, BaseInv', NEW d \in Daemon, Frame(d), NEW e \in Daemon, NEW g \in Index,
         NEW R, LastSeen(e, g, R)', g <= pos[e]
  PROVE  LastSeen(e, g, R)
<1>1. Token(g, R)
  BY OldEntries DEF LastSeen
<1>2. ASSUME NEW i \in Index, Token(i, R), i <= pos[e] PROVE i <= g
  <2>1. i \in Index' /\ Token(i, R)'
    BY <1>2, OldEntries
  <2>2. i <= pos'[e]
    <3>1. i \in Nat /\ pos[e] \in Nat /\ pos'[e] \in Nat /\ pos[e] <= pos'[e]
      BY Positions DEF Frame
    <3> QED BY <1>2, <3>1
  <2> QED BY <2>1, <2>2 DEF LastSeen
<1> QED BY <1>1, <1>2 DEF LastSeen

LEMMA ShowsKept ==
  ASSUME BaseInv, BaseInv', TokenInv, \A e \in cpg : Shows(e),
         NEW d \in Daemon, Frame(d), d \in cpg => Moves1(d) /\ DutyRule(d)
  PROVE  \A e \in cpg' : Shows(e)'
<1> SUFFICES ASSUME NEW e \in cpg', NEW g \in Index', NEW R \in Resource, NEW o,
                    MsgAt(g, "GRANT", R)', LastSeen(e, g, R)', o = OwnerAt(g)',
                    o.node = NodeOf[e]
             PROVE  locks'[e][R].state = "HELD" /\ locks'[e][R].owner = o
  BY DEF Shows
<1>0. e \in Daemon /\ Asked /\ g <= pos'[e]
  BY Positions DEF TokenInv, LastSeen
<1>p. g \in Nat /\ pos[e] \in Nat /\ pos'[e] \in Nat
  BY <1>0, Positions
<1>1. g \in Index
  BY <1>0, BehindIsOld
<1>2. MsgAt(g, "GRANT", R) /\ OwnerAt(g) = o /\ Token(g, R)
  BY <1>1, OldEntries DEF Token
<1>3. e \in cpg
  BY <1>0, <1>1, <1>2, Newcomer
<1>4. CASE g <= pos[e]
  <2>1. LastSeen(e, g, R)
    BY <1>0, <1>1, <1>4, SeenBefore
  <2>2. locks[e][R].state = "HELD" /\ locks[e][R].owner = o
    BY <1>1, <1>2, <1>3, <2>1 DEF Shows
  <2>3. CASE e # d
    BY <1>0, <2>2, <2>3 DEF Frame
  <2>4. CASE e = d
    <3>1. ~TakesToken(d, R)
      <4> SUFFICES ASSUME NEW i \in Index, Takes(d, i), Token(i, R) PROVE FALSE
        BY DEF TakesToken
      <4>1. i \in Index' /\ Token(i, R)' /\ i <= pos'[d] /\ i = pos[d] + 1
        BY <1>p, <2>4, OldEntries DEF Takes
      <4>2. i <= g
        BY <2>4, <4>1 DEF LastSeen
      <4> QED BY <1>4, <1>p, <2>4, <4>1, <4>2
    <3> QED BY <1>3, <2>2, <2>4, <3>1 DEF DutyRule
  <2> QED BY <2>3, <2>4
<1>5. CASE ~(g <= pos[e])
  <2>1. e = d
    BY <1>0, <1>5 DEF Frame
  <2>2. Takes(d, g)
    BY <1>0, <1>3, <1>5, <1>p, <2>1 DEF Moves1, Takes
  <2> QED BY <1>1, <1>2, <1>3, <2>1, <2>2 DEF DutyRule
<1> QED BY <1>4, <1>5

\* The GRANT before an UNLOCK is what the owner's daemon has seen last.
LEMMA RestsKept ==
  ASSUME BaseInv, BaseInv', TokenInv, \A e \in cpg : Shows(e) /\ Rests(e),
         NEW d \in Daemon, Frame(d), d \in cpg => Moves1(d) /\ DutyRule(d)
  PROVE  \A e \in cpg' : Rests(e)'
<1> SUFFICES ASSUME NEW e \in cpg', NEW u \in Index', NEW R \in Resource, NEW o,
                    MsgAt(u, "UNLOCK", R)', LastToken(u, R)', o = OwnerAt(u)',
                    o.node = NodeOf[e], u <= pos'[e]
             PROVE  Idle(e, R)'
  BY DEF Rests
<1>0. e \in Daemon /\ Asked
  BY Positions DEF TokenInv
<1>p. u \in Nat /\ pos[e] \in Nat /\ pos'[e] \in Nat /\ Index \subseteq Nat
  BY <1>0, Positions
<1>1. u \in Index
  BY <1>0, BehindIsOld
<1>2. MsgAt(u, "UNLOCK", R) /\ OwnerAt(u) = o /\ Token(u, R)
  BY <1>1, OldEntries DEF Token
<1>3. e \in cpg
  BY <1>0, <1>1, <1>2, Newcomer
<1>4. LastToken(u, R) /\ ~SendsToken(R)
  BY <1>1, WasLast DEF SendsToken
<1>5. CASE u <= pos[e]
  <2>1. Idle(e, R)
    BY <1>1, <1>2, <1>3, <1>4, <1>5 DEF Rests
  <2>2. CASE e # d
    <3>1. locks'[e] = locks[e] /\ requests'[e] = requests[e]
      BY <1>0, <2>2 DEF Frame
    <3> QED BY <2>1, <3>1 DEF Idle
  <2>3. CASE e = d
    <3>1. ~TakesToken(d, R)
      <4> SUFFICES ASSUME NEW i \in Index, Takes(d, i), Token(i, R) PROVE FALSE
        BY DEF TakesToken
      <4>1. i <= u /\ i = pos[d] + 1
        BY <1>4 DEF LastToken, Takes
      <4> QED BY <1>5, <1>p, <2>3, <4>1
    <3> QED BY <1>3, <1>4, <2>1, <2>3, <3>1 DEF DutyRule
  <2> QED BY <2>2, <2>3
<1>6. CASE ~(u <= pos[e])
  <2>1. e = d
    BY <1>0, <1>6 DEF Frame
  <2>2. Takes(d, u) /\ u = pos[e] + 1
    BY <1>0, <1>3, <1>6, <1>p, <2>1 DEF Moves1, Takes
  <2>3. PICK g \in Index :
          /\ MsgAt(g, "GRANT", R) /\ g < u /\ OwnerAt(g) = o
          /\ \A k \in Index : Token(k, R) => k <= g \/ u <= k
    BY <1>1, <1>2 DEF TokenInv, Paired
  <2>4. LastSeen(e, g, R)
    <3>1. g <= pos[e]
      BY <1>p, <2>2, <2>3
    <3>2. \A i \in Index : Token(i, R) /\ i <= pos[e] => i <= g
      BY <1>p, <2>2, <2>3
    <3> QED BY <2>3, <3>1, <3>2 DEF LastSeen, Token
  <2>5. locks[d][R].state = "HELD" /\ locks[d][R].owner = OwnerAt(u)
    BY <1>2, <1>3, <2>1, <2>3, <2>4 DEF Shows
  <2> QED BY <1>1, <1>2, <1>3, <1>4, <2>1, <2>2, <2>5 DEF DutyRule
<1> QED BY <1>5, <1>6

\* A handler, or a step of a client, leaves the list of members as it is.
LEMMA DutyKept ==
  ASSUME BaseInv, BaseInv', TokenInv, DutyInv, NEW d \in cpg, ServiceRule(d),
         UNCHANGED <<group_members, total_members>>
  PROVE  DutyInv'
<1> SUFFICES ASSUME InitGroup # <<>>
             PROVE  /\ Founder' /\ FirstServes'
                    /\ \A e \in cpg' : Shows(e)' /\ Rests(e)'
  BY DEF DutyInv
<1>0. d \in Daemon /\ Frame(d) /\ Moves1(d) /\ DutyRule(d)
  BY Positions DEF ServiceRule
<1>1. Founder /\ FirstServes /\ \A e \in cpg : Shows(e) /\ Rests(e)
  BY DEF DutyInv
<1>2. PICK f \in Daemon : f = InitGroup[1]
  BY FounderMember
<1>3. Founder'
  BY <1>0, <1>1, <1>2, FounderKept DEF Founder
<1>4. FirstServes'
  <2>1. \A R \in Resource : locks[d][R].state = "NONE" /\ locks'[d][R].state # "NONE" =>
          ~IAmOldest(d) \/ \E k \in Index' : Token(k, R)'
    BY <1>0 DEF DutyRule
  <2> QED BY <1>0, <1>1, <1>2, <2>1, FirstServesKept
<1>5. \A e \in cpg' : Shows(e)' /\ Rests(e)'
  BY <1>0, <1>1, ShowsKept, RestsKept
<1> QED BY <1>3, <1>4, <1>5

\* Nobody is put before the head of a list, and only a JOIN of its own
\* could move it.
LEMMA HeadStays ==
  ASSUME NEW s \in Seq(Daemon), s # <<>>, NEW x \in Daemon
  PROVE  /\ Append(s, x) # <<>> /\ Head(Append(s, x)) = Head(s)
         /\ \A i \in 1..Len(s) : i # 1 =>
              MoveToTail(s, i) # <<>> /\ Head(MoveToTail(s, i)) = Head(s)
<1>1. Len(s) \in Nat \ {0} /\ \A i \in 1..Len(s) : s[i] \in Daemon
  BY LenProperties, EmptySeq, ElementOfSeq
<1>2. \A t \in Seq(Daemon) : Len(t) \in Nat \ {0} => t # <<>> /\ Head(t) = t[1]
  BY EmptySeq
<1>3. ASSUME NEW t \in Seq(Daemon), NEW y \in Daemon, Len(t) \in Nat \ {0}, t[1] = s[1]
      PROVE  Append(t, y) # <<>> /\ Head(Append(t, y)) = Head(s)
  <2>1. /\ Append(t, y) \in Seq(Daemon) /\ Len(Append(t, y)) = Len(t) + 1
        /\ Append(t, y)[1] = t[1]
    BY <1>3, AppendProperties
  <2>2. Len(Append(t, y)) \in Nat \ {0}
    BY <1>3, <2>1
  <2> QED BY <1>1, <1>2, <1>3, <2>1, <2>2
<1>4. ASSUME NEW i \in 1..Len(s), i # 1
      PROVE  MoveToTail(s, i) # <<>> /\ Head(MoveToTail(s, i)) = Head(s)
  <2>1. PICK r \in Seq(Daemon) : /\ r = RemoveAt(s, i) /\ Len(r) = Len(s) - 1
                                 /\ \A a \in 1..Len(s) - 1 : r[a] = IF a < i THEN s[a] ELSE s[a + 1]
    BY RemoveAtProperties
  <2>2. 1 \in 1..Len(s) - 1 /\ 1 < i /\ Len(r) \in Nat \ {0}
    BY <1>1, <1>4, <2>1
  <2>3. r[1] = s[1]
    BY <2>1, <2>2
  <2>4. MoveToTail(s, i) = Append(r, s[i])
    BY <2>1 DEF MoveToTail
  <2> QED BY <1>1, <1>3, <2>2, <2>3, <2>4
<1> QED BY <1>1, <1>3, <1>4

\* The founder stays at the head of its list (process_join).
LEMMA FounderLeads ==
  ASSUME MembersStay, BaseInv, BaseInv', TokenInv, NEW f \in Daemon, f = InitGroup[1], Founder,
         NEW d \in Daemon,
         \/ Start(d) \/ IgnoreBeforeJoin(d)
         \/ DeliverJoin(d) \/ DeliverNothing(d) \/ NobodyLeaves(d)
  PROVE  /\ total_members'[f] # 0 /\ group_members'[f] # <<>>
         /\ Head(group_members'[f]) = f
<1>0. /\ group_members \in [Daemon -> Seq(Daemon)] /\ total_members \in [Daemon -> Nat]
      /\ total_members[f] # 0 /\ group_members[f] # <<>> /\ Head(group_members[f]) = f
      /\ pos[d] \in Nat /\ Len(log) \in Nat
  BY LenProperties DEF Founder, BaseInv, TypeOK, GTypeOK
<1>1. CASE Start(d) \/ IgnoreBeforeJoin(d) \/ DeliverNothing(d)
  <2>1. UNCHANGED <<group_members, total_members>>
    BY <1>1 DEF Start, CpgJoin, CpgInitAlone, StartFails, MembersStay, send_join,
       IgnoreBeforeJoin, DeliverApp, DeliverNothing, DeliverLost, groupVars
  <2> QED BY <1>0, <2>1
<1>2. CASE NobodyLeaves(d)
  <2>1. Leavers(group_members[d], NextEntry(d)) = {}
    BY <1>2 DEF NobodyLeaves
  <2>2. PICK list \in ListAfterSetup(d, NextEntry(d)) :
          /\ group_members' = [group_members EXCEPT ![d] = ListAfterLeave(list, NextEntry(d))]
          /\ \E count : /\ count = CountAfterSetup(d, NextEntry(d))
                                   - Cardinality(Leavers(list, NextEntry(d)))
                        /\ total_members' = [total_members EXCEPT ![d] =
                                               IF count < 0 THEN 0 ELSE count]
    BY <1>2 DEF NobodyLeaves, cpg_config_change
  <2>3. CASE f = d
    <3>1. list = group_members[f] /\ CountAfterSetup(d, NextEntry(d)) = total_members[f]
      BY <1>0, <2>3 DEF ListAfterSetup, CountAfterSetup
    <3>2. ListAfterLeave(list, NextEntry(d)) = list
      BY <2>1, <2>3, <3>1 DEF ListAfterLeave
    <3>3. Cardinality(Leavers(list, NextEntry(d))) = 0
      BY <2>1, <2>3, <3>1, FS_EmptySet
    <3>4. total_members[f] \in Nat /\ total_members[f] - 0 = total_members[f]
          /\ ~(total_members[f] < 0)
      BY <1>0
    <3> QED BY <1>0, <2>2, <2>3, <3>1, <3>2, <3>3, <3>4
  <2>4. CASE f # d
    BY <1>0, <2>2, <2>4
  <2> QED BY <2>3, <2>4
<1>3. CASE DeliverJoin(d)
  <2> DEFINE x    == NextEntry(d).from
             list == group_members[d]
             i    == ListedAt(list, x)
  <2>0. /\ HasNext(d) /\ NextEntry(d).request = "JOIN"
        /\ \/ /\ i # 0
              /\ group_members' = [group_members EXCEPT ![d] =
                   IF list[i] = x THEN MoveToTail(list, i) ELSE list]
              /\ UNCHANGED total_members
           \/ /\ i = 0
              /\ group_members' = [group_members EXCEPT ![d] = Append(list, x)]
              /\ total_members' = [total_members EXCEPT ![d] = total_members[d] + 1]
    BY <1>3 DEF DeliverJoin, process_join
  <2>1. CASE f # d
    BY <1>0, <2>0, <2>1
  <2>2. CASE f = d
    <3>1. list \in Seq(Daemon) /\ list # <<>> /\ Head(list) = f /\ list[1] = f
      BY <1>0, <2>2
    <3>2. pos[d] + 1 \in Index
      <4>1. pos[d] < Len(log)
        BY <2>0 DEF HasNext
      <4> QED BY <1>0, <4>1 DEF Index
    <3>3. JoinAt(pos[d] + 1, x)
      BY <2>0, <3>2 DEF JoinAt, NextEntry, Index
    <3>4. x # f
      BY <1>0, <2>2, <3>2, <3>3 DEF Founder
    <3>5. x \in Daemon
      <4>1. log \in Seq(Entry)
        BY DEF BaseInv, TypeOK, GTypeOK
      <4>2. NextEntry(d) \in Entry
        BY <3>2, <4>1, ElementOfSeq DEF Index, NextEntry
      <4>3. NextEntry(d).request = "JOIN"
        BY <2>0
      <4> QED BY <4>2, <4>3 DEF Entry, Lost
    <3>6. i \in 0..Len(list)
      BY <3>1, <3>5, ListedAtProperties
    <3>7. Append(list, x) # <<>> /\ Head(Append(list, x)) = f
      BY <3>1, <3>5, HeadStays
    <3>8. ASSUME i # 0, list[i] = x PROVE MoveToTail(list, i) # <<>> /\ Head(MoveToTail(list, i)) = f
      <4>1. i # 1
        BY <3>1, <3>4, <3>8
      <4>2. Len(list) \in Nat /\ i \in 1..Len(list)
        BY <3>1, <3>6, <3>8, LenProperties
      <4> QED BY <3>1, <3>5, <4>1, <4>2, HeadStays
    <3>9. total_members[d] + 1 # 0
      BY <1>0, <2>2
    <3> HIDE DEF x, list, i
    <3>10. CASE i # 0
      <4>1. group_members'[f] = (IF list[i] = x THEN MoveToTail(list, i) ELSE list)
        BY <1>0, <2>0, <2>2, <3>10
      <4> QED BY <1>0, <2>0, <3>1, <3>8, <3>10, <4>1
    <3>11. CASE i = 0
      <4>1. group_members'[f] = Append(list, x) /\ total_members'[f] = total_members[d] + 1
        BY <1>0, <2>0, <2>2, <3>11
      <4> QED BY <3>7, <3>9, <4>1
    <3> QED BY <3>10, <3>11
  <2> QED BY <2>1, <2>2
<1> QED BY <1>1, <1>2, <1>3

LEMMA GroupStepDuty ==
  ASSUME MembersStay, BaseInv, BaseInv', TokenInv, DutyInv, NEW d \in Daemon,
         \/ Start(d) \/ IgnoreBeforeJoin(d)
         \/ DeliverJoin(d) \/ DeliverNothing(d) \/ NobodyLeaves(d)
  PROVE  DutyInv'
<1> SUFFICES ASSUME InitGroup # <<>>
             PROVE  /\ Founder' /\ FirstServes'
                    /\ \A e \in cpg' : Shows(e)' /\ Rests(e)'
  BY DEF DutyInv
<1>0. GroupStep(d)
  BY StartSteps, IgnoreSteps, DispatchSteps
<1>1. UNCHANGED <<locks, requests>> /\ Frame(d)
  BY <1>0, GroupStepKeeps DEF GroupStep, lockVars
<1>2. Founder /\ FirstServes /\ \A e \in cpg : Shows(e) /\ Rests(e)
  BY DEF DutyInv
<1>3. PICK f \in Daemon : f = InitGroup[1]
  BY FounderMember
<1>4. Founder'
  <2>1. /\ total_members'[f] # 0 /\ group_members'[f] # <<>>
        /\ Head(group_members'[f]) = f
    BY <1>2, <1>3, FounderLeads
  <2> QED BY <1>1, <1>2, <1>3, <2>1, FounderKept
<1>5. FirstServes'
  BY <1>1, <1>2, <1>3, FirstServesKept
<1>6. ASSUME d \in cpg PROVE Moves1(d) /\ DutyRule(d)
  <2>1. Moves1(d)
    BY <1>0, <1>6 DEF GroupStep, Moves1
  <2>2. ASSUME NEW i \in Index, NEW R \in Resource, Takes(d, i), Token(i, R),
               OwnerAt(i).node = NodeOf[d]
        PROVE  FALSE
    <3>1. pos[d] \in Nat /\ pos'[d] = pos[d] + 1 /\ i = pos[d] + 1
      BY <2>2, Positions DEF Takes
    <3>2. pos'[d] # pos[d] /\ i <= pos[d] + 1
      BY <3>1
    <3>3. joined[d]
      BY <1>6, <2>2, <3>2, OwnJoinFirst DEF TokenInv
    <3>4. NextEntry(d).request = "APP"
      BY <2>2, <3>1 DEF Token, MsgAt, NextEntry
    <3> QED BY <1>0, <1>6, <3>2, <3>3, <3>4 DEF GroupStep
  <2>3. \A R \in Resource : Idle(d, R)' <=> Idle(d, R)
    BY <1>1 DEF Idle
  <2> QED BY <1>1, <2>1, <2>2, <2>3 DEF DutyRule, Token
<1>7. \A e \in cpg' : Shows(e)' /\ Rests(e)'
  BY <1>1, <1>2, <1>6, ShowsKept, RestsKept
<1> QED BY <1>4, <1>5, <1>7

-----------------------------------------------------------------------------
(***************************************************************************)
(* The invariants.                                                         *)
(***************************************************************************)

\* A step moves the membership on, or follows the rules.
LEMMA ServiceStep ==
  ASSUME Payload = LockMsg, MembersStay, BaseInv, BaseInv', TokenInv, QueueInv, Next
  PROVE  \E d \in Daemon :
           \/ Start(d) \/ IgnoreBeforeJoin(d)
           \/ DeliverJoin(d) \/ DeliverNothing(d) \/ NobodyLeaves(d)
           \/ d \in cpg /\ ServiceRule(d) /\ UNCHANGED <<group_members, total_members>>
<1>1. PICK d \in Daemon : \/ Start(d) \/ Deliver(d)
                          \/ CleanShutdown(d) \/ NodeCrash(d) \/ CpgLost(d)
                          \/ \E p \in Proc : ClientStep(p, d)
  BY DEF Next
<1>2. NobodyGone
  BY DEF TokenInv
<1>3. phase[d] = "up" => d \in cpg
  BY DEF BaseInv, IndInv, LogInv, Members
<1>4. CASE Deliver(d)
  <2>1. CASE process_lock(d)
    <3>1. ServiceRule(d)
      BY <2>1, LockServes
    <3> QED BY <1>3, <2>1, <3>1 DEF process_lock, DeliverApp, HasNext, groupVars
  <2>2. CASE process_grant_local(d)
    <3>1. ServiceRule(d)
      BY <2>2, GrantLocalServes
    <3> QED BY <1>3, <2>2, <3>1 DEF process_grant_local, DeliverApp, HasNext, groupVars
  <2>3. CASE process_grant_remote(d) \/ process_grant_unknown(d)
    <3>1. ServiceRule(d)
      BY <2>3, GrantElsewhereServes
    <3> QED BY <1>3, <2>3, <3>1 DEF process_grant_remote, process_grant_unknown,
            DeliverApp, HasNext, groupVars
  <2>4. CASE process_nak(d)
    <3>1. ServiceRule(d)
      BY <2>4, NakServes
    <3> QED BY <1>3, <2>4, <3>1 DEF process_nak, DeliverApp, HasNext, groupVars
  <2>5. CASE process_unlock(d)
    <3>1. ServiceRule(d)
      BY <2>5, UnlockServes
    <3> QED BY <1>3, <2>5, <3>1 DEF process_unlock, DeliverApp, HasNext, groupVars
  <2>6. CASE process_purge(d)
    <3>1. ServiceRule(d)
      BY <2>6, PurgeServes
    <3> QED BY <1>3, <2>6, <3>1 DEF process_purge, DeliverApp, HasNext, groupVars
  <2>7. CASE MemberLeaves(d)
    BY <1>2, <2>7, NobodyGoes
  <2> QED BY <1>4, <2>1, <2>2, <2>3, <2>4, <2>5, <2>6, <2>7 DEF Deliver
<1>5. ASSUME NEW p \in Proc, ClientStep(p, d)
      PROVE  d \in cpg /\ ServiceRule(d) /\ UNCHANGED <<group_members, total_members>>
  <2>1. CASE Connect(p, d)
    <3>1. ServiceRule(d)
      BY <2>1, ConnectServes
    <3> QED BY <1>3, <2>1, <3>1 DEF Connect, gvars
  <2>2. ASSUME NEW R \in Resource, ClientLock(p, d, R)
        PROVE  d \in cpg /\ ServiceRule(d) /\ UNCHANGED <<group_members, total_members>>
    <3>1. ServiceRule(d)
      BY <2>2, ClientLockServes
    <3> QED BY <1>3, <2>2, <3>1 DEF ClientLock, Send, groupVars
  <2>3. ASSUME NEW i \in DOMAIN calls[p], ClientUnlock(p, d, i)
        PROVE  d \in cpg /\ ServiceRule(d) /\ UNCHANGED <<group_members, total_members>>
    <3>1. ServiceRule(d)
      BY <2>3, ClientUnlockServes
    <3> QED BY <1>3, <2>3, <3>1 DEF ClientUnlock, Send, groupVars
  <2>4. CASE ClientExit(p, d)
    <3>1. ServiceRule(d)
      BY <2>4, ClientExitServes
    <3>2. p \in clients[d] /\ UNCHANGED <<group_members, total_members>>
      BY <2>4 DEF ClientExit, del_client, Send, groupVars, gvars
    <3> QED BY <3>1, <3>2, OneDaemon
  <2> QED BY <1>5, <2>1, <2>2, <2>3, <2>4 DEF ClientStep
<1> QED BY <1>1, <1>2, <1>4, <1>5, NobodyGoes

LEMMA TurnStep ==
  ASSUME Payload = LockMsg, MembersStay, BaseInv, TokenInv, QueueInv, TurnInv, Next
  PROVE  TurnInv'
<1>0. BaseInv' /\ QueueInv'
  BY BaseStep, QueueStep
<1>1. Asked /\ OneLock /\ OneGrant /\ OneLock' /\ \A d \in Daemon : Queue(d)
  BY <1>0 DEF TokenInv, QueueInv
<1>2. PICK d \in Daemon :
        \/ Start(d) \/ IgnoreBeforeJoin(d)
        \/ DeliverJoin(d) \/ DeliverNothing(d) \/ NobodyLeaves(d)
        \/ d \in cpg /\ ServiceRule(d) /\ UNCHANGED <<group_members, total_members>>
  BY <1>0, ServiceStep
<1>3. CASE \/ Start(d) \/ IgnoreBeforeJoin(d)
           \/ DeliverJoin(d) \/ DeliverNothing(d) \/ NobodyLeaves(d)
  <2>1. GroupStep(d)
    BY <1>0, <1>3, StartSteps, IgnoreSteps, DispatchSteps
  <2> QED BY <1>0, <1>1, <2>1, GroupStepTurn
<1>4. CASE d \in cpg /\ ServiceRule(d)
  BY <1>0, <1>1, <1>4, TurnKept DEF ServiceRule
<1> QED BY <1>2, <1>3, <1>4

LEMMA DutyStep ==
  ASSUME Payload = LockMsg, MembersStay, BaseInv, TokenInv, QueueInv, DutyInv, Next
  PROVE  DutyInv'
<1>0. BaseInv'
  BY BaseStep
<1>1. PICK d \in Daemon :
        \/ Start(d) \/ IgnoreBeforeJoin(d)
        \/ DeliverJoin(d) \/ DeliverNothing(d) \/ NobodyLeaves(d)
        \/ d \in cpg /\ ServiceRule(d) /\ UNCHANGED <<group_members, total_members>>
  BY <1>0, ServiceStep
<1> QED BY <1>0, <1>1, GroupStepDuty, DutyKept

\* At first there are no lock messages, requests or records, and the
\* founder is the first of those who joined.
LEMMA NoMessages ==
  ASSUME Init
  PROVE  /\ \A i \in Index : \A q, R : ~MsgAt(i, q, R)
         /\ \A d \in Daemon : requests[d] = {}
         /\ \A d \in Daemon, R \in Resource : locks[d][R] = NoLock
<1>1. \A i \in Index : log[i].request # "APP"
  <2>1. log = InitLog /\ InitGroup \in Seq(Daemon) /\ Len(InitGroup) \in Nat
    BY GroupAssumption, LenProperties DEF Init, GInit
  <2>2. \A i \in DOMAIN InitLog : InitLog[i].request # "APP"
    BY DEF InitLog, ConfChg, JoinMsg
  <2>3. Len(InitLog) = 2 * Len(InitGroup) /\ DOMAIN InitLog = 1..2 * Len(InitGroup)
    BY InitLogProperties, <2>1 DEF InitLog
  <2> QED BY <2>1, <2>2, <2>3 DEF Index
<1> QED BY <1>1 DEF MsgAt, Init

LEMMA TurnInit ==
  ASSUME Init
  PROVE  TurnInv
<1>1. FirstCome
  BY NoMessages DEF FirstCome
<1>2. \A d \in Daemon : Marked(d) /\ HasAll(d)
  BY NoMessages DEF Marked, HasAll
<1> QED BY <1>1, <1>2 DEF TurnInv

LEMMA DutyInit ==
  ASSUME Init
  PROVE  DutyInv
<1> SUFFICES ASSUME InitGroup # <<>>
             PROVE  /\ Founder /\ FirstServes
                    /\ \A e \in cpg : Shows(e) /\ Rests(e)
  BY DEF DutyInv
<1>0. GInit /\ BaseInv
  BY BaseInit DEF Init
<1>1. PICK n \in Nat \ {0} : n = Len(InitGroup)
  BY FounderMember
<1>2. PICK f \in Daemon : f = InitGroup[1]
  BY FounderMember
<1>3. /\ Index = 1..2 * n
      /\ \A k, e : JoinAt(k, e) <=> \E i \in 1..n : k = 2 * i /\ e = InitGroup[i]
  BY <1>0, <1>1, InitLogSays
<1>4. 1 \in 1..n /\ 2 \in Index /\ \A i \in 1..n : 2 <= 2 * i /\ 2 * i <= 2 * n
  BY <1>1, <1>3
<1>5. JoinAt(2, f) /\ \A k \in Index, e \in Daemon : JoinAt(k, e) => 2 <= k
  <2>1. 2 = 2 * 1
    OBVIOUS
  <2> QED BY <1>2, <1>3, <1>4, <2>1
<1>6. FirstJoiner(f)
  BY <1>4, <1>5 DEF FirstJoiner
<1>7. f \in Range(InitGroup)
  <2>1. DOMAIN InitGroup = 1..n
    BY <1>1, GroupAssumption, LenProperties
  <2> QED BY <1>2, <1>4, <2>1 DEF Range
<1>8. /\ pos[f] = 2 * n /\ group_members[f] = InitGroup /\ total_members[f] = n + 1
  BY <1>0, <1>1, <1>7 DEF GInit
<1>9. \A j \in Index : JoinAt(j, f) => j <= pos[f]
  BY <1>1, <1>3, <1>8
<1>10. total_members[f] # 0 /\ Head(group_members[f]) = f /\ group_members[f] # <<>>
  BY <1>1, <1>2, <1>8
<1>11. Founder
  BY <1>2, <1>6, <1>9, <1>10 DEF Founder
<1>12. FirstServes
  BY NoMessages DEF FirstServes, NoLock
<1>13. \A e \in cpg : Shows(e) /\ Rests(e)
  BY NoMessages DEF Shows, Rests
<1> QED BY <1>11, <1>12, <1>13

LEMMA ServiceStutter ==
  ASSUME UNCHANGED vars
  PROVE  (TurnInv => TurnInv') /\ (DutyInv => DutyInv')
<1>0. /\ UNCHANGED <<cpg, log, pos, group_members, total_members>>
      /\ UNCHANGED <<locks, requests, ended>>
  BY DEF vars, lockVars, gvars
<1>1. /\ Index' = Index
      /\ \A i, q, R : MsgAt(i, q, R)' <=> MsgAt(i, q, R)
      /\ \A i, R : Token(i, R)' <=> Token(i, R)
      /\ \A i : OwnerAt(i)' = OwnerAt(i)
      /\ \A i, q, R, o : For(i, q, R, o)' <=> For(i, q, R, o)
      /\ \A i, e : JoinAt(i, e)' <=> JoinAt(i, e)
      /\ \A o : Counts(o)' <=> Counts(o)
  BY <1>0 DEF Index, MsgAt, Token, OwnerAt, For, JoinAt, Counts
<1>2. ASSUME TurnInv PROVE TurnInv'
  <2>1. FirstCome'
    BY <1>1, <1>2 DEF TurnInv, FirstCome, Counts
  <2>2. \A d \in Daemon : Marked(d)'
    BY <1>0, <1>1, <1>2 DEF TurnInv, Marked, Granted
  <2>3. \A d \in Daemon : HasAll(d)'
    BY <1>0, <1>1, <1>2 DEF TurnInv, HasAll, AfterJoin, Counts
  <2> QED BY <2>1, <2>2, <2>3 DEF TurnInv
<1>3. ASSUME DutyInv PROVE DutyInv'
  <2>1. \A d : FirstJoiner(d)' <=> FirstJoiner(d)
    BY <1>1 DEF FirstJoiner
  <2>2. Founder => Founder'
    BY <1>0, <1>1, <2>1 DEF Founder
  <2>3. FirstServes => FirstServes'
    BY <1>0, <1>1, <2>1 DEF FirstServes
  <2>4. \A d \in cpg : Shows(d) => Shows(d)'
    BY <1>0, <1>1 DEF Shows, LastSeen
  <2>5. \A d \in cpg : Rests(d) => Rests(d)'
    BY <1>0, <1>1 DEF Rests, LastToken, Idle
  <2> QED BY <1>0, <1>3, <2>2, <2>3, <2>4, <2>5 DEF DutyInv
<1> QED BY <1>2, <1>3

(***************************************************************************)
(* Locks are granted in the order of the LOCK messages, whichever daemon   *)
(* passes them on, however late it joined and whatever it has not yet      *)
(* heard of (queue_request, grant_next).                                   *)
(***************************************************************************)
THEOREM TurnInductive ==
  ASSUME Payload = LockMsg, MembersStay
  PROVE  Spec => [](BaseInv /\ TokenInv /\ QueueInv /\ TurnInv)
<1>1. Spec => [](BaseInv /\ TokenInv /\ QueueInv)
  BY QueueInductive
<1>2. Init => TurnInv
  BY TurnInit
<1>3. ASSUME BaseInv, TokenInv, QueueInv, TurnInv, [Next]_vars PROVE TurnInv'
  BY <1>3, TurnStep, ServiceStutter
<1> QED BY <1>1, <1>2, <1>3, PTL DEF Spec

(***************************************************************************)
(* In a group that has been formed somebody always has to grant: the first *)
(* daemon a lock nobody was ever granted, the owner of the last GRANT or   *)
(* UNLOCK any other (process_lock, process_unlock).                        *)
(***************************************************************************)
THEOREM DutyInductive ==
  ASSUME Payload = LockMsg, MembersStay
  PROVE  Spec => [](BaseInv /\ TokenInv /\ QueueInv /\ DutyInv)
<1>1. Spec => [](BaseInv /\ TokenInv /\ QueueInv)
  BY QueueInductive
<1>2. Init => DutyInv
  BY DutyInit
<1>3. ASSUME BaseInv, TokenInv, QueueInv, DutyInv, [Next]_vars PROVE DutyInv'
  BY <1>3, DutyStep, ServiceStutter
<1> QED BY <1>1, <1>2, <1>3, PTL DEF Spec

-----------------------------------------------------------------------------
(***************************************************************************)
(* NoStrandedWaiter.                                                       *)
(***************************************************************************)

\* A lock that was ever granted has a last token.
LEMMA TokensEnd ==
  ASSUME BaseInv, NEW R, NEW k \in Index, Token(k, R)
  PROVE  \E t \in Index : LastToken(t, R)
<1> DEFINE back == { Len(log) - i : i \in { j \in Index : Token(j, R) } }
<1>1. Len(log) \in Nat /\ Index = 1..Len(log)
  BY LenProperties DEF BaseInv, TypeOK, GTypeOK, Index
<1>2. back \in SUBSET Nat
  BY <1>1
<1>3. Len(log) - k \in back
  OBVIOUS
<1>4. PICK n \in back : \A m \in back : n <= m
  BY <1>2, <1>3, MinInSet
<1>5. PICK t \in Index : Token(t, R) /\ n = Len(log) - t
  BY <1>4
<1>6. ASSUME NEW i \in Index, Token(i, R) PROVE i <= t
  <2>1. Len(log) - t <= Len(log) - i
    BY <1>4, <1>5, <1>6
  <2> QED BY <1>1, <2>1
<1> QED BY <1>5, <1>6 DEF LastToken

\* Once all is dispatched, a call that waits has its LOCK behind it, and no GRANT.
LEMMA WaiterAsked ==
  ASSUME BaseInv, TokenInv, QueueInv, Settled, NEW R \in Resource,
         NEW c \in CallsOn(R, "wait")
  PROVE  \E b \in Index : /\ MsgAt(b, "LOCK", R)
                          /\ OwnerAt(b).pid \notin ended
                          /\ ~Granted(R, OwnerAt(b))
<1>1. PICK p \in Proc \ ended : \E i \in DOMAIN calls[p] :
        c = <<p, i>> /\ calls[p][i].st = "wait" /\ calls[p][i].resource = R
  BY DEF CallsOn
<1>2. PICK i \in DOMAIN calls[p] : calls[p][i].st = "wait" /\ calls[p][i].resource = R
  BY <1>1
<1>3. PICK d \in Daemon : p \in clients[d]
  <2>1. calls[p] # <<>>
    BY <1>2
  <2> QED BY <1>1, <2>1 DEF QueueInv, Callers
<1>4. d \in cpg /\ Queue(d) /\ Waits(d, p, i)
  BY <1>2, <1>3, OneDaemon DEF QueueInv, Answers
<1>5. PICK a \in Index : a <= pos[d] =>
        \E r \in requests[d] : r.resource = R /\ r.owner = Owner(NodeOf[d], p, i)
  BY <1>2, <1>4 DEF Waits
<1>6. PICK r \in requests[d] : r.resource = R /\ r.owner = Owner(NodeOf[d], p, i)
  BY <1>4, <1>5 DEF Settled, Index
<1>7. /\ For(r.at, "LOCK", R, r.owner)
      /\ \A g \in Index : For(g, "GRANT", R, r.owner) => pos[d] < g
  BY <1>4, <1>6 DEF Queue
<1>8. ~Granted(R, r.owner)
  <2> SUFFICES ASSUME NEW g \in Index, For(g, "GRANT", R, r.owner) PROVE FALSE
    BY DEF Granted
  <2>1. pos[d] < g /\ pos[d] = Len(log) /\ g \in 1..Len(log)
    BY <1>4, <1>7 DEF Settled, Index
  <2> QED BY <2>1, LenProperties DEF BaseInv, TypeOK, GTypeOK
<1>9. r.owner.pid = p
  BY <1>6 DEF Owner
<1> QED BY <1>1, <1>7, <1>8, <1>9 DEF For, MsgAt

\* A member that joined before a LOCK has its request, while it is not granted.
LEMMA HasWaiting ==
  ASSUME BaseInv, TokenInv, QueueInv, TurnInv, Settled, Triers = {},
         NEW R \in Resource, NEW b \in Index, MsgAt(b, "LOCK", R),
         OwnerAt(b).pid \notin ended, ~Granted(R, OwnerAt(b)),
         NEW d \in cpg, AfterJoin(d, b)
  PROVE  \E r \in requests[d] : /\ r.resource = R /\ r.state = "PENDING"
                                /\ locks[d][R].state # "NONE"
<1>1. d \in Daemon /\ b <= pos[d] /\ requests[d] \in SUBSET Request
  BY DEF Settled, Index, BaseInv, TypeOK, GTypeOK
<1>2. HasAll(d) /\ Marked(d) /\ Queue(d)
  BY <1>1 DEF TurnInv, QueueInv
<1>3. PICK r \in requests[d] : r.at = b
  BY <1>1, <1>2 DEF HasAll, Counts, Granted
<1>4. For(b, "LOCK", r.resource, r.owner) /\ locks[d][r.resource].state # "NONE"
  BY <1>2, <1>3 DEF Queue
<1>5. r.resource = R /\ r.owner = OwnerAt(b)
  BY <1>4 DEF For, MsgAt
<1>6. r.state # "HELD"
  BY <1>2, <1>3, <1>5 DEF Marked
<1> QED BY <1>1, <1>3, <1>4, <1>5, <1>6 DEF Request

\* Whoever has the lock to keep has heard of everybody who waits for it.
LEMMA OwnerHeard ==
  ASSUME BaseInv, TokenInv, QueueInv, TurnInv, Triers = {},
         NEW R \in Resource, NEW b \in Index, MsgAt(b, "LOCK", R),
         OwnerAt(b).pid \notin ended, ~Granted(R, OwnerAt(b)),
         NEW u \in Index, MsgAt(u, "UNLOCK", R), NEW d \in cpg, NodeOf[d] = OwnerAt(u).node
  PROVE  AfterJoin(d, b)
<1>0. Index \subseteq Nat /\ cpg \subseteq Daemon
  BY DEF Index, BaseInv, TypeOK, GTypeOK
<1>1. PICK g \in Index : MsgAt(g, "GRANT", R) /\ OwnerAt(g) = OwnerAt(u)
  BY DEF TokenInv, Paired
<1>2. PICK a \in Index : For(a, "LOCK", R, OwnerAt(g))
  BY <1>1 DEF QueueInv, OneGrant
<1>3. MsgAt(a, "LOCK", R) /\ OwnerAt(a) = OwnerAt(g)
  BY <1>2 DEF For
<1>4. NodeJoined(OwnerAt(a).node, a)
  BY <1>3 DEF TokenInv, Asked
<1>5. PICK e \in cpg, j \in Index : NodeOf[e] = OwnerAt(a).node /\ JoinAt(j, e) /\ j <= a
  BY <1>4 DEF NodeJoined
<1>6. e = d
  BY <1>0, <1>1, <1>3, <1>5 DEF BaseInv, IndInv, LogInv, Members
<1>7. ~(b < a)
  <2> SUFFICES ASSUME b < a PROVE FALSE
    OBVIOUS
  <2>1. Counts(OwnerAt(b)) /\ FirstCome
    BY DEF Counts, TurnInv
  <2>2. \E h \in Index : For(h, "GRANT", R, OwnerAt(b))
    BY <1>1, <1>2, <2>1 DEF FirstCome
  <2> QED BY <2>2 DEF Granted
<1>8. j # b
  BY <1>5 DEF JoinAt, MsgAt
<1>9. j < b
  BY <1>0, <1>5, <1>7, <1>8
<1> QED BY <1>5, <1>6, <1>9 DEF AfterJoin

(***************************************************************************)
(* Nobody is forgotten: once every message has been dispatched, a call     *)
(* still waiting in cpg_lock waits for a call that holds the lock.  Not    *)
(* with FL_TRY: a request that is granted before its NAK comes back keeps  *)
(* the lock from everybody (process_lock).  Nor in a group not formed yet: *)
(* of two daemons that start together the second may send its JOIN first.  *)
(***************************************************************************)
THEOREM NobodyStranded ==
  ASSUME Payload = LockMsg, MembersStay, Triers = {}, InitGroup # <<>>
  PROVE  Spec => []NoStrandedWaiter
<1>1. Spec => [](BaseInv /\ TokenInv /\ QueueInv /\ TurnInv)
  BY TurnInductive
<1>2. Spec => [](BaseInv /\ TokenInv /\ QueueInv /\ DutyInv)
  BY DutyInductive
<1>3. ASSUME BaseInv, TokenInv, QueueInv, TurnInv, DutyInv PROVE NoStrandedWaiter
  <2> SUFFICES ASSUME Settled, NEW R \in Resource, CallsOn(R, "wait") # {}
               PROVE  CallsOn(R, "held") # {}
    BY DEF NoStrandedWaiter
  <2>0. /\ cpg \subseteq Daemon /\ Index \subseteq Nat
        /\ \A d \in cpg, i \in Index : i <= pos[d]
    BY <1>3 DEF Settled, Index, BaseInv, TypeOK, GTypeOK
  <2>1. PICK b \in Index : /\ MsgAt(b, "LOCK", R)
                           /\ OwnerAt(b).pid \notin ended
                           /\ ~Granted(R, OwnerAt(b))
    BY <1>3, WaiterAsked
  <2>2. \E k \in Index : Token(k, R)
    <3>1. PICK f \in Daemon : f = InitGroup[1]
      BY FounderMember
    <3>2. FirstJoiner(f) /\ FirstServes
      BY <1>3, <3>1 DEF DutyInv, Founder
    <3>3. PICK i \in Index : JoinAt(i, f) /\ \A k \in Index, e \in Daemon : JoinAt(k, e) => i <= k
      BY <3>2 DEF FirstJoiner
    <3>4. f \in cpg
      BY <1>3, <3>3, KnowsOwnJoin DEF TokenInv
    <3>5. NodeJoined(OwnerAt(b).node, b)
      BY <1>3, <2>1 DEF TokenInv, Asked
    <3>6. PICK e \in cpg, j \in Index : JoinAt(j, e) /\ j <= b
      BY <3>5 DEF NodeJoined
    <3>7. i <= j /\ i # b
      BY <2>0, <2>1, <3>3, <3>6 DEF JoinAt, MsgAt
    <3>8. i < b
      BY <2>0, <3>6, <3>7
    <3>9. AfterJoin(f, b)
      BY <3>3, <3>8 DEF AfterJoin
    <3>10. locks[f][R].state # "NONE"
      BY <1>3, <2>1, <3>4, <3>9, HasWaiting
    <3> QED BY <3>2, <3>10 DEF FirstServes
  <2>3. PICK t \in Index : LastToken(t, R)
    BY <1>3, <2>2, TokensEnd
  <2>4. OfCall(OwnerAt(t), R) /\ NodeJoined(OwnerAt(t).node, t)
    BY <1>3, <2>3 DEF TokenInv, Asked, LastToken
  <2>5. PICK d \in cpg : NodeOf[d] = OwnerAt(t).node
    BY <2>4 DEF NodeJoined
  <2>6. CASE MsgAt(t, "GRANT", R)
    <3>1. PICK p, i : p = OwnerAt(t).pid /\ i = OwnerAt(t).tid
      OBVIOUS
    <3>2. Holds(d, R, OwnerAt(t))
      BY <1>3, <2>0, <2>3, <2>5, <2>6 DEF QueueInv, Kept
    <3>3. p \in Proc \ ended
      BY <1>3, <2>0, <3>1, <3>2, OneDaemon DEF Holds
    <3>4. CallIs(p, i, "held")
      BY <1>3, <3>1, <3>2, <3>3 DEF Holds, QueueInv, Refusals, CallIs
    <3>5. i \in DOMAIN calls[p] /\ calls[p][i].st = "held" /\ calls[p][i].resource = R
      BY <2>4, <3>1, <3>4 DEF CallIs, OfCall
    <3>6. <<p, i>> \in CallsOn(R, "held")
      BY <3>3, <3>5 DEF CallsOn
    <3> QED BY <3>6
  <2>7. CASE MsgAt(t, "UNLOCK", R)
    <3>1. Idle(d, R)
      BY <1>3, <2>0, <2>3, <2>5, <2>7 DEF DutyInv, Rests
    <3>2. AfterJoin(d, b)
      BY <1>3, <2>1, <2>5, <2>7, OwnerHeard
    <3> QED BY <1>3, <2>1, <3>1, <3>2, HasWaiting DEF Idle
  <2> QED BY <2>3, <2>6, <2>7 DEF LastToken, Token
<1> QED BY <1>1, <1>2, <1>3, PTL

-----------------------------------------------------------------------------
(***************************************************************************)
(* ImplementsService.  The state of LockService: its queues and holders.   *)
(***************************************************************************)
Queues ==
  [R \in Resource |->
     [c \in Queueing(R) |-> { b \in Queueing(R) : AskedAt(b) < AskedAt(c) }]]

Holding == [R \in Resource |-> CallsOn(R, "held")]

\* A call in a queue has its place by a LOCK message, and no GRANT its
\* daemon has dispatched.
PlaceOf(c, R, a) ==
  /\ For(a, "LOCK", R, Owner(ProcNode[c[1]], c[1], c[2]))
  /\ AskedAt(c) = a

StillWaits(c, R) ==
  \E d \in cpg : \A g \in Index :
    /\ NodeOf[d] = ProcNode[c[1]]
    /\ For(g, "GRANT", R, Owner(ProcNode[c[1]], c[1], c[2])) => pos[d] < g

Places ==
  /\ \A a \in Index, R \in Resource : MsgAt(a, "LOCK", R) =>
       \A c : c = <<OwnerAt(a).pid, OwnerAt(a).tid>> => AskedAt(c) = a
  /\ \A R \in Resource : \A c \in Queueing(R) :
       /\ \E a \in Index : PlaceOf(c, R, a)
       /\ StillWaits(c, R)

\* The calls with a state, one by one.
CallsAre ==
  /\ \A R, st : \A p, i : <<p, i>> \in CallsOn(R, st) <=>
       /\ p \in Proc \ ended /\ i \in DOMAIN calls[p]
       /\ calls[p][i].st = st /\ calls[p][i].resource = R
  /\ \A R, st : \A c \in CallsOn(R, st) : c = <<c[1], c[2]>>

LEMMA CallsSay == CallsAre
<1>1. ASSUME NEW R, NEW st, NEW c \in CallsOn(R, st)
      PROVE  \E p \in Proc \ ended : \E i \in DOMAIN calls[p] :
               c = <<p, i>> /\ calls[p][i].st = st /\ calls[p][i].resource = R
  BY <1>1 DEF CallsOn
<1>2. ASSUME NEW R, NEW st, NEW p \in Proc \ ended, NEW i \in DOMAIN calls[p],
             calls[p][i].st = st, calls[p][i].resource = R
      PROVE  <<p, i>> \in CallsOn(R, st)
  BY <1>2 DEF CallsOn
<1>3. \A R, st : \A c \in CallsOn(R, st) : c = <<c[1], c[2]>>
  BY <1>1
<1>4. ASSUME NEW R, NEW st, NEW p, NEW i, <<p, i>> \in CallsOn(R, st)
      PROVE  /\ p \in Proc \ ended /\ i \in DOMAIN calls[p]
             /\ calls[p][i].st = st /\ calls[p][i].resource = R
  <2>1. PICK q \in Proc \ ended : \E j \in DOMAIN calls[q] :
          <<p, i>> = <<q, j>> /\ calls[q][j].st = st /\ calls[q][j].resource = R
    BY <1>1, <1>4
  <2> QED BY <2>1
<1> QED BY <1>2, <1>3, <1>4 DEF CallsAre

LEMMA PlacesHold ==
  ASSUME Payload = LockMsg, BaseInv, TokenInv, QueueInv
  PROVE  Places
<1>1. ASSUME NEW i \in Index, log[i].request = "APP", log[i].body.request = "LOCK"
      PROVE  log[i].body.resource \in Resource /\ log[i].body.owner \in Owners
  <2>1. log[i] \in Entry
    BY ElementOfSeq DEF BaseInv, TypeOK, GTypeOK, Index
  <2>2. log[i].body \in LockMsg
    BY <1>1, <2>1 DEF Entry, Lost
  <2> QED BY <1>1, <2>2 DEF LockMsg
<1>2. ASSUME NEW a \in Index, NEW R \in Resource, MsgAt(a, "LOCK", R),
             NEW i \in Index, log[i].request = "APP", log[i].body.request = "LOCK",
             log[i].body.owner.pid = OwnerAt(a).pid, log[i].body.owner.tid = OwnerAt(a).tid
      PROVE  i = a
  <2>1. PICK S \in Resource : MsgAt(i, "LOCK", S)
    BY <1>1, <1>2 DEF MsgAt
  <2>2. OwnerAt(i).node = OwnerAt(a).node
    <3>1. OwnerAt(i).pid = OwnerAt(a).pid
      BY <1>2 DEF OwnerAt
    <3> QED BY <1>2, <2>1, <3>1 DEF QueueInv, OneLock
  <2>3. OwnerAt(i) \in Owners /\ OwnerAt(a) \in Owners
    BY <1>1, <1>2 DEF MsgAt, OwnerAt
  <2>4. OwnerAt(i) = OwnerAt(a)
    BY <1>2, <2>2, <2>3 DEF Owners, OwnerAt
  <2> QED BY <1>2, <2>1, <2>4 DEF QueueInv, OneLock, For
<1>3. ASSUME NEW a \in Index, NEW R \in Resource, MsgAt(a, "LOCK", R)
      PROVE  AskedAt(<<OwnerAt(a).pid, OwnerAt(a).tid>>) = a
  <2> DEFINE Here(i) == /\ log[i].request = "APP" /\ log[i].body.request = "LOCK"
                        /\ log[i].body.owner.pid = OwnerAt(a).pid
                        /\ log[i].body.owner.tid = OwnerAt(a).tid
  <2>1. Here(a)
    BY <1>3 DEF MsgAt, OwnerAt
  <2>2. \A i \in Index : Here(i) => i = a
    BY <1>2, <1>3
  <2> HIDE DEF Here
  <2>3. (CHOOSE i \in Index : Here(i)) = a
    BY <2>1, <2>2
  <2> QED BY <2>3 DEF Here, AskedAt, Index
<1>4. ASSUME NEW R \in Resource, NEW c \in Queueing(R)
      PROVE  (\E a \in Index : PlaceOf(c, R, a)) /\ StillWaits(c, R)
  <2>1. PICK p, i : c = <<p, i>> /\ p = c[1] /\ i = c[2]
    BY <1>4, CallsSay DEF CallsAre, Queueing
  <2>2. /\ p \in Proc \ ended /\ i \in DOMAIN calls[p]
        /\ calls[p][i].st = "wait" /\ calls[p][i].resource = R
    BY <1>4, <2>1, CallsSay DEF CallsAre, Queueing
  <2>3. PICK d \in Daemon : p \in clients[d]
    <3>1. calls[p] # <<>>
      BY <2>2
    <3> QED BY <2>2, <3>1 DEF QueueInv, Callers
  <2>4. d \in cpg /\ NodeOf[d] = ProcNode[p] /\ Queue(d) /\ Waits(d, p, i)
    BY <2>2, <2>3, OneDaemon DEF QueueInv, Answers
  <2>5. PICK o : o = Owner(ProcNode[p], p, i)
    OBVIOUS
  <2>6. PICK a \in Index : /\ For(a, "LOCK", R, o)
                           /\ a <= pos[d] => \E r \in requests[d] : r.resource = R /\ r.owner = o
    BY <2>2, <2>4, <2>5 DEF Waits
  <2>7. MsgAt(a, "LOCK", R) /\ OwnerAt(a).pid = p /\ OwnerAt(a).tid = i
    BY <2>5, <2>6 DEF For, Owner
  <2>8. AskedAt(c) = a
    BY <1>3, <2>1, <2>7
  <2>9. ASSUME NEW g \in Index, For(g, "GRANT", R, o) PROVE pos[d] < g
    <3>0. g \in Nat /\ a \in Nat /\ pos[d] \in Nat
      BY DEF Index, BaseInv, TypeOK, GTypeOK
    <3>1. PICK b \in Index : b < g /\ For(b, "LOCK", R, o)
      <4>1. MsgAt(g, "GRANT", R) /\ OwnerAt(g) = o
        BY <2>9 DEF For
      <4> QED BY <4>1 DEF QueueInv, OneGrant
    <3>2. a = b
      BY <2>6, <2>7, <3>1 DEF QueueInv, OneLock, For
    <3>3. CASE a <= pos[d]
      <4>1. PICK r \in requests[d] : r.resource = R /\ r.owner = o
        BY <2>6, <3>3
      <4> QED BY <2>4, <2>9, <4>1 DEF Queue
    <3>4. CASE pos[d] < a
      BY <3>0, <3>1, <3>2, <3>4
    <3> QED BY <3>0, <3>3, <3>4
  <2>10. PlaceOf(c, R, a)
    BY <2>1, <2>5, <2>6, <2>8 DEF PlaceOf
  <2>11. StillWaits(c, R)
    BY <2>1, <2>4, <2>5, <2>9 DEF StillWaits
  <2> QED BY <2>10, <2>11
<1> QED BY <1>3, <1>4 DEF Places

LEMMA CallsSayNext == CallsAre'
  BY CallsSay, PTL

\* Steps of LockService, seen from its queues and holders.
LEMMA SameService ==
  ASSUME Queues' = Queues, Holding' = Holding
  PROVE  UNCHANGED Service!svars
  BY DEF Service!svars, Queues, Holding

LEMMA QueuesAre ==
  /\ DOMAIN Queues = Resource /\ DOMAIN Queues' = Resource
  /\ \A R \in Resource :
       /\ DOMAIN Queues[R] = Queueing(R) /\ DOMAIN Queues'[R] = Queueing(R)'
       /\ \A c \in Queueing(R) :
            Queues[R][c] = { b \in Queueing(R) : AskedAt(b) < AskedAt(c) }
       /\ \A c \in Queueing(R)' :
            Queues'[R][c] = { b \in Queueing(R)' : AskedAt(b)' < AskedAt(c)' }
  /\ \A R \in Resource : /\ Queues[R] = [c \in Queueing(R) |-> Queues[R][c]]
                         /\ Queues'[R] = [c \in Queueing(R)' |-> Queues'[R][c]]
  BY DEF Queues

LEMMA AskStep ==
  ASSUME NEW R \in Resource, NEW c \in Service!Call, c[1] \notin Triers,
         c \notin Queueing(R), Holding' = Holding,
         Queues' = [Queues EXCEPT ![R] = Service!WithLast(c, Queues[R])]
  PROVE  Service!SNext
<1>1. Service!Ask(c, R)
  BY DEF Service!Ask, Service!Waiting, Service!WithLast, Queues, Holding
<1> QED BY <1>1 DEF Service!SNext

LEMMA GiveStep ==
  ASSUME NEW R \in Resource, NEW c \in Queueing(R), Holding[R] = {}, Queues[R][c] = {},
         Holding' = [Holding EXCEPT ![R] = {c}],
         Queues' = [Queues EXCEPT ![R] = Service!Without({c}, Queues[R])]
  PROVE  Service!SNext
<1>1. Service!GiveTo(c, R) /\ c \in Service!Waiting(R)
  BY DEF Service!GiveTo, Service!Waiting, Service!Without, Queues, Holding
<1> QED BY <1>1 DEF Service!SNext, Service!Give

LEMMA ReleaseStep ==
  ASSUME NEW R \in Resource, Holding[R] # {}, Holding' = [Holding EXCEPT ![R] = {}],
         Queues' = Queues
  PROVE  Service!SNext
<1>1. Service!Release(R)
  BY DEF Service!Release, Queues, Holding
<1> QED BY <1>1 DEF Service!SNext

LEMMA TakeStep ==
  ASSUME NEW R \in Resource, NEW c \in Service!Call, c[1] \in Triers, Holding[R] = {},
         Holding' = [Holding EXCEPT ![R] = {c}], Queues' = Queues
  PROVE  Service!SNext
<1>1. Service!Take(c, R)
  BY DEF Service!Take, Queues, Holding
<1> QED BY <1>1 DEF Service!SNext

LEMMA WithdrawStep ==
  ASSUME NEW P \in SUBSET Proc,
         Queues' = [R \in Resource |->
           Service!Without({ c \in Queueing(R) : c[1] \in P }, Queues[R])],
         Holding' = [R \in Resource |-> { c \in Holding[R] : c[1] \notin P }]
  PROVE  Service!SNext
<1>1. Service!Withdraw(P)
  BY DEF Service!Withdraw, Service!Waiting, Service!Without, Queues, Holding
<1> QED BY <1>1 DEF Service!SNext

\* A call keeps its place while it waits.
LEMMA PlaceKept ==
  ASSUME BaseInv, BaseInv', Places, Places', NEW d \in Daemon, Frame(d),
         NEW R \in Resource, NEW c \in Queueing(R)
  PROVE  AskedAt(c)' = AskedAt(c) /\ AskedAt(c) \in Index
<1>1. PICK a \in Index : PlaceOf(c, R, a)
  BY DEF Places
<1>2. PICK o : o = Owner(ProcNode[c[1]], c[1], c[2])
  OBVIOUS
<1>3. For(a, "LOCK", R, o) /\ AskedAt(c) = a
  BY <1>1, <1>2 DEF PlaceOf
<1>4. a \in Index' /\ For(a, "LOCK", R, o)'
  BY <1>3, OldEntries, OldWords
<1>5. MsgAt(a, "LOCK", R)' /\ OwnerAt(a)' = o
  BY <1>4 DEF For
<1>6. c = <<o.pid, o.tid>>
  BY <1>2, CallsSay DEF CallsAre, Queueing, Owner
<1>7. AskedAt(c)' = a
  BY <1>4, <1>5, <1>6 DEF Places
<1> QED BY <1>3, <1>7

\* A queue that some calls leave.
LEMMA QueueShrinks ==
  ASSUME BaseInv, BaseInv', Places, Places', NEW d \in Daemon, Frame(d),
         NEW R \in Resource, NEW X, Queueing(R)' = Queueing(R) \ X
  PROVE  Queues'[R] = Service!Without(X, Queues[R])
<1>1. \A c \in Queueing(R) : AskedAt(c)' = AskedAt(c)
  BY PlaceKept
<1>2. PICK F, W : F = Queues'[R] /\ W = Service!Without(X, Queues[R])
  OBVIOUS
<1>3. W = [c \in Queueing(R) \ X |-> Queues[R][c] \ X]
  BY <1>2, QueuesAre DEF Service!Without
<1>4. F = [c \in Queueing(R) \ X |-> F[c]]
  BY <1>2, QueuesAre
<1>5. ASSUME NEW c \in Queueing(R) \ X PROVE F[c] = W[c]
  <2>1. F[c] = { b \in Queueing(R) \ X : AskedAt(b)' < AskedAt(c)' }
    BY <1>2, QueuesAre
  <2>2. W[c] = { b \in Queueing(R) : AskedAt(b) < AskedAt(c) } \ X
    BY <1>3, QueuesAre
  <2>3. \A b : b \in F[c] <=> b \in Queueing(R) /\ b \notin X /\ AskedAt(b) < AskedAt(c)
    BY <1>1, <2>1
  <2>4. \A b : b \in W[c] <=> b \in Queueing(R) /\ b \notin X /\ AskedAt(b) < AskedAt(c)
    BY <2>2
  <2> QED BY <2>1, <2>2, <2>3, <2>4
<1> QED BY <1>2, <1>3, <1>4, <1>5

LEMMA QueueStays ==
  ASSUME BaseInv, BaseInv', Places, Places', NEW d \in Daemon, Frame(d),
         NEW R \in Resource, Queueing(R)' = Queueing(R)
  PROVE  Queues'[R] = Queues[R]
<1>1. Queueing(R)' = Queueing(R) \ {}
  OBVIOUS
<1>2. Queues'[R] = Service!Without({}, Queues[R])
  BY <1>1, QueueShrinks
<1>3. PICK f : f = Queues[R]
  OBVIOUS
<1>4. f = [c \in Queueing(R) |-> f[c]]
  BY <1>3, QueuesAre
<1>5. Service!Without({}, f) = [c \in Queueing(R) |-> f[c]]
  <2>1. DOMAIN f \ {} = Queueing(R) /\ \A c : f[c] \ {} = f[c]
    BY <1>3, QueuesAre
  <2> QED BY <2>1 DEF Service!Without
<1> QED BY <1>2, <1>3, <1>4, <1>5

\* A call that is the last to ask.
LEMMA QueueGrows ==
  ASSUME BaseInv, BaseInv', Places, Places', NEW d \in Daemon, Frame(d),
         NEW R \in Resource, NEW c, c \notin Queueing(R),
         Queueing(R)' = Queueing(R) \cup {c}, AskedAt(c)' \in Index' \ Index
  PROVE  Queues'[R] = Service!WithLast(c, Queues[R])
<1>1. \A b \in Queueing(R) : AskedAt(b)' = AskedAt(b) /\ AskedAt(b) \in Index
  BY PlaceKept
<1>2. \A b \in Queueing(R) : AskedAt(b)' < AskedAt(c)'
  BY <1>1, OldWords
<1>3. Index' \subseteq Nat /\ Index \subseteq Nat
  BY Positions
<1>4. PICK F, W : F = Queues'[R] /\ W = Service!WithLast(c, Queues[R])
  OBVIOUS
<1>5. W = [x \in Queueing(R) \cup {c} |-> IF x = c THEN Queueing(R) ELSE Queues[R][x]]
  BY <1>4, QueuesAre DEF Service!WithLast
<1>6. F = [x \in Queueing(R) \cup {c} |-> F[x]]
  BY <1>4, QueuesAre
<1>7. ASSUME NEW x \in Queueing(R) \cup {c}
      PROVE  F[x] = W[x]
  <2>1. F[x] = { b \in Queueing(R) \cup {c} : AskedAt(b)' < AskedAt(x)' }
    BY <1>4, QueuesAre
  <2>2. CASE x = c
    <3>1. W[x] = Queueing(R)
      BY <1>5, <2>2
    <3>2. F[c] = { b \in Queueing(R) \cup {c} : AskedAt(b)' < AskedAt(c)' }
      BY <2>1, <2>2
    <3>3. ~(AskedAt(c)' < AskedAt(c)')
      <4>1. \A n \in Nat : ~(n < n)
        OBVIOUS
      <4>2. AskedAt(c)' \in Nat
        BY <1>3
      <4> QED BY <4>1, <4>2
    <3>4. { b \in Queueing(R) \cup {c} : AskedAt(b)' < AskedAt(c)' } = Queueing(R)
      BY <1>2, <3>3
    <3> QED BY <2>2, <3>1, <3>2, <3>4
  <2>3. CASE x # c
    <3>1. W[x] = { b \in Queueing(R) : AskedAt(b) < AskedAt(x) } /\ x \in Queueing(R)
      BY <1>5, <1>7, <2>3, QueuesAre
    <3>2. ~(AskedAt(c)' < AskedAt(x)')
      <4>1. AskedAt(c)' \in Nat /\ AskedAt(x)' \in Nat /\ AskedAt(x)' < AskedAt(c)'
        BY <1>1, <1>2, <1>3, <3>1
      <4> QED BY <4>1
    <3>3. \A b : b \in F[x] <=> b \in W[x]
      BY <1>1, <2>1, <3>1, <3>2
    <3> QED BY <2>1, <3>1, <3>3
  <2> QED BY <2>2, <2>3
<1> QED BY <1>4, <1>5, <1>6, <1>7

LEMMA SameQueues ==
  ASSUME \A R \in Resource : Queues'[R] = Queues[R]
  PROVE  Queues' = Queues
<1>1. Queues = [R \in Resource |-> Queues[R]] /\ Queues' = [R \in Resource |-> Queues'[R]]
  BY DEF Queues
<1> QED BY <1>1

LEMMA SameHolding ==
  ASSUME \A R \in Resource : CallsOn(R, "held")' = CallsOn(R, "held")
  PROVE  Holding' = Holding
  BY DEF Holding

\* Steps that no call has a part in.
LEMMA NothingCalled ==
  ASSUME BaseInv, BaseInv', Places, Places', NEW d \in Daemon, Frame(d),
         UNCHANGED <<calls, ended>>
  PROVE  UNCHANGED Service!svars
<1>1. \A R, st : CallsOn(R, st)' = CallsOn(R, st)
  BY DEF CallsOn
<1>2. \A R \in Resource : Queueing(R)' = Queueing(R)
  BY <1>1 DEF Queueing
<1>3. Queues' = Queues
  BY <1>2, QueueStays, SameQueues
<1>4. Holding' = Holding
  BY <1>1, SameHolding
<1> QED BY <1>3, <1>4, SameService

\* Steps in which the call p, i moves on, and no other.
CallMoves(p, i) ==
  /\ p \in Proc \ ended /\ i \in DOMAIN calls[p] /\ ended' = ended
  /\ \A q \in Proc : DOMAIN calls'[q] = DOMAIN calls[q]
  /\ \A q \in Proc : \A j \in DOMAIN calls[q] :
       /\ calls'[q][j].resource = calls[q][j].resource
       /\ calls'[q][j] = calls[q][j] \/ <<q, j>> = <<p, i>>

LEMMA MovesSay ==
  ASSUME NEW p, NEW i, CallMoves(p, i), NEW R, NEW st
  PROVE  /\ CallsOn(R, st) \ {<<p, i>>} \subseteq CallsOn(R, st)'
         /\ CallsOn(R, st)' \subseteq CallsOn(R, st) \cup {<<p, i>>}
         /\ <<p, i>> \in CallsOn(R, st) <=>
              calls[p][i].resource = R /\ calls[p][i].st = st
         /\ <<p, i>> \in CallsOn(R, st)' <=>
              calls[p][i].resource = R /\ calls'[p][i].st = st
<1>1. ASSUME NEW q, NEW j, <<q, j>> # <<p, i>>
      PROVE  <<q, j>> \in CallsOn(R, st)' <=> <<q, j>> \in CallsOn(R, st)
  BY <1>1, CallsSay, CallsSayNext DEF CallsAre, CallMoves
<1>2. ASSUME NEW c, c # <<p, i>>
      PROVE  c \in CallsOn(R, st)' <=> c \in CallsOn(R, st)
  <2>1. ASSUME c \in CallsOn(R, st) \/ c \in CallsOn(R, st)' PROVE c = <<c[1], c[2]>>
    BY <2>1, CallsSay, CallsSayNext DEF CallsAre
  <2> QED BY <1>1, <1>2, <2>1
<1>3. <<p, i>> \in CallsOn(R, st) <=> calls[p][i].resource = R /\ calls[p][i].st = st
  BY CallsSay DEF CallsAre, CallMoves
<1>4. <<p, i>> \in CallsOn(R, st)' <=> calls[p][i].resource = R /\ calls'[p][i].st = st
  BY CallsSayNext DEF CallsAre, CallMoves
<1> QED BY <1>2, <1>3, <1>4

\* A call of Triers that stops waiting leaves no queue, another call leaves one.
LEMMA MovesQueues ==
  ASSUME NEW p, NEW i, CallMoves(p, i), calls'[p][i].st # "wait"
  PROVE  /\ \A R : Queueing(R)' = Queueing(R) \ {<<p, i>>}
         /\ \A R : <<p, i>> \in Queueing(R) <=>
              calls[p][i].resource = R /\ calls[p][i].st = "wait" /\ p \notin Triers
<1>1. ASSUME NEW R
      PROVE  /\ Queueing(R)' = Queueing(R) \ {<<p, i>>}
             /\ <<p, i>> \in Queueing(R) <=>
                  calls[p][i].resource = R /\ calls[p][i].st = "wait" /\ p \notin Triers
  <2>1. CallsOn(R, "wait")' = CallsOn(R, "wait") \ {<<p, i>>}
    <3>1. /\ CallsOn(R, "wait") \ {<<p, i>>} \subseteq CallsOn(R, "wait")'
          /\ CallsOn(R, "wait")' \subseteq CallsOn(R, "wait") \cup {<<p, i>>}
          /\ <<p, i>> \notin CallsOn(R, "wait")'
      BY MovesSay
    <3> QED BY <3>1
  <2>2. <<p, i>> \in CallsOn(R, "wait") <=>
          calls[p][i].resource = R /\ calls[p][i].st = "wait"
    BY MovesSay
  <2> QED BY <2>1, <2>2 DEF Queueing
<1> QED BY <1>1

LEMMA MovesElsewhere ==
  ASSUME NEW p, NEW i, CallMoves(p, i), NEW S, S # calls[p][i].resource, NEW st
  PROVE  CallsOn(S, st)' = CallsOn(S, st)
<1>1. /\ CallsOn(S, st) \ {<<p, i>>} \subseteq CallsOn(S, st)'
      /\ CallsOn(S, st)' \subseteq CallsOn(S, st) \cup {<<p, i>>}
      /\ <<p, i>> \notin CallsOn(S, st) /\ <<p, i>> \notin CallsOn(S, st)'
  BY MovesSay
<1> QED BY <1>1

\* A call with FL_TRY that is refused, whether it waited in front or not.
LEMMA RefusedStutters ==
  ASSUME BaseInv, BaseInv', Places, Places', NEW d \in Daemon, Frame(d),
         NEW p, NEW i, CallMoves(p, i), p \in Triers,
         calls[p][i].st = "wait", calls'[p][i].st = "nak"
  PROVE  UNCHANGED Service!svars
<1>1. ASSUME NEW R \in Resource PROVE Queueing(R)' = Queueing(R)
  <2>1. /\ Queueing(R)' = Queueing(R) \ {<<p, i>>}
        /\ <<p, i>> \notin Queueing(R)
    <3>1. calls'[p][i].st # "wait"
      OBVIOUS
    <3> QED BY <3>1, MovesQueues
  <2> QED BY <2>1
<1>2. Queues' = Queues
  BY <1>1, QueueStays, SameQueues
<1>3. ASSUME NEW R \in Resource PROVE CallsOn(R, "held")' = CallsOn(R, "held")
  <2>1. /\ CallsOn(R, "held") \ {<<p, i>>} \subseteq CallsOn(R, "held")'
        /\ CallsOn(R, "held")' \subseteq CallsOn(R, "held") \cup {<<p, i>>}
        /\ <<p, i>> \notin CallsOn(R, "held") /\ <<p, i>> \notin CallsOn(R, "held")'
    BY MovesSay
  <2> QED BY <2>1
<1>4. Holding' = Holding
  BY <1>3, SameHolding
<1> QED BY <1>2, <1>4, SameService

\* A call that unlocks.
LEMMA UnlockReleases ==
  ASSUME BaseInv, BaseInv', Places, Places', MutualExclusion,
         NEW d \in Daemon, Frame(d), NEW p, NEW i, CallMoves(p, i),
         calls[p][i].resource \in Resource,
         calls[p][i].st = "held", calls'[p][i].st = "done"
  PROVE  Service!SNext
<1>1. ASSUME NEW R \in Resource PROVE Queueing(R)' = Queueing(R)
  <2>1. /\ Queueing(R)' = Queueing(R) \ {<<p, i>>}
        /\ <<p, i>> \notin Queueing(R)
    <3>1. calls'[p][i].st # "wait"
      OBVIOUS
    <3> QED BY <3>1, MovesQueues
  <2> QED BY <2>1
<1>2. Queues' = Queues
  BY <1>1, QueueStays, SameQueues
<1>3. PICK R \in Resource : R = calls[p][i].resource
  OBVIOUS
<1>4. /\ <<p, i>> \in CallsOn(R, "held") /\ <<p, i>> \notin CallsOn(R, "held")'
      /\ CallsOn(R, "held")' \subseteq CallsOn(R, "held") \cup {<<p, i>>}
  BY <1>3, MovesSay
<1>5. CallsOn(R, "held")' = {}
  BY <1>4 DEF MutualExclusion
<1>6. ASSUME NEW S \in Resource, S # R PROVE CallsOn(S, "held")' = CallsOn(S, "held")
  BY <1>3, <1>6, MovesElsewhere
<1>7. Holding' = [Holding EXCEPT ![R] = {}] /\ Holding[R] # {}
  BY <1>4, <1>5, <1>6 DEF Holding
<1> QED BY <1>2, <1>7, ReleaseStep

\* A call that is told it holds the lock.
LEMMA GrantGives ==
  ASSUME BaseInv, BaseInv', Places, Places', MutualExclusion',
         NEW d \in Daemon, Frame(d), NEW p, NEW i, CallMoves(p, i),
         NEW R \in Resource, calls[p][i].resource = R, <<p, i>> \in Service!Call,
         calls[p][i].st = "wait", calls'[p][i].st = "held",
         p \notin Triers => Queues[R][<<p, i>>] = {}
  PROVE  Service!SNext
<1>1. PICK c : c = <<p, i>>
  OBVIOUS
<1>2. /\ c \in CallsOn(R, "held")' /\ c \notin CallsOn(R, "held")
      /\ CallsOn(R, "held") \ {c} \subseteq CallsOn(R, "held")'
  BY <1>1, MovesSay
<1>3. CallsOn(R, "held")' = {c} /\ CallsOn(R, "held") = {}
  BY <1>2 DEF MutualExclusion
<1>4. ASSUME NEW S \in Resource, S # R PROVE CallsOn(S, "held")' = CallsOn(S, "held")
  BY <1>4, MovesElsewhere
<1>5. Holding' = [Holding EXCEPT ![R] = {c}] /\ Holding[R] = {}
  BY <1>3, <1>4 DEF Holding
<1>6. /\ \A S : Queueing(S)' = Queueing(S) \ {c}
      /\ \A S : c \in Queueing(S) <=> S = R /\ p \notin Triers
  BY <1>1, MovesQueues
<1>7. CASE p \in Triers
  <2>1. \A S \in Resource : Queueing(S)' = Queueing(S)
    BY <1>6, <1>7
  <2>2. Queues' = Queues
    BY <2>1, QueueStays, SameQueues
  <2> QED BY <1>1, <1>5, <1>7, <2>2, TakeStep
<1>8. CASE p \notin Triers
  <2>1. c \in Queueing(R) /\ Queues'[R] = Service!Without({c}, Queues[R])
    BY <1>6, <1>8, QueueShrinks
  <2>2. ASSUME NEW S \in Resource, S # R PROVE Queues'[S] = Queues[S]
    <3>1. Queueing(S)' = Queueing(S)
      BY <1>6, <2>2
    <3> QED BY <3>1, QueueStays
  <2>3. PICK f : f = Service!Without({c}, Queues[R])
    OBVIOUS
  <2>4. Queues' = [Queues EXCEPT ![R] = f]
    <3>1. /\ Queues = [S \in Resource |-> Queues[S]]
          /\ Queues' = [S \in Resource |-> Queues'[S]]
      BY DEF Queues
    <3> QED BY <2>1, <2>2, <2>3, <3>1
  <2> QED BY <1>1, <1>5, <1>8, <2>1, <2>3, <2>4, GiveStep
<1> QED BY <1>7, <1>8

\* Nobody in the queue asked before a call that is given the lock.
LEMMA NobodyAhead ==
  ASSUME BaseInv, TokenInv, TurnInv, Places, NEW R \in Resource,
         NEW t \in Index, MsgAt(t, "GRANT", R), NEW d \in cpg, pos[d] < t,
         OwnerAt(t).node = NodeOf[d], NEW c \in Queueing(R),
         OwnerAt(t) = Owner(ProcNode[c[1]], c[1], c[2])
  PROVE  Queues[R][c] = {}
<1> SUFFICES ASSUME NEW b \in Queueing(R), AskedAt(b) < AskedAt(c) PROVE FALSE
  BY QueuesAre
<1>1. PICK a \in Index : PlaceOf(c, R, a)
  BY DEF Places
<1>2. PICK k \in Index : PlaceOf(b, R, k)
  BY DEF Places
<1>3. PICK o : o = Owner(ProcNode[b[1]], b[1], b[2])
  OBVIOUS
<1>4. For(a, "LOCK", R, OwnerAt(t)) /\ For(k, "LOCK", R, o) /\ k < a
  BY <1>1, <1>2, <1>3 DEF PlaceOf
<1>5. MsgAt(k, "LOCK", R) /\ OwnerAt(k) = o
  BY <1>4 DEF For
<1>6. Counts(o)
  <2>1. b[1] \notin Triers /\ b[1] \in Proc \ ended
    <3>1. b \in CallsOn(R, "wait") /\ b[1] \notin Triers
      BY DEF Queueing
    <3>2. b = <<b[1], b[2]>>
      BY <3>1, CallsSay DEF CallsAre
    <3> QED BY <3>1, <3>2, CallsSay DEF CallsAre
  <2> QED BY <1>3, <2>1 DEF Counts, Owner
<1>7. PICK h \in Index : For(h, "GRANT", R, o) /\ h < t
  BY <1>4, <1>5, <1>6 DEF TurnInv, FirstCome
<1>8. PICK e \in cpg : NodeOf[e] = ProcNode[b[1]] /\ pos[e] < h
  BY <1>3, <1>7 DEF Places, StillWaits
<1>9. Token(h, R) /\ OwnerAt(h).node = NodeOf[e] /\ Token(t, R)
  BY <1>3, <1>7, <1>8 DEF For, Token, Owner
<1>10. LastToken(h, R)
  BY <1>8, <1>9 DEF TokenInv, AtOwner
<1>11. t <= h /\ t \in Nat /\ h \in Nat
  BY <1>9, <1>10 DEF LastToken, Index
<1> QED BY <1>7, <1>11

\* A call of cpg_lock is numbered, and no other call moves.
LEMMA NewCall ==
  ASSUME BaseInv, NEW p \in Proc, NEW d, NEW R, ClientLock(p, d, R),
         NEW n, n = Len(calls[p]) + 1
  PROVE  /\ n \in Nat /\ n \in 1..MaxCalls[p] /\ Len(calls'[p]) = n
         /\ \A q \in Proc \ {p} : calls'[q] = calls[q]
         /\ n \notin DOMAIN calls[p] /\ DOMAIN calls'[p] = DOMAIN calls[p] \cup {n}
         /\ \A j \in DOMAIN calls[p] : calls'[p][j] = calls[p][j]
         /\ calls'[p][n].st = "wait" /\ calls'[p][n].resource = R
<1>1. PICK s, c : /\ s = calls[p]
                  /\ c = [resource |-> R, try |-> p \in Triers, st |-> "wait", lockid |-> 0]
  OBVIOUS
<1>2. calls \in [Proc -> Seq(Call)] /\ s \in Seq(Call) /\ Len(s) \in Nat /\ n = Len(s) + 1
  BY <1>1, LenProperties DEF BaseInv, TypeOK
<1>3. calls' = [calls EXCEPT ![p] = Append(s, c)] /\ Len(s) < MaxCalls[p]
  BY <1>1 DEF ClientLock, cpg_lock
<1>4. calls'[p] = Append(s, c) /\ \A q \in Proc \ {p} : calls'[q] = calls[q]
  BY <1>2, <1>3
<1>5. /\ DOMAIN s = 1..Len(s) /\ DOMAIN Append(s, c) = 1..Len(s) + 1
      /\ Len(Append(s, c)) = Len(s) + 1
      /\ \A j \in 1..Len(s) : Append(s, c)[j] = s[j]
      /\ Append(s, c)[Len(s) + 1] = c
  BY <1>2
<1>6. n \in 1..MaxCalls[p]
  <2>1. MaxCalls[p] \in Nat
    BY LockAssumption
  <2> QED BY <1>2, <1>3, <2>1
<1>7. c.st = "wait" /\ c.resource = R
  BY <1>1
<1>8. n \notin 1..Len(s) /\ 1..Len(s) + 1 = (1..Len(s)) \cup {n}
  BY <1>2
<1>9. calls'[p][n].st = "wait" /\ calls'[p][n].resource = R
  BY <1>2, <1>4, <1>5, <1>7
<1> QED BY <1>1, <1>2, <1>4, <1>5, <1>6, <1>8, <1>9

\* A call of cpg_lock without FL_TRY joins the queue.
LEMMA LockAsks ==
  ASSUME Payload = LockMsg, BaseInv, BaseInv', TokenInv, Places, Places',
         NEW e \in Daemon, Frame(e),
         NEW d \in Daemon, NEW p \in Proc, NEW R \in Resource, ClientLock(p, d, R)
  PROVE  [Service!SNext]_Service!svars
<1>1. PICK n, c : n = Len(calls[p]) + 1 /\ c = <<p, n>>
  OBVIOUS
<1>2. /\ n \in Nat /\ n \in 1..MaxCalls[p]
      /\ \A q \in Proc \ {p} : calls'[q] = calls[q]
      /\ n \notin DOMAIN calls[p] /\ DOMAIN calls'[p] = DOMAIN calls[p] \cup {n}
      /\ \A j \in DOMAIN calls[p] : calls'[p][j] = calls[p][j]
      /\ calls'[p][n].st = "wait" /\ calls'[p][n].resource = R
  BY <1>1, NewCall
<1>3. p \in Proc \ ended /\ ended' = ended /\ NodeOf[d] = ProcNode[p]
  BY OneDaemon DEF ClientLock
<1>4. ASSUME NEW S, NEW st
      PROVE  /\ c \notin CallsOn(S, st)
             /\ c \in CallsOn(S, st)' <=> S = R /\ st = "wait"
             /\ CallsOn(S, st)' \ {c} = CallsOn(S, st)
  <2>1. c \notin CallsOn(S, st) /\ (c \in CallsOn(S, st)' <=> S = R /\ st = "wait")
    BY <1>1, <1>2, <1>3, CallsSay, CallsSayNext DEF CallsAre
  <2>2. ASSUME NEW q, NEW j, <<q, j>> # c
        PROVE  <<q, j>> \in CallsOn(S, st)' <=> <<q, j>> \in CallsOn(S, st)
    BY <1>1, <1>2, <1>3, <2>2, CallsSay, CallsSayNext DEF CallsAre
  <2>3. ASSUME NEW b, b # c PROVE b \in CallsOn(S, st)' <=> b \in CallsOn(S, st)
    <3>1. ASSUME b \in CallsOn(S, st) \/ b \in CallsOn(S, st)' PROVE b = <<b[1], b[2]>>
      BY <3>1, CallsSay, CallsSayNext DEF CallsAre
    <3> QED BY <2>2, <2>3, <3>1
  <2> QED BY <2>1, <2>3
<1>5. Holding' = Holding
  <2>1. \A S \in Resource : CallsOn(S, "held")' = CallsOn(S, "held")
    BY <1>4
  <2> QED BY <2>1, SameHolding
<1>6. ASSUME NEW S PROVE /\ c \notin Queueing(S)
                         /\ c \in Queueing(S)' <=> S = R /\ p \notin Triers
                         /\ Queueing(S)' \ {c} = Queueing(S)
  BY <1>1, <1>4 DEF Queueing
<1>7. CASE p \in Triers
  <2>1. ASSUME NEW S \in Resource PROVE Queueing(S)' = Queueing(S)
    BY <1>6, <1>7
  <2>2. Queues' = Queues
    BY <2>1, QueueStays, SameQueues
  <2> QED BY <1>5, <2>2, SameService
<1>8. CASE p \notin Triers
  <2>1. PICK m, k : /\ m = Msg("LOCK", R, Owner(NodeOf[d], p, n), p \in Triers)
                    /\ k = Len(log) + 1
    OBVIOUS
  <2>2. log' = Mcast(d, <<m>>)
    BY <1>1, <2>1 DEF ClientLock, Send, send_lock
  <2>3. k \in Index' \ Index /\ log'[k] = App(d, m)
    BY <2>1, <2>2, OutEntry
  <2>4. MsgAt(k, "LOCK", R)' /\ OwnerAt(k)' = Owner(NodeOf[d], p, n)
    BY <2>1, <2>3 DEF MsgAt, OwnerAt, App, Msg
  <2>5. c = <<(OwnerAt(k)').pid, (OwnerAt(k)').tid>>
    BY <1>1, <2>4 DEF Owner
  <2>6. AskedAt(c)' = k
    BY <2>3, <2>4, <2>5 DEF Places
  <2>7. Queueing(R)' = Queueing(R) \cup {c} /\ c \notin Queueing(R)
    BY <1>6, <1>8
  <2>8. Queues'[R] = Service!WithLast(c, Queues[R])
    BY <2>3, <2>6, <2>7, QueueGrows
  <2>9. ASSUME NEW S \in Resource, S # R PROVE Queues'[S] = Queues[S]
    <3>1. Queueing(S)' = Queueing(S)
      BY <1>6, <2>9
    <3> QED BY <3>1, QueueStays
  <2>10. PICK f : f = Service!WithLast(c, Queues[R])
    OBVIOUS
  <2>11. Queues' = [Queues EXCEPT ![R] = f]
    <3>1. /\ Queues = [S \in Resource |-> Queues[S]]
          /\ Queues' = [S \in Resource |-> Queues'[S]]
      BY DEF Queues
    <3> QED BY <2>8, <2>9, <2>10, <3>1
  <2>12. c \in Service!Call /\ c[1] \notin Triers
    BY <1>1, <1>2, <1>8 DEF Service!Call
  <2>13. Service!SNext
    BY <1>5, <2>7, <2>10, <2>11, <2>12, AskStep
  <2> QED BY <2>13
<1> QED BY <1>7, <1>8

\* The calls of a process that goes away leave the queues, and held nothing.
LEMMA ExitWithdraws ==
  ASSUME BaseInv, BaseInv', Places, Places', NEW e \in Daemon, Frame(e),
         NEW d, NEW p \in Proc, ClientExit(p, d)
  PROVE  Service!SNext
<1>1. ended' = ended \cup {p} /\ calls' = calls
  BY DEF ClientExit, cpg_lock_fin
<1>2. ASSUME NEW R, NEW st
      PROVE  \A c : c \in CallsOn(R, st)' <=> c \in CallsOn(R, st) /\ c[1] # p
  <2>1. ASSUME NEW q, NEW j
        PROVE  <<q, j>> \in CallsOn(R, st)' <=> <<q, j>> \in CallsOn(R, st) /\ q # p
    BY <1>1, CallsSay, CallsSayNext DEF CallsAre
  <2>2. ASSUME NEW c PROVE c \in CallsOn(R, st)' <=> c \in CallsOn(R, st) /\ c[1] # p
    <3>1. ASSUME c \in CallsOn(R, st) \/ c \in CallsOn(R, st)' PROVE c = <<c[1], c[2]>>
      BY <3>1, CallsSay, CallsSayNext DEF CallsAre
    <3>2. <<c[1], c[2]>> \in CallsOn(R, st)' <=>
            <<c[1], c[2]>> \in CallsOn(R, st) /\ c[1] # p
      BY <2>1
    <3> QED BY <3>1, <3>2
  <2> QED BY <2>2
<1>3. ASSUME NEW R \in Resource
      PROVE  Queues'[R] = Service!Without({ c \in Queueing(R) : c[1] \in {p} }, Queues[R])
  <2>1. PICK X : X = { c \in Queueing(R) : c[1] \in {p} }
    OBVIOUS
  <2>2. \A c : c \in Queueing(R)' <=> c \in Queueing(R) /\ c[1] # p
    BY <1>2 DEF Queueing
  <2>3. Queueing(R)' = Queueing(R) \ X
    BY <2>1, <2>2
  <2> QED BY <2>1, <2>3, QueueShrinks
<1>4. Queues' = [R \in Resource |->
        Service!Without({ c \in Queueing(R) : c[1] \in {p} }, Queues[R])]
  <2>1. Queues' = [R \in Resource |-> Queues'[R]]
    BY DEF Queues
  <2> QED BY <1>3, <2>1
<1>5. Holding' = [R \in Resource |-> { c \in Holding[R] : c[1] \notin {p} }]
  <2>1. ASSUME NEW R \in Resource
        PROVE  CallsOn(R, "held")' = { c \in CallsOn(R, "held") : c[1] \notin {p} }
    BY <1>2
  <2> QED BY <2>1 DEF Holding
<1> QED BY <1>4, <1>5, WithdrawStep

\* Every step lets the log grow and keeps what is known.
LEMMA StepFrames ==
  ASSUME Payload = LockMsg, MembersStay, BaseInv, BaseInv', TokenInv, QueueInv, Next
  PROVE  \E e \in Daemon : Frame(e)
<1>1. PICK d \in Daemon :
        \/ Start(d) \/ IgnoreBeforeJoin(d)
        \/ DeliverJoin(d) \/ DeliverNothing(d) \/ NobodyLeaves(d)
        \/ d \in cpg /\ ServiceRule(d) /\ UNCHANGED <<group_members, total_members>>
  BY ServiceStep
<1>2. CASE \/ Start(d) \/ IgnoreBeforeJoin(d)
           \/ DeliverJoin(d) \/ DeliverNothing(d) \/ NobodyLeaves(d)
  <2>1. GroupStep(d)
    BY <1>2, StartSteps, IgnoreSteps, DispatchSteps
  <2> QED BY <2>1, GroupStepKeeps
<1> QED BY <1>1, <1>2 DEF ServiceRule

\* An answer moves the call it is for, if that still waits.
LEMMA AnswerMoves ==
  ASSUME BaseInv, NEW p \in Proc \ ended, NEW i \in DOMAIN calls[p], NEW st, NEW id,
         ended' = ended, calls' = Answered(p, i, st, id), calls' # calls
  PROVE  CallMoves(p, i) /\ calls[p][i].st = "wait" /\ calls'[p][i].st = st
<1>1. calls[p][i].st = "wait"
  BY DEF Answered
<1>2. calls'[p][i].st = st
  <2>1. calls[p] \in Seq(Call)
    BY DEF BaseInv, TypeOK
  <2>2. calls[p][i] \in Call
    BY CallTypes
  <2>3. CASE calls'[p][i] = calls[p][i]
    <3>1. PICK s, c : s = calls[p] /\ c = [s[i] EXCEPT !.st = st, !.lockid = id]
      OBVIOUS
    <3>2. c.st = st
      BY <2>2, <3>1 DEF Call
    <3>3. calls'[p][i] = c
      <4>1. calls' = [calls EXCEPT ![p][i].st = st, ![p][i].lockid = id]
        BY <1>1 DEF Answered
      <4> QED BY <2>1, <2>2, <3>1, <4>1 DEF BaseInv, TypeOK, Call
    <3> QED BY <3>2, <3>3
  <2> QED BY <2>3, AnsweredSays
<1> QED BY <1>1, <1>2, AnsweredSays DEF CallMoves

CallBound == \A p \in Proc : DOMAIN calls[p] \subseteq 1..MaxCalls[p]

\* What a step does to a call: daemon d grants or refuses it, or it unlocks.
Granting(d, p, i) ==
  /\ calls[p][i].st = "wait" /\ calls'[p][i].st = "held"
  /\ d \in cpg
  /\ \E t \in Index, R \in Resource :
       /\ MsgAt(t, "GRANT", R) /\ pos[d] < t /\ calls[p][i].resource = R
       /\ OwnerAt(t) = Owner(NodeOf[d], p, i)

Refusing(p, i) == calls[p][i].st = "wait" /\ calls'[p][i].st = "nak"

Unlocking(p, i) == calls[p][i].st = "held" /\ calls'[p][i].st = "done"

CallStep(d) ==
  \/ UNCHANGED <<calls, ended>>
  \/ \E p \in Proc, R \in Resource : ClientLock(p, d, R)
  \/ \E p \in Proc : ClientExit(p, d)
  \/ \E p \in clients[d] : \E i \in DOMAIN calls[p] :
       CallMoves(p, i) /\ (Granting(d, p, i) \/ Refusing(p, i) \/ Unlocking(p, i))

LEMMA GrantMoves ==
  ASSUME Payload = LockMsg, BaseInv, TokenInv, NEW d \in Daemon, process_grant_local(d)
  PROVE  CallStep(d)
<1>1. PICK m, R, p, tid, id, t, o :
        /\ m = Body(d) /\ R = m.resource /\ o = m.owner /\ p = o.pid /\ tid = o.tid
        /\ id = local_lockid[d] + 1 /\ t = pos[d] + 1
  OBVIOUS
<1>2. Delivers(d, "GRANT") /\ joined[d] /\ ended' = ended /\ o.node = NodeOf[d]
  BY <1>1 DEF process_grant_local
<1>3. /\ t \in Index /\ pos[d] \in Nat /\ t = pos[d] + 1
      /\ OwnerAt(t) = o /\ MsgAt(t, "GRANT", R) /\ d \in cpg
  BY <1>1, <1>2, Dispatching
<1>4. R \in Resource /\ o \in Owners
  <2>1. GTypeOK /\ HasNext(d) /\ NextEntry(d).request = "APP" /\ Body(d).request = "GRANT"
    BY <1>2 DEF BaseInv, TypeOK, Delivers, Body
  <2> QED BY <1>1, <2>1, BodyTypes
<1>5. CASE calls' = calls
  BY <1>2, <1>5 DEF CallStep
<1>6. CASE calls' # calls
  <2>1. p \in clients[d] /\ calls' = Answered(p, tid, "held", id)
    BY <1>1, <1>6 DEF process_grant_local, find_client, grant_client
  <2>2. tid \in DOMAIN calls[p] /\ calls[p][tid].resource = R
    BY <1>1, <1>3, <1>4 DEF TokenInv, Asked, Token, OfCall
  <2>3. p \in Proc \ ended
    BY <2>1, OneDaemon
  <2>4. CallMoves(p, tid) /\ calls[p][tid].st = "wait" /\ calls'[p][tid].st = "held"
    BY <1>2, <1>6, <2>1, <2>2, <2>3, AnswerMoves
  <2>5. o = Owner(NodeOf[d], p, tid)
    BY <1>1, <1>2, <1>4 DEF Owners, Owner
  <2>6. pos[d] < t
    BY <1>3
  <2>7. Granting(d, p, tid)
    BY <1>3, <1>4, <2>2, <2>4, <2>5, <2>6 DEF Granting
  <2> QED BY <2>1, <2>2, <2>4, <2>7 DEF CallStep
<1> QED BY <1>5, <1>6

LEMMA NakMoves ==
  ASSUME Payload = LockMsg, BaseInv, TokenInv, NEW d \in Daemon, process_nak(d)
  PROVE  CallStep(d)
<1>1. PICK m, R, p, tid :
        m = Body(d) /\ R = m.resource /\ p = m.owner.pid /\ tid = m.owner.tid
  OBVIOUS
<1>2. Delivers(d, "NAK") /\ joined[d] /\ ended' = ended
  BY DEF process_nak
<1>3. CASE calls' = calls
  BY <1>2, <1>3 DEF CallStep
<1>4. CASE calls' # calls
  <2>1. /\ p \in clients[d] /\ calls' = Answered(p, tid, "nak", 0)
        /\ Matching(requests[d], m) # {}
    BY <1>1, <1>4 DEF process_nak, find_client, nak_client
  <2>2. PICK r \in requests[d] : r.resource = R /\ r.owner = m.owner
    BY <1>1, <2>1 DEF Matching
  <2>3. tid \in DOMAIN calls[p]
    BY <1>1, <2>2 DEF TokenInv, Asked, OfCall
  <2>4. p \in Proc \ ended
    BY <2>1, OneDaemon
  <2>5. CallMoves(p, tid) /\ Refusing(p, tid)
    BY <1>2, <1>4, <2>1, <2>3, <2>4, AnswerMoves DEF Refusing
  <2> QED BY <2>1, <2>3, <2>5 DEF CallStep
<1> QED BY <1>3, <1>4

LEMMA UnlockMoves ==
  ASSUME BaseInv, TokenInv, NEW d \in Daemon, NEW p \in Proc, NEW i \in DOMAIN calls[p],
         ClientUnlock(p, d, i)
  PROVE  CallStep(d)
<1>1. /\ p \in clients[d] /\ calls[p][i].st = "held" /\ ended' = ended
      /\ calls' = [calls EXCEPT ![p][i].st = "done"]
  BY DEF ClientUnlock, cpg_unlock, CallIs
<1>2. PICK s, c : s = calls[p] /\ c = [s[i] EXCEPT !.st = "done"]
  OBVIOUS
<1>3. c.resource = s[i].resource /\ c.st = "done"
  BY <1>2, CallTypes DEF Call
<1>4. calls' = [calls EXCEPT ![p] = [s EXCEPT ![i] = c]]
  BY <1>1, <1>2
<1>5. /\ calls'[p] = [s EXCEPT ![i] = c]
      /\ \A q \in Proc : q # p => calls'[q] = calls[q]
  BY <1>4 DEF BaseInv, TypeOK
<1>6. DOMAIN calls'[p] = DOMAIN s /\ \A j \in DOMAIN s : j # i => calls'[p][j] = s[j]
  BY <1>5
<1>7. calls'[p][i] = c
  BY <1>2, <1>5
<1>8. p \in Proc \ ended
  BY <1>1, OneDaemon
<1>9. CallMoves(p, i)
  BY <1>1, <1>2, <1>3, <1>5, <1>6, <1>7, <1>8 DEF CallMoves
<1> QED BY <1>1, <1>3, <1>7, <1>9 DEF CallStep, Unlocking

LEMMA CallSteps ==
  ASSUME Payload = LockMsg, MembersStay, BaseInv, TokenInv, Next
  PROVE  \E d \in Daemon : CallStep(d)
<1>1. PICK d \in Daemon : \/ Start(d) \/ Deliver(d)
                          \/ CleanShutdown(d) \/ NodeCrash(d) \/ CpgLost(d)
                          \/ \E p \in Proc : ClientStep(p, d)
  BY DEF Next
<1>2. NobodyGone
  BY DEF TokenInv
<1>3. CASE Start(d)
  BY <1>3 DEF Start, lockVars, CallStep
<1>4. CASE Deliver(d)
  <2>1. CASE IgnoreBeforeJoin(d) \/ NobodyLeaves(d) \/ DeliverJoin(d) \/ DeliverNothing(d)
    BY <2>1 DEF IgnoreBeforeJoin, NobodyLeaves, DeliverJoin, DeliverNothing, lockVars, CallStep
  <2>2. CASE process_lock(d) \/ process_unlock(d) \/ process_purge(d)
    BY <2>2 DEF process_lock, process_unlock, process_purge, clientVars, CallStep
  <2>3. CASE process_grant_local(d)
    BY <2>3, GrantMoves
  <2>4. CASE process_grant_remote(d) \/ process_grant_unknown(d)
    BY <2>4 DEF process_grant_remote, process_grant_unknown, clientVars, CallStep
  <2>5. CASE process_nak(d)
    BY <2>5, NakMoves
  <2>6. CASE MemberLeaves(d)
    BY <1>2, <2>6, NobodyGoes
  <2> QED BY <1>4, <2>1, <2>2, <2>3, <2>4, <2>5, <2>6 DEF Deliver
<1>5. ASSUME NEW p \in Proc, ClientStep(p, d) PROVE CallStep(d)
  <2>1. CASE Connect(p, d)
    BY <2>1 DEF Connect, CallStep
  <2>2. CASE \E R \in Resource : ClientLock(p, d, R)
    BY <2>2 DEF CallStep
  <2>3. CASE \E i \in DOMAIN calls[p] : ClientUnlock(p, d, i)
    BY <2>3, UnlockMoves
  <2>4. CASE ClientExit(p, d)
    BY <2>4 DEF CallStep
  <2> QED BY <1>5, <2>1, <2>2, <2>3, <2>4 DEF ClientStep
<1> QED BY <1>1, <1>2, <1>3, <1>4, <1>5, NobodyGoes

LEMMA CallBoundStep ==
  ASSUME Payload = LockMsg, MembersStay, BaseInv, TokenInv, CallBound, Next
  PROVE  CallBound'
<1>1. PICK d \in Daemon : CallStep(d)
  BY CallSteps
<1>2. CASE calls' = calls
  BY <1>2 DEF CallBound
<1>3. ASSUME NEW p \in Proc, NEW R \in Resource, ClientLock(p, d, R) PROVE CallBound'
  <2>1. PICK n : n = Len(calls[p]) + 1
    OBVIOUS
  <2> QED BY <1>3, <2>1, NewCall DEF CallBound
<1>4. ASSUME NEW p, NEW i, CallMoves(p, i) PROVE CallBound'
  BY <1>4 DEF CallBound, CallMoves
<1> QED BY <1>1, <1>2, <1>3, <1>4 DEF CallStep, ClientExit

\* What the calls and daemons do, seen as steps of LockService.
LEMMA ServiceStepRefines ==
  ASSUME Payload = LockMsg, MembersStay, BaseInv, BaseInv', TokenInv, QueueInv, QueueInv',
         TurnInv, Places, Places', MutualExclusion, MutualExclusion', CallBound, Next
  PROVE  [Service!SNext]_Service!svars
<1>1. PICK e \in Daemon : Frame(e)
  BY StepFrames
<1>2. PICK d \in Daemon : CallStep(d)
  BY CallSteps
<1>3. CASE UNCHANGED <<calls, ended>>
  BY <1>1, <1>3, NothingCalled
<1>4. CASE \E p \in Proc, R \in Resource : ClientLock(p, d, R)
  BY <1>1, <1>4, LockAsks
<1>5. CASE \E p \in Proc : ClientExit(p, d)
  BY <1>1, <1>5, ExitWithdraws
<1>6. ASSUME NEW p \in clients[d], NEW i \in DOMAIN calls[p], CallMoves(p, i),
             Granting(d, p, i) \/ Refusing(p, i) \/ Unlocking(p, i)
      PROVE  [Service!SNext]_Service!svars
  <2>0. p \in Proc \ ended /\ NodeOf[d] = ProcNode[p]
    BY OneDaemon
  <2>1. calls[p][i].resource \in Resource
    BY <2>0, CallTypes
  <2>2. CASE Unlocking(p, i)
    BY <1>1, <1>6, <2>1, <2>2, UnlockReleases DEF Unlocking
  <2>3. CASE Refusing(p, i)
    <3>1. i \in DOMAIN calls'[p] /\ calls'[p][i].st = "nak"
      BY <1>6, <2>0, <2>3 DEF CallMoves, Refusing
    <3>2. p \in Triers
      BY <2>0, <3>1 DEF QueueInv, Refusals
    <3> QED BY <1>1, <1>6, <2>3, <3>2, RefusedStutters DEF Refusing
  <2>4. CASE Granting(d, p, i)
    <3>1. PICK t \in Index, R \in Resource :
            /\ MsgAt(t, "GRANT", R) /\ pos[d] < t /\ calls[p][i].resource = R
            /\ OwnerAt(t) = Owner(NodeOf[d], p, i)
      BY <2>4 DEF Granting
    <3>2. d \in cpg /\ calls[p][i].st = "wait" /\ calls'[p][i].st = "held"
      BY <2>4 DEF Granting
    <3>3. PICK c : c = <<p, i>>
      OBVIOUS
    <3>4. ASSUME p \notin Triers PROVE Queues[R][c] = {}
      <4>1. c \in Queueing(R)
        BY <2>0, <3>1, <3>2, <3>3, <3>4, CallsSay DEF CallsAre, Queueing
      <4>2. OwnerAt(t) = Owner(ProcNode[c[1]], c[1], c[2]) /\ OwnerAt(t).node = NodeOf[d]
        BY <2>0, <3>1, <3>3 DEF Owner
      <4> QED BY <3>1, <3>2, <4>1, <4>2, NobodyAhead
    <3>5. <<p, i>> \in Service!Call
      BY <1>6, <2>0 DEF CallBound, Service!Call
    <3>6. Service!SNext
      BY <1>1, <1>6, <3>1, <3>2, <3>3, <3>4, <3>5, GrantGives
    <3> QED BY <3>6
  <2> QED BY <1>6, <2>2, <2>3, <2>4
<1> QED BY <1>2, <1>3, <1>4, <1>5, <1>6 DEF CallStep

(***************************************************************************)
(* The daemons together are one lock service with one queue for each lock: *)
(* every step of theirs is a step of LockService or leaves it unchanged.   *)
(* A call of cpg_lock is given the lock when nobody holds it and nobody    *)
(* who waits asked before (process_lock, process_grant, process_unlock),   *)
(* and a call with FL_TRY when nobody holds it.                            *)
(***************************************************************************)
THEOREM ServiceRefined ==
  ASSUME Payload = LockMsg, MembersStay
  PROVE  Spec => ImplementsService
<1>1. Spec => [](BaseInv /\ TokenInv /\ QueueInv /\ TurnInv)
  BY TurnInductive
<1>2. Spec => []MutualExclusion
  BY LockExcludes
<1>3. BaseInv /\ TokenInv /\ QueueInv => Places
  BY PlacesHold
<1>4. Init => CallBound /\ Service!SInit
  <2> SUFFICES ASSUME Init PROVE CallBound /\ Service!SInit
    OBVIOUS
  <2>1. calls = [p \in Proc |-> <<>>]
    BY DEF Init
  <2>2. \A R, st : CallsOn(R, st) = {}
    BY <2>1 DEF CallsOn
  <2>3. \A R : Queueing(R) = {}
    BY <2>2 DEF Queueing
  <2>4. CallBound
    BY <2>1 DEF CallBound
  <2>5. Service!SInit
    BY <2>2, <2>3 DEF Service!SInit, Service!NoQueue
  <2> QED BY <2>4, <2>5
<1>5. ASSUME BaseInv, TokenInv, CallBound, [Next]_vars PROVE CallBound'
  <2>1. CASE Next
    BY <1>5, <2>1, CallBoundStep
  <2>2. CASE UNCHANGED vars
    <3>1. calls' = calls
      BY <2>2 DEF vars, lockVars
    <3> QED BY <1>5, <3>1 DEF CallBound
  <2> QED BY <1>5, <2>1, <2>2
<1>6. ASSUME BaseInv, BaseInv', TokenInv, QueueInv, QueueInv', TurnInv, Places, Places',
             MutualExclusion, MutualExclusion', CallBound, [Next]_vars
      PROVE  [Service!SNext]_Service!svars
  <2>1. CASE Next
    BY <1>6, <2>1, ServiceStepRefines
  <2>2. CASE UNCHANGED vars
    <3>1. UNCHANGED <<calls, ended, log>>
      BY <2>2 DEF vars, lockVars, gvars
    <3>2. Queues' = Queues
      BY <3>1 DEF Queues, Queueing, CallsOn, AskedAt
    <3>3. Holding' = Holding
      BY <3>1 DEF Holding, CallsOn
    <3>4. UNCHANGED Service!svars
      BY <3>2, <3>3, SameService
    <3> QED BY <3>4
  <2> QED BY <1>6, <2>1, <2>2
<1> QED BY <1>1, <1>2, <1>3, <1>4, <1>5, <1>6, PTL
        DEF Spec, ImplementsService, Service!SSpec

=============================================================================
