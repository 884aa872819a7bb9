----------------------------- MODULE QueueProofs ----------------------------
(***************************************************************************)
(* Proofs about the queues of module Cpglockd: that no request is lost,    *)
(* that nothing of a process that is gone is kept, and that the daemons    *)
(* agree on the holder, for any number of nodes, daemons, processes, locks *)
(* and calls, as long as members of the group stay (MembersStay).          *)
(***************************************************************************)
EXTENDS LockProofs

-----------------------------------------------------------------------------
(***************************************************************************)
(* What every step of a daemon d or of one of its clients does, besides    *)
(* Frame and TokenRule.                                                    *)
(***************************************************************************)

\* A message that may be sent.
Says(m) ==
  /\ m.request = "LOCK" =>
       /\ m.owner.pid \in Proc \ ended' /\ m.owner.node = ProcNode[m.owner.pid]
       /\ \A a \in Index, S \in Resource : ~For(a, "LOCK", S, m.owner)
       /\ m.try => m.owner.pid \in Triers
  /\ m.request = "GRANT" =>
       /\ \E a \in Index : For(a, "LOCK", m.resource, m.owner)
       /\ \A h \in Index : ~For(h, "GRANT", m.resource, m.owner)
  /\ m.request = "NAK" => m.owner.pid \in Triers
  /\ m.request = "PURGE" => m.owner.pid \in ended'

SendRule ==
  \A k \in Index' \ Index : log'[k].request = "APP" =>
    Says(log'[k].body) /\ \A j \in Index' \ Index : j = k

\* Who goes has its requests purged.
EndRule ==
  /\ ended \subseteq ended'
  /\ \A i \in Index, R \in Resource :
       MsgAt(i, "LOCK", R) /\ OwnerAt(i).pid \in ended' \ ended =>
         \E k \in Index' \ Index : PurgeAt(k, OwnerAt(i))'

\* Only clients of d are told something.
CallRule(d) ==
  /\ \A p \in Proc \ clients[d] : calls'[p] = calls[p]
  /\ \A p \in clients[d] : p \in clients'[d] \/ p \in ended'
  /\ \A p \in clients[d] : \A i \in DOMAIN calls'[p] : calls'[p][i].st = "nak" =>
       p \in Triers \/ (i \in DOMAIN calls[p] /\ calls[p][i].st = "nak")

-----------------------------------------------------------------------------
(***************************************************************************)
(* A step of that kind keeps the invariant.                                *)
(***************************************************************************)

\* Entries there were say what they said.
LEMMA OldWords ==
  ASSUME BaseInv, BaseInv', NEW d \in Daemon, Frame(d)
  PROVE  /\ \A i \in Index : \A q, R, o : For(i, q, R, o)' <=> For(i, q, R, o)
         /\ \A i \in Index : \A o : PurgeAt(i, o)' <=> PurgeAt(i, o)
         /\ \A i \in Index' \ Index : \A j \in Index : j < i
         /\ \A i \in Index' \ Index : \A e \in Daemon : pos'[e] < i
<1>1. Index \subseteq Index' /\ \A i \in Index : log'[i] = log[i] /\ OwnerAt(i)' = OwnerAt(i)
  BY OldEntries
<1>2. \A i \in Index : \A q, R : MsgAt(i, q, R)' <=> MsgAt(i, q, R)
  BY OldEntries
<1>3. \A i \in Index : \A q, R, o : For(i, q, R, o)' <=> For(i, q, R, o)
  BY <1>1, <1>2 DEF For
<1>4. \A i \in Index : \A o : PurgeAt(i, o)' <=> PurgeAt(i, o)
  BY <1>1 DEF PurgeAt
<1>5. \A i \in Index' \ Index : \A j \in Index : j < i
  BY Positions, OldEntries
<1>6. \A i \in Index' \ Index : \A e \in Daemon : pos'[e] < i
  BY Positions, OldEntries DEF Frame
<1> QED BY <1>3, <1>4, <1>5, <1>6

\* What a new message says of itself.
LEMMA NewWords ==
  ASSUME SendRule, NEW k \in Index' \ Index, NEW q, NEW R, MsgAt(k, q, R)'
  PROVE  \E m : /\ m = log'[k].body /\ Says(m) /\ m.request = q /\ m.resource = R
                /\ OwnerAt(k)' = m.owner
                /\ \A j \in Index' \ Index : j = k
<1>1. log'[k].request = "APP" /\ log'[k].body.request = q /\ log'[k].body.resource = R
  BY DEF MsgAt
<1>2. OwnerAt(k)' = log'[k].body.owner
  BY DEF OwnerAt
<1> QED BY <1>1, <1>2 DEF SendRule

LEMMA OneLockKept ==
  ASSUME BaseInv, BaseInv', OneLock, NEW d \in Daemon, Frame(d), SendRule
  PROVE  OneLock'
<1>1. ASSUME NEW a \in Index', NEW R \in Resource, MsgAt(a, "LOCK", R)'
      PROVE  (OwnerAt(a)').node = ProcNode[(OwnerAt(a)').pid]
  <2>1. CASE a \in Index
    BY <1>1, <2>1, OldEntries DEF OneLock
  <2>2. CASE a \notin Index
    BY <1>1, <2>2, NewWords DEF Says
  <2> QED BY <2>1, <2>2
<1>2. ASSUME NEW a \in Index', NEW R \in Resource, MsgAt(a, "LOCK", R)',
             NEW b \in Index', NEW S \in Resource, MsgAt(b, "LOCK", S)',
             OwnerAt(b)' = OwnerAt(a)'
      PROVE  a = b
  <2>1. CASE a \in Index /\ b \in Index
    <3>1. MsgAt(a, "LOCK", R) /\ MsgAt(b, "LOCK", S) /\ OwnerAt(b) = OwnerAt(a)
      BY <1>2, <2>1, OldEntries
    <3> QED BY <2>1, <3>1 DEF OneLock, For
  <2>2. CASE a \notin Index /\ b \notin Index
    BY <1>2, <2>2, NewWords
  <2>3. CASE a \in Index /\ b \notin Index
    <3>1. MsgAt(a, "LOCK", R) /\ OwnerAt(a) = OwnerAt(b)'
      BY <1>2, <2>3, OldEntries
    <3> QED BY <1>2, <2>3, <3>1, NewWords DEF Says, For
  <2>4. CASE a \notin Index /\ b \in Index
    <3>1. MsgAt(b, "LOCK", S) /\ OwnerAt(b) = OwnerAt(a)'
      BY <1>2, <2>4, OldEntries
    <3> QED BY <1>2, <2>4, <3>1, NewWords DEF Says, For
  <2> QED BY <2>1, <2>2, <2>3, <2>4
<1> QED BY <1>1, <1>2 DEF OneLock, For

LEMMA OneGrantKept ==
  ASSUME BaseInv, BaseInv', OneGrant, NEW d \in Daemon, Frame(d), SendRule
  PROVE  OneGrant'
<1> SUFFICES ASSUME NEW g \in Index', NEW R \in Resource, MsgAt(g, "GRANT", R)'
             PROVE  /\ \E a \in Index' : a < g /\ For(a, "LOCK", R, OwnerAt(g))'
                    /\ \A h \in Index' : For(h, "GRANT", R, OwnerAt(g))' => h = g
  BY DEF OneGrant
<1>0. PICK o : o = OwnerAt(g)'
  OBVIOUS
<1>1. SUFFICES /\ \E a \in Index' : a < g /\ For(a, "LOCK", R, o)'
               /\ \A h \in Index' : For(h, "GRANT", R, o)' => h = g
  BY <1>0 DEF For
<1>2. CASE g \in Index
  <2>1. MsgAt(g, "GRANT", R) /\ OwnerAt(g) = o
    BY <1>0, <1>2, OldEntries
  <2>2. PICK a \in Index : a < g /\ For(a, "LOCK", R, o)
    BY <1>2, <2>1 DEF OneGrant
  <2>3. a \in Index' /\ For(a, "LOCK", R, o)'
    BY <2>2, OldWords, OldEntries
  <2>4. ASSUME NEW h \in Index', For(h, "GRANT", R, o)' PROVE h = g
    <3>1. CASE h \in Index
      BY <1>2, <2>1, <2>4, <3>1, OldWords DEF OneGrant
    <3>2. CASE h \notin Index
      <4>1. For(g, "GRANT", R, o)
        BY <2>1 DEF For
      <4>2. MsgAt(h, "GRANT", R)' /\ OwnerAt(h)' = o
        BY <2>4 DEF For
      <4> QED BY <1>2, <3>2, <4>1, <4>2, NewWords DEF Says
    <3> QED BY <3>1, <3>2
  <2> QED BY <2>2, <2>3, <2>4
<1>3. CASE g \notin Index
  <2>1. PICK m : /\ Says(m) /\ m.request = "GRANT" /\ m.resource = R /\ m.owner = o
                 /\ \A j \in Index' \ Index : j = g
    BY <1>0, <1>3, NewWords
  <2>2. PICK a \in Index : For(a, "LOCK", R, o)
    BY <2>1 DEF Says
  <2>3. a \in Index' /\ For(a, "LOCK", R, o)' /\ a < g
    BY <1>3, <2>2, OldWords, OldEntries
  <2>4. ASSUME NEW h \in Index', For(h, "GRANT", R, o)' PROVE h = g
    <3>1. CASE h \in Index
      BY <2>1, <2>4, <3>1, OldWords DEF Says
    <3> QED BY <2>1, <3>1
  <2> QED BY <2>3, <2>4
<1> QED BY <1>2, <1>3

LEMMA RefusalsKept ==
  ASSUME BaseInv, BaseInv', Refusals, NEW d \in Daemon, Frame(d), SendRule, CallRule(d)
  PROVE  Refusals'
<1>1. ASSUME NEW i \in Index', NEW R \in Resource,
             MsgAt(i, "NAK", R)' \/ (MsgAt(i, "LOCK", R)' /\ log'[i].body.try)
      PROVE  (OwnerAt(i)').pid \in Triers
  <2>1. CASE i \in Index
    BY <1>1, <2>1, OldEntries DEF Refusals
  <2>2. CASE i \notin Index
    BY <1>1, <2>2, NewWords DEF Says
  <2> QED BY <2>1, <2>2
<1>2. ASSUME NEW p \in Proc, NEW i \in DOMAIN calls'[p], calls'[p][i].st = "nak"
      PROVE  p \in Triers
  BY <1>2 DEF Refusals, CallRule
<1> QED BY <1>1, <1>2 DEF Refusals

LEMMA PurgingKept ==
  ASSUME BaseInv, BaseInv', Purging, NEW d \in Daemon, Frame(d), SendRule, EndRule
  PROVE  Purging'
<1>1. ASSUME NEW i \in Index', log'[i].request = "APP", log'[i].body.request = "PURGE"
      PROVE  (OwnerAt(i)').pid \in ended'
  <2>1. CASE i \in Index
    BY <1>1, <2>1, OldEntries DEF Purging, EndRule
  <2>2. CASE i \notin Index
    BY <1>1, <2>2 DEF SendRule, Says, OwnerAt
  <2> QED BY <2>1, <2>2
<1>2. ASSUME NEW i \in Index', NEW R \in Resource, MsgAt(i, "LOCK", R)',
             (OwnerAt(i)').pid \in ended'
      PROVE  \E k \in Index' : i < k /\ PurgeAt(k, OwnerAt(i))'
  <2>0. PICK o : o = OwnerAt(i)'
    OBVIOUS
  <2>1. i \in Index
    BY <1>2, NewWords DEF Says
  <2>2. MsgAt(i, "LOCK", R) /\ OwnerAt(i) = o
    BY <1>2, <2>0, <2>1, OldEntries
  <2>3. CASE o.pid \in ended
    <3>1. PICK k \in Index : i < k /\ PurgeAt(k, o)
      BY <2>1, <2>2, <2>3 DEF Purging
    <3>2. k \in Index' /\ PurgeAt(k, o)'
      BY <3>1, OldWords, OldEntries
    <3> QED BY <2>0, <3>1, <3>2 DEF PurgeAt
  <2>4. CASE o.pid \notin ended
    <3>1. \E k \in Index' \ Index : PurgeAt(k, OwnerAt(i))'
      BY <1>2, <2>0, <2>1, <2>2, <2>4 DEF EndRule
    <3> QED BY <2>1, <3>1, OldWords
  <2> QED BY <2>3, <2>4
<1> QED BY <1>1, <1>2 DEF Purging

LEMMA CallersKept ==
  ASSUME BaseInv, BaseInv', Callers, NEW d \in Daemon, Frame(d), EndRule, CallRule(d)
  PROVE  Callers'
<1> SUFFICES ASSUME NEW p \in Proc \ ended', calls'[p] # <<>>
             PROVE  \E e \in Daemon : p \in clients'[e]
  BY DEF Callers
<1>1. CASE p \in clients[d]
  BY <1>1 DEF CallRule
<1>2. CASE p \notin clients[d]
  <2>1. calls[p] # <<>> /\ p \notin ended
    BY <1>2 DEF CallRule, EndRule
  <2>2. PICK e \in Daemon : p \in clients[e]
    BY <2>1 DEF Callers
  <2>3. clients'[e] = clients[e]
    BY <1>2, <2>2 DEF Frame
  <2> QED BY <2>2, <2>3
<1> QED BY <1>1, <1>2

\* The daemons that stand by.
LEMMA OthersQueue ==
  ASSUME BaseInv, BaseInv', NEW d \in Daemon, Frame(d), EndRule,
         NEW e \in Daemon \ {d}, Queue(e)
  PROVE  Queue(e)'
<1> SUFFICES ASSUME NEW r \in requests'[e]
             PROVE  /\ For(r.at, "LOCK", r.resource, r.owner)' /\ r.at <= pos'[e]
                    /\ locks'[e][r.resource].state # "NONE"
                    /\ \A g \in Index' : For(g, "GRANT", r.resource, r.owner)' => pos'[e] < g
                    /\ r.owner.pid \in ended' =>
                         \E k \in Index' : pos'[e] < k /\ PurgeAt(k, r.owner)'
  BY DEF Queue
<1>0. /\ r \in requests[e] /\ pos'[e] = pos[e] /\ locks'[e] = locks[e]
  BY DEF Frame
<1>1. /\ For(r.at, "LOCK", r.resource, r.owner) /\ r.at <= pos[e]
      /\ locks[e][r.resource].state # "NONE"
      /\ \A g \in Index : For(g, "GRANT", r.resource, r.owner) => pos[e] < g
      /\ r.owner.pid \in ended => \E k \in Index : pos[e] < k /\ PurgeAt(k, r.owner)
  BY <1>0 DEF Queue
<1>2. r.at \in Index /\ MsgAt(r.at, "LOCK", r.resource) /\ OwnerAt(r.at) = r.owner
  BY <1>1 DEF For, MsgAt
<1>3. For(r.at, "LOCK", r.resource, r.owner)'
  BY <1>1, <1>2, OldWords
<1>4. ASSUME NEW g \in Index', For(g, "GRANT", r.resource, r.owner)' PROVE pos'[e] < g
  <2>1. CASE g \in Index
    BY <1>0, <1>1, <1>4, <2>1, OldWords
  <2>2. CASE g \notin Index
    BY <2>2, OldWords
  <2> QED BY <2>1, <2>2
<1>5. ASSUME r.owner.pid \in ended'
      PROVE  \E k \in Index' : pos'[e] < k /\ PurgeAt(k, r.owner)'
  <2>1. CASE r.owner.pid \in ended
    BY <1>0, <1>1, <2>1, OldWords, OldEntries
  <2>2. CASE r.owner.pid \notin ended
    <3>1. r.resource \in Resource
      <4>1. requests[e] \in SUBSET Request
        BY LocksTyped DEF BaseInv
      <4> QED BY <1>0, <4>1 DEF Request
    <3>2. PICK k \in Index' \ Index : PurgeAt(k, OwnerAt(r.at))'
      BY <1>2, <1>5, <2>2, <3>1 DEF EndRule
    <3>3. OwnerAt(r.at)' = r.owner
      BY <1>2, OldEntries
    <3>4. PurgeAt(k, r.owner)'
      BY <3>2, <3>3 DEF PurgeAt
    <3> QED BY <3>2, <3>4, OldWords
  <2> QED BY <2>1, <2>2
<1> QED BY <1>0, <1>1, <1>3, <1>4, <1>5

LEMMA OthersAnswers ==
  ASSUME BaseInv, BaseInv', TokenInv, NEW d \in Daemon, Frame(d), CallRule(d),
         NEW e \in Daemon \ {d}, Answers(e)
  PROVE  Answers(e)'
<1> SUFFICES ASSUME NEW p \in clients'[e], NEW i \in DOMAIN calls'[p]
             PROVE  /\ calls'[p][i].st = "wait" => Waits(e, p, i)'
                    /\ calls'[p][i].st \notin {"wait", "nak"} => Given(e, p, i)'
  BY DEF Answers
<1>0. /\ p \in clients[e] /\ pos'[e] = pos[e] /\ requests'[e] = requests[e] /\ p \in Proc
  BY DEF Frame, BaseInv, TypeOK
<1>1. calls'[p] = calls[p]
  BY <1>0, OneDaemon DEF CallRule
<1>2. PICK R, o : R = calls[p][i].resource /\ o = Owner(NodeOf[e], p, i)
  OBVIOUS
<1>3. ASSUME calls'[p][i].st = "wait" PROVE Waits(e, p, i)'
  <2>1. Waits(e, p, i)
    BY <1>0, <1>1, <1>3 DEF Answers
  <2>2. PICK a \in Index :
          /\ For(a, "LOCK", R, o)
          /\ a <= pos[e] => \E r \in requests[e] : r.resource = R /\ r.owner = o
    BY <1>2, <2>1 DEF Waits
  <2>3. a \in Index' /\ For(a, "LOCK", R, o)'
    BY <2>2, OldWords, OldEntries
  <2> QED BY <1>0, <1>1, <1>2, <2>2, <2>3 DEF Waits
<1>4. ASSUME calls'[p][i].st \notin {"wait", "nak"} PROVE Given(e, p, i)'
  <2>1. Given(e, p, i)
    BY <1>0, <1>1, <1>4 DEF Answers
  <2>2. PICK g \in Index : For(g, "GRANT", R, o) /\ g <= pos[e]
    BY <1>2, <2>1 DEF Given
  <2>3. g \in Index' /\ For(g, "GRANT", R, o)'
    BY <2>2, OldWords, OldEntries
  <2> QED BY <1>0, <1>1, <1>2, <2>2, <2>3 DEF Given
<1> QED BY <1>3, <1>4

\* A daemon that has just entered is of a node nobody asked from.
LEMMA Newcomer ==
  ASSUME BaseInv, BaseInv', Asked, NEW d \in Daemon, Frame(d), NEW e \in cpg' \ cpg,
         NEW i \in Index, NEW R \in Resource, MsgAt(i, "LOCK", R) \/ Token(i, R)
  PROVE  OwnerAt(i).node # NodeOf[e]
<1>1. NodeJoined(OwnerAt(i).node, i)
  BY DEF Asked
<1>2. PICK x \in cpg : NodeOf[x] = OwnerAt(i).node
  BY <1>1 DEF NodeJoined
<1>3. x \in cpg' /\ x # e
  BY <1>2 DEF Frame
<1> QED BY <1>2, <1>3 DEF BaseInv, IndInv, LogInv, Members

\* Entries a daemon has dispatched were there before.
LEMMA BehindIsOld ==
  ASSUME BaseInv, BaseInv', NEW d \in Daemon, Frame(d), NEW e \in Daemon, NEW i \in Index',
         i <= pos'[e]
  PROVE  i \in Index
<1>1. i \notin Index => pos'[e] < i
  BY OldWords
<1>2. i \in Nat /\ pos'[e] \in Nat
  BY Positions
<1> QED BY <1>1, <1>2

LEMMA OthersKnow ==
  ASSUME BaseInv, BaseInv', Asked, NEW d \in Daemon, Frame(d), NEW e \in cpg',
         \/ e \notin cpg
         \/ e # d /\ OwnKnown(e)
  PROVE  OwnKnown(e)'
<1> SUFFICES ASSUME NEW a \in Index', NEW R \in Resource, MsgAt(a, "LOCK", R)',
                    (OwnerAt(a)').node = NodeOf[e], a <= pos'[e]
             PROVE  locks'[e][R].state # "NONE"
  BY DEF OwnKnown
<1>0. e \in Daemon
  BY Positions
<1>1. a \in Index
  BY <1>0, BehindIsOld
<1>2. MsgAt(a, "LOCK", R) /\ OwnerAt(a).node = NodeOf[e]
  BY <1>1, OldEntries
<1>3. e \in cpg
  BY <1>1, <1>2, Newcomer
<1>4. e # d /\ OwnKnown(e) /\ locks'[e] = locks[e] /\ pos'[e] = pos[e]
  BY <1>0, <1>3 DEF Frame
<1> QED BY <1>1, <1>2, <1>4 DEF OwnKnown

\* The last token was the last before, if its owner has dispatched it.
LEMMA WasLast ==
  ASSUME BaseInv, BaseInv', NEW d \in Daemon, Frame(d), NEW g \in Index, NEW R,
         LastToken(g, R)'
  PROVE  LastToken(g, R) /\ \A k \in Index' \ Index : ~Token(k, R)'
<1>1. Token(g, R)' /\ \A k \in Index' : Token(k, R)' => k <= g
  BY DEF LastToken
<1>2. Token(g, R)
  BY <1>1, OldEntries
<1>3. \A k \in Index : Token(k, R) => k <= g
  BY <1>1, OldEntries
<1>4. ASSUME NEW k \in Index' \ Index, Token(k, R)' PROVE FALSE
  <2>1. k <= g /\ g < k /\ k \in Nat /\ g \in Nat
    BY <1>1, <1>4, OldWords, Positions
  <2> QED BY <2>1
<1> QED BY <1>2, <1>3, <1>4 DEF LastToken

LEMMA OthersKept ==
  ASSUME BaseInv, BaseInv', TokenInv, NEW d \in Daemon, Frame(d), CallRule(d), NEW e \in cpg',
         \/ e \notin cpg
         \/ e # d /\ Kept(e)
  PROVE  Kept(e)'
<1> SUFFICES ASSUME NEW g \in Index', NEW R \in Resource, NEW o, o = OwnerAt(g)',
                    MsgAt(g, "GRANT", R)', LastToken(g, R)', o.node = NodeOf[e], g <= pos'[e]
             PROVE  Holds(e, R, o)'
  BY DEF Kept, Holds, CallIs
<1>0. e \in Daemon /\ Asked
  BY Positions DEF TokenInv
<1>1. g \in Index
  BY <1>0, BehindIsOld
<1>2. MsgAt(g, "GRANT", R) /\ OwnerAt(g) = o
  BY <1>1, OldEntries
<1>3. e \in cpg
  <2>1. Token(g, R)
    BY <1>2 DEF Token
  <2> QED BY <1>0, <1>1, <1>2, <2>1, Newcomer
<1>4. /\ e # d /\ Kept(e) /\ locks'[e] = locks[e] /\ pos'[e] = pos[e]
      /\ clients'[e] = clients[e]
  BY <1>0, <1>3 DEF Frame
<1>5. LastToken(g, R)
  BY <1>1, WasLast
<1>6. /\ locks[e][R].state = "HELD" /\ locks[e][R].owner = o /\ o.pid \in clients[e]
      /\ CallIs(o.pid, o.tid, "held") \/ CallIs(o.pid, o.tid, "nak")
  BY <1>1, <1>2, <1>4, <1>5 DEF Kept, Holds
<1>7. o.pid \in Proc
  BY <1>0, <1>6 DEF BaseInv, TypeOK
<1>8. calls'[o.pid] = calls[o.pid]
  BY <1>0, <1>4, <1>6, <1>7, OneDaemon DEF CallRule
<1> QED BY <1>4, <1>6, <1>8 DEF Holds, CallIs

LEMMA RulesKeepQueues ==
  ASSUME BaseInv, BaseInv', TokenInv, QueueInv, NEW d \in Daemon, Frame(d),
         SendRule, EndRule, CallRule(d), Queue(d)', Answers(d)',
         d \in cpg => OwnKnown(d)' /\ Kept(d)'
  PROVE  QueueInv'
<1>1. Asked /\ OneLock /\ OneGrant /\ Refusals /\ Purging /\ Callers
  BY DEF TokenInv, QueueInv
<1>2. OneLock' /\ OneGrant' /\ Refusals' /\ Purging' /\ Callers'
  BY <1>1, OneLockKept, OneGrantKept, RefusalsKept, PurgingKept, CallersKept
<1>3. ASSUME NEW e \in Daemon PROVE Queue(e)' /\ Answers(e)'
  BY OthersQueue, OthersAnswers DEF QueueInv
<1>4. ASSUME NEW e \in cpg' PROVE OwnKnown(e)' /\ Kept(e)'
  <2>1. CASE e \notin cpg
    BY <1>1, <2>1, OthersKnow, OthersKept
  <2>2. CASE e \in cpg /\ e # d
    BY <1>1, <2>2, OthersKnow, OthersKept DEF QueueInv
  <2> QED BY <2>1, <2>2
<1> QED BY <1>2, <1>3, <1>4 DEF QueueInv

-----------------------------------------------------------------------------
(***************************************************************************)
(* What a handler of d leaves in the queue and tells the clients of d.     *)
(***************************************************************************)
Same(q, r) == q.resource = r.resource /\ q.owner = r.owner /\ q.at = r.at

Moves1(d) == pos'[d] = pos[d] \/ pos'[d] = pos[d] + 1

\* The step dispatches this entry.
Takes(d, i) == i = pos[d] + 1 /\ pos'[d] = i

QueueRule(d) ==
  \A q \in requests'[d] :
    \/ /\ \E r \in requests[d] : Same(q, r)
       /\ \A i \in Index : Takes(d, i) =>
            ~For(i, "GRANT", q.resource, q.owner) /\ ~PurgeAt(i, q.owner)
    \/ /\ Takes(d, q.at) /\ For(q.at, "LOCK", q.resource, q.owner)
       /\ locks'[d][q.resource].state # "NONE"

\* Request of owner o for R among reqs.
Among(reqs, R, o) == \E r \in reqs : r.resource = R /\ r.owner = o

AnswerRule(d) ==
  \A p \in clients'[d] : \A i \in DOMAIN calls'[p] : \A R, o :
    R = calls'[p][i].resource /\ o = Owner(NodeOf[d], p, i) =>
      /\ calls'[p][i].st = "wait" =>
           \/ Waits(d, p, i)'
           \/ /\ p \in clients[d] /\ i \in DOMAIN calls[p] /\ calls[p][i].st = "wait"
              /\ Among(requests[d], R, o) => Among(requests'[d], R, o)
              /\ \A k \in Index : Takes(d, k) /\ For(k, "LOCK", R, o) =>
                   Among(requests'[d], R, o)
      /\ calls'[p][i].st \notin {"wait", "nak"} =>
           \/ Given(d, p, i)'
           \/ p \in clients[d] /\ i \in DOMAIN calls[p] /\ calls[p][i].st \notin {"wait", "nak"}

KnownRule(d) ==
  \A i \in Index, R \in Resource :
    Takes(d, i) /\ MsgAt(i, "LOCK", R) /\ OwnerAt(i).node = NodeOf[d] =>
      locks'[d][R].state # "NONE"

KeptRule(d) ==
  \A g \in Index, R \in Resource : \A o :
    /\ For(g, "GRANT", R, o) /\ LastToken(g, R) /\ \A k \in Index' \ Index : ~Token(k, R)'
    /\ o.node = NodeOf[d] /\ g <= pos'[d]
    /\ Takes(d, g) \/ (g <= pos[d] /\ Holds(d, R, o))
    => Holds(d, R, o)'

LEMMA OwnQueue ==
  ASSUME BaseInv, BaseInv', OneLock, OneGrant, Purging, NEW d \in Daemon, Frame(d), EndRule,
         Queue(d), Moves1(d), QueueRule(d)
  PROVE  Queue(d)'
<1> SUFFICES ASSUME NEW q \in requests'[d]
             PROVE  /\ For(q.at, "LOCK", q.resource, q.owner)' /\ q.at <= pos'[d]
                    /\ locks'[d][q.resource].state # "NONE"
                    /\ \A g \in Index' : For(g, "GRANT", q.resource, q.owner)' => pos'[d] < g
                    /\ q.owner.pid \in ended' =>
                         \E k \in Index' : pos'[d] < k /\ PurgeAt(k, q.owner)'
  BY DEF Queue
<1>0. /\ pos[d] \in Nat /\ pos'[d] \in Nat /\ Index \subseteq Nat /\ pos[d] <= pos'[d]
      /\ q.resource \in Resource
  <2>1. requests' \in [Daemon -> SUBSET Request]
    BY DEF BaseInv, TypeOK
  <2> QED BY <2>1, Positions DEF Frame, Request
<1>1. /\ For(q.at, "LOCK", q.resource, q.owner) /\ q.at <= pos'[d]
      /\ locks'[d][q.resource].state # "NONE"
  <2>1. CASE \E r \in requests[d] : Same(q, r)
    <3>1. /\ For(q.at, "LOCK", q.resource, q.owner) /\ q.at <= pos[d]
          /\ locks[d][q.resource].state # "NONE"
      BY <2>1 DEF Queue, Same
    <3>2. q.at \in Nat
      BY <1>0, <3>1 DEF For, MsgAt
    <3> QED BY <1>0, <3>1, <3>2 DEF Frame
  <2>2. CASE /\ Takes(d, q.at) /\ For(q.at, "LOCK", q.resource, q.owner)
             /\ locks'[d][q.resource].state # "NONE"
    BY <1>0, <2>2 DEF Takes
  <2> QED BY <2>1, <2>2 DEF QueueRule
<1>2. q.at \in Index /\ MsgAt(q.at, "LOCK", q.resource) /\ OwnerAt(q.at) = q.owner
  BY <1>1 DEF For, MsgAt
<1>3. ASSUME NEW g \in Index, For(g, "GRANT", q.resource, q.owner) PROVE pos'[d] < g
  <2>1. ASSUME NEW r \in requests[d], Same(q, r),
               \A i \in Index : Takes(d, i) => ~For(i, "GRANT", q.resource, q.owner)
        PROVE  pos'[d] < g
    <3>1. pos[d] < g
      BY <1>3, <2>1 DEF Queue, Same
    <3>2. ~Takes(d, g)
      BY <1>3, <2>1
    <3> QED BY <1>0, <3>1, <3>2 DEF Moves1, Takes
  <2>2. CASE Takes(d, q.at)
    <3>1. MsgAt(g, "GRANT", q.resource) /\ OwnerAt(g) = q.owner
      BY <1>3 DEF For
    <3>2. PICK a \in Index : a < g /\ For(a, "LOCK", q.resource, q.owner)
      BY <1>0, <1>3, <3>1 DEF OneGrant
    <3>3. a = q.at
      BY <1>0, <1>2, <3>2 DEF OneLock
    <3> QED BY <2>2, <3>2, <3>3 DEF Takes
  <2> QED BY <2>1, <2>2 DEF QueueRule
<1>4. ASSUME NEW g \in Index', For(g, "GRANT", q.resource, q.owner)' PROVE pos'[d] < g
  <2>1. CASE g \in Index
    BY <1>3, <1>4, <2>1, OldWords
  <2>2. CASE g \notin Index
    BY <2>2, OldWords
  <2> QED BY <2>1, <2>2
<1>5. ASSUME q.owner.pid \in ended
      PROVE  \E k \in Index : pos'[d] < k /\ PurgeAt(k, q.owner)
  <2>1. ASSUME NEW r \in requests[d], Same(q, r),
               \A i \in Index : Takes(d, i) => ~PurgeAt(i, q.owner)
        PROVE  \E k \in Index : pos'[d] < k /\ PurgeAt(k, q.owner)
    <3>1. PICK k \in Index : pos[d] < k /\ PurgeAt(k, q.owner)
      BY <1>5, <2>1 DEF Queue, Same
    <3>2. ~Takes(d, k)
      BY <2>1, <3>1
    <3>3. pos'[d] < k
      BY <1>0, <3>1, <3>2 DEF Moves1, Takes
    <3> QED BY <3>1, <3>3
  <2>2. CASE Takes(d, q.at)
    BY <1>0, <1>2, <1>5, <2>2 DEF Purging, Takes
  <2> QED BY <2>1, <2>2 DEF QueueRule
<1>6. ASSUME q.owner.pid \in ended'
      PROVE  \E k \in Index' : pos'[d] < k /\ PurgeAt(k, q.owner)'
  <2>1. CASE q.owner.pid \in ended
    BY <1>5, <2>1, OldWords, OldEntries
  <2>2. CASE q.owner.pid \notin ended
    <3>1. PICK k \in Index' \ Index : PurgeAt(k, OwnerAt(q.at))'
      BY <1>0, <1>2, <1>6, <2>2 DEF EndRule
    <3>2. OwnerAt(q.at)' = q.owner
      BY <1>2, OldEntries
    <3>3. PurgeAt(k, q.owner)'
      BY <3>1, <3>2 DEF PurgeAt
    <3> QED BY <3>1, <3>3, OldWords
  <2> QED BY <2>1, <2>2
<1>7. For(q.at, "LOCK", q.resource, q.owner)'
  BY <1>1, <1>2, OldWords
<1> QED BY <1>1, <1>4, <1>6, <1>7

LEMMA OwnAnswers ==
  ASSUME BaseInv, BaseInv', NEW d \in Daemon, Frame(d), Answers(d), Moves1(d), AnswerRule(d)
  PROVE  Answers(d)'
<1> SUFFICES ASSUME NEW p \in clients'[d], NEW i \in DOMAIN calls'[p]
             PROVE  /\ calls'[p][i].st = "wait" => Waits(d, p, i)'
                    /\ calls'[p][i].st \notin {"wait", "nak"} => Given(d, p, i)'
  BY DEF Answers
<1>0. /\ pos[d] \in Nat /\ pos'[d] \in Nat /\ Index \subseteq Nat /\ pos[d] <= pos'[d]
      /\ p \in Proc
  BY Positions DEF Frame, BaseInv, TypeOK
<1>1. PICK R, o : R = calls'[p][i].resource /\ o = Owner(NodeOf[d], p, i)
  OBVIOUS
<1>2. i \in DOMAIN calls[p] => calls[p][i].resource = R
  BY <1>0, <1>1 DEF Frame
<1>3. ASSUME calls'[p][i].st = "wait" PROVE Waits(d, p, i)'
  <2> SUFFICES ASSUME p \in clients[d], i \in DOMAIN calls[p], calls[p][i].st = "wait",
                      Among(requests[d], R, o) => Among(requests'[d], R, o),
                      \A k \in Index : Takes(d, k) /\ For(k, "LOCK", R, o) =>
                        Among(requests'[d], R, o)
               PROVE  Waits(d, p, i)'
    BY <1>1, <1>3 DEF AnswerRule
  <2>1. Waits(d, p, i)
    BY DEF Answers
  <2>2. PICK a \in Index :
          For(a, "LOCK", R, o) /\ (a <= pos[d] => Among(requests[d], R, o))
    BY <1>1, <1>2, <2>1 DEF Waits, Among
  <2>3. a \in Index' /\ For(a, "LOCK", R, o)'
    BY <2>2, OldWords, OldEntries
  <2>4. ASSUME a <= pos'[d] PROVE Among(requests'[d], R, o)
    <3>1. CASE a <= pos[d]
      BY <2>2, <3>1
    <3>2. CASE ~(a <= pos[d])
      <4>1. Takes(d, a)
        BY <1>0, <2>2, <2>4, <3>2 DEF Moves1, Takes
      <4> QED BY <2>2, <4>1
    <3> QED BY <3>1, <3>2
  <2> QED BY <1>1, <2>3, <2>4 DEF Waits, Among
<1>4. ASSUME calls'[p][i].st \notin {"wait", "nak"} PROVE Given(d, p, i)'
  <2> SUFFICES ASSUME p \in clients[d], i \in DOMAIN calls[p],
                      calls[p][i].st \notin {"wait", "nak"}
               PROVE  Given(d, p, i)'
    BY <1>1, <1>4 DEF AnswerRule
  <2>1. Given(d, p, i)
    BY DEF Answers
  <2>2. PICK g \in Index : For(g, "GRANT", R, o) /\ g <= pos[d]
    BY <1>1, <1>2, <2>1 DEF Given
  <2>3. g \in Index' /\ For(g, "GRANT", R, o)' /\ g <= pos'[d]
    BY <1>0, <2>2, OldWords, OldEntries
  <2> QED BY <1>1, <2>3 DEF Given
<1> QED BY <1>3, <1>4

LEMMA OwnRecords ==
  ASSUME BaseInv, BaseInv', NEW d \in Daemon, Frame(d), OwnKnown(d), Kept(d), Moves1(d),
         KnownRule(d), KeptRule(d)
  PROVE  OwnKnown(d)' /\ Kept(d)'
<1>0. /\ pos[d] \in Nat /\ pos'[d] \in Nat /\ Index \subseteq Nat /\ pos[d] <= pos'[d]
  BY Positions DEF Frame
<1>1. ASSUME NEW a \in Index', a <= pos'[d]
      PROVE  a \in Index /\ (a <= pos[d] \/ Takes(d, a))
  <2>1. a \in Index
    BY <1>1, BehindIsOld
  <2>2. a \in Nat
    BY <1>0, <2>1
  <2>3. ~(a <= pos[d]) => a = pos[d] + 1 /\ pos'[d] = a
    BY <1>0, <1>1, <2>2 DEF Moves1
  <2> QED BY <2>1, <2>3 DEF Takes
<1>2. ASSUME NEW a \in Index', NEW R \in Resource, MsgAt(a, "LOCK", R)',
             (OwnerAt(a)').node = NodeOf[d], a <= pos'[d]
      PROVE  locks'[d][R].state # "NONE"
  <2>1. a \in Index /\ (a <= pos[d] \/ Takes(d, a))
    BY <1>1, <1>2
  <2>2. MsgAt(a, "LOCK", R) /\ OwnerAt(a).node = NodeOf[d]
    BY <1>2, <2>1, OldEntries
  <2>3. a <= pos[d] => locks'[d][R].state # "NONE"
    BY <2>1, <2>2 DEF OwnKnown, Frame
  <2> QED BY <2>1, <2>2, <2>3 DEF KnownRule
<1>3. ASSUME NEW g \in Index', NEW R \in Resource, NEW o, o = OwnerAt(g)',
             MsgAt(g, "GRANT", R)', LastToken(g, R)', o.node = NodeOf[d], g <= pos'[d]
      PROVE  Holds(d, R, o)'
  <2>1. g \in Index /\ (g <= pos[d] \/ Takes(d, g))
    BY <1>1, <1>3
  <2>2. MsgAt(g, "GRANT", R) /\ OwnerAt(g) = o
    BY <1>3, <2>1, OldEntries
  <2>3. LastToken(g, R) /\ \A k \in Index' \ Index : ~Token(k, R)'
    BY <1>3, <2>1, WasLast
  <2>4. g <= pos[d] => Holds(d, R, o)
    BY <1>3, <2>1, <2>2, <2>3 DEF Kept
  <2>5. For(g, "GRANT", R, o)
    BY <2>2 DEF For
  <2> QED BY <1>3, <2>1, <2>3, <2>4, <2>5 DEF KeptRule
<1>4. Kept(d)'
  BY <1>3 DEF Kept, Holds, CallIs
<1> QED BY <1>2, <1>4 DEF OwnKnown

LEMMA HandlerKeepsQueues ==
  ASSUME BaseInv, BaseInv', TokenInv, QueueInv, NEW d \in Daemon, Frame(d),
         SendRule, EndRule, CallRule(d), Moves1(d),
         QueueRule(d), AnswerRule(d), KnownRule(d), KeptRule(d)
  PROVE  QueueInv'
<1>1. /\ OneLock /\ OneGrant /\ Purging /\ Queue(d) /\ Answers(d)
      /\ d \in cpg => OwnKnown(d) /\ Kept(d)
  BY DEF QueueInv
<1>2. Queue(d)' /\ Answers(d)'
  BY <1>1, OwnQueue, OwnAnswers
<1>3. d \in cpg => OwnKnown(d)' /\ Kept(d)'
  BY <1>1, OwnRecords
<1> QED BY <1>2, <1>3, RulesKeepQueues

-----------------------------------------------------------------------------
(***************************************************************************)
(* The steps of the membership layer.                                      *)
(***************************************************************************)

\* A daemon has dispatched its own JOIN before what its clients ask for.
LEMMA OwnJoinFirst ==
  ASSUME BaseInv, Asked, NEW d \in cpg, NEW i \in Index, NEW R \in Resource,
         MsgAt(i, "LOCK", R) \/ Token(i, R), OwnerAt(i).node = NodeOf[d], i <= pos[d] + 1
  PROVE  joined[d]
<1>0. d \in Daemon /\ View(d) /\ LogInv /\ pos[d] \in Nat /\ Index \subseteq Nat
  BY LenProperties DEF BaseInv, TypeOK, GTypeOK, IndInv, ViewInv, Index
<1>1. PICK e \in cpg, j \in Index : NodeOf[e] = NodeOf[d] /\ JoinAt(j, e) /\ j <= i
  BY DEF Asked, NodeJoined
<1>2. e = d
  BY <1>0, <1>1 DEF LogInv, Members
<1>3. j # i
  BY <1>1 DEF JoinAt, Token, MsgAt
<1>4. j <= pos[d]
  BY <1>0, <1>1, <1>3
<1>5. PICK k \in Index : EnterAt(k, d)
  BY <1>0 DEF LogInv, Known
<1>6. k < j
  BY <1>0, <1>1, <1>2, <1>5 DEF LogInv, Joins
<1>7. ASSUME total_members[d] = 0 PROVE FALSE
  <2>1. pos[d] + 1 = k
    BY <1>0, <1>5, <1>7 DEF View, Progress
  <2>2. j \in Nat /\ k \in Nat
    BY <1>0
  <2> QED BY <1>0, <1>4, <1>6, <2>1, <2>2
<1> QED BY <1>0, <1>1, <1>2, <1>4, <1>7 DEF View, Complete, Sound

\* Nothing is queued before that.
LEMMA NothingQueued ==
  ASSUME BaseInv, TokenInv, NEW d \in Daemon, Queue(d), ~joined[d]
  PROVE  requests[d] = {}
<1> SUFFICES ASSUME NEW r \in requests[d] PROVE FALSE
  OBVIOUS
<1>1. requests[d] \in SUBSET Request
  BY LocksTyped DEF BaseInv
<1>2. r.resource \in Resource
  BY <1>1 DEF Request
<1>3. locks[d][r.resource].state = "NONE"
  BY <1>2 DEF TokenInv, Records, Record
<1> QED BY <1>3 DEF Queue

LEMMA GroupStepQueues ==
  ASSUME BaseInv, BaseInv', TokenInv, QueueInv, NEW d \in Daemon, GroupStep(d)
  PROVE  QueueInv'
<1>0. UNCHANGED <<locks, requests, local_lockid, clients, calls, ended>> /\ Frame(d)
  BY GroupStepKeeps DEF GroupStep, lockVars
<1>1. SendRule
  BY DEF GroupStep, SendRule
<1>2. EndRule /\ CallRule(d)
  BY <1>0 DEF EndRule, CallRule
<1>3. Queue(d) /\ Asked
  BY DEF QueueInv, TokenInv
<1>4. CASE d \notin cpg
  <2>1. requests'[d] = {}
    BY <1>0, <1>3, <1>4, NothingQueued, JoinedIsMember
  <2>2. clients'[d] = {}
    BY <1>0, <1>4, OneDaemon
  <2> QED BY <1>0, <1>1, <1>2, <1>4, <2>1, <2>2, RulesKeepQueues DEF Queue, Answers
<1>5. CASE d \in cpg
  <2>1. Moves1(d)
    BY <1>5 DEF GroupStep, Moves1
  <2>2. ASSUME NEW i \in Index, Takes(d, i)
        PROVE  /\ log[i].request # "APP" \/ (~joined[d] /\ log[i].body.request # "PURGE")
               /\ i <= pos[d] + 1
    <3>1. pos[d] \in Nat /\ pos'[d] = pos[d] + 1 /\ i = pos[d] + 1
      BY <2>2, Positions DEF Takes
    <3>2. pos'[d] # pos[d] /\ i <= pos[d] + 1
      BY <3>1
    <3> QED BY <1>5, <3>1, <3>2 DEF GroupStep, NextEntry, Body
  <2>3. QueueRule(d)
    <3> SUFFICES ASSUME NEW q \in requests[d]
                 PROVE  \A i \in Index : Takes(d, i) =>
                          ~For(i, "GRANT", q.resource, q.owner) /\ ~PurgeAt(i, q.owner)
      BY <1>0 DEF QueueRule, Same
    <3>1. joined[d]
      BY <1>3, NothingQueued
    <3> QED BY <2>2, <3>1 DEF For, MsgAt, PurgeAt
  <2>4. ASSUME NEW i \in Index, NEW R \in Resource, Takes(d, i), MsgAt(i, "LOCK", R)
        PROVE  OwnerAt(i).node # NodeOf[d]
    BY <1>3, <1>5, <2>2, <2>4, OwnJoinFirst DEF MsgAt
  <2>5. KnownRule(d)
    BY <2>4 DEF KnownRule
  <2>6. AnswerRule(d)
    <3> SUFFICES ASSUME NEW p \in clients[d], NEW i \in DOMAIN calls[p], NEW R, NEW o,
                        R = calls[p][i].resource, o = Owner(NodeOf[d], p, i),
                        NEW k \in Index, Takes(d, k), For(k, "LOCK", R, o)
                 PROVE  FALSE
      BY <1>0 DEF AnswerRule
    <3>1. R \in Resource
      BY CallTypes, OneDaemon
    <3>2. OwnerAt(k).node = NodeOf[d]
      BY DEF For, Owner
    <3> QED BY <2>4, <3>1, <3>2 DEF For
  <2>7. KeptRule(d)
    <3> SUFFICES ASSUME NEW g \in Index, NEW R \in Resource, NEW o, For(g, "GRANT", R, o),
                        o.node = NodeOf[d], Takes(d, g)
                 PROVE  FALSE
      BY <1>0 DEF KeptRule, Holds, CallIs
    <3>1. Token(g, R) /\ OwnerAt(g).node = NodeOf[d]
      BY DEF For, Token
    <3>2. joined[d]
      BY <1>3, <1>5, <2>2, <3>1, OwnJoinFirst
    <3> QED BY <2>2, <3>2 DEF For, MsgAt
  <2> QED BY <1>0, <1>1, <1>2, <2>1, <2>3, <2>5, <2>6, <2>7, HandlerKeepsQueues
<1> QED BY <1>4, <1>5

-----------------------------------------------------------------------------
(***************************************************************************)
(* The handlers.                                                           *)
(***************************************************************************)

LEMMA OneMore ==
  ASSUME NEW S, NEW s \in Seq(S), NEW y, NEW t, t = s \o <<y>>
  PROVE  Len(t) = Len(s) + 1 /\ t[Len(s) + 1] = y
  OBVIOUS

\* The one message a handler multicasts is the new entry.
LEMMA OutEntry ==
  ASSUME BaseInv, NEW d \in Daemon, NEW m, log' = Mcast(d, <<m>>)
  PROVE  /\ Len(log) + 1 \in Index' \ Index
         /\ log'[Len(log) + 1] = App(d, m)
         /\ \A k \in Index' \ Index : k = Len(log) + 1
<1>0. log \in Seq(Entry) /\ Len(log) \in Nat
  BY LenProperties DEF BaseInv, TypeOK, GTypeOK
<1>1. Len(log)' = Len(log) + 1 /\ log'[Len(log) + 1] = App(d, m)
  <2>1. PICK x : x = [i \in 1..Len(<<m>>) |-> App(d, <<m>>[i])]
    OBVIOUS
  <2>2. x = << App(d, m) >>
    BY <2>1
  <2>3. log' = log \o << App(d, m) >>
    BY <2>1, <2>2 DEF Mcast
  <2> QED BY <1>0, <2>3, OneMore
<1> QED BY <1>0, <1>1 DEF Index

LEMMA SaysKeepRule ==
  ASSUME BaseInv, NEW d \in Daemon, NEW out, AtMostOne(out), log' = Mcast(d, out),
         \A m : out = <<m>> => Says(m)
  PROVE  SendRule
<1>1. CASE out = <<>>
  <2>1. log' = log
    BY <1>1, McastNothing DEF BaseInv, IndInv
  <2> QED BY <2>1 DEF SendRule, Index
<1>2. ASSUME NEW m, out = <<m>> PROVE SendRule
  <2>1. log'[Len(log) + 1] = App(d, m) /\ \A k \in Index' \ Index : k = Len(log) + 1
    BY <1>2, OutEntry
  <2>2. App(d, m).body = m
    BY DEF App
  <2> QED BY <1>2, <2>1, <2>2 DEF SendRule
<1> QED BY <1>1, <1>2 DEF AtMostOne

\* A token that is sent is one of the new entries.
LEMMA TokenSent ==
  ASSUME BaseInv, NEW d \in Daemon, NEW m, log' = Mcast(d, <<m>>),
         m.request \in {"GRANT", "UNLOCK"}
  PROVE  \E k \in Index' \ Index : Token(k, m.resource)'
<1>1. Len(log) + 1 \in Index' \ Index /\ log'[Len(log) + 1] = App(d, m)
  BY OutEntry
<1> QED BY <1>1 DEF Token, MsgAt, App

\* Marking a request leaves it where it is.
LEMMA MarkedSame ==
  ASSUME NEW reqs \in SUBSET Request, NEW Rs
  PROVE  /\ \A q \in GrantMarked(reqs, Rs) : \E r \in reqs : Same(q, r)
         /\ \A r \in reqs : \E q \in GrantMarked(reqs, Rs) : Same(q, r)
         /\ \A R, o : Among(GrantMarked(reqs, Rs), R, o) <=> Among(reqs, R, o)
<1>1. \A r \in reqs : Same([r EXCEPT !.state = "HELD"], r) /\ Same(r, r)
  BY DEF Request, Same
<1>2. \A q \in GrantMarked(reqs, Rs) : \E r \in reqs : Same(q, r)
  BY <1>1 DEF GrantMarked
<1>3. \A r \in reqs : \E q \in GrantMarked(reqs, Rs) : Same(q, r)
  BY <1>1 DEF GrantMarked
<1>4. \A R, o : Among(GrantMarked(reqs, Rs), R, o) <=> Among(reqs, R, o)
  BY <1>2, <1>3 DEF Among, Same
<1> QED BY <1>2, <1>3, <1>4

\* The GRANT of a lock goes to a queued request, which no GRANT was sent
\* for, if its sender has dispatched every token of the lock.
LEMMA GrantSays ==
  ASSUME BaseInv, NEW d \in Daemon, NEW R \in Resource, NEW r, NEW m, NEW n \in Nat,
         For(r.at, "LOCK", R, r.owner), m.request = "GRANT", m.resource = R,
         m.owner = r.owner, \A g \in Index : For(g, "GRANT", R, r.owner) => n < g,
         \A k \in Index : Token(k, R) => k <= n
  PROVE  Says(m)
<1>1. r.at \in Index
  BY DEF For, MsgAt
<1>2. ASSUME NEW h \in Index, For(h, "GRANT", R, r.owner) PROVE FALSE
  <2>1. Token(h, R)
    BY <1>2 DEF For, Token
  <2>2. n < h /\ h <= n /\ h \in Nat
    BY <1>2, <2>1 DEF Index
  <2> QED BY <2>2
<1> QED BY <1>1, <1>2 DEF Says

\* A handler that writes one record and the queue, and tells no client.
Plain(d, R, l, Q, out) ==
  /\ DeliverApp(d, out) /\ AtMostOne(out)
  /\ SetLock(d, R, l) /\ SetRequests(d, Q)
  /\ l.state = "NONE" => locks[d][R].state = "NONE"
  /\ UNCHANGED <<local_lockid, clientVars>>

LEMMA PlainFrame ==
  ASSUME BaseInv, BaseInv', NEW d \in Daemon, NEW R \in Resource, NEW l, NEW Q, NEW out,
         Plain(d, R, l, Q, out)
  PROVE  /\ Frame(d) /\ EndRule /\ CallRule(d) /\ Moves1(d)
         /\ pos'[d] = pos[d] + 1 /\ locks'[d][R] = l /\ requests'[d] = Q
         /\ \A S \in Resource \ {R} : locks'[d][S] = locks[d][S]
         /\ UNCHANGED <<clients, calls, ended>> /\ log' = Mcast(d, out)
<1>0. /\ locks \in [Daemon -> [Resource -> LockRecord]]
      /\ requests \in [Daemon -> SUBSET Request]
  BY DEF BaseInv, TypeOK
<1>1. /\ \A e \in Daemon \ {d} : locks'[e] = locks[e] /\ requests'[e] = requests[e]
      /\ locks'[d][R] = l /\ requests'[d] = Q
      /\ \A S \in Resource \ {R} : locks'[d][S] = locks[d][S]
  BY <1>0 DEF Plain, SetLock, SetRequests
<1>2. \A S \in Resource : locks[d][S].state # "NONE" => locks'[d][S].state # "NONE"
  BY <1>1 DEF Plain
<1>3. DeliverApp(d, out) /\ AtMostOne(out) /\ UNCHANGED <<local_lockid, clients, calls, ended>>
  BY DEF Plain, clientVars
<1>4. Frame(d)
  BY <1>1, <1>2, <1>3, HandlerFrame
<1>5. pos'[d] = pos[d] + 1 /\ log' = Mcast(d, out)
  BY <1>3, HandlerMovesOn
<1>6. EndRule /\ CallRule(d) /\ Moves1(d)
  BY <1>3, <1>5 DEF EndRule, CallRule, Moves1
<1> QED BY <1>1, <1>3, <1>4, <1>5, <1>6

LEMMA PlainQueues ==
  ASSUME BaseInv, BaseInv', TokenInv, QueueInv, NEW d \in Daemon, NEW R \in Resource,
         NEW l, NEW Q, NEW out, Plain(d, R, l, Q, out),
         \A m : out = <<m>> => Says(m),
         QueueRule(d),
         \A S, o : o.node = NodeOf[d] /\ o.pid \in clients[d] /\ Among(requests[d], S, o) =>
           Among(Q, S, o),
         \A S, o : For(pos[d] + 1, "LOCK", S, o) =>
           Among(Q, S, o) /\ locks'[d][S].state # "NONE",
         \A S, o : For(pos[d] + 1, "GRANT", S, o) => o.node # NodeOf[d],
         \A g \in Index : \A o :
           /\ For(g, "GRANT", R, o) /\ LastToken(g, R) /\ g <= pos[d]
           /\ Holds(d, R, o) /\ o.node = NodeOf[d]
           => l = locks[d][R]
  PROVE  QueueInv'
<1>0. /\ Frame(d) /\ EndRule /\ CallRule(d) /\ Moves1(d)
      /\ pos'[d] = pos[d] + 1 /\ locks'[d][R] = l /\ requests'[d] = Q
      /\ \A S \in Resource \ {R} : locks'[d][S] = locks[d][S]
      /\ UNCHANGED <<clients, calls, ended>> /\ log' = Mcast(d, out)
  BY PlainFrame
<1>1. SendRule
  BY <1>0, SaysKeepRule DEF Plain
<1>2. AnswerRule(d)
  <2> SUFFICES ASSUME NEW p \in clients[d], NEW i \in DOMAIN calls[p], NEW S, NEW o,
                      S = calls[p][i].resource, o = Owner(NodeOf[d], p, i)
               PROVE  /\ Among(requests[d], S, o) => Among(Q, S, o)
                      /\ \A k \in Index : Takes(d, k) /\ For(k, "LOCK", S, o) => Among(Q, S, o)
    BY <1>0 DEF AnswerRule
  <2>1. o.node = NodeOf[d] /\ o.pid = p
    BY DEF Owner
  <2> QED BY <2>1 DEF Takes
<1>3. KnownRule(d)
  BY <1>0 DEF KnownRule, Takes, For
<1>4. KeptRule(d)
  <2> SUFFICES ASSUME NEW g \in Index, NEW S \in Resource, NEW o, For(g, "GRANT", S, o),
                      LastToken(g, S), o.node = NodeOf[d],
                      Takes(d, g) \/ (g <= pos[d] /\ Holds(d, S, o))
               PROVE  Holds(d, S, o)'
    BY DEF KeptRule
  <2>1. ~Takes(d, g)
    BY DEF Takes
  <2>2. locks'[d][S] = locks[d][S]
    BY <1>0, <2>1
  <2> QED BY <1>0, <2>1, <2>2 DEF Holds, CallIs
<1> QED BY <1>0, <1>1, <1>2, <1>3, <1>4, HandlerKeepsQueues

\* The entry a handler is called for, and no other, is dispatched.
LEMMA Taken ==
  ASSUME BaseInv, NEW d \in Daemon, NEW q, Delivers(d, q)
  PROVE  \A r, S, o : For(pos[d] + 1, r, S, o) =>
           r = q /\ S = Body(d).resource /\ o = Body(d).owner
<1>1. log[pos[d] + 1] = NextEntry(d)
  BY DEF NextEntry
<1> QED BY <1>1 DEF Delivers, Body, For, MsgAt, OwnerAt

LEMMA TakenPurge ==
  ASSUME BaseInv, NEW d \in Daemon, NEW q, Delivers(d, q)
  PROVE  \A o : PurgeAt(pos[d] + 1, o) =>
           q = "PURGE" /\ o.node = Body(d).owner.node /\ o.pid = Body(d).owner.pid
<1>1. log[pos[d] + 1] = NextEntry(d)
  BY DEF NextEntry
<1> QED BY <1>1 DEF Delivers, Body, PurgeAt

\* A queued request was asked for, and is still to be granted.
LEMMA QueuedSays ==
  ASSUME BaseInv, NEW d \in Daemon, Queue(d), NEW r \in requests[d]
  PROVE  /\ For(r.at, "LOCK", r.resource, r.owner) /\ r.resource \in Resource
         /\ \A g \in Index : For(g, "GRANT", r.resource, r.owner) => pos[d] < g
<1>1. requests[d] \in SUBSET Request
  BY LocksTyped DEF BaseInv
<1> QED BY <1>1 DEF Queue, Request

LEMMA LockQueues ==
  ASSUME Payload = LockMsg, BaseInv, BaseInv', TokenInv, QueueInv, NEW d \in Daemon,
         process_lock(d)
  PROVE  QueueInv'
<1>1. PICK m, R, l : m = Body(d) /\ R = m.resource /\ l = locks[d][R]
  OBVIOUS
<1>2. Delivers(d, "LOCK") /\ joined[d]
  BY DEF process_lock
<1>3. /\ pos[d] + 1 \in Index /\ pos[d] \in Nat /\ OwnerAt(pos[d] + 1) = m.owner
      /\ MsgAt(pos[d] + 1, "LOCK", R) /\ log[pos[d] + 1].body = m /\ m.request = "LOCK"
  BY <1>1, <1>2, Dispatching DEF Body, NextEntry
<1>4. R \in Resource /\ m.owner \in Owners
  BY <1>1, <1>2, <1>3, BodyTypes DEF BaseInv, TypeOK, Delivers
<1>5. l \in LockRecord /\ requests[d] \in SUBSET Request
  BY <1>1, <1>4, LocksTyped DEF BaseInv
<1>6. PICK new : new = Queued(m, pos[d] + 1)
  OBVIOUS
<1>7. /\ new.resource = R /\ new.owner = m.owner /\ new.at = pos[d] + 1
      /\ new \in Request /\ For(new.at, "LOCK", R, new.owner)
  BY <1>1, <1>3, <1>4, <1>6 DEF Queued, Request, For
<1>8. PICK queue : queue = requests[d] \cup {new}
  OBVIOUS
<1>9. /\ OneLock /\ OneGrant /\ Refusals /\ Queue(d)
      /\ Record(d, R) /\ FirstKnows /\ NobodyGone
  BY <1>4 DEF QueueInv, TokenInv, Records
<1>10. \A r \in queue : /\ For(r.at, "LOCK", r.resource, r.owner)
                        /\ \A g \in Index : For(g, "GRANT", r.resource, r.owner) => pos[d] < g
  <2>1. ASSUME NEW g \in Index, For(g, "GRANT", R, new.owner) PROVE pos[d] < g
    <3>1. PICK a \in Index : a < g /\ For(a, "LOCK", R, new.owner)
      BY <1>4, <1>9, <2>1 DEF OneGrant, For
    <3>2. a = pos[d] + 1
      BY <1>3, <1>4, <1>7, <1>9, <3>1 DEF OneLock
    <3>3. g \in Nat
      BY Positions
    <3> QED BY <1>3, <3>1, <3>2, <3>3
  <2> QED BY <1>7, <1>8, <1>9, <2>1, QueuedSays
<1> DEFINE fresh == l.state = "NONE"
           mine  == ~fresh /\ l.owner.node = NodeOf[d]
           grant == (mine /\ l.state = "FREE") \/ (fresh /\ IAmOldest(d))
<1>11. PICK L, Q, out :
         /\ SetLock(d, R, L) /\ SetRequests(d, Q) /\ DeliverApp(d, out)
         /\ UNCHANGED <<local_lockid, clientVars>>
         /\ \/ /\ grant /\ L = [l EXCEPT !.state = "PENDING"]
               /\ Q = GrantMarked(queue, {R}) /\ out = GrantOr(queue, R, <<>>)
            \/ /\ ~grant /\ L = (IF fresh THEN [l EXCEPT !.state = "FREE"] ELSE l)
               /\ Q = queue /\ out = (IF mine /\ m.try THEN send_nak(m) ELSE <<>>)
  BY <1>1, <1>6, <1>8 DEF process_lock, GrantStarted
<1>12. L.state # "NONE" /\ (l.state = "HELD" => L = l)
  BY <1>5, <1>11 DEF LockRecord
<1>13. /\ \A q \in Q : \E r \in queue : Same(q, r)
       /\ \A S, o : Among(queue, S, o) => Among(Q, S, o)
  <2>1. queue \in SUBSET Request /\ (Q = queue \/ Q = GrantMarked(queue, {R}))
    BY <1>5, <1>7, <1>8, <1>11
  <2>2. CASE Q = queue
    BY <2>2 DEF Same
  <2>3. CASE Q = GrantMarked(queue, {R})
    BY <2>1, <2>3, MarkedSame
  <2> QED BY <2>1, <2>2, <2>3
<1>14. grant => \A k \in Index : Token(k, R) => k <= pos[d]
  <2>1. CASE mine /\ l.state = "FREE"
    <3>1. PICK u \in Index : LastToken(u, R) /\ u <= pos[d]
      BY <1>1, <1>9, <2>1 DEF Record
    <3>2. \A k \in Index : k \in Nat
      BY Positions
    <3> QED BY <1>3, <3>1, <3>2 DEF LastToken
  <2>2. CASE fresh /\ IAmOldest(d)
    <3>1. FirstJoiner(d)
      BY <1>2, <1>9, <2>2, OldestIsFirst
    <3> QED BY <1>1, <1>4, <1>9, <2>2, <3>1 DEF FirstKnows
  <2> QED BY <2>1, <2>2
<1>15. AtMostOne(out) /\ \A x : out = <<x>> => Says(x)
  <2>0. AtMostOne(<<>>) /\ \A x : <<>> # <<x>>
    BY DEF AtMostOne
  <2>1. CASE grant
    <3>1. out = GrantOr(queue, R, <<>>)
      BY <1>11, <2>1
    <3>2. /\ AtMostOne(out)
          /\ \A x : out = <<x>> => /\ x.request = "GRANT" /\ x.resource = R
                                   /\ \E r \in queue : r.resource = R /\ r.owner = x.owner
      BY <2>0, <3>1, GrantOrSays
    <3>3. ASSUME NEW x, out = <<x>> PROVE Says(x)
      <4>1. PICK r \in queue : r.resource = R /\ r.owner = x.owner
        BY <3>2, <3>3
      <4>2. x.request = "GRANT" /\ x.resource = R
        BY <3>2, <3>3
      <4>3. /\ For(r.at, "LOCK", R, r.owner)
            /\ \A g \in Index : For(g, "GRANT", R, r.owner) => pos[d] < g
        BY <1>10, <4>1
      <4> QED BY <1>3, <1>4, <1>14, <2>1, <4>1, <4>2, <4>3, GrantSays
    <3> QED BY <3>2, <3>3
  <2>2. CASE ~grant /\ mine /\ m.try
    <3>1. out = << Msg("NAK", m.resource, m.owner, m.try) >>
      BY <1>11, <2>2 DEF send_nak
    <3>2. m.owner.pid \in Triers
      BY <1>3, <1>4, <1>9, <2>2 DEF Refusals
    <3>3. Says(Msg("NAK", m.resource, m.owner, m.try))
      BY <3>2 DEF Says, Msg
    <3> QED BY <3>1, <3>3, OneEqual DEF AtMostOne
  <2>3. CASE ~grant /\ ~(mine /\ m.try)
    BY <1>11, <2>0, <2>3
  <2> QED BY <2>1, <2>2, <2>3
<1>16. Plain(d, R, L, Q, out)
  BY <1>11, <1>12, <1>15 DEF Plain
<1>17. locks'[d][R] = L /\ requests'[d] = Q /\ pos'[d] = pos[d] + 1
  BY <1>4, <1>16, PlainFrame
<1>18. QueueRule(d)
  <2> SUFFICES ASSUME NEW q \in Q
               PROVE  \/ /\ \E r \in requests[d] : Same(q, r)
                         /\ \A i \in Index : Takes(d, i) =>
                              ~For(i, "GRANT", q.resource, q.owner) /\ ~PurgeAt(i, q.owner)
                      \/ /\ Takes(d, q.at) /\ For(q.at, "LOCK", q.resource, q.owner)
                         /\ locks'[d][q.resource].state # "NONE"
    BY <1>17 DEF QueueRule
  <2>1. \A i \in Index : Takes(d, i) => ~For(i, "GRANT", q.resource, q.owner) /\ ~PurgeAt(i, q.owner)
    <3>1. ~For(pos[d] + 1, "GRANT", q.resource, q.owner)
      BY <1>2, Taken
    <3>2. ~PurgeAt(pos[d] + 1, q.owner)
      BY <1>2, TakenPurge
    <3> QED BY <3>1, <3>2 DEF Takes
  <2>2. PICK r \in queue : Same(q, r)
    BY <1>13
  <2>3. CASE r = new
    BY <1>7, <1>12, <1>17, <2>2, <2>3 DEF Same, Takes
  <2> QED BY <1>8, <2>1, <2>2, <2>3
<1>19. \A S, o : Among(requests[d], S, o) => Among(Q, S, o)
  BY <1>8, <1>13 DEF Among
<1>20. \A S, o : For(pos[d] + 1, "LOCK", S, o) => Among(Q, S, o) /\ locks'[d][S].state # "NONE"
  <2>1. Among(Q, R, m.owner)
    BY <1>7, <1>8, <1>13 DEF Among
  <2>2. ASSUME NEW S, NEW o, For(pos[d] + 1, "LOCK", S, o) PROVE S = R /\ o = m.owner
    BY <1>1, <1>2, <2>2, Taken
  <2>3. locks'[d][R].state # "NONE"
    BY <1>12, <1>17
  <2> QED BY <2>1, <2>2, <2>3
<1>21. \A S, o : ~For(pos[d] + 1, "GRANT", S, o)
  BY <1>2, Taken
<1>22. \A o : Holds(d, R, o) => L = locks[d][R]
  BY <1>1, <1>12 DEF Holds
<1> QED BY <1>4, <1>15, <1>16, <1>18, <1>19, <1>20, <1>21, <1>22, PlainQueues

LEMMA UnlockQueues ==
  ASSUME Payload = LockMsg, BaseInv, BaseInv', TokenInv, QueueInv, NEW d \in Daemon,
         process_unlock(d)
  PROVE  QueueInv'
<1>1. PICK m, R, l, reqs :
        m = Body(d) /\ R = m.resource /\ l = locks[d][R] /\ reqs = requests[d]
  OBVIOUS
<1>2. Delivers(d, "UNLOCK") /\ joined[d]
  BY DEF process_unlock
<1>3. /\ pos[d] + 1 \in Index /\ pos[d] \in Nat /\ OwnerAt(pos[d] + 1) = m.owner
      /\ MsgAt(pos[d] + 1, "UNLOCK", R) /\ m.request = "UNLOCK" /\ d \in cpg
  BY <1>1, <1>2, Dispatching
<1>4. R \in Resource
  BY <1>1, <1>2, <1>3, BodyTypes DEF BaseInv, TypeOK, Delivers
<1>5. l \in LockRecord /\ reqs \in SUBSET Request
  BY <1>1, <1>4, LocksTyped DEF BaseInv
<1>6. Queue(d) /\ AtOwner
  BY DEF QueueInv, TokenInv
<1>7. Token(pos[d] + 1, R)
  BY <1>3 DEF Token
<1>8. PICK L, Q, out :
        /\ SetLock(d, R, L) /\ SetRequests(d, Q) /\ DeliverApp(d, out)
        /\ UNCHANGED <<local_lockid, clientVars>>
        /\ L.state = "NONE" => l.state = "NONE"
        /\ \/ /\ m.owner.node = NodeOf[d]
              /\ Q = GrantMarked(reqs, {R}) /\ out = GrantOr(reqs, R, <<>>)
           \/ Q = reqs /\ out = <<>>
  <2>1. CASE Unlocks(d, l, m) /\ l.owner.node = NodeOf[d]
    <3> DEFINE L == [l EXCEPT !.state = IF NextWaiting(reqs, R) = {} THEN "FREE" ELSE "PENDING"]
    <3>1. /\ SetLock(d, R, L) /\ SetRequests(d, GrantMarked(reqs, {R}))
          /\ DeliverApp(d, GrantOr(reqs, R, <<>>)) /\ UNCHANGED <<local_lockid, clientVars>>
      BY <1>1, <2>1 DEF process_unlock
    <3>2. L.state # "NONE" /\ m.owner.node = NodeOf[d]
      BY <1>5, <2>1 DEF LockRecord, Unlocks
    <3> QED BY <3>1, <3>2
  <2>2. CASE Unlocks(d, l, m) /\ l.owner.node # NodeOf[d]
    <3>1. /\ SetLock(d, R, [l EXCEPT !.state = "FREE"]) /\ UNCHANGED requests
          /\ DeliverApp(d, <<>>) /\ UNCHANGED <<local_lockid, clientVars>>
      BY <1>1, <2>2 DEF process_unlock
    <3>2. [l EXCEPT !.state = "FREE"].state # "NONE" /\ SetRequests(d, reqs)
      BY <1>1, <1>4, <1>5, <3>1, SameWritten DEF LockRecord
    <3> QED BY <3>1, <3>2
  <2>3. CASE ~Unlocks(d, l, m)
    <3>1. /\ UNCHANGED <<locks, requests>>
          /\ DeliverApp(d, <<>>) /\ UNCHANGED <<local_lockid, clientVars>>
      BY <1>1, <2>3 DEF process_unlock
    <3>2. SetLock(d, R, l) /\ SetRequests(d, reqs)
      BY <1>1, <1>4, <3>1, SameWritten
    <3> QED BY <3>1, <3>2
  <2> QED BY <2>1, <2>2, <2>3
<1>9. AtMostOne(out) /\ \A x : out = <<x>> => Says(x)
  <2>0. AtMostOne(<<>>) /\ \A x : <<>> # <<x>>
    BY DEF AtMostOne
  <2>1. CASE m.owner.node = NodeOf[d] /\ out = GrantOr(reqs, R, <<>>)
    <3>1. LastToken(pos[d] + 1, R)
      BY <1>3, <1>4, <1>6, <1>7, <2>1 DEF AtOwner
    <3>2. /\ AtMostOne(out)
          /\ \A x : out = <<x>> => /\ x.request = "GRANT" /\ x.resource = R
                                   /\ \E r \in reqs : r.resource = R /\ r.owner = x.owner
      BY <2>0, <2>1, GrantOrSays
    <3>3. ASSUME NEW x, out = <<x>> PROVE Says(x)
      <4>1. PICK r \in reqs : r.resource = R /\ r.owner = x.owner
        BY <3>2, <3>3
      <4>2. x.request = "GRANT" /\ x.resource = R
        BY <3>2, <3>3
      <4>3. /\ For(r.at, "LOCK", R, r.owner)
            /\ \A g \in Index : For(g, "GRANT", R, r.owner) => pos[d] < g
        BY <1>1, <1>6, <4>1, QueuedSays
      <4>4. \A g \in Index : For(g, "GRANT", R, r.owner) => pos[d] + 1 < g
        <5>1. \A q, S, o : For(pos[d] + 1, q, S, o) => q = "UNLOCK"
          BY <1>2, Taken
        <5>2. ~For(pos[d] + 1, "GRANT", R, r.owner)
          BY <5>1
        <5>3. \A g \in Index : g \in Nat
          BY Positions
        <5> QED BY <1>3, <4>3, <5>2, <5>3
      <4>5. \A k \in Index : Token(k, R) => k <= pos[d] + 1
        BY <3>1 DEF LastToken
      <4>6. pos[d] + 1 \in Nat
        BY <1>3
      <4> QED BY <1>4, <4>1, <4>2, <4>3, <4>4, <4>5, <4>6, GrantSays
    <3> QED BY <3>2, <3>3
  <2> QED BY <1>8, <2>0, <2>1
<1>10. Plain(d, R, L, Q, out)
  BY <1>1, <1>8, <1>9 DEF Plain
<1>11. requests'[d] = Q /\ pos'[d] = pos[d] + 1
  BY <1>4, <1>10, PlainFrame
<1>12. /\ \A q \in Q : \E r \in reqs : Same(q, r)
       /\ \A S, o : Among(reqs, S, o) => Among(Q, S, o)
  <2>1. CASE Q = reqs
    BY <2>1 DEF Same
  <2>2. CASE Q = GrantMarked(reqs, {R})
    BY <1>5, <2>2, MarkedSame
  <2> QED BY <1>8, <2>1, <2>2
<1>13. /\ \A S, o : ~For(pos[d] + 1, "GRANT", S, o) /\ ~For(pos[d] + 1, "LOCK", S, o)
       /\ \A o : ~PurgeAt(pos[d] + 1, o)
  <2>1. \A q, S, o : For(pos[d] + 1, q, S, o) => q = "UNLOCK"
    BY <1>2, Taken
  <2>2. \A S, o : ~For(pos[d] + 1, "GRANT", S, o) /\ ~For(pos[d] + 1, "LOCK", S, o)
    BY <2>1
  <2>3. \A o : ~PurgeAt(pos[d] + 1, o)
    BY <1>2, TakenPurge
  <2> QED BY <2>2, <2>3
<1>14. QueueRule(d)
  BY <1>1, <1>11, <1>12, <1>13 DEF QueueRule, Takes
<1>15. ASSUME NEW g \in Index, LastToken(g, R), g <= pos[d] PROVE FALSE
  <2>1. pos[d] + 1 <= g /\ g \in Nat
    BY <1>3, <1>7, <1>15, Positions DEF LastToken
  <2> QED BY <1>3, <1>15, <2>1
<1> QED BY <1>1, <1>4, <1>9, <1>10, <1>12, <1>13, <1>14, <1>15, PlainQueues

\* The GRANT finds every request of its owner for the lock.
LEMMA MatchingAll ==
  ASSUME BaseInv, OneLock, NEW d \in Daemon, Queue(d), NEW m, NEW r \in requests[d],
         r.resource = m.resource, r.owner = m.owner
  PROVE  r \in Matching(requests[d], m)
<1> SUFFICES ASSUME NEW q \in requests[d], q.resource = m.resource, q.owner = m.owner
             PROVE  r.at <= q.at
  BY DEF Matching
<1>1. /\ For(r.at, "LOCK", r.resource, r.owner) /\ For(q.at, "LOCK", q.resource, q.owner)
      /\ r.resource \in Resource /\ q.resource \in Resource
  BY QueuedSays
<1>2. r.at \in Index /\ q.at \in Index
  BY <1>1 DEF For, MsgAt
<1>3. r.at = q.at
  BY <1>1, <1>2 DEF OneLock, For
<1>4. r.at \in Nat
  BY <1>2, LenProperties DEF Index
<1> QED BY <1>3, <1>4

LEMMA GrantElsewhereQueues ==
  ASSUME Payload = LockMsg, BaseInv, BaseInv', TokenInv, QueueInv, NEW d \in Daemon,
         process_grant_remote(d) \/ process_grant_unknown(d)
  PROVE  QueueInv'
<1>1. PICK m, R, reqs : m = Body(d) /\ R = m.resource /\ reqs = requests[d]
  OBVIOUS
<1>2. Delivers(d, "GRANT") /\ joined[d]
  BY DEF process_grant_remote, process_grant_unknown
<1>3. /\ pos[d] + 1 \in Index /\ pos[d] \in Nat /\ OwnerAt(pos[d] + 1) = m.owner
      /\ MsgAt(pos[d] + 1, "GRANT", R) /\ m.request = "GRANT" /\ d \in cpg
  BY <1>1, <1>2, Dispatching
<1>4. R \in Resource
  BY <1>1, <1>2, <1>3, BodyTypes DEF BaseInv, TypeOK, Delivers
<1>5. locks[d][R] \in LockRecord /\ reqs \in SUBSET Request
  BY <1>1, <1>4, LocksTyped DEF BaseInv
<1>6. Queue(d) /\ OneLock /\ OneGrant /\ OwnKnown(d)
  BY <1>3 DEF QueueInv
<1>7. Token(pos[d] + 1, R)
  BY <1>3 DEF Token
<1>8. is_member(group_members[d], m.owner.node)
  BY <1>2, <1>3, <1>4, <1>7, OwnerListed
<1>9. PICK L, Q :
        /\ SetLock(d, R, L) /\ SetRequests(d, Q) /\ DeliverApp(d, <<>>)
        /\ UNCHANGED <<local_lockid, clientVars>>
        /\ L = GrantDelivered(d, m)
        /\ \/ m.owner.node # NodeOf[d] /\ Q = reqs \ Matching(reqs, m)
           \/ locks[d][R].state = "NONE" /\ Q = reqs
  <2>1. CASE process_grant_remote(d)
    BY <1>1, <1>8, <2>1 DEF process_grant_remote
  <2>2. CASE process_grant_unknown(d)
    <3>1. /\ SetLock(d, R, GrantDelivered(d, m)) /\ UNCHANGED requests
          /\ DeliverApp(d, <<>>) /\ UNCHANGED <<local_lockid, clientVars>>
          /\ locks[d][R].state = "NONE"
      BY <1>1, <2>2 DEF process_grant_unknown
    <3>2. SetRequests(d, reqs)
      BY <1>1, <1>4, <3>1, SameWritten
    <3> QED BY <3>1, <3>2
  <2> QED BY <2>1, <2>2
<1>10. L.state = "HELD"
  BY <1>1, <1>5, <1>9 DEF GrantDelivered, LockRecord
<1>11. m.owner.node # NodeOf[d]
  <2> SUFFICES ASSUME locks[d][R].state = "NONE", m.owner.node = NodeOf[d] PROVE FALSE
    BY <1>9
  <2>1. PICK a \in Index : a < pos[d] + 1 /\ For(a, "LOCK", R, m.owner)
    BY <1>3, <1>4, <1>6 DEF OneGrant
  <2>2. a <= pos[d]
    BY <1>3, <2>1, Positions
  <2> QED BY <1>4, <1>6, <2>1, <2>2 DEF OwnKnown, For
<1>12. AtMostOne(<<>>) /\ \A x : <<>> # <<x>>
  BY DEF AtMostOne
<1>13. Plain(d, R, L, Q, <<>>)
  BY <1>9, <1>10, <1>12 DEF Plain
<1>14. requests'[d] = Q /\ pos'[d] = pos[d] + 1
  BY <1>4, <1>13, PlainFrame
<1>15. QueueRule(d)
  <2> SUFFICES ASSUME NEW q \in Q
               PROVE  /\ q \in requests[d]
                      /\ ~For(pos[d] + 1, "GRANT", q.resource, q.owner)
                      /\ ~PurgeAt(pos[d] + 1, q.owner)
    BY <1>14 DEF QueueRule, Takes, Same
  <2>1. q \in requests[d]
    BY <1>1, <1>9
  <2>2. ~PurgeAt(pos[d] + 1, q.owner)
    BY <1>2, TakenPurge
  <2>3. ASSUME For(pos[d] + 1, "GRANT", q.resource, q.owner) PROVE FALSE
    <3>1. q.resource = R /\ q.owner = m.owner
      BY <1>1, <1>2, <2>3, Taken
    <3>2. q \in Matching(reqs, m)
      BY <1>1, <1>6, <2>1, <3>1, MatchingAll
    <3>3. locks[d][R].state # "NONE"
      BY <1>6, <2>1, <3>1 DEF Queue
    <3> QED BY <1>9, <3>2, <3>3
  <2> QED BY <2>1, <2>2, <2>3
<1>16. ASSUME NEW S, NEW o, o.node = NodeOf[d], Among(requests[d], S, o) PROVE Among(Q, S, o)
  <2>1. PICK r \in reqs : r.resource = S /\ r.owner = o
    BY <1>1, <1>16 DEF Among
  <2>2. r \notin Matching(reqs, m)
    BY <1>11, <1>16, <2>1 DEF Matching
  <2> QED BY <1>9, <2>1, <2>2 DEF Among
<1>17. /\ \A S, o : ~For(pos[d] + 1, "LOCK", S, o)
       /\ \A S, o : For(pos[d] + 1, "GRANT", S, o) => o.node # NodeOf[d]
  <2>1. ASSUME NEW S, NEW o, For(pos[d] + 1, "LOCK", S, o) PROVE FALSE
    <3>1. "LOCK" = "GRANT"
      BY <1>2, <2>1, Taken
    <3> QED BY <3>1
  <2>2. ASSUME NEW S, NEW o, For(pos[d] + 1, "GRANT", S, o) PROVE o.node # NodeOf[d]
    <3>1. o = m.owner
      BY <1>1, <1>2, <2>2, Taken
    <3> QED BY <1>11, <3>1
  <2> QED BY <2>1, <2>2
<1>18. ASSUME NEW g \in Index, LastToken(g, R), g <= pos[d] PROVE FALSE
  <2>1. pos[d] + 1 <= g /\ g \in Nat
    BY <1>3, <1>7, <1>18, Positions DEF LastToken
  <2> QED BY <1>3, <1>18, <2>1
<1> QED BY <1>4, <1>12, <1>13, <1>15, <1>16, <1>17, <1>18, PlainQueues

\* A handler that writes no record, multicasts nothing and adds no request.
LEMMA QuietQueues ==
  ASSUME BaseInv, BaseInv', TokenInv, QueueInv, NEW d \in Daemon,
         DeliverApp(d, <<>>), UNCHANGED <<locks, local_lockid, clients, ended>>,
         \A e \in Daemon \ {d} : requests'[e] = requests[e],
         requests'[d] \subseteq requests[d],
         \A S, o : ~For(pos[d] + 1, "LOCK", S, o) /\ ~For(pos[d] + 1, "GRANT", S, o),
         \A q \in requests'[d] : ~PurgeAt(pos[d] + 1, q.owner),
         \A p \in Proc : DOMAIN calls'[p] = DOMAIN calls[p],
         \A p \in Proc \ clients[d] : calls'[p] = calls[p],
         \A p \in Proc : \A i \in DOMAIN calls[p] :
           /\ calls'[p][i].resource = calls[p][i].resource
           /\ \/ calls'[p][i] = calls[p][i]
              \/ p \in Triers /\ calls[p][i].st = "wait" /\ calls'[p][i].st = "nak",
         \A p \in clients[d] : \A i \in DOMAIN calls[p] : \A S :
           calls'[p][i].st = "wait" /\ Among(requests[d], S, Owner(NodeOf[d], p, i)) =>
             Among(requests'[d], S, Owner(NodeOf[d], p, i))
  PROVE  QueueInv'
<1>0. AtMostOne(<<>>) /\ \A m : <<>> # <<m>>
  BY DEF AtMostOne
<1>1. Frame(d)
  BY <1>0, HandlerFrame
<1>2. pos'[d] = pos[d] + 1 /\ log' = Mcast(d, <<>>)
  BY HandlerMovesOn
<1>3. SendRule
  BY <1>0, <1>2, SaysKeepRule
<1>4. clients[d] \in SUBSET Proc
  BY DEF BaseInv, TypeOK
<1>5. EndRule /\ CallRule(d) /\ Moves1(d)
  BY <1>2, <1>4 DEF EndRule, CallRule, Moves1
<1>6. QueueRule(d)
  BY <1>2 DEF QueueRule, Takes, Same
<1>7. AnswerRule(d)
  <2> SUFFICES ASSUME NEW p \in clients[d], NEW i \in DOMAIN calls[p], NEW S, NEW o,
                      S = calls'[p][i].resource, o = Owner(NodeOf[d], p, i)
               PROVE  /\ calls'[p][i].st = "wait" =>
                           /\ calls[p][i].st = "wait"
                           /\ Among(requests[d], S, o) => Among(requests'[d], S, o)
                           /\ \A k \in Index : ~(Takes(d, k) /\ For(k, "LOCK", S, o))
                      /\ calls'[p][i].st \notin {"wait", "nak"} =>
                           calls[p][i].st \notin {"wait", "nak"}
    BY <1>4 DEF AnswerRule
  <2>1. calls'[p][i] = calls[p][i] \/ (calls[p][i].st = "wait" /\ calls'[p][i].st = "nak")
    BY <1>4
  <2> QED BY <2>1 DEF Takes
<1>8. KnownRule(d)
  BY DEF KnownRule, Takes, For
<1>9. KeptRule(d)
  <2> SUFFICES ASSUME NEW g \in Index, NEW S \in Resource, NEW o, For(g, "GRANT", S, o),
                      Takes(d, g) \/ (g <= pos[d] /\ Holds(d, S, o))
               PROVE  Holds(d, S, o)'
    BY DEF KeptRule
  <2>1. Holds(d, S, o)
    BY DEF Takes
  <2>2. ASSUME NEW st, CallIs(o.pid, o.tid, st), st \in {"held", "nak"}
        PROVE  CallIs(o.pid, o.tid, st)'
    BY <1>4, <2>1, <2>2 DEF CallIs, Holds
  <2> QED BY <2>1, <2>2 DEF Holds
<1> QED BY <1>1, <1>3, <1>5, <1>6, <1>7, <1>8, <1>9, HandlerKeepsQueues

LEMMA PurgeQueues ==
  ASSUME Payload = LockMsg, BaseInv, BaseInv', TokenInv, QueueInv, NEW d \in Daemon,
         process_purge(d)
  PROVE  QueueInv'
<1>1. PICK m : m = Body(d)
  OBVIOUS
<1>2. /\ Delivers(d, "PURGE") /\ DeliverApp(d, <<>>)
      /\ UNCHANGED <<locks, local_lockid, clients, calls, ended>>
      /\ SetRequests(d, purge_requests(requests[d], m.owner.node, m.owner.pid))
  BY <1>1 DEF process_purge, clientVars
<1>3. /\ requests'[d] = purge_requests(requests[d], m.owner.node, m.owner.pid)
      /\ \A e \in Daemon \ {d} : requests'[e] = requests[e]
  BY <1>2 DEF SetRequests, BaseInv, TypeOK
<1>4. \A S, o : ~For(pos[d] + 1, "LOCK", S, o) /\ ~For(pos[d] + 1, "GRANT", S, o)
  <2>1. ASSUME NEW r, NEW S, NEW o, For(pos[d] + 1, r, S, o) PROVE r = "PURGE"
    BY <1>2, <2>1, Taken
  <2>2. "LOCK" # "PURGE" /\ "GRANT" # "PURGE"
    OBVIOUS
  <2> QED BY <2>1, <2>2
<1>5. m.owner.pid \in ended
  <2>1. pos[d] + 1 \in Index /\ log[pos[d] + 1] = NextEntry(d) /\ OwnerAt(pos[d] + 1) = m.owner
    BY <1>1, <1>2, Dispatching DEF NextEntry
  <2>2. log[pos[d] + 1].request = "APP" /\ log[pos[d] + 1].body.request = "PURGE"
    BY <1>2, <2>1 DEF Delivers, Body
  <2> QED BY <2>1, <2>2 DEF QueueInv, Purging
<1>6. m.owner.pid # 0
  BY <1>5, LockAssumption DEF BaseInv, TypeOK
<1>7. \A q \in requests'[d] :
        q \in requests[d] /\ ~(q.owner.node = m.owner.node /\ q.owner.pid = m.owner.pid)
  BY <1>3 DEF purge_requests
<1>8. \A q \in requests'[d] : ~PurgeAt(pos[d] + 1, q.owner)
  BY <1>1, <1>2, <1>7, TakenPurge
<1>9. ASSUME NEW p \in clients[d], NEW i \in DOMAIN calls[p], NEW S,
             Among(requests[d], S, Owner(NodeOf[d], p, i))
      PROVE  Among(requests'[d], S, Owner(NodeOf[d], p, i))
  <2>1. PICK r \in requests[d] : r.resource = S /\ r.owner = Owner(NodeOf[d], p, i)
    BY <1>9 DEF Among
  <2>2. r.owner.pid = p /\ p \notin ended
    BY <2>1, OneDaemon DEF Owner
  <2>3. r \in requests'[d]
    BY <1>3, <1>5, <1>6, <2>2 DEF purge_requests
  <2> QED BY <2>1, <2>3 DEF Among
<1> QED BY <1>2, <1>3, <1>4, <1>7, <1>8, <1>9, QuietQueues

LEMMA NakQueues ==
  ASSUME Payload = LockMsg, BaseInv, BaseInv', TokenInv, QueueInv, NEW d \in Daemon,
         process_nak(d)
  PROVE  QueueInv'
<1>1. PICK m, p, tid : m = Body(d) /\ p = m.owner.pid /\ tid = m.owner.tid
  OBVIOUS
<1> DEFINE found == Matching(requests[d], m)
           left  == requests[d] \ found
           local == found # {} /\ m.owner.node = NodeOf[d]
<1>2. PICK Q :
        /\ Delivers(d, "NAK") /\ SetRequests(d, Q) /\ DeliverApp(d, <<>>)
        /\ UNCHANGED <<locks, local_lockid, clients, ended>>
        /\ \/ /\ local /\ p \in clients[d]
              /\ Q = left /\ calls' = nak_client(p, tid)
           \/ /\ local /\ p \notin clients[d]
              /\ Q = purge_requests(left, NodeOf[d], p) /\ calls' = calls
           \/ ~local /\ Q = left /\ calls' = calls
  BY <1>1 DEF process_nak, find_client
<1>3. requests'[d] = Q /\ \A e \in Daemon \ {d} : requests'[e] = requests[e]
  BY <1>2 DEF SetRequests, BaseInv, TypeOK
<1>4. Q \subseteq requests[d]
  BY <1>2 DEF purge_requests
<1>5. \A S, o : ~For(pos[d] + 1, "LOCK", S, o) /\ ~For(pos[d] + 1, "GRANT", S, o)
  <2>1. ASSUME NEW r, NEW S, NEW o, For(pos[d] + 1, r, S, o) PROVE r = "NAK"
    BY <1>2, <2>1, Taken
  <2>2. "LOCK" # "NAK" /\ "GRANT" # "NAK"
    OBVIOUS
  <2> QED BY <2>1, <2>2
<1>6. \A o : ~PurgeAt(pos[d] + 1, o)
  <2>1. "NAK" # "PURGE"
    OBVIOUS
  <2> QED BY <1>2, <2>1, TakenPurge
<1>7. p \in Triers
  <2>1. /\ MsgAt(pos[d] + 1, "NAK", m.resource) /\ pos[d] + 1 \in Index
        /\ OwnerAt(pos[d] + 1) = m.owner /\ m.request = "NAK"
    BY <1>1, <1>2, Dispatching
  <2>2. m.resource \in Resource
    BY <1>1, <1>2, <2>1, BodyTypes DEF BaseInv, TypeOK, Delivers
  <2> QED BY <1>1, <2>1, <2>2 DEF QueueInv, Refusals
<1>8. ASSUME local, p \in clients[d], calls' = nak_client(p, tid)
      PROVE  p \in Proc /\ tid \in DOMAIN calls[p] /\ calls' = Answered(p, tid, "nak", 0)
  <2>1. PICK r \in requests[d] : r.owner = m.owner
    BY <1>8 DEF Matching
  <2>2. OfCall(r.owner, r.resource)
    BY QueuedAsked DEF TokenInv
  <2> QED BY <1>1, <1>8, <2>1, <2>2 DEF OfCall, nak_client
<1>9. /\ \A q \in Proc : DOMAIN calls'[q] = DOMAIN calls[q]
      /\ \A q \in Proc : \A i \in DOMAIN calls[q] :
           /\ calls'[q][i].resource = calls[q][i].resource
           /\ \/ calls'[q][i] = calls[q][i]
              \/ q \in Triers /\ calls[q][i].st = "wait" /\ calls'[q][i].st = "nak"
  <2>1. CASE calls' = calls
    BY <2>1
  <2>2. CASE local /\ p \in clients[d] /\ calls' = nak_client(p, tid)
    BY <1>7, <1>8, <2>2, AnsweredSays
  <2> QED BY <1>2, <2>1, <2>2
<1>10. \A q \in Proc \ clients[d] : calls'[q] = calls[q]
  <2>1. CASE calls' = calls
    BY <2>1
  <2>2. CASE local /\ p \in clients[d] /\ calls' = nak_client(p, tid)
    <3>1. calls \in [Proc -> Seq(Call)]
      BY DEF BaseInv, TypeOK
    <3> QED BY <1>8, <2>2, <3>1 DEF Answered
  <2> QED BY <1>2, <2>1, <2>2
<1>11. ASSUME local, p \in clients[d], calls' = nak_client(p, tid) PROVE calls'[p][tid].st # "wait"
  <2>1. calls \in [Proc -> Seq(Call)]
    BY DEF BaseInv, TypeOK
  <2>2. calls[p] \in [DOMAIN calls[p] -> Call]
    BY <1>8, <1>11, <2>1
  <2>3. CASE calls[p][tid].st = "wait"
    <3>1. calls' = [calls EXCEPT ![p][tid].st = "nak", ![p][tid].lockid = 0]
      BY <1>8, <1>11, <2>3 DEF Answered
    <3>2. calls[p][tid] \in Call
      BY <1>8, <1>11, <2>2
    <3> QED BY <1>8, <1>11, <2>1, <2>2, <3>1, <3>2 DEF Call
  <2>4. CASE calls[p][tid].st # "wait"
    BY <1>8, <1>11, <2>4 DEF Answered
  <2> QED BY <2>3, <2>4
<1>12. ASSUME NEW q \in clients[d], NEW i \in DOMAIN calls[q], NEW S,
              calls'[q][i].st = "wait", Among(requests[d], S, Owner(NodeOf[d], q, i))
       PROVE  Among(requests'[d], S, Owner(NodeOf[d], q, i))
  <2>1. PICK r \in requests[d] : r.resource = S /\ r.owner = Owner(NodeOf[d], q, i)
    BY <1>12 DEF Among
  <2>2. r.owner.node = NodeOf[d] /\ r.owner.pid = q /\ r.owner.tid = i
    BY <2>1 DEF Owner
  <2>3. r \notin found
    <3> SUFFICES ASSUME r \in found PROVE FALSE
      OBVIOUS
    <3>1. m.owner = r.owner
      BY DEF Matching
    <3>2. local /\ p = q /\ tid = i
      BY <1>1, <2>2, <3>1
    <3>3. calls' = nak_client(p, tid)
      BY <1>2, <3>2
    <3> QED BY <1>11, <1>12, <3>2, <3>3
  <2>4. r \in Q
    <3>1. r \in left
      BY <2>3
    <3>2. CASE local /\ p \notin clients[d] /\ Q = purge_requests(left, NodeOf[d], p)
      <4>1. PICK x \in requests[d] : x.owner = m.owner
        BY <3>2 DEF Matching
      <4>2. OfCall(x.owner, x.resource)
        BY QueuedAsked DEF TokenInv
      <4>3. p # 0
        BY <1>1, <4>1, <4>2, LockAssumption DEF OfCall
      <4>4. r.owner.pid # p
        BY <2>2, <3>2
      <4> HIDE DEF left
      <4> QED BY <3>1, <3>2, <4>3, <4>4 DEF purge_requests
    <3> QED BY <1>2, <3>1, <3>2
  <2> QED BY <1>3, <2>1, <2>4 DEF Among
<1> QED BY <1>2, <1>3, <1>4, <1>5, <1>6, <1>9, <1>10, <1>12, QuietQueues

LEMMA GrantLocalQueues ==
  ASSUME Payload = LockMsg, BaseInv, BaseInv', TokenInv, QueueInv, NEW d \in Daemon,
         process_grant_local(d)
  PROVE  QueueInv'
<1>1. PICK m, R, p, tid, id, L, t, o :
        /\ m = Body(d) /\ R = m.resource /\ o = m.owner /\ p = o.pid /\ tid = o.tid
        /\ id = local_lockid[d] + 1 /\ t = pos[d] + 1
        /\ L = [GrantDelivered(d, m) EXCEPT !.local_id = id]
  OBVIOUS
<1>2. /\ Delivers(d, "GRANT") /\ joined[d] /\ UNCHANGED <<clients, ended>>
      /\ o.node = NodeOf[d]
      /\ local_lockid' = [local_lockid EXCEPT ![d] = id] /\ SetLock(d, R, L)
  BY <1>1 DEF process_grant_local
<1>3. /\ t \in Index /\ pos[d] \in Nat /\ pos[d] < Len(log)
      /\ t = pos[d] + 1 /\ t \in Nat /\ pos[d] < t
      /\ OwnerAt(t) = o /\ MsgAt(t, "GRANT", R) /\ d \in cpg
  BY <1>1, <1>2, Dispatching
<1>4. R \in Resource /\ Token(t, R) /\ o \in Owners /\ requests[d] \in SUBSET Request
  <2>1. GTypeOK /\ HasNext(d) /\ NextEntry(d).request = "APP" /\ Body(d).request = "GRANT"
    BY <1>2 DEF BaseInv, TypeOK, Delivers, Body
  <2>2. requests[d] \in SUBSET Request
    BY LocksTyped DEF BaseInv
  <2> QED BY <1>1, <1>3, <2>1, <2>2, BodyTypes DEF Token
<1>5. LastToken(t, R)
  BY <1>2, <1>3, <1>4 DEF TokenInv, AtOwner
<1>6. o = Owner(NodeOf[d], p, tid)
  BY <1>1, <1>2, <1>4 DEF Owners, Owner
<1>7. p \in Proc /\ p # 0 /\ tid \in DOMAIN calls[p] /\ calls[p][tid].resource = R
  <2>1. OfCall(o, R)
    BY <1>3, <1>4 DEF TokenInv, Asked
  <2> QED BY <1>1, <2>1, LockAssumption DEF OfCall
<1>8. Queue(d) /\ OneLock /\ OneGrant /\ Answers(d)
  BY DEF QueueInv
<1>9. L.state = "HELD" /\ L.owner = o
  <2>1. locks[d][R] \in LockRecord
    BY <1>4, LocksTyped DEF BaseInv
  <2> QED BY <1>1, <2>1 DEF LockRecord, GrantDelivered
<1>10. /\ locks'[d][R] = L /\ \A S \in Resource \ {R} : locks'[d][S] = locks[d][S]
       /\ \A e \in Daemon \ {d} : /\ locks'[e] = locks[e]
                                  /\ local_lockid'[e] = local_lockid[e]
  BY <1>2, <1>4 DEF SetLock, BaseInv, TypeOK
<1> DEFINE left == requests[d] \ Matching(requests[d], m)
           rest == purge_requests(left, NodeOf[d], p)
<1>11. /\ left \subseteq requests[d] /\ rest \subseteq left /\ rest \in SUBSET Request
       /\ \A r \in left : ~(r.resource = R /\ r.owner = o)
  <2>1. ASSUME NEW r \in left, r.resource = R, r.owner = o PROVE FALSE
    BY <1>1, <1>8, <2>1, MatchingAll
  <2> QED BY <1>4, <2>1 DEF purge_requests
<1>12. PICK Q, out :
         /\ SetRequests(d, Q) /\ DeliverApp(d, out)
         /\ \/ Q = left /\ out = <<>> /\ p \in clients[d] /\ calls' = grant_client(p, tid, id)
            \/ /\ Q = GrantMarked(rest, {R}) /\ calls' = calls /\ p \notin clients[d]
               /\ out = GrantOr(rest, R, send_unlock(R, o))
  BY <1>1 DEF process_grant_local, find_client
<1>13. ASSUME NEW r \in requests[d], r \notin left PROVE r.owner = o
  BY <1>1, <1>13 DEF Matching
<1>14. ASSUME NEW r \in left, r \notin rest PROVE r.owner.pid = p
  BY <1>7, <1>14 DEF purge_requests
<1> HIDE DEF left, rest
<1>15. /\ \A q \in Q : \E r \in left : Same(q, r)
       /\ \A r \in left : \/ \E q \in Q : Same(q, r)
                          \/ r.owner.pid = p /\ p \notin clients[d]
  <2>1. CASE Q = left
    BY <2>1 DEF Same
  <2>2. CASE Q = GrantMarked(rest, {R}) /\ p \notin clients[d]
    <3>1. /\ \A q \in Q : \E r \in rest : Same(q, r)
          /\ \A r \in rest : \E q \in Q : Same(q, r)
      BY <1>11, <2>2, MarkedSame
    <3> QED BY <1>11, <1>14, <2>2, <3>1
  <2> QED BY <1>12, <2>1, <2>2
<1>16. /\ AtMostOne(out)
       /\ \A x : out = <<x>> =>
            /\ x.resource = R
            /\ \/ x.request = "UNLOCK"
               \/ /\ x.request = "GRANT"
                  /\ \E r \in left : r.resource = R /\ r.owner = x.owner
  <2>1. AtMostOne(<<>>) /\ \A x : <<>> # <<x>>
    BY DEF AtMostOne
  <2> QED BY <1>11, <1>12, <2>1, UnlockOrGrant
<1>17. /\ \A q \in Proc : DOMAIN calls'[q] = DOMAIN calls[q]
       /\ \A q \in Proc : \A i \in DOMAIN calls[q] :
            /\ calls'[q][i].resource = calls[q][i].resource
            /\ \/ calls'[q][i] = calls[q][i]
               \/ /\ q = p /\ i = tid /\ calls[q][i].st = "wait"
                  /\ calls'[q][i].st = "held"
  <2>1. CASE calls' = calls
    BY <2>1
  <2>2. CASE calls' = grant_client(p, tid, id)
    <3>1. calls' = Answered(p, tid, "held", id)
      BY <2>2 DEF grant_client
    <3> QED BY <1>7, <3>1, AnsweredSays
  <2> QED BY <1>12, <2>1, <2>2
<1>18. p \in clients[d] => out = <<>> /\ calls'[p][tid].st # "wait"
  <2> SUFFICES ASSUME calls' = grant_client(p, tid, id), calls'[p][tid].st = "wait" PROVE FALSE
    BY <1>12
  <2>1. /\ calls \in [Proc -> Seq(Call)] /\ calls' = Answered(p, tid, "held", id)
        /\ calls[p][tid] \in Call
    BY <1>7, CallTypes DEF BaseInv, TypeOK, grant_client
  <2>2. calls[p] \in [DOMAIN calls[p] -> Call]
    BY <1>7, <2>1
  <2>3. CASE calls[p][tid].st = "wait"
    <3>1. calls' = [calls EXCEPT ![p][tid].st = "held", ![p][tid].lockid = id]
      BY <2>1, <2>3 DEF Answered
    <3> QED BY <1>7, <2>1, <2>2, <3>1 DEF Call
  <2>4. CASE calls[p][tid].st # "wait"
    BY <2>1, <2>4 DEF Answered
  <2> QED BY <2>3, <2>4
<1>19. \A q \in Proc \ clients[d] : calls'[q] = calls[q]
  <2>1. CASE calls' = calls
    BY <2>1
  <2>2. CASE p \in clients[d] /\ calls' = grant_client(p, tid, id)
    <3>1. calls \in [Proc -> Seq(Call)]
      BY DEF BaseInv, TypeOK
    <3> QED BY <2>2, <3>1 DEF Answered, grant_client
  <2> QED BY <1>12, <2>1, <2>2
<1>20. Frame(d) /\ Moves1(d) /\ pos'[d] = t /\ requests'[d] = Q /\ log' = Mcast(d, out)
  <2>1. requests'[d] = Q /\ \A e \in Daemon \ {d} : requests'[e] = requests[e]
    BY <1>12 DEF SetRequests, BaseInv, TypeOK
  <2>2. \A S \in Resource : locks[d][S].state # "NONE" => locks'[d][S].state # "NONE"
    BY <1>9, <1>10
  <2>3. \A q \in Proc : \A i \in DOMAIN calls[q] :
          i \in DOMAIN calls'[q] /\ calls'[q][i].resource = calls[q][i].resource
    BY <1>17
  <2>4. Frame(d)
    BY <1>2, <1>10, <1>12, <1>16, <2>1, <2>2, <2>3, HandlerFrame
  <2>5. pos'[d] = t /\ log' = Mcast(d, out)
    BY <1>3, <1>12, HandlerMovesOn
  <2> QED BY <1>3, <2>1, <2>4, <2>5 DEF Moves1
<1>21. SendRule
  <2>1. ASSUME NEW x, out = <<x>> PROVE Says(x)
    <3>1. CASE x.request = "UNLOCK"
      BY <3>1 DEF Says
    <3>2. CASE x.request = "GRANT" /\ \E r \in left : r.resource = R /\ r.owner = x.owner
      <4>1. PICK r \in left : r.resource = R /\ r.owner = x.owner
        BY <3>2
      <4>2. /\ For(r.at, "LOCK", R, r.owner)
            /\ \A g \in Index : For(g, "GRANT", R, r.owner) => pos[d] < g
        BY <1>8, <1>11, <4>1, QueuedSays
      <4>3. ~For(t, "GRANT", R, r.owner)
        BY <1>3, <1>11, <4>1 DEF For
      <4>4. \A g \in Index : For(g, "GRANT", R, r.owner) => t < g
        <5> SUFFICES ASSUME NEW g \in Index, For(g, "GRANT", R, r.owner) PROVE t < g
          OBVIOUS
        <5>1. pos[d] < g /\ g # t /\ g \in Nat
          BY <4>2, <4>3, Positions
        <5> QED BY <1>3, <5>1
      <4>5. \A k \in Index : Token(k, R) => k <= t
        BY <1>5 DEF LastToken
      <4>6. x.resource = R
        BY <1>16, <2>1
      <4> QED BY <1>3, <1>4, <3>2, <4>1, <4>2, <4>4, <4>5, <4>6, GrantSays
    <3> QED BY <1>16, <2>1, <3>1, <3>2
  <2> QED BY <1>16, <1>20, <2>1, SaysKeepRule
<1>22. EndRule /\ CallRule(d)
  <2>1. clients[d] \in SUBSET Proc
    BY DEF BaseInv, TypeOK
  <2>2. \A q \in clients[d] : \A i \in DOMAIN calls'[q] : calls'[q][i].st = "nak" =>
          i \in DOMAIN calls[q] /\ calls[q][i].st = "nak"
    BY <1>17, <2>1
  <2> QED BY <1>2, <1>19, <2>2 DEF EndRule, CallRule
<1>23. \A r, S, x : For(t, r, S, x) => r = "GRANT" /\ S = R /\ x = o
  BY <1>1, <1>2, Taken
<1>24. QueueRule(d)
  <2> SUFFICES ASSUME NEW q \in Q
               PROVE  /\ \E r \in requests[d] : Same(q, r)
                      /\ ~For(t, "GRANT", q.resource, q.owner) /\ ~PurgeAt(t, q.owner)
    BY <1>3, <1>20 DEF QueueRule, Takes
  <2>1. PICK r \in left : Same(q, r)
    BY <1>15
  <2>2. ~For(t, "GRANT", q.resource, q.owner)
    BY <1>11, <1>23, <2>1 DEF Same
  <2>3. ~PurgeAt(t, q.owner)
    <3>1. "GRANT" # "PURGE"
      OBVIOUS
    <3> QED BY <1>2, <1>3, <3>1, TakenPurge
  <2> QED BY <1>11, <2>1, <2>2, <2>3
<1>25. AnswerRule(d)
  <2> SUFFICES ASSUME NEW q \in clients[d], NEW i \in DOMAIN calls'[q], NEW S, NEW x,
                      S = calls'[q][i].resource, x = Owner(NodeOf[d], q, i)
               PROVE  /\ calls'[q][i].st = "wait" =>
                           /\ i \in DOMAIN calls[q] /\ calls[q][i].st = "wait"
                           /\ Among(requests[d], S, x) => Among(requests'[d], S, x)
                           /\ \A k \in Index : ~(Takes(d, k) /\ For(k, "LOCK", S, x))
                      /\ calls'[q][i].st \notin {"wait", "nak"} =>
                           \/ Given(d, q, i)'
                           \/ i \in DOMAIN calls[q] /\ calls[q][i].st \notin {"wait", "nak"}
    BY <1>2 DEF AnswerRule
  <2>0. q \in Proc
    BY DEF BaseInv, TypeOK
  <2>1. i \in DOMAIN calls[q] /\ calls[q][i].resource = S
    BY <1>17, <2>0
  <2>2. ASSUME calls'[q][i].st = "wait", Among(requests[d], S, x)
        PROVE  Among(requests'[d], S, x)
    <3>1. PICK r \in requests[d] : r.resource = S /\ r.owner = x
      BY <2>2 DEF Among
    <3>2. r.owner.pid = q /\ r.owner.tid = i
      BY <3>1 DEF Owner
    <3>3. r \in left
      <4> SUFFICES ASSUME r.owner = o PROVE FALSE
        BY <1>13
      <4> QED BY <1>1, <1>18, <2>2, <3>2
    <3>4. PICK y \in Q : Same(y, r)
      BY <1>15, <3>2, <3>3
    <3> QED BY <1>20, <3>1, <3>4 DEF Among, Same
  <2>3. \A k \in Index : ~(Takes(d, k) /\ For(k, "LOCK", S, x))
    <3>1. "LOCK" # "GRANT"
      OBVIOUS
    <3> QED BY <1>3, <1>23, <3>1 DEF Takes
  <2>4. CASE calls'[q][i] = calls[q][i]
    BY <2>1, <2>2, <2>3, <2>4
  <2>5. CASE q = p /\ i = tid /\ calls'[q][i].st = "held"
    <3>1. For(t, "GRANT", R, o)' /\ t \in Index' /\ t <= pos'[d]
      <4>1. For(t, "GRANT", R, o)
        BY <1>3 DEF For
      <4> QED BY <1>3, <1>20, <4>1, OldWords, OldEntries
    <3>2. x = o /\ S = R
      BY <1>6, <1>7, <2>1, <2>5
    <3>3. Given(d, q, i)'
      BY <3>1, <3>2 DEF Given
    <3> QED BY <2>5, <3>3
  <2> QED BY <1>17, <2>0, <2>1, <2>4, <2>5
<1>26. KnownRule(d)
  <2>1. "LOCK" # "GRANT"
    OBVIOUS
  <2> QED BY <1>3, <1>23, <2>1 DEF KnownRule, Takes, For
<1>27. ASSUME NEW x, NEW i, CallIs(x, i, "held") \/ CallIs(x, i, "nak"), x \in Proc
       PROVE  CallIs(x, i, "held")' \/ CallIs(x, i, "nak")'
  BY <1>17, <1>27 DEF CallIs
<1>28. KeptRule(d)
  <2> SUFFICES ASSUME NEW g \in Index, NEW S \in Resource, NEW x, For(g, "GRANT", S, x),
                      LastToken(g, S), \A k \in Index' \ Index : ~Token(k, S)',
                      Takes(d, g) \/ (g <= pos[d] /\ Holds(d, S, x))
               PROVE  Holds(d, S, x)'
    BY DEF KeptRule
  <2>1. CASE S # R
    <3>1. Holds(d, S, x)
      BY <1>3, <1>23, <2>1 DEF Takes
    <3>2. x.pid \in Proc
      BY <3>1 DEF Holds, BaseInv, TypeOK
    <3> QED BY <1>2, <1>10, <1>27, <2>1, <3>1, <3>2 DEF Holds
  <2>2. CASE S = R
    <3>1. g = t
      <4>1. g <= t /\ t <= g /\ g \in Nat
        BY <1>3, <1>5, <2>2, Positions DEF LastToken
      <4> QED BY <1>3, <4>1
    <3>2. x = o
      BY <1>23, <3>1
    <3>3. p \in clients[d]
      <4> SUFFICES ASSUME p \notin clients[d] PROVE FALSE
        OBVIOUS
      <4>1. out = GrantOr(rest, R, send_unlock(R, o))
        BY <1>12
      <4>2. \E y : out = <<y>>
        BY <4>1 DEF GrantOr, send_unlock
      <4>3. PICK y : out = <<y>> /\ y.resource = R /\ y.request \in {"GRANT", "UNLOCK"}
        BY <1>16, <4>2
      <4>4. \E k \in Index' \ Index : Token(k, R)'
        BY <1>20, <4>3, TokenSent
      <4> QED BY <2>2, <4>4
    <3>4. calls[p][tid].st \in {"wait", "nak"}
      <4> SUFFICES ASSUME calls[p][tid].st \notin {"wait", "nak"} PROVE FALSE
        OBVIOUS
      <4>1. Given(d, p, tid)
        BY <1>7, <1>8, <3>3 DEF Answers
      <4>2. PICK h \in Index : For(h, "GRANT", R, o) /\ h <= pos[d]
        BY <1>6, <1>7, <4>1 DEF Given
      <4>3. h = t
        BY <1>3, <1>4, <1>8, <4>2 DEF OneGrant
      <4> QED BY <1>3, <4>2, <4>3
    <3>5. tid \in DOMAIN calls'[p] /\ calls'[p][tid].st \in {"held", "nak"}
      BY <1>7, <1>17, <1>18, <3>3, <3>4
    <3> QED BY <1>1, <1>2, <1>9, <1>10, <2>2, <3>2, <3>3, <3>5 DEF Holds, CallIs
  <2> QED BY <2>1, <2>2
<1> QED BY <1>20, <1>21, <1>22, <1>24, <1>25, <1>26, <1>28, HandlerKeepsQueues

-----------------------------------------------------------------------------
(***************************************************************************)
(* The steps of the clients.                                               *)
(***************************************************************************)

\* Who connects has not called cpg_lock, and nor had who goes.
LEMMA StillQueues ==
  ASSUME BaseInv, BaseInv', TokenInv, QueueInv, NEW d \in Daemon,
         UNCHANGED <<gvars, locks, requests, local_lockid, calls>>,
         \A e \in Daemon \ {d} : clients'[e] = clients[e],
         ended \subseteq ended',
         \A q \in ended' \ ended : calls[q] = <<>>,
         \A q \in clients'[d] : q \in clients[d] \/ calls[q] = <<>>,
         \A q \in clients[d] : q \in clients'[d] \/ q \in ended'
  PROVE  QueueInv'
<1>0. UNCHANGED <<cpg, log, phase, pos, joined>>
  BY DEF gvars
<1>1. Index' = Index /\ \A e \in Daemon : pos[e] \in Nat /\ pos[e] <= Len(log)
  BY <1>0, Positions DEF Index
<1>2. Frame(d)
  <2>1. LogGrows
    BY <1>0, <1>1, Positions DEF LogGrows
  <2> QED BY <1>0, <1>1, <2>1 DEF Frame
<1>3. SendRule
  BY <1>1 DEF SendRule
<1>4. ASSUME NEW q \in ended' \ ended, NEW i PROVE i \notin DOMAIN calls[q]
  <2>1. calls[q] = <<>>
    BY <1>4
  <2> QED BY <2>1
<1>5. EndRule
  <2> SUFFICES ASSUME NEW i \in Index, NEW R \in Resource, MsgAt(i, "LOCK", R),
                      OwnerAt(i).pid \in ended' \ ended
               PROVE  FALSE
    BY DEF EndRule
  <2>1. OwnerAt(i).tid \in DOMAIN calls[OwnerAt(i).pid]
    BY DEF TokenInv, Asked, OfCall
  <2> QED BY <1>4, <2>1
<1>6. CallRule(d) /\ Moves1(d)
  BY <1>0 DEF CallRule, Moves1
<1>7. \A i : ~Takes(d, i)
  BY <1>0, <1>1 DEF Takes
<1>8. QueueRule(d) /\ KnownRule(d)
  BY <1>7 DEF QueueRule, KnownRule, Same
<1>9. AnswerRule(d)
  <2> SUFFICES ASSUME NEW p \in clients'[d], NEW i \in DOMAIN calls[p] PROVE p \in clients[d]
    BY <1>7 DEF AnswerRule
  <2>1. calls[p] # <<>>
    OBVIOUS
  <2> QED BY <2>1
<1>10. KeptRule(d)
  <2> SUFFICES ASSUME NEW R \in Resource, NEW o, Holds(d, R, o) PROVE Holds(d, R, o)'
    BY <1>7 DEF KeptRule
  <2>1. o.pid \in clients[d] /\ o.tid \in DOMAIN calls[o.pid]
    BY DEF Holds, CallIs
  <2>2. o.pid \notin ended
    BY <2>1, OneDaemon
  <2>3. o.pid \in clients'[d]
    BY <1>4, <2>1, <2>2
  <2> QED BY <2>3 DEF Holds, CallIs
<1> QED BY <1>2, <1>3, <1>5, <1>6, <1>8, <1>9, <1>10, HandlerKeepsQueues

LEMMA ConnectQueues ==
  ASSUME BaseInv, BaseInv', TokenInv, QueueInv, NEW d \in Daemon, NEW p \in Proc, Connect(p, d)
  PROVE  QueueInv'
<1>1. /\ phase[d] = "up" /\ NodeOf[d] = ProcNode[p] /\ p \notin ended /\ p \notin clients[d]
      /\ UNCHANGED <<gvars, locks, requests, local_lockid, calls>> /\ UNCHANGED ended
      /\ clients' = [clients EXCEPT ![d] = clients[d] \cup {p}]
  BY DEF Connect, daemonVars, insert_client
<1>2. clients'[d] = clients[d] \cup {p} /\ \A e \in Daemon \ {d} : clients'[e] = clients[e]
  BY <1>1 DEF BaseInv, TypeOK
<1>3. calls[p] = <<>>
  <2> SUFFICES ASSUME NEW e \in Daemon, p \in clients[e] PROVE FALSE
    BY <1>1 DEF QueueInv, Callers
  <2>1. phase[e] = "up" /\ NodeOf[e] = ProcNode[p] /\ e \in cpg
    BY OneDaemon
  <2>2. d \in cpg
    BY <1>1 DEF BaseInv, IndInv, LogInv, Members
  <2>3. e = d
    BY <1>1, <2>1, <2>2 DEF BaseInv, IndInv, LogInv, Members
  <2> QED BY <1>1, <2>3
<1> QED BY <1>1, <1>2, <1>3, StillQueues

LEMMA ClientExitQueues ==
  ASSUME MembersStay, BaseInv, BaseInv', TokenInv, QueueInv, NEW d \in Daemon, NEW p \in Proc,
         ClientExit(p, d)
  PROVE  QueueInv'
<1>1. /\ p \in clients[d] /\ HeldBy(d, p) = {} /\ ended' = ended \cup {p}
      /\ clients' = [clients EXCEPT ![d] = clients[d] \ {p}]
      /\ UNCHANGED <<local_lockid, calls>>
  BY DEF ClientExit, cpg_lock_fin, MembersStay
<1>2. clients'[d] = clients[d] \ {p} /\ \A e \in Daemon \ {d} : clients'[e] = clients[e]
  BY <1>1 DEF BaseInv, TypeOK
<1>3. CASE calls[p] = <<>> /\ UNCHANGED <<gvars, locks, requests>>
  BY <1>1, <1>2, <1>3, StillQueues
<1>4. CASE del_client(d, p)
  <2>1. PICK m, reqs, kept, Q :
          /\ m = Msg("PURGE", "(none)", Owner(NodeOf[d], p, 0), FALSE) /\ reqs = requests[d]
          /\ kept = purge_requests(reqs, NodeOf[d], p) /\ Q = GrantMarked(kept, {})
    OBVIOUS
  <2>2. /\ m.request = "PURGE" /\ m.owner.pid = p /\ m.owner.node = NodeOf[d]
    BY <2>1 DEF Msg, Owner
  <2>3. SetRequests(d, Q) /\ UNCHANGED locks /\ Send(d, <<m>>)
    BY <1>1, <1>4, <2>1, PurgeOnly DEF SendPurge
  <2>4. /\ requests'[d] = Q
        /\ \A e \in Daemon \ {d} : requests'[e] = requests[e]
    BY <2>3 DEF SetRequests, BaseInv, TypeOK
  <2>5. AtMostOne(<<m>>) /\ \A x : <<m>> = <<x>> => x = m
    BY OneEqual DEF AtMostOne
  <2>6. Frame(d)
    BY <1>1, <1>2, <2>3, <2>4, <2>5, HandlerFrame
  <2>7. log' = Mcast(d, <<m>>) /\ pos'[d] = pos[d] /\ pos[d] \in Nat
    BY <2>3, HandlerMovesOn, Positions
  <2>8. SendRule
    <3>1. Says(m)
      BY <1>1, <2>2 DEF Says
    <3> QED BY <2>5, <2>7, <3>1, SaysKeepRule
  <2>9. EndRule
    <3> SUFFICES ASSUME NEW i \in Index, NEW R \in Resource, MsgAt(i, "LOCK", R),
                        OwnerAt(i).pid = p
                 PROVE  \E k \in Index' \ Index : PurgeAt(k, OwnerAt(i))'
      BY <1>1 DEF EndRule
    <3>1. PICK o : o = OwnerAt(i)
      OBVIOUS
    <3>2. o.pid = p /\ o.node = NodeOf[d] /\ OwnerAt(i)' = o
      <4>1. o.node = ProcNode[p]
        BY <3>1 DEF QueueInv, OneLock
      <4> QED BY <1>1, <2>6, <3>1, <4>1, OneDaemon, OldEntries
    <3>3. PICK k \in Index' \ Index : log'[k] = App(d, m)
      BY <2>7, OutEntry
    <3>4. PurgeAt(k, o)'
      BY <2>2, <3>2, <3>3 DEF PurgeAt, App
    <3> QED BY <3>2, <3>4 DEF PurgeAt
  <2>10. CallRule(d) /\ Moves1(d)
    BY <1>1, <1>2, <2>7 DEF CallRule, Moves1
  <2>11. \A i : ~Takes(d, i)
    BY <2>7 DEF Takes
  <2>12. reqs \in SUBSET Request /\ kept \subseteq reqs
    <3>1. reqs \in SUBSET Request
      BY <2>1, LocksTyped DEF BaseInv
    <3> QED BY <2>1, <3>1 DEF purge_requests
  <2>13. /\ \A q \in Q : \E r \in reqs : Same(q, r)
         /\ \A S, o : Among(Q, S, o) <=> Among(kept, S, o)
    BY <2>1, <2>12, MarkedSame
  <2>14. QueueRule(d) /\ KnownRule(d)
    BY <2>1, <2>4, <2>11, <2>13 DEF QueueRule, KnownRule
  <2>15. AnswerRule(d)
    <3> SUFFICES ASSUME NEW q \in clients'[d], NEW i \in DOMAIN calls[q], NEW S, NEW o,
                        o = Owner(NodeOf[d], q, i), Among(reqs, S, o)
                 PROVE  Among(Q, S, o)
      BY <1>1, <1>2, <2>1, <2>4, <2>11 DEF AnswerRule
    <3>1. PICK r \in reqs : r.resource = S /\ r.owner = o
      BY DEF Among
    <3>2. r.owner.pid = q /\ q # p
      BY <1>2, <3>1 DEF Owner
    <3>3. p # 0
      BY LockAssumption
    <3>4. r \in kept
      BY <2>1, <3>2, <3>3 DEF purge_requests
    <3> QED BY <2>13, <3>1, <3>4 DEF Among
  <2>16. KeptRule(d)
    <3> SUFFICES ASSUME NEW R \in Resource, NEW o, o.node = NodeOf[d], Holds(d, R, o)
                 PROVE  Holds(d, R, o)'
      BY <2>11 DEF KeptRule
    <3>1. o.pid # p
      BY <1>1 DEF Holds, HeldBy
    <3>2. o.pid \in clients'[d]
      BY <1>2, <3>1 DEF Holds
    <3> QED BY <1>1, <2>3, <3>2 DEF Holds, CallIs
  <2> QED BY <2>6, <2>8, <2>9, <2>10, <2>14, <2>15, <2>16, HandlerKeepsQueues
<1> QED BY <1>3, <1>4 DEF ClientExit

LEMMA ClientLockQueues ==
  ASSUME BaseInv, BaseInv', TokenInv, QueueInv, NEW d \in Daemon, NEW p \in Proc,
         NEW R \in Resource, ClientLock(p, d, R)
  PROVE  QueueInv'
<1>1. PICK m, c, s, n :
        /\ m = Msg("LOCK", R, Owner(NodeOf[d], p, Len(calls[p]) + 1), p \in Triers)
        /\ c = [resource |-> R, try |-> p \in Triers, st |-> "wait", lockid |-> 0]
        /\ s = calls[p] /\ n = Len(s) + 1
  OBVIOUS
<1>2. /\ p \in clients[d] /\ Send(d, <<m>>)
      /\ UNCHANGED <<locks, requests, local_lockid, clients, ended>>
      /\ calls' = [calls EXCEPT ![p] = Append(s, c)]
  BY <1>1 DEF ClientLock, cpg_lock, send_lock, daemonVars
<1>3. calls \in [Proc -> Seq(Call)] /\ s \in Seq(Call) /\ Len(s) \in Nat
  BY <1>1, LenProperties DEF BaseInv, TypeOK
<1>4. /\ calls'[p] = Append(s, c) /\ \A q \in Proc \ {p} : calls'[q] = calls[q]
      /\ DOMAIN s = 1..Len(s) /\ DOMAIN Append(s, c) = 1..n
      /\ Append(s, c)[n] = c /\ \A i \in 1..Len(s) : Append(s, c)[i] = s[i]
  BY <1>1, <1>2, <1>3
<1>5. \A q \in Proc : \A i \in DOMAIN calls[q] : i \in DOMAIN calls'[q] /\ calls'[q][i] = calls[q][i]
  <2>1. ASSUME NEW i \in DOMAIN s PROVE i \in DOMAIN calls'[p] /\ calls'[p][i] = s[i]
    BY <1>1, <1>3, <1>4
  <2> QED BY <1>1, <1>4, <2>1
<1>6. \A q \in Proc : \A i \in DOMAIN calls'[q] :
        \/ i \in DOMAIN calls[q]
        \/ q = p /\ i = n /\ calls'[q][i].st = "wait" /\ calls'[q][i].resource = R
  <2>1. ASSUME NEW q \in Proc, NEW i \in DOMAIN calls'[q], q = p, i \notin DOMAIN calls[q]
        PROVE  i = n /\ calls'[q][i].st = "wait" /\ calls'[q][i].resource = R
    <3>1. i = n
      BY <1>1, <1>3, <1>4, <2>1
    <3> QED BY <1>1, <1>4, <2>1, <3>1
  <2> QED BY <1>4, <2>1
<1>7. /\ m.request = "LOCK" /\ m.resource = R /\ m.owner = Owner(NodeOf[d], p, n)
      /\ m.owner.node = NodeOf[d] /\ m.owner.pid = p /\ m.owner.tid = n
      /\ m.try = (p \in Triers)
  BY <1>1 DEF Msg, Owner
<1>8. AtMostOne(<<m>>) /\ \A x : <<m>> = <<x>> => x = m
  BY OneEqual DEF AtMostOne
<1>9. Frame(d)
  <2>1. \A q \in Proc : \A i \in DOMAIN calls[q] :
          i \in DOMAIN calls'[q] /\ calls'[q][i].resource = calls[q][i].resource
    BY <1>5
  <2> QED BY <1>2, <1>8, <2>1, HandlerFrame
<1>10. /\ log' = Mcast(d, <<m>>) /\ pos'[d] = pos[d] /\ pos[d] \in Nat /\ pos[d] <= Len(log)
       /\ Len(log) \in Nat
  BY <1>2, HandlerMovesOn, Positions
<1>11. SendRule
  <2>1. ASSUME NEW a \in Index, NEW S \in Resource, For(a, "LOCK", S, m.owner) PROVE FALSE
    <3>1. OfCall(m.owner, S)
      BY <2>1 DEF For, TokenInv, Asked
    <3>2. n \in DOMAIN calls[p]
      BY <1>7, <3>1 DEF OfCall
    <3> QED BY <1>1, <1>3, <1>4, <3>2
  <2>2. p \in Proc \ ended' /\ NodeOf[d] = ProcNode[p]
    BY <1>2, OneDaemon
  <2>3. Says(m)
    <3>1. m.try => m.owner.pid \in Triers
      BY <1>7
    <3>2. m.request # "GRANT" /\ m.request # "NAK" /\ m.request # "PURGE"
      BY <1>7
    <3> QED BY <1>7, <2>1, <2>2, <3>1, <3>2 DEF Says
  <2> QED BY <1>8, <1>10, <2>3, SaysKeepRule
<1>12. EndRule /\ CallRule(d) /\ Moves1(d)
  <2>1. clients[d] \in SUBSET Proc
    BY DEF BaseInv, TypeOK
  <2>2. \A q \in clients[d] : \A i \in DOMAIN calls'[q] : calls'[q][i].st = "nak" =>
          i \in DOMAIN calls[q] /\ calls[q][i].st = "nak"
    BY <1>5, <1>6, <2>1
  <2> QED BY <1>2, <1>4, <1>10, <2>2 DEF EndRule, CallRule, Moves1
<1>13. \A i : ~Takes(d, i)
  BY <1>10 DEF Takes
<1>14. QueueRule(d) /\ KnownRule(d)
  BY <1>2, <1>13 DEF QueueRule, KnownRule, Same
<1>15. Waits(d, p, n)'
  <2>1. PICK a, o : a = Len(log) + 1 /\ o = m.owner
    OBVIOUS
  <2>2. a \in Index' /\ log'[a] = App(d, m)
    BY <1>10, <2>1, OutEntry
  <2>3. For(a, "LOCK", R, o)'
    <3>1. log'[a].request = "APP" /\ log'[a].body = m
      BY <2>2 DEF App
    <3>2. MsgAt(a, "LOCK", R)'
      BY <1>7, <2>2, <3>1 DEF MsgAt
    <3>3. OwnerAt(a)' = o
      BY <2>1, <3>1 DEF OwnerAt
    <3> QED BY <3>2, <3>3 DEF For
  <2>4. ~(a <= pos'[d])
    BY <1>10, <2>1
  <2>5. n \in DOMAIN calls'[p] /\ calls'[p][n].resource = R
    BY <1>1, <1>3, <1>4
  <2>6. o = Owner(NodeOf[d], p, n)
    BY <1>7, <2>1
  <2> QED BY <2>2, <2>3, <2>4, <2>5, <2>6 DEF Waits
<1>16. AnswerRule(d)
  <2> SUFFICES ASSUME NEW q \in clients[d], NEW i \in DOMAIN calls'[q]
               PROVE  \/ i \in DOMAIN calls[q] /\ calls'[q][i] = calls[q][i]
                      \/ calls'[q][i].st = "wait" /\ Waits(d, q, i)'
    BY <1>2, <1>13 DEF AnswerRule
  <2>1. q \in Proc
    BY DEF BaseInv, TypeOK
  <2> QED BY <1>5, <1>6, <1>15, <2>1
<1>17. KeptRule(d)
  <2> SUFFICES ASSUME NEW S \in Resource, NEW o, Holds(d, S, o) PROVE Holds(d, S, o)'
    BY <1>13 DEF KeptRule
  <2>1. o.pid \in Proc
    BY DEF Holds, BaseInv, TypeOK
  <2> QED BY <1>2, <1>5, <2>1 DEF Holds, CallIs
<1> QED BY <1>9, <1>11, <1>12, <1>14, <1>16, <1>17, HandlerKeepsQueues

LEMMA ClientUnlockQueues ==
  ASSUME BaseInv, BaseInv', TokenInv, QueueInv, NEW d \in Daemon, NEW p \in Proc,
         NEW i \in DOMAIN calls[p], ClientUnlock(p, d, i)
  PROVE  QueueInv'
<1>1. PICK R, o, reqs, Q, out :
        /\ R = calls[p][i].resource /\ o = Owner(NodeOf[d], p, i) /\ reqs = requests[d]
        /\ Q = GrantMarked(reqs, {R}) /\ out = GrantOr(reqs, R, send_unlock(R, o))
  OBVIOUS
<1>2. /\ p \in clients[d] /\ calls[p][i].st = "held"
      /\ UNCHANGED <<locks, local_lockid, clients, ended>>
      /\ calls' = [calls EXCEPT ![p][i].st = "done"]
  BY DEF ClientUnlock, cpg_unlock, CallIs
<1>3. /\ HasToken(p, i, d) /\ R \in Resource
      /\ find_lock_by_id(d, calls[p][i].lockid) = {R}
  BY <1>1, <1>2, HolderFinds
<1>4. locks[d][R].owner = o
  BY <1>1, <1>3 DEF HasToken
<1>5. SetRequests(d, Q) /\ Send(d, out)
  <2>1. (CHOOSE x \in {R} : TRUE) = R
    OBVIOUS
  <2> QED BY <1>1, <1>3, <1>4, <2>1 DEF ClientUnlock
<1>6. PICK g \in Index : LastToken(g, R) /\ g <= pos[d]
  BY <1>1, <1>3 DEF HasToken
<1>7. reqs \in SUBSET Request
  BY <1>1, LocksTyped DEF BaseInv
<1>8. /\ \A q \in Q : \E r \in reqs : Same(q, r)
      /\ \A S, x : Among(Q, S, x) <=> Among(reqs, S, x)
  BY <1>1, <1>7, MarkedSame
<1>9. /\ AtMostOne(out)
      /\ \A x : out = <<x>> =>
           /\ x.resource = R
           /\ \/ x.request = "UNLOCK"
              \/ /\ x.request = "GRANT"
                 /\ \E r \in reqs : r.resource = R /\ r.owner = x.owner
  BY <1>1, UnlockOrGrant
<1>10. /\ \A q \in Proc \ {p} : calls'[q] = calls[q]
       /\ DOMAIN calls'[p] = DOMAIN calls[p]
       /\ \A j \in DOMAIN calls[p] : j # i => calls'[p][j] = calls[p][j]
       /\ calls'[p][i].resource = R /\ calls'[p][i].st = "done"
  <2>1. PICK s, c : s = calls[p] /\ c = [s[i] EXCEPT !.st = "done"]
    OBVIOUS
  <2>2. s[i] \in Call
    BY <2>1, CallTypes
  <2>3. c.resource = R /\ c.st = "done"
    BY <1>1, <2>1, <2>2 DEF Call
  <2>4. calls' = [calls EXCEPT ![p] = [s EXCEPT ![i] = c]]
    BY <1>2, <2>1
  <2>5. /\ calls'[p] = [s EXCEPT ![i] = c]
        /\ \A q \in Proc : q # p => calls'[q] = calls[q]
    BY <2>4 DEF BaseInv, TypeOK
  <2>6. DOMAIN calls'[p] = DOMAIN s /\ \A j \in DOMAIN s : j # i => calls'[p][j] = s[j]
    BY <2>5
  <2>7. calls'[p][i] = c
    BY <2>1, <2>5
  <2> QED BY <2>1, <2>3, <2>5, <2>6, <2>7
<1>11. \A q \in Proc : \A j \in DOMAIN calls[q] :
         /\ j \in DOMAIN calls'[q] /\ calls'[q][j].resource = calls[q][j].resource
         /\ ~(q = p /\ j = i) => calls'[q][j] = calls[q][j]
  BY <1>1, <1>10
<1>12. Frame(d) /\ pos'[d] = pos[d] /\ requests'[d] = Q /\ log' = Mcast(d, out)
       /\ pos[d] \in Nat
  <2>1. requests'[d] = Q /\ \A e \in Daemon \ {d} : requests'[e] = requests[e]
    BY <1>5 DEF SetRequests, BaseInv, TypeOK
  <2>2. \A q \in Proc : \A j \in DOMAIN calls[q] :
          j \in DOMAIN calls'[q] /\ calls'[q][j].resource = calls[q][j].resource
    BY <1>11
  <2>3. Frame(d)
    BY <1>2, <1>5, <1>9, <2>1, <2>2, HandlerFrame
  <2> QED BY <1>5, <2>1, <2>3, HandlerMovesOn, Positions
<1>13. SendRule
  <2>1. ASSUME NEW x, out = <<x>> PROVE Says(x)
    <3>1. CASE x.request = "UNLOCK"
      BY <3>1 DEF Says
    <3>2. CASE x.request = "GRANT" /\ \E r \in reqs : r.resource = R /\ r.owner = x.owner
      <4>1. PICK r \in reqs : r.resource = R /\ r.owner = x.owner
        BY <3>2
      <4>2. /\ For(r.at, "LOCK", R, r.owner)
            /\ \A h \in Index : For(h, "GRANT", R, r.owner) => pos[d] < h
        BY <1>1, <4>1, QueuedSays DEF QueueInv
      <4>3. \A k \in Index : Token(k, R) => k <= pos[d]
        <5> SUFFICES ASSUME NEW k \in Index, Token(k, R) PROVE k <= pos[d]
          OBVIOUS
        <5>1. k <= g /\ k \in Nat /\ g \in Nat
          BY <1>6, Positions DEF LastToken
        <5> QED BY <1>6, <1>12, <5>1
      <4>4. x.resource = R
        BY <1>9, <2>1
      <4> QED BY <1>3, <1>12, <3>2, <4>1, <4>2, <4>3, <4>4, GrantSays
    <3> QED BY <1>9, <2>1, <3>1, <3>2
  <2> QED BY <1>9, <1>12, <2>1, SaysKeepRule
<1>14. EndRule /\ CallRule(d) /\ Moves1(d)
  <2>1. \A q \in clients[d] : q \in Proc
    BY DEF BaseInv, TypeOK
  <2>2. \A q \in clients[d] : \A j \in DOMAIN calls'[q] : calls'[q][j].st = "nak" =>
          j \in DOMAIN calls[q] /\ calls[q][j].st = "nak"
    BY <1>10, <2>1
  <2> QED BY <1>2, <1>10, <1>12, <2>2 DEF EndRule, CallRule, Moves1
<1>15. \A k : ~Takes(d, k)
  BY <1>12 DEF Takes
<1>16. QueueRule(d) /\ KnownRule(d)
  BY <1>1, <1>8, <1>12, <1>15 DEF QueueRule, KnownRule
<1>17. AnswerRule(d)
  <2> SUFFICES ASSUME NEW q \in clients[d], NEW j \in DOMAIN calls'[q]
               PROVE  /\ j \in DOMAIN calls[q]
                      /\ \/ calls'[q][j] = calls[q][j]
                         \/ calls'[q][j].st = "done" /\ calls[q][j].st = "held"
                      /\ \A S, x : Among(requests[d], S, x) => Among(requests'[d], S, x)
                      /\ \A k : ~Takes(d, k)
    BY <1>2 DEF AnswerRule
  <2>1. q \in Proc
    BY DEF BaseInv, TypeOK
  <2>2. \A S, x : Among(requests[d], S, x) => Among(requests'[d], S, x)
    BY <1>1, <1>8, <1>12
  <2>3. /\ j \in DOMAIN calls[q]
        /\ \/ calls'[q][j] = calls[q][j]
           \/ calls'[q][j].st = "done" /\ calls[q][j].st = "held"
    BY <1>2, <1>10, <2>1
  <2> QED BY <1>15, <2>2, <2>3
<1>18. KeptRule(d)
  <2> SUFFICES ASSUME NEW h \in Index, NEW S \in Resource, NEW x, For(h, "GRANT", S, x),
                      \A k \in Index' \ Index : ~Token(k, S)', Holds(d, S, x)
               PROVE  Holds(d, S, x)'
    BY <1>15 DEF KeptRule
  <2>1. S # R
    <3> SUFFICES ASSUME S = R PROVE FALSE
      OBVIOUS
    <3>1. \E y : out = <<y>>
      BY <1>1 DEF GrantOr, send_unlock
    <3>2. PICK y : out = <<y>> /\ y.resource = R /\ y.request \in {"GRANT", "UNLOCK"}
      BY <1>9, <3>1
    <3>3. \E k \in Index' \ Index : Token(k, R)'
      BY <1>12, <3>2, TokenSent
    <3> QED BY <3>3
  <2>2. OfCall(x, S)
    BY DEF For, Token, TokenInv, Asked
  <2>3. x.pid \in Proc /\ x.tid \in DOMAIN calls[x.pid] /\ ~(x.pid = p /\ x.tid = i)
    BY <1>1, <2>1, <2>2 DEF OfCall
  <2> QED BY <1>2, <1>11, <2>3 DEF Holds, CallIs
<1> QED BY <1>12, <1>13, <1>14, <1>16, <1>17, <1>18, HandlerKeepsQueues

-----------------------------------------------------------------------------
(***************************************************************************)
(* The invariant.                                                          *)
(***************************************************************************)
LEMMA QueueStep ==
  ASSUME Payload = LockMsg, MembersStay, BaseInv, TokenInv, QueueInv, Next
  PROVE  QueueInv'
<1>0. BaseInv'
  BY BaseStep
<1>1. PICK d \in Daemon : \/ Start(d) \/ Deliver(d)
                          \/ CleanShutdown(d) \/ NodeCrash(d) \/ CpgLost(d)
                          \/ \E p \in Proc : ClientStep(p, d)
  BY DEF Next
<1>2. NobodyGone
  BY DEF TokenInv
<1>3. CASE Start(d)
  BY <1>0, <1>3, StartSteps, GroupStepQueues
<1>4. CASE Deliver(d)
  <2>1. CASE IgnoreBeforeJoin(d)
    BY <1>0, <2>1, IgnoreSteps, GroupStepQueues
  <2>2. CASE process_lock(d)
    BY <1>0, <2>2, LockQueues
  <2>3. CASE process_grant_local(d)
    BY <1>0, <2>3, GrantLocalQueues
  <2>4. CASE process_grant_remote(d) \/ process_grant_unknown(d)
    BY <1>0, <2>4, GrantElsewhereQueues
  <2>5. CASE process_nak(d)
    BY <1>0, <2>5, NakQueues
  <2>6. CASE process_unlock(d)
    BY <1>0, <2>6, UnlockQueues
  <2>7. CASE process_purge(d)
    BY <1>0, <2>7, PurgeQueues
  <2>8. CASE MemberLeaves(d)
    BY <1>2, <2>8, NobodyGoes
  <2>9. CASE NobodyLeaves(d) \/ DeliverJoin(d) \/ DeliverNothing(d)
    BY <1>0, <2>9, DispatchSteps, GroupStepQueues
  <2> QED BY <1>4, <2>1, <2>2, <2>3, <2>4, <2>5, <2>6, <2>7, <2>8, <2>9 DEF Deliver
<1>5. ASSUME NEW p \in Proc, ClientStep(p, d) PROVE QueueInv'
  <2>1. CASE Connect(p, d)
    BY <1>0, <2>1, ConnectQueues
  <2>2. CASE \E R \in Resource : ClientLock(p, d, R)
    BY <1>0, <2>2, ClientLockQueues
  <2>3. CASE \E i \in DOMAIN calls[p] : ClientUnlock(p, d, i)
    BY <1>0, <2>3, ClientUnlockQueues
  <2>4. CASE ClientExit(p, d)
    BY <1>0, <2>4, ClientExitQueues
  <2> QED BY <1>5, <2>1, <2>2, <2>3, <2>4 DEF ClientStep
<1> QED BY <1>1, <1>2, <1>3, <1>4, <1>5, NobodyGoes

\* At first there are no messages, requests, clients or calls.
LEMMA QueueInit ==
  ASSUME Init
  PROVE  QueueInv
<1>1. \A i \in Index : log[i].request # "APP"
  <2>1. log = InitLog /\ InitGroup \in Seq(Daemon) /\ Len(InitGroup) \in Nat
    BY GroupAssumption, LenProperties DEF Init, GInit
  <2>2. \A i \in DOMAIN InitLog : InitLog[i].request # "APP"
    BY DEF InitLog, ConfChg, JoinMsg
  <2>3. Len(InitLog) = 2 * Len(InitGroup) /\ DOMAIN InitLog = 1..2 * Len(InitGroup)
    BY InitLogProperties, <2>1 DEF InitLog
  <2> QED BY <2>1, <2>2, <2>3 DEF Index
<1>2. /\ \A i \in Index : \A q, R : ~MsgAt(i, q, R)
      /\ \A d \in Daemon : requests[d] = {} /\ clients[d] = {}
      /\ \A p \in Proc : calls[p] = <<>>
      /\ cpg \subseteq Daemon
  BY <1>1, BaseInit DEF MsgAt, Init, BaseInv, TypeOK, GTypeOK
<1>3. OneLock /\ OneGrant /\ Purging
  BY <1>1, <1>2 DEF OneLock, OneGrant, Purging
<1>4. Refusals /\ Callers
  BY <1>2 DEF Refusals, Callers
<1>5. \A d \in Daemon : Queue(d) /\ Answers(d)
  BY <1>2 DEF Queue, Answers
<1>6. \A d \in cpg : OwnKnown(d) /\ Kept(d)
  BY <1>2 DEF OwnKnown, Kept
<1> QED BY <1>3, <1>4, <1>5, <1>6 DEF QueueInv

LEMMA QueueStutter ==
  ASSUME QueueInv, UNCHANGED vars
  PROVE  QueueInv'
<1>0. /\ UNCHANGED <<cpg, log, pos>>
      /\ UNCHANGED <<locks, requests, clients, calls, ended>>
  BY DEF vars, lockVars, gvars
<1>1. /\ Index' = Index
      /\ \A i, q, R : MsgAt(i, q, R)' <=> MsgAt(i, q, R)
      /\ \A i, R : Token(i, R)' <=> Token(i, R)
      /\ \A i : OwnerAt(i)' = OwnerAt(i)
      /\ \A i, q, R, o : For(i, q, R, o)' <=> For(i, q, R, o)
      /\ \A i, o : PurgeAt(i, o)' <=> PurgeAt(i, o)
  BY <1>0 DEF Index, MsgAt, Token, OwnerAt, For, PurgeAt
<1>2. OneLock' /\ OneGrant'
  BY <1>1 DEF QueueInv, OneLock, OneGrant
<1>3. Refusals' /\ Purging' /\ Callers'
  BY <1>0, <1>1 DEF QueueInv, Refusals, Purging, Callers
<1>4. \A d \in Daemon : Queue(d)'
  BY <1>0, <1>1 DEF QueueInv, Queue
<1>5. \A d \in Daemon : Answers(d)'
  BY <1>0, <1>1 DEF QueueInv, Answers, Waits, Given
<1>6. \A d \in cpg : OwnKnown(d)' /\ Kept(d)'
  BY <1>0, <1>1 DEF QueueInv, OwnKnown, Kept, LastToken, Holds, CallIs
<1> QED BY <1>0, <1>2, <1>3, <1>4, <1>5, <1>6 DEF QueueInv

(***************************************************************************)
(* The queues stay made of LOCK messages that wait for their GRANT, and    *)
(* whoever the last GRANT names is a connected client that was told        *)
(* (queue_request, grant_next, grant_client, purge_requests).              *)
(***************************************************************************)
THEOREM QueueInductive ==
  ASSUME Payload = LockMsg, MembersStay
  PROVE  Spec => [](BaseInv /\ TokenInv /\ QueueInv)
<1>1. Spec => [](BaseInv /\ TokenInv)
  BY TokenInductive
<1>2. Init => QueueInv
  BY QueueInit
<1>3. ASSUME BaseInv, TokenInv, QueueInv, [Next]_vars PROVE QueueInv'
  BY <1>3, QueueStep, QueueStutter
<1> QED BY <1>1, <1>2, <1>3, PTL DEF Spec

(***************************************************************************)
(* No request is lost: once every message has been dispatched, whoever     *)
(* still waits in cpg_lock is in the queue of its own daemon, whatever     *)
(* purge_requests and the matching of GRANT and NAK took out of it.        *)
(***************************************************************************)
THEOREM NoRequestLost ==
  ASSUME Payload = LockMsg, MembersStay
  PROVE  Spec => []RequestsKept
<1>1. Spec => [](BaseInv /\ TokenInv /\ QueueInv)
  BY QueueInductive
<1>2. ASSUME BaseInv, TokenInv, QueueInv PROVE RequestsKept
  <2> SUFFICES ASSUME Settled, NEW R \in Resource, NEW c \in CallsOn(R, "wait"),
                      NEW d \in Daemon, c[1] \in clients[d]
               PROVE  \E r \in requests[d] :
                        r.resource = R /\ r.owner = Owner(NodeOf[d], c[1], c[2])
    BY DEF RequestsKept
  <2>1. PICK p \in Proc \ ended : \E i \in DOMAIN calls[p] :
          c = <<p, i>> /\ calls[p][i].st = "wait" /\ calls[p][i].resource = R
    BY DEF CallsOn
  <2>2. PICK i \in DOMAIN calls[p] :
          c = <<p, i>> /\ calls[p][i].st = "wait" /\ calls[p][i].resource = R
    BY <2>1
  <2>3. c[1] = p /\ c[2] = i /\ p \in clients[d]
    BY <2>2
  <2>4. Waits(d, p, i)
    BY <1>2, <2>2, <2>3 DEF QueueInv, Answers
  <2>5. PICK a \in Index : a <= pos[d] =>
          \E r \in requests[d] : r.resource = R /\ r.owner = Owner(NodeOf[d], p, i)
    BY <2>2, <2>4 DEF Waits
  <2>6. d \in cpg
    BY <1>2, <2>3, OneDaemon
  <2>7. a <= pos[d]
    BY <2>6 DEF Settled, Index
  <2> QED BY <2>3, <2>5, <2>7
<1> QED BY <1>1, <1>2, PTL

\* Whom a member records as holder, once all is dispatched, its own daemon
\* has as a holder too.
LEMMA SettledHolder ==
  ASSUME BaseInv, TokenInv, QueueInv, Settled, NEW R \in Resource, NEW d \in cpg,
         NEW o, locks[d][R].state = "HELD", o = locks[d][R].owner
  PROVE  \E e \in cpg : Holds(e, R, o) /\ o.node = NodeOf[e] /\ OfCall(o, R)
<1>0. cpg \subseteq Daemon /\ d \in Daemon /\ Index = 1..Len(log) /\ Len(log) \in Nat
  BY LenProperties DEF BaseInv, TypeOK, GTypeOK, Index
<1>1. Record(d, R)
  BY <1>0 DEF TokenInv, Records
<1>2. PICK g \in Index :
        /\ MsgAt(g, "GRANT", R) /\ OwnerAt(g) = o
        /\ \A k \in Index : Token(k, R) /\ k <= pos[d] => k <= g
  BY <1>1 DEF Record
<1>3. LastToken(g, R) /\ g \in Nat /\ g <= Len(log)
  BY <1>0, <1>2 DEF Settled, LastToken, Token
<1>4. OfCall(o, R) /\ NodeJoined(o.node, g)
  BY <1>2 DEF TokenInv, Asked, Token
<1>5. PICK e \in cpg : NodeOf[e] = o.node
  BY <1>4 DEF NodeJoined
<1>6. g <= pos[e]
  BY <1>3 DEF Settled
<1>7. Holds(e, R, o)
  BY <1>2, <1>3, <1>5, <1>6 DEF QueueInv, Kept
<1> QED BY <1>4, <1>5, <1>7

(***************************************************************************)
(* "Warning: drops all locks with this client": nothing of a process that  *)
(* has closed its handle or exited is kept by any member (del_client, and  *)
(* process_grant for a client that is gone).                               *)
(***************************************************************************)
THEOREM FinDrops ==
  ASSUME Payload = LockMsg, MembersStay
  PROVE  Spec => []FinDropsLocks
<1>1. Spec => [](BaseInv /\ TokenInv /\ QueueInv)
  BY QueueInductive
<1>2. ASSUME BaseInv, TokenInv, QueueInv PROVE FinDropsLocks
  <2> SUFFICES ASSUME Settled, NEW d \in cpg
               PROVE  /\ \A R \in Resource :
                           locks[d][R].state = "HELD" => locks[d][R].owner.pid \notin ended
                      /\ \A r \in requests[d] : r.owner.pid \notin ended
    BY DEF FinDropsLocks
  <2>0. cpg \subseteq Daemon
    BY <1>2 DEF BaseInv, TypeOK, GTypeOK
  <2>1. ASSUME NEW R \in Resource, locks[d][R].state = "HELD"
        PROVE  locks[d][R].owner.pid \notin ended
    <3>1. PICK e \in cpg : Holds(e, R, locks[d][R].owner)
      BY <1>2, <2>1, SettledHolder
    <3>2. locks[d][R].owner.pid \in clients[e]
      BY <3>1 DEF Holds
    <3> QED BY <1>2, <2>0, <3>2, OneDaemon
  <2>2. ASSUME NEW r \in requests[d], r.owner.pid \in ended PROVE FALSE
    <3>1. PICK k \in Index : pos[d] < k
      BY <1>2, <2>0, <2>2 DEF QueueInv, Queue
    <3>2. k \in Nat /\ k <= Len(log) /\ pos[d] = Len(log) /\ Len(log) \in Nat
      BY <1>2, LenProperties DEF Settled, Index, BaseInv, TypeOK, GTypeOK
    <3> QED BY <3>1, <3>2
  <2> QED BY <2>1, <2>2
<1> QED BY <1>1, <1>2, PTL

(***************************************************************************)
(* The daemons agree on who holds a lock, and it is a call that was told   *)
(* so.  Not with FL_TRY: a refused request stays queued until its NAK      *)
(* comes back, and may be granted before that (process_lock, process_nak). *)
(***************************************************************************)
THEOREM OneOwner ==
  ASSUME Payload = LockMsg, MembersStay, Triers = {}
  PROVE  Spec => []OwnersAgree
<1>1. Spec => [](BaseInv /\ TokenInv /\ QueueInv)
  BY QueueInductive
<1>2. ASSUME BaseInv, TokenInv, QueueInv PROVE OwnersAgree
  <2> SUFFICES ASSUME Settled, NEW R \in Resource, NEW d \in cpg,
                      locks[d][R].state = "HELD"
               PROVE  \E c \in CallsOn(R, "held") :
                        locks[d][R].owner = Owner(ProcNode[c[1]], c[1], c[2])
    BY DEF OwnersAgree
  <2>0. cpg \subseteq Daemon
    BY <1>2 DEF BaseInv, TypeOK, GTypeOK
  <2>1. PICK o, p, i : o = locks[d][R].owner /\ p = o.pid /\ i = o.tid
    OBVIOUS
  <2>2. PICK e \in cpg : Holds(e, R, o) /\ o.node = NodeOf[e] /\ OfCall(o, R)
    BY <1>2, <2>1, SettledHolder
  <2>3. p \in clients[e] /\ (CallIs(p, i, "held") \/ CallIs(p, i, "nak"))
    BY <2>1, <2>2 DEF Holds
  <2>4. p \in Proc \ ended /\ NodeOf[e] = ProcNode[p]
    BY <1>2, <2>0, <2>3, OneDaemon
  <2>5. CallIs(p, i, "held")
    BY <1>2, <2>3, <2>4 DEF QueueInv, Refusals, CallIs
  <2>6. PICK c : c = <<p, i>>
    OBVIOUS
  <2>7. c \in CallsOn(R, "held")
    <3>1. i \in DOMAIN calls[p] /\ calls[p][i].st = "held" /\ calls[p][i].resource = R
      BY <2>1, <2>2, <2>5 DEF OfCall, CallIs
    <3> QED BY <2>4, <2>6, <3>1 DEF CallsOn
  <2>8. o = Owner(ProcNode[p], p, i)
    <3>1. locks[d][R] \in LockRecord
      BY <1>2, <2>0, LocksTyped DEF BaseInv
    <3>2. o \in Owners
      BY <2>1, <3>1 DEF LockRecord
    <3> QED BY <2>1, <2>2, <2>4, <3>2 DEF Owners, Owner
  <2> QED BY <2>1, <2>6, <2>7, <2>8
<1> QED BY <1>1, <1>2, PTL

=============================================================================
