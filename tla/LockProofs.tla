----------------------------- MODULE LockProofs -----------------------------
(***************************************************************************)
(* Proofs about the locks of module Cpglockd: mutual exclusion, and that   *)
(* an unlock finds the lock, for any number of nodes, daemons, processes,  *)
(* locks and calls, as long as members of the group stay (MembersStay).    *)
(***************************************************************************)
EXTENDS CpglockdProofs, LockInv

-----------------------------------------------------------------------------
(***************************************************************************)
(* What every step of a daemon d or of one of its clients does.            *)
(***************************************************************************)
LogGrows == Len(log) <= Len(log)' /\ \A i \in Index : log'[i] = log[i]

\* The others keep what they have, and nothing known is forgotten.
Frame(d) ==
  /\ LogGrows
  /\ cpg \subseteq cpg'
  /\ \A e \in cpg' \ cpg : pos'[e] = Len(log)
  /\ \A e \in Daemon : pos[e] <= pos'[e] /\ pos'[e] <= Len(log)
  /\ \A e \in Daemon \ {d} :
       /\ locks'[e] = locks[e] /\ local_lockid'[e] = local_lockid[e]
       /\ requests'[e] = requests[e] /\ clients'[e] = clients[e]
       /\ pos'[e] = pos[e] /\ joined'[e] = joined[e]
  /\ \A R \in Resource : locks[d][R].state # "NONE" => locks'[d][R].state # "NONE"
  /\ \A p \in Proc : \A i \in DOMAIN calls[p] :
       i \in DOMAIN calls'[p] /\ calls'[p][i].resource = calls[p][i].resource

\* The daemon that sends the next token of S: the owner's, which has
\* dispatched the last one, or the first to join if there is none.
Entitled(d, S, i) ==
  \/ /\ \A k \in Index : ~Token(k, S)
     /\ MsgAt(i, "GRANT", S)'
     /\ FirstJoiner(d) /\ locks'[d][S].state # "NONE"
  \/ \E g \in Index :
       /\ LastToken(g, S) /\ OwnerAt(g).node = NodeOf[d] /\ d \in cpg /\ g <= pos'[d]
       /\ MsgAt(i, "UNLOCK", S)' => MsgAt(g, "GRANT", S) /\ OwnerAt(g) = OwnerAt(i)'

OwnFree(d, l) == l.state = "FREE" /\ l.owner.node = NodeOf[d]

\* A step that adds a token of S.
TokenRule(d) ==
  \A S \in Resource : \A i \in Index' \ Index : Token(i, S)' =>
    /\ \A k \in Index' : k <= i
    /\ \A k \in Index' \ Index : k = i
    /\ Entitled(d, S, i)
    /\ ~OwnFree(d, locks'[d][S])
    /\ \A p \in Proc \ ended' : \A j \in DOMAIN calls'[p] :
         calls'[p][j].resource = S => calls'[p][j].st # "held"

\* Messages are about calls, and so are the requests d queues.
AskedRule(d) ==
  /\ \A i \in Index' \ Index, R \in Resource : MsgAt(i, "LOCK", R)' \/ Token(i, R)' =>
       OfCall(OwnerAt(i), R)' /\ NodeJoined((OwnerAt(i)').node, Len(log))
  /\ \A r \in requests'[d] :
       OfCall(r.owner, r.resource)' /\ NodeJoined(r.owner.node, pos'[d])

\* A call that holds a lock held it before, or has just been given it by d.
HolderRule(d) ==
  \A p \in Proc \ ended' : \A i \in DOMAIN calls'[p] : calls'[p][i].st = "held" =>
    \/ HasToken(p, i, d)'
    \/ /\ p \notin ended /\ i \in DOMAIN calls[p] /\ calls'[p][i] = calls[p][i]
       /\ p \in clients[d] => p \in clients'[d]
       /\ HasToken(p, i, d) =>
            locks'[d][calls[p][i].resource] = locks[d][calls[p][i].resource]

-----------------------------------------------------------------------------
(***************************************************************************)
(* A step of that kind keeps the invariant.                                *)
(***************************************************************************)

\* Positions, before and after.
LEMMA Positions ==
  ASSUME BaseInv, BaseInv'
  PROVE  /\ Len(log) \in Nat /\ Len(log)' \in Nat
         /\ Index \subseteq Nat /\ Index' \subseteq Nat
         /\ Index = 1..Len(log) /\ Index' = 1..Len(log)'
         /\ \A e \in Daemon : /\ pos[e] \in Nat /\ pos'[e] \in Nat
                              /\ pos[e] <= Len(log) /\ pos'[e] <= Len(log)'
         /\ cpg \subseteq Daemon /\ cpg' \subseteq Daemon
<1>1. Len(log) \in Nat /\ Len(log)' \in Nat
  BY LenProperties DEF BaseInv, TypeOK, GTypeOK
<1>2. Index = 1..Len(log) /\ Index' = 1..Len(log)'
  BY DEF Index
<1>3. \A e \in Daemon : View(e) /\ View(e)'
  BY DEF BaseInv, IndInv, ViewInv
<1> QED BY <1>1, <1>2, <1>3 DEF BaseInv, TypeOK, GTypeOK, View, Progress

\* Entries there were are still there.
LEMMA OldEntries ==
  ASSUME BaseInv, BaseInv', NEW d \in Daemon, Frame(d)
  PROVE  /\ Index \subseteq Index'
         /\ \A i \in Index : log'[i] = log[i] /\ OwnerAt(i)' = OwnerAt(i)
         /\ \A i \in Index : \A q, R : MsgAt(i, q, R)' <=> MsgAt(i, q, R)
         /\ \A i \in Index : \A R : Token(i, R)' <=> Token(i, R)
         /\ \A i \in Index : \A e : JoinAt(i, e)' <=> JoinAt(i, e)
         /\ \A i \in Index' \ Index : Len(log) < i
<1>1. Index \subseteq Index' /\ \A i \in Index' \ Index : Len(log) < i
  BY Positions DEF Frame, LogGrows
<1>2. \A i \in Index : log'[i] = log[i]
  BY DEF Frame, LogGrows
<1>3. \A i \in Index : OwnerAt(i)' = OwnerAt(i)
  BY <1>2 DEF OwnerAt
<1>4. \A i \in Index : \A q, R : MsgAt(i, q, R)' <=> MsgAt(i, q, R)
  BY <1>1, <1>2 DEF MsgAt
<1>5. \A i \in Index : \A R : Token(i, R)' <=> Token(i, R)
  BY <1>4 DEF Token
<1>6. \A i \in Index : \A e : JoinAt(i, e)' <=> JoinAt(i, e)
  BY <1>1, <1>2 DEF JoinAt, Index
<1> QED BY <1>1, <1>2, <1>3, <1>4, <1>5, <1>6

\* Calls and members there were are still there.
LEMMA AskedOnce ==
  ASSUME BaseInv, BaseInv', NEW d \in Daemon, Frame(d)
  PROVE  /\ \A o, R : OfCall(o, R) => OfCall(o, R)'
         /\ \A n : \A k, m \in Nat : NodeJoined(n, k) /\ k <= m => NodeJoined(n, m)'
<1>1. ASSUME NEW o, NEW R, OfCall(o, R) PROVE OfCall(o, R)'
  BY <1>1 DEF OfCall, Frame
<1>2. ASSUME NEW n, NEW k \in Nat, NEW m \in Nat, NodeJoined(n, k), k <= m
      PROVE  NodeJoined(n, m)'
  <2>1. PICK e \in cpg, j \in Index : NodeOf[e] = n /\ JoinAt(j, e) /\ j <= k
    BY <1>2 DEF NodeJoined
  <2>2. e \in cpg' /\ j \in Index' /\ JoinAt(j, e)' /\ j <= m
    BY <1>2, <2>1, OldEntries, Positions DEF Frame
  <2> QED BY <2>1, <2>2 DEF NodeJoined
<1> QED BY <1>1, <1>2

LEMMA AskedKept ==
  ASSUME BaseInv, BaseInv', Asked, NEW d \in Daemon, Frame(d), AskedRule(d)
  PROVE  Asked'
<1>1. ASSUME NEW i \in Index', NEW R \in Resource, MsgAt(i, "LOCK", R)' \/ Token(i, R)'
      PROVE  OfCall(OwnerAt(i), R)' /\ NodeJoined(OwnerAt(i).node, i)'
  <2>1. PICK o : o = OwnerAt(i)'
    OBVIOUS
  <2>2. CASE i \in Index
    <3>1. MsgAt(i, "LOCK", R) \/ Token(i, R)
      BY <1>1, <2>2, OldEntries
    <3>2. o = OwnerAt(i) /\ i \in Nat
      BY <2>1, <2>2, OldEntries, Positions
    <3>3. OfCall(o, R) /\ NodeJoined(o.node, i)
      BY <2>2, <3>1, <3>2 DEF Asked
    <3>4. OfCall(o, R)' /\ NodeJoined(o.node, i)'
      BY <3>2, <3>3, AskedOnce
    <3> QED BY <2>1, <3>4 DEF OfCall, NodeJoined
  <2>3. CASE i \notin Index
    <3>1. OfCall(OwnerAt(i), R)' /\ NodeJoined(o.node, Len(log))
      BY <1>1, <2>1, <2>3 DEF AskedRule
    <3>2. Len(log) <= i /\ i \in Nat /\ Len(log) \in Nat
      BY <2>3, OldEntries, Positions
    <3>3. NodeJoined(o.node, i)'
      BY <3>1, <3>2, AskedOnce
    <3> QED BY <2>1, <3>1, <3>3 DEF NodeJoined
  <2> QED BY <2>2, <2>3
<1>2. ASSUME NEW e \in Daemon, NEW r \in requests'[e]
      PROVE  OfCall(r.owner, r.resource)' /\ NodeJoined(r.owner.node, pos[e])'
  <2>1. PICK k \in Nat : k = pos'[e]
    BY Positions
  <2>2. OfCall(r.owner, r.resource)' /\ NodeJoined(r.owner.node, k)
    <3>1. CASE e = d
      BY <1>2, <2>1, <3>1 DEF AskedRule
    <3>2. CASE e # d
      <4>1. r \in requests[e] /\ pos[e] = k
        BY <1>2, <2>1, <3>2 DEF Frame
      <4>2. OfCall(r.owner, r.resource) /\ NodeJoined(r.owner.node, pos[e])
        BY <4>1 DEF Asked
      <4> QED BY <4>1, <4>2, AskedOnce
    <3> QED BY <3>1, <3>2
  <2>3. NodeJoined(r.owner.node, k)'
    BY <2>2, AskedOnce
  <2> QED BY <2>1, <2>2, <2>3 DEF NodeJoined
<1> QED BY <1>1, <1>2 DEF Asked

\* The last token stays the last one, unless there is a new one.
LEMMA LastKept ==
  ASSUME BaseInv, BaseInv', NEW d \in Daemon, Frame(d), NEW R, NEW g, LastToken(g, R),
         \A i \in Index' \ Index : ~Token(i, R)'
  PROVE  LastToken(g, R)'
<1>1. g \in Index
  BY DEF LastToken, Token, MsgAt
<1>2. \A k \in Index' : Token(k, R)' => k \in Index /\ Token(k, R)
  BY OldEntries
<1> QED BY <1>1, <1>2, OldEntries DEF LastToken

LEMMA PairedKept ==
  ASSUME BaseInv, BaseInv', Paired, NEW d \in Daemon, Frame(d), TokenRule(d)
  PROVE  Paired'
<1> SUFFICES ASSUME NEW u \in Index', NEW R \in Resource, MsgAt(u, "UNLOCK", R)'
             PROVE  \E g \in Index' :
                      /\ MsgAt(g, "GRANT", R)' /\ g < u /\ OwnerAt(g)' = OwnerAt(u)'
                      /\ \A k \in Index' : Token(k, R)' => k <= g \/ u <= k
  BY DEF Paired
<1>0. Index \subseteq Nat /\ Index' \subseteq Nat /\ Len(log) \in Nat /\ Index = 1..Len(log)
  BY Positions
<1>1. CASE u \in Index
  <2>1. MsgAt(u, "UNLOCK", R)
    BY <1>1, OldEntries
  <2>2. PICK g \in Index :
          /\ MsgAt(g, "GRANT", R) /\ g < u /\ OwnerAt(g) = OwnerAt(u)
          /\ \A k \in Index : Token(k, R) => k <= g \/ u <= k
    BY <1>1, <2>1 DEF Paired
  <2>3. ASSUME NEW k \in Index', Token(k, R)' PROVE k <= g \/ u <= k
    <3>1. CASE k \in Index
      BY <2>2, <2>3, <3>1, OldEntries
    <3>2. CASE k \notin Index
      BY <1>0, <1>1, <3>2, OldEntries
    <3> QED BY <3>1, <3>2
  <2> QED BY <1>1, <2>2, <2>3, OldEntries
<1>2. CASE u \notin Index
  <2>1. Token(u, R)'
    BY DEF Token
  <2>2. /\ \A k \in Index' \ Index : k = u
        /\ Entitled(d, R, u)
    BY <1>2, <2>1 DEF TokenRule
  <2>3. ~MsgAt(u, "GRANT", R)'
    BY DEF MsgAt
  <2>4. PICK g \in Index :
          LastToken(g, R) /\ MsgAt(g, "GRANT", R) /\ OwnerAt(g) = OwnerAt(u)'
    BY <2>2, <2>3 DEF Entitled
  <2>5. ASSUME NEW k \in Index', Token(k, R)' PROVE k <= g \/ u <= k
    <3>1. CASE k \in Index
      BY <2>4, <2>5, <3>1, OldEntries DEF LastToken
    <3>2. CASE k \notin Index
      BY <1>0, <2>2, <3>2
    <3> QED BY <3>1, <3>2
  <2>6. g < u /\ g \in Index' /\ MsgAt(g, "GRANT", R)' /\ OwnerAt(g)' = OwnerAt(u)'
    BY <1>0, <1>2, <2>4, OldEntries
  <2> QED BY <2>5, <2>6
<1> QED BY <1>1, <1>2

LEMMA AtOwnerKept ==
  ASSUME BaseInv, BaseInv', AtOwner, NEW d \in Daemon, Frame(d), TokenRule(d)
  PROVE  AtOwner'
<1> SUFFICES ASSUME NEW i \in Index', NEW R \in Resource, NEW e \in cpg',
                    Token(i, R)', (OwnerAt(i)').node = NodeOf[e], pos'[e] < i
             PROVE  LastToken(i, R)'
  BY DEF AtOwner
<1>0. /\ Index \subseteq Nat /\ Index' \subseteq Nat /\ Len(log) \in Nat
      /\ Index = 1..Len(log) /\ e \in Daemon /\ cpg \subseteq Daemon
      /\ pos[e] \in Nat /\ pos'[e] \in Nat /\ pos[e] <= pos'[e]
  BY Positions DEF Frame
<1>1. CASE i \notin Index
  <2>1. \A k \in Index' : k <= i
    BY <1>1 DEF TokenRule
  <2> QED BY <2>1 DEF LastToken
<1>2. CASE i \in Index
  <2>1. Token(i, R) /\ OwnerAt(i).node = NodeOf[e]
    BY <1>2, OldEntries
  <2>2. e \in cpg
    BY <1>0, <1>2 DEF Frame
  <2>3. pos[e] < i
    BY <1>0, <1>2
  <2>4. LastToken(i, R)
    BY <1>2, <2>1, <2>2, <2>3 DEF AtOwner
  <2>5. ASSUME NEW t \in Index' \ Index, Token(t, R)' PROVE FALSE
    <3>1. Entitled(d, R, t)
      BY <2>5 DEF TokenRule
    <3>2. PICK g \in Index :
            LastToken(g, R) /\ OwnerAt(g).node = NodeOf[d] /\ d \in cpg /\ g <= pos'[d]
      BY <1>2, <2>1, <3>1 DEF Entitled
    <3>3. g = i
      BY <1>0, <1>2, <2>4, <3>2 DEF LastToken
    <3>4. e = d
      BY <2>1, <2>2, <3>2, <3>3 DEF BaseInv, IndInv, LogInv, Members
    <3> QED BY <1>0, <1>2, <3>2, <3>3, <3>4
  <2> QED BY <2>4, <2>5, LastKept
<1> QED BY <1>1, <1>2

\* There is one first JOIN, and it stays the first.
LEMMA FirstStays ==
  ASSUME BaseInv, BaseInv', NEW d \in Daemon, Frame(d), NEW f \in Daemon, FirstJoiner(f)',
         NEW j \in Index, NEW e \in Daemon, JoinAt(j, e)
  PROVE  FirstJoiner(f)
<1>1. PICK m \in Index' :
        JoinAt(m, f)' /\ \A i \in Index', x \in Daemon : JoinAt(i, x)' => m <= i
  BY DEF FirstJoiner
<1>2. m <= j
  BY <1>1, OldEntries
<1>3. m \in Index
  BY <1>2, Positions
<1>4. JoinAt(m, f) /\ \A i \in Index, x \in Daemon : JoinAt(i, x) => m <= i
  BY <1>1, <1>3, OldEntries
<1> QED BY <1>3, <1>4 DEF FirstJoiner

LEMMA OneFirst ==
  ASSUME BaseInv, NEW d \in Daemon, NEW e \in Daemon, FirstJoiner(d), FirstJoiner(e)
  PROVE  d = e
<1>1. PICK i \in Index : JoinAt(i, d) /\ \A k \in Index, x \in Daemon : JoinAt(k, x) => i <= k
  BY DEF FirstJoiner
<1>2. PICK j \in Index : JoinAt(j, e) /\ \A k \in Index, x \in Daemon : JoinAt(k, x) => j <= k
  BY DEF FirstJoiner
<1>3. i <= j /\ j <= i /\ i \in Int /\ j \in Int
  BY <1>1, <1>2 DEF Index
<1>4. i = j
  BY <1>3
<1> QED BY <1>1, <1>2, <1>4 DEF JoinAt

LEMMA FirstKnowsKept ==
  ASSUME BaseInv, BaseInv', Asked, FirstKnows, NEW d \in Daemon, Frame(d), TokenRule(d)
  PROVE  FirstKnows'
<1> SUFFICES ASSUME NEW i \in Index', NEW R \in Resource, NEW f \in Daemon,
                    Token(i, R)', FirstJoiner(f)'
             PROVE  locks'[f][R].state # "NONE"
  BY DEF FirstKnows
<1>1. ASSUME NEW k \in Index, Token(k, R) PROVE locks'[f][R].state # "NONE"
  <2>1. NodeJoined(OwnerAt(k).node, k)
    BY <1>1 DEF Asked
  <2>2. PICK e \in cpg, j \in Index : JoinAt(j, e)
    BY <2>1 DEF NodeJoined
  <2>3. FirstJoiner(f)
    BY <2>2, FirstStays, Positions
  <2>4. locks[f][R].state # "NONE"
    BY <1>1, <2>3 DEF FirstKnows
  <2> QED BY <2>4 DEF Frame
<1>2. CASE i \in Index
  BY <1>1, <1>2, OldEntries
<1>3. CASE i \notin Index /\ \A k \in Index : ~Token(k, R)
  <2>1. Entitled(d, R, i)
    BY <1>3 DEF TokenRule
  <2>2. FirstJoiner(d) /\ locks'[d][R].state # "NONE"
    BY <1>3, <2>1 DEF Entitled, LastToken
  <2>3. PICK j \in Index : JoinAt(j, d)
    BY <2>2 DEF FirstJoiner
  <2>4. FirstJoiner(f)
    BY <2>3, FirstStays
  <2>5. f = d
    BY <2>2, <2>4, OneFirst
  <2> QED BY <2>2, <2>5
<1> QED BY <1>1, <1>2, <1>3

\* Who has seen its own JOIN is up, and a member.
LEMMA JoinedIsMember ==
  ASSUME BaseInv, NEW e \in Daemon, joined[e]
  PROVE  e \in cpg /\ phase[e] = "up" /\ total_members[e] # 0
<1>1. View(e) /\ LogInv
  BY DEF BaseInv, IndInv, ViewInv
<1>2. total_members[e] # 0 /\ phase[e] = "up"
  BY <1>1 DEF View, Progress, Fresh
<1> QED BY <1>1, <1>2 DEF LogInv, Members

\* A record that is not written stays right, if its daemon dispatches no
\* token of the lock and nobody takes the token from it.
LEMMA RecordKept ==
  ASSUME BaseInv, BaseInv', NEW d \in Daemon, Frame(d),
         NEW e \in Daemon, NEW R \in Resource, Record(e, R),
         locks'[e][R] = locks[e][R], ~joined'[e] => ~joined[e],
         \/ locks[e][R].state = "NONE"
         \/ pos'[e] = pos[e]
         \/ pos'[e] = pos[e] + 1 /\ ~Token(pos[e] + 1, R),
         OwnFree(e, locks[e][R]) => \A i \in Index' \ Index : ~Token(i, R)'
  PROVE  Record(e, R)'
<1> DEFINE l == locks[e][R]
<1>0. /\ Index \subseteq Nat /\ Index' \subseteq Nat /\ Len(log) \in Nat
      /\ Index = 1..Len(log) /\ pos[e] \in Nat /\ pos'[e] \in Nat
      /\ pos[e] <= pos'[e] /\ pos'[e] <= Len(log)
      /\ Index' = 1..Len(log)' /\ Len(log)' \in Nat
  BY Positions DEF Frame
<1>1. (~joined'[e] => l.state = "NONE") /\ (l.state = "NONE" => l = NoLock)
  BY DEF Record
<1>2. ASSUME l.state = "HELD"
      PROVE  \E g \in Index' :
               /\ MsgAt(g, "GRANT", R)' /\ g <= pos'[e] /\ OwnerAt(g)' = l.owner
               /\ \A k \in Index' : Token(k, R)' /\ k <= pos'[e] => k <= g
  <2>1. PICK g \in Index :
          /\ MsgAt(g, "GRANT", R) /\ g <= pos[e] /\ OwnerAt(g) = l.owner
          /\ \A k \in Index : Token(k, R) /\ k <= pos[e] => k <= g
    BY <1>2 DEF Record
  <2>2. g \in Index' /\ MsgAt(g, "GRANT", R)' /\ g <= pos'[e] /\ OwnerAt(g)' = l.owner
    BY <1>0, <2>1, OldEntries
  <2>3. ASSUME NEW k \in Index', Token(k, R)', k <= pos'[e] PROVE k <= g
    <3>1. pos'[e] = pos[e] \/ (pos'[e] = pos[e] + 1 /\ ~Token(pos[e] + 1, R))
      BY <1>2
    <3>2. k \in Index => k <= pos[e]
      BY <1>0, <2>3, <3>1, OldEntries
    <3>3. CASE k \in Index
      BY <2>1, <2>3, <3>2, <3>3, OldEntries
    <3>4. CASE k \notin Index
      BY <1>0, <2>3, <3>4, OldEntries
    <3> QED BY <3>3, <3>4
  <2> QED BY <2>2, <2>3
<1>3. ASSUME OwnFree(e, l)
      PROVE  \E u \in Index' :
               MsgAt(u, "UNLOCK", R)' /\ LastToken(u, R)' /\ u <= pos'[e]
               /\ (OwnerAt(u)').node = NodeOf[e]
  <2>1. PICK u \in Index :
          MsgAt(u, "UNLOCK", R) /\ LastToken(u, R) /\ u <= pos[e]
          /\ OwnerAt(u).node = NodeOf[e]
    BY <1>3 DEF Record, OwnFree
  <2>2. LastToken(u, R)'
    BY <1>3, <2>1, LastKept
  <2> QED BY <1>0, <2>1, <2>2, OldEntries
<1> QED BY <1>1, <1>2, <1>3 DEF Record, OwnFree

\* Of two daemons one has the token: whom a step takes it from had no right.
LEMMA OthersRecords ==
  ASSUME BaseInv, BaseInv', Records, NEW d \in Daemon, Frame(d), TokenRule(d),
         IdsDiffer(d)', \A R \in Resource : Record(d, R)'
  PROVE  Records'
<1>1. ASSUME NEW e \in Daemon, e # d, NEW R \in Resource PROVE Record(e, R)'
  <2>0. Record(e, R)
    BY DEF Records
  <2>1. locks'[e][R] = locks[e][R] /\ joined'[e] = joined[e] /\ pos'[e] = pos[e]
    BY <1>1 DEF Frame
  <2>2. ASSUME OwnFree(e, locks[e][R]), NEW i \in Index' \ Index, Token(i, R)'
        PROVE  FALSE
    <3>1. PICK u \in Index : LastToken(u, R) /\ OwnerAt(u).node = NodeOf[e]
      BY <2>0, <2>2 DEF Record, OwnFree
    <3>2. joined[e]
      BY <2>0, <2>2 DEF Record, OwnFree
    <3>3. e \in cpg
      BY <3>2, JoinedIsMember
    <3>4. Entitled(d, R, i)
      BY <2>2 DEF TokenRule
    <3>5. PICK g \in Index : LastToken(g, R) /\ OwnerAt(g).node = NodeOf[d] /\ d \in cpg
      BY <3>1, <3>4 DEF Entitled, LastToken
    <3>6. g = u
      BY <3>1, <3>5, Positions DEF LastToken
    <3> QED BY <1>1, <3>1, <3>3, <3>5, <3>6 DEF BaseInv, IndInv, LogInv, Members
  <2> QED BY <2>0, <2>1, <2>2, RecordKept
<1>2. ASSUME NEW e \in Daemon, e # d PROVE IdsDiffer(e)'
  BY <1>2 DEF Records, IdsDiffer, Frame
<1> QED BY <1>1, <1>2 DEF Records

LEMMA CallTypes ==
  ASSUME BaseInv, NEW p \in Proc, NEW i \in DOMAIN calls[p]
  PROVE  calls[p][i] \in Call /\ calls[p][i].resource \in Resource /\ i \in Nat
<1>1. PICK s \in Seq(Call) : s = calls[p]
  BY DEF BaseInv, TypeOK
<1>2. i \in 1..Len(s) /\ Len(s) \in Nat
  BY <1>1, LenProperties
<1>3. s[i] \in Call
  BY <1>2, ElementOfSeq
<1> QED BY <1>1, <1>2, <1>3 DEF Call

LEMMA HoldersKept ==
  ASSUME BaseInv, BaseInv', Holders, NEW d \in Daemon, Frame(d), TokenRule(d), HolderRule(d)
  PROVE  Holders'
<1> SUFFICES ASSUME NEW p \in Proc \ ended', NEW i \in DOMAIN calls'[p],
                    calls'[p][i].st = "held"
             PROVE  \E e \in Daemon : HasToken(p, i, e)'
  BY DEF Holders
<1>0. PICK R : R = calls[p][i].resource
  OBVIOUS
<1>1. CASE HasToken(p, i, d)'
  BY <1>1
<1>2. CASE ~HasToken(p, i, d)'
  <2>1. /\ p \notin ended /\ i \in DOMAIN calls[p] /\ calls'[p][i] = calls[p][i]
        /\ p \in clients[d] => p \in clients'[d]
        /\ HasToken(p, i, d) => locks'[d][R] = locks[d][R]
    BY <1>0, <1>2 DEF HolderRule
  <2>2. PICK e \in Daemon : HasToken(p, i, e)
    BY <2>1 DEF Holders
  <2>3. PICK g \in Index : /\ MsgAt(g, "GRANT", R) /\ LastToken(g, R)
                           /\ OwnerAt(g) = Owner(NodeOf[e], p, i) /\ g <= pos[e]
    BY <1>0, <2>2 DEF HasToken
  <2>4. p \in clients'[e] /\ locks'[e][R] = locks[e][R] /\ pos[e] <= pos'[e]
    BY <2>1, <2>2 DEF HasToken, Frame
  <2>5. R \in Resource
    BY <1>0, <2>1, CallTypes
  <2>6. \A t \in Index' \ Index : ~Token(t, R)'
    BY <1>0, <2>1, <2>5 DEF TokenRule
  <2>7. LastToken(g, R)'
    BY <2>3, <2>6, LastKept
  <2>8. /\ g \in Index' /\ MsgAt(g, "GRANT", R)' /\ OwnerAt(g)' = Owner(NodeOf[e], p, i)
        /\ g <= pos'[e]
    BY <2>3, <2>4, OldEntries, Positions
  <2>9. HasToken(p, i, e)'
    BY <1>0, <2>1, <2>2, <2>4, <2>7, <2>8 DEF HasToken
  <2> QED BY <2>9
<1> QED BY <1>1, <1>2

\* Together.
LEMMA RulesKeepInv ==
  ASSUME BaseInv, BaseInv', TokenInv, NEW d \in Daemon, Frame(d),
         TokenRule(d), AskedRule(d), HolderRule(d),
         NobodyGone', Connected', IdsDiffer(d)', \A R \in Resource : Record(d, R)'
  PROVE  TokenInv'
<1>1. Asked /\ Paired /\ AtOwner /\ FirstKnows /\ Records /\ Holders
  BY DEF TokenInv
<1>2. Asked' /\ Paired' /\ AtOwner' /\ FirstKnows'
  BY <1>1, AskedKept, PairedKept, AtOwnerKept, FirstKnowsKept
<1>3. Records' /\ Holders'
  BY <1>1, OthersRecords, HoldersKept
<1> QED BY <1>2, <1>3 DEF TokenInv

-----------------------------------------------------------------------------
(***************************************************************************)
(* What handlers multicast: nothing, or one message.                       *)
(***************************************************************************)
AtMostOne(out) == out = <<>> \/ \E m : out = <<m>>

Adds(out) ==
  \A k \in Index' \ Index :
    /\ \A j \in Index' : j <= k
    /\ \A j \in Index' \ Index : j = k
    /\ \E m : /\ out = <<m>> /\ OwnerAt(k)' = m.owner
              /\ \A q, S : MsgAt(k, q, S)' => q = m.request /\ S = m.resource

LEMMA OutAdds ==
  ASSUME BaseInv, NEW d \in Daemon, NEW out, AtMostOne(out), log' = Mcast(d, out)
  PROVE  LogGrows /\ Adds(out)
<1>0. log \in Seq(Entry) /\ Len(log) \in Nat
  BY LenProperties DEF BaseInv, TypeOK, GTypeOK
<1>1. CASE out = <<>>
  <2>1. log' = log
    BY <1>0, <1>1, McastNothing DEF BaseInv, IndInv
  <2> QED BY <1>0, <2>1 DEF LogGrows, Adds, Index
<1>2. ASSUME NEW m, out = <<m>> PROVE LogGrows /\ Adds(out)
  <2>1. /\ Len(log)' = Len(log) + 1 /\ log'[Len(log) + 1] = App(d, m)
        /\ \A i \in 1..Len(log) : log'[i] = log[i]
    <3>1. PICK x : x = [i \in 1..Len(out) |-> App(d, out[i])]
      OBVIOUS
    <3>2. x = << App(d, m) >>
      BY <1>2, <3>1
    <3>3. log' = log \o << App(d, m) >>
      BY <3>1, <3>2 DEF Mcast
    <3> QED BY <1>0, <3>3
  <2>2. Index = 1..Len(log) /\ Index' = 1..Len(log) + 1
    BY <2>1 DEF Index
  <2>3. LogGrows
    BY <1>0, <2>1, <2>2 DEF LogGrows
  <2>4. ASSUME NEW k \in Index' \ Index
        PROVE  /\ \A j \in Index' : j <= k
               /\ \A j \in Index' \ Index : j = k
               /\ k = Len(log) + 1
    BY <1>0, <2>2
  <2>5. ASSUME NEW k \in Index' \ Index
        PROVE  /\ OwnerAt(k)' = m.owner
               /\ \A q, S : MsgAt(k, q, S)' => q = m.request /\ S = m.resource
    <3>1. log'[k] = App(d, m)
      BY <2>1, <2>4
    <3> QED BY <3>1 DEF OwnerAt, MsgAt, App
  <2> QED BY <1>2, <2>3, <2>4, <2>5 DEF Adds
<1> QED BY <1>1, <1>2 DEF AtMostOne

LEMMA OneEqual ==
  ASSUME NEW a, NEW b, <<a>> = <<b>>
  PROVE  a = b
<1>1. <<a>>[1] = <<b>>[1]
  OBVIOUS
<1> QED BY <1>1

\* What grant_next sends, if anything, is a GRANT to a queued request.
LEMMA GrantOrSays ==
  ASSUME NEW reqs, NEW R, NEW z, AtMostOne(z)
  PROVE  /\ AtMostOne(GrantOr(reqs, R, z))
         /\ \A m : GrantOr(reqs, R, z) = <<m>> =>
              \/ z = <<m>>
              \/ /\ m.request = "GRANT" /\ m.resource = R
                 /\ \E r \in reqs : r.resource = R /\ r.owner = m.owner
<1>1. CASE NextWaiting(reqs, R) = {}
  BY <1>1 DEF GrantOr
<1>2. CASE NextWaiting(reqs, R) # {}
  <2>1. PICK r : r = CHOOSE x \in NextWaiting(reqs, R) : TRUE
    OBVIOUS
  <2>2. r \in reqs /\ r.resource = R
    <3>1. r \in NextWaiting(reqs, R)
      BY <1>2, <2>1
    <3> QED BY <3>1 DEF NextWaiting
  <2>3. GrantOr(reqs, R, z) = << Msg("GRANT", R, r.owner, FALSE) >>
    BY <1>2, <2>1 DEF GrantOr, GrantMsg
  <2>4. ASSUME NEW m, GrantOr(reqs, R, z) = <<m>>
        PROVE  m = Msg("GRANT", R, r.owner, FALSE)
    BY <2>3, <2>4, OneEqual
  <2> QED BY <2>2, <2>3, <2>4 DEF AtMostOne, Msg
<1> QED BY <1>1, <1>2

\* Marking a request leaves it with its owner.
LEMMA MarkedSays ==
  ASSUME NEW reqs \in SUBSET Request, NEW Rs, NEW q \in GrantMarked(reqs, Rs)
  PROVE  \E r \in reqs : q.resource = r.resource /\ q.owner = r.owner
<1>1. PICK r \in reqs : q = IF \E R \in Rs : r \in NextWaiting(reqs, R)
                            THEN [r EXCEPT !.state = "HELD"] ELSE r
  BY DEF GrantMarked
<1>2. r \in Request
  OBVIOUS
<1>3. [r EXCEPT !.state = "HELD"].resource = r.resource
      /\ [r EXCEPT !.state = "HELD"].owner = r.owner
  BY <1>2 DEF Request
<1> QED BY <1>1, <1>3

\* Positions and members under a handler.
LEMMA HandlerMovesOn ==
  ASSUME BaseInv, BaseInv', NEW d \in Daemon, NEW out,
         DeliverApp(d, out) \/ Send(d, out)
  PROVE  /\ cpg' = cpg /\ phase' = phase /\ joined' = joined /\ log' = Mcast(d, out)
         /\ \A e \in Daemon : pos[e] <= pos'[e] /\ pos'[e] <= Len(log)
         /\ \A e \in Daemon \ {d} : pos'[e] = pos[e]
         /\ DeliverApp(d, out) => pos'[d] = pos[d] + 1 /\ pos[d] < Len(log)
         /\ Send(d, out) => pos'[d] = pos[d]
<1>1. /\ pos \in [Daemon -> Nat]
      /\ \A e \in Daemon : pos[e] \in Nat /\ pos'[e] \in Nat /\ pos[e] <= Len(log)
      /\ Len(log) \in Nat
  BY Positions DEF BaseInv, TypeOK, GTypeOK
<1>2. CASE DeliverApp(d, out)
  <2>1. pos' = [pos EXCEPT ![d] = pos[d] + 1] /\ pos[d] < Len(log)
    BY <1>1, <1>2 DEF DeliverApp, Dispatched, HasNext
  <2>2. ~Send(d, out)
    BY <1>1, <2>1 DEF Send
  <2> QED BY <1>1, <1>2, <2>1, <2>2 DEF DeliverApp, groupVars
<1>3. CASE Send(d, out)
  <2>1. ~DeliverApp(d, out)
    BY <1>1, <1>3 DEF Send, DeliverApp, Dispatched
  <2> QED BY <1>1, <1>3, <2>1 DEF Send, groupVars
<1> QED BY <1>2, <1>3

LEMMA HandlerFrame ==
  ASSUME BaseInv, BaseInv', NEW d \in Daemon, NEW out, AtMostOne(out),
         DeliverApp(d, out) \/ Send(d, out),
         \A e \in Daemon \ {d} :
           /\ locks'[e] = locks[e] /\ local_lockid'[e] = local_lockid[e]
           /\ requests'[e] = requests[e] /\ clients'[e] = clients[e],
         \A R \in Resource : locks[d][R].state # "NONE" => locks'[d][R].state # "NONE",
         \A p \in Proc : \A i \in DOMAIN calls[p] :
           i \in DOMAIN calls'[p] /\ calls'[p][i].resource = calls[p][i].resource
  PROVE  Frame(d) /\ Adds(out)
<1>1. LogGrows /\ Adds(out)
  BY HandlerMovesOn, OutAdds
<1>2. /\ cpg' = cpg /\ joined' = joined
      /\ \A e \in Daemon : pos[e] <= pos'[e] /\ pos'[e] <= Len(log)
      /\ \A e \in Daemon \ {d} : pos'[e] = pos[e]
  BY HandlerMovesOn
<1> QED BY <1>1, <1>2 DEF Frame

LEMMA NoNewToken ==
  ASSUME NEW d \in Daemon, NEW out, Adds(out),
         \A m : out = <<m>> => m.request \notin {"GRANT", "UNLOCK"}
  PROVE  TokenRule(d) /\ \A R : \A i \in Index' \ Index : ~Token(i, R)'
<1>1. ASSUME NEW R, NEW i \in Index' \ Index, Token(i, R)' PROVE FALSE
  <2>1. PICK m : out = <<m>> /\ \A q, S : MsgAt(i, q, S)' => q = m.request
    BY DEF Adds
  <2> QED BY <1>1, <2>1 DEF Token
<1> QED BY <1>1 DEF TokenRule

\* Requests and messages that go back to queued requests are about calls.
LEMMA JoinedLater ==
  ASSUME NEW n, NEW k \in Nat, NEW m \in Nat, k <= m, NodeJoined(n, k)
  PROVE  NodeJoined(n, m)
  BY DEF NodeJoined, Index

LEMMA QueuedAsked ==
  ASSUME BaseInv, Asked, NEW d \in Daemon, NEW r \in requests[d]
  PROVE  /\ OfCall(r.owner, r.resource) /\ NodeJoined(r.owner.node, pos[d])
         /\ NodeJoined(r.owner.node, Len(log)) /\ NodeJoined(r.owner.node, pos[d] + 1)
<1>1. pos[d] \in Nat /\ Len(log) \in Nat /\ pos[d] <= Len(log)
  BY LenProperties DEF BaseInv, TypeOK, IndInv, GTypeOK, ViewInv, View, Progress
<1>2. OfCall(r.owner, r.resource) /\ NodeJoined(r.owner.node, pos[d])
  BY DEF Asked
<1> QED BY <1>1, <1>2, JoinedLater

LEMMA AskedFrom ==
  ASSUME BaseInv, BaseInv', Asked, NEW d \in Daemon, Frame(d), NEW out, Adds(out),
         \A m : out = <<m>> /\ m.request \in {"LOCK", "GRANT", "UNLOCK"} =>
           OfCall(m.owner, m.resource)' /\ NodeJoined(m.owner.node, Len(log)),
         \A q \in requests'[d] :
           \/ \E r \in requests[d] : q.resource = r.resource /\ q.owner = r.owner
           \/ OfCall(q.owner, q.resource) /\ NodeJoined(q.owner.node, pos'[d])
  PROVE  AskedRule(d)
<1>1. ASSUME NEW i \in Index' \ Index, NEW R \in Resource,
             MsgAt(i, "LOCK", R)' \/ Token(i, R)'
      PROVE  OfCall(OwnerAt(i), R)' /\ NodeJoined((OwnerAt(i)').node, Len(log))
  <2>1. PICK m : /\ out = <<m>> /\ OwnerAt(i)' = m.owner
                 /\ \A q, S : MsgAt(i, q, S)' => q = m.request /\ S = m.resource
    BY DEF Adds
  <2>2. m.request \in {"LOCK", "GRANT", "UNLOCK"} /\ m.resource = R
    BY <1>1, <2>1 DEF Token
  <2>3. PICK o : o = m.owner
    OBVIOUS
  <2>4. OfCall(o, R)' /\ NodeJoined(o.node, Len(log))
    BY <2>1, <2>2, <2>3
  <2> QED BY <2>1, <2>3, <2>4 DEF OfCall
<1>2. ASSUME NEW q \in requests'[d]
      PROVE  OfCall(q.owner, q.resource)' /\ NodeJoined(q.owner.node, pos'[d])
  <2>1. ASSUME NEW r \in requests[d], q.resource = r.resource, q.owner = r.owner
        PROVE  OfCall(q.owner, q.resource) /\ NodeJoined(q.owner.node, pos'[d])
    <3>1. OfCall(q.owner, q.resource) /\ NodeJoined(q.owner.node, pos[d])
      BY <2>1, QueuedAsked
    <3>2. pos[d] \in Nat /\ pos'[d] \in Nat /\ pos[d] <= pos'[d]
      BY Positions DEF Frame
    <3> QED BY <3>1, <3>2, JoinedLater
  <2>2. OfCall(q.owner, q.resource) /\ NodeJoined(q.owner.node, pos'[d])
    BY <2>1
  <2>3. OfCall(q.owner, q.resource)'
    BY <2>2, AskedOnce
  <2> QED BY <2>2, <2>3
<1> QED BY <1>1, <1>2 DEF AskedRule

\* A call that holds a lock has its token behind its daemon's position.
LEMMA HeldIsBehind ==
  ASSUME BaseInv, NEW d \in Daemon, NEW p \in Proc, NEW i, HasToken(p, i, d),
         pos[d] < Len(log)
  PROVE  ~Token(pos[d] + 1, calls[p][i].resource)
<1>1. PICK g \in Index : LastToken(g, calls[p][i].resource) /\ g <= pos[d]
  BY DEF HasToken
<1>2. pos[d] \in Nat /\ Len(log) \in Nat /\ pos[d] + 1 \in Index /\ g \in Nat
  BY LenProperties DEF BaseInv, TypeOK, GTypeOK, Index
<1> QED BY <1>1, <1>2 DEF LastToken

-----------------------------------------------------------------------------
(***************************************************************************)
(* The handlers of LOCK, UNLOCK and another node's GRANT: they write one   *)
(* record and the queue, and tell no client.                               *)
(***************************************************************************)
RecordStep(d, R, l, Q, out) ==
  /\ DeliverApp(d, out) /\ AtMostOne(out) /\ joined[d]
  /\ \A S \in Resource \ {R} : ~Token(pos[d] + 1, S)
  /\ SetLock(d, R, l) /\ SetRequests(d, Q)
  /\ l.local_id = locks[d][R].local_id
  /\ l.state = "NONE" => locks[d][R].state = "NONE"
  /\ UNCHANGED <<local_lockid, clientVars>>
  /\ \A q \in Q :
       \/ \E r \in requests[d] : q.resource = r.resource /\ q.owner = r.owner
       \/ OfCall(q.owner, q.resource) /\ NodeJoined(q.owner.node, pos[d] + 1)
  /\ \A m : out = <<m>> /\ m.request \in {"LOCK", "GRANT", "UNLOCK"} =>
       OfCall(m.owner, m.resource) /\ NodeJoined(m.owner.node, Len(log))
  /\ \A m : out = <<m>> /\ m.request \in {"GRANT", "UNLOCK"} => m.resource = R
  /\ \A p \in Proc : \A i : HasToken(p, i, d) /\ calls[p][i].resource = R => l = locks[d][R]

LEMMA RecordStepFrame ==
  ASSUME BaseInv, BaseInv', NEW d \in Daemon, NEW R \in Resource, NEW l, NEW Q, NEW out,
         RecordStep(d, R, l, Q, out)
  PROVE  /\ Frame(d) /\ Adds(out) /\ pos'[d] = pos[d] + 1 /\ pos[d] < Len(log)
         /\ locks'[d][R] = l /\ requests'[d] = Q
         /\ \A S \in Resource \ {R} : locks'[d][S] = locks[d][S]
         /\ \A S \in Resource \ {R}, i \in Index' \ Index : ~Token(i, S)'
         /\ cpg' = cpg /\ joined' = joined /\ phase' = phase
<1>0. /\ locks \in [Daemon -> [Resource -> LockRecord]]
      /\ requests \in [Daemon -> SUBSET Request]
  BY DEF BaseInv, TypeOK
<1>1. /\ \A e \in Daemon \ {d} : locks'[e] = locks[e] /\ requests'[e] = requests[e]
      /\ locks'[d][R] = l /\ requests'[d] = Q
      /\ \A S \in Resource \ {R} : locks'[d][S] = locks[d][S]
  BY <1>0 DEF RecordStep, SetLock, SetRequests
<1>2. \A S \in Resource : locks[d][S].state # "NONE" => locks'[d][S].state # "NONE"
  BY <1>1 DEF RecordStep
<1>3. DeliverApp(d, out) /\ AtMostOne(out) /\ UNCHANGED <<local_lockid, clients, calls, ended>>
  BY DEF RecordStep, clientVars
<1>4. Frame(d) /\ Adds(out)
  BY <1>1, <1>2, <1>3, HandlerFrame
<1>5. ASSUME NEW S \in Resource \ {R}, NEW i \in Index' \ Index, Token(i, S)' PROVE FALSE
  <2>1. PICK m : out = <<m>> /\ \A q, T : MsgAt(i, q, T)' => q = m.request /\ T = m.resource
    BY <1>4 DEF Adds
  <2>2. m.request \in {"GRANT", "UNLOCK"} /\ S = m.resource
    BY <1>5, <2>1 DEF Token
  <2> QED BY <2>1, <2>2 DEF RecordStep
<1> QED BY <1>1, <1>3, <1>4, <1>5, HandlerMovesOn

LEMMA RecordStepKeeps ==
  ASSUME BaseInv, BaseInv', TokenInv, NEW d \in Daemon, NEW R \in Resource,
         NEW l, NEW Q, NEW out, RecordStep(d, R, l, Q, out), TokenRule(d), Record(d, R)'
  PROVE  TokenInv'
<1>0. /\ Frame(d) /\ Adds(out) /\ pos'[d] = pos[d] + 1 /\ pos[d] < Len(log)
      /\ locks'[d][R] = l /\ requests'[d] = Q
      /\ \A S \in Resource \ {R} : locks'[d][S] = locks[d][S]
      /\ \A S \in Resource \ {R}, i \in Index' \ Index : ~Token(i, S)'
      /\ cpg' = cpg /\ joined' = joined /\ phase' = phase
  BY RecordStepFrame
<1>1. UNCHANGED <<local_lockid, clients, calls, ended>>
  BY DEF RecordStep, clientVars
<1>2. AskedRule(d)
  <2>1. \A m : out = <<m>> /\ m.request \in {"LOCK", "GRANT", "UNLOCK"} =>
          OfCall(m.owner, m.resource)' /\ NodeJoined(m.owner.node, Len(log))
    BY <1>0, AskedOnce DEF RecordStep
  <2>2. \A q \in requests'[d] :
          \/ \E r \in requests[d] : q.resource = r.resource /\ q.owner = r.owner
          \/ OfCall(q.owner, q.resource) /\ NodeJoined(q.owner.node, pos'[d])
    BY <1>0 DEF RecordStep
  <2> QED BY <1>0, <2>1, <2>2, AskedFrom DEF TokenInv
<1>3. HolderRule(d)
  <2> SUFFICES ASSUME NEW p \in Proc \ ended, NEW i \in DOMAIN calls[p], HasToken(p, i, d)
               PROVE  locks'[d][calls[p][i].resource] = locks[d][calls[p][i].resource]
    BY <1>1 DEF HolderRule
  <2>1. calls[p][i].resource \in Resource
    BY CallTypes
  <2> QED BY <1>0, <2>1 DEF RecordStep
<1>4. NobodyGone' /\ Connected'
  BY <1>0, <1>1 DEF TokenInv, NobodyGone, Connected
<1>5. IdsDiffer(d)'
  <2>1. \A S \in Resource : locks'[d][S].local_id = locks[d][S].local_id
    BY <1>0 DEF RecordStep
  <2> QED BY <1>1, <2>1 DEF TokenInv, Records, IdsDiffer
<1>6. ASSUME NEW S \in Resource PROVE Record(d, S)'
  <2>1. CASE S = R
    BY <2>1
  <2>2. CASE S # R
    <3>1. /\ Record(d, S) /\ locks'[d][S] = locks[d][S] /\ joined' = joined
          /\ ~Token(pos[d] + 1, S) /\ \A i \in Index' \ Index : ~Token(i, S)'
      BY <1>0, <2>2 DEF RecordStep, TokenInv, Records
    <3> QED BY <1>0, <3>1, RecordKept
  <2> QED BY <2>1, <2>2
<1> QED BY <1>0, <1>2, <1>3, <1>4, <1>5, <1>6, RulesKeepInv

\* The message a handler is called for, as an entry of the agreed order.
LEMMA Dispatching ==
  ASSUME BaseInv, NEW d \in Daemon, NEW q, Delivers(d, q)
  PROVE  /\ pos[d] + 1 \in Index /\ pos[d] \in Nat /\ pos[d] < Len(log)
         /\ Body(d).request = q /\ OwnerAt(pos[d] + 1) = Body(d).owner
         /\ MsgAt(pos[d] + 1, q, Body(d).resource)
         /\ \A S : Token(pos[d] + 1, S) => S = Body(d).resource /\ q \in {"GRANT", "UNLOCK"}
         /\ phase[d] = "up" /\ d \in cpg
<1>1. pos[d] \in Nat /\ Len(log) \in Nat /\ pos[d] < Len(log) /\ phase[d] = "up"
  BY LenProperties DEF BaseInv, TypeOK, GTypeOK, Delivers, HasNext
<1>2. pos[d] + 1 \in Index
  BY <1>1 DEF Index
<1>3. log[pos[d] + 1] = NextEntry(d)
  BY DEF NextEntry
<1>4. d \in cpg
  BY <1>1 DEF BaseInv, IndInv, LogInv, Members
<1> QED BY <1>1, <1>2, <1>3, <1>4 DEF Delivers, Body, OwnerAt, MsgAt, Token

\* Nobody holds a lock whose token is free, or on its way to its owner.
LEMMA NoHolder ==
  ASSUME BaseInv, TokenInv, NEW d \in cpg, NEW S \in Resource,
         \/ \A k \in Index : ~Token(k, S)
         \/ \E g \in Index : /\ LastToken(g, S) /\ OwnerAt(g).node = NodeOf[d]
                             /\ MsgAt(g, "UNLOCK", S) \/ pos[d] < g
  PROVE  \A p \in Proc \ ended : \A j \in DOMAIN calls[p] :
           calls[p][j].resource = S => calls[p][j].st # "held"
<1> SUFFICES ASSUME NEW p \in Proc \ ended, NEW j \in DOMAIN calls[p],
                    calls[p][j].resource = S, calls[p][j].st = "held"
             PROVE  FALSE
  OBVIOUS
<1>1. PICK e \in Daemon : HasToken(p, j, e)
  BY DEF TokenInv, Holders
<1>2. PICK h \in Index : /\ MsgAt(h, "GRANT", S) /\ LastToken(h, S)
                         /\ OwnerAt(h) = Owner(NodeOf[e], p, j) /\ h <= pos[e]
  BY <1>1 DEF HasToken
<1>3. PICK g \in Index : /\ LastToken(g, S) /\ OwnerAt(g).node = NodeOf[d]
                         /\ MsgAt(g, "UNLOCK", S) \/ pos[d] < g
  BY <1>2 DEF LastToken
<1>4. g = h /\ g \in Nat
  BY <1>2, <1>3 DEF LastToken, Index
<1>5. e \in cpg
  BY <1>1 DEF HasToken, TokenInv, Connected, BaseInv, IndInv, LogInv, Members
<1>6. NodeOf[e] = NodeOf[d]
  BY <1>2, <1>3, <1>4 DEF Owner
<1>7. e = d
  BY <1>5, <1>6 DEF BaseInv, IndInv, LogInv, Members
<1>8. ~MsgAt(g, "UNLOCK", S)
  BY <1>2, <1>4 DEF MsgAt
<1>9. pos[d] \in Nat
  BY DEF BaseInv, TypeOK, GTypeOK
<1> QED BY <1>2, <1>3, <1>4, <1>7, <1>8, <1>9

\* Who takes itself for the oldest was the first of all to join.
LEMMA OldestIsFirst ==
  ASSUME BaseInv, NobodyGone, NEW d \in Daemon, joined[d], IAmOldest(d)
  PROVE  FirstJoiner(d)
<1> DEFINE list == group_members[d]
<1>0. View(d) /\ LogInv /\ list \in Seq(Daemon) /\ pos[d] \in Nat /\ total_members[d] # 0
  BY JoinedIsMember DEF BaseInv, IndInv, ViewInv, GTypeOK
<1>1. PICK j \in Index : j <= pos[d] /\ JoinAt(j, d)
  BY <1>0 DEF View, Sound
<1>2. Has(list, d) /\ NoDuplicates(list)
  BY <1>0 DEF View, Sound
<1>3. Len(list) \in Nat /\ 1 \in 1..Len(list)
  BY <1>0, <1>2, LenProperties DEF Has
<1>4. list[1] = d
  <2>1. Head(list) = list[1] /\ list[1] \in Daemon
    BY <1>0, <1>3, ElementOfSeq
  <2>2. Has(list, list[1])
    BY <1>3 DEF Has
  <2> QED BY <1>0, <2>1, <2>2 DEF IAmOldest, View, Sound
<1>5. ASSUME NEW i \in Index, NEW e \in Daemon, JoinAt(i, e), i < j PROVE FALSE
  <2>1. e \in cpg
    BY <1>0, <1>5 DEF NobodyGone, LogInv, Joins, Members
  <2>2. i <= pos[d]
    BY <1>0, <1>1, <1>5 DEF Index
  <2>3. Precedes(list, e, d)
    BY <1>0, <1>1, <1>5, <2>1, <2>2 DEF View, Complete
  <2>4. PICK a, b \in 1..Len(list) : a < b /\ list[b] = d
    BY <2>3 DEF Precedes
  <2>5. b = 1
    BY <1>2, <1>3, <1>4, <2>4 DEF NoDuplicates
  <2> QED BY <2>4, <2>5
<1>6. \A i \in Index, e \in Daemon : JoinAt(i, e) => j <= i
  BY <1>5 DEF Index
<1> QED BY <1>1, <1>6 DEF FirstJoiner

LEMMA LockKeeps ==
  ASSUME Payload = LockMsg, BaseInv, BaseInv', TokenInv, NEW d \in Daemon, process_lock(d)
  PROVE  TokenInv'
<1>1. PICK m, R, l : m = Body(d) /\ R = m.resource /\ l = locks[d][R]
  OBVIOUS
<1>2. Delivers(d, "LOCK") /\ joined[d]
  BY DEF process_lock
<1>3. /\ pos[d] + 1 \in Index /\ pos[d] \in Nat /\ pos[d] < Len(log) /\ Len(log) \in Nat
      /\ m.request = "LOCK" /\ OwnerAt(pos[d] + 1) = m.owner
      /\ MsgAt(pos[d] + 1, "LOCK", R) /\ \A S : ~Token(pos[d] + 1, S)
      /\ d \in cpg
  BY <1>1, <1>2, Dispatching, LenProperties DEF BaseInv, TypeOK, GTypeOK
<1>4. R \in Resource /\ m.owner \in Owners
  BY <1>1, <1>2, <1>3, BodyTypes DEF BaseInv, TypeOK, Delivers
<1>5. l \in LockRecord /\ requests[d] \in SUBSET Request
  BY <1>1, <1>4, LocksTyped DEF BaseInv
<1> DEFINE queue == requests[d] \cup { Queued(m, pos[d] + 1) }
           new   == l.state = "NONE"
           mine  == ~new /\ l.owner.node = NodeOf[d]
           grant == (mine /\ l.state = "FREE") \/ (new /\ IAmOldest(d))
<1>6. OfCall(m.owner, R) /\ NodeJoined(m.owner.node, pos[d] + 1)
  BY <1>3, <1>4 DEF TokenInv, Asked
<1>7. NodeJoined(m.owner.node, Len(log))
  BY <1>3, <1>6, JoinedLater
<1>8. queue \in SUBSET Request
  BY <1>1, <1>3, <1>4, <1>5 DEF Queued, Request
<1>9. \A r \in queue : /\ OfCall(r.owner, r.resource) /\ NodeJoined(r.owner.node, pos[d] + 1)
                       /\ NodeJoined(r.owner.node, Len(log))
  <2>1. Asked
    BY DEF TokenInv
  <2>2. \A r \in requests[d] : /\ OfCall(r.owner, r.resource) /\ NodeJoined(r.owner.node, pos[d] + 1)
                               /\ NodeJoined(r.owner.node, Len(log))
    BY <2>1, QueuedAsked
  <2> QED BY <1>1, <1>6, <1>7, <2>2 DEF Queued
<1>10. Record(d, R)
  BY <1>4 DEF TokenInv, Records
<1>11. \A p \in Proc : \A i : HasToken(p, i, d) /\ calls[p][i].resource = R => l.state = "HELD"
  BY <1>1 DEF HasToken
<1> HIDE DEF queue
<1>12. CASE grant
  <2> DEFINE L == [l EXCEPT !.state = "PENDING"]
             Q == GrantMarked(queue, {R})
             out == GrantOr(queue, R, <<>>)
  <2>1. SetLock(d, R, L) /\ SetRequests(d, Q) /\ DeliverApp(d, out)
        /\ UNCHANGED <<local_lockid, clientVars>>
    BY <1>1, <1>12 DEF process_lock, GrantStarted, queue
  <2>2. /\ AtMostOne(out)
        /\ \A x : out = <<x>> => /\ x.request = "GRANT" /\ x.resource = R
                                 /\ \E r \in queue : r.resource = R /\ r.owner = x.owner
    <3>1. AtMostOne(<<>>) /\ \A x : <<>> # <<x>>
      BY DEF AtMostOne
    <3> QED BY <3>1, GrantOrSays
  <2>3. \A q \in Q : OfCall(q.owner, q.resource) /\ NodeJoined(q.owner.node, pos[d] + 1)
    BY <1>8, <1>9, MarkedSays
  <2>4. L.local_id = l.local_id /\ L.state = "PENDING" /\ l.state # "HELD"
    BY <1>5, <1>12 DEF LockRecord
  <2> HIDE DEF L, Q, out
  <2>5. RecordStep(d, R, L, Q, out)
    BY <1>1, <1>2, <1>3, <1>9, <1>11, <2>1, <2>2, <2>3, <2>4 DEF RecordStep
  <2>6. /\ Frame(d) /\ Adds(out) /\ pos'[d] = pos[d] + 1 /\ locks'[d][R] = L
        /\ joined' = joined
    BY <1>4, <2>5, RecordStepFrame
  <2>7. \/ \A k \in Index : ~Token(k, R)
        \/ \E g \in Index : /\ LastToken(g, R) /\ OwnerAt(g).node = NodeOf[d]
                            /\ MsgAt(g, "UNLOCK", R) /\ g <= pos[d]
    <3>1. CASE mine /\ l.state = "FREE"
      BY <1>1, <1>10, <3>1 DEF Record
    <3>2. CASE new /\ IAmOldest(d)
      <4>1. FirstJoiner(d)
        BY <1>2, <3>2, OldestIsFirst DEF TokenInv
      <4> QED BY <1>1, <1>4, <3>2, <4>1 DEF TokenInv, FirstKnows
    <3> QED BY <1>12, <3>1, <3>2
  <2>8. \A p \in Proc \ ended : \A j \in DOMAIN calls[p] :
          calls[p][j].resource = R => calls[p][j].st # "held"
    BY <1>3, <1>4, <2>7, NoHolder
  <2>9. TokenRule(d)
    <3> SUFFICES ASSUME NEW S \in Resource, NEW i \in Index' \ Index, Token(i, S)'
                 PROVE  /\ \A k \in Index' : k <= i
                        /\ \A k \in Index' \ Index : k = i
                        /\ Entitled(d, S, i)
                        /\ ~OwnFree(d, locks'[d][S])
                        /\ \A p \in Proc \ ended' : \A j \in DOMAIN calls'[p] :
                             calls'[p][j].resource = S => calls'[p][j].st # "held"
      BY DEF TokenRule
    <3>1. PICK x : out = <<x>> /\ \A q, T : MsgAt(i, q, T)' => q = x.request /\ T = x.resource
      BY <2>6 DEF Adds
    <3>2. S = R /\ MsgAt(i, "GRANT", R)' /\ ~MsgAt(i, "UNLOCK", R)'
      BY <2>2, <3>1 DEF Token
    <3>3. Entitled(d, R, i)
      <4>1. CASE \A k \in Index : ~Token(k, R)
        <5>1. new /\ IAmOldest(d)
          BY <1>1, <1>10, <1>12, <4>1 DEF Record, LastToken
        <5>2. FirstJoiner(d)
          BY <1>2, <5>1, OldestIsFirst DEF TokenInv
        <5> QED BY <2>4, <2>6, <3>2, <4>1, <5>2 DEF Entitled
      <4>2. ASSUME NEW g \in Index, LastToken(g, R), OwnerAt(g).node = NodeOf[d], g <= pos[d]
            PROVE  Entitled(d, R, i)
        <5>1. g <= pos'[d]
          BY <1>3, <2>6, <4>2 DEF Index
        <5> QED BY <1>3, <3>2, <4>2, <5>1 DEF Entitled
      <4> QED BY <2>7, <4>1, <4>2
    <3>4. ~OwnFree(d, locks'[d][S])
      BY <2>4, <2>6, <3>2 DEF OwnFree
    <3>5. UNCHANGED <<calls, ended>>
      BY <2>1 DEF clientVars
    <3> QED BY <2>6, <2>8, <3>2, <3>3, <3>4, <3>5 DEF Adds
  <2>10. Record(d, R)'
    BY <1>2, <2>4, <2>6 DEF Record
  <2> QED BY <1>4, <2>5, <2>9, <2>10, RecordStepKeeps
<1>13. CASE ~grant
  <2> DEFINE L == IF new THEN [l EXCEPT !.state = "FREE"] ELSE l
             out == IF mine /\ m.try THEN send_nak(m) ELSE <<>>
  <2>1. SetLock(d, R, L) /\ SetRequests(d, queue) /\ DeliverApp(d, out)
        /\ UNCHANGED <<local_lockid, clientVars>>
    BY <1>1, <1>13 DEF process_lock, queue
  <2>2. AtMostOne(out) /\ \A x : out = <<x>> => x.request = "NAK"
    <3>1. \A x : send_nak(m) = <<x>> => x = Msg("NAK", m.resource, m.owner, m.try)
      BY OneEqual DEF send_nak
    <3>2. \A x : <<>> # <<x>>
      OBVIOUS
    <3> QED BY <3>1, <3>2 DEF AtMostOne, send_nak, Msg
  <2>3. L.local_id = l.local_id /\ L.state # "NONE" /\ (l.state # "NONE" => L = l)
    BY <1>5 DEF LockRecord
  <2>4. new => L.owner.node # NodeOf[d] /\ L.state = "FREE"
    <3>1. new => l = NoLock
      BY <1>1, <1>10 DEF Record
    <3>2. new => L.owner = l.owner /\ L.state = "FREE"
      BY <1>5 DEF LockRecord
    <3> QED BY <3>1, <3>2, LockAssumption, GroupAssumption DEF NoLock, NoOwner, Owner
  <2> HIDE DEF L, out
  <2>5. RecordStep(d, R, L, queue, out)
    BY <1>1, <1>2, <1>3, <1>9, <1>11, <2>1, <2>2, <2>3 DEF RecordStep
  <2>6. /\ Frame(d) /\ Adds(out) /\ pos'[d] = pos[d] + 1 /\ locks'[d][R] = L
        /\ joined' = joined
    BY <1>4, <2>5, RecordStepFrame
  <2>7. TokenRule(d) /\ \A S : \A i \in Index' \ Index : ~Token(i, S)'
    BY <2>2, <2>6, NoNewToken
  <2>8. Record(d, R)'
    <3>1. CASE new
      BY <1>2, <2>4, <2>6, <3>1 DEF Record
    <3>2. CASE ~new
      BY <1>1, <1>3, <1>4, <1>10, <2>3, <2>6, <2>7, <3>2, RecordKept
    <3> QED BY <3>1, <3>2
  <2> QED BY <1>4, <2>5, <2>7, <2>8, RecordStepKeeps
<1> QED BY <1>12, <1>13

\* Records and queues written over with what they hold.
LEMMA SameWritten ==
  ASSUME BaseInv, NEW d \in Daemon, NEW R \in Resource
  PROVE  /\ UNCHANGED locks => SetLock(d, R, locks[d][R])
         /\ UNCHANGED requests => SetRequests(d, requests[d])
<1>1. /\ locks \in [Daemon -> [Resource -> LockRecord]]
      /\ requests \in [Daemon -> SUBSET Request]
  BY DEF BaseInv, TypeOK
<1>2. locks = [locks EXCEPT ![d] = [locks[d] EXCEPT ![R] = locks[d][R]]]
  <2>1. locks[d] = [locks[d] EXCEPT ![R] = locks[d][R]]
    BY <1>1
  <2> QED BY <1>1, <2>1
<1>3. requests = [requests EXCEPT ![d] = requests[d]]
  BY <1>1
<1> QED BY <1>2, <1>3 DEF SetLock, SetRequests

\* The record of a holder agrees with the UNLOCK that follows its GRANT.
LEMMA UnlockMatches ==
  ASSUME BaseInv, TokenInv, NEW d \in Daemon, NEW R \in Resource,
         pos[d] \in Nat, pos[d] + 1 \in Index, MsgAt(pos[d] + 1, "UNLOCK", R),
         locks[d][R].state = "HELD"
  PROVE  locks[d][R].owner = OwnerAt(pos[d] + 1)
<1>1. PICK h \in Index : /\ MsgAt(h, "GRANT", R) /\ h <= pos[d]
                         /\ OwnerAt(h) = locks[d][R].owner
                         /\ \A k \in Index : Token(k, R) /\ k <= pos[d] => k <= h
  BY DEF TokenInv, Records, Record
<1>2. PICK g \in Index : /\ MsgAt(g, "GRANT", R) /\ g < pos[d] + 1
                         /\ OwnerAt(g) = OwnerAt(pos[d] + 1)
                         /\ \A k \in Index : Token(k, R) => k <= g \/ pos[d] + 1 <= k
  BY DEF TokenInv, Paired
<1>3. g <= pos[d] /\ ~(pos[d] + 1 <= h) /\ g \in Nat /\ h \in Nat
  BY <1>1, <1>2 DEF Index
<1>4. g <= h /\ h <= g
  BY <1>1, <1>2, <1>3 DEF Token
<1>5. g = h
  BY <1>3, <1>4
<1> QED BY <1>1, <1>2, <1>5

LEMMA UnlockKeeps ==
  ASSUME Payload = LockMsg, BaseInv, BaseInv', TokenInv, NEW d \in Daemon, process_unlock(d)
  PROVE  TokenInv'
<1>1. PICK m, R, l, q : m = Body(d) /\ R = m.resource /\ l = locks[d][R] /\ q = requests[d]
  OBVIOUS
<1>2. Delivers(d, "UNLOCK") /\ joined[d] /\ UNCHANGED <<local_lockid, clientVars>>
  BY DEF process_unlock
<1>3. /\ pos[d] + 1 \in Index /\ pos[d] \in Nat /\ pos[d] < Len(log) /\ Len(log) \in Nat
      /\ m.request = "UNLOCK" /\ OwnerAt(pos[d] + 1) = m.owner
      /\ MsgAt(pos[d] + 1, "UNLOCK", R) /\ \A S : Token(pos[d] + 1, S) => S = R
      /\ d \in cpg
  BY <1>1, <1>2, Dispatching, LenProperties DEF BaseInv, TypeOK, GTypeOK
<1>4. R \in Resource /\ Token(pos[d] + 1, R)
  BY <1>1, <1>2, <1>3, BodyTypes DEF BaseInv, TypeOK, Delivers, Token
<1>5. l \in LockRecord /\ q \in SUBSET Request
  BY <1>1, <1>4, LocksTyped DEF BaseInv
<1>6. Record(d, R)
  BY <1>4 DEF TokenInv, Records
<1>7. \A p \in Proc : \A i : ~(HasToken(p, i, d) /\ calls[p][i].resource = R)
  BY <1>3, <1>4, HeldIsBehind
<1>8. \A r \in q : /\ OfCall(r.owner, r.resource) /\ NodeJoined(r.owner.node, pos[d] + 1)
                   /\ NodeJoined(r.owner.node, Len(log))
  BY <1>1, QueuedAsked DEF TokenInv
<1>9. AtMostOne(<<>>) /\ \A x : <<>> # <<x>>
  BY DEF AtMostOne
<1>10. CASE Unlocks(d, l, m) /\ l.owner.node = NodeOf[d]
  <2>1. LastToken(pos[d] + 1, R) /\ m.owner.node = NodeOf[d]
    <3>1. m.owner.node = NodeOf[d]
      BY <1>10 DEF Unlocks
    <3>2. PICK u \in Index : u = pos[d] + 1 /\ pos[d] < u
      BY <1>3
    <3>3. Token(u, R) /\ OwnerAt(u).node = NodeOf[d]
      BY <1>3, <1>4, <3>1, <3>2
    <3>4. LastToken(u, R)
      BY <1>3, <1>4, <3>2, <3>3 DEF TokenInv, AtOwner
    <3> QED BY <3>1, <3>2, <3>4
  <2> DEFINE L == [l EXCEPT !.state = IF NextWaiting(q, R) = {} THEN "FREE" ELSE "PENDING"]
             Q == GrantMarked(q, {R})
             out == GrantOr(q, R, <<>>)
  <2>2. SetLock(d, R, L) /\ SetRequests(d, Q) /\ DeliverApp(d, out)
    BY <1>1, <1>10 DEF process_unlock
  <2>3. /\ AtMostOne(out)
        /\ \A x : out = <<x>> => /\ x.request = "GRANT" /\ x.resource = R
                                 /\ \E r \in q : r.resource = R /\ r.owner = x.owner
    BY <1>9, GrantOrSays
  <2>4. \A z \in Q : \E r \in q : z.resource = r.resource /\ z.owner = r.owner
    BY <1>5, MarkedSays
  <2>5. /\ L.local_id = l.local_id /\ L.state \in {"FREE", "PENDING"}
        /\ L.state = "FREE" => out = <<>>
    BY <1>5 DEF LockRecord, GrantOr
  <2> HIDE DEF L, Q, out
  <2>6. RecordStep(d, R, L, Q, out)
    BY <1>1, <1>2, <1>3, <1>7, <1>8, <2>2, <2>3, <2>4, <2>5 DEF RecordStep
  <2>7. /\ Frame(d) /\ Adds(out) /\ pos'[d] = pos[d] + 1 /\ locks'[d][R] = L
        /\ joined' = joined
    BY <1>4, <2>6, RecordStepFrame
  <2>8. \A p \in Proc \ ended : \A j \in DOMAIN calls[p] :
          calls[p][j].resource = R => calls[p][j].st # "held"
    BY <1>3, <1>4, <2>1, NoHolder
  <2>9. TokenRule(d)
    <3> SUFFICES ASSUME NEW S \in Resource, NEW i \in Index' \ Index, Token(i, S)'
                 PROVE  /\ \A k \in Index' : k <= i
                        /\ \A k \in Index' \ Index : k = i
                        /\ Entitled(d, S, i)
                        /\ ~OwnFree(d, locks'[d][S])
                        /\ \A p \in Proc \ ended' : \A j \in DOMAIN calls'[p] :
                             calls'[p][j].resource = S => calls'[p][j].st # "held"
      BY DEF TokenRule
    <3>1. PICK x : out = <<x>> /\ \A y, T : MsgAt(i, y, T)' => y = x.request /\ T = x.resource
      BY <2>7 DEF Adds
    <3>2. S = R /\ ~MsgAt(i, "UNLOCK", R)'
      BY <2>3, <3>1 DEF Token
    <3>3. Entitled(d, R, i)
      BY <1>3, <2>1, <2>7, <3>2 DEF Entitled
    <3>4. ~OwnFree(d, locks'[d][S])
      BY <1>9, <2>5, <2>7, <3>1, <3>2 DEF OwnFree
    <3>5. UNCHANGED <<calls, ended>>
      BY <1>2 DEF clientVars
    <3> QED BY <2>7, <2>8, <3>2, <3>3, <3>4, <3>5 DEF Adds
  <2>10. Record(d, R)'
    <3>1. CASE L.state = "PENDING"
      BY <1>2, <2>7, <3>1 DEF Record
    <3>2. CASE L.state = "FREE"
      <4>1. PICK u : u = pos[d] + 1
        OBVIOUS
      <4>2. \A k \in Index' \ Index : ~Token(k, R)'
        BY <1>9, <2>5, <2>7, <3>2 DEF Adds
      <4>3. LastToken(u, R)'
        BY <2>1, <2>7, <4>1, <4>2, LastKept
      <4>4. u \in Index' /\ MsgAt(u, "UNLOCK", R)' /\ (OwnerAt(u)').node = NodeOf[d]
            /\ u <= pos'[d]
        BY <1>3, <2>1, <2>7, <4>1, OldEntries
      <4> QED BY <1>2, <2>7, <3>2, <4>3, <4>4 DEF Record
    <3> QED BY <2>5, <3>1, <3>2
  <2> QED BY <1>4, <2>6, <2>9, <2>10, RecordStepKeeps
<1>11. CASE ~(Unlocks(d, l, m) /\ l.owner.node = NodeOf[d])
  <2>1. PICK L : /\ SetLock(d, R, L)
                 /\ \/ Unlocks(d, l, m) /\ L = [l EXCEPT !.state = "FREE"]
                    \/ ~Unlocks(d, l, m) /\ L = l
    BY <1>1, <1>4, <1>11, SameWritten DEF process_unlock
  <2>2. SetRequests(d, q) /\ DeliverApp(d, <<>>)
    BY <1>1, <1>4, <1>11, SameWritten DEF process_unlock
  <2>3. L.local_id = l.local_id /\ (L.state = "NONE" => l.state = "NONE")
    BY <1>5, <2>1 DEF LockRecord
  <2>4. RecordStep(d, R, L, q, <<>>)
    BY <1>1, <1>2, <1>3, <1>7, <1>9, <2>2, <2>1, <2>3 DEF RecordStep
  <2>5. /\ Frame(d) /\ Adds(<<>>) /\ pos'[d] = pos[d] + 1 /\ locks'[d][R] = L
        /\ joined' = joined
    BY <1>4, <2>4, RecordStepFrame
  <2>6. TokenRule(d) /\ \A S : \A i \in Index' \ Index : ~Token(i, S)'
    BY <1>9, <2>5, NoNewToken
  <2>7. Record(d, R)'
    <3>1. CASE Unlocks(d, l, m)
      <4>1. L.state = "FREE" /\ L.owner.node # NodeOf[d]
        BY <1>5, <1>11, <2>1, <3>1 DEF LockRecord
      <4> QED BY <1>2, <2>5, <4>1 DEF Record
    <3>2. CASE ~Unlocks(d, l, m)
      <4>1. l.state # "HELD"
        BY <1>1, <1>3, <1>4, <3>2, UnlockMatches DEF Unlocks
      <4>2. ~OwnFree(d, l)
        <5>1. ASSUME OwnFree(d, l) PROVE FALSE
          <6>1. PICK u \in Index : LastToken(u, R) /\ u <= pos[d]
            BY <1>1, <1>6, <5>1 DEF Record, OwnFree
          <6> QED BY <1>3, <1>4, <6>1 DEF LastToken, Index
        <5> QED BY <5>1
      <4>3. L = l
        BY <2>1, <3>2
      <4> QED BY <1>1, <1>2, <1>6, <2>5, <4>1, <4>2, <4>3 DEF Record, OwnFree
    <3> QED BY <3>1, <3>2
  <2> QED BY <1>4, <2>4, <2>6, <2>7, RecordStepKeeps
<1> QED BY <1>10, <1>11

\* A node whose LOCK was answered with this GRANT is on the list.
LEMMA OwnerListed ==
  ASSUME BaseInv, TokenInv, NEW d \in Daemon, joined[d], NEW R \in Resource,
         pos[d] \in Nat, pos[d] + 1 \in Index, Token(pos[d] + 1, R)
  PROVE  is_member(group_members[d], OwnerAt(pos[d] + 1).node)
<1>1. NodeJoined(OwnerAt(pos[d] + 1).node, pos[d] + 1)
  BY DEF TokenInv, Asked
<1>2. PICK e \in cpg, j \in Index : /\ NodeOf[e] = OwnerAt(pos[d] + 1).node
                                    /\ JoinAt(j, e) /\ j <= pos[d] + 1
  BY <1>1 DEF NodeJoined
<1>3. j # pos[d] + 1
  BY <1>2 DEF JoinAt, Token, MsgAt
<1>4. j <= pos[d]
  BY <1>2, <1>3 DEF Index
<1>5. total_members[d] # 0 /\ View(d) /\ group_members[d] \in Seq(Daemon)
  BY JoinedIsMember DEF BaseInv, IndInv, ViewInv, GTypeOK
<1>6. Has(group_members[d], e)
  BY <1>2, <1>4, <1>5 DEF View, Complete
<1>7. PICK a \in 1..Len(group_members[d]) : group_members[d][a] = e
  BY <1>6 DEF Has
<1>8. e \in Range(group_members[d])
  BY <1>5, <1>7 DEF Range
<1> QED BY <1>2, <1>8 DEF is_member

\* A GRANT to another node, or of a lock there is no record of.
LEMMA GrantElsewhereKeeps ==
  ASSUME Payload = LockMsg, BaseInv, BaseInv', TokenInv, NEW d \in Daemon,
         process_grant_remote(d) \/ process_grant_unknown(d)
  PROVE  TokenInv'
<1>1. PICK m, R, l, L : /\ m = Body(d) /\ R = m.resource /\ l = locks[d][R]
                        /\ L = GrantDelivered(d, m)
  OBVIOUS
<1>2. Delivers(d, "GRANT") /\ joined[d] /\ UNCHANGED <<local_lockid, clientVars>>
  BY DEF process_grant_remote, process_grant_unknown
<1>3. /\ pos[d] + 1 \in Index /\ pos[d] \in Nat /\ pos[d] < Len(log) /\ Len(log) \in Nat
      /\ m.request = "GRANT" /\ OwnerAt(pos[d] + 1) = m.owner
      /\ MsgAt(pos[d] + 1, "GRANT", R) /\ \A S : Token(pos[d] + 1, S) => S = R
      /\ d \in cpg
  BY <1>1, <1>2, Dispatching, LenProperties DEF BaseInv, TypeOK, GTypeOK
<1>4. R \in Resource /\ Token(pos[d] + 1, R)
  BY <1>1, <1>2, <1>3, BodyTypes DEF BaseInv, TypeOK, Delivers, Token
<1>5. l \in LockRecord
  BY <1>1, <1>4, LocksTyped DEF BaseInv
<1>6. \A p \in Proc : \A i : ~(HasToken(p, i, d) /\ calls[p][i].resource = R)
  BY <1>3, <1>4, HeldIsBehind
<1>7. is_member(group_members[d], m.owner.node)
  BY <1>2, <1>3, <1>4, OwnerListed
<1>8. PICK Q : /\ SetLock(d, R, L) /\ SetRequests(d, Q) /\ DeliverApp(d, <<>>)
               /\ Q \subseteq requests[d]
  <2>1. CASE process_grant_remote(d)
    <3> DEFINE left == requests[d] \ Matching(requests[d], m)
    <3>1. SetLock(d, R, L) /\ SetRequests(d, left) /\ DeliverApp(d, <<>>)
      BY <1>1, <1>7, <2>1 DEF process_grant_remote
    <3> QED BY <3>1
  <2>2. CASE process_grant_unknown(d)
    <3>1. SetLock(d, R, L) /\ SetRequests(d, requests[d]) /\ DeliverApp(d, <<>>)
      BY <1>1, <1>4, <2>2, SameWritten DEF process_grant_unknown
    <3> QED BY <3>1
  <2> QED BY <2>1, <2>2
<1>9. L.local_id = l.local_id /\ L.state = "HELD" /\ L.owner = m.owner
  BY <1>1, <1>5 DEF LockRecord, GrantDelivered
<1>10. AtMostOne(<<>>) /\ \A x : <<>> # <<x>>
  BY DEF AtMostOne
<1>11. RecordStep(d, R, L, Q, <<>>)
  BY <1>1, <1>2, <1>3, <1>6, <1>8, <1>9, <1>10 DEF RecordStep
<1>12. /\ Frame(d) /\ Adds(<<>>) /\ pos'[d] = pos[d] + 1 /\ locks'[d][R] = L
       /\ joined' = joined
  BY <1>4, <1>11, RecordStepFrame
<1>13. TokenRule(d)
  BY <1>10, <1>12, NoNewToken
<1>14. Record(d, R)'
  <2>1. PICK g \in Index : g = pos[d] + 1
    BY <1>3
  <2>2. /\ g \in Index' /\ MsgAt(g, "GRANT", R)' /\ g <= pos'[d]
        /\ OwnerAt(g)' = m.owner /\ \A k \in Index' : Token(k, R)' /\ k <= pos'[d] => k <= g
    BY <1>3, <1>12, <2>1, OldEntries
  <2> QED BY <1>2, <1>9, <1>12, <2>2 DEF Record
<1> QED BY <1>4, <1>11, <1>13, <1>14, RecordStepKeeps

-----------------------------------------------------------------------------
(***************************************************************************)
(* The GRANT at its owner's daemon.                                        *)
(***************************************************************************)

\* An answer concerns one waiting call.
LEMMA AnsweredSays ==
  ASSUME BaseInv, NEW p \in Proc, NEW tid \in DOMAIN calls[p], NEW st, NEW id,
         calls' = Answered(p, tid, st, id)
  PROVE  /\ \A q \in Proc : DOMAIN calls'[q] = DOMAIN calls[q]
         /\ \A q \in Proc : \A i \in DOMAIN calls[q] :
              /\ calls'[q][i].resource = calls[q][i].resource
              /\ \/ calls'[q][i] = calls[q][i]
                 \/ /\ q = p /\ i = tid /\ calls[q][i].st = "wait"
                    /\ calls'[q][i].st = st /\ calls'[q][i].lockid = id
<1>1. calls \in [Proc -> Seq(Call)]
  BY DEF BaseInv, TypeOK
<1>2. CASE calls[p][tid].st # "wait"
  BY <1>2 DEF Answered
<1>3. CASE calls[p][tid].st = "wait"
  <2>1. PICK s, c : s = calls[p] /\ c = [s[tid] EXCEPT !.st = st, !.lockid = id]
    OBVIOUS
  <2>2. s[tid] \in Call
    BY <2>1, CallTypes
  <2>3. c.resource = s[tid].resource /\ c.st = st /\ c.lockid = id
    BY <2>1, <2>2 DEF Call
  <2>4. calls' = [calls EXCEPT ![p] = [s EXCEPT ![tid] = c]]
    <3>1. [calls EXCEPT ![p][tid].st = st] =
            [calls EXCEPT ![p] = [s EXCEPT ![tid] = [s[tid] EXCEPT !.st = st]]]
      BY <2>1
    <3>2. PICK C : C = [calls EXCEPT ![p] = [s EXCEPT ![tid] = [s[tid] EXCEPT !.st = st]]]
      OBVIOUS
    <3>3. calls' = [C EXCEPT ![p][tid].lockid = id]
      BY <1>3, <3>1, <3>2 DEF Answered
    <3>4. C[p] = [s EXCEPT ![tid] = [s[tid] EXCEPT !.st = st]]
      BY <1>1, <3>2
    <3>5. C[p][tid] = [s[tid] EXCEPT !.st = st]
      BY <2>1, <3>4
    <3>6. [C[p][tid] EXCEPT !.lockid = id] = c
      BY <2>1, <2>2, <3>5 DEF Call
    <3>7. [C[p] EXCEPT ![tid] = c] = [s EXCEPT ![tid] = c]
      BY <3>4
    <3> QED BY <1>1, <3>2, <3>3, <3>6, <3>7
  <2>5. /\ calls'[p] = [s EXCEPT ![tid] = c]
        /\ \A q \in Proc : q # p => calls'[q] = calls[q]
    BY <1>1, <2>4
  <2>6. DOMAIN calls'[p] = DOMAIN s /\ \A i \in DOMAIN s : i # tid => calls'[p][i] = s[i]
    BY <2>5
  <2>7. calls'[p][tid] = c
    BY <2>1, <2>5
  <2>8. \A q \in Proc : DOMAIN calls'[q] = DOMAIN calls[q]
    BY <2>1, <2>5, <2>6
  <2>9. ASSUME NEW q \in Proc, NEW i \in DOMAIN calls[q]
        PROVE  /\ calls'[q][i].resource = calls[q][i].resource
               /\ \/ calls'[q][i] = calls[q][i]
                  \/ /\ q = p /\ i = tid /\ calls[q][i].st = "wait"
                     /\ calls'[q][i].st = st /\ calls'[q][i].lockid = id
    <3>1. CASE q # p
      BY <2>5, <3>1
    <3>2. CASE q = p /\ i # tid
      BY <2>1, <2>6, <3>2
    <3>3. CASE q = p /\ i = tid
      BY <1>3, <2>1, <2>3, <2>7, <3>3
    <3> QED BY <3>1, <3>2, <3>3
  <2> QED BY <2>8, <2>9
<1> QED BY <1>2, <1>3

LEMMA UnlockOrGrant ==
  ASSUME NEW reqs, NEW R, NEW o
  PROVE  /\ AtMostOne(GrantOr(reqs, R, send_unlock(R, o)))
         /\ \A x : GrantOr(reqs, R, send_unlock(R, o)) = <<x>> =>
              /\ x.resource = R
              /\ \/ x.request = "UNLOCK" /\ x.owner = o
                 \/ /\ x.request = "GRANT"
                    /\ \E r \in reqs : r.resource = R /\ r.owner = x.owner
<1>1. AtMostOne(send_unlock(R, o))
  BY DEF AtMostOne, send_unlock
<1>2. \A x : send_unlock(R, o) = <<x>> => x = Msg("UNLOCK", R, o, FALSE)
  BY OneEqual DEF send_unlock, UnlockMsg
<1> QED BY <1>1, <1>2, GrantOrSays DEF Msg

LEMMA GrantLocalKeeps ==
  ASSUME Payload = LockMsg, BaseInv, BaseInv', TokenInv, NEW d \in Daemon,
         process_grant_local(d)
  PROVE  TokenInv'
<1>1. PICK m, R, p, tid, id, L, t, o :
        /\ m = Body(d) /\ R = m.resource /\ o = m.owner /\ p = o.pid /\ tid = o.tid
        /\ id = local_lockid[d] + 1 /\ t = pos[d] + 1
        /\ L = [GrantDelivered(d, m) EXCEPT !.local_id = id]
  OBVIOUS
<1>2. /\ Delivers(d, "GRANT") /\ joined[d] /\ UNCHANGED <<clients, ended>>
      /\ locks[d][R].state # "NONE" /\ o.node = NodeOf[d]
      /\ local_lockid' = [local_lockid EXCEPT ![d] = id] /\ SetLock(d, R, L)
  BY <1>1 DEF process_grant_local
<1>3. /\ t \in Index /\ pos[d] \in Nat /\ pos[d] < Len(log) /\ Len(log) \in Nat
      /\ t = pos[d] + 1 /\ pos[d] < t
      /\ OwnerAt(t) = o /\ MsgAt(t, "GRANT", R) /\ \A S : Token(t, S) => S = R
      /\ d \in cpg
  <2>1. /\ pos[d] + 1 \in Index /\ pos[d] \in Nat /\ pos[d] < Len(log)
        /\ OwnerAt(pos[d] + 1) = Body(d).owner
        /\ MsgAt(pos[d] + 1, "GRANT", Body(d).resource)
        /\ \A S : Token(pos[d] + 1, S) => S = Body(d).resource
        /\ d \in cpg
    BY <1>2, Dispatching
  <2>2. Len(log) \in Nat
    BY LenProperties DEF BaseInv, TypeOK, GTypeOK
  <2> QED BY <1>1, <2>1, <2>2
<1>4. R \in Resource /\ Token(t, R) /\ o \in Owners /\ requests[d] \in SUBSET Request
  <2>1. GTypeOK /\ HasNext(d) /\ NextEntry(d).request = "APP" /\ Body(d).request = "GRANT"
    BY <1>2 DEF BaseInv, TypeOK, Delivers, Body
  <2>2. requests[d] \in SUBSET Request
    BY LocksTyped DEF BaseInv
  <2> QED BY <1>1, <1>3, <2>1, <2>2, BodyTypes DEF Token
<1>5. LastToken(t, R)
  BY <1>2, <1>3, <1>4 DEF TokenInv, AtOwner
<1>6. o = Owner(NodeOf[d], p, tid) /\ p \in Pid /\ tid \in Nat
  BY <1>1, <1>2, <1>4 DEF Owners, Owner
<1>7. OfCall(o, R) /\ NodeJoined(o.node, Len(log)) /\ p \in Proc /\ tid \in DOMAIN calls[p]
      /\ calls[p][tid].resource = R
  <2>1. OfCall(o, R) /\ NodeJoined(o.node, t)
    BY <1>3, <1>4 DEF TokenInv, Asked
  <2>2. t \in Nat /\ t <= Len(log)
    BY <1>3 DEF Index
  <2> QED BY <1>1, <1>3, <2>1, <2>2, JoinedLater DEF OfCall
<1>8. \A q \in Proc : \A i : ~(HasToken(q, i, d) /\ calls[q][i].resource = R)
  BY <1>3, <1>4, HeldIsBehind
<1>9. \A q \in Proc \ ended : \A j \in DOMAIN calls[q] :
        calls[q][j].resource = R => calls[q][j].st # "held"
  BY <1>3, <1>4, <1>5, <1>2, NoHolder
<1>10. L.state = "HELD" /\ L.owner = o /\ L.local_id = id
       /\ L = [state |-> "HELD", owner |-> o, local_id |-> id]
  <2>1. locks[d][R] \in LockRecord
    BY <1>4, LocksTyped DEF BaseInv
  <2> QED BY <1>1, <2>1 DEF LockRecord, GrantDelivered
<1>11. /\ locks'[d][R] = L /\ \A S \in Resource \ {R} : locks'[d][S] = locks[d][S]
       /\ \A e \in Daemon \ {d} : /\ locks'[e] = locks[e]
                                  /\ local_lockid'[e] = local_lockid[e]
       /\ local_lockid'[d] = id /\ local_lockid[d] \in Nat /\ id # 0 /\ id = local_lockid[d] + 1
  <2>1. /\ locks \in [Daemon -> [Resource -> LockRecord]]
        /\ local_lockid \in [Daemon -> Nat]
    BY DEF BaseInv, TypeOK
  <2> QED BY <1>1, <1>2, <1>4, <2>1 DEF SetLock
<1> DEFINE left == requests[d] \ Matching(requests[d], m)
           rest == purge_requests(left, NodeOf[d], p)
<1>12. left \subseteq requests[d] /\ rest \subseteq requests[d] /\ rest \in SUBSET Request
  BY <1>4 DEF purge_requests
<1>13. PICK Q, out :
         /\ SetRequests(d, Q) /\ DeliverApp(d, out)
         /\ \/ Q = left /\ out = <<>> /\ find_client(d, p) /\ calls' = grant_client(p, tid, id)
            \/ /\ Q = GrantMarked(rest, {R}) /\ calls' = calls
               /\ out = GrantOr(rest, R, send_unlock(R, o))
  BY <1>1 DEF process_grant_local
<1>14. \A q \in Q : \E r \in requests[d] : q.resource = r.resource /\ q.owner = r.owner
  <2>1. CASE Q = left
    BY <1>12, <2>1
  <2>2. CASE Q = GrantMarked(rest, {R})
    <3> HIDE DEF rest
    <3>1. \A q \in Q : \E r \in rest : q.resource = r.resource /\ q.owner = r.owner
      BY <1>12, <2>2, MarkedSays
    <3> QED BY <1>12, <3>1
  <2> QED BY <1>13, <2>1, <2>2
<1>15. /\ AtMostOne(out)
       /\ \A x : out = <<x>> =>
            /\ x.resource = R
            /\ \/ x.request = "UNLOCK" /\ x.owner = o
               \/ /\ x.request = "GRANT"
                  /\ \E r \in requests[d] : r.resource = R /\ r.owner = x.owner
  <2>1. AtMostOne(<<>>) /\ \A x : <<>> # <<x>>
    BY DEF AtMostOne
  <2> HIDE DEF left, rest
  <2> QED BY <1>12, <1>13, <2>1, UnlockOrGrant
<1>16. /\ \A q \in Proc : DOMAIN calls'[q] = DOMAIN calls[q]
       /\ \A q \in Proc : \A i \in DOMAIN calls[q] :
            /\ calls'[q][i].resource = calls[q][i].resource
            /\ \/ calls'[q][i] = calls[q][i]
               \/ /\ q = p /\ i = tid /\ p \in clients[d] /\ out = <<>>
                  /\ calls'[q][i].st = "held" /\ calls'[q][i].lockid = id
  <2>1. CASE calls' = calls
    BY <2>1
  <2>2. CASE find_client(d, p) /\ calls' = grant_client(p, tid, id) /\ out = <<>>
    <3>1. calls' = Answered(p, tid, "held", id) /\ p \in clients[d]
      BY <2>2 DEF grant_client, find_client
    <3> QED BY <1>7, <2>2, <3>1, AnsweredSays
  <2> QED BY <1>13, <2>1, <2>2
<1> HIDE DEF left, rest
<1>17. Frame(d) /\ Adds(out) /\ pos'[d] = t /\ requests'[d] = Q
       /\ cpg' = cpg /\ joined' = joined /\ phase' = phase
  <2>1. requests'[d] = Q /\ \A e \in Daemon \ {d} : requests'[e] = requests[e]
    BY <1>13 DEF SetRequests, BaseInv, TypeOK
  <2>2. \A S \in Resource : locks[d][S].state # "NONE" => locks'[d][S].state # "NONE"
    BY <1>10, <1>11
  <2>3. \A q \in Proc : \A i \in DOMAIN calls[q] :
          i \in DOMAIN calls'[q] /\ calls'[q][i].resource = calls[q][i].resource
    BY <1>16
  <2>4. Frame(d) /\ Adds(out)
    BY <1>2, <1>11, <1>13, <1>15, <2>1, <2>2, <2>3, HandlerFrame
  <2> QED BY <1>3, <1>13, <2>1, <2>4, HandlerMovesOn
<1>18. ASSUME NEW i \in Index' \ Index, NEW S, Token(i, S)'
       PROVE  /\ S = R /\ (MsgAt(i, "UNLOCK", R)' => OwnerAt(i)' = o)
              /\ \A k \in Index' : k <= i
              /\ \A k \in Index' \ Index : k = i
              /\ out # <<>>
  <2>1. PICK x : /\ out = <<x>> /\ OwnerAt(i)' = x.owner
                 /\ \A q, T : MsgAt(i, q, T)' => q = x.request /\ T = x.resource
    BY <1>17 DEF Adds
  <2>2. S = R /\ (MsgAt(i, "UNLOCK", R)' => OwnerAt(i)' = o)
    BY <1>15, <1>18, <2>1 DEF Token
  <2> QED BY <1>17, <2>1, <2>2 DEF Adds
<1>19. TokenRule(d)
  <2> SUFFICES ASSUME NEW S \in Resource, NEW i \in Index' \ Index, Token(i, S)'
               PROVE  /\ \A k \in Index' : k <= i
                      /\ \A k \in Index' \ Index : k = i
                      /\ Entitled(d, S, i)
                      /\ ~OwnFree(d, locks'[d][S])
                      /\ \A q \in Proc \ ended' : \A j \in DOMAIN calls'[q] :
                           calls'[q][j].resource = S => calls'[q][j].st # "held"
    BY DEF TokenRule
  <2>1. /\ S = R /\ (MsgAt(i, "UNLOCK", R)' => OwnerAt(i)' = o)
        /\ \A k \in Index' : k <= i
        /\ \A k \in Index' \ Index : k = i
        /\ out # <<>>
    BY <1>18
  <2>2. t <= pos'[d]
    BY <1>3, <1>17
  <2>3. Entitled(d, S, i)
    BY <1>2, <1>3, <1>5, <2>1, <2>2 DEF Entitled
  <2>4. ~OwnFree(d, locks'[d][S])
    BY <1>10, <1>11, <2>1 DEF OwnFree
  <2>5. \A q \in Proc \ ended' : \A j \in DOMAIN calls'[q] :
          calls'[q][j].resource = S => calls'[q][j].st # "held"
    BY <1>2, <1>9, <1>16, <2>1
  <2> QED BY <2>1, <2>3, <2>4, <2>5
<1>20. AskedRule(d)
  <2>1. \A x : out = <<x>> /\ x.request \in {"LOCK", "GRANT", "UNLOCK"} =>
          OfCall(x.owner, x.resource) /\ NodeJoined(x.owner.node, Len(log))
    BY <1>7, <1>15, QueuedAsked DEF TokenInv
  <2>2. \A x : out = <<x>> /\ x.request \in {"LOCK", "GRANT", "UNLOCK"} =>
          OfCall(x.owner, x.resource)' /\ NodeJoined(x.owner.node, Len(log))
    BY <1>17, <2>1, AskedOnce
  <2> QED BY <1>14, <1>17, <2>2, AskedFrom DEF TokenInv
<1>21. Record(d, R)'
  <2>1. /\ t \in Index' /\ MsgAt(t, "GRANT", R)' /\ t <= pos'[d]
        /\ OwnerAt(t)' = o /\ \A k \in Index' : Token(k, R)' /\ k <= pos'[d] => k <= t
    BY <1>3, <1>17, OldEntries
  <2> QED BY <1>2, <1>10, <1>11, <1>17, <2>1 DEF Record
<1>22. \A S \in Resource : Record(d, S)'
  <2>1. ASSUME NEW S \in Resource, S # R PROVE Record(d, S)'
    <3>1. Record(d, S) /\ locks'[d][S] = locks[d][S] /\ ~Token(pos[d] + 1, S)
      BY <1>3, <1>11, <2>1 DEF TokenInv, Records
    <3>2. \A i \in Index' \ Index : ~Token(i, S)'
      BY <1>18, <2>1
    <3> QED BY <1>3, <1>17, <3>1, <3>2, RecordKept
  <2> QED BY <1>21, <2>1
<1>23. IdsDiffer(d)'
  <2>1. IdsDiffer(d)
    BY DEF TokenInv, Records
  <2>2. \A S \in Resource : locks[d][S].local_id \in Nat
    BY LocksTyped DEF BaseInv, LockRecord
  <2>3. \A S \in Resource : locks[d][S].local_id <= local_lockid[d]
    BY <2>1 DEF IdsDiffer
  <2>4. \A S \in Resource : locks'[d][S].local_id <= local_lockid'[d]
    BY <1>10, <1>11, <2>2, <2>3
  <2>5. \A S \in Resource \ {R} : locks'[d][S].local_id # id
    BY <1>11, <2>2, <2>3
  <2>6. \A S, T \in Resource : locks'[d][S].local_id = locks'[d][T].local_id
                               /\ locks'[d][S].local_id # 0 => S = T
    BY <1>10, <1>11, <2>1, <2>5 DEF IdsDiffer
  <2> QED BY <2>4, <2>6 DEF IdsDiffer
<1>24. HolderRule(d)
  <2> SUFFICES ASSUME NEW q \in Proc \ ended', NEW i \in DOMAIN calls'[q],
                      calls'[q][i].st = "held"
               PROVE  \/ HasToken(q, i, d)'
                      \/ /\ q \notin ended /\ i \in DOMAIN calls[q]
                         /\ calls'[q][i] = calls[q][i]
                         /\ q \in clients[d] => q \in clients'[d]
                         /\ HasToken(q, i, d) => locks'[d][calls[q][i].resource]
                                                   = locks[d][calls[q][i].resource]
    BY DEF HolderRule
  <2>1. i \in DOMAIN calls[q] /\ q \notin ended /\ clients' = clients
    BY <1>2, <1>16
  <2>2. CASE calls'[q][i] = calls[q][i]
    <3>1. HasToken(q, i, d) => calls[q][i].resource # R
      BY <1>8
    <3>2. calls[q][i].resource \in Resource
      BY <2>1, CallTypes
    <3> QED BY <1>11, <2>1, <2>2, <3>1, <3>2
  <2>3. CASE q = p /\ i = tid /\ p \in clients[d] /\ out = <<>> /\ calls'[q][i].lockid = id
    <3>1. PICK c : c = calls'[q][i]
      OBVIOUS
    <3>2. c.resource = R /\ c.lockid = id
      BY <1>7, <1>16, <2>1, <2>3, <3>1
    <3>3. \A k \in Index' \ Index : ~Token(k, R)'
      BY <1>18, <2>3
    <3>4. LastToken(t, R)'
      BY <1>5, <1>17, <3>3, LastKept
    <3>5. t \in Index' /\ MsgAt(t, "GRANT", R)' /\ t <= pos'[d] /\ OwnerAt(t)' = o
      BY <1>3, <1>17, OldEntries
    <3>6. HasToken(q, i, d)'
      BY <1>6, <1>10, <1>11, <2>1, <2>3, <3>1, <3>2, <3>4, <3>5 DEF HasToken
    <3> QED BY <3>6
  <2> QED BY <1>16, <2>1, <2>2, <2>3
<1>25. NobodyGone' /\ Connected'
  BY <1>2, <1>17 DEF TokenInv, NobodyGone, Connected
<1> QED BY <1>17, <1>19, <1>20, <1>22, <1>23, <1>24, <1>25, RulesKeepInv

-----------------------------------------------------------------------------
(***************************************************************************)
(* Steps that write no record and multicast no token.                      *)
(***************************************************************************)
LEMMA QuietKeeps ==
  ASSUME BaseInv, BaseInv', TokenInv, NEW d \in Daemon, Frame(d), AskedRule(d),
         \A R : \A i \in Index' \ Index : ~Token(i, R)',
         UNCHANGED <<locks, local_lockid>>,
         ~joined'[d] => ~joined[d],
         \/ ~joined[d] \/ pos'[d] = pos[d]
         \/ pos'[d] = pos[d] + 1 /\ \A R \in Resource : ~Token(pos[d] + 1, R),
         NobodyGone', Connected',
         \A p \in Proc \ ended' : \A i \in DOMAIN calls'[p] : calls'[p][i].st = "held" =>
           /\ p \notin ended /\ i \in DOMAIN calls[p] /\ calls'[p][i] = calls[p][i]
           /\ p \in clients[d] => p \in clients'[d]
  PROVE  TokenInv'
<1>1. TokenRule(d)
  BY DEF TokenRule
<1>2. HolderRule(d)
  BY DEF HolderRule
<1>3. IdsDiffer(d)'
  BY DEF TokenInv, Records, IdsDiffer
<1>4. ASSUME NEW R \in Resource PROVE Record(d, R)'
  <2>1. Record(d, R)
    BY DEF TokenInv, Records
  <2>2. ~joined[d] => locks[d][R].state = "NONE"
    BY <2>1 DEF Record
  <2>3. locks'[d][R] = locks[d][R]
    OBVIOUS
  <2> QED BY <2>1, <2>2, <2>3, RecordKept
<1> QED BY <1>1, <1>2, <1>3, <1>4, RulesKeepInv

\* What the membership layer does on its own: d may pass over an entry that
\* is no lock message, or comes before its JOIN.
GroupStep(d) ==
  /\ UNCHANGED lockVars
  /\ LogGrows
  /\ \A i \in Index' \ Index : log'[i].request # "APP"
  /\ cpg \subseteq cpg' /\ \A e \in cpg' \ cpg : pos'[e] = Len(log)
  /\ \A e \in Daemon : pos[e] <= pos'[e] /\ pos'[e] <= Len(log)
  /\ \A e \in Daemon \ {d} : pos'[e] = pos[e] /\ joined'[e] = joined[e]
  /\ ~joined'[d] => ~joined[d]
  /\ \/ d \notin cpg \/ pos'[d] = pos[d]
     \/ /\ pos'[d] = pos[d] + 1
        /\ NextEntry(d).request = "APP" => ~joined[d] /\ Body(d).request # "PURGE"
  /\ \A e \in Daemon : phase'[e] # "gone" /\ (phase[e] = "up" => phase'[e] = "up")

LEMMA GroupStepKeeps ==
  ASSUME BaseInv, BaseInv', TokenInv, NEW d \in Daemon, GroupStep(d)
  PROVE  TokenInv' /\ Frame(d)
<1>0. /\ UNCHANGED <<locks, requests, local_lockid, clients, calls, ended>>
      /\ LogGrows /\ \A i \in Index' \ Index : log'[i].request # "APP"
      /\ \A e \in Daemon : pos[e] <= pos'[e] /\ pos'[e] <= Len(log)
      /\ ~joined'[d] => ~joined[d]
  BY DEF GroupStep, lockVars
<1>1. Frame(d)
  BY <1>0 DEF Frame, GroupStep
<1>2. \/ ~joined[d] \/ pos'[d] = pos[d]
      \/ pos'[d] = pos[d] + 1 /\ \A R \in Resource : ~Token(pos[d] + 1, R)
  BY JoinedIsMember DEF GroupStep, Token, MsgAt, NextEntry
<1>3. \A i \in Index' \ Index : \A q, R : ~MsgAt(i, q, R)'
  BY <1>0 DEF MsgAt
<1>4. \A R : \A i \in Index' \ Index : ~Token(i, R)'
  BY <1>3 DEF Token
<1>5. AskedRule(d)
  <2>1. ASSUME NEW r \in requests'[d]
        PROVE  OfCall(r.owner, r.resource)' /\ NodeJoined(r.owner.node, pos'[d])
    <3>1. OfCall(r.owner, r.resource) /\ NodeJoined(r.owner.node, pos[d])
      BY <1>0, QueuedAsked DEF TokenInv
    <3>2. pos[d] \in Nat /\ pos'[d] \in Nat /\ pos[d] <= pos'[d]
      BY <1>0, Positions
    <3>3. NodeJoined(r.owner.node, pos'[d])
      BY <3>1, <3>2, JoinedLater
    <3> QED BY <1>1, <3>1, <3>3, AskedOnce
  <2> QED BY <1>3, <1>4, <2>1 DEF AskedRule
<1>6. NobodyGone' /\ Connected'
  BY <1>0 DEF TokenInv, NobodyGone, Connected, GroupStep
<1>7. \A p \in Proc \ ended' : \A i \in DOMAIN calls'[p] : calls'[p][i].st = "held" =>
        /\ p \notin ended /\ i \in DOMAIN calls[p] /\ calls'[p][i] = calls[p][i]
        /\ p \in clients[d] => p \in clients'[d]
  BY <1>0
<1> QED BY <1>0, <1>1, <1>4, <1>5, <1>6, <1>7, <1>2, QuietKeeps

\* A handler that writes no record and multicasts no token.
LEMMA QuietHandlerKeeps ==
  ASSUME BaseInv, BaseInv', TokenInv, NEW d \in Daemon, NEW out, AtMostOne(out),
         \/ Send(d, out)
         \/ DeliverApp(d, out) /\ \A R \in Resource : ~Token(pos[d] + 1, R),
         \A m : out = <<m>> => m.request \notin {"GRANT", "UNLOCK"},
         \A m : out = <<m>> /\ m.request = "LOCK" =>
           OfCall(m.owner, m.resource)' /\ NodeJoined(m.owner.node, Len(log)),
         UNCHANGED <<locks, local_lockid>>,
         \A e \in Daemon \ {d} : requests'[e] = requests[e] /\ clients'[e] = clients[e],
         \A q \in requests'[d] :
           \E r \in requests[d] : q.resource = r.resource /\ q.owner = r.owner,
         \A p \in Proc : \A i \in DOMAIN calls[p] :
           i \in DOMAIN calls'[p] /\ calls'[p][i].resource = calls[p][i].resource,
         Connected',
         \A p \in Proc \ ended' : \A i \in DOMAIN calls'[p] : calls'[p][i].st = "held" =>
           /\ p \notin ended /\ i \in DOMAIN calls[p] /\ calls'[p][i] = calls[p][i]
           /\ p \in clients[d] => p \in clients'[d]
  PROVE  TokenInv'
<1>0. DeliverApp(d, out) \/ Send(d, out)
  OBVIOUS
<1>1. Frame(d) /\ Adds(out)
  BY <1>0, HandlerFrame
<1>2. /\ joined' = joined /\ phase' = phase
      /\ \/ pos'[d] = pos[d]
         \/ pos'[d] = pos[d] + 1 /\ \A R \in Resource : ~Token(pos[d] + 1, R)
  BY <1>0, HandlerMovesOn
<1>3. \A R : \A i \in Index' \ Index : ~Token(i, R)'
  BY <1>1, NoNewToken
<1>4. AskedRule(d)
  BY <1>1, AskedFrom DEF TokenInv
<1>5. NobodyGone'
  BY <1>2 DEF TokenInv, NobodyGone
<1> QED BY <1>1, <1>2, <1>3, <1>4, <1>5, QuietKeeps

LEMMA NakKeeps ==
  ASSUME Payload = LockMsg, BaseInv, BaseInv', TokenInv, NEW d \in Daemon, process_nak(d)
  PROVE  TokenInv'
<1>1. PICK m, p, tid : m = Body(d) /\ p = m.owner.pid /\ tid = m.owner.tid
  OBVIOUS
<1> DEFINE found == Matching(requests[d], m)
           left  == requests[d] \ found
<1>2. PICK Q : /\ SetRequests(d, Q) /\ (Q = left \/ Q = purge_requests(left, NodeOf[d], p))
               /\ DeliverApp(d, <<>>) /\ UNCHANGED <<locks, local_lockid, clients, ended>>
               /\ \/ calls' = calls
                  \/ found # {} /\ find_client(d, p) /\ calls' = nak_client(p, tid)
  BY <1>1 DEF process_nak
<1>3. Q \subseteq requests[d]
  BY <1>2 DEF purge_requests
<1>4. requests'[d] = Q /\ \A e \in Daemon \ {d} : requests'[e] = requests[e]
  BY <1>2 DEF SetRequests, BaseInv, TypeOK
<1>5. \A R \in Resource : ~Token(pos[d] + 1, R)
  <2>1. Delivers(d, "NAK")
    BY DEF process_nak
  <2>2. "NAK" \notin {"GRANT", "UNLOCK"}
    OBVIOUS
  <2> QED BY <2>1, <2>2, Dispatching
<1>6. /\ \A q \in Proc : DOMAIN calls'[q] = DOMAIN calls[q]
      /\ \A q \in Proc : \A i \in DOMAIN calls[q] :
           /\ calls'[q][i].resource = calls[q][i].resource
           /\ calls'[q][i] = calls[q][i] \/ calls'[q][i].st = "nak"
  <2>1. CASE calls' = calls
    BY <2>1
  <2>2. CASE found # {} /\ find_client(d, p) /\ calls' = nak_client(p, tid)
    <3>1. PICK r \in requests[d] : r.owner = m.owner
      BY <2>2 DEF Matching
    <3>2. OfCall(r.owner, r.resource)
      BY QueuedAsked DEF TokenInv
    <3>3. p \in Proc /\ tid \in DOMAIN calls[p]
      BY <1>1, <3>1, <3>2 DEF OfCall
    <3>4. calls' = Answered(p, tid, "nak", 0)
      BY <2>2 DEF nak_client
    <3> QED BY <3>3, <3>4, AnsweredSays
  <2> QED BY <1>2, <2>1, <2>2
<1>7. AtMostOne(<<>>) /\ \A x : <<>> # <<x>>
  BY DEF AtMostOne
<1>8. Connected'
  <2>1. phase' = phase
    BY <1>2, HandlerMovesOn
  <2> QED BY <1>2, <2>1 DEF TokenInv, Connected
<1>9. \A q \in Proc \ ended' : \A i \in DOMAIN calls'[q] : calls'[q][i].st = "held" =>
        /\ q \notin ended /\ i \in DOMAIN calls[q] /\ calls'[q][i] = calls[q][i]
        /\ q \in clients[d] => q \in clients'[d]
  BY <1>2, <1>6
<1>10. \A q \in requests'[d] :
         \E r \in requests[d] : q.resource = r.resource /\ q.owner = r.owner
  BY <1>3, <1>4
<1>11. \A q \in Proc : \A i \in DOMAIN calls[q] :
         i \in DOMAIN calls'[q] /\ calls'[q][i].resource = calls[q][i].resource
  BY <1>6
<1> QED BY <1>2, <1>4, <1>5, <1>7, <1>8, <1>9, <1>10, <1>11, QuietHandlerKeeps

LEMMA PurgeKeeps ==
  ASSUME Payload = LockMsg, BaseInv, BaseInv', TokenInv, NEW d \in Daemon, process_purge(d)
  PROVE  TokenInv'
<1>1. PICK Q : /\ SetRequests(d, Q) /\ Q \subseteq requests[d] /\ DeliverApp(d, <<>>)
               /\ UNCHANGED <<locks, local_lockid, clients, calls, ended>>
  BY DEF process_purge, purge_requests, clientVars
<1>2. requests'[d] = Q /\ \A e \in Daemon \ {d} : requests'[e] = requests[e]
  BY <1>1 DEF SetRequests, BaseInv, TypeOK
<1>3. \A R \in Resource : ~Token(pos[d] + 1, R)
  <2>1. Delivers(d, "PURGE")
    BY DEF process_purge
  <2>2. "PURGE" \notin {"GRANT", "UNLOCK"}
    OBVIOUS
  <2> QED BY <2>1, <2>2, Dispatching
<1>4. AtMostOne(<<>>) /\ \A x : <<>> # <<x>>
  BY DEF AtMostOne
<1>5. Connected'
  <2>1. phase' = phase
    BY <1>1, HandlerMovesOn
  <2> QED BY <1>1, <2>1 DEF TokenInv, Connected
<1>6. \A q \in requests'[d] :
        \E r \in requests[d] : q.resource = r.resource /\ q.owner = r.owner
  BY <1>1, <1>2
<1>7. \A q \in Proc \ ended' : \A i \in DOMAIN calls'[q] : calls'[q][i].st = "held" =>
        /\ q \notin ended /\ i \in DOMAIN calls[q] /\ calls'[q][i] = calls[q][i]
        /\ q \in clients[d] => q \in clients'[d]
  BY <1>1
<1>8. \A q \in Proc : \A i \in DOMAIN calls[q] :
        i \in DOMAIN calls'[q] /\ calls'[q][i].resource = calls[q][i].resource
  BY <1>1
<1> QED BY <1>1, <1>2, <1>3, <1>4, <1>5, <1>6, <1>7, <1>8, QuietHandlerKeeps

LEMMA IgnoreSteps ==
  ASSUME BaseInv, BaseInv', TokenInv, NEW d \in Daemon, IgnoreBeforeJoin(d)
  PROVE  GroupStep(d)
<1>1. /\ ~joined[d] /\ DeliverApp(d, <<>>) /\ UNCHANGED lockVars
      /\ Body(d).request # "PURGE"
  BY DEF IgnoreBeforeJoin
<1>2. AtMostOne(<<>>)
  BY DEF AtMostOne
<1>3. /\ cpg' = cpg /\ phase' = phase /\ joined' = joined /\ log' = Mcast(d, <<>>)
      /\ \A e \in Daemon : pos[e] <= pos'[e] /\ pos'[e] <= Len(log)
      /\ \A e \in Daemon \ {d} : pos'[e] = pos[e]
      /\ pos'[d] = pos[d] + 1
  BY <1>1, HandlerMovesOn
<1>4. LogGrows /\ Index' \ Index = {}
  <2>1. LogGrows /\ Adds(<<>>)
    BY <1>2, <1>3, OutAdds
  <2>2. \A x : <<>> # <<x>>
    OBVIOUS
  <2> QED BY <2>1, <2>2 DEF Adds
<1>5. \A e \in Daemon : phase'[e] # "gone" /\ (phase[e] = "up" => phase'[e] = "up")
  BY <1>3 DEF TokenInv, NobodyGone
<1> QED BY <1>1, <1>3, <1>4, <1>5 DEF GroupStep

\* A step of the membership layer that moves d over an entry that is no
\* lock message, and multicasts nothing.
LEMMA MovedOverSteps ==
  ASSUME BaseInv, BaseInv', TokenInv, NEW d \in Daemon, UNCHANGED lockVars,
         HasNext(d), NextEntry(d).request # "APP", Dispatched(d),
         log' = log, UNCHANGED <<cpg, phase>>,
         \A e \in Daemon \ {d} : joined'[e] = joined[e],
         ~joined'[d] => ~joined[d]
  PROVE  GroupStep(d)
<1>1. /\ pos \in [Daemon -> Nat] /\ Len(log) \in Nat /\ pos[d] < Len(log)
      /\ \A e \in Daemon : pos[e] \in Nat /\ pos[e] <= Len(log)
  BY Positions DEF BaseInv, TypeOK, GTypeOK, HasNext
<1>2. pos'[d] = pos[d] + 1 /\ \A e \in Daemon \ {d} : pos'[e] = pos[e]
  BY <1>1 DEF Dispatched
<1>3. \A e \in Daemon : pos[e] <= pos'[e] /\ pos'[e] <= Len(log)
  BY <1>1, <1>2
<1>5. LogGrows /\ Index' \ Index = {}
  BY <1>1 DEF LogGrows, Index
<1>6. \A e \in Daemon : phase'[e] # "gone" /\ (phase[e] = "up" => phase'[e] = "up")
  BY DEF TokenInv, NobodyGone
<1> QED BY <1>2, <1>3, <1>5, <1>6 DEF GroupStep

LEMMA DispatchSteps ==
  ASSUME BaseInv, BaseInv', TokenInv, NEW d \in Daemon,
         DeliverJoin(d) \/ DeliverNothing(d) \/ NobodyLeaves(d)
  PROVE  GroupStep(d)
<1>0. joined \in [Daemon -> BOOLEAN]
  BY DEF BaseInv, TypeOK, GTypeOK
<1>1. CASE DeliverJoin(d)
  <2>1. /\ HasNext(d) /\ NextEntry(d).request = "JOIN" /\ Dispatched(d)
        /\ UNCHANGED <<cpg, log, phase>> /\ UNCHANGED lockVars
        /\ \/ UNCHANGED joined
           \/ \E b \in BOOLEAN : joined' = [joined EXCEPT ![d] = joined[d] \/ b]
    BY <1>0, <1>1 DEF DeliverJoin, process_join
  <2>2. (\A e \in Daemon \ {d} : joined'[e] = joined[e]) /\ (~joined'[d] => ~joined[d])
    BY <1>0, <2>1
  <2> QED BY <2>1, <2>2, MovedOverSteps
<1>2. CASE DeliverNothing(d)
  <2>1. /\ HasNext(d) /\ NextEntry(d).request = "LOST" /\ Dispatched(d)
        /\ UNCHANGED <<cpg, log, phase, joined>> /\ UNCHANGED lockVars
    BY <1>2 DEF DeliverNothing, DeliverLost, groupVars
  <2> QED BY <2>1, MovedOverSteps
<1>3. CASE NobodyLeaves(d)
  <2>1. /\ HasNext(d) /\ NextEntry(d).request = "CONFCHG" /\ Dispatched(d)
        /\ log' = Mcast(d, <<>>)
        /\ UNCHANGED <<cpg, phase, joined>> /\ UNCHANGED lockVars
    BY <1>3 DEF NobodyLeaves, cpg_config_change
  <2>2. log' = log
    BY <2>1, McastNothing DEF BaseInv, IndInv
  <2> QED BY <2>1, <2>2, MovedOverSteps
<1> QED BY <1>1, <1>2, <1>3

LEMMA StartSteps ==
  ASSUME MembersStay, BaseInv, BaseInv', TokenInv, NEW d \in Daemon, Start(d)
  PROVE  GroupStep(d)
<1>0. /\ pos \in [Daemon -> Nat] /\ phase \in [Daemon -> Phase] /\ log \in Seq(Entry)
      /\ Len(log) \in Nat /\ cpg \in SUBSET Daemon
      /\ \A e \in Daemon : pos[e] \in Nat /\ pos[e] <= Len(log)
      /\ UNCHANGED lockVars
  BY Positions DEF BaseInv, TypeOK, GTypeOK, Start
<1>1. ASSUME NEW x, log' = Append(log, x), x.request # "APP"
      PROVE  LogGrows /\ \A i \in Index' \ Index : log'[i].request # "APP"
  <2>1. /\ Len(log)' = Len(log) + 1 /\ log'[Len(log) + 1] = x
        /\ \A i \in 1..Len(log) : log'[i] = log[i]
    BY <1>0, <1>1
  <2>2. \A i \in Index' \ Index : i = Len(log) + 1
    BY <1>0, <2>1 DEF Index
  <2> QED BY <1>0, <1>1, <2>1, <2>2 DEF LogGrows, Index
<1>2. ASSUME NEW ph, ph \in {"cpg_init", "listening", "up"}, phase[d] # "up",
             phase' = [phase EXCEPT ![d] = ph]
      PROVE  \A e \in Daemon : phase'[e] # "gone" /\ (phase[e] = "up" => phase'[e] = "up")
  BY <1>0, <1>2 DEF TokenInv, NobodyGone
<1>3. CASE CpgJoin(d)
  <2>1. /\ phase[d] = "off" /\ cpg' = cpg \cup {d} /\ joined' = joined
        /\ log' = Append(log, ConfChg(cpg \cup {d}, {}, {d}))
        /\ phase' = [phase EXCEPT ![d] = "cpg_init"]
        /\ pos' = [pos EXCEPT ![d] = Len(log)]
    BY <1>3 DEF CpgJoin, groupVars
  <2>2. ConfChg(cpg \cup {d}, {}, {d}).request # "APP"
    BY DEF ConfChg
  <2>3. LogGrows /\ \A i \in Index' \ Index : log'[i].request # "APP"
    BY <1>1, <2>1, <2>2
  <2>4. /\ cpg \subseteq cpg' /\ \A e \in cpg' \ cpg : pos'[e] = Len(log)
        /\ \A e \in Daemon : pos[e] <= pos'[e] /\ pos'[e] <= Len(log)
        /\ \A e \in Daemon \ {d} : pos'[e] = pos[e]
    BY <1>0, <2>1
  <2>5. \A e \in Daemon : phase'[e] # "gone" /\ (phase[e] = "up" => phase'[e] = "up")
    BY <1>2, <2>1
  <2>6. d \notin cpg
    BY <2>1 DEF BaseInv, IndInv, LogInv, Members
  <2> QED BY <1>0, <2>1, <2>3, <2>4, <2>5, <2>6 DEF GroupStep
<1>4. CASE CpgInitAlone(d)
  <2>1. /\ phase[d] # "up" /\ phase' = [phase EXCEPT ![d] = "listening"]
        /\ UNCHANGED <<cpg, log, pos, joined>>
    BY <1>4 DEF CpgInitAlone, groupVars
  <2>2. LogGrows /\ Index' \ Index = {}
    BY <1>0, <2>1 DEF LogGrows, Index
  <2>3. /\ cpg \subseteq cpg' /\ cpg' \ cpg = {}
        /\ \A e \in Daemon : pos[e] <= pos'[e] /\ pos'[e] <= Len(log)
        /\ \A e \in Daemon \ {d} : pos'[e] = pos[e]
    BY <1>0, <2>1
  <2>4. \A e \in Daemon : phase'[e] # "gone" /\ (phase[e] = "up" => phase'[e] = "up")
    BY <1>2, <2>1
  <2> QED BY <1>0, <2>1, <2>2, <2>3, <2>4 DEF GroupStep
<1>5. CASE send_join(d)
  <2>1. /\ phase[d] # "up" /\ phase' = [phase EXCEPT ![d] = "up"]
        /\ log' = Append(log, JoinMsg(d)) /\ UNCHANGED <<cpg, pos, joined>>
    BY <1>5 DEF send_join, groupVars
  <2>2. JoinMsg(d).request # "APP"
    BY DEF JoinMsg
  <2>3. LogGrows /\ \A i \in Index' \ Index : log'[i].request # "APP"
    BY <1>1, <2>1, <2>2
  <2>4. /\ cpg \subseteq cpg' /\ cpg' \ cpg = {}
        /\ \A e \in Daemon : pos[e] <= pos'[e] /\ pos'[e] <= Len(log)
        /\ \A e \in Daemon \ {d} : pos'[e] = pos[e]
    BY <1>0, <2>1
  <2>5. \A e \in Daemon : phase'[e] # "gone" /\ (phase[e] = "up" => phase'[e] = "up")
    BY <1>2, <2>1
  <2> QED BY <1>0, <2>1, <2>3, <2>4, <2>5 DEF GroupStep
<1>6. ~StartFails(d)
  BY DEF StartFails, MembersStay
<1> QED BY <1>3, <1>4, <1>5, <1>6 DEF Start

-----------------------------------------------------------------------------
(***************************************************************************)
(* Clients.                                                                *)
(***************************************************************************)

\* A process has one daemon, which is up and has sent its JOIN.
LEMMA OneDaemon ==
  ASSUME BaseInv, TokenInv, NEW d \in Daemon, NEW p \in clients[d]
  PROVE  /\ p \in Proc \ ended /\ phase[d] = "up" /\ d \in cpg
         /\ NodeOf[d] = ProcNode[p] /\ NodeJoined(NodeOf[d], Len(log))
         /\ \A e \in Daemon : p \in clients[e] => e = d
<1>1. p \in Proc
  BY DEF BaseInv, TypeOK
<1>2. \A e \in Daemon : p \in clients[e] =>
        phase[e] = "up" /\ NodeOf[e] = ProcNode[p] /\ p \notin ended /\ e \in cpg
  BY DEF TokenInv, Connected, BaseInv, IndInv, LogInv, Members
<1>3. \A e \in Daemon : p \in clients[e] => e = d
  BY <1>2 DEF BaseInv, IndInv, LogInv, Members
<1>4. PICK j \in Index : JoinAt(j, d)
  BY <1>2 DEF BaseInv, OrderInv, SentJoin
<1>5. j <= Len(log)
  BY <1>4 DEF Index
<1>6. NodeJoined(NodeOf[d], Len(log))
  BY <1>2, <1>4, <1>5 DEF NodeJoined
<1> QED BY <1>1, <1>2, <1>3, <1>6

\* Only the connections of d change, and who has ended.
LEMMA StillKeeps ==
  ASSUME BaseInv, BaseInv', TokenInv, NEW d \in Daemon,
         UNCHANGED <<gvars, locks, requests, local_lockid, calls>>,
         \A e \in Daemon \ {d} : clients'[e] = clients[e],
         ended \subseteq ended', Connected',
         \A q \in Proc \ ended' : q \in clients[d] => q \in clients'[d]
  PROVE  TokenInv'
<1>0. UNCHANGED <<cpg, log, phase, pos, joined>>
  BY DEF gvars
<1>1. Index' = Index /\ Len(log) \in Nat /\ \A e \in Daemon : pos[e] \in Nat /\ pos[e] <= Len(log)
  BY <1>0, Positions DEF Index
<1>2. LogGrows
  BY <1>0, <1>1 DEF LogGrows
<1>3. Frame(d)
  BY <1>0, <1>1, <1>2 DEF Frame
<1>4. AskedRule(d)
  <2>1. \A r \in requests[d] : OfCall(r.owner, r.resource) /\ NodeJoined(r.owner.node, pos[d])
    BY DEF TokenInv, Asked
  <2>2. \A r \in requests'[d] : OfCall(r.owner, r.resource)' /\ NodeJoined(r.owner.node, pos'[d])
    BY <1>0, <1>3, <2>1, AskedOnce
  <2> QED BY <1>1, <2>2 DEF AskedRule
<1>5. NobodyGone'
  BY <1>0 DEF TokenInv, NobodyGone
<1>6. \A q \in Proc \ ended' : \A i \in DOMAIN calls'[q] : calls'[q][i].st = "held" =>
        /\ q \notin ended /\ i \in DOMAIN calls[q] /\ calls'[q][i] = calls[q][i]
        /\ q \in clients[d] => q \in clients'[d]
  OBVIOUS
<1> QED BY <1>0, <1>1, <1>3, <1>4, <1>5, <1>6, QuietKeeps

LEMMA ConnectKeeps ==
  ASSUME BaseInv, BaseInv', TokenInv, NEW d \in Daemon, NEW p \in Proc, Connect(p, d)
  PROVE  TokenInv'
<1>1. /\ phase[d] = "up" /\ NodeOf[d] = ProcNode[p] /\ p \notin ended
      /\ UNCHANGED <<gvars, locks, requests, local_lockid, calls>> /\ UNCHANGED ended
      /\ clients' = [clients EXCEPT ![d] = clients[d] \cup {p}]
  BY DEF Connect, daemonVars, insert_client
<1>2. clients'[d] = clients[d] \cup {p} /\ \A e \in Daemon \ {d} : clients'[e] = clients[e]
  BY <1>1 DEF BaseInv, TypeOK
<1>3. Connected'
  BY <1>1, <1>2 DEF TokenInv, Connected, gvars
<1> QED BY <1>1, <1>2, <1>3, StillKeeps

LEMMA ClientLockKeeps ==
  ASSUME BaseInv, BaseInv', TokenInv, NEW d \in Daemon, NEW p \in Proc, NEW R \in Resource,
         ClientLock(p, d, R)
  PROVE  TokenInv'
<1>1. PICK m, c, s : /\ m = Msg("LOCK", R, Owner(NodeOf[d], p, Len(calls[p]) + 1), p \in Triers)
                     /\ c = [resource |-> R, try |-> p \in Triers, st |-> "wait", lockid |-> 0]
                     /\ s = calls[p]
  OBVIOUS
<1>2. /\ p \in clients[d] /\ Send(d, <<m>>)
      /\ UNCHANGED <<locks, requests, local_lockid, clients, ended>>
      /\ calls' = [calls EXCEPT ![p] = Append(s, c)]
  BY <1>1 DEF ClientLock, cpg_lock, send_lock, daemonVars
<1>3. calls \in [Proc -> Seq(Call)] /\ s \in Seq(Call) /\ Len(s) \in Nat
  BY <1>1, LenProperties DEF BaseInv, TypeOK
<1>4. /\ calls'[p] = Append(s, c) /\ \A q \in Proc \ {p} : calls'[q] = calls[q]
      /\ DOMAIN s = 1..Len(s) /\ DOMAIN Append(s, c) = 1..Len(s) + 1
      /\ Append(s, c)[Len(s) + 1] = c /\ \A i \in 1..Len(s) : Append(s, c)[i] = s[i]
  BY <1>2, <1>3
<1>5. \A q \in Proc : \A i \in DOMAIN calls[q] : i \in DOMAIN calls'[q] /\ calls'[q][i] = calls[q][i]
  <2>1. ASSUME NEW i \in DOMAIN s PROVE i \in DOMAIN calls'[p] /\ calls'[p][i] = s[i]
    BY <1>3, <1>4
  <2> QED BY <1>1, <1>4, <2>1
<1>6. \A q \in Proc : \A i \in DOMAIN calls'[q] :
        i \in DOMAIN calls[q] \/ calls'[q][i].st = "wait"
  <2>1. ASSUME NEW q \in Proc, NEW i \in DOMAIN calls'[q], q = p, i \notin DOMAIN calls[q]
        PROVE  calls'[q][i].st = "wait"
    <3>1. i = Len(s) + 1
      BY <1>1, <1>3, <1>4, <2>1
    <3> QED BY <1>1, <1>4, <2>1, <3>1
  <2> QED BY <1>4, <2>1
<1>7. /\ m.request = "LOCK" /\ m.resource = R /\ m.owner.node = NodeOf[d]
      /\ m.owner.pid = p /\ m.owner.tid = Len(s) + 1
  BY <1>1 DEF Msg, Owner
<1>8. OfCall(m.owner, m.resource)'
  <2>1. Len(s) + 1 \in DOMAIN calls'[p] /\ calls'[p][Len(s) + 1].resource = R
    BY <1>1, <1>3, <1>4
  <2>2. PICK o : o = m.owner
    OBVIOUS
  <2>3. OfCall(o, R)'
    BY <1>7, <2>1, <2>2 DEF OfCall
  <2> QED BY <1>7, <2>2, <2>3
<1>9. NodeJoined(m.owner.node, Len(log))
  BY <1>2, <1>7, OneDaemon
<1>10. AtMostOne(<<m>>) /\ \A x : <<m>> = <<x>> => x = m
  BY OneEqual DEF AtMostOne
<1>11. Connected'
  <2>1. phase' = phase
    BY <1>2, HandlerMovesOn
  <2> QED BY <1>2, <2>1 DEF TokenInv, Connected
<1>12. \A q \in Proc \ ended' : \A i \in DOMAIN calls'[q] : calls'[q][i].st = "held" =>
         /\ q \notin ended /\ i \in DOMAIN calls[q] /\ calls'[q][i] = calls[q][i]
         /\ q \in clients[d] => q \in clients'[d]
  BY <1>2, <1>5, <1>6
<1>13. /\ \A x : <<m>> = <<x>> => x.request \notin {"GRANT", "UNLOCK"}
       /\ \A x : <<m>> = <<x>> /\ x.request = "LOCK" =>
            OfCall(x.owner, x.resource)' /\ NodeJoined(x.owner.node, Len(log))
  BY <1>7, <1>8, <1>9, <1>10
<1>14. \A q \in Proc : \A i \in DOMAIN calls[q] :
         i \in DOMAIN calls'[q] /\ calls'[q][i].resource = calls[q][i].resource
  BY <1>5
<1>15. /\ \A e \in Daemon \ {d} : requests'[e] = requests[e] /\ clients'[e] = clients[e]
       /\ \A q \in requests'[d] :
            \E r \in requests[d] : q.resource = r.resource /\ q.owner = r.owner
  BY <1>2
<1> QED BY <1>2, <1>10, <1>11, <1>12, <1>13, <1>14, <1>15, QuietHandlerKeeps

\* Nothing is released for a client that holds nothing.
LEMMA ReleaseNothing ==
  ASSUME NEW order \in Enumerations({}), NEW reqs, NEW o, NEW n, NEW p
  PROVE  SendPurge(n, p) \o ReleaseEach(reqs, order, o) = SendPurge(n, p)
<1>1. order \in Seq({}) /\ Len(order) = 0
  BY EnumerationsProperties, FS_EmptySet
<1>2. DOMAIN order = {}
  BY <1>1
<1>3. ReleaseEach(reqs, order, o) = <<>>
  BY <1>2 DEF ReleaseEach
<1>4. PICK x : x = Msg("PURGE", "(none)", Owner(n, p, 0), FALSE)
  OBVIOUS
<1>5. <<x>> \o <<>> = <<x>>
  OBVIOUS
<1> QED BY <1>3, <1>4, <1>5 DEF SendPurge

\* A client that holds nothing leaves a PURGE, and nothing else.
LEMMA PurgeOnly ==
  ASSUME BaseInv, NEW d \in Daemon, NEW p, HeldBy(d, p) = {}, del_client(d, p)
  PROVE  /\ SetRequests(d, GrantMarked(purge_requests(requests[d], NodeOf[d], p), {}))
         /\ UNCHANGED locks /\ Send(d, SendPurge(NodeOf[d], p))
<1> DEFINE kept == purge_requests(requests[d], NodeOf[d], p)
           out  == SendPurge(NodeOf[d], p)
<1>1. PICK order \in Enumerations({}) :
        /\ SetRequests(d, GrantMarked(kept, {}))
        /\ SetLocks(d, [R \in Resource |-> locks[d][R]])
        /\ Send(d, out \o ReleaseEach(kept, order, Owner(NodeOf[d], p, 0)))
  BY DEF del_client
<1>2. Send(d, out)
  <2> HIDE DEF kept
  <2>1. out \o ReleaseEach(kept, order, Owner(NodeOf[d], p, 0)) = out
    BY ReleaseNothing
  <2> QED BY <1>1, <2>1
<1>3. UNCHANGED locks
  <2>1. locks \in [Daemon -> [Resource -> LockRecord]]
    BY DEF BaseInv, TypeOK
  <2>2. locks[d] \in [Resource -> LockRecord]
    BY <2>1
  <2>3. [R \in Resource |-> locks[d][R]] = locks[d]
    BY <2>2
  <2>4. locks' = [locks EXCEPT ![d] = locks[d]]
    BY <1>1, <2>3 DEF SetLocks
  <2> QED BY <2>1, <2>4
<1> QED BY <1>1, <1>2, <1>3

LEMMA ClientExitKeeps ==
  ASSUME MembersStay, BaseInv, BaseInv', TokenInv, NEW d \in Daemon, NEW p \in Proc,
         ClientExit(p, d)
  PROVE  TokenInv'
<1>1. /\ p \in clients[d] /\ HeldBy(d, p) = {} /\ ended' = ended \cup {p}
      /\ clients' = [clients EXCEPT ![d] = clients[d] \ {p}]
      /\ UNCHANGED <<local_lockid, calls>>
  BY DEF ClientExit, cpg_lock_fin, MembersStay
<1>2. clients'[d] = clients[d] \ {p} /\ \A e \in Daemon \ {d} : clients'[e] = clients[e]
  BY <1>1 DEF BaseInv, TypeOK
<1>3. \A e \in Daemon : clients'[e] \subseteq clients[e] /\ p \notin clients'[e]
  BY <1>1, <1>2, OneDaemon
<1>4. \A q \in Proc \ ended' : q \in clients[d] => q \in clients'[d]
  BY <1>1, <1>2
<1>5. phase' = phase => Connected'
  BY <1>1, <1>3 DEF TokenInv, Connected
<1>6. CASE UNCHANGED <<gvars, locks, requests>>
  <2>1. Connected'
    BY <1>5, <1>6 DEF gvars
  <2> QED BY <1>1, <1>2, <1>4, <1>6, <2>1, StillKeeps
<1>7. CASE del_client(d, p)
  <2> DEFINE kept == purge_requests(requests[d], NodeOf[d], p)
             out  == SendPurge(NodeOf[d], p)
  <2>1. SetRequests(d, GrantMarked(kept, {}))
    BY <1>1, <1>7, PurgeOnly
  <2>2. Send(d, out)
    BY <1>1, <1>7, PurgeOnly
  <2>3. UNCHANGED locks
    BY <1>1, <1>7, PurgeOnly
  <2>4. /\ requests'[d] = GrantMarked(kept, {})
        /\ \A e \in Daemon \ {d} : requests'[e] = requests[e]
    BY <2>1 DEF SetRequests, BaseInv, TypeOK
  <2>5. kept \subseteq requests[d] /\ kept \in SUBSET Request
    <3>1. requests[d] \in SUBSET Request
      BY LocksTyped DEF BaseInv
    <3> QED BY <3>1 DEF purge_requests
  <2> HIDE DEF kept
  <2>6. \A q \in requests'[d] :
          \E r \in requests[d] : q.resource = r.resource /\ q.owner = r.owner
    BY <2>4, <2>5, MarkedSays
  <2>7. AtMostOne(out) /\ \A x : out = <<x>> => x.request = "PURGE"
    <3>1. PICK m : m = Msg("PURGE", "(none)", Owner(NodeOf[d], p, 0), FALSE)
      OBVIOUS
    <3>2. out = <<m>> /\ m.request = "PURGE"
      BY <3>1 DEF SendPurge, Msg
    <3> HIDE DEF out
    <3>3. \A x : out = <<x>> => x = m
      BY <3>2, OneEqual
    <3> QED BY <3>2, <3>3 DEF AtMostOne
  <2>8. Connected'
    BY <1>5, <2>2, HandlerMovesOn
  <2> HIDE DEF out
  <2>9. \A q \in Proc \ ended' : \A i \in DOMAIN calls'[q] : calls'[q][i].st = "held" =>
          /\ q \notin ended /\ i \in DOMAIN calls[q] /\ calls'[q][i] = calls[q][i]
          /\ q \in clients[d] => q \in clients'[d]
    BY <1>1, <1>4
  <2>10. \A q \in Proc : \A i \in DOMAIN calls[q] :
           i \in DOMAIN calls'[q] /\ calls'[q][i].resource = calls[q][i].resource
    BY <1>1
  <2>11. /\ \A x : out = <<x>> => x.request \notin {"GRANT", "UNLOCK"}
         /\ \A x : out = <<x>> /\ x.request = "LOCK" =>
              OfCall(x.owner, x.resource)' /\ NodeJoined(x.owner.node, Len(log))
    BY <2>7
  <2> QED BY <1>1, <1>2, <2>2, <2>3, <2>4, <2>6, <2>7, <2>8, <2>9, <2>10, <2>11,
             QuietHandlerKeeps
<1> QED BY <1>6, <1>7 DEF ClientExit

\* The holder of a lock finds it, at its own daemon.
LEMMA HolderFinds ==
  ASSUME BaseInv, TokenInv, NEW d \in Daemon, NEW p \in clients[d],
         NEW i \in DOMAIN calls[p], calls[p][i].st = "held"
  PROVE  /\ HasToken(p, i, d) /\ calls[p][i].resource \in Resource
         /\ find_lock_by_id(d, calls[p][i].lockid) = {calls[p][i].resource}
<1>1. p \in Proc \ ended /\ \A e \in Daemon : p \in clients[e] => e = d
  BY OneDaemon
<1>2. PICK e \in Daemon : HasToken(p, i, e)
  BY <1>1 DEF TokenInv, Holders
<1>3. e = d
  BY <1>1, <1>2 DEF HasToken
<1>4. PICK R, id : R = calls[p][i].resource /\ id = calls[p][i].lockid
  OBVIOUS
<1>5. R \in Resource
  BY <1>1, <1>4, CallTypes
<1>6. locks[d][R].state = "HELD" /\ locks[d][R].local_id = id /\ id # 0
  BY <1>2, <1>3, <1>4 DEF HasToken
<1>7. \A S \in Resource : locks[d][S].local_id = id => S = R
  BY <1>5, <1>6 DEF TokenInv, Records, IdsDiffer
<1>8. find_lock_by_id(d, id) = {R}
  BY <1>5, <1>6, <1>7 DEF find_lock_by_id
<1> QED BY <1>2, <1>3, <1>4, <1>5, <1>8

\* There is one holder.
LEMMA OneHolder ==
  ASSUME BaseInv, TokenInv, NEW p \in Proc \ ended, NEW i \in DOMAIN calls[p],
         NEW q \in Proc \ ended, NEW j \in DOMAIN calls[q],
         calls[p][i].st = "held", calls[q][j].st = "held",
         calls[p][i].resource = calls[q][j].resource
  PROVE  p = q /\ i = j
<1>1. PICK R : R = calls[p][i].resource
  OBVIOUS
<1>2. PICK d \in Daemon : HasToken(p, i, d)
  BY DEF TokenInv, Holders
<1>3. PICK e \in Daemon : HasToken(q, j, e)
  BY DEF TokenInv, Holders
<1>4. PICK g \in Index : LastToken(g, R) /\ OwnerAt(g) = Owner(NodeOf[d], p, i)
  BY <1>1, <1>2 DEF HasToken
<1>5. PICK h \in Index : LastToken(h, R) /\ OwnerAt(h) = Owner(NodeOf[e], q, j)
  BY <1>1, <1>3 DEF HasToken
<1>6. g = h
  BY <1>4, <1>5 DEF LastToken, Index
<1> QED BY <1>4, <1>5, <1>6 DEF Owner

LEMMA ClientUnlockKeeps ==
  ASSUME BaseInv, BaseInv', TokenInv, NEW d \in Daemon, NEW p \in Proc,
         NEW i \in DOMAIN calls[p], ClientUnlock(p, d, i)
  PROVE  TokenInv'
<1>1. PICK R, o, Q, out : /\ R = calls[p][i].resource /\ o = Owner(NodeOf[d], p, i)
                          /\ Q = GrantMarked(requests[d], {R})
                          /\ out = GrantOr(requests[d], R, send_unlock(R, o))
  OBVIOUS
<1>2. /\ p \in clients[d] /\ calls[p][i].st = "held"
      /\ UNCHANGED <<locks, local_lockid, clients, ended>>
      /\ calls' = [calls EXCEPT ![p][i].st = "done"]
  BY DEF ClientUnlock, cpg_unlock, CallIs
<1>3. /\ HasToken(p, i, d) /\ R \in Resource
      /\ find_lock_by_id(d, calls[p][i].lockid) = {R}
  BY <1>1, <1>2, HolderFinds
<1>4. locks[d][R].owner = o /\ locks[d][R].state = "HELD"
  BY <1>1, <1>3 DEF HasToken
<1>5. SetRequests(d, Q) /\ Send(d, out)
  <2>1. (CHOOSE x \in {R} : TRUE) = R
    OBVIOUS
  <2> QED BY <1>1, <1>3, <1>4, <2>1 DEF ClientUnlock
<1>6. PICK g \in Index : /\ MsgAt(g, "GRANT", R) /\ LastToken(g, R) /\ OwnerAt(g) = o
                         /\ g <= pos[d]
  BY <1>1, <1>3 DEF HasToken
<1>7. requests[d] \in SUBSET Request
  BY LocksTyped DEF BaseInv
<1>8. \A q \in Q : \E r \in requests[d] : q.resource = r.resource /\ q.owner = r.owner
  BY <1>1, <1>7, MarkedSays
<1>9. /\ AtMostOne(out)
      /\ \A x : out = <<x>> =>
           /\ x.resource = R
           /\ \/ x.request = "UNLOCK" /\ x.owner = o
              \/ /\ x.request = "GRANT"
                 /\ \E r \in requests[d] : r.resource = R /\ r.owner = x.owner
  BY <1>1, UnlockOrGrant
<1>10. /\ \A q \in Proc : DOMAIN calls'[q] = DOMAIN calls[q]
       /\ \A q \in Proc : \A j \in DOMAIN calls[q] :
            /\ calls'[q][j].resource = calls[q][j].resource
            /\ \/ calls'[q][j] = calls[q][j] /\ ~(q = p /\ j = i)
               \/ q = p /\ j = i /\ calls'[q][j].st = "done"
  <2>1. PICK s, c : s = calls[p] /\ c = [s[i] EXCEPT !.st = "done"]
    OBVIOUS
  <2>2. s[i] \in Call
    BY <2>1, CallTypes
  <2>3. c.resource = s[i].resource /\ c.st = "done"
    BY <2>1, <2>2 DEF Call
  <2>4. calls' = [calls EXCEPT ![p] = [s EXCEPT ![i] = c]]
    BY <1>2, <2>1
  <2>5. /\ calls'[p] = [s EXCEPT ![i] = c]
        /\ \A q \in Proc : q # p => calls'[q] = calls[q]
    BY <2>4 DEF BaseInv, TypeOK
  <2>6. DOMAIN calls'[p] = DOMAIN s /\ \A j \in DOMAIN s : j # i => calls'[p][j] = s[j]
    BY <2>5
  <2>7. calls'[p][i] = c
    BY <2>1, <2>5
  <2>8. \A q \in Proc : DOMAIN calls'[q] = DOMAIN calls[q]
    BY <2>1, <2>5, <2>6
  <2>9. ASSUME NEW q \in Proc, NEW j \in DOMAIN calls[q]
        PROVE  /\ calls'[q][j].resource = calls[q][j].resource
               /\ \/ calls'[q][j] = calls[q][j] /\ ~(q = p /\ j = i)
                  \/ q = p /\ j = i /\ calls'[q][j].st = "done"
    <3>1. CASE q # p
      BY <2>5, <3>1
    <3>2. CASE q = p /\ j # i
      BY <2>1, <2>6, <3>2
    <3>3. CASE q = p /\ j = i
      BY <2>1, <2>3, <2>7, <3>3
    <3> QED BY <3>1, <3>2, <3>3
  <2> QED BY <2>8, <2>9
<1>11. Frame(d) /\ Adds(out) /\ pos'[d] = pos[d] /\ requests'[d] = Q
       /\ joined' = joined /\ phase' = phase
  <2>1. requests'[d] = Q /\ \A e \in Daemon \ {d} : requests'[e] = requests[e]
    BY <1>5 DEF SetRequests, BaseInv, TypeOK
  <2>2. \A q \in Proc : \A j \in DOMAIN calls[q] :
          j \in DOMAIN calls'[q] /\ calls'[q][j].resource = calls[q][j].resource
    BY <1>10
  <2>3. Frame(d) /\ Adds(out)
    BY <1>2, <1>5, <1>9, <2>1, <2>2, HandlerFrame
  <2> QED BY <1>5, <2>1, <2>3, HandlerMovesOn
<1>12. ASSUME NEW k \in Index' \ Index, NEW S, Token(k, S)'
       PROVE  /\ S = R /\ (MsgAt(k, "UNLOCK", R)' => OwnerAt(k)' = o)
              /\ \A n \in Index' : n <= k
              /\ \A n \in Index' \ Index : n = k
  <2>1. PICK x : /\ out = <<x>> /\ OwnerAt(k)' = x.owner
                 /\ \A q, T : MsgAt(k, q, T)' => q = x.request /\ T = x.resource
    BY <1>11 DEF Adds
  <2>2. S = R /\ (MsgAt(k, "UNLOCK", R)' => OwnerAt(k)' = o)
    BY <1>9, <1>12, <2>1 DEF Token
  <2> QED BY <1>11, <2>2 DEF Adds
<1>13. p \in Proc \ ended /\ d \in cpg /\ NodeJoined(NodeOf[d], Len(log))
  BY <1>2, OneDaemon
<1>14. TokenRule(d)
  <2> SUFFICES ASSUME NEW S \in Resource, NEW k \in Index' \ Index, Token(k, S)'
               PROVE  /\ \A n \in Index' : n <= k
                      /\ \A n \in Index' \ Index : n = k
                      /\ Entitled(d, S, k)
                      /\ ~OwnFree(d, locks'[d][S])
                      /\ \A q \in Proc \ ended' : \A j \in DOMAIN calls'[q] :
                           calls'[q][j].resource = S => calls'[q][j].st # "held"
    BY DEF TokenRule
  <2>1. /\ S = R /\ (MsgAt(k, "UNLOCK", R)' => OwnerAt(k)' = o)
        /\ \A n \in Index' : n <= k
        /\ \A n \in Index' \ Index : n = k
    BY <1>12
  <2>2. OwnerAt(g).node = NodeOf[d] /\ g <= pos'[d]
    BY <1>1, <1>6, <1>11 DEF Owner
  <2>3. Entitled(d, S, k)
    BY <1>6, <1>13, <2>1, <2>2 DEF Entitled
  <2>4. ~OwnFree(d, locks'[d][S])
    BY <1>2, <1>4, <2>1 DEF OwnFree
  <2>5. ASSUME NEW q \in Proc \ ended', NEW j \in DOMAIN calls'[q],
               calls'[q][j].resource = S, calls'[q][j].st = "held"
        PROVE  FALSE
    <3>1. j \in DOMAIN calls[q] /\ q \in Proc \ ended
      BY <1>2, <1>10
    <3>2. calls[q][j] = calls'[q][j] /\ ~(q = p /\ j = i)
      BY <1>10, <2>5, <3>1
    <3>3. calls[q][j].resource = R /\ calls[q][j].st = "held"
      BY <2>1, <2>5, <3>2
    <3> QED BY <1>1, <1>2, <1>13, <3>1, <3>2, <3>3, OneHolder
  <2> QED BY <2>1, <2>3, <2>4, <2>5
<1>15. AskedRule(d)
  <2>1. OfCall(o, R) /\ NodeJoined(o.node, Len(log))
    BY <1>1, <1>13 DEF OfCall, Owner
  <2>2. \A x : out = <<x>> /\ x.request \in {"LOCK", "GRANT", "UNLOCK"} =>
          OfCall(x.owner, x.resource) /\ NodeJoined(x.owner.node, Len(log))
    BY <1>9, <2>1, QueuedAsked DEF TokenInv
  <2>3. \A x : out = <<x>> /\ x.request \in {"LOCK", "GRANT", "UNLOCK"} =>
          OfCall(x.owner, x.resource)' /\ NodeJoined(x.owner.node, Len(log))
    BY <1>11, <2>2, AskedOnce
  <2> QED BY <1>8, <1>11, <2>3, AskedFrom DEF TokenInv
<1>16. ASSUME NEW S \in Resource PROVE Record(d, S)'
  <2>1. Record(d, S) /\ locks'[d][S] = locks[d][S]
    BY <1>2 DEF TokenInv, Records
  <2>2. OwnFree(d, locks[d][S]) => \A k \in Index' \ Index : ~Token(k, S)'
    BY <1>4, <1>12 DEF OwnFree
  <2> QED BY <1>11, <2>1, <2>2, RecordKept
<1>17. IdsDiffer(d)'
  BY <1>2 DEF TokenInv, Records, IdsDiffer
<1>18. HolderRule(d)
  <2> SUFFICES ASSUME NEW q \in Proc \ ended', NEW j \in DOMAIN calls'[q],
                      calls'[q][j].st = "held"
               PROVE  /\ q \notin ended /\ j \in DOMAIN calls[q]
                      /\ calls'[q][j] = calls[q][j]
                      /\ q \in clients[d] => q \in clients'[d]
    BY <1>2 DEF HolderRule
  <2> QED BY <1>2, <1>10
<1>19. NobodyGone' /\ Connected'
  BY <1>2, <1>11 DEF TokenInv, NobodyGone, Connected
<1> QED BY <1>11, <1>14, <1>15, <1>16, <1>17, <1>18, <1>19, RulesKeepInv

-----------------------------------------------------------------------------
(***************************************************************************)
(* The invariant.                                                          *)
(***************************************************************************)

\* Steps that do not happen while the members stay.
LEMMA NobodyGoes ==
  ASSUME MembersStay, BaseInv, NobodyGone, NEW d \in Daemon
  PROVE  /\ ~CleanShutdown(d) /\ ~NodeCrash(d) /\ ~CpgLost(d) /\ ~MemberLeaves(d)
<1>1. ~CleanShutdown(d) /\ ~NodeCrash(d) /\ ~CpgLost(d)
  BY DEF MembersStay, CleanShutdown, Shutdown, NodeCrash, Crash, CpgLost
<1>2. ASSUME MemberLeaves(d) PROVE FALSE
  <2>1. PICK x \in Leavers(group_members[d], NextEntry(d)) : TRUE
    BY <1>2 DEF MemberLeaves
  <2>2. /\ HasNext(d) /\ NextEntry(d).request = "CONFCHG" /\ x \in NextEntry(d).left
        /\ x \in Range(group_members[d])
    BY <1>2, <2>1 DEF MemberLeaves, Leavers
  <2>3. group_members[d] \in Seq(Daemon) /\ pos[d] \in Nat /\ Len(log) \in Nat
    BY LenProperties DEF BaseInv, TypeOK, GTypeOK
  <2>4. x \in Daemon
    BY <2>2, <2>3, ElementOfSeq DEF Range
  <2>5. PICK k \in Index : k = pos[d] + 1
    BY <2>2, <2>3 DEF HasNext, Index
  <2>6. LeftAt(k, x)
    BY <2>2, <2>5 DEF LeftAt, ConfAt, NextEntry, Index
  <2> QED BY <2>4, <2>5, <2>6 DEF BaseInv, IndInv, LogInv, Leaves, NobodyGone
<1> QED BY <1>1, <1>2

LEMMA TokenStep ==
  ASSUME Payload = LockMsg, MembersStay, BaseInv, TokenInv, Next
  PROVE  TokenInv'
<1>0. BaseInv'
  BY BaseStep
<1>1. PICK d \in Daemon : \/ Start(d) \/ Deliver(d)
                          \/ CleanShutdown(d) \/ NodeCrash(d) \/ CpgLost(d)
                          \/ \E p \in Proc : ClientStep(p, d)
  BY DEF Next
<1>2. NobodyGone
  BY DEF TokenInv
<1>3. CASE Start(d)
  BY <1>0, <1>3, StartSteps, GroupStepKeeps
<1>4. CASE Deliver(d)
  <2>1. CASE IgnoreBeforeJoin(d)
    BY <1>0, <2>1, IgnoreSteps, GroupStepKeeps
  <2>2. CASE process_lock(d)
    BY <1>0, <2>2, LockKeeps
  <2>3. CASE process_grant_local(d)
    BY <1>0, <2>3, GrantLocalKeeps
  <2>4. CASE process_grant_remote(d) \/ process_grant_unknown(d)
    BY <1>0, <2>4, GrantElsewhereKeeps
  <2>5. CASE process_nak(d)
    BY <1>0, <2>5, NakKeeps
  <2>6. CASE process_unlock(d)
    BY <1>0, <2>6, UnlockKeeps
  <2>7. CASE process_purge(d)
    BY <1>0, <2>7, PurgeKeeps
  <2>8. CASE MemberLeaves(d)
    BY <1>2, <2>8, NobodyGoes
  <2>9. CASE NobodyLeaves(d) \/ DeliverJoin(d) \/ DeliverNothing(d)
    BY <1>0, <2>9, DispatchSteps, GroupStepKeeps
  <2> QED BY <1>4, <2>1, <2>2, <2>3, <2>4, <2>5, <2>6, <2>7, <2>8, <2>9 DEF Deliver
<1>5. ASSUME NEW p \in Proc, ClientStep(p, d) PROVE TokenInv'
  <2>1. CASE Connect(p, d)
    BY <1>0, <2>1, ConnectKeeps
  <2>2. CASE \E R \in Resource : ClientLock(p, d, R)
    BY <1>0, <2>2, ClientLockKeeps
  <2>3. CASE \E i \in DOMAIN calls[p] : ClientUnlock(p, d, i)
    BY <1>0, <2>3, ClientUnlockKeeps
  <2>4. CASE ClientExit(p, d)
    BY <1>0, <2>4, ClientExitKeeps
  <2> QED BY <1>5, <2>1, <2>2, <2>3, <2>4 DEF ClientStep
<1> QED BY <1>1, <1>2, <1>3, <1>4, <1>5, NobodyGoes

\* At first there are no lock messages, requests, records or clients.
LEMMA TokenInit ==
  ASSUME Init
  PROVE  TokenInv
<1>1. \A i \in Index : log[i].request # "APP"
  <2>1. log = InitLog /\ InitGroup \in Seq(Daemon) /\ Len(InitGroup) \in Nat
    BY GroupAssumption, LenProperties DEF Init, GInit
  <2>2. \A i \in DOMAIN InitLog : InitLog[i].request # "APP"
    BY DEF InitLog, ConfChg, JoinMsg
  <2>3. Len(InitLog) = 2 * Len(InitGroup) /\ DOMAIN InitLog = 1..2 * Len(InitGroup)
    BY InitLogProperties, <2>1 DEF InitLog
  <2> QED BY <2>1, <2>2, <2>3 DEF Index
<1>2. \A i \in Index : \A q, R : ~MsgAt(i, q, R)
  BY <1>1 DEF MsgAt
<1>3. \A i \in Index : \A R : ~Token(i, R)
  BY <1>2 DEF Token
<1>4. /\ \A d \in Daemon : requests[d] = {} /\ clients[d] = {} /\ local_lockid[d] = 0
      /\ \A d \in Daemon, R \in Resource : locks[d][R] = NoLock
      /\ \A p \in Proc : calls[p] = <<>>
  BY DEF Init
<1>5. NobodyGone
  BY DEF Init, GInit, NobodyGone
<1>6. Asked /\ Paired /\ AtOwner /\ FirstKnows
  BY <1>2, <1>3, <1>4 DEF Asked, Paired, AtOwner, FirstKnows
<1>7. Records
  BY <1>4 DEF Records, Record, IdsDiffer, NoLock
<1>8. Connected /\ Holders
  BY <1>4 DEF Connected, Holders
<1> QED BY <1>5, <1>6, <1>7, <1>8 DEF TokenInv

(***************************************************************************)
(* The GRANT and UNLOCK messages of a lock stay the hops of one token, and *)
(* who was told it holds the lock (grant_client) has that token.           *)
(***************************************************************************)
THEOREM TokenInductive ==
  ASSUME Payload = LockMsg, MembersStay
  PROVE  Spec => [](BaseInv /\ TokenInv)
<1>1. Spec => []BaseInv
  BY BaseInductive
<1>2. Init => TokenInv
  BY TokenInit
<1>3. ASSUME BaseInv, TokenInv, [Next]_vars PROVE TokenInv'
  <2>1. CASE Next
    BY <1>3, <2>1, TokenStep
  <2>2. CASE UNCHANGED vars
    <3>0. /\ UNCHANGED <<cpg, log, phase, pos, joined>>
          /\ UNCHANGED <<locks, requests, local_lockid, clients, calls, ended>>
      BY <2>2 DEF vars, lockVars, gvars
    <3>1. NobodyGone' /\ Connected' /\ FirstKnows'
      BY <1>3, <3>0 DEF TokenInv, NobodyGone, Connected, FirstKnows, Token, MsgAt,
         FirstJoiner, JoinAt, Index
    <3>2. Asked'
      <4>1. /\ Index' = Index /\ \A o, R : OfCall(o, R)' <=> OfCall(o, R)
            /\ \A n, k : NodeJoined(n, k)' <=> NodeJoined(n, k)
        BY <3>0 DEF OfCall, NodeJoined, JoinAt, Index
      <4>2. /\ \A i, r, R : MsgAt(i, r, R)' <=> MsgAt(i, r, R)
            /\ \A i, R : Token(i, R)' <=> Token(i, R)
            /\ \A i : OwnerAt(i)' = OwnerAt(i)
        BY <3>0 DEF MsgAt, Token, OwnerAt, Index
      <4> QED BY <1>3, <3>0, <4>1, <4>2 DEF TokenInv, Asked
    <3>3. Paired' /\ AtOwner'
      BY <1>3, <3>0 DEF TokenInv, Paired, AtOwner, LastToken, Token, MsgAt, OwnerAt, Index
    <3>4. Records'
      BY <1>3, <3>0 DEF TokenInv, Records, IdsDiffer, Record, LastToken, Token, MsgAt,
         OwnerAt, Index
    <3>5. Holders'
      BY <1>3, <3>0 DEF TokenInv, Holders, HasToken, LastToken, Token, MsgAt, OwnerAt, Index
    <3> QED BY <3>1, <3>2, <3>3, <3>4, <3>5 DEF TokenInv
  <2> QED BY <1>3, <2>1, <2>2
<1> QED BY <1>1, <1>2, <1>3, PTL DEF Spec

(***************************************************************************)
(* The lock is a lock: however messages of different daemons and requests  *)
(* of different clients interleave, daemons join late and clients come and *)
(* go, no two calls of cpg_lock are told they hold the same resource.      *)
(***************************************************************************)
THEOREM LockExcludes ==
  ASSUME Payload = LockMsg, MembersStay
  PROVE  Spec => []MutualExclusion
<1>1. Spec => [](BaseInv /\ TokenInv)
  BY TokenInductive
<1>2. ASSUME BaseInv, TokenInv PROVE MutualExclusion
  <2> SUFFICES ASSUME NEW R \in Resource, NEW b \in CallsOn(R, "held"),
                      NEW c \in CallsOn(R, "held")
               PROVE  b = c
    BY DEF MutualExclusion
  <2>1. PICK p \in Proc \ ended : \E i \in DOMAIN calls[p] :
          b = <<p, i>> /\ calls[p][i].st = "held" /\ calls[p][i].resource = R
    BY DEF CallsOn
  <2>2. PICK i \in DOMAIN calls[p] :
          b = <<p, i>> /\ calls[p][i].st = "held" /\ calls[p][i].resource = R
    BY <2>1
  <2>3. PICK q \in Proc \ ended : \E j \in DOMAIN calls[q] :
          c = <<q, j>> /\ calls[q][j].st = "held" /\ calls[q][j].resource = R
    BY DEF CallsOn
  <2>4. PICK j \in DOMAIN calls[q] :
          c = <<q, j>> /\ calls[q][j].st = "held" /\ calls[q][j].resource = R
    BY <2>3
  <2>5. p = q /\ i = j
    BY <1>2, <2>2, <2>4, OneHolder
  <2> QED BY <2>2, <2>4, <2>5
<1> QED BY <1>1, <1>2, PTL

(***************************************************************************)
(* cpg_unlock names a lock by the id its GRANT carried: the record of the  *)
(* caller's daemon still has that id and names that call as owner, so that *)
(* find_lock_by_id finds it and the UNLOCK it sends is meant for it.       *)
(***************************************************************************)
THEOREM UnlockFinds ==
  ASSUME Payload = LockMsg, MembersStay
  PROVE  Spec => []UnlockFindsLock
<1>1. Spec => [](BaseInv /\ TokenInv)
  BY TokenInductive
<1>2. ASSUME BaseInv, TokenInv PROVE UnlockFindsLock
  <2> SUFFICES ASSUME NEW R \in Resource, NEW c \in CallsOn(R, "held"), NEW d \in Daemon,
                      c[1] \in clients[d]
               PROVE  locks[d][R] = [state    |-> "HELD",
                                     owner    |-> Owner(NodeOf[d], c[1], c[2]),
                                     local_id |-> calls[c[1]][c[2]].lockid]
    BY DEF UnlockFindsLock
  <2>1. PICK p \in Proc \ ended : \E i \in DOMAIN calls[p] :
          c = <<p, i>> /\ calls[p][i].st = "held" /\ calls[p][i].resource = R
    BY DEF CallsOn
  <2>2. PICK i \in DOMAIN calls[p] :
          c = <<p, i>> /\ calls[p][i].st = "held" /\ calls[p][i].resource = R
    BY <2>1
  <2>3. c[1] = p /\ c[2] = i /\ p \in clients[d]
    BY <2>2
  <2>4. HasToken(p, i, d)
    BY <1>2, <2>2, <2>3, HolderFinds
  <2> QED BY <2>2, <2>3, <2>4 DEF HasToken
<1> QED BY <1>1, <1>2, PTL

=============================================================================
