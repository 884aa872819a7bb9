---------------------------- MODULE GroupProofs ----------------------------
(***************************************************************************)
(* Proofs about module Group, for any number of nodes and daemons: types,  *)
(* that at most one daemon takes itself for the oldest (IndInv of module   *)
(* GroupInv is inductive and implies it), what holds of the member lists   *)
(* once everything has been dispatched, and the invariants of Group under  *)
(* a lock protocol that multicasts messages.                               *)
(***************************************************************************)
EXTENDS GroupInv, SequenceLemmas, FiniteSetTheorems, TLAPS

-----------------------------------------------------------------------------
(***************************************************************************)
(* What the operators of Group return.                                     *)
(***************************************************************************)

\* What daemons and CPG put into the agreed order are entries.
LEMMA EntryTypes ==
  ASSUME NEW d \in Daemon
  PROVE  /\ \A M, L, J \in SUBSET Daemon : ConfChg(M, L, J) \in Entry
         /\ JoinMsg(d) \in Entry
         /\ \A m \in Payload : App(d, m) \in Entry
         /\ Lost \in Entry
  BY DEF Entry, ConfChg, JoinMsg, App, Lost

\* send_lock_msg only appends to the agreed order, lock messages only.
LEMMA McastProperties ==
  ASSUME log \in Seq(Entry), NEW d \in Daemon, NEW out \in Seq(Payload)
  PROVE  /\ Mcast(d, out) \in Seq(Entry)
         /\ Len(Mcast(d, out)) = Len(log) + Len(out)
         /\ \A i \in 1..Len(log) : Mcast(d, out)[i] = log[i]
         /\ \A i \in 1..Len(log) + Len(out) :
              i > Len(log) => Mcast(d, out)[i].request = "APP"
<1> DEFINE msgs == [i \in 1..Len(out) |-> App(d, out[i])]
<1>1. \A i \in 1..Len(out) : App(d, out[i]) \in Entry
  BY EntryTypes
<1>2. Len(out) \in Nat
  BY LenProperties
<1>3. msgs \in Seq(Entry) /\ Len(msgs) = Len(out)
  BY <1>1, <1>2
<1>4. \A i \in 1..Len(out) : msgs[i] = App(d, out[i])
  OBVIOUS
<1> HIDE DEF msgs
<1>5. /\ log \o msgs \in Seq(Entry)
      /\ Len(log \o msgs) = Len(log) + Len(msgs)
      /\ \A i \in 1..Len(log) + Len(msgs) :
           (log \o msgs)[i] = IF i <= Len(log) THEN log[i] ELSE msgs[i - Len(log)]
  BY <1>3, ConcatProperties
<1>6. Mcast(d, out) = log \o msgs
  BY DEF Mcast, msgs
<1>7. Len(log) \in Nat
  BY LenProperties
<1>8. ASSUME NEW i \in 1..Len(log) + Len(out), i > Len(log)
      PROVE  Mcast(d, out)[i].request = "APP"
  <2>1. i - Len(log) \in 1..Len(out)
    BY <1>8, <1>7, <1>2
  <2>2. ~(i <= Len(log)) /\ i \in 1..Len(log) + Len(msgs)
    BY <1>2, <1>3, <1>7, <1>8
  <2>3. Mcast(d, out)[i] = msgs[i - Len(log)]
    BY <1>5, <1>6, <2>2
  <2>4. Mcast(d, out)[i] = App(d, out[i - Len(log)])
    BY <1>4, <2>1, <2>3
  <2> QED BY <2>4 DEF App
<1>9. \A i \in 1..Len(log) : Mcast(d, out)[i] = log[i]
  BY <1>2, <1>3, <1>5, <1>6, <1>7
<1> QED
  BY <1>3, <1>5, <1>6, <1>8, <1>9

\* An iteration order lists every element of a finite set once.
LEMMA EnumerationsProperties ==
  ASSUME NEW S, IsFiniteSet(S), NEW s \in Enumerations(S)
  PROVE  /\ s \in Seq(S)
         /\ Len(s) = Cardinality(S)
         /\ \A a, b \in 1..Len(s) : s[a] = s[b] => a = b
         /\ \A x \in S : \E a \in 1..Len(s) : s[a] = x
<1>1. Cardinality(S) \in Nat
  BY FS_CardinalityType
<1>2. s \in [1..Cardinality(S) -> S]
  BY DEF Enumerations, Bijection, Injection
<1>3. s \in Seq(S) /\ Len(s) = Cardinality(S) /\ DOMAIN s = 1..Cardinality(S)
  BY <1>1, <1>2
<1>4. \A a, b \in DOMAIN s : s[a] = s[b] => a = b
  BY DEF Enumerations, Bijection, Injection, IsInjective
<1>5. \A x \in S : \E a \in 1..Cardinality(S) : s[a] = x
  BY DEF Enumerations, Bijection, Surjection
<1> QED
  BY <1>3, <1>4, <1>5

\* The search of process_join finds a member of that node if there is one.
LEMMA ListedAtProperties ==
  ASSUME NEW list \in Seq(Daemon), NEW x \in Daemon
  PROVE  /\ ListedAt(list, x) \in 0..Len(list)
         /\ ListedAt(list, x) # 0 => NodeOf[list[ListedAt(list, x)]] = NodeOf[x]
         /\ ListedAt(list, x) = 0 =>
              \A a \in 1..Len(list) : NodeOf[list[a]] # NodeOf[x]
<1> DEFINE I == {a \in 1..Len(list) : NodeOf[list[a]] = NodeOf[x]}
<1>1. ListedAt(list, x) = IF I # {} THEN Min(I) ELSE 0
  BY DEF ListedAt, SelectInSeq
<1>2. Len(list) \in Nat /\ I \in SUBSET Nat
  BY LenProperties
<1>3. CASE I = {}
  BY <1>1, <1>2, <1>3
<1>4. CASE I # {}
  <2>1. Min(I) \in I
    BY <1>2, <1>4, MinInSet
  <2> QED BY <1>1, <1>2, <1>4, <2>1
<1> QED BY <1>3, <1>4

\* cpg_config_change takes at most one leaver off the list, a listed one.
LEMMA ListAfterLeaveProperties ==
  ASSUME NEW list \in Seq(Daemon), NEW e
  PROVE  /\ ListAfterLeave(list, e) \in Seq(Daemon)
         /\ Leavers(list, e) = {} => ListAfterLeave(list, e) = list
         /\ Leavers(list, e) # {} =>
              \E i \in 1..Len(list) :
                list[i] \in e.left /\ ListAfterLeave(list, e) = RemoveAt(list, i)
<1> DEFINE gone == Leavers(list, e)
           I    == {a \in 1..Len(list) : list[a] \in gone}
           i    == SelectInSeq(list, LAMBDA x : x \in gone)
<1>1. CASE gone = {}
  BY <1>1 DEF ListAfterLeave
<1>2. CASE gone # {}
  <2>1. i = IF I # {} THEN Min(I) ELSE 0
    BY DEF SelectInSeq
  <2>2. DOMAIN list = 1..Len(list) /\ Len(list) \in Nat
    BY LenProperties
  <2>3. I # {}
    BY <1>2, <2>2 DEF Leavers, Range
  <2>4. Min(I) \in I
    <3>1. I \in SUBSET Nat
      BY <2>2
    <3> HIDE DEF I
    <3> QED BY <2>3, <3>1, MinInSet
  <2>5. i \in 1..Len(list) /\ list[i] \in gone
    BY <2>1, <2>3, <2>4
  <2>6. list[i] \in e.left
    BY <2>5 DEF Leavers
  <2>7. ListAfterLeave(list, e) = RemoveAt(list, i)
    BY <1>2 DEF ListAfterLeave
  <2>8. RemoveAt(list, i) \in Seq(Daemon)
    BY <2>5, RemoveAtProperties
  <2> QED BY <1>2, <2>5, <2>6, <2>7, <2>8
<1> QED BY <1>1, <1>2

\* The initial node list and its length are well formed.
LEMMA SetupProperties ==
  ASSUME GTypeOK, NEW d \in Daemon, NEW e, e.members \in SUBSET Daemon,
         NEW list \in ListAfterSetup(d, e)
  PROVE  /\ list \in Seq(Daemon)
         /\ CountAfterSetup(d, e) \in Nat
         /\ IsFiniteSet(e.members) /\ IsFiniteSet(EarlierMembers(d, e))
<1>1. IsFiniteSet(e.members) /\ IsFiniteSet(EarlierMembers(d, e))
  <2>1. EarlierMembers(d, e) \subseteq e.members
    BY DEF EarlierMembers
  <2> QED BY <2>1, GroupAssumption, FS_Subset
<1>2. Cardinality(e.members) \in Nat
  BY <1>1, FS_CardinalityType
<1>3. group_members[d] \in Seq(Daemon) /\ total_members[d] \in Nat
  BY DEF GTypeOK
<1>4. CASE total_members[d] = 0
  <2>1. PICK s \in Enumerations(EarlierMembers(d, e)) : list = group_members[d] \o s
    BY <1>4 DEF ListAfterSetup
  <2>2. s \in Seq(EarlierMembers(d, e))
    BY <1>1, EnumerationsProperties
  <2>3. s \in Seq(Daemon)
    BY <2>2, SeqMonotonic DEF EarlierMembers
  <2> QED BY <1>1, <1>2, <1>3, <1>4, <2>1, <2>3, ConcatProperties DEF CountAfterSetup
<1>5. CASE total_members[d] # 0
  BY <1>1, <1>3, <1>5 DEF ListAfterSetup, CountAfterSetup
<1> QED BY <1>4, <1>5

\* The members a change removes are finitely many.
LEMMA LeaversCount ==
  ASSUME NEW list \in Seq(Daemon), NEW e
  PROVE  IsFiniteSet(Leavers(list, e)) /\ Cardinality(Leavers(list, e)) \in Nat
<1>1. Leavers(list, e) \subseteq Daemon
  BY LenProperties DEF Leavers, Range
<1> QED BY <1>1, GroupAssumption, FS_Subset, FS_CardinalityType

\* A crash only turns messages of the crashed daemon into lost ones.
LEMMA DropTailProperties ==
  ASSUME log \in Seq(Entry), NEW d \in Daemon, NEW k
  PROVE  /\ DropTail(d, k) \in Seq(Entry)
         /\ Len(DropTail(d, k)) = Len(log)
         /\ \A i \in 1..Len(log) :
              \/ DropTail(d, k)[i] = log[i]
              \/ /\ DropTail(d, k)[i] = Lost
                 /\ log[i].request \in {"JOIN", "APP"}
                 /\ log[i].from = d
<1>1. Len(log) \in Nat /\ \A i \in 1..Len(log) : log[i] \in Entry
  BY LenProperties, ElementOfSeq
<1>2. Lost \in Entry
  BY EntryTypes
<1> QED BY <1>1, <1>2 DEF DropTail

\* The history of a group already formed: a change and a JOIN for each.
LEMMA InitLogProperties ==
  /\ InitLog \in Seq(Entry)
  /\ Len(InitLog) = 2 * Len(InitGroup)
<1> DEFINE n == Len(InitGroup)
<1>1. n \in Nat /\ \A i \in 1..n : InitGroup[i] \in Daemon
  BY GroupAssumption, LenProperties, ElementOfSeq
<1>2. ASSUME NEW k \in 1..2 * n PROVE (k + 1) \div 2 \in 1..n
  BY <1>1
<1>3. ASSUME NEW k \in 1..2 * n PROVE InitLog[k] \in Entry
  <2> DEFINE i == (k + 1) \div 2
  <2>1. InitGroup[i] \in Daemon /\ {InitGroup[j] : j \in 1..i} \in SUBSET Daemon
    BY <1>1, <1>2
  <2>2. InitLog[k] = IF k % 2 = 1
                     THEN ConfChg({InitGroup[j] : j \in 1..i}, {}, {InitGroup[i]})
                     ELSE JoinMsg(InitGroup[i])
    BY DEF InitLog
  <2> HIDE DEF i
  <2> QED BY <2>1, <2>2, EntryTypes
<1>4. 2 * n \in Nat /\ InitLog = [k \in 1..2 * n |-> InitLog[k]]
  BY <1>1 DEF InitLog
<1> HIDE DEF n
<1>5. InitLog \in Seq(Entry) /\ Len(InitLog) = 2 * n
  BY <1>3, <1>4
<1> QED BY <1>5 DEF n

-----------------------------------------------------------------------------
(***************************************************************************)
(* Type correctness.                                                       *)
(***************************************************************************)

\* The initial states, a group already formed or an empty one, are typed.
LEMMA InitTyped ==
  GInit => GTypeOK
<1> SUFFICES ASSUME GInit PROVE GTypeOK
  OBVIOUS
<1>1. Len(InitGroup) \in Nat /\ Range(InitGroup) \in SUBSET Daemon
  BY GroupAssumption, LenProperties DEF Range
<1>2. 2 * Len(InitGroup) \in Nat /\ Len(InitGroup) + 1 \in Nat
  BY <1>1
<1>3. cpg \in SUBSET Daemon /\ log \in Seq(Entry)
  BY <1>1, InitLogProperties DEF GInit
<1>4. phase \in [Daemon -> Phase] /\ pos \in [Daemon -> Nat]
  BY <1>2 DEF GInit, Phase
<1>5. <<>> \in Seq(Daemon)
  OBVIOUS
<1>6. group_members \in [Daemon -> Seq(Daemon)] /\ total_members \in [Daemon -> Nat]
  BY <1>2, <1>5, GroupAssumption DEF GInit
<1>7. joined \in [Daemon -> BOOLEAN]
  <2>1. joined = [d \in Daemon |-> d \in Range(InitGroup)]
    BY DEF GInit
  <2>2. \A d \in Daemon : (d \in Range(InitGroup)) \in BOOLEAN
    OBVIOUS
  <2> HIDE DEF GInit
  <2> QED BY <2>1, <2>2, Zenon
<1> QED BY <1>3, <1>4, <1>6, <1>7 DEF GTypeOK

\* Leaving the group keeps the types, whatever became of the log's tail.
LEMMA DepartTyped ==
  ASSUME GTypeOK, NEW d \in Daemon, NEW lg \in Seq(Entry), Depart(d, lg)
  PROVE  GTypeOK'
<1>1. cpg' \in SUBSET Daemon
  BY DEF Depart, GTypeOK
<1>2. log' \in Seq(Entry)
  <2>1. ConfChg(cpg \ {d}, {d}, {}) \in Entry
    BY EntryTypes DEF GTypeOK
  <2> QED BY <2>1, AppendProperties DEF Depart
<1>3. phase' \in [Daemon -> Phase] /\ pos' \in [Daemon -> Nat]
  BY DEF Depart, GTypeOK, Phase
<1>4. group_members' \in [Daemon -> Seq(Daemon)]
  BY DEF Depart, GTypeOK
<1>5. total_members' \in [Daemon -> Nat] /\ joined' \in [Daemon -> BOOLEAN]
  BY DEF Depart, GTypeOK
<1> QED BY <1>1, <1>2, <1>3, <1>4, <1>5 DEF GTypeOK

\* A configuration change keeps them, whatever del_node multicasts.
LEMMA ConfigChangeTyped ==
  ASSUME GTypeOK, NEW d \in Daemon, NEW out \in Seq(Payload),
         cpg_config_change(d, out)
  PROVE  GTypeOK'
<1> DEFINE e == NextEntry(d)
<1>1. e \in Entry /\ e.request = "CONFCHG"
  BY ElementOfSeq DEF GTypeOK, cpg_config_change, HasNext, NextEntry
<1>2. e.members \in SUBSET Daemon
  BY <1>1 DEF Entry, Lost
<1>3. PICK list \in ListAfterSetup(d, e) :
        LET gone  == Leavers(list, e)
            count == CountAfterSetup(d, e) - Cardinality(gone)
        IN  /\ group_members' = [group_members EXCEPT ![d] = ListAfterLeave(list, e)]
            /\ total_members' = [total_members EXCEPT ![d] =
                                   IF count < 0 THEN 0 ELSE count]
  BY DEF cpg_config_change
<1> HIDE DEF e
<1>4. list \in Seq(Daemon) /\ CountAfterSetup(d, e) \in Nat
  BY <1>2, SetupProperties
<1>5. group_members' \in [Daemon -> Seq(Daemon)]
  BY <1>3, <1>4, ListAfterLeaveProperties DEF GTypeOK
<1>6. total_members' \in [Daemon -> Nat]
  BY <1>3, <1>4, LeaversCount DEF GTypeOK
<1>7. log' \in Seq(Entry)
  BY McastProperties DEF GTypeOK, cpg_config_change
<1>8. pos' \in [Daemon -> Nat]
  BY DEF GTypeOK, cpg_config_change, Dispatched
<1> QED BY <1>5, <1>6, <1>7, <1>8 DEF GTypeOK, cpg_config_change

\* So does process_join.
LEMMA JoinTyped ==
  ASSUME GTypeOK, NEW d \in Daemon, process_join(d)
  PROVE  GTypeOK'
<1> DEFINE x    == NextEntry(d).from
           list == group_members[d]
           i    == ListedAt(list, x)
<1>1. NextEntry(d) \in Entry /\ NextEntry(d).request = "JOIN"
  BY ElementOfSeq DEF GTypeOK, process_join, HasNext, NextEntry
<1>2. x \in Daemon /\ list \in Seq(Daemon)
  BY <1>1 DEF Entry, Lost, GTypeOK
<1>3. pos' \in [Daemon -> Nat]
  BY DEF GTypeOK, process_join, Dispatched
<1>4. CASE i # 0
  <2>1. i \in 1..Len(list)
    BY <1>2, <1>4, ListedAtProperties
  <2>2. list[i] \in Daemon /\ RemoveAt(list, i) \in Seq(Daemon)
    BY <1>2, <2>1, RemoveAtProperties, ElementOfSeq
  <2>3. MoveToTail(list, i) \in Seq(Daemon)
    BY <2>2, AppendProperties DEF MoveToTail
  <2>4. /\ group_members' = [group_members EXCEPT ![d] =
                 IF list[i] = x THEN MoveToTail(list, i) ELSE list]
        /\ UNCHANGED <<total_members, joined>>
    BY <1>4 DEF process_join
  <2> HIDE DEF i, x
  <2>5. group_members' \in [Daemon -> Seq(Daemon)]
    BY <1>2, <2>3, <2>4 DEF GTypeOK
  <2> QED BY <1>3, <2>4, <2>5 DEF GTypeOK, process_join
<1>5. CASE i = 0
  <2>1. /\ group_members' = [group_members EXCEPT ![d] = Append(list, x)]
        /\ total_members' = [total_members EXCEPT ![d] = @ + 1]
        /\ joined' = [joined EXCEPT ![d] = @ \/ NodeOf[x] = NodeOf[d]]
    BY <1>5 DEF process_join
  <2>2. Append(list, x) \in Seq(Daemon)
    BY <1>2, AppendProperties
  <2>3. group_members' \in [Daemon -> Seq(Daemon)] /\ total_members' \in [Daemon -> Nat]
    BY <2>1, <2>2 DEF GTypeOK
  <2>4. joined' \in [Daemon -> BOOLEAN]
    BY <2>1, Zenon DEF GTypeOK
  <2> QED BY <1>3, <2>3, <2>4 DEF GTypeOK, process_join
<1> QED BY <1>4, <1>5

\* Every step of the membership layer keeps the types.
LEMMA StepTyped ==
  ASSUME GTypeOK, [GNext]_gvars
  PROVE  GTypeOK'
<1>1. CASE UNCHANGED gvars
  BY <1>1 DEF GTypeOK, gvars
<1>2. ASSUME NEW d \in Daemon, GStep(d) PROVE GTypeOK'
  <2>0. log \in Seq(Entry) /\ <<>> \in Seq(Payload)
    BY DEF GTypeOK
  <2>1. CASE CpgJoin(d)
    <3>1. ConfChg(cpg \cup {d}, {}, {d}) \in Entry
      BY EntryTypes DEF GTypeOK
    <3>2. log' \in Seq(Entry) /\ Len(log) \in Nat
      BY <2>0, <2>1, <3>1, AppendProperties, LenProperties DEF CpgJoin
    <3> QED BY <2>1, <3>2 DEF CpgJoin, GTypeOK, groupVars, Phase
  <2>2. CASE CpgInitAlone(d)
    BY <2>2 DEF CpgInitAlone, GTypeOK, groupVars, Phase
  <2>3. CASE CpgInitDuplicate(d)
    BY <2>0, <2>3, DepartTyped DEF CpgInitDuplicate
  <2>4. CASE StartFails(d)
    BY <2>0, <2>4, DepartTyped DEF StartFails
  <2>5. CASE send_join(d)
    <3>1. log' \in Seq(Entry)
      BY <2>0, <2>5, EntryTypes, AppendProperties DEF send_join
    <3> QED BY <2>5, <3>1 DEF send_join, GTypeOK, groupVars, Phase
  <2>6. CASE cpg_config_change(d, <<>>)
    BY <2>0, <2>6, ConfigChangeTyped
  <2>7. CASE DeleteForSelf(d)
    BY <2>0, <2>7, DepartTyped DEF DeleteForSelf
  <2>8. CASE process_join(d)
    BY <2>8, JoinTyped
  <2>9. CASE DeliverLost(d)
    BY <2>9 DEF DeliverLost, Dispatched, GTypeOK, groupVars
  <2>10. CASE Shutdown(d)
    BY <2>0, <2>10, DepartTyped DEF Shutdown
  <2>11. CASE Crash(d)
    BY <2>0, <2>11, DepartTyped, DropTailProperties DEF Crash
  <2> QED BY <1>2, <2>1, <2>2, <2>3, <2>4, <2>5, <2>6, <2>7, <2>8, <2>9,
             <2>10, <2>11 DEF GStep, cpg_init, ConfigChange
<1> QED BY <1>1, <1>2 DEF GNext

(***************************************************************************)
(* The member lists and counts of cpglockd keep their types in every run:  *)
(* cpg_config_change never counts below zero and always finds a listed     *)
(* leaver, process_join never leaves a hole in the list.                   *)
(***************************************************************************)
THEOREM TypeCorrect == GSpec => []GTypeOK
<1>1. GInit => GTypeOK
  BY InitTyped
<1>2. GTypeOK /\ [GNext]_gvars => GTypeOK'
  BY StepTyped
<1> QED BY <1>1, <1>2, PTL DEF GSpec

-----------------------------------------------------------------------------
(***************************************************************************)
(* How a step changes what the agreed order says, so that the proofs below *)
(* need not look into the log.                                             *)
(***************************************************************************)

\* The positions that JoinAt, ConfAt and the others speak about.
LEMMA PositionTypes ==
  ASSUME GTypeOK
  PROVE  /\ Len(log) \in Nat
         /\ \A i, e : JoinAt(i, e) =>
              e \in Daemon /\ i \in Nat /\ i <= Len(log) /\ i > 0
         /\ \A i : ConfAt(i) => i \in Nat /\ i <= Len(log) /\ i > 0
         /\ \A i, e, x : JoinAt(i, e) /\ JoinAt(i, x) => e = x
         /\ \A i, e : JoinAt(i, e) => ~ConfAt(i)
         /\ \A i, x : LeftAt(i, x) => ConfAt(i)
         /\ \A i, x : EnterAt(i, x) => ConfAt(i)
         /\ \A i, x : MemberAt(i, x) => ConfAt(i)
<1>1. Len(log) \in Nat
  BY LenProperties DEF GTypeOK
<1>2. ASSUME NEW i \in 1..Len(log), log[i].request = "JOIN"
      PROVE  log[i].from \in Daemon
  <2>1. log[i] \in Entry
    BY ElementOfSeq DEF GTypeOK
  <2> QED BY <1>2, <2>1 DEF Entry, Lost
<1> QED BY <1>1, <1>2 DEF JoinAt, ConfAt, LeftAt, EnterAt, MemberAt

\* The order says the same when only lock messages were multicast.
LEMMA LockTraffic ==
  ASSUME GTypeOK, NEW d \in Daemon, NEW out \in Seq(Payload), log' = Mcast(d, out)
  PROVE  /\ Len(log)' \in Nat /\ Len(log)' >= Len(log)
         /\ \A i, e : JoinAt(i, e)' <=> JoinAt(i, e)
         /\ \A i : ConfAt(i)' <=> ConfAt(i)
         /\ \A i, x : LeftAt(i, x)' <=> LeftAt(i, x)
         /\ \A i, x : EnterAt(i, x)' <=> EnterAt(i, x)
         /\ \A i, x : MemberAt(i, x)' <=> MemberAt(i, x)
<1>1. Len(log) \in Nat /\ Len(out) \in Nat
  BY LenProperties DEF GTypeOK
<1>2. /\ Len(log') = Len(log) + Len(out)
      /\ \A i \in 1..Len(log) : log'[i] = log[i]
      /\ \A i \in 1..Len(log') : i > Len(log) => log'[i].request = "APP"
  BY <1>1, McastProperties DEF GTypeOK
<1>3. \A i : i \in 1..Len(log') <=> i \in 1..Len(log) \/ (i \in 1..Len(log') /\ i > Len(log))
  BY <1>1, <1>2
<1>4. \A i, e : JoinAt(i, e)' <=> JoinAt(i, e)
  BY <1>1, <1>2, <1>3 DEF JoinAt
<1>5. \A i : ConfAt(i)' <=> ConfAt(i)
  BY <1>1, <1>2, <1>3 DEF ConfAt
<1>6. \A i : ConfAt(i) => log'[i] = log[i]
  BY <1>2 DEF ConfAt
<1> QED BY <1>1, <1>2, <1>4, <1>5, <1>6 DEF LeftAt, EnterAt, MemberAt

\* A configuration change is appended; messages of d may have been lost.
LEMMA ConfAppended ==
  ASSUME GTypeOK, NEW d \in Daemon, NEW lg \in Seq(Entry), Len(lg) = Len(log),
         \A i \in 1..Len(log) :
           \/ lg[i] = log[i]
           \/ /\ lg[i] = Lost
              /\ log[i].request \in {"JOIN", "APP"}
              /\ log[i].from = d,
         NEW M, NEW L, NEW J, log' = Append(lg, ConfChg(M, L, J))
  PROVE  /\ Len(log)' = Len(log) + 1
         /\ \A i, e : JoinAt(i, e)' => JoinAt(i, e)
         /\ \A i, e : e # d => (JoinAt(i, e)' <=> JoinAt(i, e))
         /\ \A i : ConfAt(i)' <=> ConfAt(i) \/ i = Len(log) + 1
         /\ \A i, x : LeftAt(i, x)' <=> LeftAt(i, x) \/ (i = Len(log) + 1 /\ x \in L)
         /\ \A i, x : EnterAt(i, x)' <=> EnterAt(i, x) \/ (i = Len(log) + 1 /\ x \in J)
         /\ \A i, x : MemberAt(i, x)' <=> MemberAt(i, x) \/ (i = Len(log) + 1 /\ x \in M)
<1> DEFINE v == ConfChg(M, L, J)
           n == Len(log) + 1
<1>1. Len(log) \in Nat
  BY LenProperties DEF GTypeOK
<1>2. Len(log') = n /\ log'[n] = v /\ \A i \in 1..Len(log) : log'[i] = lg[i]
  BY <1>1
<1>3. v.request = "CONFCHG" /\ v.members = M /\ v.left = L /\ v.join = J
  BY DEF ConfChg
<1>4. Lost.request = "LOST"
  BY DEF Lost
<1> HIDE DEF v, n
<1>5. n \notin 1..Len(log) /\ \A i : i \in 1..n <=> i \in 1..Len(log) \/ i = n
  BY <1>1 DEF n
<1>6. /\ \A i, e : JoinAt(i, e)' => JoinAt(i, e)
      /\ \A i, e : e # d => (JoinAt(i, e)' <=> JoinAt(i, e))
  BY <1>2, <1>3, <1>4, <1>5 DEF JoinAt
<1>7. \A i : ConfAt(i)' <=> ConfAt(i) \/ i = n
  BY <1>2, <1>3, <1>4, <1>5 DEF ConfAt
<1>8. \A i : ConfAt(i) => log'[i] = log[i] /\ i # n
  BY <1>2, <1>4, <1>5 DEF ConfAt
<1>9. \A i, x : LeftAt(i, x)' <=> LeftAt(i, x) \/ (i = n /\ x \in L)
  BY <1>2, <1>3, <1>7, <1>8 DEF LeftAt
<1>10. \A i, x : EnterAt(i, x)' <=> EnterAt(i, x) \/ (i = n /\ x \in J)
  BY <1>2, <1>3, <1>7, <1>8 DEF EnterAt
<1>11. \A i, x : MemberAt(i, x)' <=> MemberAt(i, x) \/ (i = n /\ x \in M)
  BY <1>2, <1>3, <1>7, <1>8 DEF MemberAt
<1> QED BY <1>2, <1>6, <1>7, <1>9, <1>10, <1>11 DEF n

\* A JOIN message is appended.
LEMMA JoinAppended ==
  ASSUME GTypeOK, NEW d \in Daemon, log' = Append(log, JoinMsg(d))
  PROVE  /\ Len(log)' = Len(log) + 1
         /\ \A i, e : JoinAt(i, e)' <=> JoinAt(i, e) \/ (i = Len(log) + 1 /\ e = d)
         /\ \A i : ConfAt(i)' <=> ConfAt(i)
         /\ \A i, x : LeftAt(i, x)' <=> LeftAt(i, x)
         /\ \A i, x : EnterAt(i, x)' <=> EnterAt(i, x)
         /\ \A i, x : MemberAt(i, x)' <=> MemberAt(i, x)
<1> DEFINE v == JoinMsg(d)
           n == Len(log) + 1
<1>1. Len(log) \in Nat
  BY LenProperties DEF GTypeOK
<1>2. Len(log') = n /\ log'[n] = v /\ \A i \in 1..Len(log) : log'[i] = log[i]
  BY <1>1 DEF GTypeOK
<1>3. v.request = "JOIN" /\ v.from = d
  BY DEF JoinMsg
<1> HIDE DEF v, n
<1>4. n \notin 1..Len(log) /\ \A i : i \in 1..n <=> i \in 1..Len(log) \/ i = n
  BY <1>1 DEF n
<1>5. \A i, e : JoinAt(i, e)' <=> JoinAt(i, e) \/ (i = n /\ e = d)
  BY <1>2, <1>3, <1>4 DEF JoinAt
<1>6. \A i : ConfAt(i)' <=> ConfAt(i)
  BY <1>2, <1>3, <1>4 DEF ConfAt
<1>7. \A i : ConfAt(i) => log'[i] = log[i]
  BY <1>2 DEF ConfAt
<1> QED BY <1>2, <1>5, <1>6, <1>7 DEF LeftAt, EnterAt, MemberAt, n

-----------------------------------------------------------------------------
(***************************************************************************)
(* The agreed order stays well formed (LogInv).                            *)
(***************************************************************************)

\* cpg_join of a daemon whose node has no other member.
LEMMA EnterKeepsLog ==
  ASSUME GTypeOK, LogInv, ~DupStart, NEW d \in Daemon, CpgJoin(d)
  PROVE  LogInv'
<1> DEFINE n == Len(log) + 1
<1>1. /\ n \in Nat /\ Len(log) \in Nat /\ Len(log)' = n
      /\ \A i, e : JoinAt(i, e)' <=> JoinAt(i, e)
      /\ \A i : ConfAt(i)' <=> ConfAt(i) \/ i = n
      /\ \A i, x : LeftAt(i, x)' <=> LeftAt(i, x)
      /\ \A i, x : EnterAt(i, x)' <=> EnterAt(i, x) \/ (i = n /\ x = d)
      /\ \A i, x : MemberAt(i, x)' <=> MemberAt(i, x) \/ (i = n /\ x \in cpg \cup {d})
  <2>1. log' = Append(log, ConfChg(cpg \cup {d}, {}, {d})) /\ log \in Seq(Entry)
    BY DEF CpgJoin, GTypeOK
  <2>2. JoinAt(1, d)' \in BOOLEAN /\ \A i, e : e = d => ~JoinAt(i, e)
    BY DEF CpgJoin, LogInv, Joins, Index, JoinAt
  <2> QED BY <2>1, <2>2, PositionTypes, ConfAppended
<1>2. \A i, e : JoinAt(i, e) => e \in Daemon /\ e # d /\ i \in Nat /\ i < n /\ ~ConfAt(i)
  BY <1>1, PositionTypes DEF CpgJoin, LogInv, Joins, Index, JoinAt
<1>3. /\ \A i, x : LeftAt(i, x) => i \in Nat /\ i < n
      /\ \A i, x : EnterAt(i, x) => i \in Nat /\ i < n
      /\ \A i, x : MemberAt(i, x) => i \in Nat /\ i < n
  BY <1>1, PositionTypes
<1>4. /\ cpg' = cpg \cup {d} /\ d \notin cpg
      /\ phase' = [phase EXCEPT ![d] = "cpg_init"] /\ phase[d] = "off"
      /\ phase \in [Daemon -> Phase] /\ cpg \subseteq Daemon
      /\ \A e \in cpg : NodeOf[e] # NodeOf[d]
  BY DEF CpgJoin, LogInv, Members, GTypeOK, SameNodeMember
<1>5. Index' = Index \cup {n} /\ Index \subseteq Nat
  BY <1>1 DEF Index
<1> HIDE DEF n
<1>6. Members'
  BY <1>4 DEF LogInv, Members
<1>7. Joins'
  BY <1>1, <1>2, <1>3, <1>4, <1>5 DEF LogInv, Joins
<1>8. Leaves'
  BY <1>1, <1>2, <1>3, <1>4, <1>5 DEF LogInv, Leaves, Members
<1>9. Enters'
  BY <1>1, <1>3, <1>4, <1>5 DEF LogInv, Enters, Known
<1>10. Known'
  <2>1. \A x \in Daemon, k \in Index' : MemberAt(k, x)' => phase'[x] # "off"
    BY <1>1, <1>3, <1>4, <1>5 DEF LogInv, Known, Members
  <2>2. ASSUME NEW x \in Daemon, phase'[x] = "gone"
        PROVE  \E k \in Index' : LeftAt(k, x)'
    <3>1. phase[x] = "gone"
      BY <1>4, <2>2
    <3>2. PICK k \in Index : LeftAt(k, x)
      BY <3>1 DEF LogInv, Known
    <3> QED BY <1>1, <1>5, <3>2
  <2>3. ASSUME NEW x \in cpg'
        PROVE  \E k \in Index' : EnterAt(k, x)'
    <3>1. CASE x = d
      BY <1>1, <1>5, <3>1
    <3>2. CASE x # d
      <4>1. PICK k \in Index : EnterAt(k, x)
        BY <1>4, <3>2 DEF LogInv, Known
      <4> QED BY <1>1, <1>5, <4>1
    <3> QED BY <3>1, <3>2
  <2> QED BY <2>1, <2>2, <2>3 DEF Known
<1>11. StillMember'
  BY <1>1, <1>2, <1>3, <1>4, <1>5 DEF LogInv, StillMember
<1>12. Replaced'
  BY <1>1, <1>3, <1>4, <1>5 DEF LogInv, Replaced, Enters, Known
<1> QED BY <1>6, <1>7, <1>8, <1>9, <1>10, <1>11, <1>12 DEF LogInv


\* A member leaves; messages it multicast may be lost.
LEMMA DepartKeepsLog ==
  ASSUME GTypeOK, LogInv, NEW d \in Daemon, d \in cpg,
         NEW lg \in Seq(Entry), Len(lg) = Len(log),
         \A i \in 1..Len(log) :
           \/ lg[i] = log[i]
           \/ /\ lg[i] = Lost
              /\ log[i].request \in {"JOIN", "APP"}
              /\ log[i].from = d,
         Depart(d, lg)
  PROVE  LogInv'
<1> DEFINE n == Len(log) + 1
<1>1. /\ n \in Nat /\ Len(log) \in Nat /\ Len(log)' = n
      /\ \A i, e : JoinAt(i, e)' => JoinAt(i, e)
      /\ \A i : ConfAt(i)' <=> ConfAt(i) \/ i = n
      /\ \A i, x : LeftAt(i, x)' <=> LeftAt(i, x) \/ (i = n /\ x = d)
      /\ \A i, x : EnterAt(i, x)' <=> EnterAt(i, x)
      /\ \A i, x : MemberAt(i, x)' <=> MemberAt(i, x) \/ (i = n /\ x \in cpg \ {d})
  <2>1. log' = Append(lg, ConfChg(cpg \ {d}, {d}, {}))
    BY DEF Depart
  <2> QED BY <2>1, PositionTypes, ConfAppended
<1>2. \A i, e : JoinAt(i, e) => e \in Daemon /\ i \in Nat /\ i < n /\ ~ConfAt(i)
  BY <1>1, PositionTypes
<1>3. /\ \A i, x : LeftAt(i, x) => i \in Nat /\ i < n
      /\ \A i, x : EnterAt(i, x) => i \in Nat /\ i < n
      /\ \A i, x : MemberAt(i, x) => i \in Nat /\ i < n
  BY <1>1, PositionTypes
<1>4. /\ cpg' = cpg \ {d}
      /\ phase' = [phase EXCEPT ![d] = "gone"]
      /\ phase \in [Daemon -> Phase] /\ cpg \subseteq Daemon
  BY DEF Depart, GTypeOK
<1>5. Index' = Index \cup {n} /\ Index \subseteq Nat
  BY <1>1 DEF Index
<1> HIDE DEF n
<1>6. Members'
  BY <1>4 DEF LogInv, Members
<1>7. Joins'
  BY <1>1, <1>2, <1>3, <1>4, <1>5 DEF LogInv, Joins
<1>8. Leaves'
  BY <1>1, <1>2, <1>3, <1>4, <1>5 DEF LogInv, Leaves, Members
<1>9. Enters'
  BY <1>1, <1>3, <1>4, <1>5 DEF LogInv, Enters, Known
<1>10. Known'
  <2>1. \A x \in Daemon, k \in Index' : MemberAt(k, x)' => phase'[x] # "off"
    BY <1>1, <1>3, <1>4, <1>5 DEF LogInv, Known, Members
  <2>2. ASSUME NEW x \in Daemon, phase'[x] = "gone"
        PROVE  \E k \in Index' : LeftAt(k, x)'
    <3>1. CASE x = d
      BY <1>1, <1>5, <3>1
    <3>2. CASE x # d
      <4>1. PICK k \in Index : LeftAt(k, x)
        BY <1>4, <2>2, <3>2 DEF LogInv, Known
      <4> QED BY <1>1, <1>5, <4>1
    <3> QED BY <3>1, <3>2
  <2>3. ASSUME NEW x \in cpg'
        PROVE  \E k \in Index' : EnterAt(k, x)'
    <3>1. PICK k \in Index : EnterAt(k, x)
      BY <1>4 DEF LogInv, Known
    <3> QED BY <1>1, <1>5, <3>1
  <2> QED BY <2>1, <2>2, <2>3 DEF Known
<1>11. StillMember'
  BY <1>1, <1>2, <1>3, <1>4, <1>5 DEF LogInv, StillMember
<1>12. Replaced'
  BY <1>1, <1>3, <1>4, <1>5 DEF LogInv, Replaced, Members
<1> QED BY <1>6, <1>7, <1>8, <1>9, <1>10, <1>11, <1>12 DEF LogInv

\* A daemon multicasts its JOIN.
LEMMA SendJoinKeepsLog ==
  ASSUME GTypeOK, LogInv, NEW d \in Daemon, send_join(d)
  PROVE  LogInv'
<1> DEFINE n == Len(log) + 1
<1>1. /\ n \in Nat /\ Len(log) \in Nat /\ Len(log)' = n
      /\ \A i, e : JoinAt(i, e)' <=> JoinAt(i, e) \/ (i = n /\ e = d)
      /\ \A i : ConfAt(i)' <=> ConfAt(i)
      /\ \A i, x : LeftAt(i, x)' <=> LeftAt(i, x)
      /\ \A i, x : EnterAt(i, x)' <=> EnterAt(i, x)
      /\ \A i, x : MemberAt(i, x)' <=> MemberAt(i, x)
  BY PositionTypes, JoinAppended DEF send_join
<1>2. \A i, e : JoinAt(i, e) => e \in Daemon /\ e # d /\ i \in Nat /\ i < n
  BY <1>1, PositionTypes DEF send_join, LogInv, Joins, Index, JoinAt
<1>3. \A i : ConfAt(i) => i \in Nat /\ i < n
  BY <1>1, PositionTypes
<1>4. /\ \A i, x : LeftAt(i, x) => i \in Nat /\ i < n
      /\ \A i, x : EnterAt(i, x) => i \in Nat /\ i < n
      /\ \A i, x : MemberAt(i, x) => i \in Nat /\ i < n
  BY <1>3, PositionTypes
<1>5. /\ cpg' = cpg
      /\ phase' = [phase EXCEPT ![d] = "up"] /\ phase[d] = "listening"
      /\ phase \in [Daemon -> Phase] /\ cpg \subseteq Daemon
  BY DEF send_join, GTypeOK
<1>6. Index' = Index \cup {n} /\ Index \subseteq Nat
  BY <1>1 DEF Index
<1> HIDE DEF n
<1>7. Members'
  BY <1>5 DEF LogInv, Members
<1>8. Joins'
  BY <1>1, <1>2, <1>4, <1>5, <1>6 DEF LogInv, Joins, Leaves
<1>9. Leaves'
  BY <1>1, <1>4, <1>5, <1>6 DEF LogInv, Leaves
<1>10. Enters'
  BY <1>1, <1>4, <1>5, <1>6 DEF LogInv, Enters
<1>11. Known'
  BY <1>1, <1>4, <1>5, <1>6 DEF LogInv, Known
<1>12. StillMember'
  BY <1>1, <1>2, <1>3, <1>5, <1>6 DEF LogInv, StillMember
<1>13. Replaced'
  BY <1>1, <1>4, <1>5, <1>6 DEF LogInv, Replaced
<1> QED BY <1>7, <1>8, <1>9, <1>10, <1>11, <1>12, <1>13 DEF LogInv

(***************************************************************************)
(* Every other step: nothing but lock messages is multicast, nobody comes  *)
(* or goes, at most a daemon passes the check of cpg_init.                 *)
(***************************************************************************)
SamePhases ==
  \A e \in Daemon :
    \/ phase'[e] = phase[e]
    \/ phase[e] = "cpg_init" /\ phase'[e] = "listening"

\* Appending lock messages, or nothing, keeps the agreed order well formed.
LEMMA QuietKeepsLog ==
  ASSUME GTypeOK, LogInv, NEW d \in Daemon, NEW out \in Seq(Payload),
         log' = Mcast(d, out), cpg' = cpg, SamePhases
  PROVE  LogInv'
<1>1. /\ Len(log) \in Nat /\ Len(log)' \in Nat /\ Len(log)' >= Len(log)
      /\ \A i, e : JoinAt(i, e)' <=> JoinAt(i, e)
      /\ \A i : ConfAt(i)' <=> ConfAt(i)
      /\ \A i, x : LeftAt(i, x)' <=> LeftAt(i, x)
      /\ \A i, x : EnterAt(i, x)' <=> EnterAt(i, x)
      /\ \A i, x : MemberAt(i, x)' <=> MemberAt(i, x)
  BY PositionTypes, LockTraffic
<1>2. /\ \A i, e : JoinAt(i, e) => i \in Index
      /\ \A i : ConfAt(i) => i \in Index
      /\ \A i, x : LeftAt(i, x) => i \in Index
      /\ \A i, x : EnterAt(i, x) => i \in Index
      /\ \A i, x : MemberAt(i, x) => i \in Index
  BY <1>1, PositionTypes DEF Index
<1>3. Index \subseteq Index' /\ Index' \subseteq Nat
  BY <1>1 DEF Index
<1>4. cpg \subseteq Daemon
  BY DEF GTypeOK
<1>5. Members'
  BY <1>4 DEF LogInv, Members, SamePhases
<1>6. Joins'
  BY <1>1, <1>2, <1>3 DEF LogInv, Joins, SamePhases
<1>7. Leaves'
  BY <1>1, <1>2, <1>3 DEF LogInv, Leaves, SamePhases
<1>8. Enters'
  BY <1>1, <1>2, <1>3 DEF LogInv, Enters
<1>9. Known'
  BY <1>1, <1>2, <1>3, <1>4 DEF LogInv, Known, SamePhases
<1>10. StillMember'
  BY <1>1, <1>2, <1>3, <1>4 DEF LogInv, StillMember
<1>11. Replaced'
  BY <1>1, <1>2, <1>3, <1>4 DEF LogInv, Replaced
<1> QED BY <1>5, <1>6, <1>7, <1>8, <1>9, <1>10, <1>11 DEF LogInv


-----------------------------------------------------------------------------
(***************************************************************************)
(* What the list operations of process_join and cpg_config_change do to    *)
(* the order of the members.                                               *)
(***************************************************************************)

\* Appending a member that is not listed yet.
LEMMA AppendOrder ==
  ASSUME NEW s \in Seq(Daemon), NEW x \in Daemon
  PROVE  /\ Append(s, x) \in Seq(Daemon) /\ Len(Append(s, x)) = Len(s) + 1
         /\ NoDuplicates(s) /\ ~Has(s, x) => NoDuplicates(Append(s, x))
         /\ \A y : Has(Append(s, x), y) <=> Has(s, y) \/ y = x
         /\ \A y, z : Precedes(s, y, z) => Precedes(Append(s, x), y, z)
         /\ \A y : Has(s, y) => Precedes(Append(s, x), y, x)
<1> DEFINE t == Append(s, x)
           n == Len(s) + 1
<1>1. Len(s) \in Nat /\ t \in Seq(Daemon) /\ Len(t) = n /\ t[n] = x
      /\ \A a \in 1..Len(s) : t[a] = s[a]
  BY LenProperties
<1> HIDE DEF t
<1>2. \A a : a \in 1..n <=> a \in 1..Len(s) \/ a = n
  BY <1>1
<1>3. \A a \in 1..Len(s) : a < n
  BY <1>1
<1>4. n \in Nat
  BY <1>1
<1> HIDE DEF n
<1>5. NoDuplicates(s) /\ ~Has(s, x) => NoDuplicates(t)
  BY <1>1, <1>2 DEF NoDuplicates, Has
<1>6. \A y : Has(t, y) <=> Has(s, y) \/ y = x
  BY <1>1, <1>2 DEF Has
<1>7. \A y, z : Precedes(s, y, z) => Precedes(t, y, z)
  BY <1>1, <1>2 DEF Precedes
<1>8. \A y : Has(s, y) => Precedes(t, y, x)
  BY <1>1, <1>2, <1>3 DEF Has, Precedes
<1> QED BY <1>1, <1>5, <1>6, <1>7, <1>8 DEF t, n

\* Removing the member at place i.
LEMMA RemoveOrder ==
  ASSUME NEW s \in Seq(Daemon), NEW i \in 1..Len(s), NoDuplicates(s)
  PROVE  /\ RemoveAt(s, i) \in Seq(Daemon) /\ Len(RemoveAt(s, i)) = Len(s) - 1
         /\ NoDuplicates(RemoveAt(s, i))
         /\ \A y : Has(RemoveAt(s, i), y) <=> Has(s, y) /\ y # s[i]
         /\ \A y, z : Precedes(s, y, z) /\ y # s[i] /\ z # s[i]
                        => Precedes(RemoveAt(s, i), y, z)
<1> DEFINE r == RemoveAt(s, i)
<1>1. /\ Len(s) \in Nat /\ r \in Seq(Daemon) /\ Len(r) = Len(s) - 1
      /\ \A a \in 1..Len(r) : r[a] = IF a < i THEN s[a] ELSE s[a + 1]
  BY RemoveAtProperties, LenProperties
<1> HIDE DEF r
<1>2. NoDuplicates(r)
  BY <1>1 DEF NoDuplicates
<1>3. ASSUME NEW a \in 1..Len(s), a # i
      PROVE  IF a < i THEN a \in 1..Len(r) /\ r[a] = s[a]
                      ELSE a - 1 \in 1..Len(r) /\ r[a - 1] = s[a]
  BY <1>1, <1>3
<1>4. ASSUME NEW y PROVE Has(r, y) <=> Has(s, y) /\ y # s[i]
  <2>1. ASSUME Has(r, y) PROVE Has(s, y) /\ y # s[i]
    BY <1>1, <2>1 DEF Has, NoDuplicates
  <2>2. ASSUME Has(s, y), y # s[i] PROVE Has(r, y)
    <3>1. PICK a \in 1..Len(s) : s[a] = y
      BY <2>2 DEF Has
    <3>2. a # i
      BY <2>2, <3>1
    <3> QED BY <1>3, <3>1, <3>2 DEF Has
  <2> QED BY <2>1, <2>2
<1>5. ASSUME NEW y, NEW z, Precedes(s, y, z), y # s[i], z # s[i]
      PROVE  Precedes(r, y, z)
  <2>1. PICK a, b \in 1..Len(s) : a < b /\ s[a] = y /\ s[b] = z
    BY <1>5 DEF Precedes
  <2>2. a # i /\ b # i
    BY <1>5, <2>1
  <2> DEFINE a2 == IF a < i THEN a ELSE a - 1
             b2 == IF b < i THEN b ELSE b - 1
  <2>3. a2 \in 1..Len(r) /\ b2 \in 1..Len(r) /\ r[a2] = y /\ r[b2] = z
    BY <1>3, <2>1, <2>2
  <2>4. a2 < b2
    BY <1>1, <2>1, <2>2
  <2> HIDE DEF a2, b2
  <2> QED BY <2>3, <2>4 DEF Precedes
<1> QED BY <1>1, <1>2, <1>4, <1>5 DEF r

\* Moving the member at place i to the end.
LEMMA MoveOrder ==
  ASSUME NEW s \in Seq(Daemon), NEW i \in 1..Len(s), NoDuplicates(s)
  PROVE  /\ MoveToTail(s, i) \in Seq(Daemon) /\ Len(MoveToTail(s, i)) = Len(s)
         /\ NoDuplicates(MoveToTail(s, i))
         /\ \A y : Has(MoveToTail(s, i), y) <=> Has(s, y)
         /\ \A y, z : Precedes(s, y, z) /\ y # s[i] /\ z # s[i]
                        => Precedes(MoveToTail(s, i), y, z)
<1> DEFINE r == RemoveAt(s, i)
<1>1. /\ r \in Seq(Daemon) /\ Len(r) = Len(s) - 1 /\ NoDuplicates(r)
      /\ \A y : Has(r, y) <=> Has(s, y) /\ y # s[i]
      /\ \A y, z : Precedes(s, y, z) /\ y # s[i] /\ z # s[i] => Precedes(r, y, z)
  BY RemoveOrder
<1>2. s[i] \in Daemon /\ Len(s) \in Nat
  BY ElementOfSeq, LenProperties
<1>3. MoveToTail(s, i) = Append(r, s[i])
  BY DEF MoveToTail
<1> HIDE DEF r
<1>4. Has(s, s[i])
  BY DEF Has
<1> QED BY <1>1, <1>2, <1>3, <1>4, AppendOrder


-----------------------------------------------------------------------------
(***************************************************************************)
(* The views stay right (ViewInv).                                         *)
(***************************************************************************)

\* A daemon that takes no step: its view does not depend on what follows
\* the entries it has dispatched.
LEMMA OthersKeepView ==
  ASSUME GTypeOK, NEW e \in Daemon, View(e),
         pos'[e] = pos[e], group_members'[e] = group_members[e],
         total_members'[e] = total_members[e], joined'[e] = joined[e],
         Len(log)' \in Nat, Len(log)' >= Len(log),
         \A i \in Index, x \in Daemon : JoinAt(i, x)' => JoinAt(i, x),
         \A i \in Index : JoinAt(i, e) => JoinAt(i, e)',
         \A i \in Index, x \in Daemon : LeftAt(i, x)' => LeftAt(i, x),
         e \in cpg' => e \in cpg /\ \A i : EnterAt(i, e)' => EnterAt(i, e),
         \A x \in Daemon : phase[x] # "off" => phase'[x] # "off",
         phase'[e] # "up" => phase[e] # "up",
         \A x \in cpg', i \in Index : JoinAt(i, x)' => x \in cpg,
         cpg' \subseteq Daemon
  PROVE  View(e)'
<1>1. Len(log) \in Nat /\ pos[e] \in Nat /\ pos[e] <= Len(log)
  BY LenProperties DEF GTypeOK, View, Progress
<1>2. Index \subseteq Index' /\ Index' \subseteq Nat
      /\ \A i \in Index' : i <= pos[e] => i \in Index
  BY <1>1 DEF Index
<1>3. \A i, x : EnterAt(i, x) => i \in Index
  BY PositionTypes DEF Index
<1>4. Progress(e)'
  BY <1>1, <1>2, <1>3 DEF View, Progress, Fresh
<1>5. Sound(e)'
  BY <1>1, <1>2 DEF View, Sound
<1>6. Complete(e)'
  <2>1. ASSUME NEW x \in cpg', NEW i \in Index', total_members'[e] # 0,
               JoinAt(i, x)', i <= pos'[e]
        PROVE  /\ Has(group_members'[e], x)
               /\ \A j \in Index' : JoinAt(j, e)' /\ i < j /\ j <= pos'[e] =>
                    Precedes(group_members'[e], x, e)
    <3>1. i \in Index /\ x \in cpg /\ JoinAt(i, x)
      BY <1>2, <2>1
    <3> QED BY <1>1, <1>2, <2>1, <3>1 DEF View, Complete
  <2> QED BY <2>1 DEF Complete
<1> QED BY <1>4, <1>5, <1>6 DEF View

\* A daemon that has just called cpg_join knows nothing yet.
LEMMA EnterView ==
  ASSUME GTypeOK, LogInv, NEW d \in Daemon, View(d), CpgJoin(d)
  PROVE  View(d)'
<1> DEFINE n == Len(log) + 1
<1>1. Len(log) \in Nat /\ Len(log)' = n
      /\ \A i, x : EnterAt(i, x)' <=> EnterAt(i, x) \/ (i = n /\ x = d)
  <2>1. log' = Append(log, ConfChg(cpg \cup {d}, {}, {d})) /\ log \in Seq(Entry)
    BY DEF CpgJoin, GTypeOK
  <2> QED BY <2>1, PositionTypes, ConfAppended
<1>2. \A i : ~EnterAt(i, d)
  BY PositionTypes DEF CpgJoin, LogInv, Enters, Known, Index
<1>3. pos'[d] = Len(log) /\ total_members[d] = 0
  BY DEF CpgJoin, GTypeOK, View, Progress
<1>4. /\ group_members'[d] = <<>> /\ joined'[d] = FALSE
      /\ total_members'[d] = 0 /\ phase'[d] = "cpg_init"
  BY <1>3 DEF View, Progress, Fresh, CpgJoin, groupVars, GTypeOK
<1>5. Progress(d)'
  BY <1>1, <1>2, <1>3, <1>4 DEF Progress, Fresh
<1>6. \A x : ~Has(<<>>, x)
  BY DEF Has
<1>7. NoDuplicates(<<>>)
  BY DEF NoDuplicates
<1>8. Sound(d)'
  BY <1>4, <1>6, <1>7 DEF Sound
<1>9. Complete(d)'
  BY <1>4 DEF Complete
<1> QED BY <1>5, <1>8, <1>9 DEF View

\* A process that has left knows nothing any more.
LEMMA DepartView ==
  ASSUME GTypeOK, NEW d \in Daemon, NEW lg, Depart(d, lg), log' \in Seq(Entry)
  PROVE  View(d)'
<1>1. /\ group_members'[d] = <<>> /\ joined'[d] = FALSE /\ total_members'[d] = 0
      /\ pos'[d] = 0 /\ d \notin cpg'
  BY DEF Depart, GTypeOK
<1>2. Len(log') \in Nat
  BY LenProperties
<1>3. Progress(d)'
  BY <1>1, <1>2 DEF Progress, Fresh
<1>4. \A x : ~Has(<<>>, x)
  BY DEF Has
<1>5. NoDuplicates(<<>>)
  BY DEF NoDuplicates
<1>6. Sound(d)'
  BY <1>1, <1>4, <1>5 DEF Sound
<1>7. Complete(d)'
  BY <1>1 DEF Complete
<1> QED BY <1>3, <1>6, <1>7 DEF View


\* To multicast nothing leaves the order as it is.
LEMMA McastNothing ==
  ASSUME GTypeOK, NEW d \in Daemon
  PROVE  Mcast(d, <<>>) = log
<1>1. log \in Seq(Entry) /\ <<>> \in Seq(Payload)
  BY DEF GTypeOK
<1>2. /\ Mcast(d, <<>>) \in Seq(Entry)
      /\ Len(Mcast(d, <<>>)) = Len(log)
      /\ \A i \in 1..Len(log) : Mcast(d, <<>>)[i] = log[i]
  <2> DEFINE z == <<>>
  <2>1. z \in Seq(Payload) /\ Len(z) = 0 /\ Len(log) + 0 = Len(log)
    BY <1>1, LenProperties
  <2> HIDE DEF z
  <2>2. /\ Mcast(d, z) \in Seq(Entry)
        /\ Len(Mcast(d, z)) = Len(log)
        /\ \A i \in 1..Len(log) : Mcast(d, z)[i] = log[i]
    BY <1>1, <2>1, McastProperties
  <2> QED BY <2>2 DEF z
<1> QED BY <1>1, <1>2, SeqEqual

(***************************************************************************)
(* Daemon d dispatches one entry and multicasts lock messages.             *)
(***************************************************************************)
DispatchStep(d, out) ==
  /\ HasNext(d)
  /\ log' = Mcast(d, out)
  /\ Dispatched(d)
  /\ UNCHANGED <<cpg, phase>>

\* What is known when an entry is dispatched: the daemon is a member, and
\* before its own configuration change it dispatches nothing else.
LEMMA DispatchFacts ==
  ASSUME GTypeOK, LogInv, NEW d \in Daemon, View(d), NEW out \in Seq(Payload),
         DispatchStep(d, out)
  PROVE  /\ d \in cpg /\ pos[d] \in Nat /\ pos'[d] = pos[d] + 1
         /\ pos[d] + 1 \in Index /\ Index \subseteq Index' /\ Index' \subseteq Nat
         /\ pos'[d] <= Len(log)'
         /\ \A i \in Index' : i <= pos'[d] => i \in Index
         /\ \A i, e : JoinAt(i, e)' <=> JoinAt(i, e)
         /\ \A i, x : LeftAt(i, x)' <=> LeftAt(i, x)
         /\ \A i, x : EnterAt(i, x)' <=> EnterAt(i, x)
         /\ total_members[d] = 0 => EnterAt(pos[d] + 1, d)
         /\ cpg' = cpg /\ phase' = phase /\ cpg \subseteq Daemon
         /\ phase[d] = "up"
<1>1. Len(log) \in Nat /\ pos[d] \in Nat /\ pos[d] < Len(log)
      /\ Len(log)' \in Nat /\ Len(log)' >= Len(log)
  BY LockTraffic, LenProperties DEF GTypeOK, DispatchStep, HasNext
<1>2. d \in cpg /\ pos'[d] = pos[d] + 1 /\ phase[d] = "up"
  BY DEF DispatchStep, Dispatched, HasNext, LogInv, Members, GTypeOK
<1>3. pos[d] + 1 \in Index /\ Index \subseteq Index' /\ Index' \subseteq Nat
      /\ pos'[d] <= Len(log)'
      /\ \A i \in Index' : i <= pos'[d] => i \in Index
  BY <1>1, <1>2 DEF Index
<1>4. total_members[d] = 0 => EnterAt(pos[d] + 1, d)
  BY <1>2 DEF LogInv, Known, View, Progress
<1> QED BY <1>1, <1>2, <1>3, <1>4, LockTraffic DEF DispatchStep, GTypeOK

\* The entry tells nothing about members: a lock message, or a lost slot.
LEMMA OtherEntryView ==
  ASSUME GTypeOK, LogInv, NEW d \in Daemon, View(d), NEW out \in Seq(Payload),
         DispatchStep(d, out), NextEntry(d).request \notin {"JOIN", "CONFCHG"},
         UNCHANGED groupVars
  PROVE  View(d)'
<1> DEFINE q == pos[d] + 1
<1>1. \A x : ~JoinAt(q, x) /\ ~LeftAt(q, x) /\ ~EnterAt(q, x)
  BY DEF JoinAt, LeftAt, EnterAt, ConfAt, NextEntry
<1>2. /\ group_members' = group_members /\ total_members' = total_members
      /\ joined' = joined
  BY DEF groupVars
<1>3. /\ d \in cpg /\ pos[d] \in Nat /\ pos'[d] = q
      /\ q \in Index /\ Index \subseteq Index' /\ Index' \subseteq Nat
      /\ pos'[d] <= Len(log)'
      /\ \A i \in Index' : i <= pos'[d] => i \in Index
      /\ \A i, e : JoinAt(i, e)' <=> JoinAt(i, e)
      /\ \A i, x : LeftAt(i, x)' <=> LeftAt(i, x)
      /\ \A i, x : EnterAt(i, x)' <=> EnterAt(i, x)
      /\ total_members[d] # 0
      /\ cpg' = cpg /\ phase' = phase /\ cpg \subseteq Daemon
      /\ phase[d] = "up"
  BY <1>1, DispatchFacts
<1>4. \A i \in Index : i <= q <=> i <= pos[d] \/ i = q
  BY <1>3 DEF Index
<1>5. \A i, x : EnterAt(i, x) => i \in Index
  BY PositionTypes DEF Index
<1>6. Progress(d)'
  <2>1. ASSUME NEW m \in Index', EnterAt(m, d)' PROVE m <= pos'[d]
    BY <1>3, <1>5, <2>1 DEF View, Progress
  <2> QED BY <1>2, <1>3, <2>1 DEF View, Progress
<1> HIDE DEF q
<1>7. Sound(d)'
  BY <1>1, <1>2, <1>3, <1>4 DEF View, Sound
<1>8. Complete(d)'
  BY <1>1, <1>2, <1>3, <1>4 DEF View, Complete
<1> QED BY <1>6, <1>7, <1>8 DEF View


\* A JOIN: the list gains its sender, or has it moved to the end.
LEMMA JoinEntryView ==
  ASSUME GTypeOK, LogInv, NEW d \in Daemon, View(d), process_join(d)
  PROVE  View(d)'
<1> DEFINE q    == pos[d] + 1
           x    == NextEntry(d).from
           list == group_members[d]
           i    == ListedAt(list, x)
<1>1. DispatchStep(d, <<>>) /\ <<>> \in Seq(Payload)
  BY McastNothing DEF process_join, DispatchStep
<1>2. q \in Index /\ JoinAt(q, x)
  BY <1>1, DispatchFacts DEF process_join, JoinAt, NextEntry, Index
<1>3. x \in Daemon /\ list \in Seq(Daemon) /\ \A y : ~LeftAt(q, y) /\ ~EnterAt(q, y)
  BY <1>2, PositionTypes DEF GTypeOK
<1>4. /\ d \in cpg /\ pos[d] \in Nat /\ pos'[d] = q
      /\ q \in Index /\ Index \subseteq Index' /\ Index' \subseteq Nat
      /\ pos'[d] <= Len(log)'
      /\ \A k \in Index' : k <= pos'[d] => k \in Index
      /\ \A k, e : JoinAt(k, e)' <=> JoinAt(k, e)
      /\ \A k, y : LeftAt(k, y)' <=> LeftAt(k, y)
      /\ \A k, y : EnterAt(k, y)' <=> EnterAt(k, y)
      /\ total_members[d] # 0
      /\ cpg' = cpg /\ phase' = phase /\ cpg \subseteq Daemon
      /\ phase[d] = "up"
  BY <1>1, <1>3, DispatchFacts
<1>5. /\ \A k \in Index : k <= q <=> k <= pos[d] \/ k = q
      /\ Index \subseteq Nat /\ pos[d] < q
      /\ \A k, y : EnterAt(k, y) => k \in Index
      /\ \A k, y : JoinAt(k, y) => k \in Index /\ y \in Daemon
  BY <1>4, PositionTypes DEF Index
<1>6. /\ phase[x] \in {"up", "gone"}
      /\ \A k \in Index : JoinAt(k, x) => k = q
      /\ \A k \in Index : LeftAt(k, x) => q < k
      /\ \A k \in Index : EnterAt(k, x) => k < q
      /\ \A y \in Daemon : JoinAt(q, y) => y = x
  BY <1>2, <1>3, PositionTypes DEF LogInv, Joins
<1>7. \E m \in Index : EnterAt(m, d) /\ m <= pos[d]
  BY <1>4 DEF LogInv, Known, View, Progress
<1> HIDE DEF q
<1>8. NodeOf[x] = NodeOf[d] => x = d
  <2> SUFFICES ASSUME NodeOf[x] = NodeOf[d], x # d PROVE FALSE
    OBVIOUS
  <2>1. x \notin cpg
    BY <1>4 DEF LogInv, Members
  <2>2. PICK k \in Index : LeftAt(k, x)
    BY <2>1, <1>3, <1>6 DEF LogInv, Known, Members
  <2>3. PICK m \in Index : EnterAt(m, d) /\ m <= pos[d]
    BY <1>7
  <2>4. q < k /\ k < m
    BY <1>3, <1>4, <1>6, <2>2, <2>3 DEF LogInv, Replaced
  <2>5. k \in Nat /\ m \in Nat /\ q \in Nat
    BY <1>4, <1>5
  <2> QED BY <1>4, <1>5, <2>3, <2>4, <2>5
<1>9. NoDuplicates(list) /\ Len(list) \in Nat
  BY <1>3, LenProperties DEF View, Sound
<1>10. CASE i = 0
  <2>1. /\ group_members'[d] = Append(list, x)
        /\ total_members'[d] = total_members[d] + 1
        /\ joined'[d] = (joined[d] \/ NodeOf[x] = NodeOf[d])
    BY <1>10 DEF process_join, GTypeOK
  <2>2. ~Has(list, x)
    BY <1>3, <1>10, ListedAtProperties DEF Has
  <2> HIDE DEF i, x
  <2>3. /\ Len(Append(list, x)) = Len(list) + 1 /\ NoDuplicates(Append(list, x))
        /\ \A y : Has(Append(list, x), y) <=> Has(list, y) \/ y = x
        /\ \A y, z : Precedes(list, y, z) => Precedes(Append(list, x), y, z)
        /\ \A y : Has(list, y) => Precedes(Append(list, x), y, x)
    BY <1>3, <1>9, <2>2, AppendOrder
  <2>4. Progress(d)'
    <3>1. total_members[d] \in Nat /\ total_members[d] > Len(list)
      BY <1>4 DEF View, Progress, GTypeOK
    <3>2. ASSUME NEW m \in Index', EnterAt(m, d)' PROVE m <= pos'[d]
      BY <1>4, <1>5, <3>2 DEF View, Progress
    <3>3. total_members'[d] # 0 /\ total_members'[d] > Len(group_members'[d])
      BY <1>9, <2>1, <2>3, <3>1
    <3> QED BY <1>4, <3>2, <3>3 DEF Progress
  <2>5. Sound(d)'
    <3> HIDE DEF list
    <3>1. \A y \in Daemon : Has(group_members[d], y) =>
            /\ phase[y] # "off"
            /\ NodeOf[y] = NodeOf[d] => y = d
            /\ \A k \in Index : k <= q => ~LeftAt(k, y)
      BY <1>3, <1>5 DEF View, Sound
    <3>2. \A y \in Daemon : Has(group_members'[d], y) =>
            /\ phase'[y] # "off"
            /\ NodeOf[y] = NodeOf[d] => y = d
            /\ \A k \in Index' : k <= pos'[d] => ~LeftAt(k, y)'
      BY <1>3, <1>4, <1>5, <1>6, <1>8, <2>1, <2>3, <3>1 DEF list
    <3>3. joined'[d] <=> Has(group_members'[d], d)
      BY <1>8, <2>1, <2>3 DEF View, Sound, list
    <3>4. joined'[d] => \E j \in Index' : j <= pos'[d] /\ JoinAt(j, d)'
      BY <1>2, <1>4, <1>5, <1>8, <2>1 DEF View, Sound
    <3>5. NoDuplicates(group_members'[d])
      BY <2>1, <2>3
    <3> QED BY <3>2, <3>3, <3>4, <3>5 DEF Sound
  <2>6. Complete(d)'
    <3>1. ASSUME NEW e \in cpg', NEW k \in Index', JoinAt(k, e)', k <= pos'[d]
          PROVE  /\ Has(group_members'[d], e)
                 /\ \A j \in Index' : JoinAt(j, d)' /\ k < j /\ j <= pos'[d] =>
                      Precedes(group_members'[d], e, d)
      <4>1. k \in Index /\ JoinAt(k, e) /\ e \in cpg /\ e \in Daemon
        BY <1>4, <3>1
      <4>2. CASE k = q
        <5>1. e = x
          BY <1>6, <4>1, <4>2
        <5>2. \A j \in Index : j <= q => ~(k < j)
          BY <1>4, <1>5, <4>2
        <5> QED BY <1>4, <2>1, <2>3, <5>1, <5>2
      <4>3. CASE k <= pos[d]
        <5>1. Has(list, e)
          BY <1>4, <4>1, <4>3 DEF View, Complete
        <5>2. ASSUME NEW j \in Index, JoinAt(j, d), k < j, j <= q
              PROVE  Precedes(group_members'[d], e, d)
          <6>1. CASE j = q
            BY <1>6, <2>1, <2>3, <5>1, <5>2, <6>1
          <6>2. CASE j <= pos[d]
            <7>1. Precedes(list, e, d)
              BY <1>4, <4>1, <4>3, <5>2, <6>2 DEF View, Complete
            <7> QED BY <2>1, <2>3, <7>1
          <6> QED BY <1>5, <5>2, <6>1, <6>2
        <5> QED BY <1>4, <2>1, <2>3, <5>1, <5>2
      <4> QED BY <1>4, <1>5, <3>1, <4>1, <4>2, <4>3
    <3> QED BY <3>1 DEF Complete
  <2> QED BY <2>4, <2>5, <2>6 DEF View
<1>11. CASE i # 0
  <2>1. i \in 1..Len(list) /\ NodeOf[list[i]] = NodeOf[x] /\ list[i] \in Daemon
    BY <1>3, <1>11, ListedAtProperties, ElementOfSeq
  <2>2. /\ group_members'[d] = IF list[i] = x THEN MoveToTail(list, i) ELSE list
        /\ total_members'[d] = total_members[d] /\ joined'[d] = joined[d]
    BY <1>11 DEF process_join, GTypeOK
  <2>3. Has(list, list[i])
    BY <2>1 DEF Has
  \* A listed daemon of the sender's node is the sender, or the sender has
  \* already left the group.
  <2>4. x \in cpg => list[i] = x
    <3> SUFFICES ASSUME x \in cpg, list[i] # x PROVE FALSE
      OBVIOUS
    <3>1. list[i] \notin cpg /\ phase[list[i]] # "off"
      BY <2>1, <2>3 DEF LogInv, Members, View, Sound
    <3>2. phase[list[i]] = "gone"
      BY <2>1, <3>1 DEF LogInv, Members, GTypeOK, Phase
    <3>3. PICK k \in Index : LeftAt(k, list[i])
      BY <2>1, <3>2 DEF LogInv, Known
    <3>4. PICK m \in Index : EnterAt(m, x)
      BY DEF LogInv, Known
    <3>5. k < m
      BY <2>1, <3>3, <3>4 DEF LogInv, Replaced
    <3>6. m < q
      BY <1>6, <3>4
    <3>7. ~(k <= pos[d])
      BY <2>1, <2>3, <3>3 DEF View, Sound
    <3>8. k \in Nat /\ m \in Nat /\ q \in Nat
      BY <1>4, <1>5
    <3>9. ~(k <= q)
      BY <1>3, <1>5, <3>3, <3>7
    <3> QED BY <3>5, <3>6, <3>8, <3>9
  <2>5. x # d
    <3> SUFFICES ASSUME x = d PROVE FALSE
      OBVIOUS
    <3>1. list[i] = d
      BY <1>4, <2>4
    <3>2. PICK j \in Index : j <= pos[d] /\ JoinAt(j, d)
      BY <2>3, <3>1 DEF View, Sound
    <3>3. j = q
      BY <1>6, <3>2
    <3> QED BY <1>4, <1>5, <3>2, <3>3
  <2> HIDE DEF i, x
  <2>6. /\ Len(group_members'[d]) = Len(list) /\ NoDuplicates(group_members'[d])
        /\ \A y : Has(group_members'[d], y) <=> Has(list, y)
        /\ \A y : Precedes(list, y, d) /\ y # x => Precedes(group_members'[d], y, d)
    <3>1. CASE list[i] = x
      BY <1>3, <1>9, <2>1, <2>2, <2>5, <3>1, MoveOrder
    <3>2. CASE list[i] # x
      BY <1>9, <2>2, <3>2
    <3> QED BY <3>1, <3>2
  <2>7. Progress(d)'
    <3>1. ASSUME NEW m \in Index', EnterAt(m, d)' PROVE m <= pos'[d]
      BY <1>4, <1>5, <3>1 DEF View, Progress
    <3> QED BY <1>4, <2>2, <2>6, <3>1 DEF View, Progress
  <2>8. Sound(d)'
    <3> HIDE DEF list
    <3>1. \A y \in Daemon : Has(group_members[d], y) =>
            /\ phase[y] # "off"
            /\ NodeOf[y] = NodeOf[d] => y = d
            /\ \A k \in Index : k <= q => ~LeftAt(k, y)
      BY <1>3, <1>5 DEF View, Sound
    <3>2. \A y \in Daemon : Has(group_members'[d], y) =>
            /\ phase'[y] # "off"
            /\ NodeOf[y] = NodeOf[d] => y = d
            /\ \A k \in Index' : k <= pos'[d] => ~LeftAt(k, y)'
      BY <1>4, <2>6, <3>1 DEF list
    <3>3. joined'[d] <=> Has(group_members'[d], d)
      BY <2>2, <2>6 DEF View, Sound, list
    <3>4. joined'[d] => \E j \in Index' : j <= pos'[d] /\ JoinAt(j, d)'
      BY <1>4, <1>5, <2>2 DEF View, Sound
    <3> QED BY <2>6, <3>2, <3>3, <3>4 DEF Sound
  <2>9. Complete(d)'
    <3>1. ASSUME NEW e \in cpg', NEW k \in Index', JoinAt(k, e)', k <= pos'[d]
          PROVE  /\ Has(group_members'[d], e)
                 /\ \A j \in Index' : JoinAt(j, d)' /\ k < j /\ j <= pos'[d] =>
                      Precedes(group_members'[d], e, d)
      <4>1. k \in Index /\ JoinAt(k, e) /\ e \in cpg /\ e \in Daemon
        BY <1>4, <3>1
      <4>2. CASE k = q
        <5>1. e = x
          BY <1>6, <4>1, <4>2
        <5>2. \A j \in Index : j <= q => ~(k < j)
          BY <1>4, <1>5, <4>2
        <5> QED BY <1>4, <2>3, <2>4, <2>6, <4>1, <5>1, <5>2
      <4>3. CASE k <= pos[d]
        <5>1. Has(list, e) /\ e # x
          BY <1>4, <1>5, <1>6, <4>1, <4>3 DEF View, Complete
        <5>2. ASSUME NEW j \in Index, JoinAt(j, d), k < j, j <= q
              PROVE  Precedes(group_members'[d], e, d)
          <6>1. j <= pos[d]
            BY <1>5, <1>6, <2>5, <5>2
          <6>2. Precedes(list, e, d)
            BY <1>4, <4>1, <4>3, <5>2, <6>1 DEF View, Complete
          <6> QED BY <2>6, <5>1, <6>2
        <5> QED BY <1>4, <2>6, <5>1, <5>2
      <4> QED BY <1>4, <1>5, <3>1, <4>1, <4>2, <4>3
    <3> QED BY <3>1 DEF Complete
  <2> QED BY <2>7, <2>8, <2>9 DEF View
<1> QED BY <1>10, <1>11


\* A configuration change: one's own fills the list, a later one takes the
\* member that left out of it.
LEMMA ConfEntryView ==
  ASSUME GTypeOK, LogInv, NEW d \in Daemon, View(d), NEW out \in Seq(Payload),
         cpg_config_change(d, out)
  PROVE  View(d)'
<1> DEFINE q == pos[d] + 1
           c == NextEntry(d)
<1>1. DispatchStep(d, out)
  BY DEF cpg_config_change, DispatchStep
<1>2. /\ d \in cpg /\ pos[d] \in Nat /\ pos'[d] = q
      /\ q \in Index /\ Index \subseteq Index' /\ Index' \subseteq Nat
      /\ pos'[d] <= Len(log)'
      /\ \A k \in Index' : k <= pos'[d] => k \in Index
      /\ \A k, e : JoinAt(k, e)' <=> JoinAt(k, e)
      /\ \A k, y : LeftAt(k, y)' <=> LeftAt(k, y)
      /\ \A k, y : EnterAt(k, y)' <=> EnterAt(k, y)
      /\ total_members[d] = 0 => EnterAt(q, d)
      /\ cpg' = cpg /\ phase' = phase /\ cpg \subseteq Daemon
      /\ phase[d] = "up"
  BY <1>1, DispatchFacts
<1>3. /\ ConfAt(q)
      /\ \A y : LeftAt(q, y) <=> y \in c.left
      /\ \A y : EnterAt(q, y) <=> y \in c.join
      /\ \A y : MemberAt(q, y) <=> y \in c.members
  BY <1>2 DEF cpg_config_change, ConfAt, LeftAt, EnterAt, MemberAt, NextEntry, Index
<1>4. c.members \in SUBSET Daemon /\ c.left \in SUBSET Daemon /\ c.join \in SUBSET Daemon
  <2>1. c \in Entry /\ c.request = "CONFCHG"
    BY ElementOfSeq DEF GTypeOK, cpg_config_change, HasNext, NextEntry
  <2> HIDE DEF c
  <2> QED BY <2>1 DEF Entry, Lost
<1>5. /\ \A k \in Index : k <= q <=> k <= pos[d] \/ k = q
      /\ Index \subseteq Nat /\ pos[d] < q
      /\ \A k, y : EnterAt(k, y) => k \in Index
      /\ \A k, y : JoinAt(k, y) => k \in Index /\ y \in Daemon /\ k # q
  BY <1>2, <1>3, PositionTypes DEF Index
<1>6. PICK list \in ListAfterSetup(d, c) :
        LET gone  == Leavers(list, c)
            count == CountAfterSetup(d, c) - Cardinality(gone)
        IN  /\ \A x \in gone : NodeOf[x] # NodeOf[d]
            /\ group_members' = [group_members EXCEPT ![d] = ListAfterLeave(list, c)]
            /\ total_members' = [total_members EXCEPT ![d] =
                                   IF count < 0 THEN 0 ELSE count]
  BY DEF cpg_config_change
<1>7. joined' = joined
  BY DEF cpg_config_change
<1> DEFINE gone  == Leavers(list, c)
           count == CountAfterSetup(d, c) - Cardinality(gone)
<1>8. /\ group_members'[d] = ListAfterLeave(list, c)
      /\ total_members'[d] = IF count < 0 THEN 0 ELSE count
      /\ \A x \in gone : NodeOf[x] # NodeOf[d]
  BY <1>6 DEF GTypeOK
<1>9. list \in Seq(Daemon) /\ CountAfterSetup(d, c) \in Nat
  BY <1>4, SetupProperties
<1>10. \A x : x \in gone <=> Has(list, x) /\ x \in c.left
  <2>1. DOMAIN list = 1..Len(list)
    BY <1>9, LenProperties
  <2> QED BY <2>1 DEF Leavers, Range, Has
<1> HIDE DEF q, c
<1>11. CASE total_members[d] = 0
  <2>1. group_members[d] = <<>> /\ joined[d] = FALSE
    BY <1>11 DEF View, Progress, Fresh, GTypeOK
  <2>2. EnterAt(q, d) /\ d \in c.join /\ d \in c.members
    BY <1>2, <1>3, <1>11 DEF LogInv, Enters
  <2>3. c.join = {d}
    BY <1>2, <1>3, <1>4, <2>2 DEF LogInv, Enters
  <2>4. c.left = {}
    BY <1>2, <1>3, <1>4, <2>2 DEF LogInv, Leaves
  <2> DEFINE E == EarlierMembers(d, c)
  <2>5. /\ \A x \in E : x \in c.members /\ x \in Daemon /\ NodeOf[x] # NodeOf[d]
        /\ \A x \in c.members : NodeOf[x] # NodeOf[d] => x \in E
    BY <1>4, <2>3 DEF EarlierMembers
  <2>6. IsFiniteSet(c.members) /\ IsFiniteSet(E)
    BY <1>4, SetupProperties
  <2>7. PICK s \in Enumerations(E) : list = <<>> \o s
    BY <1>11, <2>1 DEF ListAfterSetup
  <2>8. /\ s \in Seq(E) /\ Len(s) = Cardinality(E)
        /\ NoDuplicates(s)
        /\ \A x \in E : Has(s, x)
    BY <2>6, EnumerationsProperties DEF NoDuplicates, Has
  <2>9. list = s
    BY <2>7, <2>8, ConcatEmptySeq
  <2>10. \A x : Has(s, x) => x \in E
    BY <2>8, ElementOfSeq DEF Has
  <2>11. gone = {}
    BY <1>10, <2>4
  <2>12. group_members'[d] = s
    BY <1>8, <1>9, <2>9, <2>11, ListAfterLeaveProperties
  <2>13. Cardinality(E) \in Nat /\ Cardinality(c.members) \in Nat
         /\ Cardinality(c.members) > Cardinality(E)
    <3>1. E \subseteq c.members \ {d} /\ d \in c.members
      BY <2>2, <2>5
    <3>2. /\ IsFiniteSet(c.members \ {d})
          /\ Cardinality(c.members \ {d}) = Cardinality(c.members) - 1
      BY <2>2, <2>6, FS_RemoveElement
    <3>3. Cardinality(E) <= Cardinality(c.members \ {d})
      BY <3>1, <3>2, FS_Subset
    <3>4. Cardinality(E) \in Nat /\ Cardinality(c.members) \in Nat
      BY <2>6, FS_CardinalityType
    <3> HIDE DEF E
    <3> QED BY <3>2, <3>3, <3>4
  <2>14. total_members'[d] = Cardinality(c.members)
    <3>1. CountAfterSetup(d, c) = Cardinality(c.members) /\ Cardinality(gone) = 0
      BY <1>11, <2>11, FS_EmptySet DEF CountAfterSetup
    <3> HIDE DEF gone
    <3> QED BY <1>8, <2>13, <3>1
  <2> HIDE DEF E, gone, count
  <2>15. Progress(d)'
    <3>1. total_members'[d] # 0 /\ total_members'[d] > Len(group_members'[d])
      BY <2>8, <2>12, <2>13, <2>14
    <3>2. ASSUME NEW m \in Index', EnterAt(m, d)' PROVE m <= pos'[d]
      <4>1. m = q
        BY <1>2, <1>5, <2>2, <3>2 DEF LogInv, Enters
      <4> QED BY <1>2, <1>5, <4>1
    <3> QED BY <1>2, <3>1, <3>2 DEF Progress
  <2>16. Sound(d)'
    <3>1. ASSUME NEW x \in Daemon, Has(group_members'[d], x)
          PROVE  /\ phase'[x] # "off"
                 /\ NodeOf[x] # NodeOf[d]
                 /\ \A k \in Index' : k <= pos'[d] => ~LeftAt(k, x)'
      <4>1. x \in E /\ MemberAt(q, x)
        BY <1>3, <2>5, <2>10, <2>12, <3>1
      <4>2. phase[x] # "off"
        BY <1>2, <4>1 DEF LogInv, Known
      <4>3. ASSUME NEW k \in Index, k <= q, LeftAt(k, x) PROVE FALSE
        <5>1. k # q
          BY <1>3, <2>4, <4>3
        <5>2. k < q
          BY <1>2, <1>5, <4>3, <5>1
        <5> QED BY <1>2, <4>1, <4>3, <5>2 DEF LogInv, Leaves
      <4> QED BY <1>2, <2>5, <4>1, <4>2, <4>3
    <3>2. ~Has(group_members'[d], d)
      BY <3>1
    <3> QED BY <1>7, <2>1, <2>8, <2>12, <3>1, <3>2 DEF Sound
  <2>17. Complete(d)'
    <3>1. ASSUME NEW e \in cpg', NEW k \in Index', JoinAt(k, e)', k <= pos'[d]
          PROVE  Has(group_members'[d], e)
      <4>1. k \in Index /\ JoinAt(k, e) /\ e \in cpg /\ e \in Daemon /\ k < q
        BY <1>2, <1>5, <3>1
      <4>2. MemberAt(q, e)
        BY <1>2, <1>3, <4>1 DEF LogInv, StillMember
      <4>3. e # d
        BY <1>2, <1>5, <2>2, <4>1 DEF LogInv, Joins
      <4>4. NodeOf[e] # NodeOf[d]
        BY <1>2, <4>1, <4>3 DEF LogInv, Members
      <4> QED BY <1>3, <2>5, <2>8, <2>12, <4>2, <4>4
    <3>2. ASSUME NEW j \in Index', JoinAt(j, d)', j <= pos'[d] PROVE FALSE
      <4>1. j \in Index /\ JoinAt(j, d) /\ j <= q
        BY <1>2, <3>2
      <4>2. q < j
        BY <1>2, <2>2, <4>1 DEF LogInv, Joins
      <4> QED BY <1>2, <1>5, <4>1, <4>2
    <3> QED BY <3>1, <3>2 DEF Complete
  <2> QED BY <2>15, <2>16, <2>17 DEF View
<1>12. CASE total_members[d] # 0
  <2>1. list = group_members[d] /\ CountAfterSetup(d, c) = total_members[d]
    BY <1>12 DEF ListAfterSetup, CountAfterSetup
  <2>2. /\ NoDuplicates(list) /\ Len(list) \in Nat
        /\ total_members[d] \in Nat /\ total_members[d] > Len(list)
    BY <1>9, <1>12, <2>1, LenProperties DEF View, Sound, Progress, GTypeOK
  \* What the list is now, whether or not somebody on it left.
  <2>3. /\ NoDuplicates(group_members'[d])
        /\ total_members'[d] # 0 /\ total_members'[d] > Len(group_members'[d])
        /\ \A y : Has(group_members'[d], y) <=> Has(list, y) /\ y \notin c.left
        /\ \A y, z : Precedes(list, y, z) /\ y \notin c.left /\ z \notin gone
                       => Precedes(group_members'[d], y, z)
    <3>1. CASE gone = {}
      <4>1. group_members'[d] = list
        BY <1>8, <1>9, <3>1, ListAfterLeaveProperties
      <4>2. Cardinality(gone) = 0
        BY <3>1, FS_EmptySet
      <4> HIDE DEF gone
      <4>3. total_members'[d] = total_members[d]
        BY <1>8, <2>1, <2>2, <4>2
      <4> QED BY <1>10, <2>2, <3>1, <4>1, <4>3
    <3>2. CASE gone # {}
      <4>1. PICK i \in 1..Len(list) :
              list[i] \in c.left /\ ListAfterLeave(list, c) = RemoveAt(list, i)
        BY <1>9, <3>2, ListAfterLeaveProperties
      <4>2. \A y \in c.left : y = list[i]
        BY <1>2, <1>3, <1>4, <4>1 DEF LogInv, Leaves
      <4>3. gone = {list[i]}
        <5>1. Has(list, list[i])
          BY DEF Has
        <5> HIDE DEF gone
        <5> QED BY <1>10, <4>1, <4>2, <5>1
      <4>4. Cardinality(gone) = 1
        BY <4>3, FS_Singleton
      <4> HIDE DEF gone
      <4>5. total_members'[d] = total_members[d] - 1
        BY <1>8, <2>1, <2>2, <4>1, <4>4
      <4>6. /\ NoDuplicates(group_members'[d]) /\ Len(group_members'[d]) = Len(list) - 1
            /\ \A y : Has(group_members'[d], y) <=> Has(list, y) /\ y # list[i]
            /\ \A y, z : Precedes(list, y, z) /\ y # list[i] /\ z # list[i]
                           => Precedes(group_members'[d], y, z)
        BY <1>8, <1>9, <2>2, <4>1, RemoveOrder
      <4>7. total_members'[d] # 0 /\ total_members'[d] > Len(group_members'[d])
        BY <2>2, <4>1, <4>5, <4>6
      <4> QED BY <4>1, <4>2, <4>3, <4>6, <4>7
    <3> QED BY <3>1, <3>2
  <2>4. d \notin gone
    BY <1>8
  <2> HIDE DEF gone, count
  <2>5. Progress(d)'
    <3>1. ASSUME NEW m \in Index', EnterAt(m, d)' PROVE m <= pos'[d]
      BY <1>2, <1>5, <1>12, <3>1 DEF View, Progress
    <3> QED BY <1>2, <2>3, <3>1 DEF Progress
  <2>6. Sound(d)'
    <3>1. ASSUME NEW x \in Daemon, Has(group_members'[d], x)
          PROVE  /\ phase'[x] # "off"
                 /\ NodeOf[x] = NodeOf[d] => x = d
                 /\ \A k \in Index' : k <= pos'[d] => ~LeftAt(k, x)'
      <4>1. Has(list, x) /\ x \notin c.left
        BY <2>3, <3>1
      <4> QED BY <1>2, <1>3, <1>5, <2>1, <4>1 DEF View, Sound
    <3>2. joined'[d] <=> Has(group_members'[d], d)
      <4>1. Has(list, d) => d \notin c.left
        BY <1>10, <2>4
      <4> QED BY <1>7, <2>1, <2>3, <4>1 DEF View, Sound
    <3>3. joined'[d] => \E j \in Index' : j <= pos'[d] /\ JoinAt(j, d)'
      BY <1>2, <1>5, <1>7 DEF View, Sound
    <3> QED BY <2>3, <3>1, <3>2, <3>3 DEF Sound
  <2>7. Complete(d)'
    <3>1. ASSUME NEW e \in cpg', NEW k \in Index', JoinAt(k, e)', k <= pos'[d]
          PROVE  /\ Has(group_members'[d], e)
                 /\ \A j \in Index' : JoinAt(j, d)' /\ k < j /\ j <= pos'[d] =>
                      Precedes(group_members'[d], e, d)
      <4>1. k \in Index /\ JoinAt(k, e) /\ e \in cpg /\ e \in Daemon /\ k <= pos[d]
        BY <1>2, <1>5, <3>1
      <4>2. e \notin c.left
        <5>1. phase[e] # "gone"
          BY <4>1 DEF LogInv, Members
        <5> QED BY <1>2, <1>3, <4>1, <5>1 DEF LogInv, Leaves
      <4>3. Has(list, e)
        BY <1>12, <2>1, <4>1 DEF View, Complete
      <4>4. ASSUME NEW j \in Index', JoinAt(j, d)', k < j, j <= pos'[d]
            PROVE  Precedes(group_members'[d], e, d)
        <5>1. j \in Index /\ JoinAt(j, d) /\ j <= pos[d]
          BY <1>2, <1>5, <4>4
        <5>2. Precedes(list, e, d)
          BY <1>12, <2>1, <4>1, <4>4, <5>1 DEF View, Complete
        <5> QED BY <2>3, <2>4, <4>2, <5>2
      <4> QED BY <2>3, <4>2, <4>3, <4>4
    <3> QED BY <3>1 DEF Complete
  <2> QED BY <2>5, <2>6, <2>7 DEF View
<1> QED BY <1>11, <1>12


\* Nobody else is affected while the order only grows by lock messages.
LEMMA QuietOthers ==
  ASSUME GTypeOK, NEW d \in Daemon, NEW out \in Seq(Payload),
         log' = Mcast(d, out), cpg' = cpg, SamePhases,
         NEW e \in Daemon, View(e),
         pos'[e] = pos[e], group_members'[e] = group_members[e],
         total_members'[e] = total_members[e], joined'[e] = joined[e]
  PROVE  View(e)'
<1>1. /\ Len(log)' \in Nat /\ Len(log)' >= Len(log)
      /\ \A i, x : JoinAt(i, x)' <=> JoinAt(i, x)
      /\ \A i, x : LeftAt(i, x)' <=> LeftAt(i, x)
      /\ \A i, x : EnterAt(i, x)' <=> EnterAt(i, x)
  BY LockTraffic
<1>2. /\ \A x \in Daemon : phase[x] # "off" => phase'[x] # "off"
      /\ phase'[e] # "up" => phase[e] # "up"
  BY DEF SamePhases
<1>3. cpg' \subseteq Daemon
  BY DEF GTypeOK
<1> QED BY <1>1, <1>2, <1>3, OthersKeepView

\* Nor by somebody's departure.
LEMMA DepartOthers ==
  ASSUME GTypeOK, NEW d \in Daemon, d \in cpg,
         NEW lg \in Seq(Entry), Len(lg) = Len(log),
         \A i \in 1..Len(log) :
           \/ lg[i] = log[i]
           \/ /\ lg[i] = Lost
              /\ log[i].request \in {"JOIN", "APP"}
              /\ log[i].from = d,
         Depart(d, lg), NEW e \in Daemon, e # d, View(e)
  PROVE  View(e)'
<1>1. log' = Append(lg, ConfChg(cpg \ {d}, {d}, {}))
  BY DEF Depart
<1>2. /\ Len(log) \in Nat /\ Len(log)' = Len(log) + 1
      /\ \A i, x : JoinAt(i, x)' => JoinAt(i, x)
      /\ \A i, x : x # d => (JoinAt(i, x)' <=> JoinAt(i, x))
      /\ \A i, x : LeftAt(i, x)' <=> LeftAt(i, x) \/ (i = Len(log) + 1 /\ x = d)
      /\ \A i, x : EnterAt(i, x)' <=> EnterAt(i, x)
  BY <1>1, PositionTypes, ConfAppended
<1>3. \A i \in Index : \A x : LeftAt(i, x)' => LeftAt(i, x)
  BY <1>2 DEF Index
<1>4. Len(log)' \in Nat /\ Len(log)' >= Len(log)
  BY <1>2
<1>5. /\ pos'[e] = pos[e] /\ group_members'[e] = group_members[e]
      /\ total_members'[e] = total_members[e] /\ joined'[e] = joined[e]
      /\ \A x \in Daemon : phase[x] # "off" => phase'[x] # "off"
      /\ phase'[e] = phase[e] /\ cpg' = cpg \ {d} /\ cpg \subseteq Daemon
  BY DEF Depart, GTypeOK
<1> QED BY <1>2, <1>3, <1>4, <1>5, OthersKeepView

\* A departure, for whatever reason, keeps the inductive invariant.
LEMMA DepartKeepsInv ==
  ASSUME IndInv, NEW d \in Daemon, d \in cpg,
         NEW lg \in Seq(Entry), Len(lg) = Len(log),
         \A i \in 1..Len(log) :
           \/ lg[i] = log[i]
           \/ /\ lg[i] = Lost
              /\ log[i].request \in {"JOIN", "APP"}
              /\ log[i].from = d,
         Depart(d, lg)
  PROVE  IndInv'
<1>1. GTypeOK /\ LogInv /\ ViewInv
  BY DEF IndInv
<1>2. GTypeOK'
  BY <1>1, DepartTyped
<1>3. LogInv'
  BY <1>1, DepartKeepsLog
<1>4. ASSUME NEW e \in Daemon PROVE View(e)'
  <2>1. CASE e = d
    <3>1. log' \in Seq(Entry)
      BY <1>2 DEF GTypeOK
    <3> QED BY <1>1, <2>1, <3>1, DepartView
  <2>2. CASE e # d
    <3>1. View(e)
      BY <1>1 DEF ViewInv
    <3> QED BY <1>1, <2>2, <3>1, DepartOthers
  <2> QED BY <2>1, <2>2
<1> QED BY <1>2, <1>3, <1>4 DEF IndInv, ViewInv

\* So does dispatching an entry, if it leaves the dispatcher's view right.
LEMMA DispatchKeepsInv ==
  ASSUME IndInv, NEW d \in Daemon, NEW out \in Seq(Payload), DispatchStep(d, out),
         GTypeOK', View(d)',
         \A e \in Daemon \ {d} : /\ group_members'[e] = group_members[e]
                                 /\ total_members'[e] = total_members[e]
                                 /\ joined'[e] = joined[e]
  PROVE  IndInv'
<1>1. GTypeOK /\ LogInv /\ ViewInv
  BY DEF IndInv
<1>2. log' = Mcast(d, out) /\ cpg' = cpg /\ SamePhases
  BY DEF DispatchStep, SamePhases
<1>3. LogInv'
  BY <1>1, <1>2, QuietKeepsLog
<1>4. ASSUME NEW e \in Daemon, e # d PROVE View(e)'
  <2>1. pos'[e] = pos[e]
    BY <1>1, <1>4 DEF DispatchStep, Dispatched, GTypeOK
  <2>2. View(e)
    BY <1>1 DEF ViewInv
  <2> QED BY <1>1, <1>2, <1>4, <2>1, <2>2, QuietOthers
<1> QED BY <1>3, <1>4 DEF IndInv, ViewInv


\* Every step keeps the inductive invariant, if a node runs one daemon.
LEMMA StepKeepsInv ==
  ASSUME ~DupStart, IndInv, [GNext]_gvars
  PROVE  IndInv'
<1>0. GTypeOK /\ LogInv /\ ViewInv /\ GTypeOK'
  BY StepTyped DEF IndInv
<1>1. CASE UNCHANGED gvars
  <2>1. GTypeOK'
    BY <1>0
  <2>2. LogInv'
    BY <1>0, <1>1 DEF gvars, LogInv, Members, Joins, Leaves, Enters, Known,
      StillMember, Replaced, Index, JoinAt, ConfAt, LeftAt, EnterAt, MemberAt
  <2>3. ViewInv'
    BY <1>0, <1>1 DEF gvars, ViewInv, View, Progress, Sound, Complete, Fresh,
      Index, JoinAt, ConfAt, LeftAt, EnterAt
  <2> QED BY <2>1, <2>2, <2>3 DEF IndInv
<1>2. ASSUME NEW d \in Daemon, GStep(d) PROVE IndInv'
  <2>0. /\ log \in Seq(Entry) /\ <<>> \in Seq(Payload) /\ View(d)
        /\ log = Mcast(d, <<>>)
        /\ cpg \subseteq Daemon
        /\ d \in cpg <=> phase[d] \in {"cpg_init", "listening", "up"}
    BY <1>0, McastNothing DEF GTypeOK, ViewInv, LogInv, Members
  <2>1. CASE CpgJoin(d)
    <3>1. LogInv'
      BY <1>0, <2>1, EnterKeepsLog
    <3>2. View(d)'
      BY <1>0, <2>0, <2>1, EnterView
    <3>3. ASSUME NEW e \in Daemon, e # d PROVE View(e)'
      <4>1. log' = Append(log, ConfChg(cpg \cup {d}, {}, {d}))
        BY <2>1 DEF CpgJoin
      <4>2. /\ Len(log) \in Nat /\ Len(log)' = Len(log) + 1
            /\ \A i, x : JoinAt(i, x)' => JoinAt(i, x)
            /\ \A i, x : x # d => (JoinAt(i, x)' <=> JoinAt(i, x))
            /\ \A i, x : LeftAt(i, x)' <=> LeftAt(i, x)
            /\ \A i, x : EnterAt(i, x)' <=> EnterAt(i, x) \/ (i = Len(log) + 1 /\ x = d)
        BY <1>0, <2>0, <4>1, PositionTypes, ConfAppended
      <4>3. Len(log)' \in Nat /\ Len(log)' >= Len(log)
        BY <4>2
      <4>4. \A i \in Index : ~JoinAt(i, d)
        BY <1>0, <2>1 DEF CpgJoin, LogInv, Joins
      <4>5. /\ pos'[e] = pos[e] /\ group_members'[e] = group_members[e]
            /\ total_members'[e] = total_members[e] /\ joined'[e] = joined[e]
            /\ \A x \in Daemon : phase[x] # "off" => phase'[x] # "off"
            /\ phase'[e] = phase[e] /\ cpg' = cpg \cup {d}
        BY <1>0, <2>1, <3>3 DEF CpgJoin, GTypeOK, groupVars
      <4>6. View(e)
        BY <1>0 DEF ViewInv
      <4> QED BY <1>0, <2>0, <3>3, <4>2, <4>3, <4>4, <4>5, <4>6, OthersKeepView
    <3> QED BY <1>0, <3>1, <3>2, <3>3 DEF IndInv, ViewInv
  <2>2. CASE CpgInitAlone(d)
    <3>1. log' = Mcast(d, <<>>) /\ cpg' = cpg /\ SamePhases
      BY <1>0, <2>0, <2>2 DEF CpgInitAlone, SamePhases, GTypeOK
    <3>2. LogInv'
      BY <1>0, <2>0, <3>1, QuietKeepsLog
    <3>3. ASSUME NEW e \in Daemon PROVE View(e)'
      <4>1. View(e) /\ pos' = pos /\ group_members' = group_members
            /\ total_members' = total_members /\ joined' = joined
        BY <1>0, <2>2 DEF ViewInv, CpgInitAlone, groupVars
      <4> QED BY <1>0, <2>0, <3>1, <4>1, QuietOthers
    <3> QED BY <1>0, <3>2, <3>3 DEF IndInv, ViewInv
  <2>3. CASE CpgInitDuplicate(d) \/ StartFails(d) \/ DeleteForSelf(d) \/ Shutdown(d)
    <3>1. Depart(d, log) /\ d \in cpg
      BY <2>0, <2>3 DEF CpgInitDuplicate, StartFails, DeleteForSelf, Shutdown, HasNext
    <3> QED BY <2>0, <3>1, DepartKeepsInv
  <2>4. CASE send_join(d)
    <3>1. LogInv'
      BY <1>0, <2>4, SendJoinKeepsLog
    <3>2. ASSUME NEW e \in Daemon PROVE View(e)'
      <4>1. /\ Len(log) \in Nat /\ Len(log)' = Len(log) + 1
            /\ \A i, x : JoinAt(i, x)' <=> JoinAt(i, x) \/ (i = Len(log) + 1 /\ x = d)
            /\ \A i, x : LeftAt(i, x)' <=> LeftAt(i, x)
            /\ \A i, x : EnterAt(i, x)' <=> EnterAt(i, x)
        BY <1>0, <2>4, PositionTypes, JoinAppended DEF send_join
      <4>2. \A i \in Index : \A x : JoinAt(i, x)' <=> JoinAt(i, x)
        BY <4>1 DEF Index
      <4>3. Len(log)' \in Nat /\ Len(log)' >= Len(log)
        BY <4>1
      <4>4. /\ pos' = pos /\ group_members' = group_members
            /\ total_members' = total_members /\ joined' = joined
            /\ \A x \in Daemon : phase[x] # "off" => phase'[x] # "off"
            /\ phase'[e] # "up" => phase[e] # "up"
            /\ cpg' = cpg
        BY <1>0, <2>4 DEF send_join, GTypeOK, groupVars
      <4>5. View(e)
        BY <1>0 DEF ViewInv
      <4> QED BY <1>0, <2>0, <4>1, <4>2, <4>3, <4>4, <4>5, OthersKeepView
    <3> QED BY <1>0, <3>1, <3>2 DEF IndInv, ViewInv
  <2>5. CASE cpg_config_change(d, <<>>)
    <3>1. View(d)'
      BY <1>0, <2>0, <2>5, ConfEntryView
    <3>2. DispatchStep(d, <<>>)
      BY <2>5 DEF cpg_config_change, DispatchStep
    <3>3. \A e \in Daemon \ {d} : /\ group_members'[e] = group_members[e]
                                  /\ total_members'[e] = total_members[e]
                                  /\ joined'[e] = joined[e]
      BY <1>0, <2>5 DEF cpg_config_change, GTypeOK
    <3> QED BY <1>0, <2>0, <3>1, <3>2, <3>3, DispatchKeepsInv
  <2>6. CASE process_join(d)
    <3>1. View(d)'
      BY <1>0, <2>0, <2>6, JoinEntryView
    <3>2. DispatchStep(d, <<>>)
      BY <2>0, <2>6 DEF process_join, DispatchStep
    <3>3. \A e \in Daemon \ {d} : /\ group_members'[e] = group_members[e]
                                  /\ total_members'[e] = total_members[e]
                                  /\ joined'[e] = joined[e]
      BY <1>0, <2>6 DEF process_join, GTypeOK
    <3> QED BY <1>0, <2>0, <3>1, <3>2, <3>3, DispatchKeepsInv
  <2>7. CASE DeliverLost(d)
    <3>1. DispatchStep(d, <<>>) /\ UNCHANGED groupVars
      BY <2>0, <2>7 DEF DeliverLost, DispatchStep, groupVars
    <3>2. View(d)'
      BY <1>0, <2>0, <2>7, <3>1, OtherEntryView DEF DeliverLost
    <3>3. \A e \in Daemon \ {d} : /\ group_members'[e] = group_members[e]
                                  /\ total_members'[e] = total_members[e]
                                  /\ joined'[e] = joined[e]
      BY <3>1 DEF groupVars
    <3> QED BY <1>0, <2>0, <3>1, <3>2, <3>3, DispatchKeepsInv
  <2>8. CASE Crash(d)
    <3>1. PICK k \in Undelivered(d) : Depart(d, DropTail(d, k))
      BY <2>8 DEF Crash
    <3>2. d \in cpg
      BY <2>8 DEF Crash
    <3> QED BY <2>0, <3>1, <3>2, DropTailProperties, DepartKeepsInv
  <2> QED BY <1>2, <2>1, <2>2, <2>3, <2>4, <2>5, <2>6, <2>7, <2>8 DEF GStep, cpg_init, ConfigChange
<1> QED BY <1>1, <1>2 DEF GNext

-----------------------------------------------------------------------------
(***************************************************************************)
(* The initial states.                                                     *)
(***************************************************************************)

\* What the order of a formed group says: the i-th daemon entered at 2i-1
\* and sent its JOIN at 2i.
LEMMA InitLogSays ==
  ASSUME GInit
  PROVE  LET n == Len(InitGroup) IN
         /\ n \in Nat /\ Index = 1..2 * n
         /\ \A k, e : JoinAt(k, e) <=> \E i \in 1..n : k = 2 * i /\ e = InitGroup[i]
         /\ \A k : ConfAt(k) <=> \E i \in 1..n : k = 2 * i - 1
         /\ \A k, x : EnterAt(k, x) <=> \E i \in 1..n : k = 2 * i - 1 /\ x = InitGroup[i]
         /\ \A k, x : MemberAt(k, x) <=>
              \E i \in 1..n, j \in 1..n : k = 2 * i - 1 /\ j <= i /\ x = InitGroup[j]
         /\ \A k, x : ~LeftAt(k, x)
<1> DEFINE n    == Len(InitGroup)
           C(i) == ConfChg({InitGroup[j] : j \in 1..i}, {}, {InitGroup[i]})
<1>1. n \in Nat /\ log = InitLog /\ Len(log) = 2 * n
  BY GroupAssumption, LenProperties, InitLogProperties DEF GInit
<1>2. \A k \in 1..2 * n : \E i \in 1..n : k = 2 * i \/ k = 2 * i - 1
  <2>1. ASSUME NEW k \in 1..2 * n PROVE \E i \in 1..n : k = 2 * i \/ k = 2 * i - 1
    <3>1. (k + 1) \div 2 \in 1..n
      BY <1>1
    <3>2. k = 2 * ((k + 1) \div 2) \/ k = 2 * ((k + 1) \div 2) - 1
      BY <1>1
    <3> QED BY <3>1, <3>2
  <2> QED BY <2>1
<1>3. ASSUME NEW i \in 1..n
      PROVE  /\ 2 * i \in 1..2 * n /\ log[2 * i] = JoinMsg(InitGroup[i])
             /\ 2 * i - 1 \in 1..2 * n /\ log[2 * i - 1] = C(i)
  <2>1. i \in Nat /\ 2 * i \in 1..2 * n /\ 2 * i - 1 \in 1..2 * n
    BY <1>1
  <2>2. (2 * i + 1) \div 2 = i /\ (2 * i) % 2 = 0
    BY <2>1
  <2>3. ((2 * i - 1) + 1) \div 2 = i /\ (2 * i - 1) % 2 = 1
    BY <2>1
  <2>4. ASSUME NEW k \in 1..2 * n
        PROVE  log[k] = IF k % 2 = 1 THEN C((k + 1) \div 2)
                                     ELSE JoinMsg(InitGroup[(k + 1) \div 2])
    BY <1>1 DEF InitLog
  <2> HIDE DEF C
  <2>5. log[2 * i] = JoinMsg(InitGroup[i])
    BY <2>1, <2>2, <2>4
  <2>6. log[2 * i - 1] = C(i)
    BY <2>1, <2>3, <2>4
  <2> QED BY <2>1, <2>5, <2>6
<1>4. /\ \A i \in 1..n : JoinMsg(InitGroup[i]).request = "JOIN"
                         /\ JoinMsg(InitGroup[i]).from = InitGroup[i]
      /\ \A i \in 1..n : /\ C(i).request = "CONFCHG" /\ C(i).left = {}
                         /\ C(i).join = {InitGroup[i]}
                         /\ C(i).members = {InitGroup[j] : j \in 1..i}
  BY DEF JoinMsg, ConfChg
<1> HIDE DEF C
<1>5. \A k, e : JoinAt(k, e) <=> \E i \in 1..n : k = 2 * i /\ e = InitGroup[i]
  <2>1. ASSUME NEW k, NEW e, JoinAt(k, e)
        PROVE  \E i \in 1..n : k = 2 * i /\ e = InitGroup[i]
    <3>1. PICK i \in 1..n : k = 2 * i \/ k = 2 * i - 1
      BY <1>1, <1>2, <2>1 DEF JoinAt
    <3>2. k = 2 * i
      <4>1. log[2 * i - 1].request = "CONFCHG"
        BY <1>3, <1>4
      <4> QED BY <2>1, <3>1, <4>1 DEF JoinAt
    <3>3. log[k].from = InitGroup[i]
      BY <1>3, <1>4, <3>2
    <3> QED BY <2>1, <3>2, <3>3 DEF JoinAt
  <2>2. ASSUME NEW i \in 1..n PROVE JoinAt(2 * i, InitGroup[i])
    BY <1>1, <1>3, <1>4 DEF JoinAt
  <2> QED BY <2>1, <2>2
<1>6. \A k : ConfAt(k) <=> \E i \in 1..n : k = 2 * i - 1
  <2>1. ASSUME NEW k, ConfAt(k) PROVE \E i \in 1..n : k = 2 * i - 1
    <3>1. PICK i \in 1..n : k = 2 * i \/ k = 2 * i - 1
      BY <1>1, <1>2, <2>1 DEF ConfAt
    <3>2. log[2 * i].request = "JOIN"
      BY <1>3, <1>4
    <3> QED BY <2>1, <3>1, <3>2 DEF ConfAt
  <2>2. ASSUME NEW i \in 1..n PROVE ConfAt(2 * i - 1)
    BY <1>1, <1>3, <1>4 DEF ConfAt
  <2> QED BY <2>1, <2>2
<1>7. \A k, x : EnterAt(k, x) <=> \E i \in 1..n : k = 2 * i - 1 /\ x = InitGroup[i]
  BY <1>3, <1>4, <1>6 DEF EnterAt
<1>8. \A k, x : MemberAt(k, x) <=>
        \E i \in 1..n, j \in 1..n : k = 2 * i - 1 /\ j <= i /\ x = InitGroup[j]
  <2>1. \A i \in 1..n : \A x : x \in C(i).members <=>
          \E j \in 1..n : j <= i /\ x = InitGroup[j]
    BY <1>1, <1>4
  <2> QED BY <1>3, <1>6, <2>1 DEF MemberAt
<1>9. \A k, x : ~LeftAt(k, x)
  BY <1>3, <1>4, <1>6 DEF LeftAt
<1> HIDE DEF n
<1>10. Index = 1..2 * n
  BY <1>1 DEF Index
<1> QED BY <1>1, <1>5, <1>6, <1>7, <1>8, <1>9, <1>10 DEF n


\* A group already formed, or an empty one, satisfies the invariant.
LEMMA InitInv ==
  ASSUME GInit
  PROVE  IndInv
<1> DEFINE n == Len(InitGroup)
<1>1. GTypeOK
  BY InitTyped
<1>2. /\ n \in Nat /\ Index = 1..2 * n
      /\ \A k, e : JoinAt(k, e) <=> \E i \in 1..n : k = 2 * i /\ e = InitGroup[i]
      /\ \A k : ConfAt(k) <=> \E i \in 1..n : k = 2 * i - 1
      /\ \A k, x : EnterAt(k, x) <=> \E i \in 1..n : k = 2 * i - 1 /\ x = InitGroup[i]
      /\ \A k, x : MemberAt(k, x) <=>
           \E i \in 1..n, j \in 1..n : k = 2 * i - 1 /\ j <= i /\ x = InitGroup[j]
      /\ \A k, x : ~LeftAt(k, x)
  BY InitLogSays
<1>3. /\ \A i \in 1..n : InitGroup[i] \in Daemon /\ InitGroup[i] \in cpg
      /\ \A x : x \in cpg <=> \E i \in 1..n : x = InitGroup[i]
      /\ \A i, j \in 1..n : NodeOf[InitGroup[i]] = NodeOf[InitGroup[j]] => i = j
  <2>1. DOMAIN InitGroup = 1..n /\ \A i \in 1..n : InitGroup[i] \in Daemon
    BY GroupAssumption, LenProperties, ElementOfSeq
  <2> QED BY <2>1, GroupAssumption DEF GInit, Range
<1>4. /\ \A x \in Daemon : phase[x] = IF x \in cpg THEN "up" ELSE "off"
      /\ \A x \in Daemon : pos[x] = IF x \in cpg THEN 2 * n ELSE 0
      /\ \A x \in Daemon : group_members[x] = IF x \in cpg THEN InitGroup ELSE <<>>
      /\ \A x \in Daemon : total_members[x] = IF x \in cpg THEN n + 1 ELSE 0
      /\ \A x \in Daemon : joined[x] <=> x \in cpg
  BY DEF GInit
<1>5. Len(log) = 2 * n
  BY InitLogProperties DEF GInit
<1> HIDE DEF n
<1>6. LogInv
  <2>1. Members
    BY <1>3, <1>4 DEF Members
  <2>2. Joins
    BY <1>2, <1>3, <1>4, SMTT(20) DEF Joins
  <2>3. Leaves /\ Replaced
    BY <1>2 DEF Leaves, Replaced
  <2>4. Enters
    BY <1>2, <1>3 DEF Enters
  <2>5. Known
    <3>1. ASSUME NEW x \in cpg PROVE \E k \in Index : EnterAt(k, x)
      <4>1. PICK i \in 1..n : x = InitGroup[i]
        BY <1>3
      <4>2. 2 * i - 1 \in Index
        BY <1>2
      <4> QED BY <1>2, <4>1, <4>2
    <3>2. \A x \in Daemon : phase[x] # "gone"
      BY <1>4
    <3>3. \A x \in Daemon, k \in Index : MemberAt(k, x) => phase[x] # "off"
      BY <1>2, <1>3, <1>4
    <3> QED BY <3>1, <3>2, <3>3 DEF Known
  <2>6. StillMember
    <3>1. ASSUME NEW e \in cpg, NEW i \in Index, NEW k \in Index,
                 JoinAt(i, e), ConfAt(k), i < k
          PROVE  MemberAt(k, e)
      <4>1. PICK a \in 1..n : i = 2 * a /\ e = InitGroup[a]
        BY <1>2, <3>1
      <4>2. PICK b \in 1..n : k = 2 * b - 1
        BY <1>2, <3>1
      <4>3. a <= b
        BY <1>2, <3>1, <4>1, <4>2
      <4> QED BY <1>2, <4>1, <4>2, <4>3
    <3> QED BY <3>1 DEF StillMember
  <2> QED BY <2>1, <2>2, <2>3, <2>4, <2>5, <2>6 DEF LogInv
<1>7. ASSUME NEW d \in Daemon, d \notin cpg PROVE View(d)
  <2>1. /\ group_members[d] = <<>> /\ ~joined[d] /\ total_members[d] = 0
        /\ pos[d] = 0 /\ Len(log) \in Nat
    BY <1>2, <1>4, <1>5, <1>7
  <2>2. (\A x : ~Has(<<>>, x)) /\ NoDuplicates(<<>>)
    BY DEF Has, NoDuplicates
  <2>3. Progress(d)
    BY <1>7, <2>1 DEF Progress, Fresh
  <2>4. Sound(d)
    BY <2>1, <2>2 DEF Sound
  <2>5. Complete(d)
    BY <2>1 DEF Complete
  <2> QED BY <2>3, <2>4, <2>5 DEF View
<1>8. ASSUME NEW d \in Daemon, d \in cpg PROVE View(d)
  <2>1. /\ group_members[d] = InitGroup /\ joined[d] /\ total_members[d] = n + 1
        /\ pos[d] = 2 * n /\ phase[d] = "up" /\ Len(InitGroup) = n
    BY <1>4, <1>8 DEF n
  <2>2. \A x : Has(InitGroup, x) <=> x \in cpg
    BY <1>3, <2>1 DEF Has
  <2>3. NoDuplicates(InitGroup)
    BY <1>3, <2>1 DEF NoDuplicates
  <2>4. Progress(d)
    <3>1. \A m \in Index : m <= pos[d]
      BY <1>2, <2>1
    <3> QED BY <1>2, <1>5, <2>1, <3>1 DEF Progress
  <2>5. Sound(d)
    <3>1. PICK i \in 1..n : d = InitGroup[i]
      BY <1>3, <1>8
    <3>2. JoinAt(2 * i, d) /\ 2 * i \in Index /\ 2 * i <= pos[d]
      BY <1>2, <2>1, <3>1
    <3>3. \A x \in Daemon : x \in cpg =>
            phase[x] # "off" /\ (NodeOf[x] = NodeOf[d] => x = d)
      BY <1>4, <1>6, <1>8 DEF LogInv, Members
    <3> QED BY <1>2, <1>8, <2>1, <2>2, <2>3, <3>2, <3>3 DEF Sound
  <2>6. Complete(d)
    <3>1. ASSUME NEW e \in cpg, NEW i \in Index, NEW j \in Index,
                 JoinAt(i, e), JoinAt(j, d), i < j
          PROVE  Precedes(InitGroup, e, d)
      <4>1. PICK a \in 1..n : i = 2 * a /\ e = InitGroup[a]
        BY <1>2, <3>1
      <4>2. PICK b \in 1..n : j = 2 * b /\ d = InitGroup[b]
        BY <1>2, <3>1
      <4>3. a < b
        BY <1>2, <3>1, <4>1, <4>2
      <4> QED BY <2>1, <4>1, <4>2, <4>3 DEF Precedes
    <3> QED BY <2>1, <2>2, <3>1 DEF Complete
  <2> QED BY <2>4, <2>5, <2>6 DEF View
<1> QED BY <1>1, <1>6, <1>7, <1>8 DEF IndInv, ViewInv

-----------------------------------------------------------------------------
(***************************************************************************)
(* What the invariant gives.                                               *)
(***************************************************************************)

\* Of two daemons that list themselves first, the later to join knows the
\* earlier one and has it further up.
LEMMA InvGivesOneOldest ==
  ASSUME IndInv
  PROVE  AtMostOneOldest
<1>0. GTypeOK /\ LogInv /\ ViewInv
  BY DEF IndInv
\* A daemon that is its own oldest is a member, and its own first.
<1>1. ASSUME NEW d \in Daemon, SelfOldest(d)
      PROVE  /\ d \in cpg /\ total_members[d] # 0
             /\ 1 \in 1..Len(group_members[d]) /\ group_members[d][1] = d
             /\ NoDuplicates(group_members[d])
             /\ \E j \in Index : j <= pos[d] /\ JoinAt(j, d)
  <2>1. View(d) /\ joined[d] /\ group_members[d] \in Seq(Daemon)
        /\ group_members[d] # <<>>
    BY <1>0, <1>1 DEF ViewInv, SelfOldest, GTypeOK
  <2>2. total_members[d] # 0
    BY <2>1 DEF View, Progress, Fresh
  <2>3. phase[d] = "up"
    BY <2>1, <2>2 DEF View, Progress
  <2>4. d \in cpg
    BY <1>0, <2>3 DEF LogInv, Members
  <2>5. 1 \in 1..Len(group_members[d]) /\ Head(group_members[d]) = group_members[d][1]
    BY <2>1, EmptySeq, LenProperties
  <2>6. group_members[d][1] \in Daemon /\ Has(group_members[d], group_members[d][1])
    BY <2>1, <2>5, ElementOfSeq DEF Has
  <2>7. group_members[d][1] = d
    BY <1>1, <2>1, <2>5, <2>6 DEF View, Sound, SelfOldest
  <2> QED BY <2>1, <2>2, <2>4, <2>5, <2>7 DEF View, Sound
\* So nobody whose JOIN came first is its own oldest as well.
<1>2. ASSUME NEW d \in Daemon, SelfOldest(d), NEW e \in Daemon, SelfOldest(e),
             NEW i \in Index, JoinAt(i, d),
             NEW j \in Index, JoinAt(j, e), j <= pos[e], i < j
      PROVE  FALSE
  <2>1. pos[e] \in Nat /\ i \in Nat /\ j \in Nat /\ Len(log) \in Nat
    BY <1>0, LenProperties DEF GTypeOK, Index
  <2>2. i <= pos[e]
    BY <1>2, <2>1
  <2>3. d \in cpg /\ total_members[e] # 0 /\ View(e)
    BY <1>0, <1>1, <1>2 DEF ViewInv
  <2>4. Precedes(group_members[e], d, e)
    BY <1>2, <2>2, <2>3 DEF View, Complete
  <2>5. PICK a, b \in 1..Len(group_members[e]) : a < b /\ group_members[e][b] = e
    BY <2>4 DEF Precedes
  <2>6. b = 1
    BY <1>1, <1>2, <2>5 DEF NoDuplicates
  <2> QED BY <2>5, <2>6
<1>3. ASSUME NEW d \in Daemon, SelfOldest(d), NEW e \in Daemon, SelfOldest(e)
      PROVE  d = e
  <2>1. PICK i \in Index : i <= pos[d] /\ JoinAt(i, d)
    BY <1>1, <1>3
  <2>2. PICK j \in Index : j <= pos[e] /\ JoinAt(j, e)
    BY <1>1, <1>3
  <2>3. i \in Nat /\ j \in Nat
    BY <1>0, LenProperties DEF Index, GTypeOK
  <2>4. i = j => d = e
    BY <1>0, <2>1, <2>2, PositionTypes
  <2>5. ~(i < j) /\ ~(j < i)
    BY <1>2, <1>3, <2>1, <2>2
  <2> QED BY <2>3, <2>4, <2>5
<1> QED BY <1>3 DEF AtMostOneOldest

\* The rest is part of the invariant.
LEMMA InvGivesListed ==
  ASSUME IndInv
  PROVE  JoinedIsListed /\ CountCoversList
<1>1. ASSUME NEW d \in Daemon
      PROVE  /\ joined[d] => d \in Range(group_members[d])
             /\ IsInjective(group_members[d])
             /\ total_members[d] # 0 => total_members[d] > Len(group_members[d])
  <2>1. View(d) /\ DOMAIN group_members[d] = 1..Len(group_members[d])
    BY LenProperties DEF IndInv, ViewInv, GTypeOK
  <2>2. joined[d] => d \in Range(group_members[d])
    BY <2>1 DEF View, Sound, Has, Range
  <2>3. IsInjective(group_members[d])
    BY <2>1 DEF View, Sound, NoDuplicates, IsInjective
  <2> QED BY <2>1, <2>2, <2>3 DEF View, Progress
<1> QED BY <1>1 DEF JoinedIsListed, CountCoversList

(***************************************************************************)
(* IndInv holds in every run in which a node runs one daemon at a time:    *)
(* what cpg_config_change and process_join keep true of every daemon's     *)
(* list, wherever it stands in the agreed order.                           *)
(***************************************************************************)
THEOREM Inductive ==
  ASSUME ~DupStart
  PROVE  GSpec => []IndInv
<1>1. GInit => IndInv
  BY InitInv
<1>2. IndInv /\ [GNext]_gvars => IndInv'
  BY StepKeepsInv
<1> QED BY <1>1, <1>2, PTL DEF GSpec

(***************************************************************************)
(* For any cluster, any group it starts from and any order of starts,      *)
(* stops, crashes and dispatches: no two daemons take themselves for the   *)
(* oldest (get_oldest_node) at the same time, if a node runs one daemon.   *)
(***************************************************************************)
THEOREM OneOldest ==
  ASSUME ~DupStart
  PROVE  GSpec => []AtMostOneOldest
<1>1. GSpec => []IndInv
  BY Inductive
<1>2. IndInv => AtMostOneOldest
  BY InvGivesOneOldest
<1> QED BY <1>1, <1>2, PTL

(***************************************************************************)
(* And a daemon that has seen its own JOIN has itself on its list, once:   *)
(* get_oldest_node never reads the head of an empty group_members.         *)
(***************************************************************************)
THEOREM OldestDefined ==
  ASSUME ~DupStart
  PROVE  GSpec => []JoinedIsListed
<1>1. GSpec => []IndInv
  BY Inductive
<1>2. IndInv => JoinedIsListed
  BY InvGivesListed
<1> QED BY <1>1, <1>2, PTL

(***************************************************************************)
(* And total_members stays above the length of the list, so it does not    *)
(* reach 0 again and cpg_config_change sets up the initial list once.      *)
(***************************************************************************)
THEOREM SetupOnce ==
  ASSUME ~DupStart
  PROVE  GSpec => []CountCoversList
<1>1. GSpec => []IndInv
  BY Inductive
<1>2. IndInv => CountCoversList
  BY InvGivesListed
<1> QED BY <1>1, <1>2, PTL

-----------------------------------------------------------------------------
(***************************************************************************)
(* Lock traffic does not disturb the invariant of GroupInv.                *)
(***************************************************************************)

\* A handler of a lock message, or of the client socket, keeps it.
LEMMA TrafficKeepsInv ==
  ASSUME IndInv, NEW d \in Daemon, NEW out \in Seq(Payload),
         DeliverApp(d, out) \/ Send(d, out)
  PROVE  IndInv'
<1>0. GTypeOK /\ LogInv /\ ViewInv /\ View(d)
  BY DEF IndInv, ViewInv
<1>1. /\ log' = Mcast(d, out) /\ cpg' = cpg /\ phase' = phase
      /\ group_members' = group_members /\ total_members' = total_members
      /\ joined' = joined /\ UNCHANGED groupVars
  BY DEF DeliverApp, Send, groupVars
<1>2. log' \in Seq(Entry)
  BY <1>0, <1>1, McastProperties DEF GTypeOK
<1>3. pos' \in [Daemon -> Nat]
  BY <1>0 DEF DeliverApp, Send, Dispatched, GTypeOK
<1>4. GTypeOK'
  BY <1>0, <1>1, <1>2, <1>3 DEF GTypeOK
<1>5. CASE DeliverApp(d, out)
  <2>1. DispatchStep(d, out)
    BY <1>5 DEF DeliverApp, DispatchStep
  <2>2. View(d)'
    BY <1>0, <1>1, <1>5, <2>1, OtherEntryView DEF DeliverApp
  <2>3. \A e \in Daemon \ {d} : /\ group_members'[e] = group_members[e]
                                /\ total_members'[e] = total_members[e]
                                /\ joined'[e] = joined[e]
    BY <1>1
  <2> QED BY <1>4, <2>1, <2>2, <2>3, DispatchKeepsInv
<1>6. CASE Send(d, out)
  <2>1. SamePhases
    BY <1>1 DEF SamePhases
  <2>2. LogInv'
    BY <1>0, <1>1, <2>1, QuietKeepsLog
  <2>3. ASSUME NEW e \in Daemon PROVE View(e)'
    <3>1. View(e) /\ pos' = pos
      BY <1>0, <1>6 DEF ViewInv, Send
    <3> QED BY <1>0, <1>1, <2>1, <3>1, QuietOthers
  <2> QED BY <1>4, <2>2, <2>3 DEF IndInv, ViewInv
<1> QED BY <1>5, <1>6

\* A configuration change keeps it, whatever del_node multicasts.
LEMMA ConfKeepsInv ==
  ASSUME IndInv, NEW d \in Daemon, NEW out \in Seq(Payload), cpg_config_change(d, out)
  PROVE  IndInv'
<1>0. GTypeOK /\ LogInv /\ ViewInv /\ View(d)
  BY DEF IndInv, ViewInv
<1>1. GTypeOK'
  BY <1>0, ConfigChangeTyped
<1>2. View(d)'
  BY <1>0, ConfEntryView
<1>3. DispatchStep(d, out)
  BY DEF cpg_config_change, DispatchStep
<1>4. \A e \in Daemon \ {d} : /\ group_members'[e] = group_members[e]
                              /\ total_members'[e] = total_members[e]
                              /\ joined'[e] = joined[e]
  BY <1>0 DEF cpg_config_change, GTypeOK
<1> QED BY <1>1, <1>2, <1>3, <1>4, DispatchKeepsInv

\* So every step of the membership layer under a lock protocol keeps it.
LEMMA MoveKeepsInv ==
  ASSUME ~DupStart, IndInv, NEW d \in Daemon, NEW out \in Seq(Payload), GMove(d, out)
  PROVE  IndInv'
<1>1. GStep(d) => GNext
  BY DEF GNext
<1> QED BY <1>1, StepKeepsInv, ConfKeepsInv, TrafficKeepsInv DEF GMove

-----------------------------------------------------------------------------
(***************************************************************************)
(* The order of the lists.                                                 *)
(***************************************************************************)

\* Who dispatches nothing keeps an ordered list.
LEMMA OrderOthers ==
  ASSUME IndInv, NEW e \in Daemon, Ordered(e),
         pos'[e] = pos[e], group_members'[e] = group_members[e],
         Len(log)' \in Nat,
         \A i \in Index, x \in Daemon : JoinAt(i, x)' => JoinAt(i, x),
         cpg' \subseteq Daemon,
         \A y \in cpg', j \in Index : JoinAt(j, y) => y \in cpg
  PROVE  Ordered(e)'
<1>1. pos[e] \in Nat /\ pos[e] <= Len(log) /\ Len(log) \in Nat
  BY LenProperties DEF IndInv, GTypeOK, ViewInv, View, Progress
<1>2. ASSUME NEW y \in cpg', NEW i \in Index', NEW j \in Index',
             JoinAt(i, e)', JoinAt(j, y)', i < j, j <= pos'[e]
      PROVE  Precedes(group_members'[e], e, y)
  <2>1. i \in Index /\ j \in Index
    BY <1>1, <1>2 DEF Index
  <2>2. JoinAt(i, e) /\ JoinAt(j, y)
    BY <1>2, <2>1
  <2> QED BY <1>2, <2>1, <2>2 DEF Ordered
<1> QED BY <1>2 DEF Ordered

\* Dispatching an entry keeps the dispatcher's list ordered, if it keeps
\* what precedes what and a JOIN puts its sender behind the dispatcher.
LEMMA OrderDispatch ==
  ASSUME IndInv, NEW d \in Daemon, Ordered(d), NEW out \in Seq(Payload),
         DispatchStep(d, out),
         \A y \in cpg, i, j \in Index :
           /\ JoinAt(i, d) /\ JoinAt(j, y) /\ i < j /\ j <= pos[d]
           /\ Precedes(group_members[d], d, y)
           => Precedes(group_members'[d], d, y),
         \A y \in cpg, i \in Index :
           JoinAt(i, d) /\ i <= pos[d] /\ JoinAt(pos[d] + 1, y)
           => Precedes(group_members'[d], d, y)
  PROVE  Ordered(d)'
<1>1. GTypeOK /\ LogInv /\ View(d)
  BY DEF IndInv, ViewInv
<1>2. /\ pos[d] \in Nat /\ pos'[d] = pos[d] + 1 /\ cpg' = cpg
      /\ \A i \in Index' : i <= pos'[d] => i \in Index
      /\ \A i, e : JoinAt(i, e)' <=> JoinAt(i, e)
      /\ Index \subseteq Nat /\ Index' \subseteq Nat
  BY <1>1, DispatchFacts, PositionTypes DEF Index
<1>3. ASSUME NEW y \in cpg', NEW i \in Index', NEW j \in Index',
             JoinAt(i, d)', JoinAt(j, y)', i < j, j <= pos'[d]
      PROVE  Precedes(group_members'[d], d, y)
  <2>1. i \in Index /\ j \in Index /\ JoinAt(i, d) /\ JoinAt(j, y) /\ y \in cpg
    BY <1>2, <1>3
  <2>2. i <= pos[d] /\ (j <= pos[d] \/ j = pos[d] + 1)
    BY <1>2, <1>3, <2>1
  <2> QED BY <1>3, <2>1, <2>2 DEF Ordered
<1> QED BY <1>3 DEF Ordered

\* A listed daemon of the node of a JOIN's sender is the sender, if that is
\* still a member.
LEMMA ListedIsSender ==
  ASSUME IndInv, NEW d \in Daemon, NEW x \in cpg, NEW y \in Daemon,
         Has(group_members[d], y), NodeOf[y] = NodeOf[x],
         pos[d] + 1 \in Index, JoinAt(pos[d] + 1, x)
  PROVE  y = x
<1>0. GTypeOK /\ LogInv /\ View(d) /\ x \in Daemon
  BY DEF IndInv, ViewInv, GTypeOK
<1> SUFFICES ASSUME y # x PROVE FALSE
  OBVIOUS
<1>1. y \notin cpg /\ phase[y] # "off"
  BY <1>0 DEF LogInv, Members, View, Sound
<1>2. phase[y] = "gone"
  BY <1>0, <1>1 DEF LogInv, Members, GTypeOK, Phase
<1>3. PICK k \in Index : LeftAt(k, y)
  BY <1>0, <1>2 DEF LogInv, Known
<1>4. PICK m \in Index : EnterAt(m, x)
  BY <1>0 DEF LogInv, Known
<1>5. k < m
  BY <1>0, <1>3, <1>4 DEF LogInv, Replaced
<1>6. m < pos[d] + 1
  BY <1>0, <1>4 DEF LogInv, Joins
<1>7. ~(k <= pos[d])
  BY <1>0, <1>3 DEF View, Sound
<1>8. k \in Nat /\ m \in Nat /\ pos[d] \in Nat
  BY <1>0, PositionTypes DEF Index, GTypeOK
<1> QED BY <1>5, <1>6, <1>7, <1>8

\* process_join puts the sender behind whoever has dispatched its own JOIN.
LEMMA OrderJoin ==
  ASSUME IndInv, NEW d \in Daemon, Ordered(d), process_join(d)
  PROVE  Ordered(d)'
<1> DEFINE q    == pos[d] + 1
           x    == NextEntry(d).from
           list == group_members[d]
           i    == ListedAt(list, x)
<1>0. GTypeOK /\ LogInv /\ View(d)
  BY DEF IndInv, ViewInv
<1>1. DispatchStep(d, <<>>) /\ <<>> \in Seq(Payload)
  BY <1>0, McastNothing DEF process_join, DispatchStep
<1>2. /\ d \in cpg /\ pos[d] \in Nat /\ q \in Index /\ Index \subseteq Nat
      /\ total_members[d] = 0 => EnterAt(q, d)
  BY <1>0, <1>1, DispatchFacts, PositionTypes DEF Index
<1>3. JoinAt(q, x)
  BY <1>2 DEF process_join, JoinAt, NextEntry, Index
<1>4. /\ x \in Daemon /\ list \in Seq(Daemon) /\ total_members[d] # 0
      /\ \A y : JoinAt(q, y) => y = x
  BY <1>0, <1>2, <1>3, PositionTypes DEF GTypeOK
<1>5. NoDuplicates(list)
  BY <1>0 DEF View, Sound
<1>6. \A k \in Index : JoinAt(k, x) => k = q
  BY <1>0, <1>2, <1>3, <1>4 DEF LogInv, Joins
<1>7. \A k \in Index : JoinAt(k, d) /\ k <= pos[d] => Has(list, d)
  BY <1>0, <1>2, <1>4 DEF View, Complete
<1>8. \A y \in cpg, k, j \in Index :
        JoinAt(k, d) /\ JoinAt(j, y) /\ k < j /\ j <= pos[d] => y # x /\ d # x
  <2>1. ASSUME NEW y \in cpg, NEW k \in Index, NEW j \in Index,
               JoinAt(k, d), JoinAt(j, y), k < j, j <= pos[d]
        PROVE  y # x /\ d # x
    <3>1. k # q /\ j # q
      BY <1>2, <2>1
    <3> QED BY <1>6, <2>1, <3>1
  <2> QED BY <2>1
<1> HIDE DEF q
<1>9. CASE i = 0
  <2>1. group_members'[d] = Append(list, x)
    BY <1>0, <1>9 DEF process_join, GTypeOK
  <2> HIDE DEF i, x
  <2>2. /\ \A y, z : Precedes(list, y, z) => Precedes(group_members'[d], y, z)
        /\ \A y : Has(list, y) => Precedes(group_members'[d], y, x)
    BY <1>4, <2>1, AppendOrder
  <2> QED BY <1>1, <1>4, <1>7, <2>2, OrderDispatch DEF q
<1>10. CASE i # 0
  <2>1. i \in 1..Len(list) /\ NodeOf[list[i]] = NodeOf[x] /\ list[i] \in Daemon
    BY <1>4, <1>10, ListedAtProperties, ElementOfSeq
  <2>2. group_members'[d] = IF list[i] = x THEN MoveToTail(list, i) ELSE list
    BY <1>0, <1>10 DEF process_join, GTypeOK
  <2>3. x \in cpg => list[i] = x
    <3>1. Has(list, list[i])
      BY <2>1 DEF Has
    <3> HIDE DEF i, x
    <3> QED BY <1>2, <1>3, <2>1, <3>1, ListedIsSender DEF q
  <2> HIDE DEF i, x
  <2>4. \A y, z : Precedes(list, y, z) /\ y # x /\ z # x
                    => Precedes(group_members'[d], y, z)
    BY <1>4, <1>5, <2>1, <2>2, MoveOrder
  <2>5. ASSUME x \in cpg, x # d, Has(list, d) PROVE Precedes(group_members'[d], d, x)
    <3>1. group_members'[d] = MoveToTail(list, i) /\ list[i] = x
      BY <2>2, <2>3, <2>5
    <3>2. RemoveAt(list, i) \in Seq(Daemon) /\ Has(RemoveAt(list, i), d)
      BY <1>4, <1>5, <2>1, <2>5, <3>1, RemoveOrder
    <3>3. Precedes(Append(RemoveAt(list, i), x), d, x)
      BY <1>4, <3>2, AppendOrder
    <3> QED BY <3>1, <3>3 DEF MoveToTail
  <2>6. \A k \in Index : JoinAt(k, d) /\ k <= pos[d] => x # d
    BY <1>2, <1>6 DEF q
  <2> QED BY <1>1, <1>4, <1>7, <1>8, <2>4, <2>5, <2>6, OrderDispatch DEF q
<1> QED BY <1>9, <1>10

\* cpg_config_change takes somebody off the list and moves nobody.
LEMMA OrderConf ==
  ASSUME IndInv, NEW d \in Daemon, Ordered(d), NEW out \in Seq(Payload),
         cpg_config_change(d, out)
  PROVE  Ordered(d)'
<1> DEFINE q == pos[d] + 1
           c == NextEntry(d)
<1>0. GTypeOK /\ LogInv /\ View(d)
  BY DEF IndInv, ViewInv
<1>1. DispatchStep(d, out)
  BY DEF cpg_config_change, DispatchStep
<1>2. /\ d \in cpg /\ d \in Daemon /\ cpg \subseteq Daemon
      /\ pos[d] \in Nat /\ q \in Index /\ Index \subseteq Nat
      /\ total_members[d] = 0 => EnterAt(q, d)
  BY <1>0, <1>1, DispatchFacts, PositionTypes DEF Index
<1>3. ConfAt(q) /\ \A y : LeftAt(q, y) <=> y \in c.left
  BY <1>2 DEF cpg_config_change, ConfAt, LeftAt, NextEntry, Index
<1>4. \A y : ~JoinAt(q, y)
  BY <1>0, <1>3, PositionTypes
<1>5. \A y \in cpg : y \notin c.left
  <2>1. \A y \in cpg : phase[y] # "gone"
    BY <1>0, <1>2 DEF LogInv, Members
  <2> QED BY <1>0, <1>2, <1>3, <2>1 DEF LogInv, Leaves
<1>6. CASE total_members[d] = 0
  <2>1. \A k \in Index : JoinAt(k, d) => q < k
    BY <1>0, <1>2, <1>6 DEF LogInv, Joins
  <2>2. \A k, j \in Index : ~(JoinAt(k, d) /\ k < j /\ j <= pos[d])
    BY <1>2, <2>1
  <2> QED BY <1>1, <1>4, <2>2, OrderDispatch
<1>7. CASE total_members[d] # 0
  <2> DEFINE list == group_members[d]
  <2>1. list \in Seq(Daemon) /\ NoDuplicates(list)
    BY <1>0 DEF GTypeOK, View, Sound
  <2>2. group_members'[d] = ListAfterLeave(list, c)
    BY <1>0, <1>7 DEF cpg_config_change, ListAfterSetup, GTypeOK
  <2> HIDE DEF c, q
  <2>3. ASSUME NEW y \in cpg, Precedes(list, d, y)
        PROVE  Precedes(group_members'[d], d, y)
    <3>1. CASE Leavers(list, c) = {}
      BY <2>1, <2>2, <2>3, <3>1, ListAfterLeaveProperties
    <3>2. CASE Leavers(list, c) # {}
      <4>1. PICK i \in 1..Len(list) :
              list[i] \in c.left /\ ListAfterLeave(list, c) = RemoveAt(list, i)
        BY <2>1, <3>2, ListAfterLeaveProperties
      <4>2. list[i] # d /\ list[i] # y
        BY <1>2, <1>5, <4>1
      <4> QED BY <2>1, <2>2, <2>3, <4>1, <4>2, RemoveOrder
    <3> QED BY <3>1, <3>2
  <2> QED BY <1>1, <1>4, <2>3, OrderDispatch DEF q
<1> QED BY <1>6, <1>7

\* A departure leaves the lists and their order alone.
LEMMA OrderDepart ==
  ASSUME IndInv, OrderInv, NEW d \in Daemon, d \in cpg,
         NEW lg \in Seq(Entry), Len(lg) = Len(log),
         \A i \in 1..Len(log) :
           \/ lg[i] = log[i]
           \/ /\ lg[i] = Lost
              /\ log[i].request \in {"JOIN", "APP"}
              /\ log[i].from = d,
         Depart(d, lg)
  PROVE  OrderInv'
<1>0. GTypeOK /\ LogInv /\ ViewInv
  BY DEF IndInv
<1>1. log' = Append(lg, ConfChg(cpg \ {d}, {d}, {}))
  BY DEF Depart
<1>2. /\ Len(log) \in Nat /\ Len(log)' = Len(log) + 1
      /\ \A i, x : JoinAt(i, x)' => JoinAt(i, x)
      /\ \A i, x : x # d => (JoinAt(i, x)' <=> JoinAt(i, x))
  BY <1>0, <1>1, PositionTypes, ConfAppended
<1>3. /\ cpg' = cpg \ {d} /\ cpg \subseteq Daemon /\ pos'[d] = 0
      /\ \A e \in Daemon : e # d =>
           /\ pos'[e] = pos[e] /\ group_members'[e] = group_members[e]
           /\ phase'[e] = phase[e]
  BY <1>0 DEF Depart, GTypeOK
<1>4. SentJoin'
  <2>1. \A e \in cpg' : e # d /\ e \in cpg /\ e \in Daemon
    BY <1>3
  <2>2. \A e \in cpg' : phase'[e] = "up" => \E i \in Index : JoinAt(i, e)
    BY <1>3, <2>1 DEF OrderInv, SentJoin
  <2>3. Index \subseteq Index'
    BY <1>2 DEF Index
  <2> QED BY <1>2, <2>1, <2>2, <2>3 DEF SentJoin
<1>5. Ordered(d)'
  <2>1. \A j \in Index' : ~(j <= pos'[d])
    BY <1>2, <1>3 DEF Index
  <2> QED BY <2>1 DEF Ordered
<1>6. ASSUME NEW e \in Daemon, e # d PROVE Ordered(e)'
  <2>1. Ordered(e) /\ pos'[e] = pos[e] /\ group_members'[e] = group_members[e]
    BY <1>3, <1>6 DEF OrderInv
  <2>2. Len(log)' \in Nat /\ cpg' \subseteq Daemon /\ cpg' \subseteq cpg
    BY <1>2, <1>3
  <2> QED BY <1>2, <2>1, <2>2, OrderOthers
<1> QED BY <1>4, <1>5, <1>6 DEF OrderInv

\* Dispatching an entry: only the dispatcher's own list can be disturbed.
LEMMA OrderStep ==
  ASSUME IndInv, OrderInv, NEW d \in Daemon, NEW out \in Seq(Payload),
         DispatchStep(d, out), Ordered(d)',
         \A e \in Daemon \ {d} : group_members'[e] = group_members[e]
  PROVE  OrderInv'
<1>0. GTypeOK /\ LogInv /\ View(d)
  BY DEF IndInv, ViewInv
<1>1. /\ \A i, x : JoinAt(i, x)' <=> JoinAt(i, x)
      /\ cpg' = cpg /\ phase' = phase /\ cpg \subseteq Daemon
      /\ Index \subseteq Index' /\ Len(log)' \in Nat
  BY <1>0, DispatchFacts, LockTraffic DEF DispatchStep
<1>2. SentJoin'
  BY <1>1 DEF OrderInv, SentJoin
<1>3. ASSUME NEW e \in Daemon, e # d PROVE Ordered(e)'
  <2>1. Ordered(e) /\ pos'[e] = pos[e] /\ group_members'[e] = group_members[e]
    BY <1>0, <1>3 DEF OrderInv, DispatchStep, Dispatched, GTypeOK
  <2> QED BY <1>1, <2>1, OrderOthers
<1> QED BY <1>2, <1>3 DEF OrderInv

\* No step of the membership layer, with lock traffic or without, disturbs
\* the order of the lists.
LEMMA MoveKeepsOrder ==
  ASSUME ~DupStart, IndInv, OrderInv, NEW d \in Daemon, NEW out \in Seq(Payload),
         GMove(d, out)
  PROVE  OrderInv'
<1>0. /\ GTypeOK /\ LogInv /\ ViewInv /\ View(d) /\ Ordered(d) /\ <<>> \in Seq(Payload)
      /\ log = Mcast(d, <<>>) /\ cpg \subseteq Daemon /\ log \in Seq(Entry)
      /\ d \in cpg <=> phase[d] \in {"cpg_init", "listening", "up"}
  BY McastNothing DEF IndInv, ViewInv, OrderInv, LogInv, Members, GTypeOK
<1>1. CASE CpgJoin(d)
  <2>1. log' = Append(log, ConfChg(cpg \cup {d}, {}, {d}))
    BY <1>1 DEF CpgJoin
  <2>2. \A i : ~JoinAt(i, d)
    BY <1>0, <1>1, PositionTypes DEF CpgJoin, LogInv, Joins, Index
  <2>3. /\ Len(log) \in Nat /\ Len(log)' = Len(log) + 1
        /\ \A i, x : JoinAt(i, x)' <=> JoinAt(i, x)
    BY <1>0, <2>1, <2>2, PositionTypes, ConfAppended, SMTT(20)
  <2>4. /\ cpg' = cpg \cup {d} /\ pos' = [pos EXCEPT ![d] = Len(log)]
        /\ phase' = [phase EXCEPT ![d] = "cpg_init"] /\ group_members' = group_members
    BY <1>1 DEF CpgJoin, groupVars
  <2>5. SentJoin'
    <3>1. \A e \in cpg' : phase'[e] = "up" => e \in cpg /\ phase[e] = "up"
      BY <1>0, <2>4 DEF GTypeOK
    <3>2. Index \subseteq Index'
      BY <2>3 DEF Index
    <3> QED BY <2>3, <3>1, <3>2 DEF OrderInv, SentJoin
  <2>6. Ordered(d)'
    BY <2>2, <2>3 DEF Ordered
  <2>7. ASSUME NEW e \in Daemon, e # d PROVE Ordered(e)'
    <3>1. Ordered(e) /\ pos'[e] = pos[e] /\ group_members'[e] = group_members[e]
      BY <1>0, <2>4, <2>7 DEF OrderInv, GTypeOK
    <3>2. Len(log)' \in Nat /\ cpg' \subseteq Daemon
      BY <1>0, <2>3, <2>4
    <3>3. \A y \in cpg', j \in Index : JoinAt(j, y) => y \in cpg
      BY <2>2, <2>4
    <3> QED BY <2>3, <3>1, <3>2, <3>3, OrderOthers
  <2> QED BY <2>5, <2>6, <2>7 DEF OrderInv
<1>2. CASE CpgInitAlone(d) \/ Send(d, out)
  <2>1. PICK o \in Seq(Payload) : log' = Mcast(d, o)
    BY <1>0, <1>2 DEF CpgInitAlone, Send
  <2>2. /\ Len(log) \in Nat /\ Len(log)' \in Nat /\ Len(log)' >= Len(log)
        /\ \A i, x : JoinAt(i, x)' <=> JoinAt(i, x)
    BY <1>0, <2>1, LockTraffic, PositionTypes
  <2>3. /\ cpg' = cpg /\ pos' = pos /\ group_members' = group_members
        /\ \A e \in Daemon : phase'[e] = "up" => phase[e] = "up"
    BY <1>0, <1>2 DEF CpgInitAlone, Send, groupVars, GTypeOK
  <2>4. SentJoin'
    <3>1. Index \subseteq Index'
      BY <2>2 DEF Index
    <3> QED BY <1>0, <2>2, <2>3, <3>1 DEF OrderInv, SentJoin
  <2>5. ASSUME NEW e \in Daemon PROVE Ordered(e)'
    BY <1>0, <2>2, <2>3, OrderOthers DEF OrderInv
  <2> QED BY <2>4, <2>5 DEF OrderInv
<1>3. CASE CpgInitDuplicate(d) \/ StartFails(d) \/ DeleteForSelf(d) \/ Shutdown(d)
  <2>1. Depart(d, log) /\ d \in cpg
    BY <1>0, <1>3 DEF CpgInitDuplicate, StartFails, DeleteForSelf, Shutdown, HasNext
  <2> QED BY <1>0, <2>1, OrderDepart
<1>4. CASE send_join(d)
  <2>1. /\ Len(log) \in Nat /\ Len(log)' = Len(log) + 1
        /\ \A i, x : JoinAt(i, x)' <=> JoinAt(i, x) \/ (i = Len(log) + 1 /\ x = d)
    BY <1>0, <1>4, PositionTypes, JoinAppended DEF send_join
  <2>2. /\ cpg' = cpg /\ pos' = pos /\ group_members' = group_members
        /\ \A e \in Daemon : e # d /\ phase'[e] = "up" => phase[e] = "up"
    BY <1>0, <1>4 DEF send_join, groupVars, GTypeOK
  <2>3. Index' = Index \cup {Len(log) + 1} /\ Len(log) + 1 \notin Index
        /\ Len(log)' \in Nat
    BY <2>1 DEF Index
  <2>4. SentJoin'
    BY <1>0, <2>1, <2>2, <2>3 DEF OrderInv, SentJoin
  <2>5. ASSUME NEW e \in Daemon PROVE Ordered(e)'
    BY <1>0, <2>1, <2>2, <2>3, OrderOthers DEF OrderInv
  <2> QED BY <2>4, <2>5 DEF OrderInv
<1>5. ASSUME NEW o \in Seq(Payload), cpg_config_change(d, o) PROVE OrderInv'
  <2>1. DispatchStep(d, o)
    BY <1>5 DEF cpg_config_change, DispatchStep
  <2>2. \A e \in Daemon \ {d} : group_members'[e] = group_members[e]
    BY <1>0, <1>5 DEF cpg_config_change, GTypeOK
  <2> QED BY <1>0, <1>5, <2>1, <2>2, OrderConf, OrderStep
<1>6. CASE process_join(d)
  <2>1. DispatchStep(d, <<>>)
    BY <1>0, <1>6 DEF process_join, DispatchStep
  <2>2. \A e \in Daemon \ {d} : group_members'[e] = group_members[e]
    BY <1>0, <1>6 DEF process_join, GTypeOK
  <2> QED BY <1>0, <1>6, <2>1, <2>2, OrderJoin, OrderStep
<1>7. CASE DeliverLost(d) \/ DeliverApp(d, out)
  <2>1. /\ \E o \in Seq(Payload) : DispatchStep(d, o)
        /\ group_members' = group_members
        /\ NextEntry(d).request \notin {"JOIN", "CONFCHG"}
    BY <1>0, <1>7 DEF DeliverLost, DeliverApp, DispatchStep, groupVars
  <2>2. \A y : ~JoinAt(pos[d] + 1, y)
    BY <2>1 DEF JoinAt, NextEntry
  <2> QED BY <1>0, <2>1, <2>2, OrderDispatch, OrderStep
<1>8. CASE Crash(d)
  <2>1. PICK k \in Undelivered(d) : Depart(d, DropTail(d, k))
    BY <1>8 DEF Crash
  <2>2. d \in cpg
    BY <1>8 DEF Crash
  <2> QED BY <1>0, <2>1, <2>2, DropTailProperties, OrderDepart
<1> QED BY <1>0, <1>1, <1>2, <1>3, <1>4, <1>5, <1>6, <1>7, <1>8
        DEF GMove, GStep, cpg_init, ConfigChange

\* A group already formed is listed in the order of its JOINs.
LEMMA InitOrder ==
  ASSUME GInit
  PROVE  OrderInv
<1> DEFINE n == Len(InitGroup)
<1>1. /\ n \in Nat /\ Index = 1..2 * n
      /\ \A k, e : JoinAt(k, e) <=> \E i \in 1..n : k = 2 * i /\ e = InitGroup[i]
  BY InitLogSays
<1>2. /\ \A x : x \in cpg <=> \E i \in 1..n : x = InitGroup[i]
      /\ \A x \in Daemon : pos[x] = IF x \in cpg THEN 2 * n ELSE 0
      /\ \A x \in Daemon : group_members[x] = IF x \in cpg THEN InitGroup ELSE <<>>
  <2>1. DOMAIN InitGroup = 1..n
    BY GroupAssumption, LenProperties
  <2> QED BY <2>1 DEF GInit, Range
<1>3. SentJoin
  <2>1. ASSUME NEW e \in cpg PROVE \E i \in Index : JoinAt(i, e)
    <3>1. PICK i \in 1..n : e = InitGroup[i]
      BY <1>2
    <3>2. 2 * i \in Index
      BY <1>1
    <3> QED BY <1>1, <3>1, <3>2
  <2> QED BY <2>1 DEF SentJoin
<1>4. ASSUME NEW d \in Daemon PROVE Ordered(d)
  <2>1. ASSUME NEW y \in cpg, NEW i \in Index, NEW j \in Index,
               JoinAt(i, d), JoinAt(j, y), i < j, j <= pos[d]
        PROVE  Precedes(group_members[d], d, y)
    <3>1. PICK a \in 1..n : i = 2 * a /\ d = InitGroup[a]
      BY <1>1, <2>1
    <3>2. PICK b \in 1..n : j = 2 * b /\ y = InitGroup[b]
      BY <1>1, <2>1
    <3>3. a < b /\ a \in 1..Len(InitGroup) /\ b \in 1..Len(InitGroup)
      BY <1>1, <2>1, <3>1, <3>2
    <3>4. group_members[d] = InitGroup
      BY <1>2, <3>1
    <3> HIDE DEF n
    <3> QED BY <3>1, <3>2, <3>3, <3>4 DEF Precedes
  <2> QED BY <2>1 DEF Ordered
<1> QED BY <1>3, <1>4 DEF OrderInv

(***************************************************************************)
(* Both invariants hold in every run in which a node runs one daemon.      *)
(***************************************************************************)
THEOREM OrderInductive ==
  ASSUME ~DupStart
  PROVE  GSpec => [](IndInv /\ OrderInv)
<1>1. GInit => IndInv /\ OrderInv
  BY InitInv, InitOrder
<1>2. ASSUME IndInv, OrderInv, [GNext]_gvars PROVE IndInv' /\ OrderInv'
  <2>1. IndInv'
    BY <1>2, StepKeepsInv
  <2>2. CASE UNCHANGED gvars
    BY <1>2, <2>1, <2>2 DEF gvars, OrderInv, SentJoin, Ordered, Index, JoinAt
  <2>3. ASSUME NEW d \in Daemon, GStep(d) PROVE OrderInv'
    <3>1. GMove(d, <<>>) /\ <<>> \in Seq(Payload)
      BY <2>3 DEF GMove
    <3> QED BY <1>2, <3>1, MoveKeepsOrder
  <2>4. (\E d \in Daemon : GStep(d)) \/ UNCHANGED gvars
    BY <1>2 DEF GNext
  <2> QED BY <2>1, <2>2, <2>3, <2>4
<1> QED BY <1>1, <1>2, PTL DEF GSpec

-----------------------------------------------------------------------------
(***************************************************************************)
(* What follows when everything has been dispatched.                       *)
(***************************************************************************)

\* Every list has the members CPG has: all have sent a JOIN that everybody
\* has dispatched, and everybody has dispatched all departures.
LEMMA SettledLists ==
  ASSUME IndInv, OrderInv, Settled, NEW d \in cpg
  PROVE  /\ total_members[d] # 0
         /\ \A x : Has(group_members[d], x) <=> x \in cpg
<1>0. GTypeOK /\ LogInv /\ View(d) /\ d \in Daemon /\ cpg \subseteq Daemon
  BY DEF IndInv, ViewInv, GTypeOK
<1>1. /\ \A e \in cpg : phase[e] = "up" /\ pos[e] = Len(log)
      /\ Len(log) \in Nat
  BY <1>0, PositionTypes DEF Settled
<1>2. \A k \in Index : k <= pos[d] /\ k \in Nat
  BY <1>1 DEF Index
<1>3. total_members[d] # 0
  <2>1. PICK m \in Index : EnterAt(m, d)
    BY <1>0 DEF LogInv, Known
  <2> QED BY <1>0, <1>1, <1>2, <2>1 DEF View, Progress
<1>4. ASSUME NEW x \in cpg PROVE Has(group_members[d], x)
  <2>1. PICK i \in Index : JoinAt(i, x)
    BY <1>1 DEF OrderInv, SentJoin
  <2> QED BY <1>0, <1>2, <1>3, <2>1 DEF View, Complete
<1>5. ASSUME NEW x, Has(group_members[d], x) PROVE x \in cpg
  <2>1. x \in Daemon
    BY <1>0, <1>5, ElementOfSeq DEF Has, GTypeOK
  <2>2. phase[x] # "off" /\ \A k \in Index : ~LeftAt(k, x)
    BY <1>0, <1>2, <1>5, <2>1 DEF View, Sound
  <2>3. phase[x] # "gone"
    BY <1>0, <2>1, <2>2 DEF LogInv, Known
  <2> QED BY <1>0, <2>1, <2>2, <2>3 DEF LogInv, Members, GTypeOK, Phase
<1> QED BY <1>3, <1>4, <1>5

LEMMA SettledAgree ==
  ASSUME IndInv, OrderInv
  PROVE  MembershipAgreed
<1>1. ASSUME Settled, NEW d \in cpg PROVE Range(group_members[d]) = cpg
  <2>1. \A x : Has(group_members[d], x) <=> x \in cpg
    BY <1>1, SettledLists
  <2>2. DOMAIN group_members[d] = 1..Len(group_members[d])
    BY <1>1, LenProperties DEF IndInv, GTypeOK
  <2>3. \A x : x \in Range(group_members[d]) <=> Has(group_members[d], x)
    BY <2>2 DEF Range, Has
  <2> QED BY <2>1, <2>3
<1> QED BY <1>1 DEF MembershipAgreed

(***************************************************************************)
(* However daemons come and go, once all JOINs and departures have been    *)
(* dispatched every member lists exactly the members CPG has (process_join *)
(* and cpg_config_change miss nobody and keep nobody), in any cluster in   *)
(* which a node runs one daemon.                                           *)
(***************************************************************************)
THEOREM ListsAgree ==
  ASSUME ~DupStart
  PROVE  GSpec => []MembershipAgreed
<1>1. IndInv /\ OrderInv => MembershipAgreed
  BY SettledAgree
<1> QED BY <1>1, OrderInductive, PTL

\* The member whose JOIN came first has nobody before it on its list.
LEMMA FirstIsOldest ==
  ASSUME IndInv, OrderInv, Settled, cpg # {}
  PROVE  \E d \in cpg : SelfOldest(d)
<1>0. GTypeOK /\ LogInv /\ ViewInv /\ cpg \subseteq Daemon
  BY DEF IndInv, GTypeOK
<1>1. /\ \A e \in cpg : phase[e] = "up" /\ pos[e] = Len(log)
      /\ Len(log) \in Nat
  BY <1>0, PositionTypes DEF Settled
<1> DEFINE I == {k \in Index : \E e \in cpg : JoinAt(k, e)}
<1>2. I \in SUBSET Nat /\ I # {}
  BY <1>1 DEF OrderInv, SentJoin, Index
<1>3. Min(I) \in I /\ \A k \in I : Min(I) <= k
  <2> HIDE DEF I
  <2> QED BY <1>2, MinInSet
<1>4. PICK d \in cpg : JoinAt(Min(I), d)
  BY <1>3
<1>5. PICK i : i = Min(I)
  OBVIOUS
<1>6. i \in Index /\ JoinAt(i, d) /\ \A k \in I : i <= k
  BY <1>3, <1>4, <1>5
<1> DEFINE list == group_members[d]
<1>7. list \in Seq(Daemon) /\ NoDuplicates(list) /\ View(d)
  BY <1>0 DEF GTypeOK, ViewInv, View, Sound
<1>8. \A x : Has(list, x) <=> x \in cpg
  BY SettledLists
<1>9. list # <<>> /\ 1 \in 1..Len(list) /\ Head(list) = list[1]
  <2>1. PICK a \in 1..Len(list) : list[a] = d
    BY <1>8 DEF Has
  <2> QED BY <1>7, <2>1, EmptySeq, LenProperties
<1>10. list[1] = d
  <2> SUFFICES ASSUME list[1] # d PROVE FALSE
    OBVIOUS
  <2>1. list[1] \in cpg
    BY <1>8, <1>9 DEF Has
  <2>2. PICK j \in Index : JoinAt(j, list[1])
    BY <1>1, <2>1 DEF OrderInv, SentJoin
  <2>3. j # i /\ i <= j /\ i \in Nat /\ j \in Nat
    BY <1>0, <1>2, <1>6, <2>1, <2>2, PositionTypes
  <2>4. j <= pos[d] /\ i < j
    BY <1>1, <2>2, <2>3 DEF Index
  <2>5. Precedes(list, d, list[1])
    BY <1>0, <1>6, <2>1, <2>2, <2>4 DEF OrderInv, Ordered
  <2>6. PICK a, b \in 1..Len(list) : a < b /\ list[b] = list[1]
    BY <2>5 DEF Precedes
  <2>7. b = 1
    BY <1>7, <1>9, <2>6 DEF NoDuplicates
  <2> QED BY <2>6, <2>7
<1>11. joined[d]
  BY <1>7, <1>8 DEF View, Sound
<1> QED BY <1>9, <1>10, <1>11 DEF SelfOldest

(***************************************************************************)
(* And one of them takes itself for the oldest (get_oldest_node), so that  *)
(* there is somebody to grant new locks: process_join has brought every    *)
(* list into the order of the JOINs, whatever order CPG gave.              *)
(***************************************************************************)
THEOREM SomebodyIsOldest ==
  ASSUME ~DupStart
  PROVE  GSpec => []OldestPresent
<1>1. IndInv /\ OrderInv => OldestPresent
  BY FirstIsOldest DEF OldestPresent
<1> QED BY <1>1, OrderInductive, PTL

=============================================================================
