-------------------------- MODULE ClientLibProofs --------------------------
(***************************************************************************)
(* Proofs about module ClientLib, for any number of threads, locks and     *)
(* calls and any size of the socket's buffers.                             *)
(***************************************************************************)
EXTENDS ClientLib, SequenceLemmas, FiniteSetTheorems, TLAPS

Reply == {"GRANT", "NAK"}

CallRecord == [resource : Resource,
               ret : {"none", "GRANT", "NAK", "error", "unlocked"}]

Request == [request : {"LOCK"}, owner_tid : Tid, resource : Resource, try : BOOLEAN]
           \cup [request : {"UNLOCK"}, lockid : Tid]

-----------------------------------------------------------------------------
(***************************************************************************)
(* The inductive invariant.                                                *)
(***************************************************************************)

\* Line l of answers: answer r to call i is in it; no answer is in it twice
\* and a NAK stands before the GRANT that followed; each repeats its call.
ComingIn(l, i, r) == \E k \in DOMAIN l : l[k].owner_tid = i /\ l[k].request = r

OrderedIn(l) ==
  \A k, m \in DOMAIN l :
    l[k].owner_tid = l[m].owner_tid =>
      /\ l[k].request = l[m].request => k = m
      /\ l[k].request = "NAK" /\ l[m].request = "GRANT" => k < m

TrueTo(l, c) ==
  \A k \in DOMAIN l :
    /\ l[k].owner_tid \in DOMAIN c
    /\ l[k].resource = c[l[k].owner_tid].resource

\* Queue q of requests: those of call i are in it, no LOCK is in it twice.
LockIn(q, i) == \E k \in DOMAIN q : q[k].request = "LOCK" /\ q[k].owner_tid = i

UnlockIn(q, i) == \E k \in DOMAIN q : q[k].request = "UNLOCK" /\ q[k].lockid = i

OnceIn(q) ==
  \A k, m \in DOMAIN q :
    /\ q[k].request = "LOCK" /\ q[m].request = "LOCK"
    /\ q[k].owner_tid = q[m].owner_tid
    => k = m

Ret(i) == IF i \in DOMAIN calls THEN calls[i].ret ELSE "none"

\* Answer r to call i is under way; it was given at some time.
Coming(i, r) == ComingIn(OnTheWay, i, r)

Given(i, r) == answers[i] \in {<<r>>, <<"NAK", "GRANT">>}

Line == OrderedIn(OnTheWay) /\ TrueTo(OnTheWay, calls)

\* A thread in cpg_lock is in a call of its own, which has not returned.
InCall ==
  /\ Len(calls) <= MaxSeq
  /\ conn = "none" => calls = <<>>
  /\ \A t \in Thread : pc[t] # "idle" =>
       conn # "none" /\ tid[t] \in DOMAIN calls /\ calls[tid[t]].ret = "none"
  /\ \A t, u \in Thread :
       pc[t] # "idle" /\ pc[u] # "idle" /\ tid[t] = tid[u] => t = u

\* The daemon has not heard of call i.
Untouched(i) == requests[i] = "none" /\ answers[i] = <<>>

Unwritten(i) ==
  \/ i \notin DOMAIN calls
  \/ \E t \in Thread : pc[t] = "write" /\ tid[t] = i

\* What is in the socket the daemon has not heard of, and it is there once.
Posted ==
  /\ OnceIn(toDaemon)
  /\ \A i \in Tid :
       /\ Unwritten(i) => ~LockIn(toDaemon, i)
       /\ Unwritten(i) \/ LockIn(toDaemon, i) => Untouched(i)
       /\ UnlockIn(toDaemon, i) => Ret(i) = "unlocked"

\* A call is granted once, or refused once, or refused and then granted.
Answered(i) ==
  /\ answers[i] \in {<<>>, <<"GRANT">>, <<"NAK">>, <<"NAK", "GRANT">>}
  /\ conn = "open" =>
       /\ requests[i] \in {"none", "wait", "try"} => answers[i] = <<>>
       /\ requests[i] = "refused" => answers[i] = <<"NAK">>

\* What is under way to a call before it returns, and after.
Way(i) ==
  /\ \A r \in Reply : Coming(i, r) => Given(i, r)
  /\ Ret(i) = "none" =>
       /\ conn = "open" => \A r \in Reply : Given(i, r) => Coming(i, r)
       /\ Coming(i, "GRANT") /\ Given(i, "NAK") => Coming(i, "NAK")
  /\ Ret(i) = "error" => conn # "open"
  /\ Ret(i) = "NAK" => Given(i, "NAK") /\ ~Coming(i, "NAK")
  /\ Ret(i) \in {"GRANT", "unlocked"} =>
       Given(i, "GRANT") /\ ~Coming(i, "GRANT") /\ ~Coming(i, "NAK")

\* A GRANT on its way or returned is on the daemon's record.
Recorded(i) ==
  conn = "open" /\ (Ret(i) = "GRANT" \/ Coming(i, "GRANT")) =>
    holder[calls[i].resource] = i

ClientInv ==
  /\ CLTypeOK /\ InCall /\ Posted /\ Line
  /\ \A i \in Tid : Answered(i) /\ Way(i) /\ Recorded(i)

-----------------------------------------------------------------------------
(***************************************************************************)
(* What happens to a line of answers and to a queue of requests.           *)
(***************************************************************************)

\* An answer that is not there yet goes to the end.
LEMMA LineAppend ==
  ASSUME NEW l \in Seq(Answers), NEW m \in Answers, OrderedIn(l),
         ~ComingIn(l, m.owner_tid, m.request),
         m.request = "NAK" => ~ComingIn(l, m.owner_tid, "GRANT")
  PROVE  /\ OrderedIn(Append(l, m))
         /\ \A i \in Tid, r \in Reply : ComingIn(Append(l, m), i, r) <=>
              ComingIn(l, i, r) \/ (m.owner_tid = i /\ m.request = r)
         /\ \A k \in DOMAIN Append(l, m) :
              Append(l, m)[k] = m \/ \E p \in DOMAIN l : Append(l, m)[k] = l[p]
<1>1. PICK y \in Seq(Answers) :
        /\ y = Append(l, m)
        /\ Len(y) = Len(l) + 1
        /\ \A k \in 1..Len(l) : y[k] = l[k]
        /\ y[Len(l) + 1] = m
  BY AppendProperties
<1>2. Len(l) \in Nat /\ DOMAIN l = 1..Len(l) /\ DOMAIN y = 1..Len(l) + 1
  BY <1>1, LenProperties
<1>3. \A k \in DOMAIN y : IF k <= Len(l) THEN k \in DOMAIN l /\ y[k] = l[k]
                          ELSE k = Len(l) + 1 /\ y[k] = m
  BY <1>1, <1>2
<1>4. \A k \in DOMAIN l : k \in DOMAIN y /\ y[k] = l[k] /\ k <= Len(l) /\ k \in Nat
  BY <1>1, <1>2
<1>5. Len(l) + 1 \in DOMAIN y /\ y[Len(l) + 1] = m
  BY <1>1, <1>2
<1>6. ASSUME NEW i, NEW r
      PROVE  ComingIn(y, i, r) <=>
               ComingIn(l, i, r) \/ (m.owner_tid = i /\ m.request = r)
  BY <1>3, <1>4, <1>5 DEF ComingIn
<1>7. OrderedIn(y)
  <2> SUFFICES ASSUME NEW k \in DOMAIN y, NEW n \in DOMAIN y,
                      y[k].owner_tid = y[n].owner_tid
               PROVE  /\ y[k].request = y[n].request => k = n
                      /\ y[k].request = "NAK" /\ y[n].request = "GRANT" => k < n
    BY DEF OrderedIn
  <2>1. CASE k <= Len(l) /\ n <= Len(l)
    BY <2>1, <1>3 DEF OrderedIn
  <2>2. CASE ~(k <= Len(l)) /\ ~(n <= Len(l))
    BY <2>2, <1>3
  <2>3. CASE k <= Len(l) /\ ~(n <= Len(l))
    <3>1. k \in DOMAIN l /\ y[k] = l[k] /\ y[n] = m /\ n = Len(l) + 1
      BY <2>3, <1>3
    <3>2. l[k].request # m.request
      BY <3>1 DEF ComingIn
    <3>3. k < n
      BY <3>1, <1>2
    <3> QED BY <3>1, <3>2, <3>3
  <2>4. CASE ~(k <= Len(l)) /\ n <= Len(l)
    <3>1. n \in DOMAIN l /\ y[n] = l[n] /\ y[k] = m
      BY <2>4, <1>3
    <3>2. l[n].request # m.request
      BY <3>1 DEF ComingIn
    <3>3. ~(m.request = "NAK" /\ l[n].request = "GRANT")
      BY <3>1 DEF ComingIn
    <3> QED BY <3>1, <3>2, <3>3
  <2> QED BY <2>1, <2>2, <2>3, <2>4
<1> QED
  BY <1>1, <1>3, <1>6, <1>7

\* The first answer to a call is taken out.
LEMMA LineRemove ==
  ASSUME NEW l \in Seq(Answers), NEW k \in 1..Len(l), OrderedIn(l),
         \A p \in 1..k - 1 : l[p].owner_tid # l[k].owner_tid
  PROVE  /\ OrderedIn(RemoveAt(l, k))
         /\ \A i \in Tid, r \in Reply : ComingIn(RemoveAt(l, k), i, r) <=>
              ComingIn(l, i, r) /\ ~(l[k].owner_tid = i /\ l[k].request = r)
         /\ ComingIn(l, l[k].owner_tid, l[k].request)
         /\ l[k].request = "GRANT" => ~ComingIn(l, l[k].owner_tid, "NAK")
         /\ \A p \in DOMAIN RemoveAt(l, k) :
              \E q \in DOMAIN l : RemoveAt(l, k)[p] = l[q]
<1> DEFINE shift(p) == IF p < k THEN p ELSE p + 1
<1>1. PICK y \in Seq(Answers) : y = RemoveAt(l, k) /\ Without(y, l, k)
  BY RemoveAtWithout
<1>2. Len(l) \in Nat /\ DOMAIN l = 1..Len(l) /\ DOMAIN y = 1..Len(l) - 1 /\ k \in Nat
  BY <1>1, LenProperties DEF Without
<1>3. \A p \in DOMAIN y : /\ shift(p) \in DOMAIN l /\ shift(p) # k
                          /\ y[p] = l[shift(p)]
  BY <1>1, <1>2 DEF Without
<1>4. \A p, q \in DOMAIN y : /\ shift(p) = shift(q) => p = q
                             /\ shift(p) < shift(q) => p < q
  BY <1>2
<1>5. ASSUME NEW q \in DOMAIN l, q # k
      PROVE  \E p \in DOMAIN y : shift(p) = q
  <2>1. CASE q < k
    BY <1>2, <1>5, <2>1
  <2>2. CASE q > k
    <3>1. q - 1 \in DOMAIN y /\ shift(q - 1) = q
      BY <1>2, <2>2
    <3> QED BY <3>1
  <2> QED BY <1>2, <1>5, <2>1, <2>2
<1> HIDE DEF shift
<1>6. k \in DOMAIN l
  BY <1>2
<1>7. ASSUME NEW i, NEW r
      PROVE  ComingIn(y, i, r) <=>
               ComingIn(l, i, r) /\ ~(l[k].owner_tid = i /\ l[k].request = r)
  <2>1. ASSUME ComingIn(y, i, r)
        PROVE  ComingIn(l, i, r) /\ ~(l[k].owner_tid = i /\ l[k].request = r)
    <3>1. PICK p \in DOMAIN y : y[p].owner_tid = i /\ y[p].request = r
      BY <2>1 DEF ComingIn
    <3>2. shift(p) \in DOMAIN l /\ shift(p) # k /\ y[p] = l[shift(p)]
      BY <1>3
    <3> QED BY <3>1, <3>2, <1>6 DEF ComingIn, OrderedIn
  <2>2. ASSUME ComingIn(l, i, r), ~(l[k].owner_tid = i /\ l[k].request = r)
        PROVE  ComingIn(y, i, r)
    <3>1. PICK q \in DOMAIN l : l[q].owner_tid = i /\ l[q].request = r
      BY <2>2 DEF ComingIn
    <3>2. PICK p \in DOMAIN y : shift(p) = q
      BY <1>5, <2>2, <3>1
    <3> QED BY <1>3, <3>1, <3>2 DEF ComingIn
  <2> QED BY <2>1, <2>2
<1>8. OrderedIn(y)
  BY <1>3, <1>4 DEF OrderedIn
<1>9. ComingIn(l, l[k].owner_tid, l[k].request)
  BY <1>6 DEF ComingIn
<1>10. ASSUME l[k].request = "GRANT", ComingIn(l, l[k].owner_tid, "NAK")
       PROVE  FALSE
  <2>1. PICK q \in DOMAIN l : l[q].owner_tid = l[k].owner_tid /\ l[q].request = "NAK"
    BY <1>10 DEF ComingIn
  <2>2. q < k
    BY <1>6, <1>10, <2>1 DEF OrderedIn
  <2> QED BY <1>2, <2>1, <2>2
<1> QED
  BY <1>1, <1>3, <1>7, <1>8, <1>9, <1>10

\* The last answers are lost.
LEMMA LinePrefix ==
  ASSUME NEW l \in Seq(Answers), NEW y \in Seq(Answers), OrderedIn(l),
         Len(y) <= Len(l), \A k \in 1..Len(y) : y[k] = l[k]
  PROVE  /\ OrderedIn(y)
         /\ \A i \in Tid, r \in Reply : ComingIn(y, i, r) => ComingIn(l, i, r)
         /\ \A i \in Tid : ComingIn(y, i, "GRANT") /\ ComingIn(l, i, "NAK") =>
              ComingIn(y, i, "NAK")
         /\ \A k \in DOMAIN y : \E q \in DOMAIN l : y[k] = l[q]
<1>1. /\ Len(l) \in Nat /\ DOMAIN l = 1..Len(l)
      /\ Len(y) \in Nat /\ DOMAIN y = 1..Len(y)
  BY LenProperties
<1>2. \A k \in DOMAIN y : k \in DOMAIN l /\ y[k] = l[k] /\ k <= Len(y)
  BY <1>1
<1>3. ASSUME NEW i, ComingIn(y, i, "GRANT"), ComingIn(l, i, "NAK")
      PROVE  ComingIn(y, i, "NAK")
  <2>1. PICK k \in DOMAIN y : y[k].owner_tid = i /\ y[k].request = "GRANT"
    BY <1>3 DEF ComingIn
  <2>2. PICK q \in DOMAIN l : l[q].owner_tid = i /\ l[q].request = "NAK"
    BY <1>3 DEF ComingIn
  <2>3. q < k
    BY <1>2, <2>1, <2>2 DEF OrderedIn
  <2>4. q \in DOMAIN y /\ y[q] = l[q]
    BY <1>1, <2>3
  <2> QED BY <2>2, <2>4 DEF ComingIn
<1> QED
  BY <1>2, <1>3 DEF ComingIn, OrderedIn

\* A request goes to the end of the queue.
LEMMA QueueAppend ==
  ASSUME NEW q \in Seq(Request), NEW m \in Request
  PROVE  /\ \A i \in Tid : LockIn(Append(q, m), i) <=>
              LockIn(q, i) \/ (m.request = "LOCK" /\ m.owner_tid = i)
         /\ \A i \in Tid : UnlockIn(Append(q, m), i) <=>
              UnlockIn(q, i) \/ (m.request = "UNLOCK" /\ m.lockid = i)
         /\ OnceIn(q) /\ (m.request = "LOCK" => ~LockIn(q, m.owner_tid)) =>
              OnceIn(Append(q, m))
<1>1. PICK y \in Seq(Request) :
        /\ y = Append(q, m)
        /\ Len(y) = Len(q) + 1
        /\ \A k \in 1..Len(q) : y[k] = q[k]
        /\ y[Len(q) + 1] = m
  BY AppendProperties
<1>2. Len(q) \in Nat /\ DOMAIN q = 1..Len(q) /\ DOMAIN y = 1..Len(q) + 1
  BY <1>1, LenProperties
<1>3. \A k \in DOMAIN y : \/ k \in DOMAIN q /\ y[k] = q[k]
                          \/ k = Len(q) + 1 /\ y[k] = m
  BY <1>1, <1>2
<1>4. \A k \in DOMAIN q : k \in DOMAIN y /\ y[k] = q[k]
  BY <1>1, <1>2
<1>5. Len(q) + 1 \in DOMAIN y /\ y[Len(q) + 1] = m
  BY <1>1, <1>2
<1>6. \A i \in Tid : LockIn(y, i) <=>
        LockIn(q, i) \/ (m.request = "LOCK" /\ m.owner_tid = i)
  BY <1>3, <1>4, <1>5 DEF LockIn
<1>7. \A i \in Tid : UnlockIn(y, i) <=>
        UnlockIn(q, i) \/ (m.request = "UNLOCK" /\ m.lockid = i)
  BY <1>3, <1>4, <1>5 DEF UnlockIn
<1>8. ASSUME OnceIn(q), m.request = "LOCK" => ~LockIn(q, m.owner_tid)
      PROVE  OnceIn(y)
  BY <1>3, <1>8 DEF OnceIn, LockIn
<1> QED
  BY <1>1, <1>6, <1>7, <1>8

\* The request at the head of the queue is read.
LEMMA QueueTail ==
  ASSUME NEW q \in Seq(Request), q # <<>>, OnceIn(q)
  PROVE  /\ OnceIn(Tail(q))
         /\ Head(q) \in Request
         /\ \A i \in Tid : LockIn(Tail(q), i) =>
              LockIn(q, i) /\ ~(Head(q).request = "LOCK" /\ Head(q).owner_tid = i)
         /\ \A i \in Tid : UnlockIn(Tail(q), i) => UnlockIn(q, i)
         /\ Head(q).request = "LOCK" => LockIn(q, Head(q).owner_tid)
         /\ Head(q).request = "UNLOCK" => UnlockIn(q, Head(q).lockid)
<1>1. PICK y \in Seq(Request) :
        y = Tail(q) /\ Len(y) = Len(q) - 1 /\ \A k \in 1..Len(y) : y[k] = q[k + 1]
  BY HeadTailProperties
<1>2. /\ Len(q) \in Nat /\ Len(q) >= 1 /\ DOMAIN q = 1..Len(q)
      /\ DOMAIN y = 1..Len(q) - 1
  BY <1>1, LenProperties, EmptySeq
<1>3. Head(q) = q[1] /\ 1 \in DOMAIN q
  BY <1>2
<1>4. \A k \in DOMAIN y : /\ k + 1 \in DOMAIN q /\ y[k] = q[k + 1] /\ k + 1 # 1
                          /\ k \in Nat
  BY <1>1, <1>2
<1>5. OnceIn(y)
  <2> SUFFICES ASSUME NEW k \in DOMAIN y, NEW n \in DOMAIN y,
                      y[k].request = "LOCK", y[n].request = "LOCK",
                      y[k].owner_tid = y[n].owner_tid
               PROVE  k = n
    BY DEF OnceIn
  <2>1. k + 1 = n + 1
    BY <1>4 DEF OnceIn
  <2> QED BY <1>4, <2>1
<1>6. ASSUME NEW i \in Tid, LockIn(y, i)
      PROVE  LockIn(q, i) /\ ~(q[1].request = "LOCK" /\ q[1].owner_tid = i)
  <2>1. PICK k \in DOMAIN y : y[k].request = "LOCK" /\ y[k].owner_tid = i
    BY <1>6 DEF LockIn
  <2>2. LockIn(q, i)
    BY <1>4, <2>1 DEF LockIn
  <2>3. ASSUME q[1].request = "LOCK", q[1].owner_tid = i PROVE FALSE
    BY <1>3, <1>4, <2>1, <2>3 DEF OnceIn
  <2> QED BY <2>2, <2>3
<1>7. \A i \in Tid : UnlockIn(y, i) => UnlockIn(q, i)
  BY <1>4 DEF UnlockIn
<1>8. Head(q) \in Request
  BY HeadTailProperties
<1> QED
  BY <1>1, <1>3, <1>5, <1>6, <1>7, <1>8 DEF LockIn, UnlockIn

-----------------------------------------------------------------------------
(***************************************************************************)
(* The steps that change neither what a call has returned nor what has     *)
(* been answered.                                                          *)
(***************************************************************************)

\* The types by name.
LEMMA TypeFacts ==
  ASSUME CLTypeOK
  PROVE  /\ calls \in Seq(CallRecord)
         /\ pending \in Seq(Answers) /\ toClient \in Seq(Answers)
         /\ writing \in Seq(Answers) /\ OnTheWay \in Seq(Answers)
         /\ toDaemon \in Seq(Request)
         /\ DOMAIN calls = 1..Len(calls) /\ Len(calls) \in Nat
<1>1. pending \in Seq(Answers) /\ toClient \in Seq(Answers) /\ writing \in Seq(Answers)
  BY DEF CLTypeOK
<1>2. OnTheWay \in Seq(Answers)
  BY <1>1, ConcatInTurn DEF OnTheWay
<1>3. calls \in Seq(CallRecord)
  BY DEF CLTypeOK, CallRecord
<1>4. toDaemon \in Seq(Request)
  BY DEF CLTypeOK, Request
<1> QED
  BY <1>1, <1>2, <1>3, <1>4, LenProperties

\* The calls that have been made are of numbers up to MaxSeq.
LEMMA MadeTid ==
  ASSUME CLTypeOK, InCall
  PROVE  DOMAIN calls \subseteq Tid /\ \A i \in DOMAIN calls : calls[i] \in CallRecord
<1>1. MaxSeq \in Nat
  BY ClientAssumption
<1>2. \A i \in 1..Len(calls) : calls[i] \in CallRecord
  BY TypeFacts, ElementOfSeq
<1> QED
  BY <1>1, <1>2, TypeFacts DEF InCall, Tid

\* A call returns a value.
LEMMA SetRet ==
  ASSUME NEW c \in Seq(CallRecord), NEW n \in DOMAIN c,
         NEW r \in {"none", "GRANT", "NAK", "error", "unlocked"},
         NEW y, y = [c EXCEPT ![n].ret = r]
  PROVE  /\ y \in Seq(CallRecord)
         /\ DOMAIN y = DOMAIN c
         /\ Len(y) = Len(c)
         /\ \A i \in DOMAIN c : /\ y[i].resource = c[i].resource
                               /\ y[i].ret = IF i = n THEN r ELSE c[i].ret
<1>1. Len(c) \in Nat /\ DOMAIN c = 1..Len(c) /\ n \in 1..Len(c)
  BY LenProperties
<1>2. \A i \in DOMAIN c : c[i] \in CallRecord
  BY <1>1, ElementOfSeq
<1>3. PICK e \in CallRecord : e.resource = c[n].resource /\ e.ret = r /\ e = [c[n] EXCEPT !.ret = r]
  BY <1>2 DEF CallRecord
<1>4. y = [c EXCEPT ![n] = e]
  BY <1>3
<1>5. /\ [c EXCEPT ![n] = e] \in Seq(CallRecord)
      /\ Len([c EXCEPT ![n] = e]) = Len(c)
      /\ \A i \in 1..Len(c) : [c EXCEPT ![n] = e][i] = IF i = n THEN e ELSE c[i]
  BY <1>1, ExceptSeq
<1>6. y \in Seq(CallRecord) /\ Len(y) = Len(c)
      /\ \A i \in 1..Len(c) : y[i] = IF i = n THEN e ELSE c[i]
  BY <1>4, <1>5
<1>7. DOMAIN y = DOMAIN c
  BY <1>1, <1>6, LenProperties
<1>8. \A i \in DOMAIN c : /\ y[i].resource = c[i].resource
                          /\ y[i].ret = IF i = n THEN r ELSE c[i].ret
  BY <1>1, <1>3, <1>6
<1> QED
  BY <1>6, <1>7, <1>8

\* Nothing is under way to a call that has not been made.
LEMMA ComingMade ==
  ASSUME Line, NEW i, NEW r, Coming(i, r)
  PROVE  i \in DOMAIN calls
  BY DEF Line, TrueTo, Coming, ComingIn

\* Neither returns nor answers.
LEMMA QuietKeeps ==
  ASSUME ClientInv,
         UNCHANGED <<conn, requests, holder, answers>>, OnTheWay' = OnTheWay,
         \A i \in Tid : Ret(i)' = Ret(i),
         \A i \in DOMAIN calls :
           i \in DOMAIN calls' /\ calls'[i].resource = calls[i].resource
  PROVE  Line' /\ \A i \in Tid : (Answered(i) /\ Way(i) /\ Recorded(i))'
<1>1. Line'
  BY DEF ClientInv, Line, OrderedIn, TrueTo
<1>2. \A i, r : Coming(i, r)' <=> Coming(i, r)
  BY DEF Coming
<1>3. \A i, r : Given(i, r)' <=> Given(i, r)
  BY DEF Given
<1>4. ASSUME NEW i \in Tid PROVE Answered(i)'
  BY DEF ClientInv, Answered
<1>5. ASSUME NEW i \in Tid PROVE Way(i)'
  BY <1>2, <1>3 DEF ClientInv, Way
<1>6. ASSUME NEW i \in Tid PROVE Recorded(i)'
  <2>1. ASSUME Ret(i) = "GRANT" \/ Coming(i, "GRANT")
        PROVE  calls'[i].resource = calls[i].resource
    BY <2>1, ComingMade DEF ClientInv, Ret
  <2> QED BY <1>2, <2>1 DEF ClientInv, Recorded
<1> QED
  BY <1>1, <1>4, <1>5, <1>6

\* What Posted says does not change while its subjects do not.
LEMMA PostedStays ==
  ASSUME ClientInv, UNCHANGED <<toDaemon, requests, answers>>,
         \A i \in Tid : Ret(i)' = Ret(i),
         \A i \in Tid : Unwritten(i)' => Unwritten(i)
  PROVE  Posted'
  BY DEF ClientInv, Posted, Untouched

LEMMA EnterKeeps ==
  ASSUME ClientInv, NEW t \in Thread, NEW R \in Wants[t], Enter(t, R)
  PROVE  ClientInv'
<1> DEFINE e == [resource |-> R, ret |-> "none"]
           n == Len(calls) + 1
<1>1. R \in Resource
  BY ClientAssumption
<1>2. e \in CallRecord
  BY <1>1 DEF CallRecord
<1>3. /\ calls' \in Seq(CallRecord) /\ Len(calls') = n
      /\ \A i \in DOMAIN calls : calls'[i] = calls[i]
      /\ calls'[n] = e
  <2>1. calls' = Append(calls, e)
    BY DEF Enter
  <2> HIDE DEF e
  <2> QED BY <2>1, <1>2, TypeFacts, AppendProperties DEF ClientInv
<1>4. /\ Len(calls) \in Nat /\ DOMAIN calls = 1..Len(calls) /\ DOMAIN calls' = 1..n
      /\ n \in Tid /\ n \in 0..MaxSeq /\ n \notin DOMAIN calls /\ n <= MaxSeq /\ n \in DOMAIN calls'
      /\ \A i \in DOMAIN calls' : i \in DOMAIN calls \/ i = n
      /\ DOMAIN calls \subseteq DOMAIN calls'
  BY <1>3, TypeFacts, LenProperties, ClientAssumption DEF ClientInv, Enter, Tid
<1> HIDE DEF n
<1>5. /\ pc \in [Thread -> PC] /\ tid \in [Thread -> 0..MaxSeq]
      /\ pc' = [pc EXCEPT ![t] = "write"] /\ tid' = [tid EXCEPT ![t] = n]
      /\ pc[t] = "idle" /\ conn # "none"
      /\ UNCHANGED <<conn, pending, toDaemon, toClient, stopping, requests, holder, writing, answers>>
  BY DEF ClientInv, CLTypeOK, Enter, n, daemonVars
<1>6. CLTypeOK'
  <2>1. pc' \in [Thread -> PC] /\ tid' \in [Thread -> 0..MaxSeq] /\ mutex' \in Thread \cup {"none"}
    BY <1>4, <1>5 DEF Enter, PC
  <2>2. calls' \in Seq([resource : Resource, ret : {"none", "GRANT", "NAK", "error", "unlocked"}])
    BY <1>3 DEF CallRecord
  <2> QED BY <2>1, <2>2, <1>5 DEF ClientInv, CLTypeOK
<1>7. \A i \in Tid : Ret(i)' = Ret(i)
  BY <1>3, <1>4 DEF Ret
<1>8. InCall'
  <2>1. Len(calls') <= MaxSeq /\ conn' # "none"
    BY <1>3, <1>4, <1>5
  <2>2. ASSUME NEW u \in Thread, pc'[u] # "idle"
        PROVE  tid'[u] \in DOMAIN calls' /\ calls'[tid'[u]].ret = "none"
               /\ (u # t => pc[u] # "idle" /\ tid'[u] = tid[u] /\ tid[u] \in DOMAIN calls)
    <3>1. CASE u = t
      BY <3>1, <1>3, <1>4, <1>5
    <3>2. CASE u # t
      BY <3>2, <2>2, <1>3, <1>4, <1>5 DEF ClientInv, InCall
    <3> QED BY <3>1, <3>2
  <2>3. tid'[t] = n
    BY <1>5
  <2>4. ASSUME NEW u \in Thread, NEW v \in Thread, pc'[u] # "idle", pc'[v] # "idle",
               tid'[u] = tid'[v]
        PROVE  u = v
    BY <2>2, <2>3, <2>4, <1>4 DEF ClientInv, InCall
  <2> QED BY <2>1, <2>2, <2>4 DEF InCall
<1>9. ASSUME NEW i \in Tid, Unwritten(i)' PROVE Unwritten(i)
  <2>1. CASE i = n
    BY <2>1, <1>4 DEF Unwritten
  <2>2. CASE i # n
    BY <2>2, <1>4, <1>5, <1>9 DEF Unwritten
  <2> QED BY <2>1, <2>2
<1>10. Posted'
  BY <1>5, <1>7, <1>9, PostedStays
<1>11. OnTheWay' = OnTheWay
  BY <1>5 DEF OnTheWay
<1> QED
  BY <1>3, <1>4, <1>5, <1>6, <1>7, <1>8, <1>10, <1>11, QuietKeeps DEF ClientInv

\* Steps of a thread between its request and its answer, with mutex and
\* h->pending as they may be: Relock and Sleep.
LEMMA LoopKeeps ==
  ASSUME ClientInv, NEW t \in Thread, pc[t] \in {"poll", "asleep"},
         NEW s \in {"poll", "asleep"}, pc' = [pc EXCEPT ![t] = s],
         CLTypeOK', OnTheWay' = OnTheWay,
         UNCHANGED <<conn, tid, calls, toDaemon, requests, holder, answers>>
  PROVE  ClientInv'
<1>1. pc \in [Thread -> PC]
  BY DEF ClientInv, CLTypeOK
<1>2. \A u \in Thread : /\ pc'[u] # "idle" => pc[u] # "idle"
                        /\ pc'[u] = "write" => pc[u] = "write"
  BY <1>1
<1>3. InCall'
  BY <1>2 DEF ClientInv, InCall
<1>4. \A i \in Tid : Ret(i)' = Ret(i)
  BY DEF Ret
<1>5. Posted'
  BY <1>2, <1>4, PostedStays DEF Unwritten
<1> QED
  BY <1>3, <1>4, <1>5, QuietKeeps DEF ClientInv

LEMMA RelockKeeps ==
  ASSUME ClientInv, NEW t \in Thread, Relock(t)
  PROVE  ClientInv'
<1>1. CLTypeOK'
  BY DEF ClientInv, CLTypeOK, Relock, daemonVars, PC
<1>2. OnTheWay' = OnTheWay
  BY DEF Relock, OnTheWay, daemonVars
<1> QED
  BY <1>1, <1>2, LoopKeeps DEF Relock, daemonVars

LEMMA ReadOtherKeeps ==
  ASSUME ClientInv, NEW t \in Thread, ReadOther(t)
  PROVE  ClientInv'
<1>1. toClient # <<>> /\ pending' = Append(pending, Head(toClient)) /\ toClient' = Tail(toClient)
  BY DEF ReadOther, Readable, add_pending
<1>2. pending' \in Seq(Answers) /\ toClient' \in Seq(Answers)
  BY <1>1, TypeFacts, HeadTailProperties, AppendProperties DEF ClientInv
<1>3. UNCHANGED <<conn, tid, calls, toDaemon, stopping, requests, holder, writing, answers>>
      /\ pc' = [pc EXCEPT ![t] = "asleep"] /\ mutex' = "none" /\ pc[t] = "poll"
  BY DEF ReadOther, Sleep, daemonVars
<1>4. CLTypeOK'
  BY <1>2, <1>3 DEF ClientInv, CLTypeOK, PC
<1>5. OnTheWay' = OnTheWay
  <2>1. /\ pending \in Seq(Answers) /\ toClient \in Seq(Answers)
        /\ writing \in Seq(Answers) /\ toClient # <<>>
    BY <1>1, TypeFacts DEF ClientInv
  <2>2. Append(pending, Head(toClient)) \o Tail(toClient) \o writing
          = pending \o toClient \o writing
    BY <2>1, MoveToFirst, SMTT(40)
  <2> QED BY <1>1, <1>3, <2>2 DEF OnTheWay
<1> QED
  BY <1>3, <1>4, <1>5, LoopKeeps

LEMMA ReadTimeoutKeeps ==
  ASSUME ClientInv, NEW t \in Thread, ReadTimeout(t)
  PROVE  ClientInv'
<1>1. UNCHANGED <<conn, tid, calls, pending, toDaemon, toClient, stopping, requests, holder, writing, answers>>
      /\ pc' = [pc EXCEPT ![t] = "asleep"] /\ mutex' = "none" /\ pc[t] = "poll"
  BY DEF ReadTimeout, Sleep, daemonVars
<1>2. CLTypeOK'
  BY <1>1 DEF ClientInv, CLTypeOK, PC
<1>3. OnTheWay' = OnTheWay
  BY <1>1 DEF OnTheWay
<1> QED
  BY <1>1, <1>2, <1>3, LoopKeeps

-----------------------------------------------------------------------------
(***************************************************************************)
(* The steps with which a call returns.                                    *)
(***************************************************************************)

\* check_pending finds the first answer to the call, if there is one.
LEMMA CheckPending ==
  ASSUME pending \in Seq(Answers), NEW t \in Thread
  PROVE  /\ check_pending(t) = 0 =>
              \A k \in 1..Len(pending) : ~IsOwn(t, pending[k])
         /\ check_pending(t) # 0 =>
              /\ check_pending(t) \in 1..Len(pending)
              /\ IsOwn(t, pending[check_pending(t)])
              /\ \A k \in 1..check_pending(t) - 1 : ~IsOwn(t, pending[k])
<1> DEFINE I == {k \in 1..Len(pending) : IsOwn(t, pending[k])}
<1>1. check_pending(t) = IF I # {} THEN Min(I) ELSE 0
  BY DEF check_pending, SelectInSeq
<1>2. Len(pending) \in Nat
  BY LenProperties
<1>3. CASE I = {}
  BY <1>1, <1>3
<1>4. CASE I # {}
  <2>1. I \in SUBSET Nat
    BY <1>2
  <2>2. Min(I) \in I /\ \A k \in I : Min(I) <= k
    BY <1>4, <2>1, MinInSet, Zenon
  <2>3. check_pending(t) \in 1..Len(pending) /\ IsOwn(t, pending[check_pending(t)])
    BY <1>1, <1>4, <2>2
  <2>4. ASSUME NEW k \in 1..check_pending(t) - 1 PROVE ~IsOwn(t, pending[k])
    <3>1. k \in 1..Len(pending) /\ ~(check_pending(t) <= k)
      BY <1>2, <2>3
    <3>2. k \notin I
      BY <1>1, <1>4, <2>2, <3>1
    <3> QED BY <3>1, <3>2
  <2>5. check_pending(t) # 0
    BY <2>3, <1>2
  <2> QED BY <2>3, <2>4, <2>5
<1> QED
  BY <1>3, <1>4

\* Finish touches the call the thread is in and no other.
LEMMA FinishFacts ==
  ASSUME ClientInv, NEW t \in Thread, pc[t] # "idle",
         NEW r \in {"GRANT", "NAK", "error"}, Finish(t, r),
         UNCHANGED <<conn, toDaemon, requests, answers>>
  PROVE  /\ calls' \in Seq(CallRecord) /\ DOMAIN calls' = DOMAIN calls
         /\ tid[t] \in Tid /\ tid[t] \in DOMAIN calls /\ Ret(tid[t]) = "none"
         /\ \A i \in DOMAIN calls : calls'[i].resource = calls[i].resource
         /\ \A i \in Tid : Ret(i)' = IF i = tid[t] THEN r ELSE Ret(i)
         /\ mutex' = "none" /\ tid' = tid /\ pc' = [pc EXCEPT ![t] = "idle"]
         /\ InCall' /\ Posted'
<1>1. /\ tid[t] \in DOMAIN calls /\ calls[tid[t]].ret = "none" /\ conn # "none"
      /\ calls \in Seq(CallRecord) /\ pc \in [Thread -> PC]
  BY TypeFacts DEF ClientInv, InCall, CLTypeOK
<1>2. tid[t] \in Tid
  BY <1>1, MadeTid DEF ClientInv
<1>3. calls' = [calls EXCEPT ![tid[t]].ret = r]
  BY DEF Finish
<1>4. /\ calls' \in Seq(CallRecord) /\ DOMAIN calls' = DOMAIN calls
      /\ Len(calls') = Len(calls)
      /\ \A i \in DOMAIN calls :
           /\ calls'[i].resource = calls[i].resource
           /\ calls'[i].ret = IF i = tid[t] THEN r ELSE calls[i].ret
  <2>0. r \in {"none", "GRANT", "NAK", "error", "unlocked"}
    OBVIOUS
  <2> QED BY <1>1, <1>3, <2>0, SetRet
<1>5. \A i \in Tid : Ret(i)' = IF i = tid[t] THEN r ELSE Ret(i)
  BY <1>1, <1>4 DEF Ret
<1>6. mutex' = "none" /\ tid' = tid /\ pc' = [pc EXCEPT ![t] = "idle"]
  BY DEF Finish
<1>7. \A u \in Thread : pc'[u] # "idle" => u # t /\ pc[u] = pc'[u]
  BY <1>1, <1>6
<1>8. InCall'
  <2>1. Len(calls') <= MaxSeq /\ conn' # "none"
    BY <1>1, <1>4 DEF ClientInv, InCall
  <2>2. ASSUME NEW u \in Thread, pc'[u] # "idle"
        PROVE  tid'[u] \in DOMAIN calls' /\ calls'[tid'[u]].ret = "none"
    <3>1. tid[u] \in DOMAIN calls /\ calls[tid[u]].ret = "none" /\ tid[u] # tid[t]
      BY <1>7, <2>2 DEF ClientInv, InCall
    <3> QED BY <1>4, <1>6, <3>1
  <2>3. ASSUME NEW u \in Thread, NEW v \in Thread,
               pc'[u] # "idle", pc'[v] # "idle", tid'[u] = tid'[v]
        PROVE  u = v
    BY <1>6, <1>7, <2>3 DEF ClientInv, InCall
  <2> QED BY <2>1, <2>2, <2>3 DEF InCall
<1>9. \A i \in Tid : Unwritten(i)' => Unwritten(i)
  BY <1>4, <1>6, <1>7 DEF Unwritten
<1>10. Ret(tid[t]) = "none"
  BY <1>1 DEF Ret
<1>11. Posted'
  <2>1. OnceIn(toDaemon)'
    BY DEF ClientInv, Posted
  <2>2. ASSUME NEW i \in Tid
        PROVE  /\ Unwritten(i)' => ~LockIn(toDaemon', i)
               /\ Unwritten(i)' \/ LockIn(toDaemon', i) => Untouched(i)'
               /\ UnlockIn(toDaemon', i) => Ret(i)' = "unlocked"
    BY <1>5, <1>9, <1>10 DEF ClientInv, Posted, Untouched
  <2> QED BY <2>1, <2>2 DEF Posted
<1> QED
  BY <1>1, <1>2, <1>4, <1>5, <1>6, <1>8, <1>10, <1>11

\* The connection is gone: the call fails.
LEMMA FailKeeps ==
  ASSUME ClientInv, NEW t \in Thread, pc[t] # "idle", conn # "open",
         Finish(t, "error"),
         UNCHANGED <<conn, pending, toDaemon, toClient, stopping, requests, holder, writing, answers>>
  PROVE  ClientInv'
<1>1. /\ calls' \in Seq(CallRecord) /\ DOMAIN calls' = DOMAIN calls
      /\ Ret(tid[t]) = "none"
      /\ \A i \in DOMAIN calls : calls'[i].resource = calls[i].resource
      /\ \A i \in Tid : Ret(i)' = IF i = tid[t] THEN "error" ELSE Ret(i)
      /\ mutex' = "none" /\ tid' = tid /\ pc' = [pc EXCEPT ![t] = "idle"]
      /\ InCall' /\ Posted'
  BY FinishFacts
<1>2. CLTypeOK'
  BY <1>1 DEF ClientInv, CLTypeOK, CallRecord, PC
<1>3. OnTheWay' = OnTheWay
  BY DEF OnTheWay
<1>4. Line'
  BY <1>1, <1>3 DEF ClientInv, Line, TrueTo
<1>5. ASSUME NEW i \in Tid PROVE (Answered(i) /\ Way(i) /\ Recorded(i))'
  <2>1. Answered(i)' /\ Recorded(i)'
    BY DEF ClientInv, Answered, Recorded
  <2>2. \A r : (Coming(i, r)' <=> Coming(i, r)) /\ (Given(i, r)' <=> Given(i, r))
    BY <1>3 DEF Coming, Given
  <2>3. Way(i)'
    BY <1>1, <2>2 DEF ClientInv, Way
  <2> QED BY <2>1, <2>3
<1> QED
  BY <1>1, <1>2, <1>4, <1>5 DEF ClientInv

\* The call takes its first answer out of the line and returns it.
LEMMA ReturnKeeps ==
  ASSUME ClientInv, NEW t \in Thread, pc[t] = "poll",
         NEW k \in 1..Len(OnTheWay), IsOwn(t, OnTheWay[k]),
         \A p \in 1..k - 1 : ~IsOwn(t, OnTheWay[p]),
         OnTheWay' = RemoveAt(OnTheWay, k),
         Finish(t, OnTheWay[k].request),
         pending' \in Seq(Answers), toClient' \in Seq(Answers),
         UNCHANGED <<conn, toDaemon, stopping, requests, holder, writing, answers>>
  PROVE  /\ ClientInv'
         /\ OnTheWay[k].request \in Reply /\ Coming(tid[t], OnTheWay[k].request)
         /\ OnTheWay[k].request = "GRANT" => ~Coming(tid[t], "NAK")
<1> DEFINE i == tid[t]
           r == OnTheWay[k].request
<1>1. OnTheWay \in Seq(Answers) /\ OnTheWay[k] \in Answers
      /\ DOMAIN OnTheWay = 1..Len(OnTheWay) /\ Len(OnTheWay) \in Nat
  BY TypeFacts, ElementOfSeq, LenProperties DEF ClientInv
<1>2. r \in Reply /\ OnTheWay[k].owner_tid = i
  BY <1>1 DEF Answers, Reply, IsOwn
<1>3. r \in {"GRANT", "NAK", "error"}
  BY <1>2 DEF Reply
<1>4. /\ calls' \in Seq(CallRecord) /\ DOMAIN calls' = DOMAIN calls
      /\ i \in Tid /\ i \in DOMAIN calls /\ Ret(i) = "none"
      /\ \A j \in DOMAIN calls : calls'[j].resource = calls[j].resource
      /\ \A j \in Tid : Ret(j)' = IF j = i THEN r ELSE Ret(j)
      /\ mutex' = "none" /\ tid' = tid /\ pc' = [pc EXCEPT ![t] = "idle"]
      /\ InCall' /\ Posted'
  BY <1>3, FinishFacts
<1>5. CLTypeOK'
  BY <1>4 DEF ClientInv, CLTypeOK, CallRecord, PC
<1>6. ASSUME NEW p \in 1..k - 1 PROVE OnTheWay[p].owner_tid # OnTheWay[k].owner_tid
  <2>1. p \in DOMAIN OnTheWay
    BY <1>1
  <2>2. ~IsOwn(t, OnTheWay[p])
    OBVIOUS
  <2> QED BY <1>2, <2>1, <2>2 DEF ClientInv, Line, TrueTo, IsOwn
<1>7. /\ OrderedIn(OnTheWay')
      /\ \A j \in Tid, a \in Reply : ComingIn(OnTheWay', j, a) <=>
           ComingIn(OnTheWay, j, a) /\ ~(i = j /\ r = a)
      /\ ComingIn(OnTheWay, i, r)
      /\ r = "GRANT" => ~ComingIn(OnTheWay, i, "NAK")
      /\ \A p \in DOMAIN OnTheWay' : \E q \in DOMAIN OnTheWay : OnTheWay'[p] = OnTheWay[q]
  <2>1. PICK l \in Seq(Answers) : l = OnTheWay
    BY <1>1
  <2>2. k \in 1..Len(l) /\ OrderedIn(l) /\ \A p \in 1..k - 1 : l[p].owner_tid # l[k].owner_tid
    BY <1>6, <2>1 DEF ClientInv, Line
  <2>3. /\ OrderedIn(RemoveAt(l, k))
        /\ \A j \in Tid, a \in Reply : ComingIn(RemoveAt(l, k), j, a) <=>
             ComingIn(l, j, a) /\ ~(l[k].owner_tid = j /\ l[k].request = a)
        /\ ComingIn(l, l[k].owner_tid, l[k].request)
        /\ l[k].request = "GRANT" => ~ComingIn(l, l[k].owner_tid, "NAK")
        /\ \A p \in DOMAIN RemoveAt(l, k) :
             \E q \in DOMAIN l : RemoveAt(l, k)[p] = l[q]
    BY <2>2, LineRemove
  <2>4. l[k].owner_tid = i /\ l[k].request = r /\ RemoveAt(l, k) = OnTheWay'
    BY <1>2, <2>1
  <2> HIDE DEF i, r
  <2> QED BY <2>1, <2>3, <2>4
<1> HIDE DEF i, r
<1>8. /\ \A j \in Tid, a \in Reply : Coming(j, a)' <=> Coming(j, a) /\ ~(i = j /\ r = a)
      /\ Coming(i, r) /\ (r = "GRANT" => ~Coming(i, "NAK"))
  BY <1>7 DEF Coming
<1>9. Line'
  <2>1. ASSUME NEW p \in DOMAIN OnTheWay'
        PROVE  /\ OnTheWay'[p].owner_tid \in DOMAIN calls'
               /\ OnTheWay'[p].resource = calls'[OnTheWay'[p].owner_tid].resource
    <3>1. PICK q \in DOMAIN OnTheWay : OnTheWay'[p] = OnTheWay[q]
      BY <1>7
    <3>2. /\ OnTheWay[q].owner_tid \in DOMAIN calls
          /\ OnTheWay[q].resource = calls[OnTheWay[q].owner_tid].resource
      BY DEF ClientInv, Line, TrueTo
    <3> QED BY <1>4, <3>1, <3>2
  <2> QED BY <1>7, <2>1 DEF Line, TrueTo
<1>10. ASSUME NEW j \in Tid PROVE (Answered(j) /\ Way(j) /\ Recorded(j))'
  <2>1. Answered(j)'
    BY DEF ClientInv, Answered
  <2>2. \A a : Given(j, a)' <=> Given(j, a)
    BY DEF Given
  <2>3. "GRANT" \in Reply /\ "NAK" \in Reply
    BY DEF Reply
  <2>4. Way(j)'
    <3>1. CASE j # i
      <4>1. Ret(j)' = Ret(j) /\ \A a \in Reply : Coming(j, a)' <=> Coming(j, a)
        BY <3>1, <1>4, <1>8
      <4>2. Way(j)
        BY DEF ClientInv
      <4> QED BY <2>2, <2>3, <4>1, <4>2 DEF Way
    <3>2. CASE j = i
      <4>1. Ret(j)' = r /\ Given(j, r)
        BY <1>2, <1>4, <1>8, <3>2 DEF ClientInv, Way
      <4>2. CASE r = "NAK"
        BY <1>4, <1>8, <2>2, <2>3, <3>2, <4>1, <4>2 DEF ClientInv, Way
      <4>3. CASE r = "GRANT"
        BY <1>4, <1>8, <2>2, <2>3, <3>2, <4>1, <4>3 DEF ClientInv, Way
      <4> QED BY <4>2, <4>3, <1>2 DEF Reply
    <3> QED BY <3>1, <3>2
  <2>5. Recorded(j)'
    <3>1. ASSUME conn = "open", Ret(j)' = "GRANT" \/ Coming(j, "GRANT")'
          PROVE  j \in DOMAIN calls /\ (Ret(j) = "GRANT" \/ Coming(j, "GRANT"))
      <4>1. Ret(j) = "GRANT" \/ Coming(j, "GRANT")
        BY <1>4, <1>8, <2>3, <3>1
      <4> QED BY <4>1, ComingMade DEF ClientInv, Ret
    <3>2. calls'[j].resource = calls[j].resource \/ j \notin DOMAIN calls
      BY <1>4
    <3> QED BY <3>1, <3>2 DEF ClientInv, Recorded
  <2> QED BY <2>1, <2>4, <2>5
<1> QED
  BY <1>2, <1>4, <1>5, <1>8, <1>9, <1>10 DEF ClientInv, i, r

\* Both ways to find the answer find the first one.
LEMMA FoundFirst ==
  ASSUME ClientInv, NEW t \in Thread, TakePending(t) \/ ReadOwn(t)
  PROVE  \E k \in 1..Len(OnTheWay) :
           /\ IsOwn(t, OnTheWay[k])
           /\ \A p \in 1..k - 1 : ~IsOwn(t, OnTheWay[p])
           /\ OnTheWay' = RemoveAt(OnTheWay, k)
           /\ Finish(t, OnTheWay[k].request)
           /\ pending' \in Seq(Answers) /\ toClient' \in Seq(Answers)
           /\ pc[t] = "poll"
           /\ UNCHANGED <<conn, toDaemon, stopping, requests, holder, writing, answers>>
<1>1. /\ pending \in Seq(Answers) /\ toClient \in Seq(Answers) /\ writing \in Seq(Answers)
      /\ Len(pending) \in Nat /\ Len(toClient) \in Nat /\ Len(writing) \in Nat
  BY TypeFacts, LenProperties DEF ClientInv
<1>2. InTurn(OnTheWay, pending, toClient, writing)
  BY <1>1, ConcatInTurn DEF OnTheWay
<1>3. /\ Len(OnTheWay) = Len(pending) + Len(toClient) + Len(writing)
      /\ \A k \in 1..Len(pending) : OnTheWay[k] = pending[k]
  BY <1>2 DEF InTurn
<1>4. CASE TakePending(t)
  <2> DEFINE k == check_pending(t)
  <2>1. /\ k \in 1..Len(pending) /\ IsOwn(t, pending[k])
        /\ \A p \in 1..k - 1 : ~IsOwn(t, pending[p])
    BY <1>1, <1>4, CheckPending DEF TakePending
  <2>2. /\ pending' = RemoveAt(pending, k) /\ Finish(t, pending[k].request)
        /\ pc[t] = "poll"
        /\ UNCHANGED <<conn, toDaemon, toClient, stopping, requests, holder, writing, answers>>
    BY <1>4 DEF TakePending, daemonVars
  <2> HIDE DEF k
  <2>3. k \in 1..Len(OnTheWay) /\ OnTheWay[k] = pending[k]
    BY <1>1, <1>3, <2>1
  <2>4. ASSUME NEW p \in 1..k - 1 PROVE ~IsOwn(t, OnTheWay[p])
    <3>1. p \in 1..Len(pending)
      BY <1>1, <2>1
    <3> QED BY <1>3, <2>1, <3>1
  <2>5. pending' \in Seq(Answers)
    BY <1>1, <2>1, <2>2, RemoveAtWithout
  <2>6. RemoveAt(pending, k) \o toClient \o writing = RemoveAt(pending \o toClient \o writing, k)
    <3>1. k \in 1..Len(pending)
      BY <2>1
    <3> QED BY <1>1, <3>1, RemoveFromFirst, SMTT(40)
  <2>7. OnTheWay' = RemoveAt(OnTheWay, k)
    BY <2>2, <2>6 DEF OnTheWay
  <2>8. toClient' \in Seq(Answers) /\ Finish(t, OnTheWay[k].request)
    BY <1>1, <2>2, <2>3
  <2> QED BY <2>1, <2>2, <2>3, <2>4, <2>5, <2>7, <2>8
<1>5. CASE ReadOwn(t)
  <2> DEFINE k == Len(pending) + 1
  <2>1. /\ toClient # <<>> /\ IsOwn(t, Head(toClient)) /\ toClient' = Tail(toClient)
        /\ Finish(t, Head(toClient).request) /\ pc[t] = "poll" /\ check_pending(t) = 0
        /\ UNCHANGED <<conn, pending, toDaemon, stopping, requests, holder, writing, answers>>
    BY <1>5 DEF ReadOwn, Readable, daemonVars
  <2>2. /\ k \in 1..Len(pending \o toClient \o writing)
        /\ (pending \o toClient \o writing)[k] = Head(toClient)
        /\ pending \o Tail(toClient) \o writing = RemoveAt(pending \o toClient \o writing, k)
    BY <1>1, <2>1, RemoveFromSecond, ZenonT(60)
  <2>3. k \in 1..Len(OnTheWay) /\ OnTheWay[k] = Head(toClient)
    BY <2>2 DEF OnTheWay
  <2>4. OnTheWay' = RemoveAt(OnTheWay, k)
    BY <2>1, <2>2 DEF OnTheWay
  <2>5. \A p \in 1..Len(pending) : ~IsOwn(t, pending[p])
    BY <1>1, <2>1, CheckPending
  <2>6. \A p \in 1..k - 1 : ~IsOwn(t, OnTheWay[p])
    BY <1>1, <1>3, <2>5
  <2>7. pending' \in Seq(Answers) /\ toClient' \in Seq(Answers)
    BY <1>1, <2>1, HeadTailProperties
  <2> HIDE DEF k
  <2> QED BY <2>1, <2>3, <2>4, <2>6, <2>7
<1> QED
  BY <1>4, <1>5

-----------------------------------------------------------------------------
(***************************************************************************)
(* The steps on the connection and on the queue of requests.               *)
(***************************************************************************)

LEMMA ConnectKeeps ==
  ASSUME ClientInv, cpg_lock_init
  PROVE  ClientInv'
<1>1. /\ conn = "none" /\ conn' \in {"open", "none"}
      /\ UNCHANGED <<mutex, pc, tid, calls, pending, toDaemon, toClient,
                     stopping, requests, holder, writing, answers>>
  BY DEF cpg_lock_init, sock_connect, libVars, daemonVars
<1>2. CLTypeOK'
  BY <1>1 DEF ClientInv, CLTypeOK
<1>3. calls = <<>> /\ \A t \in Thread : pc[t] = "idle"
  BY <1>1 DEF ClientInv, InCall
<1>4. InCall'
  BY <1>1, <1>3 DEF ClientInv, InCall
<1>5. Posted' /\ Line'
  BY <1>1 DEF ClientInv, Posted, Untouched, Unwritten, Ret, Line, OnTheWay
<1>6. ASSUME NEW i \in Tid PROVE (Answered(i) /\ Way(i) /\ Recorded(i))'
  <2>1. Ret(i) = "none" /\ answers[i] = <<>> /\ requests[i] = "none"
    BY <1>3 DEF ClientInv, Posted, Unwritten, Untouched, Ret
  <2>2. ~Given(i, "GRANT") /\ ~Given(i, "NAK")
    BY <2>1 DEF Given
  <2>3. ~Coming(i, "GRANT") /\ ~Coming(i, "NAK")
    BY <2>2 DEF ClientInv, Way, Reply
  <2>4. /\ Ret(i)' = Ret(i)
        /\ \A r : (Coming(i, r)' <=> Coming(i, r)) /\ (Given(i, r)' <=> Given(i, r))
    BY <1>1 DEF Ret, Coming, Given, OnTheWay
  <2>5. Way(i)' /\ Recorded(i)'
    BY <2>1, <2>2, <2>3, <2>4 DEF Way, Recorded, Reply
  <2>6. Answered(i)'
    BY <1>1, <2>1 DEF Answered
  <2> QED BY <2>5, <2>6
<1> QED
  BY <1>2, <1>4, <1>5, <1>6 DEF ClientInv

LEMMA WriteLockKeeps ==
  ASSUME ClientInv, NEW t \in Thread, WriteLock(t)
  PROVE  ClientInv'
<1>1. CASE CanWrite(toDaemon)
           /\ toDaemon' = Append(toDaemon, LockReq(tid[t], calls[tid[t]].resource, t \in Triers))
           /\ pc' = [pc EXCEPT ![t] = "poll"]
           /\ UNCHANGED <<mutex, tid, calls>>
  <2>1. PICK i : i = tid[t]
    OBVIOUS
  <2>2. PICK m : m = LockReq(i, calls[i].resource, t \in Triers)
    OBVIOUS
  <2>3. /\ pc[t] = "write" /\ pc \in [Thread -> PC]
        /\ toDaemon' = Append(toDaemon, m) /\ pc' = [pc EXCEPT ![t] = "poll"]
        /\ UNCHANGED <<mutex, tid, calls, conn, pending, toClient, stopping,
                       requests, holder, writing, answers>>
    BY <1>1, <2>1, <2>2 DEF WriteLock, daemonVars, ClientInv, CLTypeOK
  <2>4. i \in DOMAIN calls /\ i \in Tid /\ calls[i].resource \in Resource
    BY <2>1, <2>3, MadeTid DEF ClientInv, InCall, CallRecord
  <2>5. m \in Request /\ m.request = "LOCK" /\ m.owner_tid = i
    BY <2>2, <2>4 DEF LockReq, Request
  <2>6. Unwritten(i)
    BY <2>1, <2>3 DEF Unwritten
  <2>7. ~LockIn(toDaemon, i) /\ Untouched(i)
    BY <2>4, <2>6 DEF ClientInv, Posted
  <2>8. /\ toDaemon \in Seq(Request) /\ toDaemon' \in Seq(Request)
        /\ \A j \in Tid : LockIn(toDaemon', j) <=> LockIn(toDaemon, j) \/ i = j
        /\ \A j \in Tid : UnlockIn(toDaemon', j) <=> UnlockIn(toDaemon, j)
        /\ OnceIn(toDaemon')
    <3>1. toDaemon \in Seq(Request) /\ OnceIn(toDaemon)
      BY TypeFacts DEF ClientInv, Posted
    <3>2. Append(toDaemon, m) \in Seq(Request)
      BY <2>5, <3>1, AppendProperties
    <3>3. /\ \A j \in Tid : LockIn(Append(toDaemon, m), j) <=>
               LockIn(toDaemon, j) \/ (m.request = "LOCK" /\ m.owner_tid = j)
          /\ \A j \in Tid : UnlockIn(Append(toDaemon, m), j) <=>
               UnlockIn(toDaemon, j) \/ (m.request = "UNLOCK" /\ m.lockid = j)
          /\ OnceIn(toDaemon) /\ (m.request = "LOCK" => ~LockIn(toDaemon, m.owner_tid)) =>
               OnceIn(Append(toDaemon, m))
      BY <2>5, <3>1, QueueAppend
    <3> QED BY <2>3, <2>5, <2>7, <3>1, <3>2, <3>3
  <2>9. CLTypeOK'
    BY <2>3, <2>8 DEF ClientInv, CLTypeOK, Request, PC
  <2>10. \A u \in Thread : /\ pc'[u] # "idle" => pc[u] # "idle"
                           /\ pc'[u] = "write" => pc[u] = "write" /\ u # t
    BY <2>3
  <2>11. InCall'
    BY <2>3, <2>10 DEF ClientInv, InCall
  <2>12. \A j \in Tid : Ret(j)' = Ret(j)
    BY <2>3 DEF Ret
  <2>13. \A j \in Tid : Unwritten(j)' => Unwritten(j) /\ j # i
    <3>1. ASSUME NEW j \in Tid, Unwritten(j)' PROVE Unwritten(j)
      BY <2>3, <2>10, <3>1 DEF Unwritten
    <3>2. ASSUME Unwritten(i)' PROVE FALSE
      <4>1. PICK u \in Thread : pc'[u] = "write" /\ tid'[u] = i
        BY <2>3, <2>4, <3>2 DEF Unwritten
      <4>2. u # t /\ pc[u] # "idle" /\ tid[u] = i
        BY <2>3, <2>10, <4>1
      <4> QED BY <2>1, <2>3, <4>2 DEF ClientInv, InCall
    <3> QED BY <3>1, <3>2
  <2>14. ASSUME NEW j \in Tid
         PROVE  /\ Unwritten(j)' => ~LockIn(toDaemon', j)
                /\ Unwritten(j)' \/ LockIn(toDaemon', j) => Untouched(j)'
                /\ UnlockIn(toDaemon', j) => Ret(j)' = "unlocked"
    <3>1. Untouched(j)' <=> Untouched(j)
      BY <2>3 DEF Untouched
    <3> QED BY <2>7, <2>8, <2>12, <2>13, <3>1 DEF ClientInv, Posted
  <2>15. Posted'
    BY <2>8, <2>14 DEF Posted
  <2>16. OnTheWay' = OnTheWay
    BY <2>3 DEF OnTheWay
  <2> QED BY <2>3, <2>9, <2>11, <2>12, <2>15, <2>16, QuietKeeps DEF ClientInv
<1>2. CASE conn # "open" /\ Finish(t, "error") /\ UNCHANGED toDaemon
  <2>1. /\ pc[t] = "write"
        /\ UNCHANGED <<conn, pending, toDaemon, toClient, stopping, requests,
                       holder, writing, answers>>
    BY <1>2 DEF WriteLock, daemonVars
  <2> QED BY <1>2, <2>1, FailKeeps
<1> QED
  BY <1>1, <1>2 DEF WriteLock

LEMMA ReadFailsKeeps ==
  ASSUME ClientInv, NEW t \in Thread, ReadFails(t)
  PROVE  ClientInv'
<1>1. /\ pc[t] = "poll" /\ conn # "open" /\ Finish(t, "error")
      /\ UNCHANGED <<conn, pending, toDaemon, toClient, stopping, requests,
                     holder, writing, answers>>
  BY DEF ReadFails, Failed, daemonVars
<1> QED
  BY <1>1, FailKeeps

LEMMA UnlockKeeps ==
  ASSUME ClientInv, NEW t \in Thread, NEW i \in DOMAIN calls, cpg_unlock(t, i)
  PROVE  ClientInv'
<1>1. /\ calls[i].ret = "GRANT" /\ calls' = [calls EXCEPT ![i].ret = "unlocked"]
      /\ \/ toDaemon' = Append(toDaemon, UnlockReq(i))
         \/ UNCHANGED toDaemon
      /\ UNCHANGED <<conn, mutex, pc, tid, pending, toClient, stopping, requests,
                     holder, writing, answers>>
  BY DEF cpg_unlock, daemonVars
<1>2. i \in Tid /\ calls \in Seq(CallRecord) /\ Ret(i) = "GRANT"
  BY <1>1, MadeTid, TypeFacts DEF ClientInv, Ret
<1>3. /\ calls' \in Seq(CallRecord) /\ DOMAIN calls' = DOMAIN calls
      /\ Len(calls') = Len(calls)
      /\ \A j \in DOMAIN calls :
           /\ calls'[j].resource = calls[j].resource
           /\ calls'[j].ret = IF j = i THEN "unlocked" ELSE calls[j].ret
  <2>1. "unlocked" \in {"none", "GRANT", "NAK", "error", "unlocked"}
    OBVIOUS
  <2> QED BY <1>1, <1>2, <2>1, SetRet
<1>4. \A j \in Tid : Ret(j)' = IF j = i THEN "unlocked" ELSE Ret(j)
  BY <1>3 DEF Ret
<1>5. /\ toDaemon' \in Seq(Request) /\ OnceIn(toDaemon')
      /\ \A j \in Tid : LockIn(toDaemon', j) <=> LockIn(toDaemon, j)
      /\ \A j \in Tid : UnlockIn(toDaemon', j) => UnlockIn(toDaemon, j) \/ i = j
  <2>1. toDaemon \in Seq(Request) /\ OnceIn(toDaemon)
    BY TypeFacts DEF ClientInv, Posted
  <2>2. CASE toDaemon' = Append(toDaemon, UnlockReq(i))
    <3>1. PICK m : m = UnlockReq(i)
      OBVIOUS
    <3>2. m \in Request /\ m.request = "UNLOCK" /\ m.lockid = i
      BY <1>2, <3>1 DEF UnlockReq, Request
    <3>3. Append(toDaemon, m) \in Seq(Request)
      BY <2>1, <3>2, AppendProperties
    <3>4. /\ \A j \in Tid : LockIn(Append(toDaemon, m), j) <=>
               LockIn(toDaemon, j) \/ (m.request = "LOCK" /\ m.owner_tid = j)
          /\ \A j \in Tid : UnlockIn(Append(toDaemon, m), j) <=>
               UnlockIn(toDaemon, j) \/ (m.request = "UNLOCK" /\ m.lockid = j)
          /\ OnceIn(toDaemon) /\ (m.request = "LOCK" => ~LockIn(toDaemon, m.owner_tid)) =>
               OnceIn(Append(toDaemon, m))
      BY <2>1, <3>2, QueueAppend
    <3> QED BY <2>1, <2>2, <3>1, <3>2, <3>3, <3>4
  <2>3. CASE UNCHANGED toDaemon
    BY <2>1, <2>3
  <2> QED BY <1>1, <2>2, <2>3
<1>6. CLTypeOK'
  BY <1>1, <1>3, <1>5 DEF ClientInv, CLTypeOK, CallRecord, Request
<1>7. InCall'
  <2>1. ASSUME NEW u \in Thread, pc'[u] # "idle"
        PROVE  conn' # "none" /\ tid'[u] \in DOMAIN calls' /\ calls'[tid'[u]].ret = "none"
    BY <1>1, <1>3, <2>1 DEF ClientInv, InCall
  <2>2. Len(calls') <= MaxSeq
    BY <1>3 DEF ClientInv, InCall
  <2>3. conn' = "none" => calls' = <<>>
    BY <1>1 DEF ClientInv, InCall
  <2> QED BY <1>1, <2>1, <2>2, <2>3 DEF ClientInv, InCall
<1>8. Posted'
  <2>1. ASSUME NEW j \in Tid
        PROVE  /\ Unwritten(j)' => ~LockIn(toDaemon', j)
               /\ Unwritten(j)' \/ LockIn(toDaemon', j) => Untouched(j)'
               /\ UnlockIn(toDaemon', j) => Ret(j)' = "unlocked"
    <3>1. (Untouched(j)' <=> Untouched(j)) /\ (Unwritten(j)' <=> Unwritten(j))
      BY <1>1, <1>3 DEF Untouched, Unwritten
    <3> QED BY <1>4, <1>5, <3>1 DEF ClientInv, Posted
  <2> QED BY <1>5, <2>1 DEF Posted
<1>9. OnTheWay' = OnTheWay
  BY <1>1 DEF OnTheWay
<1>10. Line'
  BY <1>3, <1>9 DEF ClientInv, Line, TrueTo
<1>11. ASSUME NEW j \in Tid PROVE (Answered(j) /\ Way(j) /\ Recorded(j))'
  <2>1. Answered(j)'
    BY <1>1 DEF ClientInv, Answered
  <2>2. \A r : (Coming(j, r)' <=> Coming(j, r)) /\ (Given(j, r)' <=> Given(j, r))
    BY <1>1, <1>9 DEF Coming, Given
  <2>3. Way(j) /\ Recorded(j)
    BY DEF ClientInv
  <2>4. Way(j)'
    <3>1. CASE j = i
      BY <1>2, <1>4, <2>2, <2>3, <3>1 DEF Way
    <3>2. CASE j # i
      BY <1>1, <1>4, <2>2, <2>3, <3>2 DEF Way
    <3> QED BY <3>1, <3>2
  <2>5. Recorded(j)'
    <3>1. CASE j = i
      <4>1. ~Coming(j, "GRANT") /\ Ret(j)' = "unlocked"
        BY <1>2, <1>4, <2>3, <3>1 DEF Way
      <4> QED BY <2>2, <4>1 DEF Recorded
    <3>2. CASE j # i
      <4>1. Ret(j) = "GRANT" \/ Coming(j, "GRANT") => j \in DOMAIN calls
        BY ComingMade DEF ClientInv, Ret
      <4> QED BY <1>1, <1>3, <1>4, <2>2, <2>3, <3>2, <4>1 DEF Recorded
    <3> QED BY <3>1, <3>2
  <2> QED BY <2>1, <2>4, <2>5
<1> QED
  BY <1>6, <1>7, <1>8, <1>10, <1>11 DEF ClientInv

\* The connection is closed from either side.
LEMMA DisconnectKeeps ==
  ASSUME ClientInv, conn # "none", conn' \in {"eof", "reset", "fin"},
         toDaemon' = <<>>, Disconnected,
         pending' \in Seq(Answers), toClient' \in Seq(Answers),
         OnTheWay' \in Seq(Answers), Len(OnTheWay') <= Len(OnTheWay),
         \A k \in 1..Len(OnTheWay') : OnTheWay'[k] = OnTheWay[k],
         UNCHANGED <<mutex, pc, tid, calls, stopping, answers>>
  PROVE  ClientInv'
<1>1. /\ requests' = [i \in Tid |-> "none"] /\ holder' = [R \in Resource |-> 0]
      /\ writing' = <<>>
  BY DEF Disconnected
<1>2. CLTypeOK'
  <2>1. 0 \in 0..MaxSeq
    BY ClientAssumption
  <2>2. writing' \in Seq(Answers) /\ toDaemon' \in Seq(Request)
    BY <1>1, EmptySeq
  <2>3. requests' \in [Tid -> {"none", "wait", "try", "refused", "over"}]
        /\ holder' \in [Resource -> 0..MaxSeq]
    BY <1>1, <2>1
  <2> QED BY <2>2, <2>3 DEF ClientInv, CLTypeOK, Request
<1>3. InCall'
  BY DEF ClientInv, InCall
<1>4. Posted'
  <2>1. DOMAIN toDaemon' = {}
    OBVIOUS
  <2>2. ASSUME NEW i \in Tid
        PROVE  /\ ~LockIn(toDaemon', i) /\ ~UnlockIn(toDaemon', i)
               /\ Unwritten(i)' => Untouched(i)'
    <3>1. ~LockIn(toDaemon', i) /\ ~UnlockIn(toDaemon', i)
      BY <2>1 DEF LockIn, UnlockIn
    <3>2. Unwritten(i)' <=> Unwritten(i)
      BY DEF Unwritten
    <3>3. Untouched(i) => Untouched(i)'
      BY <1>1 DEF Untouched
    <3> QED BY <3>1, <3>2, <3>3 DEF ClientInv, Posted
  <2>3. OnceIn(toDaemon')
    BY <2>1 DEF OnceIn
  <2> QED BY <2>2, <2>3 DEF Posted
<1>5. PICK l \in Seq(Answers), y \in Seq(Answers) : l = OnTheWay /\ y = OnTheWay'
  BY TypeFacts DEF ClientInv
<1>6. OrderedIn(l) /\ Len(y) <= Len(l) /\ \A k \in 1..Len(y) : y[k] = l[k]
  BY <1>5 DEF ClientInv, Line
<1>7. /\ OrderedIn(y)
      /\ \A i \in Tid, r \in Reply : ComingIn(y, i, r) => ComingIn(l, i, r)
      /\ \A i \in Tid : ComingIn(y, i, "GRANT") /\ ComingIn(l, i, "NAK") =>
           ComingIn(y, i, "NAK")
      /\ \A k \in DOMAIN y : \E q \in DOMAIN l : y[k] = l[q]
  BY <1>6, LinePrefix
<1>8. Line'
  <2>1. TrueTo(l, calls)
    BY <1>5 DEF ClientInv, Line
  <2>2. TrueTo(y, calls)
    BY <1>7, <2>1 DEF TrueTo
  <2> QED BY <1>5, <1>7, <2>2 DEF Line
<1>9. ASSUME NEW i \in Tid PROVE (Answered(i) /\ Way(i) /\ Recorded(i))'
  <2>1. /\ \A r \in Reply : Coming(i, r)' => Coming(i, r)
        /\ Coming(i, "GRANT")' /\ Coming(i, "NAK") => Coming(i, "NAK")'
    BY <1>5, <1>7 DEF Coming
  <2>2. Ret(i)' = Ret(i) /\ \A r : Given(i, r)' <=> Given(i, r)
    BY DEF Ret, Given
  <2>3. Way(i)'
    BY <2>1, <2>2 DEF ClientInv, Way, Reply
  <2>4. Answered(i)' /\ Recorded(i)'
    BY DEF ClientInv, Answered, Recorded
  <2> QED BY <2>3, <2>4
<1> QED
  BY <1>2, <1>3, <1>4, <1>8, <1>9 DEF ClientInv

LEMMA FinKeeps ==
  ASSUME ClientInv, cpg_lock_fin
  PROVE  ClientInv'
<1>1. /\ pending' = <<>> /\ toClient' = <<>> /\ writing' = <<>> /\ conn # "none"
  BY DEF cpg_lock_fin, Disconnected
<1>2. OnTheWay' = <<>>
  <2>1. <<>> \o <<>> = <<>>
    BY ConcatEmptySeq, EmptySeq
  <2> QED BY <1>1, <2>1 DEF OnTheWay
<1>3. <<>> \in Seq(Answers) /\ Len(<<>>) = 0 /\ Len(OnTheWay) \in Nat
  BY EmptySeq, TypeFacts, LenProperties DEF ClientInv
<1>4. Len(OnTheWay') <= Len(OnTheWay) /\ \A k \in 1..Len(OnTheWay') : OnTheWay'[k] = OnTheWay[k]
  BY <1>2, <1>3
<1> QED
  BY <1>1, <1>2, <1>3, <1>4, DisconnectKeeps DEF cpg_lock_fin

LEMMA DropClientsKeeps ==
  ASSUME ClientInv, drop_all_clients
  PROVE  ClientInv'
<1>1. /\ conn # "none" /\ conn' \in {"eof", "reset"} /\ toDaemon' = <<>> /\ Disconnected
      /\ writing' = <<>>
      /\ UNCHANGED <<mutex, pc, tid, calls, pending, toClient, stopping, answers>>
  BY DEF drop_all_clients, Disconnected, libVars
<1>2. pending \in Seq(Answers) /\ toClient \in Seq(Answers) /\ writing \in Seq(Answers)
  BY TypeFacts DEF ClientInv
<1>3. PICK u \in Seq(Answers) : u = pending \o toClient
  BY <1>2, ConcatProperties
<1>4. OnTheWay' = u
  <2>1. u \o <<>> = u
    BY ConcatEmptySeq
  <2> QED BY <1>1, <1>3, <2>1 DEF OnTheWay
<1>5. /\ Len(u \o writing) = Len(u) + Len(writing)
      /\ \A k \in 1..Len(u) + Len(writing) :
           (u \o writing)[k] = IF k <= Len(u) THEN u[k] ELSE writing[k - Len(u)]
  BY <1>2, ConcatProperties
<1>6. OnTheWay = u \o writing /\ Len(u) \in Nat /\ Len(writing) \in Nat
  BY <1>2, <1>3, LenProperties DEF OnTheWay
<1>7. Len(OnTheWay') <= Len(OnTheWay) /\ \A k \in 1..Len(OnTheWay') : OnTheWay'[k] = OnTheWay[k]
  BY <1>4, <1>5, <1>6
<1> QED
  BY <1>1, <1>2, <1>4, <1>7, DisconnectKeeps

-----------------------------------------------------------------------------
(***************************************************************************)
(* The steps of the daemon.                                                *)
(***************************************************************************)

LEMMA ReadRequestKeeps ==
  ASSUME ClientInv, client_activity_cb
  PROVE  ClientInv'
<1>1. PICK m : m = Head(toDaemon)
  OBVIOUS
<1>2. /\ conn = "open" /\ toDaemon # <<>> /\ toDaemon' = Tail(toDaemon)
      /\ \/ /\ m.request = "LOCK"
            /\ requests' = [requests EXCEPT ![m.owner_tid] = IF m.try THEN "try" ELSE "wait"]
            /\ UNCHANGED holder
         \/ /\ m.request = "UNLOCK"
            /\ holder' = [R \in Resource |-> IF holder[R] = m.lockid THEN 0 ELSE holder[R]]
            /\ UNCHANGED requests
      /\ UNCHANGED <<conn, mutex, pc, tid, calls, pending, toClient, stopping, writing, answers>>
  BY <1>1 DEF client_activity_cb, libVars
<1>3. /\ toDaemon \in Seq(Request) /\ OnceIn(toDaemon)
      /\ requests \in [Tid -> {"none", "wait", "try", "refused", "over"}]
      /\ holder \in [Resource -> 0..MaxSeq]
  BY TypeFacts DEF ClientInv, Posted, CLTypeOK
<1>4. /\ OnceIn(toDaemon') /\ m \in Request
      /\ \A i \in Tid : LockIn(toDaemon', i) =>
           LockIn(toDaemon, i) /\ ~(m.request = "LOCK" /\ m.owner_tid = i)
      /\ \A i \in Tid : UnlockIn(toDaemon', i) => UnlockIn(toDaemon, i)
      /\ m.request = "LOCK" => LockIn(toDaemon, m.owner_tid)
      /\ m.request = "UNLOCK" => UnlockIn(toDaemon, m.lockid)
  BY <1>1, <1>2, <1>3, QueueTail
<1>5. toDaemon' \in Seq(Request)
  BY <1>2, <1>3, HeadTailProperties
<1>6. CLTypeOK'
  <2>1. requests' \in [Tid -> {"none", "wait", "try", "refused", "over"}]
    BY <1>2, <1>3
  <2>2. holder' \in [Resource -> 0..MaxSeq]
    <3>1. 0 \in 0..MaxSeq
      BY ClientAssumption
    <3> QED BY <1>2, <1>3, <3>1
  <2> QED BY <1>2, <1>5, <2>1, <2>2 DEF ClientInv, CLTypeOK, Request
<1>7. InCall'
  BY <1>2 DEF ClientInv, InCall
<1>8. \A i \in Tid : Ret(i)' = Ret(i) /\ (Unwritten(i)' <=> Unwritten(i))
  BY <1>2 DEF Ret, Unwritten
<1>9. OnTheWay' = OnTheWay
  BY <1>2 DEF OnTheWay
<1>10. Line'
  BY <1>2, <1>9 DEF ClientInv, Line
<1>11. ASSUME NEW i \in Tid
       PROVE  /\ Way(i)' /\ (Coming(i, "GRANT")' <=> Coming(i, "GRANT"))
              /\ calls'[i].resource = calls[i].resource
  <2>1. \A r : (Coming(i, r)' <=> Coming(i, r)) /\ (Given(i, r)' <=> Given(i, r))
    BY <1>2, <1>9 DEF Coming, Given
  <2> QED BY <1>2, <1>8, <2>1 DEF ClientInv, Way
<1>12. CASE m.request = "LOCK"
  <2>1. PICK n \in Tid : n = m.owner_tid
    BY <1>4, <1>12 DEF Request
  <2>2. /\ UNCHANGED holder
        /\ \A i \in Tid : i # n => requests'[i] = requests[i]
        /\ requests'[n] \in {"wait", "try"}
    BY <1>2, <1>3, <1>12, <2>1
  <2>3. LockIn(toDaemon, n) /\ Untouched(n) /\ ~Unwritten(n)
    BY <1>4, <1>12, <2>1 DEF ClientInv, Posted
  <2>4. ASSUME NEW i \in Tid
        PROVE  /\ Unwritten(i)' => ~LockIn(toDaemon', i)
               /\ Unwritten(i)' \/ LockIn(toDaemon', i) => Untouched(i)'
               /\ UnlockIn(toDaemon', i) => Ret(i)' = "unlocked"
    <3>1. Unwritten(i)' \/ LockIn(toDaemon', i) =>
            i # n /\ (Unwritten(i) \/ LockIn(toDaemon, i))
      BY <1>4, <1>8, <1>12, <2>1, <2>3
    <3>2. i # n => (Untouched(i)' <=> Untouched(i))
      BY <1>2, <2>2 DEF Untouched
    <3> QED BY <1>4, <1>8, <3>1, <3>2 DEF ClientInv, Posted
  <2>5. Posted'
    BY <1>4, <2>4 DEF Posted
  <2>6. ASSUME NEW i \in Tid PROVE Answered(i)'
    <3>1. CASE i = n
      <4>1. answers'[i] = <<>> /\ requests'[i] \in {"wait", "try"}
        BY <1>2, <2>2, <2>3, <3>1 DEF Untouched
      <4> QED BY <4>1 DEF Answered
    <3>2. CASE i # n
      BY <1>2, <2>2, <3>2 DEF ClientInv, Answered
    <3> QED BY <3>1, <3>2
  <2>7. ASSUME NEW i \in Tid PROVE Recorded(i)'
    BY <1>2, <1>8, <1>11, <2>2 DEF ClientInv, Recorded
  <2> QED BY <1>6, <1>7, <1>10, <1>11, <2>5, <2>6, <2>7 DEF ClientInv
<1>13. CASE m.request = "UNLOCK"
  <2>1. PICK n \in Tid : n = m.lockid
    BY <1>4, <1>13 DEF Request
  <2>2. /\ UNCHANGED requests
        /\ holder' = [R \in Resource |-> IF holder[R] = n THEN 0 ELSE holder[R]]
    BY <1>2, <1>13, <2>1
  <2>3. Ret(n) = "unlocked"
    BY <1>4, <1>13, <2>1 DEF ClientInv, Posted
  <2>4. ASSUME NEW i \in Tid
        PROVE  /\ Unwritten(i)' => ~LockIn(toDaemon', i)
               /\ Unwritten(i)' \/ LockIn(toDaemon', i) => Untouched(i)'
               /\ UnlockIn(toDaemon', i) => Ret(i)' = "unlocked"
    <3>1. Untouched(i)' <=> Untouched(i)
      BY <1>2, <2>2 DEF Untouched
    <3> QED BY <1>4, <1>8, <3>1 DEF ClientInv, Posted
  <2>5. Posted'
    BY <1>4, <2>4 DEF Posted
  <2>6. ASSUME NEW i \in Tid PROVE Answered(i)'
    BY <1>2, <2>2 DEF ClientInv, Answered
  <2>7. ASSUME NEW i \in Tid PROVE Recorded(i)'
    <3>1. SUFFICES ASSUME Ret(i) = "GRANT" \/ Coming(i, "GRANT")
                   PROVE  holder'[calls[i].resource] = i
      BY <1>8, <1>11 DEF Recorded
    <3>2. i # n
      BY <2>3, <3>1 DEF ClientInv, Way
    <3>3. i \in DOMAIN calls
      BY <3>1, ComingMade DEF ClientInv, Ret
    <3>4. calls[i].resource \in Resource
      BY <3>3, MadeTid DEF ClientInv, CallRecord
    <3>5. holder[calls[i].resource] = i
      BY <1>2, <3>1 DEF ClientInv, Recorded
    <3> QED BY <2>2, <3>2, <3>4, <3>5
  <2> QED BY <1>6, <1>7, <1>10, <1>11, <2>5, <2>6, <2>7 DEF ClientInv
<1> QED
  BY <1>2, <1>12, <1>13

\* An answer is given to a call the daemon has heard of: what the line of
\* answers, the record of requests and the record of holders become.
LEMMA AnswerKeeps ==
  ASSUME ClientInv, NEW i \in Tid, NEW a \in Reply, NEW s \in {"over", "refused"},
         requests[i] \in {"wait", "try", "refused"},
         a = "NAK" => requests[i] # "refused",
         s = "refused" => a = "NAK",
         BeginAnswer(i, AnswerMsg(a, i)),
         requests' = [requests EXCEPT ![i] = s],
         a = "NAK" => holder' = holder,
         a = "GRANT" => /\ holder[calls[i].resource] = 0
                        /\ holder' = [holder EXCEPT ![calls[i].resource] = i],
         UNCHANGED <<conn, mutex, pc, tid, calls, pending, toDaemon, toClient, stopping>>
  PROVE  ClientInv' /\ i \in DOMAIN calls
<1>1. /\ requests \in [Tid -> {"none", "wait", "try", "refused", "over"}]
      /\ holder \in [Resource -> 0..MaxSeq] /\ answers \in [Tid -> Seq(Reply)]
  BY DEF ClientInv, CLTypeOK, Reply
<1>2. ~Unwritten(i) /\ ~LockIn(toDaemon, i)
  BY DEF ClientInv, Posted, Untouched
<1>3. i \in DOMAIN calls /\ calls[i].resource \in Resource
  BY <1>2, MadeTid DEF ClientInv, Unwritten, CallRecord
<1>4. PICK m : m = AnswerMsg(a, i)
  OBVIOUS
<1>5. m \in Answers /\ m.request = a /\ m.owner_tid = i /\ m.resource = calls[i].resource
  BY <1>3, <1>4 DEF AnswerMsg, Answers, Reply
<1>6. /\ conn = "open" /\ writing = <<>> /\ writing' = <<m>>
      /\ answers' = [answers EXCEPT ![i] = Append(@, a)]
  BY <1>4, <1>5 DEF BeginAnswer
<1>7. /\ answers[i] = IF requests[i] = "refused" THEN <<"NAK">> ELSE <<>>
      /\ answers'[i] = IF requests[i] = "refused" THEN <<"NAK", "GRANT">> ELSE <<a>>
  <2>1. answers[i] = IF requests[i] = "refused" THEN <<"NAK">> ELSE <<>>
    BY <1>6 DEF ClientInv, Answered
  <2>2. answers'[i] = Append(answers[i], a)
    BY <1>1, <1>6
  <2>3. CASE requests[i] = "refused"
    <3>1. a = "GRANT"
      BY <2>3 DEF Reply
    <3>2. Append(<<"NAK">>, "GRANT") = <<"NAK", "GRANT">>
      <4>1. PICK u : u = <<"NAK">>
        OBVIOUS
      <4>2. PICK v : v = <<"NAK", "GRANT">>
        OBVIOUS
      <4>3. PICK g \in Reply, n \in Reply : g = "GRANT" /\ n = "NAK"
        BY DEF Reply
      <4>4. u \in Seq(Reply) /\ Len(u) = 1 /\ u[1] = n
        BY <4>1, <4>3
      <4>5. v \in Seq(Reply) /\ Len(v) = 2 /\ v[1] = n /\ v[2] = g
        BY <4>2, <4>3
      <4>6. /\ Append(u, g) \in Seq(Reply)
            /\ Len(Append(u, g)) = Len(u) + 1
            /\ \A k \in 1..Len(u) : Append(u, g)[k] = u[k]
            /\ Append(u, g)[Len(u) + 1] = g
        <5>1. u \in Seq(Reply)
          BY <4>4
        <5> QED BY <5>1, AppendProperties
      <4>7. PICK w : w = Append(u, g)
        OBVIOUS
      <4>8. w \in Seq(Reply) /\ Len(w) = 2 /\ w[1] = n /\ w[2] = g
        BY <4>4, <4>6, <4>7
      <4>9. \A k \in 1..Len(w) : w[k] = v[k]
        BY <4>5, <4>8
      <4>10. w = v
        BY <4>5, <4>8, <4>9, SeqEqual
      <4> QED BY <4>1, <4>2, <4>3, <4>7, <4>10
    <3> QED BY <2>1, <2>2, <2>3, <3>1, <3>2
  <2>4. CASE requests[i] # "refused"
    <3>1. Append(<<>>, a) = <<a>>
      OBVIOUS
    <3> QED BY <2>1, <2>2, <2>4, <3>1
  <2> QED BY <2>1, <2>3, <2>4
<1>8. CLTypeOK'
  <2>1. writing' \in Seq(Answers)
    BY <1>5, <1>6
  <2>2. answers' \in [Tid -> Seq(Reply)]
    <3>1. Append(answers[i], a) \in Seq(Reply)
      BY <1>1, AppendProperties
    <3> QED BY <1>1, <1>6, <3>1
  <2>3. requests' \in [Tid -> {"none", "wait", "try", "refused", "over"}]
    BY <1>1
  <2>4. holder' \in [Resource -> 0..MaxSeq]
    <3>1. i \in 0..MaxSeq
      BY ClientAssumption DEF Tid
    <3>2. a = "NAK" \/ a = "GRANT"
      BY DEF Reply
    <3> QED BY <1>1, <1>3, <3>1, <3>2
  <2> QED BY <2>1, <2>2, <2>3, <2>4 DEF ClientInv, CLTypeOK, Reply
<1>9. InCall'
  BY DEF ClientInv, InCall
<1>10. \A j \in Tid : Ret(j)' = Ret(j) /\ (Unwritten(j)' <=> Unwritten(j))
  BY DEF Ret, Unwritten
<1>11. Posted'
  <2>1. ASSUME NEW j \in Tid
        PROVE  /\ Unwritten(j)' => ~LockIn(toDaemon', j)
               /\ Unwritten(j)' \/ LockIn(toDaemon', j) => Untouched(j)'
               /\ UnlockIn(toDaemon', j) => Ret(j)' = "unlocked"
    <3>1. j # i => (Untouched(j)' <=> Untouched(j))
      BY <1>1, <1>6 DEF Untouched
    <3> QED BY <1>2, <1>10, <3>1 DEF ClientInv, Posted
  <2> QED BY <2>1 DEF ClientInv, Posted
<1>12. PICK l \in Seq(Answers) : l = OnTheWay
  BY TypeFacts DEF ClientInv
<1>13. OnTheWay' = Append(l, m)
  <2>1. PICK u \in Seq(Answers) : u = pending \o toClient
    BY TypeFacts, ConcatProperties DEF ClientInv
  <2>2. u \o <<>> = u
    BY ConcatEmptySeq
  <2>3. Append(u, m) = u \o <<m>>
    BY <1>5, AppendIsConcat
  <2> QED BY <1>6, <1>12, <2>1, <2>2, <2>3 DEF OnTheWay
<1>14. ~Given(i, a) /\ (a = "NAK" => ~Given(i, "GRANT"))
  BY <1>7 DEF Given, Reply
<1>15. /\ OrderedIn(l) /\ ~ComingIn(l, m.owner_tid, m.request)
       /\ m.request = "NAK" => ~ComingIn(l, m.owner_tid, "GRANT")
  <2>1. ~Coming(i, a) /\ (a = "NAK" => ~Coming(i, "GRANT"))
    BY <1>14 DEF ClientInv, Way, Reply
  <2> QED BY <1>5, <1>12, <2>1 DEF ClientInv, Line, Coming
<1>16. /\ OrderedIn(Append(l, m))
       /\ \A j \in Tid, r \in Reply : ComingIn(Append(l, m), j, r) <=>
            ComingIn(l, j, r) \/ (m.owner_tid = j /\ m.request = r)
       /\ \A k \in DOMAIN Append(l, m) :
            Append(l, m)[k] = m \/ \E p \in DOMAIN l : Append(l, m)[k] = l[p]
  BY <1>5, <1>15, LineAppend
<1>17. \A j \in Tid, r \in Reply : Coming(j, r)' <=> Coming(j, r) \/ (i = j /\ a = r)
  BY <1>5, <1>12, <1>13, <1>16 DEF Coming
<1>18. Line'
  <2>1. TrueTo(l, calls)
    BY <1>12 DEF ClientInv, Line
  <2>2. TrueTo(Append(l, m), calls)
    BY <1>3, <1>5, <1>16, <2>1 DEF TrueTo
  <2> QED BY <1>13, <1>16, <2>2 DEF Line
<1>19. "GRANT" \in Reply /\ "NAK" \in Reply /\ (a = "GRANT" \/ a = "NAK")
  BY DEF Reply
<1>20. ASSUME NEW j \in Tid, j # i PROVE (Answered(j) /\ Way(j))'
  <2>1. answers'[j] = answers[j] /\ requests'[j] = requests[j]
    BY <1>1, <1>6, <1>20
  <2>2. \A r : Given(j, r)' <=> Given(j, r)
    BY <2>1 DEF Given
  <2>3. \A r \in Reply : Coming(j, r)' <=> Coming(j, r)
    BY <1>17, <1>20
  <2>4. Answered(j) /\ Way(j)
    BY DEF ClientInv
  <2>5. Way(j)'
    BY <1>10, <1>19, <2>2, <2>3, <2>4 DEF Way
  <2> QED BY <2>1, <2>4, <2>5 DEF Answered
<1>21. Answered(i)'
  <2>1. requests'[i] = s
    BY <1>1
  <2>2. requests[i] = "refused" => a = "GRANT"
    BY <1>19
  <2>3. CASE requests[i] = "refused"
    BY <1>7, <2>1, <2>2, <2>3 DEF Answered
  <2>4. CASE requests[i] # "refused"
    BY <1>7, <1>19, <2>1, <2>4 DEF Answered
  <2> QED BY <2>3, <2>4
<1>22. Way(i)'
  <2>1. /\ Given(i, a)' /\ (Given(i, "NAK") => Given(i, "NAK")')
        /\ a = "GRANT" => ~Given(i, "GRANT") /\ (Given(i, "NAK")' => Given(i, "NAK"))
        /\ a = "NAK" => ~Given(i, "GRANT") /\ ~Given(i, "NAK") /\ ~Given(i, "GRANT")'
    BY <1>7, <1>19 DEF Given
  <2>2. Way(i)
    BY DEF ClientInv
  <2>3. Ret(i)' = Ret(i) /\ conn' = "open"
    BY <1>6, <1>10
  <2>4. CASE a = "GRANT"
    <3>1. /\ Coming(i, "GRANT")' /\ (Coming(i, "NAK")' <=> Coming(i, "NAK"))
      BY <1>17, <1>19, <2>4
    <3> QED BY <1>6, <2>1, <2>2, <2>3, <2>4, <3>1 DEF Way, Reply
  <2>5. CASE a = "NAK"
    <3>1. /\ Coming(i, "NAK")' /\ (Coming(i, "GRANT")' <=> Coming(i, "GRANT"))
      BY <1>17, <1>19, <2>5
    <3> QED BY <1>6, <2>1, <2>2, <2>3, <2>5, <3>1 DEF Way, Reply
  <2> QED BY <1>19, <2>4, <2>5
<1>23. ASSUME NEW j \in Tid PROVE Recorded(j)'
  <2>1. CASE a = "NAK"
    <3>1. Coming(j, "GRANT")' <=> Coming(j, "GRANT")
      BY <1>17, <1>19, <2>1
    <3> QED BY <1>10, <2>1, <3>1 DEF ClientInv, Recorded
  <2>2. CASE a = "GRANT" /\ j = i
    BY <1>1, <1>3, <2>2 DEF Recorded
  <2>3. CASE a = "GRANT" /\ j # i
    <3>1. SUFFICES ASSUME Ret(j) = "GRANT" \/ Coming(j, "GRANT")
                   PROVE  holder'[calls[j].resource] = j
      BY <1>10, <1>17, <1>19, <2>3 DEF Recorded
    <3>2. holder[calls[j].resource] = j
      BY <1>6, <3>1 DEF ClientInv, Recorded
    <3>3. j # 0
      BY DEF Tid
    <3>4. calls[j].resource # calls[i].resource
      BY <2>3, <3>2, <3>3
    <3>5. j \in DOMAIN calls
      BY <3>1, ComingMade DEF ClientInv, Ret
    <3>6. calls[j].resource \in Resource
      BY <3>5, MadeTid DEF ClientInv, CallRecord
    <3> QED BY <1>1, <2>3, <3>2, <3>4, <3>6
  <2> QED BY <1>19, <2>1, <2>2, <2>3
<1> QED
  BY <1>3, <1>8, <1>9, <1>11, <1>18, <1>20, <1>21, <1>22, <1>23 DEF ClientInv

LEMMA GrantKeeps ==
  ASSUME ClientInv, NEW i \in Tid, grant_client(i)
  PROVE  ClientInv' /\ i \in DOMAIN calls
<1>1. /\ requests[i] \in {"wait", "try", "refused"} /\ BeginAnswer(i, AnswerMsg("GRANT", i))
      /\ requests' = [requests EXCEPT ![i] = "over"]
      /\ holder[calls[i].resource] = 0
      /\ holder' = [holder EXCEPT ![calls[i].resource] = i]
      /\ UNCHANGED <<conn, mutex, pc, tid, calls, pending, toDaemon, toClient, stopping>>
  BY DEF grant_client, libVars
<1>2. PICK a \in Reply, s \in {"over", "refused"} : a = "GRANT" /\ s = "over"
  BY DEF Reply
<1> QED
  BY <1>1, <1>2, AnswerKeeps

LEMMA NakKeeps ==
  ASSUME ClientInv, NEW i \in Tid, nak_client(i) \/ drop_all_requests(i)
  PROVE  ClientInv' /\ i \in DOMAIN calls
<1>1. PICK s \in {"over", "refused"} :
        /\ requests[i] \in {"wait", "try"} /\ BeginAnswer(i, AnswerMsg("NAK", i))
        /\ requests' = [requests EXCEPT ![i] = s] /\ holder' = holder
        /\ UNCHANGED <<conn, mutex, pc, tid, calls, pending, toDaemon, toClient, stopping>>
  BY DEF nak_client, drop_all_requests, libVars
<1>2. PICK a \in Reply : a = "NAK"
  BY DEF Reply
<1> QED
  BY <1>1, <1>2, AnswerKeeps

LEMMA DaemonWriteKeeps ==
  ASSUME ClientInv, DaemonWrite
  PROVE  ClientInv'
<1>1. /\ toClient' = toClient \o writing /\ writing' = <<>>
      /\ UNCHANGED <<conn, mutex, pc, tid, calls, pending, toDaemon, stopping,
                     requests, holder, answers>>
  BY DEF DaemonWrite, libVars
<1>2. pending \in Seq(Answers) /\ toClient \in Seq(Answers) /\ writing \in Seq(Answers)
  BY TypeFacts DEF ClientInv
<1>3. toClient' \in Seq(Answers) /\ writing' \in Seq(Answers)
  BY <1>1, <1>2, ConcatProperties, EmptySeq
<1>4. CLTypeOK'
  BY <1>1, <1>3 DEF ClientInv, CLTypeOK
<1>5. OnTheWay' = OnTheWay
  <2>1. (pending \o toClient) \o writing = pending \o (toClient \o writing)
    BY <1>2, ConcatAssociative
  <2>2. PICK u \in Seq(Answers) : u = pending \o (toClient \o writing)
    BY <1>1, <1>2, <1>3, ConcatProperties
  <2>3. u \o <<>> = u
    BY ConcatEmptySeq
  <2> QED BY <1>1, <2>1, <2>2, <2>3 DEF OnTheWay
<1>6. InCall'
  BY <1>1 DEF ClientInv, InCall
<1>7. \A i \in Tid : Ret(i)' = Ret(i) /\ (Unwritten(i)' => Unwritten(i))
  BY <1>1 DEF Ret, Unwritten
<1>8. Posted'
  BY <1>1, <1>7, PostedStays
<1> QED
  BY <1>1, <1>4, <1>5, <1>6, <1>7, <1>8, QuietKeeps DEF ClientInv

LEMMA DaemonStopsKeeps ==
  ASSUME ClientInv, DaemonStops
  PROVE  ClientInv'
<1>1. /\ stopping' = TRUE
      /\ UNCHANGED <<conn, mutex, pc, tid, calls, pending, toDaemon, toClient,
                     requests, holder, writing, answers>>
  BY DEF DaemonStops, libVars
<1>2. CLTypeOK'
  BY <1>1 DEF ClientInv, CLTypeOK
<1>3. InCall' /\ OnTheWay' = OnTheWay
  BY <1>1 DEF ClientInv, InCall, OnTheWay
<1>4. \A i \in Tid : Ret(i)' = Ret(i) /\ (Unwritten(i)' => Unwritten(i))
  BY <1>1 DEF Ret, Unwritten
<1>5. Posted'
  BY <1>1, <1>4, PostedStays
<1> QED
  BY <1>1, <1>2, <1>3, <1>4, <1>5, QuietKeeps DEF ClientInv

-----------------------------------------------------------------------------
(***************************************************************************)
(* The invariant holds.                                                    *)
(***************************************************************************)
LEMMA ClientInit ==
  ASSUME CLInit
  PROVE  ClientInv
<1>1. MaxSeq \in Nat /\ 0 \in 0..MaxSeq
  BY ClientAssumption
<1>2. CLTypeOK
  BY <1>1, EmptySeq DEF CLInit, CLTypeOK, PC
<1>3. calls = <<>> /\ toDaemon = <<>> /\ DOMAIN calls = {} /\ DOMAIN toDaemon = {} /\ Len(calls) = 0
  BY DEF CLInit
<1>4. InCall
  BY <1>1, <1>3 DEF CLInit, InCall
<1>5. OnTheWay = <<>> /\ DOMAIN OnTheWay = {}
  <2>1. <<>> \o <<>> = <<>>
    BY ConcatEmptySeq, EmptySeq
  <2> QED BY <2>1 DEF CLInit, OnTheWay
<1>6. Line
  BY <1>5 DEF Line, OrderedIn, TrueTo
<1>7. ASSUME NEW i \in Tid
      PROVE  /\ requests[i] = "none" /\ answers[i] = <<>> /\ Ret(i) = "none"
             /\ ~LockIn(toDaemon, i) /\ ~UnlockIn(toDaemon, i)
             /\ \A r : ~Coming(i, r) /\ ~Given(i, r)
  BY <1>3, <1>5 DEF CLInit, Ret, LockIn, UnlockIn, Coming, ComingIn, Given
<1>8. Posted
  BY <1>3, <1>7 DEF Posted, OnceIn, Untouched
<1>9. \A i \in Tid : Answered(i) /\ Way(i) /\ Recorded(i)
  BY <1>7 DEF Answered, Way, Recorded
<1> QED
  BY <1>2, <1>4, <1>6, <1>8, <1>9 DEF ClientInv

LEMMA ThreadKeeps ==
  ASSUME ClientInv, NEW t \in Thread, ThreadStep(t)
  PROVE  ClientInv'
<1>1. CASE Relock(t)
  BY <1>1, RelockKeeps
<1>2. CASE WriteLock(t)
  BY <1>2, WriteLockKeeps
<1>3. CASE TakePending(t) \/ ReadOwn(t)
  BY <1>3, FoundFirst, ReturnKeeps
<1>4. CASE ReadOther(t)
  BY <1>4, ReadOtherKeeps
<1>5. CASE ReadTimeout(t)
  BY <1>5, ReadTimeoutKeeps
<1>6. CASE ReadFails(t)
  BY <1>6, ReadFailsKeeps
<1>7. CASE \E R \in Wants[t] : Enter(t, R)
  BY <1>7, EnterKeeps
<1>8. CASE \E i \in DOMAIN calls : cpg_unlock(t, i)
  BY <1>8, UnlockKeeps
<1> QED
  BY <1>1, <1>2, <1>3, <1>4, <1>5, <1>6, <1>7, <1>8 DEF ThreadStep, Poll

LEMMA StutterKeeps ==
  ASSUME ClientInv, UNCHANGED clvars
  PROVE  ClientInv'
<1>1. UNCHANGED <<conn, mutex, pc, tid, calls, pending, toDaemon, toClient,
                  stopping, requests, holder, writing, answers>>
  BY DEF clvars
<1>2. CLTypeOK' /\ InCall' /\ OnTheWay' = OnTheWay
  BY <1>1 DEF ClientInv, CLTypeOK, InCall, OnTheWay
<1>3. \A i \in Tid : Ret(i)' = Ret(i) /\ (Unwritten(i)' => Unwritten(i))
  BY <1>1 DEF Ret, Unwritten
<1>4. Posted'
  BY <1>1, <1>3, PostedStays
<1> QED
  BY <1>1, <1>2, <1>3, <1>4, QuietKeeps DEF ClientInv

LEMMA ClientStep ==
  ASSUME ClientInv, [CLNext]_clvars
  PROVE  ClientInv'
<1>1. CASE cpg_lock_init
  BY <1>1, ConnectKeeps
<1>2. CASE cpg_lock_fin
  BY <1>2, FinKeeps
<1>3. CASE \E t \in Thread : ThreadStep(t)
  BY <1>3, ThreadKeeps
<1>4. CASE client_activity_cb
  BY <1>4, ReadRequestKeeps
<1>5. CASE DaemonWrite
  BY <1>5, DaemonWriteKeeps
<1>6. CASE DaemonStops
  BY <1>6, DaemonStopsKeeps
<1>7. CASE drop_all_clients
  BY <1>7, DropClientsKeeps
<1>8. CASE \E i \in Tid : grant_client(i) \/ nak_client(i) \/ drop_all_requests(i)
  BY <1>8, GrantKeeps, NakKeeps
<1>9. CASE UNCHANGED clvars
  BY <1>9, StutterKeeps
<1> QED
  BY <1>1, <1>2, <1>3, <1>4, <1>5, <1>6, <1>7, <1>8, <1>9 DEF CLNext, DaemonStep

(***************************************************************************)
(* ClientInv is an inductive invariant of the handle, the socket and the   *)
(* daemon's side of it (cpg_lock, cpg_unlock, client_activity_cb).         *)
(***************************************************************************)
THEOREM ClientInductive == CLSpec => []ClientInv
  BY ClientInit, ClientStep, PTL DEF CLSpec

(***************************************************************************)
(* Type correctness of the handle (cpg_lock_handle_t) and of what both     *)
(* sides of the socket keep.                                               *)
(***************************************************************************)
THEOREM ClientTypeCorrect == CLSpec => []CLTypeOK
<1>1. ClientInv => CLTypeOK
  BY DEF ClientInv
<1> QED
  BY <1>1, ClientInductive, PTL

(***************************************************************************)
(* While the connection lasts, the call to which cpg_lock returned 0 is    *)
(* the one on the daemon's record, whichever threads read the answers: the *)
(* UNLOCK it will send finds its lock.                                     *)
(***************************************************************************)
THEOREM HeldIsRecorded == CLSpec => []HeldAsRecorded
<1>1. ClientInv => HeldAsRecorded
  BY MadeTid DEF ClientInv, Recorded, Ret, HeldAsRecorded
<1> QED
  BY <1>1, ClientInductive, PTL

\* What was given is what stands in answers[i].
LEMMA GivenIsThere ==
  ASSUME NEW i \in Tid, Answered(i)
  PROVE  /\ \A r \in Reply : Given(i, r) <=> \E a \in DOMAIN answers[i] : answers[i][a] = r
         /\ \A a \in DOMAIN answers[i] : answers[i][a] \in Reply
         /\ \A a, b \in DOMAIN answers[i] :
              a < b => answers[i][a] = "NAK" /\ answers[i][b] = "GRANT"
<1>1. CASE answers[i] = <<>>
  <2>1. DOMAIN answers[i] = {}
    BY <1>1
  <2> QED BY <1>1, <2>1 DEF Given
<1>2. ASSUME NEW x \in Reply, answers[i] = <<x>>
      PROVE  /\ \A r \in Reply : Given(i, r) <=> \E a \in DOMAIN answers[i] : answers[i][a] = r
             /\ \A a \in DOMAIN answers[i] : answers[i][a] \in Reply
             /\ \A a, b \in DOMAIN answers[i] :
                  a < b => answers[i][a] = "NAK" /\ answers[i][b] = "GRANT"
  <2>1. DOMAIN answers[i] = {1} /\ answers[i][1] = x
    BY <1>2
  <2>2. ASSUME NEW r \in Reply PROVE Given(i, r) <=> r = x
    BY <1>2 DEF Given
  <2> QED BY <2>1, <2>2
<1>3. CASE answers[i] = <<"NAK", "GRANT">>
  <2>1. DOMAIN answers[i] = {1, 2} /\ answers[i][1] = "NAK" /\ answers[i][2] = "GRANT"
    BY <1>3
  <2>2. ASSUME NEW r \in Reply PROVE Given(i, r)
    BY <1>3 DEF Given
  <2> QED BY <2>1, <2>2 DEF Reply
<1>4. "GRANT" \in Reply /\ "NAK" \in Reply
  BY DEF Reply
<1> QED
  BY <1>1, <1>2, <1>3, <1>4 DEF Answered

\* The answers in the line are those under way.
LEMMA AnswersAreComing ==
  ASSUME ClientInv, NEW i \in Tid
  PROVE  /\ \A k \in AnswersTo(i) : /\ OnTheWay[k].request \in Reply
                                    /\ Coming(i, OnTheWay[k].request)
         /\ \A r : Coming(i, r) => \E k \in AnswersTo(i) : OnTheWay[k].request = r
         /\ \A k, m \in AnswersTo(i) :
              OnTheWay[k].request = OnTheWay[m].request => k = m
         /\ \A k, m \in AnswersTo(i) :
              OnTheWay[k].request = "NAK" /\ OnTheWay[m].request = "GRANT" => k < m
<1>1. \A k \in DOMAIN OnTheWay : OnTheWay[k] \in Answers
  BY TypeFacts, LenProperties, ElementOfSeq DEF ClientInv
<1>2. \A k \in AnswersTo(i) : k \in DOMAIN OnTheWay /\ OnTheWay[k].owner_tid = i
  BY DEF AnswersTo
<1>3. \A k \in AnswersTo(i) : OnTheWay[k].request \in Reply
  BY <1>1, <1>2 DEF Answers, Reply
<1> QED
  BY <1>2, <1>3 DEF ClientInv, Line, OrderedIn, Coming, ComingIn, AnswersTo

(***************************************************************************)
(* What stays behind on h->pending (add_pending, check_pending): nothing   *)
(* for a call that was granted its lock, and for one that was refused at   *)
(* most the GRANT that came after the NAK.                                 *)
(***************************************************************************)
THEOREM LateGrantsOnly == CLSpec => []OnlyLateGrantsStay
<1>1. ASSUME ClientInv PROVE OnlyLateGrantsStay
  <2>1. SUFFICES ASSUME NEW i \in DOMAIN calls,
                        calls[i].ret # "none", AnswersTo(i) # {}
                 PROVE  /\ calls[i].ret \in {"NAK", "error"}
                        /\ calls[i].ret = "NAK" =>
                             \E k \in AnswersTo(i) :
                               AnswersTo(i) = {k} /\ OnTheWay[k].request = "GRANT"
    BY DEF OnlyLateGrantsStay
  <2>2. i \in Tid /\ calls[i] \in CallRecord
    BY <1>1, MadeTid DEF ClientInv
  <2>3. Ret(i) = calls[i].ret /\ Way(i)
    BY <1>1, <2>2 DEF Ret, ClientInv
  <2>4. /\ \A k \in AnswersTo(i) : /\ OnTheWay[k].request \in Reply
                                   /\ Coming(i, OnTheWay[k].request)
        /\ \A k, m \in AnswersTo(i) :
             OnTheWay[k].request = OnTheWay[m].request => k = m
    BY <1>1, <2>2, AnswersAreComing
  <2>5. PICK k \in AnswersTo(i) : TRUE
    BY <2>1
  <2>6. calls[i].ret \in {"NAK", "error"}
    BY <2>1, <2>2, <2>3, <2>4, <2>5 DEF Way, Reply, CallRecord
  <2>7. ASSUME calls[i].ret = "NAK"
        PROVE  AnswersTo(i) = {k} /\ OnTheWay[k].request = "GRANT"
    <3>1. \A m \in AnswersTo(i) : OnTheWay[m].request = "GRANT"
      BY <2>3, <2>4, <2>7 DEF Way, Reply
    <3> QED BY <2>4, <2>5, <3>1
  <2> QED BY <2>6, <2>7
<1> QED
  BY <1>1, ClientInductive, PTL

(***************************************************************************)
(* While the connection lasts, the answers given to a call that has not    *)
(* returned are all in the socket or on h->pending, once each and in their *)
(* order: threads that read each other's answers lose none of them.        *)
(***************************************************************************)
THEOREM AnswersKept == CLSpec => []NoAnswerLost
<1>1. ASSUME ClientInv PROVE NoAnswerLost
  <2>1. SUFFICES ASSUME conn = "open", NEW i \in DOMAIN calls, calls[i].ret = "none"
                 PROVE  \E at \in [DOMAIN answers[i] -> AnswersTo(i)] :
                          /\ \A a, b \in DOMAIN answers[i] : a < b => at[a] < at[b]
                          /\ \A k \in AnswersTo(i) : \E a \in DOMAIN answers[i] : at[a] = k
                          /\ \A a \in DOMAIN answers[i] : OnTheWay[at[a]].request = answers[i][a]
    BY DEF NoAnswerLost
  <2>2. i \in Tid
    BY <1>1, MadeTid DEF ClientInv
  <2>3. Ret(i) = "none" /\ Way(i) /\ Answered(i)
    BY <1>1, <2>1, <2>2 DEF Ret, ClientInv
  <2> DEFINE at == [a \in DOMAIN answers[i] |->
                      CHOOSE k \in AnswersTo(i) : OnTheWay[k].request = answers[i][a]]
  <2>4. /\ \A k \in AnswersTo(i) : /\ OnTheWay[k].request \in Reply
                                   /\ Coming(i, OnTheWay[k].request)
        /\ \A r : Coming(i, r) => \E k \in AnswersTo(i) : OnTheWay[k].request = r
        /\ \A k, m \in AnswersTo(i) :
             OnTheWay[k].request = OnTheWay[m].request => k = m
        /\ \A k, m \in AnswersTo(i) :
             OnTheWay[k].request = "NAK" /\ OnTheWay[m].request = "GRANT" => k < m
    BY <1>1, <2>2, AnswersAreComing
  <2>5. /\ \A r \in Reply : Given(i, r) <=> \E a \in DOMAIN answers[i] : answers[i][a] = r
        /\ \A a \in DOMAIN answers[i] : answers[i][a] \in Reply
        /\ \A a, b \in DOMAIN answers[i] :
             a < b => answers[i][a] = "NAK" /\ answers[i][b] = "GRANT"
    BY <2>2, <2>3, GivenIsThere
  <2>6. \A r \in Reply : Given(i, r) <=> Coming(i, r)
    BY <2>1, <2>3 DEF Way
  <2>7. ASSUME NEW a \in DOMAIN answers[i]
        PROVE  at[a] \in AnswersTo(i) /\ OnTheWay[at[a]].request = answers[i][a]
    <3>1. \E k \in AnswersTo(i) : OnTheWay[k].request = answers[i][a]
      BY <2>4, <2>5, <2>6
    <3> QED BY <3>1
  <2>8. at \in [DOMAIN answers[i] -> AnswersTo(i)]
    BY <2>7
  <2> HIDE DEF at
  <2>9. \A a, b \in DOMAIN answers[i] : a < b => at[a] < at[b]
    BY <2>4, <2>5, <2>7
  <2>10. ASSUME NEW k \in AnswersTo(i) PROVE \E a \in DOMAIN answers[i] : at[a] = k
    <3>1. PICK a \in DOMAIN answers[i] : answers[i][a] = OnTheWay[k].request
      BY <2>4, <2>5, <2>6
    <3> QED BY <2>4, <2>7, <3>1
  <2> QED BY <2>7, <2>8, <2>9, <2>10
<1> QED
  BY <1>1, ClientInductive, PTL

-----------------------------------------------------------------------------
(***************************************************************************)
(* The handle implements CallService.                                      *)
(***************************************************************************)

\* The state of CallService: its first answers, what has been returned.
First == [i \in Tid |-> IF answers[i] = <<>> THEN "none" ELSE Head(answers[i])]

Result == [i \in Tid |-> IF i \notin DOMAIN calls THEN "none"
                         ELSE IF calls[i].ret = "unlocked" THEN "GRANT" ELSE calls[i].ret]

Gone == conn \in {"eof", "reset", "fin"}

\* The steps of CallService in terms of it.
LEMMA StutterStep ==
  ASSUME DOMAIN calls' = DOMAIN calls, First' = First, Result' = Result, Gone' = Gone
  PROVE  UNCHANGED Service!csvars
  BY DEF Service!csvars, First, Result, Gone

LEMMA MakeStep ==
  ASSUME NEW c \in Tid, c \notin DOMAIN calls, DOMAIN calls' = DOMAIN calls \cup {c},
         First' = First, Result' = Result, Gone' = Gone
  PROVE  Service!CSNext
<1>1. Service!Make(c)
  BY DEF Service!Make, First, Result, Gone
<1> QED BY <1>1 DEF Service!CSNext

LEMMA GiveStep ==
  ASSUME NEW c \in Tid, NEW a \in {"GRANT", "NAK"}, c \in DOMAIN calls,
         First[c] = "none", First' = [First EXCEPT ![c] = a],
         DOMAIN calls' = DOMAIN calls, Result' = Result, Gone' = Gone
  PROVE  Service!CSNext
<1>1. Service!GiveAnswer(c, a)
  BY DEF Service!GiveAnswer, First, Result, Gone
<1> QED BY <1>1 DEF Service!CSNext

LEMMA BreakStep ==
  ASSUME ~Gone, Gone',
         DOMAIN calls' = DOMAIN calls, First' = First, Result' = Result
  PROVE  Service!CSNext
<1>1. Service!Break
  BY DEF Service!Break, First, Result, Gone
<1> QED BY <1>1 DEF Service!CSNext

LEMMA ReturnStep ==
  ASSUME NEW c \in Tid, Result[c] = "none", First[c] # "none",
         Result' = [Result EXCEPT ![c] = First[c]],
         DOMAIN calls' = DOMAIN calls, First' = First, Gone' = Gone
  PROVE  Service!CSNext
<1>1. Service!Return(c)
  BY DEF Service!Return, First, Result, Gone
<1> QED BY <1>1 DEF Service!CSNext

LEMMA FailStep ==
  ASSUME NEW c \in Tid, c \in DOMAIN calls, Result[c] = "none", Gone,
         Result' = [Result EXCEPT ![c] = "error"],
         DOMAIN calls' = DOMAIN calls, First' = First, Gone' = Gone
  PROVE  Service!CSNext
<1>1. Service!Fail(c)
  BY DEF Service!Fail, First, Result, Gone
<1> QED BY <1>1 DEF Service!CSNext

\* What of the handle CallService can see.
LEMMA SeenState ==
  /\ First = [i \in Tid |-> First[i]] /\ Result = [i \in Tid |-> Result[i]]
  /\ \A i \in Tid : First[i] = IF answers[i] = <<>> THEN "none" ELSE Head(answers[i])
  /\ \A i \in Tid : Result[i] = IF Ret(i) = "unlocked" THEN "GRANT" ELSE Ret(i)
  BY DEF First, Result, Ret

LEMMA SeenStateNext ==
  /\ First' = [i \in Tid |-> First'[i]] /\ Result' = [i \in Tid |-> Result'[i]]
  /\ \A i \in Tid : First'[i] = IF answers'[i] = <<>> THEN "none" ELSE Head(answers'[i])
  /\ \A i \in Tid : Result'[i] = IF Ret(i)' = "unlocked" THEN "GRANT" ELSE Ret(i)'
  BY DEF First, Result, Ret

LEMMA UnseenStep ==
  ASSUME UNCHANGED <<calls, answers, conn>>
  PROVE  UNCHANGED Service!csvars
<1>1. First' = First /\ Result' = Result /\ Gone' = Gone
  BY DEF First, Result, Gone
<1> QED BY <1>1, StutterStep

LEMMA EnterRefines ==
  ASSUME ClientInv, NEW t \in Thread, NEW R \in Wants[t], Enter(t, R)
  PROVE  Service!CSNext
<1> DEFINE e == [resource |-> R, ret |-> "none"]
           n == Len(calls) + 1
<1>1. R \in Resource
  BY ClientAssumption
<1>2. e \in CallRecord
  BY <1>1 DEF CallRecord
<1>3. /\ calls' \in Seq(CallRecord) /\ Len(calls') = n
      /\ \A i \in DOMAIN calls : calls'[i] = calls[i]
      /\ calls'[n] = e
  <2>1. calls' = Append(calls, e)
    BY DEF Enter
  <2> HIDE DEF e
  <2> QED BY <2>1, <1>2, TypeFacts, AppendProperties DEF ClientInv
<1>4. /\ n \in Tid /\ n \notin DOMAIN calls /\ DOMAIN calls' = DOMAIN calls \cup {n}
  BY <1>3, TypeFacts, LenProperties, ClientAssumption DEF ClientInv, Enter, Tid
<1>5. calls'[n].ret = "none"
  BY <1>3
<1> HIDE DEF n
<1>6. UNCHANGED <<conn, answers>>
  BY DEF Enter, daemonVars
<1>7. \A i \in Tid : Ret(i)' = Ret(i)
  BY <1>3, <1>4, <1>5 DEF Ret
<1>8. First' = First /\ Gone' = Gone
  BY <1>6 DEF First, Gone
<1>9. Result' = Result
  BY <1>7, SeenState, SeenStateNext
<1> QED
  BY <1>4, <1>8, <1>9, MakeStep

LEMMA FailRefines ==
  ASSUME ClientInv, NEW t \in Thread, pc[t] # "idle", conn # "open",
         Finish(t, "error"),
         UNCHANGED <<conn, toDaemon, requests, answers>>
  PROVE  Service!CSNext
<1>1. /\ tid[t] \in Tid /\ tid[t] \in DOMAIN calls /\ Ret(tid[t]) = "none"
      /\ \A i \in Tid : Ret(i)' = IF i = tid[t] THEN "error" ELSE Ret(i)
      /\ DOMAIN calls' = DOMAIN calls
  BY FinishFacts
<1>2. Gone /\ Gone' = Gone /\ First' = First
  BY DEF ClientInv, CLTypeOK, InCall, Gone, First
<1>3. Result' = [Result EXCEPT ![tid[t]] = "error"] /\ Result[tid[t]] = "none"
  BY <1>1, SeenState, SeenStateNext
<1> QED
  BY <1>1, <1>2, <1>3, FailStep

LEMMA ReturnRefines ==
  ASSUME ClientInv, NEW t \in Thread, TakePending(t) \/ ReadOwn(t)
  PROVE  Service!CSNext
<1>1. PICK k \in 1..Len(OnTheWay) :
        /\ IsOwn(t, OnTheWay[k])
        /\ \A p \in 1..k - 1 : ~IsOwn(t, OnTheWay[p])
        /\ OnTheWay' = RemoveAt(OnTheWay, k)
        /\ Finish(t, OnTheWay[k].request)
        /\ pending' \in Seq(Answers) /\ toClient' \in Seq(Answers)
        /\ pc[t] = "poll"
        /\ UNCHANGED <<conn, toDaemon, stopping, requests, holder, writing, answers>>
  BY FoundFirst
<1>2. PICK r : r = OnTheWay[k].request
  OBVIOUS
<1>3. r \in Reply /\ Coming(tid[t], r) /\ (r = "GRANT" => ~Coming(tid[t], "NAK"))
  BY <1>1, <1>2, ReturnKeeps
<1>4. r \in {"GRANT", "NAK", "error"}
  BY <1>3 DEF Reply
<1>5. /\ tid[t] \in Tid /\ Ret(tid[t]) = "none"
      /\ \A i \in Tid : Ret(i)' = IF i = tid[t] THEN r ELSE Ret(i)
      /\ DOMAIN calls' = DOMAIN calls
  BY <1>1, <1>2, <1>4, FinishFacts
<1>6. Way(tid[t]) /\ Answered(tid[t])
  BY <1>5 DEF ClientInv
<1>7. answers[tid[t]] # <<>> /\ Head(answers[tid[t]]) = r
  <2>1. Given(tid[t], r)
    BY <1>3, <1>6 DEF Way
  <2>2. CASE r = "NAK"
    <3>1. answers[tid[t]] \in {<<"NAK">>, <<"NAK", "GRANT">>}
      BY <2>1, <2>2 DEF Given
    <3> QED BY <2>2, <3>1
  <2>3. CASE r = "GRANT"
    <3>1. ~Given(tid[t], "NAK")
      BY <1>3, <1>5, <1>6, <2>3 DEF Way
    <3>2. answers[tid[t]] = <<"GRANT">>
      BY <2>1, <2>3, <3>1 DEF Given
    <3> QED BY <2>3, <3>2
  <2> QED BY <1>3, <2>2, <2>3 DEF Reply
<1>8. Gone' = Gone /\ First' = First
  BY <1>1 DEF Gone, First
<1>9. First[tid[t]] = r /\ r # "none" /\ Result[tid[t]] = "none"
  BY <1>3, <1>5, <1>7, SeenState DEF Reply
<1>10. Result' = [Result EXCEPT ![tid[t]] = r]
  BY <1>3, <1>5, SeenState, SeenStateNext DEF Reply
<1> QED
  BY <1>5, <1>8, <1>9, <1>10, ReturnStep

LEMMA UnlockRefines ==
  ASSUME ClientInv, NEW t \in Thread, NEW i \in DOMAIN calls, cpg_unlock(t, i)
  PROVE  UNCHANGED Service!csvars
<1>1. /\ calls[i].ret = "GRANT" /\ calls' = [calls EXCEPT ![i].ret = "unlocked"]
      /\ UNCHANGED <<conn, answers>>
  BY DEF cpg_unlock, daemonVars
<1>2. calls \in Seq(CallRecord) /\ "unlocked" \in {"none", "GRANT", "NAK", "error", "unlocked"}
  BY TypeFacts DEF ClientInv
<1>3. /\ DOMAIN calls' = DOMAIN calls
      /\ \A j \in DOMAIN calls : calls'[j].ret = IF j = i THEN "unlocked" ELSE calls[j].ret
  BY <1>1, <1>2, SetRet
<1>4. First' = First /\ Gone' = Gone
  BY <1>1 DEF First, Gone
<1>5. \A j \in Tid : Result'[j] = Result[j]
  BY <1>1, <1>3, SeenState, SeenStateNext DEF Ret
<1>6. Result' = Result
  BY <1>5, SeenState, SeenStateNext
<1> QED
  BY <1>3, <1>4, <1>6, StutterStep

LEMMA CloseRefines ==
  ASSUME conn' \in {"eof", "reset", "fin"}, UNCHANGED <<calls, answers>>
  PROVE  [Service!CSNext]_Service!csvars
<1>1. First' = First /\ Result' = Result /\ Gone' /\ DOMAIN calls' = DOMAIN calls
  BY DEF First, Result, Gone
<1>2. CASE Gone
  BY <1>1, <1>2, StutterStep
<1>3. CASE ~Gone
  BY <1>1, <1>3, BreakStep
<1> QED
  BY <1>2, <1>3

LEMMA AnswerRefines ==
  ASSUME ClientInv, NEW i \in Tid, i \in DOMAIN calls, NEW a \in Reply,
         BeginAnswer(i, AnswerMsg(a, i)), UNCHANGED <<conn, calls>>
  PROVE  [Service!CSNext]_Service!csvars
<1>1. answers \in [Tid -> Seq(Reply)]
  BY DEF ClientInv, CLTypeOK, Reply
<1>2. answers' = [answers EXCEPT ![i] = Append(@, a)]
  BY DEF BeginAnswer, AnswerMsg
<1>3. Result' = Result /\ Gone' = Gone /\ DOMAIN calls' = DOMAIN calls
  BY DEF Result, Gone
<1>4. \A j \in Tid : j # i => First'[j] = First[j]
  BY <1>1, <1>2, SeenState, SeenStateNext
<1>5. answers'[i] = Append(answers[i], a) /\ answers[i] \in Seq(Reply)
  BY <1>1, <1>2
<1>6. CASE answers[i] = <<>>
  <2>1. First[i] = "none"
    BY <1>6, SeenState
  <2>2. First'[i] = a
    <3>1. Append(<<>>, a) = <<a>> /\ Head(<<a>>) = a /\ <<a>> # <<>>
      OBVIOUS
    <3> QED BY <1>5, <1>6, <3>1, SeenStateNext
  <2>3. First' = [First EXCEPT ![i] = a]
    BY <1>4, <2>2, SeenState, SeenStateNext
  <2> QED BY <1>3, <2>1, <2>3, GiveStep DEF Reply
<1>7. CASE answers[i] # <<>>
  <2>1. answers'[i] # <<>> /\ Head(answers'[i]) = Head(answers[i])
    <3>1. Append(answers[i], a) # <<>>
      BY <1>5, AppendProperties
    <3>2. Head(Append(answers[i], a)) = Head(answers[i])
      BY <1>5, <1>7, HeadTailAppend
    <3> QED BY <1>5, <3>1, <3>2
  <2>2. First'[i] = First[i]
    BY <1>7, <2>1, SeenState, SeenStateNext
  <2>3. First' = First
    BY <1>4, <2>2, SeenState, SeenStateNext
  <2> QED BY <1>3, <2>3, StutterStep
<1> QED
  BY <1>6, <1>7

LEMMA ThreadRefines ==
  ASSUME ClientInv, NEW t \in Thread, ThreadStep(t)
  PROVE  [Service!CSNext]_Service!csvars
<1>1. CASE Relock(t)
  BY <1>1, UnseenStep DEF Relock, daemonVars
<1>2. CASE WriteLock(t)
  <2>1. pc[t] # "idle" /\ UNCHANGED <<conn, requests, answers>>
    BY <1>2 DEF WriteLock, daemonVars
  <2>2. CASE UNCHANGED <<mutex, tid, calls>>
    BY <2>1, <2>2, UnseenStep
  <2>3. CASE conn # "open" /\ Finish(t, "error") /\ UNCHANGED toDaemon
    BY <2>1, <2>3, FailRefines
  <2> QED BY <1>2, <2>2, <2>3 DEF WriteLock
<1>3. CASE TakePending(t) \/ ReadOwn(t)
  BY <1>3, ReturnRefines
<1>4. CASE ReadOther(t)
  BY <1>4, UnseenStep DEF ReadOther, Sleep, daemonVars
<1>5. CASE ReadTimeout(t)
  BY <1>5, UnseenStep DEF ReadTimeout, Sleep, daemonVars
<1>6. CASE ReadFails(t)
  <2>1. /\ pc[t] # "idle" /\ conn # "open" /\ Finish(t, "error")
        /\ UNCHANGED <<conn, toDaemon, requests, answers>>
    BY <1>6 DEF ReadFails, Failed, daemonVars
  <2> QED BY <2>1, FailRefines
<1>7. CASE \E R \in Wants[t] : Enter(t, R)
  BY <1>7, EnterRefines
<1>8. CASE \E i \in DOMAIN calls : cpg_unlock(t, i)
  BY <1>8, UnlockRefines
<1> QED
  BY <1>1, <1>2, <1>3, <1>4, <1>5, <1>6, <1>7, <1>8 DEF ThreadStep, Poll

LEMMA StepRefines ==
  ASSUME ClientInv, [CLNext]_clvars
  PROVE  [Service!CSNext]_Service!csvars
<1>1. CASE cpg_lock_init
  <2>1. UNCHANGED <<calls, answers>> /\ ~Gone /\ ~Gone'
    BY <1>1 DEF cpg_lock_init, sock_connect, libVars, daemonVars, Gone
  <2>2. First' = First /\ Result' = Result /\ DOMAIN calls' = DOMAIN calls
    BY <2>1 DEF First, Result
  <2>3. Gone' = Gone
    BY <2>1 DEF Gone
  <2> QED BY <2>2, <2>3, StutterStep
<1>2. CASE cpg_lock_fin
  BY <1>2, CloseRefines DEF cpg_lock_fin
<1>3. CASE \E t \in Thread : ThreadStep(t)
  BY <1>3, ThreadRefines
<1>4. CASE client_activity_cb
  BY <1>4, UnseenStep DEF client_activity_cb, libVars
<1>5. CASE DaemonWrite
  BY <1>5, UnseenStep DEF DaemonWrite, libVars
<1>6. CASE DaemonStops
  BY <1>6, UnseenStep DEF DaemonStops, libVars
<1>7. CASE drop_all_clients
  BY <1>7, CloseRefines DEF drop_all_clients, libVars
<1>8. CASE \E i \in Tid : grant_client(i) \/ nak_client(i) \/ drop_all_requests(i)
  <2>1. PICK i \in Tid : grant_client(i) \/ nak_client(i) \/ drop_all_requests(i)
    BY <1>8
  <2>2. i \in DOMAIN calls
    BY <2>1, GrantKeeps, NakKeeps
  <2>3. PICK a \in Reply : BeginAnswer(i, AnswerMsg(a, i)) /\ UNCHANGED <<conn, calls>>
    BY <2>1 DEF grant_client, nak_client, drop_all_requests, Reply, libVars
  <2> QED BY <2>2, <2>3, AnswerRefines
<1>9. CASE UNCHANGED clvars
  BY <1>9, UnseenStep DEF clvars
<1> QED
  BY <1>1, <1>2, <1>3, <1>4, <1>5, <1>6, <1>7, <1>8, <1>9 DEF CLNext, DaemonStep

(***************************************************************************)
(* The handle implements CallService, but for its fairness: whichever      *)
(* thread reads it, a call of cpg_lock returns the first answer that was   *)
(* given to it and to no other, and fails only when the connection is      *)
(* gone.                                                                   *)
(***************************************************************************)
THEOREM ImplementsCallService == CLSpec => Service!CSSafety
<1>1. CLInit => Service!CSInit
  <2>1. SUFFICES ASSUME CLInit PROVE Service!CSInit
    OBVIOUS
  <2>2. DOMAIN calls = {} /\ conn = "none" /\ answers = [i \in Tid |-> <<>>]
    BY <2>1 DEF CLInit
  <2> QED BY <2>2 DEF Service!CSInit
<1>2. ClientInv /\ [CLNext]_clvars => [Service!CSNext]_Service!csvars
  BY StepRefines
<1> QED
  BY <1>1, <1>2, ClientInductive, PTL DEF CLSpec, Service!CSSafety

-----------------------------------------------------------------------------
(***************************************************************************)
(* NoGridlock: for whom the messages in the socket are.                    *)
(***************************************************************************)

\* A call that has not returned has a thread in it.
Inside ==
  \A i \in DOMAIN calls : calls[i].ret = "none" =>
    \E t \in Thread : pc[t] # "idle" /\ tid[t] = i

UnlockOnceIn(q) ==
  \A k, m \in DOMAIN q :
    /\ q[k].request = "UNLOCK" /\ q[m].request = "UNLOCK"
    /\ q[k].lockid = q[m].lockid
    => k = m

\* An UNLOCK in the socket is there once and will find its lock on record.
Releasing ==
  /\ UnlockOnceIn(toDaemon)
  /\ conn = "open" =>
       \A i \in Tid : UnlockIn(toDaemon, i) => holder[calls[i].resource] = i

\* Only thread t moves, and the calls that have not returned are as they were,
\* but for its own.
LEMMA InsideKept ==
  ASSUME Inside, NEW t,
         \A u \in Thread : u # t => pc'[u] = pc[u] /\ tid'[u] = tid[u],
         \A i \in DOMAIN calls' : calls'[i].ret = "none" =>
           \/ t \in Thread /\ tid'[t] = i /\ pc'[t] # "idle"
           \/ /\ i \in DOMAIN calls /\ calls[i].ret = "none"
              /\ ~(t \in Thread /\ tid[t] = i /\ pc[t] # "idle")
  PROVE  Inside'
<1> SUFFICES ASSUME NEW i \in DOMAIN calls', calls'[i].ret = "none"
             PROVE  \E u \in Thread : pc'[u] # "idle" /\ tid'[u] = i
  BY DEF Inside
<1>1. CASE t \in Thread /\ tid'[t] = i /\ pc'[t] # "idle"
  BY <1>1
<1>2. CASE /\ i \in DOMAIN calls /\ calls[i].ret = "none"
           /\ ~(t \in Thread /\ tid[t] = i /\ pc[t] # "idle")
  <2>1. PICK u \in Thread : pc[u] # "idle" /\ tid[u] = i
    BY <1>2 DEF Inside
  <2>2. u # t
    BY <1>2, <2>1
  <2> QED BY <2>1, <2>2
<1> QED
  BY <1>1, <1>2

\* A call returns.
LEMMA InsideFinish ==
  ASSUME ClientInv, Inside, NEW t \in Thread, pc[t] # "idle",
         NEW r \in {"GRANT", "NAK", "error"}, Finish(t, r)
  PROVE  /\ Inside'
         /\ \A i \in DOMAIN calls : calls'[i].resource = calls[i].resource
<1>1. /\ tid[t] \in DOMAIN calls /\ calls \in Seq(CallRecord)
      /\ pc \in [Thread -> PC]
  BY TypeFacts DEF ClientInv, InCall, CLTypeOK
<1>2. /\ calls' = [calls EXCEPT ![tid[t]].ret = r] /\ tid' = tid
      /\ pc' = [pc EXCEPT ![t] = "idle"]
  BY DEF Finish
<1>3. /\ DOMAIN calls' = DOMAIN calls
      /\ \A i \in DOMAIN calls :
           /\ calls'[i].resource = calls[i].resource
           /\ calls'[i].ret = IF i = tid[t] THEN r ELSE calls[i].ret
  <2>1. r \in {"none", "GRANT", "NAK", "error", "unlocked"}
    OBVIOUS
  <2> QED BY <1>1, <1>2, <2>1, SetRet
<1>4. \A u \in Thread : u # t => pc'[u] = pc[u] /\ tid'[u] = tid[u]
  BY <1>1, <1>2
<1>5. ASSUME NEW i \in DOMAIN calls', calls'[i].ret = "none"
      PROVE  i \in DOMAIN calls /\ calls[i].ret = "none" /\ tid[t] # i
  <2>1. i \in DOMAIN calls /\ i # tid[t]
    BY <1>3, <1>5
  <2> QED BY <1>3, <1>5, <2>1
<1> QED
  BY <1>3, <1>4, <1>5, InsideKept

\* A thread goes on in its call.
LEMMA InsideGoesOn ==
  ASSUME ClientInv, Inside, NEW t \in Thread, NEW s, s # "idle",
         pc' = [pc EXCEPT ![t] = s], UNCHANGED <<tid, calls>>
  PROVE  Inside'
<1>1. pc \in [Thread -> PC]
  BY DEF ClientInv, CLTypeOK
<1>2. \A u \in Thread : u # t => pc'[u] = pc[u] /\ tid'[u] = tid[u]
  BY <1>1
<1>3. pc'[t] # "idle"
  BY <1>1
<1>4. \A i \in DOMAIN calls' : calls'[i].ret = "none" =>
        \/ tid'[t] = i /\ pc'[t] # "idle"
        \/ i \in DOMAIN calls /\ calls[i].ret = "none" /\ tid[t] # i
  BY <1>3
<1> QED
  BY <1>2, <1>4, InsideKept

LEMMA InsideStep ==
  ASSUME ClientInv, Inside, [CLNext]_clvars
  PROVE  Inside'
<1>1. ASSUME UNCHANGED <<pc, tid, calls>> PROVE Inside'
  BY <1>1 DEF Inside
<1>2. ASSUME NEW t \in Thread, NEW R \in Wants[t], Enter(t, R) PROVE Inside'
  <2>1. PICK e : e = [resource |-> R, ret |-> "none"]
    OBVIOUS
  <2>2. R \in Resource
    BY ClientAssumption
  <2>3. e \in CallRecord
    BY <2>1, <2>2 DEF CallRecord
  <2>4. /\ calls \in Seq(CallRecord) /\ pc \in [Thread -> PC]
        /\ tid \in [Thread -> 0..MaxSeq]
    BY TypeFacts DEF ClientInv, CLTypeOK
  <2>5. /\ calls' = Append(calls, e) /\ pc[t] = "idle"
        /\ pc' = [pc EXCEPT ![t] = "write"]
        /\ tid' = [tid EXCEPT ![t] = Len(calls) + 1]
    BY <1>2, <2>1 DEF Enter
  <2>6. /\ calls' \in Seq(CallRecord) /\ Len(calls') = Len(calls) + 1
        /\ \A i \in 1..Len(calls) : calls'[i] = calls[i]
    BY <2>3, <2>4, <2>5, AppendProperties
  <2>7. /\ DOMAIN calls = 1..Len(calls) /\ DOMAIN calls' = 1..Len(calls) + 1
        /\ Len(calls) \in Nat
    BY <2>4, <2>6, LenProperties
  <2>8. \A i \in DOMAIN calls' :
          i = Len(calls) + 1 \/ (i \in DOMAIN calls /\ calls'[i] = calls[i])
    BY <2>6, <2>7
  <2>9. \A u \in Thread : u # t => pc'[u] = pc[u] /\ tid'[u] = tid[u]
    BY <2>4, <2>5
  <2>10. tid'[t] = Len(calls) + 1 /\ pc'[t] # "idle"
    BY <2>4, <2>5
  <2> QED BY <2>5, <2>8, <2>9, <2>10, InsideKept
<1>3. ASSUME NEW t \in Thread, Relock(t) PROVE Inside'
  BY <1>3, InsideGoesOn DEF Relock
<1>4. ASSUME NEW t \in Thread, WriteLock(t) PROVE Inside'
  <2>1. CASE pc' = [pc EXCEPT ![t] = "poll"] /\ UNCHANGED <<mutex, tid, calls>>
    BY <2>1, InsideGoesOn
  <2>2. CASE Finish(t, "error")
    BY <1>4, <2>2, InsideFinish DEF WriteLock
  <2> QED BY <1>4, <2>1, <2>2 DEF WriteLock
<1>5. ASSUME NEW t \in Thread, Poll(t) PROVE Inside'
  <2>1. pc[t] = "poll"
    BY <1>5 DEF Poll, TakePending, ReadOwn, ReadOther, ReadTimeout, ReadFails
  <2>2. CASE TakePending(t) \/ ReadOwn(t)
    <3>1. PICK k \in 1..Len(OnTheWay) : Finish(t, OnTheWay[k].request)
      BY <2>2, FoundFirst
    <3>2. OnTheWay \in Seq(Answers)
      BY TypeFacts DEF ClientInv
    <3>3. OnTheWay[k] \in Answers
      BY <3>2, ElementOfSeq
    <3>4. OnTheWay[k].request \in {"GRANT", "NAK", "error"}
      BY <3>3 DEF Answers
    <3> QED BY <2>1, <3>1, <3>4, InsideFinish
  <2>3. CASE ReadOther(t) \/ ReadTimeout(t)
    BY <2>3, InsideGoesOn DEF ReadOther, ReadTimeout, Sleep
  <2>4. CASE ReadFails(t)
    BY <2>1, <2>4, InsideFinish DEF ReadFails
  <2> QED BY <1>5, <2>2, <2>3, <2>4 DEF Poll
<1>6. ASSUME NEW t \in Thread, NEW i \in DOMAIN calls, cpg_unlock(t, i)
      PROVE  Inside'
  <2>1. /\ calls[i].ret = "GRANT" /\ calls' = [calls EXCEPT ![i].ret = "unlocked"]
        /\ calls \in Seq(CallRecord) /\ UNCHANGED <<pc, tid>>
    BY <1>6, TypeFacts DEF ClientInv, cpg_unlock
  <2>2. "unlocked" \in {"none", "GRANT", "NAK", "error", "unlocked"}
    OBVIOUS
  <2>3. /\ DOMAIN calls' = DOMAIN calls
        /\ \A j \in DOMAIN calls :
             calls'[j].ret = IF j = i THEN "unlocked" ELSE calls[j].ret
    BY <2>1, <2>2, SetRet
  <2>4. \A j \in DOMAIN calls' : calls'[j].ret = "none" =>
          j \in DOMAIN calls /\ calls[j].ret = "none"
    BY <2>3
  <2> QED BY <2>1, <2>4 DEF Inside
<1>7. CASE cpg_lock_init \/ cpg_lock_fin \/ DaemonStep \/ UNCHANGED clvars
  <2>1. UNCHANGED <<pc, tid, calls>>
    BY <1>7 DEF cpg_lock_init, cpg_lock_fin, DaemonStep, client_activity_cb,
       DaemonWrite, DaemonStops, drop_all_clients, grant_client, nak_client,
       drop_all_requests, BeginAnswer, libVars, clvars
  <2> QED BY <1>1, <2>1
<1> QED
  BY <1>2, <1>3, <1>4, <1>5, <1>6, <1>7 DEF CLNext, ThreadStep

\* The socket and the records do not change, nor which lock a call is for.
LEMMA ReleasingStays ==
  ASSUME ClientInv, Releasing, conn' = "open" => conn = "open",
         UNCHANGED <<toDaemon, holder>>,
         \A i \in DOMAIN calls : calls'[i].resource = calls[i].resource
  PROVE  Releasing'
<1>1. UnlockOnceIn(toDaemon')
  BY DEF Releasing
<1>2. ASSUME conn' = "open", NEW i \in Tid, UnlockIn(toDaemon', i)
      PROVE  holder'[calls'[i].resource] = i
  <2>1. UnlockIn(toDaemon, i)
    BY <1>2
  <2>2. i \in DOMAIN calls
    BY <2>1 DEF ClientInv, Posted, Ret
  <2> QED BY <1>2, <2>1, <2>2 DEF Releasing
<1> QED
  BY <1>1, <1>2 DEF Releasing

\* A request goes to the end of the queue.
LEMMA UnlockAppend ==
  ASSUME NEW q \in Seq(Request), NEW m \in Request, UnlockOnceIn(q),
         m.request = "UNLOCK" => ~UnlockIn(q, m.lockid)
  PROVE  UnlockOnceIn(Append(q, m))
<1>1. PICK y \in Seq(Request) :
        /\ y = Append(q, m)
        /\ Len(y) = Len(q) + 1
        /\ \A k \in 1..Len(q) : y[k] = q[k]
        /\ y[Len(q) + 1] = m
  BY AppendProperties
<1>2. Len(q) \in Nat /\ DOMAIN q = 1..Len(q) /\ DOMAIN y = 1..Len(q) + 1
  BY <1>1, LenProperties
<1>3. \A k \in DOMAIN y : \/ k \in DOMAIN q /\ y[k] = q[k]
                          \/ k = Len(q) + 1 /\ y[k] = m
  BY <1>1, <1>2
<1>4. UnlockOnceIn(y)
  BY <1>3 DEF UnlockOnceIn, UnlockIn
<1> QED
  BY <1>1, <1>4

\* The request at the head of the queue is read.
LEMMA UnlockTail ==
  ASSUME NEW q \in Seq(Request), q # <<>>, UnlockOnceIn(q)
  PROVE  /\ UnlockOnceIn(Tail(q))
         /\ \A i \in Tid : UnlockIn(Tail(q), i) =>
              UnlockIn(q, i) /\ ~(Head(q).request = "UNLOCK" /\ Head(q).lockid = i)
<1>1. PICK y \in Seq(Request) :
        y = Tail(q) /\ Len(y) = Len(q) - 1 /\ \A k \in 1..Len(y) : y[k] = q[k + 1]
  BY HeadTailProperties
<1>2. /\ Len(q) \in Nat /\ Len(q) >= 1 /\ DOMAIN q = 1..Len(q)
      /\ DOMAIN y = 1..Len(q) - 1
  BY <1>1, LenProperties, EmptySeq
<1>3. Head(q) = q[1] /\ 1 \in DOMAIN q
  BY <1>2
<1>4. \A k \in DOMAIN y : /\ k + 1 \in DOMAIN q /\ y[k] = q[k + 1] /\ k + 1 # 1
                          /\ k \in Nat
  BY <1>1, <1>2
<1>5. UnlockOnceIn(y)
  <2> SUFFICES ASSUME NEW k \in DOMAIN y, NEW n \in DOMAIN y,
                      y[k].request = "UNLOCK", y[n].request = "UNLOCK",
                      y[k].lockid = y[n].lockid
               PROVE  k = n
    BY DEF UnlockOnceIn
  <2>1. k + 1 = n + 1
    BY <1>4 DEF UnlockOnceIn
  <2> QED BY <1>4, <2>1
<1>6. ASSUME NEW i \in Tid, UnlockIn(y, i)
      PROVE  UnlockIn(q, i) /\ ~(q[1].request = "UNLOCK" /\ q[1].lockid = i)
  <2>1. PICK k \in DOMAIN y : y[k].request = "UNLOCK" /\ y[k].lockid = i
    BY <1>6 DEF UnlockIn
  <2>2. q[k + 1].request = "UNLOCK" /\ q[k + 1].lockid = i /\ k + 1 \in DOMAIN q /\ k + 1 # 1
    BY <1>4, <2>1
  <2> QED BY <1>3, <2>2 DEF UnlockIn, UnlockOnceIn
<1> QED
  BY <1>1, <1>3, <1>5, <1>6

LEMMA ReleasingUnlock ==
  ASSUME ClientInv, Releasing, NEW t \in Thread, NEW i \in DOMAIN calls,
         cpg_unlock(t, i)
  PROVE  Releasing'
<1>1. /\ calls[i].ret = "GRANT" /\ calls' = [calls EXCEPT ![i].ret = "unlocked"]
      /\ UNCHANGED <<conn, holder>>
      /\ \/ toDaemon' = Append(toDaemon, UnlockReq(i))
         \/ UNCHANGED toDaemon
  BY DEF cpg_unlock, daemonVars
<1>2. i \in Tid /\ calls \in Seq(CallRecord) /\ toDaemon \in Seq(Request)
  BY MadeTid, TypeFacts DEF ClientInv
<1>3. Ret(i) = "GRANT" /\ ~UnlockIn(toDaemon, i)
  BY <1>1, <1>2 DEF ClientInv, Posted, Ret
<1>4. \A j \in DOMAIN calls : calls'[j].resource = calls[j].resource
  <2>1. "unlocked" \in {"none", "GRANT", "NAK", "error", "unlocked"}
    OBVIOUS
  <2> QED BY <1>1, <1>2, <2>1, SetRet
<1>5. CASE toDaemon' = Append(toDaemon, UnlockReq(i))
  <2>1. PICK m : m = UnlockReq(i)
    OBVIOUS
  <2>2. m \in Request /\ m.request = "UNLOCK" /\ m.lockid = i
    BY <1>2, <2>1 DEF UnlockReq, Request
  <2>3. UnlockOnceIn(Append(toDaemon, m))
    BY <1>2, <1>3, <2>2, UnlockAppend DEF Releasing
  <2>4. \A j \in Tid : UnlockIn(Append(toDaemon, m), j) <=>
               UnlockIn(toDaemon, j) \/ (m.request = "UNLOCK" /\ m.lockid = j)
    BY <1>2, <2>2, QueueAppend
  <2>5. ASSUME conn = "open", NEW j \in Tid, UnlockIn(toDaemon', j)
        PROVE  holder[calls'[j].resource] = j
    <3>1. CASE UnlockIn(toDaemon, j)
      <4>1. j \in DOMAIN calls
        BY <3>1 DEF ClientInv, Posted, Ret
      <4> QED BY <1>4, <2>5, <3>1, <4>1 DEF Releasing
    <3>2. CASE j = i
      BY <1>3, <1>4, <2>5, <3>2, <1>2 DEF ClientInv, Recorded
    <3> QED BY <1>5, <2>1, <2>2, <2>4, <2>5, <3>1, <3>2
  <2> QED BY <1>1, <1>5, <2>1, <2>3, <2>5 DEF Releasing
<1>6. CASE UNCHANGED toDaemon
  BY <1>1, <1>4, <1>6, ReleasingStays
<1> QED
  BY <1>1, <1>5, <1>6

LEMMA ReleasingWrite ==
  ASSUME ClientInv, Releasing, NEW t \in Thread, WriteLock(t)
  PROVE  Releasing'
<1>1. UNCHANGED <<conn, holder>> /\ pc[t] = "write"
  BY DEF WriteLock, daemonVars
<1>2. CASE /\ toDaemon' = Append(toDaemon,
                LockReq(tid[t], calls[tid[t]].resource, t \in Triers))
           /\ UNCHANGED calls
  <2>1. tid[t] \in DOMAIN calls
    BY <1>1 DEF ClientInv, InCall
  <2>2. PICK m : m = LockReq(tid[t], calls[tid[t]].resource, t \in Triers)
    OBVIOUS
  <2>3. tid[t] \in Tid /\ calls[tid[t]].resource \in Resource
    BY <2>1, MadeTid DEF ClientInv, CallRecord
  <2>4. m \in Request /\ m.request = "LOCK"
    BY <2>2, <2>3 DEF LockReq, Request
  <2>5. toDaemon \in Seq(Request)
    BY TypeFacts DEF ClientInv
  <2>6. UnlockOnceIn(Append(toDaemon, m))
    BY <2>4, <2>5, UnlockAppend DEF Releasing
  <2>7. \A j \in Tid : UnlockIn(Append(toDaemon, m), j) <=>
               UnlockIn(toDaemon, j) \/ (m.request = "UNLOCK" /\ m.lockid = j)
    BY <2>4, <2>5, QueueAppend
  <2>8. toDaemon' = Append(toDaemon, m)
    BY <1>2, <2>2
  <2> QED BY <1>1, <1>2, <2>4, <2>6, <2>7, <2>8 DEF Releasing
<1>3. CASE conn # "open" /\ Finish(t, "error") /\ UNCHANGED toDaemon
  BY <1>1, <1>3 DEF Releasing
<1> QED
  BY <1>2, <1>3 DEF WriteLock

LEMMA ReleasingRead ==
  ASSUME ClientInv, Releasing, client_activity_cb
  PROVE  Releasing'
<1>1. PICK m : m = Head(toDaemon)
  OBVIOUS
<1>2. /\ conn = "open" /\ toDaemon # <<>> /\ toDaemon' = Tail(toDaemon)
      /\ \/ UNCHANGED holder
         \/ /\ m.request = "UNLOCK"
            /\ holder' = [R \in Resource |-> IF holder[R] = m.lockid THEN 0 ELSE holder[R]]
      /\ UNCHANGED <<conn, calls>>
  BY <1>1 DEF client_activity_cb, libVars
<1>3. toDaemon \in Seq(Request)
  BY TypeFacts DEF ClientInv
<1>4. /\ UnlockOnceIn(toDaemon')
      /\ \A i \in Tid : UnlockIn(toDaemon', i) =>
           UnlockIn(toDaemon, i) /\ ~(m.request = "UNLOCK" /\ m.lockid = i)
  BY <1>1, <1>2, <1>3, UnlockTail DEF Releasing
<1>5. ASSUME NEW i \in Tid, UnlockIn(toDaemon', i)
      PROVE  holder'[calls'[i].resource] = i
  <2>1. /\ UnlockIn(toDaemon, i) /\ ~(m.request = "UNLOCK" /\ m.lockid = i)
        /\ holder[calls[i].resource] = i
    BY <1>2, <1>4, <1>5 DEF Releasing
  <2>2. i \in DOMAIN calls
    BY <2>1 DEF ClientInv, Posted, Ret
  <2>3. calls[i].resource \in Resource
    BY <2>2, MadeTid DEF ClientInv, CallRecord
  <2> QED BY <1>2, <2>1, <2>3
<1> QED
  BY <1>4, <1>5 DEF Releasing

\* A call is granted a lock nobody has on record.
LEMMA ReleasingGrant ==
  ASSUME ClientInv, Releasing, NEW n \in Tid, grant_client(n)
  PROVE  Releasing'
<1>1. /\ conn = "open" /\ holder[calls[n].resource] = 0
      /\ holder' = [holder EXCEPT ![calls[n].resource] = n]
      /\ UNCHANGED <<conn, calls, toDaemon>>
  BY DEF grant_client, BeginAnswer, libVars
<1>2. ASSUME NEW i \in Tid, UnlockIn(toDaemon, i)
      PROVE  holder'[calls[i].resource] = i
  <2>1. holder[calls[i].resource] = i
    BY <1>1, <1>2 DEF Releasing
  <2>2. i # 0
    BY DEF Tid
  <2>3. calls[i].resource # calls[n].resource
    BY <1>1, <2>1, <2>2
  <2>4. i \in DOMAIN calls
    BY <1>2 DEF ClientInv, Posted, Ret
  <2>5. calls[i].resource \in Resource /\ holder \in [Resource -> 0..MaxSeq]
    BY <2>4, MadeTid DEF ClientInv, CLTypeOK, CallRecord
  <2> QED BY <1>1, <2>1, <2>3, <2>5
<1> QED
  BY <1>1, <1>2 DEF Releasing

LEMMA ReleasingStep ==
  ASSUME ClientInv, Releasing, [CLNext]_clvars
  PROVE  Releasing'
<1>1. ASSUME UNCHANGED <<conn, calls, toDaemon, holder>> PROVE Releasing'
  BY <1>1 DEF Releasing
<1>2. CASE cpg_lock_init
  <2>1. conn = "none" /\ UNCHANGED <<toDaemon, holder, calls>>
    BY <1>2 DEF cpg_lock_init, libVars, daemonVars
  <2>2. \A i \in Tid : ~UnlockIn(toDaemon, i)
    BY <2>1 DEF ClientInv, InCall, Posted, Ret
  <2> QED BY <2>1, <2>2 DEF Releasing
<1>3. CASE cpg_lock_fin \/ drop_all_clients
  <2>1. toDaemon' = <<>>
    BY <1>3 DEF cpg_lock_fin, drop_all_clients
  <2>2. DOMAIN toDaemon' = {}
    BY <2>1
  <2> QED BY <2>2 DEF Releasing, UnlockOnceIn, UnlockIn
<1>4. ASSUME NEW t \in Thread, NEW R \in Wants[t], Enter(t, R) PROVE Releasing'
  <2>1. PICK e : e = [resource |-> R, ret |-> "none"]
    OBVIOUS
  <2>2. R \in Resource
    BY ClientAssumption
  <2>3. e \in CallRecord
    BY <2>1, <2>2 DEF CallRecord
  <2>4. calls \in Seq(CallRecord) /\ calls' = Append(calls, e)
    BY <1>4, <2>1, TypeFacts DEF ClientInv, Enter
  <2>5. \A i \in 1..Len(calls) : calls'[i] = calls[i]
    BY <2>3, <2>4, AppendProperties
  <2>6. DOMAIN calls = 1..Len(calls)
    BY <2>4, LenProperties
  <2> QED BY <1>4, <2>5, <2>6, ReleasingStays DEF Enter, daemonVars
<1>5. ASSUME NEW t \in Thread, WriteLock(t) PROVE Releasing'
  BY <1>5, ReleasingWrite
<1>6. ASSUME NEW t \in Thread, NEW i \in DOMAIN calls, cpg_unlock(t, i)
      PROVE  Releasing'
  BY <1>6, ReleasingUnlock
<1>7. ASSUME NEW t \in Thread, Relock(t) PROVE Releasing'
  BY <1>1, <1>7 DEF Relock, daemonVars
<1>8. ASSUME NEW t \in Thread, Poll(t) PROVE Releasing'
  <2>1. UNCHANGED <<conn, toDaemon, holder>>
    BY <1>8 DEF Poll, TakePending, ReadOwn, ReadOther, ReadTimeout, ReadFails, daemonVars
  <2>2. CASE UNCHANGED calls
    BY <1>1, <2>1, <2>2
  <2>3. ASSUME NEW r \in {"GRANT", "NAK", "error"}, Finish(t, r), pc[t] = "poll"
        PROVE  Releasing'
    <3>1. /\ tid[t] \in DOMAIN calls /\ calls \in Seq(CallRecord)
          /\ calls' = [calls EXCEPT ![tid[t]].ret = r]
      BY <2>3, TypeFacts DEF ClientInv, InCall, Finish
    <3>2. r \in {"none", "GRANT", "NAK", "error", "unlocked"}
      OBVIOUS
    <3>3. \A i \in DOMAIN calls : calls'[i].resource = calls[i].resource
      BY <3>1, <3>2, SetRet
    <3> QED BY <2>1, <3>3, ReleasingStays
  <2>4. CASE TakePending(t) \/ ReadOwn(t)
    <3>1. PICK k \in 1..Len(OnTheWay) : Finish(t, OnTheWay[k].request) /\ pc[t] = "poll"
      BY <2>4, FoundFirst
    <3>2. OnTheWay \in Seq(Answers)
      BY TypeFacts DEF ClientInv
    <3>3. OnTheWay[k] \in Answers
      BY <3>2, ElementOfSeq
    <3>4. OnTheWay[k].request \in {"GRANT", "NAK", "error"}
      BY <3>3 DEF Answers
    <3> QED BY <2>3, <3>1, <3>4
  <2>5. CASE ReadOther(t) \/ ReadTimeout(t)
    BY <2>2, <2>5 DEF ReadOther, ReadTimeout, Sleep
  <2>6. CASE ReadFails(t)
    BY <2>3, <2>6 DEF ReadFails
  <2> QED BY <1>8, <2>4, <2>5, <2>6 DEF Poll
<1>9. CASE client_activity_cb
  BY <1>9, ReleasingRead
<1>10. ASSUME NEW n \in Tid, grant_client(n) PROVE Releasing'
  BY <1>10, ReleasingGrant
<1>11. CASE \/ DaemonWrite \/ DaemonStops \/ UNCHANGED clvars
            \/ \E n \in Tid : nak_client(n) \/ drop_all_requests(n)
  BY <1>1, <1>11 DEF DaemonWrite, DaemonStops, nak_client, drop_all_requests,
     BeginAnswer, libVars, clvars
<1> QED
  BY <1>2, <1>3, <1>4, <1>5, <1>6, <1>7, <1>8, <1>9, <1>10, <1>11
  DEF CLNext, ThreadStep, DaemonStep

\* For a LOCK or a NAK in the socket, or being written, a thread is waiting.
LEMMA Awaited ==
  ASSUME ClientInv, Inside, conn = "open", NEW i \in Tid,
         LockIn(toDaemon, i) \/ Coming(i, "NAK")
  PROVE  /\ \E t \in Thread : pc[t] \notin {"idle", "write"} /\ tid[t] = i
         /\ ~(LockIn(toDaemon, i) /\ Coming(i, "NAK"))
<1>1. "NAK" \in Reply
  BY DEF Reply
<1>2. Untouched(i) => ~Given(i, "NAK") /\ ~Given(i, "GRANT") /\ ~Coming(i, "NAK")
  <2>1. answers[i] = <<>> => ~Given(i, "NAK") /\ ~Given(i, "GRANT")
    BY DEF Given
  <2> QED BY <1>1, <2>1 DEF ClientInv, Way, Untouched
<1>3. LockIn(toDaemon, i) => Untouched(i) /\ ~Unwritten(i)
  BY DEF ClientInv, Posted
<1>4. Coming(i, "NAK") => ~Untouched(i)
  BY <1>2
<1>5. ~Unwritten(i)
  BY <1>3, <1>4 DEF ClientInv, Posted
<1>6. i \in DOMAIN calls /\ Ret(i) = calls[i].ret
  BY <1>5 DEF Unwritten, Ret
<1>7. calls[i] \in CallRecord
  BY <1>6, MadeTid DEF ClientInv
<1>8. Ret(i) # "error" /\ Ret(i) # "NAK" /\ Ret(i) \notin {"GRANT", "unlocked"}
  BY <1>2, <1>3 DEF ClientInv, Way
<1>9. Ret(i) = "none"
  BY <1>6, <1>7, <1>8 DEF CallRecord
<1>10. PICK t \in Thread : pc[t] # "idle" /\ tid[t] = i
  BY <1>6, <1>9 DEF Inside
<1>11. pc[t] # "write"
  BY <1>5, <1>10 DEF Unwritten
<1> QED
  BY <1>2, <1>3, <1>10, <1>11

\* A GRANT or an UNLOCK there is about a lock on record.
LEMMA OnRecord ==
  ASSUME ClientInv, Releasing, conn = "open", NEW i \in Tid,
         UnlockIn(toDaemon, i) \/ Coming(i, "GRANT")
  PROVE  /\ calls[i].resource \in Resource /\ holder[calls[i].resource] = i
         /\ ~(UnlockIn(toDaemon, i) /\ Coming(i, "GRANT"))
<1>1. UnlockIn(toDaemon, i) => Ret(i) = "unlocked"
  BY DEF ClientInv, Posted
<1>2. Ret(i) = "unlocked" => ~Coming(i, "GRANT")
  BY DEF ClientInv, Way
<1>3. i \in DOMAIN calls
  BY <1>1, ComingMade DEF ClientInv, Ret
<1>4. calls[i].resource \in Resource
  BY <1>3, MadeTid DEF ClientInv, CallRecord
<1>5. holder[calls[i].resource] = i
  BY DEF ClientInv, Recorded, Releasing
<1> QED
  BY <1>1, <1>2, <1>4, <1>5

\* The messages between the two, those to the daemon first.
Between(k) ==
  IF k <= Len(toDaemon) THEN toDaemon[k]
                        ELSE OnTheWay[Len(pending) + (k - Len(toDaemon))]

InBetween == 1..Len(toDaemon) + (Len(toClient) + Len(writing))

OfCallNo(m) == IF m.request = "UNLOCK" THEN m.lockid ELSE m.owner_tid

ForThread == { k \in InBetween : Between(k).request \in {"LOCK", "NAK"} }
ForLock   == { k \in InBetween : Between(k).request \in {"GRANT", "UNLOCK"} }

\* What stands at place k.
LEMMA BetweenIs ==
  ASSUME ClientInv, NEW k \in InBetween
  PROVE  \/ /\ k \in DOMAIN toDaemon /\ Between(k) = toDaemon[k]
            /\ Between(k) \in Request
         \/ /\ k - Len(toDaemon) \in Nat /\ k > Len(toDaemon)
            /\ Len(pending) + (k - Len(toDaemon)) \in DOMAIN OnTheWay
            /\ Between(k) = OnTheWay[Len(pending) + (k - Len(toDaemon))]
            /\ Between(k) \in Answers
<1>1. /\ pending \in Seq(Answers) /\ toClient \in Seq(Answers) /\ writing \in Seq(Answers)
      /\ toDaemon \in Seq(Request) /\ OnTheWay \in Seq(Answers)
  BY TypeFacts DEF ClientInv
<1>2. /\ Len(pending) \in Nat /\ Len(toClient) \in Nat /\ Len(writing) \in Nat
      /\ Len(toDaemon) \in Nat
  BY <1>1, LenProperties
<1>3. Len(OnTheWay) = Len(pending) + Len(toClient) + Len(writing)
  BY <1>1, ConcatInTurn DEF OnTheWay, InTurn
<1>4. DOMAIN OnTheWay = 1..Len(OnTheWay) /\ DOMAIN toDaemon = 1..Len(toDaemon)
  BY <1>1, LenProperties
<1>5. k \in Nat /\ 1 <= k /\ k <= Len(toDaemon) + (Len(toClient) + Len(writing))
  BY <1>2 DEF InBetween
<1>6. CASE k <= Len(toDaemon)
  <2>1. k \in 1..Len(toDaemon)
    BY <1>2, <1>5, <1>6
  <2>2. toDaemon[k] \in Request
    BY <1>1, <2>1, ElementOfSeq
  <2> QED BY <1>4, <1>6, <2>1, <2>2 DEF Between
<1>7. CASE ~(k <= Len(toDaemon))
  <2>1. /\ Len(pending) + (k - Len(toDaemon)) \in 1..Len(OnTheWay)
        /\ k - Len(toDaemon) \in Nat /\ k > Len(toDaemon)
    BY <1>2, <1>3, <1>5, <1>7
  <2>2. OnTheWay[Len(pending) + (k - Len(toDaemon))] \in Answers
    BY <1>1, <2>1, ElementOfSeq
  <2> QED BY <1>4, <1>7, <2>1, <2>2 DEF Between
<1> QED
  BY <1>6, <1>7

\* What a message between the two says about its call.
LEMMA BetweenSays ==
  ASSUME ClientInv, NEW k \in InBetween
  PROVE  /\ OfCallNo(Between(k)) \in Tid
         /\ Between(k).request \in {"LOCK", "UNLOCK", "GRANT", "NAK"}
         /\ Between(k).request = "LOCK" => LockIn(toDaemon, OfCallNo(Between(k)))
         /\ Between(k).request = "UNLOCK" => UnlockIn(toDaemon, OfCallNo(Between(k)))
         /\ Between(k).request = "NAK" => Coming(OfCallNo(Between(k)), "NAK")
         /\ Between(k).request = "GRANT" => Coming(OfCallNo(Between(k)), "GRANT")
<1>1. CASE /\ k \in DOMAIN toDaemon /\ Between(k) = toDaemon[k]
           /\ Between(k) \in Request
  <2>1. Between(k).request \in {"LOCK", "UNLOCK"} /\ OfCallNo(Between(k)) \in Tid
    BY <1>1 DEF Request, OfCallNo
  <2>2. Between(k).request = "LOCK" => LockIn(toDaemon, OfCallNo(Between(k)))
    BY <1>1 DEF LockIn, OfCallNo
  <2>3. Between(k).request = "UNLOCK" => UnlockIn(toDaemon, OfCallNo(Between(k)))
    BY <1>1 DEF UnlockIn, OfCallNo
  <2> QED BY <2>1, <2>2, <2>3
<1>2. ASSUME NEW n \in DOMAIN OnTheWay, Between(k) = OnTheWay[n], Between(k) \in Answers
      PROVE  /\ OfCallNo(Between(k)) \in Tid
             /\ Between(k).request \in {"GRANT", "NAK"}
             /\ Coming(OfCallNo(Between(k)), Between(k).request)
  <2>1. Between(k).request \in {"GRANT", "NAK"} /\ Between(k).owner_tid \in Tid
    BY <1>2 DEF Answers
  <2>2. OfCallNo(Between(k)) = Between(k).owner_tid
    BY <2>1 DEF OfCallNo
  <2> QED BY <1>2, <2>1, <2>2 DEF Coming, ComingIn
<1> QED
  BY <1>1, <1>2, BetweenIs

\* No two messages say the same about a call.
LEMMA BetweenDiffer ==
  ASSUME ClientInv, Releasing, NEW k \in InBetween, NEW m \in InBetween,
         Between(k).request = Between(m).request,
         OfCallNo(Between(k)) = OfCallNo(Between(m))
  PROVE  k = m
<1>1. /\ Len(toDaemon) \in Nat /\ Len(pending) \in Nat
      /\ \A n \in InBetween : n \in Nat
  BY TypeFacts, LenProperties DEF ClientInv, InBetween
<1>2. CASE /\ k \in DOMAIN toDaemon /\ Between(k) = toDaemon[k]
           /\ m \in DOMAIN toDaemon /\ Between(m) = toDaemon[m]
           /\ Between(k) \in Request
  <2>1. CASE Between(k).request = "LOCK"
    <3>1. toDaemon[k].owner_tid = toDaemon[m].owner_tid
      BY <1>2, <2>1 DEF OfCallNo
    <3>2. OnceIn(toDaemon)
      BY DEF ClientInv, Posted
    <3> QED BY <1>2, <2>1, <3>1, <3>2 DEF OnceIn
  <2>2. CASE Between(k).request = "UNLOCK"
    <3>1. toDaemon[k].lockid = toDaemon[m].lockid
      BY <1>2, <2>2 DEF OfCallNo
    <3>2. UnlockOnceIn(toDaemon)
      BY DEF Releasing
    <3> QED BY <1>2, <2>2, <3>1, <3>2 DEF UnlockOnceIn
  <2> QED BY <1>2, <2>1, <2>2 DEF Request
<1>3. ASSUME NEW a \in Nat, a = k - Len(toDaemon), NEW b \in Nat, b = m - Len(toDaemon),
             Len(pending) + a \in DOMAIN OnTheWay, Between(k) = OnTheWay[Len(pending) + a],
             Len(pending) + b \in DOMAIN OnTheWay, Between(m) = OnTheWay[Len(pending) + b],
             Between(k) \in Answers, Between(m) \in Answers
      PROVE  k = m
  <2>1. Between(k).owner_tid = Between(m).owner_tid
    BY <1>3 DEF Answers, OfCallNo
  <2>2. OrderedIn(OnTheWay)
    BY DEF ClientInv, Line
  <2>3. PICK x \in DOMAIN OnTheWay : x = Len(pending) + a
    BY <1>3
  <2>4. PICK y \in DOMAIN OnTheWay : y = Len(pending) + b
    BY <1>3
  <2>5. OnTheWay[x].owner_tid = OnTheWay[y].owner_tid /\ OnTheWay[x].request = OnTheWay[y].request
    BY <1>3, <2>1, <2>3, <2>4
  <2>6. x = y
    BY <2>2, <2>5 DEF OrderedIn
  <2> QED BY <1>1, <1>3, <2>3, <2>4, <2>6
<1>4. \A x \in Request : x.request \in {"LOCK", "UNLOCK"}
  BY DEF Request
<1>5. \A x \in Answers : x.request \in {"GRANT", "NAK"}
  BY DEF Answers
<1>6. Between(k) \in Request <=> Between(m) \notin Answers
  BY <1>4, <1>5, BetweenIs
<1>7. CASE Between(k) \in Request
  <2>1. Between(k) \notin Answers /\ Between(m) \in Request
    BY <1>4, <1>5, <1>6, <1>7, BetweenIs
  <2> QED BY <1>2, <1>6, <1>7, <2>1, BetweenIs
<1>8. CASE Between(k) \in Answers
  <2>1. Between(k) \notin Request /\ Between(m) \in Answers /\ Between(m) \notin Request
    BY <1>4, <1>5, <1>6, <1>8, BetweenIs
  <2> QED BY <1>3, <1>8, <2>1, BetweenIs
<1> QED
  BY <1>7, <1>8, BetweenIs

\* As many messages as threads that wait, at most.
LEMMA ForThreadBound ==
  ASSUME ClientInv, Inside, Releasing, conn = "open",
         NEW w \in Thread, pc[w] = "write"
  PROVE  Cardinality(ForThread) <= Cardinality(Thread) - 1
<1> DEFINE f == [k \in ForThread |->
                   CHOOSE t \in Thread : /\ pc[t] \notin {"idle", "write"}
                                         /\ tid[t] = OfCallNo(Between(k))]
           T == Thread \ {w}
<1>1. ASSUME NEW k \in ForThread
      PROVE  /\ f[k] \in T /\ tid[f[k]] = OfCallNo(Between(k))
             /\ k \in InBetween /\ Between(k).request \in {"LOCK", "NAK"}
  <2>1. k \in InBetween /\ Between(k).request \in {"LOCK", "NAK"}
    BY DEF ForThread
  <2>2. /\ OfCallNo(Between(k)) \in Tid
        /\ \/ LockIn(toDaemon, OfCallNo(Between(k)))
           \/ Coming(OfCallNo(Between(k)), "NAK")
    BY <2>1, BetweenSays
  <2>3. \E t \in Thread : pc[t] \notin {"idle", "write"} /\ tid[t] = OfCallNo(Between(k))
    BY <2>2, Awaited
  <2>4. f[k] \in Thread /\ pc[f[k]] \notin {"idle", "write"} /\ tid[f[k]] = OfCallNo(Between(k))
    BY <2>3
  <2> QED BY <2>1, <2>4
<1>2. ASSUME NEW k \in ForThread, NEW m \in ForThread, f[k] = f[m]
      PROVE  k = m
  <2>1. /\ k \in InBetween /\ m \in InBetween
        /\ OfCallNo(Between(k)) = OfCallNo(Between(m))
        /\ Between(k).request \in {"LOCK", "NAK"} /\ Between(m).request \in {"LOCK", "NAK"}
    BY <1>1, <1>2
  <2> HIDE DEF f
  <2>2. CASE Between(k).request = Between(m).request
    BY <2>1, <2>2, BetweenDiffer
  <2>3. CASE Between(k).request # Between(m).request
    <3>1. PICK i \in Tid : i = OfCallNo(Between(k)) /\ i = OfCallNo(Between(m))
      BY <2>1, BetweenSays
    <3>2. LockIn(toDaemon, i) /\ Coming(i, "NAK")
      BY <2>1, <2>3, <3>1, BetweenSays
    <3> QED BY <3>2, Awaited
  <2> QED BY <2>2, <2>3
<1>3. f \in [ForThread -> T]
  BY <1>1
<1> HIDE DEF f, T
<1>4. f \in Injection(ForThread, T)
  BY <1>2, <1>3 DEF Injection, IsInjective
<1>5. IsFiniteSet(T) /\ Cardinality(T) = Cardinality(Thread) - 1
  BY ClientAssumption, FS_RemoveElement DEF T
<1> QED
  BY <1>4, <1>5, FS_Injection

\* As many as there are locks, at most.
LEMMA ForLockBound ==
  ASSUME IsFiniteSet(Resource), ClientInv, Releasing, conn = "open"
  PROVE  Cardinality(ForLock) <= Cardinality(Resource)
<1> DEFINE f == [k \in ForLock |-> calls[OfCallNo(Between(k))].resource]
<1>1. ASSUME NEW k \in ForLock
      PROVE  /\ OfCallNo(Between(k)) \in Tid
             /\ f[k] \in Resource /\ holder[f[k]] = OfCallNo(Between(k))
             /\ k \in InBetween /\ Between(k).request \in {"GRANT", "UNLOCK"}
  <2>1. k \in InBetween /\ Between(k).request \in {"GRANT", "UNLOCK"}
    BY DEF ForLock
  <2>2. PICK i \in Tid : i = OfCallNo(Between(k))
    BY <2>1, BetweenSays
  <2>3. UnlockIn(toDaemon, i) \/ Coming(i, "GRANT")
    BY <2>1, <2>2, BetweenSays
  <2>4. calls[i].resource \in Resource /\ holder[calls[i].resource] = i
    BY <2>3, OnRecord
  <2>5. f[k] = calls[i].resource
    BY <2>2
  <2> QED BY <2>1, <2>2, <2>4, <2>5
<1>2. ASSUME NEW k \in ForLock, NEW m \in ForLock, f[k] = f[m]
      PROVE  k = m
  <2>1. /\ k \in InBetween /\ m \in InBetween
        /\ OfCallNo(Between(k)) = OfCallNo(Between(m))
        /\ Between(k).request \in {"GRANT", "UNLOCK"}
        /\ Between(m).request \in {"GRANT", "UNLOCK"}
    BY <1>1, <1>2
  <2> HIDE DEF f
  <2>2. CASE Between(k).request = Between(m).request
    BY <2>1, <2>2, BetweenDiffer
  <2>3. CASE Between(k).request # Between(m).request
    <3>1. PICK i \in Tid : i = OfCallNo(Between(k)) /\ i = OfCallNo(Between(m))
      BY <2>1, BetweenSays
    <3>2. UnlockIn(toDaemon, i) /\ Coming(i, "GRANT")
      BY <2>1, <2>3, <3>1, BetweenSays
    <3> QED BY <3>2, OnRecord
  <2> QED BY <2>2, <2>3
<1>3. f \in [ForLock -> Resource]
  BY <1>1
<1> HIDE DEF f
<1>4. f \in Injection(ForLock, Resource)
  BY <1>2, <1>3 DEF Injection, IsInjective
<1> QED
  BY <1>4, FS_Injection

(***************************************************************************)
(* Seen from the two ends of the socket.  If the daemon and a thread were  *)
(* both blocked on a full socket, 2 * SockBuf + 1 messages would be        *)
(* between them; and each is a request or a refusal some other thread      *)
(* waits with, or the one GRANT or UNLOCK under way about its lock.  So    *)
(* cpg_lock, which writes with the mutex held, and grant_client and        *)
(* nak_client, which write from the event loop, are never both blocked if  *)
(* threads and locks are not more than that.                               *)
(***************************************************************************)
THEOREM NeverGridlocked ==
  ASSUME IsFiniteSet(Resource),
         Cardinality(Thread) + Cardinality(Resource) <= 2 * SockBuf + 1
  PROVE  CLSpec => []NoGridlock
<1>1. ASSUME ClientInv, Inside, Releasing PROVE NoGridlock
  <2> SUFFICES ASSUME conn = "open", writing # <<>>, ~Room(toClient),
                      NEW w \in Thread, pc[w] = "write", ~Room(toDaemon)
               PROVE  FALSE
    BY DEF NoGridlock
  <2>1. /\ Len(toClient) \in Nat /\ Len(toDaemon) \in Nat /\ Len(writing) \in Nat
        /\ Len(writing) # 0
    BY <1>1, TypeFacts, LenProperties, EmptySeq DEF ClientInv
  <2>2. SockBuf \in Nat /\ Len(toClient) >= SockBuf /\ Len(toDaemon) >= SockBuf
    BY <2>1, ClientAssumption DEF Room
  <2>3. /\ IsFiniteSet(InBetween)
        /\ Cardinality(InBetween) = Len(toDaemon) + (Len(toClient) + Len(writing))
    <3>1. PICK n \in Nat : n = Len(toDaemon) + (Len(toClient) + Len(writing))
      BY <2>1
    <3> QED BY <3>1, FS_Interval DEF InBetween
  <2>4. InBetween = ForThread \cup ForLock /\ ForThread \cap ForLock = {}
    BY <1>1, BetweenSays DEF ForThread, ForLock
  <2>5. IsFiniteSet(ForThread) /\ IsFiniteSet(ForLock)
    BY <2>3, FS_Subset DEF ForThread, ForLock
  <2>6. Cardinality(InBetween) = Cardinality(ForThread) + Cardinality(ForLock)
    <3>1. Cardinality(ForThread \cup ForLock) =
            Cardinality(ForThread) + Cardinality(ForLock) - Cardinality(ForThread \cap ForLock)
      BY <2>5, FS_Union
    <3>2. Cardinality({}) = 0
      BY FS_EmptySet
    <3>3. Cardinality(ForThread) \in Nat /\ Cardinality(ForLock) \in Nat
      BY <2>5, FS_CardinalityType
    <3>4. Cardinality(InBetween) = Cardinality(ForThread \cup ForLock)
      BY <2>4
    <3>5. Cardinality(ForThread \cap ForLock) = 0
      BY <2>4, <3>2
    <3> QED BY <3>1, <3>3, <3>4, <3>5
  <2>7. Cardinality(ForThread) <= Cardinality(Thread) - 1
    BY <1>1, ForThreadBound
  <2>8. Cardinality(ForLock) <= Cardinality(Resource)
    BY <1>1, ForLockBound
  <2>9. /\ Cardinality(ForThread) \in Nat /\ Cardinality(ForLock) \in Nat
        /\ Cardinality(Thread) \in Nat /\ Cardinality(Resource) \in Nat
    BY <2>5, ClientAssumption, FS_CardinalityType
  <2> QED BY <2>1, <2>2, <2>3, <2>6, <2>7, <2>8, <2>9
<1>2. CLInit => Inside /\ Releasing
  <2> SUFFICES ASSUME CLInit PROVE Inside /\ Releasing
    OBVIOUS
  <2>1. calls = <<>> /\ toDaemon = <<>>
    BY DEF CLInit
  <2>2. DOMAIN calls = {} /\ DOMAIN toDaemon = {}
    BY <2>1
  <2> QED BY <2>2 DEF Inside, Releasing, UnlockOnceIn, UnlockIn
<1>3. ClientInv /\ Inside /\ Releasing /\ [CLNext]_clvars => Inside' /\ Releasing'
  BY InsideStep, ReleasingStep
<1> QED
  BY <1>1, <1>2, <1>3, ClientInductive, PTL DEF CLSpec

=============================================================================
