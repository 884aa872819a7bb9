----------------------------- MODULE ClientLib -----------------------------
(***************************************************************************)
(* One handle of the client library (lib/libcpglock.c) shared by the       *)
(* threads of a process, the socket to the daemon (lib/cpglock_util.c) and *)
(* the daemon's side of it (client_activity_cb, grant_client, nak_client   *)
(* of bin/cpglockd.c).                                                     *)
(*                                                                         *)
(* cpg_lock writes its request and then polls: it holds the mutex while it *)
(* looks through h->pending and reads one message; a message for another   *)
(* call goes to h->pending, and the mutex is released during a short       *)
(* sleep.  cpg_unlock writes without the mutex.  A message is 128 bytes    *)
(* and the two sides exchange nothing else, so the local socket carries    *)
(* each one whole or not at all.                                           *)
(***************************************************************************)
EXTENDS Integers, Sequences, FiniteSets, SequencesExt

CONSTANTS
  Thread,     \* the threads that share the handle
  Resource,   \* lock names
  Wants,      \* the locks each thread asks for
  Triers,     \* threads whose calls carry FL_TRY
  MaxSeq,     \* bound: calls of cpg_lock on the handle (h->seq)
  SockBuf,    \* messages a direction of the socket holds
  MayStop     \* may the daemon go away?

ASSUME ClientAssumption ==
  /\ IsFiniteSet(Thread)
  /\ Wants \in [Thread -> SUBSET Resource]
  /\ Triers \subseteq Thread
  /\ MaxSeq \in Nat /\ SockBuf \in Nat \ {0}
  /\ MayStop \in BOOLEAN
  /\ "none" \notin Thread

VARIABLES
  conn,      \* the connection: none, open, eof, reset or fin
  mutex,     \* the thread that holds h->mutex, or "none"
  pc,        \* where each thread is in cpg_lock
  tid,       \* the number of the call each thread is in (l.owner_tid)
  calls,     \* the calls made, by number; their count is h->seq
  pending,   \* h->pending
  toDaemon,  \* requests in the socket
  toClient,  \* answers in the socket
  stopping,  \* has the daemon left its event loop?
  requests,  \* what the daemon has yet to do about each call
  holder,    \* the call the daemon records as the holder of each lock
  writing,   \* the answer the daemon is writing: a sequence of at most one
  answers    \* the answers the daemon has begun to write to each call

libVars    == <<mutex, pc, tid, calls, pending>>
daemonVars == <<stopping, requests, holder, writing, answers>>
clvars     == <<conn, mutex, pc, tid, calls, pending, toDaemon, toClient,
                stopping, requests, holder, writing, answers>>

-----------------------------------------------------------------------------
Tid == 1..MaxSeq

LockReq(i, R, try) ==
  [request |-> "LOCK", owner_tid |-> i, resource |-> R, try |-> try]

\* UNLOCK names the lock by the id the GRANT carried: here by the call.
UnlockReq(i) == [request |-> "UNLOCK", lockid |-> i]

\* Mutant: the answer does not repeat the number of the call.
AnswerMsg_NoTid(request, i) ==
  [request |-> request, owner_tid |-> 0, resource |-> calls[i].resource]

AnswerMsg(request, i) ==
  [request |-> request, owner_tid |-> i, resource |-> calls[i].resource]

\* Mutant: the socket takes one message at a time.
Room_One(buf) == buf = <<>>

Room(buf) == Len(buf) < SockBuf

\* write_timeout without a limit: blocks while the buffer is full.
CanWrite(buf) == conn = "open" /\ Room(buf)

\* The descriptor is in error, or at its end with nothing left to read.
Failed == conn = "reset" \/ (conn = "eof" /\ toClient = <<>>)

\* read_timeout has a message to return.
Readable == conn \in {"open", "eof"} /\ toClient # <<>>

-----------------------------------------------------------------------------
(***************************************************************************)
(* The library.                                                            *)
(***************************************************************************)
\* sock_connect: a connected socket or nothing.
sock_connect == {"open", "none"}

cpg_lock_init ==
  /\ conn = "none"
  /\ conn' \in sock_connect
  /\ UNCHANGED <<libVars, toDaemon, toClient, daemonVars>>

\* cpg_lock gets the mutex, and the call its number.
Enter(t, R) ==
  /\ pc[t] = "idle"
  /\ conn \in {"open", "eof", "reset"}
  /\ mutex = "none"
  /\ Len(calls) < MaxSeq
  /\ mutex' = t
  /\ pc' = [pc EXCEPT ![t] = "write"]
  /\ tid' = [tid EXCEPT ![t] = Len(calls) + 1]
  /\ calls' = Append(calls, [resource |-> R, ret |-> "none"])
  /\ UNCHANGED <<conn, pending, toDaemon, toClient, daemonVars>>

\* The mutex once more, after usleep.
Relock(t) ==
  /\ pc[t] = "asleep"
  /\ mutex = "none"
  /\ mutex' = t
  /\ pc' = [pc EXCEPT ![t] = "poll"]
  /\ UNCHANGED <<conn, tid, calls, pending, toDaemon, toClient, daemonVars>>

\* The call returns r and releases the mutex.
Finish(t, r) ==
  /\ calls' = [calls EXCEPT ![tid[t]].ret = r]
  /\ pc' = [pc EXCEPT ![t] = "idle"]
  /\ mutex' = "none"
  /\ UNCHANGED tid

\* Mutant: the mutex is kept over the sleep.
Sleep_Locked(t) ==
  /\ pc' = [pc EXCEPT ![t] = "asleep"]
  /\ UNCHANGED <<mutex, tid, calls>>

\* usleep with the mutex released.
Sleep(t) ==
  /\ pc' = [pc EXCEPT ![t] = "asleep"]
  /\ mutex' = "none"
  /\ UNCHANGED <<tid, calls>>

WriteLock(t) ==
  /\ pc[t] = "write"
  /\ \/ /\ CanWrite(toDaemon)
        /\ toDaemon' = Append(toDaemon,
             LockReq(tid[t], calls[tid[t]].resource, t \in Triers))
        /\ pc' = [pc EXCEPT ![t] = "poll"]
        /\ UNCHANGED <<mutex, tid, calls>>
     \/ /\ conn # "open"
        /\ Finish(t, "error")
        /\ UNCHANGED toDaemon
  /\ UNCHANGED <<conn, pending, toClient, daemonVars>>

\* Mutant: the answer is looked for by the name of the lock only.
IsOwn_Resource(t, m) == m.resource = calls[tid[t]].resource

\* Is the message the answer to the call thread t is in?
IsOwn(t, m) == m.resource = calls[tid[t]].resource /\ m.owner_tid = tid[t]

\* Where on h->pending the answer to the call of thread t is, or 0.
check_pending(t) == SelectInSeq(pending, LAMBDA m : IsOwn(t, m))

\* Mutant: the newest message comes first.
add_pending_Head(m) == pending' = <<m>> \o pending

\* Mutant: what is not for this call is thrown away.
add_pending_Drop(m) == pending' = pending

add_pending(m) == pending' = Append(pending, m)

TakePending(t) ==
  /\ pc[t] = "poll"
  /\ check_pending(t) # 0
  /\ Finish(t, pending[check_pending(t)].request)
  /\ pending' = RemoveAt(pending, check_pending(t))
  /\ UNCHANGED <<conn, toDaemon, toClient, daemonVars>>

ReadOwn(t) ==
  /\ pc[t] = "poll"
  /\ check_pending(t) = 0
  /\ Readable
  /\ IsOwn(t, Head(toClient))
  /\ Finish(t, Head(toClient).request)
  /\ toClient' = Tail(toClient)
  /\ UNCHANGED <<conn, pending, toDaemon, daemonVars>>

ReadOther(t) ==
  /\ pc[t] = "poll"
  /\ check_pending(t) = 0
  /\ Readable
  /\ ~IsOwn(t, Head(toClient))
  /\ add_pending(Head(toClient))
  /\ toClient' = Tail(toClient)
  /\ Sleep(t)
  /\ UNCHANGED <<conn, toDaemon, daemonVars>>

\* ETIMEDOUT: nothing came while poll waited.
ReadTimeout(t) ==
  /\ pc[t] = "poll"
  /\ check_pending(t) = 0
  /\ conn = "open" /\ toClient = <<>>
  /\ Sleep(t)
  /\ UNCHANGED <<conn, pending, toDaemon, toClient, daemonVars>>

ReadFails(t) ==
  /\ pc[t] = "poll"
  /\ check_pending(t) = 0
  /\ Failed
  /\ Finish(t, "error")
  /\ UNCHANGED <<conn, pending, toDaemon, toClient, daemonVars>>

\* One turn of the loop in cpg_lock.
Poll(t) ==
  TakePending(t) \/ ReadOwn(t) \/ ReadOther(t) \/ ReadTimeout(t) \/ ReadFails(t)

\* cpg_unlock by a thread outside cpg_lock, of any lock its process holds.
cpg_unlock(t, i) ==
  /\ pc[t] = "idle"
  /\ calls[i].ret = "GRANT"
  /\ \/ CanWrite(toDaemon) /\ toDaemon' = Append(toDaemon, UnlockReq(i))
     \/ conn \in {"eof", "reset"} /\ UNCHANGED toDaemon
  /\ calls' = [calls EXCEPT ![i].ret = "unlocked"]
  /\ UNCHANGED <<conn, mutex, pc, tid, pending, toClient, daemonVars>>

\* What the daemon knew of the process is gone, by del_client or with itself.
Disconnected ==
  /\ requests' = [i \in Tid |-> "none"]
  /\ holder' = [R \in Resource |-> 0]
  /\ writing' = <<>>

\* cpg_lock_fin is not for a handle that is in use.
cpg_lock_fin ==
  /\ conn \in {"open", "eof", "reset"}
  /\ \A t \in Thread : pc[t] = "idle"
  /\ conn' = "fin"
  /\ pending' = <<>>
  /\ toDaemon' = <<>>
  /\ toClient' = <<>>
  /\ Disconnected
  /\ UNCHANGED <<mutex, pc, tid, calls, stopping, answers>>

-----------------------------------------------------------------------------
(***************************************************************************)
(* The daemon.  It reads when it is not writing.  When a call is granted   *)
(* or refused is for the rest of the cluster to say; a call that has been  *)
(* refused may still be granted, because the NAK and the GRANT of a queued *)
(* request may both be under way.                                          *)
(***************************************************************************)
client_activity_cb ==
  /\ conn = "open"
  /\ ~stopping
  /\ writing = <<>>
  /\ toDaemon # <<>>
  /\ toDaemon' = Tail(toDaemon)
  /\ LET m == Head(toDaemon) IN
       \/ /\ m.request = "LOCK"
          /\ requests' = [requests EXCEPT ![m.owner_tid] =
                            IF m.try THEN "try" ELSE "wait"]
          /\ UNCHANGED holder
       \/ /\ m.request = "UNLOCK"
          /\ holder' = [R \in Resource |->
                          IF holder[R] = m.lockid THEN 0 ELSE holder[R]]
          /\ UNCHANGED requests
  /\ UNCHANGED <<conn, libVars, toClient, stopping, writing, answers>>

BeginAnswer(i, m) ==
  /\ conn = "open"
  /\ writing = <<>>
  /\ writing' = <<m>>
  /\ answers' = [answers EXCEPT ![i] = Append(@, m.request)]

grant_client(i) ==
  /\ ~stopping
  /\ requests[i] \in {"wait", "try", "refused"}
  /\ holder[calls[i].resource] = 0
  /\ BeginAnswer(i, AnswerMsg("GRANT", i))
  /\ requests' = [requests EXCEPT ![i] = "over"]
  /\ holder' = [holder EXCEPT ![calls[i].resource] = i]
  /\ UNCHANGED <<conn, libVars, toDaemon, toClient, stopping>>

nak_client(i) ==
  /\ ~stopping
  /\ requests[i] = "try"
  /\ BeginAnswer(i, AnswerMsg("NAK", i))
  /\ requests' = [requests EXCEPT ![i] = "refused"]
  /\ UNCHANGED <<conn, libVars, toDaemon, toClient, stopping, holder>>

DaemonWrite ==
  /\ writing # <<>>
  /\ CanWrite(toClient)
  /\ toClient' = toClient \o writing
  /\ writing' = <<>>
  /\ UNCHANGED <<conn, libVars, toDaemon, stopping, requests, holder, answers>>

\* The group is lost or the daemon is killed: the event loop ends.
DaemonStops ==
  /\ MayStop
  /\ conn = "open"
  /\ ~stopping
  /\ stopping' = TRUE
  /\ UNCHANGED <<conn, libVars, toDaemon, toClient, requests, holder, writing, answers>>

\* A request still queued is refused, with FL_TRY or without.
drop_all_requests(i) ==
  /\ stopping
  /\ requests[i] \in {"wait", "try"}
  /\ BeginAnswer(i, AnswerMsg("NAK", i))
  /\ requests' = [requests EXCEPT ![i] = "over"]
  /\ UNCHANGED <<conn, libVars, toDaemon, toClient, stopping, holder>>

(***************************************************************************)
(* The daemon closes the connection, or dies and its kernel does.  The     *)
(* client sees an orderly end if the daemon had read everything, and an    *)
(* error otherwise.  Requests that were not in the queue yet go unanswered.*)
(***************************************************************************)
drop_all_clients ==
  /\ conn = "open"
  /\ stopping
  /\ conn' = IF toDaemon = <<>> THEN "eof" ELSE "reset"
  /\ toDaemon' = <<>>
  /\ Disconnected
  /\ UNCHANGED <<libVars, toClient, stopping, answers>>

-----------------------------------------------------------------------------
CLInit ==
  /\ conn = "none"
  /\ mutex = "none"
  /\ pc = [t \in Thread |-> "idle"]
  /\ tid = [t \in Thread |-> 0]
  /\ calls = <<>>
  /\ pending = <<>>
  /\ toDaemon = <<>>
  /\ toClient = <<>>
  /\ stopping = FALSE
  /\ requests = [i \in Tid |-> "none"]
  /\ holder = [R \in Resource |-> 0]
  /\ writing = <<>>
  /\ answers = [i \in Tid |-> <<>>]

ThreadStep(t) ==
  \/ Relock(t) \/ WriteLock(t) \/ Poll(t)
  \/ \E R \in Wants[t] : Enter(t, R)
  \/ \E i \in DOMAIN calls : cpg_unlock(t, i)

DaemonStep ==
  \/ client_activity_cb \/ DaemonWrite \/ DaemonStops \/ drop_all_clients
  \/ \E i \in Tid : grant_client(i) \/ nak_client(i) \/ drop_all_requests(i)

CLNext ==
  \/ cpg_lock_init \/ cpg_lock_fin
  \/ \E t \in Thread : ThreadStep(t)
  \/ DaemonStep

CLSpec == CLInit /\ [][CLNext]_clvars

(***************************************************************************)
(* A thread that holds the mutex runs on.  One that wants it competes with *)
(* the others: each of them lets go of it for a random time on every turn, *)
(* so whoever wants it again and again gets it.  The daemon writes what it *)
(* has begun to write and reads what has come.  Nobody has to answer.      *)
(***************************************************************************)
CLFairness ==
  /\ \A t \in Thread : /\ WF_clvars(WriteLock(t)) /\ WF_clvars(Poll(t))
                       /\ SF_clvars(Relock(t))
  /\ WF_clvars(DaemonWrite) /\ WF_clvars(client_activity_cb)

CLFairSpec == CLSpec /\ CLFairness

-----------------------------------------------------------------------------
PC == {"idle", "write", "poll", "asleep"}

Answers == [request : {"GRANT", "NAK"}, owner_tid : Tid, resource : Resource]

(***************************************************************************)
(* Type invariant.                                                         *)
(***************************************************************************)
CLTypeOK ==
  /\ conn \in {"none", "open", "eof", "reset", "fin"}
  /\ mutex \in Thread \cup {"none"}
  /\ pc \in [Thread -> PC]
  /\ tid \in [Thread -> 0..MaxSeq]
  /\ calls \in Seq([resource : Resource,
                    ret : {"none", "GRANT", "NAK", "error", "unlocked"}])
  /\ pending \in Seq(Answers)
  /\ toDaemon \in Seq([request : {"LOCK"}, owner_tid : Tid,
                       resource : Resource, try : BOOLEAN]
                      \cup [request : {"UNLOCK"}, lockid : Tid])
  /\ toClient \in Seq(Answers)
  /\ stopping \in BOOLEAN
  /\ requests \in [Tid -> {"none", "wait", "try", "refused", "over"}]
  /\ holder \in [Resource -> 0..MaxSeq]
  /\ writing \in Seq(Answers)
  /\ answers \in [Tid -> Seq({"GRANT", "NAK"})]

\* The answers on their way to the calls, in the order in which they are found.
OnTheWay == pending \o toClient \o writing

\* Where among them the answers to call i are.
AnswersTo(i) == {k \in DOMAIN OnTheWay : OnTheWay[k].owner_tid = i}

(***************************************************************************)
(* "In case multiple threads wake up from select, peek at the message to   *)
(* see if it's ours" (cpg_lock): whichever thread reads it, an answer to a *)
(* call that has not returned is never lost, doubled or overtaken between  *)
(* the socket and h->pending.                                              *)
(***************************************************************************)
NoAnswerLost ==
  conn = "open" =>
    \A i \in DOMAIN calls :
      calls[i].ret = "none" =>
        \E at \in [DOMAIN answers[i] -> AnswersTo(i)] :
          /\ \A a, b \in DOMAIN answers[i] : a < b => at[a] < at[b]
          /\ \A k \in AnswersTo(i) : \E a \in DOMAIN answers[i] : at[a] = k
          /\ \A a \in DOMAIN answers[i] : OnTheWay[at[a]].request = answers[i][a]

(***************************************************************************)
(* cpg_lock returned 0 to exactly the call the daemon has on record: the   *)
(* lock id cpg_unlock will send is the one of that record.                 *)
(***************************************************************************)
HeldAsRecorded ==
  conn = "open" =>
    \A i \in DOMAIN calls :
      calls[i].ret = "GRANT" => holder[calls[i].resource] = i

(***************************************************************************)
(* h->pending is emptied only by calls that find their own answer there:   *)
(* all that can stay behind is a GRANT to a call with FL_TRY that has been *)
(* refused, at most one for each such call.                                *)
(***************************************************************************)
OnlyLateGrantsStay ==
  \A i \in DOMAIN calls :
    calls[i].ret # "none" /\ AnswersTo(i) # {} =>
      /\ calls[i].ret \in {"NAK", "error"}
      /\ calls[i].ret = "NAK" =>
           \E k \in AnswersTo(i) : AnswersTo(i) = {k} /\ OnTheWay[k].request = "GRANT"

(***************************************************************************)
(* cpg_lock writes with the mutex held, so nobody reads meanwhile, and the *)
(* daemon does not read while it writes: they never wait for each other's  *)
(* reading (given room for the messages of the threads and locks there     *)
(* are).  cpg_unlock writes without the mutex: a thread blocked there      *)
(* keeps nobody from reading.                                              *)
(***************************************************************************)
NoGridlock ==
  ~ /\ conn = "open"
    /\ writing # <<>> /\ ~Room(toClient)
    /\ \E t \in Thread : pc[t] = "write" /\ ~Room(toDaemon)

(***************************************************************************)
(* Seen by its callers the handle is a CallService.                        *)
(***************************************************************************)
Service ==
  INSTANCE CallService WITH
    Call   <- Tid,
    Answer <- {"GRANT", "NAK"},
    made   <- DOMAIN calls,
    answer <- [i \in Tid |-> IF answers[i] = <<>> THEN "none" ELSE Head(answers[i])],
    ret    <- [i \in Tid |->
                 IF i \notin DOMAIN calls THEN "none"
                 ELSE IF calls[i].ret = "unlocked" THEN "GRANT" ELSE calls[i].ret],
    broken <- conn \in {"eof", "reset", "fin"}

(***************************************************************************)
(* A call returns the first answer the daemon gave to it and to no other   *)
(* call, fails only when the connection is gone, and does return: not even *)
(* if its answer is always read by other threads is it kept waiting.       *)
(***************************************************************************)
ImplementsCalls == Service!CSSpec

=============================================================================
