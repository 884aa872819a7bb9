------------------------------ MODULE Startup ------------------------------
(***************************************************************************)
(* How main() (bin/cpglockd.c) starts and ends a daemon around its life in *)
(* the group: the pid file of the node (bin/daemon_init.c), the group, the *)
(* socket the clients connect to (bin/sock.c), and on the way out the same *)
(* in an order that matters.  The pid file is looked at before and written *)
(* after daemon(), without a lock, so two daemons of a node can both get   *)
(* past it; what keeps them apart is that each joins the group before it   *)
(* looks for the other there.  Here DupStart is TRUE: module Group takes   *)
(* nothing for granted about the pid file.                                 *)
(***************************************************************************)
EXTENDS Group

CONSTANT CpgLosers   \* daemons that may lose their connection to CPG

ASSUME StartupAssumption == DupStart /\ InitGroup = <<>>

VARIABLES
  stage,     \* where main() of each daemon is, beside its phase in Group
  pidfile,   \* /var/run/cpglockd.pid of each node: absent, empty or a daemon
  sockpath   \* the daemon bound to the socket path of each node, or absent

suvars == <<gvars, stage, pidfile, sockpath>>

At(d, s) == stage[d] = s
GoTo(d, s) == stage' = [stage EXCEPT ![d] = s]

-----------------------------------------------------------------------------
(***************************************************************************)
(* daemon_init.                                                            *)
(***************************************************************************)
\* check_pid_valid: the process of that pid exists and is a cpglockd.
check_pid_valid(e) == stage[e] \notin {"none", "exited"}

check_process_running(d) ==
  \E e \in Daemon : pidfile[NodeOf[d]] = e /\ check_pid_valid(e)

daemon_init(d) ==
  /\ At(d, "none")
  /\ GoTo(d, IF check_process_running(d) THEN "exited" ELSE "checked")
  /\ UNCHANGED <<gvars, pidfile, sockpath>>

\* update_pidfile: fopen truncates the file.
OpenPidfile(d) ==
  /\ At(d, "checked")
  /\ pidfile' = [pidfile EXCEPT ![NodeOf[d]] = "empty"]
  /\ GoTo(d, "opened")
  /\ UNCHANGED <<gvars, sockpath>>

\* update_pidfile: the pid is written, unless the file has been unlinked.
WritePidfile(d) ==
  /\ stage[d] \in {"opened", "detached"}
  /\ pidfile' = IF At(d, "opened")
                THEN [pidfile EXCEPT ![NodeOf[d]] = d] ELSE pidfile
  /\ GoTo(d, "pid")
  /\ UNCHANGED <<gvars, sockpath>>

\* daemon_cleanup: whoever's pid is in it, the file goes.
daemon_cleanup(d) ==
  /\ At(d, "cleanup")
  /\ pidfile' = [pidfile EXCEPT ![NodeOf[d]] = "absent"]
  /\ stage' = [e \in Daemon |->
       IF e = d THEN "exited"
       ELSE IF At(e, "opened") /\ NodeOf[e] = NodeOf[d] THEN "detached"
       ELSE stage[e]]
  /\ UNCHANGED <<gvars, sockpath>>

-----------------------------------------------------------------------------
(***************************************************************************)
(* main: into the group, the socket, the event loop.                       *)
(***************************************************************************)
\* Out of the group, and not yet on the way out of main().
CutOff(d) == phase[d] = "gone" /\ stage[d] \in {"pid", "bound"}

JoinGroup(d) ==
  /\ At(d, "pid")
  /\ CpgJoin(d)
  /\ UNCHANGED <<stage, pidfile, sockpath>>

\* Mutant: of the other daemons only those that serve are counted.
LookForOther_Serving(d) ==
  \/ /\ \A e \in cpg \ {d} : NodeOf[e] = NodeOf[d] => phase[e] # "up"
     /\ phase[d] = "cpg_init"
     /\ phase' = [phase EXCEPT ![d] = "listening"]
     /\ UNCHANGED <<cpg, log, pos, groupVars, stage>>
  \/ CpgInitDuplicate(d) /\ GoTo(d, "cleanup")

\* The end of cpg_init: nobody else of the node, or main() gives up.
LookForOther(d) ==
  \/ CpgInitAlone(d) /\ UNCHANGED stage
  \/ CpgInitDuplicate(d) /\ GoTo(d, "cleanup")

CheckGroup(d) == LookForOther(d) /\ UNCHANGED <<pidfile, sockpath>>

\* Nothing looks at CPG between cpg_init and here.
sock_listen(d) ==
  /\ At(d, "pid")
  /\ phase[d] = "listening" \/ CutOff(d)
  /\ sockpath' = [sockpath EXCEPT ![NodeOf[d]] = d]
  /\ GoTo(d, "bound")
  /\ UNCHANGED <<gvars, pidfile>>

EnterLoop(d) ==
  /\ At(d, "bound")
  /\ send_join(d)
  /\ UNCHANGED <<stage, pidfile, sockpath>>

\* cpg_init fails: cpg_initialize, cpg_join or cpg_membership_get does.
GiveUp(d) ==
  /\ At(d, "pid")
  /\ d \in Stoppable
  /\ \/ phase[d] = "off" /\ UNCHANGED gvars
     \/ phase[d] = "cpg_init" /\ StartFails(d)
  /\ GoTo(d, "cleanup")
  /\ UNCHANGED <<pidfile, sockpath>>

\* sock_listen fails: without a socket, or with the path unlinked.
NoSocket(d) ==
  /\ At(d, "pid")
  /\ (phase[d] = "listening" /\ d \in Stoppable) \/ CutOff(d)
  /\ sockpath' \in {sockpath, [sockpath EXCEPT ![NodeOf[d]] = "absent"]}
  /\ GoTo(d, "closing")
  /\ UNCHANGED <<gvars, pidfile>>

\* The event loop runs.
Dispatch(d) ==
  /\ At(d, "bound")
  /\ cpg_config_change(d, <<>>) \/ process_join(d) \/ DeliverLost(d)
  /\ UNCHANGED <<stage, pidfile, sockpath>>

-----------------------------------------------------------------------------
(***************************************************************************)
(* main: the way out.  The socket path is unlinked first, then the daemon  *)
(* leaves the group, then daemon_cleanup.                                  *)
(***************************************************************************)
CloseSocket(d) ==
  /\ At(d, "bound")
  /\ (phase[d] \in {"listening", "up"} /\ d \in Stoppable) \/ CutOff(d)
  /\ sockpath' = [sockpath EXCEPT ![NodeOf[d]] = "absent"]
  /\ GoTo(d, "closing")
  /\ UNCHANGED <<gvars, pidfile>>

LeaveGroup(d) ==
  /\ At(d, "closing")
  /\ \/ StartFails(d) \/ Shutdown(d)
     \/ phase[d] = "gone" /\ UNCHANGED gvars
  /\ GoTo(d, "cleanup")
  /\ UNCHANGED <<pidfile, sockpath>>

(***************************************************************************)
(* The connection to CPG is gone.  For the others the daemon has left like *)
(* one that died, but main() goes on: cpg_event_cb ends the loop, and the  *)
(* socket path is unlinked later, by CloseSocket.                          *)
(***************************************************************************)
CpgLost(d) ==
  /\ d \in CpgLosers
  /\ stage[d] \in {"pid", "bound"}
  /\ phase[d] \in {"listening", "up"}
  /\ Crash(d)
  /\ UNCHANGED <<stage, pidfile, sockpath>>

\* exit(0) from the configuration change: nothing is cleaned up.
ExitForSelf(d) ==
  /\ At(d, "bound")
  /\ DeleteForSelf(d)
  /\ GoTo(d, "exited")
  /\ UNCHANGED <<pidfile, sockpath>>

\* The process is killed: both files stay.
Killed(d) ==
  /\ d \in Crashable
  /\ stage[d] \notin {"none", "exited"}
  /\ \/ Crash(d)
     \/ d \notin cpg /\ UNCHANGED gvars
  /\ GoTo(d, "exited")
  /\ UNCHANGED <<pidfile, sockpath>>

-----------------------------------------------------------------------------
SUInit ==
  /\ GInit
  /\ stage = [d \in Daemon |-> "none"]
  /\ pidfile = [n \in Node |-> "absent"]
  /\ sockpath = [n \in Node |-> "absent"]

SUStep(d) ==
  \/ daemon_init(d) \/ OpenPidfile(d) \/ WritePidfile(d) \/ daemon_cleanup(d)
  \/ JoinGroup(d) \/ CheckGroup(d) \/ sock_listen(d) \/ EnterLoop(d) \/ GiveUp(d)
  \/ NoSocket(d) \/ Dispatch(d) \/ CloseSocket(d) \/ LeaveGroup(d)
  \/ CpgLost(d) \/ ExitForSelf(d) \/ Killed(d)

SUNext == \E d \in Daemon : SUStep(d)

SUSpec == SUInit /\ [][SUNext]_suvars

-----------------------------------------------------------------------------
\* Bound, and in the group as far as CPG is concerned.
Serves(d) == At(d, "bound") /\ ~CutOff(d)

\* A step of main() of a daemon that is cut off.
CutOffMoves(n) ==
  \E e \in Daemon : NodeOf[e] = n /\ CutOff(e) /\ stage'[e] # stage[e]

(***************************************************************************)
(* The socket path leads to the daemon that serves its node: no other      *)
(* daemon of the node binds the path or unlinks it, although the pid file  *)
(* lets two daemons start and lets the one that gives up remove the        *)
(* other's file.  The exception is a daemon cut off from CPG: main() still *)
(* has the path to unlink, and its successor may have bound it by then.    *)
(***************************************************************************)
SocketKept ==
  [][\A d \in Daemon :
       Serves(d) /\ Serves(d)' /\ sockpath[NodeOf[d]] = d =>
         sockpath'[NodeOf[d]] = d \/ CutOffMoves(NodeOf[d])]_suvars

(***************************************************************************)
(* On a node where nobody loses CPG this means that the path leads to the  *)
(* daemon that serves at all times, from sock_listen to the unlink in      *)
(* main().                                                                 *)
(***************************************************************************)
PathServed ==
  \A d \in Daemon :
    Serves(d) /\ (\A e \in CpgLosers : NodeOf[e] # NodeOf[d]) =>
      sockpath[NodeOf[d]] = d

=============================================================================
