--------------------------- MODULE StartupProofs ---------------------------
(***************************************************************************)
(* The proof that the socket path stays with the daemon that serves, for   *)
(* any number of nodes and of daemons started on each of them, and with    *)
(* daemons that lose their connection to CPG.                              *)
(***************************************************************************)
EXTENDS Startup, TLAPS

Stage == {"none", "checked", "opened", "detached", "pid", "bound", "closing",
          "cleanup", "exited"}

\* Past the look at the membership, and still in the group.
Admitted(d) == phase[d] \in {"listening", "up"}

StageTypes ==
  /\ phase \in [Daemon -> Phase]
  /\ stage \in [Daemon -> Stage]
  /\ DOMAIN sockpath = Node

\* Who has called cpg_join and not left is seen by cpg_membership_get.
JoinedSeen == \A d \in Daemon : phase[d] = "cpg_init" \/ Admitted(d) => d \in cpg

\* main() comes to the group with the pid file written.
PidFirst ==
  \A d \in Daemon :
    stage[d] \in {"none", "checked", "opened", "detached"} => phase[d] = "off"

\* Nobody has the socket that was not let into the group.
BoundAdmitted ==
  \A d \in Daemon :
    stage[d] \in {"bound", "closing"} => Admitted(d) \/ phase[d] = "gone"

\* The look at the membership lets one daemon of a node pass at a time.
OneAdmitted ==
  \A d, e \in Daemon :
    Admitted(d) /\ Admitted(e) /\ NodeOf[d] = NodeOf[e] => d = e

\* Only the loss of CPG takes a daemon out of the group without its knowledge.
CutOffLost == \A d \in Daemon : CutOff(d) => d \in CpgLosers

(***************************************************************************)
(* The inductive invariant: who may touch the socket path of a node is the *)
(* one daemon that was let into the group, or one that is cut off from it. *)
(***************************************************************************)
SocketInv ==
  StageTypes /\ JoinedSeen /\ PidFirst /\ BoundAdmitted /\ OneAdmitted /\ CutOffLost

-----------------------------------------------------------------------------
\* A step of main() that stays clear of the group.
LEMMA StageKeeps ==
  ASSUME SocketInv, UNCHANGED <<cpg, phase>>, DOMAIN sockpath' = Node,
         stage' \in [Daemon -> Stage],
         \A e \in Daemon :
           \/ stage'[e] = stage[e]
           \/ stage'[e] \in {"cleanup", "exited"}
           \/ stage'[e] \in {"bound", "closing"} /\ (Admitted(e) \/ CutOff(e))
           \/ stage'[e] \in Stage \ {"bound", "closing"} /\ phase[e] = "off"
  PROVE  SocketInv'
<1>1. StageTypes' /\ JoinedSeen' /\ OneAdmitted'
  BY DEF SocketInv, StageTypes, JoinedSeen, OneAdmitted, Admitted
<1>2. PidFirst'
  BY DEF SocketInv, PidFirst
<1>3. BoundAdmitted'
  BY DEF SocketInv, BoundAdmitted, Admitted, CutOff
<1>4. CutOffLost'
  BY DEF SocketInv, CutOffLost, CutOff, Admitted
<1> QED
  BY <1>1, <1>2, <1>3, <1>4 DEF SocketInv

\* A daemon leaves the group: on its way out, or cut off.
LEMMA DepartKeeps ==
  ASSUME SocketInv, NEW d \in Daemon, DOMAIN sockpath' = Node,
         cpg' = cpg \ {d}, phase' = [phase EXCEPT ![d] = "gone"],
         \/ \E s \in {"cleanup", "exited"} : GoTo(d, s)
         \/ /\ UNCHANGED stage
            /\ stage[d] \in {"pid", "bound"} /\ d \in CpgLosers
  PROVE  SocketInv'
<1>1. phase'[d] = "gone" /\ \A e \in Daemon \ {d} : phase'[e] = phase[e]
  BY DEF SocketInv, StageTypes
<1>2. \A e \in Daemon \ {d} : stage'[e] = stage[e]
  BY DEF SocketInv, StageTypes, GoTo
<1>3. \/ stage'[d] \in {"cleanup", "exited"}
      \/ stage'[d] \in {"pid", "bound"} /\ d \in CpgLosers
  BY DEF SocketInv, StageTypes, GoTo
<1>4. StageTypes'
  BY DEF SocketInv, StageTypes, GoTo, Stage, Phase
<1>5. ~Admitted(d)' /\ \A e \in Daemon \ {d} : Admitted(e)' <=> Admitted(e)
  BY <1>1 DEF Admitted
<1>6. JoinedSeen' /\ OneAdmitted'
  BY <1>1, <1>5 DEF SocketInv, JoinedSeen, OneAdmitted
<1>7. PidFirst' /\ BoundAdmitted'
  BY <1>1, <1>2, <1>3, <1>5 DEF SocketInv, PidFirst, BoundAdmitted
<1>8. CutOffLost'
  BY <1>1, <1>2, <1>3 DEF SocketInv, CutOffLost, CutOff
<1> QED
  BY <1>4, <1>6, <1>7, <1>8 DEF SocketInv

\* Daemon d takes a step into the group: cpg_join, the look, send_join.
LEMMA EnterKeeps ==
  ASSUME SocketInv, NEW d \in Daemon, UNCHANGED <<stage, sockpath>>,
         (stage[d] = "pid" /\ CpgJoin(d)) \/ CpgInitAlone(d) \/ send_join(d)
  PROVE  SocketInv'
<1>1. CASE stage[d] = "pid" /\ CpgJoin(d)
  <2>1. /\ phase[d] = "off" /\ phase' = [phase EXCEPT ![d] = "cpg_init"]
        /\ cpg' = cpg \cup {d}
    BY <1>1 DEF CpgJoin
  <2>2. phase'[d] = "cpg_init" /\ \A e \in Daemon \ {d} : phase'[e] = phase[e]
    BY <2>1 DEF SocketInv, StageTypes
  <2> QED
    BY <1>1, <2>1, <2>2 DEF SocketInv, StageTypes, JoinedSeen, PidFirst,
       BoundAdmitted, OneAdmitted, CutOffLost, CutOff, Admitted, Phase
<1>2. CASE CpgInitAlone(d)
  <2>1. phase[d] = "cpg_init" /\ phase' = [phase EXCEPT ![d] = "listening"]
        /\ UNCHANGED cpg
    BY <1>2 DEF CpgInitAlone
  <2>2. phase'[d] = "listening" /\ \A e \in Daemon \ {d} : phase'[e] = phase[e]
    BY <2>1 DEF SocketInv, StageTypes
  <2>3. \A e \in Daemon \ {d} : NodeOf[e] = NodeOf[d] => ~Admitted(e)
    BY <1>2 DEF CpgInitAlone, SameNodeMember, SocketInv, JoinedSeen
  <2>4. OneAdmitted'
    BY <2>2, <2>3 DEF SocketInv, OneAdmitted, Admitted
  <2> QED
    BY <2>1, <2>2, <2>4 DEF SocketInv, StageTypes, JoinedSeen, PidFirst,
       BoundAdmitted, CutOffLost, CutOff, Admitted, Phase
<1>3. CASE send_join(d)
  <2>1. /\ phase[d] = "listening" /\ phase' = [phase EXCEPT ![d] = "up"]
        /\ UNCHANGED cpg
    BY <1>3 DEF send_join
  <2>2. phase'[d] = "up" /\ \A e \in Daemon \ {d} : phase'[e] = phase[e]
    BY <2>1 DEF SocketInv, StageTypes
  <2> QED
    BY <2>1, <2>2 DEF SocketInv, StageTypes, JoinedSeen, PidFirst,
       BoundAdmitted, OneAdmitted, CutOffLost, CutOff, Admitted, Phase
<1> QED
  BY <1>1, <1>2, <1>3

-----------------------------------------------------------------------------
LEMMA SocketInit ==
  SUInit => SocketInv
<1> SUFFICES ASSUME SUInit PROVE SocketInv
  OBVIOUS
<1>1. phase = [d \in Daemon |-> "off"]
  BY StartupAssumption DEF SUInit, GInit, Range
<1> QED
  BY <1>1 DEF SUInit, SocketInv, StageTypes, JoinedSeen, PidFirst, BoundAdmitted,
     OneAdmitted, CutOffLost, CutOff, Admitted, Stage, Phase

\* A step of daemon d alone: where main() may be afterwards.
LEMMA GoToKeeps ==
  ASSUME SocketInv, NEW d \in Daemon, NEW s \in Stage, GoTo(d, s),
         UNCHANGED <<cpg, phase>>, DOMAIN sockpath' = Node,
         \/ s \in {"cleanup", "exited"}
         \/ s \in {"bound", "closing"} /\ (Admitted(d) \/ CutOff(d))
         \/ s \notin {"bound", "closing"} /\ phase[d] = "off"
  PROVE  SocketInv'
<1>1. stage' \in [Daemon -> Stage]
  BY DEF SocketInv, StageTypes, GoTo
<1>2. stage'[d] = s /\ \A e \in Daemon \ {d} : stage'[e] = stage[e]
  BY DEF SocketInv, StageTypes, GoTo
<1> QED
  BY <1>1, <1>2, StageKeeps

LEMMA SocketStep ==
  ASSUME SocketInv, NEW d \in Daemon, SUStep(d)
  PROVE  SocketInv'
<1>0. DOMAIN sockpath = Node
  BY DEF SocketInv, StageTypes
<1>1. CASE daemon_init(d)
  <2>1. stage[d] = "none" /\ \E s \in {"exited", "checked"} : GoTo(d, s)
    BY <1>1 DEF daemon_init, At
  <2>2. phase[d] = "off"
    BY <2>1 DEF SocketInv, PidFirst
  <2> QED
    BY <1>0, <1>1, <2>1, <2>2, GoToKeeps DEF daemon_init, gvars, Stage
<1>2. CASE OpenPidfile(d)
  <2>1. phase[d] = "off"
    BY <1>2 DEF OpenPidfile, At, SocketInv, PidFirst
  <2> QED
    BY <1>0, <1>2, <2>1, GoToKeeps DEF OpenPidfile, gvars, Stage
<1>3. CASE WritePidfile(d)
  <2>1. phase[d] = "off"
    BY <1>3 DEF WritePidfile, SocketInv, PidFirst
  <2> QED
    BY <1>0, <1>3, <2>1, GoToKeeps DEF WritePidfile, gvars, Stage
<1>4. CASE daemon_cleanup(d)
  <2>1. stage' \in [Daemon -> Stage]
    BY <1>4 DEF daemon_cleanup, SocketInv, StageTypes, Stage
  <2>2. \A e \in Daemon :
          \/ stage'[e] = stage[e] \/ stage'[e] = "exited"
          \/ stage'[e] = "detached" /\ phase[e] = "off"
    BY <1>4 DEF daemon_cleanup, At, SocketInv, PidFirst
  <2> QED
    BY <1>0, <1>4, <2>1, <2>2, StageKeeps DEF daemon_cleanup, gvars, Stage
<1>5. CASE JoinGroup(d)
  BY <1>5, EnterKeeps DEF JoinGroup, At
<1>6. CASE CheckGroup(d)
  <2>1. CASE CpgInitAlone(d) /\ UNCHANGED stage
    BY <1>6, <2>1, EnterKeeps DEF CheckGroup
  <2>2. CASE CpgInitDuplicate(d) /\ GoTo(d, "cleanup")
    BY <1>0, <1>6, <2>2, DepartKeeps DEF CheckGroup, CpgInitDuplicate, Depart
  <2> QED
    BY <1>6, <2>1, <2>2 DEF CheckGroup, LookForOther
<1>7. CASE sock_listen(d)
  BY <1>0, <1>7, GoToKeeps DEF sock_listen, gvars, Stage, Admitted
<1>8. CASE EnterLoop(d)
  BY <1>8, EnterKeeps DEF EnterLoop, At
<1>9. CASE GiveUp(d)
  <2>1. CASE UNCHANGED gvars
    BY <1>0, <1>9, <2>1, GoToKeeps DEF GiveUp, gvars, Stage
  <2>2. CASE StartFails(d)
    BY <1>0, <1>9, <2>2, DepartKeeps DEF GiveUp, StartFails, Depart
  <2> QED
    BY <1>9, <2>1, <2>2 DEF GiveUp
<1>10. CASE NoSocket(d)
  <2>1. DOMAIN sockpath' = Node
    BY <1>0, <1>10 DEF NoSocket
  <2> QED
    BY <1>10, <2>1, GoToKeeps DEF NoSocket, gvars, Stage, Admitted
<1>11. CASE Dispatch(d)
  <2>1. UNCHANGED <<cpg, phase, stage, sockpath>>
    BY <1>11 DEF Dispatch, cpg_config_change, process_join, DeliverLost
  <2> QED
    BY <1>0, <2>1, StageKeeps DEF SocketInv, StageTypes
<1>12. CASE CloseSocket(d)
  BY <1>0, <1>12, GoToKeeps DEF CloseSocket, gvars, Stage, Admitted
<1>13. CASE LeaveGroup(d)
  <2>1. CASE UNCHANGED gvars
    BY <1>0, <1>13, <2>1, GoToKeeps DEF LeaveGroup, gvars, Stage
  <2>2. CASE StartFails(d) \/ Shutdown(d)
    BY <1>0, <1>13, <2>2, DepartKeeps DEF LeaveGroup, StartFails, Shutdown, Depart
  <2> QED
    BY <1>13, <2>1, <2>2 DEF LeaveGroup
<1>14. CASE CpgLost(d)
  BY <1>0, <1>14, DepartKeeps DEF CpgLost, Crash, Depart
<1>15. CASE ExitForSelf(d)
  BY <1>0, <1>15, DepartKeeps DEF ExitForSelf, DeleteForSelf, Depart
<1>16. CASE Killed(d)
  <2>1. CASE Crash(d)
    BY <1>0, <1>16, <2>1, DepartKeeps DEF Killed, Crash, Depart
  <2>2. CASE UNCHANGED gvars
    BY <1>0, <1>16, <2>2, GoToKeeps DEF Killed, gvars, Stage
  <2> QED
    BY <1>16, <2>1, <2>2 DEF Killed
<1> QED
  BY <1>1, <1>2, <1>3, <1>4, <1>5, <1>6, <1>7, <1>8, <1>9, <1>10, <1>11, <1>12,
     <1>13, <1>14, <1>15, <1>16 DEF SUStep

-----------------------------------------------------------------------------
\* What a step of daemon d may do to the socket, and to the others.
LEMMA StepShape ==
  ASSUME SocketInv, NEW d \in Daemon, SUStep(d)
  PROVE  /\ \A e \in Daemon :
              /\ stage'[e] = "bound" =>
                   stage[e] = "bound" \/ (sock_listen(d) /\ e = d)
              /\ phase[e] = "gone" => phase'[e] = "gone"
         /\ \/ UNCHANGED sockpath
            \/ /\ Admitted(d) \/ CutOff(d)
               /\ stage'[d] # stage[d]
               /\ \E v : sockpath' = [sockpath EXCEPT ![NodeOf[d]] = v]
<1>1. StageTypes
  BY DEF SocketInv
<1>2. \A e \in Daemon :
        stage'[e] = "bound" => stage[e] = "bound" \/ (sock_listen(d) /\ e = d)
  <2>1. \A s : GoTo(d, s) =>
          stage'[d] = s /\ \A e \in Daemon \ {d} : stage'[e] = stage[e]
    BY <1>1 DEF GoTo, StageTypes
  <2>2. CASE daemon_cleanup(d)
    BY <2>2 DEF daemon_cleanup
  <2>3. CASE UNCHANGED stage
    BY <2>3
  <2>4. CASE sock_listen(d)
    BY <2>1, <2>4 DEF sock_listen
  <2>5. CASE \E s \in Stage \ {"bound"} : GoTo(d, s)
    BY <2>1, <2>5
  <2> QED
    BY <2>2, <2>3, <2>4, <2>5 DEF SUStep, daemon_init, OpenPidfile, WritePidfile,
       JoinGroup, CheckGroup, LookForOther, EnterLoop, GiveUp, NoSocket, Dispatch,
       CloseSocket, LeaveGroup, CpgLost, ExitForSelf, Killed, Stage
<1>3. \A e \in Daemon : phase[e] = "gone" => phase'[e] = "gone"
  <2>1. CASE UNCHANGED phase
    BY <2>1
  <2>2. CASE phase' = [phase EXCEPT ![d] = "gone"]
    BY <1>1, <2>2 DEF StageTypes
  <2>3. CASE CpgJoin(d) \/ CpgInitAlone(d) \/ send_join(d)
    BY <1>1, <2>3 DEF StageTypes, CpgJoin, CpgInitAlone, send_join
  <2> QED
    BY <2>1, <2>2, <2>3 DEF SUStep, daemon_init, OpenPidfile, WritePidfile,
       daemon_cleanup, JoinGroup, CheckGroup, LookForOther, sock_listen, EnterLoop,
       GiveUp, NoSocket, Dispatch, CloseSocket, LeaveGroup, CpgLost, ExitForSelf,
       Killed, gvars, CpgInitDuplicate, StartFails, Shutdown, Crash, DeleteForSelf,
       Depart, cpg_config_change, process_join, DeliverLost
<1>4. \/ UNCHANGED sockpath
      \/ /\ Admitted(d) \/ CutOff(d)
         /\ stage'[d] # stage[d]
         /\ \E v : sockpath' = [sockpath EXCEPT ![NodeOf[d]] = v]
  <2>1. \A s : GoTo(d, s) => stage'[d] = s
    BY <1>1 DEF GoTo, StageTypes
  <2>2. CASE sock_listen(d)
    BY <2>1, <2>2 DEF sock_listen, Admitted, At
  <2>3. CASE NoSocket(d)
    BY <2>1, <2>3 DEF NoSocket, Admitted, At
  <2>4. CASE CloseSocket(d)
    BY <2>1, <2>4 DEF CloseSocket, Admitted, At
  <2>5. CASE UNCHANGED sockpath
    BY <2>5
  <2> QED
    BY <2>2, <2>3, <2>4, <2>5 DEF SUStep, daemon_init, OpenPidfile, WritePidfile,
       daemon_cleanup, JoinGroup, CheckGroup, EnterLoop, GiveUp, Dispatch,
       LeaveGroup, CpgLost, ExitForSelf, Killed
<1> QED
  BY <1>2, <1>3, <1>4

\* The path of a daemon that serves after the step.
LEMMA PathStep ==
  ASSUME SocketInv, NEW d \in Daemon, SUStep(d), NEW e \in Daemon, Serves(e)'
  PROVE  \/ sockpath'[NodeOf[e]] = e
         \/ Serves(e) /\ sockpath'[NodeOf[e]] = sockpath[NodeOf[e]]
         \/ Serves(e) /\ CutOffMoves(NodeOf[e])
<1>1. stage'[e] = "bound" /\ phase'[e] # "gone"
  BY DEF Serves, CutOff, At
<1>2. CASE sock_listen(d) /\ e = d
  BY <1>2, GroupAssumption DEF sock_listen, SocketInv, StageTypes
<1>3. CASE ~(sock_listen(d) /\ e = d)
  <2>1. stage[e] = "bound" /\ phase[e] # "gone"
    BY <1>1, <1>3, StepShape
  <2>2. Serves(e) /\ Admitted(e)
    BY <2>1 DEF Serves, CutOff, At, SocketInv, BoundAdmitted
  <2>3. CASE UNCHANGED sockpath
    BY <2>2, <2>3
  <2>4. CASE /\ Admitted(d) \/ CutOff(d)
             /\ stage'[d] # stage[d]
             /\ \E v : sockpath' = [sockpath EXCEPT ![NodeOf[d]] = v]
    <3>1. CASE NodeOf[d] # NodeOf[e]
      BY <2>2, <2>4, <3>1, GroupAssumption DEF SocketInv, StageTypes
    <3>2. CASE NodeOf[d] = NodeOf[e] /\ CutOff(d)
      BY <2>2, <2>4, <3>2 DEF CutOffMoves
    <3>3. CASE NodeOf[d] = NodeOf[e] /\ Admitted(d)
      BY <1>1, <2>1, <2>2, <2>4, <3>3 DEF SocketInv, OneAdmitted
    <3> QED
      BY <2>4, <3>1, <3>2, <3>3
  <2> QED
    BY <2>3, <2>4, StepShape
<1> QED
  BY <1>2, <1>3

LEMMA SocketInductive ==
  SUSpec => []SocketInv
<1>1. SocketInv /\ [SUNext]_suvars => SocketInv'
  <2> SUFFICES ASSUME SocketInv, [SUNext]_suvars PROVE SocketInv'
    OBVIOUS
  <2>1. CASE SUNext
    BY <2>1, SocketStep DEF SUNext
  <2>2. CASE UNCHANGED suvars
    BY <2>2, StageKeeps DEF suvars, gvars, SocketInv, StageTypes
  <2> QED
    BY <2>1, <2>2
<1> QED
  BY <1>1, SocketInit, PTL DEF SUSpec

(***************************************************************************)
(* The path of the daemon that serves is taken by nobody but a daemon that *)
(* is cut off from CPG, however many daemons of the node get past the pid  *)
(* file: the order in which main() joins, looks, binds, unlinks and leaves *)
(* is enough for the others.                                               *)
(***************************************************************************)
THEOREM SocketSafe == SUSpec => SocketKept
<1>1. ASSUME SocketInv, [SUNext]_suvars
      PROVE  [\A d \in Daemon :
                Serves(d) /\ Serves(d)' /\ sockpath[NodeOf[d]] = d =>
                  sockpath'[NodeOf[d]] = d \/ CutOffMoves(NodeOf[d])]_suvars
  <2>1. CASE SUNext
    BY <1>1, <2>1, PathStep DEF SUNext
  <2> QED
    BY <1>1, <2>1
<1> QED
  BY <1>1, SocketInductive, PTL DEF SUSpec, SocketKept

(***************************************************************************)
(* On a node none of whose daemons loses CPG the path leads to the daemon  *)
(* that serves, from sock_listen to the unlink at the end of main().       *)
(***************************************************************************)
THEOREM PathLeadsToServer == SUSpec => []PathServed
<1>1. SUInit => PathServed
  BY DEF SUInit, PathServed, Serves, At
<1>2. ASSUME SocketInv, PathServed, [SUNext]_suvars PROVE PathServed'
  <2>1. CASE UNCHANGED suvars
    BY <1>2, <2>1 DEF suvars, gvars, PathServed, Serves, CutOff, At
  <2>2. CASE SUNext
    <3> SUFFICES ASSUME NEW e \in Daemon, Serves(e)',
                        \A x \in CpgLosers : NodeOf[x] # NodeOf[e]
                 PROVE  sockpath'[NodeOf[e]] = e
      BY DEF PathServed
    <3>1. ~CutOffMoves(NodeOf[e])
      BY <1>2 DEF CutOffMoves, SocketInv, CutOffLost
    <3> QED
      BY <1>2, <2>2, <3>1, PathStep DEF SUNext, PathServed
  <2> QED
    BY <1>2, <2>1, <2>2
<1> QED
  BY <1>1, <1>2, SocketInductive, PTL DEF SUSpec

=============================================================================
