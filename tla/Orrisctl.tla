------------------------------ MODULE Orrisctl ------------------------------
(***************************************************************************)
(* orrisctl and a cluster on one machine: the users' commands of module    *)
(* Routing run against the processes of module ClusterControl.  A node can *)
(* be dialled while a daemon of it accepts connections; when that daemon   *)
(* ends, the calls it was to answer break.                                 *)
(***************************************************************************)
EXTENDS Routing

ctlVars == <<controlVars, serviceVars, routeVars>>

CtlInit == ControlInit /\ RoutingInit

\* A command that manages the processes.  Commands come one after the other, as
\* in the REPL, except that a node is killed also while another command runs.
Manage ==
    /\ \/ /\ \A w \in Worker : Busy(w, "idle")
          /\ \/ \E count \in Sizes : ClusterStart(count)
             \/ ClusterStop
             \/ \E i \in Machine : Spawn(i)
       \/ \E i \in Machine : ClusterKillTarget(i)
       \/ \E i \in Machine : ClusterStartSingleNode(i) \/ StartFails(i)
    /\ UNCHANGED <<serviceVars, routeVars>>

\* A daemon starts, or begins to stop.
Daemon ==
    /\ \E p \in DOMAIN proc :
          \/ StartRPCServer(p)
          \/ StartClientServer(p)
          \/ ExitAtStart(p)
          \/ Signalled(p)
          \/ CloseListeners(p)
    /\ UNCHANGED <<serviceVars, routeVars>>

\* The daemon that was to answer them ends, and the calls to node i break.
Hangup(i) == Restart(i, CallsTo(i)) /\ UNCHANGED routeVars

Kill ==
    \E i \in Machine :
        /\ KillByPidFile(i)
        /\ IF Running(pidFile[i]) THEN Hangup(i) ELSE UNCHANGED <<serviceVars, routeVars>>

End ==
    \E p \in DOMAIN proc :
        /\ Ended(p)
        /\ IF Running(p) THEN Hangup(proc[p].node) ELSE UNCHANGED <<serviceVars, routeVars>>

\* A node that stops answers NODE_STOPPED to the requests it still has.
StopAnswer ==
    \E p \in DOMAIN proc : \E c \in CallsTo(proc[p].node) :
        /\ proc[p].phase = "stopping"
        /\ Answer(c, "NODE_STOPPED")
        /\ UNCHANGED <<controlVars, routeVars>>

\* Users come when the cluster has been started once and its daemons have had
\* their time (ensureClusterRunning, and the two seconds in clusterStart).
Begin(w) ==
    /\ todo = <<>>
    /\ given > 1 \/ (given = 1 /\ \A p \in DOMAIN proc : proc[p].phase # "boot")
    /\ \E j \in Job : TakeJob(w, j)

CtlNext ==
    \/ Manage
    \/ Daemon
    \/ Kill
    \/ End
    \/ StopAnswer
    \/ \E w \in Worker : Begin(w)
    \/ \E w \in Worker : RouteStep(w)
    \/ ClusterStep

CtlSpec == CtlInit /\ [][CtlNext]_ctlVars

-----------------------------------------------------------------------------
\* The state of the processes, the pid files and the routed commands has its
\* type; a pid file names a process that was started.
CtlTypeOK ==
    /\ proc \in Seq(Process)
    /\ pidFile \in [Machine -> 0 .. Len(proc)]
    /\ todo \in Seq(Instruction)
    /\ overwritten \subseteq DOMAIN proc
    /\ answer \in [Command -> Answers \cup {"UNSENT", "SENT", "BROKEN"}]
    /\ \A w \in Worker :
          /\ route[w].at \in {"idle", "query", "call", "wait"}
          /\ Busy(w, "wait") => Sent(w) \in Command
=============================================================================
