--------------------------- MODULE ClusterControl ---------------------------
(***************************************************************************)
(* The processes of a cluster on one machine: what orrisctl start, stop,   *)
(* kill and spawn do to them through the pid files, and what the daemon    *)
(* orrisd does from its start to its end (cmd/orrisctl/main.go,            *)
(* cmd/orrisd/main.go).                                                    *)
(*                                                                         *)
(* A command of orrisctl works on one node after the other, while the      *)
(* daemons come up or go down by themselves: Kill only sends a signal, and *)
(* Start does not wait for the ports to be bound.                          *)
(***************************************************************************)
EXTENDS Integers, Sequences, SequencesExt, FiniteSets

CONSTANTS
    MaxNode,    \* bound: the nodes are node1 .. node<MaxNode>
    StopLimit,  \* the last node that stop looks for (20 in the code)
    Sizes,      \* bound: the cluster sizes that are started
    MaxPid,     \* bound: the processes that are ever started
    MaxCommand, \* bound: the commands that are ever given
    Frail       \* bound: the nodes whose daemon may fail for other reasons than
                \* its ports, or be sent a signal by others than orrisctl

ASSUME ControlAssumption ==
    /\ {MaxNode, StopLimit, MaxPid, MaxCommand} \subseteq Nat
    /\ Sizes \subseteq 1 .. MaxNode
    /\ Frail \subseteq 1 .. MaxNode

VARIABLES
    proc,        \* proc[p]: the process with the pid p
    pidFile,     \* pidFile[i]: the pid in node<i>.pid, 0 without a file
    todo,        \* what the running command has still to do
    command,     \* the last command
    given,       \* the number of commands given
    overwritten  \* history: the processes whose pid file was written over
                 \* while they were running

controlVars == <<proc, pidFile, todo, command, given, overwritten>>

Machine == 1 .. MaxNode

\* boot: NewNode and the two Listen calls; serving: until a signal; stopping:
\* after SIGINT or SIGTERM; killed: SIGKILL is on its way
Phases == {"boot", "serving", "stopping", "killed", "dead"}

Process == [node : Machine, phase : Phases, ports : SUBSET {"rpc", "client"}]

Instruction == [do : {"kill", "start"}, node : Machine]

ControlInit ==
    /\ proc = <<>>
    /\ pidFile = [i \in Machine |-> 0]
    /\ todo = <<>>
    /\ command = "none"
    /\ given = 0
    /\ overwritten = {}

Running(p) == p \in DOMAIN proc /\ proc[p].phase \in {"boot", "serving", "stopping"}

\* The process that holds a port of node i, if any.
Holders(i, port) == {p \in DOMAIN proc : proc[p].node = i /\ port \in proc[p].ports}

\* Mutant of PortFree: the port can be shared.
PortShared(i, port) == TRUE

\* Listen on the port of node i succeeds.
PortFree(i, port) == Holders(i, port) = {}

\* The nodes that clients can connect to.
Up == {i \in Machine : \E p \in Holders(i, "client") : Running(p)}

-----------------------------------------------------------------------------
(* orrisctl *)

\* Mutant of StopNodes: the loop ends one node early.
StopNodesShort == 1 .. StopLimit - 1

\* The nodes whose pid files stop and start go through.
StopNodes == 1 .. StopLimit

Each(what, S) ==
    [k \in 1 .. Cardinality(S) |-> [do |-> what, node |-> k]]

StopAll == Each("kill", StopNodes \cap Machine)

Give(name, instructions) ==
    /\ todo = <<>>
    /\ given < MaxCommand
    /\ given' = given + 1
    /\ command' = name
    /\ todo' = instructions
    /\ UNCHANGED <<proc, pidFile, overwritten>>

\* start, and ensureClusterRunning when no node answers
ClusterStart(count) == Give("start", StopAll \o Each("start", 1 .. count))

ClusterStop == Give("stop", StopAll)

\* kill <node>, and kill leader for a node that says it leads
ClusterKillTarget(i) == Give("kill", <<[do |-> "kill", node |-> i]>>)

Spawn(i) == Give("spawn", <<[do |-> "start", node |-> i]>>)

\* The next thing to do is what, for node i.
Doing(what, i) ==
    /\ todo # <<>>
    /\ Head(todo) = [do |-> what, node |-> i]
    /\ todo' = Tail(todo)
    /\ UNCHANGED <<command, given>>

\* The pid in the file is sent SIGKILL, whether it still runs or not, and the
\* file is removed.
KillByPidFile(i) ==
    /\ Doing("kill", i)
    /\ proc' = [p \in DOMAIN proc |->
         IF p = pidFile[i] /\ Running(p) THEN [proc[p] EXCEPT !.phase = "killed"] ELSE proc[p]]
    /\ pidFile' = [pidFile EXCEPT ![i] = 0]
    /\ UNCHANGED overwritten

Booting(i) == [node |-> i, phase |-> "boot", ports |-> {}]

\* Mutant of ClusterStartSingleNode: a pid file that exists is left alone.
PidFileKept(i) ==
    /\ Doing("start", i)
    /\ Len(proc) < MaxPid
    /\ proc' = Append(proc, Booting(i))
    /\ pidFile' = [pidFile EXCEPT ![i] = IF @ = 0 THEN Len(proc) + 1 ELSE @]
    /\ UNCHANGED overwritten

\* The daemon is started and its pid written, over that of an earlier one.
ClusterStartSingleNode(i) ==
    /\ Doing("start", i)
    /\ Len(proc) < MaxPid
    /\ proc' = Append(proc, Booting(i))
    /\ pidFile' = [pidFile EXCEPT ![i] = Len(proc) + 1]
    /\ overwritten' = overwritten \cup {p \in {pidFile[i]} : Running(p)}

\* Mutant of StartFails: the pid is written all the same.
PidOfFailedStart(i) ==
    /\ i \in Frail
    /\ Doing("start", i)
    /\ pidFile' = [pidFile EXCEPT ![i] = Len(proc) + 1]
    /\ UNCHANGED <<proc, overwritten>>

\* The binary cannot be built or started.
StartFails(i) ==
    /\ i \in Frail
    /\ Doing("start", i)
    /\ UNCHANGED <<proc, pidFile, overwritten>>

-----------------------------------------------------------------------------
(* orrisd *)

Becomes(p, phase, ports) ==
    /\ proc' = [proc EXCEPT ![p].phase = phase, ![p].ports = ports]
    /\ UNCHANGED <<pidFile, todo, command, given, overwritten>>

StartRPCServer(p) ==
    /\ proc[p].phase = "boot" /\ proc[p].ports = {}
    /\ PortFree(proc[p].node, "rpc")
    /\ Becomes(p, "boot", {"rpc"})

StartClientServer(p) ==
    /\ proc[p].phase = "boot" /\ proc[p].ports = {"rpc"}
    /\ PortFree(proc[p].node, "client")
    /\ Becomes(p, "serving", {"rpc", "client"})

\* NewNode or a Listen fails: os.Exit(1).
ExitAtStart(p) ==
    /\ proc[p].phase = "boot"
    /\ \/ ~PortFree(proc[p].node, IF proc[p].ports = {} THEN "rpc" ELSE "client")
       \/ proc[p].node \in Frail
    /\ Becomes(p, "dead", {})

\* SIGINT or SIGTERM arrives.
Signalled(p) ==
    /\ proc[p].node \in Frail
    /\ proc[p].phase = "serving"
    /\ Becomes(p, "stopping", proc[p].ports)

\* The goroutines that wait for stopCh close the listeners.
CloseListeners(p) ==
    /\ proc[p].phase = "stopping" /\ proc[p].ports # {}
    /\ Becomes(p, "stopping", {})

\* The process is gone: main returned after Stop, or the signal did its work.
Ended(p) ==
    /\ proc[p].phase \in {"stopping", "killed"}
    /\ Becomes(p, "dead", {})

-----------------------------------------------------------------------------
(* Properties *)

\* Every running daemon is named by its pid file, so that stop and kill find
\* it, unless the file was written over while it ran (spawn of a node that is
\* up): whatever the daemons and the signals do in between.
NoOrphans ==
    \A p \in DOMAIN proc :
        Running(p) => pidFile[proc[p].node] = p \/ p \in overwritten

\* When stop is through, no daemon runs but those and the ones of nodes behind
\* the last one it looks for (clusterStop).
StopReachesAll ==
    command = "stop" /\ todo = <<>> =>
        \A p \in DOMAIN proc :
            Running(p) => p \in overwritten \/ proc[p].node > StopLimit

\* Two daemons of one node, which share the WAL, never serve both, also when
\* the second one is started while the first one is going down (the order of
\* the Listen calls in orrisd, and its exit when one of them fails).
OneServesEach ==
    \A p, q \in DOMAIN proc :
        /\ proc[p].node = proc[q].node
        /\ proc[p].phase = "serving" /\ proc[q].phase = "serving"
        => p = q
=============================================================================
