---------------------------- MODULE ControlProofs ----------------------------
(***************************************************************************)
(* The steps of module ClusterControl preserve an invariant that has       *)
(* NoOrphans, OneServesEach and StopReachesAll among its consequences.     *)
(***************************************************************************)
EXTENDS ClusterControl, SequenceTheorems, FiniteSetTheorems, TLAPS

ControlTypes ==
    /\ proc \in Seq(Process)
    /\ pidFile \in [Machine -> Nat]
    /\ todo \in Seq(Instruction)

\* A port has one holder at most, and a daemon that serves holds the client port.
PortsHeldOnce ==
    /\ \A p, q \in DOMAIN proc : \A port \in {"rpc", "client"} :
          /\ proc[p].node = proc[q].node
          /\ port \in proc[p].ports /\ port \in proc[q].ports
          => p = q
    /\ \A p \in DOMAIN proc : proc[p].phase = "serving" => "client" \in proc[p].ports

\* A stop under way only kills, and whom it has not killed yet it will, save
\* those it cannot find.
StopUnderWay ==
    command = "stop" =>
        /\ \A k \in DOMAIN todo : todo[k].do = "kill"
        /\ \A p \in DOMAIN proc :
              Running(p) => \/ p \in overwritten
                            \/ proc[p].node > StopLimit
                            \/ \E k \in DOMAIN todo : todo[k].node = proc[p].node

ControlInv == ControlTypes /\ NoOrphans /\ PortsHeldOnce /\ StopUnderWay

-----------------------------------------------------------------------------
\* At first there is no process (ControlInit).
LEMMA ControlInitially == ControlInit => ControlInv
<1> SUFFICES ASSUME ControlInit PROVE ControlInv
  OBVIOUS
<1>1. proc = <<>> /\ DOMAIN proc = {} /\ proc \in Seq(Process) /\ todo \in Seq(Instruction)
  BY DEF ControlInit
<1>2. pidFile \in [Machine -> Nat] /\ command = "none"
  BY DEF ControlInit
<1> QED
  BY <1>1, <1>2 DEF ControlInv, ControlTypes, NoOrphans, PortsHeldOnce, StopUnderWay

\* The invariant implies the three properties.
LEMMA ControlImplies == ControlInv => NoOrphans /\ OneServesEach /\ StopReachesAll
<1> SUFFICES ASSUME ControlInv PROVE OneServesEach /\ StopReachesAll
  BY DEF ControlInv
<1>1. OneServesEach
  BY DEF ControlInv, PortsHeldOnce, OneServesEach
<1>2. StopReachesAll
  <2> SUFFICES ASSUME command = "stop", todo = <<>>
               PROVE  \A p \in DOMAIN proc :
                            Running(p) => p \in overwritten \/ proc[p].node > StopLimit
    BY DEF StopReachesAll
  <2>1. DOMAIN todo = {}
    OBVIOUS
  <2> QED
    BY <2>1 DEF ControlInv, StopUnderWay
<1> QED
  BY <1>1, <1>2

\* Every process is one of a node of the machine.
LEMMA ProcessType ==
    ASSUME ControlTypes
    PROVE  \A p \in DOMAIN proc : p \in Nat /\ proc[p] \in Process /\ proc[p].node \in Machine
<1> SUFFICES ASSUME NEW p \in DOMAIN proc
             PROVE  p \in Nat /\ proc[p] \in Process /\ proc[p].node \in Machine
  OBVIOUS
<1>1. p \in 1 .. Len(proc)
  BY DEF ControlTypes
<1>2. p \in Nat /\ proc[p] \in Process
  BY <1>1 DEF ControlTypes
<1>3. proc[p].node \in Machine
  BY <1>2 DEF Process
<1> QED
  BY <1>2, <1>3

\* A step that leaves the processes, the pid files and the command alone, as
\* the steps of the users' commands do.
LEMMA ControlIdle ==
  ASSUME ControlInv, UNCHANGED <<proc, pidFile, todo, command, overwritten>>
  PROVE  ControlInv'
  BY DEF ControlInv, ControlTypes, NoOrphans, PortsHeldOnce, StopUnderWay, Running

-----------------------------------------------------------------------------
(* What the commands are made of *)

\* Each makes one instruction for every node from 1 on (the loops of
\* clusterStart and clusterStop).
LEMMA EachIs ==
    ASSUME NEW m \in Nat, m <= MaxNode, NEW what \in {"kill", "start"}
    PROVE  /\ Each(what, 1 .. m) = [k \in 1 .. m |-> [do |-> what, node |-> k]]
           /\ Each(what, 1 .. m) \in Seq(Instruction)
<1>1. Cardinality(1 .. m) = m
  BY FS_Interval
<1>2. Each(what, 1 .. m) = [k \in 1 .. m |-> [do |-> what, node |-> k]]
  BY <1>1 DEF Each
<1>3. \A k \in 1 .. m : [do |-> what, node |-> k] \in Instruction
  BY ControlAssumption DEF Instruction, Machine
<1> QED
  BY <1>2, <1>3

\* stop has an instruction for every node up to the last one it looks for.
LEMMA StopAllIs ==
    /\ StopAll \in Seq(Instruction)
    /\ \A k \in DOMAIN StopAll : StopAll[k].do = "kill"
    /\ \A i \in Machine : i <= StopLimit => \E k \in DOMAIN StopAll : StopAll[k].node = i
<1> DEFINE m == IF StopLimit <= MaxNode THEN StopLimit ELSE MaxNode
<1>1. m \in Nat /\ m <= MaxNode
  BY ControlAssumption
<1>2. StopNodes \cap Machine = 1 .. m
  BY ControlAssumption DEF StopNodes, Machine
<1>3. StopAll = [k \in 1 .. m |-> [do |-> "kill", node |-> k]]
  BY <1>1, <1>2, EachIs DEF StopAll
<1>4. StopAll \in Seq(Instruction)
  BY <1>1, <1>2, EachIs DEF StopAll
<1>5. \A i \in Machine : i <= StopLimit => i \in 1 .. m
  BY ControlAssumption DEF Machine
<1>6. DOMAIN StopAll = 1 .. m /\ \A k \in 1 .. m : StopAll[k].do = "kill" /\ StopAll[k].node = k
  BY <1>3
<1> QED
  BY <1>4, <1>5, <1>6

\* A command that is given changes no process.
LEMMA GiveKeeps ==
    ASSUME ControlInv, NEW name, NEW instructions \in Seq(Instruction),
           Give(name, instructions),
           name = "stop" => instructions = StopAll
    PROVE  ControlInv'
<1>1. ControlTypes' /\ NoOrphans' /\ PortsHeldOnce'
  BY DEF ControlInv, ControlTypes, NoOrphans, PortsHeldOnce, Give, Running
<1>2. StopUnderWay'
  <2> SUFFICES ASSUME command' = "stop"
               PROVE  /\ \A k \in DOMAIN todo' : todo'[k].do = "kill"
                      /\ \A p \in DOMAIN proc' :
                            Running(p)' => \/ p \in overwritten'
                                           \/ proc'[p].node > StopLimit
                                           \/ \E k \in DOMAIN todo' : todo'[k].node = proc'[p].node
    BY DEF StopUnderWay
  <2>1. todo' = StopAll /\ proc' = proc
    BY DEF Give
  <2>2. \A p \in DOMAIN proc : proc[p].node \in Machine
    BY ProcessType DEF ControlInv
  <2>3. \A i \in Machine : i <= StopLimit \/ i > StopLimit
    BY ControlAssumption DEF Machine
  <2> QED
    BY <2>1, <2>2, <2>3, StopAllIs
<1> QED
  BY <1>1, <1>2 DEF ControlInv

\* The commands of orrisctl are given.
LEMMA CommandsKeep ==
    ASSUME ControlInv,
           \/ \E count \in Sizes : ClusterStart(count)
           \/ ClusterStop
           \/ \E i \in Machine : ClusterKillTarget(i) \/ Spawn(i)
    PROVE  ControlInv'
<1>1. ASSUME NEW count \in Sizes, ClusterStart(count) PROVE ControlInv'
  <2>1. count \in Nat /\ count <= MaxNode
    BY ControlAssumption
  <2>2. StopAll \o Each("start", 1 .. count) \in Seq(Instruction)
    BY <2>1, StopAllIs, EachIs, ConcatProperties
  <2>3. Give("start", StopAll \o Each("start", 1 .. count))
    BY <1>1 DEF ClusterStart
  <2>4. "start" # "stop"
    OBVIOUS
  <2> QED
    BY <2>2, <2>3, <2>4, GiveKeeps
<1>2. ASSUME ClusterStop PROVE ControlInv'
  BY <1>2, StopAllIs, GiveKeeps DEF ClusterStop
<1>3. ASSUME NEW i \in Machine, ClusterKillTarget(i) \/ Spawn(i) PROVE ControlInv'
  <2>1. /\ <<[do |-> "kill", node |-> i]>> \in Seq(Instruction)
        /\ <<[do |-> "start", node |-> i]>> \in Seq(Instruction)
    BY DEF Instruction
  <2>2. "kill" # "stop" /\ "spawn" # "stop"
    OBVIOUS
  <2> QED
    BY <1>3, <2>1, <2>2, GiveKeeps DEF ClusterKillTarget, Spawn
<1> QED
  BY <1>1, <1>2, <1>3

-----------------------------------------------------------------------------
(* What they do to one node after the other *)

\* Doing takes the first instruction off the list.
LEMMA DoingTakes ==
    ASSUME ControlTypes, NEW what, NEW i, Doing(what, i)
    PROVE  /\ todo' \in Seq(Instruction)
           /\ 1 \in DOMAIN todo /\ todo[1].do = what /\ todo[1].node = i
           /\ \A k \in DOMAIN todo' : k + 1 \in DOMAIN todo /\ todo'[k] = todo[k + 1]
           /\ \A k \in DOMAIN todo : k = 1 \/ (k - 1 \in DOMAIN todo' /\ todo'[k - 1] = todo[k])
           /\ command' = command
<1>1. todo \in Seq(Instruction) /\ todo # <<>> /\ todo' = Tail(todo)
  BY DEF ControlTypes, Doing
<1>2. Head(todo) = todo[1] /\ Head(todo) = [do |-> what, node |-> i]
  BY <1>1 DEF Doing
<1>3. Len(todo) \in Nat /\ Len(todo) > 0 /\ Len(todo') = Len(todo) - 1 /\ todo' \in Seq(Instruction)
  BY <1>1
<1>4. \A k \in 1 .. Len(todo) - 1 : todo'[k] = todo[k + 1]
  BY <1>1
<1>5. DOMAIN todo = 1 .. Len(todo) /\ DOMAIN todo' = 1 .. Len(todo) - 1
  BY <1>1, <1>3
<1> QED
  BY <1>2, <1>3, <1>4, <1>5 DEF Doing

\* A process is killed through its pid file.
LEMMA KillKeeps ==
    ASSUME ControlInv, NEW i \in Machine, KillByPidFile(i)
    PROVE  ControlInv'
<1>1. Doing("kill", i) /\ ControlTypes
  BY DEF KillByPidFile, ControlInv
<1>t. /\ todo' \in Seq(Instruction)
      /\ todo[1].node = i
      /\ \A k \in DOMAIN todo' : k + 1 \in DOMAIN todo /\ todo'[k] = todo[k + 1]
      /\ \A k \in DOMAIN todo : k = 1 \/ (k - 1 \in DOMAIN todo' /\ todo'[k - 1] = todo[k])
      /\ command' = command
  BY <1>1, DoingTakes
<1>2. /\ DOMAIN proc' = DOMAIN proc
      /\ \A p \in DOMAIN proc :
            /\ proc'[p].node = proc[p].node
            /\ proc'[p].ports = proc[p].ports
            /\ proc'[p].phase = IF p = pidFile[i] /\ Running(p) THEN "killed" ELSE proc[p].phase
  BY <1>1, ProcessType DEF KillByPidFile, Process
<1>3. proc' \in Seq(Process)
  <2>1. \A p \in 1 .. Len(proc) :
          (IF p = pidFile[i] /\ Running(p) THEN [proc[p] EXCEPT !.phase = "killed"] ELSE proc[p])
              \in Process
    <3> SUFFICES ASSUME NEW p \in 1 .. Len(proc)
                 PROVE  proc[p] \in Process /\ [proc[p] EXCEPT !.phase = "killed"] \in Process
      OBVIOUS
    <3>1. proc[p] \in Process
      BY <1>1 DEF ControlTypes
    <3> QED
      BY <3>1 DEF Process, Phases
  <2>2. proc' = [p \in 1 .. Len(proc) |->
          IF p = pidFile[i] /\ Running(p) THEN [proc[p] EXCEPT !.phase = "killed"] ELSE proc[p]]
    BY <1>1 DEF KillByPidFile, ControlTypes
  <2>3. Len(proc) \in Nat
    BY <1>1 DEF ControlTypes
  <2> QED
    BY <2>1, <2>2, <2>3
<1>4. ControlTypes'
  BY <1>1, <1>3, <1>t DEF KillByPidFile, ControlTypes
<1>5. \A p \in DOMAIN proc' : Running(p)' => Running(p) /\ p # pidFile[i]
  BY <1>2 DEF Running
<1>6. NoOrphans'
  BY <1>1, <1>2, <1>5, ProcessType DEF ControlInv, ControlTypes, NoOrphans, KillByPidFile
<1>7. PortsHeldOnce'
  BY <1>2 DEF ControlInv, PortsHeldOnce
<1>8. StopUnderWay'
  <2> SUFFICES ASSUME command' = "stop"
               PROVE  /\ \A k \in DOMAIN todo' : todo'[k].do = "kill"
                      /\ \A p \in DOMAIN proc' :
                            Running(p)' => \/ p \in overwritten'
                                           \/ proc'[p].node > StopLimit
                                           \/ \E k \in DOMAIN todo' : todo'[k].node = proc'[p].node
    BY DEF StopUnderWay
  <2>1. command = "stop" /\ overwritten' = overwritten
    BY <1>t DEF KillByPidFile
  <2>2. \A k \in DOMAIN todo' : todo'[k].do = "kill"
    BY <1>t, <2>1 DEF ControlInv, StopUnderWay
  <2>3. ASSUME NEW p \in DOMAIN proc', Running(p)', p \notin overwritten', ~(proc'[p].node > StopLimit)
        PROVE  \E k \in DOMAIN todo' : todo'[k].node = proc'[p].node
    <3>1. Running(p) /\ p # pidFile[i] /\ proc'[p].node = proc[p].node /\ p \in DOMAIN proc
      BY <1>2, <1>5, <2>3
    <3>2. PICK k \in DOMAIN todo : todo[k].node = proc[p].node
      BY <2>1, <2>3, <3>1 DEF ControlInv, StopUnderWay
    <3>3. proc[p].node # i
      BY <2>1, <2>3, <3>1 DEF ControlInv, NoOrphans
    <3>4. k # 1
      BY <1>t, <3>2, <3>3
    <3> QED
      BY <1>t, <3>1, <3>2, <3>4
  <2> QED
    BY <2>2, <2>3
<1> QED
  BY <1>4, <1>6, <1>7, <1>8 DEF ControlInv

\* A stop starts nothing.
LEMMA StopOnlyKills ==
    ASSUME ControlInv, NEW i \in Machine, Doing("start", i)
    PROVE  command' # "stop"
<1>1. 1 \in DOMAIN todo /\ todo[1].do = "start" /\ command' = command
  BY DoingTakes DEF ControlInv
<1> QED
  BY <1>1 DEF ControlInv, StopUnderWay

\* A daemon is started, or its start fails.
LEMMA StartKeeps ==
    ASSUME ControlInv, NEW i \in Machine, ClusterStartSingleNode(i) \/ StartFails(i)
    PROVE  ControlInv'
<1>1. Doing("start", i) /\ ControlTypes
  BY DEF ClusterStartSingleNode, StartFails, ControlInv
<1>2. todo' \in Seq(Instruction) /\ StopUnderWay'
  BY <1>1, DoingTakes, StopOnlyKills DEF StopUnderWay
<1>3. CASE StartFails(i)
  BY <1>1, <1>2, <1>3
     DEF StartFails, ControlInv, ControlTypes, NoOrphans, PortsHeldOnce, Running
<1>4. CASE ClusterStartSingleNode(i)
  <2> DEFINE new == Len(proc) + 1
  <2>1. proc' = Append(proc, Booting(i)) /\ proc \in Seq(Process)
    BY <1>1, <1>4 DEF ClusterStartSingleNode, ControlTypes
  <2>2. Booting(i) \in Process
    BY DEF Booting, Process, Phases
  <2>3. /\ proc' \in Seq(Process) /\ Len(proc) \in Nat
        /\ DOMAIN proc = 1 .. Len(proc) /\ DOMAIN proc' = 1 .. new
        /\ proc'[new] = Booting(i)
        /\ \A p \in DOMAIN proc : proc'[p] = proc[p]
    BY <2>1, <2>2
  <2>4. /\ pidFile' = [pidFile EXCEPT ![i] = new] /\ pidFile \in [Machine -> Nat]
        /\ overwritten' = overwritten \cup {p \in {pidFile[i]} : Running(p)}
    BY <1>1, <1>4 DEF ClusterStartSingleNode, ControlTypes
  <2>5. ControlTypes'
    BY <1>2, <2>3, <2>4 DEF ControlTypes
  <2>6. proc'[new].node = i /\ proc'[new].ports = {} /\ proc'[new].phase = "boot"
    BY <2>3 DEF Booting
  <2>7. NoOrphans'
    <3> SUFFICES ASSUME NEW p \in DOMAIN proc', Running(p)'
                 PROVE  pidFile'[proc'[p].node] = p \/ p \in overwritten'
      BY DEF NoOrphans
    <3>1. CASE p = new
      BY <2>4, <2>6, <3>1
    <3>2. CASE p # new
      <4>1. p \in DOMAIN proc /\ proc'[p] = proc[p] /\ Running(p) /\ proc[p].node \in Machine
        BY <1>1, <2>3, <3>2, ProcessType DEF Running
      <4>2. pidFile[proc[p].node] = p \/ p \in overwritten
        BY <4>1 DEF ControlInv, NoOrphans
      <4> QED
        BY <2>4, <4>1, <4>2
    <3> QED
      BY <3>1, <3>2
  <2>8. PortsHeldOnce'
    BY <2>3, <2>6 DEF ControlInv, PortsHeldOnce
  <2> QED
    BY <1>2, <2>5, <2>7, <2>8 DEF ControlInv
<1> QED
  BY <1>3, <1>4

-----------------------------------------------------------------------------
(* What the daemons do *)

\* A process that does not come back to life changes its phase and gives up or
\* takes ports that nobody holds.
LEMMA BecomesKeeps ==
    ASSUME ControlInv, NEW q \in DOMAIN proc,
           NEW phase \in Phases, NEW ports \in SUBSET {"rpc", "client"},
           Becomes(q, phase, ports),
           phase \in {"boot", "serving", "stopping"} => Running(q),
           phase = "serving" => "client" \in ports,
           \A port \in ports \ proc[q].ports : PortFree(proc[q].node, port)
    PROVE  ControlInv'
<1>1. ControlTypes /\ proc[q] \in Process
  BY ProcessType DEF ControlInv
<1>2. /\ DOMAIN proc' = DOMAIN proc
      /\ \A p \in DOMAIN proc : p # q => proc'[p] = proc[p]
      /\ proc'[q] = [proc[q] EXCEPT !.phase = phase, !.ports = ports]
      /\ UNCHANGED <<pidFile, todo, command, overwritten>>
  BY DEF Becomes
<1>3. proc'[q].node = proc[q].node /\ proc'[q].phase = phase /\ proc'[q].ports = ports
  BY <1>1, <1>2 DEF Process
<1>4. ControlTypes'
  <2>1. [proc[q] EXCEPT !.phase = phase, !.ports = ports] \in Process
    BY <1>1 DEF Process
  <2>2. proc' = [proc EXCEPT ![q] = [proc[q] EXCEPT !.phase = phase, !.ports = ports]]
    BY DEF Becomes
  <2>3. proc' \in Seq(Process)
    BY <1>1, <2>1, <2>2 DEF ControlTypes
  <2> QED
    BY <1>1, <1>2, <2>3 DEF ControlTypes
<1>5. \A p \in DOMAIN proc : Running(p)' => Running(p)
  BY <1>2, <1>3 DEF Running
<1>6. \A p \in DOMAIN proc : proc'[p].node = proc[p].node
  BY <1>2, <1>3
<1>7. NoOrphans'
  BY <1>2, <1>5, <1>6 DEF ControlInv, NoOrphans
<1>8. StopUnderWay'
  BY <1>2, <1>5, <1>6 DEF ControlInv, StopUnderWay
<1>9. PortsHeldOnce'
  <2>1. \A p \in DOMAIN proc : proc'[p].phase = "serving" => "client" \in proc'[p].ports
    BY <1>2, <1>3 DEF ControlInv, PortsHeldOnce
  <2>2. \A port \in ports : \A p \in DOMAIN proc :
          p # q /\ proc[p].node = proc[q].node => port \notin proc[p].ports
    BY DEF ControlInv, PortsHeldOnce, PortFree, Holders
  <2>3. ASSUME NEW p \in DOMAIN proc, NEW r \in DOMAIN proc, NEW port \in {"rpc", "client"},
               proc'[p].node = proc'[r].node, port \in proc'[p].ports, port \in proc'[r].ports,
               p # r
        PROVE  FALSE
    <3>1. CASE p = q
      BY <1>2, <1>3, <1>6, <2>2, <2>3, <3>1
    <3>2. CASE r = q
      BY <1>2, <1>3, <1>6, <2>2, <2>3, <3>2
    <3>3. CASE p # q /\ r # q
      BY <1>2, <2>3, <3>3 DEF ControlInv, PortsHeldOnce
    <3> QED
      BY <3>1, <3>2, <3>3
  <2> QED
    BY <1>2, <2>1, <2>3 DEF PortsHeldOnce
<1> QED
  BY <1>4, <1>7, <1>8, <1>9 DEF ControlInv

\* The life of a daemon, from its start to its end.
LEMMA DaemonKeeps ==
    ASSUME ControlInv, NEW p \in DOMAIN proc,
           \/ StartRPCServer(p) \/ StartClientServer(p) \/ ExitAtStart(p)
           \/ Signalled(p) \/ CloseListeners(p) \/ Ended(p)
    PROVE  ControlInv'
<1>1. proc[p] \in Process
  BY ProcessType DEF ControlInv
<1>2. proc[p].ports \in SUBSET {"rpc", "client"}
  BY <1>1 DEF Process
<1>3. CASE StartRPCServer(p)
  BY <1>3, BecomesKeeps DEF StartRPCServer, Running, Phases
<1>4. CASE StartClientServer(p)
  BY <1>4, BecomesKeeps DEF StartClientServer, Running, Phases
<1>5. CASE ExitAtStart(p)
  BY <1>5, BecomesKeeps DEF ExitAtStart, Phases
<1>6. CASE Signalled(p)
  BY <1>2, <1>6, BecomesKeeps DEF Signalled, Running, Phases
<1>7. CASE CloseListeners(p)
  BY <1>7, BecomesKeeps DEF CloseListeners, Running, Phases
<1>8. CASE Ended(p)
  BY <1>8, BecomesKeeps DEF Ended, Phases
<1> QED
  BY <1>3, <1>4, <1>5, <1>6, <1>7, <1>8
=============================================================================
