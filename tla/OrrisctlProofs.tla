--------------------------- MODULE OrrisctlProofs ---------------------------
(***************************************************************************)
(* What holds in every behaviour of module Orrisctl, for any number of     *)
(* nodes, commands and processes: of the processes of ClusterControl, and  *)
(* of what the users of Routing are told.                                  *)
(***************************************************************************)
EXTENDS Orrisctl, ControlProofs, WellFoundedInduction, TLAPS

\* The users' commands and the cluster leave the processes alone.
LEMMA UseKeeps ==
    ASSUME ControlInv,
           \/ StopAnswer
           \/ \E w \in Worker : Begin(w)
           \/ \E w \in Worker : RouteStep(w)
           \/ ClusterStep
           \/ UNCHANGED ctlVars
    PROVE  ControlInv'
<1>1. CASE StopAnswer
  BY <1>1, ControlIdle DEF StopAnswer, controlVars
<1>2. CASE \E w \in Worker : Begin(w)
  BY <1>2, ControlIdle DEF Begin, TakeJob
<1>3. CASE \E w \in Worker : RouteStep(w)
  BY <1>3, ControlIdle
     DEF RouteStep, QueryCluster, DialFails, SendRawCommand, Receive, Deadline, GetValue, controlVars
<1>4. CASE ClusterStep
  BY <1>4, ControlIdle DEF ClusterStep, controlVars
<1>5. CASE UNCHANGED ctlVars
  BY <1>5, ControlIdle DEF ctlVars, controlVars
<1> QED
  BY <1>1, <1>2, <1>3, <1>4, <1>5

\* Every step preserves the invariant.
LEMMA ControlStep ==
    ASSUME ControlInv, [CtlNext]_ctlVars
    PROVE  ControlInv'
<1>1. CASE Manage
  BY <1>1, CommandsKeep, StartKeeps DEF Manage
<1>2. CASE Daemon
  BY <1>2, DaemonKeeps DEF Daemon
<1>3. CASE Kill
  BY <1>3, KillKeeps DEF Kill
<1>4. CASE End
  BY <1>4, DaemonKeeps DEF End
<1> QED
  BY <1>1, <1>2, <1>3, <1>4, UseKeeps DEF CtlNext

\* The invariant of the processes holds throughout.
LEMMA ControlAlways == CtlSpec => []ControlInv
<1>1. CtlInit => ControlInv
  BY ControlInitially DEF CtlInit
<1>2. ControlInv /\ [CtlNext]_ctlVars => ControlInv'
  BY ControlStep
<1> QED
  BY <1>1, <1>2, PTL DEF CtlSpec

\* Every running daemon is named by its pid file unless the file was written
\* over while it ran, whatever start, stop, kill and spawn do while daemons come
\* up and go down (clusterStartSingleNode, clusterStop, clusterKillTarget).
THEOREM DaemonsAreNamed == CtlSpec => []NoOrphans
<1>1. ControlInv => NoOrphans
  BY ControlImplies
<1> QED
  BY <1>1, ControlAlways, PTL

\* When a stop is through, it has reached every daemon that is named and whose
\* node it looks for (clusterStop).
THEOREM StopIsComplete == CtlSpec => []StopReachesAll
<1>1. ControlInv => StopReachesAll
  BY ControlImplies
<1> QED
  BY <1>1, ControlAlways, PTL

\* No two daemons of one node serve at the same time (the Listen calls of
\* orrisd).
THEOREM OneDaemonServes == CtlSpec => []OneServesEach
<1>1. ControlInv => OneServesEach
  BY ControlImplies
<1> QED
  BY <1>1, ControlAlways, PTL

-----------------------------------------------------------------------------
(* What the user is told *)

RouteShape(r) ==
    /\ DOMAIN r = {"at", "job", "online", "leader", "pos", "try", "had"}
    /\ r = [f \in DOMAIN r |-> r[f]]

Told == Answers \cup {"UNSENT", "SENT", "BROKEN"}

\* A worker under way has a job without result, and has sent it once per place in
\* Addrs at most, and once to the reported leader; an idle one has told its user.
RouteOK(w) ==
    /\ RouteShape(route[w])
    /\ route[w].at \in {"idle", "query", "call", "wait"}
    /\ route[w].at = "idle" /\ route[w].job \in Job => result[route[w].job] # "none"
    /\ route[w].at # "idle" =>
          /\ route[w].job \in Job
          /\ result[route[w].job] = "none"
          /\ route[w].pos \in 0 .. Len(Addrs)
          /\ route[w].try \in Nat
          /\ route[w].try <= route[w].pos + 1
          /\ route[w].at # "wait" => route[w].try <= route[w].pos
          /\ route[w].at = "wait" => route[w].try >= 1

RouteTypes ==
    /\ chosen \in Seq(Command)
    /\ answer \in [Command -> Told]
    /\ result = [j \in Job |-> result[j]]
    /\ route = [w \in Worker |-> route[w]]
    /\ \A w \in Worker : RouteOK(w)

\* No two workers have the same job.
JobsApart ==
    \A v, w \in Worker : v # w /\ route[w].at # "idle" => route[v].job # route[w].job

LastSending(c) == \A d \in Command : d[1] = c[1] /\ d[2] > c[2] => answer[d] = "UNSENT"

\* A sending is waited for, or is one that executeRouted goes on after, or is the
\* last of its job and has become the result.
SendingsEnd ==
    \A c \in Command : answer[c] # "UNSENT" =>
        /\ Taken(c[1])
        /\ \/ answer[c] \in {"NOT_LEADER", "BROKEN"}
           \/ \E w \in Worker : route[w].at = "wait" /\ Sent(w) = c
           \/ result[c[1]] = answer[c] /\ LastSending(c)

\* The sendings that are to come have not been made.
SendingsCount ==
    \A w \in Worker : route[w].at # "idle" =>
        \A d \in Command : d[1] = route[w].job /\ d[2] > route[w].try => answer[d] = "UNSENT"

ChosenOpen == \A k \in DOMAIN chosen : answer[chosen[k]] \notin {"UNSENT", "NOT_LEADER"}

RouteInv == RouteTypes /\ JobsApart /\ SendingsEnd /\ SendingsCount /\ ChosenOpen

\* The jobs are numbered from 1, and a command is a job and a number (Attempt).
LEMMA CommandIs ==
    /\ Job = 1 .. Len(Jobs) /\ Len(Jobs) \in Nat
    /\ Len(Addrs) \in Nat /\ DOMAIN Addrs = 1 .. Len(Addrs)
    /\ Command = Job \X (1 .. Len(Addrs) + 1)
<1>1. Len(Jobs) \in Nat /\ DOMAIN Jobs = 1 .. Len(Jobs)
  BY RoutingAssumption, LenProperties
<1>2. Len(Addrs) \in Nat /\ DOMAIN Addrs = 1 .. Len(Addrs)
  BY RoutingAssumption, LenProperties
<1> QED
  BY <1>1, <1>2, RoutingAssumption DEF Job, Attempt

\* The invariant gives the property.
LEMMA RouteImplies == RouteInv => CommittedIsReported
<1> SUFFICES ASSUME RouteInv, NEW c \in ToSet(chosen), answer[c] # "BROKEN"
             PROVE  /\ result[c[1]] \in {"none", answer[c]}
                    /\ LastSending(c)
  BY DEF CommittedIsReported, LastSending
<1>1. PICK k \in DOMAIN chosen : c = chosen[k]
  BY DEF ToSet
<1>2. c \in Command
  BY <1>1, ElementOfSeq, LenProperties DEF RouteInv, RouteTypes
<1>3. answer[c] \notin {"UNSENT", "NOT_LEADER"}
  BY <1>1 DEF RouteInv, ChosenOpen
<1>4. CASE result[c[1]] = answer[c] /\ LastSending(c)
  BY <1>4
<1>5. CASE \E w \in Worker : route[w].at = "wait" /\ Sent(w) = c
  <2>1. PICK w \in Worker : route[w].at = "wait" /\ Sent(w) = c
    BY <1>5
  <2>2. c[1] = route[w].job /\ c[2] = route[w].try
    BY <2>1 DEF Sent
  <2>3. result[route[w].job] = "none"
    BY <2>1 DEF RouteInv, RouteTypes, RouteOK
  <2> QED
    BY <2>1, <2>2, <2>3 DEF RouteInv, SendingsCount, LastSending
<1> QED
  BY <1>2, <1>3, <1>4, <1>5 DEF RouteInv, SendingsEnd

\* At first nothing is sent (RoutingInit).
LEMMA RouteInitially == RoutingInit => RouteInv
<1> SUFFICES ASSUME RoutingInit PROVE RouteInv
  OBVIOUS
<1>1. chosen = <<>> /\ chosen \in Seq(Command) /\ DOMAIN chosen = {}
  BY DEF RoutingInit, ServiceInit
<1>2. answer = [c \in Command |-> "UNSENT"]
  BY DEF RoutingInit, ServiceInit
<1>3. ASSUME NEW w \in Worker PROVE RouteOK(w)
  <2>1. route[w] = Idle /\ 0 \notin Job
    BY CommandIs DEF RoutingInit
  <2>2. RouteShape(Idle) /\ Idle.at = "idle" /\ Idle.job = 0
    BY DEF RouteShape, Idle
  <2> QED
    BY <2>1, <2>2 DEF RouteOK
<1>4. RouteTypes
  BY <1>1, <1>2, <1>3 DEF RouteTypes, RoutingInit, Told
<1> QED
  BY <1>1, <1>2, <1>4 DEF RouteInv, JobsApart, SendingsEnd, SendingsCount, ChosenOpen, RoutingInit, Idle

-----------------------------------------------------------------------------
(* Steps of a worker *)

\* A nonempty set of naturals has a least element.
LEMMA LeastNat ==
    ASSUME NEW C, C \subseteq Nat, C # {}
    PROVE  Min(C) \in C
<1>1. PICK x \in C : \A y \in C : ~(<<y, x>> \in OpToRel(<, Nat))
  BY NatLessThanWellFounded, WFMin, ZenonT(60)
<1>2. \A y \in C : y < x => <<y, x>> \in OpToRel(<, Nat)
  BY Zenon DEF OpToRel
<1>3. \A y \in C : ~(y < x)
  BY <1>1, <1>2, Zenon
<1>4. \A y \in C : x <= y
  BY <1>3
<1> QED
  BY <1>4, ZenonT(60) DEF Min

\* No answer changes, except that the call w waits for may break off.
AnswersKept(w) ==
    /\ answer' \in [Command -> Told]
    /\ \A c \in Command :
          \/ answer'[c] = answer[c]
          \/ /\ answer[c] = "SENT" /\ answer'[c] = "BROKEN"
             /\ route[w].at = "wait" /\ c = Sent(w)

\* Unsent commands stay so, and committed ones open.
LEMMA AnswersKeep ==
    ASSUME RouteInv, NEW w \in Worker, AnswersKept(w), chosen' = chosen
    PROVE  /\ \A c \in Command : answer[c] = "UNSENT" <=> answer'[c] = "UNSENT"
           /\ \A c \in Command : LastSending(c) => LastSending(c)'
           /\ ChosenOpen'
<1>1. \A c \in Command : answer[c] = "UNSENT" <=> answer'[c] = "UNSENT"
  BY DEF AnswersKept
<1>2. \A k \in DOMAIN chosen : chosen[k] \in Command
  BY ElementOfSeq, LenProperties DEF RouteInv, RouteTypes
<1> QED
  BY <1>1, <1>2 DEF AnswersKept, LastSending, RouteInv, ChosenOpen

\* The worker w goes on to its next call with the record r.
LEMMA TurnKeeps ==
    ASSUME RouteInv, NEW w \in Worker, route[w].at # "idle",
           AnswersKept(w), chosen' = chosen, result' = result,
           route[w].at = "wait" => answer'[Sent(w)] \in {"NOT_LEADER", "BROKEN"},
           NEW r, RouteShape(r), r.at = "call", r.job = route[w].job, r.try = route[w].try,
           r.pos \in 0 .. Len(Addrs), r.try <= r.pos,
           route' = [route EXCEPT ![w] = r]
    PROVE  RouteInv'
<1>0. route'[w] = r /\ \A v \in Worker : v # w => route'[v] = route[v]
  BY DEF RouteInv, RouteTypes
<1>1. \A v \in Worker : /\ route'[v].job = route[v].job
                        /\ route'[v].try = route[v].try
                        /\ route'[v].at = "idle" <=> route[v].at = "idle"
  BY <1>0
<1>2. RouteOK(w)'
  BY <1>0 DEF RouteInv, RouteTypes, RouteOK
<1>3. \A v \in Worker : v # w => RouteOK(v)'
  BY <1>0 DEF RouteInv, RouteTypes, RouteOK, RouteShape
<1>4. route' = [v \in Worker |-> route'[v]]
  BY DEF RouteInv, RouteTypes
<1>5. RouteTypes'
  BY <1>2, <1>3, <1>4 DEF RouteInv, RouteTypes, AnswersKept
<1>6. JobsApart'
  BY <1>1 DEF RouteInv, JobsApart
<1>7. SendingsCount'
  BY <1>1, AnswersKeep DEF RouteInv, SendingsCount
<1>8. SendingsEnd'
  <2> SUFFICES ASSUME NEW c \in Command, answer'[c] # "UNSENT"
               PROVE  /\ Taken(c[1])'
                      /\ \/ answer'[c] \in {"NOT_LEADER", "BROKEN"}
                         \/ \E v \in Worker : route'[v].at = "wait" /\ Sent(v)' = c
                         \/ result'[c[1]] = answer'[c] /\ LastSending(c)'
    BY DEF SendingsEnd
  <2>1. answer[c] # "UNSENT"
    BY AnswersKeep
  <2>2. Taken(c[1])'
    BY <2>1, <1>1 DEF RouteInv, SendingsEnd, Taken
  <2>3. CASE route[w].at = "wait" /\ Sent(w) = c
    BY <2>2, <2>3
  <2>4. CASE ~(route[w].at = "wait" /\ Sent(w) = c)
    <3>1. answer'[c] = answer[c]
      BY <2>4 DEF AnswersKept
    <3>2. CASE answer[c] \in {"NOT_LEADER", "BROKEN"}
      BY <2>2, <3>1, <3>2
    <3>3. CASE result[c[1]] = answer[c] /\ LastSending(c)
      BY <2>2, <3>1, <3>3, AnswersKeep
    <3>4. CASE \E v \in Worker : route[v].at = "wait" /\ Sent(v) = c
      <4>1. PICK v \in Worker : route[v].at = "wait" /\ Sent(v) = c
        BY <3>4
      <4>2. v # w
        BY <2>4, <4>1
      <4>3. route'[v].at = "wait" /\ Sent(v)' = c
        BY <1>0, <4>1, <4>2 DEF Sent
      <4> QED
        BY <2>2, <4>3
    <3> QED
      BY <2>1, <3>2, <3>3, <3>4 DEF RouteInv, SendingsEnd
  <2> QED
    BY <2>3, <2>4
<1> QED
  BY <1>5, <1>6, <1>7, <1>8, AnswersKeep DEF RouteInv

\* The worker w tells its user res.
LEMMA EndKeeps ==
    ASSUME RouteInv, NEW w \in Worker, route[w].at # "idle",
           AnswersKept(w), chosen' = chosen,
           NEW r, r.job = route[w].job, NEW res, res # "none",
           route[w].at = "wait" => answer'[Sent(w)] \in {"NOT_LEADER", "BROKEN", res},
           Conclude(w, r, res)
    PROVE  RouteInv'
<1> DEFINE j == route[w].job
<1>0. /\ route'[w] = [Idle EXCEPT !.job = j, !.had = r.had]
      /\ \A v \in Worker : v # w => route'[v] = route[v]
      /\ route' = [v \in Worker |-> route'[v]]
  BY DEF RouteInv, RouteTypes, Conclude
<1>a. route'[w].at = "idle" /\ route'[w].job = j
  BY <1>0 DEF Idle
<1>b. /\ j \in Job /\ result'[j] = res /\ result[j] = "none"
      /\ \A k \in Job : k # j => result'[k] = result[k]
      /\ result' = [k \in Job |-> result'[k]]
  BY DEF RouteInv, RouteTypes, RouteOK, Conclude
<1>1. \A v \in Worker : route'[v].job = route[v].job
  BY <1>0, <1>a
<1>2. RouteOK(w)'
  <2>1. RouteShape(route'[w])
    BY <1>0 DEF Idle, RouteShape
  <2> QED
    BY <2>1, <1>a, <1>b DEF RouteOK, RouteShape
<1>3. ASSUME NEW v \in Worker, v # w PROVE RouteOK(v)'
  <2>1. RouteOK(v) /\ route'[v] = route[v]
    BY <1>0, <1>3 DEF RouteInv, RouteTypes
  <2>2. route[v].at # "idle" => route[v].job # j
    BY <1>3 DEF RouteInv, JobsApart
  <2>3. route[v].job \in Job =>
          /\ result[route[v].job] # "none" => result'[route[v].job] # "none"
          /\ route[v].job # j => result'[route[v].job] = result[route[v].job]
    BY <1>b
  <2> QED
    BY <2>1, <2>2, <2>3 DEF RouteOK, RouteShape
<1>5. RouteTypes'
  BY <1>0, <1>b, <1>2, <1>3 DEF RouteInv, RouteTypes, AnswersKept
<1>6. JobsApart'
  BY <1>0, <1>1, <1>a DEF RouteInv, JobsApart
<1>7. SendingsCount'
  <2> SUFFICES ASSUME NEW v \in Worker, route'[v].at # "idle",
                      NEW d \in Command, d[1] = route'[v].job, d[2] > route'[v].try
               PROVE  answer'[d] = "UNSENT"
    BY DEF SendingsCount
  <2>1. v # w /\ route'[v] = route[v]
    BY <1>0, <1>a
  <2>2. answer[d] = "UNSENT"
    BY <2>1 DEF RouteInv, SendingsCount
  <2> QED
    BY <2>2, AnswersKeep
<1>8. SendingsEnd'
  <2> SUFFICES ASSUME NEW c \in Command, answer'[c] # "UNSENT"
               PROVE  /\ Taken(c[1])'
                      /\ \/ answer'[c] \in {"NOT_LEADER", "BROKEN"}
                         \/ \E v \in Worker : route'[v].at = "wait" /\ Sent(v)' = c
                         \/ result'[c[1]] = answer'[c] /\ LastSending(c)'
    BY DEF SendingsEnd
  <2>1. answer[c] # "UNSENT" /\ c[1] \in Job
    BY AnswersKeep, CommandIs
  <2>2. Taken(c[1])'
    BY <2>1, <1>1, <1>b DEF RouteInv, SendingsEnd, Taken
  <2>3. CASE route[w].at = "wait" /\ Sent(w) = c
    <3>1. c[1] = j /\ c[2] = route[w].try
      BY <2>3 DEF Sent
    <3>2. LastSending(c)
      BY <2>3, <3>1 DEF RouteInv, SendingsCount, LastSending
    <3> QED
      BY <2>2, <2>3, <3>1, <3>2, <1>b, AnswersKeep
  <2>4. CASE ~(route[w].at = "wait" /\ Sent(w) = c)
    <3>1. answer'[c] = answer[c]
      BY <2>4 DEF AnswersKept
    <3>2. CASE answer[c] \in {"NOT_LEADER", "BROKEN"}
      BY <2>2, <3>1, <3>2
    <3>3. CASE result[c[1]] = answer[c] /\ LastSending(c)
      <4>1. answer[c] # "none"
        BY DEF RouteInv, RouteTypes, Told, Answers
      <4>2. result'[c[1]] = result[c[1]]
        BY <1>b, <2>1, <3>3, <4>1
      <4> QED
        BY <2>2, <3>1, <3>3, <4>2, AnswersKeep
    <3>4. CASE \E v \in Worker : route[v].at = "wait" /\ Sent(v) = c
      <4>1. PICK v \in Worker : route[v].at = "wait" /\ Sent(v) = c
        BY <3>4
      <4>2. v # w
        BY <2>4, <4>1
      <4>3. route'[v].at = "wait" /\ Sent(v)' = c
        BY <1>0, <4>1, <4>2 DEF Sent
      <4> QED
        BY <2>2, <4>3
    <3> QED
      BY <2>1, <3>2, <3>3, <3>4 DEF RouteInv, SendingsEnd
  <2> QED
    BY <2>3, <2>4
<1> QED
  BY <1>5, <1>6, <1>7, <1>8, AnswersKeep DEF RouteInv

\* The worker w looks for the next node.
LEMMA AdvanceKeeps ==
    ASSUME RouteInv, NEW w \in Worker, route[w].at # "idle",
           AnswersKept(w), chosen' = chosen,
           route[w].at = "wait" => answer'[Sent(w)] \in {"NOT_LEADER", "BROKEN"},
           NEW r, RouteShape(r), r.job = route[w].job, r.try = route[w].try,
           r.pos = route[w].pos,
           Advance(w, r)
    PROVE  RouteInv'
<1> DEFINE later == {i \in DOMAIN Addrs : i > r.pos /\ Addrs[i] \in r.online}
           n == [r EXCEPT !.at = "call", !.pos = Min(later), !.leader = NoNode]
<1>1. CASE later = {}
  <2>1. PICK res : res # "none" /\ Conclude(w, r, res)
    BY <1>1 DEF Advance
  <2> QED
    BY <2>1, EndKeeps
<1>2. CASE later # {}
  <2>1. later \subseteq Nat
    BY CommandIs
  <2>2. Min(later) \in later
    BY <1>2, <2>1, LeastNat
  <2>3. Min(later) \in 1 .. Len(Addrs) /\ Min(later) > r.pos
    BY <2>2, CommandIs
  <2>4. r.try \in Nat /\ r.pos \in Nat /\ r.try <= r.pos + 1
    BY DEF RouteInv, RouteTypes, RouteOK
  <2> HIDE DEF later
  <2>5. /\ RouteShape(n) /\ n.at = "call" /\ n.job = r.job /\ n.try = r.try
        /\ n.pos = Min(later)
    BY DEF RouteShape
  <2>6. n.pos \in 0 .. Len(Addrs) /\ n.try <= n.pos
    BY <2>3, <2>4, <2>5, CommandIs
  <2>7. route' = [route EXCEPT ![w] = n] /\ result' = result
    BY <1>2 DEF Advance, later
  <2> HIDE DEF n
  <2> QED
    BY <2>5, <2>6, <2>7, TurnKeeps
<1> QED
  BY <1>1, <1>2

\* The worker w sends its job once more (sendRawCommand).
LEMMA SendKeeps ==
    ASSUME RouteInv, NEW w \in Worker, SendRawCommand(w)
    PROVE  RouteInv'
<1> DEFINE j == route[w].job
           t == route[w].try + 1
           c0 == <<j, t>>
<1>1. /\ route[w].at = "call" /\ j \in Job /\ result[j] = "none"
      /\ t \in 1 .. route[w].pos + 1 /\ route[w].pos \in 0 .. Len(Addrs)
  BY DEF SendRawCommand, Busy, RouteInv, RouteTypes, RouteOK
<1>2. c0 \in Command /\ c0[1] = j /\ c0[2] = t
  BY <1>1, CommandIs
<1>3. /\ answer[c0] = "UNSENT" /\ answer'[c0] = "SENT"
      /\ \A c \in Command : c # c0 => answer'[c] = answer[c]
      /\ answer' \in [Command -> Told]
      /\ chosen' = chosen
  BY <1>2 DEF SendRawCommand, Send, Tell, RouteInv, RouteTypes, Told
<1>4. /\ route' = [route EXCEPT ![w] = [route[w] EXCEPT !.at = "wait", !.try = t]]
      /\ result' = result
  BY DEF SendRawCommand, RouteInv, RouteTypes
<1>5. /\ route'[w].at = "wait" /\ route'[w].try = t /\ route'[w].job = j
      /\ route'[w].pos = route[w].pos /\ RouteShape(route'[w])
      /\ route' = [v \in Worker |-> route'[v]]
      /\ \A v \in Worker : v # w => route'[v] = route[v]
  BY <1>4 DEF RouteInv, RouteTypes, RouteOK, RouteShape
<1> HIDE DEF c0, t
<1>6. RouteOK(w)'
  <2>1. t \in Nat /\ t <= route[w].pos + 1 /\ t >= 1
    BY <1>1, CommandIs
  <2>2. result'[j] = "none"
    BY <1>1, <1>4
  <2> QED
    BY <1>1, <1>5, <2>1, <2>2 DEF RouteOK, RouteShape
<1>7. ASSUME NEW v \in Worker, v # w PROVE RouteOK(v)'
  <2>1. RouteOK(v) /\ route'[v] = route[v] /\ result' = result
    BY <1>4, <1>5, <1>7 DEF RouteInv, RouteTypes
  <2> QED
    BY <2>1 DEF RouteOK, RouteShape
<1>8. RouteTypes'
  BY <1>3, <1>4, <1>5, <1>6, <1>7 DEF RouteInv, RouteTypes
<1>9. JobsApart'
  BY <1>1, <1>5 DEF RouteInv, JobsApart
<1>10. SendingsCount'
  <2> SUFFICES ASSUME NEW v \in Worker, route'[v].at # "idle",
                      NEW d \in Command, d[1] = route'[v].job, d[2] > route'[v].try
               PROVE  answer'[d] = "UNSENT"
    BY DEF SendingsCount
  <2>1. d[2] \in Nat
    BY CommandIs
  <2>2. CASE v = w
    <3>1. d # c0 /\ d[2] > route[w].try
      BY <1>1, <1>2, <1>5, <2>1, <2>2 DEF t, RouteInv, RouteTypes, RouteOK
    <3> QED
      BY <1>1, <1>3, <1>5, <2>2, <3>1 DEF RouteInv, SendingsCount
  <2>3. CASE v # w
    <3>1. d # c0
      BY <1>1, <1>2, <1>5, <2>3 DEF RouteInv, JobsApart
    <3> QED
      BY <1>3, <1>5, <2>3, <3>1 DEF RouteInv, SendingsCount
  <2> QED
    BY <2>2, <2>3
<1>11. SendingsEnd'
  <2> SUFFICES ASSUME NEW c \in Command, answer'[c] # "UNSENT"
               PROVE  /\ Taken(c[1])'
                      /\ \/ answer'[c] \in {"NOT_LEADER", "BROKEN"}
                         \/ \E v \in Worker : route'[v].at = "wait" /\ Sent(v)' = c
                         \/ result'[c[1]] = answer'[c] /\ LastSending(c)'
    BY DEF SendingsEnd
  <2>1. CASE c = c0
    <3>1. Sent(w)' = c0
      BY <1>5 DEF Sent, c0
    <3> QED
      BY <1>2, <1>5, <2>1, <3>1 DEF Taken
  <2>2. CASE c # c0
    <3>1. answer'[c] = answer[c] /\ answer[c] # "UNSENT"
      BY <1>3, <2>2
    <3>2. Taken(c[1])'
      BY <1>4, <1>5, <3>1 DEF RouteInv, SendingsEnd, Taken
    <3>3. CASE answer[c] \in {"NOT_LEADER", "BROKEN"}
      BY <3>1, <3>2, <3>3
    <3>4. CASE \E v \in Worker : route[v].at = "wait" /\ Sent(v) = c
      <4>1. PICK v \in Worker : route[v].at = "wait" /\ Sent(v) = c
        BY <3>4
      <4>2. route'[v].at = "wait" /\ Sent(v)' = c
        BY <1>1, <1>5, <4>1 DEF Sent
      <4> QED
        BY <3>2, <4>2
    <3>5. CASE result[c[1]] = answer[c] /\ LastSending(c)
      <4>1. answer[c] # "none"
        BY DEF RouteInv, RouteTypes, Told, Answers
      <4>2. c0[1] # c[1]
        BY <1>1, <1>2, <3>5, <4>1
      <4>3. LastSending(c)'
        BY <1>3, <3>5, <4>2 DEF LastSending
      <4> QED
        BY <1>4, <3>1, <3>2, <3>5, <4>3
    <3> QED
      BY <3>1, <3>3, <3>4, <3>5 DEF RouteInv, SendingsEnd
  <2> QED
    BY <2>1, <2>2
<1>12. ChosenOpen'
  <2>1. \A k \in DOMAIN chosen : chosen[k] \in Command
    BY ElementOfSeq, LenProperties DEF RouteInv, RouteTypes
  <2> QED
    BY <1>3, <2>1 DEF RouteInv, ChosenOpen
<1> QED
  BY <1>8, <1>9, <1>10, <1>11, <1>12 DEF RouteInv

\* What a worker waits for is a command.
LEMMA SentType ==
    ASSUME RouteInv, NEW w \in Worker, route[w].at = "wait"
    PROVE  Sent(w) \in Command /\ answer[Sent(w)] \in Told
<1>1. /\ route[w].job \in Job /\ route[w].try \in 1 .. route[w].pos + 1
      /\ route[w].pos \in 0 .. Len(Addrs)
  BY DEF RouteInv, RouteTypes, RouteOK
<1>2. Sent(w) \in Command
  BY <1>1, CommandIs DEF Sent
<1> QED
  BY <1>2 DEF RouteInv, RouteTypes

\* Every step of a worker in executeRouted or in a get.
LEMMA RouteStepKeeps ==
    ASSUME RouteInv, NEW w \in Worker, RouteStep(w)
    PROVE  RouteInv'
<1>0. UNCHANGED <<chosen, answer>> => AnswersKept(w) /\ chosen' = chosen
  BY DEF AnswersKept, RouteInv, RouteTypes
<1>s. RouteShape(route[w]) /\ RouteOK(w)
  BY DEF RouteInv, RouteTypes, RouteOK
<1>1. CASE QueryCluster(w)
  <2> DEFINE r(on) == [route[w] EXCEPT !.online = on, !.had = @ \cap on]
             n(on, l) == [r(on) EXCEPT !.at = "call", !.leader = l]
  <2>1. \A on : /\ RouteShape(r(on)) /\ r(on).job = route[w].job
                /\ r(on).try = route[w].try /\ r(on).pos = route[w].pos
    BY <1>s DEF RouteShape
  <2>3. route[w].at = "query" /\ AnswersKept(w) /\ chosen' = chosen
    BY <1>0, <1>1 DEF QueryCluster, Busy, serviceVars
  <2>4. route[w].pos \in 0 .. Len(Addrs) /\ route[w].try <= route[w].pos
    BY <1>s, <2>3 DEF RouteOK
  <2>5. PICK on : \/ Advance(w, r(on))
                  \/ /\ \E l \in on : route' = [route EXCEPT ![w] = n(on, l)]
                     /\ result' = result
    BY <1>1 DEF QueryCluster
  <2> HIDE DEF r
  <2>6. CASE Advance(w, r(on))
    BY <2>1, <2>3, <2>6, AdvanceKeeps
  <2>7. CASE (\E l \in on : route' = [route EXCEPT ![w] = n(on, l)]) /\ result' = result
    <3>1. PICK l \in on : route' = [route EXCEPT ![w] = n(on, l)]
      BY <2>7
    <3> DEFINE q == r(on)
    <3>a. /\ RouteShape(q) /\ q.job = route[w].job
          /\ q.try = route[w].try /\ q.pos = route[w].pos
      BY <2>1
    <3>b. n(on, l) = [q EXCEPT !.at = "call", !.leader = l]
      OBVIOUS
    <3> HIDE DEF n, q
    <3>2. /\ RouteShape(n(on, l)) /\ n(on, l).at = "call" /\ n(on, l).job = route[w].job
          /\ n(on, l).try = route[w].try /\ n(on, l).pos = route[w].pos
      BY <3>a, <3>b DEF RouteShape
    <3> QED
      BY <2>3, <2>4, <2>7, <3>1, <3>2, TurnKeeps
  <2> QED
    BY <2>5, <2>6, <2>7
<1>2. CASE DialFails(w)
  <2> DEFINE r == [route[w] EXCEPT !.had = @ \ {Target(w)}]
  <2>1. /\ RouteShape(r) /\ r.job = route[w].job
        /\ r.try = route[w].try /\ r.pos = route[w].pos
    BY <1>s DEF RouteShape
  <2>2. Advance(w, r) /\ route[w].at = "call" /\ AnswersKept(w) /\ chosen' = chosen
    BY <1>0, <1>2 DEF DialFails, Busy, serviceVars
  <2> HIDE DEF r
  <2> QED
    BY <2>1, <2>2, AdvanceKeeps
<1>3. CASE SendRawCommand(w)
  BY <1>3, SendKeeps
<1>4. CASE Receive(w)
  <2>1. route[w].at = "wait" /\ AnswersKept(w) /\ chosen' = chosen /\ answer' = answer
    BY <1>0, <1>4 DEF Receive, Busy, serviceVars
  <2>2. CASE Resends(answer[Sent(w)])
    <3>1. answer'[Sent(w)] \in {"NOT_LEADER", "BROKEN"} /\ Advance(w, route[w])
      BY <1>4, <2>1, <2>2 DEF Receive, Resends
    <3> QED
      BY <1>s, <2>1, <3>1, AdvanceKeeps
  <2>3. CASE ~Resends(answer[Sent(w)])
    <3>1. Conclude(w, route[w], answer[Sent(w)])
      BY <1>4, <2>3 DEF Receive
    <3>2. answer[Sent(w)] # "none" /\ answer'[Sent(w)] = answer[Sent(w)]
      BY <2>1, SentType DEF Told, Answers
    <3> QED
      BY <2>1, <3>1, <3>2, EndKeeps
  <2> QED
    BY <2>2, <2>3
<1>5. CASE Deadline(w)
  <2>1. route[w].at = "wait" /\ chosen' = chosen /\ Advance(w, route[w])
    BY <1>5 DEF Deadline, Busy
  <2>2. Sent(w) \in Command /\ answer[Sent(w)] = "SENT"
    BY <1>5, <2>1, SentType DEF Deadline
  <2>3. answer' = [c \in Command |-> IF c \in {Sent(w)} THEN "BROKEN" ELSE answer[c]]
    BY <1>5 DEF Deadline, Tell
  <2>4. AnswersKept(w) /\ answer'[Sent(w)] = "BROKEN"
    BY <2>1, <2>2, <2>3 DEF AnswersKept, RouteInv, RouteTypes, Told
  <2> QED
    BY <1>s, <2>1, <2>4, AdvanceKeeps
<1>6. CASE GetValue(w)
  <2>1. route[w].at = "call" /\ AnswersKept(w) /\ chosen' = chosen
    BY <1>0, <1>6 DEF GetValue, Busy, serviceVars
  <2>2. Advance(w, route[w]) \/ Conclude(w, route[w], "FOUND")
    BY <1>6 DEF GetValue
  <2> QED
    BY <1>s, <2>1, <2>2, AdvanceKeeps, EndKeeps
<1> QED
  BY <1>1, <1>2, <1>3, <1>4, <1>5, <1>6 DEF RouteStep

-----------------------------------------------------------------------------
(* The other steps *)

LEMMA RouteIdle ==
    ASSUME RouteInv, UNCHANGED <<chosen, answer, route, result>>
    PROVE  RouteInv'
BY DEF RouteInv, RouteTypes, RouteOK, RouteShape, JobsApart, SendingsEnd, SendingsCount,
       ChosenOpen, LastSending, Taken, Sent

\* An idle worker takes a job that nobody has had (TakeJob).
LEMMA TakeKeeps ==
    ASSUME RouteInv, NEW w \in Worker, NEW j \in Job, TakeJob(w, j)
    PROVE  RouteInv'
<1>1. /\ route[w].at = "idle" /\ ~Taken(j)
      /\ result' = result /\ chosen' = chosen /\ answer' = answer
  BY CommandIs DEF TakeJob, Busy, serviceVars
<1>2. /\ route'[w].at = "query" /\ route'[w].job = j /\ route'[w].pos = 0 /\ route'[w].try = 0
      /\ RouteShape(route'[w])
      /\ route' = [v \in Worker |-> route'[v]]
      /\ \A v \in Worker : v # w => route'[v] = route[v]
  BY DEF TakeJob, RouteInv, RouteTypes, Idle, RouteShape
<1>3. result[j] = "none" /\ \A v \in Worker : route[v].job # j
  BY <1>1 DEF Taken
<1>4. RouteOK(w)'
  BY <1>1, <1>2, <1>3, CommandIs DEF RouteOK, RouteShape
<1>5. \A v \in Worker : v # w => RouteOK(v)'
  BY <1>1, <1>2 DEF RouteInv, RouteTypes, RouteOK, RouteShape
<1>6. RouteTypes'
  BY <1>1, <1>2, <1>4, <1>5 DEF RouteInv, RouteTypes
<1>7. JobsApart'
  BY <1>2, <1>3 DEF RouteInv, JobsApart
<1>8. \A c \in Command : answer[c] # "UNSENT" => c[1] # j
  BY <1>1 DEF RouteInv, SendingsEnd
<1>9. SendingsCount'
  BY <1>1, <1>2, <1>8 DEF RouteInv, SendingsCount
<1>10. \A k \in Job : Taken(k) => Taken(k)'
  BY <1>1, <1>2 DEF Taken, RouteInv, RouteTypes, RouteOK
<1>11. \A v \in Worker : route[v].at = "wait" => route'[v].at = "wait" /\ Sent(v)' = Sent(v)
  BY <1>1, <1>2 DEF Sent
<1>12. \A c \in Command : c[1] \in Job /\ LastSending(c)' = LastSending(c)
  BY <1>1, CommandIs DEF LastSending
<1>13. SendingsEnd'
  BY <1>1, <1>10, <1>11, <1>12 DEF RouteInv, SendingsEnd
<1>14. ChosenOpen'
  BY <1>1 DEF RouteInv, ChosenOpen
<1> QED
  BY <1>6, <1>7, <1>9, <1>13, <1>14 DEF RouteInv

\* Calls that are waited for get an answer, or break off.
LEMMA AnswerKeeps ==
    ASSUME RouteInv, UNCHANGED <<chosen, route, result>>,
           NEW S, NEW res \in Told \ {"UNSENT"}, Tell(S, res),
           \A c \in S : /\ c \in Command /\ answer[c] = "SENT"
                        /\ \E w \in Worker : route[w].at = "wait" /\ Sent(w) = c,
           res = "NOT_LEADER" => \A c \in S : c \notin ToSet(chosen)
    PROVE  RouteInv'
<1>1. /\ answer' \in [Command -> Told]
      /\ \A c \in Command : c \in S => answer'[c] = res
      /\ \A c \in Command : c \notin S => answer'[c] = answer[c]
  BY DEF Tell, RouteInv, RouteTypes
<1>2. \A c \in Command : answer[c] = "UNSENT" <=> answer'[c] = "UNSENT"
  BY <1>1
<1>3. RouteTypes'
  BY <1>1 DEF RouteInv, RouteTypes, RouteOK, RouteShape
<1>4. JobsApart'
  BY DEF RouteInv, JobsApart
<1>5. SendingsCount'
  BY <1>2 DEF RouteInv, SendingsCount
<1>6. \A c \in Command : LastSending(c) => LastSending(c)'
  BY <1>2 DEF LastSending
<1>7. \A w \in Worker : Sent(w)' = Sent(w)
  BY DEF Sent
<1>8. \A k : Taken(k)' = Taken(k)
  BY DEF Taken
<1>9. SendingsEnd'
  <2> SUFFICES ASSUME NEW c \in Command, answer'[c] # "UNSENT"
               PROVE  /\ Taken(c[1])'
                      /\ \/ answer'[c] \in {"NOT_LEADER", "BROKEN"}
                         \/ \E v \in Worker : route'[v].at = "wait" /\ Sent(v)' = c
                         \/ result'[c[1]] = answer'[c] /\ LastSending(c)'
    BY DEF SendingsEnd
  <2>1. answer[c] # "UNSENT"
    BY <1>2
  <2>2. Taken(c[1])'
    BY <2>1, <1>8 DEF RouteInv, SendingsEnd
  <2>3. CASE c \in S
    BY <2>2, <2>3, <1>7
  <2>4. CASE c \notin S
    BY <2>1, <2>2, <2>4, <1>1, <1>6, <1>7 DEF RouteInv, SendingsEnd
  <2> QED
    BY <2>3, <2>4
<1>10. ChosenOpen'
  <2>1. \A k \in DOMAIN chosen : chosen[k] \in Command /\ chosen[k] \in ToSet(chosen)
    BY ElementOfSeq, LenProperties DEF RouteInv, RouteTypes, ToSet
  <2> QED
    BY <1>1, <2>1 DEF RouteInv, ChosenOpen
<1> QED
  BY <1>3, <1>4, <1>5, <1>9, <1>10 DEF RouteInv

\* Commands that may still be committed are (Choose).
LEMMA ChooseKeeps ==
    ASSUME RouteInv, Choose, UNCHANGED <<route, result>>
    PROVE  RouteInv'
<1>1. PICK s \in SetToAllKPermutations(Undecided) : chosen' = chosen \o s
  BY DEF Choose
<1>2. Undecided \subseteq Command /\ \A c \in Undecided : answer[c] \notin {"UNSENT", "NOT_LEADER"}
  BY DEF Undecided
<1>3. IsFiniteSet(Command)
  <2>1. IsFiniteSet(Job) /\ IsFiniteSet(1 .. Len(Addrs) + 1)
    BY CommandIs, FS_Interval
  <2> QED
    BY <2>1, CommandIs, FS_Product
<1>4. s \in Seq(Undecided)
  <2>1. PICK T \in SUBSET Undecided : s \in [1 .. Cardinality(T) -> T]
    BY <1>1 DEF SetToAllKPermutations, SetToSeqs
  <2>2. Cardinality(T) \in Nat
    BY <1>2, <1>3, <2>1, FS_Subset, FS_CardinalityType
  <2> QED
    BY <2>1, <2>2
<1>5. chosen \in Seq(Command) /\ s \in Seq(Command)
  BY <1>2, <1>4 DEF RouteInv, RouteTypes
<1>6. chosen' \in Seq(Command)
  BY <1>1, <1>5
<1>7. answer' = answer
  BY DEF Choose
<1>8. ChosenOpen'
  <2> SUFFICES ASSUME NEW k \in DOMAIN chosen'
               PROVE  answer[chosen'[k]] \notin {"UNSENT", "NOT_LEADER"}
    BY <1>7 DEF ChosenOpen
  <2>1. CASE k \in DOMAIN chosen
    BY <1>1, <1>5, <2>1 DEF RouteInv, ChosenOpen
  <2>2. CASE k \notin DOMAIN chosen
    <3>1. k - Len(chosen) \in DOMAIN s /\ chosen'[k] = s[k - Len(chosen)]
      BY <1>1, <1>5, <2>2
    <3> QED
      BY <1>2, <1>4, <3>1
  <2> QED
    BY <2>1, <2>2
<1> QED
  BY <1>6, <1>7, <1>8
     DEF RouteInv, RouteTypes, RouteOK, RouteShape, JobsApart, SendingsEnd, SendingsCount,
         LastSending, Taken, Sent

\* A daemon ends, and the calls to its node break (Hangup).
LEMMA HangupKeeps ==
    ASSUME RouteInv, NEW i, Hangup(i)
    PROVE  RouteInv'
<1>1. UNCHANGED <<chosen, route, result>> /\ Tell(CallsTo(i), "BROKEN")
  BY DEF Hangup, Restart, routeVars
<1>2. \A c \in CallsTo(i) : /\ c \in Command /\ answer[c] = "SENT"
                            /\ \E w \in Worker : route[w].at = "wait" /\ Sent(w) = c
  BY DEF CallsTo, Busy
<1>3. "BROKEN" \in Told \ {"UNSENT"}
  BY DEF Told
<1> QED
  BY <1>1, <1>2, <1>3, AnswerKeeps

\* A node answers (Answer).
LEMMA ReplyKeeps ==
    ASSUME RouteInv, UNCHANGED routeVars, NEW i, NEW c \in CallsTo(i),
           NEW res \in Answers, Answer(c, res)
    PROVE  RouteInv'
<1>1. UNCHANGED <<chosen, route, result>> /\ Tell({c}, res)
  BY DEF Answer, routeVars
<1>2. /\ c \in Command /\ answer[c] = "SENT"
      /\ \E w \in Worker : route[w].at = "wait" /\ Sent(w) = c
  BY DEF CallsTo, Busy
<1>3. res \in Told \ {"UNSENT"} /\ (res = "NOT_LEADER" => c \notin ToSet(chosen))
  BY DEF Told, Answers, Answer, Justified
<1> QED
  BY <1>1, <1>2, <1>3, AnswerKeeps

\* Every step preserves the invariant.
LEMMA RouteNextKeeps ==
    ASSUME RouteInv, [CtlNext]_ctlVars
    PROVE  RouteInv'
<1>0. UNCHANGED <<serviceVars, routeVars>> => RouteInv'
  BY RouteIdle DEF serviceVars, routeVars
<1>1. CASE Manage \/ Daemon
  BY <1>0, <1>1 DEF Manage, Daemon
<1>2. CASE Kill \/ End
  BY <1>0, <1>2, HangupKeeps DEF Kill, End
<1>3. CASE StopAnswer
  BY <1>3, ReplyKeeps DEF StopAnswer, Answers
<1>4. CASE \E w \in Worker : Begin(w)
  BY <1>4, TakeKeeps DEF Begin
<1>5. CASE \E w \in Worker : RouteStep(w)
  BY <1>5, RouteStepKeeps
<1>6. CASE ClusterStep
  <2>1. UNCHANGED routeVars /\ UNCHANGED <<route, result>>
    BY <1>6 DEF ClusterStep, routeVars
  <2>2. CASE Choose
    BY <2>1, <2>2, ChooseKeeps
  <2>3. CASE \E n \in Up : \E c \in CallsTo(n) :
               \E res \in {"OK", "NOT_LEADER", "LOST_LEADERSHIP"} : Answer(c, res)
    BY <2>1, <2>3, ReplyKeeps DEF Answers
  <2>4. CASE \E n \in Up : Execute(n)
    BY <2>1, <2>4, RouteIdle DEF Execute
  <2> QED
    BY <1>6, <2>2, <2>3, <2>4 DEF ClusterStep
<1>7. CASE UNCHANGED ctlVars
  BY <1>0, <1>7 DEF ctlVars
<1> QED
  BY <1>1, <1>2, <1>3, <1>4, <1>5, <1>6, <1>7 DEF CtlNext

\* What the user is told of a committed command is what its node said of it, and
\* the command was sent again only if the call broke off, for any number of
\* workers, jobs, nodes and failures (executeRouted).
THEOREM UsersAreTold == CtlSpec => []CommittedIsReported
<1>1. CtlInit => RouteInv
  BY RouteInitially DEF CtlInit
<1>2. RouteInv /\ [CtlNext]_ctlVars => RouteInv'
  BY RouteNextKeeps
<1>3. RouteInv => CommittedIsReported
  BY RouteImplies
<1> QED
  BY <1>1, <1>2, <1>3, PTL DEF CtlSpec
=============================================================================
