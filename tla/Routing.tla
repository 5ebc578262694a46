------------------------------ MODULE Routing ------------------------------
(***************************************************************************)
(* How orrisctl brings a command to the cluster: executeRouted with the    *)
(* calls it makes (queryCluster, sendRawCommand), run by the REPL or the   *)
(* command line one command at a time, or by the workers of the benchmark, *)
(* which take their jobs from one channel; and the get of the REPL.        *)
(*                                                                         *)
(* The cluster is module Service, on the processes of module               *)
(* ClusterControl.  One job may be sent several times, to one node after   *)
(* the other; the command <<j, t>> is the t-th sending of the j-th job, so *)
(* that repeated executions can be told apart.                             *)
(***************************************************************************)
EXTENDS ClusterControl, Service, KVStore, FiniteSetsExt

CONSTANTS
    Addrs,   \* nodeAddrs: the nodes in the order they are asked
    Worker,  \* the goroutines that execute commands
    Jobs,    \* what they are to execute: records with op, key and value
    NoNode,
    MaxSend,   \* bound: the requests that ever get through to a node
    MaxChosen  \* bound: the commands that are ever committed

VARIABLES
    route,   \* route[w]: where worker w is in executeRouted
    result,  \* result[j]: what the user is told
    before   \* history: before[j] are the jobs that had succeeded when j began

Job == DOMAIN Jobs

Attempt == Job \X (1 .. Len(Addrs) + 1)

ASSUME RoutingAssumption ==
    /\ Node = Machine
    /\ Command = Attempt
    /\ Addrs \in Seq(Node)
    /\ Jobs \in Seq(ToSet(Jobs))
    /\ NoNode \notin Node
    /\ {MaxSend, MaxChosen} \subseteq Nat

routeVars == <<route, result, before>>

\* The contents of the store of n.
Store(n) == Contents([i \in DOMAIN executed[n] |-> Jobs[executed[n][i][1]]])

Having(key) == {n \in Node : Get(Store(n), key) # Missing}

\* A worker between two commands.  In a command, at says what it does next; pos
\* is the place in Addrs of the node it deals with, 0 for the reported leader.
\* had is history: the nodes that had the key when a get began, without those
\* that the get does not see online or cannot reach.
Idle == [at |-> "idle", job |-> 0, online |-> {}, leader |-> NoNode, pos |-> 0,
         try |-> 0, had |-> {}]

RoutingInit ==
    /\ ServiceInit
    /\ route = [w \in Worker |-> Idle]
    /\ result = [j \in Job |-> "none"]
    /\ before = [j \in Job |-> {}]

-----------------------------------------------------------------------------
Busy(w, at) == route[w].at = at

IsGet(w) == Jobs[route[w].job].op = "GET"

Target(w) == IF route[w].pos = 0 THEN route[w].leader ELSE Addrs[route[w].pos]

\* The command that w waits for.
Sent(w) == <<route[w].job, route[w].try>>

\* The requests that node i is to answer.
CallsTo(i) ==
    {c \in Command : /\ answer[c] = "SENT"
                     /\ \E w \in Worker : Busy(w, "wait") /\ Sent(w) = c /\ Target(w) = i}

\* w, with the record r, returns res, and is free for its next command.
Conclude(w, r, res) ==
    /\ result' = [result EXCEPT ![r.job] = res]
    /\ route' = [route EXCEPT ![w] = [Idle EXCEPT !.job = r.job, !.had = r.had]]

\* w, with the record r, turns to the next address that was online, or gives up.
Advance(w, r) ==
    LET later == {i \in DOMAIN Addrs : i > r.pos /\ Addrs[i] \in r.online}
    IN  IF later = {}
        THEN Conclude(w, r, IF IsGet(w) THEN "NOT_FOUND" ELSE "NO_LEADER_FOUND")
        ELSE /\ route' = [route EXCEPT ![w] =
                   [r EXCEPT !.at = "call", !.pos = Min(later), !.leader = NoNode]]
             /\ UNCHANGED result

Taken(j) == result[j] # "none" \/ \E w \in Worker : route[w].job = j

\* A worker takes a job from the channel, or the REPL reads a line.  The jobs
\* are given in their order, some of them.
TakeJob(w, j) ==
    /\ Busy(w, "idle")
    /\ \A k \in Job : Taken(k) => k < j
    /\ given < MaxCommand
    /\ given' = given + 1
    /\ route' = [route EXCEPT ![w] = [Idle EXCEPT !.at = "query", !.job = j,
                    !.had = IF Jobs[j].op = "GET" THEN Having(Jobs[j].key) ELSE {}]]
    /\ before' = [before EXCEPT ![j] = {k \in Job : result[k] = "OK"}]
    /\ UNCHANGED <<serviceVars, proc, pidFile, todo, command, overwritten, result>>

\* queryCluster.  A node that is up may miss the deadline, and one that is down
\* by now may have answered; what a node said of its role may be outdated.  get
\* looks at nobody's role.
QueryCluster(w) ==
    /\ Busy(w, "query")
    /\ \E online \in SUBSET ToSet(Addrs) :
          LET r == [route[w] EXCEPT !.online = online, !.had = @ \cap online]
          IN  \/ Advance(w, r)
              \/ /\ ~IsGet(w)
                 /\ \E l \in online :
                       route' = [route EXCEPT ![w] = [r EXCEPT !.at = "call", !.leader = l]]
                 /\ UNCHANGED result
    /\ UNCHANGED <<serviceVars, controlVars, before>>

\* sendRawCommand: the node is not there, or does not accept in time.
DialFails(w) ==
    /\ Busy(w, "call")
    /\ Advance(w, [route[w] EXCEPT !.had = @ \ {Target(w)}])
    /\ UNCHANGED <<serviceVars, controlVars, before>>

SendRawCommand(w) ==
    /\ Busy(w, "call")
    /\ ~IsGet(w)
    /\ Target(w) \in Up
    /\ Cardinality({c \in Command : answer[c] # "UNSENT"}) < MaxSend
    /\ Send(<<route[w].job, route[w].try + 1>>)
    /\ route' = [route EXCEPT ![w].at = "wait", ![w].try = @ + 1]
    /\ UNCHANGED <<controlVars, result, before>>

\* Mutant of Resends: every answer that names a leader is taken for a refusal.
ResendsLeaderErrors(res) == res \in {"NOT_LEADER", "LOST_LEADERSHIP", "BROKEN"}

\* The outcomes of a call after which executeRouted tries the next node.
Resends(res) == res \in {"NOT_LEADER", "BROKEN"}

Receive(w) ==
    /\ Busy(w, "wait")
    /\ answer[Sent(w)] # "SENT"
    /\ IF Resends(answer[Sent(w)]) THEN Advance(w, route[w]) ELSE Conclude(w, route[w], answer[Sent(w)])
    /\ UNCHANGED <<serviceVars, controlVars, before>>

\* Two seconds have passed: the connection is closed, and the node goes on with
\* the request.
Deadline(w) ==
    /\ Busy(w, "wait")
    /\ answer[Sent(w)] = "SENT"
    /\ Tell({Sent(w)}, "BROKEN")
    /\ Advance(w, route[w])
    /\ UNCHANGED <<chosen, executed, controlVars, before>>

\* Mutant of GetValue: the first node that answers decides.
FirstAnswer(w) ==
    /\ Busy(w, "call")
    /\ IsGet(w)
    /\ Target(w) \in Up
    /\ Conclude(w, route[w], IF Get(Store(Target(w)), Jobs[route[w].job].key) = Missing
                   THEN "NOT_FOUND" ELSE "FOUND")
    /\ UNCHANGED <<serviceVars, controlVars, before>>

\* get: the first node that has a value decides.
GetValue(w) ==
    /\ Busy(w, "call")
    /\ IsGet(w)
    /\ Target(w) \in Up
    /\ IF Get(Store(Target(w)), Jobs[route[w].job].key) = Missing
       THEN Advance(w, route[w])
       ELSE Conclude(w, route[w], "FOUND")
    /\ UNCHANGED <<serviceVars, controlVars, before>>

RouteStep(w) ==
    \/ QueryCluster(w)
    \/ DialFails(w)
    \/ SendRawCommand(w)
    \/ Receive(w)
    \/ Deadline(w)
    \/ GetValue(w)

\* What the cluster does by itself.  Its own time limit of 5 s ends after the
\* caller's, so that no worker ever reads TIMEOUT; NODE_STOPPED comes from a
\* node that is shutting down only.
ClusterStep ==
    /\ \/ Choose /\ Len(chosen') <= MaxChosen
       \/ \E n \in Up : \E c \in CallsTo(n) :
             \E res \in {"OK", "NOT_LEADER", "LOST_LEADERSHIP"} : Answer(c, res)
       \/ \E n \in Up : Execute(n)
    /\ UNCHANGED <<controlVars, routeVars>>

-----------------------------------------------------------------------------
(* Properties *)

\* What the user is told of a command that is committed is what its node said of
\* it, and it was sent once more only if the call broke off: executeRouted takes
\* nothing but NOT_LEADER and a failed call for a reason to go on to another
\* node, so that neither a second execution nor a false NO_LEADER_FOUND comes
\* from an answer that leaves the command's fate open.
CommittedIsReported ==
    \A c \in ToSet(chosen) :
        answer[c] # "BROKEN" =>
            /\ result[c[1]] \in {"none", answer[c]}
            /\ \A d \in Command : d[1] = c[1] /\ d[2] > c[2] => answer[d] = "UNSENT"


\* get reports NOT FOUND only if every node that was online and could be asked
\* had no value when the get began, as long as nobody deletes the key: it does
\* not stop at the first node that is behind.
GetFindsExecuted ==
    \A w \in Worker :
        LET r == route[w]
        IN  /\ r.at = "idle" /\ r.job # 0
            /\ result[r.job] = "NOT_FOUND"
            /\ \A j \in Job : Jobs[j].key = Jobs[r.job].key => Jobs[j].op # "DEL"
            => r.had = {}

=============================================================================
