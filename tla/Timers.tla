------------------------------- MODULE Timers -------------------------------
(***************************************************************************)
(* The timing of elections and heartbeats: the election timer and its      *)
(* callback, the ticker of heartbeatLoop with its buffer of one tick, and  *)
(* the calls that a leader or a candidate waits for, which take as long as *)
(* the timeouts of SendRPC when a peer hangs (internal/raft/node.go,       *)
(* election.go, replication.go, internal/transport/tcp.go).                *)
(*                                                                         *)
(* One unit of time is 100 ms.  What healthy nodes do takes no time: time  *)
(* passes when nothing is left to do at this instant, and the steps of one *)
(* instant come in any order.  The logs are left out (all are equal), and  *)
(* so are the client requests: module Raft has them, without the clock.    *)
(***************************************************************************)
EXTENDS Integers, FiniteSets, FiniteSetsExt

CONSTANTS
    Node,
    None,
    Timeouts,  \* the election timeouts (300 to 600 ms)
    DialTime,  \* DialTimeout of SendRPC (500 ms)
    CallTime,  \* the deadline of a connection (1 s)
    MaxTerm,   \* bound: the terms
    MaxFail    \* bound: the nodes that fail

ASSUME TimersAssumption ==
    /\ Timeouts \subseteq Nat \ {0} /\ Timeouts # {}
    /\ {DialTime, CallTime} \subseteq Nat \ {0}
    /\ {MaxTerm, MaxFail} \subseteq Nat
    /\ None \notin Node \cup Nat

VARIABLES
    state, currentTerm, votedFor,  \* as in module Raft
    health,     \* up; down: refuses connections; gone: cannot be dialled;
                \* mute: accepts connections and answers nothing
    timer,      \* timer[n]: the time since electionTimer was set, None if it is
                \* spent; the timeout is drawn when it fires
    fired,      \* the nodes whose callback startElection is about to run
    elections,  \* the goroutines in startElection, with the votes they count
    calls,      \* the calls of SendRPC under way, with the time left and the reply
    tick,       \* the nodes with a tick in the channel of the ticker
    beating,    \* the nodes whose heartbeatLoop is in sendHeartbeats
    heard,      \* history: the nodes that got a heartbeat of their term
    gap,        \* history: the time since n, a leader, last sent heartbeats
    since       \* history: the time since n, a candidate, began its election

raftVars == <<state, currentTerm, votedFor>>

timerVars == <<raftVars, health, timer, fired, elections, calls, tick, beating, heard, gap, since>>

Up(n) == health[n] = "up"

\* How long a call to p takes.
Delay(p) == CASE health[p] = "gone" -> DialTime
              [] health[p] = "mute" -> CallTime
              [] OTHER -> 0

TimersInit ==
    /\ state = [n \in Node |-> "Follower"]
    /\ currentTerm = [n \in Node |-> 0]
    /\ votedFor = [n \in Node |-> None]
    /\ health = [n \in Node |-> "up"]
    /\ timer = [n \in Node |-> 0]
    /\ fired = {}
    /\ elections = {}
    /\ calls = {}
    /\ tick = {}
    /\ beating = {}
    /\ heard = {}
    /\ gap = [n \in Node |-> 0]
    /\ since = [n \in Node |-> 0]

-----------------------------------------------------------------------------
\* A callback that has fired already still runs.
ResetElectionTimer(n) == timer' = [timer EXCEPT ![n] = 0]

Calls(kind, n, t) ==
    {[kind |-> kind, from |-> n, to |-> p, term |-> t, left |-> Delay(p), reply |-> None] :
        p \in Node \ {n}}

IsMajority(S) == 2 * Cardinality(S) > Cardinality(Node)

Enter(n, st, t, v) ==
    /\ state' = [state EXCEPT ![n] = st]
    /\ currentTerm' = [currentTerm EXCEPT ![n] = t]
    /\ votedFor' = [votedFor EXCEPT ![n] = v]

\* With a round of heartbeats of its own; pending are the calls that go on.
BecomeLeader(n, pending) ==
    /\ Enter(n, "Leader", currentTerm[n], votedFor[n])
    /\ ResetElectionTimer(n)
    /\ calls' = pending \cup Calls("first", n, currentTerm[n])
    /\ gap' = [gap EXCEPT ![n] = 0]

\* Mutant of StepDown: the timer is left as it is.
StepDownUntimed(n, t) ==
    /\ Enter(n, "Follower", t, None)
    /\ heard' = heard \ {n}
    /\ UNCHANGED timer

StepDown(n, t) ==
    /\ Enter(n, "Follower", t, None)
    /\ heard' = heard \ {n}
    /\ ResetElectionTimer(n)

-----------------------------------------------------------------------------
(* The election timer and startElection *)

Fire(n) ==
    /\ timer[n] \in Timeouts
    /\ timer' = [timer EXCEPT ![n] = None]
    /\ fired' = fired \cup {n}
    /\ UNCHANGED <<raftVars, health, elections, calls, tick, beating, heard, gap, since>>

\* A leader's timer fires once, and is not armed again.
StartElectionAsLeader(n) ==
    /\ n \in fired
    /\ state[n] = "Leader"
    /\ fired' = fired \ {n}
    /\ UNCHANGED <<raftVars, health, timer, elections, calls, tick, beating, heard, gap, since>>

StartElection(n) ==
    /\ n \in fired
    /\ state[n] # "Leader"
    /\ currentTerm[n] < MaxTerm
    /\ LET t == currentTerm[n] + 1
       IN  /\ Enter(n, "Candidate", t, n)
           /\ elections' = elections \cup {[node |-> n, term |-> t, votes |-> {n}]}
           /\ calls' = calls \cup Calls("vote", n, t)
    /\ ResetElectionTimer(n)
    /\ fired' = fired \ {n}
    /\ heard' = heard \ {n}
    /\ since' = [since EXCEPT ![n] = 0]
    /\ UNCHANGED <<health, tick, beating, gap>>

StillRuns(n, t) == state[n] = "Candidate" /\ currentTerm[n] = t

StillLeads(n, t) == state[n] = "Leader" /\ currentTerm[n] = t

\* The vote in the reply of the call c.
CountVote(c) ==
    /\ c.kind = "vote" /\ c.reply # None /\ c.reply.granted
    /\ StillRuns(c.from, c.term)
    /\ \E e \in elections :
          /\ e.node = c.from /\ e.term = c.term
          /\ LET votes == e.votes \cup {c.to}
             IN  /\ elections' = (elections \ {e}) \cup {[e EXCEPT !.votes = votes]}
                 /\ IF IsMajority(votes)
                    THEN BecomeLeader(c.from, calls \ {c})
                    ELSE calls' = calls \ {c} /\ UNCHANGED <<raftVars, timer, gap>>
    /\ UNCHANGED <<health, fired, tick, beating, heard, since>>


\* The end of startElection does nothing.
TailReturns(e) == ~StillRuns(e.node, e.term)

\* Every call has returned.
EndElection(e) ==
    /\ ~ \E c \in calls : c.kind = "vote" /\ c.from = e.node /\ c.term = e.term
    /\ elections' = elections \ {e}
    /\ IF TailReturns(e)
       THEN UNCHANGED <<raftVars, timer, calls, gap>>
       ELSE IF IsMajority(e.votes)
       THEN BecomeLeader(e.node, calls)
       ELSE ResetElectionTimer(e.node) /\ UNCHANGED <<raftVars, calls, gap>>
    /\ UNCHANGED <<health, fired, tick, beating, heard, since>>

-----------------------------------------------------------------------------
(* heartbeatLoop *)


\* The channel of a ticker holds one tick.
NextTick(S) == tick \cup S

\* A leader takes a tick from the channel.
Beat(n) ==
    /\ n \in tick \ beating
    /\ state[n] = "Leader"
    /\ tick' = tick \ {n}
    /\ beating' = beating \cup {n}
    /\ calls' = calls \cup Calls("loop", n, currentTerm[n])
    /\ gap' = [gap EXCEPT ![n] = 0]
    /\ UNCHANGED <<raftVars, health, timer, fired, elections, heard, since>>

\* The others take theirs, and do nothing.
BeatIdle ==
    LET idle == {n \in tick \ beating : state[n] # "Leader"}
    IN  /\ idle # {}
        /\ tick' = tick \ idle
        /\ UNCHANGED <<raftVars, health, timer, fired, elections, calls, beating, heard, gap, since>>

\* sendHeartbeats returns when the slowest call has.
BeatDone(n) ==
    /\ n \in beating
    /\ ~ \E c \in calls : c.kind = "loop" /\ c.from = n
    /\ beating' = beating \ {n}
    /\ UNCHANGED <<raftVars, health, timer, fired, elections, calls, tick, heard, gap, since>>

-----------------------------------------------------------------------------
(* Calls *)

\* The call has arrived, and waits for its handler.
Arrived(c) == c.left = 0 /\ c.reply = None /\ Up(c.to)

Reply(c, t, granted) ==
    calls' = (calls \ {c}) \cup {[c EXCEPT !.reply = [term |-> t, granted |-> granted]]}

\* A request of an older term, or for a vote that is given already.
Refuse(c) ==
    /\ Arrived(c)
    /\ \/ c.term < currentTerm[c.to]
       \/ /\ c.kind = "vote" /\ c.term = currentTerm[c.to]
          /\ votedFor[c.to] \notin {None, c.from}
    /\ Reply(c, currentTerm[c.to], FALSE)
    /\ UNCHANGED <<raftVars, health, timer, fired, elections, tick, beating, heard, gap, since>>

HandleRequestVote(c) ==
    LET n == c.to
        newer == c.term > currentTerm[n]
    IN  /\ Arrived(c) /\ c.kind = "vote"
        /\ newer \/ (c.term = currentTerm[n] /\ votedFor[n] \in {None, c.from})
        /\ Enter(n, IF newer THEN "Follower" ELSE state[n], c.term, c.from)
        /\ heard' = IF newer THEN heard \ {n} ELSE heard
        /\ ResetElectionTimer(n)
        /\ Reply(c, c.term, TRUE)
        /\ UNCHANGED <<health, fired, elections, tick, beating, gap, since>>

\* Mutant of HandleAppendEntries: the timer is reset for a newer term only.
HeartbeatUntimed(c) ==
    LET n == c.to
        newer == c.term > currentTerm[n]
    IN  /\ Arrived(c) /\ c.kind # "vote"
        /\ c.term >= currentTerm[n]
        /\ Enter(n, "Follower", c.term, IF newer THEN None ELSE votedFor[n])
        /\ heard' = heard \cup {n}
        /\ IF newer THEN ResetElectionTimer(n) ELSE UNCHANGED timer
        /\ Reply(c, c.term, FALSE)
        /\ UNCHANGED <<health, fired, elections, tick, beating, gap, since>>

HandleAppendEntries(c) ==
    LET n == c.to
        newer == c.term > currentTerm[n]
    IN  /\ Arrived(c) /\ c.kind # "vote"
        /\ c.term >= currentTerm[n]
        /\ Enter(n, "Follower", c.term, IF newer THEN None ELSE votedFor[n])
        /\ heard' = heard \cup {n}
        /\ ResetElectionTimer(n)
        /\ Reply(c, c.term, FALSE)
        /\ UNCHANGED <<health, fired, elections, tick, beating, gap, since>>

Matters(c) ==
    IF c.kind = "vote" THEN StillRuns(c.from, c.term) ELSE StillLeads(c.from, c.term)

\* The reply has a newer term.
ReplyNewerTerm(c) ==
    /\ c.reply # None
    /\ Matters(c)
    /\ c.reply.term > currentTerm[c.from]
    /\ StepDown(c.from, c.reply.term)
    /\ calls' = calls \ {c}
    /\ UNCHANGED <<health, fired, elections, tick, beating, gap, since>>

\* The call ends without effect: it failed, is not made any more by a node that
\* leads no longer (replicateToPeer), or its reply changes nothing.
CallEnds(c) ==
    /\ \/ c.left = 0 /\ c.reply = None /\ ~Up(c.to)
       \/ c.kind # "vote" /\ Arrived(c) /\ ~Matters(c)
       \/ c.reply # None /\ ~Matters(c)
       \/ c.reply # None /\ c.reply.term <= currentTerm[c.from] /\ ~c.reply.granted
    /\ calls' = calls \ {c}
    /\ UNCHANGED <<raftVars, health, timer, fired, elections, tick, beating, heard, gap, since>>

-----------------------------------------------------------------------------
(* Time and failures *)

\* Something is left to do at this instant.
Busy ==
    \/ fired # {}
    \/ \E n \in Node : timer[n] = Max(Timeouts)
    \/ \E c \in calls : c.left = 0
    \/ \E e \in elections : ~ \E c \in calls : c.kind = "vote" /\ c.from = e.node /\ c.term = e.term
    \/ tick \ beating # {}
    \/ \E n \in beating : ~ \E c \in calls : c.kind = "loop" /\ c.from = n

\* A node fails, for good, between two instants.
Fail(p, how) ==
    /\ ~Busy
    /\ Up(p)
    /\ Cardinality({n \in Node : ~Up(n)}) < MaxFail
    /\ health' = [health EXCEPT ![p] = how]
    /\ timer' = [timer EXCEPT ![p] = None]
    /\ elections' = {e \in elections : e.node # p}
    /\ calls' = {c \in calls : c.from # p}
    /\ tick' = tick \ {p}
    /\ beating' = beating \ {p}
    /\ state' = [state EXCEPT ![p] = "Follower"]
    /\ heard' = heard \ {p}
    /\ gap' = [gap EXCEPT ![p] = 0]
    /\ since' = [since EXCEPT ![p] = 0]
    /\ UNCHANGED <<currentTerm, votedFor, fired>>

Pass ==
    /\ ~Busy
    /\ timer' = [n \in Node |-> IF timer[n] = None THEN None ELSE timer[n] + 1]
    /\ calls' = {[c EXCEPT !.left = @ - 1] : c \in calls}
    /\ tick' = NextTick({n \in Node : Up(n)})
    /\ gap' = [n \in Node |-> IF state[n] = "Leader" THEN gap[n] + 1 ELSE 0]
    /\ since' = [n \in Node |-> IF state[n] = "Candidate" THEN since[n] + 1 ELSE 0]
    /\ UNCHANGED <<raftVars, health, fired, elections, beating, heard>>

\* The caller gets the reply as soon as there is one.
TimersNext ==
    \/ \E c \in calls : CountVote(c) \/ ReplyNewerTerm(c) \/ CallEnds(c)
    \/ /\ \A c \in calls : c.reply = None
       /\ \/ \E n \in Node : Fire(n) \/ StartElectionAsLeader(n) \/ StartElection(n)
          \/ \E e \in elections : EndElection(e)
          \/ \E n \in Node : Beat(n) \/ BeatDone(n)
          \/ BeatIdle
          \/ \E c \in calls : Refuse(c) \/ HandleRequestVote(c) \/ HandleAppendEntries(c)
          \/ \E p \in Node : \E how \in {"down", "gone", "mute"} : Fail(p, how)
          \/ Pass

TimersSpec == TimersInit /\ [][TimersNext]_timerVars

-----------------------------------------------------------------------------
(* Properties *)

\* A node that runs and does not lead has an election ahead of it: its timer is
\* armed or the callback is about to run, also after a leader, whose timer is
\* spent, has stepped down, and after elections that overlap.
TimerArmed ==
    \A n \in Node : Up(n) /\ state[n] # "Leader" => timer[n] # None \/ n \in fired

\* As long as no node hangs, the heartbeats of a leader set the timers of its
\* followers back after one interval, whatever other nodes crash: a follower
\* that has heard of its leader is never close to an election.
HeartbeatsKeepFollowers ==
    (\A n \in Node : health[n] \in {"up", "down"}) =>
        \A l, n \in Node :
            /\ Up(l) /\ state[l] = "Leader"
            /\ Up(n) /\ n \in heard /\ state[n] = "Follower" /\ currentTerm[n] = currentTerm[l]
            => timer[n] # None /\ timer[n] <= 1


=============================================================================
