----------------------------- MODULE RaftClient -----------------------------
(***************************************************************************)
(* The client path of orris on top of the core: SET and DEL requests go    *)
(* through Submit, the channel clientCh and the single goroutine           *)
(* clientHandler, which appends the command and then polls until it is     *)
(* committed; GET reads the key-value store of the node that is asked      *)
(* (internal/raft/client.go, internal/client/server.go).                   *)
(*                                                                         *)
(* Every request carries its own command, so that a command in a log names *)
(* the request it came from.  A channel with blocked senders is one queue  *)
(* in Go: the first ChanCap requests are in the buffer, the others belong  *)
(* to connections that wait in Submit.                                     *)
(***************************************************************************)
EXTENDS Raft, SequencesExt

CONSTANTS
    ChanCap,   \* the capacity of clientCh
    Doors,     \* bound: the nodes that clients send SET and DEL to
    Stoppers,  \* bound: the nodes that may be shut down gracefully
    Readers    \* bound: the nodes that clients send GET to

ASSUME ClientAssumption ==
    /\ ChanCap \in Nat
    /\ Doors \subseteq Node
    /\ Stoppers \subseteq Node
    /\ Readers \subseteq Node

VARIABLES
    clientCh,  \* clientCh[n]: the requests queued at n
    serving,   \* serving[n]: the request in handleClientReq, if any
    answer,    \* answer[c]: what the client of c has been told
    stopped,   \* the nodes whose stopCh is closed
    exited,    \* the nodes whose clientHandler has returned
    acked,     \* history: where the entries acknowledged with OK are
    read       \* read[n]: what the last GET at n saw, and the commands
               \* acknowledged before it

clientVars == <<clientCh, serving, answer, stopped, exited, acked, read>>

allVars == <<vars, clientVars>>

\* handleClientReq's idx and term for the command it waits for
Served == [command : Command, index : Nat, term : Nat]

Waiting == {"UNSENT", "SENT"}

Final == {"OK", "NOT_LEADER", "LOST_LEADERSHIP", "TIMEOUT", "NODE_STOPPED", "BROKEN"}

-----------------------------------------------------------------------------
ClientInit ==
    /\ Init
    /\ clientCh = [n \in Node |-> <<>>]
    /\ serving = [n \in Node |-> {}]
    /\ answer = [c \in Command |-> "UNSENT"]
    /\ stopped = {}
    /\ exited = {}
    /\ acked = {}
    /\ read = [n \in Node |-> [seen |-> <<>>, after |-> {}]]

Reply(c, res) == answer' = [answer EXCEPT ![c] = res]

\* Submit: the request is queued, or refused by a node that is stopping; with
\* both possible, select picks either.
Submit(n, c) ==
    /\ answer[c] = "UNSENT"
    /\ \/ /\ clientCh' = [clientCh EXCEPT ![n] = Append(@, c)]
          /\ Reply(c, "SENT")
       \/ /\ n \in stopped
          /\ Reply(c, "NODE_STOPPED")
          /\ UNCHANGED clientCh
    /\ UNCHANGED <<vars, serving, stopped, exited, acked, read>>

\* A sender that is still blocked in Submit when stopCh closes.
SubmitInterrupted(n, i) ==
    /\ n \in stopped
    /\ Reply(clientCh[n][i], "NODE_STOPPED")
    /\ clientCh' = [clientCh EXCEPT ![n] = RemoveAt(@, i)]
    /\ UNCHANGED <<vars, serving, stopped, exited, acked, read>>


\* clientHandler takes the next request when it has answered the last one.
Dequeue(n) ==
    /\ n \notin exited
    /\ serving[n] = {}
    /\ clientCh[n] # <<>>
    /\ clientCh' = [clientCh EXCEPT ![n] = Tail(@)]

HandleNotLeader(n) ==
    /\ Dequeue(n)
    /\ state[n] # "Leader"
    /\ Reply(Head(clientCh[n]), "NOT_LEADER")
    /\ UNCHANGED <<vars, serving, stopped, exited, acked, read>>

HandleAppend(n) ==
    /\ Dequeue(n)
    /\ ClientRequest(n, Head(clientCh[n]))
    /\ serving' = [serving EXCEPT ![n] =
         {[command |-> Head(clientCh[n]), index |-> Len(log[n]), term |-> currentTerm[n]]}]
    /\ UNCHANGED <<answer, stopped, exited, acked, read>>

\* The request that n serves is answered with res.
Finish(n, q, res) ==
    /\ q \in serving[n]
    /\ serving' = [serving EXCEPT ![n] = {}]
    /\ Reply(q.command, res)
    /\ UNCHANGED <<vars, clientCh, stopped, exited, read>>

\* Mutant of StillLeads: the poll looks at the commit index alone.
LeadsAnyway(n, q) == TRUE

StillLeads(n, q) == state[n] = "Leader" /\ currentTerm[n] = q.term

\* Mutant of PollLostLeadership: the client is told what a follower would say.
PollNotLeader(n, q) ==
    /\ ~StillLeads(n, q)
    /\ Finish(n, q, "NOT_LEADER")
    /\ UNCHANGED acked

\* The polls of handleClientReq.
PollLostLeadership(n, q) ==
    /\ ~StillLeads(n, q)
    /\ Finish(n, q, "LOST_LEADERSHIP")
    /\ UNCHANGED acked

PollCommitted(n, q) ==
    /\ StillLeads(n, q)
    /\ commitIndex[n] >= q.index
    /\ Finish(n, q, "OK")
    /\ acked' = acked \cup {q}


\* The deadline has passed.  It is looked at after the unlock; a commit in
\* between is one that comes right after the answer.
PollDeadline(n, q) ==
    /\ StillLeads(n, q)
    /\ commitIndex[n] < q.index
    /\ Finish(n, q, "TIMEOUT")
    /\ UNCHANGED acked

PollStopped(n, q) ==
    /\ n \in stopped
    /\ Finish(n, q, "NODE_STOPPED")
    /\ UNCHANGED acked

\* Stop closes stopCh.
Stop(n) ==
    /\ n \notin stopped
    /\ stopped' = stopped \cup {n}
    /\ UNCHANGED <<vars, clientCh, serving, answer, exited, acked, read>>

\* clientHandler sees it between two requests, and leaves the queue behind.
HandlerExits(n) ==
    /\ n \in stopped \ exited
    /\ serving[n] = {}
    /\ exited' = exited \cup {n}
    /\ UNCHANGED <<vars, clientCh, serving, answer, stopped, acked, read>>

\* GET: the local key-value store, whatever the role of the node.
Get(n) ==
    /\ read' = [read EXCEPT ![n] =
         [seen |-> applied[n], after |-> {q.command : q \in acked}]]
    /\ UNCHANGED <<vars, clientCh, serving, answer, stopped, exited, acked>>

\* Mutant of Reopen: the new process starts without its clientHandler.
ReopenExited(n) ==
    /\ NextRestart(n)
    /\ clientCh' = [clientCh EXCEPT ![n] = <<>>]
    /\ serving' = [serving EXCEPT ![n] = {}]
    /\ answer' = [c \in Command |->
         IF c \in ToSet(clientCh[n]) \/ \E q \in serving[n] : q.command = c
         THEN "BROKEN" ELSE answer[c]]
    /\ stopped' = stopped \ {n}
    /\ UNCHANGED <<exited, acked, read>>

\* The process ends and is started again: its connections break.
Reopen(n) ==
    /\ NextRestart(n)
    /\ clientCh' = [clientCh EXCEPT ![n] = <<>>]
    /\ serving' = [serving EXCEPT ![n] = {}]
    /\ answer' = [c \in Command |->
         IF c \in ToSet(clientCh[n]) \/ \E q \in serving[n] : q.command = c
         THEN "BROKEN" ELSE answer[c]]
    /\ stopped' = stopped \ {n}
    /\ exited' = exited \ {n}
    /\ UNCHANGED <<acked, read>>

\* The steps of the core that no client request is part of.
CoreStep(n) == NextElection(n) \/ NextReplication(n)

ClientStep(n) ==
    \/ \E c \in Command : n \in Doors /\ Submit(n, c)
    \/ \E i \in ChanCap + 1 .. Len(clientCh[n]) : SubmitInterrupted(n, i)
    \/ HandleNotLeader(n)
    \/ HandleAppend(n)
    \/ \E q \in serving[n] : PollLostLeadership(n, q)
    \/ \E q \in serving[n] : PollCommitted(n, q)
    \/ \E q \in serving[n] : PollDeadline(n, q)
    \/ \E q \in serving[n] : PollStopped(n, q)
    \/ HandlerExits(n)

ClientNext ==
    \/ \E n \in Node : ClientStep(n)
    \/ \E n \in Node : CoreStep(n) /\ UNCHANGED clientVars
    \/ NextDrop /\ UNCHANGED clientVars
    \/ \E n \in Stoppers : Stop(n)
    \/ \E n \in Readers : Get(n)
    \/ \E n \in Crashers : Reopen(n)

ClientSpec == ClientInit /\ [][ClientNext]_allVars

\* clientHandler polls every 10 ms up to a deadline and takes the next request
\* when it is done; a closed stopCh is noticed.
ClientFairness ==
    \A n \in Node :
        /\ WF_allVars(HandleNotLeader(n))
        /\ WF_allVars(HandleAppend(n))
        /\ WF_allVars(\E q \in serving[n] :
                \/ PollLostLeadership(n, q)
                \/ PollCommitted(n, q)
                \/ PollDeadline(n, q)
                \/ PollStopped(n, q))

FairClientSpec == ClientSpec /\ ClientFairness

-----------------------------------------------------------------------------
(* Properties *)

\* Requests, answers and reads have the shape the code gives them; one request
\* at most is served at a time.
ClientTypeOK ==
    /\ clientCh \in [Node -> Seq(Command)]
    /\ serving \in [Node -> SUBSET Served]
    /\ \A n \in Node : Cardinality(serving[n]) <= 1
    /\ answer \in [Command -> Waiting \cup Final]
    /\ exited \subseteq stopped
    /\ acked \subseteq Served
    /\ read \in [Node -> [seen : Seq(Command), after : SUBSET Command]]

\* A request answered with OK COMMITTED is committed for good: the entry is in
\* its place in the log of every later leader.  handleClientReq only looks at
\* the commit index, so it must not mistake another entry at idx for its own.
AckIsCommitted ==
    \A q \in acked : \A l \in Node :
        state[l] = "Leader" /\ currentTerm[l] >= q.term =>
            /\ q.index < Len(log[l])
            /\ log[l][q.index + 1] = [index |-> q.index, term |-> q.term,
                                     command |-> q.command]

\* A client that is told NOT_LEADER can send the command elsewhere: no log
\* holds it, now or later.  The same is not said of LOST_LEADERSHIP, TIMEOUT
\* and NODE_STOPPED, whose command may still be committed.
RefusedIsAbsent ==
    \A c \in Command : answer[c] = "NOT_LEADER" =>
        \A n \in Node : \A i \in DOMAIN log[n] : log[n][i].command # c

\* No command is executed twice on a node, whatever happens between the append
\* and the answer, a restart and its replay included.
ExecutedOnce ==
    \A n \in Node : \A i, j \in DOMAIN applied[n] :
        applied[n][i] = applied[n][j] => i = j


\* A GET sees every write that was acknowledged before it (README,
\* linearizable consistency): fails, GET reads the local store of any node.
ReadsSeeAcked == \A n \in Node : read[n].after \subseteq ToSet(read[n].seen)
=============================================================================
