------------------------------- MODULE MCRaft -------------------------------
EXTENDS Raft

\* Every node was started with all the others as peers.
FullPeers == [n \in Node |-> Node \ {n}]

\* No node is partitioned off.
FullReach == FullPeers

\* The nodes that run elections reach the others only, so that each knows of
\* the other's terms and entries from the nodes in between.
SplitReach == [n \in Node |-> IF n \in Timers THEN Node \ Timers ELSE Node \ {n}]

\* One of them does not get through to the rest of them: an entry that it has
\* appended meets another one of a leader that does.
Isolated == CHOOSE n \in Timers : TRUE
OneWayReach == [n \in Node |-> IF n = Isolated THEN Node \ Timers ELSE Node \ {n}]

\* orrisctl spawn starts a node as one of three, whatever the size of the
\* cluster: here the isolated one, which has two peers.
SpawnedPeers ==
    [n \in Node |-> IF n = Isolated
                    THEN CHOOSE S \in SUBSET (Node \ {n}) : Cardinality(S) = 2
                    ELSE Node \ {n}]

\* A node that was started without peers beside a cluster of the others.
ApartPeers == [n \in Node |-> IF n = Isolated THEN {} ELSE Node \ {n, Isolated}]

-----------------------------------------------------------------------------
(* What a state can still act on.  TLC identifies states that agree on     *)
(* this.                                                                   *)

Leads(n, t) == state[n] = "Leader" /\ currentTerm[n] = t

Runs(n, t) == state[n] = "Candidate" /\ currentTerm[n] = t

PendingVotes ==
    {m \in rvReqs :
        /\ m.term >= currentTerm[m.to] \/ Runs(m.from, m.term)
        /\ ~ \E r \in rvResps :
              r.from = m.to /\ r.to = m.from /\ r.reqTerm = m.term}

LiveView ==
    <<state, currentTerm, votedFor, logVars, elected,
      [n \in Node |-> IF state[n] = "Candidate" THEN votes[n] ELSE {}],
      [n \in Node |-> IF state[n] = "Leader" THEN <<nextIndex[n], matchIndex[n]>> ELSE <<>>],
      PendingVotes,
      {r \in rvResps : /\ Runs(r.to, r.reqTerm)
                       /\ r.term > r.reqTerm \/ (r.granted /\ r.from \notin votes[r.to])},
      {d \in rounds : Leads(d.from, d.term)},
      {m \in aeReqs : m.term >= currentTerm[m.to] \/ Leads(m.from, m.term)},
      {r \in aeResps : Leads(r.to, r.reqTerm)}>>

\* Execution on the key-value store feeds back into nothing else: it is part of
\* what a state is only in the runs whose properties mention it. So are the nodes
\* with a round that they began as leader and have yet to abandon.
ApplyView ==
    <<LiveView, applyVars,
      {n \in Node : \E d \in rounds : d.from = n /\ ~Leads(n, d.term)}>>

-----------------------------------------------------------------------------
(* The abstract command log that the core implements *)

\* A node that knows of the longest committed prefix.
Ahead == CHOOSE n \in Node : \A p \in Node : commitIndex[p] <= commitIndex[n]

Abstract == INSTANCE CommandLog WITH
    chosen <- Commands(Upto(log[Ahead], commitIndex[Ahead])),
    executed <- applied

=============================================================================
