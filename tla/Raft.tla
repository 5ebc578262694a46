-------------------------------- MODULE Raft --------------------------------
(***************************************************************************)
(* The consensus core of orris (internal/raft): leader election, log       *)
(* replication, commitment, application to the state machine, and recovery *)
(* from the write-ahead log after a crash.                                 *)
(*                                                                         *)
(* Indices are the code's: the first log entry has index 0 and -1 stands   *)
(* for "none", so the entry with index i is log[n][i + 1].                 *)
(*                                                                         *)
(* A section of code between n.mu.Lock() and n.mu.Unlock() is one step.    *)
(* RPCs in flight are sets of records: any of them may be handled late and *)
(* in any order, or never.  A candidate sends each peer one RequestVote    *)
(* per term, which is answered at most once.  A leader has several         *)
(* AppendEntries calls to the same peer under way at a time, one per       *)
(* goroutine; each has its own connection, as in SendRPC, so equal ones    *)
(* are told apart and each is handled at most once.                        *)
(*                                                                         *)
(* Every handler writes what it changes of the term, the vote, the log and *)
(* the commit index to the WAL before it unlocks, so between steps those   *)
(* four are what recoverState would read (module RaftWal checks this at    *)
(* the level of records).  A crash between two records of one handler is   *)
(* an action of its own.                                                   *)
(***************************************************************************)
EXTENDS Integers, Sequences, FiniteSets, FiniteSetsExt

CONSTANTS
    Node,       \* the node IDs of the cluster
    Peers,      \* Peers[n]: the other nodes that n was started with (-peers)
    Command,    \* the operations clients submit
    NoVote,     \* the empty VotedFor
    Timers,     \* bound: the nodes whose election timer may fire
    Crashers,   \* bound: the nodes that may crash
    Reach,      \* bound: Reach[n] are the nodes that n's RPCs get to, the others are
                \* partitioned off
    MaxTerm,    \* bound: no election starts in a term above it
    MaxLog,     \* bound: no client entry is appended at an index above it
    Conn        \* bound: the AppendEntries calls to one peer under way at a time

ASSUME NodeAssumption == IsFiniteSet(Node) /\ NoVote \notin Node
ASSUME PeersAssumption ==
    /\ Peers \in [Node -> SUBSET Node]
    /\ \A n \in Node : n \notin Peers[n]
ASSUME BoundAssumption ==
    /\ Timers \subseteq Node
    /\ Crashers \subseteq Node
    /\ Reach \in [Node -> SUBSET Node]
    /\ MaxTerm \in Nat
    /\ MaxLog \in Nat
    /\ Conn \subseteq Nat

VARIABLES
    state,        \* Node.State
    currentTerm,  \* Node.CurrentTerm
    votedFor,     \* Node.VotedFor
    votes,        \* the voters counted by the running startElection
    log,          \* Node.Log
    commitIndex,  \* Node.CommitIndex
    lastApplied,  \* Node.LastApplied
    applied,      \* the commands executed on Node.KVStore, in order
    nextIndex,    \* Node.NextIndex
    matchIndex,   \* Node.MatchIndex
    rounds,       \* replicateToPeer goroutines that have not read the log yet
    rvReqs,       \* RequestVoteRequests sent
    rvResps,      \* RequestVoteResponses sent
    aeReqs,       \* AppendEntriesRequests in flight
    aeResps,      \* AppendEntriesResponses in flight
    cast,         \* history: every vote ever cast, self votes included
    elected       \* history: every node that became leader, and its term

roleVars   == <<state, currentTerm, votedFor, votes>>
logVars    == <<log, commitIndex>>
applyVars  == <<lastApplied, applied>>
leaderVars == <<nextIndex, matchIndex>>
rvVars     == <<rvReqs, rvResps>>
aeVars     == <<rounds, aeReqs, aeResps>>
histVars   == <<cast, elected>>
vars == <<roleVars, logVars, applyVars, leaderVars, rvVars, aeVars, histVars>>

-----------------------------------------------------------------------------
(* Types *)

Roles == {"Follower", "Candidate", "Leader"}

Index == Nat \cup {-1}

Entry == [index : Nat, term : Nat, command : Command]

RVReq == [from : Node, to : Node, term : Nat, lastIndex : Index, lastTerm : Nat]

\* reqTerm is the local variable term of the goroutine that waits for the reply
RVResp == [from : Node, to : Node, reqTerm : Nat, term : Nat, granted : BOOLEAN]

\* The arguments of one replicateToPeer call
Round == [from : Node, to : Node, conn : Conn, term : Nat, next : Nat, commit : Index]

AEReq == [from : Node, to : Node, conn : Conn, term : Nat, prevIndex : Index, prevTerm : Nat,
          entries : Seq(Entry), commit : Index]

\* reqTerm, next and count are the waiting goroutine's term, nextIdx and
\* len(entries).  The MatchIndex field of the reply is read by nobody.
AEResp == [from : Node, to : Node, conn : Conn, reqTerm : Nat, next : Nat, count : Nat,
           term : Nat, success : BOOLEAN]

Vote == [voter : Node, term : Nat, candidate : Node]

Election == [node : Node, term : Nat]

-----------------------------------------------------------------------------
(* Operators on logs *)

LastIndex(l) == IF l = <<>> THEN -1 ELSE l[Len(l)].index

LastTerm(l) == IF l = <<>> THEN 0 ELSE l[Len(l)].term

\* The term of the entry at index i, 0 when i is out of range
TermAt(l, i) == IF 0 <= i /\ i < Len(l) THEN l[i + 1].term ELSE 0

\* The log up to and including index i
Upto(l, i) == SubSeq(l, 1, i + 1)

\* l holds everything that k holds up to index i
Agrees(l, k, i) == i < Len(l) /\ Upto(l, i) = Upto(k, i)

Commands(l) == [i \in DOMAIN l |-> l[i].command]


\* More than half of the cluster as n knows it
IsMajority(n, S) == Cardinality(S) > (Cardinality(Peers[n]) + 1) \div 2

-----------------------------------------------------------------------------
Init ==
    /\ state = [n \in Node |-> "Follower"]
    /\ currentTerm = [n \in Node |-> 0]
    /\ votedFor = [n \in Node |-> NoVote]
    /\ votes = [n \in Node |-> {}]
    /\ log = [n \in Node |-> <<>>]
    /\ commitIndex = [n \in Node |-> -1]
    /\ lastApplied = [n \in Node |-> -1]
    /\ applied = [n \in Node |-> <<>>]
    /\ nextIndex = [n \in Node |-> [p \in Node |-> 0]]
    /\ matchIndex = [n \in Node |-> [p \in Node |-> -1]]
    /\ rounds = {}
    /\ rvReqs = {}
    /\ rvResps = {}
    /\ aeReqs = {}
    /\ aeResps = {}
    /\ cast = {}
    /\ elected = {}

-----------------------------------------------------------------------------
(* Elections *)

\* Fall back to follower in the newer term t, with no vote yet.
StepDown(n, t) ==
    /\ state' = [state EXCEPT ![n] = "Follower"]
    /\ currentTerm' = [currentTerm EXCEPT ![n] = t]
    /\ votedFor' = [votedFor EXCEPT ![n] = NoVote]

\* The election timer fires on a node that is not leader.  A timer callback
\* that resetElectionTimer came too late to stop still runs, so nothing but
\* the role guards this step.
StartElection(n) ==
    /\ n \in Timers
    /\ currentTerm[n] < MaxTerm
    /\ state[n] # "Leader"
    /\ state' = [state EXCEPT ![n] = "Candidate"]
    /\ currentTerm' = [currentTerm EXCEPT ![n] = @ + 1]
    /\ votedFor' = [votedFor EXCEPT ![n] = n]
    /\ votes' = [votes EXCEPT ![n] = {n}]
    /\ rvReqs' = rvReqs \cup
         {[from |-> n, to |-> p, term |-> currentTerm[n] + 1,
           lastIndex |-> LastIndex(log[n]), lastTerm |-> LastTerm(log[n])]
            : p \in Peers[n] \cap Reach[n]}
    /\ cast' = cast \cup
         {[voter |-> n, term |-> currentTerm[n] + 1, candidate |-> n]}
    /\ UNCHANGED <<logVars, applyVars, leaderVars, rvResps, aeVars, elected>>

\* Mutant of UpToDate: logs are not compared.
AnyLog(m, l) == TRUE

\* The candidate's log is at least as up to date as l.
UpToDate(m, l) ==
    \/ m.lastTerm > LastTerm(l)
    \/ m.lastTerm = LastTerm(l) /\ m.lastIndex >= LastIndex(l)

\* Mutant of VoteFor: stepDown is called for a request of the same term, too.
VoteForgotten(n, m) == IF m.term >= currentTerm[n] THEN NoVote ELSE votedFor[n]

\* The vote n holds in the term of m: stepDown forgets the one of an older term.
VoteFor(n, m) == IF m.term > currentTerm[n] THEN NoVote ELSE votedFor[n]

Grants(n, m) ==
    /\ m.term >= currentTerm[n]
    /\ VoteFor(n, m) \in {NoVote, m.from}
    /\ UpToDate(m, log[n])

HandleRequestVote(n, m) ==
    /\ m.to = n
    /\ ~ \E r \in rvResps : r.from = n /\ r.to = m.from /\ r.reqTerm = m.term
    /\ currentTerm' = [currentTerm EXCEPT ![n] = IF m.term > @ THEN m.term ELSE @]
    /\ state' = [state EXCEPT ![n] = IF m.term > currentTerm[n] THEN "Follower" ELSE @]
    /\ votedFor' = [votedFor EXCEPT ![n] = IF Grants(n, m) THEN m.from ELSE VoteFor(n, m)]
    /\ rvResps' = rvResps \cup
         {[from |-> n, to |-> m.from, reqTerm |-> m.term,
           term |-> IF m.term > currentTerm[n] THEN m.term ELSE currentTerm[n],
           granted |-> Grants(n, m)]}
    /\ cast' = IF Grants(n, m)
               THEN cast \cup {[voter |-> n, term |-> m.term, candidate |-> m.from]}
               ELSE cast
    /\ UNCHANGED <<votes, logVars, applyVars, leaderVars, rvReqs, aeVars, elected>>

\* Mutant of BecomeLeader: NextIndex starts at the last index, not after it.
StartAtLastIndex(n) ==
    /\ state' = [state EXCEPT ![n] = "Leader"]
    /\ nextIndex' = [nextIndex EXCEPT ![n] =
         [p \in Node |-> IF p \in Peers[n] THEN LastIndex(log[n]) ELSE @[p]]]
    /\ matchIndex' = [matchIndex EXCEPT ![n] =
         [p \in Node |-> IF p \in Peers[n] THEN -1 ELSE @[p]]]
    /\ elected' = elected \cup {[node |-> n, term |-> currentTerm[n]]}

BecomeLeader(n) ==
    /\ state' = [state EXCEPT ![n] = "Leader"]
    /\ nextIndex' = [nextIndex EXCEPT ![n] =
         [p \in Node |-> IF p \in Peers[n] THEN Len(log[n]) ELSE @[p]]]
    /\ matchIndex' = [matchIndex EXCEPT ![n] =
         [p \in Node |-> IF p \in Peers[n] THEN -1 ELSE @[p]]]
    /\ elected' = elected \cup {[node |-> n, term |-> currentTerm[n]]}

\* Mutant of AwaitsVote: a reply to an earlier election counts too.
AwaitsAnyVote(n, r) == r.to = n /\ state[n] = "Candidate"

\* A reply reaches the goroutine of an election that is still running.
AwaitsVote(n, r) ==
    /\ r.to = n
    /\ state[n] = "Candidate"
    /\ currentTerm[n] = r.reqTerm

VoteReplyNewerTerm(n, r) ==
    /\ AwaitsVote(n, r)
    /\ r.term > currentTerm[n]
    /\ StepDown(n, r.term)
    /\ UNCHANGED <<votes, logVars, applyVars, leaderVars, rvVars, aeVars, histVars>>

\* The code unlocks between the check of the reply and the count, and checks
\* role and term again before becomeLeader: a count that comes too late has no
\* effect, so both are one step.
CountVote(n, r) ==
    /\ AwaitsVote(n, r)
    /\ r.term <= currentTerm[n]
    /\ r.granted
    /\ votes' = [votes EXCEPT ![n] = @ \cup {r.from}]
    /\ IF IsMajority(n, votes'[n])
       THEN BecomeLeader(n)
       ELSE UNCHANGED <<state, leaderVars, elected>>
    /\ UNCHANGED <<currentTerm, votedFor, logVars, applyVars, rvVars, aeVars, cast>>

\* The tail of startElection, after wg.Wait.  With peers, CountVote has already
\* promoted a winner; a node without peers becomes leader here.
FinishElection(n) ==
    /\ state[n] = "Candidate"
    /\ IsMajority(n, votes[n])
    /\ BecomeLeader(n)
    /\ UNCHANGED <<currentTerm, votedFor, votes, logVars, applyVars, rvVars,
                   aeVars, cast>>

-----------------------------------------------------------------------------
(* Replication, the leader's side *)

\* handleClientReq: the leader appends the command and starts a round.
ClientRequest(n, c) ==
    /\ state[n] = "Leader"
    /\ Len(log[n]) <= MaxLog
    /\ log' = [log EXCEPT ![n] = Append(@,
         [index |-> Len(@), term |-> currentTerm[n], command |-> c])]
    /\ UNCHANGED <<roleVars, commitIndex, applyVars, leaderVars, rvVars, aeVars,
                   histVars>>

\* The connections from n to p that no call of n's current term uses.
FreeConns(n, p) ==
    {k \in Conn :
        /\ \A d \in rounds \cup aeReqs :
              <<d.from, d.to, d.term, d.conn>> # <<n, p, currentTerm[n], k>>
        /\ \A r \in aeResps :
              <<r.to, r.from, r.reqTerm, r.conn>> # <<n, p, currentTerm[n], k>>}

\* sendHeartbeats, for one peer: a snapshot of term, commitIndex and NextIndex,
\* taken under the lock and used by replicateToPeer after it is released.  The
\* goroutines of one round are independent, and each may fail.
SendHeartbeats(n, p) ==
    /\ state[n] = "Leader"
    /\ FreeConns(n, p) # {}
    /\ rounds' = rounds \cup
         {[from |-> n, to |-> p, conn |-> Min(FreeConns(n, p)),
           term |-> currentTerm[n], next |-> nextIndex[n][p],
           commit |-> commitIndex[n]]}
    /\ UNCHANGED <<roleVars, logVars, applyVars, leaderVars, rvVars, aeReqs,
                   aeResps, histVars>>

\* Mutant of ReplicateToPeer: a request carries one entry at most.
ReplicateOneEntry(n, d) ==
    /\ d.from = n
    /\ state[n] = "Leader"
    /\ currentTerm[n] = d.term
    /\ rounds' = rounds \ {d}
    /\ aeReqs' = aeReqs \cup
         {[from |-> n, to |-> d.to, conn |-> d.conn, term |-> d.term,
           prevIndex |-> d.next - 1, prevTerm |-> TermAt(log[n], d.next - 1),
           entries |-> SubSeq(log[n], d.next + 1, Min({d.next + 1, Len(log[n])})),
           commit |-> d.commit]}
    /\ UNCHANGED <<roleVars, logVars, applyVars, leaderVars, rvVars, aeResps,
                   histVars>>

\* replicateToPeer up to SendRPC: the log is read now, the rest is the snapshot.
ReplicateToPeer(n, d) ==
    /\ d.from = n
    /\ state[n] = "Leader"
    /\ currentTerm[n] = d.term
    /\ rounds' = rounds \ {d}
    /\ aeReqs' = aeReqs \cup
         {[from |-> n, to |-> d.to, conn |-> d.conn, term |-> d.term,
           prevIndex |-> d.next - 1, prevTerm |-> TermAt(log[n], d.next - 1),
           entries |-> SubSeq(log[n], d.next + 1, Len(log[n])),
           commit |-> d.commit]}
    /\ UNCHANGED <<roleVars, logVars, applyVars, leaderVars, rvVars, aeResps,
                   histVars>>

\* replicateToPeer finds that n no longer leads the term of the round.
AbandonRound(n, d) ==
    /\ d.from = n
    /\ ~(state[n] = "Leader" /\ currentTerm[n] = d.term)
    /\ rounds' = rounds \ {d}
    /\ UNCHANGED <<roleVars, logVars, applyVars, leaderVars, rvVars, aeReqs,
                   aeResps, histVars>>

\* SendRPC fails, before the peer has handled the request or after, or its
\* reply changes nothing.
DropRequest(m) ==
    /\ aeReqs' = aeReqs \ {m}
    /\ UNCHANGED <<roleVars, logVars, applyVars, leaderVars, rvVars, rounds,
                   aeResps, histVars>>

DropReply(r) ==
    /\ aeResps' = aeResps \ {r}
    /\ UNCHANGED <<roleVars, logVars, applyVars, leaderVars, rvVars, rounds,
                   aeReqs, histVars>>

\* A reply reaches a replicateToPeer whose node still leads the same term.
AwaitsAppend(n, r) ==
    /\ r.to = n
    /\ state[n] = "Leader"
    /\ currentTerm[n] = r.reqTerm
    /\ aeResps' = aeResps \ {r}

AppendReplyNewerTerm(n, r) ==
    /\ AwaitsAppend(n, r)
    /\ r.term > currentTerm[n]
    /\ StepDown(n, r.term)
    /\ UNCHANGED <<votes, logVars, applyVars, leaderVars, rvVars, rounds, aeReqs, histVars>>

\* Mutant of Committable: entries of earlier terms are counted like its own.
CommittableOfAnyTerm(n, match) ==
    {i \in commitIndex[n] + 1 .. Len(log[n]) - 1 :
        IsMajority(n, {n} \cup {p \in Peers[n] : match[p] >= i})}

\* The indices the leader may commit: of its own term, held by a majority.
Committable(n, match) ==
    {i \in commitIndex[n] + 1 .. Len(log[n]) - 1 :
        /\ log[n][i + 1].term = currentTerm[n]
        /\ IsMajority(n, {n} \cup {p \in Peers[n] : match[p] >= i})}

AdvanceCommitIndex(n, match) ==
    commitIndex' = [commitIndex EXCEPT ![n] =
        IF Committable(n, match) = {} THEN @ ELSE Max(Committable(n, match))]

\* Mutants of AppendReplySuccess: MatchIndex, or NextIndex, is taken from the
\* log as it is when the reply comes, not as it was sent.
MatchWholeLog(n, r) ==
    /\ AwaitsAppend(n, r)
    /\ r.term <= currentTerm[n]
    /\ r.success
    /\ r.count > 0
    /\ matchIndex' = [matchIndex EXCEPT ![n][r.from] = Len(log[n]) - 1]
    /\ nextIndex' = [nextIndex EXCEPT ![n][r.from] = r.next + r.count]
    /\ AdvanceCommitIndex(n, matchIndex'[n])
    /\ UNCHANGED <<roleVars, log, applyVars, rvVars, rounds, aeReqs, histVars>>
NextAfterWholeLog(n, r) ==
    /\ AwaitsAppend(n, r)
    /\ r.term <= currentTerm[n]
    /\ r.success
    /\ r.count > 0
    /\ matchIndex' = [matchIndex EXCEPT ![n][r.from] = r.next - 1 + r.count]
    /\ nextIndex' = [nextIndex EXCEPT ![n][r.from] = Len(log[n])]
    /\ AdvanceCommitIndex(n, matchIndex'[n])
    /\ UNCHANGED <<roleVars, log, applyVars, rvVars, rounds, aeReqs, histVars>>

\* The peer took the entries.  MatchIndex is assigned, not maximised: a late
\* reply to an older round lowers it.
AppendReplySuccess(n, r) ==
    /\ AwaitsAppend(n, r)
    /\ r.term <= currentTerm[n]
    /\ r.success
    /\ r.count > 0
    /\ matchIndex' = [matchIndex EXCEPT ![n][r.from] = r.next - 1 + r.count]
    /\ nextIndex' = [nextIndex EXCEPT ![n][r.from] = r.next + r.count]
    /\ AdvanceCommitIndex(n, matchIndex'[n])
    /\ UNCHANGED <<roleVars, log, applyVars, rvVars, rounds, aeReqs, histVars>>

\* Mutant of AppendReplyFailure: the next round starts where this one did.
RetrySameIndex(n, r) ==
    /\ AwaitsAppend(n, r)
    /\ r.term <= currentTerm[n]
    /\ ~r.success
    /\ r.next > 0
    /\ nextIndex' = [nextIndex EXCEPT ![n][r.from] = r.next]
    /\ UNCHANGED <<roleVars, logVars, applyVars, matchIndex, rvVars, rounds, aeReqs,
                   histVars>>

\* The peer's log has no entry that agrees with prevIndex: retry one lower.
AppendReplyFailure(n, r) ==
    /\ AwaitsAppend(n, r)
    /\ r.term <= currentTerm[n]
    /\ ~r.success
    /\ r.next > 0
    /\ nextIndex' = [nextIndex EXCEPT ![n][r.from] = r.next - 1]
    /\ UNCHANGED <<roleVars, logVars, applyVars, matchIndex, rvVars, rounds, aeReqs,
                   histVars>>

-----------------------------------------------------------------------------
(* Replication, the follower's side: HandleAppendEntries *)

\* The reply takes the place of the request on its connection.
AppendReply(n, m, t, ok) ==
    /\ aeReqs' = aeReqs \ {m}
    /\ aeResps' = aeResps \cup
         {[from |-> n, to |-> m.from, conn |-> m.conn, reqTerm |-> m.term,
           next |-> m.prevIndex + 1, count |-> Len(m.entries), term |-> t,
           success |-> ok]}

\* The sender leads a term that n has left behind.
RejectStaleLeader(n, m) ==
    /\ m.to = n
    /\ m.term < currentTerm[n]
    /\ AppendReply(n, m, currentTerm[n], FALSE)
    /\ UNCHANGED <<roleVars, logVars, applyVars, leaderVars, rvVars, rounds,
                   histVars>>

\* n follows the sender; the vote is kept when the term is not new.
FollowLeader(n, m) ==
    /\ m.to = n
    /\ m.term >= currentTerm[n]
    /\ state' = [state EXCEPT ![n] = "Follower"]
    /\ currentTerm' = [currentTerm EXCEPT ![n] = m.term]
    /\ votedFor' = [votedFor EXCEPT ![n] = VoteFor(n, m)]

\* Mutant of PrevMatches: the term of the entry is not compared.
PrevPresent(l, m) == m.prevIndex < Len(l)

PrevMatches(l, m) ==
    m.prevIndex >= 0 =>
        m.prevIndex < Len(l) /\ l[m.prevIndex + 1].term = m.prevTerm

\* No entry, or another one, at prevIndex: drop it and what follows it.
RejectGap(n, m) ==
    /\ FollowLeader(n, m)
    /\ ~PrevMatches(log[n], m)
    /\ log' = [log EXCEPT ![n] = SubSeq(@, 1, Min({m.prevIndex, Len(@)}))]
    /\ AppendReply(n, m, m.term, FALSE)
    /\ UNCHANGED <<votes, commitIndex, applyVars, leaderVars, rvVars, rounds,
                   histVars>>

\* The lengths of the prefixes of l that end just before an entry whose term
\* differs from that of the received entry with the same index.
Conflicts(l, m) ==
    {k \in 0 .. Len(l) - 1 :
        /\ k - m.prevIndex \in DOMAIN m.entries
        /\ l[k + 1].term # m.entries[k - m.prevIndex].term}

\* Mutant of Kept: an entry that conflicts is replaced by appending after it.
KeptAll(l, m) == Len(l)

\* How much of l survives: all of it unless an entry conflicts.
Kept(l, m) == IF Conflicts(l, m) = {} THEN Len(l) ELSE Min(Conflicts(l, m))

\* l after the received entries up to the j-th are in it.
Merge(l, m, j) == SubSeq(l, 1, Kept(l, m)) \o SubSeq(m.entries, Kept(l, m) - m.prevIndex, j)

\* Mutant of AcceptEntries: the commit index of the request is adopted even if
\* it is lower.
AdoptCommitIndex(n, m) ==
    /\ FollowLeader(n, m)
    /\ PrevMatches(log[n], m)
    /\ log' = [log EXCEPT ![n] = Merge(@, m, Len(m.entries))]
    /\ commitIndex' = [commitIndex EXCEPT ![n] = Min({m.commit, Len(log'[n]) - 1})]
    /\ AppendReply(n, m, m.term, TRUE)
    /\ UNCHANGED <<votes, applyVars, leaderVars, rvVars, rounds, histVars>>

AcceptEntries(n, m) ==
    /\ FollowLeader(n, m)
    /\ PrevMatches(log[n], m)
    /\ log' = [log EXCEPT ![n] = Merge(@, m, Len(m.entries))]
    /\ commitIndex' = [commitIndex EXCEPT ![n] =
         IF m.commit > @ THEN Min({m.commit, Len(log'[n]) - 1}) ELSE @]
    /\ AppendReply(n, m, m.term, TRUE)
    /\ UNCHANGED <<votes, applyVars, leaderVars, rvVars, rounds, histVars>>

-----------------------------------------------------------------------------
(* Application, crash and recovery *)

\* Mutant of ApplyCommitted: the entry applied last is applied again.
ApplyFromLast(n) ==
    LET last == Min({commitIndex[n], Len(log[n]) - 1})
    IN  /\ lastApplied[n] < last
        /\ lastApplied' = [lastApplied EXCEPT ![n] = last]
        /\ applied' = [applied EXCEPT ![n] =
             @ \o Commands(SubSeq(log[n], Max({lastApplied[n], 0}) + 1, last + 1))]
        /\ UNCHANGED <<roleVars, logVars, leaderVars, rvVars, aeVars, histVars>>

\* applyCommittedEntries: everything committed that is in the log.
ApplyCommitted(n) ==
    LET last == Min({commitIndex[n], Len(log[n]) - 1})
    IN  /\ lastApplied[n] < last
        /\ lastApplied' = [lastApplied EXCEPT ![n] = last]
        /\ applied' = [applied EXCEPT ![n] =
             @ \o Commands(SubSeq(log[n], lastApplied[n] + 2, last + 1))]
        /\ UNCHANGED <<roleVars, logVars, leaderVars, rvVars, aeVars, histVars>>

\* Mutant of Recover: the committed entries are left to the apply loop.
RecoverWithoutReplay(n, l, c) ==
    /\ state' = [state EXCEPT ![n] = "Follower"]
    /\ votes' = [votes EXCEPT ![n] = {}]
    /\ log' = [log EXCEPT ![n] = l]
    /\ commitIndex' = [commitIndex EXCEPT ![n] = c]
    /\ lastApplied' = [lastApplied EXCEPT ![n] = -1]
    /\ applied' = [applied EXCEPT ![n] = <<>>]
    /\ nextIndex' = [nextIndex EXCEPT ![n] = [p \in Node |-> 0]]
    /\ matchIndex' = [matchIndex EXCEPT ![n] = [p \in Node |-> -1]]
    /\ rounds' = {d \in rounds : d.from # n}
    /\ aeResps' = {r \in aeResps : r.to # n}
    /\ UNCHANGED <<rvVars, aeReqs, histVars>>

\* NewNode and recoverState on a WAL that holds the log l and commit index c:
\* everything else starts afresh, and the committed entries are replayed.
Recover(n, l, c) ==
    LET last == Min({c, Len(l) - 1})
    IN  /\ state' = [state EXCEPT ![n] = "Follower"]
        /\ votes' = [votes EXCEPT ![n] = {}]
        /\ log' = [log EXCEPT ![n] = l]
        /\ commitIndex' = [commitIndex EXCEPT ![n] = c]
        /\ lastApplied' = [lastApplied EXCEPT ![n] = last]
        /\ applied' = [applied EXCEPT ![n] = Commands(Upto(l, last))]
        /\ nextIndex' = [nextIndex EXCEPT ![n] = [p \in Node |-> 0]]
        /\ matchIndex' = [matchIndex EXCEPT ![n] = [p \in Node |-> -1]]
        /\ rounds' = {d \in rounds : d.from # n}
        /\ aeResps' = {r \in aeResps : r.to # n}
        /\ UNCHANGED <<rvVars, aeReqs, histVars>>

\* The process dies between two handlers and is started again.
Restart(n) ==
    /\ Recover(n, log[n], commitIndex[n])
    /\ UNCHANGED <<currentTerm, votedFor>>

\* It dies in a handler of request m, when only stepDown's record is written.
RestartInStepDown(n, m) ==
    /\ m.to = n
    /\ m.term > currentTerm[n]
    /\ currentTerm' = [currentTerm EXCEPT ![n] = m.term]
    /\ votedFor' = [votedFor EXCEPT ![n] = NoVote]
    /\ Recover(n, log[n], commitIndex[n])

\* It dies in HandleAppendEntries after the truncation and the first entries
\* are written: the log ends after the j-th received entry.
RestartInAppend(n, m, j) ==
    /\ m.to = n
    /\ m.term >= currentTerm[n]
    /\ PrevMatches(log[n], m)
    /\ j >= Kept(log[n], m) - m.prevIndex - 1
    /\ currentTerm' = [currentTerm EXCEPT ![n] = m.term]
    /\ votedFor' = [votedFor EXCEPT ![n] = VoteFor(n, m)]
    /\ Recover(n, Merge(log[n], m, j), commitIndex[n])

-----------------------------------------------------------------------------
NextElection(n) ==
    \/ StartElection(n)
    \/ \E m \in rvReqs : HandleRequestVote(n, m)
    \/ \E r \in rvResps : VoteReplyNewerTerm(n, r)
    \/ \E r \in rvResps : CountVote(n, r)
    \/ FinishElection(n)

NextClient(n) == \E c \in Command : ClientRequest(n, c)

NextReplication(n) ==
    \/ \E p \in Peers[n] \cap Reach[n] : SendHeartbeats(n, p)
    \/ \E d \in rounds : ReplicateToPeer(n, d)
    \/ \E d \in rounds : AbandonRound(n, d)
    \/ \E m \in aeReqs : RejectStaleLeader(n, m)
    \/ \E m \in aeReqs : RejectGap(n, m)
    \/ \E m \in aeReqs : AcceptEntries(n, m)
    \/ \E r \in aeResps : AppendReplyNewerTerm(n, r)
    \/ \E r \in aeResps : AppendReplySuccess(n, r)
    \/ \E r \in aeResps : AppendReplyFailure(n, r)
    \/ ApplyCommitted(n)

NextRestart(n) ==
    \/ Restart(n)
    \/ \E m \in rvReqs \cup aeReqs : RestartInStepDown(n, m)
    \/ \E m \in aeReqs : \E j \in 0 .. Len(m.entries) : RestartInAppend(n, m, j)

NextDrop ==
    \/ \E m \in aeReqs : DropRequest(m)
    \/ \E r \in aeResps : DropReply(r)

Next ==
    \/ \E n \in Node : NextElection(n) \/ NextClient(n) \/ NextReplication(n)
    \/ \E n \in Crashers : NextRestart(n)
    \/ NextDrop

Spec == Init /\ [][Next]_vars

\* p handles a call of the leader n; n handles its reply.
Delivered(n, p) ==
    \E m \in aeReqs :
        /\ m.from = n
        /\ RejectStaleLeader(p, m) \/ RejectGap(p, m) \/ AcceptEntries(p, m)
Answered(n, p) ==
    \E r \in aeResps :
        /\ r.from = p
        /\ AppendReplyNewerTerm(n, r) \/ AppendReplySuccess(n, r) \/ AppendReplyFailure(n, r)

\* The fairness of a cluster that stays up.  The goroutines of a node are
\* scheduled, and a call of SendRPC ends, at the latest at its deadline; the
\* network does not fail every call of the heartbeats, which come every 100 ms.
Fairness ==
    /\ \A n \in Node : WF_vars(ApplyCommitted(n))
    /\ \A n \in Timers :
          /\ WF_vars(FinishElection(n))
          /\ \A p \in Peers[n] :
                /\ WF_vars(SendHeartbeats(n, p))
                /\ WF_vars(\E d \in rounds : d.to = p /\ ReplicateToPeer(n, d))
                /\ WF_vars(\E r \in aeResps : r.to = n /\ r.from = p /\ DropReply(r))
                /\ SF_vars(Delivered(n, p))
                /\ SF_vars(Answered(n, p))

FairSpec == Spec /\ Fairness

-----------------------------------------------------------------------------
(* Properties *)

\* Every variable has the type of the Go field or payload it stands for.
TypeOK ==
    /\ state \in [Node -> Roles]
    /\ currentTerm \in [Node -> Nat]
    /\ votedFor \in [Node -> Node \cup {NoVote}]
    /\ votes \in [Node -> SUBSET Node]
    /\ log \in [Node -> Seq(Entry)]
    /\ commitIndex \in [Node -> Index]
    /\ lastApplied \in [Node -> Index]
    /\ applied \in [Node -> Seq(Command)]
    /\ nextIndex \in [Node -> [Node -> Nat]]
    /\ matchIndex \in [Node -> [Node -> Index]]
    /\ rounds \subseteq Round
    /\ rvReqs \subseteq RVReq
    /\ rvResps \subseteq RVResp
    /\ aeReqs \subseteq AEReq
    /\ aeResps \subseteq AEResp
    /\ cast \subseteq Vote
    /\ elected \subseteq Election

\* At most one node ever becomes leader in a term, whatever crashes and
\* restarts happen between its votes (startElection, HandleRequestVote).
ElectionSafety ==
    \A e, f \in elected : e.term = f.term => e.node = f.node

\* A node's term never falls, and within a term a vote once given is never
\* withdrawn or given to another candidate, restarts included (stepDown,
\* recoverState).
VoteStep ==
    \A n \in Node :
        /\ currentTerm'[n] >= currentTerm[n]
        /\ currentTerm'[n] = currentTerm[n] /\ votedFor[n] # NoVote
              => votedFor'[n] = votedFor[n]
VoteStable == [][VoteStep]_vars

\* Two logs that hold an entry of the same term at the same index are equal up
\* to that index: HandleAppendEntries keeps what it has after PrevLogIndex only
\* as long as the terms agree.
LogMatching ==
    \A n, p \in Node : \A i \in DOMAIN log[n] \cap DOMAIN log[p] :
        log[n][i].term = log[p][i].term => SubSeq(log[n], 1, i) = SubSeq(log[p], 1, i)

\* What any node knows to be committed is in the log of every leader of that
\* node's term or a later one: the up-to-date check of HandleRequestVote and
\* the current-term rule of advanceCommitIndex together.
LeaderCompleteness ==
    \A l, n \in Node :
        state[l] = "Leader" /\ currentTerm[l] >= currentTerm[n]
            => Agrees(log[l], log[n], commitIndex[n])

\* No step truncates or replaces a committed entry and no commit index falls,
\* not even by the truncation of HandleAppendEntries on a mismatch or by a
\* crash between its WAL records.
CommitStep ==
    \A n \in Node :
        /\ commitIndex'[n] >= commitIndex[n]
        /\ commitIndex[n] < Len(log[n])
        /\ Agrees(log'[n], log[n], commitIndex[n])
CommitStable == [][CommitStep]_vars

\* MatchIndex never claims more than the peer holds: late and reordered replies
\* may lower it, but what it counts towards a majority is in the peer's log.
MatchIsHeld ==
    \A n \in Node : \A p \in Peers[n] :
        state[n] = "Leader" /\ currentTerm[p] <= currentTerm[n]
            => Agrees(log[p], log[n], matchIndex[n][p])

\* A request never announces a commit index past its own last entry, although
\* the index is a snapshot and the log is read later.  HandleAppendEntries
\* relies on it: it bounds CommitIndex by the end of its own log, not by the
\* last entry received.
CommitIsCovered ==
    \A m \in aeReqs : m.commit <= m.prevIndex + Len(m.entries)

\* An entry of the leader's own term that a peer has not acknowledged is never
\* skipped: NextIndex is at most one past MatchIndex, or within the entries of
\* earlier terms.  A successful empty heartbeat does not move MatchIndex, so an
\* entry below NextIndex would never be counted.
NoEntrySkipped ==
    \A n \in Node : \A p \in Peers[n] :
        state[n] = "Leader" =>
            \/ nextIndex[n][p] <= matchIndex[n][p] + 1
            \/ \A i \in DOMAIN log[n] :
                  i <= nextIndex[n][p] => log[n][i].term < currentTerm[n]

\* An entry that a leader appends in its term is executed by it and by all its
\* peers, unless the leader is deposed: the heartbeats repair whatever NextIndex
\* a lagging peer starts from, and MatchIndex, which only moves with entries,
\* catches up.  A leader without peers commits nothing.
OwnEntriesExecuted ==
    \A n \in Node : \A q \in Peers[n] : \A p \in {n, q} : \A i \in 1 .. MaxLog + 1 :
        (/\ state[n] = "Leader"
         /\ i <= Len(log[n]) /\ log[n][i].term = currentTerm[n])
            ~> (state[n] # "Leader" \/ i <= Len(applied[p]))

-----------------------------------------------------------------------------
(* The inductive invariant behind ElectionSafety *)

\* Every node was started with all the others as peers.
FullMesh == \A n \in Node : Peers[n] = Node \ {n}

\* No vote is of a term ahead of its voter, and the voter still holds the one
\* of its current term.
CastVotesHeld ==
    \A v \in cast :
        /\ v.term <= currentTerm[v.voter]
        /\ v.term = currentTerm[v.voter] => votedFor[v.voter] = v.candidate

\* No node has voted twice in a term, whether it crashed in between or not.
OneVotePerTerm ==
    \A v, w \in cast :
        v.voter = w.voter /\ v.term = w.term => v.candidate = w.candidate

\* A reply that grants a vote stands for a vote cast.
GrantsAreCast ==
    \A r \in rvResps :
        r.granted => [voter |-> r.from, term |-> r.reqTerm, candidate |-> r.to] \in cast

\* A candidate counts votes cast for it in its term.
CountedAreCast ==
    \A n \in Node : state[n] = "Candidate" =>
        \A p \in votes[n] :
            [voter |-> p, term |-> currentTerm[n], candidate |-> n] \in cast

\* Whoever became leader had the votes of a majority as it knows it.
ElectedByMajority ==
    \A e \in elected : \E Q \in SUBSET Node :
        /\ IsMajority(e.node, Q)
        /\ \A p \in Q : [voter |-> p, term |-> e.term, candidate |-> e.node] \in cast

ElectionInv ==
    /\ CastVotesHeld
    /\ OneVotePerTerm
    /\ GrantsAreCast
    /\ CountedAreCast
    /\ ElectedByMajority
=============================================================================
