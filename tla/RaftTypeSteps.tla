--------------------------- MODULE RaftTypeSteps ----------------------------
(***************************************************************************)
(* Type correctness of module Raft, first half: the steps of elections, of *)
(* clients and of the leader's rounds.                                     *)
(***************************************************************************)
EXTENDS Raft, RaftLemmas, TLAPS

LEMMA NodeTypes ==
    ASSUME TypeOK
    PROVE  \A n \in Node : /\ log[n] \in Seq(Entry)
                           /\ Len(log[n]) \in Nat
                           /\ commitIndex[n] \in Index
                           /\ lastApplied[n] \in Index
                           /\ currentTerm[n] \in Nat
  BY NodeAssumption, PeersAssumption, BoundAssumption, LenType, SMTT(60) DEF TypeOK

\* StartElection keeps the types.
LEMMA TypeStartElection ==
    ASSUME TypeOK, NEW n \in Node, StartElection(n)
    PROVE  TypeOK'
<1> USE NodeAssumption, PeersAssumption, BoundAssumption
<1>1. LastIndex(log[n]) \in Index /\ LastTerm(log[n]) \in Nat
  BY LastType, SMTT(60) DEF TypeOK
<1>2. rvReqs' \subseteq RVReq
  <2>1. currentTerm[n] + 1 \in Nat
    BY NodeTypes, SMTT(60)
  <2> DEFINE R == {[from |-> n, to |-> p, term |-> currentTerm[n] + 1,
                    lastIndex |-> LastIndex(log[n]), lastTerm |-> LastTerm(log[n])]
                     : p \in Peers[n] \cap Reach[n]}
  <2>2. R \subseteq RVReq
    BY <1>1, <2>1, SMTT(60) DEF RVReq
  <2>3. rvReqs' = rvReqs \cup R
    BY ZenonT(60) DEF StartElection
  <2> HIDE DEF R
  <2> QED
    BY <2>2, <2>3, ZenonT(60) DEF TypeOK
<1>3. cast' \subseteq Vote
  BY SMTT(60) DEF StartElection, TypeOK, Vote
<1> QED
  BY <1>2, <1>3, SMTT(60) DEF StartElection, TypeOK, Roles, logVars, applyVars,
                          leaderVars, aeVars

\* HandleRequestVote keeps the types.
LEMMA TypeHandleRequestVote ==
    ASSUME TypeOK, NEW n \in Node, NEW m \in rvReqs, HandleRequestVote(n, m)
    PROVE  TypeOK'
<1> USE NodeAssumption, PeersAssumption, BoundAssumption
<1>1. m \in RVReq
  BY DEF TypeOK
<1>2. Grants(n, m) \in BOOLEAN
  BY DEF Grants
<1>3. rvResps' \subseteq RVResp
  BY <1>1, <1>2, SMTT(60) DEF HandleRequestVote, TypeOK, RVReq, RVResp
<1>4. cast' \subseteq Vote
  <2>1. [voter |-> n, term |-> m.term, candidate |-> m.from] \in Vote
    BY <1>1, SMTT(60) DEF RVReq, Vote
  <2> QED
    BY <2>1, SMTT(60) DEF HandleRequestVote, TypeOK
<1>5. VoteFor(n, m) \in Node \cup {NoVote}
  BY SMTT(60) DEF VoteFor, TypeOK
<1>6. /\ state' \in [Node -> Roles]
      /\ currentTerm' \in [Node -> Nat]
      /\ votedFor' \in [Node -> Node \cup {NoVote}]
  BY <1>1, <1>5, SMTT(60) DEF HandleRequestVote, TypeOK, RVReq, Roles
<1> QED
  BY <1>3, <1>4, <1>6, ZenonT(60) DEF HandleRequestVote, TypeOK, logVars, applyVars,
                                leaderVars, aeVars

\* VoteReplyNewerTerm keeps the types.
LEMMA TypeVoteReplyNewerTerm ==
    ASSUME TypeOK, NEW n \in Node, NEW r \in rvResps, VoteReplyNewerTerm(n, r)
    PROVE  TypeOK'
<1> USE NodeAssumption, PeersAssumption, BoundAssumption
<1>1. r \in RVResp
  BY SMTT(60) DEF TypeOK
<1> QED
  BY <1>1, ZenonT(60) DEF VoteReplyNewerTerm, StepDown, TypeOK, RVResp, Roles, logVars,
                    applyVars, leaderVars, rvVars, aeVars, histVars

LEMMA BecomeLeaderType ==
    ASSUME TypeOK, NEW n \in Node, BecomeLeader(n)
    PROVE  /\ state' \in [Node -> Roles]
           /\ nextIndex' \in [Node -> [Node -> Nat]]
           /\ matchIndex' \in [Node -> [Node -> Index]]
           /\ elected' \subseteq Election
<1> USE NodeAssumption, PeersAssumption, BoundAssumption
<1>1. Len(log[n]) \in Nat
  BY LenType DEF TypeOK
<1> QED
  BY <1>1, SMTT(60) DEF BecomeLeader, TypeOK, Roles, Index, Election

\* CountVote keeps the types.
LEMMA TypeCountVote ==
    ASSUME TypeOK, NEW n \in Node, NEW r \in rvResps, CountVote(n, r)
    PROVE  TypeOK'
<1> USE NodeAssumption, PeersAssumption, BoundAssumption
<1>1. r \in RVResp
  BY DEF TypeOK
<1>2. votes' \in [Node -> SUBSET Node]
  BY <1>1, ZenonT(60) DEF CountVote, TypeOK, RVResp
<1>3. /\ state' \in [Node -> Roles]
      /\ nextIndex' \in [Node -> [Node -> Nat]]
      /\ matchIndex' \in [Node -> [Node -> Index]]
      /\ elected' \subseteq Election
  BY BecomeLeaderType, ZenonT(60) DEF CountVote, TypeOK, leaderVars
<1> QED
  BY <1>2, <1>3, ZenonT(60) DEF CountVote, TypeOK, logVars, applyVars, rvVars, aeVars

\* ClientRequest keeps the types.
LEMMA TypeClientRequest ==
    ASSUME TypeOK, NEW n \in Node, NEW c \in Command, ClientRequest(n, c)
    PROVE  TypeOK'
<1> USE NodeAssumption, PeersAssumption, BoundAssumption
<1>1. [index |-> Len(log[n]), term |-> currentTerm[n], command |-> c] \in Entry
  BY LenType, SMTT(60) DEF TypeOK, Entry
<1>2. log' \in [Node -> Seq(Entry)]
  BY <1>1, AppendType, SMTT(60) DEF ClientRequest, TypeOK
<1> QED
  BY <1>2, SMTT(60) DEF ClientRequest, TypeOK, roleVars, applyVars, leaderVars, rvVars,
                    aeVars, histVars

\* SendHeartbeats keeps the types.
LEMMA TypeSendHeartbeats ==
    ASSUME TypeOK, NEW n \in Node, NEW p \in Peers[n] \cap Reach[n],
           SendHeartbeats(n, p)
    PROVE  TypeOK'
<1> USE NodeAssumption, PeersAssumption, BoundAssumption
<1>1. Min(FreeConns(n, p)) \in Conn
  BY MinNat, ZenonT(60) DEF SendHeartbeats, FreeConns
<1>2. rounds' \subseteq Round
  BY <1>1, SMTT(60) DEF SendHeartbeats, TypeOK, Round
<1> QED
  BY <1>2, ZenonT(60) DEF SendHeartbeats, TypeOK, roleVars, logVars, applyVars,
                    leaderVars, rvVars, histVars

\* ReplicateToPeer keeps the types.
LEMMA TypeReplicateToPeer ==
    ASSUME TypeOK, NEW n \in Node, NEW d \in rounds, ReplicateToPeer(n, d)
    PROVE  TypeOK'
<1> USE NodeAssumption, PeersAssumption, BoundAssumption
<1>1. d \in Round
  BY DEF TypeOK
<1>2. /\ d.next \in Nat /\ d.next - 1 \in Int /\ d.next - 1 \in Index
      /\ d.next + 1 \in Nat /\ d.next + 1 >= 1
  BY <1>1, SMTT(60) DEF Round, Index
<1>3. TermAt(log[n], d.next - 1) \in Nat
  <2>1. log[n] \in Seq(Entry)
    BY NodeTypes, ZenonT(60)
  <2> QED
    BY <1>2, <2>1, TermAtType, ZenonT(60)
<1>4. SubSeq(log[n], d.next + 1, Len(log[n])) \in Seq(Entry)
  BY <1>2, SubSeqType, LenType, SMTT(60) DEF TypeOK
<1>5. aeReqs' \subseteq AEReq
  <2>1. [from |-> n, to |-> d.to, conn |-> d.conn, term |-> d.term,
         prevIndex |-> d.next - 1, prevTerm |-> TermAt(log[n], d.next - 1),
         entries |-> SubSeq(log[n], d.next + 1, Len(log[n])),
         commit |-> d.commit] \in AEReq
    BY <1>1, <1>2, <1>3, <1>4, SMTT(60) DEF Round, AEReq
  <2> QED
    BY <2>1, ZenonT(60) DEF ReplicateToPeer, TypeOK
<1> QED
  BY <1>5, ZenonT(60) DEF ReplicateToPeer, TypeOK, roleVars, logVars, applyVars,
                    leaderVars, rvVars, histVars

\* AppendReplyNewerTerm keeps the types.
LEMMA TypeAppendReplyNewerTerm ==
    ASSUME TypeOK, NEW n \in Node, NEW r \in aeResps, AppendReplyNewerTerm(n, r)
    PROVE  TypeOK'
<1> USE NodeAssumption, PeersAssumption, BoundAssumption
<1>1. r \in AEResp
  BY DEF TypeOK
<1> QED
  BY <1>1, ZenonT(60) DEF AppendReplyNewerTerm, AwaitsAppend, StepDown, TypeOK, AEResp,
                     Roles, logVars, applyVars, leaderVars, rvVars, histVars

\* AppendReplySuccess keeps the types.
LEMMA TypeAppendReplySuccess ==
    ASSUME TypeOK, NEW n \in Node, NEW r \in aeResps, AppendReplySuccess(n, r)
    PROVE  TypeOK'
<1> USE NodeAssumption, PeersAssumption, BoundAssumption
<1>1. r \in AEResp
  BY DEF TypeOK
<1>a. /\ r.from \in Node
      /\ r.next + r.count \in Nat
      /\ r.next - 1 + r.count \in Index
  BY <1>1, SMTT(60) DEF AppendReplySuccess, AEResp, Index
<1>2. /\ matchIndex' \in [Node -> [Node -> Index]]
      /\ nextIndex' \in [Node -> [Node -> Nat]]
  BY <1>a, ZenonT(60) DEF AppendReplySuccess, TypeOK
<1> DEFINE C == Committable(n, matchIndex'[n])
<1>3. C \subseteq commitIndex[n] + 1 .. Len(log[n]) - 1
  BY DEF Committable
<1>4. commitIndex[n] + 1 \in Int /\ commitIndex[n] + 1 >= 0 /\ Len(log[n]) - 1 \in Int
  <2>1. commitIndex[n] \in Nat \cup {-1}
    BY NodeTypes DEF Index
  <2>2. log[n] \in Seq(Entry)
    BY NodeTypes
  <2>3. Len(log[n]) \in Nat
    BY <2>2
  <2> QED
    BY <2>1, <2>3, SMTT(60)
<1> HIDE DEF C
<1>5. C # {} => Max(C) \in C
  BY <1>3, <1>4, MaxBounded, ZenonT(60)
<1>6. C # {} => Max(C) \in Index
  <2>1. C # {} => Max(C) \in commitIndex[n] + 1 .. Len(log[n]) - 1
    BY <1>3, <1>5, Zenon
  <2>2. commitIndex[n] + 1 .. Len(log[n]) - 1 \subseteq Index
    BY <1>4 DEF Index
  <2> QED
    BY <2>1, <2>2, Zenon
<1>7. commitIndex' \in [Node -> Index]
  BY <1>6, ZenonT(60) DEF AppendReplySuccess, AdvanceCommitIndex, TypeOK, C
<1> QED
  BY <1>2, <1>7, ZenonT(60) DEF AppendReplySuccess, AwaitsAppend, TypeOK, roleVars,
                           applyVars, rvVars, histVars

\* AppendReplyFailure keeps the types.
LEMMA TypeAppendReplyFailure ==
    ASSUME TypeOK, NEW n \in Node, NEW r \in aeResps, AppendReplyFailure(n, r)
    PROVE  TypeOK'
<1> USE NodeAssumption, PeersAssumption, BoundAssumption
<1>1. r \in AEResp
  BY DEF TypeOK
<1>a. r.from \in Node /\ r.next - 1 \in Nat
  BY <1>1 DEF AppendReplyFailure, AEResp
<1>2. nextIndex' \in [Node -> [Node -> Nat]]
  BY <1>a, SMTT(60) DEF AppendReplyFailure, TypeOK
<1> QED
  BY <1>2, ZenonT(60) DEF AppendReplyFailure, AwaitsAppend, TypeOK, roleVars, logVars,
                     applyVars, rvVars, histVars

=============================================================================
