--------------------------- MODULE RaftVoteSteps ----------------------------
(***************************************************************************)
(* Terms and votes of module Raft across steps, restarts included.         *)
(***************************************************************************)
EXTENDS Raft, TLAPS

-----------------------------------------------------------------------------
(* Terms and votes across steps *)

\* n is in term t with vote v, and keeps the vote it had if t is not new.
Moves(n, t, v) ==
    /\ t >= currentTerm[n]
    /\ t = currentTerm[n] /\ votedFor[n] # NoVote => v = votedFor[n]
    /\ currentTerm' = [currentTerm EXCEPT ![n] = t]
    /\ votedFor' = [votedFor EXCEPT ![n] = v]

\* Such a move leaves every node's term and vote stable.
LEMMA MoveIsStable ==
    ASSUME TypeOK, NEW n \in Node, NEW t \in Nat, NEW v, Moves(n, t, v)
    PROVE  VoteStep
<1>1. currentTerm \in [Node -> Nat] /\ DOMAIN votedFor = Node
  BY SMTT(60) DEF TypeOK
<1> QED
  BY <1>1 DEF Moves, VoteStep

\* Every step keeps terms and votes: the recovered term and vote are the ones
\* of the last STATE record, whichever handler was cut short.
LEMMA VoteStepHolds == TypeOK /\ [Next]_vars => VoteStep
<1> SUFFICES ASSUME TypeOK, [Next]_vars PROVE VoteStep
  OBVIOUS
<1>ty. currentTerm \in [Node -> Nat] /\ DOMAIN votedFor = Node
  BY DEF TypeOK
<1>same. ASSUME UNCHANGED <<currentTerm, votedFor>> PROVE VoteStep
  BY <1>same, <1>ty DEF VoteStep
<1>newer. ASSUME NEW n \in Node, NEW t \in Nat, t > currentTerm[n], StepDown(n, t)
          PROVE  VoteStep
  <2>1. Moves(n, t, NoVote)
    BY <1>newer, <1>ty DEF StepDown, Moves
  <2> QED
    BY <2>1, MoveIsStable
<1>1. ASSUME NEW n \in Node, StartElection(n) PROVE VoteStep
  <2>1. currentTerm[n] + 1 \in Nat /\ Moves(n, currentTerm[n] + 1, n)
    BY <1>1, <1>ty DEF StartElection, Moves
  <2> QED
    BY <2>1, MoveIsStable, SMTT(60)
<1>2. ASSUME NEW n \in Node, NEW m \in rvReqs, HandleRequestVote(n, m) PROVE VoteStep
  <2> DEFINE t == IF m.term > currentTerm[n] THEN m.term ELSE currentTerm[n]
             v == IF Grants(n, m) THEN m.from ELSE VoteFor(n, m)
  <2>1. m.term \in Nat /\ currentTerm[n] \in Nat
    BY <1>ty, SMTT(60) DEF TypeOK, RVReq
  <2>2. currentTerm' = [currentTerm EXCEPT ![n] = t] /\ votedFor' = [votedFor EXCEPT ![n] = v]
    BY <1>2, SMTT(60) DEF HandleRequestVote
  <2>3. t \in Nat /\ t >= currentTerm[n]
    BY <2>1, SMTT(60)
  <2>4. t = currentTerm[n] /\ votedFor[n] # NoVote => v = votedFor[n]
    BY <2>1, SMTT(60) DEF Grants, VoteFor
  <2> HIDE DEF t, v
  <2>5. Moves(n, t, v)
    BY <2>2, <2>3, <2>4, SMTT(60) DEF Moves
  <2> QED
    BY <2>3, <2>5, MoveIsStable, SMTT(60)
<1>3. ASSUME NEW n \in Node, NEW r \in rvResps, VoteReplyNewerTerm(n, r) PROVE VoteStep
  <2>1. r.term \in Nat
    BY DEF TypeOK, RVResp
  <2> QED
    BY <1>3, <1>newer, <2>1, SMTT(60) DEF VoteReplyNewerTerm
<1>4. ASSUME NEW n \in Node, NEW r \in aeResps, AppendReplyNewerTerm(n, r) PROVE VoteStep
  <2>1. r.term \in Nat
    BY DEF TypeOK, AEResp
  <2> QED
    BY <1>4, <1>newer, <2>1, SMTT(60) DEF AppendReplyNewerTerm
<1>5. ASSUME NEW n \in Node, NEW m \in aeReqs, FollowLeader(n, m) PROVE VoteStep
  <2>1. m.term \in Nat
    BY DEF TypeOK, AEReq
  <2>2. Moves(n, m.term, VoteFor(n, m))
    BY <1>5, <1>ty, <2>1, SMTT(60) DEF FollowLeader, Moves, VoteFor
  <2> QED
    BY <2>1, <2>2, MoveIsStable, SMTT(60)
<1>a. \A n \in Node, m \in aeReqs : RejectGap(n, m) => FollowLeader(n, m)
  BY DEF RejectGap
<1>b. \A n \in Node, m \in aeReqs : AcceptEntries(n, m) => FollowLeader(n, m)
  BY DEF AcceptEntries
<1>6. ASSUME NEW n \in Node, NEW m \in rvReqs \cup aeReqs, RestartInStepDown(n, m)
      PROVE  VoteStep
  <2>1. m.term \in Nat
    BY DEF TypeOK, RVReq, AEReq
  <2>2. Moves(n, m.term, NoVote)
    BY <1>6, <1>ty, <2>1, SMTT(60) DEF RestartInStepDown, Moves
  <2> QED
    BY <2>1, <2>2, MoveIsStable, SMTT(60)
<1>7. ASSUME NEW n \in Node, NEW m \in aeReqs, NEW j \in 0 .. Len(m.entries),
             RestartInAppend(n, m, j)
      PROVE  VoteStep
  <2>1. m.term \in Nat
    BY SMTT(60) DEF TypeOK, AEReq
  <2>2. Moves(n, m.term, VoteFor(n, m))
    BY <1>7, <1>ty, <2>1, SMTT(60) DEF RestartInAppend, Moves, VoteFor
  <2> QED
    BY <2>1, <2>2, MoveIsStable, SMTT(60)
<1>8. ASSUME NEW n \in Node,
             \/ \E r \in rvResps : CountVote(n, r)
             \/ FinishElection(n)
             \/ \E c \in Command : ClientRequest(n, c)
             \/ \E p \in Peers[n] \cap Reach[n] : SendHeartbeats(n, p)
             \/ \E d \in rounds : ReplicateToPeer(n, d)
             \/ \E d \in rounds : AbandonRound(n, d)
             \/ \E m \in aeReqs : RejectStaleLeader(n, m)
             \/ \E r \in aeResps : AppendReplySuccess(n, r)
             \/ \E r \in aeResps : AppendReplyFailure(n, r)
             \/ ApplyCommitted(n)
             \/ Restart(n)
      PROVE  UNCHANGED <<currentTerm, votedFor>>
  <2>1. ASSUME NEW r \in rvResps, CountVote(n, r) PROVE UNCHANGED <<currentTerm, votedFor>>
    BY <2>1, SMTT(60) DEF CountVote
  <2>2. CASE FinishElection(n)
    BY <2>2, SMTT(60) DEF FinishElection
  <2>3. ASSUME NEW c \in Command, ClientRequest(n, c) PROVE UNCHANGED <<currentTerm, votedFor>>
    BY <2>3, SMTT(60) DEF ClientRequest, roleVars
  <2>4. ASSUME NEW p \in Node, SendHeartbeats(n, p) PROVE UNCHANGED <<currentTerm, votedFor>>
    BY <2>4, SMTT(60) DEF SendHeartbeats, roleVars
  <2>5. ASSUME NEW d \in rounds, ReplicateToPeer(n, d) \/ AbandonRound(n, d)
        PROVE  UNCHANGED <<currentTerm, votedFor>>
    BY <2>5, SMTT(60) DEF ReplicateToPeer, AbandonRound, roleVars
  <2>6. ASSUME NEW m \in aeReqs, RejectStaleLeader(n, m)
        PROVE  UNCHANGED <<currentTerm, votedFor>>
    BY <2>6, SMTT(60) DEF RejectStaleLeader, roleVars
  <2>7. ASSUME NEW r \in aeResps, AppendReplySuccess(n, r) \/ AppendReplyFailure(n, r)
        PROVE  UNCHANGED <<currentTerm, votedFor>>
    BY <2>7, SMTT(60) DEF AppendReplySuccess, AppendReplyFailure, roleVars
  <2>8. CASE ApplyCommitted(n)
    BY <2>8, SMTT(60) DEF ApplyCommitted, roleVars
  <2>9. CASE Restart(n)
    BY <2>9, SMTT(60) DEF Restart
  <2> QED
    BY <1>8, <2>1, <2>2, <2>3, <2>4, <2>5, <2>6, <2>7, <2>8, <2>9, PeersAssumption, SMTT(60)
<1>9. NextDrop \/ UNCHANGED vars => UNCHANGED <<currentTerm, votedFor>>
  BY DEF NextDrop, DropRequest, DropReply, vars, roleVars
<1> QED
  BY <1>same, <1>1, <1>2, <1>3, <1>4, <1>5, <1>a, <1>b, <1>6, <1>7, <1>8, <1>9,
     BoundAssumption, SMTT(60)
     DEF Next, NextElection, NextClient, NextReplication, NextRestart

=============================================================================
