--------------------------- MODULE RaftTypeProofs ---------------------------
(***************************************************************************)
(* Type correctness of module Raft, for every set of nodes, every set of   *)
(* commands and every value of the bounds.                                 *)
(***************************************************************************)
EXTENDS Raft, RaftLemmas, RaftTypeSteps, TLAPS

-----------------------------------------------------------------------------
(* Types *)

LEMMA TypeInit == Init => TypeOK
<1> SUFFICES ASSUME Init PROVE TypeOK
  OBVIOUS
<1>1. <<>> \in Seq(Entry) /\ <<>> \in Seq(Command)
  OBVIOUS
<1> QED
  BY <1>1 DEF Init, TypeOK, Roles, Index

LEMMA AppendReplyType ==
    ASSUME TypeOK, NEW n \in Node, NEW m \in aeReqs, NEW t \in Nat, NEW ok \in BOOLEAN,
           AppendReply(n, m, t, ok)
    PROVE  aeReqs' \subseteq AEReq /\ aeResps' \subseteq AEResp
<1> USE NodeAssumption, PeersAssumption, BoundAssumption
<1>1. m \in AEReq
  BY DEF TypeOK
<1>2. m.prevIndex + 1 \in Nat /\ Len(m.entries) \in Nat
  BY <1>1, LenType, SMTT(60) DEF AEReq, Index
<1> QED
  <2>1. [from |-> n, to |-> m.from, conn |-> m.conn, reqTerm |-> m.term,
         next |-> m.prevIndex + 1, count |-> Len(m.entries), term |-> t,
         success |-> ok] \in AEResp
    BY <1>1, <1>2, SMTT(60) DEF AEReq, AEResp
  <2> QED
    BY <2>1, ZenonT(60) DEF AppendReply, TypeOK

LEMMA FollowLeaderType ==
    ASSUME TypeOK, NEW n \in Node, NEW m \in aeReqs, FollowLeader(n, m)
    PROVE  /\ state' \in [Node -> Roles]
           /\ currentTerm' \in [Node -> Nat]
           /\ votedFor' \in [Node -> Node \cup {NoVote}]
<1> USE NodeAssumption, PeersAssumption, BoundAssumption
<1>1. m \in AEReq
  BY SMTT(60) DEF TypeOK
<1> QED
  BY <1>1, ZenonT(60) DEF FollowLeader, VoteFor, TypeOK, AEReq, Roles

\* RejectStaleLeader keeps the types.
LEMMA TypeRejectStaleLeader ==
    ASSUME TypeOK, NEW n \in Node, NEW m \in aeReqs, RejectStaleLeader(n, m)
    PROVE  TypeOK'
<1> USE NodeAssumption, PeersAssumption, BoundAssumption
<1>1. aeReqs' \subseteq AEReq /\ aeResps' \subseteq AEResp
  BY AppendReplyType, ZenonT(60) DEF RejectStaleLeader, TypeOK
<1> QED
  BY <1>1, ZenonT(60) DEF RejectStaleLeader, TypeOK, roleVars, logVars, applyVars,
                     leaderVars, rvVars, histVars

\* RejectGap keeps the types.
LEMMA TypeRejectGap ==
    ASSUME TypeOK, NEW n \in Node, NEW m \in aeReqs, RejectGap(n, m)
    PROVE  TypeOK'
<1> USE NodeAssumption, PeersAssumption, BoundAssumption
<1>1. m \in AEReq
  BY DEF TypeOK
<1>2. m.term \in Nat
  BY <1>1 DEF AEReq
<1>3. aeReqs' \subseteq AEReq /\ aeResps' \subseteq AEResp
  BY AppendReplyType, <1>2, ZenonT(60) DEF RejectGap
<1> DEFINE k == Min({m.prevIndex, Len(log[n])})
<1>4. k \in Int /\ k <= Len(log[n])
  <2>1. m.prevIndex \in Int
    BY <1>1 DEF AEReq, Index
  <2>2. Len(log[n]) \in Int
    <3>1. Len(log[n]) \in Nat
      BY NodeTypes, ZenonT(60)
    <3> QED
      BY <3>1
  <2>3. k = IF m.prevIndex <= Len(log[n]) THEN m.prevIndex ELSE Len(log[n])
    BY <2>1, <2>2, MinPair, SMTT(60)
  <2> QED
    BY <2>1, <2>2, <2>3, SMTT(60)
<1> HIDE DEF k
<1>5. SubSeq(log[n], 1, k) \in Seq(Entry)
  <2>1. log[n] \in Seq(Entry)
    BY NodeTypes, ZenonT(60)
  <2>2. 1 \in Nat /\ 1 >= 1
    OBVIOUS
  <2> QED
    BY <1>4, <2>1, <2>2, SubSeqType, ZenonT(60)
<1>6. log' \in [Node -> Seq(Entry)]
  BY <1>5, ZenonT(60) DEF RejectGap, TypeOK, k
<1>7. /\ state' \in [Node -> Roles]
      /\ currentTerm' \in [Node -> Nat]
      /\ votedFor' \in [Node -> Node \cup {NoVote}]
  BY FollowLeaderType DEF RejectGap
<1> QED
  BY <1>3, <1>6, <1>7, ZenonT(60) DEF RejectGap, TypeOK, applyVars, leaderVars, rvVars,
                                 histVars

\* AcceptEntries keeps the types.
LEMMA TypeAcceptEntries ==
    ASSUME TypeOK, NEW n \in Node, NEW m \in aeReqs, AcceptEntries(n, m)
    PROVE  TypeOK'
<1> USE NodeAssumption, PeersAssumption, BoundAssumption
<1>1. m \in AEReq
  BY DEF TypeOK
<1>2. m.term \in Nat /\ m.commit \in Index /\ Len(m.entries) \in 0 .. Len(m.entries)
  BY <1>1, LenType DEF AEReq
<1>3. aeReqs' \subseteq AEReq /\ aeResps' \subseteq AEResp
  BY AppendReplyType, <1>2, ZenonT(60) DEF AcceptEntries
<1>4. Merge(log[n], m, Len(m.entries)) \in Seq(Entry)
  BY <1>1, <1>2, MergeType, SMTT(60) DEF AcceptEntries, TypeOK
<1>5. log' \in [Node -> Seq(Entry)]
  BY <1>4, SMTT(60) DEF AcceptEntries, TypeOK
<1>6. Len(log'[n]) - 1 \in Index
  BY <1>5, LenType, SMTT(60) DEF Index
<1>7. Min({m.commit, Len(log'[n]) - 1}) \in Index
  BY <1>2, <1>6, MinPair, SMTT(60) DEF Index
<1>8. commitIndex' \in [Node -> Index]
  BY <1>7, SMTT(60) DEF AcceptEntries, TypeOK
<1>9. /\ state' \in [Node -> Roles]
      /\ currentTerm' \in [Node -> Nat]
      /\ votedFor' \in [Node -> Node \cup {NoVote}]
  BY FollowLeaderType, SMTT(60) DEF AcceptEntries
<1> QED
  BY <1>3, <1>5, <1>8, <1>9, ZenonT(60) DEF AcceptEntries, TypeOK, applyVars, leaderVars,
                                       rvVars, histVars

\* ApplyCommitted keeps the types.
LEMMA TypeApplyCommitted ==
    ASSUME TypeOK, NEW n \in Node, ApplyCommitted(n)
    PROVE  TypeOK'
<1> USE NodeAssumption, PeersAssumption, BoundAssumption
<1> DEFINE last == Min({commitIndex[n], Len(log[n]) - 1})
<1>1. last \in Index /\ last + 1 \in Int /\ last + 1 <= Len(log[n])
  <2>1. commitIndex[n] \in Int /\ commitIndex[n] >= -1
    BY NodeTypes DEF Index
  <2>2. Len(log[n]) - 1 \in Int /\ Len(log[n]) >= 0
    BY NodeTypes, SMTT(60)
  <2>3. last = IF commitIndex[n] <= Len(log[n]) - 1 THEN commitIndex[n] ELSE Len(log[n]) - 1
    BY <2>1, <2>2, MinPair, SMTT(60)
  <2> HIDE DEF last
  <2>4. last \in Int /\ last >= -1 /\ last + 1 <= Len(log[n])
    BY NodeTypes, <2>1, <2>2, <2>3, SMTT(60)
  <2> QED
    BY <2>4, SMTT(60) DEF Index
<1> HIDE DEF last
<1>2. lastApplied[n] + 2 \in Nat /\ lastApplied[n] + 2 >= 1
  BY NodeTypes, SMTT(60) DEF Index
<1>3. SubSeq(log[n], lastApplied[n] + 2, last + 1) \in Seq(Entry)
  BY <1>1, <1>2, SubSeqType, SMTT(60) DEF TypeOK
<1>4. Commands(SubSeq(log[n], lastApplied[n] + 2, last + 1)) \in Seq(Command)
  BY <1>3, CommandsType, ZenonT(60)
<1>5. applied[n] \o Commands(SubSeq(log[n], lastApplied[n] + 2, last + 1)) \in Seq(Command)
  BY <1>4, ConcatType, SMTT(60) DEF TypeOK
<1>6. lastApplied' \in [Node -> Index] /\ applied' \in [Node -> Seq(Command)]
  BY <1>1, <1>5, SMTT(60) DEF ApplyCommitted, TypeOK, last
<1> QED
  BY <1>6, SMTT(60) DEF ApplyCommitted, TypeOK, roleVars, logVars, leaderVars, rvVars,
                     aeVars, histVars

\* RestartInStepDown keeps the types.
LEMMA TypeRestartInStepDown ==
    ASSUME TypeOK, NEW n \in Node, NEW m \in rvReqs \cup aeReqs, RestartInStepDown(n, m)
    PROVE  TypeOK'
<1> USE NodeAssumption, PeersAssumption, BoundAssumption
<1>1. m.term \in Nat
  BY SMTT(60) DEF TypeOK, RVReq, AEReq
<1>2. /\ currentTerm' \in [Node -> Nat]
      /\ votedFor' \in [Node -> Node \cup {NoVote}]
  BY <1>1, SMTT(60) DEF RestartInStepDown, TypeOK
<1>3. log[n] \in Seq(Entry) /\ commitIndex[n] \in Index
  BY SMTT(60) DEF TypeOK
<1> QED
  BY <1>2, <1>3, RecoverType, SMTT(60) DEF RestartInStepDown

\* RestartInAppend keeps the types.
LEMMA TypeRestartInAppend ==
    ASSUME TypeOK, NEW n \in Node, NEW m \in aeReqs, NEW j \in 0 .. Len(m.entries),
           RestartInAppend(n, m, j)
    PROVE  TypeOK'
<1> USE NodeAssumption, PeersAssumption, BoundAssumption
<1>1. m \in AEReq
  BY SMTT(60) DEF TypeOK
<1>2. /\ currentTerm' \in [Node -> Nat]
      /\ votedFor' \in [Node -> Node \cup {NoVote}]
  BY <1>1, SMTT(60) DEF RestartInAppend, VoteFor, TypeOK, AEReq
<1>3. Merge(log[n], m, j) \in Seq(Entry)
  BY <1>1, MergeType, ZenonT(60) DEF RestartInAppend, TypeOK
<1>4. commitIndex[n] \in Index
  BY DEF TypeOK
<1> QED
  BY <1>2, <1>3, <1>4, RecoverType, SMTT(60) DEF RestartInAppend

\* Every step preserves the types.
LEMMA TypeStep == TypeOK /\ [Next]_vars => TypeOK'
<1> SUFFICES ASSUME TypeOK, [Next]_vars PROVE TypeOK'
  OBVIOUS
<1> USE NodeAssumption, PeersAssumption, BoundAssumption
<1>st. CASE UNCHANGED vars
  BY <1>st DEF TypeOK, vars, roleVars, logVars, applyVars, leaderVars, rvVars,
               aeVars, histVars
<1>1. ASSUME NEW n \in Node, FinishElection(n) PROVE TypeOK'
  BY <1>1, BecomeLeaderType, ZenonT(60) DEF FinishElection, TypeOK, logVars, applyVars, rvVars, aeVars
<1>2. ASSUME NEW n \in Node, NEW d \in rounds, AbandonRound(n, d) PROVE TypeOK'
  BY <1>2, SMTT(60) DEF AbandonRound, TypeOK, roleVars, logVars, applyVars, leaderVars, rvVars,
              histVars
<1>3. ASSUME NEW m \in aeReqs, DropRequest(m) PROVE TypeOK'
  BY <1>3 DEF DropRequest, TypeOK, roleVars, logVars, applyVars, leaderVars, rvVars,
               histVars
<1>4. ASSUME NEW r \in aeResps, DropReply(r) PROVE TypeOK'
  BY <1>4, SMTT(60) DEF DropReply, TypeOK, roleVars, logVars, applyVars, leaderVars, rvVars,
               histVars
<1>5. ASSUME NEW n \in Node, Restart(n) PROVE TypeOK'
  BY <1>5, RecoverType, ZenonT(60) DEF Restart, TypeOK
<1>6. ASSUME NEW n \in Node, NextElection(n) PROVE TypeOK'
  BY <1>6, <1>1, TypeStartElection, TypeHandleRequestVote, TypeVoteReplyNewerTerm,
     TypeCountVote, ZenonT(60) DEF NextElection
<1>7. ASSUME NEW n \in Node, NextReplication(n) PROVE TypeOK'
  BY <1>7, <1>2, TypeSendHeartbeats, TypeReplicateToPeer, TypeRejectStaleLeader,
     TypeRejectGap, TypeAcceptEntries, TypeAppendReplyNewerTerm, TypeAppendReplySuccess,
     TypeAppendReplyFailure, TypeApplyCommitted, ZenonT(60) DEF NextReplication
<1>8. ASSUME NEW n \in Node, NextRestart(n) PROVE TypeOK'
  BY <1>8, <1>5, TypeRestartInStepDown, TypeRestartInAppend, SMTT(60) DEF NextRestart
<1> QED
  BY <1>st, <1>6, <1>7, <1>8, <1>3, <1>4, TypeClientRequest, SMTT(60)
     DEF Next, NextClient, NextDrop

\* Every reachable state is well typed, for every cluster and every bound.
THEOREM TypeCorrect == Spec => []TypeOK
<1>1. Init => TypeOK
  BY TypeInit
<1>2. TypeOK /\ [Next]_vars => TypeOK'
  BY TypeStep
<1> QED
  BY <1>1, <1>2, PTL DEF Spec
=============================================================================
