------------------------- MODULE RaftElectionSteps --------------------------
(***************************************************************************)
(* Every step of module Raft preserves the election invariant.  What a step*)
(* does to it is a vote cast, a lead won or a fall back to follower.       *)
(***************************************************************************)
EXTENDS Raft, TLAPS

\* The steps that replicate, commit and apply leave elections alone, and so
\* does a vote denied.
LEMMA ElectionFrame ==
    ASSUME ElectionInv, UNCHANGED <<roleVars, histVars>>,
           \A r \in rvResps' : r.granted => r \in rvResps
    PROVE  ElectionInv'
<1>1. UNCHANGED <<state, currentTerm, votedFor, votes, cast, elected>>
  BY DEF roleVars, histVars
<1>2. CastVotesHeld' /\ OneVotePerTerm' /\ GrantsAreCast' /\ CountedAreCast'
  BY <1>1 DEF ElectionInv, CastVotesHeld, OneVotePerTerm, GrantsAreCast, CountedAreCast
<1>3. ElectedByMajority'
  BY <1>1 DEF ElectionInv, ElectedByMajority, IsMajority
<1> QED
  BY <1>2, <1>3 DEF ElectionInv

\* A node that falls back to follower, in its term with its vote or in a newer
\* term with none, disturbs no vote: stepDown, HandleAppendEntries, recovery.
FallsBack(n, t) ==
    /\ state' = [state EXCEPT ![n] = "Follower"]
    /\ currentTerm' = [currentTerm EXCEPT ![n] = t]
    /\ votedFor' = [votedFor EXCEPT ![n] = IF t > currentTerm[n] THEN NoVote ELSE @]
    /\ \A p \in Node \ {n} : votes'[p] = votes[p]

LEMMA ElectionFallBack ==
    ASSUME TypeOK, ElectionInv, NEW n \in Node, NEW t \in Nat, t >= currentTerm[n],
           FallsBack(n, t),
           \A r \in rvResps' : r.granted => r \in rvResps,
           UNCHANGED <<cast, elected>>
    PROVE  ElectionInv'
<1>1. CastVotesHeld'
  <2> SUFFICES ASSUME NEW v \in cast
               PROVE  /\ v.term <= currentTerm'[v.voter]
                      /\ v.term = currentTerm'[v.voter] => votedFor'[v.voter] = v.candidate
    BY DEF CastVotesHeld
  <2>a. v \in Vote /\ currentTerm \in [Node -> Nat]
    BY DEF TypeOK
  <2>1. v.voter \in Node /\ v.term \in Nat /\ currentTerm[v.voter] \in Nat
    BY <2>a DEF Vote
  <2>2. /\ v.term <= currentTerm[v.voter]
        /\ v.term = currentTerm[v.voter] => votedFor[v.voter] = v.candidate
    BY DEF ElectionInv, CastVotesHeld
  <2> QED
    BY <2>1, <2>2, SMTT(60) DEF TypeOK, FallsBack
<1>2. OneVotePerTerm' /\ GrantsAreCast'
  BY SMTT(60) DEF ElectionInv, OneVotePerTerm, GrantsAreCast
<1>3. CountedAreCast'
  BY SMTT(60) DEF ElectionInv, CountedAreCast, TypeOK, FallsBack
<1>4. ElectedByMajority'
  BY DEF ElectionInv, ElectedByMajority, IsMajority
<1> QED
  BY <1>1, <1>2, <1>3, <1>4, SMTT(60) DEF ElectionInv

\* Becoming leader with a majority of votes cast in the current term.
Wins(n, Q) ==
    /\ IsMajority(n, Q)
    /\ \A p \in Q : [voter |-> p, term |-> currentTerm[n], candidate |-> n] \in cast
    /\ state' = [state EXCEPT ![n] = "Leader"]
    /\ elected' = elected \cup {[node |-> n, term |-> currentTerm[n]]}
    /\ \A p \in Node \ {n} : votes'[p] = votes[p]

LEMMA ElectionWin ==
    ASSUME TypeOK, ElectionInv, NEW n \in Node, NEW Q \in SUBSET Node,
           Wins(n, Q), UNCHANGED <<currentTerm, votedFor, rvResps, cast>>
    PROVE  ElectionInv'
<1>1. CastVotesHeld' /\ OneVotePerTerm' /\ GrantsAreCast'
  BY SMTT(60) DEF ElectionInv, CastVotesHeld, OneVotePerTerm, GrantsAreCast
<1>2. CountedAreCast'
  BY SMTT(60) DEF ElectionInv, CountedAreCast, TypeOK, Wins
<1>3. ElectedByMajority'
  BY DEF ElectionInv, ElectedByMajority, IsMajority, Wins
<1> QED
  BY <1>1, <1>2, <1>3, SMTT(60) DEF ElectionInv

\* A new vote of n, which has none of that term or holds the same one.
CastsVote(n, t, c) ==
    /\ t >= currentTerm[n]
    /\ t = currentTerm[n] => votedFor[n] \in {NoVote, c}
    /\ currentTerm' = [currentTerm EXCEPT ![n] = t]
    /\ votedFor' = [votedFor EXCEPT ![n] = c]
    /\ cast' = cast \cup {[voter |-> n, term |-> t, candidate |-> c]}

LEMMA ElectionCast ==
    ASSUME TypeOK, ElectionInv, NEW n \in Node, NEW t \in Nat, NEW c \in Node,
           CastsVote(n, t, c)
    PROVE  CastVotesHeld' /\ OneVotePerTerm'
<1> DEFINE v == [voter |-> n, term |-> t, candidate |-> c]
<1>1. /\ v.voter = n /\ v.term = t /\ v.candidate = c
      /\ t >= currentTerm[n]
      /\ t = currentTerm[n] => votedFor[n] \in {NoVote, c}
      /\ currentTerm' = [currentTerm EXCEPT ![n] = t]
      /\ votedFor' = [votedFor EXCEPT ![n] = c]
      /\ cast' = cast \cup {v}
  BY DEF CastsVote
<1> HIDE DEF v
<1>2. currentTerm \in [Node -> Nat] /\ votedFor \in [Node -> Node \cup {NoVote}]
  BY SMTT(60) DEF TypeOK
<1>3. \A w \in cast : /\ w.voter \in Node
                      /\ w.term \in Nat
                      /\ w.candidate \in Node
                      /\ w.term <= currentTerm[w.voter]
                      /\ w.term = currentTerm[w.voter] => votedFor[w.voter] = w.candidate
  <2> SUFFICES ASSUME NEW w \in cast
               PROVE  /\ w.voter \in Node
                      /\ w.term \in Nat
                      /\ w.candidate \in Node
                      /\ w.term <= currentTerm[w.voter]
                      /\ w.term = currentTerm[w.voter] => votedFor[w.voter] = w.candidate
    OBVIOUS
  <2>1. w \in Vote
    BY DEF TypeOK
  <2>2. w.voter \in Node /\ w.term \in Nat /\ w.candidate \in Node
    BY <2>1, SMTT(60) DEF Vote
  <2> QED
    BY <2>2, SMTT(60) DEF ElectionInv, CastVotesHeld
<1>4. \A w \in cast : w.voter = n /\ w.term = t => w.candidate = c
  BY <1>1, <1>2, <1>3, NodeAssumption, SMTT(60)
<1>5. CastVotesHeld'
  BY <1>1, <1>2, <1>3, <1>4, SMTT(60) DEF CastVotesHeld
<1>6. OneVotePerTerm'
  BY <1>1, <1>4, SMTT(60) DEF OneVotePerTerm, ElectionInv
<1> QED
  BY <1>5, <1>6, SMTT(60)

LEMMA RoleTypes ==
    ASSUME TypeOK, ElectionInv
    PROVE  /\ state \in [Node -> Roles]
           /\ currentTerm \in [Node -> Nat]
           /\ votedFor \in [Node -> Node \cup {NoVote}]
           /\ votes \in [Node -> SUBSET Node]
  BY NodeAssumption DEF TypeOK

\* StartElection preserves the election invariant.
LEMMA ElectionStartElection ==
    ASSUME TypeOK, ElectionInv, NEW n \in Node, StartElection(n)
    PROVE  ElectionInv'
<1> USE NodeAssumption
<1>1. /\ currentTerm[n] + 1 \in Nat
      /\ CastsVote(n, currentTerm[n] + 1, n)
  BY RoleTypes, SMTT(60) DEF StartElection, CastsVote
<1>2. cast' = cast \cup {[voter |-> n, term |-> currentTerm[n] + 1, candidate |-> n]}
  BY DEF StartElection
<1>3. CastVotesHeld' /\ OneVotePerTerm'
  BY <1>1, ElectionCast, SMTT(60)
<1>4. GrantsAreCast'
  BY <1>2, SMTT(60) DEF StartElection, ElectionInv, GrantsAreCast
<1>5. CountedAreCast'
  <2> SUFFICES ASSUME NEW p \in Node, state'[p] = "Candidate", NEW q \in votes'[p]
               PROVE  [voter |-> q, term |-> currentTerm'[p], candidate |-> p] \in cast'
    BY SMTT(60) DEF CountedAreCast
  <2>1. CASE p = n
    BY RoleTypes, <1>2, <2>1, SMTT(60) DEF StartElection
  <2>2. CASE p # n
    BY RoleTypes, <1>2, <2>2, SMTT(60) DEF StartElection, ElectionInv, CountedAreCast
  <2> QED
    BY <2>1, <2>2, SMTT(60)
<1>6. ElectedByMajority'
  BY <1>2, SMTT(60) DEF StartElection, ElectionInv, ElectedByMajority, IsMajority
<1> QED
  BY <1>3, <1>4, <1>5, <1>6, SMTT(60) DEF ElectionInv

\* HandleRequestVote preserves the election invariant.
LEMMA ElectionHandleRequestVote ==
    ASSUME TypeOK, ElectionInv, NEW n \in Node, NEW m \in rvReqs,
           HandleRequestVote(n, m)
    PROVE  ElectionInv'
<1> USE NodeAssumption
<1>1. m.term \in Nat /\ m.from \in Node /\ currentTerm[n] \in Nat
  <2>1. m \in RVReq
    BY SMTT(60) DEF TypeOK
  <2> QED
    BY RoleTypes, <2>1, SMTT(60) DEF RVReq
<1> DEFINE rep == [from |-> n, to |-> m.from, reqTerm |-> m.term,
                   term |-> IF m.term > currentTerm[n] THEN m.term ELSE currentTerm[n],
                   granted |-> Grants(n, m)]
<1>2. rvResps' = rvResps \cup {rep}
  BY SMTT(60) DEF HandleRequestVote
<1>3. UNCHANGED <<votes, elected>>
  BY SMTT(60) DEF HandleRequestVote
<1>4. CASE Grants(n, m)
  <2>2. cast' = cast \cup {[voter |-> n, term |-> m.term, candidate |-> m.from]}
    BY <1>4, SMTT(60) DEF HandleRequestVote
  <2>3. m.term >= currentTerm[n]
    BY <1>4, SMTT(60) DEF Grants
  <2>4. m.term = currentTerm[n] => votedFor[n] \in {NoVote, m.from}
    BY <1>1, <1>4, SMTT(60) DEF Grants, VoteFor
  <2>a. currentTerm' = [currentTerm EXCEPT ![n] = IF m.term > @ THEN m.term ELSE @]
    BY SMTT(60) DEF HandleRequestVote
  <2>5. currentTerm' = [currentTerm EXCEPT ![n] = m.term]
    <3>1. CASE m.term > currentTerm[n]
      BY <2>a, <3>1, SMTT(60)
    <3>2. CASE m.term = currentTerm[n]
      BY RoleTypes, <1>1, <2>a, <3>2, SMTT(60)
    <3> QED
      BY <1>1, <2>3, <3>1, <3>2, SMTT(60)
  <2>6. votedFor' = [votedFor EXCEPT ![n] = m.from]
    BY <1>4, SMTT(60) DEF HandleRequestVote
  <2>b. CastsVote(n, m.term, m.from)
    BY <2>2, <2>3, <2>4, <2>5, <2>6, SMTT(60) DEF CastsVote
  <2>7. CastVotesHeld' /\ OneVotePerTerm'
    BY <1>1, <2>b, ElectionCast, SMTT(60)
  <2>8. GrantsAreCast'
    BY <1>2, <2>2, SMTT(60) DEF ElectionInv, GrantsAreCast
  <2>9. CountedAreCast'
    <3> SUFFICES ASSUME NEW p \in Node, state'[p] = "Candidate", NEW q \in votes'[p]
                 PROVE  [voter |-> q, term |-> currentTerm'[p], candidate |-> p] \in cast'
      BY SMTT(60) DEF CountedAreCast
    <3>1. state[p] = "Candidate" /\ currentTerm'[p] = currentTerm[p]
      BY RoleTypes, <1>1, <2>3, <2>5, SMTT(60) DEF HandleRequestVote
    <3> QED
      BY <1>3, <2>2, <3>1, SMTT(60) DEF ElectionInv, CountedAreCast
  <2>10. ElectedByMajority'
    BY <1>3, <2>2, SMTT(60) DEF ElectionInv, ElectedByMajority, IsMajority
  <2> QED
    BY <2>7, <2>8, <2>9, <2>10, SMTT(60) DEF ElectionInv
<1>5. CASE ~Grants(n, m)
  <2>1. \A r \in rvResps' : r.granted => r \in rvResps
    BY <1>2, <1>5, SMTT(60)
  <2>2. cast' = cast
    BY <1>5, SMTT(60) DEF HandleRequestVote
  <2>3. CASE m.term > currentTerm[n]
    <3>1. /\ state' = [state EXCEPT ![n] = "Follower"]
          /\ currentTerm' = [currentTerm EXCEPT ![n] = m.term]
          /\ votedFor' = [votedFor EXCEPT ![n] =
                            IF m.term > currentTerm[n] THEN NoVote ELSE @]
      BY RoleTypes, <1>5, <2>3, SMTT(60) DEF HandleRequestVote, VoteFor
    <3>2. FallsBack(n, m.term) /\ m.term >= currentTerm[n]
      BY <1>1, <1>3, <2>3, <3>1, SMTT(60) DEF FallsBack
    <3> QED
      BY <1>1, <1>3, <2>1, <2>2, <3>2, ElectionFallBack, SMTT(60)
  <2>4. CASE ~(m.term > currentTerm[n])
    <3>1. UNCHANGED <<state, currentTerm, votedFor>>
      BY RoleTypes, <1>5, <2>4, SMTT(60) DEF HandleRequestVote, VoteFor
    <3> QED
      BY <1>3, <2>1, <2>2, <3>1, ElectionFrame, SMTT(60) DEF roleVars, histVars
  <2> QED
    BY <2>3, <2>4, SMTT(60)
<1> QED
  BY <1>4, <1>5, SMTT(60)

\* VoteReplyNewerTerm preserves the election invariant.
LEMMA ElectionVoteReplyNewerTerm ==
    ASSUME TypeOK, ElectionInv, NEW n \in Node, NEW r \in rvResps,
           VoteReplyNewerTerm(n, r)
    PROVE  ElectionInv'
<1> USE NodeAssumption
<1>1. r.term \in Nat /\ r.term > currentTerm[n]
  BY SMTT(60) DEF VoteReplyNewerTerm, TypeOK, RVResp
<1>2. UNCHANGED <<votes, rvResps, cast, elected>>
  BY SMTT(60) DEF VoteReplyNewerTerm, rvVars, histVars
<1>3. FallsBack(n, r.term) /\ r.term >= currentTerm[n]
  BY RoleTypes, <1>1, <1>2, SMTT(60) DEF VoteReplyNewerTerm, StepDown, FallsBack
<1> QED
  BY <1>1, <1>2, <1>3, ElectionFallBack, SMTT(60)

\* CountVote preserves the election invariant.
LEMMA ElectionCountVote ==
    ASSUME TypeOK, ElectionInv, NEW n \in Node, NEW r \in rvResps, CountVote(n, r)
    PROVE  ElectionInv'
<1> USE NodeAssumption
<1>1. r \in RVResp
  BY SMTT(60) DEF TypeOK
<1>2. /\ r.to = n /\ r.granted /\ r.reqTerm = currentTerm[n]
      /\ state[n] = "Candidate"
      /\ votes' = [votes EXCEPT ![n] = @ \cup {r.from}]
      /\ UNCHANGED <<currentTerm, votedFor, rvResps, cast>>
  BY SMTT(60) DEF CountVote, AwaitsVote, rvVars
<1>3. [voter |-> r.from, term |-> currentTerm[n], candidate |-> n] \in cast
  BY <1>2, SMTT(60) DEF ElectionInv, GrantsAreCast
<1>4. \A p \in votes'[n] : [voter |-> p, term |-> currentTerm[n], candidate |-> n] \in cast
  BY RoleTypes, <1>2, <1>3, SMTT(60) DEF ElectionInv, CountedAreCast
<1>5. votes'[n] \in SUBSET Node
  BY RoleTypes, <1>1, <1>2, SMTT(60) DEF RVResp
<1>6. \A p \in Node \ {n} : votes'[p] = votes[p]
  BY RoleTypes, <1>2, SMTT(60)
<1>7. CASE IsMajority(n, votes'[n])
  <2>1. BecomeLeader(n)
    BY <1>7, SMTT(60) DEF CountVote
  <2>2. Wins(n, votes'[n])
    BY <1>4, <1>6, <1>7, <2>1, SMTT(60) DEF BecomeLeader, Wins
  <2> QED
    BY <1>2, <1>5, <2>2, ElectionWin, SMTT(60)
<1>8. CASE ~IsMajority(n, votes'[n])
  <2>1. UNCHANGED <<state, elected>>
    BY <1>8, SMTT(60) DEF CountVote
  <2>2. CountedAreCast'
    <3> SUFFICES ASSUME NEW p \in Node, state[p] = "Candidate", NEW q \in votes'[p]
                 PROVE  [voter |-> q, term |-> currentTerm[p], candidate |-> p] \in cast
      BY <1>2, <2>1, SMTT(60) DEF CountedAreCast
    <3>1. CASE p = n
      BY <1>4, <3>1, SMTT(60)
    <3>2. CASE p # n
      BY <1>6, <3>2, SMTT(60) DEF ElectionInv, CountedAreCast
    <3> QED
      BY <3>1, <3>2, SMTT(60)
  <2>3. CastVotesHeld' /\ OneVotePerTerm' /\ GrantsAreCast'
    BY <1>2, SMTT(60) DEF ElectionInv, CastVotesHeld, OneVotePerTerm, GrantsAreCast
  <2>4. ElectedByMajority'
    BY <1>2, <2>1, SMTT(60) DEF ElectionInv, ElectedByMajority, IsMajority
  <2> QED
    BY <2>2, <2>3, <2>4, SMTT(60) DEF ElectionInv
<1> QED
  BY <1>7, <1>8, SMTT(60)

\* FinishElection preserves the election invariant.
LEMMA ElectionFinishElection ==
    ASSUME TypeOK, ElectionInv, NEW n \in Node, FinishElection(n)
    PROVE  ElectionInv'
<1> USE NodeAssumption
<1>1. /\ state[n] = "Candidate" /\ IsMajority(n, votes[n])
      /\ state' = [state EXCEPT ![n] = "Leader"]
      /\ elected' = elected \cup {[node |-> n, term |-> currentTerm[n]]}
      /\ UNCHANGED <<currentTerm, votedFor, votes, rvResps, cast>>
  BY ZenonT(60) DEF FinishElection, BecomeLeader, rvVars
<1>2. \A p \in votes[n] : [voter |-> p, term |-> currentTerm[n], candidate |-> n] \in cast
  BY <1>1, ZenonT(60) DEF ElectionInv, CountedAreCast
<1>3. votes[n] \in SUBSET Node /\ Wins(n, votes[n])
  BY RoleTypes, <1>1, <1>2, SMTT(60) DEF Wins
<1> QED
  BY <1>1, <1>3, ElectionWin, SMTT(60)

\* AppendReplyNewerTerm preserves the election invariant.
LEMMA ElectionAppendReplyNewerTerm ==
    ASSUME TypeOK, ElectionInv, NEW n \in Node, NEW r \in aeResps,
           AppendReplyNewerTerm(n, r)
    PROVE  ElectionInv'
<1> USE NodeAssumption
<1>1. r.term \in Nat /\ r.term > currentTerm[n]
  BY SMTT(60) DEF AppendReplyNewerTerm, TypeOK, AEResp
<1>2. UNCHANGED <<votes, rvResps, cast, elected>>
  BY SMTT(60) DEF AppendReplyNewerTerm, rvVars, histVars
<1>3. FallsBack(n, r.term) /\ r.term >= currentTerm[n]
  BY RoleTypes, <1>1, <1>2, SMTT(60) DEF AppendReplyNewerTerm, StepDown, FallsBack
<1> QED
  BY <1>1, <1>2, <1>3, ElectionFallBack, SMTT(60)

LEMMA ElectionFollow ==
    ASSUME TypeOK, ElectionInv, NEW n \in Node, NEW m \in aeReqs, FollowLeader(n, m),
           UNCHANGED <<votes, rvResps, cast, elected>>
    PROVE  ElectionInv'
<1> USE NodeAssumption
<1>1. m.term \in Nat /\ m.term >= currentTerm[n]
  BY SMTT(60) DEF FollowLeader, TypeOK, AEReq
<1>2. votedFor' = [votedFor EXCEPT ![n] = IF m.term > currentTerm[n] THEN NoVote ELSE @]
  BY RoleTypes, SMTT(60) DEF FollowLeader, VoteFor
<1>a. /\ state' = [state EXCEPT ![n] = "Follower"]
      /\ currentTerm' = [currentTerm EXCEPT ![n] = m.term]
  BY SMTT(60) DEF FollowLeader
<1>3. FallsBack(n, m.term)
  BY <1>2, <1>a, SMTT(60) DEF FallsBack
<1> QED
  BY <1>1, <1>3, ElectionFallBack, SMTT(60)

LEMMA RecoverRole ==
    ASSUME TypeOK, ElectionInv, NEW n \in Node, NEW l, NEW c, Recover(n, l, c)
    PROVE  /\ state' = [state EXCEPT ![n] = "Follower"]
           /\ \A p \in Node \ {n} : votes'[p] = votes[p]
           /\ UNCHANGED <<rvResps, cast, elected>>
  BY NodeAssumption, RoleTypes, SMTT(60) DEF Recover, rvVars, histVars

\* Restart preserves the election invariant.
LEMMA ElectionRestart ==
    ASSUME TypeOK, ElectionInv, NEW n \in Node, Restart(n)
    PROVE  ElectionInv'
<1> USE NodeAssumption
<1>1. /\ currentTerm' = [currentTerm EXCEPT ![n] = currentTerm[n]]
      /\ votedFor' = [votedFor EXCEPT ![n] =
                        IF currentTerm[n] > currentTerm[n] THEN NoVote ELSE @]
  BY RoleTypes, SMTT(60) DEF Restart
<1>2. currentTerm[n] \in Nat /\ currentTerm[n] >= currentTerm[n]
  BY RoleTypes, SMTT(60)
<1>3. Recover(n, log[n], commitIndex[n])
  BY SMTT(60) DEF Restart
<1>4. FallsBack(n, currentTerm[n]) /\ UNCHANGED <<rvResps, cast, elected>>
  BY RecoverRole, <1>1, <1>3, SMTT(60) DEF FallsBack
<1> QED
  BY <1>2, <1>4, ElectionFallBack, SMTT(60)

\* RestartInStepDown preserves the election invariant.
LEMMA ElectionRestartInStepDown ==
    ASSUME TypeOK, ElectionInv, NEW n \in Node, NEW m \in rvReqs \cup aeReqs,
           RestartInStepDown(n, m)
    PROVE  ElectionInv'
<1> USE NodeAssumption
<1>1. m.term \in Nat
  BY SMTT(60) DEF TypeOK, RVReq, AEReq
<1>2. /\ currentTerm' = [currentTerm EXCEPT ![n] = m.term]
      /\ votedFor' = [votedFor EXCEPT ![n] = IF m.term > currentTerm[n] THEN NoVote ELSE @]
      /\ m.term >= currentTerm[n]
      /\ Recover(n, log[n], commitIndex[n])
  BY RoleTypes, <1>1, SMTT(60) DEF RestartInStepDown
<1>3. FallsBack(n, m.term) /\ UNCHANGED <<rvResps, cast, elected>>
  BY RecoverRole, <1>2, SMTT(60) DEF FallsBack
<1> QED
  BY <1>1, <1>2, <1>3, ElectionFallBack, SMTT(60)

\* RestartInAppend preserves the election invariant.
LEMMA ElectionRestartInAppend ==
    ASSUME TypeOK, ElectionInv, NEW n \in Node, NEW m \in aeReqs,
           NEW j \in 0 .. Len(m.entries), RestartInAppend(n, m, j)
    PROVE  ElectionInv'
<1> USE NodeAssumption
<1>1. m.term \in Nat
  BY SMTT(60) DEF TypeOK, AEReq
<1>2. /\ currentTerm' = [currentTerm EXCEPT ![n] = m.term]
      /\ votedFor' = [votedFor EXCEPT ![n] = IF m.term > currentTerm[n] THEN NoVote ELSE @]
      /\ m.term >= currentTerm[n]
      /\ Recover(n, Merge(log[n], m, j), commitIndex[n])
  BY RoleTypes, <1>1, SMTT(60) DEF RestartInAppend, VoteFor
<1>3. FallsBack(n, m.term) /\ UNCHANGED <<rvResps, cast, elected>>
  BY RecoverRole, <1>2, ZenonT(60) DEF FallsBack
<1> QED
  BY <1>1, <1>2, <1>3, ElectionFallBack, ZenonT(60)

\* Every step preserves the election invariant: one step per action.
LEMMA ElectionStep == TypeOK /\ ElectionInv /\ [Next]_vars => ElectionInv'
<1> SUFFICES ASSUME TypeOK, ElectionInv, [Next]_vars PROVE ElectionInv'
  OBVIOUS
<1> USE NodeAssumption
<1>st. CASE UNCHANGED vars
  BY <1>st, ElectionFrame, SMTT(60) DEF vars, rvVars
<1>1. ASSUME NEW n \in Node, NEW c \in Command, ClientRequest(n, c) PROVE ElectionInv'
  BY <1>1, ElectionFrame, SMTT(60) DEF ClientRequest, rvVars
<1>2. ASSUME NEW n \in Node, NEW p \in Peers[n] \cap Reach[n], SendHeartbeats(n, p)
      PROVE  ElectionInv'
  BY <1>2, ElectionFrame, SMTT(60) DEF SendHeartbeats, rvVars
<1>3. ASSUME NEW n \in Node, NEW d \in rounds, ReplicateToPeer(n, d) PROVE ElectionInv'
  BY <1>3, ElectionFrame, SMTT(60) DEF ReplicateToPeer, rvVars
<1>4. ASSUME NEW n \in Node, NEW d \in rounds, AbandonRound(n, d) PROVE ElectionInv'
  BY <1>4, ElectionFrame, SMTT(60) DEF AbandonRound, rvVars
<1>5. ASSUME NEW m \in aeReqs, DropRequest(m) PROVE ElectionInv'
  BY <1>5, ElectionFrame, SMTT(60) DEF DropRequest, rvVars
<1>6. ASSUME NEW r \in aeResps, DropReply(r) PROVE ElectionInv'
  BY <1>6, ElectionFrame, SMTT(60) DEF DropReply, rvVars
<1>7. ASSUME NEW n \in Node, NEW r \in aeResps, AppendReplySuccess(n, r)
       PROVE  ElectionInv'
  BY <1>7, ElectionFrame, SMTT(60) DEF AppendReplySuccess, rvVars
<1>8. ASSUME NEW n \in Node, NEW r \in aeResps, AppendReplyFailure(n, r)
       PROVE  ElectionInv'
  BY <1>8, ElectionFrame, SMTT(60) DEF AppendReplyFailure, rvVars
<1>9. ASSUME NEW n \in Node, NEW m \in aeReqs, RejectStaleLeader(n, m)
       PROVE  ElectionInv'
  BY <1>9, ElectionFrame, SMTT(60) DEF RejectStaleLeader, rvVars
<1>10. ASSUME NEW n \in Node, NEW m \in aeReqs, RejectGap(n, m) PROVE ElectionInv'
  BY <1>10, ElectionFollow, SMTT(60) DEF RejectGap, rvVars, histVars
<1>11. ASSUME NEW n \in Node, NEW m \in aeReqs, AcceptEntries(n, m) PROVE ElectionInv'
  BY <1>11, ElectionFollow, SMTT(60) DEF AcceptEntries, rvVars, histVars
<1>12. ASSUME NEW n \in Node, ApplyCommitted(n) PROVE ElectionInv'
  BY <1>12, ElectionFrame, SMTT(60) DEF ApplyCommitted, rvVars
<1>13. ASSUME NEW n \in Node, NextElection(n) PROVE ElectionInv'
  BY <1>13, ElectionStartElection, ElectionHandleRequestVote, ElectionVoteReplyNewerTerm,
     ElectionCountVote, ElectionFinishElection, ZenonT(60) DEF NextElection
<1>14. ASSUME NEW n \in Node, NextReplication(n) PROVE ElectionInv'
  BY <1>14, <1>2, <1>3, <1>4, <1>7, <1>8, <1>9, <1>10, <1>11, <1>12,
     ElectionAppendReplyNewerTerm, ZenonT(60) DEF NextReplication
<1>15. ASSUME NEW n \in Node, NextRestart(n) PROVE ElectionInv'
  BY <1>15, ElectionRestart, ElectionRestartInStepDown, ElectionRestartInAppend, SMTT(60)
     DEF NextRestart
<1> QED
  BY <1>st, <1>1, <1>5, <1>6, <1>13, <1>14, <1>15, BoundAssumption, SMTT(60)
     DEF Next, NextClient, NextDrop

=============================================================================
