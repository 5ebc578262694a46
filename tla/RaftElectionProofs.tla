------------------------- MODULE RaftElectionProofs -------------------------
(***************************************************************************)
(* Election safety of module Raft: the votes cast are unique per node and  *)
(* term, every election has a majority behind it, and majorities meet; and *)
(* the stability of terms and votes.                                       *)
(***************************************************************************)
EXTENDS Raft, RaftTypeProofs, RaftElectionSteps, RaftVoteSteps,
        FiniteSetTheorems, TLAPS

-----------------------------------------------------------------------------
(* Elections *)

\* Two majorities of the same cluster share a node.
LEMMA MajoritiesMeet ==
    ASSUME FullMesh, NEW n \in Node, NEW p \in Node,
           NEW Q \in SUBSET Node, NEW R \in SUBSET Node,
           IsMajority(n, Q), IsMajority(p, R)
    PROVE  Q \cap R # {}
<1>1. IsFiniteSet(Node) /\ Cardinality(Node) \in Nat
  BY NodeAssumption, FS_CardinalityType
<1>2. \A x \in Node : Cardinality(Peers[x]) = Cardinality(Node) - 1
  <2> TAKE x \in Node
  <2>1. Peers[x] = Node \ {x}
    BY DEF FullMesh
  <2>2. Cardinality(Node \ {x}) = Cardinality(Node) - 1
    BY <1>1, FS_RemoveElement
  <2> QED
    BY <2>1, <2>2
<1>3. IsFiniteSet(Q) /\ IsFiniteSet(R)
  BY <1>1, FS_Subset
<1>4. Cardinality(Q) \in Nat /\ Cardinality(R) \in Nat
  BY <1>3, FS_CardinalityType
<1>5. /\ Cardinality(Q) > Cardinality(Node) \div 2
      /\ Cardinality(R) > Cardinality(Node) \div 2
  BY <1>1, <1>2 DEF IsMajority
<1>6. Cardinality(Q) + Cardinality(R) > Cardinality(Node)
  BY <1>1, <1>4, <1>5
<1> QED
  BY <1>1, <1>6, FS_MajoritiesIntersect

\* Unique votes and majorities behind every election make leaders unique.
LEMMA UniqueLeader ==
    ASSUME FullMesh, TypeOK, OneVotePerTerm, ElectedByMajority
    PROVE  ElectionSafety
<1> SUFFICES ASSUME NEW e \in elected, NEW f \in elected, e.term = f.term
             PROVE  e.node = f.node
  BY DEF ElectionSafety
<1>1. e.node \in Node /\ f.node \in Node
  BY DEF TypeOK, Election
<1>2. PICK Q \in SUBSET Node :
        /\ IsMajority(e.node, Q)
        /\ \A p \in Q : [voter |-> p, term |-> e.term, candidate |-> e.node] \in cast
  BY DEF ElectedByMajority
<1>3. PICK R \in SUBSET Node :
        /\ IsMajority(f.node, R)
        /\ \A p \in R : [voter |-> p, term |-> f.term, candidate |-> f.node] \in cast
  BY DEF ElectedByMajority
<1>4. PICK p \in Q \cap R : TRUE
  BY <1>1, <1>2, <1>3, MajoritiesMeet, SMTT(60)
<1>5. /\ [voter |-> p, term |-> e.term, candidate |-> e.node] \in cast
      /\ [voter |-> p, term |-> e.term, candidate |-> f.node] \in cast
  BY <1>2, <1>3, <1>4
<1> QED
  BY <1>5 DEF OneVotePerTerm

\* In a cluster whose nodes all have each other as peers, at most one node is
\* ever elected in a term, across any crashes, restarts and lost messages.
THEOREM LeaderUniqueness == ASSUME FullMesh PROVE Spec => []ElectionSafety
<1>1. Init => ElectionInv
  BY ZenonT(60) DEF Init, ElectionInv, CastVotesHeld, OneVotePerTerm, GrantsAreCast,
         CountedAreCast, ElectedByMajority
<1>2. TypeOK /\ ElectionInv /\ [Next]_vars => ElectionInv'
  BY ElectionStep
<1>3. TypeOK /\ ElectionInv => ElectionSafety
  BY UniqueLeader DEF ElectionInv
<1> QED
  BY <1>1, <1>2, <1>3, TypeCorrect, PTL DEF Spec

\* No node's term ever falls and no vote is withdrawn or moved within a term.
THEOREM VotesNeverMove == Spec => VoteStable
<1>1. TypeOK /\ [Next]_vars => VoteStep
  BY VoteStepHolds
<1> QED
  BY <1>1, TypeCorrect, PTL DEF Spec, VoteStable

=============================================================================
