----------------------------- MODULE RaftLemmas -----------------------------
(***************************************************************************)
(* What the operators of module Raft return and preserve: lemmas that its  *)
(* proofs rest on.  The library's theorems on sequences are used only here.*)
(***************************************************************************)
EXTENDS Raft, TLAPS

LOCAL INSTANCE WellFoundedInduction
LOCAL INSTANCE SequenceTheorems

-----------------------------------------------------------------------------
(* Arithmetic and sequences *)

\* Min of two integers, as used for commit and apply bounds.
LEMMA MinPair ==
    ASSUME NEW a \in Int, NEW b \in Int
    PROVE  Min({a, b}) = IF a <= b THEN a ELSE b
<1>1. \E x \in {a, b} : \A y \in {a, b} : x <= y
  OBVIOUS
<1>2. Min({a, b}) \in {a, b} /\ \A y \in {a, b} : Min({a, b}) <= y
  BY <1>1 DEF Min
<1> QED
  BY <1>2

\* A nonempty set of naturals has a least element.
LEMMA MinNat ==
    ASSUME NEW C, C \subseteq Nat, C # {}
    PROVE  Min(C) \in C /\ \A y \in C : Min(C) <= y
<1>1. PICK x \in C : \A y \in C : ~(<<y, x>> \in OpToRel(<, Nat))
  BY NatLessThanWellFounded, WFMin, ZenonT(60)
<1>2. \A y \in C : y < x => <<y, x>> \in OpToRel(<, Nat)
  BY Zenon DEF OpToRel
<1>3. \A y \in C : ~(y < x)
  BY <1>1, <1>2, Zenon
<1>4. \A y \in C : x <= y
  BY <1>3
<1> QED
  BY <1>4, ZenonT(60) DEF Min

\* A nonempty set of integers within bounds has a greatest element.
LEMMA MaxBounded ==
    ASSUME NEW a \in Int, NEW b \in Int, NEW C, C \subseteq a .. b, C # {}
    PROVE  Max(C) \in C /\ \A y \in C : Max(C) >= y
<1> DEFINE D == {b - x : x \in C}
<1>1. D \subseteq Nat /\ D # {}
  OBVIOUS
<1>2. PICK d \in D : \A y \in D : d <= y
  BY <1>1, MinNat, ZenonT(60)
<1>3. PICK x \in C : d = b - x
  OBVIOUS
<1>4. \A y \in C : b - y \in D
  OBVIOUS
<1>5. \A y \in C : x >= y
  BY <1>2, <1>3, <1>4, SMTT(60)
<1> QED
  BY <1>5, ZenonT(60) DEF Max

\* A subsequence within bounds and a concatenation have the element type.
LEMMA SubSeqType ==
    ASSUME NEW S, NEW s \in Seq(S), NEW i \in Nat, NEW j \in Int, i >= 1, j <= Len(s)
    PROVE  /\ SubSeq(s, i, j) \in Seq(S)
           /\ Len(SubSeq(s, i, j)) = IF i <= j THEN j - i + 1 ELSE 0
           /\ \A k \in 1 .. j - i + 1 : SubSeq(s, i, j)[k] = s[i + k - 1]
<1>1. \A k \in i .. j : s[k] \in S
  BY ElementOfSeq
<1> QED
  BY <1>1, SubSeqProperties

LEMMA CommandsType ==
    ASSUME NEW s \in Seq(Entry)
    PROVE  Commands(s) \in Seq(Command)
<1>1. DOMAIN s = 1 .. Len(s) /\ Len(s) \in Nat
  BY LenProperties
<1>2. \A i \in 1 .. Len(s) : s[i] \in Entry
  BY ElementOfSeq
<1>3. \A i \in 1 .. Len(s) : s[i].command \in Command
  BY <1>2 DEF Entry
<1> QED
  BY <1>1, <1>3 DEF Commands

\* What of a log survives a request is a prefix length of it, and no shorter
\* than the entries up to the request's prevIndex.
LEMMA KeptBounds ==
    ASSUME NEW l \in Seq(Entry), NEW m \in AEReq, PrevMatches(l, m)
    PROVE  /\ Kept(l, m) \in 0 .. Len(l)
           /\ Kept(l, m) > m.prevIndex
<1>1. Len(l) \in Nat /\ m.prevIndex \in Index /\ m.entries \in Seq(Entry)
  BY LenProperties, SMTT(60) DEF AEReq
<1>2. CASE Conflicts(l, m) = {}
  BY <1>1, <1>2 DEF Kept, PrevMatches, Index
<1>3. CASE Conflicts(l, m) # {}
  <2>1. Conflicts(l, m) \subseteq Nat
    BY <1>1 DEF Conflicts
  <2>2. Kept(l, m) \in Conflicts(l, m)
    BY <1>3, <2>1, MinNat, SMTT(60) DEF Kept
  <2>3. Kept(l, m) \in 0 .. Len(l) - 1 /\ Kept(l, m) - m.prevIndex \in 1 .. Len(m.entries)
    BY <1>1, <2>2, LenProperties DEF Conflicts
  <2> QED
    BY <1>1, <2>3 DEF Index
<1> QED
  BY <1>2, <1>3, SMTT(60)

LEMMA MergeType ==
    ASSUME NEW l \in Seq(Entry), NEW m \in AEReq, PrevMatches(l, m),
           NEW j \in 0 .. Len(m.entries)
    PROVE  Merge(l, m, j) \in Seq(Entry)
<1>1. m.entries \in Seq(Entry) /\ m.prevIndex \in Index
  BY DEF AEReq
<1>2. Kept(l, m) \in 0 .. Len(l) /\ Kept(l, m) > m.prevIndex
  BY KeptBounds
<1>3. SubSeq(l, 1, Kept(l, m)) \in Seq(Entry)
  BY <1>2, SubSeqType, LenProperties, SMTT(60)
<1>4. Kept(l, m) - m.prevIndex \in Nat /\ Kept(l, m) - m.prevIndex >= 1
  BY <1>1, <1>2, LenProperties DEF Index
<1>5. SubSeq(m.entries, Kept(l, m) - m.prevIndex, j) \in Seq(Entry)
  BY <1>1, <1>4, SubSeqType, LenProperties, SMTT(60)
<1> QED
  BY <1>3, <1>5, ConcatProperties DEF Merge

LEMMA LastType ==
    ASSUME NEW l \in Seq(Entry)
    PROVE  LastIndex(l) \in Index /\ LastTerm(l) \in Nat
<1>1. CASE l = <<>>
  BY <1>1 DEF LastIndex, LastTerm, Index
<1>2. CASE l # <<>>
  <2>1. Len(l) \in 1 .. Len(l)
    BY <1>2, EmptySeq
  <2>2. l[Len(l)] \in Entry
    BY <2>1, ElementOfSeq
  <2> QED
    BY <1>2, <2>2 DEF LastIndex, LastTerm, Index, Entry
<1> QED
  BY <1>1, <1>2

LEMMA TermAtType ==
    ASSUME NEW l \in Seq(Entry), NEW i \in Int
    PROVE  TermAt(l, i) \in Nat
<1>1. CASE 0 <= i /\ i < Len(l)
  <2>1. i + 1 \in 1 .. Len(l)
    BY <1>1, LenProperties
  <2>2. l[i + 1] \in Entry
    BY <2>1, ElementOfSeq, SMTT(60)
  <2> QED
    BY <1>1, <2>2 DEF TermAt, Entry
<1>2. CASE ~(0 <= i /\ i < Len(l))
  BY <1>2 DEF TermAt
<1> QED
  BY <1>1, <1>2

\* Of the sequence library, what the step proofs need.
LEMMA LenType ==
    ASSUME NEW S, NEW s \in Seq(S)
    PROVE  Len(s) \in Nat
  BY LenProperties

LEMMA AppendType ==
    ASSUME NEW S, NEW s \in Seq(S), NEW e \in S
    PROVE  Append(s, e) \in Seq(S)
  BY AppendProperties

LEMMA ConcatType ==
    ASSUME NEW S, NEW s \in Seq(S), NEW r \in Seq(S)
    PROVE  s \o r \in Seq(S)
  BY ConcatProperties

-----------------------------------------------------------------------------
(* Recovery *)

\* Recovery from a well-typed log and commit index yields a well-typed node.
LEMMA RecoverType ==
    ASSUME TypeOK, NEW n \in Node, NEW l \in Seq(Entry), NEW c \in Index,
           Recover(n, l, c),
           currentTerm' \in [Node -> Nat],
           votedFor' \in [Node -> Node \cup {NoVote}]
    PROVE  TypeOK'
<1> DEFINE last == Min({c, Len(l) - 1})
<1>1. last \in Index /\ last <= Len(l) - 1
  BY MinPair, LenProperties DEF Index
<1> HIDE DEF last
<1>a. last + 1 \in Int /\ last + 1 <= Len(l)
  BY <1>1, LenProperties DEF Index
<1>2. Upto(l, last) \in Seq(Entry)
  BY <1>a, SubSeqType DEF Upto
<1>3. Commands(Upto(l, last)) \in Seq(Command)
  BY <1>2, CommandsType, SMTT(60)
<1>4. lastApplied' \in [Node -> Index] /\ applied' \in [Node -> Seq(Command)]
  BY <1>1, <1>3, SMTT(60) DEF Recover, TypeOK, last
<1>5. UNCHANGED <<rvReqs, rvResps, aeReqs, cast, elected>>
  BY SMTT(60) DEF Recover, rvVars, histVars
<1>6. /\ state' \in [Node -> Roles]
      /\ votes' \in [Node -> SUBSET Node]
      /\ log' \in [Node -> Seq(Entry)]
      /\ commitIndex' \in [Node -> Index]
      /\ nextIndex' \in [Node -> [Node -> Nat]]
      /\ matchIndex' \in [Node -> [Node -> Index]]
  BY DEF Recover, TypeOK, Roles, Index
<1>7. rounds' \subseteq Round /\ aeResps' \subseteq AEResp
  BY SMTT(60) DEF Recover, TypeOK
<1> QED
  BY <1>4, <1>5, <1>6, <1>7, SMTT(60) DEF TypeOK

=============================================================================
