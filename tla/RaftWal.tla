------------------------------- MODULE RaftWal -------------------------------
(***************************************************************************)
(* The core of module Raft on top of its write-ahead log (internal/storage *)
(* and recoverState).  Every handler appends the records of what it        *)
(* changes, one fsynced Append each, and holds the node's lock until the   *)
(* last one is written.  A process that dies in between leaves the first   *)
(* few of them; a new one knows only what ReadAll returns.                 *)
(*                                                                         *)
(* A handler that dies after its last record and before its reply is the   *)
(* handler followed by a restart, with the reply lost.                     *)
(***************************************************************************)
EXTENDS Raft, SequencesExt

CONSTANTS
    Stoppers,  \* bound: the nodes that may be shut down gracefully
    MaxWal     \* bound: the records one log may hold

ASSUME WalAssumption ==
    /\ Stoppers \subseteq Node
    /\ MaxWal \in Nat

VARIABLES
    wal,   \* wal[n]: the frames in the file of node n
    open   \* open[n]: WAL.file is not nil

walVars == <<vars, wal, open>>

-----------------------------------------------------------------------------
(* Records and their replay *)

StateRec(t, v) == [type |-> "STATE", term |-> t, votedFor |-> v]
EntryRec(e)    == [type |-> "ENTRY", entry |-> e]
TruncateRec(i) == [type |-> "TRUNCATE", commitIndex |-> i]
CommitRec(i)   == [type |-> "COMMIT", commitIndex |-> i]

\* A frame whose header or payload is incomplete.
TornRec == [type |-> "TORN"]

\* The frames before the first one that is incomplete.  What follows the torn
\* frame is not looked at, and the file keeps both.
ReadAll(w) ==
    SubSeq(w, 1, Min({Len(w)} \cup {i - 1 : i \in {k \in DOMAIN w : w[k].type = "TORN"}}))

\* What a node knows before it has read anything.
Blank == [term |-> 0, votedFor |-> NoVote, log |-> <<>>, commit |-> -1]

\* One turn of the loop of recoverState.
Replay(s, rec) ==
    CASE rec.type = "STATE"    -> [s EXCEPT !.term = rec.term, !.votedFor = rec.votedFor]
      [] rec.type = "ENTRY"    -> [s EXCEPT !.log = Append(@, rec.entry)]
      [] rec.type = "TRUNCATE" -> [s EXCEPT !.log =
                                    IF rec.commitIndex + 1 < Len(@)
                                    THEN SubSeq(@, 1, rec.commitIndex + 1)
                                    ELSE @]
      [] rec.type = "COMMIT"   -> [s EXCEPT !.commit =
                                    IF rec.commitIndex > @ THEN rec.commitIndex ELSE @]

RecoverState(w) == FoldLeft(Replay, Blank, ReadAll(w))

-----------------------------------------------------------------------------
(* The records each handler writes, in order *)

If(cond, recs) == IF cond THEN recs ELSE <<>>

\* stepDown, when the request carries a newer term
StepDownRecords(n, m) == If(m.term > currentTerm[n], <<StateRec(m.term, NoVote)>>)

VoteRecords(n, m) ==
    StepDownRecords(n, m) \o If(Grants(n, m), <<StateRec(m.term, m.from)>>)

GapRecords(n, m) ==
    StepDownRecords(n, m) \o <<TruncateRec(Min({m.prevIndex, Len(log[n])}) - 1)>>

\* Mutants of AcceptRecords: the commit record comes first, the truncation is not
\* written, or the new term comes last.
CommitFirst(n, m) ==
    LET kept   == Kept(log[n], m)
        fresh  == SubSeq(m.entries, kept - m.prevIndex, Len(m.entries))
        merged == Merge(log[n], m, Len(m.entries))
    IN  StepDownRecords(n, m)
        \o If(m.commit > commitIndex[n], <<CommitRec(Min({m.commit, Len(merged) - 1}))>>)
        \o If(Conflicts(log[n], m) # {}, <<TruncateRec(kept - 1)>>)
        \o [i \in DOMAIN fresh |-> EntryRec(fresh[i])]
TruncateNotWritten(n, m) ==
    LET kept   == Kept(log[n], m)
        fresh  == SubSeq(m.entries, kept - m.prevIndex, Len(m.entries))
        merged == Merge(log[n], m, Len(m.entries))
    IN  StepDownRecords(n, m)
        \o [i \in DOMAIN fresh |-> EntryRec(fresh[i])]
        \o If(m.commit > commitIndex[n], <<CommitRec(Min({m.commit, Len(merged) - 1}))>>)
TermLast(n, m) ==
    LET kept   == Kept(log[n], m)
        fresh  == SubSeq(m.entries, kept - m.prevIndex, Len(m.entries))
        merged == Merge(log[n], m, Len(m.entries))
    IN  If(Conflicts(log[n], m) # {}, <<TruncateRec(kept - 1)>>)
        \o [i \in DOMAIN fresh |-> EntryRec(fresh[i])]
        \o If(m.commit > commitIndex[n], <<CommitRec(Min({m.commit, Len(merged) - 1}))>>)
        \o StepDownRecords(n, m)

AcceptRecords(n, m) ==
    LET kept   == Kept(log[n], m)
        fresh  == SubSeq(m.entries, kept - m.prevIndex, Len(m.entries))
        merged == Merge(log[n], m, Len(m.entries))
    IN  StepDownRecords(n, m)
        \o If(Conflicts(log[n], m) # {}, <<TruncateRec(kept - 1)>>)
        \o [i \in DOMAIN fresh |-> EntryRec(fresh[i])]
        \o If(m.commit > commitIndex[n], <<CommitRec(Min({m.commit, Len(merged) - 1}))>>)

AppendRecords(n, m) ==
    IF PrevMatches(log[n], m) THEN AcceptRecords(n, m) ELSE GapRecords(n, m)

\* What the handlers of the requests that have reached n would write.
HandlerRecords(n) ==
    {VoteRecords(n, m) : m \in {r \in rvReqs : r.to = n /\ r.term >= currentTerm[n]}}
    \cup {AppendRecords(n, m) : m \in {r \in aeReqs : r.to = n /\ r.term >= currentTerm[n]}}

\* Append: the records reach the disk, unless the file is closed; the error is
\* ignored.
Write(n, recs) ==
    /\ Len(wal[n]) + Len(recs) <= MaxWal
    /\ wal' = [wal EXCEPT ![n] = IF open[n] THEN @ \o recs ELSE @]
    /\ UNCHANGED open

-----------------------------------------------------------------------------
WalInit ==
    /\ Init
    /\ wal = [n \in Node |-> <<>>]
    /\ open = [n \in Node |-> TRUE]

\* The steps that write something.
WalElection(n) ==
    \/ StartElection(n) /\ Write(n, <<StateRec(currentTerm[n] + 1, n)>>)
    \/ \E m \in rvReqs : HandleRequestVote(n, m) /\ Write(n, VoteRecords(n, m))
    \/ \E r \in rvResps : VoteReplyNewerTerm(n, r) /\ Write(n, <<StateRec(r.term, NoVote)>>)

WalLeader(n) ==
    \/ \E c \in Command : ClientRequest(n, c) /\ Write(n, <<EntryRec(Last(log'[n]))>>)
    \/ \E r \in aeResps : AppendReplyNewerTerm(n, r) /\ Write(n, <<StateRec(r.term, NoVote)>>)
    \/ \E r \in aeResps :
          /\ AppendReplySuccess(n, r)
          /\ Write(n, If(commitIndex'[n] # commitIndex[n], <<CommitRec(commitIndex'[n])>>))

WalFollower(n) ==
    \/ \E m \in aeReqs : RejectGap(n, m) /\ Write(n, GapRecords(n, m))
    \/ \E m \in aeReqs : AcceptEntries(n, m) /\ Write(n, AcceptRecords(n, m))

\* The others.
Silent(n) ==
    \/ \E r \in rvResps : CountVote(n, r)
    \/ FinishElection(n)
    \/ \E p \in Peers[n] \cap Reach[n] : SendHeartbeats(n, p)
    \/ \E d \in rounds : ReplicateToPeer(n, d) \/ AbandonRound(n, d)
    \/ \E r \in aeResps : AppendReplyFailure(n, r)
    \/ \E m \in aeReqs : RejectStaleLeader(n, m)
    \/ ApplyCommitted(n)

\* NewNode opens the file w, reads it and starts from what it finds.
Reboot(n, w) ==
    LET s == RecoverState(w)
    IN  /\ wal' = [wal EXCEPT ![n] = w]
        /\ open' = [open EXCEPT ![n] = TRUE]
        /\ currentTerm' = [currentTerm EXCEPT ![n] = s.term]
        /\ votedFor' = [votedFor EXCEPT ![n] = s.votedFor]
        /\ Recover(n, s.log, s.commit)

\* The process dies between two handlers, or between two records of one.
Crash(n) ==
    \/ Reboot(n, wal[n])
    \/ \E recs \in HandlerRecords(n) : \E k \in 1 .. Len(recs) - 1 :
          /\ open[n]
          /\ Len(wal[n]) + k <= MaxWal
          /\ Reboot(n, wal[n] \o SubSeq(recs, 1, k))

\* It dies while a handler writes its k-th record.
CrashInAppend(n) ==
    /\ open[n]
    /\ \E recs \in HandlerRecords(n) : \E k \in 1 .. Len(recs) :
          /\ Len(wal[n]) + k <= MaxWal
          /\ Reboot(n, wal[n] \o SubSeq(recs, 1, k - 1) \o <<TornRec>>)

\* Stop closes the file.  The handlers of connections accepted before still
\* run, until the process ends.
Stop(n) ==
    /\ open[n]
    /\ open' = [open EXCEPT ![n] = FALSE]
    /\ UNCHANGED <<vars, wal>>

WalNext ==
    \/ \E n \in Node : WalElection(n) \/ WalLeader(n) \/ WalFollower(n)
    \/ \E n \in Crashers : Crash(n)
    \/ \E n \in Node : Silent(n) /\ UNCHANGED <<wal, open>>
    \/ NextDrop /\ UNCHANGED <<wal, open>>

WalSpec == WalInit /\ [][WalNext]_walVars

\* With writes that are cut short and with handlers that outlive Stop.
WalFaultNext ==
    \/ WalNext
    \/ \E n \in Crashers : CrashInAppend(n)
    \/ \E n \in Stoppers : Stop(n)

WalFaultSpec == WalInit /\ [][WalFaultNext]_walVars

-----------------------------------------------------------------------------
(* Properties *)

\* Between handlers, what recoverState would read back is what the node holds
\* in memory: term, vote, log and commit index (every handler of internal/raft,
\* TRUNCATE and COMMIT records included).
Durable ==
    \A n \in Node :
        RecoverState(wal[n]) =
            [term |-> currentTerm[n], votedFor |-> votedFor[n],
             log |-> log[n], commit |-> commitIndex[n]]

\* The log never records a commit of an entry that it does not hold: at every
\* point where a crash may cut the sequence of records, the committed entries
\* precede the COMMIT record (order of the appends in HandleAppendEntries).
CommitAfterEntries ==
    \A n \in Node : \A k \in 0 .. Len(wal[n]) :
        LET s == RecoverState(SubSeq(wal[n], 1, k)) IN s.commit < Len(s.log)

\* A node that fills its disk this way implements module Raft, whose restarts
\* find the term, the vote, the log and the commit index unharmed.
ImplementsRaft == Spec
=============================================================================
