------------------------------ MODULE Service ------------------------------
(***************************************************************************)
(* What a running cluster promises to the clients that send it SET and DEL *)
(* (SequencesExt's permutations stand for the commands that become         *)
(* committed in one step).  Every request carries its own command.         *)
(*                                                                         *)
(*  - The committed commands form one sequence without repetition.         *)
(*  - OK is said of committed commands only.                               *)
(*  - A command answered with NOT_LEADER is never committed.               *)
(*  - Any other answer, and none, leaves the command's fate open.          *)
(*  - Every node executes a prefix of the sequence, which only grows,      *)
(*    restarts included.                                                   *)
(*                                                                         *)
(* Module RaftClient implements it; module Routing is a client of it.      *)
(***************************************************************************)
EXTENDS Integers, Sequences, SequencesExt

CONSTANTS Node, Command

VARIABLES
    chosen,    \* the committed commands, in the order of the log
    executed,  \* executed[n]: what the key-value store of n has executed
    answer     \* answer[c]: what the client of c has been told

serviceVars == <<chosen, executed, answer>>

Answers == {"OK", "NOT_LEADER", "LOST_LEADERSHIP", "TIMEOUT", "NODE_STOPPED"}

ServiceInit ==
    /\ chosen = <<>>
    /\ executed = [n \in Node |-> <<>>]
    /\ answer = [c \in Command |-> "UNSENT"]

Tell(S, res) == answer' = [c \in Command |-> IF c \in S THEN res ELSE answer[c]]

\* The request reaches a node, which queues it.
Send(c) ==
    /\ answer[c] = "UNSENT"
    /\ UNCHANGED <<chosen, executed>>
    /\ Tell({c}, "SENT")

\* A node that is stopping turns it away.
TurnAway(c) ==
    /\ answer[c] = "UNSENT"
    /\ UNCHANGED <<chosen, executed>>
    /\ Tell({c}, "NODE_STOPPED")

\* The commands that may still be committed.
Undecided == {c \in Command : answer[c] \notin {"UNSENT", "NOT_LEADER"}} \ ToSet(chosen)

\* Some of them are, in some order.
Choose ==
    /\ UNCHANGED <<executed, answer>>
    /\ \E s \in SetToAllKPermutations(Undecided) \ {<<>>} : chosen' = chosen \o s


\* What res says of the command c is true.
Justified(c, res) ==
    /\ res = "OK" => c \in ToSet(chosen)
    /\ res = "NOT_LEADER" => c \notin ToSet(chosen)

Answer(c, res) ==
    /\ answer[c] = "SENT"
    /\ UNCHANGED <<chosen, executed>>
    /\ Tell({c}, res)
    /\ Justified(c, res)

\* The store of n has executed the first k commands.
CatchUp(n, k) == executed' = [executed EXCEPT ![n] = SubSeq(chosen, 1, k)]

Execute(n) ==
    /\ UNCHANGED <<chosen, answer>>
    /\ \E k \in Len(executed[n]) + 1 .. Len(chosen) : CatchUp(n, k)

\* The process of n ends, the connections of the requests S break, and the next
\* process rebuilds the store.
Restart(n, S) ==
    /\ UNCHANGED chosen
    /\ Tell(S, "BROKEN")
    /\ \E k \in Len(executed[n]) .. Len(chosen) : CatchUp(n, k)

ServiceNext ==
    \/ \E c \in Command : Send(c) \/ TurnAway(c)
    \/ Choose
    \/ \E c \in Command : \E res \in Answers : Answer(c, res)
    \/ \E n \in Node : Execute(n)
    \/ \E S \in SUBSET {c \in Command : answer[c] = "SENT"} : \E n \in Node : Restart(n, S)

ServiceSpec == ServiceInit /\ [][ServiceNext]_serviceVars
=============================================================================
