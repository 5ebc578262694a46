----------------------------- MODULE CommandLog -----------------------------
(***************************************************************************)
(* What the consensus core promises to the key-value store: one sequence   *)
(* of commands that only grows, and on every node an execution of a prefix *)
(* of it that only advances, across crashes too.                           *)
(***************************************************************************)
EXTENDS Integers, Sequences, SequencesExt

CONSTANTS Node, Command

VARIABLES
    chosen,    \* the agreed sequence of commands
    executed   \* executed[n]: the commands n has executed

Init ==
    /\ chosen = <<>>
    /\ executed = [n \in Node |-> <<>>]

\* More commands are agreed on, behind the ones that already are.
Choose ==
    /\ chosen' # chosen
    /\ IsPrefix(chosen, chosen')
    /\ UNCHANGED executed

\* n executes the next agreed commands.
Execute(n) ==
    /\ executed'[n] # executed[n]
    /\ IsPrefix(executed[n], executed'[n])
    /\ IsPrefix(executed'[n], chosen)
    /\ executed' = [executed EXCEPT ![n] = executed'[n]]
    /\ UNCHANGED chosen

Next == Choose \/ \E n \in Node : Execute(n)

Spec == Init /\ [][Next]_<<chosen, executed>>
=============================================================================
