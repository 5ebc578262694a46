------------------------------ MODULE MCTimers ------------------------------
EXTENDS Timers, TLC

NodeSymmetry == Permutations(Node)
=============================================================================
