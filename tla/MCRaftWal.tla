------------------------------ MODULE MCRaftWal ------------------------------
EXTENDS RaftWal, MCRaft

\* What a state can still act on, with the logs on disk.
WalView == <<LiveView, wal, open>>
=============================================================================
