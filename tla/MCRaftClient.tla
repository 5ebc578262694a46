---------------------------- MODULE MCRaftClient ----------------------------
EXTENDS RaftClient, MCRaft

\* What a state can still act on, with the state machines and the clients.
ClientView == <<ApplyView, clientVars>>

\* The same where no property is about execution.
AckView == <<LiveView, clientVars>>
-----------------------------------------------------------------------------
(* The abstract service that the cluster implements for its clients *)

Promised == INSTANCE Service WITH
    chosen <- Commands(Upto(log[Ahead], commitIndex[Ahead])),
    executed <- applied

=============================================================================
