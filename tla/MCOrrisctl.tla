----------------------------- MODULE MCOrrisctl -----------------------------
EXTENDS Orrisctl

\* Two writes and a read, on two keys.
Line == <<[op |-> "SET", key |-> "a", value |-> "1"],
          [op |-> "DEL", key |-> "b", value |-> ""],
          [op |-> "GET", key |-> "a", value |-> ""]>>

AllAddrs == [i \in Machine |-> i]
=============================================================================
