------------------------------ MODULE KVStore ------------------------------
(***************************************************************************)
(* The key-value store of a node (internal/kv/store.go).  Every method     *)
(* holds the store's own lock from beginning to end, so each is one        *)
(* operator on the map.                                                    *)
(***************************************************************************)
EXTENDS Sequences, SequencesExt

CONSTANT Missing  \* what Get returns with ok = false

\* The map data, as a function on the keys that are present.
NewStore == [k \in {} |-> Missing]

Set(s, k, v) == [x \in DOMAIN s \cup {k} |-> IF x = k THEN v ELSE s[x]]


Delete(s, k) == [x \in DOMAIN s \ {k} |-> s[x]]

Get(s, k) == IF k \in DOMAIN s THEN s[k] ELSE Missing

\* What applyCommittedEntries and recoverState do with one entry.
Apply(s, e) ==
    CASE e.op = "SET" -> Set(s, e.key, e.value)
      [] e.op = "DEL" -> Delete(s, e.key)

\* The store after a sequence of entries.
Contents(entries) == FoldLeft(Apply, NewStore, entries)

\* What it should be: the last entry about k decides.
LastWrite(entries, k) ==
    LET about == {i \in DOMAIN entries : entries[i].key = k}
    IN  IF about = {} THEN Missing
        ELSE LET e == entries[CHOOSE i \in about : \A j \in about : j <= i]
             IN  IF e.op = "SET" THEN e.value ELSE Missing
=============================================================================
