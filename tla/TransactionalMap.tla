-------------------------- MODULE TransactionalMap --------------------------
(***************************************************************************)
(* What the collection package promises a program that stores associations *)
(* in it: a map from keys to values, and transactions that either keep all *)
(* the updates made since Begin or none of them.  Nothing is said of trees *)
(* or labels.  Collection implements this specification (see Map there).   *)
(***************************************************************************)
CONSTANTS Keys, Vals,
          None          \* the value of a key that is not stored

VARIABLES contents,     \* the value of every key
          base,         \* the contents when the current transaction began
          ongoing       \* a transaction is in progress

vars == <<contents, base, ongoing>>

Init ==
    /\ contents = [k \in Keys |-> None]
    /\ base = contents
    /\ ongoing = FALSE

\* One key is added, changed or removed; outside a transaction the change is
\* final, so a later transaction starts from it.
Write(k, v) ==
    /\ contents' = [contents EXCEPT ![k] = v]
    /\ base' = IF ongoing THEN base ELSE contents'
    /\ UNCHANGED ongoing

Add(k, v) == contents[k] = None /\ Write(k, v)

Set(k, v) == contents[k] # None /\ Write(k, v)

Remove(k) == contents[k] # None /\ Write(k, None)

Begin ==
    /\ ~ongoing
    /\ ongoing' = TRUE
    /\ UNCHANGED <<contents, base>>

Rollback ==
    /\ ongoing
    /\ ongoing' = FALSE
    /\ contents' = base
    /\ UNCHANGED base

End ==
    /\ ongoing
    /\ ongoing' = FALSE
    /\ base' = contents
    /\ UNCHANGED contents

Next ==
    \/ Begin \/ Rollback \/ End
    \/ \E k \in Keys :
        \/ Remove(k)
        \/ \E v \in Vals : Add(k, v) \/ Set(k, v)

Spec == Init /\ [][Next]_vars
=============================================================================
