---------------------------- MODULE SharedArrays ----------------------------
(***************************************************************************)
(* A collection with the call that module Collection leaves out: Set       *)
(* writes the values of a leaf in place, also when a backup of the         *)
(* transaction shares their array (manipulators.go, node.go).  The walk    *)
(* through the backups is recursive: this module is for TLC.               *)
(***************************************************************************)
EXTENDS Collection

RECURSIVE WriteArray(_, _, _)
\* cursor.values[index] = ...: every node that has the array has the value.
WriteArray(t, array, v) ==
    [p \in DOMAIN t |-> [t[p] EXCEPT !.val = IF t[p].array = array THEN v ELSE @,
                                     !.bak = WriteArray(@, array, v)]]

SetShared(k, v) ==
    /\ Reaches(tree, k) /\ Get(k) # None /\ Shared(k)
    /\ Written(WriteArray(SetAt(tree, k, v, ongoing), tree[Leaf(tree, k)].array, v))

SharedNext == Next \/ ((\E k \in Keys, v \in Vals : SetShared(k, v)) /\ Kept)

SharedSpec == Init /\ [][SharedNext]_vars

\* Rollback gives back the tree from before the transaction, with its values
\* and its labels (transaction_test.go, TestTransactionRollback).
RollbackRestores == [][Rollback => Contents' = origin]_vars
=============================================================================
