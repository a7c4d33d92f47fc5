----------------------------- MODULE Collection -----------------------------
(***************************************************************************)
(* The collection package: a Merkle tree whose leaves hold the             *)
(* associations, each on the path given by the hash of its key, at the     *)
(* smallest depth where it is alone; and transactions over the tree        *)
(* (manipulators.go, transaction.go, singlenode.go, node.go).              *)
(*                                                                         *)
(* A tree is a function from positions to nodes: a position is the bits of *)
(* the way from the root, and the children of the node at p are those at   *)
(* Append(p, 1) and Append(p, 2).  The walks of the code are functions on  *)
(* the number of their steps.                                              *)
(*                                                                         *)
(* What Go shares and a value would not is named: a backup keeps pointers  *)
(* to the children, which is a copy of the subtree here because they leave *)
(* the tree at once; and it shares the arrays of their values, which are   *)
(* written in place: see field array, and module SharedArrays.             *)
(*                                                                         *)
(* The collection has one field, a Stake64 with Width instead of 2^64      *)
(* values.  A node may be unknown: nothing but its label is there.  Init   *)
(* is New, whose scope is everything and whose nodes are all known;        *)
(* CollectionVerifier starts with an unknown root.                         *)
(***************************************************************************)
EXTENDS Naturals, Sequences, FiniteSets, Functions

CONSTANTS Keys, Vals,
          Width,        \* number of values of a stake: sums wrap around
          Bits,         \* length of a hash
          Path,         \* the bits of a key's hash: 1 is left, 2 is right
          None          \* no key, no array, no value

ASSUME PathsDiffer ==
    /\ Bits \in Nat \ {0}
    /\ Path \in [Keys -> [1..Bits -> {1, 2}]]
    /\ \A k, l \in Keys : Path[k] = Path[l] => k = l
ASSUME StakesFit == Width \in Nat \ {0} /\ Vals \subseteq 1..(Width - 1)
ASSUME NoneIsNoKey == None \notin Keys \cup Vals

VARIABLES tree,         \* the nodes, by their position
          ongoing,      \* transaction.ongoing
          scope,        \* scope.masks, a set of paths, and scope.all
          origin        \* history: the contents when the transaction began

vars == <<tree, ongoing, scope, origin>>

-----------------------------------------------------------------------------
(* Positions.                                                              *)

Positions == UNION {[1..d -> {1, 2}] : d \in 0..Bits}

\* The position d steps from the root on the way to p, or on the path of k.
Prefix(p, d) == SubSeq(p, 1, d)

Way == [k \in Keys |-> [d \in 0..Bits |-> Prefix(Path[k], d)]]

At(k, d) == Way[k][d]

\* Position q is p, or below it.
Under(p, q) == Len(p) <= Len(q) /\ Prefix(q, Len(p)) = p

-----------------------------------------------------------------------------
(* Nodes.  Field inc is transaction.inconsistent; bak is                   *)
(* transaction.backup, the subtree at the node as it was, or NoTree.       *)
(* Field array names, during a transaction, the array of values a leaf had *)
(* when the transaction began (by the leaf's key); arrays made since then  *)
(* have no name, because no two nodes that the transaction can leave in    *)
(* the tree share one.                                                     *)

NoTree == [p \in {} |-> None]

IsLeaf(t, p) == Append(p, 1) \notin DOMAIN t

IsPlaceholder(t, p) == IsLeaf(t, p) /\ t[p].key = None

LeafLabel(key, val) == <<"leaf", key, val>>

NodeLabel(val, left, right) == <<"node", val, left, right>>

NewLeaf(key, val, array, label) ==
    [known |-> TRUE, key |-> key, val |-> val, array |-> array, label |-> label,
     inc |-> FALSE, bak |-> NoTree]

NewPlaceholder == NewLeaf(None, 0, None, LeafLabel(None, 0))

\* Stake64.Parent.
Parent(left, right) == (left + right) % Width

\* The label of an unknown node, or of one with an unknown child, stays.
Update(t, p) ==
    LET n == t[p]
        left == t[Append(p, 1)]
        right == t[Append(p, 2)]
        sum == Parent(left.val, right.val)
    IN  IF ~n.known THEN n
        ELSE IF IsLeaf(t, p) THEN [n EXCEPT !.label = LeafLabel(n.key, n.val)]
        ELSE IF ~left.known \/ ~right.known THEN n
        ELSE [n EXCEPT !.val = sum,
                       !.array = None,
                       !.label = NodeLabel(sum, left.label, right.label)]

\* What a node keeps in a transaction (tx) to be restored, and what marks it.

Subtree(t, p) == [q \in {q \in DOMAIN t : Under(p, q)} |-> t[q]]

\* Mutant: every change of a transaction makes a new backup.
BackupAgain(t, p, tx) ==
    IF tx THEN [t[p] EXCEPT !.bak = [Subtree(t, p) EXCEPT ![p].array = None,
                                                          ![p].bak = NoTree]]
    ELSE t[p]

\* The backup has an array of its own.
Backup(t, p, tx) ==
    IF tx /\ t[p].bak = NoTree
    THEN [t[p] EXCEPT !.bak = [Subtree(t, p) EXCEPT ![p].array = None]]
    ELSE t[p]

\* Mutant: the label is not restored.
RestoreData(t, p) ==
    IF t[p].bak = NoTree THEN t ELSE [t[p].bak EXCEPT ![p].label = t[p].label]

\* The tree in which the node at p, and what is below it, is found again.
Restore(t, p) == IF t[p].bak = NoTree THEN t ELSE t[p].bak

\* Mutant: a node that has a backup is taken for one that is marked already.
AscendToBackup(t, p, tx) ==
    [t EXCEPT ![p] = IF ~tx THEN Update(t, p) ELSE [@ EXCEPT !.inc = @ \/ t[p].bak = NoTree]]

\* An ancestor of a changed node: in a transaction it is only marked.
Ascend(t, p, tx) ==
    [t EXCEPT ![p] = IF tx THEN [@ EXCEPT !.inc = TRUE] ELSE Update(t, p)]

\* All ancestors of the node at p, from its parent to the root.
Ascended(t, p, tx) ==
    LET up[i \in 0..Len(p)] ==
            IF i = 0 THEN t ELSE Ascend(up[i - 1], Prefix(p, Len(p) - i), tx)
    IN  up[Len(p)]

-----------------------------------------------------------------------------
(* The walk along the path of a key, and by stake.                         *)

\* The depth where the walk for k ends.
Depth(t, k) == 
    CHOOSE d \in 0..Bits : LET p == At(k, d) IN p \in DOMAIN t /\ IsLeaf(t, p)

Leaf(t, k) == At(k, Depth(t, k))

\* Get(k).Record: the value of k, or None if there is none or the walk ends
\* at an unknown node.
Lookup(t, k) == LET leaf == t[Leaf(t, k)] IN IF leaf.key = k THEN leaf.val ELSE None

Get(k) == Lookup(tree, k)

Contents == [k \in Keys |-> Get(k)]

\* The walk of a manipulator, or of Get(k).Proof, goes through known nodes
\* with known children only; otherwise the call answers an error.
Reaches(t, k) ==
    /\ t[<<>>].known
    /\ \A d \in 1..Depth(t, k) : \A i \in 1..2 : t[Append(At(k, d - 1), i)].known

\* Mutant: a query equal to the left stake is looked for on the left.
NavigateAfter(t, p, q) ==
    LET left == t[Append(p, 1)] IN
    IF q > left.val THEN <<Append(p, 2), q - left.val>> ELSE <<Append(p, 1), q>>

\* Stake64.Navigate leaves in the query what is to be found in the child.
Navigate(t, p, q) ==
    LET left == t[Append(p, 1)] IN
    IF q >= left.val THEN <<Append(p, 2), q - left.val>> ELSE <<Append(p, 1), q>>

\* Navigate(0, q).Record: the leaf it ends at, or None if the query exceeds a
\* stake or a node is unknown.
NavigateAt(t, q) ==
    LET stuck(p, left) ==
            IsLeaf(t, p) \/ left >= t[p].val \/ \E i \in 1..2 : ~t[Append(p, i)].known
        walk[d \in 0..Bits] ==
            IF d = 0 THEN <<<<>>, q>>
            ELSE LET at == walk[d - 1]
                 IN  IF stuck(at[1], at[2]) THEN at ELSE Navigate(t, at[1], at[2])
        last == walk[Bits][1]
    IN  IF IsLeaf(t, last) /\ t[last].known THEN t[last] ELSE None

-----------------------------------------------------------------------------
(* The manipulators, on a tree where the walk for the key succeeds.        *)

\* Mutant: the leaf that is split keeps its key.
SplitWithKey(t, p, tx) ==
    LET n == t[p]
        moved == Append(p, Path[n.key][Len(p) + 1])
    IN  [q \in DOMAIN t \cup {Append(p, 1), Append(p, 2)} |->
            IF q = p THEN Backup(t, p, tx)
            ELSE IF q = moved THEN NewLeaf(n.key, n.val, n.array, n.label)
            ELSE IF q \in DOMAIN t THEN t[q] ELSE NewPlaceholder]

\* A leaf makes room for another key: it moves one step down its path.
Split(t, p, tx) ==
    LET n == t[p]
        moved == Append(p, Path[n.key][Len(p) + 1])
    IN  [q \in DOMAIN t \cup {Append(p, 1), Append(p, 2)} |->
            IF q = p THEN [Backup(t, p, tx) EXCEPT !.key = None]
            ELSE IF q = moved THEN NewLeaf(n.key, n.val, n.array, n.label)
            ELSE IF q \in DOMAIN t THEN t[q] ELSE NewPlaceholder]

\* The leaf on the path of k is split until it is a placeholder.
Room(t, k, tx) ==
    LET room[i \in 0..Bits] ==
            IF i = 0 THEN t
            ELSE LET s == room[i - 1]
                     p == Leaf(s, k)
                 IN  IF IsPlaceholder(s, p) THEN s ELSE Split(s, p, tx)
    IN  room[Bits]

\* The leaf at p gets a key, a value and an array of its own.
Fill(t, p, key, val, tx) ==
    [t EXCEPT ![p] = [Backup(t, p, tx) EXCEPT !.key = key, !.val = val, !.array = None,
                                              !.label = LeafLabel(key, val)]]

AddAt(t, k, v, tx) ==
    LET s == Room(t, k, tx)
        p == Leaf(s, k)
    IN  Ascended(Fill(s, p, k, v, tx), p, tx)

\* cursor.values[index] = ...: every node of the tree that has the array has
\* the value.
SetAt(t, k, v, tx) ==
    LET p == Leaf(t, k)
        array == t[p].array
        set == [t EXCEPT ![p] = [Backup(t, p, tx) EXCEPT !.val = v, !.label = LeafLabel(k, v)]]
        written == [q \in DOMAIN t |->
                        IF array # None /\ t[q].array = array
                        THEN [set[q] EXCEPT !.val = v] ELSE set[q]]
    IN  Ascended(written, p, tx)

OnlyChild(t, p) ==
    \E i \in 1..2 : IsPlaceholder(t, Append(p, i)) /\ IsLeaf(t, Append(p, 3 - i))

\* A leaf alone below a node takes its place; the two share an array.
Collapse(t, p, tx) ==
    LET kept == t[Append(p, IF IsPlaceholder(t, Append(p, 1)) THEN 2 ELSE 1)] IN
    [q \in DOMAIN t \ {Append(p, 1), Append(p, 2)} |->
        IF q = p
        THEN [Backup(t, p, tx) EXCEPT !.key = kept.key, !.val = kept.val,
                                      !.array = kept.array, !.label = kept.label]
        ELSE t[q]]

\* The root stays; any other ancestor that is left with one leaf collapses.
AfterRemove(t, p, tx) ==
    IF p # <<>> /\ OnlyChild(t, p) THEN Collapse(t, p, tx) ELSE Ascend(t, p, tx)

RemoveAt(t, k, tx) ==
    LET p == Leaf(t, k)
        up[i \in 0..Len(p)] ==
            IF i = 0 THEN Fill(t, p, None, 0, tx)
            ELSE AfterRemove(up[i - 1], Prefix(p, Len(p) - i), tx)
    IN  up[Len(p)]

-----------------------------------------------------------------------------
(* The walks of the transaction methods.                                   *)

Marked(n) == n.inc \/ n.bak # NoTree

\* A walk of Rollback at node p: the tree the node is in, and whether the
\* walk goes on.
Visit(walk, p) ==
    IF walk.goes /\ p \in DOMAIN walk.tree /\ Marked(walk.tree[p])
    THEN [walk EXCEPT !.tree = Restore(@, p)]
    ELSE [walk EXCEPT !.goes = FALSE]

\* Where the node at p is found when everything on its way is restored.
Source(t, p) ==
    LET walk[d \in 0..Len(p)] ==
            Visit(IF d = 0 THEN [tree |-> t, goes |-> TRUE] ELSE walk[d - 1], Prefix(p, d))
    IN  walk[Len(p)].tree

RolledBack(t) ==
    [p \in {p \in Positions : p \in DOMAIN Source(t, p)} |-> Source(t, p)[p]]

Confirmed(t) ==
    [p \in DOMAIN t |->
        IF \A d \in 0..Len(p) : Marked(t[Prefix(p, d)])
        THEN [t[p] EXCEPT !.bak = NoTree] ELSE t[p]]

\* The nodes at some positions are updated, children before their parents.
Relabelled(t, positions) ==
    LET up[i \in 0..(Bits + 1)] ==
            IF i = 0 THEN t
            ELSE [p \in DOMAIN t |->
                    IF p \in positions /\ Len(p) = Bits + 1 - i
                    THEN Update(up[i - 1], p) ELSE up[i - 1][p]]
    IN  up[Bits + 1]

Fixed(t) ==
    LET visited == {p \in DOMAIN t : \A d \in 0..Len(p) : t[Prefix(p, d)].inc}
        new == Relabelled(t, visited)
    IN  [p \in DOMAIN t |-> IF p \in visited THEN [new[p] EXCEPT !.inc = FALSE] ELSE new[p]]

\* mask.match and scope.match: the first bits of a path are those of a mask.
Matches(path, bits) ==
    IF scope.masks = {} THEN scope.all
    ELSE \E mask \in scope.masks :
            \A i \in DOMAIN mask : i <= bits => mask[i] = path[i]

Forget(n) ==
    [n EXCEPT !.known = FALSE, !.key = None, !.val = 0, !.array = None]

\* Mutant: the sibling of what is in the scope is not kept.
OutOfScopeItself(path) == Len(path) # 1 /\ ~Matches(path, Len(path))

\* Collect keeps a node with its sibling and their children, for the proofs
\* and for the updates of the node; the children of a known root are kept.
OutOfScope(path) ==
    LET d == Len(path) IN d # 1 /\ ~Matches(path, IF d = 0 THEN 0 ELSE d - 2)

\* A known node out of the scope is forgotten, with all that is below it.
Collected(t) ==
    LET out == {p \in DOMAIN t : t[p].known /\ OutOfScope(p)}
        kept == {p \in DOMAIN t : \A d \in 0..(Len(p) - 1) : Prefix(p, d) \notin out}
    IN  [p \in kept |-> IF p \in out THEN Forget(t[p]) ELSE t[p]]

\* The names of the arrays, given when a transaction begins (own) and
\* forgotten when it ends.
Named(t, own) ==
    [p \in DOMAIN t |->
        [t[p] EXCEPT !.array = IF own /\ IsLeaf(t, p) THEN t[p].key ELSE None]]

BackupsOf(t) == {t[p].bak : p \in DOMAIN t} \ {NoTree}

\* The backups in a tree, those in the backups included.
Backups(t) ==
    LET level[d \in 0..Bits] ==
            IF d = 0 THEN BackupsOf(t) ELSE UNION {BackupsOf(s) : s \in level[d - 1]}
    IN  UNION {level[d] : d \in 0..Bits}

\* The leaf of k has an array that a node of the tree before shares.
Shared(k) ==
    LET array == tree[Leaf(tree, k)].array
    IN  array # None /\ \E t \in Backups(tree) : \E p \in DOMAIN t : t[p].array = array

-----------------------------------------------------------------------------
(* The operations.  A call that answers an error ("Key collision.", "Key   *)
(* not found.", "Applying update to unknown subtree.") has changed nothing. *)

\* New.  The root is never a leaf.
EmptyTree ==
    LET bare == [p \in {<<>>, <<1>>, <<2>>} |-> NewPlaceholder]
    IN  [bare EXCEPT ![<<>>] = Update(bare, <<>>)]

Init ==
    /\ tree = EmptyTree
    /\ ongoing = FALSE
    /\ scope = [masks |-> {}, all |-> TRUE]
    /\ origin = [k \in Keys |-> None]

\* Outside a transaction every update is final and is followed by Collect.
Written(new) ==
    /\ tree' = IF ongoing THEN new ELSE Collected(new)
    /\ UNCHANGED <<ongoing, scope>>

Add(k, v) ==
    /\ Reaches(tree, k) /\ Get(k) = None
    /\ Written(AddAt(tree, k, v, ongoing))

\* A write to an array that a backup shares: see module SharedArrays.
Set(k, v) ==
    /\ Reaches(tree, k) /\ Get(k) # None /\ ~Shared(k)
    /\ Written(SetAt(tree, k, v, ongoing))

Remove(k) ==
    /\ Reaches(tree, k) /\ Get(k) # None
    /\ Written(RemoveAt(tree, k, ongoing))

Begin ==
    /\ ~ongoing
    /\ ongoing' = TRUE
    /\ tree' = Named(tree, TRUE)
    /\ UNCHANGED scope

Rollback ==
    /\ ongoing
    /\ ongoing' = FALSE
    /\ tree' = Named(RolledBack(tree), FALSE)
    /\ UNCHANGED scope

\* confirm, fix and Collect.
Ended(t) == Named(Collected(Fixed(Confirmed(t))), FALSE)

End ==
    /\ ongoing
    /\ ongoing' = FALSE
    /\ tree' = Ended(tree)
    /\ UNCHANGED scope

\* The history of what a rollback is to give back.
Kept == origin' = IF ongoing' THEN origin ELSE Contents'

Next ==
    \/ (Begin \/ Rollback) /\ UNCHANGED origin
    \/ /\ \/ End
          \/ \E k \in Keys :
                \/ Remove(k)
                \/ \E v \in Vals : Add(k, v) \/ Set(k, v)
       /\ Kept

Spec == Init /\ [][Next]_vars

-----------------------------------------------------------------------------
(* Properties.                                                             *)

NodeOK(n) ==
    /\ n.known \in BOOLEAN /\ (n.known \/ (n.key = None /\ n.val = 0))
    /\ n.key \in Keys \cup {None} /\ n.array \in Keys \cup {None}
    /\ n.val \in 0..(Width - 1) /\ n.inc \in BOOLEAN

\* A node has two children or none; one with children is known and has no
\* key; a backup is a tree at the place of its node, and has no backup itself.
TreeOK(t) ==
    /\ DOMAIN t \subseteq Positions
    /\ \A p \in DOMAIN t :
        /\ NodeOK(t[p])
        /\ IsLeaf(t, p) \/ (t[p].known /\ t[p].key = None)
        /\ IsLeaf(t, p) <=> Append(p, 2) \notin DOMAIN t
        /\ t[p].bak # NoTree =>
            /\ p \in DOMAIN t[p].bak /\ t[p].bak[p].bak = NoTree
            /\ \A q \in DOMAIN t[p].bak : Under(p, q)

\* The variables hold values of their types (node.go).
TypeOK ==
    /\ \A t \in {tree} \cup Backups(tree) : TreeOK(t)
    /\ ongoing \in BOOLEAN
    /\ scope.all \in BOOLEAN /\ scope.masks \subseteq Seq({1, 2})
    /\ origin \in [Keys -> Vals \cup {None}]

\* The tree of a set of associations, built without any history: a key is
\* as near to the root as it can be, and not at the root.

On(k, p) == At(k, Len(p)) = p

\* The positions where keys part, and the root.
Inner(keys) ==
    {p \in Positions : p = <<>> \/ \E k, l \in keys : k # l /\ On(k, p) /\ On(l, p)}

NodesFor(inner) == {<<>>} \cup {Append(p, i) : p \in inner, i \in 1..2}

CanonicalOf(contents) ==
    LET keys == {k \in Keys : contents[k] # None}
        inner == Inner(keys)
        leaf(p) == IF p \notin inner /\ \E k \in keys : On(k, p)
                   THEN LET k == CHOOSE k \in keys : On(k, p)
                        IN  NewLeaf(k, contents[k], None, LeafLabel(k, contents[k]))
                   ELSE NewPlaceholder
    IN  Relabelled([p \in NodesFor(inner) |-> leaf(p)], inner)

CanonicalTree == CanonicalOf(Contents)

\* What is left of a tree for the labels.
Labelled(t) == [p \in DOMAIN t |-> <<t[p].key, t[p].val, t[p].label>>]

\* "Only one tree per set of associations": outside a transaction the tree,
\* its labels and the sums of its stakes are those of the contents, whatever
\* calls, transactions and rollbacks it went through (manipulators.go,
\* transaction.go).  Two nodes that store the same have the same root.
Canonical == ~ongoing => Labelled(tree) = Labelled(CanonicalTree)

\* confirm, fix and Rollback visit the marked nodes only: no marked node is
\* below one that is not inconsistent, where they would miss it
\* (transaction.go).
MarksReachRoot ==
    \A p \in DOMAIN tree : \A i \in 1..2 :
        ~IsLeaf(tree, p) /\ Marked(tree[Append(p, i)]) => tree[p].inc

\* No backup outlives its transaction: the next one would restore it, in
\* place of the state it began with (transaction.go, node.go).
BackupsAreDropped == ~ongoing => BackupsOf(tree) = {}

Precedes(k, l) ==
    \E d \in 1..Bits : At(k, d - 1) = At(l, d - 1) /\ Path[k][d] < Path[l][d]

\* Navigation picks an association with a chance in proportion to its stake:
\* outside a transaction, and while the stakes do not wrap, the queries that
\* end at a key are those between the stake of the keys on its left and that
\* sum with its own; any other query answers an error (navigators.go,
\* field.go).
NavigatesByStake ==
    LET present == {k \in Keys : Get(k) # None}
        Below(k) == SumFunctionOnSet(Contents, {l \in present : Precedes(l, k)})
        total == SumFunctionOnSet(Contents, present)
    IN  ~ongoing /\ total < Width =>
            \A q \in 0..(Width - 1) :
                IF q >= total THEN NavigateAt(tree, q) = None
                ELSE \A k \in present :
                        NavigateAt(tree, q).key = k <=> q \in Below(k)..(Below(k) + Get(k) - 1)

\* The collection is a map with transactions (TransactionalMap).
Map == INSTANCE TransactionalMap WITH contents <- Contents, base <- origin

ImplementsMap == Map!Spec
=============================================================================
