-------------------------- MODULE CollectionVerifier --------------------------
(***************************************************************************)
(* A collection that knows a part of its tree: it learns from proofs, and  *)
(* forgets what is out of its scope after every change (verifiers.go,      *)
(* proof.go, update.go, scope.go, Collect of transaction.go).              *)
(*                                                                         *)
(* Every change is made to a full collection too, of which only the        *)
(* contents are kept here, in now: its tree is the one Canonical of module *)
(* Collection says it has.  A proof for a key is the path to the key's     *)
(* leaf in the full tree of some contents, so the contents stand for it;   *)
(* proofs come over the network, and share no memory with the tree.        *)
(*                                                                         *)
(* An update is code of the user.  Those here add, set or remove a key, or *)
(* move a value from a key to another; each checks first whether it can.   *)
(***************************************************************************)
EXTENDS Collection

CONSTANTS Scopes,
          Updates,      \* the updates of the users: records as of UpdateOK
          MaxHeld,      \* bound: prepared updates that are held
          MixedUse      \* the tree is collected while an update is held

UpdateOK(u) ==
    /\ u.kind \in {"add", "set", "remove", "move"}
    /\ u.key \in Keys /\ u.to \in Keys /\ u.val \in Vals

ASSUME VerifierConstantsOK ==
    /\ \A u \in Updates : UpdateOK(u)
    /\ \A s \in Scopes : s.all \in BOOLEAN /\ s.masks \subseteq Seq({1, 2})
    /\ MaxHeld \in Nat /\ MixedUse \in BOOLEAN

VARIABLES now,          \* the contents of the full collection
          held          \* Update values whose id is that of the transaction

verifierVars == <<vars, now, held>>

-----------------------------------------------------------------------------
(* Proofs.                                                                 *)

AllContents == [Keys -> Vals \cup {None}]

FullTree == [c \in AllContents |-> CanonicalOf(c)]

Unknown(label) == [Forget(NewPlaceholder) EXCEPT !.label = label]

\* dump.to: an unknown node becomes the node of full tree m at its place, if
\* that has its label; of the children of that node a proof has the labels.
Learn(t, p, m) ==
    IF t[p].known \/ t[p].label # m[p].label THEN t
    ELSE [q \in DOMAIN t \cup {q \in DOMAIN m : \E i \in 1..2 : q = Append(p, i)} |->
            IF q = p THEN [t[p] EXCEPT !.known = TRUE, !.key = m[p].key, !.val = m[p].val]
            ELSE IF q \in DOMAIN t THEN t[q] ELSE Unknown(m[q].label)]

\* The steps of a proof for k: at each depth a node and its sibling.
LearnPath(t, k, m) ==
    LET walk[d \in 0..Depth(m, k)] ==
            IF d = 0 THEN Learn(t, <<>>, m)
            ELSE LET p == At(k, d - 1)
                 IN  Learn(Learn(walk[d - 1], Append(p, 1), m), Append(p, 2), m)
    IN  walk[Depth(m, k)]

\* The tree after a proof for k from the full tree of contents c.
Learnt(k, c) == LearnPath(tree, k, FullTree[c])

\* The tree after the proofs of update u, one after the other.
LearntFor(u, c) ==
    LET learnt == Learnt(u.key, c)
    IN  IF u.kind = "move" THEN LearnPath(learnt, u.to, FullTree[c]) ELSE learnt

\* Verify and Prepare panic if the root is marked, and refuse a proof from
\* another root.
Accepts(c) == ~tree[<<>>].inc /\ FullTree[c][<<>>].label = tree[<<>>].label

-----------------------------------------------------------------------------
(* Updates.                                                                *)

\* userupdate.Check, with what Get answers for each key.
Check(u, contents) ==
    /\ u.kind = "add" <=> contents[u.key] = None
    /\ u.kind = "move" => contents[u.to] = None

\* The methods of the proxy on a tree; an error is ignored.
Added(t, k, v) ==
    IF Reaches(t, k) /\ Lookup(t, k) = None THEN AddAt(t, k, v, TRUE) ELSE t

Replaced(t, k, v) ==
    IF Reaches(t, k) /\ Lookup(t, k) # None THEN SetAt(t, k, v, TRUE) ELSE t

Removed(t, k) ==
    IF Reaches(t, k) /\ Lookup(t, k) # None THEN RemoveAt(t, k, TRUE) ELSE t

\* userupdate.Apply, within a transaction.
Updated(t, u) ==
    CASE u.kind = "add"    -> Added(t, u.key, u.val)
      [] u.kind = "set"    -> Replaced(t, u.key, u.val)
      [] u.kind = "remove" -> Removed(t, u.key)
      [] u.kind = "move"   -> Added(Removed(t, u.key), u.to, Lookup(t, u.key))

\* What the full collection has after the same.
After(u) ==
    CASE u.kind \in {"add", "set"} -> [now EXCEPT ![u.key] = u.val]
      [] u.kind = "remove" -> [now EXCEPT ![u.key] = None]
      [] u.kind = "move"   -> [now EXCEPT ![u.key] = None, ![u.to] = now[u.key]]

Passes(t, u) == Check(u, [k \in Keys |-> Lookup(t, k)])

\* applyupdate on tree t: a transaction of its own, unless one is going on.
Apply(t, u) ==
    IF ~Passes(t, u) THEN t
    ELSE IF ongoing THEN Updated(t, u)
    ELSE Ended(Updated(Named(t, TRUE), u))

\* The transaction of its own takes a new id; a check that fails takes none.
HeldAfter(t, u) == IF ongoing \/ ~Passes(t, u) THEN held ELSE {}

\* The full collection gets the update as well; its own check decides there.
Broadcast(u) ==
    /\ now' = IF Check(u, now) THEN After(u) ELSE now
    /\ origin' = IF ongoing THEN origin ELSE now'
    /\ UNCHANGED <<ongoing, scope>>

-----------------------------------------------------------------------------
(* Operations.                                                             *)

\* NewVerifier knows the root of an empty collection, by its label.
VerifierInit ==
    /\ tree = [p \in {<<>>} |-> Unknown(EmptyTree[<<>>].label)]
    /\ ongoing = FALSE
    /\ scope \in Scopes
    /\ now = [k \in Keys |-> None]
    /\ origin = now
    /\ held = {}

Verify(k, c) ==
    /\ Accepts(c)
    /\ tree' = Learnt(k, c)
    /\ UNCHANGED <<ongoing, scope, origin, now, held>>

Prepare(u, c) ==
    /\ Accepts(c)
    /\ Cardinality(held \cup {u}) <= MaxHeld
    /\ tree' = LearntFor(u, c)
    /\ held' = held \cup {u}
    /\ UNCHANGED <<ongoing, scope, origin, now>>

\* A write to an array that a backup shares: see module SharedArrays.
MayWrite(u) == u.kind = "set" => ~Shared(u.key)

\* A panic, if the update is of another transaction.
ApplyPrepared(u) ==
    /\ u \in held /\ MayWrite(u)
    /\ tree' = Apply(tree, u)
    /\ held' = HeldAfter(tree, u)
    /\ Broadcast(u)

ApplyUserUpdate(u, c) ==
    /\ Accepts(c) /\ MayWrite(u)
    /\ tree' = Apply(LearntFor(u, c), u)
    /\ held' = HeldAfter(LearntFor(u, c), u)
    /\ Broadcast(u)

\* Outside a transaction a call of a manipulator, or of Collect, forgets what
\* a prepared update needs, and leaves the transaction id as it is.
Careful == MixedUse \/ held = {}

Manipulate(k) ==
    /\ ongoing \/ Careful
    /\ \/ Remove(k) /\ now' = [now EXCEPT ![k] = None]
       \/ \E v \in Vals :
            (Add(k, v) \/ Set(k, v)) /\ now' = [now EXCEPT ![k] = v]
    /\ origin' = IF ongoing THEN origin ELSE now'
    /\ UNCHANGED held

CollectNow ==
    /\ MixedUse \/ (~ongoing /\ held = {})
    /\ tree' = Collected(tree)
    /\ UNCHANGED <<ongoing, scope, origin, now, held>>

Cloned(t) == [p \in DOMAIN t |-> [t[p] EXCEPT !.inc = FALSE, !.bak = NoTree]]

\* The verifier goes on with a copy of itself, whose transaction id is 0 again;
\* what was prepared belongs to the original, and is not applied to the copy.
Clone ==
    /\ ~ongoing
    /\ tree' = Cloned(tree)
    /\ held' = {}
    /\ UNCHANGED <<ongoing, scope, origin, now>>

VerifierBegin == Begin /\ UNCHANGED <<origin, now, held>>

VerifierRollback ==
    /\ Rollback
    /\ now' = origin
    /\ held' = {}
    /\ UNCHANGED origin

\* Mutant: the transaction id is not incremented.
EndSameId ==
    /\ End
    /\ origin' = now
    /\ UNCHANGED <<now, held>>

VerifierEnd ==
    /\ End
    /\ origin' = now
    /\ held' = {}
    /\ UNCHANGED now

VerifierNext ==
    \/ VerifierBegin \/ VerifierRollback \/ VerifierEnd
    \/ CollectNow \/ Clone
    \/ \E k \in Keys : Manipulate(k)
    \/ \E k \in Keys, c \in AllContents : Verify(k, c)
    \/ \E u \in Updates : ApplyPrepared(u)
    \/ \E u \in Updates, c \in AllContents : Prepare(u, c) \/ ApplyUserUpdate(u, c)

VerifierSpec == VerifierInit /\ [][VerifierNext]_verifierVars

-----------------------------------------------------------------------------
(* Properties.                                                             *)

\* Tree t is a part of tree m: the same nodes as far as they are known.  In a
\* transaction the labels and sums of marked nodes wait for its end.
PartOf(t, m) ==
    /\ DOMAIN t \subseteq DOMAIN m
    /\ \A p \in DOMAIN t :
        /\ (ongoing /\ t[p].inc) \/ (t[p].label = m[p].label /\ (~t[p].known \/ t[p].val = m[p].val))
        /\ ~t[p].known \/ (t[p].key = m[p].key /\ IsLeaf(t, p) = IsLeaf(m, p))

\* "Verifier has autonomously recomputed a new state": whatever a verifier
\* learns, forgets, applies and rolls back, its root has the label of the full
\* collection, and what it knows is what is there (README.md of collection).
VerifierFollows ==
    /\ ongoing \/ tree[<<>>].label = FullTree[now][<<>>].label
    /\ PartOf(tree, FullTree[now])

\* No mark is where confirm, fix and Rollback would miss it, also in a tree
\* that is partly known and partly forgotten, and no backup outlives its
\* transaction (transaction.go).
MarksAreFound == MarksReachRoot /\ BackupsAreDropped

\* Key k is in the scope.
Wanted(k) ==
    \/ scope.masks = {} /\ scope.all
    \/ \E mask \in scope.masks : \A i \in DOMAIN mask : mask[i] = Path[k][i]

\* What is in its scope a collection keeps: once it can prove and change an
\* association, or the absence of one, it always can, through all changes of
\* this and of other keys (Collect of transaction.go, scope.go).
ScopeIsServed ==
    [][\A k \in Keys : Wanted(k) /\ Reaches(tree, k) => Reaches(tree', k)]_verifierVars
=============================================================================
