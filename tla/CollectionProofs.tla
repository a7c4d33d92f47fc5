-------------------------- MODULE CollectionProofs --------------------------
(***************************************************************************)
(* The manipulators, the transactions and the navigation of module         *)
(* Collection, step by step, and the theorems: the collection is a map with *)
(* transactions, its tree depends on the contents only, and navigation is in*)
(* proportion to the stakes.                                               *)
(***************************************************************************)
EXTENDS CollectionTrees, FiniteSetTheorems

-----------------------------------------------------------------------------
(* The marks.                                                              *)

\* The parent of a node that is marked is marked.
Climbs(t) ==
    \A p \in DOMAIN t, i \in 1..2 :
        Append(p, i) \in DOMAIN t /\ t[Append(p, i)].inc = TRUE => t[p].inc = TRUE

\* A node that Rollback would find marked is marked.
Resumes(t) == \A p \in DOMAIN t : p \in DOMAIN t[p].bak /\ t[p].bak[p].inc = TRUE => t[p].inc = TRUE

BackupsClimb(t) ==
    /\ Resumes(t)
    /\ \E S : BackupsOf(t) \subseteq S /\ \A s \in S : Climbs(s) /\ Resumes(s) /\ BackupsOf(s) \subseteq S

Marking(t) == Climbs(t) /\ BackupsClimb(t)

\* The node on the path of k at depth m may be marked when its parent is not yet.
Awaited(t, p, i, k, m, tx) == tx /\ On(k, p) /\ Len(p) + 1 = m /\ ~IsLeaf(t, Append(p, i))

ClimbsTo(t, k, m, tx) ==
    \A p \in DOMAIN t, i \in 1..2 :
        Append(p, i) \in DOMAIN t /\ t[Append(p, i)].inc = TRUE =>
            t[p].inc = TRUE \/ Awaited(t, p, i, k, m, tx)

MarkingTo(t, k, m, tx) == ClimbsTo(t, k, m, tx) /\ BackupsClimb(t)

\* What is in a backup that is made: the nodes of the tree.
LEMMA SavedClimbs ==
    ASSUME NEW t, DOMAIN t \subseteq Positions, \A p \in DOMAIN t : IsNode(t[p]), NEW x \in DOMAIN t,
           t[x].bak = NoTree, Climbs(t), Resumes(t)
    PROVE  /\ Climbs(Saved(t, x)) /\ Resumes(Saved(t, x)) /\ BackupsOf(Saved(t, x)) \subseteq BackupsOf(t)
           /\ x \in DOMAIN Saved(t, x) /\ Saved(t, x)[x].inc = t[x].inc
<1> DEFINE s == Saved(t, x)
<1>1. IsNode(t[x]) /\ x \in Positions
  OBVIOUS
<1>2. /\ DOMAIN s = {q \in DOMAIN t : Under(x, q)} /\ x \in DOMAIN s
      /\ \A q \in DOMAIN s : q # x => s[q] = t[q]
      /\ Like(s[x], t[x], t[x].key, t[x].val, None, t[x].label, t[x].inc, t[x].bak)
  BY <1>1, SavedIs
<1> HIDE DEF s
<1>3. s[x].inc = t[x].inc /\ s[x].bak = t[x].bak
  BY <1>2 DEF Like
<1>4. ASSUME NEW p \in DOMAIN s PROVE p \in DOMAIN t /\ s[p].inc = t[p].inc /\ s[p].bak = t[p].bak
  <2>1. p \in DOMAIN t
    BY <1>2
  <2>2. CASE p = x
    BY <1>3, <2>1, <2>2
  <2>3. CASE p # x
    BY <1>2, <2>1, <2>3
  <2> QED
    BY <2>2, <2>3
<1>5. Climbs(s)
  <2> SUFFICES ASSUME NEW p \in DOMAIN s, NEW i \in 1..2, Append(p, i) \in DOMAIN s,
                      s[Append(p, i)].inc = TRUE
               PROVE  s[p].inc = TRUE
    BY DEF Climbs
  <2>1. t[Append(p, i)].inc = TRUE /\ Append(p, i) \in DOMAIN t /\ p \in DOMAIN t
    BY <1>4
  <2> QED
    BY <1>4, <2>1 DEF Climbs
<1>6. Resumes(s)
  BY <1>4 DEF Resumes
<1>7. BackupsOf(s) \subseteq BackupsOf(t)
  BY <1>4 DEF BackupsOf
<1> QED
  BY <1>2, <1>3, <1>5, <1>6, <1>7 DEF s

\* A change of one node leaves the marks as they should be.
LEMMA ChangedMarking ==
    ASSUME NEW s, NEW t, DOMAIN s \subseteq Positions, DOMAIN t \subseteq Positions,
           \A p \in DOMAIN t : IsNode(t[p]), NEW x, NEW tx, Changed(s, t, x, tx),
           Marking(t)
    PROVE  Marking(s)
<1>1. x \in DOMAIN t /\ x \in DOMAIN s /\ x \in Positions /\ s[x].bak = KeptBackup(t, x, tx)
  BY DEF Changed
<1>2. ASSUME NEW p \in DOMAIN s, p # x, ~Above(x, p) PROVE p \in DOMAIN t /\ s[p] = t[p] /\ ~Under(x, p)
  <2>1. ~Under(x, p)
    BY <1>1, <1>2, IsUnder
  <2> QED
    BY <2>1 DEF Changed
<1>3. Climbs(s)
  <2> SUFFICES ASSUME NEW p \in DOMAIN s, NEW i \in 1..2, Append(p, i) \in DOMAIN s,
                      s[Append(p, i)].inc = TRUE
               PROVE  s[p].inc = TRUE
    BY DEF Climbs
  <2>1. p \in Positions /\ Append(p, i) \in Positions
    OBVIOUS
  <2>2. ~Above(x, Append(p, i))
    BY DEF Changed
  <2>3. ~Under(x, p)
    BY <1>1, <2>1, <2>2, KidUnder
  <2>4. p \in DOMAIN t /\ s[p] = t[p]
    BY <2>1, <2>3 DEF Changed
  <2>5. Append(p, i) \in DOMAIN t /\ s[Append(p, i)].inc = t[Append(p, i)].inc
    <3>1. CASE Append(p, i) = x
      BY <1>1, <3>1 DEF Changed
    <3>2. CASE Append(p, i) # x
      BY <1>2, <2>2, <3>2
    <3> QED
      BY <3>1, <3>2
  <2> QED
    BY <2>4, <2>5 DEF Climbs, Marking
<1>4. Resumes(t) /\ Climbs(t)
  BY DEF Marking, BackupsClimb
<1>5. CASE tx /\ t[x].bak = NoTree
  <2> DEFINE b == Saved(t, x)
  <2>1. /\ Climbs(b) /\ Resumes(b) /\ BackupsOf(b) \subseteq BackupsOf(t)
        /\ x \in DOMAIN b /\ b[x].inc = t[x].inc
    BY <1>1, <1>4, <1>5, SavedClimbs
  <2>2. s[x].bak = b
    BY <1>1, <1>5 DEF KeptBackup
  <2> HIDE DEF b
  <2>3. Resumes(s)
    <3> SUFFICES ASSUME NEW p \in DOMAIN s, p \in DOMAIN s[p].bak, s[p].bak[p].inc = TRUE
                 PROVE  s[p].inc = TRUE
      BY DEF Resumes
    <3>1. CASE p = x
      BY <2>1, <2>2, <3>1 DEF Changed
    <3>2. CASE p # x
      <4>1. ~Above(x, p)
        BY NoTreeIsEmpty DEF Changed
      <4> QED
        BY <1>2, <1>4, <3>2, <4>1 DEF Resumes
    <3> QED
      BY <3>1, <3>2
  <2>4. PICK S : BackupsOf(t) \subseteq S /\ \A r \in S : Climbs(r) /\ Resumes(r) /\ BackupsOf(r) \subseteq S
    BY DEF Marking, BackupsClimb
  <2>5. BackupsOf(s) \subseteq S \cup {b}
    <3> SUFFICES ASSUME NEW p \in DOMAIN s, s[p].bak # NoTree, p # x PROVE s[p].bak \in S
      BY <2>2 DEF BackupsOf
    <3>1. ~Above(x, p)
      BY DEF Changed
    <3> QED
      BY <1>2, <2>4, <3>1 DEF BackupsOf
  <2>6. \A r \in S \cup {b} : Climbs(r) /\ Resumes(r) /\ BackupsOf(r) \subseteq S \cup {b}
    BY <2>1, <2>4
  <2> QED
    BY <1>3, <2>3, <2>5, <2>6 DEF Marking, BackupsClimb
<1>6. CASE ~(tx /\ t[x].bak = NoTree)
  <2>1. s[x].bak = t[x].bak
    BY <1>1, <1>6 DEF KeptBackup
  <2>2. ASSUME NEW p \in DOMAIN s, s[p].bak # NoTree PROVE p \in DOMAIN t /\ s[p].bak = t[p].bak /\ s[p].inc = t[p].inc
    <3>1. CASE p = x
      BY <1>1, <2>1, <3>1 DEF Changed
    <3>2. CASE p # x
      <4>1. ~Above(x, p)
        BY <2>2 DEF Changed
      <4> QED
        BY <1>2, <3>2, <4>1
    <3> QED
      BY <3>1, <3>2
  <2>3. Resumes(s)
    <3> SUFFICES ASSUME NEW p \in DOMAIN s, p \in DOMAIN s[p].bak, s[p].bak[p].inc = TRUE
                 PROVE  s[p].inc = TRUE
      BY DEF Resumes
    <3>1. s[p].bak # NoTree
      BY NoTreeIsEmpty
    <3> QED
      BY <1>4, <2>2, <3>1 DEF Resumes
  <2>4. BackupsOf(s) \subseteq BackupsOf(t)
    BY <2>2 DEF BackupsOf
  <2>5. PICK S : BackupsOf(t) \subseteq S /\ \A r \in S : Climbs(r) /\ Resumes(r) /\ BackupsOf(r) \subseteq S
    BY DEF Marking, BackupsClimb
  <2>6. BackupsOf(s) \subseteq S
    BY <2>4, <2>5
  <2> QED
    BY <1>3, <2>3, <2>5, <2>6 DEF Marking, BackupsClimb
<1> QED
  BY <1>5, <1>6

\* s has the marks and the backups of t.
SameMarks(s, t) ==
    DOMAIN s = DOMAIN t /\ \A p \in DOMAIN t : s[p].inc = t[p].inc /\ s[p].bak = t[p].bak

\* The data of the nodes does not matter to the marks.
LEMMA SameMarking ==
    ASSUME NEW s, NEW t, SameMarks(s, t), Marking(t)
    PROVE  Marking(s)
<1>1. DOMAIN s = DOMAIN t /\ \A p \in DOMAIN t : s[p].inc = t[p].inc /\ s[p].bak = t[p].bak
  BY DEF SameMarks
<1>2. Climbs(s)
  BY <1>1 DEF Climbs, Marking
<1>3. Resumes(s)
  BY <1>1 DEF Resumes, Marking, BackupsClimb
<1>4. BackupsOf(s) = BackupsOf(t)
  BY <1>1 DEF BackupsOf
<1> QED
  BY <1>2, <1>3, <1>4 DEF Marking, BackupsClimb

\* When nothing is awaited the marks are as they should be.
LEMMA MarkingFrom ==
    ASSUME NEW t, DOMAIN t \subseteq Positions, NEW k, NEW m \in Nat, NEW tx
    PROVE  /\ Marking(t) => MarkingTo(t, k, m, tx)
           /\ MarkingTo(t, k, 0, tx) => Marking(t)
<1>1. Marking(t) => MarkingTo(t, k, m, tx)
  BY DEF Marking, MarkingTo, Climbs, ClimbsTo
<1>2. ASSUME MarkingTo(t, k, 0, tx) PROVE Marking(t)
  <2>1. ASSUME NEW p \in DOMAIN t, NEW i \in 1..2 PROVE ~Awaited(t, p, i, k, 0, tx)
    <3>1. Len(p) \in Nat
      BY PositionIsSeq
    <3> QED
      BY <3>1 DEF Awaited
  <2> QED
    BY <1>2, <2>1 DEF Marking, MarkingTo, Climbs, ClimbsTo
<1> QED
  BY <1>1, <1>2

\* When the node that is next has no child but leaves nothing is awaited.
LEMMA MarkingAtLeaves ==
    ASSUME NEW t, DOMAIN t \subseteq Positions, NEW k, NEW m \in Nat, NEW tx, MarkingTo(t, k, m + 1, tx),
           NEW x, On(k, x), Len(x) = m, \A i \in 1..2 : IsLeaf(t, Append(x, i))
    PROVE  Marking(t)
<1>1. ASSUME NEW p \in DOMAIN t, NEW i \in 1..2 PROVE ~Awaited(t, p, i, k, m + 1, tx)
  <2>1. Len(p) \in Nat
    BY PositionIsSeq
  <2>2. Awaited(t, p, i, k, m + 1, tx) => On(k, p) /\ Len(p) = m /\ ~IsLeaf(t, Append(p, i))
    BY <2>1 DEF Awaited
  <2>3. On(k, p) /\ Len(p) = m => p = x
    BY DEF On
  <2> QED
    BY <2>2, <2>3
<1> QED
  BY <1>1 DEF Marking, MarkingTo, Climbs, ClimbsTo

\* An ancestor is marked, or updated.
LEMMA AscendMarking ==
    ASSUME NEW t, NEW inner, NEW contents, NEW k \in Keys, NEW m \in Nat, NEW tx \in BOOLEAN,
           Mid(t, inner, contents, k, m + 1, tx), NEW x \in inner, On(k, x), Len(x) = m,
           MarkingTo(t, k, m + 1, tx), NEW s, s = Ascend(t, x, tx)
    PROVE  MarkingTo(s, k, m, tx)
<1>1. /\ DOMAIN t = NodesFor(inner) /\ DOMAIN t \subseteq Positions /\ InnerSet(inner)
      /\ \A q \in DOMAIN t : /\ IsNode(t[q]) /\ t[q].known = TRUE
                             /\ IsLeaf(t, q) <=> q \notin inner
                             /\ IsLeaf(t, q) <=> Append(q, 2) \notin DOMAIN t
  BY MidTree
<1>2. x \in DOMAIN t /\ x \in Positions /\ ~IsLeaf(t, x)
  BY <1>1, NodesArePositions
<1>3. \A i \in 1..2 : Append(x, i) \in DOMAIN t
  BY <1>1, <1>2, BothKids
<1>4. \A i \in 1..2 : t[Append(x, i)].known = TRUE
  BY <1>1, <1>3
<1>5. /\ DiffersAt(s, t, x) /\ s[x].bak = t[x].bak /\ (tx => s[x].inc = TRUE)
      /\ ~tx => s[x].inc = t[x].inc
  <2> DEFINE l == t[Append(x, 1)]
             r == t[Append(x, 2)]
             sum == Parent(l.val, r.val)
  <2>1. /\ DiffersAt(s, t, x)
        /\ IF tx THEN Like(s[x], t[x], t[x].key, t[x].val, t[x].array, t[x].label, TRUE, t[x].bak)
                 ELSE Like(s[x], t[x], t[x].key, sum, None, NodeLabel(sum, l.label, r.label),
                           t[x].inc, t[x].bak)
    BY <1>1, <1>2, <1>4, AscendIs
  <2> HIDE DEF sum
  <2> QED
    BY <2>1 DEF Like
<1>6. DOMAIN s = DOMAIN t /\ \A q \in DOMAIN t : q # x => s[q] = t[q]
  BY <1>5 DEF DiffersAt
<1>7. \A q : IsLeaf(s, q) <=> IsLeaf(t, q)
  BY <1>6 DEF IsLeaf
<1>8. ClimbsTo(s, k, m, tx)
  <2> SUFFICES ASSUME NEW p \in DOMAIN t, NEW i \in 1..2, Append(p, i) \in DOMAIN t,
                      s[Append(p, i)].inc = TRUE, s[p].inc # TRUE
               PROVE  Awaited(s, p, i, k, m, tx)
    BY <1>6 DEF ClimbsTo
  <2>1. p \in Positions /\ Append(p, i) \in Positions /\ Len(p) \in Nat
    BY <1>1, PositionIsSeq
  <2>2. Len(Append(p, i)) = Len(p) + 1 /\ Above(p, Append(p, i))
    BY <2>1, KidUnder, Kid
  <2>3. CASE tx /\ Append(p, i) = x
    <3>1. On(k, p)
      BY <1>2, <2>1, <2>2, <2>3, OnUnder DEF Above
    <3> QED
      BY <1>2, <1>7, <2>2, <2>3, <3>1 DEF Awaited
  <2>4. CASE ~(tx /\ Append(p, i) = x)
    <3>1. t[Append(p, i)].inc = TRUE
      BY <1>5, <1>6, <2>4
    <3>2. t[p].inc # TRUE /\ ~(tx /\ p = x)
      BY <1>5, <1>6
    <3>3. Awaited(t, p, i, k, m + 1, tx)
      BY <3>1, <3>2 DEF MarkingTo, ClimbsTo
    <3>4. On(k, p) /\ Len(p) = m /\ tx
      BY <2>1, <3>3 DEF Awaited
    <3>5. p = x
      BY <3>4 DEF On
    <3> QED
      BY <3>2, <3>4, <3>5
  <2> QED
    BY <2>3, <2>4
<1>9. Resumes(t)
  BY DEF MarkingTo, BackupsClimb
<1>10. Resumes(s)
  <2> SUFFICES ASSUME NEW p \in DOMAIN t, p \in DOMAIN s[p].bak, s[p].bak[p].inc = TRUE
               PROVE  s[p].inc = TRUE
    BY <1>6 DEF Resumes
  <2>1. s[p].bak = t[p].bak
    BY <1>5, <1>6
  <2>2. t[p].inc = TRUE
    BY <1>9, <2>1 DEF Resumes
  <2> QED
    BY <1>5, <1>6, <2>2
<1>11. BackupsOf(s) = BackupsOf(t)
  <2>1. \A p \in DOMAIN t : s[p].bak = t[p].bak
    BY <1>5, <1>6
  <2> QED
    BY <1>6, <2>1 DEF BackupsOf
<1> QED
  BY <1>8, <1>10, <1>11 DEF MarkingTo, BackupsClimb

-----------------------------------------------------------------------------
(* Splits and collapses.                                                   *)

\* The leaf on the path of k makes room.
LEMMA SplitMid ==
    ASSUME NEW t, NEW inner, NEW contents, NEW k \in Keys, NEW n \in Nat, NEW tx \in BOOLEAN,
           Mid(t, inner, contents, k, n, tx), n <= Depth(t, k), contents[k] = None,
           ~IsPlaceholder(t, Leaf(t, k))
    PROVE  LET x == Leaf(t, k)
               s == Split(t, x, tx)
           IN  /\ Mid(s, inner \cup {x}, contents, k, Depth(t, k) + 1, tx) /\ Changed(s, t, x, tx)
               /\ Depth(s, k) = Depth(t, k) + 1
               /\ \E l \in Present(contents) : l # k /\ On(l, x)
<1> DEFINE x == Leaf(t, k)
           s == Split(t, x, tx)
           m == Depth(t, k) + 1
           l == t[x].key
           wide == inner \cup {x}
<1>1. /\ DOMAIN t = NodesFor(inner) /\ DOMAIN t \subseteq Positions /\ InnerSet(inner)
      /\ Shape(t, inner, contents)
      /\ \A q \in DOMAIN t : IsNode(t[q]) /\ Fits(t, q, tx) /\ (IsLeaf(t, q) <=> q \notin inner)
  BY MidTree DEF Mid
<1>2. /\ x \in NodesFor(inner) \ inner /\ x \in Positions /\ x # <<>> /\ On(k, x)
      /\ Len(x) = Depth(t, k) /\ Depth(t, k) \in 1..Bits /\ IsLeaf(t, x)
  <2>1. /\ x \in NodesFor(inner) \ inner /\ x \in Positions /\ x # <<>> /\ On(k, x)
        /\ Len(x) = Depth(t, k) /\ Depth(t, k) \in 1..Bits
    BY <1>1, WalkEnds
  <2> QED
    BY <1>1, <2>1
<1>3. l # None
  BY <1>2 DEF IsPlaceholder
<1> HIDE DEF x
<1>4. /\ l \in Present(contents) /\ l \in Keys /\ l # k /\ On(l, x) /\ t[x].val = contents[l]
      /\ \A j \in Present(contents) : On(j, x) => j = l
  BY <1>1, <1>2, <1>3, LeafHolds DEF Present
<1> HIDE DEF l
<1>5. Len(x) < Bits
  BY <1>2, <1>4, PathsPart
<1>6. /\ InnerSet(wide) /\ NodesFor(wide) = NodesFor(inner) \cup {Append(x, 1), Append(x, 2)}
      /\ Append(x, 1) \notin DOMAIN t /\ Append(x, 2) \notin DOMAIN t
  BY <1>1, <1>2, <1>5, MoreInner
<1>7. \A j \in 1..2 : Append(x, j) \in Positions /\ (j = 1 \/ j = 2) /\ Append(x, j) # x
  BY <1>2, <1>5, Kid
<1> DEFINE i == Path[l][Len(x) + 1]
<1>8. i \in 1..2 /\ On(l, Append(x, i)) /\ \A j \in 1..2 : On(l, Append(x, j)) => j = i
  <2>1. 1 \in 1..2
    OBVIOUS
  <2>2. i \in 1..2
    BY <1>2, <1>4, <1>7, <2>1, OnKid
  <2> QED
    BY <1>2, <1>4, <1>7, <2>2, OnKid
<1>9. /\ DOMAIN s = DOMAIN t \cup {Append(x, 1), Append(x, 2)}
      /\ \A q \in DOMAIN t : q # x => s[q] = t[q]
      /\ Like(s[x], t[x], None, t[x].val, t[x].array, t[x].label, t[x].inc, KeptBackup(t, x, tx))
      /\ s[Append(x, i)] = NewLeaf(l, t[x].val, t[x].array, t[x].label)
      /\ \A j \in 1..2 : j # i => s[Append(x, j)] = NewPlaceholder
  <2>1. IsNode(t[x]) /\ x \in DOMAIN t /\ Path[t[x].key][Len(x) + 1] = i
    BY <1>1, <1>2 DEF l
  <2>2. s = Split(t, x, tx)
    OBVIOUS
  <2> HIDE DEF i, s
  <2>3. Splits(s, t, x, i, tx)
    BY <1>2, <1>6, <1>8, <2>1, <2>2, SplitIs
  <2> QED
    BY <2>3 DEF l, Splits
<1> HIDE DEF s, i, m, wide
<1>10. ASSUME NEW j \in 1..2
       PROVE  /\ IsNode(s[Append(x, j)]) /\ s[Append(x, j)].known = TRUE
              /\ s[Append(x, j)].inc = FALSE /\ s[Append(x, j)].bak = NoTree
              /\ s[Append(x, j)].label = LeafLabel(s[Append(x, j)].key, s[Append(x, j)].val)
              /\ IF j = i
                 THEN /\ s[Append(x, j)].key = l /\ s[Append(x, j)].val = t[x].val
                      /\ s[Append(x, j)].array = t[x].array
                 ELSE /\ s[Append(x, j)].key = None /\ s[Append(x, j)].val = 0
                      /\ s[Append(x, j)].array = None
  <2> DEFINE y == s[Append(x, j)]
  <2>1. CASE j = i
    <3>1. y = NewLeaf(l, t[x].val, t[x].array, t[x].label)
      BY <1>9, <2>1
    <3>2. t[x].label = LeafLabel(l, t[x].val)
      BY <1>1, <1>2 DEF Fits, l
    <3> HIDE DEF y
    <3>3. /\ IsNode(y) /\ y.known = TRUE /\ y.key = l /\ y.val = t[x].val
          /\ y.array = t[x].array /\ y.label = t[x].label /\ y.inc = FALSE /\ y.bak = NoTree
      BY <3>1 DEF NewLeaf, IsNode
    <3> QED
      BY <2>1, <3>2, <3>3 DEF y
  <2>2. CASE j # i
    <3>1. y = NewLeaf(None, 0, None, LeafLabel(None, 0))
      BY <1>9, <2>2 DEF NewPlaceholder
    <3> HIDE DEF y
    <3>3. /\ IsNode(y) /\ y.known = TRUE /\ y.key = None /\ y.val = 0
          /\ y.array = None /\ y.label = LeafLabel(None, 0) /\ y.inc = FALSE /\ y.bak = NoTree
      BY <3>1 DEF NewLeaf, IsNode
    <3> QED
      BY <2>2, <3>3 DEF y
  <2> QED
    BY <2>1, <2>2
<1>11. \A q \in DOMAIN s : q \in DOMAIN t \/ \E j \in 1..2 : q = Append(x, j)
  <2>1. 1 \in 1..2 /\ 2 \in 1..2
    OBVIOUS
  <2> QED
    BY <1>9, <2>1
<1>12. DOMAIN s = NodesFor(wide) /\ DOMAIN s \subseteq Positions
  <2>1. DOMAIN s = NodesFor(wide)
    BY <1>1, <1>6, <1>9
  <2> QED
    BY <1>6, <2>1, NodesArePositions
<1>13. \A q \in DOMAIN s : IsLeaf(s, q) <=> q \notin wide
  BY <1>6, <1>12, LeafIsOuter
<1>14. ASSUME NEW j \in 1..2 PROVE Append(x, j) \notin inner /\ Append(x, j) \notin wide
  <2>1. Append(x, j) \notin inner
    BY <1>1, <1>6, <1>7, NodesArePositions
  <2> QED
    BY <1>7, <2>1 DEF wide
<1>15. Shape(s, wide, contents)
  <2>1. ASSUME NEW q \in wide PROVE s[q].key = None
    <3>1. CASE q = x
      BY <1>9, <3>1 DEF Like
    <3>2. CASE q # x
      <4>1. q \in inner /\ q \in DOMAIN t
        BY <1>1, <3>2, NodesArePositions DEF wide
      <4> QED
        BY <1>1, <1>9, <3>2, <4>1 DEF Shape
    <3> QED
      BY <3>1, <3>2
  <2>2. ASSUME NEW q \in NodesFor(wide) \ wide PROVE Holds(s[q], q, contents)
    <3>1. CASE q \in DOMAIN t
      <4>1. q \in NodesFor(inner) \ inner /\ q # x
        BY <1>1, <3>1 DEF wide
      <4>2. s[q] = t[q]
        BY <1>9, <3>1, <4>1
      <4> QED
        BY <1>1, <4>1, <4>2 DEF Shape
    <3>2. CASE q \notin DOMAIN t
      <4>1. PICK j \in 1..2 : q = Append(x, j)
        BY <1>11, <1>12, <3>2
      <4>2. ASSUME NEW h \in Present(contents), On(h, q) PROVE h = l /\ j = i
        <5>1. h \in Keys
          BY DEF Present
        <5>2. On(h, x)
          BY <1>2, <1>7, <4>1, <4>2, <5>1, OnKid
        <5>3. h = l
          BY <1>4, <5>2
        <5> QED
          BY <1>8, <4>1, <4>2, <5>3
      <4>3. CASE j = i
        <5>1. On(l, q)
          BY <1>8, <4>1, <4>3
        <5>2. s[q].key = l /\ s[q].val = contents[l]
          BY <1>4, <1>10, <4>1, <4>3
        <5> QED
          BY <1>4, <4>2, <5>1, <5>2 DEF Holds
      <4>4. CASE j # i
        <5>1. s[q].key = None /\ s[q].val = 0
          BY <1>10, <4>1, <4>4
        <5> QED
          BY <4>2, <4>4, <5>1 DEF Holds
      <4> QED
        BY <4>3, <4>4
    <3> QED
      BY <3>1, <3>2
  <2> QED
    BY <1>12, <2>1, <2>2 DEF Shape
<1>16. Fits(t, x, tx) /\ NodeOK(t[x])
  BY <1>1, <1>2 DEF Fits
<1>17. ASSUME NEW q \in DOMAIN s PROVE Fits(s, q, tx)
  <2>1. CASE q \in DOMAIN t /\ q # x
    <3>1. s[q] = t[q] /\ Fits(t, q, tx)
      BY <1>1, <1>9, <2>1
    <3>2. IsLeaf(s, q) <=> IsLeaf(t, q)
      BY <1>1, <1>13, <2>1 DEF wide
    <3> QED
      BY <3>1, <3>2 DEF Fits
  <2>2. CASE q = x
    <3>1. ~IsLeaf(s, x)
      BY <1>13, <2>2 DEF wide
    <3>2. /\ KeptBackup(t, x, tx) # NoTree =>
                /\ tx /\ x \in DOMAIN KeptBackup(t, x, tx) /\ KeptBackup(t, x, tx)[x].bak = NoTree
                /\ \A r \in DOMAIN KeptBackup(t, x, tx) : Under(x, r)
          /\ tx => KeptBackup(t, x, tx) # NoTree
      BY <1>1, <1>2, <1>16, KeptFits
    <3>3. /\ IsNode(s[x]) /\ s[x].known = t[x].known /\ s[x].key = None /\ s[x].val = t[x].val
          /\ s[x].array = t[x].array /\ s[x].inc = t[x].inc /\ s[x].bak = KeptBackup(t, x, tx)
      BY <1>9 DEF Like
    <3>4. NodeOK(s[x]) /\ s[x].known = TRUE
      BY <1>16, <3>3 DEF NodeOK, Fits
    <3>5. t[x].array # None => tx
      BY <1>16 DEF Fits
    <3> QED
      BY <1>2, <2>2, <3>1, <3>2, <3>3, <3>4, <3>5 DEF Fits
  <2>3. CASE q \notin DOMAIN t
    <3>1. PICK j \in 1..2 : q = Append(x, j)
      BY <1>11, <2>3
    <3>2. t[x].array \in {None, l} /\ (t[x].array # None => tx)
      BY <1>2, <1>16 DEF Fits, l
    <3>3. 0 \in 0..(Width - 1)
      BY StakesFit
    <3>4. /\ s[q].known = TRUE /\ s[q].inc = FALSE /\ s[q].bak = NoTree /\ IsNode(s[q])
          /\ s[q].label = LeafLabel(s[q].key, s[q].val)
          /\ s[q].key \in Keys \cup {None} /\ s[q].array \in {None, s[q].key}
          /\ s[q].val \in {0, t[x].val} /\ (s[q].array # None => tx)
      BY <1>4, <1>10, <3>1, <3>2
    <3>5. NodeOK(s[q])
      <4>1. s[q].known \in BOOLEAN /\ s[q].inc \in BOOLEAN
            /\ (s[q].known \/ (s[q].key = None /\ s[q].val = 0))
        BY <3>4
      <4>2. s[q].key \in Keys \cup {None} /\ s[q].array \in Keys \cup {None}
        BY <3>4
      <4>3. s[q].val \in 0..(Width - 1)
        BY <1>16, <3>3, <3>4 DEF NodeOK
      <4> QED
        BY <4>1, <4>2, <4>3 DEF NodeOK
    <3>6. IsLeaf(s, q)
      BY <1>13, <1>14, <3>1
    <3> QED
      BY <3>4, <3>5, <3>6 DEF Fits
  <2> QED
    BY <2>1, <2>2, <2>3
<1>18. Changed(s, t, x, tx)
  <2>1. ASSUME NEW q \in Positions, ~Under(x, q)
        PROVE  (q \in DOMAIN s <=> q \in DOMAIN t) /\ (q \in DOMAIN t => s[q] = t[q])
    <3>1. q # x
      BY <1>2, <2>1, UnderIs
    <3>2. ASSUME NEW j \in 1..2 PROVE Under(x, Append(x, j))
      BY <1>2, <1>7, <3>2, KidUnder DEF Above
    <3>3. \A j \in 1..2 : q # Append(x, j)
      BY <2>1, <3>2
    <3> QED
      BY <1>9, <1>11, <3>1, <3>3
  <2>2. ASSUME NEW q \in DOMAIN s, Above(x, q)
        PROVE  IsLeaf(s, q) /\ s[q].inc = FALSE /\ s[q].bak = NoTree
    <3>1. q \notin DOMAIN t
      BY <1>1, <1>2, <2>2, LeafEnds
    <3>2. PICK j \in 1..2 : q = Append(x, j)
      BY <1>11, <3>1
    <3> QED
      BY <1>10, <1>13, <1>14, <3>2
  <2>3. s[x].inc = t[x].inc /\ s[x].bak = KeptBackup(t, x, tx)
    BY <1>9 DEF Like
  <2> QED
    BY <1>1, <1>2, <1>9, <2>1, <2>2, <2>3 DEF Changed
<1>19. Mid(s, wide, contents, k, m, tx)
  <2>1. m \in Nat /\ n <= Len(x) + 1 /\ Len(x) <= m /\ Len(x) < m
    BY <1>2 DEF m
  <2> QED
    BY <1>2, <1>6, <1>15, <1>17, <1>18, <2>1, MidChanged
<1>20. Depth(s, k) = m
  <2>1. /\ Depth(s, k) \in 1..Bits
        /\ \A d \in 0..Bits : At(k, d) \in wide <=> d < Depth(s, k)
    BY <1>6, <1>12, WalkEnds
  <2>2. \A d \in 0..Bits : At(k, d) \in inner <=> d < Depth(t, k)
    BY <1>1, WalkEnds
  <2>3. At(k, Len(x)) = x /\ Len(x) \in 0..Bits /\ Len(x) + 1 \in 0..Bits /\ Bits \in Nat
    BY <1>2, <1>5, PathsDiffer DEF On
  <2>4. Len(x) < Depth(s, k)
    BY <2>1, <2>3 DEF wide
  <2>5. ~(Len(x) + 1 < Depth(s, k))
    <3>1. At(k, Len(x) + 1) # x
      <4>1. Len(At(k, Len(x) + 1)) = Len(x) + 1
        BY <2>3, AtIs
      <4> QED
        BY <2>3, <4>1
    <3>2. At(k, Len(x) + 1) \notin inner
      BY <1>2, <2>2, <2>3
    <3> QED
      BY <2>1, <2>3, <3>1, <3>2 DEF wide
  <2> QED
    BY <1>2, <2>1, <2>3, <2>4, <2>5 DEF m
<1> QED
  BY <1>4, <1>18, <1>19, <1>20 DEF s, x, m, wide

\* A leaf alone below a node takes its place.
LEMMA CollapseMid ==
    ASSUME NEW t, NEW inner, NEW contents, NEW k \in Keys, NEW m \in Nat, NEW tx \in BOOLEAN,
           Mid(t, inner, contents, k, m + 1, tx), NEW p \in inner, p # <<>>, On(k, p), Len(p) = m,
           OnlyChild(t, p), NEW s, s = Collapse(t, p, tx)
    PROVE  Mid(s, inner \ {p}, contents, k, m, tx) /\ Changed(s, t, p, tx)
<1> DEFINE less == inner \ {p}
<1>1. /\ DOMAIN t = NodesFor(inner) /\ DOMAIN t \subseteq Positions /\ InnerSet(inner)
      /\ Shape(t, inner, contents)
      /\ \A q \in DOMAIN t : IsNode(t[q]) /\ Fits(t, q, tx) /\ (IsLeaf(t, q) <=> q \notin inner)
  BY MidTree DEF Mid
<1>2. p \in DOMAIN t /\ p \in Positions /\ Len(p) < Bits
  BY <1>1, NodesArePositions DEF InnerSet
<1>3. PICK i \in 1..2 : Collapses(s, t, p, i, tx)
  <2>1. \E i \in 1..2 : Collapses(Collapse(t, p, tx), t, p, i, tx)
    BY <1>1, <1>2, CollapseIs
  <2> QED
    BY <2>1
<1> DEFINE other == Append(p, 3 - i)
           kept == t[other]
<1>4. /\ DOMAIN s = DOMAIN t \ {Append(p, 1), Append(p, 2)} /\ p \in DOMAIN s
      /\ \A q \in DOMAIN s : q # p => s[q] = t[q]
      /\ IsPlaceholder(t, Append(p, i)) /\ IsLeaf(t, other)
      /\ Like(s[p], t[p], kept.key, kept.val, kept.array, kept.label, t[p].inc, KeptBackup(t, p, tx))
  BY <1>3 DEF Collapses
<1>5. \A j \in 1..2 : (j = i \/ j = 3 - i) /\ 3 - i \in 1..2
  OBVIOUS
<1>6. \A j \in 1..2 : Append(p, j) \in Positions /\ Append(p, j) \in DOMAIN t
  BY <1>1, <1>2, Kid, NodesArePositions
<1>7. \A j \in 1..2 : IsLeaf(t, Append(p, j)) /\ Append(p, j) \notin inner
  <2>1. IsLeaf(t, Append(p, i))
    BY <1>4 DEF IsPlaceholder
  <2> QED
    BY <1>1, <1>4, <1>5, <1>6, <2>1
<1>8. /\ InnerSet(less) /\ NodesFor(less) = NodesFor(inner) \ {Append(p, 1), Append(p, 2)}
      /\ p \in NodesFor(less)
  BY <1>1, <1>7, LessInner
<1> HIDE DEF less, other
<1>9. DOMAIN s = NodesFor(less) /\ DOMAIN s \subseteq Positions
  BY <1>1, <1>4, <1>8
<1>10. \A q \in DOMAIN s : IsLeaf(s, q) <=> q \notin less
  BY <1>8, <1>9, LeafIsOuter
<1>11. other \in NodesFor(inner) \ inner /\ Append(p, i) \in NodesFor(inner) \ inner
       /\ other \in DOMAIN t /\ IsLeaf(t, other)
  BY <1>1, <1>5, <1>6, <1>7 DEF other
<1>12. Shape(s, less, contents)
  <2>1. ASSUME NEW q \in less PROVE s[q].key = None
    <3>1. q \in inner /\ q # p /\ q \in DOMAIN s
      BY <1>8, <1>9, <2>1, NodesArePositions DEF less
    <3> QED
      BY <1>1, <1>4, <3>1 DEF Shape
  <2>2. ASSUME NEW q \in NodesFor(less) \ less PROVE Holds(s[q], q, contents)
    <3>1. CASE q # p
      <4>1. q \in NodesFor(inner) \ inner /\ s[q] = t[q]
        BY <1>4, <1>8, <1>9, <3>1 DEF less
      <4> QED
        BY <1>1, <4>1 DEF Shape
    <3>2. CASE q = p
      <4>1. s[p].key = kept.key /\ s[p].val = kept.val
        BY <1>4 DEF Like
      <4>2. \A l \in Present(contents) : ~On(l, Append(p, i))
        BY <1>1, <1>4, <1>11, LeafHolds DEF IsPlaceholder
      <4>3. Holds(kept, other, contents)
        BY <1>1, <1>11 DEF Shape
      <4>4. ASSUME NEW l \in Present(contents) PROVE On(l, p) <=> On(l, other)
        <5>1. l \in Keys
          BY DEF Present
        <5>2. \A j \in 1..2 : /\ Path[l][Len(p) + 1] \in 1..2
                              /\ On(l, Append(p, j)) <=> On(l, p) /\ Path[l][Len(p) + 1] = j
          BY <1>2, <1>6, <5>1, OnKid
        <5>3. ~On(l, Append(p, i))
          BY <4>2
        <5> QED
          BY <1>5, <5>2, <5>3 DEF other
      <4> QED
        BY <3>2, <4>1, <4>3, <4>4 DEF Holds
    <3> QED
      BY <3>1, <3>2
  <2> QED
    BY <1>9, <2>1, <2>2 DEF Shape
<1>13. ASSUME NEW q \in DOMAIN s PROVE Fits(s, q, tx)
  <2>1. q \in DOMAIN t /\ Fits(t, q, tx)
    BY <1>1, <1>4
  <2>2. CASE q # p
    <3>1. s[q] = t[q] /\ (IsLeaf(s, q) <=> IsLeaf(t, q))
      BY <1>1, <1>4, <1>10, <2>1, <2>2 DEF less
    <3> QED
      BY <2>1, <3>1 DEF Fits
  <2>3. CASE q = p
    <3>1. Fits(t, p, tx) /\ Fits(t, other, tx)
      BY <1>1, <1>2, <1>11
    <3>2. /\ KeptBackup(t, p, tx) # NoTree =>
                /\ tx /\ p \in DOMAIN KeptBackup(t, p, tx) /\ KeptBackup(t, p, tx)[p].bak = NoTree
                /\ \A r \in DOMAIN KeptBackup(t, p, tx) : Under(p, r)
          /\ tx => KeptBackup(t, p, tx) # NoTree
      BY <1>1, <1>2, <3>1, KeptFits
    <3>3. /\ IsNode(s[p]) /\ s[p].known = t[p].known /\ s[p].key = kept.key /\ s[p].val = kept.val
          /\ s[p].array = kept.array /\ s[p].label = kept.label
          /\ s[p].inc = t[p].inc /\ s[p].bak = KeptBackup(t, p, tx)
      BY <1>4 DEF Like
    <3>4. /\ kept.label = LeafLabel(kept.key, kept.val) /\ kept.array \in {None, kept.key}
          /\ (kept.array # None => tx)
      BY <1>11, <3>1 DEF Fits
    <3>5. NodeOK(t[p]) /\ NodeOK(kept) /\ t[p].known = TRUE
      BY <3>1 DEF Fits
    <3>6. NodeOK(s[p]) /\ s[p].known = TRUE
      <4>1. s[p].known = TRUE /\ s[p].inc \in BOOLEAN /\ (s[p].known \/ (s[p].key = None /\ s[p].val = 0))
        BY <3>3, <3>5 DEF NodeOK
      <4>2. s[p].key \in Keys \cup {None} /\ s[p].array \in Keys \cup {None} /\ s[p].val \in 0..(Width - 1)
        BY <3>3, <3>5 DEF NodeOK
      <4> QED
        BY <4>1, <4>2 DEF NodeOK
    <3>7. IsLeaf(s, p)
      BY <1>4, <1>10 DEF less
    <3>8. s[p].array # None => tx
      BY <3>3, <3>4
    <3>9. s[p].label = LeafLabel(s[p].key, s[p].val) /\ s[p].array \in {None, s[p].key}
      BY <3>3, <3>4
    <3>10. s[p].bak # NoTree => /\ tx /\ p # <<>> /\ p \in DOMAIN s[p].bak /\ s[p].bak[p].bak = NoTree
                                /\ \A r \in DOMAIN s[p].bak : Under(p, r)
      BY <3>2, <3>3
    <3> QED
      BY <1>4, <2>3, <3>3, <3>6, <3>7, <3>8, <3>9, <3>10 DEF Fits
  <2> QED
    BY <2>2, <2>3
<1>14. Changed(s, t, p, tx)
  <2>1. ASSUME NEW q \in Positions, ~Under(p, q)
        PROVE  (q \in DOMAIN s <=> q \in DOMAIN t) /\ (q \in DOMAIN t => s[q] = t[q])
    <3>1. q # p
      BY <1>2, <2>1, UnderIs
    <3>2. q # Append(p, 1) /\ q # Append(p, 2)
      <4>1. 1 \in 1..2 /\ 2 \in 1..2
        OBVIOUS
      <4>2. \A j \in 1..2 : Above(p, Append(p, j))
        BY <1>2, <1>6, KidUnder
      <4> QED
        BY <2>1, <4>1, <4>2 DEF Above
    <3> QED
      BY <1>4, <3>1, <3>2
  <2>2. ASSUME NEW q \in DOMAIN s, Above(p, q) PROVE FALSE
    <3>1. p \in NodesFor(less) \ less
      BY <1>8 DEF less
    <3> QED
      BY <1>8, <1>9, <2>2, <3>1, LeafEnds
  <2>3. s[p].inc = t[p].inc /\ s[p].bak = KeptBackup(t, p, tx)
    BY <1>4 DEF Like
  <2> QED
    BY <1>2, <1>4, <2>1, <2>2, <2>3 DEF Changed
<1>15. Mid(s, less, contents, k, m, tx)
  <2>1. IsLeaf(s, p)
    BY <1>4, <1>10 DEF less
  <2>2. m + 1 \in Nat /\ m + 1 <= Len(p) + 1 /\ Len(p) <= m
    OBVIOUS
  <2> QED
    BY <1>8, <1>12, <1>13, <1>14, <2>1, <2>2, MidChanged
<1> QED
  BY <1>14, <1>15 DEF less

-----------------------------------------------------------------------------
(* The manipulators.                                                       *)

\* What is above a node on the way of k.
LEMMA WayUp ==
    ASSUME NEW inner, InnerSet(inner), NEW p \in NodesFor(inner), NEW k \in Keys, On(k, p),
           NEW d \in 0..Len(p), d < Len(p)
    PROVE  Prefix(p, d) \in inner /\ On(k, Prefix(p, d)) /\ Len(Prefix(p, d)) = d
<1>1. p \in Positions /\ Len(p) \in 0..Bits /\ d \in 0..Bits /\ p # <<>>
  BY NodesArePositions, PositionIsSeq, RootIsPosition, PathsDiffer
<1>2. PICK q \in Positions, i \in 1..2 : p = Append(q, i) /\ Len(q) + 1 = Len(p) /\ q = Prefix(p, Len(p) - 1)
  BY <1>1, Up
<1>3. q \in inner
  BY <1>2, NodesArePositions
<1>4. Len(p) - 1 \in 0..Len(p) /\ d \in 0..(Len(p) - 1) /\ d \in 0..Len(q)
  BY <1>1, <1>2
<1>5. Prefix(q, d) = Prefix(p, d)
  <2>1. Prefix(Prefix(p, Len(p) - 1), d) = Prefix(p, d)
    BY <1>1, <1>4, PrefixOf
  <2> QED
    BY <1>2, <2>1
<1>6. Prefix(p, d) \in inner
  BY <1>3, <1>4, <1>5, InnerAbove
<1>7. Len(Prefix(p, d)) = d
  BY <1>1, PrefixIs
<1>8. On(k, Prefix(p, d))
  <2>1. Prefix(At(k, Len(p)), d) = At(k, d)
    BY <1>1, AtIs
  <2> QED
    BY <1>7, <2>1 DEF On
<1> QED
  BY <1>6, <1>7, <1>8

\* All ancestors of a node on the way of k are marked, or updated.
LEMMA AscendedMid ==
    ASSUME NEW t, NEW inner, NEW contents, NEW k \in Keys, NEW tx \in BOOLEAN,
           NEW p \in NodesFor(inner), On(k, p), Mid(t, inner, contents, k, Len(p), tx), NEW base
    PROVE  /\ Mid(Ascended(t, p, tx), inner, contents, k, 0, tx)
           /\ tx /\ Rolls(t, base) => Rolls(Ascended(t, p, tx), base)
           /\ Marking(t) => Marking(Ascended(t, p, tx))
<1>1. InnerSet(inner)
  BY MidTree
<1>2. p \in Positions /\ Len(p) \in Nat
  BY <1>1, NodesArePositions, PositionIsSeq
<1>3. PICK up : /\ up[0] = t /\ Ascended(t, p, tx) = up[Len(p)]
                /\ \A i \in 1..Len(p) : up[i] = Ascend(up[i - 1], Prefix(p, Len(p) - i), tx)
  BY <1>2, AscendedIs
<1>11. \A d \in 0..Len(p) : d < Len(p) =>
           Prefix(p, d) \in inner /\ On(k, Prefix(p, d)) /\ Len(Prefix(p, d)) = d
  BY <1>1, WayUp
<1> DEFINE Is(i) == /\ Mid(up[i], inner, contents, k, Len(p) - i, tx)
                    /\ tx /\ Rolls(t, base) => Rolls(up[i], base)
                    /\ Marking(t) => MarkingTo(up[i], k, Len(p) - i, tx)
           S == {i \in 0..Len(p) : Is(i)}
<1>4. 0 \in S
  <2>1. Len(p) - 0 = Len(p) /\ 0 \in 0..Len(p)
    BY <1>2
  <2>2. DOMAIN t \subseteq Positions
    BY MidTree
  <2>3. Marking(t) => MarkingTo(t, k, Len(p), tx)
    BY <1>2, <2>2, MarkingFrom
  <2> QED
    BY <1>3, <2>1, <2>3
<1>5. ASSUME NEW i \in 0..Len(p), i < Len(p), i \in S PROVE i + 1 \in S
  <2> DEFINE m == Len(p) - (i + 1)
             x == Prefix(p, m)
             s == up[i]
  <2>1. m \in Nat /\ m \in 0..Len(p) /\ m < Len(p) /\ m + 1 = Len(p) - i /\ i + 1 \in 1..Len(p)
        /\ i + 1 - 1 = i /\ i + 1 \in 0..Len(p)
    BY <1>2, <1>5
  <2>3. Is(i)
    BY <1>5
  <2>4. up[i + 1] = Ascend(s, x, tx)
    BY <1>3, <2>1
  <2>5. /\ Mid(s, inner, contents, k, m + 1, tx) /\ (tx /\ Rolls(t, base) => Rolls(s, base))
        /\ Marking(t) => MarkingTo(s, k, m + 1, tx)
    BY <2>1, <2>3
  <2> HIDE DEF Is, S
  <2>2. x \in inner /\ On(k, x) /\ Len(x) = m
    BY <1>11, <2>1
  <2> DEFINE r == Ascend(s, x, tx)
  <2> HIDE DEF m, x, s
  <2>6. Mid(r, inner, contents, k, m, tx) /\ (tx => AlikeTrees(r, s))
    BY <2>1, <2>2, <2>5, AscendMid
  <2>7. \A q \in DOMAIN s : IsLeaf(s, q) <=> Append(q, 2) \notin DOMAIN s
    BY <2>5, MidTree
  <2>9. Marking(t) => MarkingTo(r, k, m, tx)
    BY <2>1, <2>2, <2>5, AscendMarking
  <2> HIDE DEF r
  <2>8. tx /\ Rolls(t, base) => Rolls(r, base)
    BY <2>5, <2>6, <2>7, AlikeRolls
  <2>10. Is(i + 1)
    BY <2>4, <2>6, <2>8, <2>9 DEF r, m, Is
  <2> QED
    BY <2>1, <2>10 DEF S
<1>6. Len(p) \in S
  <2> HIDE DEF S
  <2>1. \A i \in 0..Len(p) : i \in S
    BY <1>2, <1>4, <1>5, UpTo
  <2> QED
    BY <1>2, <2>1
<1>7. Len(p) - Len(p) = 0
  BY <1>2
<1>8. /\ Mid(Ascended(t, p, tx), inner, contents, k, 0, tx)
      /\ tx /\ Rolls(t, base) => Rolls(Ascended(t, p, tx), base)
      /\ Marking(t) => MarkingTo(Ascended(t, p, tx), k, 0, tx)
  BY <1>3, <1>6, <1>7
<1>9. DOMAIN Ascended(t, p, tx) \subseteq Positions
  BY <1>8, MidTree
<1>10. MarkingTo(Ascended(t, p, tx), k, 0, tx) => Marking(Ascended(t, p, tx))
  BY <1>9, MarkingFrom
<1> QED
  BY <1>8, <1>10

\* Set leaves a tree with the new value.
LEMMA SetMid ==
    ASSUME NEW t, NEW inner, NEW contents, NEW k \in Keys, NEW tx \in BOOLEAN,
           Mid(t, inner, contents, k, 0, tx), contents[k] # None,
           NEW v \in Vals, NEW new, new[k] = v, \A l \in Keys : l # k => new[l] = contents[l],
           NEW base
    PROVE  /\ Mid(SetAt(t, k, v, tx), inner, new, k, 0, tx)
           /\ tx /\ Rolls(t, base) => Rolls(SetAt(t, k, v, tx), base)
           /\ Marking(t) => Marking(SetAt(t, k, v, tx))
<1> DEFINE x == Leaf(t, k)
           s == Assigned(t, x, k, v, tx)
           r == WrittenThrough(t, t[x].array, s, v)
           m == Depth(t, k)
<1>1. SetAt(t, k, v, tx) = Ascended(r, x, tx)
  BY DEF SetAt, WrittenThrough, Assigned
<1>2. /\ DOMAIN t = NodesFor(inner) /\ DOMAIN t \subseteq Positions /\ InnerSet(inner)
      /\ \A q \in DOMAIN t : IsNode(t[q]) /\ (IsLeaf(t, q) <=> Append(q, 2) \notin DOMAIN t)
  BY MidTree
<1>3. x \in NodesFor(inner) /\ On(k, x) /\ Len(x) = m /\ x # <<>> /\ m \in 1..Bits /\ 0 <= m
  BY <1>2, WalkEnds
<1>4. Mid(s, inner, new, k, m, tx) /\ Changed(s, t, x, tx)
  BY <1>3, AssignedMid
<1>5. Mid(r, inner, new, k, m, tx) /\ AlikeTrees(r, s)
  BY WrittenMid
<1>10. Marking(t) => Marking(r)
  <2> DEFINE array == t[x].array
             w == WrittenThrough(t, array, s, v)
  <2> HIDE DEF s, w, x, m
  <2>1. DOMAIN s \subseteq Positions /\ \A q \in DOMAIN s : IsNode(s[q])
    BY <1>4, MidTree
  <2>2. DOMAIN s = DOMAIN t
    BY DEF s, Assigned
  <2> HIDE DEF array
  <2> USE DEF w
  <2>3. /\ DOMAIN w = DOMAIN t
        /\ \A q \in DOMAIN t :
             IF array # None /\ t[q].array = array
             THEN Like(w[q], s[q], s[q].key, v, s[q].array, s[q].label, s[q].inc, s[q].bak)
             ELSE w[q] = s[q]
    BY <2>1, <2>2, WrittenIs
  <2> HIDE DEF w
  <2>4. SameMarks(w, s)
    BY <2>2, <2>3 DEF SameMarks, Like
  <2>5. Marking(t) => Marking(s)
    BY <1>2, <1>4, <2>1, ChangedMarking
  <2>6. Marking(s) => Marking(w)
    BY <2>4, SameMarking
  <2> QED
    BY <2>5, <2>6 DEF w, array
<1> HIDE DEF s, r, x, m
<1>6. /\ DOMAIN s \subseteq Positions
      /\ \A q \in DOMAIN s : IsLeaf(s, q) <=> Append(q, 2) \notin DOMAIN s
  BY <1>4, MidTree
<1>7. tx /\ Rolls(t, base) => Rolls(s, base)
  <2> SUFFICES ASSUME tx, Rolls(t, base) PROVE Rolls(s, base)
    OBVIOUS
  <2>1. Changed(s, t, x, TRUE)
    <3>1. tx = TRUE
      OBVIOUS
    <3> QED
      BY <1>4, <3>1
  <2> QED
    BY <1>2, <1>3, <1>6, <2>1, ChangedRolls
<1>8. tx /\ Rolls(s, base) => Rolls(r, base)
  BY <1>5, <1>6, AlikeRolls
<1>9. /\ Mid(Ascended(r, x, tx), inner, new, k, 0, tx)
      /\ tx /\ Rolls(r, base) => Rolls(Ascended(r, x, tx), base)
      /\ Marking(r) => Marking(Ascended(r, x, tx))
  BY <1>3, <1>5, AscendedMid
<1> QED
  BY <1>1, <1>7, <1>8, <1>9, <1>10

\* A tree in which the leaf on the way of k has room for it.
Roomy(s, contents, k, tx) ==
    /\ IsPlaceholder(s, Leaf(s, k))
    /\ \A l \in Present(contents) : ~On(l, Leaf(s, k))

\* Between the splits: the nodes are some of those that the keys and k need.
Splitting(s, contents, k, tx) ==
    \E inner, n :
        /\ n \in 0..Depth(s, k)
        /\ Mid(s, inner, contents, k, n, tx)
        /\ Inner(Present(contents)) \subseteq inner
        /\ inner \subseteq Inner(Present(contents) \cup {k})

\* One more split, or none if there is room.
LEMMA SplitAgain ==
    ASSUME NEW s, NEW contents, NEW k \in Keys, NEW tx \in BOOLEAN, contents[k] = None,
           Splitting(s, contents, k, tx), ~IsPlaceholder(s, Leaf(s, k)), NEW base,
           NEW r, r = Split(s, Leaf(s, k), tx)
    PROVE  /\ Splitting(r, contents, k, tx) /\ Depth(r, k) = Depth(s, k) + 1
           /\ tx /\ Rolls(s, base) => Rolls(r, base)
           /\ Marking(s) => Marking(r)
<1>1. PICK inner, n :
        /\ n \in 0..Depth(s, k)
        /\ Mid(s, inner, contents, k, n, tx)
        /\ Inner(Present(contents)) \subseteq inner
        /\ inner \subseteq Inner(Present(contents) \cup {k})
  BY DEF Splitting
<1> DEFINE x == Leaf(s, k)
           m == Depth(s, k)
<1>2. /\ DOMAIN s = NodesFor(inner) /\ DOMAIN s \subseteq Positions /\ InnerSet(inner)
      /\ \A q \in DOMAIN s : IsNode(s[q]) /\ (IsLeaf(s, q) <=> Append(q, 2) \notin DOMAIN s)
  <2>1. Mid(s, inner, contents, k, n, tx)
    BY <1>1
  <2> QED
    BY <2>1, MidTree
<1>3. x \in Positions /\ On(k, x) /\ x # <<>> /\ m \in 1..Bits
  BY <1>2, WalkEnds
<1>4. n \in Nat /\ n <= m
  BY <1>1, <1>3
<1>5. /\ Mid(r, inner \cup {x}, contents, k, m + 1, tx) /\ Changed(r, s, x, tx)
      /\ Depth(r, k) = m + 1
      /\ \E l \in Present(contents) : l # k /\ On(l, x)
  <2>1. LET y == Leaf(s, k)
            u == Split(s, y, tx)
        IN  /\ Mid(u, inner \cup {y}, contents, k, Depth(s, k) + 1, tx) /\ Changed(u, s, y, tx)
            /\ Depth(u, k) = Depth(s, k) + 1
            /\ \E l \in Present(contents) : l # k /\ On(l, y)
    BY <1>1, <1>4, SplitMid
  <2> QED
    BY <2>1
<1> HIDE DEF x, m
<1>6. x \in Inner(Present(contents) \cup {k})
  BY <1>3, <1>5 DEF Inner
<1>7. Splitting(r, contents, k, tx)
  <2>1. m + 1 \in 0..Depth(r, k)
    BY <1>3, <1>5
  <2>2. Inner(Present(contents)) \subseteq inner \cup {x}
        /\ inner \cup {x} \subseteq Inner(Present(contents) \cup {k})
    BY <1>1, <1>6
  <2> QED
    BY <1>5, <2>1, <2>2 DEF Splitting
<1>8. tx /\ Rolls(s, base) => Rolls(r, base)
  <2> SUFFICES ASSUME tx, Rolls(s, base) PROVE Rolls(r, base)
    OBVIOUS
  <2>1. Changed(r, s, x, TRUE)
    <3>1. tx = TRUE
      OBVIOUS
    <3> QED
      BY <1>5, <3>1
  <2>2. DOMAIN r \subseteq Positions
    BY <1>5, MidTree
  <2> QED
    BY <1>2, <1>3, <2>1, <2>2, ChangedRolls
<1>9. Marking(s) => Marking(r)
  <2>1. DOMAIN r \subseteq Positions
    BY <1>5, MidTree
  <2> QED
    BY <1>2, <1>5, <2>1, ChangedMarking
<1> QED
  BY <1>5, <1>7, <1>8, <1>9 DEF m

\* When the leaf on the way of k is a placeholder, the nodes are all those
\* that the keys and k need.
LEMMA RoomForAll ==
    ASSUME NEW s, NEW inner, NEW contents, NEW k \in Keys, NEW n, NEW tx,
           Mid(s, inner, contents, k, n, tx),
           Inner(Present(contents)) \subseteq inner,
           inner \subseteq Inner(Present(contents) \cup {k}),
           IsPlaceholder(s, Leaf(s, k))
    PROVE  /\ inner = Inner(Present(contents) \cup {k})
           /\ \A l \in Present(contents) : ~On(l, Leaf(s, k))
<1> DEFINE x == Leaf(s, k)
<1>1. DOMAIN s = NodesFor(inner) /\ InnerSet(inner) /\ Shape(s, inner, contents)
  BY MidTree DEF Mid
<1>2. /\ x \in NodesFor(inner) \ inner /\ x \in Positions /\ On(k, x) /\ Len(x) = Depth(s, k)
      /\ Depth(s, k) \in 1..Bits
      /\ \A d \in 0..Bits : At(k, d) \in inner <=> d < Depth(s, k)
  BY <1>1, WalkEnds
<1>3. \A l \in Present(contents) : ~On(l, x)
  BY <1>1, <1>2, LeafHolds DEF IsPlaceholder
<1> HIDE DEF x
<1>4. ASSUME NEW p \in Positions, NEW l \in Present(contents), On(l, p), On(k, p) PROVE p \in inner
  <2>1. l \in Keys /\ Len(p) \in 0..Bits /\ At(k, Len(p)) = p
    BY <1>4, PositionIsSeq DEF On, Present
  <2>2. ~(Len(x) <= Len(p))
    <3> SUFFICES ASSUME Len(x) <= Len(p) PROVE FALSE
      OBVIOUS
    <3>1. Under(x, p)
      BY <1>2, <1>4, OnUnder
    <3>2. On(l, x)
      BY <1>2, <1>4, <2>1, <3>1, OnUnder
    <3> QED
      BY <1>3, <3>2
  <2>3. Len(p) < Depth(s, k)
    BY <1>2, <2>1, <2>2
  <2> QED
    BY <1>2, <2>1, <2>3
<1>5. ASSUME NEW p \in Inner(Present(contents) \cup {k}) PROVE p \in inner
  <2>1. p \in Positions
    BY DEF Inner
  <2>2. CASE p \in Inner(Present(contents))
    BY <2>2
  <2>3. CASE p \notin Inner(Present(contents))
    <3>1. PICK j \in Present(contents) \cup {k}, l \in Present(contents) \cup {k} :
            j # l /\ On(j, p) /\ On(l, p)
      BY <2>3 DEF Inner
    <3>2. \/ j = k /\ l \in Present(contents)
          \/ l = k /\ j \in Present(contents)
      BY <2>1, <2>3, <3>1 DEF Inner
    <3> QED
      BY <1>4, <2>1, <3>1, <3>2
  <2> QED
    BY <2>2, <2>3
<1> QED
  BY <1>3, <1>5 DEF x

\* Room makes room, and adds only nodes the keys need.
LEMMA RoomMid ==
    ASSUME NEW t, NEW contents, NEW k \in Keys, NEW tx \in BOOLEAN, contents[k] = None,
           Mid(t, Inner(Present(contents)), contents, k, 0, tx), NEW base
    PROVE  /\ \E n \in 0..Depth(Room(t, k, tx), k) :
                Mid(Room(t, k, tx), Inner(Present(contents) \cup {k}), contents, k, n, tx)
           /\ \A l \in Present(contents) : ~On(l, Leaf(Room(t, k, tx), k))
           /\ tx /\ Rolls(t, base) => Rolls(Room(t, k, tx), base)
           /\ Marking(t) => Marking(Room(t, k, tx))
<1>1. PICK room : /\ room[0] = t /\ Room(t, k, tx) = room[Bits]
                  /\ \A i \in 1..Bits :
                       room[i] = IF IsPlaceholder(room[i - 1], Leaf(room[i - 1], k)) THEN room[i - 1]
                                 ELSE Split(room[i - 1], Leaf(room[i - 1], k), tx)
  BY RoomIs
<1>2. Bits \in Nat /\ Bits \in 0..Bits
  BY PathsDiffer
<1> DEFINE Deep(s, i) == IsPlaceholder(s, Leaf(s, k)) \/ i < Depth(s, k)
           Is(i) == /\ Splitting(room[i], contents, k, tx) /\ Deep(room[i], i)
                    /\ tx /\ Rolls(t, base) => Rolls(room[i], base)
                    /\ Marking(t) => Marking(room[i])
           S == {i \in 0..Bits : Is(i)}
<1>3. 0 \in S
  <2>1. DOMAIN t = NodesFor(Inner(Present(contents))) /\ InnerSet(Inner(Present(contents)))
    BY MidTree
  <2>2. Depth(t, k) \in 1..Bits
    BY <2>1, WalkEnds
  <2>3. 0 \in 0..Depth(t, k) /\ 0 < Depth(t, k) /\ 0 \in 0..Bits
    BY <1>2, <2>2
  <2>4. Inner(Present(contents)) \subseteq Inner(Present(contents) \cup {k})
    BY DEF Inner
  <2>5. Splitting(t, contents, k, tx)
    BY <2>3, <2>4 DEF Splitting
  <2> QED
    BY <1>1, <2>3, <2>5
<1>4. ASSUME NEW i \in 0..Bits, i < Bits, i \in S PROVE i + 1 \in S
  <2> DEFINE s == room[i]
             r == room[i + 1]
  <2>1. i + 1 \in 1..Bits /\ i + 1 - 1 = i /\ i + 1 \in 0..Bits
    BY <1>2, <1>4
  <2>2. r = IF IsPlaceholder(s, Leaf(s, k)) THEN s ELSE Split(s, Leaf(s, k), tx)
    BY <1>1, <2>1
  <2>3. Is(i)
    BY <1>4
  <2>4. Is(i + 1)
    <3>1. CASE IsPlaceholder(s, Leaf(s, k))
      BY <2>2, <2>3, <3>1
    <3>2. CASE ~IsPlaceholder(s, Leaf(s, k))
      <4>1. r = Split(s, Leaf(s, k), tx)
        BY <2>2, <3>2
      <4>2. /\ Splitting(s, contents, k, tx) /\ i < Depth(s, k) /\ (tx /\ Rolls(t, base) => Rolls(s, base))
            /\ Marking(t) => Marking(s)
        BY <2>3, <3>2
      <4>3. Depth(s, k) \in Nat
        <5>1. PICK inner, n : Mid(s, inner, contents, k, n, tx)
          BY <4>2 DEF Splitting
        <5>2. DOMAIN s = NodesFor(inner) /\ InnerSet(inner)
          BY <5>1, MidTree
        <5>3. Depth(s, k) \in 1..Bits
          BY <5>2, WalkEnds
        <5> QED
          BY <1>2, <5>3
      <4> HIDE DEF s, r
      <4>4. /\ Splitting(r, contents, k, tx) /\ Depth(r, k) = Depth(s, k) + 1
            /\ tx /\ Rolls(s, base) => Rolls(r, base)
            /\ Marking(s) => Marking(r)
        BY <3>2, <4>1, <4>2, SplitAgain
      <4>5. i + 1 < Depth(r, k)
        BY <4>2, <4>3, <4>4
      <4> QED
        BY <4>2, <4>4, <4>5 DEF r
    <3> QED
      BY <3>1, <3>2
  <2> HIDE DEF Is
  <2> QED
    BY <2>1, <2>4
<1>5. Is(Bits)
  <2> HIDE DEF S
  <2>1. \A i \in 0..Bits : i \in S
    BY <1>2, <1>3, <1>4, UpTo
  <2> QED
    BY <1>2, <2>1 DEF S
<1> DEFINE s == room[Bits]
<1>6. PICK inner, n :
        /\ n \in 0..Depth(s, k)
        /\ Mid(s, inner, contents, k, n, tx)
        /\ Inner(Present(contents)) \subseteq inner
        /\ inner \subseteq Inner(Present(contents) \cup {k})
  BY <1>5 DEF Splitting
<1>7. IsPlaceholder(s, Leaf(s, k))
  <2>1. DOMAIN s = NodesFor(inner) /\ InnerSet(inner)
    BY <1>6, MidTree
  <2>2. Depth(s, k) \in 1..Bits
    BY <2>1, WalkEnds
  <2> QED
    BY <1>2, <1>5, <2>2
<1>8. inner = Inner(Present(contents) \cup {k}) /\ \A l \in Present(contents) : ~On(l, Leaf(s, k))
  <2> HIDE DEF s
  <2> QED
    BY <1>6, <1>7, RoomForAll
<1> QED
  BY <1>1, <1>5, <1>6, <1>8

\* Add leaves a tree with the new key.
LEMMA AddMid ==
    ASSUME NEW t, NEW contents, NEW k \in Keys, NEW tx \in BOOLEAN, contents[k] = None,
           Mid(t, Inner(Present(contents)), contents, k, 0, tx),
           NEW v \in Vals, NEW new, new[k] = v, \A l \in Keys : l # k => new[l] = contents[l],
           NEW base
    PROVE  /\ Mid(AddAt(t, k, v, tx), Inner(Present(new)), new, k, 0, tx)
           /\ tx /\ Rolls(t, base) => Rolls(AddAt(t, k, v, tx), base)
           /\ Marking(t) => Marking(AddAt(t, k, v, tx))
<1> DEFINE s == Room(t, k, tx)
           x == Leaf(s, k)
           r == Fill(s, x, k, v, tx)
           m == Depth(s, k)
           wide == Inner(Present(contents) \cup {k})
<1>1. AddAt(t, k, v, tx) = Ascended(r, x, tx)
  BY DEF AddAt
<1>2. /\ \E n \in 0..m : Mid(s, wide, contents, k, n, tx)
      /\ \A l \in Present(contents) : ~On(l, x)
      /\ tx /\ Rolls(t, base) => Rolls(s, base)
      /\ Marking(t) => Marking(s)
  BY RoomMid
<1>3. Present(new) = Present(contents) \cup {k}
  <2>1. v # None
    BY NoneIsNoKey
  <2> QED
    BY <2>1 DEF Present
<1>4. PICK n \in 0..m : Mid(s, wide, contents, k, n, tx)
  BY <1>2
<1>5. /\ DOMAIN s = NodesFor(wide) /\ DOMAIN s \subseteq Positions /\ InnerSet(wide)
      /\ \A q \in DOMAIN s : IsNode(s[q]) /\ (IsLeaf(s, q) <=> Append(q, 2) \notin DOMAIN s)
  BY <1>4, MidTree
<1>6. x \in NodesFor(wide) /\ On(k, x) /\ Len(x) = m /\ x # <<>> /\ m \in 1..Bits
  BY <1>5, WalkEnds
<1>7. n \in Nat /\ n <= m
  BY <1>6
<1>8. Mid(r, wide, new, k, m, tx) /\ Changed(r, s, x, tx)
  <2> HIDE DEF s, wide
  <2>1. LET y == Leaf(s, k)
            u == Fill(s, Leaf(s, k), k, v, tx)
        IN  Mid(u, wide, new, k, Depth(s, k), tx) /\ Changed(u, s, Leaf(s, k), tx)
    BY <1>2, <1>4, <1>7, FillMid
  <2> QED
    BY <2>1
<1> HIDE DEF s, r, x, m, wide
<1>9. /\ DOMAIN r \subseteq Positions
      /\ \A q \in DOMAIN r : IsLeaf(r, q) <=> Append(q, 2) \notin DOMAIN r
  BY <1>8, MidTree
<1>10. tx /\ Rolls(s, base) => Rolls(r, base)
  <2> SUFFICES ASSUME tx, Rolls(s, base) PROVE Rolls(r, base)
    OBVIOUS
  <2>1. Changed(r, s, x, TRUE)
    <3>1. tx = TRUE
      OBVIOUS
    <3> QED
      BY <1>8, <3>1
  <2> QED
    BY <1>5, <1>6, <1>9, <2>1, ChangedRolls
<1>11. /\ Mid(Ascended(r, x, tx), wide, new, k, 0, tx)
       /\ tx /\ Rolls(r, base) => Rolls(Ascended(r, x, tx), base)
       /\ Marking(r) => Marking(Ascended(r, x, tx))
  BY <1>6, <1>8, AscendedMid
<1>12. Marking(s) => Marking(r)
  BY <1>5, <1>8, <1>9, ChangedMarking
<1> QED
  BY <1>1, <1>2, <1>3, <1>10, <1>11, <1>12 DEF wide

\* An ancestor of a leaf that was emptied is left with one leaf when no keys
\* part there.
LEMMA LeftAlone ==
    ASSUME NEW t, NEW inner, NEW contents, InnerSet(inner), Shape(t, inner, contents),
           NEW z \in inner, z # <<>>,
           \A i \in 1..2 : Append(z, i) \in inner => Append(z, i) \in Inner(Present(contents))
    PROVE  OnlyChild(t, z) <=> z \notin Inner(Present(contents))
<1> DEFINE keys == Present(contents)
<1>1. DOMAIN t = NodesFor(inner) /\ z \in Positions /\ Len(z) < Bits /\ keys \subseteq Keys
  BY DEF Shape, InnerSet, Present
<1>2. \A i \in 1..2 : /\ Append(z, i) \in Positions /\ Append(z, i) \in NodesFor(inner)
                      /\ IsLeaf(t, Append(z, i)) <=> Append(z, i) \notin inner
  BY <1>1, Kid, NodesArePositions, LeafIsOuter
<1>3. \A l \in keys, i \in 1..2 :
        /\ Path[l][Len(z) + 1] \in 1..2
        /\ On(l, Append(z, i)) <=> On(l, z) /\ Path[l][Len(z) + 1] = i
  BY <1>1, <1>2, OnKid
<1> HIDE DEF keys
<1>4. \A i \in 1..2 : (i = 1 \/ i = 2) /\ 3 - i \in 1..2 /\ 3 - i # i
  OBVIOUS
<1>5. ASSUME OnlyChild(t, z), z \in Inner(keys) PROVE FALSE
  <2>1. PICK i \in 1..2 : IsPlaceholder(t, Append(z, i)) /\ IsLeaf(t, Append(z, 3 - i))
    BY <1>5 DEF OnlyChild
  <2>2. PICK j \in keys, l \in keys : j # l /\ On(j, z) /\ On(l, z)
    BY <1>5 DEF Inner
  <2>3. Append(z, i) \in NodesFor(inner) \ inner /\ Append(z, 3 - i) \in NodesFor(inner) \ inner
        /\ t[Append(z, i)].key = None
    BY <1>2, <1>4, <2>1 DEF IsPlaceholder
  <2>4. \A h \in keys : ~On(h, Append(z, i))
    BY <2>3, LeafHolds DEF keys
  <2>5. \A h \in keys : On(h, z) => On(h, Append(z, 3 - i))
    <3> SUFFICES ASSUME NEW h \in keys, On(h, z) PROVE On(h, Append(z, 3 - i))
      OBVIOUS
    <3>1. Path[h][Len(z) + 1] \in 1..2 /\ Path[h][Len(z) + 1] # i
      BY <1>3, <2>4
    <3>2. Path[h][Len(z) + 1] = 3 - i
      BY <3>1
    <3> QED
      BY <1>3, <1>4, <3>2
  <2>6. On(j, Append(z, 3 - i)) /\ On(l, Append(z, 3 - i))
    BY <2>2, <2>5
  <2>7. t[Append(z, 3 - i)].key = j /\ t[Append(z, 3 - i)].key = l
    <3>1. Holds(t[Append(z, 3 - i)], Append(z, 3 - i), contents)
      BY <2>3 DEF Shape
    <3> QED
      BY <2>6, <3>1 DEF Holds, keys
  <2> QED
    BY <2>2, <2>7
<1>6. ASSUME ~OnlyChild(t, z) PROVE z \in Inner(keys)
  <2>1. CASE \E i \in 1..2 : Append(z, i) \in inner
    <3>1. PICK i \in 1..2 : Append(z, i) \in inner
      BY <2>1
    <3>2. Append(z, i) \in Inner(keys) /\ Append(z, i) # <<>>
      BY <1>1, <3>1, Kid DEF keys
    <3>3. PICK j \in keys, l \in keys : j # l /\ On(j, Append(z, i)) /\ On(l, Append(z, i))
      BY <3>2 DEF Inner
    <3>4. On(j, z) /\ On(l, z)
      BY <1>3, <3>3
    <3> QED
      BY <1>1, <3>3, <3>4 DEF Inner
  <2>2. CASE \A i \in 1..2 : Append(z, i) \notin inner
    <3>1. \A i \in 1..2 : IsLeaf(t, Append(z, i)) /\ Append(z, i) \in NodesFor(inner) \ inner
      BY <1>2, <2>2
    <3>2. \A i \in 1..2 : t[Append(z, i)].key # None
      BY <1>4, <1>6, <3>1 DEF OnlyChild, IsPlaceholder
    <3>3. \A i \in 1..2 : t[Append(z, i)].key \in keys /\ On(t[Append(z, i)].key, Append(z, i))
      BY <3>1, <3>2, LeafHolds DEF keys
    <3> DEFINE j == t[Append(z, 1)].key
               l == t[Append(z, 2)].key
    <3>4. 1 \in 1..2 /\ 2 \in 1..2
      OBVIOUS
    <3>5. j \in keys /\ l \in keys /\ On(j, Append(z, 1)) /\ On(l, Append(z, 2))
      BY <3>3, <3>4
    <3> HIDE DEF j, l
    <3>6. On(j, z) /\ On(l, z) /\ Path[j][Len(z) + 1] = 1 /\ Path[l][Len(z) + 1] = 2
      BY <1>3, <3>4, <3>5
    <3>7. j # l
      BY <3>6
    <3> QED
      BY <1>1, <3>5, <3>6, <3>7 DEF Inner
  <2> QED
    BY <2>1, <2>2
<1> QED
  BY <1>5, <1>6 DEF keys

\* The first m positions on the way of k.
WayTo(k, m) == {At(k, d) : d \in {d \in 0..Bits : d < m}}

\* One step of the walk up after a removal.
LEMMA RemoveStep ==
    ASSUME NEW s, NEW contents, NEW k \in Keys, NEW m \in Nat, m < Bits, NEW tx \in BOOLEAN,
           Mid(s, Inner(Present(contents)) \cup WayTo(k, m + 1), contents, k, m + 1, tx),
           NEW r, r = AfterRemove(s, At(k, m), tx), NEW base
    PROVE  /\ Mid(r, Inner(Present(contents)) \cup WayTo(k, m), contents, k, m, tx)
           /\ tx /\ Rolls(s, base) => Rolls(r, base)
           /\ MarkingTo(s, k, m + 1, tx) => MarkingTo(r, k, m, tx)
<1> DEFINE needed == Inner(Present(contents))
           inner == needed \cup WayTo(k, m + 1)
           less == needed \cup WayTo(k, m)
           z == At(k, m)
<1>1. m \in 0..Bits /\ m + 1 \in 0..Bits /\ Bits \in Nat
  BY PathsDiffer
<1>2. z \in Positions /\ Len(z) = m /\ On(k, z)
  BY <1>1, AtIs DEF On
<1>3. \A p : p \in WayTo(k, m + 1) => p = z \/ p \in WayTo(k, m)
  BY <1>1 DEF WayTo
<1>4. z \in WayTo(k, m + 1) /\ WayTo(k, m) \subseteq WayTo(k, m + 1)
  BY <1>1 DEF WayTo
<1>5. z \notin WayTo(k, m)
  BY <1>1, <1>2, AtIs DEF WayTo
<1>6. \A p \in WayTo(k, m + 1) : Len(p) \in Nat /\ Len(p) <= m
  <2> SUFFICES ASSUME NEW p \in WayTo(k, m + 1) PROVE Len(p) \in Nat /\ Len(p) <= m
    OBVIOUS
  <2>1. PICK d \in 0..Bits : d < m + 1 /\ p = At(k, d)
    BY DEF WayTo
  <2>2. Len(p) = d
    BY <2>1, AtIs
  <2> QED
    BY <1>1, <2>1, <2>2
<1>7. /\ DOMAIN s = NodesFor(inner) /\ DOMAIN s \subseteq Positions /\ InnerSet(inner)
      /\ \A q \in DOMAIN s : IsNode(s[q]) /\ (IsLeaf(s, q) <=> Append(q, 2) \notin DOMAIN s)
  BY ZenonT(30), MidTree
<1>8. Shape(s, inner, contents) /\ Mid(s, inner, contents, k, m + 1, tx)
  BY DEF Mid
<1>9. <<>> \in needed
  BY RootIsPosition DEF Inner
<1>10. r = AfterRemove(s, z, tx)
  OBVIOUS
<1> HIDE DEF z
<1>11. z \in inner
  BY <1>4
<1>12. z # <<>> => (OnlyChild(s, z) <=> z \notin needed)
  <2>1. ASSUME NEW i \in 1..2, Append(z, i) \in inner PROVE Append(z, i) \in needed
    <3>1. Len(Append(z, i)) = m + 1
      BY <1>2, Kid
    <3>2. Append(z, i) \notin WayTo(k, m + 1)
      <4>1. ~(m + 1 <= m)
        OBVIOUS
      <4> QED
        BY <1>6, <3>1, <4>1
    <3> QED
      BY <2>1, <3>2
  <2> HIDE DEF inner
  <2> QED
    BY <1>7, <1>8, <1>11, <2>1, LeftAlone
<1> HIDE DEF needed
<1>13. CASE z # <<>> /\ OnlyChild(s, z)
  <2>1. inner \ {z} = less
    BY <1>3, <1>4, <1>5, <1>12, <1>13
  <2>2. r = Collapse(s, z, tx)
    BY <1>10, <1>13 DEF AfterRemove
  <2> HIDE DEF inner, less
  <2>3. Mid(r, inner \ {z}, contents, k, m, tx) /\ Changed(r, s, z, tx)
    BY <1>2, <1>8, <1>11, <1>13, <2>2, CollapseMid
  <2>4. Mid(r, less, contents, k, m, tx)
    BY <2>1, <2>3
  <2>5. tx /\ Rolls(s, base) => Rolls(r, base)
    <3> SUFFICES ASSUME tx, Rolls(s, base) PROVE Rolls(r, base)
      OBVIOUS
    <3>1. Changed(r, s, z, TRUE)
      <4>1. tx = TRUE
        OBVIOUS
      <4> QED
        BY <2>3, <4>1
    <3>2. DOMAIN r \subseteq Positions
      BY <2>4, MidTree
    <3> QED
      BY <1>7, <1>13, <3>1, <3>2, ChangedRolls
  <2>6. MarkingTo(s, k, m + 1, tx) => MarkingTo(r, k, m, tx)
    <3>1. \A i \in 1..2 : IsLeaf(s, Append(z, i))
      <4>1. PICK i \in 1..2 : IsPlaceholder(s, Append(z, i)) /\ IsLeaf(s, Append(z, 3 - i))
        BY <1>13 DEF OnlyChild
      <4>2. IsLeaf(s, Append(z, i))
        BY <4>1 DEF IsPlaceholder
      <4>3. \A j \in 1..2 : j = i \/ j = 3 - i
        OBVIOUS
      <4> QED
        BY <4>1, <4>2, <4>3
    <3>2. MarkingTo(s, k, m + 1, tx) => Marking(s)
      BY <1>2, <1>7, <3>1, MarkingAtLeaves
    <3>3. DOMAIN r \subseteq Positions
      BY <2>4, MidTree
    <3>4. Marking(s) => Marking(r)
      BY <1>7, <2>3, <3>3, ChangedMarking
    <3>5. Marking(r) => MarkingTo(r, k, m, tx)
      BY <3>3, MarkingFrom
    <3> QED
      BY <3>2, <3>4, <3>5
  <2> QED
    BY <2>4, <2>5, <2>6 DEF less, needed
<1>14. CASE ~(z # <<>> /\ OnlyChild(s, z))
  <2>1. z \in needed
    BY <1>9, <1>12, <1>14
  <2>2. inner = less
    BY <1>3, <1>4, <2>1
  <2>3. r = Ascend(s, z, tx)
    BY <1>10, <1>14 DEF AfterRemove
  <2> DEFINE u == Ascend(s, z, tx)
  <2> HIDE DEF inner, less
  <2>4. Mid(u, inner, contents, k, m, tx) /\ (tx => AlikeTrees(u, s))
    BY <1>2, <1>8, <1>11, AscendMid
  <2> HIDE DEF u
  <2>5. Mid(r, less, contents, k, m, tx)
    BY <2>2, <2>3, <2>4 DEF u
  <2>6. tx /\ Rolls(s, base) => Rolls(u, base)
    BY <1>7, <2>4, AlikeRolls
  <2>7. MarkingTo(s, k, m + 1, tx) => MarkingTo(r, k, m, tx)
    BY <1>2, <1>8, <1>11, <2>3, AscendMarking
  <2> QED
    BY <2>3, <2>5, <2>6, <2>7 DEF less, needed, u
<1> QED
  BY <1>13, <1>14

\* Remove leaves a tree without the key, and without the nodes only it needed.
LEMMA RemoveMid ==
    ASSUME NEW t, NEW contents, NEW k \in Keys, NEW tx \in BOOLEAN, contents[k] # None,
           Mid(t, Inner(Present(contents)), contents, k, 0, tx),
           NEW new, new[k] = None, \A l \in Keys : l # k => new[l] = contents[l],
           NEW base
    PROVE  /\ Mid(RemoveAt(t, k, tx), Inner(Present(new)), new, k, 0, tx)
           /\ tx /\ Rolls(t, base) => Rolls(RemoveAt(t, k, tx), base)
           /\ Marking(t) => Marking(RemoveAt(t, k, tx))
<1> DEFINE x == Leaf(t, k)
           m == Depth(t, k)
           inner == Inner(Present(contents))
           s == Fill(t, x, None, 0, tx)
<1>1. /\ DOMAIN t = NodesFor(inner) /\ DOMAIN t \subseteq Positions /\ InnerSet(inner)
      /\ \A q \in DOMAIN t : IsNode(t[q]) /\ (IsLeaf(t, q) <=> Append(q, 2) \notin DOMAIN t)
  BY MidTree
<1>2. Shape(t, inner, contents)
  BY DEF Mid
<1>3. /\ x \in NodesFor(inner) \ inner /\ x \in Positions /\ On(k, x) /\ Len(x) = m /\ x # <<>>
      /\ m \in 1..Bits /\ \A d \in 0..Bits : At(k, d) \in inner <=> d < m
  BY <1>1, WalkEnds
<1>4. m \in Nat /\ Bits \in Nat /\ 0 <= m /\ m <= Bits
  BY <1>3, PathsDiffer
<1>5. t[x].key = k
  BY <1>1, <1>2, LookupIs
<1>6. \A l \in Present(contents) : l # k => ~On(l, x)
  <2>1. k # None
    BY NoneIsNoKey
  <2> HIDE DEF x, inner
  <2> QED
    BY <1>1, <1>2, <1>3, <1>5, <2>1, LeafHolds
<1>7. Mid(s, inner, new, k, m, tx) /\ Changed(s, t, x, tx)
  <2> HIDE DEF inner
  <2>1. Mid(t, inner, contents, k, 0, tx)
    BY DEF inner
  <2>2. LET u == Fill(t, Leaf(t, k), None, 0, tx) IN
        Mid(u, inner, new, k, Depth(t, k), tx) /\ Changed(u, t, Leaf(t, k), tx)
    BY <1>4, <1>6, <2>1, FillMid
  <2> QED
    BY <2>2
<1>8. PICK up : /\ up[0] = s /\ RemoveAt(t, k, tx) = up[m]
                /\ \A i \in 1..m : up[i] = AfterRemove(up[i - 1], Prefix(x, m - i), tx)
  <2>1. LET p == Leaf(t, k) IN
           \E up : /\ up[0] = Fill(t, p, None, 0, tx) /\ RemoveAt(t, k, tx) = up[Len(p)]
                  /\ \A i \in 1..Len(p) :
                       up[i] = AfterRemove(up[i - 1], Prefix(p, Len(p) - i), tx)
    BY SMTT(20), <1>3, RemovedIs
  <2> QED
    BY <1>3, <2>1
<1>9. Inner(Present(new)) \cup WayTo(k, m) = inner
  <2>1. Present(new) = Present(contents) \ {k} /\ k \in Present(contents)
    BY DEF Present
  <2>2. ASSUME NEW p \in Inner(Present(new)) PROVE p \in inner
    BY <2>1 DEF Inner
  <2>3. WayTo(k, m) \subseteq inner
    <3> HIDE DEF inner, m
    <3> QED
      BY <1>3 DEF WayTo
  <2>4. ASSUME NEW p \in inner, p \notin Inner(Present(new)) PROVE p \in WayTo(k, m)
    <3>1. p \in Positions /\ Len(p) \in 0..Bits
      BY PositionIsSeq DEF Inner
    <3>2. On(k, p)
      BY <2>1, <2>4 DEF Inner
    <3>3. At(k, Len(p)) = p
      BY <3>2 DEF On
    <3> HIDE DEF inner, m
    <3>4. Len(p) < m
      BY <1>3, <3>1, <3>3
    <3> QED
      BY <3>1, <3>3, <3>4 DEF WayTo
  <2> HIDE DEF inner
  <2> QED
    BY <2>2, <2>3, <2>4
<1> DEFINE Is(i) == /\ Mid(up[i], Inner(Present(new)) \cup WayTo(k, m - i), new, k, m - i, tx)
                    /\ tx /\ Rolls(t, base) => Rolls(up[i], base)
                    /\ Marking(t) => MarkingTo(up[i], k, m - i, tx)
           S == {i \in 0..m : Is(i)}
<1> HIDE DEF x, m, s, inner
<1>10. 0 \in S
  <2>1. m - 0 = m /\ 0 \in 0..m
    BY <1>4
  <2>2. DOMAIN s \subseteq Positions
    BY <1>7, MidTree
  <2>3. tx /\ Rolls(t, base) => Rolls(s, base)
    <3> SUFFICES ASSUME tx, Rolls(t, base) PROVE Rolls(s, base)
      OBVIOUS
    <3>1. Changed(s, t, x, TRUE)
      <4>1. tx = TRUE
        OBVIOUS
      <4> QED
        BY <1>7, <4>1
    <3> QED
      BY <1>1, <1>3, <2>2, <3>1, ChangedRolls
  <2>4. Marking(t) => Marking(s)
    BY <1>1, <1>7, <2>2, ChangedMarking
  <2>5. Marking(s) => MarkingTo(s, k, m, tx)
    BY <1>4, <2>2, MarkingFrom
  <2> QED
    BY <1>7, <1>8, <1>9, <2>1, <2>3, <2>4, <2>5
<1>11. ASSUME NEW i \in 0..m, i < m, i \in S PROVE i + 1 \in S
  <2> DEFINE n == m - (i + 1)
             u == up[i]
             r == up[i + 1]
  <2>1. n \in Nat /\ n < Bits /\ n + 1 = m - i /\ i + 1 \in 1..m /\ i + 1 - 1 = i /\ i + 1 \in 0..m
        /\ n \in 0..m /\ n \in 0..Bits /\ m \in 0..Bits
    BY <1>4, <1>11
  <2>2. Is(i)
    BY <1>11
  <2>3. Prefix(x, n) = At(k, n)
    <3>1. At(k, m) = x
      BY <1>3 DEF On
    <3>2. Prefix(At(k, m), n) = At(k, n)
      BY <2>1, AtIs
    <3> QED
      BY <3>1, <3>2
  <2>4. r = AfterRemove(u, Prefix(x, m - (i + 1)), tx)
    BY <1>8, <2>1
  <2>5. r = AfterRemove(u, At(k, n), tx)
    BY <2>3, <2>4
  <2>6. /\ Mid(u, Inner(Present(new)) \cup WayTo(k, n + 1), new, k, n + 1, tx)
        /\ tx /\ Rolls(t, base) => Rolls(u, base)
        /\ Marking(t) => MarkingTo(u, k, n + 1, tx)
    BY <2>1, <2>2
  <2> HIDE DEF n, u, r
  <2>7. /\ Mid(r, Inner(Present(new)) \cup WayTo(k, n), new, k, n, tx)
        /\ tx /\ Rolls(u, base) => Rolls(r, base)
        /\ MarkingTo(u, k, n + 1, tx) => MarkingTo(r, k, n, tx)
    BY <2>1, <2>5, <2>6, RemoveStep
  <2>8. Is(i + 1)
    BY <2>6, <2>7 DEF n, r
  <2> HIDE DEF Is
  <2> QED
    BY <2>1, <2>8
<1>12. Is(m)
  <2> HIDE DEF S
  <2>1. \A i \in 0..m : i \in S
    BY <1>4, <1>10, <1>11, UpTo
  <2> QED
    BY <1>4, <2>1 DEF S
<1>13. m - m = 0 /\ WayTo(k, 0) = {}
  <2>1. m - m = 0
    BY <1>4
  <2> QED
    BY <2>1 DEF WayTo
<1>14. /\ Mid(up[m], Inner(Present(new)), new, k, 0, tx)
       /\ tx /\ Rolls(t, base) => Rolls(up[m], base)
       /\ Marking(t) => MarkingTo(up[m], k, 0, tx)
  BY <1>12, <1>13
<1>15. Marking(t) => Marking(up[m])
  <2>1. DOMAIN up[m] \subseteq Positions
    BY <1>14, MidTree
  <2>2. MarkingTo(up[m], k, 0, tx) => Marking(up[m])
    BY <2>1, MarkingFrom
  <2> QED
    BY <1>14, <2>2
<1> QED
  BY <1>8, <1>14, <1>15

-----------------------------------------------------------------------------
(* Rollback.                                                               *)

IsWalk(w) == w = [tree |-> w.tree, goes |-> w.goes]

Going(w) == w.goes = TRUE

\* One step of the walk of Rollback.
LEMMA VisitIs ==
    ASSUME NEW w, IsWalk(w), w.goes \in BOOLEAN, NEW p, NEW v, v = Visit(w, p)
    PROVE  /\ IsWalk(v) /\ v.goes \in BOOLEAN
           /\ Going(w) /\ p \in DOMAIN w.tree /\ Marked(w.tree[p]) =>
                v.tree = Restore(w.tree, p) /\ Going(v)
           /\ ~(Going(w) /\ p \in DOMAIN w.tree /\ Marked(w.tree[p])) =>
                v.tree = w.tree /\ ~Going(v)
<1>1. CASE Going(w) /\ p \in DOMAIN w.tree /\ Marked(w.tree[p])
  <2> DEFINE s == Restore(w.tree, p)
  <2>1. v = [w EXCEPT !.tree = s]
    BY <1>1 DEF Visit, Going
  <2> HIDE DEF s
  <2>2. v = [tree |-> s, goes |-> w.goes]
    BY <2>1 DEF IsWalk
  <2>3. v.tree = s /\ v.goes = w.goes /\ IsWalk(v)
    BY <2>2 DEF IsWalk
  <2> QED
    BY <1>1, <2>3 DEF s, Going
<1>2. CASE ~(Going(w) /\ p \in DOMAIN w.tree /\ Marked(w.tree[p]))
  <2>1. v = [w EXCEPT !.goes = FALSE]
    BY <1>2 DEF Visit, Going
  <2>2. v = [tree |-> w.tree, goes |-> FALSE]
    BY <2>1 DEF IsWalk
  <2>3. v.tree = w.tree /\ v.goes = FALSE /\ IsWalk(v)
    BY <2>2 DEF IsWalk
  <2> QED
    BY <1>2, <2>3 DEF Going
<1> QED
  BY <1>1, <1>2

\* No node of s is at p, or below it.
Nothing(s, p) == \A q \in DOMAIN s : ~Under(p, q)

\* A child of a node that is found is found in the tree that is put back.
LEMMA UndoneKid ==
    ASSUME NEW S, NEW base, Undoes(S, base), DOMAIN base \subseteq Positions,
           \A q \in DOMAIN base : IsLeaf(base, q) => \A r \in DOMAIN base : ~Above(q, r),
           NEW s, TreeOK(s), NEW p, <<s, p>> \in S, NEW i \in 1..2, Append(p, i) \in Positions
    PROVE  \/ /\ Append(p, i) \in DOMAIN s
              /\ <<Restore(s, Append(p, i)), Append(p, i)>> \in S
           \/ Nothing(s, Append(p, i)) /\ Nothing(base, Append(p, i))
<1> DEFINE y == Append(p, i)
<1>1. /\ p \in Positions /\ p \in DOMAIN s /\ p \in DOMAIN base
      /\ IsLeaf(s, p) <=> IsLeaf(base, p)
      /\ IsLeaf(s, p) => \A q \in DOMAIN s : ~Above(p, q)
      /\ ~IsLeaf(s, p) => <<Restore(s, y), y>> \in S
  BY DEF Undoes, Undone
<1>2. y \in Positions /\ Above(p, y)
  BY <1>1, KidUnder
<1> HIDE DEF y
<1>3. CASE IsLeaf(s, p)
  <2>1. ASSUME NEW q \in Positions, Under(y, q) PROVE Above(p, q)
    BY <1>1, <1>2, <2>1, UnderOrder
  <2>2. Nothing(s, y)
    BY <1>1, <1>3, <2>1 DEF Nothing, TreeOK
  <2>3. Nothing(base, y)
    BY <1>1, <1>3, <2>1 DEF Nothing
  <2> QED
    BY <2>2, <2>3 DEF y
<1>4. CASE ~IsLeaf(s, p)
  <2>1. IsLeaf(s, p) <=> Append(p, 2) \notin DOMAIN s
    BY <1>1 DEF TreeOK
  <2>2. Append(p, i) \in DOMAIN s
    BY <1>4, <2>1, BothKids
  <2> QED
    BY <1>1, <1>4, <2>2 DEF y
<1> QED
  BY <1>3, <1>4

\* Every node of base is found.
LEMMA SourceUndoes ==
    ASSUME NEW t, TreeOK(t),
           \A q, r \in DOMAIN t : Above(q, r) /\ t[r].bak # NoTree => Marked(t[q]),
           NEW N, BackupsOf(t) \subseteq N,
           \A s \in N : SavedWell(s) /\ BackupsOf(s) \subseteq N,
           NEW S, NEW base, <<t, <<>>>> \in S, Undoes(S, base), DOMAIN base \subseteq Positions,
           \A q \in DOMAIN base : IsLeaf(base, q) => \A r \in DOMAIN base : ~Above(q, r),
           NEW p \in Positions
    PROVE  /\ p \in DOMAIN Source(t, p) <=> p \in DOMAIN base
           /\ p \in DOMAIN base => SameNode(Source(t, p)[p], base[p])
<1> DEFINE Known(s) == s = t \/ s \in N
           Goes(s, y) == <<s, y>> \in S /\ (s = t \/ (s \in N /\ \E z \in DOMAIN s : Under(z, y)))
           Ends(s, y) == \/ Nothing(s, y) /\ Nothing(base, y)
                         \/ <<s, y>> \in S /\ \A r \in DOMAIN s : Above(y, r) => s[r].bak = NoTree
           Is(w, y) == /\ IsWalk(w) /\ w.goes \in BOOLEAN /\ Known(w.tree)
                       /\ Going(w) => Goes(w.tree, y)
                       /\ ~Going(w) => Ends(w.tree, y)
<1>1. PICK walk : /\ walk[0] = Visit([tree |-> t, goes |-> TRUE], Prefix(p, 0))
                  /\ \A d \in 1..Len(p) : walk[d] = Visit(walk[d - 1], Prefix(p, d))
                  /\ Source(t, p) = walk[Len(p)].tree
  BY SourceIs
<1>2. Len(p) \in 0..Bits /\ Bits \in Nat /\ Len(p) \in Nat /\ p \in Seq({1, 2})
  BY PositionIsSeq, PathsDiffer
<1>3. \A s : Known(s) => TreeOK(s) /\ DOMAIN s \subseteq Positions /\ BackupsOf(s) \subseteq N
  BY DEF SavedWell, TreeOK
<1>4. Is(walk[0], <<>>)
  <2> DEFINE w == [tree |-> t, goes |-> TRUE]
             v == walk[0]
  <2>1. IsWalk(w) /\ w.goes = TRUE /\ w.tree = t
    BY DEF IsWalk
  <2>2. Prefix(p, 0) = <<>>
    BY PrefixOf
  <2> HIDE DEF w
  <2>3. v = Visit(w, <<>>)
    BY <1>1, <2>2 DEF w
  <2> HIDE DEF v
  <2>4. w.goes \in BOOLEAN /\ Going(w)
    BY <2>1 DEF Going
  <2>5. /\ IsWalk(v) /\ v.goes \in BOOLEAN
        /\ Going(w) /\ <<>> \in DOMAIN w.tree /\ Marked(w.tree[<<>>]) =>
             v.tree = Restore(w.tree, <<>>) /\ Going(v)
        /\ ~(Going(w) /\ <<>> \in DOMAIN w.tree /\ Marked(w.tree[<<>>])) => v.tree = w.tree /\ ~Going(v)
    BY <2>1, <2>3, <2>4, VisitIs
  <2>6. <<>> \in DOMAIN t /\ t[<<>>].bak = NoTree
    BY DEF Undoes, Undone, SameNode
  <2>7. Restore(t, <<>>) = t
    BY <2>6 DEF Restore
  <2>8. v.tree = t
    BY <2>1, <2>5, <2>7
  <2>9. ASSUME ~Going(v), NEW r \in DOMAIN t, Above(<<>>, r) PROVE t[r].bak = NoTree
    <3>1. ~Marked(t[<<>>])
      BY <2>1, <2>4, <2>5, <2>6, <2>9
    <3> QED
      BY <2>6, <2>9, <3>1
  <2> QED
    BY <2>5, <2>8, <2>9 DEF v
<1>5. ASSUME NEW w, NEW y \in Positions, Is(w, y), NEW i \in 1..2, Append(y, i) \in Positions,
             NEW v, v = Visit(w, Append(y, i))
      PROVE  Is(v, Append(y, i))
  <2> DEFINE s == w.tree
             z == Append(y, i)
  <2>1. z \in Positions /\ Above(y, z) /\ Under(y, z) /\ Under(z, z)
    BY <1>5, KidUnder, UnderIs DEF Above
  <2>2. TreeOK(s) /\ DOMAIN s \subseteq Positions /\ BackupsOf(s) \subseteq N /\ Known(s)
    BY <1>3, <1>5
  <2> HIDE DEF Known
  <2>3. <<s, y>> \in S => \/ z \in DOMAIN s /\ <<Restore(s, z), z>> \in S
                          \/ Nothing(s, z) /\ Nothing(base, z)
    BY <1>5, <2>2, UndoneKid
  <2>4. v = Visit(w, z)
    BY <1>5
  <2> HIDE DEF z
  <2>5. /\ IsWalk(v) /\ v.goes \in BOOLEAN
        /\ Going(w) /\ z \in DOMAIN s /\ Marked(s[z]) => v.tree = Restore(s, z) /\ Going(v)
        /\ ~(Going(w) /\ z \in DOMAIN s /\ Marked(s[z])) => v.tree = s /\ ~Going(v)
    BY <1>5, <2>4, VisitIs
  <2> HIDE DEF s
  <2>6. ASSUME NEW r, r = s, NEW q \in DOMAIN r, Above(z, q) PROVE Above(y, q)
    BY <1>5, <2>1, <2>2, <2>6, UnderOrder DEF Above
  <2>7. Nothing(s, z) => z \notin DOMAIN s
    BY <2>1 DEF Nothing
  <2>8. z \in DOMAIN s /\ s[z].bak = NoTree => Restore(s, z) = s
    BY DEF Restore
  <2>9. CASE Going(w)
    <3>1. Goes(s, y)
      BY <1>5, <2>9 DEF s
    <3>2. CASE z \in DOMAIN s /\ Marked(s[z])
      <4>1. v.tree = Restore(s, z) /\ Going(v) /\ <<Restore(s, z), z>> \in S
        BY <2>3, <2>5, <2>7, <2>9, <3>1, <3>2
      <4>2. CASE s[z].bak = NoTree
        <5>1. Restore(s, z) = s
          BY <2>8, <3>2, <4>2
        <5>2. s = t \/ (s \in N /\ \E x \in DOMAIN s : Under(x, z))
          <6>1. CASE s = t
            BY <6>1
          <6>2. CASE s # t
            <7>1. PICK x \in DOMAIN s : Under(x, y)
              BY <3>1, <6>2
            <7>2. Under(x, z)
              BY <1>5, <2>1, <2>2, <7>1, UnderOrder
            <7> QED
              BY <3>1, <6>2, <7>1, <7>2
          <6> QED
            BY <6>1, <6>2
        <5> QED
          BY <2>2, <2>5, <4>1, <5>1, <5>2 DEF z
      <4>3. CASE s[z].bak # NoTree
        <5>1. Restore(s, z) = s[z].bak /\ s[z].bak \in BackupsOf(s)
          BY <3>2, <4>3 DEF Restore, BackupsOf
        <5>2. z \in DOMAIN s[z].bak
          BY <2>2, <3>2, <4>3 DEF TreeOK
        <5>3. Restore(s, z) \in N /\ \E x \in DOMAIN Restore(s, z) : Under(x, z)
          BY <2>1, <2>2, <5>1, <5>2
        <5> QED
          BY <2>5, <4>1, <5>3 DEF z, Known
      <4> QED
        BY <4>2, <4>3
    <3>3. CASE z \in DOMAIN s /\ ~Marked(s[z])
      <4>1. s[z].bak = NoTree /\ v.tree = s /\ ~Going(v)
        BY <2>5, <3>3 DEF Marked
      <4>2. <<s, z>> \in S
        BY <2>3, <2>7, <2>8, <3>1, <3>3, <4>1
      <4>3. ASSUME NEW r \in DOMAIN s, Above(z, r), s[r].bak # NoTree PROVE FALSE
        <5>1. CASE s = t
          BY <3>3, <4>3, <5>1
        <5>2. CASE s # t
          <6>1. s \in N
            BY <3>1, <5>2
          <6>2. PICK x \in DOMAIN s : Under(x, y)
            BY <3>1, <5>2
          <6>3. Above(x, z)
            BY <1>5, <2>1, <2>2, <6>2, UnderOrder
          <6>4. MarksInside(s)
            BY <6>1 DEF SavedWell
          <6> QED
            BY <3>3, <4>3, <6>3, <6>4 DEF MarksInside
        <5> QED
          BY <5>1, <5>2
      <4> QED
        BY <2>2, <2>5, <4>1, <4>2, <4>3 DEF z
    <3>4. CASE z \notin DOMAIN s
      <4>1. Nothing(s, z) /\ Nothing(base, z)
        BY <2>3, <3>1, <3>4
      <4> QED
        BY <2>2, <2>5, <3>4, <4>1 DEF z
    <3> QED
      BY <3>2, <3>3, <3>4
  <2>10. CASE ~Going(w)
    <3>1. Ends(s, y) /\ v.tree = s /\ ~Going(v)
      BY <1>5, <2>5, <2>10 DEF s
    <3>2. CASE Nothing(s, y) /\ Nothing(base, y)
      <4>1. \A q \in Positions : Under(z, q) => Under(y, q)
        BY <1>5, <2>1, UnderOrder
      <4>2. Nothing(s, z) /\ Nothing(base, z)
        BY <2>2, <3>2, <4>1 DEF Nothing
      <4> QED
        BY <2>2, <2>5, <3>1, <4>2 DEF z
    <3>3. CASE ~(Nothing(s, y) /\ Nothing(base, y))
      <4>1. <<s, y>> \in S /\ \A r \in DOMAIN s : Above(y, r) => s[r].bak = NoTree
        BY <3>1, <3>3
      <4>2. \A r \in DOMAIN s : Above(z, r) => s[r].bak = NoTree
        BY <2>6, <4>1
      <4>3. CASE z \in DOMAIN s /\ <<Restore(s, z), z>> \in S
        <5>1. <<s, z>> \in S
          BY <2>1, <2>8, <4>1, <4>3
        <5> QED
          BY <2>2, <2>5, <3>1, <4>2, <5>1 DEF z
      <4>4. CASE Nothing(s, z) /\ Nothing(base, z)
        BY <2>2, <2>5, <3>1, <4>4 DEF z
      <4> QED
        BY <2>3, <4>1, <4>3, <4>4
    <3> QED
      BY <3>2, <3>3
  <2> QED
    BY <2>9, <2>10
<1> HIDE DEF Is
<1> DEFINE D == {d \in 0..Len(p) : Is(walk[d], Prefix(p, d))}
<1>6. 0 \in D
  <2>1. Prefix(p, 0) = <<>> /\ 0 \in 0..Len(p)
    BY <1>2, PrefixOf
  <2> QED
    BY <1>4, <2>1
<1>7. ASSUME NEW d \in 0..Len(p), d < Len(p), d \in D PROVE d + 1 \in D
  <2> DEFINE y == Prefix(p, d)
             i == p[d + 1]
  <2>1. d + 1 \in 1..Len(p) /\ d + 1 - 1 = d /\ d + 1 \in 0..Len(p)
    BY <1>2, <1>7
  <2>2. i \in 1..2 /\ Prefix(p, d + 1) = Append(y, i)
    BY <1>7, PrefixOf
  <2>3. y \in Positions /\ Prefix(p, d + 1) \in Positions
    BY <2>1, PrefixIs
  <2>4. walk[d + 1] = Visit(walk[d], Append(y, i))
    <3>1. walk[d + 1] = Visit(walk[d + 1 - 1], Prefix(p, d + 1))
      BY <1>1, <2>1
    <3> QED
      BY <2>1, <2>2, <3>1
  <2>5. Is(walk[d], y)
    BY <1>7
  <2> HIDE DEF y, i
  <2>6. Is(walk[d + 1], Append(y, i))
    BY <1>5, <2>2, <2>3, <2>4, <2>5
  <2> QED
    BY <2>1, <2>2, <2>6
<1>8. Is(walk[Len(p)], p)
  <2>1. \A d \in 0..Len(p) : d \in D
    <3> HIDE DEF D
    <3> QED
      BY <1>2, <1>6, <1>7, UpTo
  <2>2. Prefix(p, Len(p)) = p /\ Len(p) \in 0..Len(p)
    BY <1>2, PrefixOf
  <2> QED
    BY <2>1, <2>2
<1>9. \/ <<Source(t, p), p>> \in S
      \/ Nothing(Source(t, p), p) /\ Nothing(base, p)
  BY <1>1, <1>8 DEF Is
<1>10. CASE <<Source(t, p), p>> \in S
  BY <1>10 DEF Undoes, Undone
<1>11. CASE Nothing(Source(t, p), p) /\ Nothing(base, p)
  <2>1. Under(p, p)
    BY UnderIs
  <2> QED
    BY <1>11, <2>1 DEF Nothing
<1> QED
  BY <1>9, <1>10, <1>11

-----------------------------------------------------------------------------
(* Between the transactions.                                               *)

\* A tree that no transaction has touched: every label and sum is right.
Good(t, contents) ==
    /\ InnerSet(Inner(Present(contents)))
    /\ Shape(t, Inner(Present(contents)), contents)
    /\ \A p \in DOMAIN t : Fits(t, p, FALSE) /\ Quiet(t, p)

\* Outside a transaction nothing is owed: Mid and Good agree.
LEMMA GoodMid ==
    ASSUME NEW t, NEW contents, NEW k
    PROVE  Good(t, contents) <=> Mid(t, Inner(Present(contents)), contents, k, 0, FALSE)
<1>1. ASSUME Good(t, contents) PROVE Mid(t, Inner(Present(contents)), contents, k, 0, FALSE)
  <2>1. \A p \in DOMAIN t : t[p].bak = NoTree /\ Quiet(t, p)
    BY <1>1 DEF Good, Fits
  <2>2. Marks(t, k, 0, FALSE)
    BY <2>1 DEF Marks
  <2>3. BackupsOf(t) \subseteq {}
    BY <2>1 DEF BackupsOf
  <2>4. Nested(t)
    BY <2>3 DEF Nested
  <2> QED
    BY <1>1, <2>2, <2>4 DEF Good, Mid
<1>2. ASSUME Mid(t, Inner(Present(contents)), contents, k, 0, FALSE) PROVE Good(t, contents)
  <2>1. DOMAIN t \subseteq Positions
    BY <1>2, MidTree
  <2>2. \A p \in DOMAIN t : Quiet(t, p)
    <3> SUFFICES ASSUME NEW p \in DOMAIN t, ~Quiet(t, p) PROVE FALSE
      OBVIOUS
    <3>1. Excused(t, p, k, 0, FALSE)
      BY <1>2 DEF Mid, Marks
    <3>2. Len(p) \in Nat
      BY <2>1, PositionIsSeq
    <3> QED
      BY <3>1, <3>2 DEF Excused
  <2> QED
    BY <1>2, <2>2 DEF Good, Mid
<1> QED
  BY <1>1, <1>2

\* s stores in its nodes what t does, and nothing of a transaction.
Plain(s, t) ==
    /\ DOMAIN s = DOMAIN t
    /\ \A p \in DOMAIN t :
        /\ IsNode(s[p]) /\ s[p].known = t[p].known /\ s[p].key = t[p].key
        /\ s[p].val = t[p].val /\ s[p].label = t[p].label
        /\ s[p].array = None /\ s[p].inc \in BOOLEAN /\ s[p].bak = NoTree

\* Everything that is right in t is right in s.
LEMMA GoodPlain ==
    ASSUME NEW s, NEW t, NEW contents, Good(t, contents), Plain(s, t)
    PROVE  Good(s, contents)
<1> DEFINE inner == Inner(Present(contents))
<1>1. InnerSet(inner) /\ Shape(t, inner, contents) /\ DOMAIN t = NodesFor(inner)
      /\ inner \subseteq NodesFor(inner)
  BY NodesArePositions DEF Good, Shape
<1> HIDE DEF inner
<1>2. DOMAIN s = DOMAIN t
  BY DEF Plain
<1>3. \A p : IsLeaf(s, p) <=> IsLeaf(t, p)
  BY <1>2 DEF IsLeaf
<1>4. Shape(s, inner, contents)
  <2>1. \A p \in DOMAIN t : s[p].key = t[p].key /\ s[p].val = t[p].val
    BY DEF Plain
  <2>2. ASSUME NEW p \in NodesFor(inner) \ inner PROVE Holds(s[p], p, contents)
    <3>1. Holds(t[p], p, contents) /\ s[p].key = t[p].key /\ s[p].val = t[p].val
      BY <1>1, <2>1 DEF Shape
    <3> QED
      BY <3>1 DEF Holds
  <2> QED
    BY <1>1, <1>2, <2>1, <2>2 DEF Shape
<1>5. ASSUME NEW p \in DOMAIN s PROVE Fits(s, p, FALSE) /\ Quiet(s, p)
  <2>1. p \in DOMAIN t /\ Fits(t, p, FALSE) /\ Quiet(t, p)
    BY <1>2 DEF Good
  <2>2. /\ IsNode(s[p]) /\ s[p].known = t[p].known /\ s[p].key = t[p].key
        /\ s[p].val = t[p].val /\ s[p].label = t[p].label
        /\ s[p].array = None /\ s[p].inc \in BOOLEAN /\ s[p].bak = NoTree
    BY <2>1 DEF Plain
  <2>3. Fits(s, p, FALSE)
    <3>1. NodeOK(t[p]) /\ t[p].known = TRUE
      BY <2>1 DEF Fits
    <3>2. s[p].known = TRUE
      BY <2>2, <3>1
    <3>3. s[p].known \in BOOLEAN /\ s[p].inc \in BOOLEAN /\ (s[p].known \/ (s[p].key = None /\ s[p].val = 0))
      BY <2>2, <3>2
    <3>4. s[p].key \in Keys \cup {None} /\ s[p].array \in Keys \cup {None} /\ s[p].val \in 0..(Width - 1)
      BY <2>2, <3>1 DEF NodeOK
    <3>5. NodeOK(s[p])
      BY <3>3, <3>4 DEF NodeOK
    <3>6. IsLeaf(s, p) => s[p].label = LeafLabel(s[p].key, s[p].val)
      BY <1>3, <2>1, <2>2 DEF Fits
    <3> QED
      BY <2>2, <3>2, <3>5, <3>6 DEF Fits
  <2>4. Quiet(s, p)
    <3>1. CASE IsLeaf(t, p)
      BY <1>3, <3>1 DEF Quiet
    <3>2. CASE ~IsLeaf(t, p)
      <4>1. p \in inner
        BY <1>1, <2>1, <3>2, NodesArePositions, LeafIsOuter
      <4>2. Append(p, 1) \in DOMAIN t /\ Append(p, 2) \in DOMAIN t
        <5>1. 1 \in 1..2 /\ 2 \in 1..2
          OBVIOUS
        <5> QED
          BY <1>1, <2>1, <4>1, <5>1, NodesArePositions
      <4>3. /\ s[Append(p, 1)].val = t[Append(p, 1)].val /\ s[Append(p, 1)].label = t[Append(p, 1)].label
            /\ s[Append(p, 2)].val = t[Append(p, 2)].val /\ s[Append(p, 2)].label = t[Append(p, 2)].label
        BY <4>2 DEF Plain
      <4>4. Settled(t, p)
        BY <2>1, <3>2 DEF Quiet
      <4>5. Settled(s, p)
        BY <2>2, <4>3, <4>4 DEF Settled
      <4> QED
        BY <2>2, <4>5 DEF Quiet
    <3> QED
      BY <3>1, <3>2
  <2> QED
    BY <2>3, <2>4
<1> QED
  BY <1>1, <1>4, <1>5 DEF Good, inner

\* Named changes the arrays only.
LEMMA NamedIs ==
    ASSUME NEW t, \A p \in DOMAIN t : IsNode(t[p]), NEW own \in BOOLEAN, NEW s, s = Named(t, own)
    PROVE  /\ DOMAIN s = DOMAIN t
           /\ \A p \in DOMAIN t :
                /\ own /\ IsLeaf(t, p) => Like(s[p], t[p], t[p].key, t[p].val, t[p].key, t[p].label, t[p].inc, t[p].bak)
                /\ ~(own /\ IsLeaf(t, p)) => Like(s[p], t[p], t[p].key, t[p].val, None, t[p].label, t[p].inc, t[p].bak)
<1>1. DOMAIN s = DOMAIN t
  BY DEF Named
<1>2. ASSUME NEW p \in DOMAIN t
      PROVE  /\ own /\ IsLeaf(t, p) => s[p] = [t[p] EXCEPT !.array = t[p].key]
             /\ ~(own /\ IsLeaf(t, p)) => s[p] = [t[p] EXCEPT !.array = None]
  BY DEF Named
<1>3. ASSUME NEW p \in DOMAIN t, NEW x
      PROVE  Like([t[p] EXCEPT !.array = x], t[p], t[p].key, t[p].val, x, t[p].label, t[p].inc, t[p].bak)
  BY WithIs
<1>4. ASSUME NEW p \in DOMAIN t, own /\ IsLeaf(t, p)
      PROVE  Like(s[p], t[p], t[p].key, t[p].val, t[p].key, t[p].label, t[p].inc, t[p].bak)
  <2> DEFINE n == [t[p] EXCEPT !.array = t[p].key]
  <2>1. Like(n, t[p], t[p].key, t[p].val, t[p].key, t[p].label, t[p].inc, t[p].bak)
    BY <1>3
  <2>2. s[p] = n
    BY <1>2, <1>4
  <2> HIDE DEF n
  <2> QED
    BY <2>1, <2>2
<1>5. ASSUME NEW p \in DOMAIN t, ~(own /\ IsLeaf(t, p))
      PROVE  Like(s[p], t[p], t[p].key, t[p].val, None, t[p].label, t[p].inc, t[p].bak)
  <2> DEFINE n == [t[p] EXCEPT !.array = None]
  <2>1. Like(n, t[p], t[p].key, t[p].val, None, t[p].label, t[p].inc, t[p].bak)
    BY <1>3
  <2>2. s[p] = n
    BY <1>2, <1>5
  <2> HIDE DEF n
  <2> QED
    BY <2>1, <2>2
<1> QED
  BY <1>1, <1>4, <1>5

Everything == [masks |-> {}, all |-> TRUE]

\* With everything in the scope, Collect forgets nothing.
LEMMA CollectedIs ==
    ASSUME scope = Everything, NEW t, DOMAIN t \subseteq Positions
    PROVE  DOMAIN Collected(t) = DOMAIN t /\ \A p \in DOMAIN t : Collected(t)[p] = t[p]
<1>1. scope.masks = {} /\ scope.all = TRUE
  BY DEF Everything
<1>2. \A p : ~OutOfScope(p)
  BY <1>1 DEF OutOfScope, Matches
<1> DEFINE out == {p \in DOMAIN t : t[p].known /\ OutOfScope(p)}
           kept == {p \in DOMAIN t : \A d \in 0..(Len(p) - 1) : Prefix(p, d) \notin out}
<1>3. out = {}
  BY <1>2
<1>4. kept = DOMAIN t
  BY <1>3
<1>5. Collected(t) = [p \in kept |-> IF p \in out THEN Forget(t[p]) ELSE t[p]]
  BY DEF Collected
<1> HIDE DEF out, kept
<1> QED
  BY <1>3, <1>4, <1>5

\* After Begin, Rollback finds the tree it began with.
LEMMA BeginMid ==
    ASSUME NEW t, NEW contents, Good(t, contents), NEW k, NEW s, s = Named(t, TRUE)
    PROVE  Mid(s, Inner(Present(contents)), contents, k, 0, TRUE) /\ Rolls(s, t)
<1> DEFINE inner == Inner(Present(contents))
<1>1. Mid(t, inner, contents, k, 0, FALSE)
  BY GoodMid
<1>2. /\ DOMAIN t = NodesFor(inner) /\ DOMAIN t \subseteq Positions /\ InnerSet(inner)
      /\ Shape(t, inner, contents)
      /\ \A p \in DOMAIN t : IsNode(t[p]) /\ (IsLeaf(t, p) <=> Append(p, 2) \notin DOMAIN t)
                             /\ (IsLeaf(t, p) <=> p \notin inner)
      /\ <<>> \in DOMAIN t
  BY <1>1, MidTree DEF Mid
<1>3. \A p \in DOMAIN t : Fits(t, p, FALSE) /\ Quiet(t, p)
  BY DEF Good
<1> HIDE DEF inner
<1>4. /\ DOMAIN s = DOMAIN t
      /\ \A p \in DOMAIN t :
           /\ IsLeaf(t, p) => Like(s[p], t[p], t[p].key, t[p].val, t[p].key, t[p].label, t[p].inc, t[p].bak)
           /\ ~IsLeaf(t, p) => Like(s[p], t[p], t[p].key, t[p].val, None, t[p].label, t[p].inc, t[p].bak)
  <2>1. /\ DOMAIN s = DOMAIN t
        /\ \A p \in DOMAIN t :
           /\ TRUE /\ IsLeaf(t, p) => Like(s[p], t[p], t[p].key, t[p].val, t[p].key, t[p].label, t[p].inc, t[p].bak)
           /\ ~(TRUE /\ IsLeaf(t, p)) => Like(s[p], t[p], t[p].key, t[p].val, None, t[p].label, t[p].inc, t[p].bak)
    BY <1>2, NamedIs
  <2> QED
    BY <2>1
<1>5. \A p : IsLeaf(s, p) <=> IsLeaf(t, p)
  BY <1>4 DEF IsLeaf
<1>6. ASSUME NEW p \in DOMAIN t
      PROVE  /\ IsNode(s[p]) /\ s[p].known = t[p].known /\ s[p].key = t[p].key /\ s[p].val = t[p].val
             /\ s[p].label = t[p].label /\ s[p].inc = t[p].inc /\ s[p].bak = NoTree
             /\ IsLeaf(t, p) => s[p].array = t[p].key
             /\ ~IsLeaf(t, p) => s[p].array = None
  <2>1. t[p].bak = NoTree
    BY <1>3 DEF Fits
  <2>2. CASE IsLeaf(t, p)
    <3>1. Like(s[p], t[p], t[p].key, t[p].val, t[p].key, t[p].label, t[p].inc, t[p].bak)
      BY <1>4, <2>2
    <3> QED
      BY <2>1, <2>2, <3>1 DEF Like
  <2>3. CASE ~IsLeaf(t, p)
    <3>1. Like(s[p], t[p], t[p].key, t[p].val, None, t[p].label, t[p].inc, t[p].bak)
      BY <1>4, <2>3
    <3> QED
      BY <2>1, <2>3, <3>1 DEF Like
  <2> QED
    BY <2>2, <2>3
<1>7. Shape(s, inner, contents)
  <2>1. ASSUME NEW p \in inner PROVE s[p].key = None
    <3>1. p \in DOMAIN t /\ t[p].key = None
      BY <1>2, <2>1, NodesArePositions DEF Shape
    <3> QED
      BY <1>6, <3>1
  <2>2. ASSUME NEW p \in NodesFor(inner) \ inner PROVE Holds(s[p], p, contents)
    <3>1. Holds(t[p], p, contents) /\ s[p].key = t[p].key /\ s[p].val = t[p].val
      BY <1>2, <1>6 DEF Shape
    <3> QED
      BY <3>1 DEF Holds
  <2> QED
    BY <1>2, <1>4, <2>1, <2>2 DEF Shape
<1>8. ASSUME NEW p \in DOMAIN s PROVE Fits(s, p, TRUE)
  <2>1. p \in DOMAIN t /\ Fits(t, p, FALSE)
    BY <1>3, <1>4
  <2>2. NodeOK(t[p]) /\ t[p].known = TRUE
    BY <2>1 DEF Fits
  <2>3. s[p].known = TRUE /\ s[p].inc = t[p].inc
    BY <1>6, <2>1, <2>2
  <2>4. s[p].known \in BOOLEAN /\ s[p].inc \in BOOLEAN /\ (s[p].known \/ (s[p].key = None /\ s[p].val = 0))
    BY <2>2, <2>3 DEF NodeOK
  <2>5. s[p].array \in {None, s[p].key} /\ s[p].key = t[p].key /\ s[p].val = t[p].val
    BY <1>6, <2>1
  <2>6. s[p].key \in Keys \cup {None} /\ s[p].array \in Keys \cup {None} /\ s[p].val \in 0..(Width - 1)
    BY <2>2, <2>5 DEF NodeOK
  <2>7. NodeOK(s[p])
    BY <2>4, <2>6 DEF NodeOK
  <2>8. IsLeaf(s, p) => s[p].label = LeafLabel(s[p].key, s[p].val)
    BY <1>5, <1>6, <2>1 DEF Fits
  <2>9. s[p].array # None => IsLeaf(s, p)
    BY <1>5, <1>6, <2>1
  <2> QED
    BY <1>6, <2>1, <2>3, <2>5, <2>7, <2>8, <2>9 DEF Fits
<1>9. ASSUME NEW p \in DOMAIN s PROVE Quiet(s, p)
  <2>1. p \in DOMAIN t /\ Quiet(t, p)
    BY <1>3, <1>4
  <2>2. CASE IsLeaf(t, p)
    BY <1>5, <2>2 DEF Quiet
  <2>3. CASE ~IsLeaf(t, p)
    <3>1. Append(p, 1) \in DOMAIN t /\ Append(p, 2) \in DOMAIN t
      BY <1>2, <2>1, <2>3 DEF IsLeaf
    <3>2. /\ s[Append(p, 1)].val = t[Append(p, 1)].val /\ s[Append(p, 1)].label = t[Append(p, 1)].label
          /\ s[Append(p, 2)].val = t[Append(p, 2)].val /\ s[Append(p, 2)].label = t[Append(p, 2)].label
      BY <1>6, <3>1
    <3>3. Settled(t, p)
      BY <2>1, <2>3 DEF Quiet
    <3>4. s[p].val = t[p].val /\ s[p].label = t[p].label /\ s[p].array = None
      BY <1>6, <2>1, <2>3
    <3>5. Settled(s, p)
      BY <3>2, <3>3, <3>4 DEF Settled
    <3> QED
      BY <3>4, <3>5 DEF Quiet
  <2> QED
    BY <2>2, <2>3
<1>10. \A p \in DOMAIN s : s[p].bak = NoTree
  BY <1>4, <1>6
<1>11. Marks(s, k, 0, TRUE)
  BY <1>9, <1>10 DEF Marks
<1>12. Nested(s)
  <2>1. BackupsOf(s) \subseteq {}
    BY <1>10 DEF BackupsOf
  <2> QED
    BY <2>1 DEF Nested
<1>13. Mid(s, inner, contents, k, 0, TRUE)
  BY <1>2, <1>7, <1>8, <1>11, <1>12 DEF Mid
<1>14. Rolls(s, t)
  <2> DEFINE S == {<<s, p>> : p \in DOMAIN s}
  <2>1. <<s, <<>>>> \in S
    BY <1>2, <1>4
  <2>2. \A p \in DOMAIN s : <<s, p>> \in S
    OBVIOUS
  <2>3. \A r, p : <<r, p>> \in S => r = s /\ p \in DOMAIN s
    OBVIOUS
  <2> HIDE DEF S
  <2>4. ASSUME NEW p \in DOMAIN s PROVE Undone(s, p, t, S)
    <3>1. p \in DOMAIN t /\ p \in Positions
      BY <1>2, <1>4
    <3>2. SameNode(s[p], t[p])
      <4>1. s[p].inc \in BOOLEAN
        BY <1>8 DEF Fits, NodeOK
      <4> QED
        BY <1>6, <3>1, <4>1 DEF SameNode
    <3>3. IsLeaf(s, p) => \A q \in DOMAIN s : ~Above(p, q)
      BY <1>2, <1>4, <1>5, <3>1, LeafEnds
    <3>4. ASSUME ~IsLeaf(s, p), NEW i \in 1..2 PROVE <<Restore(s, Append(p, i)), Append(p, i)>> \in S
      <4>1. ~IsLeaf(t, p)
        BY <1>5, <3>4
      <4>2. Append(p, i) \in DOMAIN t
        BY <1>2, <3>1, <4>1, BothKids
      <4>3. Restore(s, Append(p, i)) = s
        BY <1>6, <4>2 DEF Restore
      <4> QED
        BY <1>4, <2>2, <4>2, <4>3
    <3> QED
      BY <1>5, <3>1, <3>2, <3>3, <3>4 DEF Undone
  <2>5. Undoes(S, t)
    BY <2>3, <2>4 DEF Undoes
  <2> QED
    BY <2>1, <2>5 DEF Rolls
<1> QED
  BY <1>13, <1>14 DEF inner

\* What Rollback leaves is as good as the tree the transaction began with.
LEMMA RollbackGood ==
    ASSUME NEW t, NEW inner, NEW contents, NEW k, Mid(t, inner, contents, k, 0, TRUE),
           NEW base, NEW before, Good(base, before), Rolls(t, base),
           NEW s, s = Named(RolledBack(t), FALSE)
    PROVE  /\ Good(s, before) /\ DOMAIN RolledBack(t) = DOMAIN s
           /\ \A p \in DOMAIN s : IsNode(RolledBack(t)[p]) /\ RolledBack(t)[p].known = TRUE
<1>1. /\ TreeOK(t) /\ DOMAIN t \subseteq Positions
  BY MidTree
<1>2. PICK N : BackupsOf(t) \subseteq N /\ \A r \in N : SavedWell(r) /\ BackupsOf(r) \subseteq N
  BY DEF Mid, Nested
<1>3. PICK S : <<t, <<>>>> \in S /\ Undoes(S, base)
  BY DEF Rolls
<1>4. \A q, r \in DOMAIN t : Above(q, r) /\ t[r].bak # NoTree => Marked(t[q])
  <2> SUFFICES ASSUME NEW q \in DOMAIN t, NEW r \in DOMAIN t, Above(q, r), t[r].bak # NoTree
               PROVE  Marked(t[q])
    OBVIOUS
  <2>1. Excused(t, q, k, 0, TRUE)
    BY DEF Mid, Marks
  <2>2. Len(q) \in Nat
    BY <1>1, PositionIsSeq
  <2> QED
    BY <2>1, <2>2 DEF Excused, Marked
<1> DEFINE needed == Inner(Present(before))
<1>5. /\ InnerSet(needed) /\ DOMAIN base = NodesFor(needed) /\ DOMAIN base \subseteq Positions
  BY NodesArePositions DEF Good, Shape
<1> HIDE DEF needed
<1>6. \A q \in DOMAIN base : IsLeaf(base, q) => \A r \in DOMAIN base : ~Above(q, r)
  <2> SUFFICES ASSUME NEW q \in DOMAIN base, IsLeaf(base, q), NEW r \in DOMAIN base
               PROVE  ~Above(q, r)
    OBVIOUS
  <2>1. q \notin needed
    BY <1>5, LeafIsOuter
  <2> QED
    BY <1>5, <2>1, LeafEnds
<1>7. ASSUME NEW p \in Positions
      PROVE  /\ p \in DOMAIN Source(t, p) <=> p \in DOMAIN base
             /\ p \in DOMAIN base => SameNode(Source(t, p)[p], base[p])
  BY <1>1, <1>2, <1>3, <1>4, <1>5, <1>6, SourceUndoes
<1> DEFINE r == RolledBack(t)
<1>8. DOMAIN r = DOMAIN base /\ \A p \in DOMAIN base : r[p] = Source(t, p)[p]
  BY <1>5, <1>7 DEF RolledBack
<1> HIDE DEF r
<1>9. \A p \in DOMAIN base : SameNode(r[p], base[p])
  BY <1>5, <1>7, <1>8
<1>10. \A p \in DOMAIN r : IsNode(r[p])
  BY <1>8, <1>9 DEF SameNode
<1>11. /\ DOMAIN s = DOMAIN r
       /\ \A p \in DOMAIN r : Like(s[p], r[p], r[p].key, r[p].val, None, r[p].label, r[p].inc, r[p].bak)
  <2>1. s = Named(r, FALSE) /\ FALSE \in BOOLEAN
    BY DEF r
  <2>2. /\ DOMAIN s = DOMAIN r
        /\ \A p \in DOMAIN r :
             ~(FALSE /\ IsLeaf(r, p)) => Like(s[p], r[p], r[p].key, r[p].val, None, r[p].label, r[p].inc, r[p].bak)
    BY <1>10, <2>1, NamedIs
  <2> QED
    BY <2>2
<1>12. Plain(s, base)
  <2>1. ASSUME NEW p \in DOMAIN base
        PROVE  /\ IsNode(s[p]) /\ s[p].known = base[p].known /\ s[p].key = base[p].key
               /\ s[p].val = base[p].val /\ s[p].label = base[p].label
               /\ s[p].array = None /\ s[p].inc \in BOOLEAN /\ s[p].bak = NoTree
    <3>1. SameNode(r[p], base[p])
      BY <1>9
    <3>2. Like(s[p], r[p], r[p].key, r[p].val, None, r[p].label, r[p].inc, r[p].bak)
      BY <1>8, <1>11
    <3>3. IsNode(s[p]) /\ s[p].known = r[p].known /\ s[p].key = r[p].key /\ s[p].val = r[p].val
          /\ s[p].label = r[p].label /\ s[p].array = None /\ s[p].inc = r[p].inc /\ s[p].bak = r[p].bak
      BY <3>2 DEF Like
    <3>4. r[p].inc \in BOOLEAN /\ r[p].bak = NoTree /\ r[p].known = base[p].known /\ r[p].key = base[p].key
          /\ r[p].val = base[p].val /\ r[p].label = base[p].label
      BY <3>1 DEF SameNode
    <3> QED
      BY <3>3, <3>4
  <2> QED
    BY <1>8, <1>11, <2>1 DEF Plain
<1>13. \A p \in DOMAIN r : IsNode(r[p]) /\ r[p].known = TRUE
  <2> SUFFICES ASSUME NEW p \in DOMAIN r PROVE r[p].known = TRUE
    BY <1>10
  <2>1. base[p].known = TRUE
    BY <1>8 DEF Good, Fits
  <2> QED
    BY <1>8, <1>9, <2>1 DEF SameNode
<1> QED
  BY <1>11, <1>12, <1>13, GoodPlain DEF r

-----------------------------------------------------------------------------
(* Updates from the leaves to the root.                                    *)

\* n is the node m, but for its data.
Redone(n, m) ==
    /\ IsNode(n) /\ n.known = TRUE /\ n.key = m.key /\ n.inc = m.inc /\ n.bak = m.bak
    /\ n.val \in 0..(Width - 1)

SameData(n, m) == n.val = m.val /\ n.label = m.label /\ n.array = m.array

LeavesAreRight(t) ==
    \A p \in DOMAIN t : /\ IsNode(t[p]) /\ t[p].known = TRUE /\ t[p].val \in 0..(Width - 1)
                        /\ IsLeaf(t, p) => t[p].label = LeafLabel(t[p].key, t[p].val)

\* The nodes that are not in V are right, and none below them is in V.
Covers(V, t) ==
    \A p \in DOMAIN t : p \notin V => Quiet(t, p) /\ \A i \in 1..2 : Append(p, i) \notin V

\* Every internal node among the positions is updated after its children.
LEMMA RelabelledGood ==
    ASSUME NEW u, NEW inner, InnerSet(inner), DOMAIN u = NodesFor(inner), LeavesAreRight(u),
           NEW V, Covers(V, u), NEW r, r = Relabelled(u, V)
    PROVE  /\ DOMAIN r = DOMAIN u
           /\ \A p \in DOMAIN u : /\ Redone(r[p], u[p]) /\ (p \notin inner => SameData(r[p], u[p]))
                                  /\ p \in inner => Settled(r, p) /\ r[p].array = None
<1> USE DEF LeavesAreRight, Covers
<1>1. PICK up : /\ up[0] = u /\ r = up[Bits + 1]
                /\ \A i \in 1..(Bits + 1) :
                     up[i] = [p \in DOMAIN u |->
                                IF p \in V /\ Len(p) = Bits + 1 - i
                                THEN Update(up[i - 1], p) ELSE up[i - 1][p]]
  <2>1. \E up : /\ up[0] = u /\ Relabelled(u, V) = up[Bits + 1]
                /\ \A i \in 1..(Bits + 1) :
                     up[i] = [p \in DOMAIN u |->
                                IF p \in V /\ Len(p) = Bits + 1 - i
                                THEN Update(up[i - 1], p) ELSE up[i - 1][p]]
    BY RelabelledIs
  <2> QED
    BY <2>1
<1>2. Bits \in Nat /\ Bits + 1 \in Nat
  BY PathsDiffer
<1>3. /\ DOMAIN u \subseteq Positions
      /\ \A p \in DOMAIN u : /\ Len(p) \in 0..Bits /\ (IsLeaf(u, p) <=> p \notin inner)
                             /\ p \in inner => \A i \in 1..2 : /\ Append(p, i) \in DOMAIN u
                                                               /\ Len(Append(p, i)) = Len(p) + 1
  <2>1. DOMAIN u \subseteq Positions
    BY NodesArePositions
  <2> QED
    BY <2>1, NodesArePositions, LeafIsOuter, PositionIsSeq, Kid
<1> DEFINE Kept2(s, p) == Redone(s[p], u[p]) /\ (p \notin inner => SameData(s[p], u[p])) /\ (p \notin V => s[p] = u[p])
           Done(s, p) == p \in inner => Settled(s, p) /\ s[p].array = None
           Right(s, i) == /\ DOMAIN s = DOMAIN u
                          /\ \A p \in DOMAIN u : Kept2(s, p) /\ (Len(p) + i >= Bits + 1 => Done(s, p))
<1>4. Right(u, 0)
  <2>1. ASSUME NEW p \in DOMAIN u PROVE Kept2(u, p) /\ ~(Len(p) + 0 >= Bits + 1)
    BY <1>2, <1>3 DEF Redone, SameData
  <2> QED
    BY <2>1
<1>5. ASSUME NEW i \in 0..Bits, NEW s, Right(s, i), NEW q,
             q = [p \in DOMAIN u |-> IF p \in V /\ Len(p) = Bits - i THEN Update(s, p) ELSE s[p]]
      PROVE  Right(q, i + 1)
  <2>1. DOMAIN s = DOMAIN u /\ \A p : IsLeaf(s, p) <=> IsLeaf(u, p)
    BY <1>5 DEF IsLeaf
  <2>2. DOMAIN q = DOMAIN u /\ \A p \in DOMAIN u : ~(p \in V /\ Len(p) = Bits - i) => q[p] = s[p]
    BY <1>5
  <2>3. \A p \in DOMAIN u : p \in V /\ Len(p) = Bits - i => q[p] = Update(s, p)
    BY <1>5
  <2>4. \A p \in DOMAIN u : Redone(s[p], u[p]) /\ (p \notin inner => SameData(s[p], u[p]))
    BY <1>5
  <2>5. ASSUME NEW p \in DOMAIN u, p \in V, Len(p) = Bits - i
        PROVE  /\ Redone(q[p], u[p]) /\ (p \notin inner => SameData(q[p], u[p]))
               /\ p \in inner =>
                    /\ q[p].val = Parent(s[Append(p, 1)].val, s[Append(p, 2)].val)
                    /\ q[p].label = NodeLabel(q[p].val, s[Append(p, 1)].label, s[Append(p, 2)].label)
                    /\ q[p].array = None
    <3> DEFINE n == s[p]
               m == q[p]
    <3>1. /\ IsNode(n) /\ n.known = TRUE /\ n.key = u[p].key /\ n.inc = u[p].inc /\ n.bak = u[p].bak
          /\ n.val \in 0..(Width - 1)
          /\ p \notin inner => n.val = u[p].val /\ n.label = u[p].label /\ n.array = u[p].array
      BY <2>4 DEF Redone, SameData
    <3>2. m = Update(s, p)
      BY <2>3, <2>5
    <3>3. CASE p \notin inner
      <4> DEFINE label == LeafLabel(n.key, n.val)
                 r1 == [n EXCEPT !.label = label]
      <4>1. IsLeaf(s, p)
        BY <1>3, <2>1, <3>3
      <4>2. m = r1
        BY <3>1, <3>2, <4>1 DEF Update
      <4>3. label = u[p].label
        <5>1. u[p].label = LeafLabel(u[p].key, u[p].val)
          BY <1>3, <3>3
        <5> QED
          BY <3>1, <3>3, <5>1
      <4> HIDE DEF label, n
      <4>4. Like(r1, n, n.key, n.val, n.array, label, n.inc, n.bak)
        BY <3>1, WithIs
      <4> HIDE DEF r1, m
      <4>5. Like(m, n, n.key, n.val, n.array, u[p].label, n.inc, n.bak)
        BY <4>2, <4>3, <4>4
      <4>6. IsNode(m) /\ m.known = n.known /\ m.key = n.key /\ m.val = n.val /\ m.array = n.array
            /\ m.label = u[p].label /\ m.inc = n.inc /\ m.bak = n.bak
        BY <4>5 DEF Like
      <4>7. Redone(m, u[p]) /\ (p \notin inner => SameData(m, u[p]))
        BY <3>1, <3>3, <4>6 DEF Redone, SameData
      <4> QED
        BY <3>3, <4>7 DEF m
    <3>4. CASE p \in inner
      <4> DEFINE x == s[Append(p, 1)]
                 y == s[Append(p, 2)]
                 sum == Parent(x.val, y.val)
                 label == NodeLabel(sum, x.label, y.label)
      <4>1. ~IsLeaf(s, p) /\ \A j \in 1..2 : Append(p, j) \in DOMAIN u
        BY <1>3, <2>1, <3>4
      <4>2. \A j \in 1..2 : s[Append(p, j)].known = TRUE /\ s[Append(p, j)].val \in 0..(Width - 1)
        BY <2>4, <4>1 DEF Redone, SameData
      <4>3. x.val \in 0..(Width - 1) /\ y.val \in 0..(Width - 1)
        <5>1. 1 \in 1..2 /\ 2 \in 1..2
          OBVIOUS
        <5> QED
          BY <4>2, <5>1
      <4>4. sum \in 0..(Width - 1)
        BY <4>3, ParentIs
      <4>5. Like(Update(s, p), n, n.key, sum, None, label, n.inc, n.bak)
        BY <3>1, <4>1, <4>2, UpdateIs
      <4> HIDE DEF sum, label, n
      <4>6. Like(m, n, n.key, sum, None, label, n.inc, n.bak)
        BY <3>2, <4>5
      <4> HIDE DEF m
      <4>7. IsNode(m) /\ m.known = n.known /\ m.key = n.key /\ m.val = sum /\ m.array = None
            /\ m.label = label /\ m.inc = n.inc /\ m.bak = n.bak
        BY <4>6 DEF Like
      <4>8. Redone(m, u[p]) /\ (p \notin inner => SameData(m, u[p]))
        BY <3>1, <3>4, <4>4, <4>7 DEF Redone, SameData
      <4> QED
        BY <3>4, <4>7, <4>8 DEF m, sum, label
    <3> QED
      BY <3>3, <3>4
  <2>6. ASSUME NEW p \in DOMAIN u PROVE Kept2(q, p)
    <3>1. CASE p \in V /\ Len(p) = Bits - i
      BY <2>5, <3>1
    <3>2. CASE ~(p \in V /\ Len(p) = Bits - i)
      <4>1. q[p] = s[p]
        BY <2>2, <3>2
      <4>2. Kept2(s, p)
        BY <1>5
      <4> QED
        BY <4>1, <4>2
    <3> QED
      BY <3>1, <3>2
  <2>7. ASSUME NEW p \in DOMAIN u, p \in inner, Len(p) + (i + 1) >= Bits + 1
        PROVE  Settled(q, p) /\ q[p].array = None
    <3>1. Len(p) \in 0..Bits /\ \A j \in 1..2 : Append(p, j) \in DOMAIN u /\ Len(Append(p, j)) # Bits - i
      BY <1>2, <1>3, <2>7
    <3>2. \A j \in 1..2 : q[Append(p, j)] = s[Append(p, j)]
      BY <2>2, <3>1
    <3>3. q[Append(p, 1)] = s[Append(p, 1)] /\ q[Append(p, 2)] = s[Append(p, 2)]
      <4>1. 1 \in 1..2 /\ 2 \in 1..2
        OBVIOUS
      <4> QED
        BY <3>2, <4>1
    <3>4. CASE p \in V /\ Len(p) = Bits - i
      BY <2>5, <2>7, <3>3, <3>4 DEF Settled
    <3>5. CASE Len(p) # Bits - i
      <4>1. Len(p) + i >= Bits + 1
        BY <1>2, <2>7, <3>1, <3>5
      <4>2. Settled(s, p) /\ s[p].array = None
        BY <1>5, <2>7, <4>1
      <4>3. q[p] = s[p]
        BY <2>2, <3>5
      <4> QED
        BY <3>3, <4>2, <4>3 DEF Settled
    <3>6. CASE p \notin V
      <4>1. q[p] = u[p]
        BY <2>6, <3>6
      <4>2. \A j \in 1..2 : q[Append(p, j)] = u[Append(p, j)]
        BY <2>6, <3>1, <3>6
      <4>3. q[Append(p, 1)] = u[Append(p, 1)] /\ q[Append(p, 2)] = u[Append(p, 2)]
        <5>1. 1 \in 1..2 /\ 2 \in 1..2
          OBVIOUS
        <5> QED
          BY <4>2, <5>1
      <4>4. Quiet(u, p) /\ ~IsLeaf(u, p)
        BY <1>3, <2>7, <3>6
      <4>5. Settled(u, p) /\ u[p].array = None
        BY <4>4 DEF Quiet
      <4> QED
        BY <4>1, <4>3, <4>5 DEF Settled
    <3> QED
      BY <3>4, <3>5, <3>6
  <2> QED
    BY <2>2, <2>6, <2>7
<1> HIDE DEF Right
<1> DEFINE S == {i \in 0..(Bits + 1) : Right(up[i], i)}
<1>6. 0 \in S
  BY <1>1, <1>2, <1>4
<1>7. ASSUME NEW i \in 0..(Bits + 1), i < Bits + 1, i \in S PROVE i + 1 \in S
  <2>1. i + 1 \in 1..(Bits + 1) /\ i + 1 - 1 = i /\ i \in 0..Bits /\ Bits + 1 - (i + 1) = Bits - i
        /\ i + 1 \in 0..(Bits + 1)
    BY <1>2, <1>7
  <2> DEFINE s == up[i]
             q == up[i + 1]
  <2>2. ASSUME NEW j \in 1..(Bits + 1)
        PROVE  up[j] = [p \in DOMAIN u |->
                          IF p \in V /\ Len(p) = Bits + 1 - j THEN Update(up[j - 1], p) ELSE up[j - 1][p]]
    BY <1>1
  <2>3. q = [p \in DOMAIN u |-> IF p \in V /\ Len(p) = Bits - i THEN Update(s, p) ELSE s[p]]
    <3> DEFINE j == i + 1
    <3>1. j \in 1..(Bits + 1) /\ j - 1 = i /\ Bits + 1 - j = Bits - i
      BY <2>1
    <3> HIDE DEF j
    <3>2. up[j] = [p \in DOMAIN u |->
                     IF p \in V /\ Len(p) = Bits + 1 - j THEN Update(up[j - 1], p) ELSE up[j - 1][p]]
      BY <2>2, <3>1
    <3>3. up[j] = [p \in DOMAIN u |-> IF p \in V /\ Len(p) = Bits - i THEN Update(s, p) ELSE s[p]]
      BY <3>1, <3>2
    <3> QED
      BY <3>3 DEF j
  <2>4. Right(s, i)
    BY <1>7
  <2> HIDE DEF s, q
  <2>5. Right(q, i + 1)
    BY <1>5, <2>1, <2>3, <2>4
  <2> QED
    BY <2>1, <2>5 DEF q
<1>8. Right(r, Bits + 1)
  <2>1. \A i \in 0..(Bits + 1) : i \in S
    <3> HIDE DEF S
    <3> QED
      BY <1>2, <1>6, <1>7, UpTo
  <2>2. Bits + 1 \in 0..(Bits + 1)
    BY <1>2
  <2> QED
    BY <1>1, <2>1, <2>2
<1>9. \A p \in DOMAIN u : Len(p) + (Bits + 1) >= Bits + 1
  BY <1>2, <1>3
<1> QED
  BY <1>8, <1>9 DEF Right

\* The way to a node is made of nodes.
LEMMA NodeAbove ==
    ASSUME NEW inner, InnerSet(inner), NEW p \in NodesFor(inner), NEW d \in 0..Len(p),
           NEW q, q = Prefix(p, d)
    PROVE  q \in NodesFor(inner) /\ q \in Positions /\ Len(q) = d /\ (q = p \/ Above(q, p))
<1>1. p \in Positions /\ Len(p) \in Nat
  BY NodesArePositions, PositionIsSeq
<1>2. q \in Positions /\ Len(q) = d
  BY <1>1, PrefixIs
<1>3. Under(q, p) /\ (q = p \/ Above(q, p))
  BY <1>1, <1>2 DEF Under, Above
<1>4. q \in NodesFor(inner)
  <2>1. CASE q = p
    BY <2>1
  <2>2. CASE p = <<>>
    BY <1>2, <1>3, <2>2, UnderIs
  <2>3. CASE q # p /\ p # <<>>
    <3>1. PICK x \in inner, i \in 1..2 : p = Append(x, i)
      BY <2>3 DEF NodesFor
    <3>2. x \in Positions
      BY DEF InnerSet
    <3>3. Under(q, x)
      BY <1>1, <1>2, <1>3, <2>3, <3>1, <3>2, KidUnder
    <3>4. Len(q) \in 0..Len(x) /\ Prefix(x, Len(q)) = q
      BY <1>2, <3>2, <3>3, PositionIsSeq DEF Under
    <3>5. q \in inner
      BY <3>1, <3>4, InnerAbove
    <3> QED
      BY <3>5, NodesArePositions
  <2> QED
    BY <2>1, <2>2, <2>3
<1> QED
  BY <1>2, <1>3, <1>4

\* confirm visits every node that has a backup.
LEMMA ConfirmedIs ==
    ASSUME NEW t, NEW inner, NEW contents, NEW k, Mid(t, inner, contents, k, 0, TRUE),
           NEW u, u = Confirmed(t)
    PROVE  /\ DOMAIN u = DOMAIN t
           /\ \A p \in DOMAIN t :
                Like(u[p], t[p], t[p].key, t[p].val, t[p].array, t[p].label, t[p].inc, NoTree)
<1>1. DOMAIN u = DOMAIN t
  BY DEF Confirmed
<1>2. /\ DOMAIN t \subseteq Positions /\ DOMAIN t = NodesFor(inner) /\ InnerSet(inner)
      /\ \A p \in DOMAIN t : IsNode(t[p])
  BY MidTree
<1>3. ASSUME NEW p \in DOMAIN t, t[p].bak # NoTree
      PROVE  \A d \in 0..Len(p) : Marked(t[Prefix(p, d)])
  <2> SUFFICES ASSUME NEW d \in 0..Len(p) PROVE Marked(t[Prefix(p, d)])
    OBVIOUS
  <2> DEFINE q == Prefix(p, d)
  <2>1. q \in DOMAIN t /\ q \in Positions /\ (q = p \/ Above(q, p))
    BY <1>2, NodeAbove
  <2> HIDE DEF q
  <2>6. CASE q = p
    BY <1>3, <2>6 DEF Marked, q
  <2>7. CASE Above(q, p)
    <3>1. Excused(t, q, k, 0, TRUE)
      BY <1>3, <2>1, <2>7 DEF Mid, Marks
    <3>2. t[q].inc = TRUE
      <4>1. Len(q) \in Nat
        BY <2>1, PositionIsSeq
      <4> QED
        BY <3>1, <4>1 DEF Excused
    <3> QED
      BY <3>2 DEF Marked, q
  <2> QED
    BY <2>1, <2>6, <2>7
<1>4. ASSUME NEW p \in DOMAIN t
      PROVE  Like(u[p], t[p], t[p].key, t[p].val, t[p].array, t[p].label, t[p].inc, NoTree)
  <2> DEFINE n == t[p]
             m == [n EXCEPT !.bak = NoTree]
             x == u[p]
  <2>1. IsNode(n)
    BY <1>2
  <2>2. x = m \/ (x = n /\ n.bak = NoTree)
    BY <1>3 DEF Confirmed
  <2> HIDE DEF n, x
  <2>3. Like(m, n, n.key, n.val, n.array, n.label, n.inc, NoTree)
    BY <2>1, WithIs
  <2> HIDE DEF m
  <2>4. CASE x = m
    BY <2>3, <2>4 DEF n, x
  <2>5. CASE x = n /\ n.bak = NoTree
    <3>1. Like(n, n, n.key, n.val, n.array, n.label, n.inc, n.bak)
      BY <2>1, LikeItself
    <3> QED
      BY <2>5, <3>1 DEF n, x
  <2> QED
    BY <2>2, <2>4, <2>5
<1> QED
  BY <1>1, <1>4

\* A node that is not right, and those above it, are marked.
ToBeFixed(t) ==
    \A p \in DOMAIN t : /\ t[p].inc \in BOOLEAN
                        /\ ~Quiet(t, p) => \A d \in 0..Len(p) : t[Prefix(p, d)].inc = TRUE

\* w is u with the right data in its internal nodes.
SettledFrom(w, u, inner) ==
    /\ DOMAIN w = DOMAIN u
    /\ \A p \in DOMAIN u :
        /\ IsNode(w[p]) /\ w[p].known = TRUE /\ w[p].key = u[p].key /\ w[p].bak = u[p].bak
        /\ w[p].inc \in BOOLEAN /\ w[p].val \in 0..(Width - 1)
        /\ p \notin inner => w[p].val = u[p].val /\ w[p].label = u[p].label
        /\ p \in inner => Settled(w, p)

\* fix updates every node that is not right, with all that are above it.
LEMMA FixedIs ==
    ASSUME NEW u, NEW inner, InnerSet(inner), DOMAIN u = NodesFor(inner),
           LeavesAreRight(u), ToBeFixed(u),
           NEW w, w = Fixed(u)
    PROVE  SettledFrom(w, u, inner)
<1> DEFINE V == {p \in DOMAIN u : \A d \in 0..Len(p) : u[Prefix(p, d)].inc}
           r == Relabelled(u, V)
<1>1. DOMAIN u \subseteq Positions
  BY NodesArePositions
<1>2. ASSUME NEW p \in DOMAIN u, p \notin V
      PROVE  Quiet(u, p) /\ \A i \in 1..2 : Append(p, i) \notin V
  <2>1. PICK e \in 0..Len(p) : ~u[Prefix(p, e)].inc
    BY <1>2
  <2>2. p \in Positions /\ Len(p) \in Nat
    BY <1>1, PositionIsSeq
  <2>3. Quiet(u, p)
    <3> SUFFICES ASSUME ~Quiet(u, p) PROVE FALSE
      OBVIOUS
    <3>1. u[Prefix(p, e)].inc = TRUE
      BY DEF ToBeFixed
    <3> QED
      BY <2>1, <3>1
  <2>4. ASSUME NEW i \in 1..2, Append(p, i) \in V PROVE FALSE
    <3> DEFINE y == Append(p, i)
    <3>1. y \in Positions /\ y \in DOMAIN u
      BY <1>1, <2>4
    <3>2. Under(p, y) /\ Len(y) = Len(p) + 1
      BY <2>2, <3>1, KidUnder, Kid DEF Above
    <3>3. \A d \in 0..Len(y) : u[Prefix(y, d)].inc
      BY <2>4
    <3> HIDE DEF y
    <3>4. Prefix(y, Len(p)) = p
      BY <3>2 DEF Under
    <3>5. Len(p) \in 0..Len(y) /\ e \in 0..Len(p) /\ e \in 0..Len(y)
      BY <2>2, <3>2
    <3>6. Prefix(Prefix(y, Len(p)), e) = Prefix(y, e)
      BY <3>1, <3>5, PrefixOf
    <3> QED
      BY <2>1, <3>3, <3>4, <3>5, <3>6
  <2> QED
    BY <2>3, <2>4
<1>3. w = [p \in DOMAIN u |-> IF p \in V THEN [r[p] EXCEPT !.inc = FALSE] ELSE r[p]]
  BY DEF Fixed
<1> HIDE DEF V
<1>9. LeavesAreRight(u) /\ Covers(V, u)
  BY <1>2 DEF Covers
<1>10. r = Relabelled(u, V)
  OBVIOUS
<1> HIDE DEF r
<1>4. /\ DOMAIN r = DOMAIN u
      /\ \A p \in DOMAIN u : /\ Redone(r[p], u[p]) /\ (p \notin inner => SameData(r[p], u[p]))
                             /\ p \in inner => Settled(r, p) /\ r[p].array = None
  BY <1>9, <1>10, RelabelledGood
<1>5. DOMAIN w = DOMAIN u
  BY <1>3
<1>6. ASSUME NEW p \in DOMAIN u
      PROVE  /\ IsNode(w[p]) /\ w[p].known = r[p].known /\ w[p].key = r[p].key /\ w[p].val = r[p].val
             /\ w[p].label = r[p].label /\ w[p].bak = r[p].bak /\ w[p].inc \in BOOLEAN
  <2> DEFINE n == r[p]
             m == [n EXCEPT !.inc = FALSE]
             x == w[p]
  <2>1. IsNode(n) /\ n.inc \in BOOLEAN
    BY <1>4 DEF Redone, SameData, ToBeFixed
  <2>2. x = m \/ x = n
    BY <1>3
  <2> HIDE DEF n, x
  <2>3. Like(m, n, n.key, n.val, n.array, n.label, FALSE, n.bak)
    BY <2>1, WithIs
  <2> HIDE DEF m
  <2>4. CASE x = m
    BY <2>3, <2>4 DEF Like, n, x
  <2>5. CASE x = n
    BY <2>1, <2>5 DEF n, x
  <2> QED
    BY <2>2, <2>4, <2>5
<1>7. ASSUME NEW p \in DOMAIN u
      PROVE  /\ IsNode(w[p]) /\ w[p].known = TRUE /\ w[p].key = u[p].key /\ w[p].bak = u[p].bak
             /\ w[p].inc \in BOOLEAN /\ w[p].val \in 0..(Width - 1)
             /\ p \notin inner => w[p].val = u[p].val /\ w[p].label = u[p].label
  BY <1>4, <1>6 DEF Redone, SameData
<1>8. ASSUME NEW p \in DOMAIN u, p \in inner PROVE Settled(w, p)
  <2>1. 1 \in 1..2 /\ 2 \in 1..2 /\ p \in Positions
    BY <1>1
  <2>2. Append(p, 1) \in DOMAIN u /\ Append(p, 2) \in DOMAIN u
    BY <1>8, <2>1, NodesArePositions
  <2>3. /\ w[Append(p, 1)].val = r[Append(p, 1)].val /\ w[Append(p, 1)].label = r[Append(p, 1)].label
        /\ w[Append(p, 2)].val = r[Append(p, 2)].val /\ w[Append(p, 2)].label = r[Append(p, 2)].label
    BY <1>6, <2>2
  <2>4. w[p].val = r[p].val /\ w[p].label = r[p].label
    BY <1>6
  <2>5. Settled(r, p)
    BY <1>4, <1>8
  <2> QED
    BY <2>3, <2>4, <2>5 DEF Settled
<1> QED
  BY <1>5, <1>7, <1>8 DEF SettledFrom

\* After confirm the leaves are right, and fix visits all that is not right.
LEMMA ConfirmedRight ==
    ASSUME NEW t, NEW inner, NEW contents, NEW k, Mid(t, inner, contents, k, 0, TRUE),
           NEW u, u = Confirmed(t), NEW w, w = Fixed(u)
    PROVE  LeavesAreRight(u) /\ SettledFrom(w, u, inner)
<1>1. Mid(t, inner, contents, k, 0, TRUE)
  OBVIOUS
<1>2. /\ DOMAIN t = NodesFor(inner) /\ DOMAIN t \subseteq Positions /\ InnerSet(inner)
      /\ Shape(t, inner, contents)
      /\ \A p \in DOMAIN t : IsNode(t[p]) /\ Fits(t, p, TRUE) /\ (IsLeaf(t, p) <=> p \notin inner)
  BY <1>1, MidTree DEF Mid
<1>3. /\ DOMAIN u = DOMAIN t
      /\ \A p \in DOMAIN t :
           Like(u[p], t[p], t[p].key, t[p].val, t[p].array, t[p].label, t[p].inc, NoTree)
  BY <1>1, ConfirmedIs
<1>4. \A p : IsLeaf(u, p) <=> IsLeaf(t, p)
  BY <1>3 DEF IsLeaf
<1>5. ASSUME NEW p \in DOMAIN u
      PROVE  /\ IsNode(u[p]) /\ u[p].known = t[p].known /\ u[p].key = t[p].key /\ u[p].val = t[p].val
             /\ u[p].array = t[p].array /\ u[p].label = t[p].label /\ u[p].inc = t[p].inc
             /\ u[p].bak = NoTree
  BY <1>3 DEF Like
<1>6. ASSUME NEW p \in DOMAIN u
      PROVE  t[p].known = TRUE /\ NodeOK(t[p])
  BY <1>2, <1>3 DEF Fits
<1>7. LeavesAreRight(u)
  <2> SUFFICES ASSUME NEW p \in DOMAIN u
               PROVE  /\ IsNode(u[p]) /\ u[p].known = TRUE /\ u[p].val \in 0..(Width - 1)
                      /\ IsLeaf(u, p) => u[p].label = LeafLabel(u[p].key, u[p].val)
    BY DEF LeavesAreRight
  <2>1. IsLeaf(t, p) => t[p].label = LeafLabel(t[p].key, t[p].val)
    BY <1>2, <1>3 DEF Fits
  <2> QED
    BY <1>4, <1>5, <1>6, <2>1 DEF NodeOK
<1>8. ASSUME NEW p \in DOMAIN u, ~Quiet(u, p), NEW d \in 0..Len(p)
      PROVE  u[Prefix(p, d)].inc = TRUE
  <2> DEFINE q == Prefix(p, d)
  <2>1. q \in NodesFor(inner) /\ q \in Positions /\ (q = p \/ Above(q, p))
    BY <1>2, <1>3, NodeAbove
  <2> HIDE DEF q
  <2>2. ~IsLeaf(t, p)
    BY <1>4, <1>8 DEF Quiet
  <2>3. Append(p, 1) \in DOMAIN u /\ Append(p, 2) \in DOMAIN u
    <3>1. p \in DOMAIN t
      BY <1>3
    <3>2. p \in inner /\ p \in Positions
      BY <1>2, <2>2, <3>1
    <3>3. 1 \in 1..2 /\ 2 \in 1..2
      OBVIOUS
    <3> QED
      <4>1. DOMAIN u = NodesFor(inner) /\ InnerSet(inner)
        BY <1>2, <1>3
      <4> QED
        BY <3>2, <3>3, <4>1, NodesArePositions
  <2>4. ~Quiet(t, p)
    <3>1. /\ u[Append(p, 1)].val = t[Append(p, 1)].val /\ u[Append(p, 1)].label = t[Append(p, 1)].label
          /\ u[Append(p, 2)].val = t[Append(p, 2)].val /\ u[Append(p, 2)].label = t[Append(p, 2)].label
      BY <1>5, <2>3
    <3>2. u[p].val = t[p].val /\ u[p].label = t[p].label /\ u[p].array = t[p].array
      BY <1>5
    <3>3. Settled(t, p) => Settled(u, p)
      BY <3>1, <3>2 DEF Settled
    <3>4. ~(u[p].array = None /\ Settled(u, p))
      BY <1>8 DEF Quiet
    <3>5. ~(t[p].array = None /\ Settled(t, p))
      BY <3>2, <3>3, <3>4
    <3> QED
      BY <2>2, <3>5 DEF Quiet
  <2>5. Excused(t, q, k, 0, TRUE)
    BY <1>1, <1>2, <1>3, <2>1, <2>4 DEF Mid, Marks
  <2>6. Len(q) \in Nat
    BY <2>1, PositionIsSeq
  <2>7. t[q].inc = TRUE
    BY <2>5, <2>6 DEF Excused
  <2> QED
    BY <1>2, <1>3, <1>5, <2>1, <2>7 DEF q
<1>9. ToBeFixed(u)
  <2>1. \A p \in DOMAIN u : u[p].inc \in BOOLEAN
    BY <1>5, <1>6 DEF NodeOK
  <2> QED
    BY <1>8, <2>1 DEF ToBeFixed
<1>21. SettledFrom(w, u, inner)
  <2>1. DOMAIN u = NodesFor(inner) /\ InnerSet(inner) /\ w = Fixed(u)
    BY <1>2, <1>3
  <2> QED
    BY <1>7, <1>9, <2>1, FixedIs
<1> QED
  BY <1>7, <1>21

\* What confirm and fix leave has all its labels and sums.
LEMMA FixedGood ==
    ASSUME NEW t, NEW contents, NEW k,
           Mid(t, Inner(Present(contents)), contents, k, 0, TRUE),
           NEW s, s = Named(Fixed(Confirmed(t)), FALSE)
    PROVE  Good(s, contents)
<1> DEFINE inner == Inner(Present(contents))
<1>1. Mid(t, inner, contents, k, 0, TRUE)
  OBVIOUS
<1> HIDE DEF inner
<1>2. /\ DOMAIN t = NodesFor(inner) /\ DOMAIN t \subseteq Positions /\ InnerSet(inner)
      /\ Shape(t, inner, contents)
      /\ \A p \in DOMAIN t : IsNode(t[p]) /\ Fits(t, p, TRUE) /\ (IsLeaf(t, p) <=> p \notin inner)
  BY <1>1, MidTree DEF Mid
<1> DEFINE u == Confirmed(t)
           w == Fixed(u)
<1>3. /\ DOMAIN u = DOMAIN t
      /\ \A p \in DOMAIN t :
           Like(u[p], t[p], t[p].key, t[p].val, t[p].array, t[p].label, t[p].inc, NoTree)
  BY <1>1, ConfirmedIs
<1> HIDE DEF u
<1>4. \A p : IsLeaf(u, p) <=> IsLeaf(t, p)
  BY <1>3 DEF IsLeaf
<1>5. ASSUME NEW p \in DOMAIN u
      PROVE  /\ IsNode(u[p]) /\ u[p].known = t[p].known /\ u[p].key = t[p].key /\ u[p].val = t[p].val
             /\ u[p].array = t[p].array /\ u[p].label = t[p].label /\ u[p].inc = t[p].inc
             /\ u[p].bak = NoTree
  BY <1>3 DEF Like
<1>6. ASSUME NEW p \in DOMAIN u
      PROVE  t[p].known = TRUE /\ NodeOK(t[p])
  BY <1>2, <1>3 DEF Fits
<1>21. SettledFrom(w, u, inner)
  BY <1>1, ConfirmedRight DEF u
<1>12. /\ DOMAIN w = DOMAIN u
       /\ \A p \in DOMAIN u :
            /\ IsNode(w[p]) /\ w[p].known = TRUE /\ w[p].key = u[p].key /\ w[p].bak = u[p].bak
            /\ w[p].inc \in BOOLEAN /\ w[p].val \in 0..(Width - 1)
            /\ p \notin inner => w[p].val = u[p].val /\ w[p].label = u[p].label
            /\ p \in inner => Settled(w, p)
  BY <1>21 DEF SettledFrom
<1> HIDE DEF w
<1>15. /\ DOMAIN s = DOMAIN w
       /\ \A p \in DOMAIN w : Like(s[p], w[p], w[p].key, w[p].val, None, w[p].label, w[p].inc, w[p].bak)
  <2>1. \A p \in DOMAIN w : IsNode(w[p])
    BY <1>12
  <2>2. FALSE \in BOOLEAN
    OBVIOUS
  <2>3. s = Named(w, FALSE)
    BY DEF w, u
  <2>4. /\ DOMAIN s = DOMAIN w
        /\ \A p \in DOMAIN w :
             ~(FALSE /\ IsLeaf(w, p)) => Like(s[p], w[p], w[p].key, w[p].val, None, w[p].label, w[p].inc, w[p].bak)
    BY <2>1, <2>2, <2>3, NamedIs
  <2> QED
    BY <2>4
<1>16. DOMAIN s = DOMAIN t /\ \A p : IsLeaf(s, p) <=> IsLeaf(t, p)
  BY <1>3, <1>12, <1>15 DEF IsLeaf
<1>17. ASSUME NEW p \in DOMAIN t
       PROVE  /\ IsNode(s[p]) /\ s[p].known = TRUE /\ s[p].key = t[p].key /\ s[p].array = None
              /\ s[p].inc \in BOOLEAN /\ s[p].bak = NoTree /\ s[p].val \in 0..(Width - 1)
              /\ s[p].val = w[p].val /\ s[p].label = w[p].label
              /\ p \notin inner => s[p].val = t[p].val /\ s[p].label = t[p].label
  <2>1. p \in DOMAIN u /\ p \in DOMAIN w
    BY <1>3, <1>12
  <2>2. IsNode(s[p]) /\ s[p].known = w[p].known /\ s[p].key = w[p].key /\ s[p].array = None
        /\ s[p].inc = w[p].inc /\ s[p].bak = w[p].bak /\ s[p].val = w[p].val /\ s[p].label = w[p].label
    BY <1>15, <2>1 DEF Like
  <2> QED
    BY <1>5, <1>12, <2>1, <2>2
<1>18. Shape(s, inner, contents)
  <2>1. ASSUME NEW p \in inner PROVE s[p].key = None
    <3>1. p \in DOMAIN t /\ t[p].key = None
      BY <1>2, <2>1, NodesArePositions DEF Shape
    <3> QED
      BY <1>17, <3>1
  <2>2. ASSUME NEW p \in NodesFor(inner) \ inner PROVE Holds(s[p], p, contents)
    <3>1. Holds(t[p], p, contents) /\ s[p].key = t[p].key /\ s[p].val = t[p].val
      BY <1>2, <1>17 DEF Shape
    <3> QED
      BY <3>1 DEF Holds
  <2> QED
    BY <1>2, <1>16, <2>1, <2>2 DEF Shape
<1>19. ASSUME NEW p \in DOMAIN s PROVE Fits(s, p, FALSE)
  <2>1. p \in DOMAIN t /\ NodeOK(t[p])
    BY <1>3, <1>6, <1>16
  <2>2. s[p].known \in BOOLEAN /\ s[p].inc \in BOOLEAN /\ (s[p].known \/ (s[p].key = None /\ s[p].val = 0))
    BY <1>17, <2>1
  <2>3. s[p].key \in Keys \cup {None} /\ s[p].array \in Keys \cup {None} /\ s[p].val \in 0..(Width - 1)
    BY <1>17, <2>1 DEF NodeOK
  <2>4. NodeOK(s[p])
    BY <2>2, <2>3 DEF NodeOK
  <2>5. IsLeaf(s, p) => s[p].label = LeafLabel(s[p].key, s[p].val)
    <3>1. IsLeaf(t, p) => t[p].label = LeafLabel(t[p].key, t[p].val)
      BY <1>2, <2>1 DEF Fits
    <3>2. IsLeaf(s, p) => p \notin inner
      BY <1>2, <1>16, <2>1
    <3> QED
      BY <1>16, <1>17, <2>1, <3>1, <3>2
  <2> QED
    BY <1>17, <2>1, <2>4, <2>5 DEF Fits
<1>20. ASSUME NEW p \in DOMAIN s PROVE Quiet(s, p)
  <2>1. p \in DOMAIN t
    BY <1>16
  <2>2. CASE p \notin inner
    BY <1>2, <1>16, <2>1, <2>2 DEF Quiet
  <2>3. CASE p \in inner
    <3>1. 1 \in 1..2 /\ 2 \in 1..2 /\ p \in Positions
      BY <1>2, <2>1
    <3>2. Append(p, 1) \in DOMAIN t /\ Append(p, 2) \in DOMAIN t
      BY <1>2, <2>3, <3>1, NodesArePositions
    <3>3. /\ s[Append(p, 1)].val = w[Append(p, 1)].val /\ s[Append(p, 1)].label = w[Append(p, 1)].label
          /\ s[Append(p, 2)].val = w[Append(p, 2)].val /\ s[Append(p, 2)].label = w[Append(p, 2)].label
      BY <1>17, <3>2
    <3>4. Settled(w, p)
      BY <1>3, <1>12, <2>1, <2>3
    <3>5. s[p].val = w[p].val /\ s[p].label = w[p].label /\ s[p].array = None
      BY <1>17, <2>1
    <3> QED
      BY <3>3, <3>4, <3>5 DEF Quiet, Settled
  <2> QED
    BY <2>2, <2>3
<1> QED
  BY <1>2, <1>18, <1>19, <1>20 DEF Good, inner

\* What End leaves, in a collection that collects nothing.
LEMMA EndedGood ==
    ASSUME scope = Everything, NEW t, NEW contents, NEW k,
           Mid(t, Inner(Present(contents)), contents, k, 0, TRUE), NEW s, s = Ended(t)
    PROVE  Good(s, contents)
<1> DEFINE w == Fixed(Confirmed(t))
           z == Collected(w)
<1>1. DOMAIN w = DOMAIN t /\ w = [p \in DOMAIN w |-> w[p]]
  <2>1. DOMAIN Confirmed(t) = DOMAIN t
    BY DEF Confirmed
  <2> QED
    BY <2>1 DEF Fixed
<1>2. DOMAIN t \subseteq Positions
  BY MidTree
<1>3. z = [p \in DOMAIN z |-> z[p]]
  BY DEF Collected
<1>4. s = Named(z, FALSE)
  BY DEF Ended
<1> HIDE DEF w
<1>5. DOMAIN z = DOMAIN w /\ \A p \in DOMAIN w : z[p] = w[p]
  BY <1>1, <1>2, CollectedIs
<1> HIDE DEF z
<1>6. z = w
  BY <1>1, <1>3, <1>5
<1> QED
  BY <1>4, <1>6, FixedGood DEF w

-----------------------------------------------------------------------------
(* The tree of a set of associations.                                      *)

Stored == [Keys -> Vals \cup {None}]

\* The positions where keys part are those of internal nodes.
LEMMA InnerIs ==
    ASSUME NEW keys, keys \subseteq Keys
    PROVE  InnerSet(Inner(keys))
<1> DEFINE inner == Inner(keys)
<1>1. inner \subseteq Positions /\ <<>> \in inner
  BY RootIsPosition DEF Inner
<1>2. ASSUME NEW p \in inner PROVE Len(p) < Bits
  <2>1. CASE p = <<>>
    BY <2>1, RootIsPosition, PathsDiffer
  <2>2. CASE p # <<>>
    <3>1. PICK k \in keys, l \in keys : k # l /\ On(k, p) /\ On(l, p)
      BY <1>2, <2>2 DEF Inner
    <3> QED
      BY <1>1, <1>2, <3>1, PathsPart
  <2> QED
    BY <2>1, <2>2
<1>3. ASSUME NEW p \in Positions, NEW i \in 1..2, Append(p, i) \in inner PROVE p \in inner
  <2> DEFINE y == Append(p, i)
  <2>1. y \in Positions /\ y # <<>> /\ y \in inner
    BY <1>1, <1>3, Kid
  <2>2. PICK k \in keys, l \in keys : k # l /\ On(k, y) /\ On(l, y)
    <3> HIDE DEF y
    <3> QED
      BY <2>1 DEF Inner
  <2>3. On(k, p) /\ On(l, p)
    BY <2>1, <2>2, OnKid
  <2> QED
    BY <2>2, <2>3 DEF Inner
<1> QED
  BY <1>1, <1>2, <1>3 DEF InnerSet

\* At a leaf at most one key is on its way.
LEMMA OneKey ==
    ASSUME NEW keys, keys \subseteq Keys, NEW p \in Positions, p \notin Inner(keys),
           NEW k \in keys, NEW l \in keys, On(k, p), On(l, p)
    PROVE  k = l
BY DEF Inner

\* The canonical tree has the associations, and all its labels and sums.
LEMMA CanonicalGood ==
    ASSUME NEW contents \in Stored
    PROVE  Good(CanonicalOf(contents), contents)
<1> DEFINE keys == Present(contents)
           inner == Inner(keys)
           Ways(p) == {k \in keys : On(k, p)}
           leaf(p) == IF p \notin inner /\ \E k \in keys : On(k, p)
                      THEN LET k == CHOOSE k \in keys : On(k, p)
                           IN  NewLeaf(k, contents[k], None, LeafLabel(k, contents[k]))
                      ELSE NewPlaceholder
           u == [p \in NodesFor(inner) |-> leaf(p)]
           r == Relabelled(u, inner)
<1>1. r = CanonicalOf(contents)
  BY DEF CanonicalOf, Present
<1>2. keys \subseteq Keys /\ InnerSet(inner)
  BY InnerIs DEF Present
<1>3. \A k \in keys : contents[k] \in Vals /\ contents[k] \in 0..(Width - 1) /\ contents[k] # None
  <2> SUFFICES ASSUME NEW k \in keys
               PROVE  contents[k] \in Vals /\ contents[k] \in 0..(Width - 1) /\ contents[k] # None
    OBVIOUS
  <2>1. k \in Keys /\ contents[k] # None
    BY DEF Present
  <2>2. contents[k] \in Vals
    BY <2>1 DEF Stored
  <2>3. Width \in Nat \ {0} /\ contents[k] \in 1..(Width - 1)
    BY <2>2, StakesFit
  <2> QED
    BY <2>1, <2>2, <2>3
<1>4. DOMAIN u = NodesFor(inner) /\ inner \subseteq NodesFor(inner) /\ NodesFor(inner) \subseteq Positions
  BY <1>2, NodesArePositions
<1>5. ASSUME NEW p \in NodesFor(inner), NEW k \in keys, On(k, p), p \notin inner
      PROVE  u[p] = NewLeaf(k, contents[k], None, LeafLabel(k, contents[k]))
  <2> DEFINE l == CHOOSE l \in keys : On(l, p)
  <2>1. l \in keys /\ On(l, p)
    BY <1>5
  <2>2. u[p] = NewLeaf(l, contents[l], None, LeafLabel(l, contents[l]))
    BY <1>5
  <2> HIDE DEF l
  <2>3. l = k
    BY <1>2, <1>4, <1>5, <2>1, OneKey
  <2> QED
    BY <2>2, <2>3
<1>6. ASSUME NEW p \in NodesFor(inner), p \in inner \/ \A k \in keys : ~On(k, p)
      PROVE  u[p] = NewLeaf(None, 0, None, LeafLabel(None, 0))
  BY <1>6 DEF NewPlaceholder
<1>7. ASSUME NEW p \in DOMAIN u
      PROVE  /\ IsNode(u[p]) /\ u[p].known = TRUE /\ u[p].array = None /\ u[p].inc = FALSE
             /\ u[p].bak = NoTree /\ u[p].label = LeafLabel(u[p].key, u[p].val)
             /\ u[p].key \in Keys \cup {None} /\ u[p].val \in 0..(Width - 1)
             /\ p \in inner => u[p].key = None
             /\ p \notin inner => Holds(u[p], p, contents)
  <2> DEFINE n == u[p]
  <2>1. 0 \in 0..(Width - 1)
    BY StakesFit
  <2>2. ASSUME NEW key, NEW val, n = NewLeaf(key, val, None, LeafLabel(key, val))
        PROVE  /\ IsNode(n) /\ n.known = TRUE /\ n.array = None /\ n.inc = FALSE
               /\ n.bak = NoTree /\ n.label = LeafLabel(n.key, n.val) /\ n.key = key /\ n.val = val
    <3> HIDE DEF n
    <3> QED
      BY <2>2 DEF NewLeaf, IsNode
  <2>3. CASE p \notin inner /\ \E k \in keys : On(k, p)
    <3>1. PICK k \in keys : On(k, p)
      BY <2>3
    <3>2. n = NewLeaf(k, contents[k], None, LeafLabel(k, contents[k]))
      BY <1>4, <1>5, <2>3, <3>1
    <3>3. /\ IsNode(n) /\ n.known = TRUE /\ n.array = None /\ n.inc = FALSE
          /\ n.bak = NoTree /\ n.label = LeafLabel(n.key, n.val) /\ n.key = k /\ n.val = contents[k]
      BY <2>2, <3>2
    <3>4. \A l \in keys : On(l, p) => l = k
      BY <1>2, <1>4, <2>3, <3>1, OneKey
    <3> HIDE DEF n, u, inner
    <3>5. Holds(n, p, contents)
      BY <3>1, <3>3, <3>4 DEF Holds
    <3> QED
      BY <1>2, <1>3, <2>3, <3>1, <3>3, <3>5 DEF n
  <2>4. CASE p \in inner \/ \A k \in keys : ~On(k, p)
    <3>1. n = NewLeaf(None, 0, None, LeafLabel(None, 0))
      BY <1>4, <1>6, <2>4
    <3>2. /\ IsNode(n) /\ n.known = TRUE /\ n.array = None /\ n.inc = FALSE
          /\ n.bak = NoTree /\ n.label = LeafLabel(n.key, n.val) /\ n.key = None /\ n.val = 0
      BY <2>2, <3>1
    <3> HIDE DEF n, u, inner
    <3>3. p \notin inner => Holds(n, p, contents)
      BY <2>4, <3>2 DEF Holds
    <3> QED
      BY <2>1, <3>2, <3>3 DEF n
  <2> QED
    BY <2>3, <2>4
<1> HIDE DEF u
<1> HIDE DEF inner
<1>8. LeavesAreRight(u)
  BY <1>7 DEF LeavesAreRight
<1>9. Covers(inner, u)
  <2> SUFFICES ASSUME NEW p \in DOMAIN u, p \notin inner
               PROVE  Quiet(u, p) /\ \A i \in 1..2 : Append(p, i) \notin inner
    BY DEF Covers
  <2>1. IsLeaf(u, p)
    BY <1>2, <1>4, LeafIsOuter
  <2>2. \A i \in 1..2 : Append(p, i) \notin inner
    BY <1>2, <1>4 DEF InnerSet
  <2> QED
    BY <2>1, <2>2 DEF Quiet
<1>10. /\ DOMAIN r = DOMAIN u
       /\ \A p \in DOMAIN u : /\ Redone(r[p], u[p]) /\ (p \notin inner => SameData(r[p], u[p]))
                              /\ p \in inner => Settled(r, p) /\ r[p].array = None
  <2>1. r = Relabelled(u, inner)
    OBVIOUS
  <2> HIDE DEF r
  <2> QED
    BY <1>2, <1>4, <1>8, <1>9, <2>1, RelabelledGood
<1> HIDE DEF r
<1>11. Shape(r, inner, contents)
  <2>1. ASSUME NEW p \in inner PROVE r[p].key = None
    BY <1>4, <1>7, <1>10, <2>1 DEF Redone
  <2>2. ASSUME NEW p \in NodesFor(inner) \ inner PROVE Holds(r[p], p, contents)
    <3>1. r[p].key = u[p].key /\ r[p].val = u[p].val
      BY <1>4, <1>10 DEF Redone, SameData
    <3>2. Holds(u[p], p, contents)
      BY <1>4, <1>7
    <3> QED
      BY <3>1, <3>2 DEF Holds
  <2> QED
    BY <1>4, <1>10, <2>1, <2>2 DEF Shape
<1>12. ASSUME NEW p \in DOMAIN r PROVE Fits(r, p, FALSE) /\ Quiet(r, p)
  <2>1. p \in DOMAIN u /\ p \in Positions /\ (IsLeaf(r, p) <=> p \notin inner)
    BY <1>2, <1>4, <1>10, LeafIsOuter
  <2>2. /\ IsNode(r[p]) /\ r[p].known = TRUE /\ r[p].key = u[p].key /\ r[p].inc = FALSE
        /\ r[p].bak = NoTree /\ r[p].val \in 0..(Width - 1) /\ r[p].key \in Keys \cup {None}
    BY <1>7, <1>10, <2>1 DEF Redone
  <2>3. r[p].array = None
    BY <1>7, <1>10, <2>1 DEF SameData
  <2>4. IsLeaf(r, p) => r[p].label = LeafLabel(r[p].key, r[p].val)
    <3>1. p \notin inner => r[p].label = u[p].label /\ r[p].val = u[p].val
      BY <1>10, <2>1 DEF SameData
    <3>2. u[p].label = LeafLabel(u[p].key, u[p].val)
      BY <1>7, <2>1
    <3> QED
      BY <2>1, <2>2, <3>1, <3>2
  <2>5. NodeOK(r[p])
    <3>1. r[p].known \in BOOLEAN /\ r[p].inc \in BOOLEAN /\ (r[p].known \/ (r[p].key = None /\ r[p].val = 0))
      BY <2>2
    <3>2. r[p].key \in Keys \cup {None} /\ r[p].array \in Keys \cup {None} /\ r[p].val \in 0..(Width - 1)
      BY <2>2, <2>3
    <3> QED
      BY <3>1, <3>2 DEF NodeOK
  <2>6. Fits(r, p, FALSE)
    BY <2>2, <2>3, <2>4, <2>5 DEF Fits
  <2>7. Quiet(r, p)
    <3>1. p \in inner => Settled(r, p)
      BY <1>10, <2>1
    <3> QED
      BY <2>1, <2>3, <3>1 DEF Quiet
  <2> QED
    BY <2>6, <2>7
<1>13. Good(r, contents)
  BY <1>2, <1>11, <1>12 DEF Good, inner
<1> QED
  BY <1>1, <1>13

\* Only one tree has the associations, its labels and its sums.
LEMMA OnlyTree ==
    ASSUME NEW contents, NEW s, NEW t, Good(s, contents), Good(t, contents)
    PROVE  Labelled(s) = Labelled(t)
<1> DEFINE inner == Inner(Present(contents))
           Same(p) == s[p].key = t[p].key /\ s[p].val = t[p].val /\ s[p].label = t[p].label
           S == {i \in 0..Bits : \A p \in NodesFor(inner) : Len(p) + i >= Bits => Same(p)}
<1>1. /\ InnerSet(inner) /\ Shape(s, inner, contents) /\ Shape(t, inner, contents)
      /\ DOMAIN s = NodesFor(inner) /\ DOMAIN t = NodesFor(inner)
  BY DEF Good, Shape
<1>2. \A p \in NodesFor(inner) : Fits(s, p, FALSE) /\ Fits(t, p, FALSE) /\ Quiet(s, p) /\ Quiet(t, p)
  BY <1>1 DEF Good
<1> HIDE DEF inner
<1>3. /\ NodesFor(inner) \subseteq Positions /\ inner \subseteq NodesFor(inner)
      /\ \A p \in NodesFor(inner) : /\ Len(p) \in 0..Bits
                                    /\ IsLeaf(s, p) <=> p \notin inner
                                    /\ IsLeaf(t, p) <=> p \notin inner
  <2>1. NodesFor(inner) \subseteq Positions /\ inner \subseteq NodesFor(inner)
    BY <1>1, NodesArePositions
  <2> QED
    BY <1>1, <2>1, LeafIsOuter, PositionIsSeq
<1>4. ASSUME NEW p \in NodesFor(inner), p \notin inner PROVE Same(p)
  <2>1. Holds(s[p], p, contents) /\ Holds(t[p], p, contents)
    BY <1>1, <1>4 DEF Shape
  <2>2. s[p].key = t[p].key /\ s[p].val = t[p].val
    BY <2>1 DEF Holds
  <2>3. s[p].label = LeafLabel(s[p].key, s[p].val) /\ t[p].label = LeafLabel(t[p].key, t[p].val)
    BY <1>2, <1>3, <1>4 DEF Fits
  <2> QED
    BY <2>2, <2>3
<1>5. Bits \in Nat
  BY PathsDiffer
<1>6. 0 \in S
  <2> SUFFICES ASSUME NEW p \in NodesFor(inner), Len(p) + 0 >= Bits PROVE Same(p)
    BY <1>5
  <2>1. p \notin inner
    BY <1>1, <1>3, <1>5 DEF InnerSet
  <2> QED
    BY <1>4, <2>1
<1>7. ASSUME NEW i \in 0..Bits, i < Bits, i \in S PROVE i + 1 \in S
  <2> SUFFICES ASSUME NEW p \in NodesFor(inner), Len(p) + (i + 1) >= Bits PROVE Same(p)
    BY <1>5, <1>7
  <2>1. CASE p \notin inner
    BY <1>4, <2>1
  <2>2. CASE p \in inner
    <3>1. p \in Positions /\ 1 \in 1..2 /\ 2 \in 1..2
      BY <1>3
    <3>2. /\ Append(p, 1) \in NodesFor(inner) /\ Append(p, 2) \in NodesFor(inner)
          /\ Len(Append(p, 1)) = Len(p) + 1 /\ Len(Append(p, 2)) = Len(p) + 1
      BY <1>1, <2>2, <3>1, NodesArePositions, Kid
    <3>3. Len(p) + 1 + i >= Bits
      BY <1>3, <1>5
    <3>4. Same(Append(p, 1)) /\ Same(Append(p, 2))
      BY <1>7, <3>2, <3>3
    <3>5. ~IsLeaf(s, p) /\ ~IsLeaf(t, p)
      BY <1>3, <2>2
    <3>6. Settled(s, p) /\ Settled(t, p)
      BY <1>2, <3>5 DEF Quiet
    <3>7. s[p].val = t[p].val /\ s[p].label = t[p].label
      BY <3>4, <3>6 DEF Settled
    <3>8. s[p].key = t[p].key
      BY <1>1, <2>2 DEF Shape
    <3> QED
      BY <3>7, <3>8
  <2> QED
    BY <2>1, <2>2
<1>8. \A p \in NodesFor(inner) : Same(p)
  <2>1. \A i \in 0..Bits : i \in S
    <3> HIDE DEF S
    <3> QED
      BY <1>5, <1>6, <1>7, UpTo
  <2>2. Bits \in S
    BY <1>5, <2>1
  <2> SUFFICES ASSUME NEW p \in NodesFor(inner) PROVE Same(p)
    OBVIOUS
  <2>3. Len(p) + Bits >= Bits
    BY <1>3, <1>5
  <2> QED
    BY <2>2, <2>3
<1> QED
  BY <1>1, <1>8 DEF Labelled

\* The tree of New has no associations.
LEMMA EmptyGood ==
    ASSUME NEW contents, Present(contents) = {}
    PROVE  Good(EmptyTree, contents)
<1> DEFINE inner == {<<>>}
           bare == [p \in {<<>>, <<1>>, <<2>>} |-> NewPlaceholder]
           n == bare[<<>>]
           m == Update(bare, <<>>)
           t == EmptyTree
<1>1. Inner({}) = inner
  BY RootIsPosition DEF Inner
<1>2. InnerSet(inner)
  BY <1>1, InnerIs
<1>3. Append(<<>>, 1) = <<1>> /\ Append(<<>>, 2) = <<2>> /\ <<1>> # <<>> /\ <<2>> # <<>> /\ <<1>> # <<2>>
  OBVIOUS
<1>4. NodesFor(inner) = {<<>>, <<1>>, <<2>>}
  <2>1. \A i \in 1..2 : i = 1 \/ i = 2
    OBVIOUS
  <2>2. 1 \in 1..2 /\ 2 \in 1..2
    OBVIOUS
  <2> QED
    BY <1>3, <2>1, <2>2 DEF NodesFor
<1>5. t = [bare EXCEPT ![<<>>] = m]
  BY DEF EmptyTree
<1>6. ASSUME NEW x, x = NewPlaceholder
      PROVE  /\ IsNode(x) /\ x.known = TRUE /\ x.key = None /\ x.val = 0 /\ x.array = None
             /\ x.label = LeafLabel(None, 0) /\ x.inc = FALSE /\ x.bak = NoTree
  BY <1>6 DEF NewPlaceholder, NewLeaf, IsNode
<1>7. DOMAIN bare = {<<>>, <<1>>, <<2>>} /\ \A p \in DOMAIN bare : bare[p] = NewPlaceholder
  OBVIOUS
<1> HIDE DEF bare
<1>8. 0 \in 0..(Width - 1) /\ Width \in Nat \ {0}
  BY StakesFit
<1> DEFINE x == bare[<<1>>]
           y == bare[<<2>>]
           sum == Parent(x.val, y.val)
           label == NodeLabel(sum, x.label, y.label)
<1>9. Like(m, n, n.key, sum, None, label, n.inc, n.bak)
  <2>1. ~IsLeaf(bare, <<>>) /\ IsNode(bare[<<>>]) /\ bare[<<>>].known = TRUE
    BY <1>3, <1>6, <1>7 DEF IsLeaf
  <2>2. bare[Append(<<>>, 1)].known = TRUE /\ bare[Append(<<>>, 2)].known = TRUE
    BY <1>3, <1>6, <1>7
  <2>3. \A i \in 1..2 : bare[Append(<<>>, i)].known = TRUE
    <3>1. \A i \in 1..2 : i = 1 \/ i = 2
      OBVIOUS
    <3> QED
      BY <2>2, <3>1
  <2> QED
    BY <1>3, <2>1, <2>3, UpdateIs
<1>10. sum = 0
  <2>1. x.val = 0 /\ y.val = 0
    BY <1>6, <1>7
  <2>2. (0 + 0) % Width = 0
    BY <1>8
  <2> QED
    BY <2>1, <2>2 DEF Parent
<1> HIDE DEF m, t
<1>11. DOMAIN t = NodesFor(inner) /\ t[<<>>] = m /\ t[<<1>>] = x /\ t[<<2>>] = y
  BY <1>3, <1>4, <1>5, <1>7
<1>12. /\ IsNode(m) /\ m.known = TRUE /\ m.key = None /\ m.val = 0 /\ m.array = None
       /\ m.label = label /\ m.inc = FALSE /\ m.bak = NoTree
  <2>1. n = NewPlaceholder
    BY <1>7
  <2> HIDE DEF n
  <2>2. n.known = TRUE /\ n.key = None /\ n.inc = FALSE /\ n.bak = NoTree
    BY <1>6, <2>1
  <2> HIDE DEF sum, label
  <2>3. IsNode(m) /\ m.known = n.known /\ m.key = n.key /\ m.val = sum /\ m.array = None
        /\ m.label = label /\ m.inc = n.inc /\ m.bak = n.bak
    BY <1>9 DEF Like
  <2> QED
    BY <1>10, <2>2, <2>3
<1>13. x = NewPlaceholder /\ y = NewPlaceholder
  BY <1>7
<1>14. ASSUME NEW p \in DOMAIN t
       PROVE  /\ IsNode(t[p]) /\ t[p].known = TRUE /\ t[p].key = None /\ t[p].val = 0 /\ t[p].array = None
              /\ t[p].inc = FALSE /\ t[p].bak = NoTree
              /\ p # <<>> => t[p].label = LeafLabel(None, 0)
  <2> HIDE DEF x, y, label
  <2>1. p = <<>> \/ p = <<1>> \/ p = <<2>>
    BY <1>4, <1>11
  <2>2. CASE p = <<>>
    BY <1>11, <1>12, <2>2
  <2>3. CASE p = <<1>>
    BY <1>6, <1>11, <1>13, <2>3
  <2>4. CASE p = <<2>>
    BY <1>6, <1>11, <1>13, <2>4
  <2> QED
    BY <2>1, <2>2, <2>3, <2>4
<1>15. Shape(t, inner, contents)
  <2>1. \A p \in NodesFor(inner) \ inner : Holds(t[p], p, contents)
    <3> HIDE DEF inner
    <3> QED
      BY <1>11, <1>14 DEF Holds
  <2>2. \A p \in inner : t[p].key = None
    BY <1>4, <1>11, <1>14
  <2> QED
    BY <1>11, <2>1, <2>2 DEF Shape
<1>16. Settled(t, <<>>)
  <2>1. t[Append(<<>>, 1)] = x /\ t[Append(<<>>, 2)] = y
    BY <1>3, <1>11
  <2>2. m.val = sum /\ m.label = NodeLabel(m.val, x.label, y.label)
    BY <1>10, <1>12
  <2> HIDE DEF x, y
  <2> QED
    BY <1>11, <2>1, <2>2 DEF Settled
<1>17. ASSUME NEW p \in DOMAIN t PROVE Fits(t, p, FALSE) /\ Quiet(t, p)
  <2>1. NodeOK(t[p])
    <3>1. t[p].known \in BOOLEAN /\ t[p].inc \in BOOLEAN /\ (t[p].known \/ (t[p].key = None /\ t[p].val = 0))
      BY <1>14
    <3>2. t[p].key \in Keys \cup {None} /\ t[p].array \in Keys \cup {None} /\ t[p].val \in 0..(Width - 1)
      BY <1>8, <1>14
    <3> QED
      BY <3>1, <3>2 DEF NodeOK
  <2>2. IsLeaf(t, p) <=> p # <<>>
    <3>1. p \in Positions
      BY <1>2, <1>11, NodesArePositions
    <3>2. IsLeaf(t, p) <=> p \notin inner
      <4> HIDE DEF inner
      <4> QED
        BY <1>2, <1>11, <3>1, LeafIsOuter
    <3> QED
      BY <3>2
  <2>3. Fits(t, p, FALSE)
    BY <1>14, <2>1, <2>2 DEF Fits
  <2>4. Quiet(t, p)
    BY <1>14, <1>16, <2>2 DEF Quiet
  <2> QED
    BY <2>3, <2>4
<1> HIDE DEF inner
<1> QED
  BY <1>1, <1>2, <1>15, <1>17 DEF Good, t

-----------------------------------------------------------------------------
(* The invariant.                                                          *)

\* A tree that owes nothing to a manipulator has the associations.
Has(t, contents, tx) == Mid(t, Inner(Present(contents)), contents, None, 0, tx)

\* Rollback would find a good tree with the contents before.
Returns(t, before) == \E base : Good(base, before) /\ Rolls(t, base)

CollectionInv ==
    /\ scope = Everything
    /\ ongoing \in BOOLEAN
    /\ origin \in Stored /\ Contents \in Stored
    /\ Has(tree, Contents, ongoing)
    /\ ongoing = TRUE => Returns(tree, origin)
    /\ ongoing = FALSE => origin = Contents

\* When nothing is owed it does not matter on whose path.
LEMMA AnyKey ==
    ASSUME NEW t, NEW inner, NEW contents, NEW k, NEW l, NEW tx, Mid(t, inner, contents, k, 0, tx)
    PROVE  Mid(t, inner, contents, l, 0, tx)
<1>1. DOMAIN t \subseteq Positions
  BY MidTree
<1>2. ASSUME NEW p \in DOMAIN t, Excused(t, p, k, 0, tx) PROVE Excused(t, p, l, 0, tx)
  <2>1. Len(p) \in Nat
    BY <1>1, PositionIsSeq
  <2>2. ~(Len(p) < 0)
    BY <2>1
  <2> QED
    BY <1>2, <2>2 DEF Excused
<1>3. Marks(t, k, 0, tx)
  BY DEF Mid
<1>4. Marks(t, l, 0, tx)
  BY <1>2, <1>3 DEF Marks
<1> QED
  BY <1>4 DEF Mid

\* What a reader gets are the associations.
LEMMA Reads ==
    ASSUME NEW t, NEW contents \in Stored, NEW tx, Has(t, contents, tx)
    PROVE  /\ \A k \in Keys : Lookup(t, k) = contents[k]
           /\ [k \in Keys |-> Lookup(t, k)] = contents
<1>1. InnerSet(Inner(Present(contents))) /\ Shape(t, Inner(Present(contents)), contents)
  BY DEF Has, Mid
<1>2. \A k \in Keys : Lookup(t, k) = contents[k]
  BY <1>1, LookupIs
<1> QED
  BY <1>2 DEF Stored

\* Outside a transaction Collect leaves what the manipulator made.
LEMMA CollectedGood ==
    ASSUME scope = Everything, NEW n, NEW contents, Has(n, contents, FALSE), NEW s, s = Collected(n)
    PROVE  Has(s, contents, FALSE)
<1>1. Good(n, contents)
  BY GoodMid DEF Has
<1>2. DOMAIN n \subseteq Positions /\ \A p \in DOMAIN n : Fits(n, p, FALSE)
  BY NodesArePositions DEF Has, Mid, Shape
<1>3. DOMAIN s = DOMAIN n /\ \A p \in DOMAIN n : s[p] = n[p]
  BY <1>2, CollectedIs
<1>4. Plain(s, n)
  <2> SUFFICES ASSUME NEW p \in DOMAIN n
               PROVE  /\ IsNode(n[p]) /\ n[p].array = None /\ n[p].inc \in BOOLEAN /\ n[p].bak = NoTree
    BY <1>3 DEF Plain
  <2> QED
    BY <1>2 DEF Fits, NodeOK
<1>5. Good(s, contents)
  BY <1>1, <1>4, GoodPlain
<1> QED
  BY <1>5, GoodMid DEF Has

\* New satisfies the invariant.
LEMMA EmptyInv == Init => CollectionInv
<1> SUFFICES ASSUME Init PROVE CollectionInv
  OBVIOUS
<1> DEFINE none == [k \in Keys |-> None]
<1>1. none \in Stored /\ Present(none) = {}
  BY DEF Stored, Present
<1>2. tree = EmptyTree /\ ongoing = FALSE /\ scope = Everything /\ origin = none
  BY DEF Init, Everything
<1> HIDE DEF none
<1>3. Good(EmptyTree, none)
  BY <1>1, EmptyGood
<1>4. Has(tree, none, FALSE)
  BY <1>2, <1>3, GoodMid DEF Has
<1>5. Contents = none
  <2>1. [k \in Keys |-> Lookup(tree, k)] = none
    BY <1>1, <1>4, Reads
  <2> QED
    BY <2>1 DEF Contents, Get
<1>6. ongoing \in BOOLEAN /\ ongoing # TRUE /\ Has(tree, Contents, ongoing)
  BY <1>2, <1>4, <1>5
<1> QED
  BY <1>1, <1>2, <1>5, <1>6 DEF CollectionInv

Wrote(new, k, v) == new = [Contents EXCEPT ![k] = v]

\* A manipulator that leaves a tree with the new associations.
LEMMA WrittenInv ==
    ASSUME CollectionInv, NEW k \in Keys, NEW v \in Vals \cup {None}, NEW new,
           Wrote(new, k, v), NEW n,
           Mid(n, Inner(Present(new)), new, k, 0, ongoing),
           \A base : ongoing = TRUE /\ Rolls(tree, base) => Rolls(n, base),
           Written(n), Kept
    PROVE  CollectionInv' /\ Contents' = new /\ Map!Write(k, v)
<1>1. new \in Stored
  BY DEF CollectionInv, Stored, Wrote
<1>2. ongoing \in BOOLEAN /\ ongoing' = ongoing /\ scope = Everything /\ scope' = scope
      /\ (ongoing = TRUE => tree' = n) /\ (ongoing = FALSE => tree' = Collected(n))
  BY DEF CollectionInv, Written
<1>3. Has(n, new, ongoing)
  BY AnyKey DEF Has
<1>4. Has(tree', new, ongoing)
  <2>1. CASE ongoing = TRUE
    BY <1>2, <1>3, <2>1
  <2>2. CASE ongoing = FALSE
    <3>1. Has(n, new, FALSE)
      BY <1>3, <2>2
    <3>2. Has(tree', new, FALSE)
      BY <1>2, <2>2, <3>1, CollectedGood
    <3> QED
      BY <2>2, <3>2
  <2> QED
    BY <1>2, <2>1, <2>2
<1>5. Contents' = new
  <2>1. [l \in Keys |-> Lookup(tree', l)] = new
    BY <1>1, <1>4, Reads
  <2> QED
    BY <2>1 DEF Contents, Get
<1>6. (ongoing = TRUE => origin' = origin) /\ (ongoing = FALSE => origin' = Contents')
  BY <1>2 DEF Kept
<1>7. origin' \in Stored
  BY <1>1, <1>2, <1>5, <1>6 DEF CollectionInv
<1>8. ongoing = TRUE => Returns(tree', origin')
  <2> SUFFICES ASSUME ongoing = TRUE PROVE Returns(n, origin)
    BY <1>2, <1>6
  <2>1. PICK base : Good(base, origin) /\ Rolls(tree, base)
    BY DEF CollectionInv, Returns
  <2> QED
    BY <2>1 DEF Returns
<1>9. Has(tree, Contents, ongoing)'
  BY <1>2, <1>4, <1>5
<1>10. CollectionInv'
  BY <1>1, <1>2, <1>5, <1>6, <1>7, <1>8, <1>9 DEF CollectionInv
<1>11. Map!Write(k, v)
  <2>1. origin' = IF ongoing THEN origin ELSE Contents'
    BY <1>2 DEF Kept
  <2> QED
    BY <1>2, <1>5, <2>1 DEF Map!Write, Wrote
<1> QED
  BY <1>5, <1>10, <1>11

\* A write leaves the other keys alone.
LEMMA Others ==
    ASSUME CollectionInv, NEW k \in Keys, NEW v \in Vals \cup {None}, NEW new, Wrote(new, k, v)
    PROVE  new[k] = v /\ \A l \in Keys : l # k => new[l] = Contents[l]
BY DEF CollectionInv, Stored, Wrote

\* What the invariant says of the tree for a manipulator of k.
LEMMA InvHas ==
    ASSUME CollectionInv, NEW k \in Keys
    PROVE  /\ Mid(tree, Inner(Present(Contents)), Contents, k, 0, ongoing)
           /\ Get(k) = Contents[k] /\ ongoing \in BOOLEAN
<1>1. Has(tree, Contents, ongoing)
  BY DEF CollectionInv
<1>2. Mid(tree, Inner(Present(Contents)), Contents, k, 0, ongoing)
  BY <1>1, AnyKey DEF Has
<1> QED
  BY <1>2 DEF CollectionInv, Contents

\* Add keeps the invariant, and is an Add of the map.
LEMMA AddInv ==
    ASSUME CollectionInv, NEW k \in Keys, NEW v \in Vals, Add(k, v), Kept
    PROVE  CollectionInv' /\ Map!Add(k, v)
<1> DEFINE new == [Contents EXCEPT ![k] = v]
           n == AddAt(tree, k, v, ongoing)
<1>1. /\ Mid(tree, Inner(Present(Contents)), Contents, k, 0, ongoing)
      /\ Contents[k] = None /\ ongoing \in BOOLEAN
  BY InvHas DEF Add
<1>2. v \in Vals \cup {None}
  OBVIOUS
<1>4. Wrote(new, k, v) /\ n = AddAt(tree, k, v, ongoing)
  BY DEF Wrote
<1> HIDE DEF new, n
<1>3. new[k] = v /\ \A l \in Keys : l # k => new[l] = Contents[l]
  BY <1>2, <1>4, Others
<1>5. \A base : /\ Mid(n, Inner(Present(new)), new, k, 0, ongoing)
                /\ ongoing /\ Rolls(tree, base) => Rolls(n, base)
  <2> SUFFICES ASSUME NEW base
               PROVE  /\ Mid(n, Inner(Present(new)), new, k, 0, ongoing)
                      /\ ongoing /\ Rolls(tree, base) => Rolls(n, base)
    OBVIOUS
  <2>1. /\ Mid(AddAt(tree, k, v, ongoing), Inner(Present(new)), new, k, 0, ongoing)
        /\ ongoing /\ Rolls(tree, base) => Rolls(AddAt(tree, k, v, ongoing), base)
    BY <1>1, <1>3, AddMid
  <2> QED
    BY <1>4, <2>1
<1>6. Mid(n, Inner(Present(new)), new, k, 0, ongoing)
  BY <1>5
<1>7. \A base : ongoing = TRUE /\ Rolls(tree, base) => Rolls(n, base)
  BY <1>5
<1>8. Written(n)
  BY <1>4 DEF Add
<1>9. CollectionInv' /\ Contents' = new /\ Map!Write(k, v)
  BY <1>2, <1>4, <1>6, <1>7, <1>8, WrittenInv
<1> QED
  BY <1>1, <1>9 DEF Map!Add

\* Set keeps the invariant, and is a Set of the map.
LEMMA SetInv ==
    ASSUME CollectionInv, NEW k \in Keys, NEW v \in Vals, Set(k, v), Kept
    PROVE  CollectionInv' /\ Map!Set(k, v)
<1> DEFINE new == [Contents EXCEPT ![k] = v]
           n == SetAt(tree, k, v, ongoing)
<1>1. /\ Mid(tree, Inner(Present(Contents)), Contents, k, 0, ongoing)
      /\ Contents[k] # None /\ ongoing \in BOOLEAN
  BY InvHas DEF Set
<1>2. v \in Vals \cup {None}
  OBVIOUS
<1>4. Wrote(new, k, v) /\ n = SetAt(tree, k, v, ongoing)
  BY DEF Wrote
<1> HIDE DEF new, n
<1>3. new[k] = v /\ \A l \in Keys : l # k => new[l] = Contents[l]
  BY <1>2, <1>4, Others
<1>5. Present(new) = Present(Contents)
  <2>1. v # None
    BY NoneIsNoKey
  <2> QED
    BY <1>1, <1>3, <2>1 DEF Present
<1>6. \A base : /\ Mid(n, Inner(Present(new)), new, k, 0, ongoing)
                /\ ongoing /\ Rolls(tree, base) => Rolls(n, base)
  <2> SUFFICES ASSUME NEW base
               PROVE  /\ Mid(n, Inner(Present(new)), new, k, 0, ongoing)
                      /\ ongoing /\ Rolls(tree, base) => Rolls(n, base)
    OBVIOUS
  <2> DEFINE inner == Inner(Present(Contents))
  <2>1. Mid(tree, inner, Contents, k, 0, ongoing)
    BY <1>1
  <2>2. inner = Inner(Present(new))
    BY <1>5
  <2> HIDE DEF inner
  <2>3. /\ Mid(SetAt(tree, k, v, ongoing), inner, new, k, 0, ongoing)
        /\ ongoing /\ Rolls(tree, base) => Rolls(SetAt(tree, k, v, ongoing), base)
    BY <1>1, <1>3, <2>1, SetMid
  <2> QED
    BY <1>4, <2>2, <2>3
<1>7. Mid(n, Inner(Present(new)), new, k, 0, ongoing)
  BY <1>6
<1>8. \A base : ongoing = TRUE /\ Rolls(tree, base) => Rolls(n, base)
  BY <1>6
<1>9. Written(n)
  BY <1>4 DEF Set
<1>10. CollectionInv' /\ Contents' = new /\ Map!Write(k, v)
  BY <1>2, <1>4, <1>7, <1>8, <1>9, WrittenInv
<1> QED
  BY <1>1, <1>10 DEF Map!Set

\* Remove keeps the invariant, and is a Remove of the map.
LEMMA RemoveInv ==
    ASSUME CollectionInv, NEW k \in Keys, Remove(k), Kept
    PROVE  CollectionInv' /\ Map!Remove(k)
<1> DEFINE new == [Contents EXCEPT ![k] = None]
           n == RemoveAt(tree, k, ongoing)
<1>1. /\ Mid(tree, Inner(Present(Contents)), Contents, k, 0, ongoing)
      /\ Contents[k] # None /\ ongoing \in BOOLEAN
  BY InvHas DEF Remove
<1>2. None \in Vals \cup {None}
  OBVIOUS
<1>4. Wrote(new, k, None) /\ n = RemoveAt(tree, k, ongoing)
  BY DEF Wrote
<1> HIDE DEF new, n
<1>3. new[k] = None /\ \A l \in Keys : l # k => new[l] = Contents[l]
  BY <1>2, <1>4, Others
<1>5. \A base : /\ Mid(n, Inner(Present(new)), new, k, 0, ongoing)
                /\ ongoing /\ Rolls(tree, base) => Rolls(n, base)
  <2> SUFFICES ASSUME NEW base
               PROVE  /\ Mid(n, Inner(Present(new)), new, k, 0, ongoing)
                      /\ ongoing /\ Rolls(tree, base) => Rolls(n, base)
    OBVIOUS
  <2>1. /\ Mid(RemoveAt(tree, k, ongoing), Inner(Present(new)), new, k, 0, ongoing)
        /\ ongoing /\ Rolls(tree, base) => Rolls(RemoveAt(tree, k, ongoing), base)
    BY <1>1, <1>3, RemoveMid
  <2> QED
    BY <1>4, <2>1
<1>6. Mid(n, Inner(Present(new)), new, k, 0, ongoing)
  BY <1>5
<1>7. \A base : ongoing = TRUE /\ Rolls(tree, base) => Rolls(n, base)
  BY <1>5
<1>8. Written(n)
  BY <1>4 DEF Remove
<1>9. CollectionInv' /\ Contents' = new /\ Map!Write(k, None)
  BY <1>2, <1>4, <1>6, <1>7, <1>8, WrittenInv
<1> QED
  BY <1>1, <1>9 DEF Map!Remove

\* Begin keeps the invariant, and is a Begin of the map.
LEMMA BeginInv ==
    ASSUME CollectionInv, Begin, UNCHANGED origin
    PROVE  CollectionInv' /\ Map!Begin
<1>1. ongoing = FALSE /\ ongoing' = TRUE /\ tree' = Named(tree, TRUE) /\ scope' = scope /\ origin' = origin
      /\ scope = Everything /\ origin \in Stored /\ Contents \in Stored /\ origin = Contents
  BY DEF Begin, CollectionInv
<1>2. Has(tree, Contents, FALSE)
  BY <1>1 DEF CollectionInv
<1>3. Good(tree, Contents)
  BY <1>2, GoodMid DEF Has
<1>4. Has(tree', Contents, TRUE) /\ Rolls(tree', tree)
  BY <1>1, <1>3, BeginMid DEF Has
<1>5. Contents' = Contents
  <2>1. [k \in Keys |-> Lookup(tree', k)] = Contents
    BY <1>1, <1>4, Reads
  <2> QED
    BY <2>1 DEF Contents, Get
<1>6. Returns(tree', origin')
  BY <1>1, <1>3, <1>4 DEF Returns
<1>7. Has(tree, Contents, ongoing)'
  BY <1>1, <1>4, <1>5
<1>8. CollectionInv'
  BY <1>1, <1>5, <1>6, <1>7 DEF CollectionInv
<1> QED
  BY <1>1, <1>5, <1>8 DEF Map!Begin

\* Rollback keeps the invariant, and is a Rollback of the map.
LEMMA RollbackInv ==
    ASSUME CollectionInv, Rollback, UNCHANGED origin
    PROVE  CollectionInv' /\ Map!Rollback
<1>1. ongoing = TRUE /\ ongoing' = FALSE /\ scope' = scope /\ origin' = origin
      /\ scope = Everything /\ origin \in Stored /\ tree' = Named(RolledBack(tree), FALSE)
  BY DEF Rollback, CollectionInv
<1>2. Mid(tree, Inner(Present(Contents)), Contents, None, 0, TRUE)
  BY <1>1 DEF CollectionInv, Has
<1>3. PICK base : Good(base, origin) /\ Rolls(tree, base)
  BY <1>1 DEF CollectionInv, Returns
<1>4. Good(tree', origin)
  BY <1>1, <1>2, <1>3, RollbackGood
<1>5. Has(tree', origin, FALSE)
  BY <1>4, GoodMid DEF Has
<1>6. Contents' = origin
  <2>1. [k \in Keys |-> Lookup(tree', k)] = origin
    BY <1>1, <1>5, Reads
  <2> QED
    BY <2>1 DEF Contents, Get
<1>7. Has(tree, Contents, ongoing)'
  BY <1>1, <1>5, <1>6
<1>8. CollectionInv'
  BY <1>1, <1>6, <1>7 DEF CollectionInv
<1> QED
  BY <1>1, <1>6, <1>8 DEF Map!Rollback

\* End keeps the invariant, and is an End of the map.
LEMMA EndInv ==
    ASSUME CollectionInv, End, Kept
    PROVE  CollectionInv' /\ Map!End
<1>1. ongoing = TRUE /\ ongoing' = FALSE /\ scope' = scope /\ origin' = Contents'
      /\ scope = Everything /\ Contents \in Stored /\ tree' = Ended(tree)
  BY DEF End, Kept, CollectionInv
<1>2. Mid(tree, Inner(Present(Contents)), Contents, None, 0, TRUE)
  BY <1>1 DEF CollectionInv, Has
<1>3. Good(tree', Contents)
  BY <1>1, <1>2, EndedGood
<1>4. Has(tree', Contents, FALSE)
  BY <1>3, GoodMid DEF Has
<1>5. Contents' = Contents
  <2>1. [k \in Keys |-> Lookup(tree', k)] = Contents
    BY <1>1, <1>4, Reads
  <2> QED
    BY <2>1 DEF Contents, Get
<1>6. Has(tree, Contents, ongoing)'
  BY <1>1, <1>4, <1>5
<1>7. CollectionInv'
  BY <1>1, <1>5, <1>6 DEF CollectionInv
<1> QED
  BY <1>1, <1>5, <1>7 DEF Map!End

\* Every step is one of the map with transactions.
LEMMA NextInv ==
    ASSUME CollectionInv, Next
    PROVE  CollectionInv' /\ Map!Next
<1>1. CASE Begin /\ UNCHANGED origin
  BY <1>1, BeginInv DEF Map!Next
<1>2. CASE Rollback /\ UNCHANGED origin
  BY <1>2, RollbackInv DEF Map!Next
<1>3. CASE End /\ Kept
  BY <1>3, EndInv DEF Map!Next
<1>4. ASSUME NEW k \in Keys, Remove(k), Kept PROVE CollectionInv' /\ Map!Next
  BY <1>4, RemoveInv DEF Map!Next
<1>5. ASSUME NEW k \in Keys, NEW v \in Vals, Add(k, v), Kept PROVE CollectionInv' /\ Map!Next
  BY <1>5, AddInv DEF Map!Next
<1>6. ASSUME NEW k \in Keys, NEW v \in Vals, Set(k, v), Kept PROVE CollectionInv' /\ Map!Next
  BY <1>6, SetInv DEF Map!Next
<1> QED
  BY <1>1, <1>2, <1>3, <1>4, <1>5, <1>6 DEF Next

\* A step that changes nothing of the collection changes nothing of the map.
LEMMA StutterInv ==
    ASSUME CollectionInv, UNCHANGED vars
    PROVE  CollectionInv' /\ UNCHANGED Map!vars
<1>1. tree' = tree /\ ongoing' = ongoing /\ scope' = scope /\ origin' = origin
  BY DEF vars
<1>2. Contents' = Contents
  BY <1>1 DEF Contents, Get
<1> QED
  BY <1>1, <1>2 DEF CollectionInv, Map!vars

\* Every backup in a tree is well.
LEMMA BackupsWell ==
    ASSUME NEW t, NEW all, BackupsOf(t) \subseteq all, \A s \in all : BackupsOf(s) \subseteq all
    PROVE  Backups(t) \subseteq all
<1> DEFINE Step(x) == UNION {BackupsOf(s) : s \in x}
           start == BackupsOf(t)
           Is(f, n) == f = [i \in 0..n |-> IF i = 0 THEN start ELSE Step(f[i - 1])]
           S == {n \in 0..Bits : \E f : Is(f, n)}
<1>1. Bits \in Nat
  BY PathsDiffer
<1> HIDE DEF Step, start
<1>2. 0 \in S
  <2> DEFINE f == [i \in 0..0 |-> start]
  <2>1. Is(f, 0) /\ 0 \in 0..Bits
    BY <1>1
  <2> QED
    BY <2>1
<1>3. ASSUME NEW n \in 0..Bits, n < Bits, n \in S PROVE n + 1 \in S
  <2>1. PICK f : Is(f, n)
    BY <1>3
  <2> DEFINE g == [i \in 0..(n + 1) |-> IF i = n + 1 THEN Step(f[n]) ELSE f[i]]
  <2>2. n + 1 \in 0..Bits /\ n \in Nat /\ \A i \in 0..(n + 1) : i # n + 1 => i \in 0..n
    BY <1>1, <1>3
  <2>3. \A i \in 0..n : i # 0 => g[i] = f[i] /\ g[i - 1] = f[i - 1]
    BY <2>2
  <2>4. g[n] = f[n] /\ g[0] = f[0] /\ f[0] = start
    BY <2>1, <2>2
  <2>5. ASSUME NEW i \in 0..(n + 1)
        PROVE  g[i] = IF i = 0 THEN start ELSE Step(g[i - 1])
    <3>1. CASE i = 0
      BY <2>4, <3>1
    <3>2. CASE i = n + 1
      BY <2>2, <2>4, <3>2
    <3>3. CASE i # 0 /\ i # n + 1
      <4>1. i \in 0..n /\ f[i] = Step(f[i - 1])
        BY <2>1, <2>2, <3>3
      <4> QED
        BY <2>3, <3>3, <4>1
    <3> QED
      BY <3>1, <3>2, <3>3
  <2>6. Is(g, n + 1)
    BY <2>5
  <2> HIDE DEF Is
  <2> QED
    BY <2>2, <2>6
<1>4. \A n \in 0..Bits : n \in S
  <2> HIDE DEF S
  <2> QED
    BY <1>1, <1>2, <1>3, UpTo
<1> DEFINE level == CHOOSE f : Is(f, Bits)
<1>5. Is(level, Bits)
  <2>1. Bits \in S
    BY <1>1, <1>4
  <2> HIDE DEF Is
  <2> QED
    BY <2>1
<1>6. Backups(t) = UNION {level[d] : d \in 0..Bits}
  BY DEF Backups, Step, start
<1> HIDE DEF level
<1>7. level[0] = start /\ \A i \in 0..Bits : i < Bits => level[i + 1] = Step(level[i])
  BY <1>1, <1>5
<1> DEFINE T == {d \in 0..Bits : level[d] \subseteq all}
<1>8. 0 \in T
  BY <1>1, <1>7 DEF start
<1>9. ASSUME NEW d \in 0..Bits, d < Bits, d \in T PROVE d + 1 \in T
  <2>1. level[d + 1] = Step(level[d]) /\ d + 1 \in 0..Bits
    BY <1>1, <1>7, <1>9
  <2>2. Step(level[d]) \subseteq all
    BY <1>9 DEF Step
  <2> QED
    BY <2>1, <2>2
<1>10. \A d \in 0..Bits : d \in T
  <2> HIDE DEF T
  <2> QED
    BY <1>1, <1>8, <1>9, UpTo
<1> QED
  BY <1>6, <1>10

-----------------------------------------------------------------------------
(***************************************************************************)
(* The invariant holds: between the calls the tree has the shape and the   *)
(* leaves of the contents; what is not labelled or summed is marked, and so is*)
(* everything above it; and in a transaction Rollback would find a good tree*)
(* of the contents it began with.                                          *)
(***************************************************************************)
THEOREM CollectionIsKept == Spec => []CollectionInv
<1>1. CollectionInv /\ [Next]_vars => CollectionInv'
  BY NextInv, StutterInv
<1> QED
  BY EmptyInv, <1>1, PTL DEF Spec

(***************************************************************************)
(* The variables hold values of their types, in the tree and in all backups*)
(* (node.go).                                                              *)
(***************************************************************************)
THEOREM CollectionTypes == Spec => []TypeOK
<1>1. CollectionInv => TypeOK
  <2> SUFFICES ASSUME CollectionInv PROVE TypeOK
    OBVIOUS
  <2>1. Mid(tree, Inner(Present(Contents)), Contents, None, 0, ongoing)
    BY DEF CollectionInv, Has
  <2>2. TreeOK(tree)
    BY <2>1, MidTree
  <2>3. PICK all : BackupsOf(tree) \subseteq all /\ \A s \in all : SavedWell(s) /\ BackupsOf(s) \subseteq all
    BY <2>1 DEF Mid, Nested
  <2>4. Backups(tree) \subseteq all
    BY <2>3, BackupsWell
  <2>5. \A t \in Backups(tree) : TreeOK(t)
    BY <2>3, <2>4 DEF SavedWell
  <2>6. scope.all \in BOOLEAN /\ scope.masks \subseteq Seq({1, 2})
    <3>1. scope.all = TRUE /\ scope.masks = {}
      BY DEF CollectionInv, Everything
    <3> QED
      BY <3>1
  <2> QED
    BY <2>2, <2>5, <2>6 DEF CollectionInv, TypeOK, Stored
<1> QED
  BY <1>1, CollectionIsKept, PTL

(***************************************************************************)
(* "Only one tree per set of associations": outside a transaction the tree,*)
(* its labels and sums are those of the canonical tree of the contents, for*)
(* any number of keys, any length of hashes and any calls, transactions and*)
(* rollbacks before (manipulators.go, transaction.go).                     *)
(***************************************************************************)
THEOREM OneTreePerContents == Spec => []Canonical
<1>1. CollectionInv => Canonical
  <2> SUFFICES ASSUME CollectionInv, ~ongoing PROVE Labelled(tree) = Labelled(CanonicalTree)
    BY DEF Canonical
  <2>1. Contents \in Stored /\ Has(tree, Contents, FALSE)
    BY DEF CollectionInv
  <2>2. Good(tree, Contents)
    BY <2>1, GoodMid DEF Has
  <2>3. Good(CanonicalTree, Contents)
    BY <2>1, CanonicalGood DEF CanonicalTree
  <2> QED
    BY <2>2, <2>3, OnlyTree
<1> QED
  BY <1>1, CollectionIsKept, PTL

(***************************************************************************)
(* The collection is a map with transactions: a manipulator changes the    *)
(* association of its key only, Begin and End change none, and Rollback gives*)
(* back those the transaction began with (manipulators.go, transaction.go).*)
(***************************************************************************)
THEOREM CollectionImplementsMap == Spec => ImplementsMap
<1>1. Init => Map!Init
  <2> SUFFICES ASSUME Init PROVE Map!Init
    OBVIOUS
  <2>1. CollectionInv
    BY EmptyInv
  <2>2. ongoing = FALSE /\ origin = [k \in Keys |-> None]
    BY DEF Init
  <2>3. origin = Contents
    BY <2>1, <2>2 DEF CollectionInv
  <2> QED
    BY <2>2, <2>3 DEF Map!Init
<1>2. CollectionInv /\ [Next]_vars => [Map!Next]_(Map!vars)
  BY NextInv, StutterInv
<1> QED
  BY <1>1, <1>2, CollectionIsKept, PTL DEF Spec, ImplementsMap, Map!Spec
-----------------------------------------------------------------------------
(* Sums over finite sets.                                                  *)

\* What holds of a set when it holds of all smaller ones holds of every finite set.
LEMMA BySize ==
    ASSUME NEW U, IsFiniteSet(U), NEW P,
           \A S \in SUBSET U : (\A R \in SUBSET S : R # S => R \in P) => S \in P
    PROVE  SUBSET U \subseteq P
<1> DEFINE m == Cardinality(U)
           Small == {n \in 0..m : \A S \in SUBSET U : Cardinality(S) <= n => S \in P}
<1>1. m \in Nat
  BY FS_CardinalityType
<1>2. ASSUME NEW S \in SUBSET U
      PROVE  IsFiniteSet(S) /\ Cardinality(S) \in Nat /\ Cardinality(S) <= m
  <2>1. IsFiniteSet(S) /\ Cardinality(S) <= m
    BY FS_Subset
  <2> QED
    BY <2>1, FS_CardinalityType
<1>3. ASSUME NEW S \in SUBSET U, NEW R \in SUBSET S, R # S
      PROVE  Cardinality(R) < Cardinality(S)
  <2>1. Cardinality(R) <= Cardinality(S) /\ Cardinality(R) # Cardinality(S)
    BY <1>2, <1>3, FS_Subset
  <2> QED
    BY <1>2, <2>1
<1>4. 0 \in Small
  <2> SUFFICES ASSUME NEW S \in SUBSET U, Cardinality(S) <= 0 PROVE S \in P
    BY <1>1
  <2>1. S = {}
    BY <1>2, FS_EmptySet
  <2> QED
    BY <2>1
<1>5. ASSUME NEW n \in 0..m, n < m, n \in Small PROVE n + 1 \in Small
  <2> SUFFICES ASSUME NEW S \in SUBSET U, Cardinality(S) <= n + 1 PROVE S \in P
    BY <1>1, <1>5
  <2>1. ASSUME NEW R \in SUBSET S, R # S PROVE R \in P
    <3>1. Cardinality(R) <= n
      BY <1>1, <1>2, <1>3, <2>1
    <3> QED
      BY <1>5, <3>1
  <2> QED
    BY <2>1
<1> HIDE DEF m
<1>6. m \in Small
  <2> HIDE DEF Small
  <2>1. \A n \in 0..m : n \in Small
    BY <1>1, <1>4, <1>5, UpTo
  <2> QED
    BY <1>1, <2>1
<1> QED
  BY <1>2, <1>6

\* The element that the library takes from a set.
Chosen(s) == CHOOSE x \in s : TRUE

\* The function that the sum of f over S is defined by.
IsSum(g, f, S) ==
    g = [s \in SUBSET S |-> IF s = {} THEN 0 ELSE f[Chosen(s)] + g[s \ {Chosen(s)}]]

\* An element that was chosen is one of the set.
LEMMA ChosenIs == ASSUME NEW s, s # {} PROVE Chosen(s) \in s
BY DEF Chosen

\* There is one such function.
LEMMA OneSum ==
    ASSUME NEW f, NEW S, NEW R, S \subseteq R, IsFiniteSet(S), NEW g, NEW h,
           IsSum(g, f, S), IsSum(h, f, R)
    PROVE  \A s \in SUBSET S : g[s] = h[s]
<1> DEFINE P == {s \in SUBSET S : g[s] = h[s]}
<1>1. ASSUME NEW s \in SUBSET S, \A r \in SUBSET s : r # s => r \in P PROVE s \in P
  <2>1. /\ g[s] = IF s = {} THEN 0 ELSE f[Chosen(s)] + g[s \ {Chosen(s)}]
        /\ h[s] = IF s = {} THEN 0 ELSE f[Chosen(s)] + h[s \ {Chosen(s)}]
    BY DEF IsSum
  <2>2. CASE s = {}
    BY <2>1, <2>2
  <2>3. CASE s # {}
    <3>1. s \ {Chosen(s)} \in SUBSET s /\ s \ {Chosen(s)} # s
      BY <2>3, ChosenIs
    <3>2. s \ {Chosen(s)} \in P
      BY <1>1, <3>1
    <3> QED
      BY <2>1, <2>3, <3>2
  <2> QED
    BY <2>2, <2>3
<1> HIDE DEF P
<1>2. SUBSET S \subseteq P
  BY <1>1, BySize
<1> QED
  BY <1>2 DEF P

\* There is such a function for every finite set.
LEMMA SumExists == ASSUME NEW f, NEW S, IsFiniteSet(S) PROVE \E g : IsSum(g, f, S)
<1> DEFINE P == {s \in SUBSET S : \E g : IsSum(g, f, s)}
<1>1. ASSUME NEW s \in SUBSET S, \A r \in SUBSET s : r # s => r \in P PROVE s \in P
  <2> DEFINE G(r) == CHOOSE g : IsSum(g, f, r)
             h == [r \in SUBSET s |->
                     IF r = {} THEN 0
                     ELSE f[Chosen(r)] + G(r \ {Chosen(r)})[r \ {Chosen(r)}]]
  <2>1. ASSUME NEW r \in SUBSET s, r # s PROVE IsSum(G(r), f, r)
    <3>1. \E g : IsSum(g, f, r)
      BY <1>1, <2>1
    <3> HIDE DEF IsSum
    <3> QED
      BY <3>1
  <2> HIDE DEF G
  <2>2. ASSUME NEW r \in SUBSET s, r # s PROVE h[r] = G(r)[r]
    <3>1. G(r)[r] = IF r = {} THEN 0 ELSE f[Chosen(r)] + G(r)[r \ {Chosen(r)}]
      BY <2>1, <2>2 DEF IsSum
    <3>2. CASE r = {}
      BY <3>1, <3>2
    <3>3. CASE r # {}
      <4> DEFINE q == r \ {Chosen(r)}
      <4>1. q \in SUBSET s /\ q # s /\ q \subseteq r /\ q \in SUBSET q
        BY <3>3, ChosenIs
      <4>2. IsSum(G(q), f, q) /\ IsSum(G(r), f, r)
        BY <2>1, <2>2, <4>1
      <4>3. IsFiniteSet(q)
        <5>1. q \in SUBSET S
          OBVIOUS
        <5> QED
          BY <5>1, FS_Subset
      <4> HIDE DEF q
      <4>4. \A x \in SUBSET q : G(q)[x] = G(r)[x]
        BY <4>1, <4>2, <4>3, OneSum
      <4>5. G(q)[q] = G(r)[q]
        BY <4>1, <4>4
      <4>6. h[r] = f[Chosen(r)] + G(q)[q]
        BY <2>2, <3>3 DEF q
      <4> QED
        BY <3>1, <3>3, <4>5, <4>6 DEF q
    <3> QED
      BY <3>2, <3>3
  <2>3. ASSUME NEW r \in SUBSET s
        PROVE  h[r] = IF r = {} THEN 0 ELSE f[Chosen(r)] + h[r \ {Chosen(r)}]
    <3>1. CASE r = {}
      BY <3>1
    <3>2. CASE r # {}
      <4> DEFINE q == r \ {Chosen(r)}
      <4>1. q \in SUBSET s /\ q # s
        BY <3>2, ChosenIs
      <4>2. h[q] = G(q)[q]
        BY <2>2, <4>1
      <4>3. h[r] = f[Chosen(r)] + G(q)[q]
        BY <3>2
      <4> QED
        BY <3>2, <4>2, <4>3
    <3> QED
      BY <3>1, <3>2
  <2>4. h = [r \in SUBSET s |-> h[r]]
    OBVIOUS
  <2> HIDE DEF h
  <2>5. IsSum(h, f, s)
    BY <2>3, <2>4 DEF IsSum
  <2> HIDE DEF IsSum
  <2> QED
    BY <2>5
<1> HIDE DEF P
<1>2. SUBSET S \subseteq P
  BY <1>1, BySize
<1> QED
  BY <1>2 DEF P

\* The sum of the library is given by that function.
LEMMA SumIs ==
    ASSUME NEW f, NEW S, IsFiniteSet(S)
    PROVE  \E g : IsSum(g, f, S) /\ SumFunctionOnSet(f, S) = g[S]
<1> DEFINE sum == CHOOSE g : IsSum(g, f, S)
<1>1. SumFunctionOnSet(f, S) = sum[S]
  BY DEF SumFunctionOnSet, FoldFunctionOnSet, MapThenFoldSet, IsSum, Chosen
<1>2. \E g : IsSum(g, f, S)
  BY SumExists
<1>3. IsSum(sum, f, S)
  <2> HIDE DEF IsSum
  <2> QED
    BY <1>2
<1> QED
  BY <1>1, <1>3

\* One function has the sums over all subsets of a finite set.
LEMMA SumsAgree ==
    ASSUME NEW f, NEW U, IsFiniteSet(U)
    PROVE  \E g : IsSum(g, f, U) /\ \A S \in SUBSET U : SumFunctionOnSet(f, S) = g[S]
<1>1. PICK g : IsSum(g, f, U)
  BY SumExists
<1>2. ASSUME NEW S \in SUBSET U PROVE SumFunctionOnSet(f, S) = g[S]
  <2>1. IsFiniteSet(S)
    BY FS_Subset
  <2>2. PICK h : IsSum(h, f, S) /\ SumFunctionOnSet(f, S) = h[S]
    BY <2>1, SumIs
  <2>3. \A s \in SUBSET S : h[s] = g[s]
    BY <1>1, <2>1, <2>2, OneSum
  <2> QED
    BY <2>2, <2>3
<1> QED
  BY <1>1, <1>2

\* f has a natural number for every element of U.
Weighs(f, U) == \A x \in U : f[x] \in Nat

\* g has the sums over the subsets of U, whichever element is taken away first.
Adds(g, f, U) ==
    /\ g[{}] = 0
    /\ \A S \in SUBSET U : g[S] \in Nat
    /\ \A S \in SUBSET U : \A x \in S : g[S] = f[x] + g[S \ {x}]

\* The sum does not depend on which element is taken first.
LEMMA SumWithout ==
    ASSUME NEW f, NEW U, IsFiniteSet(U), Weighs(f, U), NEW g, IsSum(g, f, U)
    PROVE  Adds(g, f, U)
<1> USE DEF Weighs, Adds
<1> DEFINE P == {S \in SUBSET U : g[S] \in Nat}
           Q == {S \in SUBSET U : \A x \in S : g[S] = f[x] + g[S \ {x}]}
<1>1. ASSUME NEW S \in SUBSET U
      PROVE  /\ S = {} => g[S] = 0
             /\ S # {} => Chosen(S) \in S /\ g[S] = f[Chosen(S)] + g[S \ {Chosen(S)}]
  BY ChosenIs DEF IsSum
<1>2. SUBSET U \subseteq P
  <2>1. ASSUME NEW S \in SUBSET U, \A R \in SUBSET S : R # S => R \in P PROVE S \in P
    <3>1. CASE S = {}
      BY <1>1, <3>1
    <3>2. CASE S # {}
      <4>1. S \ {Chosen(S)} \in P /\ f[Chosen(S)] \in Nat
        BY <1>1, <2>1, <3>2
      <4> QED
        BY <1>1, <3>2, <4>1
    <3> QED
      BY <3>1, <3>2
  <2> HIDE DEF P
  <2> QED
    BY <2>1, BySize
<1>3. SUBSET U \subseteq Q
  <2>1. ASSUME NEW S \in SUBSET U, \A R \in SUBSET S : R # S => R \in Q PROVE S \in Q
    <3> SUFFICES ASSUME NEW x \in S PROVE g[S] = f[x] + g[S \ {x}]
      OBVIOUS
    <3> DEFINE y == Chosen(S)
    <3>1. y \in S /\ g[S] = f[y] + g[S \ {y}]
      BY <1>1
    <3> HIDE DEF y
    <3>2. CASE x = y
      BY <3>1, <3>2
    <3>3. CASE x # y
      <4>1. S \ {x} \in Q /\ S \ {y} \in Q /\ x \in S \ {y} /\ y \in S \ {x}
        BY <2>1, <3>1, <3>3
      <4>2. g[S \ {y}] = f[x] + g[(S \ {y}) \ {x}] /\ g[S \ {x}] = f[y] + g[(S \ {x}) \ {y}]
        BY <4>1
      <4>3. (S \ {y}) \ {x} = (S \ {x}) \ {y}
        OBVIOUS
      <4> DEFINE rest == g[(S \ {x}) \ {y}]
                 fx == f[x]
                 fy == f[y]
      <4>4. rest \in Nat /\ fx \in Nat /\ fy \in Nat
        BY <1>2, <3>1
      <4>5. g[S \ {y}] = fx + rest /\ g[S \ {x}] = fy + rest /\ g[S] = fy + g[S \ {y}]
        BY <3>1, <4>2, <4>3
      <4> HIDE DEF rest, fx, fy
      <4>6. g[S] = fx + g[S \ {x}]
        BY <4>4, <4>5
      <4> QED
        BY <4>6 DEF fx
    <3> QED
      BY <3>2, <3>3
  <2> HIDE DEF Q
  <2> QED
    BY <2>1, BySize
<1>4. g[{}] = 0
  BY <1>1
<1> QED
  BY <1>2, <1>3, <1>4

\* Sums of natural numbers: of nothing, of one, and of two sets apart.
LEMMA Sums ==
    ASSUME NEW f, NEW U, IsFiniteSet(U), Weighs(f, U)
    PROVE  /\ SumFunctionOnSet(f, {}) = 0
           /\ \A S \in SUBSET U : SumFunctionOnSet(f, S) \in Nat
           /\ \A x \in U : SumFunctionOnSet(f, {x}) = f[x]
           /\ \A R, S \in SUBSET U : R \cap S = {} =>
                SumFunctionOnSet(f, R \cup S) = SumFunctionOnSet(f, R) + SumFunctionOnSet(f, S)
<1>1. PICK g : IsSum(g, f, U) /\ \A S \in SUBSET U : SumFunctionOnSet(f, S) = g[S]
  BY SumsAgree
<1>2. /\ g[{}] = 0
      /\ \A S \in SUBSET U : g[S] \in Nat
      /\ \A S \in SUBSET U : \A x \in S : g[S] = f[x] + g[S \ {x}]
  <2>1. Adds(g, f, U)
    BY <1>1, SumWithout
  <2> QED
    BY <2>1 DEF Adds
<1>3. ASSUME NEW x \in U PROVE g[{x}] = f[x]
  <2>1. {x} \ {x} = {}
    OBVIOUS
  <2>2. g[{x}] = f[x] + g[{x} \ {x}]
    BY <1>2
  <2> QED
    BY <1>2, <2>1, <2>2 DEF Weighs
<1>4. ASSUME NEW R \in SUBSET U
      PROVE  \A S \in SUBSET (U \ R) : g[R \cup S] = g[R] + g[S]
  <2> DEFINE P == {S \in SUBSET (U \ R) : g[R \cup S] = g[R] + g[S]}
  <2>1. ASSUME NEW S \in SUBSET (U \ R), \A Q \in SUBSET S : Q # S => Q \in P PROVE S \in P
    <3>1. CASE S = {}
      <4>1. R \cup S = R
        BY <3>1
      <4> QED
        BY <1>2, <3>1, <4>1
    <3>2. CASE S # {}
      <4>1. PICK y \in S : TRUE
        BY <3>2
      <4> DEFINE Q == S \ {y}
      <4>2. Q \in P
        BY <2>1
      <4>3. g[R \cup Q] = g[R] + g[Q] /\ (R \cup S) \ {y} = R \cup Q
        BY <4>2
      <4>4. g[S] = f[y] + g[Q]
        BY <1>2
      <4>5. g[R \cup S] = f[y] + g[(R \cup S) \ {y}]
        <5>1. R \cup S \in SUBSET U /\ y \in R \cup S
          OBVIOUS
        <5> QED
          BY <1>2, <5>1
      <4>6. f[y] \in Nat /\ g[R] \in Nat /\ g[Q] \in Nat
        BY <1>2 DEF Weighs
      <4> HIDE DEF Q
      <4> DEFINE weight == f[y]
                 rest == g[Q]
                 other == g[R]
      <4>7. /\ weight \in Nat /\ rest \in Nat /\ other \in Nat
            /\ g[S] = weight + rest /\ g[R \cup S] = weight + (other + rest)
        BY <4>3, <4>4, <4>5, <4>6
      <4> HIDE DEF weight, rest, other
      <4>8. g[R \cup S] = other + g[S]
        BY <4>7
      <4> QED
        BY <4>8 DEF other
    <3> QED
      BY <3>1, <3>2
  <2>2. IsFiniteSet(U \ R)
    <3>1. U \ R \in SUBSET U
      OBVIOUS
    <3> QED
      BY <3>1, FS_Subset
  <2>3. SUBSET (U \ R) \subseteq P
    <3> DEFINE V == U \ R
    <3>1. /\ IsFiniteSet(V)
          /\ \A S \in SUBSET V : (\A Q \in SUBSET S : Q # S => Q \in P) => S \in P
      BY <2>1, <2>2
    <3> HIDE DEF P, V
    <3>2. SUBSET V \subseteq P
      BY <3>1, BySize
    <3> QED
      BY <3>2 DEF V
  <2> QED
    BY <2>3
<1>5. ASSUME NEW R \in SUBSET U, NEW S \in SUBSET U, R \cap S = {}
      PROVE  SumFunctionOnSet(f, R \cup S) = SumFunctionOnSet(f, R) + SumFunctionOnSet(f, S)
  <2>1. S \in SUBSET (U \ R) /\ R \cup S \in SUBSET U
    BY <1>5
  <2> QED
    BY <1>1, <1>4, <2>1
<1>6. \A x \in U : {x} \in SUBSET U
  OBVIOUS
<1>7. {} \in SUBSET U
  OBVIOUS
<1> QED
  BY <1>1, <1>2, <1>3, <1>5, <1>6, <1>7

-----------------------------------------------------------------------------
(* The stakes of nodes.                                                    *)

\* There are finitely many keys, because there are finitely many hashes.
LEMMA KeysAreFinite == IsFiniteSet(Keys)
<1> DEFINE Bound == 1..Bits
           Ones == [k \in Keys |-> {i \in Bound : Path[k][i] = 1}]
<1>1. Bits \in Nat /\ \A k \in Keys : Path[k] \in [Bound -> {1, 2}]
  BY PathsDiffer
<1>2. IsFiniteSet(SUBSET Bound)
  <2>1. 1 \in Int /\ Bits \in Int
    BY <1>1
  <2>2. IsFiniteSet(1..Bits)
    BY <2>1, FS_Interval
  <2> HIDE DEF Bound
  <2>3. IsFiniteSet(Bound)
    BY <2>2 DEF Bound
  <2> QED
    BY <2>3, FS_SUBSET
<1>3. ASSUME NEW k \in Keys, NEW l \in Keys, Ones[k] = Ones[l] PROVE k = l
  <2> HIDE DEF Bound
  <2>1. ASSUME NEW i \in Bound PROVE Path[k][i] = Path[l][i]
    <3>1. i \in Ones[k] <=> i \in Ones[l]
      BY <1>3
    <3>2. Path[k][i] \in {1, 2} /\ Path[l][i] \in {1, 2}
      BY <1>1
    <3> QED
      BY <3>1, <3>2
  <2>2. Path[k] = Path[l]
    BY <1>1, <2>1
  <2> QED
    BY <2>2, PathsDiffer
<1>4. Ones \in [Keys -> SUBSET Bound]
  OBVIOUS
<1> HIDE DEF Ones, Bound
<1>5. Ones \in Injection(Keys, SUBSET Bound)
  BY <1>3, <1>4 DEF Injection, IsInjective
<1> QED
  BY <1>2, <1>5, FS_Injection

\* The keys on the way through a position, and those on its left.
Through(c, p) == {k \in Present(c) : On(k, p)}

LeftOf(c, p) ==
    {k \in Present(c) : \E d \in 1..Len(p) : At(k, d - 1) = Prefix(p, d - 1) /\ Path[k][d] < p[d]}

\* Nothing is on the left of the root.
LEMMA LeftOfRoot == ASSUME NEW c PROVE LeftOf(c, <<>>) = {} /\ Through(c, <<>>) = Present(c)
<1>1. Len(<<>>) = 0 /\ 1..0 = {}
  BY RootIsPosition
<1>2. \A k \in Present(c) : On(k, <<>>)
  BY OnRoot DEF Present
<1> QED
  BY <1>1, <1>2 DEF LeftOf, Through

\* A parent's keys are those of its two children; on the left of the right
\* child are those of the left one.
LEMMA LeftOfKid ==
    ASSUME NEW c, NEW p \in Positions, Append(p, 1) \in Positions, Append(p, 2) \in Positions
    PROVE  /\ Through(c, p) = Through(c, Append(p, 1)) \cup Through(c, Append(p, 2))
           /\ Through(c, Append(p, 1)) \cap Through(c, Append(p, 2)) = {}
           /\ LeftOf(c, Append(p, 1)) = LeftOf(c, p)
           /\ LeftOf(c, Append(p, 2)) = LeftOf(c, p) \cup Through(c, Append(p, 1))
           /\ LeftOf(c, p) \cap Through(c, p) = {}
<1> DEFINE n == Len(p)
           y(i) == Append(p, i)
<1>1. n \in Nat /\ Present(c) \subseteq Keys
  BY PositionIsSeq DEF Present
<1>2. ASSUME NEW i \in 1..2
      PROVE  /\ Len(y(i)) = n + 1 /\ y(i)[n + 1] = i
             /\ \A d \in 1..n : y(i)[d] = p[d]
             /\ \A d \in 0..n : Prefix(y(i), d) = Prefix(p, d)
  <2>1. y(i) \in Positions
    <3>1. i = 1 \/ i = 2
      OBVIOUS
    <3> QED
      BY <3>1
  <2>2. /\ Len(y(i)) = n + 1 /\ y(i)[n + 1] = i
        /\ \A d \in 1..n : y(i)[d] = p[d]
    BY Kid
  <2>3. /\ n \in 0..Len(y(i)) /\ n < Len(y(i)) /\ Prefix(y(i), Len(y(i))) = y(i)
        /\ Prefix(y(i), n + 1) = Append(Prefix(y(i), n), y(i)[n + 1])
        /\ \A e \in 0..n : Prefix(Prefix(y(i), n), e) = Prefix(y(i), e)
    <3>1. n \in 0..Len(y(i)) /\ n < Len(y(i))
      BY <1>1, <2>2
    <3> QED
      BY <2>1, <3>1, PrefixOf
  <2>4. Prefix(y(i), n) = p
    <3>1. Prefix(y(i), n) \in Positions
      BY <2>1, <2>3, PrefixIs
    <3>2. Append(Prefix(y(i), n), i) = Append(p, i)
      BY <2>2, <2>3
    <3> HIDE DEF y
    <3> QED
      BY <3>1, <3>2, KidsDiffer
  <2> QED
    BY <2>2, <2>3, <2>4
<1>3. ASSUME NEW k \in Keys, NEW i \in 1..2
      PROVE  /\ Path[k][n + 1] \in 1..2
             /\ On(k, y(i)) <=> On(k, p) /\ Path[k][n + 1] = i
  <2>1. y(i) \in Positions
    <3>1. i = 1 \/ i = 2
      OBVIOUS
    <3> QED
      BY <3>1
  <2> QED
    BY <2>1, OnKid
<1>4. 1 \in 1..2 /\ 2 \in 1..2 /\ n + 1 \in 1..(n + 1) /\ Prefix(p, n) = p
  BY <1>1, PrefixOf
<1>5. ASSUME NEW k \in Keys, On(k, p), NEW d \in 1..n
      PROVE  Path[k][d] = p[d]
  <2> DEFINE e == d - 1
  <2>1. p = At(k, n) /\ n \in 0..Bits /\ Bits \in Nat
    <3>1. Len(p) \in 0..Bits /\ Bits \in Nat
      BY PositionIsSeq, PathsDiffer
    <3> QED
      BY <1>5, <3>1 DEF On
  <2>2. e \in 0..n /\ e < n /\ d \in 0..n /\ e \in 0..Bits /\ e < Bits /\ e + 1 = d
    BY <1>1, <2>1
  <2> HIDE DEF e, n
  <2>3. Prefix(p, d) = At(k, d) /\ Prefix(p, e) = At(k, e)
    BY <2>1, <2>2, AtIs
  <2>4. Prefix(p, e + 1) = Append(Prefix(p, e), p[e + 1]) /\ p[e + 1] \in 1..2
    <3>1. e \in 0..Len(p) /\ e < Len(p)
      BY <2>2 DEF n
    <3> QED
      BY <3>1, PrefixOf
  <2>5. /\ At(k, e + 1) = Append(At(k, e), Path[k][e + 1]) /\ Path[k][e + 1] \in 1..2
        /\ At(k, e) \in Positions
    BY <2>2, AtIs
  <2> QED
    BY <2>2, <2>3, <2>4, <2>5, KidsDiffer
<1>6. ASSUME NEW k \in Present(c), NEW i \in 1..2
      PROVE  k \in LeftOf(c, y(i)) <=> k \in LeftOf(c, p) \/ (On(k, p) /\ Path[k][n + 1] < i)
  <2>1. \A d \in 1..(n + 1) : d \in 1..n \/ d = n + 1
    BY <1>1
  <2>2. \A d \in 1..n : d \in 1..(n + 1) /\ d - 1 \in 0..n
    BY <1>1
  <2>3. (n + 1) - 1 = n /\ n \in 0..n
    BY <1>1
  <2>4. At(k, n) = p <=> On(k, p)
    BY DEF On
  <2> DEFINE Turns(q, d) == At(k, d - 1) = Prefix(q, d - 1) /\ Path[k][d] < q[d]
  <2>5. \A d \in 1..n : Turns(y(i), d) <=> Turns(p, d)
    BY <1>2, <2>2
  <2>6. Turns(y(i), n + 1) <=> On(k, p) /\ Path[k][n + 1] < i
    BY <1>2, <1>4, <2>3, <2>4
  <2>7. k \in LeftOf(c, y(i)) <=> \E d \in 1..(n + 1) : Turns(y(i), d)
    BY <1>2 DEF LeftOf
  <2>8. k \in LeftOf(c, p) <=> \E d \in 1..n : Turns(p, d)
    BY DEF LeftOf
  <2> HIDE DEF Turns
  <2> QED
    BY <1>4, <2>1, <2>2, <2>5, <2>6, <2>7, <2>8
<1>7. \A k \in LeftOf(c, p) : ~On(k, p)
  <2> SUFFICES ASSUME NEW k \in Present(c), NEW d \in 1..n, Path[k][d] < p[d], On(k, p) PROVE FALSE
    BY DEF LeftOf
  <2>1. Path[k][d] = p[d]
    BY <1>1, <1>5
  <2>2. p[d] \in 1..2
    BY PositionIsSeq
  <2> QED
    BY <2>1, <2>2
<1>8. \A i \in 1..2 : LeftOf(c, y(i)) \subseteq Present(c)
  BY DEF LeftOf
<1>9. LeftOf(c, p) \subseteq Present(c)
  BY DEF LeftOf
<1> HIDE DEF y, n
<1>10. /\ Through(c, p) = Through(c, y(1)) \cup Through(c, y(2))
       /\ Through(c, y(1)) \cap Through(c, y(2)) = {}
  BY <1>1, <1>3, <1>4 DEF Through
<1>11. \A k \in Present(c) : ~(Path[k][n + 1] < 1) /\ (Path[k][n + 1] < 2 <=> Path[k][n + 1] = 1)
  <2>1. \A k \in Present(c) : Path[k][n + 1] \in 1..2
    BY <1>1, <1>3, <1>4
  <2> QED
    BY <2>1
<1>12. LeftOf(c, y(1)) = LeftOf(c, p)
  BY <1>4, <1>6, <1>8, <1>9, <1>11
<1>13. LeftOf(c, y(2)) = LeftOf(c, p) \cup Through(c, y(1))
  BY <1>1, <1>3, <1>4, <1>6, <1>8, <1>9, <1>11 DEF Through
<1>14. LeftOf(c, p) \cap Through(c, p) = {}
  BY <1>7 DEF Through
<1> QED
  BY <1>10, <1>12, <1>13, <1>14 DEF y

\* Facts about stakes that the walk and the intervals need.
LEMMA StakesAdd ==
    ASSUME NEW c \in Stored
    PROVE  /\ IsFiniteSet(Present(c)) /\ Weighs(c, Present(c))
           /\ SumFunctionOnSet(c, {}) = 0
           /\ \A S \in SUBSET Present(c) : SumFunctionOnSet(c, S) \in Nat
           /\ \A x \in Present(c) : SumFunctionOnSet(c, {x}) = c[x] /\ c[x] \in Nat
           /\ \A R, S \in SUBSET Present(c) : R \cap S = {} =>
                SumFunctionOnSet(c, R \cup S) = SumFunctionOnSet(c, R) + SumFunctionOnSet(c, S)
           /\ \A R, S \in SUBSET Present(c) : R \subseteq S =>
                SumFunctionOnSet(c, R) <= SumFunctionOnSet(c, S)
<1> DEFINE U == Present(c)
           Sum(S) == SumFunctionOnSet(c, S)
<1>1. IsFiniteSet(U) /\ Weighs(c, U)
  <2>1. U \in SUBSET Keys
    BY DEF Present
  <2>2. Weighs(c, U)
    <3> SUFFICES ASSUME NEW k \in Keys, c[k] # None PROVE c[k] \in Nat
      BY DEF Present, Weighs
    <3>1. c[k] \in Vals
      BY DEF Stored
    <3>2. \A v \in Vals : v \in Nat
      BY StakesFit
    <3> QED
      BY <3>1, <3>2
  <2> QED
    BY <2>1, <2>2, KeysAreFinite, FS_Subset
<1> HIDE DEF U
<1>2. /\ Sum({}) = 0
      /\ \A R \in SUBSET U : Sum(R) \in Nat
      /\ \A x \in U : Sum({x}) = c[x]
      /\ \A R, Q \in SUBSET U : R \cap Q = {} => Sum(R \cup Q) = Sum(R) + Sum(Q)
  BY <1>1, Sums
<1>3. ASSUME NEW R \in SUBSET U, NEW S \in SUBSET U, R \subseteq S PROVE Sum(R) <= Sum(S)
  <2> DEFINE Q == S \ R
  <2>1. Q \in SUBSET U /\ R \cap Q = {} /\ R \cup Q = S
    BY <1>3
  <2> HIDE DEF Q
  <2>2. Sum(S) = Sum(R) + Sum(Q) /\ Sum(R) \in Nat /\ Sum(Q) \in Nat
    BY <1>2, <2>1
  <2> HIDE DEF Sum
  <2> QED
    BY <2>2
<1>4. \A x \in U : c[x] \in Nat
  BY <1>1 DEF Weighs
<1> QED
  BY <1>1, <1>2, <1>3, <1>4 DEF U

\* While the stakes do not wrap, a node has the stakes of the keys on the way
\* through it.
LEMMA StakesOfNodes ==
    ASSUME NEW c \in Stored, NEW t, Good(t, c), SumFunctionOnSet(c, Present(c)) < Width
    PROVE  \A p \in DOMAIN t : t[p].val = SumFunctionOnSet(c, Through(c, p))
<1> DEFINE inner == Inner(Present(c))
           U == Present(c)
           Sum(S) == SumFunctionOnSet(c, S)
           Right(p) == t[p].val = Sum(Through(c, p))
           S == {i \in 0..Bits : \A p \in NodesFor(inner) : Len(p) + i >= Bits => Right(p)}
<1>1. InnerSet(inner) /\ Shape(t, inner, c) /\ DOMAIN t = NodesFor(inner)
  BY DEF Good, Shape
<1>2. \A p \in NodesFor(inner) : Fits(t, p, FALSE) /\ Quiet(t, p)
  BY <1>1 DEF Good
<1>3. Bits \in Nat /\ Width \in Nat
  BY PathsDiffer, StakesFit
<1> HIDE DEF inner, U
<1>4. /\ Sum({}) = 0
      /\ \A R \in SUBSET U : Sum(R) \in Nat
      /\ \A x \in U : Sum({x}) = c[x]
      /\ \A R, Q \in SUBSET U : R \cap Q = {} => Sum(R \cup Q) = Sum(R) + Sum(Q)
  BY StakesAdd DEF U
<1>5. \A p \in NodesFor(inner) :
        /\ p \in Positions /\ Len(p) \in 0..Bits
        /\ IsLeaf(t, p) <=> p \notin inner
  <2>1. NodesFor(inner) \subseteq Positions
    BY <1>1, NodesArePositions
  <2> QED
    BY <1>1, <2>1, PositionIsSeq, LeafIsOuter
<1>6. ASSUME NEW p \in NodesFor(inner), p \notin inner PROVE Right(p)
  <2>1. /\ t[p].key = None => t[p].val = 0 /\ \A k \in U : ~On(k, p)
        /\ t[p].key # None => /\ t[p].key \in U /\ On(t[p].key, p)
                              /\ t[p].val = c[t[p].key]
                              /\ \A k \in U : On(k, p) => k = t[p].key
    BY <1>1, <1>6, LeafHolds DEF U
  <2>2. CASE t[p].key = None
    <3>1. Through(c, p) = {}
      BY <2>1, <2>2 DEF Through, U
    <3> QED
      BY <1>4, <2>1, <2>2, <3>1
  <2>3. CASE t[p].key # None
    <3>1. Through(c, p) = {t[p].key}
      BY <2>1, <2>3 DEF Through, U
    <3> QED
      BY <1>4, <2>1, <2>3, <3>1
  <2> QED
    BY <2>2, <2>3
<1>7. ASSUME NEW p \in inner, Right(Append(p, 1)), Right(Append(p, 2)) PROVE Right(p)
  <2> DEFINE L == Through(c, Append(p, 1))
             R == Through(c, Append(p, 2))
             left == t[Append(p, 1)].val
             right == t[Append(p, 2)].val
  <2>1. p \in NodesFor(inner) /\ Append(p, 1) \in Positions /\ Append(p, 2) \in Positions
    <3>1. 1 \in 1..2 /\ 2 \in 1..2
      OBVIOUS
    <3>2. Len(p) < Bits /\ p \in Positions /\ p \in NodesFor(inner)
      BY <1>1, NodesArePositions DEF InnerSet
    <3> QED
      BY <3>1, <3>2, Kid
  <2>2. t[p].val = (left + right) % Width
    <3>1. Settled(t, p)
      BY <1>2, <1>5, <2>1 DEF Quiet
    <3> QED
      BY <3>1 DEF Settled, Parent
  <2>3. Through(c, p) = L \cup R /\ L \cap R = {}
    BY <1>5, <2>1, LeftOfKid
  <2>4. /\ L \in SUBSET U /\ R \in SUBSET U /\ L \cup R \in SUBSET U
        /\ U \ (L \cup R) \in SUBSET U
    BY DEF Through, U
  <2>5. Sum(L \cup R) = left + right /\ left \in Nat /\ right \in Nat
    BY <1>4, <1>7, <2>3, <2>4
  <2>6. left + right < Width
    <3> DEFINE P == L \cup R
               rest == Sum(U \ P)
    <3>1. P \cap (U \ P) = {} /\ P \cup (U \ P) = U
      BY <2>4
    <3>2. Sum(P \cup (U \ P)) = Sum(P) + rest
      BY <1>4, <2>4, <3>1
    <3>3. rest \in Nat /\ Sum(U) = Sum(P) + rest /\ Sum(U) < Width
      BY <1>4, <2>4, <3>1, <3>2 DEF U
    <3> HIDE DEF rest
    <3> QED
      BY <1>3, <2>5, <3>3
  <2> HIDE DEF L, R, left, right
  <2>7. (left + right) % Width = left + right
    BY <1>3, <2>5, <2>6
  <2> QED
    BY <2>2, <2>3, <2>5, <2>7
<1>8. 0 \in S
  <2> SUFFICES ASSUME NEW p \in NodesFor(inner), Len(p) + 0 >= Bits PROVE Right(p)
    BY <1>3
  <2>1. Len(p) = Bits
    BY <1>3, <1>5
  <2>2. p \notin inner
    BY <1>1, <1>3, <2>1 DEF InnerSet
  <2> QED
    BY <1>6, <2>2
<1>9. ASSUME NEW n \in 0..Bits, n < Bits, n \in S PROVE n + 1 \in S
  <2> SUFFICES ASSUME NEW p \in NodesFor(inner), Len(p) + (n + 1) >= Bits PROVE Right(p)
    BY <1>3, <1>9
  <2>1. CASE p \notin inner
    BY <1>6, <2>1
  <2>2. CASE p \in inner
    <3>1. 1 \in 1..2 /\ 2 \in 1..2
      OBVIOUS
    <3>2. ASSUME NEW i \in 1..2 PROVE Right(Append(p, i))
      <4>1. Append(p, i) \in NodesFor(inner)
        BY <2>2 DEF NodesFor
      <4>2. Len(Append(p, i)) = Len(p) + 1
        BY <1>5, Kid
      <4>3. Len(Append(p, i)) + n >= Bits
        BY <1>3, <1>5, <4>2
      <4> QED
        BY <1>9, <4>1, <4>3
    <3>3. Right(Append(p, 1)) /\ Right(Append(p, 2))
      BY <3>1, <3>2
    <3> HIDE DEF Right
    <3> QED
      BY <1>7, <2>2, <3>3
  <2> QED
    BY <2>1, <2>2
<1>10. \A i \in 0..Bits : i \in S
  <2> HIDE DEF S
  <2> QED
    BY <1>3, <1>8, <1>9, UpTo
<1>11. Bits \in S
  BY <1>3, <1>10
<1> QED
  BY <1>1, <1>3, <1>5, <1>11

-----------------------------------------------------------------------------
(* The walk of a query.                                                    *)

\* Where the walk of Navigate stops: at a leaf, at a query that is too large, at
\* children that are not known; otherwise it goes on with one step.
Stuck(t, p, r) == IsLeaf(t, p) \/ r >= t[p].val \/ \E i \in 1..2 : ~t[Append(p, i)].known

NavigateStep(t, at) == IF Stuck(t, at[1], at[2]) THEN at ELSE Navigate(t, at[1], at[2])

\* What Navigate answers is where as many steps lead as a hash has bits.
LEMMA NavigateIs ==
    ASSUME NEW t, NEW q
    PROVE  \E walk : /\ walk[0] = <<<<>>, q>>
                     /\ \A i \in 1..Bits : walk[i] = NavigateStep(t, walk[i - 1])
                     /\ NavigateAt(t, q) = IF IsLeaf(t, walk[Bits][1]) /\ t[walk[Bits][1]].known
                                           THEN t[walk[Bits][1]] ELSE None
<1> DEFINE N == Bits
           start == <<<<>>, q>>
           Step(x) == NavigateStep(t, x)
           Is(f, n) == f = [i \in 0..n |-> IF i = 0 THEN start ELSE Step(f[i - 1])]
           S == {n \in 0..N : \E f : Is(f, n)}
<1>1. N \in Nat
  BY PathsDiffer DEF N
<1> HIDE DEF Step, N, start
<1>2. 0 \in S
  <2> DEFINE f == [i \in 0..0 |-> start]
  <2>1. Is(f, 0) /\ 0 \in 0..N
    BY <1>1
  <2> QED
    BY <2>1
<1>3. ASSUME NEW n \in 0..N, n < N, n \in S PROVE n + 1 \in S
  <2>1. PICK f : Is(f, n)
    BY <1>3
  <2> DEFINE g == [i \in 0..(n + 1) |-> IF i = n + 1 THEN Step(f[n]) ELSE f[i]]
  <2>2. n + 1 \in 0..N /\ n \in Nat /\ \A i \in 0..(n + 1) : i # n + 1 => i \in 0..n
    BY <1>1, <1>3
  <2>3. \A i \in 0..n : i # 0 => g[i] = f[i] /\ g[i - 1] = f[i - 1]
    BY <2>2
  <2>4. g[n] = f[n] /\ g[0] = f[0] /\ f[0] = start
    BY <2>1, <2>2
  <2>5. ASSUME NEW i \in 0..(n + 1)
        PROVE  g[i] = IF i = 0 THEN start ELSE Step(g[i - 1])
    <3>1. CASE i = 0
      BY <2>4, <3>1
    <3>2. CASE i = n + 1
      BY <2>2, <2>4, <3>2
    <3>3. CASE i # 0 /\ i # n + 1
      <4>1. i \in 0..n /\ f[i] = Step(f[i - 1])
        BY <2>1, <2>2, <3>3
      <4> QED
        BY <2>3, <3>3, <4>1
    <3> QED
      BY <3>1, <3>2, <3>3
  <2>6. Is(g, n + 1)
    BY <2>5
  <2> HIDE DEF Is
  <2> QED
    BY <2>2, <2>6
<1>4. \A n \in 0..N : n \in S
  <2> HIDE DEF S
  <2> QED
    BY <1>1, <1>2, <1>3, UpTo
<1> DEFINE walk == CHOOSE f : Is(f, N)
<1>5. Is(walk, N)
  <2>1. N \in S
    BY <1>1, <1>4
  <2> HIDE DEF Is
  <2> QED
    BY <2>1
<1>6. walk[0] = start /\ \A i \in 1..N : walk[i] = Step(walk[i - 1])
  <2> HIDE DEF walk
  <2> QED
    BY <1>1, <1>5
<1>7. NavigateAt(t, q) = IF IsLeaf(t, walk[N][1]) /\ t[walk[N][1]].known
                         THEN t[walk[N][1]] ELSE None
  BY DEF NavigateAt, NavigateStep, Stuck, Step, N, start
<1> HIDE DEF walk
<1> QED
  BY <1>6, <1>7 DEF Step, N, start

\* The walk of a query, after i steps: what is left of it is to be found below
\* the node it is at.
OnItsWay(t, c, q, at, i) ==
    /\ at = <<at[1], at[2]>> /\ at[1] \in DOMAIN t /\ at[2] \in Nat
    /\ q = SumFunctionOnSet(c, LeftOf(c, at[1])) + at[2]
    /\ at[2] < t[at[1]].val
    /\ Len(at[1]) = i \/ IsLeaf(t, at[1])

\* A step of the walk goes to the child that has what is left of the query.
LEMMA GoesOn ==
    ASSUME NEW c \in Stored, NEW t, Good(t, c), SumFunctionOnSet(c, Present(c)) < Width,
           NEW q \in Nat, NEW i \in Nat, NEW at, OnItsWay(t, c, q, at, i)
    PROVE  OnItsWay(t, c, q, NavigateStep(t, at), i + 1)
<1> DEFINE inner == Inner(Present(c))
           U == Present(c)
           Sum(S) == SumFunctionOnSet(c, S)
           p == at[1]
           r == at[2]
<1>1. InnerSet(inner) /\ Shape(t, inner, c) /\ DOMAIN t = NodesFor(inner)
  BY DEF Good, Shape
<1>2. /\ at = <<p, r>> /\ p \in DOMAIN t /\ r \in Nat
      /\ q = Sum(LeftOf(c, p)) + r
      /\ r < t[p].val
      /\ Len(p) = i \/ IsLeaf(t, p)
  BY DEF OnItsWay
<1>3. p \in NodesFor(inner) /\ p \in Positions
  BY <1>1, <1>2, NodesArePositions
<1> HIDE DEF p, r
<1>4. CASE IsLeaf(t, p)
  <2>1. NavigateStep(t, at) = at
    BY <1>4 DEF NavigateStep, Stuck, p
  <2> QED
    BY <1>2, <1>4, <2>1 DEF OnItsWay, p, r
<1>5. CASE ~IsLeaf(t, p)
  <2> DEFINE one == Append(p, 1)
             two == Append(p, 2)
  <2>1. 1 \in 1..2 /\ 2 \in 1..2
    OBVIOUS
  <2>2. p \in inner /\ Len(p) < Bits /\ Len(p) = i /\ Len(p) \in Nat
    <3>1. p \in inner
      BY <1>1, <1>3, <1>5, LeafIsOuter
    <3> QED
      BY <1>1, <1>2, <1>3, <1>5, <3>1, PositionIsSeq DEF InnerSet
  <2>3. /\ one \in Positions /\ two \in Positions /\ Len(one) = i + 1 /\ Len(two) = i + 1
        /\ one \in DOMAIN t /\ two \in DOMAIN t
    <3>1. one \in DOMAIN t /\ two \in DOMAIN t
      BY <1>1, <1>3, <2>1, <2>2, NodesArePositions
    <3> QED
      BY <1>3, <2>1, <2>2, <3>1, Kid
  <2>4. \A j \in 1..2 : t[Append(p, j)].known = TRUE
    <3>1. t[one].known = TRUE /\ t[two].known = TRUE
      BY <2>3 DEF Good, Fits
    <3> QED
      BY <3>1
  <2>5. /\ t[p].val = Sum(Through(c, p)) /\ t[one].val = Sum(Through(c, one))
        /\ t[two].val = Sum(Through(c, two))
    BY <1>2, <2>3, StakesOfNodes
  <2>6. /\ Through(c, p) = Through(c, one) \cup Through(c, two)
        /\ Through(c, one) \cap Through(c, two) = {}
        /\ LeftOf(c, one) = LeftOf(c, p)
        /\ LeftOf(c, two) = LeftOf(c, p) \cup Through(c, one)
        /\ LeftOf(c, p) \cap Through(c, p) = {}
    BY <1>3, <2>3, LeftOfKid
  <2>7. /\ Through(c, one) \in SUBSET U /\ Through(c, two) \in SUBSET U
        /\ LeftOf(c, p) \in SUBSET U
    BY DEF Through, LeftOf
  <2>8. LeftOf(c, p) \cap Through(c, one) = {}
    BY <2>6
  <2> HIDE DEF U, one, two
  <2>9. /\ Sum(Through(c, p)) = Sum(Through(c, one)) + Sum(Through(c, two))
        /\ Sum(LeftOf(c, two)) = Sum(LeftOf(c, p)) + Sum(Through(c, one))
        /\ Sum(Through(c, one)) \in Nat /\ Sum(Through(c, two)) \in Nat /\ Sum(LeftOf(c, p)) \in Nat
    BY <2>6, <2>7, <2>8, StakesAdd DEF U
  <2> DEFINE left == t[one].val
             right == t[two].val
             low == Sum(LeftOf(c, p))
  <2>10. /\ left \in Nat /\ right \in Nat /\ low \in Nat /\ t[p].val = left + right
         /\ Sum(LeftOf(c, one)) = low /\ Sum(LeftOf(c, two)) = low + left
         /\ q = low + r /\ r < left + right
    BY <1>2, <2>5, <2>6, <2>9
  <2>11. ~Stuck(t, p, r)
    BY <1>5, <2>4, <2>10, <1>2 DEF Stuck
  <2>12. NavigateStep(t, at) = IF r >= left THEN <<two, r - left>> ELSE <<one, r>>
    BY <2>11 DEF NavigateStep, Navigate, one, two, p, r
  <2> HIDE DEF left, right, low
  <2>13. CASE r >= left
    <3> DEFINE s == r - left
    <3>1. s \in Nat /\ q = (low + left) + s /\ s < right
      BY <1>2, <2>10, <2>13
    <3>2. NavigateStep(t, at) = <<two, s>>
      BY <2>12, <2>13
    <3> HIDE DEF s
    <3> QED
      BY <2>3, <2>10, <3>1, <3>2 DEF OnItsWay, right
  <2>14. CASE ~(r >= left)
    <3>1. r < left
      BY <1>2, <2>10, <2>14
    <3>2. NavigateStep(t, at) = <<one, r>>
      BY <2>12, <2>14
    <3> QED
      BY <1>2, <2>3, <2>10, <3>1, <3>2 DEF OnItsWay, left
  <2> QED
    BY <2>13, <2>14
<1> QED
  BY <1>4, <1>5

\* A query below the sum of all stakes finds the key in whose interval it is;
\* any other finds none.
LEMMA QueryFinds ==
    ASSUME NEW c \in Stored, NEW t, Good(t, c), SumFunctionOnSet(c, Present(c)) < Width,
           NEW q \in Nat
    PROVE  IF q >= SumFunctionOnSet(c, Present(c)) THEN NavigateAt(t, q) = None
           ELSE \E p \in DOMAIN t :
                   /\ IsLeaf(t, p) /\ NavigateAt(t, q) = t[p] /\ t[p].key \in Present(c)
                   /\ SumFunctionOnSet(c, LeftOf(c, p)) <= q
                   /\ q < SumFunctionOnSet(c, LeftOf(c, p)) + c[t[p].key]
<1> DEFINE inner == Inner(Present(c))
           U == Present(c)
           Sum(S) == SumFunctionOnSet(c, S)
           root == <<>>
           start == <<root, q>>
<1>1. InnerSet(inner) /\ Shape(t, inner, c) /\ DOMAIN t = NodesFor(inner)
  BY DEF Good, Shape
<1>2. PICK walk : /\ walk[0] = start
                  /\ \A i \in 1..Bits : walk[i] = NavigateStep(t, walk[i - 1])
                  /\ NavigateAt(t, q) = IF IsLeaf(t, walk[Bits][1]) /\ t[walk[Bits][1]].known
                                        THEN t[walk[Bits][1]] ELSE None
  BY NavigateIs
<1>3. Bits \in Nat \ {0}
  BY PathsDiffer
<1>4. /\ root \in DOMAIN t /\ ~IsLeaf(t, root) /\ root \in Positions /\ Len(root) = 0
      /\ t[root].val = Sum(U) /\ LeftOf(c, root) = {} /\ Sum({}) = 0
  <2>1. root \in inner
    BY <1>1 DEF InnerSet
  <2>2. root \in DOMAIN t /\ root \in Positions /\ Len(root) = 0
    BY <1>1, <2>1, NodesArePositions, RootIsPosition
  <2>3. ~IsLeaf(t, root)
    BY <1>1, <2>1, <2>2, LeafIsOuter
  <2>4. Through(c, root) = Present(c) /\ LeftOf(c, root) = {}
    BY LeftOfRoot
  <2> QED
    BY <2>2, <2>3, <2>4, StakesOfNodes, StakesAdd
<1> HIDE DEF inner, root
<1>5. CASE q >= Sum(U)
  <2>1. Stuck(t, root, q)
    BY <1>4, <1>5 DEF Stuck
  <2>2. NavigateStep(t, start) = start
    BY <2>1 DEF NavigateStep
  <2> DEFINE S == {i \in 0..Bits : walk[i] = start}
  <2>3. 0 \in S
    BY <1>2, <1>3
  <2>4. ASSUME NEW i \in 0..Bits, i < Bits, i \in S PROVE i + 1 \in S
    <3>1. i + 1 \in 1..Bits /\ (i + 1) - 1 = i
      BY <1>3, <2>4
    <3>2. walk[i + 1] = NavigateStep(t, walk[i])
      BY <1>2, <3>1
    <3> QED
      BY <2>2, <2>4, <3>1, <3>2
  <2>5. Bits \in S
    <3> HIDE DEF S
    <3>1. \A i \in 0..Bits : i \in S
      BY <1>3, <2>3, <2>4, UpTo
    <3> QED
      BY <1>3, <3>1
  <2>6. walk[Bits][1] = root
    BY <2>5
  <2> QED
    BY <1>2, <1>4, <1>5, <2>6
<1>6. CASE ~(q >= Sum(U))
  <2> DEFINE S == {i \in 0..Bits : OnItsWay(t, c, q, walk[i], i)}
             end == walk[Bits]
             p == end[1]
  <2>1. Sum(U) \in Nat
    BY StakesAdd
  <2>2. q < t[root].val /\ q = 0 + q
    BY <1>4, <1>6, <2>1
  <2>3. 0 \in S
    <3>1. walk[0][1] = root /\ walk[0][2] = q /\ walk[0] = <<walk[0][1], walk[0][2]>>
      BY <1>2
    <3>2. OnItsWay(t, c, q, walk[0], 0)
      BY <1>4, <2>2, <3>1 DEF OnItsWay
    <3> QED
      BY <1>3, <3>2
  <2>4. ASSUME NEW i \in 0..Bits, i < Bits, i \in S PROVE i + 1 \in S
    <3>1. i + 1 \in 1..Bits /\ (i + 1) - 1 = i /\ i \in Nat /\ i + 1 \in 0..Bits
      BY <1>3, <2>4
    <3>2. walk[i + 1] = NavigateStep(t, walk[i])
      BY <1>2, <3>1
    <3>3. OnItsWay(t, c, q, walk[i], i)
      BY <2>4
    <3>4. OnItsWay(t, c, q, NavigateStep(t, walk[i]), i + 1)
      BY <3>1, <3>3, GoesOn
    <3> QED
      BY <3>1, <3>2, <3>4
  <2>5. OnItsWay(t, c, q, end, Bits)
    <3>1. Bits \in S
      <4> HIDE DEF S
      <4>1. \A i \in 0..Bits : i \in S
        BY <1>3, <2>3, <2>4, UpTo
      <4> QED
        BY <1>3, <4>1
    <3> QED
      BY <3>1
  <2> HIDE DEF end
  <2>6. /\ p \in DOMAIN t /\ end[2] \in Nat /\ q = Sum(LeftOf(c, p)) + end[2]
        /\ end[2] < t[p].val /\ (Len(p) = Bits \/ IsLeaf(t, p))
    BY <2>5 DEF OnItsWay
  <2>7. IsLeaf(t, p) /\ p \in NodesFor(inner) \ inner
    <3>1. p \in NodesFor(inner) /\ p \in Positions
      BY <1>1, <2>6, NodesArePositions
    <3>2. IsLeaf(t, p) <=> p \notin inner
      BY <1>1, <3>1, LeafIsOuter
    <3>3. Len(p) = Bits => p \notin inner
      BY <1>1, <1>3 DEF InnerSet
    <3> QED
      BY <2>6, <3>1, <3>2, <3>3
  <2>8. /\ t[p].key = None => t[p].val = 0
        /\ t[p].key # None => t[p].key \in U /\ t[p].val = c[t[p].key]
    BY <1>1, <2>7, LeafHolds DEF U
  <2>9. t[p].key \in U /\ t[p].val = c[t[p].key] /\ c[t[p].key] \in Nat
    <3>1. t[p].key # None
      BY <2>6, <2>8
    <3> QED
      BY <2>8, <3>1, StakesAdd
  <2>10. t[p].known = TRUE
    BY <2>6 DEF Good, Fits
  <2>11. NavigateAt(t, q) = t[p]
    BY <1>2, <2>7, <2>10 DEF end
  <2>12. Sum(LeftOf(c, p)) \in Nat
    <3>1. LeftOf(c, p) \in SUBSET Present(c)
      BY DEF LeftOf
    <3> QED
      BY <3>1, StakesAdd
  <2>13. Sum(LeftOf(c, p)) <= q /\ q < Sum(LeftOf(c, p)) + c[t[p].key]
    <3> DEFINE low == Sum(LeftOf(c, p))
               high == c[t[p].key]
    <3>1. low \in Nat /\ high \in Nat /\ q = low + end[2] /\ end[2] \in Nat /\ end[2] < high
      BY <2>6, <2>9, <2>12
    <3> HIDE DEF low, high
    <3>2. low <= q /\ q < low + high
      BY <3>1
    <3> QED
      BY <3>2 DEF low, high
  <2> QED
    BY <1>6, <2>6, <2>7, <2>9, <2>11, <2>13
<1> QED
  BY <1>5, <1>6

-----------------------------------------------------------------------------
(* The order of the keys.                                                  *)

\* At equal positions equal bits lead to equal positions, and come from them.
LEMMA SameWay ==
    ASSUME NEW k \in Keys, NEW l \in Keys, NEW d \in 0..Bits, At(k, d) = At(l, d)
    PROVE  /\ \A e \in 0..d : At(k, e) = At(l, e)
           /\ \A e \in 1..d : Path[k][e] = Path[l][e]
<1>1. Bits \in Nat
  BY PathsDiffer
<1>2. ASSUME NEW e \in 0..d PROVE At(k, e) = At(l, e)
  <2>1. Prefix(At(k, d), e) = At(k, e) /\ Prefix(At(l, d), e) = At(l, e)
    BY AtIs
  <2> QED
    BY <2>1
<1>3. ASSUME NEW e \in 1..d PROVE Path[k][e] = Path[l][e]
  <2> DEFINE f == e - 1
  <2>1. f \in 0..Bits /\ f < Bits /\ f \in 0..d /\ e \in 0..d /\ f + 1 = e
    BY <1>1
  <2> HIDE DEF f
  <2>2. /\ Path[k][f + 1] \in 1..2 /\ At(k, f + 1) = Append(At(k, f), Path[k][f + 1])
        /\ Path[l][f + 1] \in 1..2 /\ At(l, f + 1) = Append(At(l, f), Path[l][f + 1])
        /\ At(k, f) \in Positions /\ At(l, f) \in Positions
    BY <2>1, AtIs
  <2>3. At(k, f + 1) = At(l, f + 1)
    BY <1>2, <2>1
  <2> QED
    BY <2>1, <2>2, <2>3, KidsDiffer
<1> QED
  BY <1>2, <1>3

\* The paths of k and l part at bit d, where k goes to the left.
Parts(k, l, d) == At(k, d - 1) = At(l, d - 1) /\ Path[k][d] < Path[l][d]

\* A key precedes another one if the two part somewhere.
LEMMA PrecedesIs ==
    ASSUME NEW k, NEW l
    PROVE  Precedes(k, l) <=> \E d \in 1..Bits : Parts(k, l, d)
BY DEF Precedes, Parts

\* The keys are in the order of their paths.
LEMMA KeysInOrder ==
    /\ \A k, l \in Keys : k # l => Precedes(k, l) \/ Precedes(l, k)
    /\ \A k \in Keys : ~Precedes(k, k)
    /\ \A k, l, m \in Keys : Precedes(k, l) /\ Precedes(l, m) => Precedes(k, m)
<1>1. Bits \in Nat
  BY PathsDiffer
<1>2. \A k \in Keys, d \in 1..Bits : Path[k][d] \in 1..2
  BY PathsDiffer
<1>3. ASSUME NEW k \in Keys, NEW l \in Keys, k # l, ~Precedes(k, l), ~Precedes(l, k)
      PROVE  FALSE
  <2> DEFINE S == {d \in 0..Bits : At(k, d) = At(l, d)}
  <2>1. 0 \in S
    BY <1>1, AtIs
  <2>2. ASSUME NEW d \in 0..Bits, d < Bits, d \in S PROVE d + 1 \in S
    <3> DEFINE e == d + 1
    <3>1. e \in 1..Bits /\ e \in 0..Bits /\ e - 1 = d
      BY <1>1, <2>2
    <3>2. ~Parts(k, l, e) /\ ~Parts(l, k, e)
      BY <1>3, <3>1, PrecedesIs
    <3>3. Path[k][e] \in 1..2 /\ Path[l][e] \in 1..2
      BY <1>2, <3>1
    <3>4. Path[k][e] = Path[l][e]
      BY <2>2, <3>1, <3>2, <3>3 DEF Parts
    <3>5. At(k, d + 1) = Append(At(k, d), Path[k][d + 1]) /\ At(l, d + 1) = Append(At(l, d), Path[l][d + 1])
      BY <2>2, AtIs
    <3> QED
      BY <2>2, <3>1, <3>4, <3>5
  <2>3. \A d \in 0..Bits : d \in S
    <3> HIDE DEF S
    <3> QED
      BY <1>1, <2>1, <2>2, UpTo
  <2>4. Bits \in 0..Bits
    BY <1>1
  <2>5. At(k, Bits) = At(l, Bits)
    BY <2>3, <2>4
  <2>6. At(k, Bits) \in Positions /\ Len(At(k, Bits)) = Bits /\ Len(At(l, Bits)) = Bits
    BY <2>4, AtIs
  <2>7. On(k, At(k, Bits)) /\ On(l, At(k, Bits))
    BY <2>5, <2>6 DEF On
  <2>8. Len(At(k, Bits)) < Bits
    BY <1>3, <2>6, <2>7, PathsPart
  <2> QED
    BY <1>1, <2>6, <2>8
<1>4. ASSUME NEW k \in Keys, Precedes(k, k) PROVE FALSE
  <2>1. PICK d \in 1..Bits : Path[k][d] < Path[k][d]
    BY <1>4 DEF Precedes
  <2>2. Path[k][d] \in 1..2
    BY <1>2
  <2> QED
    BY <2>1, <2>2
<1>5. ASSUME NEW k \in Keys, NEW l \in Keys, NEW m \in Keys, Precedes(k, l), Precedes(l, m)
      PROVE  Precedes(k, m)
  <2>1. PICK d \in 1..Bits : Parts(k, l, d)
    BY <1>5, PrecedesIs
  <2>2. PICK e \in 1..Bits : Parts(l, m, e)
    BY <1>5, PrecedesIs
  <2>3. d - 1 \in 0..Bits /\ e - 1 \in 0..Bits /\ d \in Nat /\ e \in Nat
    BY <1>1
  <2>4. /\ At(k, d - 1) = At(l, d - 1) /\ Path[k][d] < Path[l][d]
        /\ At(l, e - 1) = At(m, e - 1) /\ Path[l][e] < Path[m][e]
    BY <2>1, <2>2 DEF Parts
  <2>5. CASE d < e
    <3>1. d - 1 \in 0..(e - 1) /\ d \in 1..(e - 1)
      BY <2>3, <2>5
    <3>2. At(l, d - 1) = At(m, d - 1) /\ Path[l][d] = Path[m][d]
      BY <2>3, <2>4, <3>1, SameWay
    <3>3. Parts(k, m, d)
      BY <2>4, <3>2 DEF Parts
    <3> QED
      BY <3>3, PrecedesIs
  <2>6. CASE e < d
    <3>1. e - 1 \in 0..(d - 1) /\ e \in 1..(d - 1)
      BY <2>3, <2>6
    <3>2. At(k, e - 1) = At(l, e - 1) /\ Path[k][e] = Path[l][e]
      BY <2>3, <2>4, <3>1, SameWay
    <3>3. Parts(k, m, e)
      BY <2>4, <3>2 DEF Parts
    <3> QED
      BY <3>3, PrecedesIs
  <2>7. CASE d = e
    <3>1. Path[k][d] \in 1..2 /\ Path[l][d] \in 1..2 /\ Path[m][d] \in 1..2
      BY <1>2
    <3>2. Parts(k, m, d)
      BY <2>4, <2>7, <3>1 DEF Parts
    <3> QED
      BY <3>2, PrecedesIs
  <2> QED
    BY <2>3, <2>5, <2>6, <2>7
<1> QED
  BY <1>3, <1>4, <1>5

\* On the left of the leaf of a key are the keys before it.
LEMMA LeftOfLeaf ==
    ASSUME NEW c, NEW p \in Positions, NEW k \in Present(c), On(k, p),
           \A l \in Present(c) : On(l, p) => l = k
    PROVE  LeftOf(c, p) = {l \in Present(c) : Precedes(l, k)}
<1> DEFINE n == Len(p)
<1>1. n \in 0..Bits /\ Bits \in Nat /\ k \in Keys /\ p = At(k, n)
  BY PositionIsSeq, PathsDiffer DEF Present, On
<1>2. ASSUME NEW d \in 1..n
      PROVE  Prefix(p, d - 1) = At(k, d - 1) /\ p[d] = Path[k][d]
  <2> DEFINE e == d - 1
  <2>1. e \in 0..n /\ e < n /\ d \in 0..n /\ e \in 0..Bits /\ e < Bits /\ e + 1 = d
    BY <1>1
  <2> HIDE DEF e, n
  <2>2. Prefix(p, d) = At(k, d) /\ Prefix(p, e) = At(k, e)
    BY <1>1, <2>1, AtIs
  <2>3. Prefix(p, e + 1) = Append(Prefix(p, e), p[e + 1]) /\ p[e + 1] \in 1..2
    <3>1. e \in 0..Len(p) /\ e < Len(p)
      BY <2>1 DEF n
    <3> QED
      BY <3>1, PrefixOf
  <2>4. /\ At(k, e + 1) = Append(At(k, e), Path[k][e + 1]) /\ Path[k][e + 1] \in 1..2
        /\ At(k, e) \in Positions
    BY <1>1, <2>1, AtIs
  <2>5. p[e + 1] = Path[k][e + 1]
    BY <2>1, <2>2, <2>3, <2>4, KidsDiffer
  <2> QED
    BY <2>1, <2>2, <2>5 DEF e
<1>3. ASSUME NEW l \in Present(c), l \in LeftOf(c, p) PROVE Precedes(l, k)
  <2>1. PICK d \in 1..n : At(l, d - 1) = Prefix(p, d - 1) /\ Path[l][d] < p[d]
    BY <1>3 DEF LeftOf
  <2>2. Parts(l, k, d) /\ d \in 1..Bits
    BY <1>1, <1>2, <2>1 DEF Parts
  <2> QED
    BY <2>2, PrecedesIs
<1>4. ASSUME NEW l \in Present(c), Precedes(l, k) PROVE l \in LeftOf(c, p)
  <2>1. PICK d \in 1..Bits : Parts(l, k, d)
    BY <1>4, PrecedesIs
  <2>2. CASE d <= n
    <3>1. d \in 1..n
      BY <1>1, <2>2
    <3>2. At(l, d - 1) = Prefix(p, d - 1) /\ Path[l][d] < p[d]
      BY <1>2, <2>1, <3>1 DEF Parts
    <3> QED
      BY <3>1, <3>2 DEF LeftOf
  <2>3. CASE d > n
    <3>1. d - 1 \in 0..Bits /\ n \in 0..(d - 1) /\ l \in Keys
      BY <1>1, <2>3 DEF Present
    <3>2. At(l, n) = At(k, n)
      BY <1>1, <2>1, <3>1, SameWay DEF Parts
    <3>3. l = k
      BY <1>1, <3>2 DEF On
    <3> QED
      BY <1>1, <1>4, <3>3, KeysInOrder
  <2> QED
    BY <1>1, <2>2, <2>3
<1>5. LeftOf(c, p) \subseteq Present(c)
  BY DEF LeftOf
<1> QED
  BY <1>3, <1>4, <1>5

\* The stakes of the keys that precede k.
Before(c, k) == SumFunctionOnSet(c, {l \in Present(c) : Precedes(l, k)})

\* The intervals of two keys do not overlap.
LEMMA IntervalsApart ==
    ASSUME NEW c \in Stored, NEW k \in Present(c), NEW l \in Present(c), Precedes(k, l)
    PROVE  /\ Before(c, k) \in Nat /\ Before(c, l) \in Nat /\ c[k] \in Nat
           /\ Before(c, k) + c[k] <= Before(c, l)
<1> DEFINE U == Present(c)
           K == {m \in U : Precedes(m, k)}
           L == {m \in U : Precedes(m, l)}
           Sum(S) == SumFunctionOnSet(c, S)
<1>1. U \subseteq Keys
  BY DEF Present
<1>2. k \notin K /\ K \cup {k} \subseteq L
  BY <1>1, KeysInOrder
<1>3. K \in SUBSET U /\ L \in SUBSET U /\ {k} \in SUBSET U /\ K \cap {k} = {} /\ K \cup {k} \in SUBSET U
  BY <1>2
<1>4. Before(c, k) = Sum(K) /\ Before(c, l) = Sum(L)
  BY DEF Before
<1> HIDE DEF K, L
<1>5. /\ Sum(K) \in Nat /\ Sum(L) \in Nat /\ Sum({k}) = c[k] /\ c[k] \in Nat
      /\ Sum(K \cup {k}) = Sum(K) + Sum({k}) /\ Sum(K \cup {k}) <= Sum(L)
  BY <1>2, <1>3, StakesAdd
<1> HIDE DEF Sum
<1> QED
  BY <1>4, <1>5

\* Outside a transaction, and unless the stakes wrap, navigation by stake finds
\* each key for as many queries as it has stake (collection.go, Navigate;
\* Stake64.Navigate in field.go).
THEOREM StakesAreFair == Spec => []NavigatesByStake
<1>1. CollectionInv => NavigatesByStake
  <2> DEFINE c == Contents
             U == Present(c)
             total == SumFunctionOnSet(c, U)
             present == {k \in Keys : Get(k) # None}
             Below(k) == SumFunctionOnSet(c, {l \in present : Precedes(l, k)})
  <2> SUFFICES ASSUME CollectionInv, ~ongoing, SumFunctionOnSet(Contents, present) < Width,
                      NEW q \in 0..(Width - 1)
               PROVE  IF q >= SumFunctionOnSet(Contents, present) THEN NavigateAt(tree, q) = None
                      ELSE \A k \in present :
                        NavigateAt(tree, q).key = k <=> q \in Below(k)..(Below(k) + Get(k) - 1)
    BY DEF NavigatesByStake
  <2>1. c \in Stored /\ Good(tree, c)
    BY GoodMid DEF CollectionInv, Has
  <2>2. present = U /\ \A k \in U : k \in Keys /\ Get(k) = c[k]
    BY DEF Contents, Present
  <2>3. q \in Nat /\ Width \in Nat
    BY StakesFit
  <2>4. \A k \in U : Below(k) = Before(c, k)
    BY <2>2 DEF Before
  <2>5. total < Width /\ (q >= SumFunctionOnSet(Contents, present) <=> q >= total)
    BY <2>2
  <2> HIDE DEF c, U, present, Below
  <2>6. IF q >= total THEN NavigateAt(tree, q) = None
        ELSE \E p \in DOMAIN tree :
                /\ IsLeaf(tree, p) /\ NavigateAt(tree, q) = tree[p] /\ tree[p].key \in U
                /\ SumFunctionOnSet(c, LeftOf(c, p)) <= q
                /\ q < SumFunctionOnSet(c, LeftOf(c, p)) + c[tree[p].key]
    BY <2>1, <2>3, <2>5, QueryFinds DEF U
  <2>7. CASE q >= total
    BY <2>5, <2>6, <2>7
  <2>8. CASE ~(q >= total)
    <3>1. PICK p \in DOMAIN tree :
                /\ IsLeaf(tree, p) /\ NavigateAt(tree, q) = tree[p] /\ tree[p].key \in U
                /\ SumFunctionOnSet(c, LeftOf(c, p)) <= q
                /\ q < SumFunctionOnSet(c, LeftOf(c, p)) + c[tree[p].key]
      BY <2>6, <2>8
    <3> DEFINE found == tree[p].key
               inner == Inner(Present(c))
    <3>2. /\ p \in Positions /\ On(found, p) /\ \A l \in U : On(l, p) => l = found
      <4>1. InnerSet(inner) /\ Shape(tree, inner, c) /\ DOMAIN tree = NodesFor(inner)
        BY <2>1 DEF Good, Shape
      <4> HIDE DEF inner
      <4>2. p \in Positions /\ p \in NodesFor(inner) \ inner
        BY <3>1, <4>1, NodesArePositions, LeafIsOuter
      <4>3. tree[p].key # None
        BY <3>1, <2>2, NoneIsNoKey
      <4> QED
        BY <4>1, <4>2, <4>3, LeafHolds DEF U
    <3>3. LeftOf(c, p) = {l \in Present(c) : Precedes(l, found)}
      <4> HIDE DEF found
      <4> QED
        BY <3>1, <3>2, LeftOfLeaf DEF U, found
    <3> HIDE DEF found
    <3>4. found \in U /\ Before(c, found) <= q /\ q < Before(c, found) + c[found]
      BY <3>1, <3>3 DEF Before, found
    <3>5. NavigateAt(tree, q).key = found
      BY <3>1 DEF found
    <3> SUFFICES ASSUME NEW k \in U
                 PROVE  found = k <=> q \in Before(c, k)..(Before(c, k) + c[k] - 1)
      BY <2>2, <2>4, <2>5, <2>8, <3>5
    <3>6. Before(c, k) \in Nat /\ c[k] \in Nat /\ Before(c, found) \in Nat /\ c[found] \in Nat
      <4>1. \A m \in U : Before(c, m) \in Nat /\ c[m] \in Nat
        <5>1. \A m \in U : {l \in Present(c) : Precedes(l, m)} \in SUBSET Present(c)
          OBVIOUS
        <5> QED
          BY <2>1, <5>1, StakesAdd DEF Before, U
      <4> QED
        BY <3>4, <4>1
    <3>7. CASE found = k
      BY <2>3, <3>4, <3>6, <3>7
    <3>8. CASE found # k
      <4>1. Precedes(found, k) \/ Precedes(k, found)
        BY <2>2, <3>4, <3>8, KeysInOrder
      <4>2. CASE Precedes(found, k)
        <5>1. Before(c, found) + c[found] <= Before(c, k)
          BY <2>1, <3>4, <4>2, IntervalsApart DEF U
        <5> QED
          BY <2>3, <3>4, <3>6, <3>8, <5>1
      <4>3. CASE Precedes(k, found)
        <5>1. Before(c, k) + c[k] <= Before(c, found)
          BY <2>1, <3>4, <4>3, IntervalsApart DEF U
        <5> QED
          BY <2>3, <3>4, <3>6, <3>8, <5>1
      <4> QED
        BY <4>1, <4>2, <4>3
    <3> QED
      BY <3>7, <3>8
  <2> QED
    BY <2>7, <2>8
<1> QED
  BY <1>1, CollectionIsKept, PTL
=============================================================================
