--------------------------- MODULE VerifierProofs ---------------------------
(***************************************************************************)
(* A collection that knows a part of its tree, and the full collection it  *)
(* follows.  The tree of the verifier is at each time cut from a tree that *)
(* the full collection could have: with the same nodes where nodes are     *)
(* known, and the same labels and marks where they are not.  Each section  *)
(* shows for an operator of Collection that it makes of a tree and of one  *)
(* that is cut from it two such trees.                                     *)
(***************************************************************************)
EXTENDS CollectionVerifier, CollectionProofs

-----------------------------------------------------------------------------
(* Trees that are cut from another.                                        *)

Full(f, inner) ==
    /\ InnerSet(inner) /\ DOMAIN f = NodesFor(inner)
    /\ \A q \in DOMAIN f : IsNode(f[q]) /\ f[q].known = TRUE

IsKnown(t, p) == p \in DOMAIN t /\ t[p].known = TRUE

\* m is what is left of n when it is forgotten.
Forgotten(m, n) ==
    /\ IsNode(m) /\ m.known = FALSE /\ m.key = None /\ m.val = 0 /\ m.array = None
    /\ m.label = n.label /\ m.inc = n.inc /\ m.bak = n.bak

\* At p the trees have the same node, or t has what is left of that of f.
CutAt(t, f, p) ==
    \/ /\ t[p].known = TRUE /\ t[p] = f[p]
       /\ \A i \in 1..2 : Append(p, i) \in DOMAIN f => Append(p, i) \in DOMAIN t
    \/ Forgotten(t[p], f[p])

Cut(t, f) ==
    /\ DOMAIN t \subseteq DOMAIN f /\ <<>> \in DOMAIN t
    /\ \A p \in Positions, i \in 1..2 : Append(p, i) \in DOMAIN t => IsKnown(t, p)
    /\ \A p \in DOMAIN t : CutAt(t, f, p)

\* What t does not know has no marks and needs no update; nor has a node any below it
\* with a child that t does not know.
Rests(t, f) ==
    /\ \A q \in DOMAIN f : ~IsKnown(t, q) => Quiet(f, q) /\ f[q].bak = NoTree
    /\ \A q \in DOMAIN f : q \notin DOMAIN t => f[q].inc = FALSE
    /\ \A p \in Positions, i \in 1..2 :
          Append(p, i) \in DOMAIN t /\ ~IsKnown(t, Append(p, i)) =>
              \A q \in DOMAIN f : Under(p, q) => Quiet(f, q)

\* All nodes that a walk for k meets are known.
Sees(t, k) ==
    /\ t[<<>>].known = TRUE
    /\ \A q \in Positions, i \in 1..2 :
          On(k, q) /\ Append(q, i) \in DOMAIN t => t[Append(q, i)].known = TRUE

\* m is n, but for being known.
WithKnown(m, n, x) ==
    /\ IsNode(m) /\ m.known = x /\ m.key = n.key /\ m.val = n.val /\ m.array = n.array
    /\ m.label = n.label /\ m.inc = n.inc /\ m.bak = n.bak

\* A node that is known, or not.
LEMMA KnownIs ==
    ASSUME NEW n, IsNode(n), NEW x
    PROVE  WithKnown([n EXCEPT !.known = x], n, x)
  BY DEF IsNode, WithKnown

\* What Forget leaves of a node.
LEMMA ForgetIs ==
    ASSUME NEW n, IsNode(n)
    PROVE  Forgotten(Forget(n), n)
<1> DEFINE a == [n EXCEPT !.known = FALSE]
           b == [a EXCEPT !.key = None]
           c == [b EXCEPT !.val = 0]
           d == [c EXCEPT !.array = None]
<1>1. WithKnown(a, n, FALSE)
  BY KnownIs
<1>2. Forget(n) = d
  BY DEF Forget
<1> HIDE DEF a
<1>3. IsNode(a)
  BY <1>1 DEF WithKnown
<1>4. Like(b, a, None, a.val, a.array, a.label, a.inc, a.bak)
  BY <1>3, WithIs
<1> HIDE DEF b
<1>5. IsNode(b)
  BY <1>4 DEF Like
<1>6. Like(c, b, b.key, 0, b.array, b.label, b.inc, b.bak)
  BY <1>5, WithIs
<1> HIDE DEF c
<1>7. IsNode(c)
  BY <1>6 DEF Like
<1>8. Like(d, c, c.key, c.val, None, c.label, c.inc, c.bak)
  BY <1>7, WithIs
<1> HIDE DEF d
<1> QED
  BY <1>1, <1>2, <1>4, <1>6, <1>8 DEF Like, WithKnown, Forgotten

\* A node of a tree that is cut from another.
LEMMA CutNode ==
    ASSUME NEW t, NEW f, NEW inner, Full(f, inner), Cut(t, f), NEW p \in DOMAIN t
    PROVE  /\ p \in DOMAIN f /\ p \in Positions /\ IsNode(t[p]) /\ t[p].known \in BOOLEAN
           /\ t[p].label = f[p].label /\ t[p].inc = f[p].inc /\ t[p].bak = f[p].bak
           /\ t[p].known = TRUE => t[p] = f[p] /\ (IsLeaf(t, p) <=> IsLeaf(f, p))
           /\ t[p].known = TRUE =>
                 \A i \in 1..2 : Append(p, i) \in DOMAIN t <=> Append(p, i) \in DOMAIN f
           /\ t[p].known = FALSE =>
                 /\ Forgotten(t[p], f[p]) /\ IsLeaf(t, p)
                 /\ t[p].key = None /\ t[p].val = 0 /\ t[p].array = None
                 /\ \A i \in 1..2 : Append(p, i) \notin DOMAIN t
<1>1. p \in DOMAIN f /\ p \in Positions /\ IsNode(f[p]) /\ f[p].known = TRUE
  BY NodesArePositions DEF Cut, Full
<1>2. CutAt(t, f, p) /\ DOMAIN t \subseteq DOMAIN f
  BY DEF Cut
<1>3. \A i \in 1..2 : Append(p, i) \in DOMAIN t => t[p].known = TRUE
  BY <1>1 DEF Cut, IsKnown
<1>4. CASE Forgotten(t[p], f[p])
  <2>1. /\ IsNode(t[p]) /\ t[p].known = FALSE /\ t[p].key = None /\ t[p].val = 0
        /\ t[p].array = None /\ t[p].label = f[p].label /\ t[p].inc = f[p].inc
        /\ t[p].bak = f[p].bak
    BY <1>4 DEF Forgotten
  <2>2. \A i \in 1..2 : Append(p, i) \notin DOMAIN t
    BY <1>3, <2>1
  <2>3. IsLeaf(t, p)
    BY <2>2 DEF IsLeaf
  <2> QED
    BY <1>1, <1>4, <2>1, <2>2, <2>3
<1>5. CASE ~Forgotten(t[p], f[p])
  <2>1. /\ t[p].known = TRUE /\ t[p] = f[p]
        /\ \A i \in 1..2 : Append(p, i) \in DOMAIN t <=> Append(p, i) \in DOMAIN f
    BY <1>2, <1>5 DEF CutAt
  <2>2. IsLeaf(t, p) <=> IsLeaf(f, p)
    BY <2>1 DEF IsLeaf
  <2> QED
    BY <1>1, <2>1, <2>2
<1> QED
  BY <1>4, <1>5

\* A known node is the same in both trees.
LEMMA KnownNode ==
    ASSUME NEW t, NEW f, NEW inner, Full(f, inner), Cut(t, f), NEW p, IsKnown(t, p)
    PROVE  /\ p \in DOMAIN t /\ p \in DOMAIN f /\ p \in Positions /\ t[p] = f[p]
           /\ IsNode(t[p]) /\ t[p].known = TRUE
           /\ IsLeaf(t, p) <=> IsLeaf(f, p)
           /\ \A i \in 1..2 : Append(p, i) \in DOMAIN t <=> Append(p, i) \in DOMAIN f
<1>1. p \in DOMAIN t /\ t[p].known = TRUE
  BY DEF IsKnown
<1> QED
  BY <1>1, CutNode

\* The walk for k in both trees, if it meets known nodes only.
LEMMA SeesWalk ==
    ASSUME NEW t, NEW f, NEW inner, Full(f, inner), Cut(t, f), NEW k \in Keys, Sees(t, k)
    PROVE  /\ \A d \in 0..Depth(f, k) : IsKnown(t, At(k, d))
           /\ \A p \in inner : On(k, p) => /\ IsKnown(t, p)
                                           /\ \A i \in 1..2 : IsKnown(t, Append(p, i))
           /\ Depth(t, k) = Depth(f, k) /\ Leaf(t, k) = Leaf(f, k)
           /\ IsKnown(t, Leaf(f, k)) /\ t[Leaf(f, k)] = f[Leaf(f, k)] /\ IsLeaf(t, Leaf(f, k))
           /\ Lookup(t, k) = Lookup(f, k)
           /\ Reaches(t, k)
<1> DEFINE D == Depth(f, k)
           S == {d \in 0..D : IsKnown(t, At(k, d))}
<1>1. /\ D \in 1..Bits /\ \A d \in 0..Bits : At(k, d) \in inner <=> d < D
      /\ DOMAIN f = NodesFor(inner) /\ InnerSet(inner) /\ Bits \in Nat
  BY WalkEnds, PathsDiffer DEF Full
<1>2. 0 \in S
  <2>1. 0 \in 0..Bits /\ 0 \in 0..D
    BY <1>1
  <2>2. At(k, 0) = <<>>
    BY <2>1, AtIs
  <2> QED
    BY <2>1, <2>2 DEF Sees, Cut, IsKnown
<1>3. ASSUME NEW d \in 0..D, d < D, d \in S PROVE d + 1 \in S
  <2> DEFINE i == Path[k][d + 1]
  <2>1. d \in 0..Bits /\ d < Bits /\ d + 1 \in 0..D
    BY <1>1, <1>3
  <2>2. At(k, d) \in Positions /\ i \in 1..2 /\ At(k, d + 1) = Append(At(k, d), i) /\ Len(At(k, d)) = d
    BY <2>1, AtIs
  <2>3. On(k, At(k, d))
    BY <2>2 DEF On
  <2>4. At(k, d) \in inner /\ Append(At(k, d), i) \in DOMAIN f
    BY <1>1, <1>3, <2>1, <2>2, NodesArePositions
  <2>5. At(k, d) \in DOMAIN t /\ t[At(k, d)].known = TRUE
    BY <1>3 DEF IsKnown
  <2>6. Append(At(k, d), i) \in DOMAIN t
    <3> DEFINE p == At(k, d)
    <3>1. p \in DOMAIN t /\ t[p].known = TRUE /\ i \in 1..2 /\ Append(p, i) \in DOMAIN f
      BY <2>2, <2>4, <2>5
    <3> HIDE DEF p, i
    <3>2. Append(p, i) \in DOMAIN t
      BY <3>1, CutNode
    <3> QED
      BY <3>2 DEF p
  <2>7. t[Append(At(k, d), i)].known = TRUE
    BY <2>2, <2>3, <2>6 DEF Sees
  <2> QED
    BY <2>1, <2>2, <2>6, <2>7 DEF IsKnown
<1>4. \A d \in 0..D : d \in S
  <2> HIDE DEF S
  <2>1. D \in Nat
    BY <1>1
  <2> HIDE DEF D
  <2> QED
    BY <1>2, <1>3, <2>1, UpTo
<1>5. ASSUME NEW p \in inner, On(k, p)
      PROVE  IsKnown(t, p) /\ \A i \in 1..2 : IsKnown(t, Append(p, i))
  <2>1. p \in Positions /\ Len(p) \in 0..Bits /\ p = At(k, Len(p))
    BY <1>1, <1>5, PositionIsSeq DEF InnerSet, On
  <2>2. IsKnown(t, p)
    BY <1>1, <1>4, <2>1
  <2>3. ASSUME NEW i \in 1..2 PROVE IsKnown(t, Append(p, i))
    <3>1. Append(p, i) \in DOMAIN f
      BY <1>1, <2>1, NodesArePositions
    <3>2. Append(p, i) \in DOMAIN t
      BY <2>2, <3>1, CutNode DEF IsKnown
    <3> QED
      BY <1>5, <2>1, <3>2 DEF Sees, IsKnown
  <2> QED
    BY <2>2, <2>3
<1>6. /\ Leaf(f, k) = At(k, D) /\ IsKnown(t, At(k, D)) /\ t[At(k, D)] = f[At(k, D)]
      /\ IsLeaf(t, At(k, D)) /\ IsLeaf(f, At(k, D))
  <2>1. Leaf(f, k) = At(k, D)
    BY DEF Leaf
  <2>2. At(k, D) \in Positions /\ At(k, D) \notin inner
    BY <1>1, AtIs
  <2>3. IsLeaf(f, At(k, D))
    BY <1>1, <2>2, LeafIsOuter
  <2>4. IsKnown(t, At(k, D))
    BY <1>1, <1>4
  <2> QED
    BY <2>1, <2>3, <2>4, CutNode DEF IsKnown
<1>7. ASSUME NEW d \in 0..Bits, At(k, d) \in DOMAIN t, IsLeaf(t, At(k, d)) PROVE d = D
  <2>1. CASE d < D
    <3>1. At(k, d) \in inner
      BY <1>1, <2>1
    <3>2. IsKnown(t, At(k, d)) /\ ~IsLeaf(f, At(k, d))
      <4>1. d \in 0..D /\ At(k, d) \in Positions
        BY <1>1, <2>1, AtIs
      <4> QED
        BY <1>1, <1>4, <3>1, <4>1, LeafIsOuter
    <3> QED
      BY <1>7, <3>2, CutNode DEF IsKnown
  <2>2. CASE d > D
    <3>1. At(k, d) \in NodesFor(inner) /\ At(k, D) \in NodesFor(inner) \ inner
      BY <1>1, <1>7, <1>6, WalkEnds DEF Cut
    <3>2. At(k, D) \in Positions /\ At(k, d) \in Positions /\ Len(At(k, D)) = D /\ Len(At(k, d)) = d
          /\ Prefix(At(k, d), D) = At(k, D)
      BY <1>1, <2>2, AtIs
    <3>3. Above(At(k, D), At(k, d))
      BY <1>1, <2>2, <3>2 DEF Above, Under
    <3> QED
      BY <1>1, <3>1, <3>3, LeafEnds
  <2> QED
    BY <1>1, <2>1, <2>2
<1>8. Depth(t, k) = D
  <2> DEFINE E == {d \in 0..Bits : At(k, d) \in DOMAIN t /\ IsLeaf(t, At(k, d))}
  <2>1. Depth(t, k) = CHOOSE d \in 0..Bits : At(k, d) \in DOMAIN t /\ IsLeaf(t, At(k, d))
    BY DEF Depth
  <2>2. D \in 0..Bits /\ At(k, D) \in DOMAIN t /\ IsLeaf(t, At(k, D))
    BY <1>1, <1>6 DEF IsKnown
  <2> HIDE DEF D
  <2> QED
    BY <1>7, <2>1, <2>2
<1>9. Leaf(t, k) = Leaf(f, k)
  BY <1>8 DEF Leaf
<1>10. Lookup(t, k) = Lookup(f, k)
  BY <1>6, <1>9 DEF Lookup
<1>11. Reaches(t, k)
  <2>1. ASSUME NEW d \in 1..D, NEW i \in 1..2 PROVE t[Append(At(k, d - 1), i)].known
    <3>1. At(k, d - 1) \in inner /\ At(k, d - 1) \in Positions /\ Len(At(k, d - 1)) = d - 1
      BY <1>1, AtIs
    <3>2. On(k, At(k, d - 1))
      BY <3>1 DEF On
    <3> QED
      BY <1>5, <3>1, <3>2 DEF IsKnown
  <2>2. t[<<>>].known
    BY DEF Sees
  <2> QED
    BY <1>8, <2>1, <2>2 DEF Reaches
<1> QED
  BY <1>4, <1>5, <1>6, <1>8, <1>9, <1>10, <1>11

-----------------------------------------------------------------------------
(* A change of both trees in a region, where t knows all that there is.    *)

Elsewhere(s, t, R) ==
    \A q \in Positions \ R : /\ q \in DOMAIN s <=> q \in DOMAIN t
                             /\ q \in DOMAIN t => s[q] = t[q]

\* In R the trees are the same; what is below R is known.
AlikeIn(s, g, R) ==
    /\ \A q \in R : q \in DOMAIN s <=> q \in DOMAIN g
    /\ \A q \in R : q \in DOMAIN s => s[q] = g[q] /\ s[q].known = TRUE
    /\ \A q \in R : q \in DOMAIN s =>
          \A i \in 1..2 : /\ Append(q, i) \in DOMAIN s => IsKnown(s, Append(q, i))
                          /\ Append(q, i) \in DOMAIN g => Append(q, i) \in DOMAIN s

\* R hangs on nodes of t, and t knows all that is next to the way to R.
Reached(t, s, R) ==
    /\ \A p \in Positions \ R, i \in 1..2 :
          Append(p, i) \in R /\ Append(p, i) \in DOMAIN s => Append(p, i) \in DOMAIN t
    /\ \A r \in R, p \in Positions \ R, i \in 1..2 :
          Above(p, r) /\ Append(p, i) \in DOMAIN t => IsKnown(t, Append(p, i))

SeesAsMuch(s, t) == \A l \in Keys : Sees(t, l) => Sees(s, l)

\* A change in R alone, of both trees, leaves one that is cut from the other.
LEMMA RegionCut ==
    ASSUME NEW t, NEW f, NEW inner, Full(f, inner), Cut(t, f), Rests(t, f),
           NEW s, NEW g, NEW outer, Full(g, outer), NEW R, R \subseteq Positions,
           DOMAIN s \subseteq Positions,
           Elsewhere(s, t, R), Elsewhere(g, f, R), AlikeIn(s, g, R), Reached(t, s, R)
    PROVE  Cut(s, g) /\ Rests(s, g) /\ SeesAsMuch(s, t)
<1>1. /\ DOMAIN f \subseteq Positions /\ DOMAIN g \subseteq Positions /\ DOMAIN t \subseteq DOMAIN f
      /\ DOMAIN g = NodesFor(outer) /\ InnerSet(outer)
  BY NodesArePositions DEF Full, Cut
<1>2. DOMAIN s \subseteq DOMAIN g
  BY <1>1 DEF Elsewhere, AlikeIn
<1>3. <<>> \in DOMAIN s
  <2>1. <<>> \in DOMAIN t /\ <<>> \in Positions
    BY RootIsPosition DEF Cut
  <2>2. <<>> \in DOMAIN g
    BY <1>1, NodesArePositions DEF InnerSet
  <2> QED
    BY <2>1, <2>2 DEF Elsewhere, AlikeIn
<1>4. ASSUME NEW p \in Positions, NEW i \in 1..2, Append(p, i) \in DOMAIN s PROVE IsKnown(s, p)
  <2>1. Append(p, i) \in Positions /\ Append(p, i) \in DOMAIN g /\ p \in DOMAIN g
    BY <1>1, <1>2, <1>4, NodesArePositions
  <2>2. CASE p \in R
    BY <2>1, <2>2 DEF AlikeIn, IsKnown
  <2>3. CASE p \notin R
    <3>1. Append(p, i) \in DOMAIN t
      BY <1>4, <2>1, <2>3 DEF Reached, Elsewhere
    <3>2. IsKnown(t, p)
      BY <3>1 DEF Cut
    <3> QED
      BY <2>3, <3>2 DEF Elsewhere, IsKnown
  <2> QED
    BY <2>2, <2>3
<1>5. ASSUME NEW p \in DOMAIN s PROVE CutAt(s, g, p)
  <2>1. p \in Positions
    OBVIOUS
  <2>2. CASE p \in R
    BY <2>2 DEF AlikeIn, CutAt
  <2>3. CASE p \notin R
    <3>1. p \in DOMAIN t /\ s[p] = t[p] /\ g[p] = f[p]
      BY <1>1, <2>1, <2>3 DEF Elsewhere
    <3>2. CutAt(t, f, p)
      BY <3>1 DEF Cut
    <3>3. ASSUME NEW i \in 1..2, Append(p, i) \in DOMAIN f => Append(p, i) \in DOMAIN t,
                 Append(p, i) \in DOMAIN g
          PROVE  Append(p, i) \in DOMAIN s
      BY <1>1, <3>3 DEF Elsewhere, AlikeIn
    <3> QED
      BY <3>1, <3>2, <3>3 DEF CutAt
  <2> QED
    BY <2>2, <2>3
<1>6. Cut(s, g)
  BY <1>2, <1>3, <1>4, <1>5 DEF Cut
<1>7. ASSUME NEW q \in DOMAIN g, ~IsKnown(s, q)
      PROVE  q \notin R /\ q \in DOMAIN f /\ f[q] = g[q] /\ ~IsKnown(t, q)
  <2>1. q \notin R
    BY <1>7 DEF AlikeIn, IsKnown
  <2> QED
    BY <1>1, <1>7, <2>1 DEF Elsewhere, IsKnown
<1>8. ASSUME NEW q \in DOMAIN g, q \in DOMAIN f, q \notin R, Quiet(f, q),
             \A i \in 1..2 : Append(q, i) \in DOMAIN g => Append(q, i) \notin R
      PROVE  Quiet(g, q)
  <2>1. q \in Positions /\ g[q] = f[q]
    BY <1>1, <1>8 DEF Elsewhere
  <2>2. CASE IsLeaf(g, q)
    BY <2>2 DEF Quiet
  <2>3. CASE ~IsLeaf(g, q)
    <3>1. Append(q, 1) \in DOMAIN g /\ Append(q, 2) \in DOMAIN g
      <4>1. 1 \in 1..2 /\ 2 \in 1..2
        OBVIOUS
      <4> QED
        BY <1>1, <2>1, <2>3, <4>1, NodesArePositions DEF IsLeaf
    <3>2. Append(q, 1) \notin R /\ Append(q, 2) \notin R
      <4>1. 1 \in 1..2 /\ 2 \in 1..2
        OBVIOUS
      <4> QED
        BY <1>8, <3>1, <4>1
    <3>3. /\ Append(q, 1) \in DOMAIN f /\ g[Append(q, 1)] = f[Append(q, 1)]
          /\ g[Append(q, 2)] = f[Append(q, 2)]
      BY <1>1, <3>1, <3>2 DEF Elsewhere
    <3> QED
      BY <1>8, <2>1, <3>3 DEF Quiet, Settled, IsLeaf
  <2> QED
    BY <2>2, <2>3
<1>9. ASSUME NEW q \in DOMAIN g, ~IsKnown(s, q) PROVE Quiet(g, q) /\ g[q].bak = NoTree
  <2>1. q \notin R /\ q \in DOMAIN f /\ f[q] = g[q] /\ ~IsKnown(t, q) /\ q \in Positions
    BY <1>1, <1>7, <1>9
  <2>2. Quiet(f, q) /\ f[q].bak = NoTree
    BY <2>1 DEF Rests
  <2>3. ASSUME NEW i \in 1..2, Append(q, i) \in DOMAIN g PROVE Append(q, i) \notin R
    BY <1>4, <1>9, <2>1, <2>3 DEF AlikeIn
  <2> QED
    BY <1>8, <2>1, <2>2, <2>3
<1>10. ASSUME NEW q \in DOMAIN g, q \notin DOMAIN s PROVE g[q].inc = FALSE
  <2>1. ~IsKnown(s, q)
    BY <1>10 DEF IsKnown
  <2>2. q \notin R /\ q \in DOMAIN f /\ f[q] = g[q] /\ q \in Positions
    BY <1>1, <1>7, <2>1
  <2>3. q \notin DOMAIN t
    BY <1>10, <2>2 DEF Elsewhere
  <2> QED
    BY <2>2, <2>3 DEF Rests
<1>11. ASSUME NEW p \in Positions, NEW i \in 1..2, Append(p, i) \in DOMAIN s,
              ~IsKnown(s, Append(p, i)), NEW q \in DOMAIN g, Under(p, q)
       PROVE  Quiet(g, q)
  <2>1. Append(p, i) \notin R /\ Append(p, i) \in DOMAIN t /\ ~IsKnown(t, Append(p, i))
    <3>1. Append(p, i) \in DOMAIN g
      BY <1>2, <1>11
    <3>2. Append(p, i) \notin R /\ ~IsKnown(t, Append(p, i))
      BY <1>7, <1>11, <3>1
    <3> QED
      BY <1>11, <3>2 DEF Elsewhere
  <2>2. p \notin R
    <3>1. p \in DOMAIN s
      BY <1>4, <1>11 DEF IsKnown
    <3>2. p \in R => \A j \in 1..2 : Append(p, j) \in DOMAIN s => IsKnown(s, Append(p, j))
      BY <3>1 DEF AlikeIn
    <3> QED
      BY <1>11, <3>2
  <2>3. \A r \in R : ~Above(p, r)
    BY <2>1, <2>2 DEF Reached
  <2>4. q \in Positions /\ q \notin R
    BY <1>1, <1>11, <2>2, <2>3 DEF Above
  <2>5. q \in DOMAIN f /\ Quiet(f, q)
    <3>1. q \in DOMAIN f
      BY <1>11, <2>4 DEF Elsewhere
    <3>2. \A r \in DOMAIN f : Under(p, r) => Quiet(f, r)
      BY <2>1 DEF Rests
    <3> QED
      BY <1>11, <3>1, <3>2
  <2>6. ASSUME NEW j \in 1..2, Append(q, j) \in DOMAIN g PROVE Append(q, j) \notin R
    <3>1. Append(q, j) \in Positions
      BY <1>1, <2>6
    <3>2. Above(q, Append(q, j))
      BY <2>4, <3>1, KidUnder
    <3>3. Above(p, Append(q, j))
      BY <1>11, <2>4, <3>1, <3>2, UnderOrder
    <3> QED
      BY <2>3, <3>3
  <2> QED
    BY <1>8, <2>4, <2>5, <2>6
<1>12. Rests(s, g)
  BY <1>9, <1>10, <1>11 DEF Rests
<1>13. ASSUME NEW l \in Keys, Sees(t, l) PROVE Sees(s, l)
  <2>1. s[<<>>].known = TRUE
    BY <1>3, <1>13, RootIsPosition DEF Sees, Elsewhere, AlikeIn
  <2>2. ASSUME NEW q \in Positions, NEW i \in 1..2, On(l, q), Append(q, i) \in DOMAIN s
        PROVE  s[Append(q, i)].known = TRUE
    BY <1>13, <2>2 DEF Sees, Elsewhere, AlikeIn
  <2> QED
    BY <2>1, <2>2 DEF Sees
<1> QED
  BY <1>6, <1>12, <1>13 DEF SeesAsMuch

-----------------------------------------------------------------------------
(* The steps of the manipulators.                                          *)

\* Both trees have the same at x and below it.
Same(t, f, x) ==
    \A q \in Positions : Under(x, q) => /\ q \in DOMAIN t <=> q \in DOMAIN f
                                        /\ q \in DOMAIN t => t[q] = f[q]

\* The backups that are made of equal subtrees are equal.
LEMMA SameBackup ==
    ASSUME NEW t, NEW f, DOMAIN t \subseteq Positions, DOMAIN f \subseteq Positions,
           NEW x \in DOMAIN t, Same(t, f, x), NEW tx
    PROVE  Backup(t, x, tx) = Backup(f, x, tx)
<1>1. Under(x, x) /\ x \in Positions
  BY UnderIs
<1>2. t[x] = f[x]
  BY <1>1 DEF Same
<1>3. Subtree(t, x) = Subtree(f, x)
  <2>1. {q \in DOMAIN t : Under(x, q)} = {q \in DOMAIN f : Under(x, q)}
    BY DEF Same
  <2>2. \A q \in {q \in DOMAIN t : Under(x, q)} : t[q] = f[q]
    BY DEF Same
  <2> QED
    BY <2>1, <2>2 DEF Subtree
<1> QED
  BY <1>2, <1>3 DEF Backup

\* What is next to the path of k is known, if a walk for k meets known nodes only.
LEMMA WayIsKnown ==
    ASSUME NEW t, NEW k \in Keys, Sees(t, k), NEW x \in Positions, On(k, x),
           NEW p \in Positions, Under(p, x), NEW i \in 1..2, Append(p, i) \in DOMAIN t
    PROVE  IsKnown(t, Append(p, i))
<1>1. On(k, p)
  BY OnUnder
<1> QED
  BY <1>1 DEF Sees, IsKnown

\* A change of one node on the path of k.
LEMMA NodeCut ==
    ASSUME NEW t, NEW f, NEW inner, Full(f, inner), Cut(t, f), Rests(t, f),
           NEW k \in Keys, Sees(t, k), NEW x \in Positions, On(k, x), IsKnown(t, x),
           NEW s, NEW g, NEW outer, Full(g, outer),
           DiffersAt(s, t, x), DiffersAt(g, f, x), s[x] = g[x]
    PROVE  Cut(s, g) /\ Rests(s, g) /\ SeesAsMuch(s, t)
<1> DEFINE R == {x}
<1>1. /\ x \in DOMAIN t /\ x \in DOMAIN f /\ x \in DOMAIN s /\ x \in DOMAIN g
      /\ DOMAIN s = DOMAIN t /\ DOMAIN g = DOMAIN f /\ DOMAIN t \subseteq Positions
  BY CutNode DEF Cut, DiffersAt, IsKnown
<1>2. \A i \in 1..2 : Append(x, i) # x
  BY Kid
<1>3. Elsewhere(s, t, R) /\ Elsewhere(g, f, R)
  BY <1>1 DEF DiffersAt, Elsewhere
<1>4. AlikeIn(s, g, R)
  <2>1. s[x].known = TRUE
    BY <1>1 DEF Full
  <2>2. ASSUME NEW i \in 1..2, Append(x, i) \in DOMAIN s PROVE IsKnown(s, Append(x, i))
    <3>1. Under(x, x)
      BY UnderIs
    <3>2. IsKnown(t, Append(x, i))
      BY <1>1, <2>2, <3>1, WayIsKnown
    <3>3. s[Append(x, i)] = t[Append(x, i)]
      BY <1>1, <1>2, <2>2 DEF DiffersAt
    <3> QED
      BY <1>1, <3>2, <3>3 DEF IsKnown
  <2>3. ASSUME NEW i \in 1..2, Append(x, i) \in DOMAIN g PROVE Append(x, i) \in DOMAIN s
    BY <1>1, <2>3, CutNode DEF IsKnown
  <2> QED
    BY <1>1, <2>1, <2>2, <2>3 DEF AlikeIn
<1>5. Reached(t, s, R)
  BY <1>1, WayIsKnown DEF Reached, Above
<1>6. R \subseteq Positions
  OBVIOUS
<1> HIDE DEF R
<1> QED
  BY <1>1, <1>3, <1>4, <1>5, <1>6, RegionCut

\* What Mid says of a full tree.
LEMMA MidFull ==
    ASSUME NEW f, NEW inner, NEW contents, NEW k, NEW m, NEW tx, Mid(f, inner, contents, k, m, tx)
    PROVE  Full(f, inner) /\ DOMAIN f = NodesFor(inner) /\ DOMAIN f \subseteq Positions
BY MidTree DEF Full

\* The two trees at the leaf of k.
LEMMA LeafCut ==
    ASSUME NEW t, NEW f, NEW inner, Full(f, inner), Cut(t, f), NEW k \in Keys, Sees(t, k),
           NEW x, x = Leaf(f, k)
    PROVE  /\ x = Leaf(t, k) /\ x \in Positions /\ x # <<>> /\ x \in NodesFor(inner) \ inner
           /\ On(k, x) /\ IsKnown(t, x) /\ x \in DOMAIN t /\ x \in DOMAIN f
           /\ IsLeaf(t, x) /\ t[x] = f[x] /\ IsNode(t[x]) /\ Same(t, f, x)
           /\ \A i \in 1..2 : Append(x, i) \notin DOMAIN t /\ Append(x, i) \notin DOMAIN f
<1>1. InnerSet(inner) /\ DOMAIN f = NodesFor(inner)
  BY DEF Full
<1>2. x \in NodesFor(inner) \ inner /\ x \in Positions /\ x # <<>> /\ On(k, x)
  BY <1>1, WalkEnds
<1>3. /\ x = Leaf(t, k) /\ IsKnown(t, x) /\ IsLeaf(t, x) /\ t[x] = f[x] /\ x \in DOMAIN t
  BY SeesWalk DEF IsKnown
<1>4. IsNode(t[x])
  BY <1>3, CutNode
<1>5. \A q \in DOMAIN f : Under(x, q) => q = x
  BY <1>1, <1>2, LeafEnds, NodesArePositions DEF Above
<1>6. Same(t, f, x)
  BY <1>1, <1>2, <1>3, <1>5 DEF Same, Cut
<1>7. \A i \in 1..2 : Append(x, i) \notin DOMAIN t /\ Append(x, i) \notin DOMAIN f
  BY <1>1, <1>2, NodesArePositions DEF Cut
<1> QED
  BY <1>1, <1>2, <1>3, <1>4, <1>6, <1>7

\* The leaf of k is filled in both trees.
LEMMA FillCut ==
    ASSUME NEW t, NEW f, NEW inner, Full(f, inner), Cut(t, f), Rests(t, f),
           NEW k \in Keys, Sees(t, k), NEW x, x = Leaf(f, k), NEW key, NEW val, NEW tx,
           NEW s, s = Fill(t, x, key, val, tx), NEW g, g = Fill(f, x, key, val, tx),
           NEW outer, Full(g, outer)
    PROVE  Cut(s, g) /\ Rests(s, g) /\ SeesAsMuch(s, t)
<1>1. /\ x \in Positions /\ On(k, x) /\ IsKnown(t, x) /\ x \in DOMAIN t /\ x \in DOMAIN f
      /\ t[x] = f[x] /\ IsNode(t[x]) /\ Same(t, f, x)
  BY LeafCut
<1>2. DOMAIN t \subseteq Positions /\ DOMAIN f \subseteq Positions
  BY NodesArePositions DEF Full, Cut
<1>3. Backup(t, x, tx) = Backup(f, x, tx)
  BY <1>1, <1>2, SameBackup
<1>4. DiffersAt(s, t, x) /\ DiffersAt(g, f, x)
  BY <1>1, FillIs
<1>5. s[x] = g[x]
  BY <1>1, <1>3 DEF Fill
<1> QED
  BY <1>1, <1>4, <1>5, NodeCut

\* The leaf of k gets another value in both trees.
LEMMA AssignedCut ==
    ASSUME NEW t, NEW f, NEW inner, Full(f, inner), Cut(t, f), Rests(t, f),
           NEW k \in Keys, Sees(t, k), NEW x, x = Leaf(f, k), NEW v, NEW tx,
           NEW s, s = Assigned(t, x, k, v, tx), NEW g, g = Assigned(f, x, k, v, tx),
           NEW outer, Full(g, outer)
    PROVE  Cut(s, g) /\ Rests(s, g) /\ SeesAsMuch(s, t)
<1>1. /\ x \in Positions /\ On(k, x) /\ IsKnown(t, x) /\ x \in DOMAIN t /\ x \in DOMAIN f
      /\ t[x] = f[x] /\ IsNode(t[x]) /\ Same(t, f, x)
  BY LeafCut
<1>2. DOMAIN t \subseteq Positions /\ DOMAIN f \subseteq Positions
  BY NodesArePositions DEF Full, Cut
<1>3. Backup(t, x, tx) = Backup(f, x, tx)
  BY <1>1, <1>2, SameBackup
<1>4. DiffersAt(s, t, x) /\ DiffersAt(g, f, x)
  BY <1>1, AssignedIs
<1>5. s[x] = g[x]
  BY <1>1, <1>3 DEF Assigned
<1> QED
  BY <1>1, <1>4, <1>5, NodeCut

\* An ancestor of the leaf of k is marked, or updated, in both trees.
LEMMA AscendCut ==
    ASSUME NEW t, NEW f, NEW inner, Full(f, inner), Cut(t, f), Rests(t, f),
           NEW k \in Keys, Sees(t, k), NEW x \in inner, On(k, x), NEW tx,
           NEW s, s = Ascend(t, x, tx), NEW g, g = Ascend(f, x, tx),
           NEW outer, Full(g, outer)
    PROVE  Cut(s, g) /\ Rests(s, g) /\ SeesAsMuch(s, t)
<1>1. InnerSet(inner) /\ DOMAIN f = NodesFor(inner) /\ x \in Positions
  BY DEF Full, InnerSet
<1>2. IsKnown(t, x) /\ \A i \in 1..2 : IsKnown(t, Append(x, i))
  BY SeesWalk
<1>3. /\ x \in DOMAIN t /\ x \in DOMAIN f /\ t[x] = f[x] /\ (IsLeaf(t, x) <=> IsLeaf(f, x))
      /\ \A i \in 1..2 : t[Append(x, i)] = f[Append(x, i)]
  BY <1>2, KnownNode
<1>4. DiffersAt(s, t, x) /\ DiffersAt(g, f, x)
  BY <1>3 DEF Ascend, DiffersAt
<1>5. s[x] = g[x]
  <2>1. Update(t, x) = Update(f, x)
    <3>1. t[Append(x, 1)] = f[Append(x, 1)] /\ t[Append(x, 2)] = f[Append(x, 2)]
      BY <1>3
    <3> QED
      BY <1>3, <3>1 DEF Update
  <2> QED
    BY <1>3, <2>1 DEF Ascend
<1> QED
  BY <1>1, <1>2, <1>4, <1>5, NodeCut

\* A node and its two children.
Family(x) == {x, Append(x, 1), Append(x, 2)}

\* A change of a node on the path of k and of its children, which are leaves.
LEMMA FamilyCut ==
    ASSUME NEW t, NEW f, NEW inner, Full(f, inner), Cut(t, f), Rests(t, f),
           NEW k \in Keys, Sees(t, k), NEW x \in Positions, On(k, x), IsKnown(t, x),
           Family(x) \subseteq Positions,
           NEW s, NEW g, NEW outer, Full(g, outer), DOMAIN s \subseteq Positions, x \in DOMAIN s,
           Elsewhere(s, t, Family(x)), Elsewhere(g, f, Family(x)),
           \A q \in Family(x) : /\ q \in DOMAIN s <=> q \in DOMAIN g
                                /\ q \in DOMAIN s => s[q] = g[q],
           \A j \in 1..2, i \in 1..2 : /\ Append(Append(x, j), i) \notin DOMAIN t
                                       /\ Append(Append(x, j), i) \notin DOMAIN f
    PROVE  Cut(s, g) /\ Rests(s, g) /\ SeesAsMuch(s, t)
<1> DEFINE R == Family(x)
<1>1. /\ \A j \in 1..2 : Append(x, j) \in R /\ Append(x, j) \in Positions
      /\ \A q \in R : q = x \/ \E j \in 1..2 : q = Append(x, j)
      /\ x \in R
  <2>1. 1 \in 1..2 /\ 2 \in 1..2 /\ \A j \in 1..2 : j = 1 \/ j = 2
    OBVIOUS
  <2>2. \A j \in 1..2 : Append(x, j) \in R
    BY <2>1 DEF Family
  <2>3. \A q \in R : q = x \/ \E j \in 1..2 : q = Append(x, j)
    BY <2>1 DEF Family
  <2> QED
    BY <2>2, <2>3 DEF Family
<1>2. DOMAIN g \subseteq Positions
  BY NodesArePositions DEF Full
<1>3. \A q \in R : q \in DOMAIN s => s[q].known = TRUE
  BY DEF Full
<1>4. ASSUME NEW j \in 1..2, NEW i \in 1..2
      PROVE  Append(Append(x, j), i) \notin DOMAIN s /\ Append(Append(x, j), i) \notin DOMAIN g
  <2> DEFINE y == Append(x, j)
             z == Append(y, i)
  <2>1. y \in Positions /\ Len(y) = Len(x) + 1 /\ Len(x) \in Nat
    BY <1>1, Kid, PositionIsSeq
  <2>2. z \notin DOMAIN t /\ z \notin DOMAIN f
    OBVIOUS
  <2>3. z \notin R
    <3>1. ASSUME NEW j2 \in 1..2 PROVE z # Append(x, j2)
      <4>1. Len(Append(x, j2)) = Len(x) + 1
        BY Kid
      <4>2. Len(z) = Len(y) + 1
        <5> HIDE DEF y
        <5> QED
          BY <2>1, Kid
      <4> HIDE DEF z, y
      <4> QED
        BY <2>1, <4>1, <4>2
    <3>2. z # x
      <4>1. Len(z) = Len(y) + 1
        <5> HIDE DEF y
        <5> QED
          BY <2>1, Kid
      <4> HIDE DEF z, y
      <4> QED
        BY <2>1, <4>1
    <3> HIDE DEF z, R
    <3> QED
      BY <1>1, <3>1, <3>2
  <2> HIDE DEF z, R
  <2>4. z \notin DOMAIN s /\ z \notin DOMAIN g
    <3>1. Elsewhere(s, t, R) /\ Elsewhere(g, f, R)
      BY DEF R
    <3> QED
      BY <1>2, <2>2, <2>3, <3>1 DEF Elsewhere
  <2> QED
    BY <2>4 DEF z
<1>5. AlikeIn(s, g, R)
  <2>1. ASSUME NEW q \in R, q \in DOMAIN s, NEW i \in 1..2
        PROVE  /\ Append(q, i) \in DOMAIN s => IsKnown(s, Append(q, i))
               /\ Append(q, i) \in DOMAIN g => Append(q, i) \in DOMAIN s
    <3>1. CASE q = x
      BY <1>1, <1>3, <3>1 DEF IsKnown
    <3>2. CASE \E j \in 1..2 : q = Append(x, j)
      BY <1>4, <3>2
    <3> QED
      BY <1>1, <2>1, <3>1, <3>2
  <2>2. \A q \in R : q \in DOMAIN s <=> q \in DOMAIN g
    OBVIOUS
  <2>3. \A q \in R : q \in DOMAIN s => s[q] = g[q] /\ s[q].known = TRUE
    BY <1>3
  <2> HIDE DEF R
  <2> QED
    BY <2>1, <2>2, <2>3 DEF AlikeIn
<1>6. Reached(t, s, R)
  <2>1. ASSUME NEW p \in Positions \ R, NEW i \in 1..2, Append(p, i) \in R,
               Append(p, i) \in DOMAIN s
        PROVE  Append(p, i) \in DOMAIN t
    <3>1. ASSUME NEW j \in 1..2, Append(p, i) = Append(x, j) PROVE FALSE
      BY <1>1, <2>1, <3>1, KidsDiffer
    <3>2. Append(p, i) = x
      BY <1>1, <2>1, <3>1
    <3> QED
      BY <3>2 DEF IsKnown
  <2>2. ASSUME NEW r \in R, NEW p \in Positions \ R, NEW i \in 1..2, Above(p, r),
               Append(p, i) \in DOMAIN t
        PROVE  IsKnown(t, Append(p, i))
    <3>1. Under(p, x)
      <4>1. CASE r = x
        BY <2>2, <4>1 DEF Above
      <4>2. CASE \E j \in 1..2 : r = Append(x, j)
        BY <1>1, <2>2, <4>2, KidUnder
      <4> QED
        BY <1>1, <4>1, <4>2
    <3> QED
      BY <2>2, <3>1, WayIsKnown
  <2> HIDE DEF R
  <2> QED
    BY <2>1, <2>2 DEF Reached
<1>7. R \subseteq Positions /\ Elsewhere(s, t, R) /\ Elsewhere(g, f, R)
  OBVIOUS
<1> HIDE DEF R
<1> QED
  BY <1>5, <1>6, <1>7, RegionCut

\* The leaf on the path of k makes room in both trees.
LEMMA SplitCut ==
    ASSUME NEW t, NEW f, NEW inner, Full(f, inner), Cut(t, f), Rests(t, f),
           NEW k \in Keys, Sees(t, k), NEW x, x = Leaf(f, k), NEW tx,
           Path[f[x].key][Len(x) + 1] \in 1..2,
           NEW s, s = Split(t, x, tx), NEW g, g = Split(f, x, tx),
           NEW outer, Full(g, outer)
    PROVE  Cut(s, g) /\ Rests(s, g) /\ SeesAsMuch(s, t)
<1>1. /\ x \in Positions /\ On(k, x) /\ IsKnown(t, x) /\ x \in DOMAIN t /\ x \in DOMAIN f
      /\ t[x] = f[x] /\ IsNode(t[x]) /\ IsNode(f[x]) /\ Same(t, f, x)
      /\ \A i \in 1..2 : Append(x, i) \notin DOMAIN t /\ Append(x, i) \notin DOMAIN f
  BY LeafCut
<1>2. /\ DOMAIN t \subseteq Positions /\ DOMAIN f \subseteq Positions /\ DOMAIN g \subseteq Positions
      /\ InnerSet(inner) /\ DOMAIN f = NodesFor(inner)
  BY NodesArePositions DEF Full, Cut
<1>3. Backup(t, x, tx) = Backup(f, x, tx)
  BY <1>1, <1>2, SameBackup
<1>4. /\ Append(x, 1) \notin DOMAIN t /\ Append(x, 2) \notin DOMAIN t
      /\ Append(x, 1) \notin DOMAIN f /\ Append(x, 2) \notin DOMAIN f
  <2>1. 1 \in 1..2 /\ 2 \in 1..2
    OBVIOUS
  <2> QED
    BY <1>1, <2>1
<1>5. /\ DOMAIN s = DOMAIN t \cup {Append(x, 1), Append(x, 2)}
      /\ DOMAIN g = DOMAIN f \cup {Append(x, 1), Append(x, 2)}
  BY DEF Split
<1>6. Family(x) \subseteq Positions /\ x \in DOMAIN s /\ DOMAIN s \subseteq Positions
  BY <1>1, <1>2, <1>5 DEF Family
<1>7. \A q \in DOMAIN t : q # x => s[q] = t[q]
  <2>1. Splits(s, t, x, Path[t[x].key][Len(x) + 1], tx)
    BY <1>1, <1>4, SplitIs
  <2> QED
    BY <2>1 DEF Splits
<1>8. \A q \in DOMAIN f : q # x => g[q] = f[q]
  <2>1. Splits(g, f, x, Path[f[x].key][Len(x) + 1], tx)
    BY <1>1, <1>4, SplitIs
  <2> QED
    BY <2>1 DEF Splits
<1>9. Elsewhere(s, t, Family(x)) /\ Elsewhere(g, f, Family(x))
  BY <1>5, <1>7, <1>8 DEF Elsewhere, Family
<1>10. ASSUME NEW q \in Family(x) PROVE q \in DOMAIN s /\ q \in DOMAIN g /\ s[q] = g[q]
  <2>1. q \in DOMAIN s /\ q \in DOMAIN g
    BY <1>1, <1>5 DEF Family
  <2>2. q # x => q \notin DOMAIN t /\ q \notin DOMAIN f
    BY <1>4 DEF Family
  <2>3. s[q] = g[q]
    BY <1>1, <1>3, <2>1, <2>2 DEF Split
  <2> QED
    BY <2>1, <2>3
<1>11. ASSUME NEW j \in 1..2, NEW i \in 1..2
       PROVE  Append(Append(x, j), i) \notin DOMAIN t /\ Append(Append(x, j), i) \notin DOMAIN f
  <2>1. Append(x, j) \in Positions /\ Append(x, j) \notin inner
    <3>1. Append(x, j) \in Positions
      <4>1. j = 1 \/ j = 2
        OBVIOUS
      <4> QED
        BY <1>6, <4>1 DEF Family
    <3> QED
      BY <1>1, <1>2, <3>1, NodesArePositions
  <2> DEFINE y == Append(x, j)
  <2> HIDE DEF y
  <2>2. Append(y, i) \notin DOMAIN f
    BY <1>2, <2>1, NodesArePositions DEF y
  <2> QED
    BY <2>2 DEF Cut, y
<1> QED
  BY <1>1, <1>6, <1>9, <1>10, <1>11, FamilyCut

\* A leaf alone below a node on the path of k takes its place in both trees.
LEMMA CollapseCut ==
    ASSUME NEW t, NEW f, NEW inner, Full(f, inner), Cut(t, f), Rests(t, f),
           NEW k \in Keys, Sees(t, k), NEW x \in inner, On(k, x), NEW tx, OnlyChild(f, x),
           NEW s, s = Collapse(t, x, tx), NEW g, g = Collapse(f, x, tx),
           NEW outer, Full(g, outer)
    PROVE  Cut(s, g) /\ Rests(s, g) /\ SeesAsMuch(s, t)
<1>1. InnerSet(inner) /\ DOMAIN f = NodesFor(inner) /\ x \in Positions
  BY DEF Full, InnerSet
<1>2. IsKnown(t, x) /\ \A i \in 1..2 : IsKnown(t, Append(x, i))
  BY SeesWalk
<1>3. /\ x \in DOMAIN t /\ x \in DOMAIN f /\ t[x] = f[x]
      /\ \A i \in 1..2 : /\ t[Append(x, i)] = f[Append(x, i)]
                         /\ Append(x, i) \in DOMAIN t /\ Append(x, i) \in DOMAIN f
                         /\ Append(x, i) \in Positions
                         /\ IsLeaf(t, Append(x, i)) <=> IsLeaf(f, Append(x, i))
  BY <1>2, KnownNode
<1>4. /\ DOMAIN t \subseteq DOMAIN f /\ DOMAIN t \subseteq Positions /\ DOMAIN f \subseteq Positions
  BY <1>1, NodesArePositions DEF Cut
<1>5. ASSUME NEW i \in 1..2 PROVE IsLeaf(f, Append(x, i)) /\ Append(x, i) \notin inner
  <2>1. PICK j \in 1..2 : IsPlaceholder(f, Append(x, j)) /\ IsLeaf(f, Append(x, 3 - j))
    BY DEF OnlyChild
  <2>2. i = j \/ i = 3 - j
    OBVIOUS
  <2>3. IsLeaf(f, Append(x, i))
    BY <2>1, <2>2 DEF IsPlaceholder
  <2>4. Append(x, i) \in Positions
    BY <1>3
  <2> QED
    BY <1>1, <2>3, <2>4, LeafIsOuter
<1>6. ASSUME NEW j \in 1..2, NEW i \in 1..2
      PROVE  Append(Append(x, j), i) \notin DOMAIN t /\ Append(Append(x, j), i) \notin DOMAIN f
  <2> DEFINE y == Append(x, j)
  <2>1. y \in Positions /\ y \notin inner
    BY <1>3, <1>5
  <2> HIDE DEF y
  <2>2. Append(y, i) \notin DOMAIN f
    BY <1>1, <2>1, NodesArePositions
  <2> QED
    BY <1>4, <2>2 DEF y
<1>7. \A i \in 1..2 : /\ IsPlaceholder(t, Append(x, i)) <=> IsPlaceholder(f, Append(x, i))
  BY <1>3 DEF IsPlaceholder
<1>8. Same(t, f, x)
  <2>1. ASSUME NEW q \in DOMAIN f, Under(x, q) PROVE q = x \/ \E i \in 1..2 : q = Append(x, i)
    <3>1. CASE ~Above(x, q)
      BY <2>1, <3>1 DEF Above
    <3>2. CASE Above(x, q)
      <4>1. q \in Positions
        BY <1>4
      <4>2. PICK i \in 1..2 : Append(x, i) \in Positions /\ Under(Append(x, i), q)
        BY <1>1, <3>2, <4>1, BelowKid
      <4>3. Append(x, i) \in NodesFor(inner) \ inner
        BY <1>1, <1>3, <1>5
      <4>4. ~Above(Append(x, i), q)
        BY <1>1, <4>3, LeafEnds
      <4> QED
        BY <4>2, <4>4 DEF Above
    <3> QED
      BY <3>1, <3>2
  <2> QED
    BY <1>3, <1>4, <2>1 DEF Same
<1>9. Backup(t, x, tx) = Backup(f, x, tx)
  BY <1>3, <1>4, <1>8, SameBackup
<1>10. /\ t[Append(x, 1)] = f[Append(x, 1)] /\ t[Append(x, 2)] = f[Append(x, 2)]
       /\ IsPlaceholder(t, Append(x, 1)) <=> IsPlaceholder(f, Append(x, 1))
       /\ Append(x, 1) # x /\ Append(x, 2) # x
       /\ Append(x, 1) \in Positions /\ Append(x, 2) \in Positions
  <2>1. 1 \in 1..2 /\ 2 \in 1..2
    OBVIOUS
  <2> QED
    BY <1>1, <1>3, <1>7, <2>1, TwoKids
<1>11. /\ DOMAIN s = DOMAIN t \ {Append(x, 1), Append(x, 2)}
       /\ DOMAIN g = DOMAIN f \ {Append(x, 1), Append(x, 2)}
       /\ \A q \in DOMAIN s : q # x => s[q] = t[q]
       /\ \A q \in DOMAIN g : q # x => g[q] = f[q]
  BY DEF Collapse
<1>12. x \in DOMAIN s /\ x \in DOMAIN g /\ s[x] = g[x]
  <2>1. x \in DOMAIN s /\ x \in DOMAIN g
    BY <1>3, <1>10, <1>11
  <2>2. t[Append(x, IF IsPlaceholder(t, Append(x, 1)) THEN 2 ELSE 1)]
          = f[Append(x, IF IsPlaceholder(f, Append(x, 1)) THEN 2 ELSE 1)]
    BY <1>10
  <2> QED
    BY <1>9, <2>1, <2>2 DEF Collapse
<1>13. Elsewhere(s, t, Family(x)) /\ Elsewhere(g, f, Family(x))
  BY <1>11 DEF Elsewhere, Family
<1>14. \A q \in Family(x) : /\ q \in DOMAIN s <=> q \in DOMAIN g
                            /\ q \in DOMAIN s => s[q] = g[q]
  BY <1>11, <1>12 DEF Family
<1>15. Family(x) \subseteq Positions /\ DOMAIN s \subseteq Positions
  BY <1>1, <1>4, <1>10, <1>11 DEF Family
<1> QED
  BY <1>1, <1>2, <1>6, <1>12, <1>13, <1>14, <1>15, FamilyCut

-----------------------------------------------------------------------------
(* The manipulators.                                                       *)

\* s is cut from g, and for a walk it is as good as t.
Twin(s, g, t) == Cut(s, g) /\ Rests(s, g) /\ SeesAsMuch(s, t)

\* One change after the other.
LEMMA TwinAgain ==
    ASSUME NEW t, NEW s, NEW g, NEW r, NEW h, Twin(s, g, t), Twin(r, h, s)
    PROVE  Twin(r, h, t)
BY DEF Twin, SeesAsMuch

\* The walk up from p.
IsAscent(up, t, p, tx) ==
    /\ up[0] = t /\ Ascended(t, p, tx) = up[Len(p)]
    /\ \A i \in 1..Len(p) : up[i] = Ascend(up[i - 1], Prefix(p, Len(p) - i), tx)

\* The walk up, step by step.
LEMMA AscentIs ==
    ASSUME NEW t, NEW p \in Positions, NEW tx
    PROVE  \E up : IsAscent(up, t, p, tx)
<1>1. PICK up : /\ up[0] = t /\ Ascended(t, p, tx) = up[Len(p)]
                /\ \A i \in 1..Len(p) : up[i] = Ascend(up[i - 1], Prefix(p, Len(p) - i), tx)
  BY Z3T(60), AscendedIs
<1> QED
  BY <1>1 DEF IsAscent

\* All ancestors of a node on the path of k are marked, or updated, in both trees.
LEMMA AscendedCut ==
    ASSUME NEW t, NEW f, NEW inner, NEW contents, NEW k \in Keys, NEW tx \in BOOLEAN,
           NEW p \in NodesFor(inner), On(k, p), Mid(f, inner, contents, k, Len(p), tx),
           Cut(t, f), Rests(t, f), Sees(t, k)
    PROVE  Twin(Ascended(t, p, tx), Ascended(f, p, tx), t)
<1>1. InnerSet(inner)
  BY MidTree
<1>2. p \in Positions /\ Len(p) \in Nat
  BY <1>1, NodesArePositions, PositionIsSeq
<1>3. PICK up : IsAscent(up, t, p, tx)
  BY <1>2, AscentIs
<1>4. PICK fp : IsAscent(fp, f, p, tx)
  BY <1>2, AscentIs
<1>5. /\ up[0] = t /\ Ascended(t, p, tx) = up[Len(p)]
      /\ \A i \in 1..Len(p) : up[i] = Ascend(up[i - 1], Prefix(p, Len(p) - i), tx)
  BY <1>3 DEF IsAscent
<1>6. /\ fp[0] = f /\ Ascended(f, p, tx) = fp[Len(p)]
      /\ \A i \in 1..Len(p) : fp[i] = Ascend(fp[i - 1], Prefix(p, Len(p) - i), tx)
  BY <1>4 DEF IsAscent
<1> DEFINE Is(i) == Mid(fp[i], inner, contents, k, Len(p) - i, tx) /\ Twin(up[i], fp[i], t)
           S == {i \in 0..Len(p) : Is(i)}
<1>7. 0 \in S
  <2>1. Len(p) - 0 = Len(p) /\ 0 \in 0..Len(p)
    BY <1>2
  <2>2. Twin(t, f, t)
    BY DEF Twin, SeesAsMuch
  <2> QED
    BY <1>5, <1>6, <2>1, <2>2
<1>8. ASSUME NEW i \in 0..Len(p), i < Len(p), i \in S PROVE i + 1 \in S
  <2> DEFINE m == Len(p) - (i + 1)
             x == Prefix(p, m)
             s == up[i]
             g == fp[i]
             r == Ascend(s, x, tx)
             h == Ascend(g, x, tx)
  <2>1. m \in Nat /\ m \in 0..Len(p) /\ m < Len(p) /\ m + 1 = Len(p) - i /\ i + 1 \in 1..Len(p)
        /\ i + 1 - 1 = i /\ i + 1 \in 0..Len(p)
    BY <1>2, <1>8
  <2>2. x \in inner /\ On(k, x) /\ Len(x) = m
    BY <1>1, <2>1, WayUp
  <2>3. Is(i)
    BY <1>8
  <2>4. up[i + 1] = r /\ fp[i + 1] = h
    <3>1. up[i + 1] = r
      BY <1>5, <2>1
    <3>2. fp[i + 1] = h
      BY <1>6, <2>1
    <3> QED
      BY <3>1, <3>2
  <2>5. Mid(g, inner, contents, k, m + 1, tx) /\ Twin(s, g, t)
    BY <2>1, <2>3
  <2> HIDE DEF m, x, s, g
  <2>6. Mid(h, inner, contents, k, m, tx)
    BY <2>1, <2>2, <2>5, AscendMid
  <2>7. Full(g, inner) /\ Full(h, inner)
    BY <2>5, <2>6, MidFull
  <2>8. Cut(s, g) /\ Rests(s, g) /\ Sees(s, k)
    BY <2>5 DEF Twin, SeesAsMuch
  <2>9. Twin(r, h, s)
    <3>1. Cut(r, h) /\ Rests(r, h) /\ SeesAsMuch(r, s)
      BY <2>2, <2>7, <2>8, AscendCut
    <3> QED
      BY <3>1 DEF Twin
  <2> HIDE DEF r, h
  <2>10. Twin(r, h, t)
    BY <2>5, <2>9, TwinAgain
  <2>11. Is(i + 1)
    BY <2>4, <2>6, <2>10 DEF m
  <2> HIDE DEF Is
  <2> QED
    BY <2>1, <2>11
<1>9. Len(p) \in S
  <2> HIDE DEF S
  <2>1. \A i \in 0..Len(p) : i \in S
    BY <1>2, <1>7, <1>8, UpTo
  <2> QED
    BY <1>2, <2>1
<1> QED
  BY <1>5, <1>6, <1>9

\* The bit after the position of a leaf that is split.
LEMMA SplitBit ==
    ASSUME NEW s, NEW contents, NEW k \in Keys, NEW tx \in BOOLEAN, contents[k] = None,
           Splitting(s, contents, k, tx), ~IsPlaceholder(s, Leaf(s, k))
    PROVE  Path[s[Leaf(s, k)].key][Len(Leaf(s, k)) + 1] \in 1..2
<1>1. PICK inner, n : n \in 0..Depth(s, k) /\ Mid(s, inner, contents, k, n, tx)
  BY DEF Splitting
<1> DEFINE x == Leaf(s, k)
           l == s[x].key
<1>2. DOMAIN s = NodesFor(inner) /\ InnerSet(inner) /\ Shape(s, inner, contents)
  BY <1>1, MidTree DEF Mid
<1>3. x \in NodesFor(inner) \ inner /\ x \in Positions /\ On(k, x)
  BY <1>2, WalkEnds
<1>4. IsLeaf(s, x)
  BY <1>2, <1>3, LeafIsOuter
<1>5. l # None
  BY <1>4 DEF IsPlaceholder
<1>6. l \in Present(contents) /\ On(l, x)
  <2> HIDE DEF x
  <2> QED
    BY <1>2, <1>3, <1>5, LeafHolds
<1>7. l \in Keys /\ l # k
  BY <1>6 DEF Present
<1> HIDE DEF x, l
<1>8. Len(x) < Bits /\ Len(x) \in 0..Bits
  BY <1>3, <1>6, <1>7, PathsPart, PositionIsSeq
<1>9. Path[l][Len(x) + 1] \in 1..2
  BY <1>7, <1>8, AtIs
<1> QED
  BY <1>9 DEF x, l

\* Room is made in both trees.
LEMMA RoomCut ==
    ASSUME NEW t, NEW f, NEW contents, NEW k \in Keys, NEW tx \in BOOLEAN, contents[k] = None,
           Mid(f, Inner(Present(contents)), contents, k, 0, tx),
           Cut(t, f), Rests(t, f), Sees(t, k)
    PROVE  Twin(Room(t, k, tx), Room(f, k, tx), t)
<1>1. PICK room : /\ room[0] = t /\ Room(t, k, tx) = room[Bits]
                  /\ \A i \in 1..Bits :
                       room[i] = IF IsPlaceholder(room[i - 1], Leaf(room[i - 1], k)) THEN room[i - 1]
                                 ELSE Split(room[i - 1], Leaf(room[i - 1], k), tx)
  BY RoomIs
<1>2. PICK hall : /\ hall[0] = f /\ Room(f, k, tx) = hall[Bits]
                  /\ \A i \in 1..Bits :
                       hall[i] = IF IsPlaceholder(hall[i - 1], Leaf(hall[i - 1], k)) THEN hall[i - 1]
                                 ELSE Split(hall[i - 1], Leaf(hall[i - 1], k), tx)
  BY RoomIs
<1>3. Bits \in Nat /\ Bits \in 0..Bits
  BY PathsDiffer
<1> DEFINE Is(i) == Splitting(hall[i], contents, k, tx) /\ Twin(room[i], hall[i], t)
           S == {i \in 0..Bits : Is(i)}
<1>4. 0 \in S
  <2>1. DOMAIN f = NodesFor(Inner(Present(contents))) /\ InnerSet(Inner(Present(contents)))
    BY MidTree
  <2>2. Depth(f, k) \in 1..Bits
    BY <2>1, WalkEnds
  <2>3. 0 \in 0..Depth(f, k) /\ 0 \in 0..Bits
    BY <1>3, <2>2
  <2>4. Inner(Present(contents)) \subseteq Inner(Present(contents) \cup {k})
    BY DEF Inner
  <2>5. Splitting(f, contents, k, tx)
    BY <2>3, <2>4 DEF Splitting
  <2>6. Twin(t, f, t)
    BY DEF Twin, SeesAsMuch
  <2> QED
    BY <1>1, <1>2, <2>3, <2>5, <2>6
<1>5. ASSUME NEW i \in 0..Bits, i < Bits, i \in S PROVE i + 1 \in S
  <2> DEFINE s == room[i]
             g == hall[i]
             r == room[i + 1]
             h == hall[i + 1]
             x == Leaf(g, k)
  <2>1. i + 1 \in 1..Bits /\ i + 1 - 1 = i /\ i + 1 \in 0..Bits
    BY <1>3, <1>5
  <2>2. r = IF IsPlaceholder(s, Leaf(s, k)) THEN s ELSE Split(s, Leaf(s, k), tx)
    BY <1>1, <2>1
  <2>3. h = IF IsPlaceholder(g, x) THEN g ELSE Split(g, x, tx)
    BY <1>2, <2>1
  <2>4. Splitting(g, contents, k, tx) /\ Twin(s, g, t)
    BY <1>5
  <2> HIDE DEF s, g, r, h
  <2>5. PICK inner, n : Mid(g, inner, contents, k, n, tx)
    BY <2>4 DEF Splitting
  <2>6. Full(g, inner)
    BY <2>5, MidFull
  <2>7. Cut(s, g) /\ Rests(s, g) /\ Sees(s, k)
    BY <2>4 DEF Twin, SeesAsMuch
  <2>8. /\ x = Leaf(s, k) /\ s[x] = g[x] /\ IsLeaf(s, x)
        /\ \A j \in 1..2 : Append(x, j) \notin DOMAIN s /\ Append(x, j) \notin DOMAIN g
    BY <2>6, <2>7, LeafCut
  <2>9. IsPlaceholder(s, x) <=> IsPlaceholder(g, x)
    <3>1. 1 \in 1..2
      OBVIOUS
    <3> QED
      BY <2>8, <3>1 DEF IsPlaceholder, IsLeaf
  <2>10. Splitting(h, contents, k, tx) /\ Twin(r, h, t)
    <3>1. CASE IsPlaceholder(g, x)
      BY <2>2, <2>3, <2>4, <2>8, <2>9, <3>1
    <3>2. CASE ~IsPlaceholder(g, x)
      <4>1. r = Split(s, x, tx) /\ h = Split(g, x, tx)
        BY <2>2, <2>3, <2>8, <2>9, <3>2
      <4>2. Splitting(h, contents, k, tx)
        BY <2>4, <3>2, <4>1, SplitAgain
      <4>3. PICK outer, n2 : Mid(h, outer, contents, k, n2, tx)
        BY <4>2 DEF Splitting
      <4>4. Full(h, outer)
        BY <4>3, MidFull
      <4>5. Path[g[x].key][Len(x) + 1] \in 1..2
        BY <2>4, <3>2, SplitBit
      <4> HIDE DEF x
      <4>6. x = Leaf(g, k)
        BY DEF x
      <4>7. Cut(r, h) /\ Rests(r, h) /\ SeesAsMuch(r, s)
        BY <2>6, <2>7, <4>1, <4>4, <4>5, <4>6, SplitCut
      <4>8. Twin(r, h, t)
        BY <2>4, <4>7, TwinAgain DEF Twin
      <4> QED
        BY <4>2, <4>8
    <3> QED
      BY <3>1, <3>2
  <2> QED
    BY <2>1, <2>10 DEF r, h
<1>6. Bits \in S
  <2> HIDE DEF S
  <2>1. \A i \in 0..Bits : i \in S
    BY <1>3, <1>4, <1>5, UpTo
  <2> QED
    BY <1>3, <2>1
<1> QED
  BY <1>1, <1>2, <1>6

\* Add in both trees.
LEMMA AddCut ==
    ASSUME NEW t, NEW f, NEW contents, NEW k \in Keys, NEW tx \in BOOLEAN, contents[k] = None,
           Mid(f, Inner(Present(contents)), contents, k, 0, tx),
           Cut(t, f), Rests(t, f), Sees(t, k),
           NEW v \in Vals, NEW new, new[k] = v, \A l \in Keys : l # k => new[l] = contents[l]
    PROVE  Twin(AddAt(t, k, v, tx), AddAt(f, k, v, tx), t)
<1> DEFINE s == Room(t, k, tx)
           g == Room(f, k, tx)
           x == Leaf(g, k)
           r == Fill(s, x, k, v, tx)
           h == Fill(g, x, k, v, tx)
           m == Depth(g, k)
           wide == Inner(Present(contents) \cup {k})
<1>1. Twin(s, g, t)
  BY RoomCut
<1>2. /\ \E n \in 0..m : Mid(g, wide, contents, k, n, tx)
      /\ \A l \in Present(contents) : ~On(l, x)
  BY RoomMid
<1>3. PICK n \in 0..m : Mid(g, wide, contents, k, n, tx)
  BY <1>2
<1>4. DOMAIN g = NodesFor(wide) /\ InnerSet(wide) /\ Full(g, wide)
  BY <1>3, MidTree, MidFull
<1>5. x \in NodesFor(wide) /\ On(k, x) /\ Len(x) = m /\ m \in 1..Bits
  BY <1>4, WalkEnds
<1>6. n \in Nat /\ n <= m
  BY <1>5
<1>7. AddAt(f, k, v, tx) = Ascended(h, x, tx)
  BY DEF AddAt
<1>8. AddAt(t, k, v, tx) = Ascended(Fill(s, Leaf(s, k), k, v, tx), Leaf(s, k), tx)
  BY DEF AddAt
<1> HIDE DEF s, g, wide
<1>9. Mid(h, wide, new, k, m, tx)
  <2>1. LET u == Fill(g, Leaf(g, k), k, v, tx)
        IN  Mid(u, wide, new, k, Depth(g, k), tx) /\ Changed(u, g, Leaf(g, k), tx)
    BY <1>2, <1>3, <1>6, FillMid
  <2> QED
    BY <2>1
<1>10. Cut(s, g) /\ Rests(s, g) /\ Sees(s, k)
  BY <1>1 DEF Twin, SeesAsMuch
<1>11. x = Leaf(s, k)
  BY <1>4, <1>10, LeafCut
<1>12. Full(h, wide)
  BY <1>9, MidFull
<1>13. Cut(r, h) /\ Rests(r, h) /\ SeesAsMuch(r, s)
  <2>1. x = Leaf(g, k)
    OBVIOUS
  <2> HIDE DEF x
  <2> QED
    BY <1>4, <1>10, <1>12, <2>1, FillCut
<1> HIDE DEF x, r, h, m
<1>14. Twin(r, h, t) /\ Sees(r, k)
  BY <1>1, <1>10, <1>13, TwinAgain DEF Twin, SeesAsMuch
<1>15. Twin(Ascended(r, x, tx), Ascended(h, x, tx), r)
  BY <1>5, <1>9, <1>13, <1>14, AscendedCut
<1>16. Twin(Ascended(r, x, tx), Ascended(h, x, tx), t)
  BY <1>14, <1>15, TwinAgain
<1> QED
  BY <1>7, <1>8, <1>11, <1>16 DEF r

\* What is known is the same in both trees; so is what has an array.
KnownAlike(t, f) ==
    /\ \A q : IsKnown(t, q) =>
          /\ q \in DOMAIN t /\ q \in DOMAIN f /\ q \in Positions /\ t[q] = f[q]
          /\ \A i \in 1..2 : Append(q, i) \in DOMAIN t <=> Append(q, i) \in DOMAIN f
    /\ \A q \in DOMAIN t : t[q].array # None => IsKnown(t, q)

\* All known nodes at once.
LEMMA KnownAre ==
    ASSUME NEW t, NEW f, NEW inner, Full(f, inner), Cut(t, f)
    PROVE  KnownAlike(t, f)
<1>1. ASSUME NEW q, IsKnown(t, q)
      PROVE  /\ q \in DOMAIN t /\ q \in DOMAIN f /\ q \in Positions /\ t[q] = f[q]
             /\ \A i \in 1..2 : Append(q, i) \in DOMAIN t <=> Append(q, i) \in DOMAIN f
  BY <1>1, KnownNode
<1>2. ASSUME NEW q \in DOMAIN t, t[q].array # None PROVE IsKnown(t, q)
  <2>1. t[q].known \in BOOLEAN
    BY CutNode
  <2>2. ASSUME t[q].known = FALSE PROVE t[q].array = None
    <3>1. Forgotten(t[q], f[q])
      BY <2>2, CutNode
    <3> QED
      BY <3>1 DEF Forgotten
  <2> QED
    BY <1>2, <2>1, <2>2 DEF IsKnown
<1> QED
  BY <1>1, <1>2 DEF KnownAlike

\* The value that is written to an array reaches the same nodes of both trees.
LEMMA WrittenCut ==
    ASSUME NEW t, NEW f, NEW inner, NEW contents, NEW k \in Keys, NEW tx \in BOOLEAN,
           Mid(f, inner, contents, k, 0, tx), contents[k] # None,
           Cut(t, f), Sees(t, k),
           NEW v \in Vals, NEW new, new[k] = v, \A l \in Keys : l # k => new[l] = contents[l],
           NEW x, x = Leaf(f, k),
           NEW s, s = Assigned(t, x, k, v, tx), NEW g, g = Assigned(f, x, k, v, tx),
           Cut(s, g), Rests(s, g), Sees(s, k),
           NEW r, r = WrittenThrough(t, t[x].array, s, v),
           NEW h, h = WrittenThrough(f, f[x].array, g, v)
    PROVE  Twin(r, h, s)
<1> DEFINE array == f[x].array
           R == {q \in DOMAIN g : array # None /\ g[q].array = array}
<1>1. Full(f, inner) /\ DOMAIN f = NodesFor(inner) /\ InnerSet(inner) /\ DOMAIN f \subseteq Positions
  BY MidTree, MidFull
<1>2. /\ x \in Positions /\ On(k, x) /\ IsKnown(t, x) /\ x \in DOMAIN t /\ x \in DOMAIN f
      /\ t[x] = f[x] /\ IsNode(t[x]) /\ IsNode(f[x]) /\ x \in NodesFor(inner) \ inner
  BY <1>1, LeafCut
<1>3. Mid(g, inner, new, k, Depth(f, k), tx) /\ Mid(h, inner, new, k, Depth(f, k), tx)
  <2>1. 0 <= Depth(f, k)
    <3>1. Depth(f, k) \in 1..Bits
      BY <1>1, WalkEnds
    <3> QED
      BY <3>1
  <2>2. Mid(g, inner, new, k, Depth(f, k), tx)
    BY <2>1, AssignedMid
  <2>3. Mid(h, inner, new, k, Depth(f, k), tx)
    BY WrittenMid
  <2> QED
    BY <2>2, <2>3
<1>4. /\ Full(g, inner) /\ Full(h, inner) /\ DOMAIN g = DOMAIN f
      /\ \A q \in DOMAIN g : Fits(g, q, tx)
      /\ Shape(g, inner, new)
  BY <1>1, <1>3, MidFull, MidTree DEF Mid
<1>m. KnownAlike(s, g)
  <2>1. Full(g, inner) /\ Cut(s, g)
    BY <1>4
  <2> QED
    BY <2>1, KnownAre
<1>5. DOMAIN s = DOMAIN t /\ \A q \in DOMAIN t : s[q].array = t[q].array
  <2>1. /\ DiffersAt(s, t, x)
        /\ Like(s[x], t[x], t[x].key, v, t[x].array, LeafLabel(k, v), t[x].inc, KeptBackup(t, x, tx))
    BY <1>2, AssignedIs
  <2> QED
    BY <2>1 DEF DiffersAt, Like
<1>6. DOMAIN g = DOMAIN f /\ \A q \in DOMAIN f : g[q].array = f[q].array
  <2>1. /\ DiffersAt(g, f, x)
        /\ Like(g[x], f[x], f[x].key, v, f[x].array, LeafLabel(k, v), f[x].inc, KeptBackup(f, x, tx))
    BY <1>2, AssignedIs
  <2> QED
    BY <2>1 DEF DiffersAt, Like
<1>7. array \in {None, k} /\ t[x].array = array
  <2>1. Fits(f, x, tx) /\ IsLeaf(f, x)
    BY <1>1, <1>2, LeafIsOuter DEF Mid
  <2>2. f[x].key = k
    <3>1. Shape(f, inner, contents)
      BY DEF Mid
    <3> QED
      BY <1>1, <3>1, LookupIs
  <2> QED
    BY <1>2, <2>1, <2>2 DEF Fits
<1>8. k # None
  BY NoneIsNoKey
<1> HIDE DEF array
<1>9. ASSUME NEW q \in R, IsLeaf(g, q) PROVE q = x
  <2>1. q \in Positions /\ q \in NodesFor(inner) \ inner
    <3>1. q \in Positions
      BY <1>1, <1>4
    <3> QED
      BY <1>1, <1>4, <1>9, <3>1, LeafIsOuter
  <2>2. g[q].array # None /\ g[q].array = k
    BY <1>7
  <2>3. Fits(g, q, tx)
    BY <1>4
  <2>4. g[q].key = k
    BY <1>9, <2>2, <2>3 DEF Fits
  <2>5. On(k, q)
    BY <1>1, <1>4, <1>8, <2>1, <2>4, LeafHolds
  <2>6. q = Leaf(f, k)
    BY <1>1, <2>1, <2>5, OneLeaf
  <2> QED
    BY <2>6
<1>10. ASSUME NEW q \in R, Quiet(g, q) PROVE q = x
  BY <1>9, <1>10 DEF Quiet
<1>11. IsKnown(s, x)
  <2>1. DOMAIN g = NodesFor(inner)
    BY <1>1, <1>4
  <2>2. x = Leaf(g, k)
    BY <1>1, <1>2, <2>1, OneLeaf
  <2>3. IsKnown(s, Leaf(g, k))
    BY <1>4, SeesWalk
  <2> QED
    BY <2>2, <2>3
<1>12. ASSUME NEW q \in R PROVE IsKnown(s, q)
  <2>1. CASE ~IsKnown(s, q)
    BY <1>10, <1>11, <2>1 DEF Rests
  <2> QED
    BY <2>1
<1>13. /\ DOMAIN r = DOMAIN s /\ DOMAIN h = DOMAIN g
       /\ \A q \in DOMAIN s : IF array # None /\ t[q].array = array
                              THEN r[q] = [s[q] EXCEPT !.val = v] ELSE r[q] = s[q]
       /\ \A q \in DOMAIN g : IF array # None /\ f[q].array = array
                              THEN h[q] = [g[q] EXCEPT !.val = v] ELSE h[q] = g[q]
  BY <1>5, <1>6, <1>7 DEF WrittenThrough, array
<1>14. ASSUME NEW q \in DOMAIN s, array # None, t[q].array = array PROVE q \in R
  <2>1. q \in DOMAIN g
    BY DEF Cut
  <2>2. s[q].array # None
    BY <1>5, <1>14
  <2>3. s[q] = g[q]
    BY <1>m, <2>2 DEF KnownAlike, IsKnown
  <2> QED
    BY <1>5, <1>14, <2>1, <2>3
<1>15. ASSUME NEW q \in R
       PROVE  /\ q \in DOMAIN s /\ q \in DOMAIN r /\ q \in DOMAIN h
              /\ r[q] = h[q] /\ r[q].known = TRUE
  <2>1. IsKnown(s, q)
    BY <1>12
  <2>2. q \in DOMAIN s /\ q \in DOMAIN g /\ s[q] = g[q]
    BY <1>m, <2>1 DEF KnownAlike
  <2>3. t[q].array = array /\ f[q].array = array /\ array # None
    BY <1>5, <1>6, <2>2
  <2>4. r[q] = [s[q] EXCEPT !.val = v] /\ h[q] = [g[q] EXCEPT !.val = v]
    BY <1>13, <2>2, <2>3
  <2>5. h[q].known = TRUE
    BY <1>4, <1>13, <2>2 DEF Full
  <2> QED
    BY <1>13, <2>2, <2>4, <2>5
<1>16. Elsewhere(r, s, R) /\ Elsewhere(h, g, R)
  <2>1. \A q \in DOMAIN s : q \notin R => r[q] = s[q]
    BY <1>13, <1>14
  <2>2. ASSUME NEW q \in DOMAIN g, q \notin R PROVE h[q] = g[q]
    <3>1. ~(array # None /\ f[q].array = array)
      BY <1>6, <2>2
    <3> QED
      BY <1>13, <3>1
  <2> HIDE DEF R
  <2> QED
    BY <1>13, <2>1, <2>2 DEF Elsewhere
<1>17. ASSUME NEW q \in R, NEW i \in 1..2
       PROVE  /\ Append(q, i) \in DOMAIN s => IsKnown(s, Append(q, i))
              /\ Append(q, i) \in DOMAIN g => Append(q, i) \in DOMAIN s
  <2>1. IsKnown(s, q)
    BY <1>12
  <2>2. q \in DOMAIN g /\ q \in Positions /\ (Append(q, i) \in DOMAIN s <=> Append(q, i) \in DOMAIN g)
    BY <1>m, <2>1 DEF KnownAlike
  <2>3. ASSUME Append(q, i) \in DOMAIN s, ~IsKnown(s, Append(q, i)) PROVE FALSE
    <3>1. Under(q, q)
      BY <2>2, UnderIs
    <3>2. Quiet(g, q)
      BY <2>2, <2>3, <3>1 DEF Rests
    <3>3. q = x
      BY <1>10, <3>2
    <3>4. Append(x, i) \in NodesFor(inner)
      BY <1>1, <1>4, <2>2, <2>3, <3>3
    <3> QED
      BY <1>1, <1>2, <3>4, NodesArePositions
  <2> QED
    BY <2>2, <2>3
<1>18. \A q \in DOMAIN s : IsKnown(s, q) => IsKnown(r, q)
  <2> SUFFICES ASSUME NEW q \in DOMAIN s, IsKnown(s, q) PROVE IsKnown(r, q)
    OBVIOUS
  <2>1. CASE q \in R
    BY <1>15, <2>1 DEF IsKnown
  <2>2. CASE q \notin R
    BY <1>13, <1>14, <2>2 DEF IsKnown
  <2> QED
    BY <2>1, <2>2
<1>19. AlikeIn(r, h, R)
  <2>1. ASSUME NEW q \in R, NEW i \in 1..2
        PROVE  /\ Append(q, i) \in DOMAIN r => IsKnown(r, Append(q, i))
               /\ Append(q, i) \in DOMAIN h => Append(q, i) \in DOMAIN r
    BY <1>13, <1>17, <1>18
  <2> HIDE DEF R
  <2> QED
    BY <1>15, <2>1 DEF AlikeIn
<1>20. Reached(s, r, R)
  <2>1. ASSUME NEW q \in R, NEW p \in Positions \ R, NEW i \in 1..2, Above(p, q),
               Append(p, i) \in DOMAIN s
        PROVE  IsKnown(s, Append(p, i))
    <3> SUFFICES ASSUME ~IsKnown(s, Append(p, i)) PROVE FALSE
      OBVIOUS
    <3>1. Under(p, q) /\ q \in DOMAIN g
      BY <2>1 DEF Above
    <3>2. Quiet(g, q)
      BY <2>1, <3>1 DEF Rests
    <3>3. q = x
      BY <1>10, <3>2
    <3> QED
      BY <1>2, <2>1, <3>1, <3>3, WayIsKnown
  <2> HIDE DEF R
  <2> QED
    BY <1>13, <2>1 DEF Reached
<1>21. R \subseteq Positions /\ DOMAIN r \subseteq Positions
  BY <1>1, <1>4, <1>13 DEF Cut
<1> HIDE DEF R
<1>22. Cut(r, h) /\ Rests(r, h) /\ SeesAsMuch(r, s)
  BY <1>4, <1>16, <1>19, <1>20, <1>21, RegionCut
<1> QED
  BY <1>22 DEF Twin

\* Set in both trees.
LEMMA SetCut ==
    ASSUME NEW t, NEW f, NEW inner, NEW contents, NEW k \in Keys, NEW tx \in BOOLEAN,
           Mid(f, inner, contents, k, 0, tx), contents[k] # None,
           Cut(t, f), Rests(t, f), Sees(t, k),
           NEW v \in Vals, NEW new, new[k] = v, \A l \in Keys : l # k => new[l] = contents[l]
    PROVE  Twin(SetAt(t, k, v, tx), SetAt(f, k, v, tx), t)
<1> DEFINE x == Leaf(f, k)
           s == Assigned(t, x, k, v, tx)
           g == Assigned(f, x, k, v, tx)
           r == WrittenThrough(t, t[x].array, s, v)
           h == WrittenThrough(f, f[x].array, g, v)
           m == Depth(f, k)
<1>1. Full(f, inner) /\ DOMAIN f = NodesFor(inner) /\ InnerSet(inner)
  BY MidTree, MidFull
<1>2. x = Leaf(t, k)
  BY <1>1, LeafCut
<1>3. SetAt(f, k, v, tx) = Ascended(h, x, tx) /\ SetAt(t, k, v, tx) = Ascended(r, x, tx)
  BY <1>2 DEF SetAt, WrittenThrough, Assigned
<1>4. x \in NodesFor(inner) /\ On(k, x) /\ Len(x) = m /\ m \in 1..Bits /\ 0 <= m
  BY <1>1, WalkEnds
<1>5. Mid(g, inner, new, k, m, tx)
  BY <1>4, AssignedMid
<1>6. Mid(h, inner, new, k, m, tx)
  BY WrittenMid
<1>7. x = Leaf(f, k) /\ Full(g, inner)
  BY <1>5, MidFull
<1> HIDE DEF x, m
<1>8. Twin(s, g, t) /\ Sees(s, k)
  <2>1. Cut(s, g) /\ Rests(s, g) /\ SeesAsMuch(s, t)
    <3> HIDE DEF r, h
    <3> QED
      BY <1>1, <1>7, AssignedCut
  <2> QED
    BY <2>1 DEF Twin, SeesAsMuch
<1>9. Twin(r, h, s)
  BY <1>7, <1>8, WrittenCut DEF Twin
<1> HIDE DEF s, g, r, h
<1>10. Twin(r, h, t) /\ Sees(r, k)
  BY <1>8, <1>9, TwinAgain DEF Twin, SeesAsMuch
<1>11. Cut(r, h) /\ Rests(r, h)
  BY <1>9 DEF Twin
<1>12. Twin(Ascended(r, x, tx), Ascended(h, x, tx), r)
  BY <1>4, <1>6, <1>10, <1>11, AscendedCut
<1> QED
  BY <1>3, <1>10, <1>12, TwinAgain

\* One step of the walk up after a removal in both trees.
LEMMA RemoveStepCut ==
    ASSUME NEW t, NEW f, NEW contents, NEW k \in Keys, NEW m \in Nat, m < Bits, NEW tx \in BOOLEAN,
           Mid(f, Inner(Present(contents)) \cup WayTo(k, m + 1), contents, k, m + 1, tx),
           Cut(t, f), Rests(t, f), Sees(t, k),
           NEW s, s = AfterRemove(t, At(k, m), tx), NEW g, g = AfterRemove(f, At(k, m), tx)
    PROVE  Twin(s, g, t)
<1> DEFINE inner == Inner(Present(contents)) \cup WayTo(k, m + 1)
           x == At(k, m)
<1>1. m \in 0..Bits
  BY PathsDiffer
<1>2. x \in inner
  BY <1>1 DEF WayTo
<1>3. x \in Positions /\ On(k, x)
  BY <1>1, AtIs DEF On
<1> DEFINE outer == Inner(Present(contents)) \cup WayTo(k, m)
<1>5. Mid(g, outer, contents, k, m, tx)
  BY RemoveStep
<1>6. s = AfterRemove(t, x, tx) /\ g = AfterRemove(f, x, tx)
  OBVIOUS
<1>7. Mid(f, inner, contents, k, m + 1, tx)
  OBVIOUS
<1> HIDE DEF x, inner, outer
<1>8. Full(f, inner) /\ Full(g, outer)
  BY <1>5, <1>7, MidFull
<1>9. \A i \in 1..2 : IsKnown(t, Append(x, i))
  BY <1>2, <1>3, <1>8, SeesWalk
<1>10. \A i \in 1..2 : /\ t[Append(x, i)] = f[Append(x, i)]
                       /\ IsLeaf(t, Append(x, i)) <=> IsLeaf(f, Append(x, i))
  BY <1>8, <1>9, KnownNode
<1>11. OnlyChild(t, x) <=> OnlyChild(f, x)
  <2>1. \A i \in 1..2 : 3 - i \in 1..2
    OBVIOUS
  <2>2. \A i \in 1..2 : /\ IsPlaceholder(t, Append(x, i)) <=> IsPlaceholder(f, Append(x, i))
                        /\ IsLeaf(t, Append(x, 3 - i)) <=> IsLeaf(f, Append(x, 3 - i))
    BY <1>10, <2>1 DEF IsPlaceholder
  <2> QED
    BY <2>2 DEF OnlyChild
<1>12. CASE x # <<>> /\ OnlyChild(f, x)
  <2>1. s = Collapse(t, x, tx) /\ g = Collapse(f, x, tx)
    BY <1>6, <1>11, <1>12 DEF AfterRemove
  <2> QED
    BY <1>2, <1>3, <1>8, <1>12, <2>1, CollapseCut DEF Twin
<1>13. CASE ~(x # <<>> /\ OnlyChild(f, x))
  <2>1. s = Ascend(t, x, tx) /\ g = Ascend(f, x, tx)
    BY <1>6, <1>11, <1>13 DEF AfterRemove
  <2> QED
    BY <1>2, <1>3, <1>8, <2>1, AscendCut DEF Twin
<1> QED
  BY <1>12, <1>13

\* The walk up from a removed leaf.
IsRemoval(up, t, k, x, m, tx) ==
    /\ up[0] = Fill(t, x, None, 0, tx) /\ RemoveAt(t, k, tx) = up[m]
    /\ \A i \in 1..m : up[i] = AfterRemove(up[i - 1], Prefix(x, m - i), tx)

\* The removal, step by step.
LEMMA RemovalIs ==
    ASSUME NEW t, NEW k, NEW tx, NEW x \in Positions, x = Leaf(t, k)
    PROVE  \E up : IsRemoval(up, t, k, x, Len(x), tx)
<1>1. PICK up : /\ up[0] = Fill(t, x, None, 0, tx) /\ RemoveAt(t, k, tx) = up[Len(x)]
                /\ \A i \in 1..Len(x) : up[i] = AfterRemove(up[i - 1], Prefix(x, Len(x) - i), tx)
  <2>1. LET p == Leaf(t, k) IN
           \E up : /\ up[0] = Fill(t, p, None, 0, tx) /\ RemoveAt(t, k, tx) = up[Len(p)]
                  /\ \A i \in 1..Len(p) :
                       up[i] = AfterRemove(up[i - 1], Prefix(p, Len(p) - i), tx)
    BY Z3T(60), RemovedIs
  <2> QED
    BY <2>1
<1> QED
  BY <1>1 DEF IsRemoval

\* Remove in both trees.
LEMMA RemoveCut ==
    ASSUME NEW t, NEW f, NEW contents, NEW k \in Keys, NEW tx \in BOOLEAN, contents[k] # None,
           Mid(f, Inner(Present(contents)), contents, k, 0, tx),
           Cut(t, f), Rests(t, f), Sees(t, k),
           NEW new, new[k] = None, \A l \in Keys : l # k => new[l] = contents[l]
    PROVE  Twin(RemoveAt(t, k, tx), RemoveAt(f, k, tx), t)
<1> DEFINE x == Leaf(f, k)
           m == Depth(f, k)
           inner == Inner(Present(contents))
           s == Fill(t, x, None, 0, tx)
           g == Fill(f, x, None, 0, tx)
<1>1. /\ DOMAIN f = NodesFor(inner) /\ InnerSet(inner) /\ Full(f, inner)
  BY MidTree, MidFull
<1>2. Shape(f, inner, contents)
  BY DEF Mid
<1>3. /\ x \in NodesFor(inner) \ inner /\ x \in Positions /\ On(k, x) /\ Len(x) = m /\ x # <<>>
      /\ m \in 1..Bits /\ \A d \in 0..Bits : At(k, d) \in inner <=> d < m
  BY <1>1, WalkEnds
<1>4. m \in Nat /\ Bits \in Nat /\ 0 <= m /\ m <= Bits
  BY <1>3, PathsDiffer
<1>5. f[x].key = k
  BY <1>1, <1>2, LookupIs
<1>6. \A l \in Present(contents) : l # k => ~On(l, x)
  <2>1. k # None
    BY NoneIsNoKey
  <2> HIDE DEF x, inner
  <2> QED
    BY <1>1, <1>2, <1>3, <1>5, <2>1, LeafHolds
<1>7. Mid(g, inner, new, k, m, tx)
  <2> HIDE DEF inner
  <2>1. Mid(f, inner, contents, k, 0, tx)
    BY DEF inner
  <2>2. LET u == Fill(f, Leaf(f, k), None, 0, tx) IN
        Mid(u, inner, new, k, Depth(f, k), tx) /\ Changed(u, f, Leaf(f, k), tx)
    BY <1>4, <1>6, <2>1, FillMid
  <2> QED
    BY <2>2
<1>8. x = Leaf(t, k) /\ x = Leaf(f, k)
  BY <1>1, LeafCut
<1> HIDE DEF x, m
<1>9. PICK up : IsRemoval(up, t, k, x, m, tx)
  BY <1>3, <1>8, RemovalIs
<1>10. PICK fp : IsRemoval(fp, f, k, x, m, tx)
  BY <1>3, <1>8, RemovalIs
<1>11. /\ up[0] = s /\ RemoveAt(t, k, tx) = up[m]
       /\ \A i \in 1..m : up[i] = AfterRemove(up[i - 1], Prefix(x, m - i), tx)
  BY <1>9 DEF IsRemoval
<1>12. /\ fp[0] = g /\ RemoveAt(f, k, tx) = fp[m]
       /\ \A i \in 1..m : fp[i] = AfterRemove(fp[i - 1], Prefix(x, m - i), tx)
  BY <1>10 DEF IsRemoval
<1>13. Twin(s, g, t)
  <2>1. Full(g, inner)
    BY <1>7, MidFull
  <2>2. s = Fill(t, x, None, 0, tx) /\ g = Fill(f, x, None, 0, tx)
    OBVIOUS
  <2> HIDE DEF s, g
  <2>3. Cut(s, g) /\ Rests(s, g) /\ SeesAsMuch(s, t)
    BY <1>1, <1>8, <2>1, <2>2, FillCut
  <2> QED
    BY <2>3 DEF Twin
<1>14. Inner(Present(new)) \cup WayTo(k, m) = inner
  <2>1. Present(new) = Present(contents) \ {k} /\ k \in Present(contents)
    BY DEF Present
  <2>2. ASSUME NEW p \in Inner(Present(new)) PROVE p \in inner
    BY <2>1 DEF Inner
  <2>3. WayTo(k, m) \subseteq inner
    <3> HIDE DEF inner
    <3> QED
      BY <1>3 DEF WayTo
  <2>4. ASSUME NEW p \in inner, p \notin Inner(Present(new)) PROVE p \in WayTo(k, m)
    <3>1. p \in Positions /\ Len(p) \in 0..Bits
      BY PositionIsSeq DEF Inner
    <3>2. On(k, p)
      BY <2>1, <2>4 DEF Inner
    <3>3. At(k, Len(p)) = p
      BY <3>2 DEF On
    <3> HIDE DEF inner
    <3>4. Len(p) < m
      BY <1>3, <3>1, <3>3
    <3> QED
      BY <3>1, <3>3, <3>4 DEF WayTo
  <2> HIDE DEF inner
  <2> QED
    BY <2>2, <2>3, <2>4
<1> DEFINE Is(i) == /\ Mid(fp[i], Inner(Present(new)) \cup WayTo(k, m - i), new, k, m - i, tx)
                    /\ Twin(up[i], fp[i], t)
           S == {i \in 0..m : Is(i)}
<1> HIDE DEF s, g, inner
<1>15. 0 \in S
  <2>1. m - 0 = m /\ 0 \in 0..m
    BY <1>4
  <2> QED
    BY <1>7, <1>11, <1>12, <1>13, <1>14, <2>1
<1>16. ASSUME NEW i \in 0..m, i < m, i \in S PROVE i + 1 \in S
  <2> DEFINE n == m - (i + 1)
             u == up[i]
             v == fp[i]
             r == up[i + 1]
             h == fp[i + 1]
  <2>1. n \in Nat /\ n < Bits /\ n + 1 = m - i /\ i + 1 \in 1..m /\ i + 1 - 1 = i /\ i + 1 \in 0..m
        /\ n \in 0..m /\ n \in 0..Bits /\ m \in 0..Bits
    BY <1>4, <1>16
  <2>2. Is(i)
    BY <1>16
  <2>3. Prefix(x, n) = At(k, n)
    <3>1. At(k, m) = x
      BY <1>3 DEF On
    <3>2. Prefix(At(k, m), n) = At(k, n)
      BY <2>1, AtIs
    <3> QED
      BY <3>1, <3>2
  <2>4. r = AfterRemove(u, Prefix(x, m - (i + 1)), tx) /\ h = AfterRemove(v, Prefix(x, m - (i + 1)), tx)
    <3>1. r = AfterRemove(u, Prefix(x, m - (i + 1)), tx)
      BY <1>11, <2>1
    <3>2. h = AfterRemove(v, Prefix(x, m - (i + 1)), tx)
      BY <1>12, <2>1
    <3> QED
      BY <3>1, <3>2
  <2>5. r = AfterRemove(u, At(k, n), tx) /\ h = AfterRemove(v, At(k, n), tx)
    BY <2>3, <2>4
  <2>6. /\ Mid(v, Inner(Present(new)) \cup WayTo(k, n + 1), new, k, n + 1, tx)
        /\ Twin(u, v, t)
    BY <2>1, <2>2
  <2> HIDE DEF n, u, v, r, h
  <2>7. Mid(h, Inner(Present(new)) \cup WayTo(k, n), new, k, n, tx)
    BY <2>1, <2>5, <2>6, RemoveStep
  <2>8. Cut(u, v) /\ Rests(u, v) /\ Sees(u, k)
    BY <2>6 DEF Twin, SeesAsMuch
  <2>9. Twin(r, h, u)
    BY <2>1, <2>5, <2>6, <2>8, RemoveStepCut
  <2>10. Twin(r, h, t)
    BY <2>6, <2>9, TwinAgain
  <2>11. Is(i + 1)
    BY <2>7, <2>10 DEF n, r, h
  <2> HIDE DEF Is
  <2> QED
    BY <2>1, <2>11
<1>17. Is(m)
  <2> HIDE DEF S
  <2>1. \A i \in 0..m : i \in S
    BY <1>4, <1>15, <1>16, UpTo
  <2> QED
    BY <1>4, <2>1 DEF S
<1> QED
  BY <1>11, <1>12, <1>17

-----------------------------------------------------------------------------
(* Outside a transaction: what is not known, or is not there, may have no  *)
(* marks, because nothing depends on them.                                 *)

\* The nodes that are not in D have no mark.
Dimmed(f, D) == [q \in DOMAIN f |-> IF q \in D THEN f[q] ELSE [f[q] EXCEPT !.inc = FALSE]]

\* s is what is left of w when some nodes are forgotten.
Pruned(s, w) ==
    /\ DOMAIN s \subseteq DOMAIN w /\ <<>> \in DOMAIN s
    /\ \A p \in Positions, i \in 1..2 : Append(p, i) \in DOMAIN s => IsKnown(s, p)
    /\ \A p \in DOMAIN s :
          \/ s[p] = w[p] /\ \A i \in 1..2 : Append(p, i) \in DOMAIN w => Append(p, i) \in DOMAIN s
          \/ Forgotten(s[p], w[p])

\* t is cut from a tree that no transaction has touched.
GoodCut(t, contents) == \E f : Good(f, contents) /\ Cut(t, f) /\ Rests(t, f)

\* What Good says of a full tree.
LEMMA GoodFull ==
    ASSUME NEW f, NEW contents, Good(f, contents)
    PROVE  /\ Full(f, Inner(Present(contents))) /\ DOMAIN f \subseteq Positions
           /\ DOMAIN f = NodesFor(Inner(Present(contents)))
           /\ Mid(f, Inner(Present(contents)), contents, None, 0, FALSE)
           /\ \A q \in DOMAIN f : /\ Quiet(f, q) /\ f[q].bak = NoTree /\ f[q].array = None
                                  /\ f[q].inc \in BOOLEAN /\ IsNode(f[q])
<1>1. Mid(f, Inner(Present(contents)), contents, None, 0, FALSE)
  BY GoodMid
<1>2. ASSUME NEW q \in DOMAIN f
      PROVE  /\ Quiet(f, q) /\ f[q].bak = NoTree /\ f[q].array = None
             /\ f[q].inc \in BOOLEAN /\ IsNode(f[q])
  BY DEF Good, Fits, NodeOK
<1> QED
  BY <1>1, <1>2, MidFull

\* Marks do not matter to a tree that no transaction has touched.
LEMMA DimmedGood ==
    ASSUME NEW f, NEW contents, Good(f, contents), NEW D
    PROVE  Good(Dimmed(f, D), contents)
<1> DEFINE g == Dimmed(f, D)
<1>1. \A q \in DOMAIN f : /\ f[q].bak = NoTree /\ f[q].array = None
                          /\ f[q].inc \in BOOLEAN /\ IsNode(f[q])
  BY GoodFull
<1>2. DOMAIN g = DOMAIN f
  BY DEF Dimmed
<1>3. ASSUME NEW q \in DOMAIN f
      PROVE  /\ IsNode(g[q]) /\ g[q].known = f[q].known /\ g[q].key = f[q].key
             /\ g[q].val = f[q].val /\ g[q].label = f[q].label
             /\ g[q].array = None /\ g[q].inc \in BOOLEAN /\ g[q].bak = NoTree
  <2>1. CASE q \in D
    <3>1. g[q] = f[q]
      BY <2>1 DEF Dimmed
    <3> QED
      BY <1>1, <3>1
  <2>2. CASE q \notin D
    <3>1. g[q] = [f[q] EXCEPT !.inc = FALSE]
      BY <2>2 DEF Dimmed
    <3>2. IsNode(f[q])
      BY <1>1
    <3>3. Like([f[q] EXCEPT !.inc = FALSE], f[q], f[q].key, f[q].val, f[q].array, f[q].label,
               FALSE, f[q].bak)
      BY <3>2, WithIs
    <3>4. Like(g[q], f[q], f[q].key, f[q].val, f[q].array, f[q].label, FALSE, f[q].bak)
      BY <3>1, <3>3
    <3> HIDE DEF g
    <3> QED
      BY <1>1, <3>4 DEF Like
  <2> QED
    BY <2>1, <2>2
<1> HIDE DEF g
<1>4. Plain(g, f)
  BY <1>2, <1>3 DEF Plain
<1>5. Good(g, contents)
  BY <1>4, GoodPlain
<1> QED
  BY <1>5 DEF g

\* What is left of a tree that is cut from a good one is cut from a good one.
LEMMA PrunedCut ==
    ASSUME NEW f, NEW contents, Good(f, contents), NEW w, Cut(w, f), NEW s, Pruned(s, w)
    PROVE  GoodCut(s, contents)
<1> DEFINE g == Dimmed(f, DOMAIN s)
           inner == Inner(Present(contents))
<1>1. Full(f, inner) /\ DOMAIN f \subseteq Positions
  BY GoodFull
<1>2. Good(g, contents)
  BY DimmedGood
<1>3. /\ DOMAIN g = DOMAIN f
      /\ \A q \in DOMAIN s : q \in DOMAIN f => g[q] = f[q]
      /\ \A q \in DOMAIN f : q \notin DOMAIN s => g[q] = [f[q] EXCEPT !.inc = FALSE]
  BY DEF Dimmed
<1> HIDE DEF g
<1>4. DOMAIN s \subseteq DOMAIN w /\ DOMAIN w \subseteq DOMAIN f
  BY DEF Pruned, Cut
<1>5. ASSUME NEW p \in DOMAIN s PROVE CutAt(s, g, p)
  <2>1. p \in DOMAIN w /\ p \in DOMAIN f /\ g[p] = f[p]
    BY <1>3, <1>4
  <2>2. CutAt(w, f, p)
    BY <2>1 DEF Cut
  <2>3. w[p].label = f[p].label /\ w[p].inc = f[p].inc /\ w[p].bak = f[p].bak
    BY <2>2 DEF CutAt, Forgotten
  <2>4. CASE Forgotten(s[p], w[p])
    <3>1. Forgotten(s[p], g[p])
      BY <2>1, <2>3, <2>4 DEF Forgotten
    <3> QED
      BY <3>1 DEF CutAt
  <2>5. CASE s[p] = w[p] /\ \A i \in 1..2 : Append(p, i) \in DOMAIN w => Append(p, i) \in DOMAIN s
    <3>1. CASE Forgotten(w[p], f[p])
      BY <2>1, <2>5, <3>1 DEF CutAt
    <3>2. CASE ~Forgotten(w[p], f[p])
      BY <1>3, <2>1, <2>2, <2>5, <3>2 DEF CutAt
    <3> QED
      BY <3>1, <3>2
  <2> QED
    BY <2>4, <2>5 DEF Pruned
<1>6. Cut(s, g)
  BY <1>3, <1>4, <1>5 DEF Cut, Pruned
<1>7. \A q \in DOMAIN g : Quiet(g, q) /\ g[q].bak = NoTree
  BY <1>2, GoodFull
<1>8. ASSUME NEW q \in DOMAIN g, q \notin DOMAIN s PROVE g[q].inc = FALSE
  <2>1. IsNode(f[q]) /\ g[q] = [f[q] EXCEPT !.inc = FALSE]
    BY <1>1, <1>3, <1>8 DEF Full
  <2>2. Like([f[q] EXCEPT !.inc = FALSE], f[q], f[q].key, f[q].val, f[q].array, f[q].label,
             FALSE, f[q].bak)
    BY <2>1, WithIs
  <2> QED
    BY <2>1, <2>2 DEF Like
<1>9. Rests(s, g)
  BY <1>7, <1>8 DEF Rests
<1> QED
  BY <1>2, <1>6, <1>9 DEF GoodCut

\* The way to a child goes through its parent.
LEMMA KidPrefix ==
    ASSUME NEW p \in Positions, NEW i \in 1..2, Append(p, i) \in Positions
    PROVE  /\ Len(Append(p, i)) = Len(p) + 1 /\ Len(p) \in Nat
           /\ Prefix(Append(p, i), Len(p)) = p
           /\ \A d \in 0..Len(p) : Prefix(Append(p, i), d) = Prefix(p, d)
<1> DEFINE q == Append(p, i)
<1>1. q \in Positions /\ Len(q) = Len(p) + 1 /\ q # <<>> /\ Len(p) \in Nat
  BY Kid, PositionIsSeq
<1>2. Prefix(q, Len(p)) = p
  <2> HIDE DEF q
  <2>1. PICK o \in Positions, j \in 1..2 : q = Append(o, j) /\ Len(o) + 1 = Len(q) /\ o = Prefix(q, Len(q) - 1)
    BY <1>1, Up
  <2>2. o = p
    BY <2>1, KidsDiffer DEF q
  <2>3. Len(q) - 1 = Len(p)
    BY <1>1
  <2> QED
    BY <2>1, <2>2, <2>3
<1>3. ASSUME NEW d \in 0..Len(p) PROVE Prefix(q, d) = Prefix(p, d)
  <2> HIDE DEF q
  <2>1. Len(p) \in 0..Len(q)
    BY <1>1
  <2>2. Prefix(Prefix(q, Len(p)), d) = Prefix(q, d)
    BY <1>1, <2>1, PrefixOf
  <2> QED
    BY <1>2, <2>2
<1> QED
  BY <1>1, <1>2, <1>3

\* Collect forgets nodes, with all that is below them.
LEMMA CollectedPrunes ==
    ASSUME NEW w, NEW f, NEW inner, Full(f, inner), Cut(w, f), NEW s, s = Collected(w)
    PROVE  Pruned(s, w)
<1> DEFINE out == {p \in DOMAIN w : w[p].known /\ OutOfScope(p)}
           kept == {p \in DOMAIN w : \A d \in 0..(Len(p) - 1) : Prefix(p, d) \notin out}
<1>1. s = [p \in kept |-> IF p \in out THEN Forget(w[p]) ELSE w[p]]
  BY DEF Collected
<1>2. <<>> \in DOMAIN w /\ DOMAIN w \subseteq Positions /\ \A p \in DOMAIN w : IsNode(w[p])
  <2>1. \A p \in DOMAIN w : p \in Positions /\ IsNode(w[p])
    BY CutNode
  <2> QED
    BY <2>1 DEF Cut
<1>3. <<>> \in kept
  <2>1. Len(<<>>) = 0 /\ 0..(0 - 1) = {}
    BY RootIsPosition
  <2> QED
    BY <1>2, <2>1
<1>4. ASSUME NEW p \in Positions, NEW i \in 1..2, Append(p, i) \in DOMAIN w
      PROVE  /\ IsKnown(w, p) /\ p \in DOMAIN w
             /\ Append(p, i) \in kept <=> p \in kept /\ p \notin out
  <2> DEFINE q == Append(p, i)
  <2>1. IsKnown(w, p) /\ p \in DOMAIN w
    BY <1>4 DEF Cut, IsKnown
  <2>2. /\ q \in DOMAIN w /\ Len(q) = Len(p) + 1 /\ Len(p) \in Nat /\ Prefix(q, Len(p)) = p
        /\ \A d \in 0..Len(p) : Prefix(q, d) = Prefix(p, d)
    BY <1>2, <1>4, KidPrefix
  <2>3. \A d : d \in 0..(Len(q) - 1) <=> d \in 0..(Len(p) - 1) \/ d = Len(p)
    <3> DEFINE m == Len(p)
    <3>1. m \in Nat /\ Len(q) = m + 1
      BY <2>2
    <3> HIDE DEF m, q
    <3>2. \A d : d \in 0..m <=> d \in 0..(m - 1) \/ d = m
      BY <3>1
    <3>3. Len(q) - 1 = m
      BY <3>1
    <3> QED
      BY <3>2, <3>3 DEF m
  <2>4. \A d \in 0..(Len(p) - 1) : Prefix(q, d) = Prefix(p, d)
    BY <2>2
  <2> HIDE DEF q, out
  <2>5. q \in kept <=> p \in kept /\ p \notin out
    BY <2>1, <2>2, <2>3, <2>4
  <2> QED
    BY <2>1, <2>5 DEF q
<1> HIDE DEF kept
<1>5. /\ DOMAIN s = kept
      /\ \A p \in kept : p \in out => s[p] = Forget(w[p])
      /\ \A p \in kept : p \notin out => s[p] = w[p]
  BY <1>1
<1>6. kept \subseteq DOMAIN w
  BY DEF kept
<1> HIDE DEF out
<1>7. ASSUME NEW p \in Positions, NEW i \in 1..2, Append(p, i) \in DOMAIN s PROVE IsKnown(s, p)
  BY <1>4, <1>5, <1>6, <1>7 DEF IsKnown
<1>8. ASSUME NEW p \in DOMAIN s
      PROVE  \/ s[p] = w[p] /\ \A i \in 1..2 : Append(p, i) \in DOMAIN w => Append(p, i) \in DOMAIN s
             \/ Forgotten(s[p], w[p])
  <2>1. p \in kept /\ p \in DOMAIN w /\ p \in Positions /\ IsNode(w[p])
    BY <1>2, <1>5, <1>6
  <2>2. CASE p \in out
    <3>1. Forgotten(Forget(w[p]), w[p])
      BY <2>1, ForgetIs
    <3> QED
      BY <1>5, <2>1, <2>2, <3>1
  <2>3. CASE p \notin out
    BY <1>4, <1>5, <2>1, <2>3
  <2> QED
    BY <2>2, <2>3
<1> QED
  BY <1>3, <1>5, <1>6, <1>7, <1>8 DEF Pruned

\* A tree that is cut from a good one, and what Collect leaves of it.
LEMMA CollectedCut ==
    ASSUME NEW f, NEW contents, Good(f, contents), NEW t, Cut(t, f)
    PROVE  GoodCut(t, contents) /\ GoodCut(Collected(t), contents)
<1>1. Full(f, Inner(Present(contents)))
  BY GoodFull
<1>2. Pruned(t, t)
  BY DEF Pruned, Cut
<1>3. Pruned(Collected(t), t)
  BY <1>1, CollectedPrunes
<1> QED
  BY <1>2, <1>3, PrunedCut

\* Quiet stays quiet when only marks, backups and the arrays of leaves change.
LEMMA StaysQuiet ==
    ASSUME NEW f, NEW g, DOMAIN g = DOMAIN f, NEW q \in DOMAIN f, Quiet(f, q),
           g[q].val = f[q].val, g[q].label = f[q].label,
           IsLeaf(f, q) \/ g[q].array = None,
           \A i \in 1..2 : Append(q, i) \in DOMAIN f =>
               /\ g[Append(q, i)].val = f[Append(q, i)].val
               /\ g[Append(q, i)].label = f[Append(q, i)].label,
           IsLeaf(f, q) <=> Append(q, 2) \notin DOMAIN f
    PROVE  Quiet(g, q)
<1>1. CASE IsLeaf(f, q)
  BY <1>1 DEF IsLeaf, Quiet
<1>2. CASE ~IsLeaf(f, q)
  <2>1. Append(q, 1) \in DOMAIN f /\ Append(q, 2) \in DOMAIN f
    BY <1>2 DEF IsLeaf
  <2>2. 1 \in 1..2 /\ 2 \in 1..2
    OBVIOUS
  <2>3. /\ g[Append(q, 1)].val = f[Append(q, 1)].val /\ g[Append(q, 1)].label = f[Append(q, 1)].label
        /\ g[Append(q, 2)].val = f[Append(q, 2)].val /\ g[Append(q, 2)].label = f[Append(q, 2)].label
    BY <2>1, <2>2
  <2>4. Settled(f, q)
    BY <1>2 DEF Quiet
  <2>5. Settled(g, q)
    BY <2>3, <2>4 DEF Settled
  <2> QED
    BY <1>2, <2>5 DEF Quiet
<1> QED
  BY <1>1, <1>2

\* s and g are t and f with other nodes, the same in both as far as they are known.
Beside(s, g, t, f) ==
    /\ DOMAIN s = DOMAIN t /\ DOMAIN g = DOMAIN f
    /\ \A p \in DOMAIN t : /\ t[p].known = TRUE => s[p] = g[p] /\ s[p].known = TRUE
                           /\ t[p].known = FALSE => Forgotten(s[p], g[p])

\* Trees with the same nodes as far as they are known are cut as t is from f.
LEMMA DataCut ==
    ASSUME NEW t, NEW f, NEW inner, Full(f, inner), Cut(t, f),
           NEW s, NEW g, Beside(s, g, t, f)
    PROVE  Cut(s, g) /\ SeesAsMuch(s, t) /\ \A p : IsKnown(s, p) <=> IsKnown(t, p)
<1>0. /\ DOMAIN s = DOMAIN t /\ DOMAIN g = DOMAIN f
      /\ \A p \in DOMAIN t : /\ t[p].known = TRUE => s[p] = g[p] /\ s[p].known = TRUE
                             /\ t[p].known = FALSE => Forgotten(s[p], g[p])
  BY DEF Beside
<1>1. \A p \in DOMAIN t : p \in Positions /\ t[p].known \in BOOLEAN
  BY CutNode
<1>2. DOMAIN s \subseteq DOMAIN g /\ <<>> \in DOMAIN s /\ <<>> \in Positions
  BY <1>0, RootIsPosition DEF Cut
<1>3. ASSUME NEW p PROVE IsKnown(s, p) <=> IsKnown(t, p)
  <2>1. CASE p \in DOMAIN t
    <3>1. CASE t[p].known = TRUE
      BY <1>0, <2>1, <3>1 DEF IsKnown
    <3>2. CASE t[p].known = FALSE
      BY <1>0, <2>1, <3>2 DEF IsKnown, Forgotten
    <3> QED
      BY <1>1, <1>0, <2>1, <3>1, <3>2
  <2>2. CASE p \notin DOMAIN t
    BY <1>0, <2>2 DEF IsKnown
  <2> QED
    BY <2>1, <2>2
<1>4. ASSUME NEW p \in DOMAIN s PROVE CutAt(s, g, p)
  <2>1. CASE t[p].known = TRUE
    <3>1. CutAt(t, f, p)
      BY <1>0, <1>4 DEF Cut
    <3>2. ~Forgotten(t[p], f[p])
      BY <2>1 DEF Forgotten
    <3>3. \A i \in 1..2 : Append(p, i) \in DOMAIN f => Append(p, i) \in DOMAIN t
      BY <3>1, <3>2 DEF CutAt
    <3> QED
      BY <1>0, <1>4, <2>1, <3>3 DEF CutAt
  <2>2. CASE t[p].known = FALSE
    BY <1>0, <1>4, <2>2 DEF CutAt
  <2> QED
    BY <1>1, <1>0, <1>4, <2>1, <2>2
<1>5. Cut(s, g)
  BY <1>0, <1>2, <1>3, <1>4 DEF Cut, IsKnown
<1>6. ASSUME NEW k \in Keys, Sees(t, k) PROVE Sees(s, k)
  <2>1. s[<<>>].known = TRUE
    BY <1>0, <1>2, <1>3, <1>6 DEF Sees, IsKnown
  <2>2. ASSUME NEW q \in Positions, NEW i \in 1..2, On(k, q), Append(q, i) \in DOMAIN s
        PROVE  s[Append(q, i)].known = TRUE
    <3>1. IsKnown(t, Append(q, i))
      BY <1>0, <1>6, <2>2 DEF Sees, IsKnown
    <3> QED
      BY <1>3, <3>1 DEF IsKnown
  <2> QED
    BY <2>1, <2>2 DEF Sees
<1> QED
  BY <1>3, <1>5, <1>6 DEF SeesAsMuch

\* The arrays get names, or lose them, in both trees.
LEMMA NamedCut ==
    ASSUME NEW t, NEW f, NEW inner, Full(f, inner), Cut(t, f), NEW own \in BOOLEAN,
           NEW s, s = Named(t, own), NEW g, g = Named(f, own)
    PROVE  Cut(s, g) /\ SeesAsMuch(s, t) /\ (Rests(t, f) => Rests(s, g)) /\ Full(g, inner)
<1>1. \A p \in DOMAIN t : /\ p \in Positions /\ p \in DOMAIN f /\ IsNode(t[p])
  BY CutNode
<1>2. \A p \in DOMAIN f : IsNode(f[p]) /\ f[p].known = TRUE
  BY DEF Full
<1>3. DOMAIN s = DOMAIN t /\ DOMAIN g = DOMAIN f
  BY DEF Named
<1>4. \A p \in DOMAIN f :
         /\ own /\ IsLeaf(f, p) => Like(g[p], f[p], f[p].key, f[p].val, f[p].key, f[p].label, f[p].inc, f[p].bak)
         /\ ~(own /\ IsLeaf(f, p)) => Like(g[p], f[p], f[p].key, f[p].val, None, f[p].label, f[p].inc, f[p].bak)
  BY <1>2, NamedIs
<1>5. \A p \in DOMAIN t :
         /\ own /\ IsLeaf(t, p) => Like(s[p], t[p], t[p].key, t[p].val, t[p].key, t[p].label, t[p].inc, t[p].bak)
         /\ ~(own /\ IsLeaf(t, p)) => Like(s[p], t[p], t[p].key, t[p].val, None, t[p].label, t[p].inc, t[p].bak)
  BY <1>1, NamedIs
<1>6. \A p \in DOMAIN f : /\ IsNode(g[p]) /\ g[p].known = TRUE /\ g[p].val = f[p].val
                          /\ g[p].label = f[p].label /\ g[p].inc = f[p].inc /\ g[p].bak = f[p].bak
                          /\ IsLeaf(f, p) \/ g[p].array = None
  BY <1>2, <1>4 DEF Like
<1>7. ASSUME NEW p \in DOMAIN t, t[p].known = TRUE PROVE s[p] = g[p] /\ s[p].known = TRUE
  <2>1. t[p] = f[p] /\ (IsLeaf(t, p) <=> IsLeaf(f, p))
    BY <1>7, CutNode
  <2>2. s[p] = [t[p] EXCEPT !.array = IF own /\ IsLeaf(t, p) THEN t[p].key ELSE None]
    BY DEF Named
  <2>3. g[p] = [f[p] EXCEPT !.array = IF own /\ IsLeaf(f, p) THEN f[p].key ELSE None]
    BY <1>1 DEF Named
  <2>4. s[p] = g[p]
    BY <2>1, <2>2, <2>3
  <2> QED
    BY <1>1, <1>6, <2>4
<1>8. ASSUME NEW p \in DOMAIN t, t[p].known = FALSE PROVE Forgotten(s[p], g[p])
  <2>1. Forgotten(t[p], f[p])
    BY <1>8, CutNode
  <2>2. t[p].key = None
    BY <2>1 DEF Forgotten
  <2>3. Like(s[p], t[p], t[p].key, t[p].val, None, t[p].label, t[p].inc, t[p].bak)
    BY <1>5, <2>2
  <2> QED
    BY <1>1, <1>6, <2>1, <2>3 DEF Forgotten, Like
<1>9. Cut(s, g) /\ SeesAsMuch(s, t) /\ \A p : IsKnown(s, p) <=> IsKnown(t, p)
  <2>1. Beside(s, g, t, f)
    BY <1>3, <1>7, <1>8 DEF Beside
  <2> QED
    BY <2>1, DataCut
<1>10. InnerSet(inner) /\ DOMAIN f = NodesFor(inner) /\ DOMAIN f \subseteq Positions
  BY NodesArePositions DEF Full
<1>11. \A q \in DOMAIN f : IsLeaf(f, q) <=> Append(q, 2) \notin DOMAIN f
  <2>1. \A q \in Positions : Append(q, 1) \in DOMAIN f <=> Append(q, 2) \in DOMAIN f
    <3>1. 1 \in 1..2 /\ 2 \in 1..2
      OBVIOUS
    <3> QED
      BY <1>10, <3>1, NodesArePositions
  <2> QED
    BY <1>10, <2>1 DEF IsLeaf
<1>12. ASSUME NEW q \in DOMAIN f, Quiet(f, q) PROVE Quiet(g, q)
  <2>1. /\ g[q].val = f[q].val /\ g[q].label = f[q].label
        /\ IsLeaf(f, q) \/ g[q].array = None
        /\ IsLeaf(f, q) <=> Append(q, 2) \notin DOMAIN f
        /\ DOMAIN g = DOMAIN f
    BY <1>3, <1>6, <1>11
  <2>2. \A i \in 1..2 : Append(q, i) \in DOMAIN f =>
               /\ g[Append(q, i)].val = f[Append(q, i)].val
               /\ g[Append(q, i)].label = f[Append(q, i)].label
    BY <1>6
  <2> QED
    BY <1>12, <2>1, <2>2, StaysQuiet
<1>13. ASSUME Rests(t, f) PROVE Rests(s, g)
  BY <1>3, <1>6, <1>9, <1>12, <1>13 DEF Rests
<1>14. Full(g, inner)
  BY <1>3, <1>6, <1>10 DEF Full
<1> QED
  BY <1>9, <1>13, <1>14

\* A copy of the tree has no marks and no backups.
LEMMA ClonedCut ==
    ASSUME NEW f, NEW contents, Good(f, contents), NEW t, Cut(t, f)
    PROVE  GoodCut(Cloned(t), contents) /\ SeesAsMuch(Cloned(t), t)
<1> DEFINE inner == Inner(Present(contents))
           s == Cloned(t)
           g == Cloned(f)
<1>1. /\ Full(f, inner) /\ DOMAIN f \subseteq Positions
      /\ \A q \in DOMAIN f : /\ f[q].bak = NoTree /\ f[q].array = None
                             /\ f[q].inc \in BOOLEAN /\ IsNode(f[q])
  BY GoodFull
<1>2. DOMAIN s = DOMAIN t /\ DOMAIN g = DOMAIN f
  BY DEF Cloned
<1>3. ASSUME NEW n, IsNode(n), NEW m, m = [n EXCEPT !.inc = FALSE, !.bak = NoTree]
      PROVE  Like(m, n, n.key, n.val, n.array, n.label, FALSE, NoTree)
  <2> DEFINE a == [n EXCEPT !.inc = FALSE]
  <2>1. m = [a EXCEPT !.bak = NoTree]
    BY <1>3
  <2>2. Like(a, n, n.key, n.val, n.array, n.label, FALSE, n.bak)
    BY <1>3, WithIs
  <2> HIDE DEF a
  <2>3. IsNode(a)
    BY <2>2 DEF Like
  <2>4. Like([a EXCEPT !.bak = NoTree], a, a.key, a.val, a.array, a.label, a.inc, NoTree)
    BY <2>3, WithIs
  <2> QED
    BY <2>1, <2>2, <2>4 DEF Like
<1>4. ASSUME NEW q \in DOMAIN f
      PROVE  Like(g[q], f[q], f[q].key, f[q].val, f[q].array, f[q].label, FALSE, NoTree)
  <2>1. IsNode(f[q]) /\ g[q] = [f[q] EXCEPT !.inc = FALSE, !.bak = NoTree]
    BY <1>1 DEF Cloned
  <2> QED
    BY <1>3, <2>1
<1>5. \A p \in DOMAIN t : p \in DOMAIN f /\ IsNode(t[p])
  BY <1>1, CutNode
<1>6. ASSUME NEW p \in DOMAIN t
      PROVE  Like(s[p], t[p], t[p].key, t[p].val, t[p].array, t[p].label, FALSE, NoTree)
  <2>1. IsNode(t[p]) /\ s[p] = [t[p] EXCEPT !.inc = FALSE, !.bak = NoTree]
    BY <1>5 DEF Cloned
  <2> QED
    BY <1>3, <2>1
<1>7. ASSUME NEW p \in DOMAIN t, t[p].known = TRUE PROVE s[p] = g[p] /\ s[p].known = TRUE
  <2>1. t[p] = f[p]
    BY <1>1, <1>7, CutNode
  <2>2. s[p] = g[p]
    BY <1>5, <2>1 DEF Cloned
  <2> QED
    BY <1>6, <1>7, <2>2 DEF Like
<1>8. ASSUME NEW p \in DOMAIN t, t[p].known = FALSE PROVE Forgotten(s[p], g[p])
  <2>1. Forgotten(t[p], f[p])
    BY <1>1, <1>8, CutNode
  <2> QED
    BY <1>4, <1>5, <1>6, <2>1 DEF Forgotten, Like
<1> HIDE DEF s, g
<1>9. Cut(s, g) /\ SeesAsMuch(s, t)
  <2>1. Beside(s, g, t, f)
    BY <1>2, <1>7, <1>8 DEF Beside
  <2> QED
    BY <1>1, <2>1, DataCut
<1>10. Plain(g, f)
  <2>1. ASSUME NEW q \in DOMAIN f
        PROVE  /\ IsNode(g[q]) /\ g[q].known = f[q].known /\ g[q].key = f[q].key
               /\ g[q].val = f[q].val /\ g[q].label = f[q].label
               /\ g[q].array = None /\ g[q].inc \in BOOLEAN /\ g[q].bak = NoTree
    BY <1>1, <1>4 DEF Like
  <2> QED
    BY <1>2, <2>1 DEF Plain
<1>11. Good(g, contents)
  BY <1>10, GoodPlain
<1> QED
  BY <1>9, <1>11, CollectedCut DEF s

-----------------------------------------------------------------------------
(* The end of a transaction.                                               *)

\* The way to a node is made of nodes, in a tree that is cut from another too.
LEMMA CutAbove ==
    ASSUME NEW t, NEW f, NEW inner, Full(f, inner), Cut(t, f), NEW p \in DOMAIN t
    PROVE  \A d \in 0..Len(p) : Prefix(p, d) \in DOMAIN t
<1>1. p \in Positions /\ Len(p) \in Nat
  <2>1. p \in Positions
    BY CutNode
  <2> QED
    BY <2>1, PositionIsSeq
<1> DEFINE m == Len(p)
           S == {d \in 0..m : Prefix(p, m - d) \in DOMAIN t}
<1>2. 0 \in S
  <2>1. m - 0 = m /\ 0 \in 0..m /\ Prefix(p, m) = p
    BY <1>1, PrefixOf
  <2> QED
    BY <2>1
<1>3. ASSUME NEW d \in 0..m, d < m, d \in S PROVE d + 1 \in S
  <2> DEFINE e == m - (d + 1)
             q == Prefix(p, e)
  <2>1. e \in 0..Len(p) /\ e < Len(p) /\ e + 1 = m - d /\ d + 1 \in 0..m
    BY <1>1, <1>3
  <2>2. q \in Positions
    BY <1>1, <2>1, PrefixIs
  <2>3. p[e + 1] \in 1..2 /\ Prefix(p, e + 1) = Append(q, p[e + 1])
    BY <1>1, <2>1, PrefixOf
  <2>4. Append(q, p[e + 1]) \in DOMAIN t
    BY <1>3, <2>1, <2>3
  <2> HIDE DEF e, q
  <2>5. q \in DOMAIN t
    BY <2>2, <2>3, <2>4 DEF Cut, IsKnown
  <2> QED
    BY <2>1, <2>5 DEF q, e
<1>4. \A d \in 0..m : d \in S
  <2>1. m \in Nat
    BY <1>1
  <2> HIDE DEF S, m
  <2> QED
    BY <1>2, <1>3, <2>1, UpTo
<1> QED
  <2> SUFFICES ASSUME NEW d \in 0..Len(p) PROVE Prefix(p, d) \in DOMAIN t
    OBVIOUS
  <2>1. m - d \in 0..m /\ m - (m - d) = d
    BY <1>1
  <2> QED
    BY <1>4, <2>1

\* confirm does the same in both trees.
LEMMA ConfirmedCut ==
    ASSUME NEW t, NEW f, NEW inner, NEW contents, NEW k, Mid(f, inner, contents, k, 0, TRUE),
           Cut(t, f), Rests(t, f), NEW s, s = Confirmed(t), NEW g, g = Confirmed(f)
    PROVE  Cut(s, g) /\ Rests(s, g) /\ Full(g, inner) /\ SeesAsMuch(s, t)
<1>1. /\ Full(f, inner) /\ InnerSet(inner) /\ DOMAIN f = NodesFor(inner)
      /\ \A q \in DOMAIN f : IsLeaf(f, q) <=> Append(q, 2) \notin DOMAIN f
  BY MidFull, MidTree
<1>2. /\ DOMAIN g = DOMAIN f
      /\ \A p \in DOMAIN f :
           Like(g[p], f[p], f[p].key, f[p].val, f[p].array, f[p].label, f[p].inc, NoTree)
  BY ConfirmedIs
<1>3. DOMAIN s = DOMAIN t
  BY DEF Confirmed
<1>4. ASSUME NEW p \in DOMAIN t
      PROVE  /\ p \in DOMAIN f /\ IsNode(t[p]) /\ t[p].known \in BOOLEAN
             /\ \A d \in 0..Len(p) : Marked(t[Prefix(p, d)]) <=> Marked(f[Prefix(p, d)])
  <2>1. p \in DOMAIN f /\ IsNode(t[p]) /\ t[p].known \in BOOLEAN
    BY <1>1, CutNode
  <2>2. ASSUME NEW d \in 0..Len(p) PROVE Marked(t[Prefix(p, d)]) <=> Marked(f[Prefix(p, d)])
    <3> DEFINE q == Prefix(p, d)
    <3>1. q \in DOMAIN t
      BY <1>1, CutAbove
    <3> HIDE DEF q
    <3>2. CutAt(t, f, q)
      BY <3>1 DEF Cut
    <3>3. t[q].inc = f[q].inc /\ t[q].bak = f[q].bak
      BY <3>2 DEF CutAt, Forgotten
    <3> QED
      BY <3>3 DEF Marked, q
  <2> QED
    BY <2>1, <2>2
<1>5. ASSUME NEW p \in DOMAIN t, t[p].known = TRUE PROVE s[p] = g[p] /\ s[p].known = TRUE
  <2>1. t[p] = f[p]
    BY <1>1, <1>5, CutNode
  <2>2. s[p] = g[p]
    BY <1>4, <2>1 DEF Confirmed
  <2> QED
    BY <1>2, <1>4, <1>5, <2>1, <2>2 DEF Like
<1>6. ASSUME NEW p \in DOMAIN t, t[p].known = FALSE PROVE Forgotten(s[p], g[p])
  <2>1. Forgotten(t[p], f[p])
    BY <1>1, <1>6, CutNode
  <2>2. ~IsKnown(t, p)
    BY <1>6 DEF IsKnown
  <2>3. f[p].bak = NoTree
    BY <1>4, <2>2 DEF Rests
  <2>4. t[p].bak = NoTree
    BY <2>1, <2>3 DEF Forgotten
  <2>5. s[p] = t[p] \/ s[p] = [t[p] EXCEPT !.bak = NoTree]
    BY DEF Confirmed
  <2>6. Like([t[p] EXCEPT !.bak = NoTree], t[p], t[p].key, t[p].val, t[p].array, t[p].label,
             t[p].inc, NoTree)
    BY <1>4, WithIs
  <2>7. Like(t[p], t[p], t[p].key, t[p].val, t[p].array, t[p].label, t[p].inc, t[p].bak)
    BY <1>4, LikeItself
  <2>8. Like(s[p], t[p], t[p].key, t[p].val, t[p].array, t[p].label, t[p].inc, NoTree)
    BY <2>4, <2>5, <2>6, <2>7
  <2> QED
    BY <1>2, <1>4, <2>1, <2>8 DEF Like, Forgotten
<1>7. Cut(s, g) /\ SeesAsMuch(s, t) /\ \A p : IsKnown(s, p) <=> IsKnown(t, p)
  <2>1. Beside(s, g, t, f)
    BY <1>2, <1>3, <1>5, <1>6 DEF Beside
  <2> QED
    BY <1>1, <2>1, DataCut
<1>8. \A p \in DOMAIN f : /\ IsNode(g[p]) /\ g[p].known = TRUE /\ g[p].val = f[p].val
                          /\ g[p].label = f[p].label /\ g[p].inc = f[p].inc /\ g[p].bak = NoTree
                          /\ g[p].array = f[p].array
  BY <1>1, <1>2 DEF Like, Full
<1>9. ASSUME NEW q \in DOMAIN f, Quiet(f, q) PROVE Quiet(g, q)
  <2>1. /\ g[q].val = f[q].val /\ g[q].label = f[q].label
        /\ IsLeaf(f, q) \/ g[q].array = None
        /\ IsLeaf(f, q) <=> Append(q, 2) \notin DOMAIN f
        /\ DOMAIN g = DOMAIN f
    BY <1>1, <1>2, <1>8, <1>9 DEF Quiet
  <2>2. \A i \in 1..2 : Append(q, i) \in DOMAIN f =>
               /\ g[Append(q, i)].val = f[Append(q, i)].val
               /\ g[Append(q, i)].label = f[Append(q, i)].label
    BY <1>8
  <2> QED
    BY <1>9, <2>1, <2>2, StaysQuiet
<1>10. Rests(s, g)
  BY <1>2, <1>3, <1>7, <1>8, <1>9 DEF Rests
<1>11. Full(g, inner)
  BY <1>1, <1>2, <1>8 DEF Full
<1> QED
  BY <1>7, <1>10, <1>11

\* Nothing at p or below it needs an update.
Calm(f, p) == \A q \in DOMAIN f : Under(p, q) => Quiet(f, q)

\* A node that needs no update is not changed by one.
LEMMA CalmUpdate ==
    ASSUME NEW u, NEW p, IsNode(u[p]), u[p].known = TRUE, Quiet(u, p),
           IsLeaf(u, p) => u[p].label = LeafLabel(u[p].key, u[p].val),
           ~IsLeaf(u, p) => \A i \in 1..2 : u[Append(p, i)].known = TRUE
    PROVE  Update(u, p) = u[p]
<1> DEFINE n == u[p]
           m == Update(u, p)
<1>1. CASE IsLeaf(u, p)
  <2>1. m = [n EXCEPT !.label = LeafLabel(n.key, n.val)]
    BY <1>1 DEF Update
  <2>2. Like([n EXCEPT !.label = LeafLabel(n.key, n.val)], n, n.key, n.val, n.array,
             LeafLabel(n.key, n.val), n.inc, n.bak)
    BY WithIs
  <2>3. Like(m, n, n.key, n.val, n.array, n.label, n.inc, n.bak)
    BY <1>1, <2>1, <2>2
  <2> HIDE DEF m
  <2>4. m = n
    BY <2>3 DEF Like, IsNode
  <2> QED
    BY <2>4 DEF m
<1>2. CASE ~IsLeaf(u, p)
  <2> DEFINE l == u[Append(p, 1)]
             r == u[Append(p, 2)]
             sum == Parent(l.val, r.val)
  <2>1. Like(m, n, n.key, sum, None, NodeLabel(sum, l.label, r.label), n.inc, n.bak)
    BY <1>2, UpdateIs
  <2>2. n.array = None /\ n.val = sum /\ n.label = NodeLabel(n.val, l.label, r.label)
    BY <1>2 DEF Quiet, Settled
  <2>3. Like(m, n, n.key, n.val, n.array, n.label, n.inc, n.bak)
    BY <2>1, <2>2
  <2> HIDE DEF m
  <2>4. m = n
    BY <2>3 DEF Like, IsNode
  <2> QED
    BY <2>4 DEF m
<1> QED
  BY <1>1, <1>2

\* The same node with the same children is updated in the same way.
LEMMA SameUpdate ==
    ASSUME NEW u, NEW v, NEW p, u[p] = v[p], IsLeaf(u, p) <=> IsLeaf(v, p),
           IsLeaf(v, p) \/ (u[Append(p, 1)] = v[Append(p, 1)] /\ u[Append(p, 2)] = v[Append(p, 2)])
    PROVE  Update(u, p) = Update(v, p)
<1>1. CASE IsLeaf(v, p)
  BY <1>1 DEF Update
<1>2. CASE ~IsLeaf(v, p)
  BY <1>2 DEF Update
<1> QED
  BY <1>1, <1>2

\* An update leaves a node that is not known, or that has a child that is not.
LEMMA BlindUpdate ==
    ASSUME NEW u, NEW p,
           \/ u[p].known = FALSE
           \/ ~IsLeaf(u, p) /\ (u[Append(p, 1)].known = FALSE \/ u[Append(p, 2)].known = FALSE)
    PROVE  Update(u, p) = u[p]
BY DEF Update

\* Below what t does not know nothing needs an update.
LEMMA UnknownCalm ==
    ASSUME NEW t, NEW f, NEW inner, Full(f, inner), Cut(t, f), Rests(t, f),
           NEW p \in DOMAIN t, t[p].known = FALSE
    PROVE  Calm(f, p)
<1>1. p \in Positions /\ DOMAIN f \subseteq Positions /\ DOMAIN t \subseteq DOMAIN f
  <2>1. DOMAIN f \subseteq Positions
    BY NodesArePositions DEF Full
  <2> QED
    BY <2>1 DEF Cut
<1>2. ASSUME NEW q \in DOMAIN f, Under(p, q) PROVE ~IsKnown(t, q)
  <2>1. CASE q = p
    BY <2>1 DEF IsKnown
  <2>2. CASE q # p
    <3>1. Above(p, q) /\ q \in Positions
      BY <1>1, <1>2, <2>2 DEF Above
    <3>2. PICK i \in 1..2 : Append(p, i) = Prefix(q, Len(p) + 1)
      BY <1>1, <3>1, BelowKid
    <3>3. Len(p) < Len(q) /\ Len(p) \in Nat /\ Len(q) \in Nat
      BY <1>1, <3>1, UnderOrder, PositionIsSeq
    <3>4. Len(p) + 1 \in 0..Len(q)
      BY <3>3
    <3>5. q \notin DOMAIN t
      <4> SUFFICES ASSUME q \in DOMAIN t PROVE FALSE
        OBVIOUS
      <4>1. Prefix(q, Len(p) + 1) \in DOMAIN t
        BY <3>4, CutAbove
      <4>2. IsKnown(t, p)
        BY <1>1, <3>2, <4>1 DEF Cut
      <4> QED
        BY <4>2 DEF IsKnown
    <3> QED
      BY <3>5 DEF IsKnown
  <2> QED
    BY <2>1, <2>2
<1> QED
  BY <1>2 DEF Calm, Rests

\* What is below something calm is calm.
LEMMA CalmKid ==
    ASSUME NEW f, DOMAIN f \subseteq Positions, NEW p \in DOMAIN f, Calm(f, p),
           NEW i \in 1..2, Append(p, i) \in DOMAIN f
    PROVE  Calm(f, Append(p, i))
<1>1. p \in Positions /\ Append(p, i) \in Positions
  OBVIOUS
<1>2. Under(p, Append(p, i))
  BY <1>1, KidUnder DEF Above
<1>3. ASSUME NEW q \in DOMAIN f, Under(Append(p, i), q) PROVE Under(p, q)
  <2>1. q \in Positions
    OBVIOUS
  <2> QED
    BY <1>1, <1>2, <1>3, <2>1, UnderOrder
<1> QED
  BY <1>3 DEF Calm

\* v has the nodes of f where nothing needs an update; what t has are nodes in u.
KeepsCalm(v, f) == \A p \in DOMAIN f : Calm(f, p) => v[p] = f[p]

HasNodes(u, t) == \A p \in DOMAIN t : IsNode(u[p])

\* The updates of one depth.
Round(v, f, W) == [p \in DOMAIN f |-> IF p \in W THEN Update(v, p) ELSE v[p]]

\* One round of updates in both trees.
LEMMA RoundCut ==
    ASSUME NEW t, NEW f, NEW inner, Full(f, inner), Cut(t, f), Rests(t, f), LeavesAreRight(f),
           NEW u, NEW v, Beside(u, v, t, f), HasNodes(u, t), KeepsCalm(v, f), NEW W,
           NEW s, s = Round(u, t, W), NEW g, g = Round(v, f, W)
    PROVE  Beside(s, g, t, f) /\ HasNodes(s, t) /\ KeepsCalm(g, f)
<1>1. /\ DOMAIN u = DOMAIN t /\ DOMAIN v = DOMAIN f
      /\ \A p \in DOMAIN t : /\ t[p].known = TRUE => u[p] = v[p] /\ u[p].known = TRUE
                             /\ t[p].known = FALSE => Forgotten(u[p], v[p])
  BY DEF Beside
<1>2. /\ \A p : (IsLeaf(u, p) <=> IsLeaf(t, p)) /\ (IsLeaf(v, p) <=> IsLeaf(f, p))
  BY <1>1 DEF IsLeaf
<1>3. /\ DOMAIN f = NodesFor(inner) /\ InnerSet(inner) /\ DOMAIN f \subseteq Positions
      /\ DOMAIN t \subseteq DOMAIN f
  BY NodesArePositions DEF Full, Cut
<1>4. ASSUME NEW p \in DOMAIN f, ~IsLeaf(f, p)
      PROVE  Append(p, 1) \in DOMAIN f /\ Append(p, 2) \in DOMAIN f
  <2>1. 1 \in 1..2 /\ 2 \in 1..2
    OBVIOUS
  <2>2. Append(p, 1) \in DOMAIN f
    BY <1>4 DEF IsLeaf
  <2>3. p \in inner
    BY <1>3, <2>1, <2>2, NodesArePositions
  <2> QED
    BY <1>3, <2>1, <2>3, NodesArePositions
<1>5. DOMAIN s = DOMAIN t /\ DOMAIN g = DOMAIN f
  BY DEF Round
<1>6. ASSUME NEW p \in DOMAIN f, Calm(f, p) PROVE g[p] = f[p]
  <2>1. v[p] = f[p]
    BY <1>6 DEF KeepsCalm
  <2>2. ASSUME ~IsLeaf(f, p), NEW i \in 1..2
        PROVE  v[Append(p, i)] = f[Append(p, i)] /\ f[Append(p, i)].known = TRUE
    <3>1. Append(p, i) \in DOMAIN f
      BY <1>4, <2>2
    <3>2. Calm(f, Append(p, i))
      BY <1>3, <1>6, <3>1, CalmKid
    <3> QED
      BY <3>1, <3>2 DEF KeepsCalm, Full
  <2>3. Update(v, p) = Update(f, p)
    <3>1. 1 \in 1..2 /\ 2 \in 1..2
      OBVIOUS
    <3>2. IsLeaf(f, p) \/ (v[Append(p, 1)] = f[Append(p, 1)] /\ v[Append(p, 2)] = f[Append(p, 2)])
      BY <2>2, <3>1
    <3> QED
      BY <1>2, <2>1, <3>2, SameUpdate
  <2>4. Update(f, p) = f[p]
    <3>1. Under(p, p)
      BY <1>3, UnderIs
    <3>2. Quiet(f, p)
      BY <1>6, <3>1 DEF Calm
    <3>3. /\ IsNode(f[p]) /\ f[p].known = TRUE
          /\ IsLeaf(f, p) => f[p].label = LeafLabel(f[p].key, f[p].val)
      BY DEF Full, LeavesAreRight
    <3>4. ~IsLeaf(f, p) => \A i \in 1..2 : f[Append(p, i)].known = TRUE
      BY <2>2
    <3> QED
      BY <3>2, <3>3, <3>4, CalmUpdate
  <2> QED
    BY <2>1, <2>3, <2>4 DEF Round
<1>7. ASSUME NEW p \in DOMAIN t, t[p].known = FALSE PROVE Forgotten(s[p], g[p]) /\ IsNode(s[p])
  <2>1. Forgotten(u[p], v[p]) /\ p \in DOMAIN f
    BY <1>1, <1>3, <1>7
  <2>2. Calm(f, p)
    BY <1>7, UnknownCalm
  <2>3. v[p] = f[p] /\ g[p] = f[p]
    BY <1>6, <2>1, <2>2 DEF KeepsCalm
  <2>4. Update(u, p) = u[p]
    BY <2>1, BlindUpdate DEF Forgotten
  <2>5. s[p] = u[p]
    BY <2>4 DEF Round
  <2> QED
    BY <2>1, <2>3, <2>5 DEF Forgotten
<1>8. ASSUME NEW p \in DOMAIN t, t[p].known = TRUE
      PROVE  s[p] = g[p] /\ s[p].known = TRUE /\ IsNode(s[p])
  <2>1. u[p] = v[p] /\ u[p].known = TRUE /\ IsNode(u[p]) /\ p \in DOMAIN f /\ p \in Positions
    BY <1>1, <1>3, <1>8 DEF HasNodes
  <2>2. IsLeaf(t, p) <=> IsLeaf(f, p)
    BY <1>8, CutNode
  <2>3. CASE p \notin W
    BY <2>1, <2>3 DEF Round
  <2>4. CASE p \in W /\ IsLeaf(f, p)
    <3>1. Update(u, p) = Update(v, p)
      BY <1>2, <2>1, <2>2, <2>4, SameUpdate
    <3>2. s[p] = Update(u, p) /\ g[p] = Update(v, p)
      BY <2>1, <2>4 DEF Round
    <3> DEFINE n == u[p]
               m == [n EXCEPT !.label = LeafLabel(n.key, n.val)]
    <3>3. Update(u, p) = m
      BY <1>2, <2>1, <2>2, <2>4 DEF Update
    <3>4. Like(m, n, n.key, n.val, n.array, LeafLabel(n.key, n.val), n.inc, n.bak)
      BY <2>1, WithIs
    <3> HIDE DEF m
    <3> QED
      BY <2>1, <3>1, <3>2, <3>3, <3>4 DEF Like
  <2>5. CASE p \in W /\ ~IsLeaf(f, p)
    <3>1. /\ Append(p, 1) \in DOMAIN f /\ Append(p, 2) \in DOMAIN f /\ ~IsLeaf(u, p) /\ ~IsLeaf(v, p)
          /\ 1 \in 1..2 /\ 2 \in 1..2
      BY <1>2, <1>4, <2>1, <2>2, <2>5
    <3>2. \A i \in 1..2 : Append(p, i) \in DOMAIN t <=> Append(p, i) \in DOMAIN f
      BY <1>8, CutNode
    <3>3. Append(p, 1) \in DOMAIN t /\ Append(p, 2) \in DOMAIN t
      BY <3>1, <3>2
    <3>4. /\ t[Append(p, 1)].known \in BOOLEAN /\ t[Append(p, 2)].known \in BOOLEAN
      BY <3>3, CutNode
    <3>5. s[p] = Update(u, p) /\ g[p] = Update(v, p)
      BY <2>1, <2>5 DEF Round
    <3>6. CASE t[Append(p, 1)].known = TRUE /\ t[Append(p, 2)].known = TRUE
      <4>1. /\ u[Append(p, 1)] = v[Append(p, 1)] /\ u[Append(p, 2)] = v[Append(p, 2)]
            /\ u[Append(p, 1)].known = TRUE /\ u[Append(p, 2)].known = TRUE
        BY <1>1, <3>3, <3>6
      <4>2. Update(u, p) = Update(v, p)
        BY <1>2, <2>1, <3>1, <4>1, SameUpdate
      <4>3. \A i \in 1..2 : u[Append(p, i)].known = TRUE
        <5>1. \A i \in 1..2 : i = 1 \/ i = 2
          OBVIOUS
        <5> QED
          BY <4>1, <5>1
      <4> DEFINE n == u[p]
                 l == u[Append(p, 1)]
                 r == u[Append(p, 2)]
                 sum == Parent(l.val, r.val)
      <4>4. Like(Update(u, p), n, n.key, sum, None, NodeLabel(sum, l.label, r.label), n.inc, n.bak)
        BY <2>1, <3>1, <4>3, UpdateIs
      <4>5. IsNode(Update(u, p)) /\ Update(u, p).known = TRUE
        BY <2>1, <4>4 DEF Like
      <4> QED
        BY <3>5, <4>2, <4>5
    <3>7. CASE \E i \in 1..2 : t[Append(p, i)].known = FALSE
      <4>1. PICK i \in 1..2 : t[Append(p, i)].known = FALSE
        BY <3>7
      <4>2. Append(p, i) \in DOMAIN t
        BY <3>1, <3>2, <3>3, <4>1
      <4>3. u[Append(p, i)].known = FALSE
        BY <1>1, <4>1, <4>2 DEF Forgotten
      <4>4. i = 1 \/ i = 2
        OBVIOUS
      <4>5. Update(u, p) = u[p]
        BY <3>1, <4>3, <4>4, BlindUpdate
      <4>6. ~IsKnown(t, Append(p, i))
        BY <4>1 DEF IsKnown
      <4>7. Calm(f, p)
        BY <2>1, <4>2, <4>6 DEF Rests, Calm
      <4>8. g[p] = f[p] /\ v[p] = f[p]
        BY <1>6, <2>1, <4>7 DEF KeepsCalm
      <4> QED
        BY <2>1, <3>5, <4>5, <4>8
    <3> QED
      BY <3>1, <3>4, <3>6, <3>7
  <2> QED
    BY <2>3, <2>4, <2>5
<1>9. \A p \in DOMAIN t : t[p].known \in BOOLEAN
  BY CutNode
<1> QED
  BY <1>5, <1>6, <1>7, <1>8, <1>9 DEF Beside, HasNodes, KeepsCalm

-----------------------------------------------------------------------------
(* The rounds of the updates.                                              *)

\* The positions of V that are updated in round i.
Turn(V, i) == {p \in V : Len(p) = Bits + 1 - i}

\* up[i] is the tree after i rounds.
IsRelabelling(up, t, V) ==
    /\ up[0] = t /\ Relabelled(t, V) = up[Bits + 1]
    /\ \A i \in 1..(Bits + 1) : up[i] = Round(up[i - 1], t, Turn(V, i))

\* The updates, round after round.
LEMMA RelabellingIs ==
    ASSUME NEW t, NEW V
    PROVE  \E up : IsRelabelling(up, t, V)
<1>1. PICK up : /\ up[0] = t /\ Relabelled(t, V) = up[Bits + 1]
                /\ \A i \in 1..(Bits + 1) :
                        up[i] = [p \in DOMAIN t |->
                                     IF p \in V /\ Len(p) = Bits + 1 - i
                                     THEN Update(up[i - 1], p) ELSE up[i - 1][p]]
  BY RelabelledIs, Z3T(60)
<1>2. ASSUME NEW i \in 1..(Bits + 1) PROVE up[i] = Round(up[i - 1], t, Turn(V, i))
  BY <1>1 DEF Round, Turn
<1>3. IsRelabelling(up, t, V)
  BY <1>1, <1>2 DEF IsRelabelling
<1> QED
  BY <1>3

\* All updates in both trees.
LEMMA RelabelledCut ==
    ASSUME NEW t, NEW f, NEW inner, Full(f, inner), Cut(t, f), Rests(t, f), LeavesAreRight(f),
           NEW V, NEW s, s = Relabelled(t, V), NEW g, g = Relabelled(f, V)
    PROVE  Beside(s, g, t, f) /\ HasNodes(s, t) /\ KeepsCalm(g, f)
<1> DEFINE Fine(u, v) == Beside(u, v, t, f) /\ HasNodes(u, t) /\ KeepsCalm(v, f)
<1>1. PICK up : IsRelabelling(up, t, V)
  BY RelabellingIs
<1>2. PICK vp : IsRelabelling(vp, f, V)
  BY RelabellingIs
<1> DEFINE S == {i \in 0..(Bits + 1) : Fine(up[i], vp[i])}
<1>3. Fine(t, f)
  <2>1. \A p \in DOMAIN t : IsNode(t[p])
    BY CutNode
  <2>2. ASSUME NEW p \in DOMAIN t, t[p].known = TRUE PROVE t[p] = f[p]
    BY <2>2, CutNode
  <2>3. ASSUME NEW p \in DOMAIN t, t[p].known = FALSE PROVE Forgotten(t[p], f[p])
    BY <2>3, CutNode
  <2> QED
    BY <2>1, <2>2, <2>3 DEF Beside, HasNodes, KeepsCalm
<1>4. Bits + 1 \in Nat /\ 0 \in 0..(Bits + 1)
  BY PathsDiffer
<1>5. 0 \in S
  BY <1>1, <1>2, <1>3, <1>4 DEF IsRelabelling
<1>6. ASSUME NEW i \in 0..(Bits + 1), i < Bits + 1, i \in S PROVE i + 1 \in S
  <2> DEFINE j == i + 1
  <2>1. j \in 1..(Bits + 1) /\ j \in 0..(Bits + 1) /\ j - 1 = i
    BY <1>4, <1>6
  <2> HIDE DEF j
  <2>2. up[j] = Round(up[i], t, Turn(V, j)) /\ vp[j] = Round(vp[i], f, Turn(V, j))
    BY <1>1, <1>2, <2>1 DEF IsRelabelling
  <2>3. Beside(up[i], vp[i], t, f) /\ HasNodes(up[i], t) /\ KeepsCalm(vp[i], f)
    BY <1>6
  <2>4. Fine(up[j], vp[j])
    BY <2>2, <2>3, RoundCut
  <2> QED
    BY <2>1, <2>4 DEF j
<1> HIDE DEF S
<1>7. \A i \in 0..(Bits + 1) : i \in S
  BY <1>4, <1>5, <1>6, UpTo
<1>8. Bits + 1 \in S
  BY <1>4, <1>7
<1>9. Fine(up[Bits + 1], vp[Bits + 1])
  BY <1>8 DEF S
<1> QED
  BY <1>1, <1>2, <1>9 DEF IsRelabelling

\* fix does the same in both trees.
LEMMA FixedCut ==
    ASSUME NEW t, NEW f, NEW inner, Full(f, inner), Cut(t, f), Rests(t, f), LeavesAreRight(f),
           NEW s, s = Fixed(t), NEW g, g = Fixed(f)
    PROVE  Cut(s, g) /\ SeesAsMuch(s, t)
<1> DEFINE V == {p \in DOMAIN t : \A d \in 0..Len(p) : t[Prefix(p, d)].inc}
           W == {p \in DOMAIN f : \A d \in 0..Len(p) : f[Prefix(p, d)].inc}
           r == Relabelled(t, V)
           h == Relabelled(f, V)
<1>1. DOMAIN t \subseteq DOMAIN f /\ DOMAIN f \subseteq Positions
  BY NodesArePositions DEF Full, Cut
<1>2. V = W
  <2>1. ASSUME NEW p \in DOMAIN t, NEW d \in 0..Len(p)
        PROVE  t[Prefix(p, d)].inc = f[Prefix(p, d)].inc
    <3> DEFINE q == Prefix(p, d)
    <3>1. q \in DOMAIN t
      BY CutAbove
    <3> HIDE DEF q
    <3>2. t[q].inc = f[q].inc
      BY <3>1, CutNode
    <3> QED
      BY <3>2 DEF q
  <2>2. ASSUME NEW p \in DOMAIN f, p \notin DOMAIN t PROVE p \notin W
    <3>1. p \in Positions /\ f[p].inc = FALSE
      BY <1>1, <2>2 DEF Rests
    <3>2. Prefix(p, Len(p)) = p /\ Len(p) \in 0..Len(p)
      BY <3>1, PrefixOf, PositionIsSeq
    <3> QED
      BY <3>1, <3>2
  <2>3. ASSUME NEW p \in DOMAIN t PROVE p \in V <=> p \in W
    BY <1>1, <2>1
  <2> QED
    BY <1>1, <2>2, <2>3
<1>3. /\ s = [p \in DOMAIN t |-> IF p \in V THEN [r[p] EXCEPT !.inc = FALSE] ELSE r[p]]
      /\ g = [p \in DOMAIN f |-> IF p \in V THEN [h[p] EXCEPT !.inc = FALSE] ELSE h[p]]
  BY <1>2 DEF Fixed
<1> HIDE DEF V, W
<1>4. Beside(r, h, t, f) /\ HasNodes(r, t) /\ KeepsCalm(h, f)
  BY RelabelledCut
<1> HIDE DEF r, h
<1>5. ASSUME NEW p \in DOMAIN t, t[p].known = TRUE PROVE s[p] = g[p] /\ s[p].known = TRUE
  <2> DEFINE n == r[p]
             m == [n EXCEPT !.inc = FALSE]
  <2>1. n = h[p] /\ n.known = TRUE /\ IsNode(n) /\ p \in DOMAIN f
    BY <1>1, <1>4, <1>5 DEF Beside, HasNodes
  <2>2. s[p] = g[p] /\ (s[p] = m \/ s[p] = n)
    BY <1>3, <2>1
  <2> HIDE DEF n
  <2>3. Like(m, n, n.key, n.val, n.array, n.label, FALSE, n.bak)
    BY <2>1, WithIs
  <2> HIDE DEF m
  <2>4. m.known = TRUE
    BY <2>1, <2>3 DEF Like
  <2> QED
    BY <2>1, <2>2, <2>4
<1>6. ASSUME NEW p \in DOMAIN t, t[p].known = FALSE PROVE Forgotten(s[p], g[p])
  <2> DEFINE n == r[p]
             o == h[p]
             m == [n EXCEPT !.inc = FALSE]
             k == [o EXCEPT !.inc = FALSE]
  <2>1. Calm(f, p) /\ p \in DOMAIN f
    BY <1>1, <1>6, UnknownCalm
  <2>2. o = f[p] /\ IsNode(f[p])
    BY <1>4, <2>1 DEF KeepsCalm, Full
  <2>3. Forgotten(n, o) /\ IsNode(n) /\ IsNode(o)
    BY <1>4, <1>6, <2>2 DEF Beside, HasNodes
  <2>4. (s[p] = m /\ g[p] = k) \/ (s[p] = n /\ g[p] = o)
    BY <1>3, <2>1
  <2> HIDE DEF n, o
  <2>5. Like(m, n, n.key, n.val, n.array, n.label, FALSE, n.bak)
    BY <2>3, WithIs
  <2>6. Like(k, o, o.key, o.val, o.array, o.label, FALSE, o.bak)
    BY <2>3, WithIs
  <2> HIDE DEF m, k
  <2>7. Forgotten(m, k)
    BY <2>3, <2>5, <2>6 DEF Like, Forgotten
  <2> QED
    BY <2>3, <2>4, <2>7
<1>7. DOMAIN s = DOMAIN t /\ DOMAIN g = DOMAIN f
  BY <1>3
<1>8. Beside(s, g, t, f)
  BY <1>5, <1>6, <1>7 DEF Beside
<1> QED
  BY <1>8, DataCut

\* What is left after Collect is left without the names of the arrays too.
LEMMA NamedPrunes ==
    ASSUME NEW w, NEW f, NEW inner, Full(f, inner), Cut(w, f), NEW x, Pruned(x, w),
           NEW s, s = Named(x, FALSE), NEW v, v = Named(w, FALSE)
    PROVE  Pruned(s, v)
<1>1. DOMAIN s = DOMAIN x /\ DOMAIN v = DOMAIN w /\ DOMAIN x \subseteq DOMAIN w
  BY DEF Named, Pruned
<1>2. ASSUME NEW p \in DOMAIN w PROVE Like(v[p], w[p], w[p].key, w[p].val, None, w[p].label, w[p].inc, w[p].bak)
  <2>1. IsNode(w[p])
    BY CutNode
  <2>2. v[p] = [w[p] EXCEPT !.array = None]
    BY DEF Named
  <2> QED
    BY <2>1, <2>2, WithIs
<1>3. ASSUME NEW p \in DOMAIN x, IsNode(x[p])
      PROVE  Like(s[p], x[p], x[p].key, x[p].val, None, x[p].label, x[p].inc, x[p].bak)
  <2>2. s[p] = [x[p] EXCEPT !.array = None]
    BY DEF Named
  <2> QED
    BY <1>3, <2>2, WithIs
<1>4. ASSUME NEW p \in DOMAIN x, IsKnown(x, p) PROVE IsKnown(s, p)
  <2>1. IsNode(x[p])
    <3>1. CASE x[p] = w[p]
      BY <1>1, <3>1, CutNode
    <3>2. CASE Forgotten(x[p], w[p])
      BY <3>2 DEF Forgotten
    <3> QED
      BY <3>1, <3>2 DEF Pruned
  <2> QED
    BY <1>1, <1>3, <1>4, <2>1 DEF IsKnown, Like
<1>5. ASSUME NEW p \in DOMAIN s
      PROVE  \/ s[p] = v[p] /\ \A i \in 1..2 : Append(p, i) \in DOMAIN v => Append(p, i) \in DOMAIN s
             \/ Forgotten(s[p], v[p])
  <2>1. p \in DOMAIN x /\ p \in DOMAIN w
    BY <1>1
  <2>2. CASE x[p] = w[p] /\ \A i \in 1..2 : Append(p, i) \in DOMAIN w => Append(p, i) \in DOMAIN x
    <3>1. s[p] = v[p]
      BY <2>1, <2>2 DEF Named
    <3> QED
      BY <1>1, <2>2, <3>1
  <2>3. CASE Forgotten(x[p], w[p])
    <3>1. IsNode(x[p])
      BY <2>3 DEF Forgotten
    <3>2. Like(s[p], x[p], x[p].key, x[p].val, None, x[p].label, x[p].inc, x[p].bak)
      BY <1>3, <2>1, <3>1
    <3>3. Like(v[p], w[p], w[p].key, w[p].val, None, w[p].label, w[p].inc, w[p].bak)
      BY <1>2, <2>1
    <3>4. Forgotten(s[p], v[p])
      BY <2>3, <3>2, <3>3 DEF Like, Forgotten
    <3> QED
      BY <3>4
  <2> QED
    BY <2>1, <2>2, <2>3 DEF Pruned
<1>6. <<>> \in DOMAIN s
  BY <1>1 DEF Pruned
<1>7. ASSUME NEW p \in Positions, NEW i \in 1..2, Append(p, i) \in DOMAIN s PROVE IsKnown(s, p)
  <2>1. IsKnown(x, p)
    BY <1>1, <1>7 DEF Pruned
  <2> QED
    BY <1>4, <2>1 DEF IsKnown
<1> QED
  BY <1>1, <1>5, <1>6, <1>7 DEF Pruned

\* End makes of a tree a good one, and of a tree that is cut from it one that is cut
\* from a good one.
LEMMA EndedCut ==
    ASSUME NEW t, NEW f, NEW contents, Has(f, contents, TRUE), Cut(t, f), Rests(t, f)
    PROVE  GoodCut(Ended(t), contents)
<1> DEFINE inner == Inner(Present(contents))
           s == Confirmed(t)
           g == Confirmed(f)
           v == Fixed(s)
           w == Fixed(g)
           x == Collected(v)
<1>1. Mid(f, inner, contents, None, 0, TRUE)
  BY DEF Has
<1>2. Cut(s, g) /\ Rests(s, g) /\ Full(g, inner)
  BY <1>1, ConfirmedCut
<1>3. LeavesAreRight(g) /\ SettledFrom(w, g, inner)
  BY <1>1, ConfirmedRight
<1>4. Good(Named(w, FALSE), contents)
  BY <1>1, FixedGood
<1>5. Ended(t) = Named(x, FALSE)
  BY DEF Ended
<1> HIDE DEF s, g
<1>6. Cut(v, w)
  BY <1>2, <1>3, FixedCut
<1>7. Full(w, inner)
  BY <1>2, <1>3 DEF SettledFrom, Full
<1> HIDE DEF v, w
<1>8. Pruned(x, v)
  BY <1>6, <1>7, CollectedPrunes
<1> HIDE DEF x
<1>9. Pruned(Named(x, FALSE), Named(v, FALSE))
  BY <1>6, <1>7, <1>8, NamedPrunes
<1>10. Cut(Named(v, FALSE), Named(w, FALSE))
  BY <1>6, <1>7, NamedCut
<1> QED
  BY <1>4, <1>5, <1>9, <1>10, PrunedCut

\* Begin names the arrays in both trees.
LEMMA BegunCut ==
    ASSUME NEW t, NEW f, NEW contents, Good(f, contents), Cut(t, f), Rests(t, f),
           NEW s, s = Named(t, TRUE), NEW g, g = Named(f, TRUE)
    PROVE  /\ Has(g, contents, TRUE) /\ Returns(g, contents)
           /\ Cut(s, g) /\ Rests(s, g) /\ SeesAsMuch(s, t)
<1>1. Has(g, contents, TRUE) /\ Rolls(g, f)
  BY BeginMid DEF Has
<1>2. Returns(g, contents)
  BY <1>1 DEF Returns
<1>3. Full(f, Inner(Present(contents)))
  BY GoodFull
<1>4. TRUE \in BOOLEAN
  OBVIOUS
<1>5. Cut(s, g) /\ Rests(s, g) /\ SeesAsMuch(s, t)
  BY <1>3, <1>4, NamedCut
<1> QED
  BY <1>1, <1>2, <1>5

\* w has the steps of the walk of Rollback to p.
IsWayBack(w, t, p) ==
    /\ w[0] = Visit([tree |-> t, goes |-> TRUE], Prefix(p, 0))
    /\ \A d \in 1..Len(p) : w[d] = Visit(w[d - 1], Prefix(p, d))

\* All walks of Rollback to p are the same.
LEMMA OneWayBack ==
    ASSUME NEW t, NEW p \in Positions, NEW w, IsWayBack(w, t, p)
    PROVE  Source(t, p) = w[Len(p)].tree
<1>1. PICK v : IsWayBack(v, t, p) /\ Source(t, p) = v[Len(p)].tree
  BY SourceIs, Z3T(60) DEF IsWayBack
<1> DEFINE m == Len(p)
           S == {d \in 0..m : w[d] = v[d]}
<1>2. m \in Nat
  BY PositionIsSeq
<1>3. 0 \in S
  BY <1>1, <1>2 DEF IsWayBack
<1>4. ASSUME NEW d \in 0..m, d < m, d \in S PROVE d + 1 \in S
  <2>1. d + 1 \in 1..m /\ d + 1 \in 0..m /\ (d + 1) - 1 = d
    BY <1>2, <1>4
  <2>2. w[d + 1] = Visit(w[d], Prefix(p, d + 1)) /\ v[d + 1] = Visit(v[d], Prefix(p, d + 1))
    BY <1>1, <2>1 DEF IsWayBack
  <2> QED
    BY <1>4, <2>1, <2>2
<1> HIDE DEF m, S
<1>5. \A d \in 0..m : d \in S
  BY <1>2, <1>3, <1>4, UpTo
<1>6. m \in S
  BY <1>2, <1>5
<1> QED
  BY <1>1, <1>6 DEF S, m

\* The walk to c, a child of p, is one to p with one step more.
GoesOnTo(w, t, p, c) ==
    /\ IsWayBack(w, t, p)
    /\ w[Len(p) + 1] = Visit(w[Len(p)], c)
    /\ Source(t, p) = w[Len(p)].tree /\ Source(t, c) = w[Len(p) + 1].tree

\* A walk to a child is one to its parent, with one step more.
LEMMA WayBackToKid ==
    ASSUME NEW t, NEW p \in Positions, NEW i \in 1..2, Append(p, i) \in Positions,
           NEW c, c = Append(p, i), NEW w, IsWayBack(w, t, c)
    PROVE  GoesOnTo(w, t, p, c)
<1> DEFINE m == Len(p)
<1>1. Len(c) = m + 1 /\ m \in Nat /\ \A d \in 0..m : Prefix(c, d) = Prefix(p, d)
  BY KidPrefix
<1>2. Prefix(c, Len(c)) = c
  BY PrefixOf
<1>3. /\ w[0] = Visit([tree |-> t, goes |-> TRUE], Prefix(c, 0))
      /\ \A d \in 1..(m + 1) : w[d] = Visit(w[d - 1], Prefix(c, d))
  BY <1>1 DEF IsWayBack
<1>4. m + 1 \in 1..(m + 1) /\ (m + 1) - 1 = m /\ 0 \in 0..m
      /\ \A d \in 1..m : d \in 1..(m + 1) /\ d \in 0..m
  BY <1>1
<1>5. w[m + 1] = Visit(w[m], c)
  <2>1. Prefix(c, m + 1) = c
    BY <1>1, <1>2
  <2> QED
    BY <1>3, <1>4, <2>1
<1>6. IsWayBack(w, t, p)
  <2>1. w[0] = Visit([tree |-> t, goes |-> TRUE], Prefix(p, 0))
    BY <1>1, <1>3, <1>4
  <2>2. \A d \in 1..m : w[d] = Visit(w[d - 1], Prefix(p, d))
    BY <1>1, <1>3, <1>4
  <2> QED
    BY <2>1, <2>2 DEF IsWayBack
<1>7. Source(t, p) = w[Len(p)].tree
  BY <1>6, OneWayBack
<1>8. Source(t, c) = w[m + 1].tree
  BY <1>1, OneWayBack
<1> QED
  BY <1>5, <1>6, <1>7, <1>8 DEF GoesOnTo

\* Two walks of Rollback, one in each tree, at the same position: each is still in the
\* tree it began in, or both are in the same backup.
InStep(x, y, t, f) ==
    /\ IsWalk(x) /\ IsWalk(y) /\ x.goes \in BOOLEAN /\ y.goes \in BOOLEAN /\ x.goes = y.goes
    /\ (x.tree = t /\ y.tree = f) \/ x.tree = y.tree

\* The walks of Rollback in both trees stay in step.
LEMMA StepsBack ==
    ASSUME NEW t, NEW f, NEW inner, Full(f, inner), Cut(t, f), Rests(t, f),
           NEW x, NEW y, InStep(x, y, t, f), NEW p,
           NEW a, a = Visit(x, p), NEW b, b = Visit(y, p)
    PROVE  /\ InStep(a, b, t, f)
           /\ x.tree = y.tree => a.tree = b.tree
           /\ x.tree = t /\ y.tree = f =>
                 \/ a.tree = t /\ b.tree = f
                 \/ a.tree = b.tree /\ p \in DOMAIN t
<1>1. /\ IsWalk(a) /\ a.goes \in BOOLEAN
      /\ Going(x) /\ p \in DOMAIN x.tree /\ Marked(x.tree[p]) =>
           a.tree = Restore(x.tree, p) /\ Going(a)
      /\ ~(Going(x) /\ p \in DOMAIN x.tree /\ Marked(x.tree[p])) =>
           a.tree = x.tree /\ ~Going(a)
  BY VisitIs DEF InStep
<1>2. /\ IsWalk(b) /\ b.goes \in BOOLEAN
      /\ Going(y) /\ p \in DOMAIN y.tree /\ Marked(y.tree[p]) =>
           b.tree = Restore(y.tree, p) /\ Going(b)
      /\ ~(Going(y) /\ p \in DOMAIN y.tree /\ Marked(y.tree[p])) =>
           b.tree = y.tree /\ ~Going(b)
  BY VisitIs DEF InStep
<1>3. Going(x) <=> Going(y)
  BY DEF InStep, Going
<1>4. CASE x.tree = y.tree
  <2>1. a.tree = b.tree /\ (Going(a) <=> Going(b))
    BY <1>1, <1>2, <1>3, <1>4
  <2>2. a.goes = b.goes
    BY <1>1, <1>2, <2>1 DEF Going
  <2>3. InStep(a, b, t, f)
    BY <1>1, <1>2, <2>1, <2>2 DEF InStep
  <2>4. x.tree = t /\ y.tree = f => a.tree = b.tree /\ (p \in DOMAIN t \/ (a.tree = t /\ b.tree = f))
    BY <1>1, <1>4, <2>1
  <2> QED
    BY <2>1, <2>3, <2>4
<1>5. CASE x.tree = t /\ y.tree = f /\ x.tree # y.tree
  <2>1. CASE p \in DOMAIN t
    <3>0. CutAt(t, f, p)
      BY <2>1 DEF Cut
    <3>1. p \in DOMAIN f /\ t[p].inc = f[p].inc /\ t[p].bak = f[p].bak
      BY <2>1, <3>0 DEF Cut, CutAt, Forgotten
    <3>2. Marked(t[p]) <=> Marked(f[p])
      BY <3>1 DEF Marked
    <3>3. (Restore(t, p) = t /\ Restore(f, p) = f) \/ Restore(t, p) = Restore(f, p)
      BY <3>1 DEF Restore
    <3>4. Going(a) <=> Going(b)
      BY <1>1, <1>2, <1>3, <1>5, <2>1, <3>1, <3>2
    <3>5. a.goes = b.goes
      BY <1>1, <1>2, <3>4 DEF Going
    <3>6. (a.tree = t /\ b.tree = f) \/ a.tree = b.tree
      BY <1>1, <1>2, <1>3, <1>5, <2>1, <3>1, <3>2, <3>3
    <3>7. InStep(a, b, t, f)
      BY <1>1, <1>2, <3>5, <3>6 DEF InStep
    <3> QED
      BY <1>5, <2>1, <3>6, <3>7
  <2>2. CASE p \notin DOMAIN t
    <3>1. p \in DOMAIN f => ~Marked(f[p])
      BY <2>2 DEF Rests, IsKnown, Marked
    <3>2. a.tree = t /\ ~Going(a) /\ b.tree = f /\ ~Going(b)
      BY <1>1, <1>2, <1>5, <2>2, <3>1
    <3>3. a.goes = b.goes
      BY <1>1, <1>2, <3>2 DEF Going
    <3>4. InStep(a, b, t, f)
      BY <1>1, <1>2, <3>2, <3>3 DEF InStep
    <3> QED
      BY <1>5, <3>2, <3>4
  <2> QED
    BY <2>1, <2>2
<1> QED
  BY <1>4, <1>5 DEF InStep

\* Rollback finds p and its child c in the trees themselves, or c in a backup that both
\* have at c, or p and c in one that both have above.
KidSource(t, f, p, c) ==
    \/ /\ Source(t, p) = t /\ Source(f, p) = f
       /\ \/ Source(t, c) = t /\ Source(f, c) = f
          \/ Source(t, c) = Source(f, c) /\ c \in DOMAIN t
    \/ Source(t, p) = Source(f, p) /\ Source(t, c) = Source(f, c)

\* Rollback finds the root where it is, and a child of a node in the same tree as the
\* node, or in a backup.
LEMMA SourceCut ==
    ASSUME NEW t, NEW f, NEW inner, NEW contents, NEW k, Mid(f, inner, contents, k, 0, TRUE),
           Cut(t, f), Rests(t, f)
    PROVE  /\ Source(t, <<>>) = t /\ Source(f, <<>>) = f
           /\ \A p \in Positions, i \in 1..2 :
                 Append(p, i) \in Positions => KidSource(t, f, p, Append(p, i))
<1>1. Full(f, inner) /\ DOMAIN f \subseteq Positions
  BY MidFull
<1>2. <<>> \in DOMAIN t /\ <<>> \in DOMAIN f /\ f[<<>>].bak = NoTree /\ t[<<>>].bak = NoTree
  <2>1. <<>> \in DOMAIN f /\ f[<<>>].bak = NoTree
    BY MidTree
  <2>2. <<>> \in DOMAIN t
    BY DEF Cut
  <2>3. CutAt(t, f, <<>>)
    BY <2>2 DEF Cut
  <2>4. t[<<>>].bak = f[<<>>].bak
    BY <2>3 DEF CutAt, Forgotten
  <2> QED
    BY <2>1, <2>2, <2>4
<1>3. ASSUME NEW s, <<>> \in DOMAIN s, s[<<>>].bak = NoTree, NEW w, w = Visit([tree |-> s, goes |-> TRUE], <<>>)
      PROVE  w.tree = s
  <2> DEFINE x == [tree |-> s, goes |-> TRUE]
  <2>1. IsWalk(x) /\ x.goes = TRUE /\ x.tree = s
    BY DEF IsWalk
  <2> HIDE DEF x
  <2>2. Restore(s, <<>>) = s
    BY <1>3 DEF Restore
  <2>3. w = Visit(x, <<>>)
    BY <1>3 DEF x
  <2>4. \/ w.tree = Restore(x.tree, <<>>)
        \/ w.tree = x.tree
    BY <2>1, <2>3, VisitIs
  <2> QED
    BY <2>1, <2>2, <2>4
<1>4. ASSUME NEW s, NEW p \in Positions
      PROVE  \E w : IsWayBack(w, s, p)
  <2>1. PICK w : /\ w[0] = Visit([tree |-> s, goes |-> TRUE], Prefix(p, 0))
                 /\ \A d \in 1..Len(p) : w[d] = Visit(w[d - 1], Prefix(p, d))
    BY SourceIs, Z3T(60)
  <2>2. IsWayBack(w, s, p)
    BY <2>1 DEF IsWayBack
  <2> QED
    BY <2>2
<1>5. ASSUME NEW s, <<>> \in DOMAIN s, s[<<>>].bak = NoTree PROVE Source(s, <<>>) = s
  <2>1. <<>> \in Positions /\ Len(<<>>) = 0 /\ Prefix(<<>>, 0) = <<>>
    BY RootIsPosition, PrefixOf
  <2>2. PICK w : IsWayBack(w, s, <<>>)
    BY <1>4, <2>1
  <2>3. Source(s, <<>>) = w[0].tree
    BY <2>1, <2>2, OneWayBack
  <2>4. w[0] = Visit([tree |-> s, goes |-> TRUE], <<>>)
    BY <2>1, <2>2 DEF IsWayBack
  <2> QED
    BY <1>3, <1>5, <2>3, <2>4
<1>6. ASSUME NEW p \in Positions, NEW i \in 1..2, Append(p, i) \in Positions, NEW c, c = Append(p, i)
      PROVE  KidSource(t, f, p, c)
  <2>1. PICK w : IsWayBack(w, t, c)
    BY <1>4, <1>6
  <2>2. PICK v : IsWayBack(v, f, c)
    BY <1>4, <1>6
  <2> DEFINE m == Len(p)
             S == {d \in 0..m : InStep(w[d], v[d], t, f)}
  <2>3. /\ IsWayBack(w, t, p) /\ w[m + 1] = Visit(w[m], c)
        /\ Source(t, p) = w[m].tree /\ Source(t, c) = w[m + 1].tree
    <3>1. GoesOnTo(w, t, p, c)
      BY <1>6, <2>1, WayBackToKid
    <3> QED
      BY <3>1 DEF GoesOnTo
  <2>4. /\ IsWayBack(v, f, p) /\ v[m + 1] = Visit(v[m], c)
        /\ Source(f, p) = v[m].tree /\ Source(f, c) = v[m + 1].tree
    <3>1. GoesOnTo(v, f, p, c)
      BY <1>6, <2>2, WayBackToKid
    <3> QED
      BY <3>1 DEF GoesOnTo
  <2>5. m \in Nat
    BY PositionIsSeq
  <2>6. 0 \in S
    <3> DEFINE x == [tree |-> t, goes |-> TRUE]
               y == [tree |-> f, goes |-> TRUE]
    <3>1. InStep(x, y, t, f)
      BY DEF InStep, IsWalk
    <3>2. w[0] = Visit(x, Prefix(p, 0)) /\ v[0] = Visit(y, Prefix(p, 0))
      BY <2>3, <2>4 DEF IsWayBack
    <3> HIDE DEF x, y
    <3>3. InStep(w[0], v[0], t, f)
      BY <1>1, <3>1, <3>2, StepsBack
    <3> QED
      BY <2>5, <3>3
  <2>7. ASSUME NEW d \in 0..m, d < m, d \in S PROVE d + 1 \in S
    <3>1. d + 1 \in 1..m /\ d + 1 \in 0..m /\ (d + 1) - 1 = d
      BY <2>5, <2>7
    <3>2. w[d + 1] = Visit(w[d], Prefix(p, d + 1)) /\ v[d + 1] = Visit(v[d], Prefix(p, d + 1))
      BY <2>3, <2>4, <3>1 DEF IsWayBack
    <3>3. InStep(w[d], v[d], t, f)
      BY <2>7
    <3>4. InStep(w[d + 1], v[d + 1], t, f)
      BY <1>1, <3>2, <3>3, StepsBack
    <3> QED
      BY <3>1, <3>4
  <2> HIDE DEF m, S
  <2>8. \A d \in 0..m : d \in S
    BY <2>5, <2>6, <2>7, UpTo
  <2>9. m \in S
    BY <2>5, <2>8
  <2>10. InStep(w[m], v[m], t, f)
    BY <2>9 DEF S
  <2>11. /\ w[m].tree = v[m].tree => w[m + 1].tree = v[m + 1].tree
         /\ w[m].tree = t /\ v[m].tree = f =>
               \/ w[m + 1].tree = t /\ v[m + 1].tree = f
               \/ w[m + 1].tree = v[m + 1].tree /\ c \in DOMAIN t
    BY <1>1, <2>3, <2>4, <2>10, StepsBack
  <2>12. (w[m].tree = t /\ v[m].tree = f) \/ w[m].tree = v[m].tree
    BY <2>10 DEF InStep
  <2> QED
    BY <2>3, <2>4, <2>11, <2>12 DEF KidSource
<1> QED
  BY <1>2, <1>5, <1>6

\* Rollback leaves, of a tree that is cut from another, one that is cut from what it
\* leaves of the other.
LEMMA RolledBackCut ==
    ASSUME NEW t, NEW f, NEW inner, NEW contents, NEW k, Mid(f, inner, contents, k, 0, TRUE),
           Cut(t, f), Rests(t, f),
           NEW s, s = RolledBack(t), NEW g, g = RolledBack(f), NEW outer, Full(g, outer)
    PROVE  Cut(s, g)
<1>1. Full(f, inner) /\ DOMAIN f \subseteq Positions /\ DOMAIN t \subseteq DOMAIN f /\ <<>> \in DOMAIN t
  BY MidFull DEF Cut
<1>2. /\ DOMAIN s = {p \in Positions : p \in DOMAIN Source(t, p)}
      /\ \A p \in DOMAIN s : s[p] = Source(t, p)[p]
      /\ DOMAIN g = {p \in Positions : p \in DOMAIN Source(f, p)}
      /\ \A p \in DOMAIN g : g[p] = Source(f, p)[p]
  BY DEF RolledBack
<1>3. Source(t, <<>>) = t /\ Source(f, <<>>) = f
  BY SourceCut
<1>4. ASSUME NEW p \in Positions, NEW i \in 1..2, Append(p, i) \in Positions
      PROVE  \/ /\ Source(t, p) = t /\ Source(f, p) = f
                /\ \/ Source(t, Append(p, i)) = t /\ Source(f, Append(p, i)) = f
                   \/ Source(t, Append(p, i)) = Source(f, Append(p, i)) /\ Append(p, i) \in DOMAIN t
             \/ Source(t, p) = Source(f, p) /\ Source(t, Append(p, i)) = Source(f, Append(p, i))
  <2>1. KidSource(t, f, p, Append(p, i))
    BY <1>4, SourceCut
  <2> QED
    BY <2>1 DEF KidSource
<1>5. ASSUME NEW p \in Positions
      PROVE  (Source(t, p) = t /\ Source(f, p) = f) \/ Source(t, p) = Source(f, p)
  <2>1. CASE p = <<>>
    BY <1>3, <2>1
  <2>2. CASE p # <<>>
    <3>1. PICK q \in Positions, i \in 1..2 : p = Append(q, i)
      BY <2>2, Up
    <3>2. Append(q, i) \in Positions
      BY <3>1
    <3> QED
      BY <1>4, <3>1, <3>2
  <2> QED
    BY <2>1, <2>2
<1>6. DOMAIN s \subseteq DOMAIN g
  <2> SUFFICES ASSUME NEW p \in DOMAIN s PROVE p \in DOMAIN g
    OBVIOUS
  <2>1. p \in Positions /\ p \in DOMAIN Source(t, p)
    BY <1>2
  <2>2. p \in DOMAIN Source(f, p)
    BY <1>1, <1>5, <2>1
  <2> QED
    BY <1>2, <2>1, <2>2
<1>7. <<>> \in DOMAIN s
  BY <1>1, <1>2, <1>3, RootIsPosition
<1>8. /\ InnerSet(outer) /\ DOMAIN g = NodesFor(outer) /\ DOMAIN g \subseteq Positions
      /\ \A p \in DOMAIN g : g[p].known = TRUE
  BY NodesArePositions DEF Full
<1>9. ASSUME NEW p \in Positions, NEW i \in 1..2, Append(p, i) \in DOMAIN s PROVE IsKnown(s, p)
  <2> DEFINE c == Append(p, i)
  <2>1. c \in Positions /\ c \in DOMAIN Source(t, c)
    BY <1>2, <1>9
  <2>2. CASE Source(t, p) = t /\ c \in DOMAIN t
    <3>1. IsKnown(t, p)
      BY <2>2 DEF Cut
    <3>2. p \in DOMAIN s /\ s[p] = t[p]
      BY <1>2, <2>2, <3>1 DEF IsKnown
    <3> QED
      BY <3>1, <3>2 DEF IsKnown
  <2>3. CASE Source(t, p) = Source(f, p)
    <3>1. c \in DOMAIN g
      BY <1>6, <1>9
    <3>2. p \in DOMAIN g
      BY <1>8, <3>1, NodesArePositions
    <3>3. p \in DOMAIN Source(t, p)
      BY <1>2, <2>3, <3>2
    <3>4. p \in DOMAIN s
      BY <1>2, <3>3
    <3>5. s[p] = g[p]
      BY <1>2, <2>3, <3>2, <3>4
    <3> QED
      BY <1>8, <3>2, <3>4, <3>5 DEF IsKnown
  <2> QED
    BY <1>4, <2>1, <2>2, <2>3
<1>10. ASSUME NEW p \in DOMAIN s PROVE CutAt(s, g, p)
  <2>1. p \in Positions /\ p \in DOMAIN g /\ p \in DOMAIN Source(t, p)
    BY <1>2, <1>6
  <2>2. s[p] = Source(t, p)[p] /\ g[p] = Source(f, p)[p]
    BY <1>2, <2>1
  <2>3. CASE Source(t, p) = Source(f, p)
    <3>1. s[p] = g[p] /\ s[p].known = TRUE
      BY <1>8, <2>1, <2>2, <2>3
    <3>2. ASSUME NEW i \in 1..2, Append(p, i) \in DOMAIN g PROVE Append(p, i) \in DOMAIN s
      <4>1. Append(p, i) \in Positions /\ Append(p, i) \in DOMAIN Source(f, Append(p, i))
        BY <1>2, <3>2
      <4>2. CASE Source(t, Append(p, i)) = Source(f, Append(p, i))
        BY <1>2, <4>1, <4>2
      <4>3. CASE Source(t, p) = t /\ Source(f, p) = f /\ Source(t, Append(p, i)) = t /\ Source(f, Append(p, i)) = f
        <5>1. t = f
          BY <2>3, <4>3
        <5> QED
          BY <1>2, <4>1, <4>3, <5>1
      <4> QED
        BY <1>4, <2>1, <4>1, <4>2, <4>3
    <3> QED
      BY <3>1, <3>2 DEF CutAt
  <2>4. CASE Source(t, p) = t /\ Source(f, p) = f
    <3>1. p \in DOMAIN t /\ s[p] = t[p] /\ g[p] = f[p]
      BY <2>1, <2>2, <2>4
    <3>2. CutAt(t, f, p)
      BY <3>1 DEF Cut
    <3>3. CASE t[p].known = TRUE /\ t[p] = f[p]
               /\ \A i \in 1..2 : Append(p, i) \in DOMAIN f => Append(p, i) \in DOMAIN t
      <4>1. ASSUME NEW i \in 1..2, Append(p, i) \in DOMAIN g PROVE Append(p, i) \in DOMAIN s
        <5>1. Append(p, i) \in Positions /\ Append(p, i) \in DOMAIN Source(f, Append(p, i))
          BY <1>2, <4>1
        <5>2. CASE Source(t, Append(p, i)) = Source(f, Append(p, i))
          BY <1>2, <5>1, <5>2
        <5>3. CASE Source(t, Append(p, i)) = t /\ Source(f, Append(p, i)) = f
          <6>1. Append(p, i) \in DOMAIN t
            BY <3>3, <5>1, <5>3
          <6> QED
            BY <1>2, <5>1, <5>3, <6>1
        <5> QED
          BY <1>4, <2>1, <5>1, <5>2, <5>3
      <4> QED
        BY <3>1, <3>3, <4>1 DEF CutAt
    <3>4. CASE Forgotten(t[p], f[p])
      BY <3>1, <3>4 DEF CutAt
    <3> QED
      BY <3>2, <3>3, <3>4 DEF CutAt
  <2> QED
    BY <1>5, <2>1, <2>3, <2>4
<1> QED
  BY <1>6, <1>7, <1>9, <1>10 DEF Cut

\* What Rollback leaves of the full tree is a tree that no transaction has touched, but for
\* the names of arrays.
LEMMA RollbackTrees ==
    ASSUME NEW t, NEW f, NEW contents, Has(f, contents, TRUE), Cut(t, f), Rests(t, f),
           NEW before, Returns(f, before), NEW s, s = RolledBack(t), NEW g, g = RolledBack(f)
    PROVE  /\ Full(g, Inner(Present(before))) /\ Good(Named(g, FALSE), before)
           /\ Cut(s, g) /\ Cut(Named(s, FALSE), Named(g, FALSE))
<1> DEFINE inner == Inner(Present(contents))
           outer == Inner(Present(before))
           h == Named(g, FALSE)
<1>1. Mid(f, inner, contents, None, 0, TRUE)
  BY DEF Has
<1>2. PICK base : Good(base, before) /\ Rolls(f, base)
  BY DEF Returns
<1>3. Good(h, before) /\ DOMAIN g = DOMAIN h /\ \A p \in DOMAIN h : IsNode(g[p]) /\ g[p].known = TRUE
  BY <1>1, <1>2, RollbackGood
<1> HIDE DEF h
<1>4. DOMAIN h = NodesFor(outer) /\ InnerSet(outer)
  BY <1>3, GoodFull DEF Full
<1>5. Full(g, outer)
  BY <1>3, <1>4 DEF Full
<1>6. Cut(s, g)
  BY <1>1, <1>5, RolledBackCut
<1>7. Cut(Named(s, FALSE), Named(g, FALSE))
  BY <1>5, <1>6, NamedCut
<1> QED
  BY <1>3, <1>5, <1>6, <1>7 DEF h

\* What Rollback leaves is cut from a tree that no transaction has touched.
LEMMA RollbackCut ==
    ASSUME NEW t, NEW f, NEW contents, Has(f, contents, TRUE), Cut(t, f), Rests(t, f),
           NEW before, Returns(f, before)
    PROVE  GoodCut(Named(RolledBack(t), FALSE), before)
<1> DEFINE s == RolledBack(t)
           g == RolledBack(f)
<1>1. Good(Named(g, FALSE), before) /\ Cut(Named(s, FALSE), Named(g, FALSE))
  BY RollbackTrees
<1> HIDE DEF s, g
<1>2. GoodCut(Named(s, FALSE), before)
  BY <1>1, CollectedCut
<1> QED
  BY <1>2 DEF s

\* The marks of the tree that Rollback gives back climb.
LEMMA RolledBackClimbs ==
    ASSUME NEW f, Marking(f), NEW g, g = RolledBack(f)
    PROVE  Climbs(g)
<1>1. PICK S : BackupsOf(f) \subseteq S /\ \A s \in S : Climbs(s) /\ Resumes(s) /\ BackupsOf(s) \subseteq S
  BY DEF Marking, BackupsClimb
<1> DEFINE T == S \cup {f}
<1>2. f \in T /\ \A s \in T : Climbs(s) /\ Resumes(s) /\ BackupsOf(s) \subseteq T
  BY <1>1 DEF Marking, BackupsClimb
<1> HIDE DEF T
<1>3. ASSUME NEW s \in T, NEW p \in DOMAIN s
      PROVE  Restore(s, p) \in T /\ (Restore(s, p) = s \/ Restore(s, p) = s[p].bak)
  <2>1. s[p].bak = NoTree \/ s[p].bak \in T
    BY <1>2 DEF BackupsOf
  <2> QED
    BY <2>1 DEF Restore
<1> DEFINE In(x) == IsWalk(x) /\ x.goes \in BOOLEAN /\ x.tree \in T
<1>4. ASSUME NEW x, In(x), NEW p, NEW y, y = Visit(x, p)
      PROVE  /\ In(y)
             /\ \/ y.tree = x.tree
                \/ p \in DOMAIN x.tree /\ y.tree = x.tree[p].bak
  <2>1. /\ IsWalk(y) /\ y.goes \in BOOLEAN
        /\ \/ p \in DOMAIN x.tree /\ y.tree = Restore(x.tree, p)
           \/ y.tree = x.tree
    BY <1>4, VisitIs
  <2> QED
    BY <1>3, <1>4, <2>1
<1>5. ASSUME NEW p \in Positions, NEW w, IsWayBack(w, f, p) PROVE In(w[Len(p)])
  <2> DEFINE m == Len(p)
             D == {d \in 0..m : In(w[d])}
             x == [tree |-> f, goes |-> TRUE]
  <2>1. m \in Nat
    BY PositionIsSeq
  <2>2. 0 \in D
    <3>1. In(x)
      BY <1>2 DEF IsWalk
    <3>2. w[0] = Visit(x, Prefix(p, 0))
      BY <1>5 DEF IsWayBack
    <3> HIDE DEF x, In
    <3>3. In(w[0])
      BY <1>4, <3>1, <3>2
    <3> QED
      BY <2>1, <3>3
  <2> HIDE DEF In
  <2>3. ASSUME NEW d \in 0..m, d < m, d \in D PROVE d + 1 \in D
    <3>1. d + 1 \in 1..m /\ d + 1 \in 0..m /\ (d + 1) - 1 = d
      BY <2>1, <2>3
    <3>2. w[d + 1] = Visit(w[d], Prefix(p, d + 1))
      BY <1>5, <3>1 DEF IsWayBack
    <3>3. In(w[d + 1])
      BY <1>4, <2>3, <3>2
    <3> QED
      BY <3>1, <3>3
  <2> HIDE DEF D, m
  <2>4. \A d \in 0..m : d \in D
    BY <2>1, <2>2, <2>3, UpTo
  <2>5. m \in D
    BY <2>1, <2>4
  <2> QED
    BY <2>5 DEF D, m
<1>17. ASSUME NEW q \in Positions PROVE \E w : IsWayBack(w, f, q)
  <2>1. PICK w : /\ w[0] = Visit([tree |-> f, goes |-> TRUE], Prefix(q, 0))
                 /\ \A d \in 1..Len(q) : w[d] = Visit(w[d - 1], Prefix(q, d))
    BY SourceIs, Z3T(60)
  <2>2. IsWayBack(w, f, q)
    BY <2>1 DEF IsWayBack
  <2> QED
    BY <2>2
<1>6. /\ DOMAIN g = {p \in Positions : p \in DOMAIN Source(f, p)}
      /\ \A p \in DOMAIN g : g[p] = Source(f, p)[p]
  BY DEF RolledBack
<1>7. SUFFICES ASSUME NEW p \in DOMAIN g, NEW i \in 1..2, Append(p, i) \in DOMAIN g,
                      g[Append(p, i)].inc = TRUE
               PROVE  g[p].inc = TRUE
  BY DEF Climbs
<1> DEFINE c == Append(p, i)
           s == Source(f, p)
           r == Source(f, c)
<1>8. p \in Positions /\ c \in Positions /\ p \in DOMAIN s /\ c \in DOMAIN r
      /\ g[p] = s[p] /\ g[c] = r[c]
  BY <1>6, <1>7
<1>9. PICK w : IsWayBack(w, f, c)
  BY <1>8, <1>17
<1>10. GoesOnTo(w, f, p, c)
  BY <1>8, <1>9, WayBackToKid
<1> DEFINE x == w[Len(p)]
           y == w[Len(p) + 1]
<1>11. In(x)
  BY <1>5, <1>8, <1>10 DEF GoesOnTo
<1>12. y = Visit(x, c) /\ x.tree = s /\ y.tree = r
  BY <1>10 DEF GoesOnTo
<1> HIDE DEF x, y, s, r
<1>13. s \in T /\ (r = s \/ (c \in DOMAIN s /\ r = s[c].bak))
  BY <1>4, <1>11, <1>12
<1>14. Climbs(s) /\ Resumes(s)
  BY <1>2, <1>13
<1>15. c \in DOMAIN s /\ s[c].inc = TRUE
  <2>1. CASE r = s
    BY <1>7, <1>8, <2>1
  <2>2. CASE c \in DOMAIN s /\ r = s[c].bak
    BY <1>7, <1>8, <1>14, <2>2 DEF Resumes
  <2> QED
    BY <1>13, <2>1, <2>2
<1>16. s[p].inc = TRUE
  BY <1>8, <1>14, <1>15 DEF Climbs
<1> QED
  BY <1>8, <1>16

-----------------------------------------------------------------------------
(* Learning.  The root of a tree that owes nothing has the label of one    *)
(* tree only: what a proof for it says is what the full collection has.    *)

\* Labels of leaves and of nodes with children differ, and tell what is in them.
LEMMA LeafLabelTells ==
    ASSUME NEW a, NEW b, NEW x, NEW y, LeafLabel(a, b) = LeafLabel(x, y)
    PROVE  a = x /\ b = y
BY DEF LeafLabel

\* Labels of nodes with children that are the same are of the same sums and children.
LEMMA NodeLabelTells ==
    ASSUME NEW a, NEW b, NEW c, NEW x, NEW y, NEW z, NodeLabel(a, b, c) = NodeLabel(x, y, z)
    PROVE  a = x /\ b = y /\ c = z
BY DEF NodeLabel

\* No leaf has the label of a node with children.
LEMMA LabelsDiffer ==
    ASSUME NEW a, NEW b, NEW x, NEW y, NEW z
    PROVE  LeafLabel(a, b) # NodeLabel(x, y, z)
BY DEF LeafLabel, NodeLabel

\* All nodes have the labels of what they store.
Telling(f, inner) ==
    /\ InnerSet(inner) /\ DOMAIN f = NodesFor(inner)
    /\ \A p \in DOMAIN f : p \notin inner => f[p].label = LeafLabel(f[p].key, f[p].val)
    /\ \A p \in inner : /\ f[p].key = None
                        /\ f[p].label = NodeLabel(f[p].val, f[Append(p, 1)].label, f[Append(p, 2)].label)

\* A tree in which no mark is left at the root owes nothing.
LEMMA UnmarkedIsQuiet ==
    ASSUME NEW f, NEW contents, NEW tx, Has(f, contents, tx), f[<<>>].inc = FALSE
    PROVE  \A q \in DOMAIN f : Quiet(f, q)
<1> SUFFICES ASSUME NEW q \in DOMAIN f, ~Quiet(f, q) PROVE FALSE
  OBVIOUS
<1> DEFINE inner == Inner(Present(contents))
<1>1. Mid(f, inner, contents, None, 0, tx)
  BY DEF Has
<1>2. DOMAIN f \subseteq Positions /\ <<>> \in DOMAIN f
  BY <1>1, MidTree
<1>3. Marks(f, None, 0, tx)
  BY <1>1 DEF Mid
<1>4. /\ Excused(f, q, None, 0, tx)
      /\ Above(<<>>, q) => Excused(f, <<>>, None, 0, tx)
  BY <1>2, <1>3 DEF Marks
<1>5. q = <<>> \/ Above(<<>>, q)
  BY <1>2, UnderIs DEF Above
<1>6. Excused(f, <<>>, None, 0, tx)
  BY <1>4, <1>5
<1>7. Len(<<>>) = 0
  BY RootIsPosition
<1> QED
  BY <1>6, <1>7 DEF Excused

\* What owes nothing tells what it stores.
LEMMA QuietTells ==
    ASSUME NEW f, NEW contents, NEW tx, Has(f, contents, tx), \A q \in DOMAIN f : Quiet(f, q)
    PROVE  Telling(f, Inner(Present(contents)))
<1> DEFINE inner == Inner(Present(contents))
<1>1. Mid(f, inner, contents, None, 0, tx)
  BY DEF Has
<1> HIDE DEF inner
<1>2. /\ InnerSet(inner) /\ DOMAIN f = NodesFor(inner) /\ DOMAIN f \subseteq Positions
      /\ \A p \in DOMAIN f : Fits(f, p, tx) /\ (IsLeaf(f, p) <=> p \notin inner)
                             /\ (~IsLeaf(f, p) => f[p].key = None)
  BY <1>1, MidTree
<1>3. ASSUME NEW p \in DOMAIN f, p \notin inner PROVE f[p].label = LeafLabel(f[p].key, f[p].val)
  BY <1>2, <1>3 DEF Fits
<1>4. ASSUME NEW p \in inner
      PROVE  /\ f[p].key = None
             /\ f[p].label = NodeLabel(f[p].val, f[Append(p, 1)].label, f[Append(p, 2)].label)
  <2>1. p \in DOMAIN f
    BY <1>2, NodesArePositions
  <2>2. ~IsLeaf(f, p) /\ f[p].key = None
    BY <1>2, <2>1
  <2>3. Settled(f, p)
    BY <2>1, <2>2 DEF Quiet
  <2> QED
    BY <2>2, <2>3 DEF Settled
<1>5. Telling(f, inner)
  BY <1>2, <1>3, <1>4 DEF Telling
<1> QED
  BY <1>5 DEF inner

\* f stores in the same nodes the same as m.
LooksLike(f, m) ==
    /\ DOMAIN f = DOMAIN m
    /\ \A p \in DOMAIN f : f[p].key = m[p].key /\ f[p].val = m[p].val /\ f[p].label = m[p].label

\* Trees that tell what they store, and have the same label at the root, look the same.
LEMMA OneTreePerRoot ==
    ASSUME NEW f, NEW inner, Telling(f, inner), NEW m, NEW outer, Telling(m, outer),
           f[<<>>].label = m[<<>>].label
    PROVE  inner = outer /\ LooksLike(f, m)
<1> DEFINE Agree(p) == /\ p \in DOMAIN f <=> p \in DOMAIN m
                       /\ p \in DOMAIN f => f[p].label = m[p].label
           S == {d \in 0..Bits : \A p \in Positions : Len(p) = d => Agree(p)}
<1>1. /\ InnerSet(inner) /\ DOMAIN f = NodesFor(inner) /\ inner \subseteq DOMAIN f
      /\ InnerSet(outer) /\ DOMAIN m = NodesFor(outer) /\ outer \subseteq DOMAIN m
      /\ DOMAIN f \subseteq Positions /\ DOMAIN m \subseteq Positions
      /\ <<>> \in inner /\ <<>> \in outer
  BY NodesArePositions DEF Telling, InnerSet
<1>2. ASSUME NEW p \in Positions, p \in DOMAIN f, p \in DOMAIN m, f[p].label = m[p].label
      PROVE  /\ p \in inner <=> p \in outer
             /\ p \in inner => /\ f[Append(p, 1)].label = m[Append(p, 1)].label
                               /\ f[Append(p, 2)].label = m[Append(p, 2)].label
             /\ f[p].key = m[p].key /\ f[p].val = m[p].val
  <2>1. CASE p \in inner /\ p \in outer
    <3>1. /\ f[p].key = None /\ f[p].label = NodeLabel(f[p].val, f[Append(p, 1)].label, f[Append(p, 2)].label)
          /\ m[p].key = None /\ m[p].label = NodeLabel(m[p].val, m[Append(p, 1)].label, m[Append(p, 2)].label)
      BY <2>1 DEF Telling
    <3> QED
      <4>1. NodeLabel(f[p].val, f[Append(p, 1)].label, f[Append(p, 2)].label)
            = NodeLabel(m[p].val, m[Append(p, 1)].label, m[Append(p, 2)].label)
        BY <1>2, <3>1
      <4>2. /\ f[p].val = m[p].val
            /\ f[Append(p, 1)].label = m[Append(p, 1)].label /\ f[Append(p, 2)].label = m[Append(p, 2)].label
        BY <4>1, NodeLabelTells
      <4> QED
        BY <2>1, <3>1, <4>2
  <2>2. CASE p \notin inner /\ p \notin outer
    <3>1. f[p].label = LeafLabel(f[p].key, f[p].val) /\ m[p].label = LeafLabel(m[p].key, m[p].val)
      BY <1>2, <2>2 DEF Telling
    <3> QED
      <4>1. LeafLabel(f[p].key, f[p].val) = LeafLabel(m[p].key, m[p].val)
        BY <1>2, <3>1
      <4>2. f[p].key = m[p].key /\ f[p].val = m[p].val
        BY <4>1, LeafLabelTells
      <4> QED
        BY <2>2, <4>2
  <2>3. CASE p \in inner /\ p \notin outer
    <3>1. /\ f[p].label = NodeLabel(f[p].val, f[Append(p, 1)].label, f[Append(p, 2)].label)
          /\ m[p].label = LeafLabel(m[p].key, m[p].val)
      BY <1>2, <2>3 DEF Telling
    <3> QED
      BY <1>2, <3>1, LabelsDiffer
  <2>4. CASE p \notin inner /\ p \in outer
    <3>1. /\ f[p].label = LeafLabel(f[p].key, f[p].val)
          /\ m[p].label = NodeLabel(m[p].val, m[Append(p, 1)].label, m[Append(p, 2)].label)
      BY <1>2, <2>4 DEF Telling
    <3> QED
      BY <1>2, <3>1, LabelsDiffer
  <2> QED
    BY <2>1, <2>2, <2>3, <2>4
<1>3. Bits \in Nat
  BY PathsDiffer
<1>4. 0 \in S
  <2> SUFFICES ASSUME NEW p \in Positions, Len(p) = 0 PROVE Agree(p)
    BY <1>3
  <2>1. p = <<>>
    BY OnlyRoot
  <2> QED
    BY <1>1, <2>1
<1>5. ASSUME NEW d \in 0..Bits, d < Bits, d \in S PROVE d + 1 \in S
  <2> SUFFICES ASSUME NEW p \in Positions, Len(p) = d + 1 PROVE Agree(p)
    BY <1>3, <1>5
  <2>1. p # <<>>
    BY <1>5, RootIsPosition
  <2>2. PICK q \in Positions, i \in 1..2 : p = Append(q, i) /\ Len(q) + 1 = Len(p)
    BY <2>1, Up
  <2>3. Len(q) \in Nat /\ Len(q) = d
    BY <1>5, <2>2, PositionIsSeq
  <2>4. Agree(q)
    BY <1>5, <2>3
  <2>5. (p \in DOMAIN f <=> q \in inner) /\ (p \in DOMAIN m <=> q \in outer)
    BY <1>1, <2>2, NodesArePositions
  <2>6. q \in inner <=> q \in outer
    BY <1>1, <1>2, <2>4
  <2>7. ASSUME p \in DOMAIN f PROVE f[p].label = m[p].label
    <3>1. q \in inner /\ q \in DOMAIN f /\ q \in DOMAIN m
      BY <1>1, <2>4, <2>5, <2>7
    <3>2. /\ f[Append(q, 1)].label = m[Append(q, 1)].label
          /\ f[Append(q, 2)].label = m[Append(q, 2)].label
      BY <1>2, <2>4, <3>1
    <3>3. i = 1 \/ i = 2
      OBVIOUS
    <3> QED
      BY <2>2, <3>2, <3>3
  <2> QED
    BY <2>5, <2>6, <2>7
<1>6. \A p \in Positions : Agree(p)
  <2> HIDE DEF S
  <2>1. \A d \in 0..Bits : d \in S
    BY <1>3, <1>4, <1>5, UpTo
  <2> SUFFICES ASSUME NEW p \in Positions PROVE Agree(p)
    OBVIOUS
  <2>2. Len(p) \in 0..Bits
    BY PositionIsSeq
  <2> QED
    BY <2>1, <2>2 DEF S
<1>7. DOMAIN f = DOMAIN m
  BY <1>1, <1>6
<1>8. ASSUME NEW p \in DOMAIN f
      PROVE  /\ f[p].key = m[p].key /\ f[p].val = m[p].val /\ f[p].label = m[p].label
             /\ p \in inner <=> p \in outer
  BY <1>1, <1>2, <1>6, <1>7
<1>9. inner = outer
  BY <1>1, <1>7, <1>8
<1> QED
  BY <1>7, <1>8, <1>9 DEF LooksLike

\* Walks in trees that look the same find the same.
LEMMA LooksLikeReads ==
    ASSUME NEW f, NEW m, LooksLike(f, m), NEW k, Leaf(f, k) \in DOMAIN f
    PROVE  /\ Depth(f, k) = Depth(m, k) /\ Leaf(f, k) = Leaf(m, k)
           /\ Lookup(f, k) = Lookup(m, k)
<1>1. DOMAIN f = DOMAIN m
  BY DEF LooksLike
<1>2. Depth(f, k) = Depth(m, k)
  BY <1>1 DEF Depth, IsLeaf
<1>3. Leaf(f, k) = Leaf(m, k)
  BY <1>2 DEF Leaf
<1> QED
  BY <1>2, <1>3 DEF Lookup, LooksLike

\* Who has the label of the root has the contents.
LEMMA RootTells ==
    ASSUME NEW f, NEW contents \in Stored, NEW tx, Has(f, contents, tx), f[<<>>].inc = FALSE,
           NEW c \in Stored, NEW m, Good(m, c), f[<<>>].label = m[<<>>].label
    PROVE  c = contents /\ LooksLike(f, m)
<1> DEFINE inner == Inner(Present(contents))
           outer == Inner(Present(c))
<1>1. Telling(f, inner)
  BY UnmarkedIsQuiet, QuietTells
<1>2. Has(m, c, FALSE)
  BY GoodMid DEF Has
<1>3. \A q \in DOMAIN m : Quiet(m, q)
  BY DEF Good
<1>4. Telling(m, outer)
  BY <1>2, <1>3, QuietTells
<1> HIDE DEF inner, outer
<1>5. LooksLike(f, m)
  BY <1>1, <1>4, OneTreePerRoot
<1>6. (\A k \in Keys : Lookup(f, k) = contents[k]) /\ (\A k \in Keys : Lookup(m, k) = c[k])
  BY <1>2, Reads
<1>7. ASSUME NEW k \in Keys PROVE c[k] = contents[k]
  <2>1. Leaf(f, k) \in DOMAIN f
    BY <1>1, WalkEnds DEF Telling
  <2>2. Lookup(f, k) = Lookup(m, k)
    BY <1>5, <2>1, LooksLikeReads
  <2> QED
    BY <1>6, <2>2
<1>8. c = contents
  BY <1>7 DEF Stored
<1> QED
  BY <1>5, <1>8

\* The tree t is cut from f, which is a tree the full collection could have.
Following(t, f, contents, tx, before) ==
    /\ Has(f, contents, tx) /\ Cut(t, f) /\ Rests(t, f) /\ Marking(f)
    /\ tx = TRUE => Returns(f, before)

\* The name of one array is forgotten.
Unnamed(f, x) == [f EXCEPT ![x] = [f[x] EXCEPT !.array = None]]

\* A tree in which an array has no name is as good.
LEMMA UnnamedHas ==
    ASSUME NEW f, NEW contents, NEW tx, Has(f, contents, tx), NEW x \in DOMAIN f,
           NEW g, g = Unnamed(f, x)
    PROVE  /\ Has(g, contents, tx) /\ DiffersAt(g, f, x)
           /\ Like(g[x], f[x], f[x].key, f[x].val, None, f[x].label, f[x].inc, f[x].bak)
           /\ \A q \in DOMAIN f : Quiet(f, q) => Quiet(g, q)
           /\ \A before : Returns(f, before) => Returns(g, before)
<1> DEFINE inner == Inner(Present(contents))
<1>1. Mid(f, inner, contents, None, 0, tx)
  BY DEF Has
<1>2. /\ InnerSet(inner) /\ DOMAIN f = NodesFor(inner) /\ DOMAIN f \subseteq Positions
      /\ \A p \in DOMAIN f : /\ IsNode(f[p]) /\ Fits(f, p, tx)
                             /\ IsLeaf(f, p) <=> Append(p, 2) \notin DOMAIN f
  BY <1>1, MidTree
<1>3. DiffersAt(g, f, x)
  BY DEF Unnamed, DiffersAt
<1>4. Like(g[x], f[x], f[x].key, f[x].val, None, f[x].label, f[x].inc, f[x].bak)
  <2>1. g[x] = [f[x] EXCEPT !.array = None]
    BY DEF Unnamed
  <2>2. IsNode(f[x])
    BY <1>2
  <2> QED
    BY <2>1, <2>2, WithIs
<1>5. DOMAIN g = DOMAIN f /\ \A q \in DOMAIN f : q # x => g[q] = f[q]
  BY <1>3 DEF DiffersAt
<1> HIDE DEF inner
<1>6. ASSUME NEW q \in DOMAIN f
      PROVE  /\ IsNode(g[q]) /\ g[q].known = f[q].known /\ g[q].key = f[q].key /\ g[q].val = f[q].val
             /\ g[q].label = f[q].label /\ g[q].inc = f[q].inc /\ g[q].bak = f[q].bak
             /\ g[q].array = f[q].array \/ g[q].array = None
             /\ IsLeaf(g, q) <=> IsLeaf(f, q)
  <2>1. CASE q = x
    BY <1>4, <1>5, <2>1 DEF Like, IsLeaf
  <2>2. CASE q # x
    BY <1>2, <1>5, <2>2 DEF IsLeaf
  <2> QED
    BY <2>1, <2>2
<1>7. ASSUME NEW q \in DOMAIN f, Quiet(f, q) PROVE Quiet(g, q)
  <2>1. /\ g[q].val = f[q].val /\ g[q].label = f[q].label
        /\ IsLeaf(f, q) <=> Append(q, 2) \notin DOMAIN f
    BY <1>2, <1>6
  <2>2. IsLeaf(f, q) \/ g[q].array = None
    BY <1>6, <1>7 DEF Quiet
  <2>3. \A i \in 1..2 : Append(q, i) \in DOMAIN f =>
               /\ g[Append(q, i)].val = f[Append(q, i)].val
               /\ g[Append(q, i)].label = f[Append(q, i)].label
    BY <1>6
  <2> QED
    BY <1>5, <1>7, <2>1, <2>2, <2>3, StaysQuiet
<1>8. ASSUME NEW p \in DOMAIN g PROVE Fits(g, p, tx)
  <2>1. p \in DOMAIN f /\ Fits(f, p, tx)
    BY <1>2, <1>5
  <2> DEFINE n == g[p]
             o == f[p]
  <2>2. /\ IsNode(n) /\ n.known = o.known /\ n.key = o.key /\ n.val = o.val
        /\ n.label = o.label /\ n.inc = o.inc /\ n.bak = o.bak
        /\ n.array = o.array \/ n.array = None
        /\ IsLeaf(g, p) <=> IsLeaf(f, p)
    BY <1>6, <2>1
  <2>3. /\ o.known = TRUE /\ NodeOK(o)
        /\ IsLeaf(f, p) => o.label = LeafLabel(o.key, o.val) /\ o.array \in {None, o.key}
        /\ o.array # None => tx /\ (IsLeaf(f, p) \/ o.bak # NoTree)
        /\ o.bak # NoTree => /\ tx /\ p # <<>> /\ p \in DOMAIN o.bak /\ o.bak[p].bak = NoTree
                             /\ \A q \in DOMAIN o.bak : Under(p, q)
    BY <2>1 DEF Fits
  <2> HIDE DEF n, o
  <2>4. NodeOK(n)
    BY <2>2, <2>3 DEF NodeOK
  <2>5. /\ IsNode(n) /\ n.known = TRUE /\ NodeOK(n)
        /\ IsLeaf(g, p) => n.label = LeafLabel(n.key, n.val) /\ n.array \in {None, n.key}
        /\ n.array # None => tx /\ (IsLeaf(g, p) \/ n.bak # NoTree)
    BY <2>2, <2>3, <2>4
  <2>6. n.bak # NoTree => /\ tx /\ p # <<>> /\ p \in DOMAIN n.bak /\ n.bak[p].bak = NoTree
                          /\ \A q \in DOMAIN n.bak : Under(p, q)
    BY <2>2, <2>3
  <2> QED
    BY <2>5, <2>6 DEF Fits, n
<1>9. Shape(g, inner, contents)
  <2>1. Shape(f, inner, contents)
    BY <1>1 DEF Mid
  <2>2. inner \subseteq DOMAIN f
    BY <1>2, NodesArePositions
  <2>3. \A p \in inner : g[p].key = None
    BY <1>6, <2>1, <2>2 DEF Shape
  <2>4. ASSUME NEW p \in NodesFor(inner) \ inner PROVE Holds(g[p], p, contents)
    <3>1. Holds(f[p], p, contents) /\ p \in DOMAIN f
      BY <1>2, <2>1 DEF Shape
    <3>2. g[p].key = f[p].key /\ g[p].val = f[p].val
      BY <1>6, <3>1
    <3> QED
      BY <3>1, <3>2 DEF Holds
  <2> QED
    BY <1>2, <1>5, <2>3, <2>4 DEF Shape
<1>10. Marks(g, None, 0, tx)
  <2>1. Marks(f, None, 0, tx)
    BY <1>1 DEF Mid
  <2>2. \A p \in DOMAIN f : Excused(f, p, None, 0, tx) => Excused(g, p, None, 0, tx)
    BY <1>6 DEF Excused
  <2>3. ASSUME NEW q \in DOMAIN f
        PROVE  /\ ~Quiet(g, q) => Excused(g, q, None, 0, tx)
               /\ g[q].bak # NoTree \/ ~Quiet(g, q) =>
                     \A p \in DOMAIN f : Above(p, q) => Excused(g, p, None, 0, tx)
    <3>1. /\ ~Quiet(f, q) => Excused(f, q, None, 0, tx)
          /\ f[q].bak # NoTree \/ ~Quiet(f, q) =>
                     \A p \in DOMAIN f : Above(p, q) => Excused(f, p, None, 0, tx)
      BY <2>1 DEF Marks
    <3>2. (~Quiet(g, q) => ~Quiet(f, q)) /\ g[q].bak = f[q].bak
      BY <1>6, <1>7
    <3> QED
      BY <2>2, <3>1, <3>2
  <2> QED
    BY <1>5, <2>3 DEF Marks
<1>11. Nested(g)
  <2>1. Nested(f)
    BY <1>1 DEF Mid
  <2>2. BackupsOf(g) = BackupsOf(f)
    BY <1>5, <1>6 DEF BackupsOf
  <2> QED
    BY <2>1, <2>2 DEF Nested
<1>12. Mid(g, inner, contents, None, 0, tx)
  BY <1>2, <1>8, <1>9, <1>10, <1>11 DEF Mid
<1>13. ASSUME NEW before, Returns(f, before) PROVE Returns(g, before)
  <2>1. PICK base : Good(base, before) /\ Rolls(f, base)
    BY <1>13 DEF Returns
  <2>2. AlikeTrees(g, f)
    <3>1. \A q \in DOMAIN f : g[q].inc \in BOOLEAN
      BY <1>2, <1>6 DEF Fits, NodeOK
    <3> QED
      BY <1>5, <1>6, <3>1 DEF AlikeTrees
  <2>3. \A p \in DOMAIN f : IsLeaf(f, p) <=> Append(p, 2) \notin DOMAIN f
    BY <1>2
  <2>4. Rolls(g, base)
    BY <2>1, <2>2, <2>3, AlikeRolls
  <2> QED
    BY <2>1, <2>4 DEF Returns
<1>14. Has(g, contents, tx)
  BY <1>12 DEF Has, inner
<1> QED
  BY <1>3, <1>4, <1>7, <1>13, <1>14

\* t knows the same nodes in s, and more.
KnowsMore(s, t) == \A q : IsKnown(t, q) => IsKnown(s, q)

\* What a proof tells of the node at p, and of the labels of its children.
Taught(t, p, m) ==
    [q \in DOMAIN t \cup {q \in DOMAIN m : \E i \in 1..2 : q = Append(p, i)} |->
            IF q = p THEN [t[p] EXCEPT !.known = TRUE, !.key = m[p].key, !.val = m[p].val]
            ELSE IF q \in DOMAIN t THEN t[q] ELSE Unknown(m[q].label)]

\* An unknown node of which a proof tells the key and the value.
Filled(n, key, val) == [n EXCEPT !.known = TRUE, !.key = key, !.val = val]

\* A node that is known of a tree with the same labels is the node that is there.
LEMMA TaughtNode ==
    ASSUME NEW n, NEW o, NEW b, IsNode(o), Forgotten(n, o), o.known = TRUE,
           Like(b, o, o.key, o.val, None, o.label, o.inc, o.bak)
    PROVE  Filled(n, o.key, o.val) = b
<1> DEFINE key == o.key
           val == o.val
           m == [n EXCEPT !.known = TRUE]
           l == [m EXCEPT !.key = key]
           k == [l EXCEPT !.val = val]
<1>1. IsNode(n) /\ n.array = None /\ n.label = o.label /\ n.inc = o.inc /\ n.bak = o.bak
  BY DEF Forgotten
<1> HIDE DEF key, val
<1>2. WithKnown(m, n, TRUE)
  BY <1>1, KnownIs
<1> HIDE DEF m
<1>3. IsNode(m) /\ m.known = TRUE /\ m.array = None /\ m.label = o.label /\ m.inc = o.inc /\ m.bak = o.bak
  BY <1>1, <1>2 DEF WithKnown
<1>4. Like(l, m, key, m.val, m.array, m.label, m.inc, m.bak)
  BY <1>3, WithIs
<1> HIDE DEF l
<1>5. /\ IsNode(l) /\ l.known = TRUE /\ l.key = key /\ l.array = None /\ l.label = o.label
      /\ l.inc = o.inc /\ l.bak = o.bak
  BY <1>3, <1>4 DEF Like
<1>6. Like(k, l, l.key, val, l.array, l.label, l.inc, l.bak)
  BY <1>5, WithIs
<1> HIDE DEF k
<1>7. k = b
  BY <1>5, <1>6 DEF Like, IsNode, key, val
<1>8. Filled(n, key, val) = k
  BY DEF Filled, k, l, m
<1> QED
  BY <1>7, <1>8 DEF key, val

\* A node of which only the label is known.
LEMMA UnknownIs ==
    ASSUME NEW label, NEW o, o.label = label, o.inc = FALSE, o.bak = NoTree
    PROVE  Forgotten(Unknown(label), o)
<1> DEFINE n == NewPlaceholder
           m == Forget(n)
           k == [m EXCEPT !.label = label]
<1>1. IsNode(n) /\ n.inc = FALSE /\ n.bak = NoTree
  BY DEF NewPlaceholder, NewLeaf, IsNode
<1> HIDE DEF n
<1>2. Forgotten(m, n)
  BY <1>1, ForgetIs
<1> HIDE DEF m
<1>3. /\ IsNode(m) /\ m.known = FALSE /\ m.key = None /\ m.val = 0 /\ m.array = None
      /\ m.inc = FALSE /\ m.bak = NoTree
  BY <1>1, <1>2 DEF Forgotten
<1>4. Like(k, m, m.key, m.val, m.array, label, m.inc, m.bak)
  BY <1>3, WithIs
<1> HIDE DEF k
<1>5. Forgotten(k, o)
  BY <1>3, <1>4 DEF Like, Forgotten
<1> QED
  BY <1>5 DEF Unknown, k, m, n

\* A step of a proof: a node and the labels of its children are learnt.
LEMMA TaughtCut ==
    ASSUME NEW t, NEW f, NEW contents, NEW tx, NEW before, Following(t, f, contents, tx, before),
           NEW m, LooksLike(f, m), NEW p \in DOMAIN t, t[p].known = FALSE,
           NEW s, s = Taught(t, p, m), NEW g, g = Unnamed(f, p)
    PROVE  /\ Following(s, g, contents, tx, before) /\ LooksLike(g, m)
           /\ IsKnown(s, p) /\ KnowsMore(s, t) /\ SeesAsMuch(s, t)
<1> DEFINE inner == Inner(Present(contents))
<1>1. Has(f, contents, tx) /\ Cut(t, f) /\ Rests(t, f) /\ (tx = TRUE => Returns(f, before))
  BY DEF Following
<1>2. Full(f, inner) /\ DOMAIN f = NodesFor(inner) /\ DOMAIN f \subseteq Positions
  BY <1>1, MidFull DEF Has
<1> HIDE DEF inner
<1>3. DOMAIN t \subseteq DOMAIN f /\ <<>> \in DOMAIN t /\ p \in DOMAIN f /\ p \in Positions
  BY <1>1, <1>2 DEF Cut
<1>4. /\ Has(g, contents, tx) /\ DiffersAt(g, f, p)
      /\ Like(g[p], f[p], f[p].key, f[p].val, None, f[p].label, f[p].inc, f[p].bak)
      /\ \A q \in DOMAIN f : Quiet(f, q) => Quiet(g, q)
      /\ Returns(f, before) => Returns(g, before)
  BY <1>1, <1>3, UnnamedHas
<1>5. DOMAIN g = DOMAIN f /\ \A q \in DOMAIN f : q # p => g[q] = f[q]
  BY <1>4 DEF DiffersAt
<1>6. Forgotten(t[p], f[p]) /\ \A i \in 1..2 : Append(p, i) \notin DOMAIN t
  <2>1. Forgotten(t[p], f[p])
    BY <1>1, <1>2, CutNode
  <2>2. ~IsKnown(t, p)
    BY DEF IsKnown
  <2>3. \A i \in 1..2 : Append(p, i) \notin DOMAIN t
    BY <1>1, <1>3, <2>2 DEF Cut
  <2> QED
    BY <2>1, <2>3
<1>7. IsNode(f[p]) /\ f[p].known = TRUE
  BY <1>2, <1>3 DEF Full
<1>8. /\ DOMAIN s = DOMAIN t \cup {q \in DOMAIN m : \E i \in 1..2 : q = Append(p, i)}
      /\ \A q \in DOMAIN t : q # p => s[q] = t[q]
      /\ \A q \in DOMAIN s : q \notin DOMAIN t => s[q] = Unknown(m[q].label)
  BY DEF Taught
<1>9. s[p] = g[p]
  <2>1. s[p] = Filled(t[p], m[p].key, m[p].val)
    BY DEF Taught, Filled
  <2>2. m[p].key = f[p].key /\ m[p].val = f[p].val
    BY <1>3 DEF LooksLike
  <2>3. Filled(t[p], f[p].key, f[p].val) = g[p]
    BY <1>4, <1>6, <1>7, TaughtNode
  <2> QED
    BY <2>1, <2>2, <2>3
<1> HIDE DEF Taught
<1>10. g[p].known = TRUE /\ g[p].bak = f[p].bak /\ g[p].inc = f[p].inc /\ IsKnown(s, p)
  BY <1>4, <1>7, <1>8, <1>9 DEF Like, IsKnown
<1>11. LooksLike(g, m)
  <2>1. \A q \in DOMAIN f : g[q].key = f[q].key /\ g[q].val = f[q].val /\ g[q].label = f[q].label
    BY <1>4, <1>5 DEF Like
  <2> QED
    BY <1>5, <2>1 DEF LooksLike
<1>12. KnowsMore(s, t)
  <2> SUFFICES ASSUME NEW q, IsKnown(t, q) PROVE IsKnown(s, q)
    BY DEF KnowsMore
  <2>1. q \in DOMAIN t /\ t[q].known = TRUE /\ q # p
    BY DEF IsKnown
  <2> QED
    BY <1>8, <2>1 DEF IsKnown
<1>13. ASSUME NEW q \in DOMAIN s, q \notin DOMAIN t
       PROVE  /\ q \in DOMAIN f /\ q \in Positions /\ q # p /\ \E i \in 1..2 : q = Append(p, i)
              /\ Forgotten(s[q], g[q])
  <2>1. q \in DOMAIN m /\ DOMAIN m = DOMAIN f /\ (\E i \in 1..2 : q = Append(p, i)) /\ q # p
    BY <1>8, <1>13 DEF LooksLike
  <2>2. f[q].label = m[q].label
    BY <2>1 DEF LooksLike
  <2>3. ~IsKnown(t, q)
    BY <1>13 DEF IsKnown
  <2>4. f[q].inc = FALSE /\ f[q].bak = NoTree
    BY <1>1, <1>13, <2>1, <2>3 DEF Rests
  <2>5. Forgotten(Unknown(m[q].label), f[q])
    BY <2>2, <2>4, UnknownIs
  <2> QED
    BY <1>2, <1>5, <1>8, <1>13, <2>1, <2>5
<1>14. Cut(s, g)
  <2>1. DOMAIN s \subseteq DOMAIN g /\ <<>> \in DOMAIN s
    BY <1>3, <1>5, <1>8, <1>13
  <2>2. ASSUME NEW q \in Positions, NEW i \in 1..2, Append(q, i) \in DOMAIN s PROVE IsKnown(s, q)
    <3>1. CASE Append(q, i) \in DOMAIN t
      <4>1. IsKnown(t, q)
        BY <1>1, <3>1 DEF Cut
      <4> QED
        BY <1>12, <4>1 DEF KnowsMore
    <3>2. CASE Append(q, i) \notin DOMAIN t
      <4>1. PICK j \in 1..2 : Append(q, i) = Append(p, j)
        BY <1>13, <2>2, <3>2
      <4>2. q = p
        BY <1>3, <4>1, KidsDiffer
      <4> QED
        BY <1>10, <4>2
    <3> QED
      BY <3>1, <3>2
  <2>3. ASSUME NEW q \in DOMAIN s PROVE CutAt(s, g, q)
    <3>1. CASE q = p
      <4>1. ASSUME NEW i \in 1..2, Append(p, i) \in DOMAIN g PROVE Append(p, i) \in DOMAIN s
        <5>1. Append(p, i) \in DOMAIN m
          BY <1>5, <4>1 DEF LooksLike
        <5> QED
          BY <1>8, <5>1
      <4> QED
        BY <1>9, <1>10, <3>1, <4>1 DEF CutAt
    <3>2. CASE q # p /\ q \in DOMAIN t
      <4>1. CutAt(t, f, q) /\ s[q] = t[q] /\ g[q] = f[q]
        BY <1>1, <1>3, <1>5, <1>8, <3>2 DEF Cut
      <4> QED
        BY <1>5, <1>8, <4>1 DEF CutAt
    <3>3. CASE q \notin DOMAIN t
      BY <1>13, <3>3 DEF CutAt
    <3> QED
      BY <3>1, <3>2, <3>3
  <2> QED
    BY <2>1, <2>2, <2>3 DEF Cut
<1>15. Rests(s, g)
  <2>1. ASSUME NEW q \in DOMAIN g, ~IsKnown(s, q) PROVE Quiet(g, q) /\ g[q].bak = NoTree
    <3>1. ~IsKnown(t, q) /\ q \in DOMAIN f
      BY <1>5, <1>12, <2>1 DEF KnowsMore
    <3>2. Quiet(f, q) /\ f[q].bak = NoTree
      BY <1>1, <3>1 DEF Rests
    <3> QED
      BY <1>4, <1>5, <1>10, <3>1, <3>2
  <2>2. ASSUME NEW q \in DOMAIN g, q \notin DOMAIN s PROVE g[q].inc = FALSE
    BY <1>1, <1>5, <1>8, <1>10, <2>2 DEF Rests
  <2>3. ASSUME NEW q \in Positions, NEW i \in 1..2, Append(q, i) \in DOMAIN s, ~IsKnown(s, Append(q, i)),
               NEW r \in DOMAIN g, Under(q, r)
        PROVE  Quiet(g, r)
    <3>1. CASE Append(q, i) \in DOMAIN t
      <4>1. ~IsKnown(t, Append(q, i))
        BY <1>12, <2>3 DEF KnowsMore
      <4>2. Quiet(f, r)
        BY <1>1, <1>5, <2>3, <3>1, <4>1 DEF Rests
      <4> QED
        BY <1>4, <1>5, <4>2
    <3>2. CASE Append(q, i) \notin DOMAIN t
      <4>1. PICK j \in 1..2 : Append(q, i) = Append(p, j)
        BY <1>13, <2>3, <3>2
      <4>2. q = p
        BY <1>3, <4>1, KidsDiffer
      <4>3. Calm(f, p)
        BY <1>1, <1>2, UnknownCalm
      <4>4. Quiet(f, r)
        BY <1>5, <2>3, <4>2, <4>3 DEF Calm
      <4> QED
        BY <1>4, <1>5, <4>4
    <3> QED
      BY <3>1, <3>2
  <2> QED
    BY <2>1, <2>2, <2>3 DEF Rests
<1>16. SeesAsMuch(s, t)
  <2> SUFFICES ASSUME NEW l \in Keys, Sees(t, l) PROVE Sees(s, l)
    BY DEF SeesAsMuch
  <2>1. t[<<>>].known = TRUE /\ p # <<>>
    BY DEF Sees
  <2>2. s[<<>>].known = TRUE
    BY <1>3, <1>8, <2>1
  <2>3. ASSUME NEW q \in Positions, NEW i \in 1..2, On(l, q), Append(q, i) \in DOMAIN s
        PROVE  s[Append(q, i)].known = TRUE
    <3>1. CASE Append(q, i) \in DOMAIN t
      <4>1. IsKnown(t, Append(q, i))
        BY <2>3, <3>1 DEF Sees, IsKnown
      <4> QED
        BY <1>12, <4>1 DEF KnowsMore, IsKnown
    <3>2. CASE Append(q, i) \notin DOMAIN t
      <4>1. PICK j \in 1..2 : Append(q, i) = Append(p, j)
        BY <1>13, <2>3, <3>2
      <4>2. q = p
        BY <1>3, <4>1, KidsDiffer
      <4>3. PICK r \in Positions, h \in 1..2 : p = Append(r, h)
        BY <1>3, <2>1, Up
      <4>4. On(l, r)
        BY <1>3, <2>3, <4>2, <4>3, OnKid
      <4>5. t[p].known = TRUE
        BY <4>3, <4>4 DEF Sees
      <4> QED
        BY <4>5
    <3> QED
      BY <3>1, <3>2
  <2> QED
    BY <2>2, <2>3 DEF Sees
<1>18. Marking(g)
  <2>1. \A q \in DOMAIN f : g[q].inc = f[q].inc /\ g[q].bak = f[q].bak
    BY <1>4, <1>5, <1>10
  <2>2. SameMarks(g, f)
    BY <1>5, <2>1 DEF SameMarks
  <2>3. Marking(f)
    BY DEF Following
  <2> QED
    BY <2>2, <2>3, SameMarking
<1>17. Following(s, g, contents, tx, before)
  BY <1>1, <1>4, <1>14, <1>15, <1>18 DEF Following
<1> QED
  BY <1>10, <1>11, <1>12, <1>16, <1>17

\* A tree that follows, and looks like m as far as it is known.
FollowsOn(t, contents, tx, before, m) ==
    \E f : Following(t, f, contents, tx, before) /\ LooksLike(f, m)

\* s follows as t does, and knows more.
LearntMore(s, t, contents, tx, before, m) ==
    FollowsOn(s, contents, tx, before, m) /\ KnowsMore(s, t) /\ SeesAsMuch(s, t)

\* A step of a proof, at a node that may be known already.
LEMMA LearnCut ==
    ASSUME NEW contents, NEW tx, NEW before, NEW m,
           NEW t, FollowsOn(t, contents, tx, before, m), NEW p \in DOMAIN t,
           NEW s, s = Learn(t, p, m)
    PROVE  LearntMore(s, t, contents, tx, before, m) /\ IsKnown(s, p)
<1>1. PICK f : Following(t, f, contents, tx, before) /\ LooksLike(f, m)
  BY DEF FollowsOn
<1> DEFINE inner == Inner(Present(contents))
<1>2. Full(f, inner) /\ Cut(t, f)
  BY <1>1, MidFull DEF Following, Has
<1> HIDE DEF inner
<1>3. t[p].known \in BOOLEAN
  BY <1>2, CutNode
<1>4. CutAt(t, f, p) /\ p \in DOMAIN f
  BY <1>2 DEF Cut
<1>5. t[p].label = m[p].label
  BY <1>1, <1>4 DEF CutAt, Forgotten, LooksLike
<1>6. CASE t[p].known = TRUE
  <2>1. s = t
    BY <1>6 DEF Learn
  <2> QED
    BY <1>6, <2>1 DEF IsKnown, LearntMore, KnowsMore, SeesAsMuch
<1>7. CASE t[p].known = FALSE
  <2>1. s = Taught(t, p, m)
    BY <1>5, <1>7 DEF Learn, Taught
  <2> DEFINE g == Unnamed(f, p)
  <2>2. /\ Following(s, g, contents, tx, before) /\ LooksLike(g, m)
        /\ IsKnown(s, p) /\ KnowsMore(s, t) /\ SeesAsMuch(s, t)
    BY <1>1, <1>7, <2>1, TaughtCut
  <2> HIDE DEF g
  <2> QED
    BY <2>2 DEF FollowsOn, LearntMore
<1> QED
  BY <1>3, <1>6, <1>7

\* What is learnt in two steps.
LEMMA LearntAgain ==
    ASSUME NEW contents, NEW tx, NEW before, NEW m, NEW t, NEW s, NEW r,
           LearntMore(s, t, contents, tx, before, m), LearntMore(r, s, contents, tx, before, m)
    PROVE  LearntMore(r, t, contents, tx, before, m)
BY DEF LearntMore, KnowsMore, SeesAsMuch

\* The steps of a proof for k.
IsLesson(w, t, k, m) ==
    /\ w[0] = Learn(t, <<>>, m) /\ LearnPath(t, k, m) = w[Depth(m, k)]
    /\ \A d \in 1..Depth(m, k) :
          w[d] = Learn(Learn(w[d - 1], Append(At(k, d - 1), 1), m), Append(At(k, d - 1), 2), m)

\* A proof is learnt step by step.
LEMMA LessonIs ==
    ASSUME NEW t, NEW k, NEW m, Depth(m, k) \in Nat
    PROVE  \E w : IsLesson(w, t, k, m)
<1> DEFINE N == Depth(m, k)
           start == Learn(t, <<>>, m)
           Step(x, i) == Learn(Learn(x, Append(At(k, i - 1), 1), m), Append(At(k, i - 1), 2), m)
           Is(f, n) == f = [i \in 0..n |-> IF i = 0 THEN start ELSE Step(f[i - 1], i)]
           S == {n \in 0..N : \E f : Is(f, n)}
<1>1. N \in Nat
  OBVIOUS
<1> HIDE DEF Step, N, start
<1>2. 0 \in S
  <2> DEFINE f == [i \in 0..0 |-> start]
  <2>1. Is(f, 0) /\ 0 \in 0..N
    BY <1>1
  <2> QED
    BY <2>1
<1>3. ASSUME NEW n \in 0..N, n < N, n \in S PROVE n + 1 \in S
  <2>1. PICK f : Is(f, n)
    BY <1>3
  <2> DEFINE g == [i \in 0..(n + 1) |-> IF i = n + 1 THEN Step(f[n], n + 1) ELSE f[i]]
  <2>2. n + 1 \in 0..N /\ n \in Nat /\ \A i \in 0..(n + 1) : i # n + 1 => i \in 0..n
    BY <1>1, <1>3
  <2>3. \A i \in 0..n : i # 0 => g[i] = f[i] /\ g[i - 1] = f[i - 1]
    BY <2>2
  <2>4. g[n] = f[n] /\ g[0] = f[0] /\ f[0] = start
    BY <2>1, <2>2
  <2>5. ASSUME NEW i \in 0..(n + 1)
        PROVE  g[i] = IF i = 0 THEN start ELSE Step(g[i - 1], i)
    <3>1. CASE i = 0
      BY <2>4, <3>1
    <3>2. CASE i = n + 1
      <4>1. g[n + 1] = Step(f[n], n + 1) /\ i # 0 /\ i - 1 = n
        BY <2>2, <3>2
      <4> QED
        BY <2>4, <3>2, <4>1
    <3>3. CASE i # 0 /\ i # n + 1
      <4>1. i \in 0..n /\ f[i] = Step(f[i - 1], i)
        BY <2>1, <2>2, <3>3
      <4> QED
        BY <2>3, <3>3, <4>1
    <3> QED
      BY <3>1, <3>2, <3>3
  <2>6. Is(g, n + 1)
    BY <2>5
  <2> HIDE DEF Is
  <2> QED
    BY <2>2, <2>6
<1>4. \A n \in 0..N : n \in S
  <2> HIDE DEF S
  <2> QED
    BY <1>1, <1>2, <1>3, UpTo
<1> DEFINE up == CHOOSE f : Is(f, N)
<1>5. Is(up, N)
  <2>1. N \in S
    BY <1>1, <1>4
  <2> HIDE DEF Is
  <2> QED
    BY <2>1
<1>6. up[0] = start /\ \A i \in 1..N : up[i] = Step(up[i - 1], i)
  <2> HIDE DEF up
  <2> QED
    BY <1>1, <1>5
<1>7. LearnPath(t, k, m) = up[N]
  BY DEF LearnPath, Step, N, start
<1> HIDE DEF up
<1>8. IsLesson(up, t, k, m)
  BY <1>6, <1>7 DEF IsLesson, Step, N, start
<1> QED
  BY <1>8

\* The children of the first d nodes on the path of k are known.
KnownTo(t, k, d) ==
    IsKnown(t, <<>>) /\ \A e \in 1..d : \A i \in 1..2 : IsKnown(t, Append(At(k, e - 1), i))

\* A proof for k is learnt.
LEMMA LearnPathCut ==
    ASSUME NEW contents, NEW tx, NEW before, NEW m,
           NEW t, FollowsOn(t, contents, tx, before, m), NEW k \in Keys,
           NEW s, s = LearnPath(t, k, m)
    PROVE  LearntMore(s, t, contents, tx, before, m) /\ Sees(s, k)
<1> DEFINE inner == Inner(Present(contents))
           D == Depth(m, k)
           More(r) == LearntMore(r, t, contents, tx, before, m)
<1>1. ASSUME NEW r, FollowsOn(r, contents, tx, before, m)
      PROVE  \E f : /\ Full(f, inner) /\ Cut(r, f) /\ LooksLike(f, m)
                    /\ InnerSet(inner) /\ DOMAIN f = NodesFor(inner)
  <2>1. PICK f : Following(r, f, contents, tx, before) /\ LooksLike(f, m)
    BY <1>1 DEF FollowsOn
  <2>2. Full(f, inner) /\ Cut(r, f)
    BY <2>1, MidFull DEF Following, Has
  <2> QED
    BY <2>1, <2>2 DEF Full
<1> HIDE DEF inner
<1>2. /\ D \in 1..Bits /\ Bits \in Nat /\ DOMAIN m = NodesFor(inner) /\ InnerSet(inner)
      /\ \A d \in 0..Bits : At(k, d) \in inner <=> d < D
  <2>1. PICK f : Full(f, inner) /\ Cut(t, f) /\ LooksLike(f, m)
    BY <1>1
  <2>2. InnerSet(inner) /\ DOMAIN m = NodesFor(inner)
    BY <2>1 DEF Full, LooksLike
  <2>3. /\ Depth(m, k) \in 1..Bits
        /\ \A d \in 0..Bits : At(k, d) \in inner <=> d < Depth(m, k)
    BY <2>2, WalkEnds
  <2> QED
    BY <2>2, <2>3, PathsDiffer
<1>3. PICK w : IsLesson(w, t, k, m)
  BY <1>2, LessonIs
<1> DEFINE S == {d \in 0..D : More(w[d]) /\ KnownTo(w[d], k, d)}
<1>4. 0 \in S
  <2>1. <<>> \in DOMAIN t
    BY <1>1 DEF Cut
  <2>2. w[0] = Learn(t, <<>>, m)
    BY <1>3 DEF IsLesson
  <2>3. More(w[0]) /\ IsKnown(w[0], <<>>)
    BY <2>1, <2>2, LearnCut
  <2> QED
    BY <1>2, <2>3 DEF KnownTo
<1>5. ASSUME NEW d \in 0..D, d < D, d \in S PROVE d + 1 \in S
  <2> DEFINE p == At(k, d)
             a == Append(p, 1)
             b == Append(p, 2)
             x == w[d]
             y == Learn(x, a, m)
             z == Learn(y, b, m)
  <2>1. /\ d + 1 \in 1..D /\ d + 1 \in 0..D /\ (d + 1) - 1 = d /\ d \in 0..Bits
    BY <1>2, <1>5
  <2>2. w[d + 1] = z
    BY <1>3, <2>1 DEF IsLesson
  <2>3. More(x) /\ KnownTo(x, k, d)
    BY <1>5
  <2>4. p \in inner /\ p \in Positions
    BY <1>2, <1>5, <2>1, AtIs
  <2>5. IsKnown(x, p)
    <3>1. CASE d = 0
      <4>1. p = <<>>
        BY <2>1, <3>1, AtIs
      <4> QED
        BY <2>3, <4>1 DEF KnownTo
    <3>2. CASE d # 0
      <4>1. d \in 1..d /\ d - 1 \in 0..Bits /\ d - 1 < Bits /\ (d - 1) + 1 = d
        BY <1>2, <2>1, <3>2
      <4>2. Path[k][d] \in 1..2 /\ p = Append(At(k, d - 1), Path[k][d])
        BY <4>1, AtIs
      <4> QED
        BY <2>3, <4>1, <4>2 DEF KnownTo
    <3> QED
      BY <3>1, <3>2
  <2> HIDE DEF p, x
  <2>6. a \in DOMAIN x /\ b \in DOMAIN x
    <3>1. FollowsOn(x, contents, tx, before, m)
      BY <2>3 DEF LearntMore
    <3>2. PICK f : Full(f, inner) /\ Cut(x, f) /\ InnerSet(inner) /\ DOMAIN f = NodesFor(inner)
      BY <1>1, <3>1
    <3>3. 1 \in 1..2 /\ 2 \in 1..2
      OBVIOUS
    <3>4. a \in DOMAIN f /\ b \in DOMAIN f
      BY <2>4, <3>2, <3>3, NodesArePositions
    <3>5. \A i \in 1..2 : Append(p, i) \in DOMAIN x <=> Append(p, i) \in DOMAIN f
      BY <2>5, <3>2, KnownNode
    <3> QED
      BY <3>3, <3>4, <3>5
  <2> HIDE DEF a, b
  <2>7. LearntMore(y, x, contents, tx, before, m) /\ IsKnown(y, a)
    <3>1. FollowsOn(x, contents, tx, before, m)
      BY <2>3 DEF LearntMore
    <3> QED
      BY <2>6, <3>1, LearnCut
  <2> HIDE DEF y
  <2>8. b \in DOMAIN y
    <3>1. FollowsOn(y, contents, tx, before, m) /\ KnowsMore(y, x)
      BY <2>7 DEF LearntMore
    <3>2. IsKnown(y, p)
      BY <2>5, <3>1 DEF KnowsMore
    <3>3. PICK f : Full(f, inner) /\ Cut(y, f) /\ InnerSet(inner) /\ DOMAIN f = NodesFor(inner)
      BY <1>1, <3>1
    <3>4. 2 \in 1..2
      OBVIOUS
    <3>5. b \in DOMAIN f
      BY <2>4, <3>3, <3>4, NodesArePositions DEF b
    <3>6. \A i \in 1..2 : Append(p, i) \in DOMAIN y <=> Append(p, i) \in DOMAIN f
      BY <3>2, <3>3, KnownNode
    <3> QED
      BY <3>4, <3>5, <3>6 DEF b
  <2>9. LearntMore(z, y, contents, tx, before, m) /\ IsKnown(z, b)
    <3>1. FollowsOn(y, contents, tx, before, m)
      BY <2>7 DEF LearntMore
    <3> QED
      BY <2>8, <3>1, LearnCut
  <2> HIDE DEF z
  <2>10. LearntMore(z, x, contents, tx, before, m)
    BY <2>7, <2>9, LearntAgain
  <2>11. More(z)
    BY <2>3, <2>10, LearntAgain
  <2>12. KnownTo(z, k, d + 1)
    <3>1. KnowsMore(z, x) /\ KnowsMore(z, y)
      BY <2>9, <2>10 DEF LearntMore
    <3>2. IsKnown(z, <<>>)
      BY <2>3, <3>1 DEF KnownTo, KnowsMore
    <3>3. ASSUME NEW e \in 1..(d + 1), NEW i \in 1..2 PROVE IsKnown(z, Append(At(k, e - 1), i))
      <4>1. CASE e = d + 1
        <5>1. At(k, e - 1) = p
          BY <2>1, <4>1 DEF p
        <5>2. IsKnown(z, a)
          BY <2>7, <3>1 DEF KnowsMore
        <5>3. i = 1 \/ i = 2
          OBVIOUS
        <5> QED
          BY <2>9, <5>1, <5>2, <5>3 DEF a, b
      <4>2. CASE e # d + 1
        <5>1. e \in 1..d
          BY <2>1, <4>2
        <5>2. IsKnown(x, Append(At(k, e - 1), i))
          BY <2>3, <5>1 DEF KnownTo
        <5> QED
          BY <3>1, <5>2 DEF KnowsMore
      <4> QED
        BY <4>1, <4>2
    <3> QED
      BY <3>2, <3>3 DEF KnownTo
  <2> QED
    BY <2>1, <2>2, <2>11, <2>12
<1>6. D \in 0..D /\ D \in Nat
  BY <1>2
<1> HIDE DEF D, S
<1>7. \A d \in 0..D : d \in S
  BY <1>4, <1>5, <1>6, UpTo
<1>8. More(s) /\ KnownTo(s, k, D)
  <2>1. D \in S
    BY <1>6, <1>7
  <2>2. s = w[D]
    BY <1>3 DEF IsLesson, D
  <2> QED
    BY <2>1, <2>2 DEF S
<1>9. Sees(s, k)
  <2>1. FollowsOn(s, contents, tx, before, m)
    BY <1>8 DEF LearntMore
  <2>2. PICK f : Full(f, inner) /\ Cut(s, f) /\ DOMAIN f = NodesFor(inner)
    BY <1>1, <2>1
  <2>3. ASSUME NEW q \in Positions, NEW i \in 1..2, On(k, q), Append(q, i) \in DOMAIN s
        PROVE  s[Append(q, i)].known = TRUE
    <3>1. Append(q, i) \in DOMAIN f
      BY <2>2, <2>3 DEF Cut
    <3>2. q \in inner
      BY <1>2, <2>2, <3>1, NodesArePositions
    <3>3. Len(q) \in 0..Bits /\ At(k, Len(q)) = q
      BY <2>3, PositionIsSeq DEF On
    <3>4. Len(q) < D
      BY <1>2, <3>2, <3>3 DEF D
    <3>5. Len(q) + 1 \in 1..D /\ (Len(q) + 1) - 1 = Len(q)
      BY <1>6, <3>3, <3>4
    <3>6. IsKnown(s, Append(At(k, (Len(q) + 1) - 1), i))
      BY <1>8, <3>5 DEF KnownTo
    <3> QED
      BY <3>3, <3>5, <3>6 DEF IsKnown
  <2> QED
    BY <1>8, <2>3 DEF Sees, KnownTo, IsKnown
<1> QED
  BY <1>8, <1>9

-----------------------------------------------------------------------------
(* A tree that follows, through the manipulators and the updates.          *)

Follows(t, contents, tx, before) == \E f : Following(t, f, contents, tx, before)

\* s follows with the new contents, and a walk is as good in it as in t.
FollowsAs(s, t, new, tx, before) == Follows(s, new, tx, before) /\ SeesAsMuch(s, t)

\* new is contents, with v at k.
IsWrite(new, contents, k, v) == new[k] = v /\ \A l \in Keys : l # k => new[l] = contents[l]

\* Twins follow.
LEMMA TwinFollows ==
    ASSUME NEW t, NEW f, NEW contents, NEW tx, NEW before, Following(t, f, contents, tx, before),
           NEW s, NEW g, Twin(s, g, t), NEW new, NEW k, Mid(g, Inner(Present(new)), new, k, 0, tx),
           \A base : tx = TRUE /\ Rolls(f, base) => Rolls(g, base), Marking(f) => Marking(g)
    PROVE  FollowsAs(s, t, new, tx, before)
<1>1. Has(g, new, tx)
  BY AnyKey DEF Has
<1>2. ASSUME tx = TRUE PROVE Returns(g, before)
  BY <1>2 DEF Following, Returns
<1>3. Following(s, g, new, tx, before) /\ SeesAsMuch(s, t)
  BY <1>1, <1>2 DEF Following, Twin
<1> QED
  BY <1>3 DEF FollowsAs, Follows

\* Add in a tree that follows.
LEMMA AddFollows ==
    ASSUME NEW t, NEW contents, NEW tx \in BOOLEAN, NEW before, Follows(t, contents, tx, before),
           NEW k \in Keys, Sees(t, k), contents[k] = None,
           NEW v \in Vals, NEW new, IsWrite(new, contents, k, v)
    PROVE  FollowsAs(AddAt(t, k, v, tx), t, new, tx, before)
<1> DEFINE inner == Inner(Present(contents))
           s == AddAt(t, k, v, tx)
<1>1. PICK f : Following(t, f, contents, tx, before)
  BY DEF Follows
<1> DEFINE g == AddAt(f, k, v, tx)
<1>2. Mid(f, inner, contents, k, 0, tx) /\ Cut(t, f) /\ Rests(t, f)
  BY <1>1, AnyKey DEF Following, Has
<1>3. new[k] = v /\ \A l \in Keys : l # k => new[l] = contents[l]
  BY DEF IsWrite
<1>4. Twin(s, g, t)
  BY <1>2, <1>3, AddCut
<1>5. \A base : /\ Mid(g, Inner(Present(new)), new, k, 0, tx)
                /\ tx /\ Rolls(f, base) => Rolls(g, base)
                /\ Marking(f) => Marking(g)
  BY <1>2, <1>3, AddMid
<1> HIDE DEF s, g
<1>6. FollowsAs(s, t, new, tx, before)
  <2>1. Mid(g, Inner(Present(new)), new, k, 0, tx)
    BY <1>5
  <2>2. \A base : tx = TRUE /\ Rolls(f, base) => Rolls(g, base)
    BY <1>5
  <2>3. Marking(f) => Marking(g)
    BY <1>5
  <2> QED
    BY <1>1, <1>4, <2>1, <2>2, <2>3, TwinFollows
<1> QED
  BY <1>6 DEF s

\* Set in a tree that follows.
LEMMA SetFollows ==
    ASSUME NEW t, NEW contents, NEW tx \in BOOLEAN, NEW before, Follows(t, contents, tx, before),
           NEW k \in Keys, Sees(t, k), contents[k] # None,
           NEW v \in Vals, NEW new, IsWrite(new, contents, k, v)
    PROVE  FollowsAs(SetAt(t, k, v, tx), t, new, tx, before)
<1> DEFINE inner == Inner(Present(contents))
           s == SetAt(t, k, v, tx)
<1>1. PICK f : Following(t, f, contents, tx, before)
  BY DEF Follows
<1> DEFINE g == SetAt(f, k, v, tx)
<1>2. Mid(f, inner, contents, k, 0, tx) /\ Cut(t, f) /\ Rests(t, f)
  BY <1>1, AnyKey DEF Following, Has
<1>3. new[k] = v /\ \A l \in Keys : l # k => new[l] = contents[l]
  BY DEF IsWrite
<1>4. Present(new) = Present(contents)
  <2>1. v # None
    BY NoneIsNoKey
  <2> QED
    BY <1>3, <2>1 DEF Present
<1>7. inner = Inner(Present(new))
  BY <1>4
<1> HIDE DEF inner
<1>8. Twin(s, g, t)
  BY <1>2, <1>3, SetCut
<1>5. \A base : /\ Mid(g, inner, new, k, 0, tx)
                /\ tx /\ Rolls(f, base) => Rolls(g, base)
                /\ Marking(f) => Marking(g)
  BY <1>2, <1>3, SetMid
<1> HIDE DEF s, g
<1>6. FollowsAs(s, t, new, tx, before)
  <2>1. Mid(g, Inner(Present(new)), new, k, 0, tx)
    BY <1>5, <1>7
  <2>2. \A base : tx = TRUE /\ Rolls(f, base) => Rolls(g, base)
    BY <1>5
  <2>3. Marking(f) => Marking(g)
    BY <1>5
  <2> QED
    BY <1>1, <1>8, <2>1, <2>2, <2>3, TwinFollows
<1> QED
  BY <1>6 DEF s

\* Remove in a tree that follows.
LEMMA RemoveFollows ==
    ASSUME NEW t, NEW contents, NEW tx \in BOOLEAN, NEW before, Follows(t, contents, tx, before),
           NEW k \in Keys, Sees(t, k), contents[k] # None,
           NEW new, IsWrite(new, contents, k, None)
    PROVE  FollowsAs(RemoveAt(t, k, tx), t, new, tx, before)
<1> DEFINE inner == Inner(Present(contents))
           s == RemoveAt(t, k, tx)
<1>1. PICK f : Following(t, f, contents, tx, before)
  BY DEF Follows
<1> DEFINE g == RemoveAt(f, k, tx)
<1>2. Mid(f, inner, contents, k, 0, tx) /\ Cut(t, f) /\ Rests(t, f)
  BY <1>1, AnyKey DEF Following, Has
<1>3. new[k] = None /\ \A l \in Keys : l # k => new[l] = contents[l]
  BY DEF IsWrite
<1>4. Twin(s, g, t)
  BY <1>2, <1>3, RemoveCut
<1>5. ASSUME NEW base
      PROVE  /\ Mid(g, Inner(Present(new)), new, k, 0, tx)
             /\ tx /\ Rolls(f, base) => Rolls(g, base)
             /\ Marking(f) => Marking(g)
  <2>1. Mid(f, Inner(Present(contents)), contents, k, 0, tx)
    BY <1>2
  <2> HIDE DEF inner, s
  <2> QED
    BY <1>3, <2>1, RemoveMid
<1> HIDE DEF s, g
<1>6. FollowsAs(s, t, new, tx, before)
  <2>1. Mid(g, Inner(Present(new)), new, k, 0, tx)
    BY <1>5
  <2>2. \A base : tx = TRUE /\ Rolls(f, base) => Rolls(g, base)
    BY <1>5
  <2>3. Marking(f) => Marking(g)
    BY <1>5
  <2> QED
    BY <1>1, <1>4, <2>1, <2>2, <2>3, TwinFollows
<1> QED
  BY <1>6 DEF s

\* What a walk that meets known nodes finds is there.
LEMMA FollowsReads ==
    ASSUME NEW t, NEW contents \in Stored, NEW tx, NEW before, Follows(t, contents, tx, before),
           NEW k \in Keys, Sees(t, k)
    PROVE  Reaches(t, k) /\ Lookup(t, k) = contents[k]
<1>1. PICK f : Following(t, f, contents, tx, before)
  BY DEF Follows
<1>2. Has(f, contents, tx) /\ Cut(t, f)
  BY <1>1 DEF Following
<1>3. Full(f, Inner(Present(contents)))
  BY <1>2, MidFull DEF Has
<1>4. Reaches(t, k) /\ Lookup(t, k) = Lookup(f, k)
  BY <1>2, <1>3, SeesWalk
<1>5. Lookup(f, k) = contents[k]
  BY <1>2, Reads
<1> QED
  BY <1>4, <1>5

\* All keys of update u are seen.
SeesFor(t, u) == Sees(t, u.key) /\ (u.kind = "move" => Sees(t, u.to))

\* What update u makes of the contents.
Became(new, contents, u) ==
    /\ new \in Stored
    /\ u.kind \in {"add", "set"} => IsWrite(new, contents, u.key, u.val)
    /\ u.kind = "remove" => IsWrite(new, contents, u.key, None)
    /\ u.kind = "move" =>
          \E mid \in Stored : /\ IsWrite(mid, contents, u.key, None)
                              /\ IsWrite(new, mid, u.to, contents[u.key])

\* An update in a transaction.
LEMMA UpdatedFollows ==
    ASSUME NEW t, NEW contents \in Stored, NEW before, Follows(t, contents, TRUE, before),
           NEW u, UpdateOK(u), SeesFor(t, u), Check(u, contents),
           NEW new, Became(new, contents, u), NEW s, s = Updated(t, u)
    PROVE  FollowsAs(s, t, new, TRUE, before)
<1>1. /\ u.kind \in {"add", "set", "remove", "move"}
      /\ u.key \in Keys /\ u.to \in Keys /\ u.val \in Vals
  BY DEF UpdateOK
<1>2. Sees(t, u.key)
  BY DEF SeesFor
<1>3. Reaches(t, u.key) /\ Lookup(t, u.key) = contents[u.key]
  BY <1>1, <1>2, FollowsReads
<1>4. u.kind = "add" <=> contents[u.key] = None
  BY DEF Check
<1>5. CASE u.kind = "add"
  <2>1. contents[u.key] = None /\ IsWrite(new, contents, u.key, u.val)
    BY <1>4, <1>5 DEF Became
  <2>2. s = AddAt(t, u.key, u.val, TRUE)
    BY <1>3, <1>5, <2>1 DEF Updated, Added
  <2> QED
    BY <1>1, <1>2, <2>1, <2>2, AddFollows
<1>6. CASE u.kind = "set"
  <2>1. contents[u.key] # None /\ IsWrite(new, contents, u.key, u.val)
    BY <1>4, <1>6 DEF Became
  <2>2. s = SetAt(t, u.key, u.val, TRUE)
    BY <1>3, <1>6, <2>1 DEF Updated, Replaced
  <2> QED
    BY <1>1, <1>2, <2>1, <2>2, SetFollows
<1>7. CASE u.kind = "remove"
  <2>1. contents[u.key] # None /\ IsWrite(new, contents, u.key, None)
    BY <1>4, <1>7 DEF Became
  <2>2. s = RemoveAt(t, u.key, TRUE)
    BY <1>3, <1>7, <2>1 DEF Updated, Removed
  <2> QED
    BY <1>1, <1>2, <2>1, <2>2, RemoveFollows
<1>8. CASE u.kind = "move"
  <2> DEFINE r == RemoveAt(t, u.key, TRUE)
             v == contents[u.key]
  <2>1. PICK mid \in Stored : IsWrite(mid, contents, u.key, None) /\ IsWrite(new, mid, u.to, v)
    BY <1>8 DEF Became
  <2>2. v # None /\ contents[u.to] = None
    BY <1>4, <1>8 DEF Check
  <2>3. v \in Vals
    BY <1>1, <2>2 DEF Stored
  <2>4. mid[u.to] = None
    BY <1>1, <2>1, <2>2 DEF IsWrite
  <2>5. FollowsAs(r, t, mid, TRUE, before)
    BY <1>1, <1>2, <2>1, <2>2, RemoveFollows
  <2>6. Removed(t, u.key) = r
    BY <1>3, <2>2 DEF Removed
  <2> HIDE DEF r, v
  <2>7. Follows(r, mid, TRUE, before) /\ SeesAsMuch(r, t) /\ Sees(r, u.to)
    BY <1>1, <1>8, <2>5 DEF FollowsAs, SeesAsMuch, SeesFor
  <2>8. Reaches(r, u.to) /\ Lookup(r, u.to) = None
    BY <1>1, <2>1, <2>4, <2>7, FollowsReads
  <2>9. s = AddAt(r, u.to, v, TRUE)
    <3>1. s = Added(r, u.to, v)
      BY <1>3, <1>8, <2>6 DEF Updated, v
    <3> QED
      BY <2>8, <3>1 DEF Added
  <2>10. FollowsAs(s, r, new, TRUE, before)
    BY <1>1, <2>1, <2>3, <2>4, <2>7, <2>9, AddFollows
  <2> QED
    BY <2>5, <2>10 DEF FollowsAs, SeesAsMuch
<1> QED
  BY <1>1, <1>5, <1>6, <1>7, <1>8

\* After says what an update makes of the contents of the full collection.
LEMMA AfterIs ==
    ASSUME now \in Stored, NEW u, UpdateOK(u), Check(u, now)
    PROVE  Became(After(u), now, u)
<1>1. /\ u.kind \in {"add", "set", "remove", "move"}
      /\ u.key \in Keys /\ u.to \in Keys /\ u.val \in Vals
  BY DEF UpdateOK
<1>2. (u.kind = "add" <=> now[u.key] = None) /\ (u.kind = "move" => now[u.to] = None)
  BY DEF Check
<1> DEFINE a == [now EXCEPT ![u.key] = u.val]
           b == [now EXCEPT ![u.key] = None]
           c == [now EXCEPT ![u.key] = None, ![u.to] = now[u.key]]
<1>3. a \in Stored /\ IsWrite(a, now, u.key, u.val)
  BY <1>1 DEF Stored, IsWrite
<1>4. b \in Stored /\ IsWrite(b, now, u.key, None)
  BY <1>1 DEF Stored, IsWrite
<1>5. c \in Stored /\ IsWrite(c, b, u.to, now[u.key])
  BY <1>1 DEF Stored, IsWrite
<1>6. /\ u.kind \in {"add", "set"} => After(u) = a
      /\ u.kind = "remove" => After(u) = b
      /\ u.kind = "move" => After(u) = c
  BY DEF After
<1> HIDE DEF a, b, c
<1>7. u.kind \in {"add", "set"} \/ u.kind = "remove" \/ u.kind = "move"
  BY <1>1
<1>8. u.kind \in {"add", "set"} => u.kind # "remove" /\ u.kind # "move"
  OBVIOUS
<1> QED
  BY <1>3, <1>4, <1>5, <1>6, <1>7, <1>8 DEF Became

\* The check of an update answers the same in a tree that follows.
LEMMA ChecksAgree ==
    ASSUME NEW t, NEW contents \in Stored, NEW tx, NEW before, Follows(t, contents, tx, before),
           NEW u, UpdateOK(u), SeesFor(t, u)
    PROVE  Check(u, [k \in Keys |-> Lookup(t, k)]) <=> Check(u, contents)
<1>1. u.key \in Keys /\ u.to \in Keys
  BY DEF UpdateOK
<1>2. Lookup(t, u.key) = contents[u.key]
  BY <1>1, FollowsReads DEF SeesFor
<1>3. u.kind = "move" => Lookup(t, u.to) = contents[u.to]
  BY <1>1, FollowsReads DEF SeesFor
<1> QED
  BY <1>1, <1>2, <1>3 DEF Check

\* In a tree the marks climb as in the one it is cut from.
LEMMA CutClimbs ==
    ASSUME NEW t, NEW f, NEW inner, Full(f, inner), Cut(t, f)
    PROVE  /\ Climbs(f) => Climbs(t)
           /\ Rests(t, f) /\ Climbs(t) => Climbs(f)
<1>1. ASSUME NEW p \in DOMAIN t PROVE p \in DOMAIN f /\ t[p].inc = f[p].inc
  <2>1. p \in DOMAIN f
    BY DEF Cut
  <2>2. CutAt(t, f, p)
    BY DEF Cut
  <2>3. t[p].inc = f[p].inc
    BY <2>2 DEF CutAt, Forgotten
  <2> QED
    BY <2>1, <2>3
<1>2. ASSUME Climbs(f) PROVE Climbs(t)
  BY <1>1, <1>2 DEF Climbs
<1>3. ASSUME Rests(t, f), Climbs(t) PROVE Climbs(f)
  <2> SUFFICES ASSUME NEW p \in DOMAIN f, NEW i \in 1..2, Append(p, i) \in DOMAIN f,
                      f[Append(p, i)].inc = TRUE
               PROVE  f[p].inc = TRUE
    BY DEF Climbs
  <2> DEFINE c == Append(p, i)
  <2>1. p \in Positions
    BY NodesArePositions DEF Full
  <2>2. c \in DOMAIN t
    BY <1>3 DEF Rests
  <2>3. p \in DOMAIN t
    BY <2>1, <2>2 DEF Cut, IsKnown
  <2>4. t[c].inc = TRUE
    BY <1>1, <2>2
  <2>5. t[p].inc = TRUE
    BY <1>3, <2>2, <2>3, <2>4 DEF Climbs
  <2> QED
    BY <1>1, <2>3, <2>5
<1> QED
  BY <1>2, <1>3

\* A tree without backups has the marks it should have when they climb.
LEMMA GoodMarking ==
    ASSUME NEW f, NEW contents, Good(f, contents)
    PROVE  Marking(f) <=> Climbs(f)
<1>1. \A q \in DOMAIN f : f[q].bak = NoTree
  BY GoodFull
<1>2. Resumes(f)
  BY <1>1, NoTreeIsEmpty DEF Resumes
<1>3. BackupsOf(f) \subseteq {}
  BY <1>1 DEF BackupsOf
<1>4. BackupsClimb(f)
  BY <1>2, <1>3 DEF BackupsClimb
<1> QED
  BY <1>4 DEF Marking

\* Outside a transaction a tree follows when it is cut from a good one, and its marks climb.
LEMMA FollowsGood ==
    ASSUME NEW t, NEW contents, NEW before
    PROVE  Follows(t, contents, FALSE, before) <=> GoodCut(t, contents) /\ Climbs(t)
<1>1. \A f : Has(f, contents, FALSE) <=> Good(f, contents)
  BY GoodMid DEF Has
<1>2. ASSUME NEW f, Good(f, contents), Cut(t, f), Rests(t, f) PROVE Marking(f) <=> Climbs(t)
  <2>1. Full(f, Inner(Present(contents)))
    BY <1>2, GoodFull
  <2>2. Climbs(f) <=> Climbs(t)
    BY <1>2, <2>1, CutClimbs
  <2> QED
    BY <1>2, <2>2, GoodMarking
<1>3. ASSUME NEW f, Following(t, f, contents, FALSE, before) PROVE GoodCut(t, contents) /\ Climbs(t)
  <2>1. Good(f, contents) /\ Cut(t, f) /\ Rests(t, f) /\ Marking(f)
    BY <1>1, <1>3 DEF Following
  <2> QED
    BY <1>2, <2>1 DEF GoodCut
<1>4. ASSUME NEW f, Good(f, contents), Cut(t, f), Rests(t, f), Climbs(t)
      PROVE  Following(t, f, contents, FALSE, before)
  BY <1>1, <1>2, <1>4 DEF Following
<1> QED
  BY <1>3, <1>4 DEF Follows, GoodCut

\* What is seen stays seen, for an update too.
LEMMA SeesForAsMuch ==
    ASSUME NEW s, NEW t, SeesAsMuch(s, t), NEW u, UpdateOK(u), SeesFor(t, u)
    PROVE  SeesFor(s, u)
BY DEF SeesAsMuch, UpdateOK, SeesFor

\* The names of the arrays do not matter to the marks.
LEMMA NamedMarks ==
    ASSUME NEW t, \A p \in DOMAIN t : IsNode(t[p]), NEW own
    PROVE  SameMarks(Named(t, own), t)
<1> DEFINE s == Named(t, own)
<1>1. DOMAIN s = DOMAIN t
  BY DEF Named
<1>2. ASSUME NEW p \in DOMAIN t PROVE s[p].inc = t[p].inc /\ s[p].bak = t[p].bak
  <2> DEFINE n == t[p]
             a == IF own /\ IsLeaf(t, p) THEN n.key ELSE None
             m == [n EXCEPT !.array = a]
  <2>1. s[p] = m /\ IsNode(n)
    BY DEF Named
  <2> HIDE DEF s, n, a
  <2>2. Like(m, n, n.key, n.val, a, n.label, n.inc, n.bak)
    BY <2>1, WithIs
  <2> HIDE DEF m
  <2> QED
    BY <2>1, <2>2 DEF Like, n
<1> HIDE DEF s
<1>3. SameMarks(s, t)
  BY <1>1, <1>2 DEF SameMarks
<1> QED
  BY <1>3 DEF s

\* The marks that climb in t climb in what has those of t.
LEMMA SameClimbs ==
    ASSUME NEW s, NEW t, SameMarks(s, t), Climbs(t)
    PROVE  Climbs(s)
BY DEF SameMarks, Climbs

\* What is left of a tree has the marks it had.
LEMMA PrunedClimbs ==
    ASSUME NEW s, NEW w, Pruned(s, w), Climbs(w)
    PROVE  Climbs(s)
<1>1. \A p \in DOMAIN s : p \in DOMAIN w /\ s[p].inc = w[p].inc
  BY DEF Pruned, Forgotten
<1> QED
  BY <1>1 DEF Climbs

\* A copy has no marks.
LEMMA ClonedClimbs ==
    ASSUME NEW t, \A p \in DOMAIN t : IsNode(t[p])
    PROVE  Climbs(Cloned(t))
<1> DEFINE s == Cloned(t)
<1>1. ASSUME NEW p \in DOMAIN s PROVE s[p].inc = FALSE
  <2> DEFINE n == t[p]
             m == [n EXCEPT !.inc = FALSE]
             k == [m EXCEPT !.bak = NoTree]
  <2>1. s[p] = k /\ IsNode(n)
    BY DEF Cloned
  <2> HIDE DEF s, n
  <2>2. Like(m, n, n.key, n.val, n.array, n.label, FALSE, n.bak)
    BY <2>1, WithIs
  <2>3. IsNode(m) /\ m.inc = FALSE
    BY <2>2 DEF Like
  <2> HIDE DEF m
  <2>4. Like(k, m, m.key, m.val, m.array, m.label, m.inc, NoTree)
    BY <2>3, WithIs
  <2> HIDE DEF k
  <2> QED
    BY <2>1, <2>3, <2>4 DEF Like
<1> HIDE DEF s
<1>2. Climbs(s)
  BY <1>1 DEF Climbs
<1> QED
  BY <1>2 DEF s

\* All nodes above a marked one are marked.
LEMMA MarkedToRoot ==
    ASSUME NEW t, DOMAIN t \subseteq Positions, Climbs(t), NEW p \in DOMAIN t, t[p].inc = TRUE,
           \A d \in 0..Len(p) : Prefix(p, d) \in DOMAIN t
    PROVE  \A d \in 0..Len(p) : t[Prefix(p, d)].inc = TRUE
<1> DEFINE m == Len(p)
           S == {e \in 0..m : t[Prefix(p, m - e)].inc = TRUE}
<1>1. p \in Positions /\ m \in Nat
  BY PositionIsSeq
<1>2. 0 \in S
  <2>1. Prefix(p, m) = p /\ m - 0 = m /\ 0 \in 0..m
    BY <1>1, PrefixOf
  <2> QED
    BY <2>1
<1>3. ASSUME NEW e \in 0..m, e < m, e \in S PROVE e + 1 \in S
  <2> DEFINE d == m - (e + 1)
             q == Prefix(p, d)
             i == p[d + 1]
  <2>1. d \in 0..m /\ d < m /\ d + 1 = m - e /\ d + 1 \in 0..m /\ e + 1 \in 0..m
    BY <1>1, <1>3
  <2>2. t[Prefix(p, d + 1)].inc = TRUE
    BY <1>3, <2>1
  <2> HIDE DEF d, S
  <2>3. i \in 1..2 /\ Prefix(p, d + 1) = Append(q, i)
    BY <1>1, <2>1, PrefixOf
  <2>4. q \in DOMAIN t /\ Prefix(p, d + 1) \in DOMAIN t
    BY <2>1
  <2> HIDE DEF q, i
  <2>5. t[q].inc = TRUE
    BY <2>2, <2>3, <2>4 DEF Climbs
  <2> QED
    BY <2>1, <2>5 DEF S, q, d
<1> HIDE DEF S, m
<1>4. \A e \in 0..m : e \in S
  BY <1>1, <1>2, <1>3, UpTo
<1>5. ASSUME NEW d \in 0..m PROVE t[Prefix(p, d)].inc = TRUE
  <2>1. m - d \in 0..m /\ m - (m - d) = d
    BY <1>1, <1>5
  <2>2. m - d \in S
    BY <1>4, <2>1
  <2> QED
    BY <2>1, <2>2 DEF S
<1> QED
  BY <1>5 DEF m

\* What is not updated stays as it is.
LEMMA RelabelledElsewhere ==
    ASSUME NEW t, NEW V, NEW p \in DOMAIN t, p \notin V
    PROVE  Relabelled(t, V)[p] = t[p]
<1>1. PICK up : IsRelabelling(up, t, V)
  BY RelabellingIs
<1> DEFINE S == {i \in 0..(Bits + 1) : up[i][p] = t[p]}
<1>2. Bits + 1 \in Nat /\ 0 \in 0..(Bits + 1)
  BY PathsDiffer
<1>3. 0 \in S
  BY <1>1, <1>2 DEF IsRelabelling
<1>4. ASSUME NEW i \in 0..(Bits + 1), i < Bits + 1, i \in S PROVE i + 1 \in S
  <2> DEFINE j == i + 1
  <2>1. j \in 1..(Bits + 1) /\ j \in 0..(Bits + 1) /\ j - 1 = i
    BY <1>2, <1>4
  <2> HIDE DEF j
  <2>2. up[j] = Round(up[i], t, Turn(V, j))
    BY <1>1, <2>1 DEF IsRelabelling
  <2>3. p \notin Turn(V, j)
    BY DEF Turn
  <2>4. up[j][p] = up[i][p]
    BY <2>2, <2>3 DEF Round
  <2> QED
    BY <1>4, <2>1, <2>4 DEF j
<1> HIDE DEF S
<1>5. \A i \in 0..(Bits + 1) : i \in S
  BY <1>2, <1>3, <1>4, UpTo
<1>6. Bits + 1 \in S
  BY <1>2, <1>5
<1> QED
  BY <1>1, <1>6 DEF S, IsRelabelling

\* fix leaves no mark, when all marks can be found.
LEMMA FixedClimbs ==
    ASSUME NEW t, NEW f, NEW inner, Full(f, inner), Cut(t, f), Rests(t, f), LeavesAreRight(f),
           Climbs(t), NEW s, s = Fixed(t)
    PROVE  Climbs(s)
<1> DEFINE V == {p \in DOMAIN t : \A d \in 0..Len(p) : t[Prefix(p, d)].inc}
           r == Relabelled(t, V)
<1>1. s = [p \in DOMAIN t |-> IF p \in V THEN [r[p] EXCEPT !.inc = FALSE] ELSE r[p]]
  BY DEF Fixed
<1>2. DOMAIN t \subseteq Positions
  BY CutNode
<1>3. ASSUME NEW p \in DOMAIN t, t[p].inc = TRUE PROVE p \in V
  <2>1. \A d \in 0..Len(p) : Prefix(p, d) \in DOMAIN t
    BY CutAbove
  <2>2. \A d \in 0..Len(p) : t[Prefix(p, d)].inc = TRUE
    BY <1>2, <1>3, <2>1, MarkedToRoot
  <2> QED
    BY <2>2
<1> HIDE DEF V
<1>4. HasNodes(r, t)
  <2> DEFINE h == Relabelled(f, V)
  <2> QED
    BY RelabelledCut
<1>5. \A p \in DOMAIN t : p \notin V => r[p] = t[p]
  BY RelabelledElsewhere
<1> HIDE DEF r
<1>6. ASSUME NEW p \in DOMAIN s PROVE s[p].inc # TRUE
  <2>0. p \in DOMAIN t
    BY <1>1
  <2>1. CASE p \notin V
    BY <1>1, <1>3, <1>5, <2>0, <2>1
  <2>2. CASE p \in V
    <3> DEFINE n == r[p]
               m == [n EXCEPT !.inc = FALSE]
    <3>1. s[p] = m /\ IsNode(n)
      BY <1>1, <1>4, <2>0, <2>2 DEF HasNodes
    <3> HIDE DEF n
    <3>2. Like(m, n, n.key, n.val, n.array, n.label, FALSE, n.bak)
      BY <3>1, WithIs
    <3> HIDE DEF m
    <3>3. m.inc = FALSE
      BY <3>2 DEF Like
    <3> QED
      BY <3>1, <3>3
  <2> QED
    BY <2>1, <2>2
<1> QED
  BY <1>6 DEF Climbs

\* End leaves no mark.
LEMMA EndedClimbs ==
    ASSUME NEW t, NEW f, NEW contents, Has(f, contents, TRUE), Cut(t, f), Rests(t, f), Marking(f)
    PROVE  Climbs(Ended(t))
<1> DEFINE inner == Inner(Present(contents))
           s == Confirmed(t)
           g == Confirmed(f)
           v == Fixed(s)
           w == Fixed(g)
           x == Collected(v)
<1>1. Mid(f, inner, contents, None, 0, TRUE)
  BY DEF Has
<1>2. Cut(s, g) /\ Rests(s, g) /\ Full(g, inner)
  BY <1>1, ConfirmedCut
<1>3. LeavesAreRight(g) /\ SettledFrom(w, g, inner)
  BY <1>1, ConfirmedRight
<1>4. Climbs(g)
  <2>1. /\ DOMAIN g = DOMAIN f
        /\ \A p \in DOMAIN f :
              Like(g[p], f[p], f[p].key, f[p].val, f[p].array, f[p].label, f[p].inc, NoTree)
    BY <1>1, ConfirmedIs
  <2>2. \A p \in DOMAIN f : g[p].inc = f[p].inc
    BY <2>1 DEF Like
  <2>3. Climbs(f)
    BY DEF Marking
  <2> QED
    BY <2>1, <2>2, <2>3 DEF Climbs
<1>5. Ended(t) = Named(x, FALSE)
  BY DEF Ended
<1> HIDE DEF s, g
<1>6. Climbs(s)
  BY <1>2, <1>4, CutClimbs
<1>7. Climbs(v)
  BY <1>2, <1>3, <1>6, FixedClimbs
<1>8. Cut(v, w)
  BY <1>2, <1>3, FixedCut
<1>9. Full(w, inner)
  BY <1>2, <1>3 DEF SettledFrom, Full
<1> HIDE DEF v, w
<1>10. Pruned(x, v)
  BY <1>8, <1>9, CollectedPrunes
<1> HIDE DEF x
<1>11. Climbs(x)
  BY <1>7, <1>10, PrunedClimbs
<1>12. \A p \in DOMAIN x : IsNode(x[p])
  <2>1. \A p \in DOMAIN v : IsNode(v[p])
    BY <1>8, <1>9, CutNode
  <2> QED
    BY <1>10, <2>1 DEF Pruned, Forgotten
<1>13. Climbs(Named(x, FALSE))
  BY <1>11, <1>12, NamedMarks, SameClimbs
<1> QED
  BY <1>5, <1>13

\* Rollback gives back marks that climb.
LEMMA RollbackClimbs ==
    ASSUME NEW t, NEW f, NEW contents, Has(f, contents, TRUE), Cut(t, f), Rests(t, f), Marking(f),
           NEW before, Returns(f, before)
    PROVE  Climbs(Named(RolledBack(t), FALSE))
<1> DEFINE s == RolledBack(t)
           g == RolledBack(f)
<1>1. Full(g, Inner(Present(before))) /\ Cut(s, g)
  BY RollbackTrees
<1>2. Climbs(g)
  BY RolledBackClimbs
<1> HIDE DEF s, g
<1>3. Climbs(s)
  BY <1>1, <1>2, CutClimbs
<1>4. \A p \in DOMAIN s : IsNode(s[p])
  BY <1>1, CutNode
<1>5. Climbs(Named(s, FALSE))
  BY <1>3, <1>4, NamedMarks, SameClimbs
<1> QED
  BY <1>5 DEF s

\* What the tree is after Begin.
LEMMA BegunFollows ==
    ASSUME NEW t, NEW contents, NEW before, Follows(t, contents, FALSE, before)
    PROVE  FollowsAs(Named(t, TRUE), t, contents, TRUE, contents)
<1>1. PICK f : Good(f, contents) /\ Cut(t, f) /\ Rests(t, f) /\ Marking(f)
  BY GoodMid DEF Follows, Following, Has
<1> DEFINE s == Named(t, TRUE)
           g == Named(f, TRUE)
<1>4. Marking(g)
  <2>1. \A p \in DOMAIN f : IsNode(f[p])
    BY <1>1, GoodFull
  <2> QED
    BY <1>1, <2>1, NamedMarks, SameMarking
<1>2. /\ Has(g, contents, TRUE) /\ Returns(g, contents)
      /\ Cut(s, g) /\ Rests(s, g) /\ SeesAsMuch(s, t)
  BY <1>1, BegunCut
<1> HIDE DEF s, g
<1>3. FollowsAs(s, t, contents, TRUE, contents)
  BY <1>2, <1>4 DEF FollowsAs, Follows, Following
<1> QED
  BY <1>3 DEF s

\* What the tree is after End.
LEMMA EndedFollows ==
    ASSUME NEW t, NEW contents, NEW before, Follows(t, contents, TRUE, before), NEW after
    PROVE  Follows(Ended(t), contents, FALSE, after)
<1>1. PICK f : Has(f, contents, TRUE) /\ Cut(t, f) /\ Rests(t, f) /\ Marking(f)
  BY DEF Follows, Following
<1>2. GoodCut(Ended(t), contents)
  BY <1>1, EndedCut
<1>3. Climbs(Ended(t))
  BY <1>1, EndedClimbs
<1> QED
  BY <1>2, <1>3, FollowsGood

\* What the tree is after Rollback.
LEMMA RolledBackFollows ==
    ASSUME NEW t, NEW contents, NEW before, Follows(t, contents, TRUE, before), NEW after
    PROVE  Follows(Named(RolledBack(t), FALSE), before, FALSE, after)
<1>1. PICK f : Following(t, f, contents, TRUE, before)
  BY DEF Follows
<1>2. Has(f, contents, TRUE) /\ Cut(t, f) /\ Rests(t, f) /\ Returns(f, before) /\ Marking(f)
  BY <1>1 DEF Following
<1>3. GoodCut(Named(RolledBack(t), FALSE), before)
  BY <1>2, RollbackCut
<1>4. Climbs(Named(RolledBack(t), FALSE))
  BY <1>2, RollbackClimbs
<1> QED
  BY <1>3, <1>4, FollowsGood

\* What is Collected follows.
LEMMA CollectedFollows ==
    ASSUME NEW t, NEW contents, NEW before, Follows(t, contents, FALSE, before), NEW after
    PROVE  Follows(Collected(t), contents, FALSE, after)
<1>1. PICK f : Good(f, contents) /\ Cut(t, f)
  BY FollowsGood DEF GoodCut
<1>2. GoodCut(Collected(t), contents)
  BY <1>1, CollectedCut
<1>3. Full(f, Inner(Present(contents))) /\ Climbs(t)
  BY <1>1, GoodFull, FollowsGood
<1>4. Pruned(Collected(t), t)
  BY <1>1, <1>3, CollectedPrunes
<1>5. Climbs(Collected(t))
  BY <1>3, <1>4, PrunedClimbs
<1> QED
  BY <1>2, <1>5, FollowsGood

\* The full collection after update u.
Outcome(u) == IF Check(u, now) THEN After(u) ELSE now

\* A tree that is as good for a walk, in a transaction.
Lasts(s, t, tx) == tx = TRUE => SeesAsMuch(s, t)

\* applyupdate, in a transaction or as one.
LEMMA AppliedFollows ==
    ASSUME now \in Stored, ongoing \in BOOLEAN, NEW before,
           NEW t, Follows(t, now, ongoing, before), NEW u, UpdateOK(u), SeesFor(t, u),
           NEW s, s = Apply(t, u), NEW new, new = Outcome(u)
    PROVE  new \in Stored /\ Follows(s, new, ongoing, before) /\ Lasts(s, t, ongoing)
<1>1. Check(u, [k \in Keys |-> Lookup(t, k)]) <=> Check(u, now)
  BY ChecksAgree
<1>2. CASE ~Check(u, now)
  <2>1. s = t /\ new = now
    BY <1>1, <1>2 DEF Apply, Passes, Outcome
  <2> QED
    BY <2>1 DEF Lasts, SeesAsMuch
<1>3. CASE Check(u, now)
  <2>1. new = After(u)
    BY <1>3 DEF Outcome
  <2>2. Became(new, now, u)
    BY <1>3, <2>1, AfterIs
  <2>3. new \in Stored
    BY <2>2 DEF Became
  <2>4. CASE ongoing = TRUE
    <3>1. s = Updated(t, u)
      BY <1>1, <1>3, <2>4 DEF Apply, Passes
    <3>2. Follows(t, now, TRUE, before)
      BY <2>4
    <3>3. FollowsAs(s, t, new, TRUE, before)
      BY <1>3, <2>2, <3>1, <3>2, UpdatedFollows
    <3> QED
      BY <2>3, <2>4, <3>3 DEF FollowsAs, Lasts
  <2>5. CASE ongoing = FALSE
    <3> DEFINE n == Named(t, TRUE)
               r == Updated(n, u)
    <3>1. s = Ended(r)
      BY <1>1, <1>3, <2>5 DEF Apply, Passes
    <3>2. FollowsAs(n, t, now, TRUE, now)
      BY <2>5, BegunFollows
    <3> HIDE DEF n
    <3>3. Follows(n, now, TRUE, now) /\ SeesAsMuch(n, t)
      BY <3>2 DEF FollowsAs
    <3>4. SeesFor(n, u)
      BY <3>3, SeesForAsMuch
    <3>5. FollowsAs(r, n, new, TRUE, now)
      BY <1>3, <2>2, <3>3, <3>4, UpdatedFollows
    <3> HIDE DEF r
    <3>6. Follows(r, new, TRUE, now)
      BY <3>5 DEF FollowsAs
    <3>7. Follows(s, new, FALSE, before)
      BY <3>1, <3>6, EndedFollows
    <3> QED
      BY <2>3, <2>5, <3>7 DEF Lasts
  <2> QED
    BY <2>4, <2>5
<1> QED
  BY <1>2, <1>3

\* Who is accepted has the contents, and the tree looks like theirs.
LEMMA AcceptsTells ==
    ASSUME now \in Stored, NEW tx, NEW before, Follows(tree, now, tx, before),
           NEW c \in AllContents, Accepts(c)
    PROVE  c = now /\ FollowsOn(tree, now, tx, before, FullTree[now])
<1>1. PICK f : Following(tree, f, now, tx, before)
  BY DEF Follows
<1>2. Has(f, now, tx) /\ Cut(tree, f)
  BY <1>1 DEF Following
<1> DEFINE m == FullTree[c]
<1>3. c \in Stored /\ m = CanonicalOf(c)
  BY DEF AllContents, Stored, FullTree
<1>4. Good(m, c)
  BY <1>3, CanonicalGood
<1>5. m[<<>>].label = tree[<<>>].label /\ ~tree[<<>>].inc
  BY DEF Accepts
<1> HIDE DEF m
<1>6. /\ tree[<<>>].label = f[<<>>].label /\ tree[<<>>].inc = f[<<>>].inc /\ f[<<>>].inc \in BOOLEAN
  <2>1. Full(f, Inner(Present(now)))
    BY <1>2, MidFull DEF Has
  <2>2. <<>> \in DOMAIN tree
    BY <1>2 DEF Cut
  <2>3. tree[<<>>].label = f[<<>>].label /\ tree[<<>>].inc = f[<<>>].inc /\ <<>> \in DOMAIN f
    <3>1. CutAt(tree, f, <<>>) /\ <<>> \in DOMAIN f
      BY <1>2, <2>2 DEF Cut
    <3> QED
      BY <3>1 DEF CutAt, Forgotten
  <2>4. Fits(f, <<>>, tx)
    BY <1>2, <2>3 DEF Has, Mid
  <2> QED
    BY <2>3, <2>4 DEF Fits, NodeOK
<1>7. f[<<>>].inc = FALSE /\ f[<<>>].label = m[<<>>].label
  BY <1>5, <1>6
<1>8. c = now /\ LooksLike(f, m)
  BY <1>2, <1>3, <1>4, <1>7, RootTells
<1> QED
  BY <1>1, <1>8 DEF FollowsOn, m

\* What is learnt follows.
LEMMA LearntFollows ==
    ASSUME now \in Stored, NEW tx, NEW before, Follows(tree, now, tx, before),
           NEW c \in AllContents, Accepts(c), NEW k \in Keys
    PROVE  FollowsAs(Learnt(k, c), tree, now, tx, before)
<1> DEFINE s == LearnPath(tree, k, FullTree[now])
<1>1. c = now /\ FollowsOn(tree, now, tx, before, FullTree[now])
  BY AcceptsTells
<1>2. LearntMore(s, tree, now, tx, before, FullTree[now])
  BY <1>1, LearnPathCut
<1>3. Learnt(k, c) = s
  BY <1>1 DEF Learnt
<1> HIDE DEF s
<1>4. FollowsOn(s, now, tx, before, FullTree[now]) /\ SeesAsMuch(s, tree)
  BY <1>2 DEF LearntMore
<1>5. Follows(s, now, tx, before)
  BY <1>4 DEF FollowsOn, Follows
<1> QED
  BY <1>3, <1>4, <1>5 DEF FollowsAs

\* What is learnt for an update follows, and the update can be applied to it.
LEMMA LearntForFollows ==
    ASSUME now \in Stored, NEW tx, NEW before, Follows(tree, now, tx, before),
           NEW c \in AllContents, Accepts(c), NEW u, UpdateOK(u)
    PROVE  FollowsAs(LearntFor(u, c), tree, now, tx, before) /\ SeesFor(LearntFor(u, c), u)
<1> DEFINE m == FullTree[now]
           s == LearnPath(tree, u.key, m)
           r == LearnPath(s, u.to, m)
<1>1. c = now /\ FollowsOn(tree, now, tx, before, m)
  BY AcceptsTells
<1>2. u.key \in Keys /\ u.to \in Keys
  BY DEF UpdateOK
<1> HIDE DEF m
<1>3. LearntMore(s, tree, now, tx, before, m) /\ Sees(s, u.key)
  BY <1>1, <1>2, LearnPathCut
<1>4. Learnt(u.key, c) = s
  BY <1>1 DEF Learnt, m
<1> HIDE DEF s
<1>5. FollowsOn(s, now, tx, before, m)
  BY <1>3 DEF LearntMore
<1>6. LearntMore(r, s, now, tx, before, m) /\ Sees(r, u.to)
  BY <1>2, <1>5, LearnPathCut
<1>7. LearntMore(r, tree, now, tx, before, m)
  BY <1>3, <1>6, LearntAgain
<1>8. Sees(r, u.key)
  BY <1>2, <1>3, <1>6 DEF LearntMore, SeesAsMuch
<1>9. /\ u.kind = "move" => LearntFor(u, c) = r
      /\ u.kind # "move" => LearntFor(u, c) = s
  BY <1>1, <1>4 DEF LearntFor, m
<1> HIDE DEF r
<1>10. CASE u.kind = "move"
  BY <1>6, <1>7, <1>8, <1>9, <1>10 DEF LearntMore, FollowsOn, FollowsAs, Follows, SeesFor
<1>11. CASE u.kind # "move"
  BY <1>3, <1>9, <1>11 DEF LearntMore, FollowsOn, FollowsAs, Follows, SeesFor
<1> QED
  BY <1>10, <1>11

\* The walk for k ends at a leaf.
LEMMA CutWalkEnds ==
    ASSUME NEW t, NEW f, NEW inner, Full(f, inner), Cut(t, f), NEW k \in Keys
    PROVE  /\ Depth(t, k) \in 0..Bits
           /\ At(k, Depth(t, k)) \in DOMAIN t /\ IsLeaf(t, At(k, Depth(t, k)))
<1> DEFINE D == Depth(f, k)
           S == {d \in 0..D : At(k, d) \in DOMAIN t}
           Ends(d) == At(k, d) \in DOMAIN t /\ IsLeaf(t, At(k, d))
<1>1. /\ D \in 1..Bits /\ \A d \in 0..Bits : At(k, d) \in inner <=> d < D
      /\ DOMAIN f = NodesFor(inner) /\ InnerSet(inner) /\ Bits \in Nat
  BY WalkEnds, PathsDiffer DEF Full
<1>2. \E d \in 0..Bits : Ends(d)
  <2> SUFFICES ASSUME \A d \in 0..Bits : ~Ends(d) PROVE FALSE
    OBVIOUS
  <2>1. 0 \in S
    <3>1. 0 \in 0..Bits /\ 0 \in 0..D
      BY <1>1
    <3>2. At(k, 0) = <<>>
      BY <3>1, AtIs
    <3> QED
      BY <3>1, <3>2 DEF Cut
  <2>2. ASSUME NEW d \in 0..D, d < D, d \in S PROVE d + 1 \in S
    <3> DEFINE i == Path[k][d + 1]
               p == At(k, d)
    <3>1. d \in 0..Bits /\ d < Bits /\ d + 1 \in 0..D
      BY <1>1, <2>2
    <3>2. p \in Positions /\ i \in 1..2 /\ At(k, d + 1) = Append(p, i)
      BY <3>1, AtIs
    <3>3. Append(p, i) \in DOMAIN f
      BY <1>1, <2>2, <3>1, <3>2, NodesArePositions
    <3>4. p \in DOMAIN t /\ ~IsLeaf(t, p)
      BY <2>2, <3>1
    <3> HIDE DEF p, i
    <3>5. t[p].known = TRUE
      <4>1. t[p].known \in BOOLEAN
        BY <3>4, CutNode
      <4>2. t[p].known = FALSE => IsLeaf(t, p)
        BY <3>4, CutNode
      <4> QED
        BY <3>4, <4>1, <4>2
    <3>6. Append(p, i) \in DOMAIN t
      BY <3>2, <3>3, <3>4, <3>5, CutNode
    <3> QED
      BY <3>1, <3>2, <3>6
  <2>3. D \in 0..D /\ D \in Nat
    BY <1>1
  <2>4. D \in S
    <3> HIDE DEF S, D
    <3> QED
      BY <2>1, <2>2, <2>3, UpTo
  <2>5. At(k, D) \in DOMAIN t /\ At(k, D) \in Positions /\ At(k, D) \notin inner
    BY <1>1, <2>4, AtIs
  <2>6. IsLeaf(f, At(k, D))
    BY <1>1, <2>5, LeafIsOuter
  <2>7. IsLeaf(t, At(k, D))
    BY <2>5, <2>6 DEF Cut, IsLeaf
  <2> QED
    BY <1>1, <2>5, <2>7
<1>3. Depth(t, k) = CHOOSE d \in 0..Bits : Ends(d)
  BY DEF Depth
<1> DEFINE E == CHOOSE d \in 0..Bits : Ends(d)
<1>4. E \in 0..Bits /\ Ends(E)
  <2> HIDE DEF Ends
  <2> QED
    BY <1>2
<1> QED
  BY <1>3, <1>4

\* A walk that a manipulator goes through meets known nodes only.
LEMMA ReachesSees ==
    ASSUME NEW t, NEW f, NEW inner, Full(f, inner), Cut(t, f), NEW k \in Keys, Reaches(t, k)
    PROVE  Sees(t, k)
<1> DEFINE D == Depth(t, k)
           z == At(k, D)
<1>1. D \in 0..Bits /\ z \in DOMAIN t /\ IsLeaf(t, z)
  BY CutWalkEnds
<1>2. /\ t[<<>>].known
      /\ \A d \in 1..D : \A i \in 1..2 : t[Append(At(k, d - 1), i)].known
  BY DEF Reaches
<1>3. DOMAIN t \subseteq Positions /\ Bits \in Nat
  BY CutNode, PathsDiffer
<1>4. \A p \in DOMAIN t : t[p].known \in BOOLEAN
  BY CutNode
<1>5. t[<<>>].known = TRUE
  <2>1. <<>> \in DOMAIN t
    BY DEF Cut
  <2> QED
    BY <1>2, <1>4, <2>1
<1>6. z \in Positions /\ Len(z) = D /\ \A e \in 0..D : Prefix(z, e) = At(k, e)
  BY <1>1, AtIs
<1> HIDE DEF D
<1>7. ASSUME NEW q \in Positions, NEW i \in 1..2, On(k, q), Append(q, i) \in DOMAIN t
      PROVE  t[Append(q, i)].known = TRUE
  <2> DEFINE y == Append(q, i)
             e == Len(q)
  <2>1. y \in Positions /\ Len(y) = e + 1 /\ e \in 0..Bits /\ At(k, e) = q
    BY <1>3, <1>7, Kid, PositionIsSeq DEF On
  <2>2. \A d \in 0..Len(y) : Prefix(y, d) \in DOMAIN t
    BY <1>7, CutAbove
  <2>3. CASE e < D
    <3>1. e + 1 \in 1..D /\ (e + 1) - 1 = e
      BY <1>1, <2>1, <2>3
    <3>2. t[Append(At(k, (e + 1) - 1), i)].known
      BY <1>2, <3>1
    <3>3. t[y].known
      BY <2>1, <3>1, <3>2
    <3>4. t[y].known \in BOOLEAN
      BY <1>4, <1>7
    <3> QED
      BY <3>3, <3>4
  <2>4. CASE D <= e
    <3>1. D \in 0..e /\ D \in 0..Len(y) /\ D < Len(y) /\ D + 1 \in 0..Len(y) /\ D \in 0..Len(q)
      BY <1>1, <2>1, <2>4
    <3>2. Prefix(y, D) = Prefix(q, D)
      BY <1>7, <2>1, <3>1, KidPrefix
    <3>3. Prefix(q, D) = z
      <4>1. Prefix(At(k, e), D) = At(k, D)
        BY <2>1, <3>1, AtIs
      <4> QED
        BY <2>1, <4>1
    <3>4. y[D + 1] \in 1..2 /\ Prefix(y, D + 1) = Append(Prefix(y, D), y[D + 1])
      BY <2>1, <3>1, PrefixOf
    <3> DEFINE j == y[D + 1]
    <3>5. Append(z, j) \in DOMAIN t /\ j \in 1..2
      BY <2>2, <3>1, <3>2, <3>3, <3>4
    <3> HIDE DEF j, z
    <3>6. IsKnown(t, z)
      BY <1>6, <3>5 DEF Cut
    <3>7. IsLeaf(f, z)
      BY <1>1, <3>6, KnownNode
    <3>8. Append(z, 1) \notin DOMAIN f /\ Append(z, j) \in DOMAIN f
      BY <3>5, <3>7 DEF IsLeaf, Cut
    <3>9. z \in inner /\ InnerSet(inner) /\ DOMAIN f = NodesFor(inner)
      BY <1>6, <3>5, <3>8, NodesArePositions DEF Full
    <3>10. 1 \in 1..2
      OBVIOUS
    <3>11. Append(z, 1) \in DOMAIN f
      BY <1>6, <3>9, <3>10, NodesArePositions
    <3> QED
      BY <3>8, <3>11
  <2>5. e < D \/ D <= e
    BY <1>1, <1>3, <2>1
  <2> QED
    BY <2>3, <2>4, <2>5
<1> QED
  BY <1>5, <1>7 DEF Sees

-----------------------------------------------------------------------------
(* The operations of a verifier, when the tree is not collected while an   *)
(* update is held.                                                         *)

\* The tree is cut from one that the full collection could have, and in it the updates
\* that are held can be applied.
VerifierInv ==
    /\ ongoing \in BOOLEAN /\ now \in Stored /\ origin \in Stored
    /\ ongoing = FALSE => origin = now
    /\ Follows(tree, now, ongoing, origin)
    /\ \A u \in held : UpdateOK(u) /\ SeesFor(tree, u)

\* NewVerifier satisfies the invariant.
LEMMA VerifierInitInv == VerifierInit => VerifierInv
<1> SUFFICES ASSUME VerifierInit PROVE VerifierInv
  OBVIOUS
<1> DEFINE empty == [k \in Keys |-> None]
           f == EmptyTree
<1>1. /\ tree = [p \in {<<>>} |-> Unknown(EmptyTree[<<>>].label)]
      /\ ongoing = FALSE /\ now = empty /\ origin = empty /\ held = {}
  BY DEF VerifierInit
<1>2. empty \in Stored /\ Present(empty) = {}
  BY DEF Stored, Present
<1> HIDE DEF empty
<1>3. Good(f, empty)
  BY <1>2, EmptyGood
<1>4. tree = [p \in {<<>>} |-> Unknown(f[<<>>].label)]
  BY <1>1
<1> HIDE DEF f
<1>5. Full(f, Inner(Present(empty))) /\ f[<<>>].bak = NoTree /\ <<>> \in DOMAIN f
  <2>1. /\ Full(f, Inner(Present(empty))) /\ DOMAIN f = NodesFor(Inner(Present(empty)))
        /\ \A q \in DOMAIN f : f[q].bak = NoTree
    BY <1>3, GoodFull
  <2>2. <<>> \in DOMAIN f
    BY <2>1 DEF NodesFor
  <2> QED
    BY <2>1, <2>2
<1> DEFINE g == Dimmed(f, {})
<1>6. Good(g, empty)
  BY <1>3, DimmedGood
<1>7. g[<<>>] = [f[<<>>] EXCEPT !.inc = FALSE] /\ <<>> \in DOMAIN g
  BY <1>5 DEF Dimmed
<1>8. IsNode(f[<<>>])
  BY <1>5 DEF Full
<1>9. Like(g[<<>>], f[<<>>], f[<<>>].key, f[<<>>].val, f[<<>>].array, f[<<>>].label, FALSE, f[<<>>].bak)
  BY <1>7, <1>8, WithIs
<1> HIDE DEF g
<1>10. Cut(tree, g)
  <2>1. g[<<>>].label = f[<<>>].label /\ g[<<>>].inc = FALSE /\ g[<<>>].bak = NoTree
    BY <1>5, <1>9 DEF Like
  <2>2. Forgotten(Unknown(f[<<>>].label), g[<<>>])
    BY <2>1, UnknownIs
  <2>3. DOMAIN tree = {<<>>} /\ tree[<<>>] = Unknown(f[<<>>].label)
    BY <1>4
  <2>4. \A p \in Positions, i \in 1..2 : Append(p, i) \notin DOMAIN tree
    BY <2>3, Kid
  <2>5. \A p \in DOMAIN tree : CutAt(tree, g, p)
    BY <2>2, <2>3 DEF CutAt
  <2> QED
    BY <1>7, <2>3, <2>4, <2>5 DEF Cut
<1>11. GoodCut(tree, empty)
  BY <1>6, <1>10, CollectedCut
<1>13. Climbs(tree)
  <2>1. DOMAIN tree = {<<>>}
    BY <1>4
  <2>2. \A p \in DOMAIN tree, i \in 1..2 : Append(p, i) \notin DOMAIN tree
    BY <2>1, RootIsPosition, Kid
  <2> QED
    BY <2>2 DEF Climbs
<1>12. Follows(tree, now, ongoing, origin)
  BY <1>1, <1>11, <1>13, FollowsGood
<1> QED
  BY <1>1, <1>2, <1>12 DEF VerifierInv

\* What the steps have in common: the tree follows, and is as good for a walk or no
\* update is held.
LEMMA FollowingInv ==
    ASSUME VerifierInv, ongoing' \in BOOLEAN, now' \in Stored, origin' \in Stored,
           ongoing' = FALSE => origin' = now',
           Follows(tree', now', ongoing', origin'),
           \/ held' = {}
           \/ held' \subseteq held /\ SeesAsMuch(tree', tree)
    PROVE  VerifierInv'
<1>1. ASSUME NEW u \in held' PROVE UpdateOK(u) /\ SeesFor(tree', u)
  <2>1. u \in held /\ SeesAsMuch(tree', tree)
    BY <1>1
  <2>2. UpdateOK(u) /\ SeesFor(tree, u)
    BY <2>1 DEF VerifierInv
  <2> QED
    BY <2>1, <2>2, SeesForAsMuch
<1> QED
  BY <1>1 DEF VerifierInv

\* Begin keeps the invariant.
LEMMA VerifierBeginInv ==
    ASSUME VerifierInv, VerifierBegin
    PROVE  VerifierInv'
<1>1. /\ ongoing = FALSE /\ ongoing' = TRUE /\ tree' = Named(tree, TRUE)
      /\ origin' = origin /\ now' = now /\ held' = held
  BY DEF VerifierInv, VerifierBegin, Begin
<1>2. Follows(tree, now, FALSE, origin) /\ origin = now /\ now \in Stored
  BY <1>1 DEF VerifierInv
<1>3. FollowsAs(tree', tree, now, TRUE, now)
  BY <1>1, <1>2, BegunFollows
<1>4. Follows(tree', now', ongoing', origin') /\ SeesAsMuch(tree', tree)
  BY <1>1, <1>2, <1>3 DEF FollowsAs
<1> QED
  BY <1>1, <1>2, <1>4, FollowingInv

\* Rollback keeps the invariant: the tree follows the contents the transaction began with.
LEMMA VerifierRollbackInv ==
    ASSUME VerifierInv, VerifierRollback
    PROVE  VerifierInv'
<1>1. /\ ongoing = TRUE /\ ongoing' = FALSE /\ tree' = Named(RolledBack(tree), FALSE)
      /\ origin' = origin /\ now' = origin /\ held' = {}
  BY DEF VerifierInv, VerifierRollback, Rollback
<1>2. Follows(tree, now, TRUE, origin) /\ origin \in Stored
  BY <1>1 DEF VerifierInv
<1>3. Follows(tree', now', ongoing', origin')
  BY <1>1, <1>2, RolledBackFollows
<1> QED
  BY <1>1, <1>2, <1>3, FollowingInv

\* End keeps the invariant.
LEMMA VerifierEndInv ==
    ASSUME VerifierInv, VerifierEnd
    PROVE  VerifierInv'
<1>1. /\ ongoing = TRUE /\ ongoing' = FALSE /\ tree' = Ended(tree)
      /\ origin' = now /\ now' = now /\ held' = {}
  BY DEF VerifierInv, VerifierEnd, End
<1>2. Follows(tree, now, TRUE, origin) /\ now \in Stored
  BY <1>1 DEF VerifierInv
<1>3. Follows(tree', now', ongoing', origin')
  BY <1>1, <1>2, EndedFollows
<1> QED
  BY <1>1, <1>2, <1>3, FollowingInv

\* Collect keeps the invariant.
LEMMA CollectNowInv ==
    ASSUME MixedUse = FALSE, VerifierInv, CollectNow
    PROVE  VerifierInv'
<1>1. /\ ongoing = FALSE /\ ongoing' = ongoing /\ tree' = Collected(tree)
      /\ origin' = origin /\ now' = now /\ held' = {}
  BY DEF VerifierInv, CollectNow
<1>2. Follows(tree, now, FALSE, origin) /\ now \in Stored /\ origin = now
  BY <1>1 DEF VerifierInv
<1>3. Follows(tree', now', ongoing', origin')
  BY <1>1, <1>2, CollectedFollows
<1> QED
  BY <1>1, <1>2, <1>3, FollowingInv

\* Clone keeps the invariant.
LEMMA CloneInv ==
    ASSUME VerifierInv, Clone
    PROVE  VerifierInv'
<1>1. /\ ongoing = FALSE /\ ongoing' = ongoing /\ tree' = Cloned(tree)
      /\ origin' = origin /\ now' = now /\ held' = {}
  BY DEF VerifierInv, Clone
<1>2. GoodCut(tree, now) /\ now \in Stored /\ origin = now
  BY <1>1, FollowsGood DEF VerifierInv
<1>3. GoodCut(tree', now)
  BY <1>1, <1>2, ClonedCut DEF GoodCut
<1>5. Climbs(tree')
  <2>1. PICK f : Good(f, now) /\ Cut(tree, f)
    BY <1>2 DEF GoodCut
  <2>2. Full(f, Inner(Present(now)))
    BY <2>1, GoodFull
  <2>3. \A p \in DOMAIN tree : IsNode(tree[p])
    BY <2>1, <2>2, CutNode
  <2> QED
    BY <1>1, <2>3, ClonedClimbs
<1>4. Follows(tree', now', ongoing', origin')
  BY <1>1, <1>3, <1>5, FollowsGood
<1> QED
  BY <1>1, <1>2, <1>4, FollowingInv

\* Verify keeps the invariant.
LEMMA VerifyInv ==
    ASSUME VerifierInv, NEW k \in Keys, NEW c \in AllContents, Verify(k, c)
    PROVE  VerifierInv'
<1>1. /\ Accepts(c) /\ tree' = Learnt(k, c) /\ ongoing' = ongoing
      /\ origin' = origin /\ now' = now /\ held' = held
  BY DEF Verify
<1>2. /\ Follows(tree, now, ongoing, origin) /\ now \in Stored /\ origin \in Stored
      /\ ongoing \in BOOLEAN /\ (ongoing = FALSE => origin = now)
  BY DEF VerifierInv
<1>3. FollowsAs(tree', tree, now, ongoing, origin)
  BY <1>1, <1>2, LearntFollows
<1>4. Follows(tree', now', ongoing', origin') /\ SeesAsMuch(tree', tree)
  BY <1>1, <1>3 DEF FollowsAs
<1> QED
  BY <1>1, <1>2, <1>4, FollowingInv

\* Prepare keeps the invariant.
LEMMA PrepareInv ==
    ASSUME VerifierInv, NEW u \in Updates, NEW c \in AllContents, Prepare(u, c)
    PROVE  VerifierInv'
<1>1. /\ Accepts(c) /\ tree' = LearntFor(u, c) /\ ongoing' = ongoing
      /\ origin' = origin /\ now' = now /\ held' = held \cup {u}
  BY DEF Prepare
<1>2. /\ Follows(tree, now, ongoing, origin) /\ now \in Stored /\ origin \in Stored
      /\ ongoing \in BOOLEAN /\ (ongoing = FALSE => origin = now)
  BY DEF VerifierInv
<1>3. UpdateOK(u)
  BY VerifierConstantsOK
<1>4. FollowsAs(tree', tree, now, ongoing, origin) /\ SeesFor(tree', u)
  BY <1>1, <1>2, <1>3, LearntForFollows
<1>5. Follows(tree', now', ongoing', origin') /\ SeesAsMuch(tree', tree)
  BY <1>1, <1>4 DEF FollowsAs
<1>6. ASSUME NEW w \in held' PROVE UpdateOK(w) /\ SeesFor(tree', w)
  <2>1. CASE w = u
    BY <1>3, <1>4, <2>1
  <2>2. CASE w \in held
    <3>1. UpdateOK(w) /\ SeesFor(tree, w)
      BY <2>2 DEF VerifierInv
    <3> QED
      BY <1>5, <3>1, SeesForAsMuch
  <2> QED
    BY <1>1, <1>6, <2>1, <2>2
<1> QED
  BY <1>1, <1>2, <1>5, <1>6 DEF VerifierInv

\* The full collection gets the update as well.
LEMMA BroadcastInv ==
    ASSUME VerifierInv, NEW t, NEW u, UpdateOK(u), SeesFor(t, u),
           FollowsAs(t, tree, now, ongoing, origin), tree' = Apply(t, u),
           held' = HeldAfter(t, u), Broadcast(u)
    PROVE  VerifierInv'
<1> DEFINE s == Apply(t, u)
           new == Outcome(u)
<1>1. now' = new /\ origin' = (IF ongoing THEN origin ELSE now') /\ ongoing' = ongoing
  BY DEF Broadcast, Outcome
<1>2. now \in Stored /\ origin \in Stored /\ ongoing \in BOOLEAN
  BY DEF VerifierInv
<1>3. Follows(t, now, ongoing, origin) /\ SeesAsMuch(t, tree)
  BY DEF FollowsAs
<1>4. new \in Stored /\ Follows(s, new, ongoing, origin) /\ Lasts(s, t, ongoing)
  BY <1>2, <1>3, AppliedFollows
<1>5. tree' = s /\ held' = (IF ongoing \/ ~Passes(t, u) THEN held ELSE {})
  BY DEF HeldAfter
<1>8. ~Passes(t, u) => s = t
  BY DEF Apply
<1> HIDE DEF s, new
<1>6. CASE ongoing = TRUE
  <2>1. SeesAsMuch(tree', tree)
    BY <1>3, <1>4, <1>5, <1>6 DEF Lasts, SeesAsMuch
  <2>2. held' = held /\ origin' = origin
    BY <1>1, <1>5, <1>6
  <2> QED
    BY <1>1, <1>2, <1>4, <1>5, <1>6, <2>1, <2>2, FollowingInv
<1>7. CASE ongoing = FALSE
  <2>1. origin' = now'
    BY <1>1, <1>7
  <2>4. held' = {} \/ (held' \subseteq held /\ SeesAsMuch(tree', tree))
    BY <1>3, <1>5, <1>7, <1>8
  <2>2. GoodCut(s, new) /\ Climbs(s)
    BY <1>4, <1>7, FollowsGood
  <2>3. Follows(tree', now', ongoing', origin')
    BY <1>1, <1>5, <1>7, <2>2, FollowsGood
  <2> QED
    BY <1>1, <1>2, <1>4, <1>7, <2>1, <2>3, <2>4, FollowingInv
<1> QED
  BY <1>2, <1>6, <1>7

\* A prepared update keeps the invariant.
LEMMA ApplyPreparedInv ==
    ASSUME VerifierInv, NEW u \in Updates, ApplyPrepared(u)
    PROVE  VerifierInv'
<1>1. /\ u \in held /\ tree' = Apply(tree, u) /\ Broadcast(u)
      /\ held' = HeldAfter(tree, u)
  BY DEF ApplyPrepared
<1>2. UpdateOK(u) /\ SeesFor(tree, u)
  BY <1>1 DEF VerifierInv
<1>3. FollowsAs(tree, tree, now, ongoing, origin)
  BY DEF VerifierInv, FollowsAs, SeesAsMuch
<1> QED
  BY <1>1, <1>2, <1>3, BroadcastInv

\* An update with its proofs keeps the invariant.
LEMMA ApplyUserUpdateInv ==
    ASSUME VerifierInv, NEW u \in Updates, NEW c \in AllContents, ApplyUserUpdate(u, c)
    PROVE  VerifierInv'
<1> DEFINE t == LearntFor(u, c)
<1>1. /\ Accepts(c) /\ tree' = Apply(t, u) /\ Broadcast(u)
      /\ held' = HeldAfter(t, u)
  BY DEF ApplyUserUpdate
<1>2. UpdateOK(u)
  BY VerifierConstantsOK
<1>3. Follows(tree, now, ongoing, origin) /\ now \in Stored
  BY DEF VerifierInv
<1>4. FollowsAs(t, tree, now, ongoing, origin) /\ SeesFor(t, u)
  BY <1>1, <1>2, <1>3, LearntForFollows
<1> HIDE DEF t
<1> QED
  BY <1>1, <1>2, <1>4, BroadcastInv

\* A manipulator that leaves a tree that follows.
LEMMA ManipulatedInv ==
    ASSUME MixedUse = FALSE, VerifierInv, ongoing \/ Careful, NEW n, NEW new, new \in Stored,
           FollowsAs(n, tree, new, ongoing, origin), Written(n),
           now' = new, origin' = (IF ongoing THEN origin ELSE now'), held' = held
    PROVE  VerifierInv'
<1>1. /\ tree' = (IF ongoing THEN n ELSE Collected(n)) /\ ongoing' = ongoing
  BY DEF Written
<1>2. now \in Stored /\ origin \in Stored /\ ongoing \in BOOLEAN
  BY DEF VerifierInv
<1>3. Follows(n, new, ongoing, origin) /\ SeesAsMuch(n, tree)
  BY DEF FollowsAs
<1>4. CASE ongoing = TRUE
  <2>1. tree' = n /\ origin' = origin
    BY <1>1, <1>4
  <2> QED
    BY <1>1, <1>2, <1>3, <1>4, <2>1, FollowingInv
<1>5. CASE ongoing = FALSE
  <2>1. tree' = Collected(n) /\ origin' = now' /\ held' = {}
    BY <1>1, <1>5 DEF Careful
  <2>2. Follows(n, new, FALSE, origin)
    BY <1>3, <1>5
  <2>3. Follows(tree', now', ongoing', origin')
    BY <1>1, <1>5, <2>1, <2>2, CollectedFollows
  <2> QED
    BY <1>1, <1>2, <2>1, <2>3, FollowingInv
<1> QED
  BY <1>2, <1>4, <1>5

\* A write of one key.
LEMMA OneWrite ==
    ASSUME now \in Stored, NEW k \in Keys, NEW v \in Vals \cup {None},
           NEW new, new = [now EXCEPT ![k] = v]
    PROVE  new \in Stored /\ IsWrite(new, now, k, v)
BY DEF Stored, IsWrite

\* A manipulator gives tree n, which follows with the contents new.
Manipulated(n, new) ==
    /\ new \in Stored /\ FollowsAs(n, tree, new, ongoing, origin)
    /\ Written(n) /\ now' = new

\* Every manipulator gives a tree that follows.
LEMMA ManipulatorFollows ==
    ASSUME VerifierInv, NEW k \in Keys, Manipulate(k)
    PROVE  \E n, new : Manipulated(n, new)
<1>1. now \in Stored /\ ongoing \in BOOLEAN /\ Follows(tree, now, ongoing, origin)
  BY DEF VerifierInv
<1>2. ASSUME Reaches(tree, k) PROVE Sees(tree, k) /\ Get(k) = now[k]
  <2>1. PICK f : Following(tree, f, now, ongoing, origin)
    BY <1>1 DEF Follows
  <2>2. Full(f, Inner(Present(now))) /\ Cut(tree, f)
    BY <2>1, MidFull DEF Following, Has
  <2>3. Sees(tree, k)
    BY <1>2, <2>2, ReachesSees
  <2>4. Lookup(tree, k) = now[k]
    BY <1>1, <2>3, FollowsReads
  <2> QED
    BY <2>3, <2>4 DEF Get
<1>3. CASE Remove(k) /\ now' = [now EXCEPT ![k] = None]
  <2> DEFINE new == [now EXCEPT ![k] = None]
             n == RemoveAt(tree, k, ongoing)
  <2>1. Sees(tree, k) /\ now[k] # None /\ Written(n) /\ now' = new
    BY <1>2, <1>3 DEF Remove
  <2>2. new \in Stored /\ IsWrite(new, now, k, None)
    BY <1>1, OneWrite
  <2> HIDE DEF new
  <2>3. FollowsAs(n, tree, new, ongoing, origin)
    BY <1>1, <2>1, <2>2, RemoveFollows
  <2> HIDE DEF n
  <2> QED
    BY <2>1, <2>2, <2>3 DEF Manipulated
<1>4. CASE \E v \in Vals : (Add(k, v) \/ Set(k, v)) /\ now' = [now EXCEPT ![k] = v]
  <2>1. PICK v \in Vals : (Add(k, v) \/ Set(k, v)) /\ now' = [now EXCEPT ![k] = v]
    BY <1>4
  <2> DEFINE new == [now EXCEPT ![k] = v]
             n == AddAt(tree, k, v, ongoing)
             m == SetAt(tree, k, v, ongoing)
  <2>2. now' = new
    BY <2>1
  <2>3. new \in Stored /\ IsWrite(new, now, k, v)
    BY <1>1, OneWrite
  <2> HIDE DEF new
  <2>4. CASE Add(k, v)
    <3>1. Sees(tree, k) /\ now[k] = None /\ Written(n)
      BY <1>2, <2>4 DEF Add
    <3>2. FollowsAs(n, tree, new, ongoing, origin)
      BY <1>1, <2>3, <3>1, AddFollows
    <3> HIDE DEF n
    <3> QED
      BY <2>2, <2>3, <3>1, <3>2 DEF Manipulated
  <2>5. CASE Set(k, v)
    <3>1. Sees(tree, k) /\ now[k] # None /\ Written(m)
      BY <1>2, <2>5 DEF Set
    <3>2. FollowsAs(m, tree, new, ongoing, origin)
      BY <1>1, <2>3, <3>1, SetFollows
    <3> HIDE DEF m
    <3> QED
      BY <2>2, <2>3, <3>1, <3>2 DEF Manipulated
  <2> QED
    BY <2>1, <2>4, <2>5
<1> QED
  BY <1>3, <1>4 DEF Manipulate

\* A manipulator keeps the invariant.
LEMMA ManipulateInv ==
    ASSUME MixedUse = FALSE, VerifierInv, NEW k \in Keys, Manipulate(k)
    PROVE  VerifierInv'
<1>1. /\ ongoing \/ Careful
      /\ origin' = (IF ongoing THEN origin ELSE now') /\ held' = held
  BY DEF Manipulate
<1>2. PICK n, new : Manipulated(n, new)
  BY ManipulatorFollows
<1>3. new \in Stored /\ FollowsAs(n, tree, new, ongoing, origin) /\ Written(n) /\ now' = new
  BY <1>2 DEF Manipulated
<1> QED
  BY <1>1, <1>3, ManipulatedInv

\* Every step of a verifier keeps the invariant.
LEMMA VerifierNextInv ==
    ASSUME MixedUse = FALSE, VerifierInv, VerifierNext
    PROVE  VerifierInv'
<1>1. CASE VerifierBegin
  BY <1>1, VerifierBeginInv
<1>2. CASE VerifierRollback
  BY <1>2, VerifierRollbackInv
<1>3. CASE VerifierEnd
  BY <1>3, VerifierEndInv
<1>4. CASE CollectNow
  BY <1>4, CollectNowInv
<1>5. CASE Clone
  BY <1>5, CloneInv
<1>6. ASSUME NEW k \in Keys, Manipulate(k) PROVE VerifierInv'
  BY <1>6, ManipulateInv
<1>7. ASSUME NEW k \in Keys, NEW c \in AllContents, Verify(k, c) PROVE VerifierInv'
  BY <1>7, VerifyInv
<1>8. ASSUME NEW u \in Updates, ApplyPrepared(u) PROVE VerifierInv'
  BY <1>8, ApplyPreparedInv
<1>9. ASSUME NEW u \in Updates, NEW c \in AllContents, Prepare(u, c) PROVE VerifierInv'
  BY <1>9, PrepareInv
<1>10. ASSUME NEW u \in Updates, NEW c \in AllContents, ApplyUserUpdate(u, c) PROVE VerifierInv'
  BY <1>10, ApplyUserUpdateInv
<1> QED
  BY <1>1, <1>2, <1>3, <1>4, <1>5, <1>6, <1>7, <1>8, <1>9, <1>10 DEF VerifierNext

\* A step that changes nothing keeps it too.
LEMMA VerifierStutterInv ==
    ASSUME VerifierInv, UNCHANGED verifierVars
    PROVE  VerifierInv'
<1>1. /\ tree' = tree /\ ongoing' = ongoing /\ origin' = origin /\ now' = now /\ held' = held
  BY DEF verifierVars, vars
<1>2. /\ ongoing \in BOOLEAN /\ now \in Stored /\ origin \in Stored /\ (ongoing = FALSE => origin = now)
      /\ Follows(tree, now, ongoing, origin) /\ SeesAsMuch(tree', tree)
  BY <1>1 DEF VerifierInv, SeesAsMuch
<1>3. Follows(tree', now', ongoing', origin')
  BY <1>1, <1>2
<1> QED
  BY <1>1, <1>2, <1>3, FollowingInv

-----------------------------------------------------------------------------
(* What the tree knows is what is there.                                   *)

\* What needs no update has the label and the sum of the one tree of the contents.
LEMMA CalmTells ==
    ASSUME NEW f, NEW contents, NEW tx, Has(f, contents, tx), NEW m, Good(m, contents)
    PROVE  /\ DOMAIN f = DOMAIN m
           /\ \A p \in DOMAIN f : f[p].key = m[p].key
           /\ \A p \in DOMAIN f : Calm(f, p) => f[p].val = m[p].val /\ f[p].label = m[p].label
<1> DEFINE inner == Inner(Present(contents))
           Told(p) == f[p].key = m[p].key /\ f[p].val = m[p].val /\ f[p].label = m[p].label
           S == {i \in 0..Bits :
                    \A p \in NodesFor(inner) : Len(p) + i >= Bits /\ Calm(f, p) => Told(p)}
<1>1. /\ InnerSet(inner) /\ Shape(f, inner, contents) /\ Shape(m, inner, contents)
      /\ DOMAIN f = NodesFor(inner) /\ DOMAIN m = NodesFor(inner)
  BY DEF Good, Has, Mid, Shape
<1>2. \A p \in NodesFor(inner) : Fits(f, p, tx) /\ Fits(m, p, FALSE) /\ Quiet(m, p)
  BY <1>1 DEF Good, Has, Mid
<1> HIDE DEF inner
<1>3. /\ NodesFor(inner) \subseteq Positions /\ inner \subseteq NodesFor(inner)
      /\ \A p \in NodesFor(inner) : /\ Len(p) \in 0..Bits
                                    /\ IsLeaf(f, p) <=> p \notin inner
                                    /\ IsLeaf(m, p) <=> p \notin inner
  <2>1. NodesFor(inner) \subseteq Positions /\ inner \subseteq NodesFor(inner)
    BY <1>1, NodesArePositions
  <2> QED
    BY <1>1, <2>1, LeafIsOuter, PositionIsSeq
<1>4. ASSUME NEW p \in NodesFor(inner), p \notin inner PROVE Told(p)
  <2>1. Holds(f[p], p, contents) /\ Holds(m[p], p, contents)
    BY <1>1, <1>4 DEF Shape
  <2>2. f[p].key = m[p].key /\ f[p].val = m[p].val
    BY <2>1 DEF Holds
  <2>3. f[p].label = LeafLabel(f[p].key, f[p].val) /\ m[p].label = LeafLabel(m[p].key, m[p].val)
    BY <1>2, <1>3, <1>4 DEF Fits
  <2> QED
    BY <2>2, <2>3
<1>5. Bits \in Nat
  BY PathsDiffer
<1>6. 0 \in S
  <2> SUFFICES ASSUME NEW p \in NodesFor(inner), Len(p) + 0 >= Bits PROVE Told(p)
    BY <1>5
  <2>1. p \notin inner
    BY <1>1, <1>3, <1>5 DEF InnerSet
  <2> QED
    BY <1>4, <2>1
<1>7. ASSUME NEW i \in 0..Bits, i < Bits, i \in S PROVE i + 1 \in S
  <2> SUFFICES ASSUME NEW p \in NodesFor(inner), Len(p) + (i + 1) >= Bits, Calm(f, p) PROVE Told(p)
    BY <1>5, <1>7
  <2>1. CASE p \notin inner
    BY <1>4, <2>1
  <2>2. CASE p \in inner
    <3>1. p \in Positions /\ 1 \in 1..2 /\ 2 \in 1..2
      BY <1>3
    <3>2. /\ Append(p, 1) \in NodesFor(inner) /\ Append(p, 2) \in NodesFor(inner)
          /\ Len(Append(p, 1)) = Len(p) + 1 /\ Len(Append(p, 2)) = Len(p) + 1
      BY <1>1, <2>2, <3>1, NodesArePositions, Kid
    <3>3. Len(p) + 1 + i >= Bits
      BY <1>3, <1>5
    <3>4. Calm(f, Append(p, 1)) /\ Calm(f, Append(p, 2))
      BY <1>1, <1>3, <3>1, <3>2, CalmKid
    <3>5. Told(Append(p, 1)) /\ Told(Append(p, 2))
      BY <1>7, <3>2, <3>3, <3>4
    <3>6. ~IsLeaf(f, p) /\ ~IsLeaf(m, p)
      BY <1>3, <2>2
    <3>7. Quiet(f, p)
      <4>1. Under(p, p)
        BY <3>1, UnderIs
      <4> QED
        BY <1>1, <4>1 DEF Calm
    <3>8. Settled(f, p) /\ Settled(m, p)
      BY <1>2, <3>6, <3>7 DEF Quiet
    <3>9. f[p].val = m[p].val /\ f[p].label = m[p].label
      BY <3>5, <3>8 DEF Settled
    <3>10. f[p].key = m[p].key
      BY <1>1, <2>2 DEF Shape
    <3> QED
      BY <3>9, <3>10
  <2> QED
    BY <2>1, <2>2
<1>8. \A p \in NodesFor(inner) : Calm(f, p) => Told(p)
  <2>1. \A i \in 0..Bits : i \in S
    <3> HIDE DEF S
    <3> QED
      BY <1>5, <1>6, <1>7, UpTo
  <2>2. Bits \in S
    BY <1>5, <2>1
  <2> SUFFICES ASSUME NEW p \in NodesFor(inner), Calm(f, p) PROVE Told(p)
    OBVIOUS
  <2>3. Len(p) + Bits >= Bits
    BY <1>3, <1>5
  <2> QED
    BY <2>2, <2>3
<1>9. ASSUME NEW p \in NodesFor(inner) PROVE f[p].key = m[p].key
  <2>1. CASE p \in inner
    BY <1>1, <2>1 DEF Shape
  <2> QED
    BY <1>4, <2>1
<1> QED
  BY <1>1, <1>8, <1>9

\* Nothing needs an update at or below what is not marked.
LEMMA UnmarkedIsCalm ==
    ASSUME NEW f, NEW contents, NEW tx, Has(f, contents, tx), NEW p \in DOMAIN f,
           ~(tx /\ f[p].inc = TRUE)
    PROVE  Calm(f, p)
<1> DEFINE inner == Inner(Present(contents))
<1>1. Mid(f, inner, contents, None, 0, tx)
  BY DEF Has
<1>2. DOMAIN f \subseteq Positions /\ Marks(f, None, 0, tx)
  BY <1>1, MidTree DEF Mid
<1>3. ~Excused(f, p, None, 0, tx)
  <2>1. Len(p) \in Nat
    BY <1>2, PositionIsSeq
  <2>2. ~(Len(p) < 0)
    BY <2>1
  <2> QED
    BY <2>2 DEF Excused
<1>4. ASSUME NEW q \in DOMAIN f, Under(p, q) PROVE Quiet(f, q)
  BY <1>2, <1>3, <1>4 DEF Marks, Above
<1> QED
  BY <1>4 DEF Calm

\* The tree is a part of the full tree.
LEMMA InvFollows == ASSUME VerifierInv PROVE VerifierFollows
<1> DEFINE m == FullTree[now]
           inner == Inner(Present(now))
<1>1. now \in Stored /\ ongoing \in BOOLEAN /\ Follows(tree, now, ongoing, origin)
  BY DEF VerifierInv
<1>2. PICK f : Following(tree, f, now, ongoing, origin)
  BY <1>1 DEF Follows
<1>3. Has(f, now, ongoing) /\ Cut(tree, f)
  BY <1>2 DEF Following
<1>4. Full(f, inner)
  BY <1>3, MidFull DEF Has
<1>5. Good(m, now)
  <2>1. m = CanonicalOf(now)
    BY <1>1 DEF FullTree, AllContents, Stored
  <2> QED
    BY <1>1, <2>1, CanonicalGood
<1> HIDE DEF m, inner
<1>6. /\ DOMAIN f = DOMAIN m
      /\ \A p \in DOMAIN f : f[p].key = m[p].key
      /\ \A p \in DOMAIN f : Calm(f, p) => f[p].val = m[p].val /\ f[p].label = m[p].label
  BY <1>3, <1>5, CalmTells
<1>7. DOMAIN tree \subseteq DOMAIN f /\ <<>> \in DOMAIN tree
  BY <1>3 DEF Cut
<1>8. ASSUME NEW p \in DOMAIN tree
      PROVE  /\ tree[p].label = f[p].label /\ tree[p].inc = f[p].inc /\ tree[p].known \in BOOLEAN
             /\ tree[p].known = TRUE => tree[p] = f[p] /\ (IsLeaf(tree, p) <=> IsLeaf(f, p))
  <2>1. CutAt(tree, f, p)
    BY <1>3 DEF Cut
  <2>2. tree[p].label = f[p].label /\ tree[p].inc = f[p].inc
    BY <2>1 DEF CutAt, Forgotten
  <2>3. tree[p].known \in BOOLEAN
    BY <1>3, <1>4, CutNode
  <2>4. tree[p].known = TRUE => tree[p] = f[p]
    BY <1>3, <1>4, CutNode
  <2>5. tree[p].known = TRUE => (IsLeaf(tree, p) <=> IsLeaf(f, p))
    BY <1>3, <1>4, CutNode
  <2> QED
    BY <2>2, <2>3, <2>4, <2>5
<1>9. ASSUME NEW p \in DOMAIN tree
      PROVE  /\ (ongoing /\ tree[p].inc) \/ (tree[p].label = m[p].label /\ (~tree[p].known \/ tree[p].val = m[p].val))
             /\ ~tree[p].known \/ (tree[p].key = m[p].key /\ IsLeaf(tree, p) = IsLeaf(m, p))
  <2>1. p \in DOMAIN f
    BY <1>7
  <2>2. (ongoing /\ f[p].inc = TRUE) \/ Calm(f, p)
    BY <1>3, <2>1, UnmarkedIsCalm
  <2>3. CASE ongoing /\ f[p].inc = TRUE
    <3>1. ongoing /\ tree[p].inc
      BY <1>8, <2>3
    <3>2. tree[p].known = TRUE => tree[p].key = m[p].key /\ (IsLeaf(tree, p) <=> IsLeaf(m, p))
      BY <1>6, <1>8, <2>1 DEF IsLeaf
    <3>3. IsLeaf(tree, p) \in BOOLEAN /\ IsLeaf(m, p) \in BOOLEAN
      BY DEF IsLeaf
    <3> QED
      BY <1>8, <3>1, <3>2, <3>3
  <2>4. CASE Calm(f, p)
    <3>1. tree[p].label = m[p].label /\ (tree[p].known = TRUE => tree[p].val = m[p].val)
      BY <1>6, <1>8, <2>1, <2>4
    <3>2. tree[p].known = TRUE => tree[p].key = m[p].key /\ (IsLeaf(tree, p) <=> IsLeaf(m, p))
      BY <1>6, <1>8, <2>1 DEF IsLeaf
    <3>3. IsLeaf(tree, p) \in BOOLEAN /\ IsLeaf(m, p) \in BOOLEAN
      BY DEF IsLeaf
    <3> QED
      BY <1>8, <3>1, <3>2, <3>3
  <2> QED
    BY <2>2, <2>3, <2>4
<1>10. PartOf(tree, m)
  BY <1>6, <1>7, <1>9 DEF PartOf
<1>11. ongoing \/ tree[<<>>].label = m[<<>>].label
  BY <1>7, <1>9
<1> QED
  BY <1>10, <1>11 DEF VerifierFollows, m

\* "Verifier has autonomously recomputed a new state": what a verifier learns from proofs,
\* forgets, applies and rolls back leaves it with a part of the tree of the full
\* collection, with the same label at the root, when its tree is not collected while an
\* update is held (verifiers.go, update.go, transaction.go).
THEOREM VerifierIsPart ==
    ASSUME MixedUse = FALSE
    PROVE  VerifierSpec => []VerifierFollows
<1>1. VerifierInit => VerifierInv
  BY VerifierInitInv
<1>2. VerifierInv /\ [VerifierNext]_verifierVars => VerifierInv'
  BY VerifierNextInv, VerifierStutterInv
<1>3. VerifierInv => VerifierFollows
  BY InvFollows
<1> QED
  BY <1>1, <1>2, <1>3, PTL DEF VerifierSpec

\* The marks lead to the root, and no backup is left.
LEMMA InvMarks == ASSUME VerifierInv PROVE MarksAreFound
<1> DEFINE inner == Inner(Present(now))
<1>1. PICK f : Following(tree, f, now, ongoing, origin)
  BY DEF VerifierInv, Follows
<1>2. Mid(f, inner, now, None, 0, ongoing) /\ Cut(tree, f) /\ Climbs(f) /\ ongoing \in BOOLEAN
  BY <1>1 DEF Following, Has, Marking, VerifierInv
<1>3. Full(f, inner) /\ DOMAIN f \subseteq Positions
  BY <1>2, MidFull
<1>4. ASSUME NEW p \in DOMAIN tree
      PROVE  p \in DOMAIN f /\ p \in Positions /\ tree[p].inc = f[p].inc /\ tree[p].bak = f[p].bak
  <2>1. p \in DOMAIN f /\ p \in Positions
    BY <1>2, <1>3 DEF Cut
  <2>2. CutAt(tree, f, p)
    BY <1>2 DEF Cut
  <2>3. tree[p].inc = f[p].inc /\ tree[p].bak = f[p].bak
    BY <2>2 DEF CutAt, Forgotten
  <2> QED
    BY <2>1, <2>3
<1>5. \A p \in DOMAIN f : Fits(f, p, ongoing)
  BY <1>2 DEF Mid
<1>6. ASSUME NEW p \in DOMAIN tree, NEW i \in 1..2, ~IsLeaf(tree, p), Marked(tree[Append(p, i)])
      PROVE  tree[p].inc = TRUE
  <2> DEFINE c == Append(p, i)
  <2>1. Append(p, 1) \in DOMAIN tree
    BY <1>6 DEF IsLeaf
  <2>2. IsKnown(tree, p)
    <3>1. 1 \in 1..2
      OBVIOUS
    <3> QED
      BY <1>2, <1>4, <2>1, <3>1 DEF Cut
  <2>3. p \in inner
    <3>1. 1 \in 1..2 /\ Append(p, 1) \in NodesFor(inner) /\ InnerSet(inner) /\ p \in Positions
      BY <1>3, <1>4, <2>1 DEF Full
    <3> QED
      BY <3>1, NodesArePositions
  <2>4. c \in DOMAIN f
    <3>1. p \in Positions /\ InnerSet(inner) /\ DOMAIN f = NodesFor(inner)
      BY <1>3, <1>4 DEF Full
    <3> QED
      BY <2>3, <3>1, NodesArePositions
  <2>5. c \in DOMAIN tree
    BY <1>2, <1>3, <2>2, <2>4, KnownNode
  <2>6. Marked(f[c]) /\ c \in Positions
    BY <1>3, <1>4, <1>6, <2>5 DEF Marked
  <2>7. Above(p, c) /\ p \in DOMAIN f /\ Len(p) \in Nat
    BY <1>4, <2>6, KidUnder, PositionIsSeq
  <2>8. f[p].inc = TRUE
    <3>1. CASE f[c].bak # NoTree
      <4>1. Excused(f, p, None, 0, ongoing)
        BY <1>2, <2>4, <2>7, <3>1 DEF Mid, Marks
      <4> QED
        BY <2>7, <4>1 DEF Excused
    <3>2. CASE f[c].bak = NoTree
      <4>1. f[c].inc \in BOOLEAN
        BY <1>5, <2>4 DEF Fits, NodeOK
      <4>2. f[c].inc = TRUE
        BY <2>6, <3>2, <4>1 DEF Marked
      <4> QED
        BY <1>2, <2>4, <2>7, <4>2 DEF Climbs
    <3> QED
      BY <3>1, <3>2
  <2> QED
    BY <1>4, <2>8
<1>7. MarksReachRoot
  BY <1>6 DEF MarksReachRoot
<1>8. ASSUME ongoing = FALSE PROVE BackupsOf(tree) = {}
  <2>1. \A p \in DOMAIN f : f[p].bak = NoTree
    BY <1>5, <1>8 DEF Fits
  <2>2. \A p \in DOMAIN tree : tree[p].bak = NoTree
    BY <1>4, <2>1
  <2> QED
    BY <2>2 DEF BackupsOf
<1> QED
  BY <1>2, <1>7, <1>8 DEF MarksAreFound, BackupsAreDropped

\* No mark is where confirm, fix and Rollback would miss it, and no backup outlives its
\* transaction, in a tree of which a verifier knows only a part: what it learns, forgets and
\* rolls back leaves the way from each mark to the root marked (transaction.go, verifiers.go).
THEOREM MarksLeadToRoot ==
    ASSUME MixedUse = FALSE
    PROVE  VerifierSpec => []MarksAreFound
<1>1. VerifierInit => VerifierInv
  BY VerifierInitInv
<1>2. VerifierInv /\ [VerifierNext]_verifierVars => VerifierInv'
  BY VerifierNextInv, VerifierStutterInv
<1>3. VerifierInv => MarksAreFound
  BY InvMarks
<1> QED
  BY <1>1, <1>2, <1>3, PTL DEF VerifierSpec

-----------------------------------------------------------------------------
(* What is in the scope is served.                                         *)

\* A key that is wanted is seen in s if it is in t.
Serves(s, t) == \A k \in Keys : Wanted(k) /\ Sees(t, k) => Sees(s, k)

\* The bits of a position on the path of a key are those of the path.
LEMMA OnBits ==
    ASSUME NEW k \in Keys, NEW q \in Positions, On(k, q), NEW i \in 1..Len(q)
    PROVE  q[i] = Path[k][i]
<1>1. Len(q) \in 0..Bits /\ Bits \in Nat /\ At(k, Len(q)) = q
  BY PositionIsSeq, PathsDiffer DEF On
<1>2. Path[k] \in Positions /\ Len(Path[k]) = Bits
  <2>1. Path[k] \in [1..Bits -> {1, 2}] /\ Bits \in 0..Bits
    BY <1>1, PathsDiffer
  <2>2. Path[k] \in Positions
    BY <2>1 DEF Positions
  <2>3. DOMAIN Path[k] = 1..Bits /\ DOMAIN Path[k] = 1..Len(Path[k]) /\ Len(Path[k]) \in Nat
    BY <2>1, <2>2, PositionIsSeq
  <2> QED
    BY <1>1, <2>2, <2>3
<1>3. At(k, Len(q)) = Prefix(Path[k], Len(q))
  BY <1>1 DEF At, Way
<1>4. Prefix(Path[k], Len(q))[i] = Path[k][i]
  BY <1>1, <1>2, PrefixIs
<1> QED
  BY <1>1, <1>3, <1>4

\* Collect keeps the root, and the children of the nodes on the path of a wanted key.
LEMMA WantedIsInScope ==
    ASSUME scope \in Scopes, NEW k \in Keys, Wanted(k)
    PROVE  /\ ~OutOfScope(<<>>)
           /\ \A q \in Positions, i \in 1..2 :
                 Append(q, i) \in Positions /\ On(k, q) => ~OutOfScope(Append(q, i))
<1>1. scope.masks \subseteq Seq({1, 2})
  BY VerifierConstantsOK
<1>2. ASSUME NEW c, NEW b \in Nat,
             \A i \in 1..b : c[i] = Path[k][i]
      PROVE  Matches(c, b)
  <2>1. CASE scope.masks = {}
    BY <2>1 DEF Wanted, Matches
  <2>2. CASE scope.masks # {}
    <3>1. PICK mask \in scope.masks : \A i \in DOMAIN mask : mask[i] = Path[k][i]
      BY <2>2 DEF Wanted
    <3>2. DOMAIN mask = 1..Len(mask) /\ Len(mask) \in Nat
      BY <1>1, <3>1
    <3>3. ASSUME NEW i \in DOMAIN mask, i <= b PROVE mask[i] = c[i]
      <4>1. i \in 1..b
        BY <1>2, <3>2, <3>3
      <4> QED
        BY <1>2, <3>1, <3>3, <4>1
    <3> QED
      BY <2>2, <3>1, <3>3 DEF Matches
  <2> QED
    BY <2>1, <2>2
<1>3. ~OutOfScope(<<>>)
  <2>1. Len(<<>>) = 0 /\ 0 \in Nat /\ 1..0 = {}
    BY RootIsPosition
  <2>2. Matches(<<>>, 0)
    BY <1>2, <2>1
  <2> QED
    BY <2>1, <2>2 DEF OutOfScope
<1>4. ASSUME NEW q \in Positions, NEW i \in 1..2, Append(q, i) \in Positions, On(k, q)
      PROVE  ~OutOfScope(Append(q, i))
  <2> DEFINE c == Append(q, i)
             d == Len(c)
  <2>1. d = Len(q) + 1 /\ Len(q) \in Nat /\ \A j \in 1..Len(q) : c[j] = q[j]
    BY Kid, PositionIsSeq
  <2>2. \A j \in 1..Len(q) : c[j] = Path[k][j]
    BY <1>4, <2>1, OnBits
  <2> HIDE DEF c
  <2>3. ASSUME d = 1 PROVE ~OutOfScope(c)
    BY <2>3 DEF OutOfScope
  <2>4. ASSUME d # 1 PROVE ~OutOfScope(c)
    <3>1. d # 0 /\ d - 2 \in Nat /\ \A j \in 1..(d - 2) : j \in 1..Len(q)
      <4> DEFINE m == Len(q)
      <4>1. m \in Nat /\ d = m + 1
        BY <2>1
      <4> HIDE DEF m, d
      <4>2. d # 0 /\ d - 2 \in Nat /\ \A j \in 1..(d - 2) : j \in 1..m
        BY <2>4, <4>1
      <4> QED
        BY <4>2 DEF m
    <3>2. \A j \in 1..(d - 2) : c[j] = Path[k][j]
      BY <2>2, <3>1
    <3>3. Matches(c, d - 2)
      BY <1>2, <3>1, <3>2
    <3> QED
      BY <3>1, <3>3 DEF OutOfScope
  <2> QED
    BY <2>3, <2>4 DEF c
<1> QED
  BY <1>3, <1>4

\* Collect serves what is wanted.
LEMMA CollectedServes ==
    ASSUME scope \in Scopes, NEW t, NEW f, NEW inner, Full(f, inner), Cut(t, f)
    PROVE  Serves(Collected(t), t)
<1> DEFINE s == Collected(t)
           out == {p \in DOMAIN t : t[p].known /\ OutOfScope(p)}
           kept == {p \in DOMAIN t : \A d \in 0..(Len(p) - 1) : Prefix(p, d) \notin out}
<1>1. s = [p \in kept |-> IF p \in out THEN Forget(t[p]) ELSE t[p]]
  BY DEF Collected
<1>2. /\ DOMAIN s \subseteq DOMAIN t
      /\ \A p \in DOMAIN s : ~OutOfScope(p) => s[p] = t[p]
  <2> HIDE DEF s
  <2>1. DOMAIN s = kept
    BY <1>1
  <2>2. kept \subseteq DOMAIN t
    OBVIOUS
  <2>3. ASSUME NEW p \in kept, ~OutOfScope(p) PROVE s[p] = t[p]
    <3>1. p \notin out
      BY <2>3
    <3> HIDE DEF out, kept
    <3> QED
      BY <1>1, <2>3, <3>1
  <2> QED
    BY <2>1, <2>2, <2>3
<1>3. <<>> \in DOMAIN s /\ \A p \in DOMAIN t : p \in Positions
  <2>1. Pruned(s, t)
    BY CollectedPrunes
  <2> HIDE DEF s
  <2>2. \A p \in DOMAIN t : p \in Positions
    BY CutNode
  <2> QED
    BY <2>1, <2>2 DEF Pruned
<1> HIDE DEF s
<1>4. ASSUME NEW k \in Keys, Wanted(k), Sees(t, k) PROVE Sees(s, k)
  <2>1. s[<<>>].known = TRUE
    <3>1. ~OutOfScope(<<>>)
      BY <1>4, WantedIsInScope
    <3> QED
      BY <1>2, <1>3, <1>4, <3>1 DEF Sees
  <2>2. ASSUME NEW q \in Positions, NEW i \in 1..2, On(k, q), Append(q, i) \in DOMAIN s
        PROVE  s[Append(q, i)].known = TRUE
    <3>1. Append(q, i) \in DOMAIN t /\ Append(q, i) \in Positions
      BY <1>2, <1>3, <2>2
    <3>2. ~OutOfScope(Append(q, i))
      BY <1>4, <2>2, <3>1, WantedIsInScope
    <3>3. t[Append(q, i)].known = TRUE
      BY <1>4, <2>2, <3>1 DEF Sees
    <3> QED
      BY <1>2, <2>2, <3>2, <3>3
  <2> QED
    BY <2>1, <2>2 DEF Sees
<1> QED
  BY <1>4 DEF Serves, s

\* The names of the arrays do not matter to what is seen.
LEMMA NamedSees ==
    ASSUME NEW t, <<>> \in DOMAIN t, \A p \in DOMAIN t : IsNode(t[p]), NEW own
    PROVE  SeesAsMuch(Named(t, own), t)
<1> DEFINE s == Named(t, own)
<1>1. DOMAIN s = DOMAIN t
  BY DEF Named
<1>2. ASSUME NEW p \in DOMAIN t PROVE s[p].known = t[p].known
  <2>1. IsNode(t[p])
    OBVIOUS
  <2>2. \E x : s[p] = [t[p] EXCEPT !.array = x]
    BY DEF Named
  <2>3. PICK x : s[p] = [t[p] EXCEPT !.array = x]
    BY <2>2
  <2> HIDE DEF s
  <2>4. Like(s[p], t[p], t[p].key, t[p].val, x, t[p].label, t[p].inc, t[p].bak)
    BY <2>1, <2>3, WithIs
  <2> QED
    BY <2>4 DEF Like
<1> HIDE DEF s
<1>3. ASSUME NEW k \in Keys, Sees(t, k) PROVE Sees(s, k)
  BY <1>1, <1>2, <1>3 DEF Sees
<1> QED
  BY <1>3 DEF SeesAsMuch, s

\* Rollback gives back what was known at least.
LEMMA RollbackSees ==
    ASSUME NEW t, NEW f, NEW contents, Has(f, contents, TRUE), Cut(t, f), Rests(t, f),
           NEW before, Returns(f, before)
    PROVE  SeesAsMuch(Named(RolledBack(t), FALSE), t)
<1> DEFINE s == RolledBack(t)
           g == RolledBack(f)
<1>1. Mid(f, Inner(Present(contents)), contents, None, 0, TRUE)
  BY DEF Has
<1>2. Full(g, Inner(Present(before))) /\ Cut(s, g)
  BY RollbackTrees
<1>3. /\ DOMAIN s = {p \in Positions : p \in DOMAIN Source(t, p)}
      /\ \A p \in DOMAIN s : s[p] = Source(t, p)[p]
      /\ DOMAIN g = {p \in Positions : p \in DOMAIN Source(f, p)}
      /\ \A p \in DOMAIN g : g[p] = Source(f, p)[p]
  BY DEF RolledBack
<1> HIDE DEF s, g
<1>4. /\ DOMAIN s \subseteq DOMAIN g /\ <<>> \in DOMAIN s
      /\ \A p \in DOMAIN g : g[p].known = TRUE
      /\ \A p \in DOMAIN s : IsNode(s[p])
  <2>1. \A p \in DOMAIN s : IsNode(s[p])
    BY <1>2, CutNode
  <2> QED
    BY <1>2, <2>1 DEF Cut, Full
<1>5. ASSUME NEW k \in Keys, Sees(t, k) PROVE Sees(s, k)
  <2>1. s[<<>>].known = TRUE
    <3>1. Source(t, <<>>) = t
      BY <1>1, SourceCut
    <3> QED
      BY <1>3, <1>4, <1>5, <3>1 DEF Sees
  <2>2. ASSUME NEW q \in Positions, NEW i \in 1..2, On(k, q), Append(q, i) \in DOMAIN s
        PROVE  s[Append(q, i)].known = TRUE
    <3> DEFINE c == Append(q, i)
    <3>1. c \in Positions /\ c \in DOMAIN Source(t, c) /\ s[c] = Source(t, c)[c] /\ c \in DOMAIN g
      BY <1>3, <1>4, <2>2
    <3>2. KidSource(t, f, q, c)
      BY <1>1, <3>1, SourceCut
    <3>3. t[c].known = TRUE \/ c \notin DOMAIN t
      BY <1>5, <2>2 DEF Sees
    <3> HIDE DEF c
    <3>4. ASSUME Source(t, c) = t PROVE s[c].known = TRUE
      BY <3>1, <3>3, <3>4
    <3>5. ASSUME Source(t, c) = Source(f, c) PROVE s[c].known = TRUE
      <4>1. s[c] = g[c]
        BY <1>3, <3>1, <3>5
      <4> QED
        BY <1>4, <3>1, <4>1
    <3>6. s[c].known = TRUE
      BY <3>2, <3>4, <3>5 DEF KidSource
    <3> QED
      BY <3>6 DEF c
  <2> QED
    BY <2>1, <2>2 DEF Sees
<1>6. SeesAsMuch(Named(s, FALSE), s)
  BY <1>4, NamedSees
<1> QED
  BY <1>5, <1>6 DEF SeesAsMuch, s

\* End serves what is wanted.
LEMMA EndedServes ==
    ASSUME scope \in Scopes,
           NEW t, NEW f, NEW contents, Has(f, contents, TRUE), Cut(t, f), Rests(t, f)
    PROVE  Serves(Ended(t), t)
<1> DEFINE inner == Inner(Present(contents))
           s == Confirmed(t)
           g == Confirmed(f)
           v == Fixed(s)
           w == Fixed(g)
           x == Collected(v)
<1>1. Mid(f, inner, contents, None, 0, TRUE)
  BY DEF Has
<1>2. Cut(s, g) /\ Rests(s, g) /\ Full(g, inner) /\ SeesAsMuch(s, t)
  BY <1>1, ConfirmedCut
<1>3. LeavesAreRight(g) /\ SettledFrom(w, g, inner)
  BY <1>1, ConfirmedRight
<1>4. Ended(t) = Named(x, FALSE)
  BY DEF Ended
<1> HIDE DEF s, g
<1>5. Cut(v, w) /\ SeesAsMuch(v, s)
  BY <1>2, <1>3, FixedCut
<1>6. Full(w, inner)
  BY <1>2, <1>3 DEF SettledFrom, Full
<1> HIDE DEF v, w
<1>7. Pruned(x, v) /\ Serves(x, v)
  BY <1>5, <1>6, CollectedPrunes, CollectedServes
<1> HIDE DEF x
<1>8. <<>> \in DOMAIN x /\ \A p \in DOMAIN x : IsNode(x[p])
  <2>1. \A p \in DOMAIN v : IsNode(v[p])
    BY <1>5, <1>6, CutNode
  <2> QED
    BY <1>7, <2>1 DEF Pruned, Forgotten
<1>9. SeesAsMuch(Named(x, FALSE), x)
  BY <1>8, NamedSees
<1> QED
  BY <1>2, <1>4, <1>5, <1>7, <1>9 DEF Serves, SeesAsMuch

\* applyupdate serves what is wanted.
LEMMA AppliedServes ==
    ASSUME scope \in Scopes, now \in Stored, ongoing \in BOOLEAN, NEW before,
           NEW t, Follows(t, now, ongoing, before), NEW u, UpdateOK(u), SeesFor(t, u)
    PROVE  Serves(Apply(t, u), t)
<1>1. Check(u, [k \in Keys |-> Lookup(t, k)]) <=> Check(u, now)
  BY ChecksAgree
<1>2. CASE ongoing = TRUE
  <2> DEFINE s == Apply(t, u)
             new == Outcome(u)
  <2>1. Lasts(s, t, ongoing)
    BY AppliedFollows
  <2> HIDE DEF s
  <2> QED
    BY <1>2, <2>1 DEF Lasts, SeesAsMuch, Serves, s
<1>3. CASE ongoing = FALSE /\ ~Check(u, now)
  <2>1. Apply(t, u) = t
    BY <1>1, <1>3 DEF Apply, Passes
  <2> QED
    BY <2>1 DEF Serves
<1>4. CASE ongoing = FALSE /\ Check(u, now)
  <2> DEFINE n == Named(t, TRUE)
             r == Updated(n, u)
             new == After(u)
  <2>1. Apply(t, u) = Ended(r)
    BY <1>1, <1>4 DEF Apply, Passes
  <2>2. FollowsAs(n, t, now, TRUE, now)
    BY <1>4, BegunFollows
  <2> HIDE DEF n
  <2>3. Follows(n, now, TRUE, now) /\ SeesAsMuch(n, t)
    BY <2>2 DEF FollowsAs
  <2>4. SeesFor(n, u)
    BY <2>3, SeesForAsMuch
  <2>5. Became(new, now, u)
    BY <1>4, AfterIs
  <2> HIDE DEF new
  <2>6. FollowsAs(r, n, new, TRUE, now)
    BY <1>4, <2>3, <2>4, <2>5, UpdatedFollows
  <2> HIDE DEF r
  <2>7. Follows(r, new, TRUE, now) /\ SeesAsMuch(r, n)
    BY <2>6 DEF FollowsAs
  <2>8. PICK f : Has(f, new, TRUE) /\ Cut(r, f) /\ Rests(r, f)
    BY <2>7 DEF Follows, Following
  <2>9. Serves(Ended(r), r)
    BY <2>8, EndedServes
  <2> QED
    BY <2>1, <2>3, <2>7, <2>9 DEF Serves, SeesAsMuch
<1> QED
  BY <1>2, <1>3, <1>4

\* The full collection, and the tree that is cut from it.
LEMMA InvCut ==
    ASSUME VerifierInv
    PROVE  /\ now \in Stored /\ ongoing \in BOOLEAN /\ Follows(tree, now, ongoing, origin)
           /\ \E f : Following(tree, f, now, ongoing, origin)
                     /\ Full(f, Inner(Present(now))) /\ Cut(tree, f)
<1>1. now \in Stored /\ ongoing \in BOOLEAN /\ Follows(tree, now, ongoing, origin)
  BY DEF VerifierInv
<1>2. PICK f : Following(tree, f, now, ongoing, origin)
  BY <1>1 DEF Follows
<1>3. Full(f, Inner(Present(now))) /\ Cut(tree, f)
  BY <1>2, MidFull DEF Following, Has
<1> QED
  BY <1>1, <1>2, <1>3

\* What sees as much serves.
LEMMA FollowingServes ==
    ASSUME NEW t, FollowsAs(t, tree, now, ongoing, origin)
    PROVE  Serves(t, tree)
BY DEF FollowsAs, SeesAsMuch, Serves

\* Begin, Rollback and End serve what is wanted.
LEMMA TransactionServes ==
    ASSUME scope \in Scopes, VerifierInv, VerifierBegin \/ VerifierRollback \/ VerifierEnd
    PROVE  Serves(tree', tree)
<1>1. now \in Stored /\ ongoing \in BOOLEAN /\ Follows(tree, now, ongoing, origin)
  BY InvCut
<1>2. CASE VerifierBegin
  <2>1. ongoing = FALSE /\ tree' = Named(tree, TRUE)
    BY <1>1, <1>2 DEF VerifierBegin, Begin
  <2>2. FollowsAs(tree', tree, now, TRUE, now)
    BY <1>1, <2>1, BegunFollows
  <2> QED
    BY <2>2 DEF FollowsAs, SeesAsMuch, Serves
<1>3. CASE VerifierRollback
  <2>1. ongoing = TRUE /\ tree' = Named(RolledBack(tree), FALSE)
    BY <1>1, <1>3 DEF VerifierRollback, Rollback
  <2>2. PICK f : Following(tree, f, now, TRUE, origin)
    BY <1>1, <2>1 DEF Follows
  <2>3. Has(f, now, TRUE) /\ Cut(tree, f) /\ Rests(tree, f) /\ Returns(f, origin)
    BY <2>2 DEF Following
  <2>4. SeesAsMuch(tree', tree)
    BY <2>1, <2>3, RollbackSees
  <2> QED
    BY <2>4 DEF SeesAsMuch, Serves
<1>4. CASE VerifierEnd
  <2>1. ongoing = TRUE /\ tree' = Ended(tree)
    BY <1>1, <1>4 DEF VerifierEnd, End
  <2>2. PICK f : Following(tree, f, now, TRUE, origin)
    BY <1>1, <2>1 DEF Follows
  <2>3. Has(f, now, TRUE) /\ Cut(tree, f) /\ Rests(tree, f)
    BY <2>2 DEF Following
  <2> QED
    BY <2>1, <2>3, EndedServes
<1> QED
  BY <1>2, <1>3, <1>4

\* Collect and Clone serve what is wanted.
LEMMA CollectAndCloneServe ==
    ASSUME scope \in Scopes, VerifierInv, CollectNow \/ Clone
    PROVE  Serves(tree', tree)
<1>1. now \in Stored /\ ongoing \in BOOLEAN /\ Follows(tree, now, ongoing, origin)
  BY InvCut
<1>2. PICK f : Following(tree, f, now, ongoing, origin) /\ Full(f, Inner(Present(now))) /\ Cut(tree, f)
  BY InvCut
<1>3. CASE CollectNow
  <2>1. tree' = Collected(tree)
    BY <1>3 DEF CollectNow
  <2> QED
    BY <1>2, <2>1, CollectedServes
<1>4. CASE Clone
  <2>1. ongoing = FALSE /\ tree' = Cloned(tree)
    BY <1>1, <1>4 DEF Clone
  <2>2. PICK h : Good(h, now) /\ Cut(tree, h)
    BY <1>1, <2>1, FollowsGood DEF GoodCut
  <2>3. SeesAsMuch(tree', tree)
    BY <2>1, <2>2, ClonedCut
  <2> QED
    BY <2>3 DEF SeesAsMuch, Serves
<1> QED
  BY <1>3, <1>4

\* A manipulator serves what is wanted.
LEMMA ManipulateServes ==
    ASSUME scope \in Scopes, VerifierInv, NEW k \in Keys, Manipulate(k)
    PROVE  Serves(tree', tree)
<1>1. PICK n, new : Manipulated(n, new)
  BY ManipulatorFollows
<1>2. /\ Follows(n, new, ongoing, origin) /\ SeesAsMuch(n, tree)
      /\ tree' = (IF ongoing THEN n ELSE Collected(n)) /\ ongoing \in BOOLEAN
  BY <1>1, InvCut DEF Manipulated, FollowsAs, Written
<1>3. PICK f : Following(n, f, new, ongoing, origin)
  BY <1>2 DEF Follows
<1>4. Full(f, Inner(Present(new))) /\ Cut(n, f)
  BY <1>3, MidFull DEF Following, Has
<1>5. Serves(Collected(n), n)
  BY <1>4, CollectedServes
<1>6. tree' = n \/ tree' = Collected(n)
  BY <1>2
<1> QED
  BY <1>2, <1>5, <1>6 DEF SeesAsMuch, Serves

\* Proofs and updates serve what is wanted.
LEMMA UpdatesServe ==
    ASSUME scope \in Scopes, VerifierInv
    PROVE  /\ \A k \in Keys, c \in AllContents : Verify(k, c) => Serves(tree', tree)
           /\ \A u \in Updates : ApplyPrepared(u) => Serves(tree', tree)
           /\ \A u \in Updates, c \in AllContents :
                 Prepare(u, c) \/ ApplyUserUpdate(u, c) => Serves(tree', tree)
<1>1. now \in Stored /\ ongoing \in BOOLEAN /\ Follows(tree, now, ongoing, origin)
  BY InvCut
<1>2. ASSUME NEW k \in Keys, NEW c \in AllContents, Verify(k, c) PROVE Serves(tree', tree)
  <2>1. Accepts(c) /\ tree' = Learnt(k, c)
    BY <1>2 DEF Verify
  <2>2. FollowsAs(tree', tree, now, ongoing, origin)
    BY <1>1, <2>1, LearntFollows
  <2> QED
    BY <2>2, FollowingServes
<1>3. ASSUME NEW u \in Updates, ApplyPrepared(u) PROVE Serves(tree', tree)
  <2>1. u \in held /\ tree' = Apply(tree, u)
    BY <1>3 DEF ApplyPrepared
  <2>2. UpdateOK(u) /\ SeesFor(tree, u)
    BY <2>1 DEF VerifierInv
  <2> QED
    BY <1>1, <2>1, <2>2, AppliedServes
<1>4. ASSUME NEW u \in Updates, NEW c \in AllContents, Accepts(c)
      PROVE  /\ UpdateOK(u)
             /\ FollowsAs(LearntFor(u, c), tree, now, ongoing, origin) /\ SeesFor(LearntFor(u, c), u)
  <2>1. UpdateOK(u)
    BY VerifierConstantsOK
  <2> QED
    BY <1>1, <1>4, <2>1, LearntForFollows
<1>5. ASSUME NEW u \in Updates, NEW c \in AllContents, Prepare(u, c) PROVE Serves(tree', tree)
  <2>1. Accepts(c) /\ tree' = LearntFor(u, c)
    BY <1>5 DEF Prepare
  <2> QED
    BY <1>4, <2>1, FollowingServes
<1>6. ASSUME NEW u \in Updates, NEW c \in AllContents, ApplyUserUpdate(u, c) PROVE Serves(tree', tree)
  <2> DEFINE t == LearntFor(u, c)
  <2>1. Accepts(c) /\ tree' = Apply(t, u)
    BY <1>6 DEF ApplyUserUpdate
  <2>2. UpdateOK(u) /\ FollowsAs(t, tree, now, ongoing, origin) /\ SeesFor(t, u)
    BY <1>4, <2>1
  <2> HIDE DEF t
  <2>3. Follows(t, now, ongoing, origin) /\ Serves(t, tree)
    BY <2>2, FollowingServes DEF FollowsAs
  <2>4. Serves(Apply(t, u), t)
    BY <1>1, <2>2, <2>3, AppliedServes
  <2> QED
    BY <2>1, <2>3, <2>4 DEF Serves
<1> QED
  BY <1>2, <1>3, <1>5, <1>6

\* Every step of a verifier serves what is wanted.
LEMMA VerifierNextServes ==
    ASSUME scope \in Scopes, VerifierInv, VerifierNext
    PROVE  Serves(tree', tree)
<1>1. CASE VerifierBegin \/ VerifierRollback \/ VerifierEnd
  BY <1>1, TransactionServes
<1>2. CASE CollectNow \/ Clone
  BY <1>2, CollectAndCloneServe
<1>3. ASSUME NEW k \in Keys, Manipulate(k) PROVE Serves(tree', tree)
  BY <1>3, ManipulateServes
<1>4. CASE \E k \in Keys, c \in AllContents : Verify(k, c)
  BY <1>4, UpdatesServe
<1>5. CASE \E u \in Updates : ApplyPrepared(u)
  BY <1>5, UpdatesServe
<1>6. CASE \E u \in Updates, c \in AllContents : Prepare(u, c) \/ ApplyUserUpdate(u, c)
  BY <1>6, UpdatesServe
<1> QED
  BY <1>1, <1>2, <1>3, <1>4, <1>5, <1>6 DEF VerifierNext

\* No operation changes the scope.
LEMMA ScopeStays ==
    ASSUME VerifierNext
    PROVE  scope' = scope
BY DEF VerifierNext, VerifierBegin, VerifierRollback, VerifierEnd, CollectNow, Clone, Manipulate,
       Verify, Prepare, ApplyPrepared, ApplyUserUpdate, Broadcast, Begin, Rollback, End, Add, Set,
       Remove, Written

\* A walk that reaches a wanted key in the tree reaches it in the next.
LEMMA ReachesStill ==
    ASSUME VerifierInv, VerifierInv', Serves(tree', tree), NEW k \in Keys, Wanted(k), Reaches(tree, k)
    PROVE  Reaches(tree', k)
<1>1. PICK f : Full(f, Inner(Present(now))) /\ Cut(tree, f)
  BY InvCut
<1>2. Sees(tree', k)
  BY <1>1, ReachesSees DEF Serves
<1>3. Follows(tree', now', ongoing', origin')
  BY DEF VerifierInv
<1>4. PICK g : Following(tree', g, now', ongoing', origin')
  BY <1>3 DEF Follows
<1>5. Full(g, Inner(Present(now'))) /\ Cut(tree', g)
  BY <1>4, MidFull DEF Following, Has
<1> QED
  BY <1>2, <1>5, SeesWalk

\* What is in its scope a collection keeps: a key that it can prove and change, or prove the
\* absence of, it can prove and change after every operation, whatever it learns, forgets,
\* changes and rolls back (Collect of transaction.go, scope.go).
THEOREM ScopeStaysServed ==
    ASSUME MixedUse = FALSE
    PROVE  VerifierSpec => ScopeIsServed
<1> DEFINE Inv == VerifierInv /\ scope \in Scopes
<1>1. VerifierInit => Inv
  BY VerifierInitInv DEF VerifierInit
<1>2. Inv /\ [VerifierNext]_verifierVars => Inv'
  <2>1. ASSUME Inv, VerifierNext PROVE Inv'
    BY <2>1, VerifierNextInv, ScopeStays
  <2>2. ASSUME Inv, UNCHANGED verifierVars PROVE Inv'
    <3>1. scope' = scope
      BY <2>2 DEF verifierVars, vars
    <3> QED
      BY <2>2, <3>1, VerifierStutterInv
  <2> QED
    BY <2>1, <2>2
<1>3. Inv /\ Inv' /\ [VerifierNext]_verifierVars =>
          [\A k \in Keys : Wanted(k) /\ Reaches(tree, k) => Reaches(tree', k)]_verifierVars
  <2>1. ASSUME Inv, Inv', VerifierNext, NEW k \in Keys, Wanted(k), Reaches(tree, k)
        PROVE  Reaches(tree', k)
    <3>1. Serves(tree', tree)
      BY <2>1, VerifierNextServes
    <3> QED
      BY <2>1, <3>1, ReachesStill
  <2> QED
    BY <2>1
<1> QED
  BY <1>1, <1>2, <1>3, PTL DEF VerifierSpec, ScopeIsServed
=============================================================================
