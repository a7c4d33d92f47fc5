-------------------------- MODULE CollectionTrees ---------------------------
(***************************************************************************)
(* Facts about the trees of module Collection, for CollectionProofs: their *)
(* positions and their shape, what a step of a manipulator does to a node, and*)
(* what holds of a tree between two such steps.                            *)
(***************************************************************************)
EXTENDS Collection, Repetition

-----------------------------------------------------------------------------
(* Positions.                                                              *)

\* A position is a sequence of bits that is no longer than a hash.
LEMMA PositionIsSeq ==
    ASSUME NEW p \in Positions
    PROVE  p \in Seq({1, 2}) /\ Len(p) \in 0..Bits /\ DOMAIN p = 1..Len(p)
<1>1. PICK d \in 0..Bits : p \in [1..d -> {1, 2}]
  BY DEF Positions
<1>2. d \in Nat
  BY <1>1, PathsDiffer
<1> QED
  BY <1>1, <1>2

\* A short sequence of bits is a position.
LEMMA SeqIsPosition ==
    ASSUME NEW p \in Seq({1, 2}), Len(p) <= Bits
    PROVE  p \in Positions
<1>1. Len(p) \in 0..Bits /\ p \in [1..Len(p) -> {1, 2}]
  BY PathsDiffer
<1> QED
  BY <1>1 DEF Positions

\* The root is a position.
LEMMA RootIsPosition == <<>> \in Positions /\ Len(<<>>) = 0
<1>1. <<>> \in Seq({1, 2}) /\ Len(<<>>) = 0 /\ 0 <= Bits
  BY PathsDiffer
<1> QED
  BY <1>1, SeqIsPosition

\* A child is another position, one step further.
LEMMA Kid ==
    ASSUME NEW p \in Positions, NEW i \in 1..2
    PROVE  /\ Append(p, i) # p /\ Append(p, i) # <<>>
           /\ Len(Append(p, i)) = Len(p) + 1
           /\ Append(p, i)[Len(p) + 1] = i
           /\ \A j \in 1..Len(p) : Append(p, i)[j] = p[j]
           /\ Len(p) < Bits => Append(p, i) \in Positions
<1>1. p \in Seq({1, 2}) /\ Len(p) \in 0..Bits /\ i \in {1, 2} /\ Bits \in Nat
  BY PositionIsSeq, PathsDiffer
<1>2. Append(p, i) \in Seq({1, 2}) /\ Len(Append(p, i)) = Len(p) + 1
  BY <1>1
<1>3. Len(p) < Bits => Append(p, i) \in Positions
  <2> SUFFICES ASSUME Len(p) < Bits PROVE Append(p, i) \in Positions
    OBVIOUS
  <2>1. Len(Append(p, i)) <= Bits
    BY <1>1, <1>2
  <2> QED
    BY <1>2, <2>1, SeqIsPosition
<1>4. Append(p, i) # p /\ Append(p, i) # <<>>
  BY <1>1, <1>2, RootIsPosition
<1> QED
  BY <1>1, <1>2, <1>3, <1>4

\* Sequences with the same bits are the same.
LEMMA SamePosition ==
    ASSUME NEW p \in Seq({1, 2}), NEW q \in Seq({1, 2}), Len(p) = Len(q),
           \A i \in 1..Len(p) : p[i] = q[i]
    PROVE  p = q
OBVIOUS

\* What a position on the way to another is.
LEMMA PrefixIs ==
    ASSUME NEW p \in Positions, NEW d \in 0..Len(p)
    PROVE  /\ Prefix(p, d) \in Positions /\ Len(Prefix(p, d)) = d
           /\ \A i \in 1..d : Prefix(p, d)[i] = p[i]
<1>1. p \in Seq({1, 2}) /\ Len(p) \in 0..Bits /\ d \in Nat /\ d <= Len(p) /\ Bits \in Nat
  BY PositionIsSeq, PathsDiffer
<1>2. SubSeq(p, 1, d) \in Seq({1, 2}) /\ Len(SubSeq(p, 1, d)) = d
  BY <1>1
<1>3. ASSUME NEW i \in 1..d PROVE SubSeq(p, 1, d)[i] = p[i]
  <2>1. 1 \in 1..(Len(p) + 1) /\ d \in 0..Len(p) /\ i \in 1..(d - 1 + 1) /\ i + 1 - 1 = i
    BY <1>1
  <2> QED
    BY <1>1, <2>1
<1>4. SubSeq(p, 1, d) \in Positions
  <2>1. d <= Bits
    BY <1>1
  <2> QED
    BY <1>2, <2>1, SeqIsPosition
<1> QED
  BY <1>2, <1>3, <1>4 DEF Prefix

\* Only the root is at depth 0.
LEMMA OnlyRoot ==
    ASSUME NEW p \in Positions, Len(p) = 0
    PROVE  p = <<>>
<1>1. p \in Seq({1, 2}) /\ <<>> \in Seq({1, 2}) /\ Len(<<>>) = 0
  BY PositionIsSeq
<1> QED
  BY <1>1, SamePosition

\* The way to a position goes from the root to it, one bit at a time.
LEMMA PrefixOf ==
    ASSUME NEW p \in Positions
    PROVE  /\ Prefix(p, 0) = <<>>
           /\ Prefix(p, Len(p)) = p
           /\ \A d \in 0..Len(p) : \A e \in 0..d : Prefix(Prefix(p, d), e) = Prefix(p, e)
           /\ \A d \in 0..Len(p) : d < Len(p) =>
                /\ p[d + 1] \in 1..2
                /\ Prefix(p, d + 1) = Append(Prefix(p, d), p[d + 1])
<1>1. p \in Seq({1, 2}) /\ Len(p) \in 0..Bits /\ Bits \in Nat
  BY PositionIsSeq, PathsDiffer
<1>2. Prefix(p, 0) = <<>>
  <2>1. Prefix(p, 0) \in Positions /\ Len(Prefix(p, 0)) = 0
    BY <1>1, PrefixIs
  <2> QED
    BY <2>1, OnlyRoot
<1>3. Prefix(p, Len(p)) = p
  <2>1. Len(p) \in 0..Len(p)
    BY <1>1
  <2>2. Prefix(p, Len(p)) \in Positions /\ Len(Prefix(p, Len(p))) = Len(p)
        /\ \A i \in 1..Len(p) : Prefix(p, Len(p))[i] = p[i]
    BY <2>1, PrefixIs
  <2>3. Prefix(p, Len(p)) \in Seq({1, 2})
    BY <2>2, PositionIsSeq
  <2> QED
    BY <1>1, <2>2, <2>3, SamePosition
<1>4. ASSUME NEW d \in 0..Len(p), NEW e \in 0..d PROVE Prefix(Prefix(p, d), e) = Prefix(p, e)
  <2> DEFINE q == Prefix(p, d)
             r == Prefix(q, e)
             s == Prefix(p, e)
  <2>1. q \in Positions /\ Len(q) = d /\ \A i \in 1..d : q[i] = p[i]
    BY PrefixIs
  <2>2. e \in 0..Len(q) /\ e \in 0..Len(p) /\ e \in Nat /\ e <= d /\ d \in Nat
    BY <1>1, <2>1
  <2>3. s \in Positions /\ Len(s) = e /\ \A i \in 1..e : s[i] = p[i]
    BY <2>2, PrefixIs
  <2>4. r \in Positions /\ Len(r) = e /\ \A i \in 1..e : r[i] = q[i]
    <3> HIDE DEF q
    <3> QED
      BY <2>1, <2>2, PrefixIs
  <2>5. r \in Seq({1, 2}) /\ s \in Seq({1, 2})
    BY <2>3, <2>4, PositionIsSeq
  <2> HIDE DEF q, r, s
  <2>6. \A i \in 1..e : r[i] = s[i]
    BY <2>1, <2>2, <2>3, <2>4
  <2>7. r = s
    BY <2>3, <2>4, <2>5, <2>6, SamePosition
  <2> QED
    BY <2>7 DEF q, r, s
<1>5. ASSUME NEW d \in 0..Len(p), d < Len(p)
      PROVE  p[d + 1] \in 1..2 /\ Prefix(p, d + 1) = Append(Prefix(p, d), p[d + 1])
  <2> DEFINE q == Prefix(p, d)
             r == Append(q, p[d + 1])
             s == Prefix(p, d + 1)
  <2>1. d \in Nat /\ d + 1 \in 0..Len(p) /\ d + 1 \in 1..Len(p)
    BY <1>1, <1>5
  <2>2. p[d + 1] \in {1, 2} /\ p[d + 1] \in 1..2
    BY <1>1, <2>1
  <2>3. q \in Positions /\ Len(q) = d /\ \A i \in 1..d : q[i] = p[i]
    BY PrefixIs
  <2>4. s \in Positions /\ Len(s) = d + 1 /\ \A i \in 1..(d + 1) : s[i] = p[i]
    BY <2>1, PrefixIs
  <2>5. s \in Seq({1, 2}) /\ q \in Seq({1, 2})
    BY <2>3, <2>4, PositionIsSeq
  <2>6. r \in Seq({1, 2}) /\ Len(r) = d + 1 /\ \A i \in 1..(d + 1) : r[i] = p[i]
    <3> HIDE DEF q
    <3> QED
      BY <2>1, <2>2, <2>3, <2>5
  <2> HIDE DEF q, r, s
  <2>7. r = s
    BY <2>1, <2>4, <2>5, <2>6, SamePosition
  <2> QED
    BY <2>2, <2>7 DEF q, r, s
<1> QED
  BY <1>2, <1>3, <1>4, <1>5

\* The positions on the path of a key.
LEMMA AtIs ==
    ASSUME NEW k \in Keys, NEW d \in 0..Bits
    PROVE  /\ At(k, d) \in Positions /\ Len(At(k, d)) = d
           /\ \A e \in 0..d : Prefix(At(k, d), e) = At(k, e)
           /\ d < Bits => /\ Path[k][d + 1] \in 1..2
                          /\ At(k, d + 1) = Append(At(k, d), Path[k][d + 1])
           /\ At(k, 0) = <<>>
<1>1. Bits \in Nat /\ Path[k] \in Positions /\ Len(Path[k]) = Bits
  <2>1. Bits \in Nat /\ Path[k] \in [1..Bits -> {1, 2}] /\ Bits \in 0..Bits
    BY PathsDiffer
  <2>2. Path[k] \in Positions
    BY <2>1 DEF Positions
  <2>3. Len(Path[k]) = Bits
    BY <2>1
  <2> QED
    BY <2>1, <2>2, <2>3
<1>2. \A e \in 0..Bits : At(k, e) = Prefix(Path[k], e)
  BY DEF At, Way
<1>3. d \in Nat /\ d <= Bits /\ 0 \in 0..Bits /\ \A e \in 0..d : e \in 0..Bits
  BY <1>1
<1>4. At(k, d) \in Positions /\ Len(At(k, d)) = d
  BY <1>1, <1>2, PrefixIs
<1>5. \A e \in 0..d : Prefix(At(k, d), e) = At(k, e)
  BY <1>1, <1>2, <1>3, PrefixOf
<1>6. d < Bits => Path[k][d + 1] \in 1..2 /\ At(k, d + 1) = Append(At(k, d), Path[k][d + 1])
  <2> SUFFICES ASSUME d < Bits
               PROVE  Path[k][d + 1] \in 1..2 /\ At(k, d + 1) = Append(At(k, d), Path[k][d + 1])
    OBVIOUS
  <2>1. d + 1 \in 0..Bits
    BY <1>1, <1>3
  <2>2. At(k, d + 1) = Prefix(Path[k], d + 1) /\ At(k, d) = Prefix(Path[k], d)
    BY <1>2, <2>1
  <2> QED
    BY <1>1, <2>2, PrefixOf
<1>7. At(k, 0) = <<>>
  BY <1>1, <1>2, <1>3, PrefixOf
<1> QED
  BY <1>4, <1>5, <1>6, <1>7

\* The root is on every path.
LEMMA OnRoot ==
    ASSUME NEW k \in Keys
    PROVE  On(k, <<>>)
<1>1. 0 \in 0..Bits
  BY PathsDiffer
<1> QED
  BY <1>1, AtIs, RootIsPosition DEF On

\* Different positions have different children.
LEMMA KidsDiffer ==
    ASSUME NEW p \in Positions, NEW q \in Positions, NEW i \in 1..2, NEW j \in 1..2,
           Append(p, i) = Append(q, j)
    PROVE  p = q /\ i = j
<1>1. p \in Seq({1, 2}) /\ q \in Seq({1, 2}) /\ Len(p) \in Nat /\ Len(q) \in Nat
  BY PositionIsSeq
<1>2. Len(p) = Len(q)
  BY <1>1, Kid
<1>3. \A e \in 1..Len(p) : p[e] = q[e]
  BY <1>2, Kid
<1>4. i = j
  BY <1>2, Kid
<1> QED
  BY <1>1, <1>2, <1>3, <1>4, SamePosition

\* A path that goes through a child goes through its parent, and turns to it.
LEMMA OnKid ==
    ASSUME NEW k \in Keys, NEW p \in Positions, NEW i \in 1..2, Append(p, i) \in Positions
    PROVE  /\ Len(p) < Bits /\ Path[k][Len(p) + 1] \in 1..2
           /\ On(k, Append(p, i)) <=> On(k, p) /\ Path[k][Len(p) + 1] = i
<1>1. Len(Append(p, i)) = Len(p) + 1 /\ Len(p) \in Nat /\ Len(p) + 1 \in 0..Bits /\ Bits \in Nat
  <2>1. Len(Append(p, i)) \in 0..Bits
    BY PositionIsSeq
  <2> QED
    BY <2>1, Kid, PositionIsSeq, PathsDiffer
<1> DEFINE d == Len(p)
<1>2. d \in 0..Bits /\ d < Bits
  BY <1>1
<1>3. Path[k][d + 1] \in 1..2 /\ At(k, d + 1) = Append(At(k, d), Path[k][d + 1]) /\ At(k, d) \in Positions
  BY <1>2, AtIs
<1>4. On(k, Append(p, i)) <=> Append(At(k, d), Path[k][d + 1]) = Append(p, i)
  BY <1>1, <1>3 DEF On
<1>5. Append(At(k, d), Path[k][d + 1]) = Append(p, i) => At(k, d) = p /\ Path[k][d + 1] = i
  BY <1>3, KidsDiffer
<1> QED
  BY <1>2, <1>3, <1>4, <1>5 DEF On

\* A position but the root is a child.
LEMMA Up ==
    ASSUME NEW p \in Positions, p # <<>>
    PROVE  \E q \in Positions, i \in 1..2 :
              p = Append(q, i) /\ Len(q) + 1 = Len(p) /\ q = Prefix(p, Len(p) - 1)
<1>1. Len(p) \in Nat /\ Len(p) # 0
  BY PositionIsSeq, OnlyRoot
<1> DEFINE d == Len(p) - 1
<1>2. d \in 0..Len(p) /\ d < Len(p) /\ d + 1 = Len(p)
  BY <1>1
<1>3. Prefix(p, d) \in Positions /\ Len(Prefix(p, d)) = d
  BY <1>2, PrefixIs
<1>4. p[d + 1] \in 1..2 /\ p = Append(Prefix(p, d), p[d + 1])
  <2>1. p[d + 1] \in 1..2 /\ Prefix(p, d + 1) = Append(Prefix(p, d), p[d + 1])
    BY <1>2, PrefixOf
  <2>2. Prefix(p, d + 1) = p
    BY <1>2, PrefixOf
  <2> QED
    BY <2>1, <2>2
<1> QED
  BY <1>2, <1>3, <1>4

-----------------------------------------------------------------------------
(* The shape of a tree: the positions of its internal nodes, and what its  *)
(* leaves hold.                                                            *)

InnerSet(inner) ==
    /\ inner \subseteq Positions /\ <<>> \in inner
    /\ \A p \in inner : Len(p) < Bits
    /\ \A p \in Positions, i \in 1..2 : Append(p, i) \in inner => p \in inner

Present(contents) == {k \in Keys : contents[k] # None}

\* The node at p holds what contents has on the way through p.
Holds(n, p, contents) ==
    /\ \A k \in Present(contents) : On(k, p) => n.key = k /\ n.val = contents[k]
    /\ (\A k \in Present(contents) : ~On(k, p)) => n.key = None /\ n.val = 0

Shape(t, inner, contents) ==
    /\ DOMAIN t = NodesFor(inner)
    /\ \A p \in inner : t[p].key = None
    /\ \A p \in NodesFor(inner) \ inner : Holds(t[p], p, contents)

\* What is above an internal node is internal.
LEMMA InnerAbove ==
    ASSUME NEW inner, InnerSet(inner), NEW p \in inner
    PROVE  \A d \in 0..Len(p) : Prefix(p, d) \in inner
<1>1. p \in Positions /\ Len(p) \in Nat
  BY PositionIsSeq DEF InnerSet
<1> DEFINE S == {n \in 0..Len(p) : Prefix(p, Len(p) - n) \in inner}
<1>2. 0 \in S
  <2>1. Len(p) - 0 = Len(p) /\ Prefix(p, Len(p)) = p /\ 0 \in 0..Len(p)
    BY <1>1, PrefixOf
  <2> QED
    BY <2>1
<1>3. ASSUME NEW n \in 0..Len(p), n < Len(p), n \in S PROVE n + 1 \in S
  <2> DEFINE d == Len(p) - (n + 1)
  <2>1. d \in 0..Len(p) /\ d < Len(p) /\ d + 1 = Len(p) - n /\ n + 1 \in 0..Len(p)
    BY <1>1, <1>3
  <2>2. Prefix(p, d) \in Positions /\ p[d + 1] \in 1..2
        /\ Append(Prefix(p, d), p[d + 1]) = Prefix(p, d + 1)
    BY <1>1, <2>1, PrefixIs, PrefixOf
  <2>3. Prefix(p, d + 1) \in inner
    BY <1>3, <2>1
  <2>4. Prefix(p, d) \in inner
    <3>1. Append(Prefix(p, d), p[d + 1]) \in inner
      BY <2>2, <2>3
    <3> QED
      BY <2>2, <3>1 DEF InnerSet
  <2> QED
    BY <2>1, <2>4
<1>4. \A n \in 0..Len(p) : n \in S
  <2> HIDE DEF S
  <2> QED
    BY <1>1, <1>2, <1>3, UpTo
<1>5. ASSUME NEW d \in 0..Len(p) PROVE Prefix(p, d) \in inner
  <2>1. Len(p) - d \in 0..Len(p) /\ Len(p) - (Len(p) - d) = d
    BY <1>1
  <2> QED
    BY <1>4, <2>1
<1> QED
  BY <1>5

\* The nodes are the root and the children of the internal nodes.
LEMMA NodesArePositions ==
    ASSUME NEW inner, InnerSet(inner)
    PROVE  /\ NodesFor(inner) \subseteq Positions
           /\ inner \subseteq NodesFor(inner)
           /\ \A p \in Positions, i \in 1..2 : Append(p, i) \in NodesFor(inner) <=> p \in inner
<1>1. NodesFor(inner) \subseteq Positions
  <2>1. ASSUME NEW p \in inner, NEW i \in 1..2 PROVE Append(p, i) \in Positions
    <3>1. p \in Positions /\ Len(p) < Bits
      BY DEF InnerSet
    <3> QED
      BY <3>1, Kid
  <2>2. ASSUME NEW x \in NodesFor(inner), x # <<>> PROVE x \in Positions
    <3>1. PICK p \in inner, i \in 1..2 : x = Append(p, i)
      BY <2>2 DEF NodesFor
    <3> QED
      BY <2>1, <3>1
  <2> QED
    BY <2>2, RootIsPosition
<1>2. ASSUME NEW p \in inner PROVE p \in NodesFor(inner)
  <2>1. CASE p = <<>>
    BY <2>1 DEF NodesFor
  <2>2. CASE p # <<>>
    <3>1. PICK q \in Positions, i \in 1..2 : p = Append(q, i)
      BY <2>2, Up DEF InnerSet
    <3>2. q \in inner
      BY <3>1 DEF InnerSet
    <3> QED
      BY <3>1, <3>2 DEF NodesFor
  <2> QED
    BY <2>1, <2>2
<1>3. ASSUME NEW p \in Positions, NEW i \in 1..2, Append(p, i) \in NodesFor(inner)
      PROVE  p \in inner
  <2>1. Append(p, i) # <<>>
    BY Kid
  <2>2. PICK q \in inner, j \in 1..2 : Append(p, i) = Append(q, j)
    BY <1>3, <2>1 DEF NodesFor
  <2>3. p = q
    BY <2>2, KidsDiffer DEF InnerSet
  <2> QED
    BY <2>3
<1>4. ASSUME NEW p \in inner, NEW i \in 1..2 PROVE Append(p, i) \in NodesFor(inner)
  BY DEF NodesFor
<1> QED
  BY <1>1, <1>2, <1>3, <1>4

\* A node is a leaf when it is not internal.
LEMMA LeafIsOuter ==
    ASSUME NEW inner, InnerSet(inner), NEW t, DOMAIN t = NodesFor(inner), NEW p \in Positions
    PROVE  IsLeaf(t, p) <=> p \notin inner
<1>1. 1 \in 1..2
  OBVIOUS
<1> QED
  BY <1>1, NodesArePositions DEF IsLeaf

\* The walk for a key ends at a leaf, and passes the internal nodes before it.
LEMMA WalkEnds ==
    ASSUME NEW inner, InnerSet(inner), NEW t, DOMAIN t = NodesFor(inner), NEW k \in Keys
    PROVE  /\ Depth(t, k) \in 1..Bits
           /\ \A d \in 0..Bits : At(k, d) \in inner <=> d < Depth(t, k)
           /\ Leaf(t, k) \in NodesFor(inner) \ inner
           /\ Leaf(t, k) \in Positions /\ Leaf(t, k) # <<>>
           /\ Len(Leaf(t, k)) = Depth(t, k) /\ On(k, Leaf(t, k))
<1> DEFINE Ends(d) == At(k, d) \in NodesFor(inner) \ inner
<1>1. Bits \in Nat /\ 0 \in 0..Bits /\ Bits \in 0..Bits
  BY PathsDiffer
<1>2. \A d \in 0..Bits : At(k, d) \in Positions /\ Len(At(k, d)) = d
  BY AtIs
<1>3. At(k, 0) \in inner
  BY <1>1, AtIs DEF InnerSet
<1>4. At(k, Bits) \notin inner
  BY <1>1, <1>2 DEF InnerSet
<1>5. \E d \in 0..Bits : Ends(d)
  <2> SUFFICES ASSUME \A d \in 0..Bits : ~Ends(d) PROVE FALSE
    OBVIOUS
  <2> DEFINE S == {d \in 0..Bits : At(k, d) \in inner}
  <2>1. 0 \in S
    BY <1>1, <1>3
  <2>2. ASSUME NEW n \in 0..Bits, n < Bits, n \in S PROVE n + 1 \in S
    <3>1. n + 1 \in 0..Bits
      BY <1>1, <2>2
    <3>2. Path[k][n + 1] \in 1..2 /\ At(k, n + 1) = Append(At(k, n), Path[k][n + 1])
      BY <2>2, AtIs
    <3>3. At(k, n + 1) \in NodesFor(inner)
      <4>1. At(k, n) \in Positions /\ At(k, n) \in inner
        BY <1>2, <2>2
      <4>2. Append(At(k, n), Path[k][n + 1]) \in NodesFor(inner)
        BY <3>2, <4>1, NodesArePositions
      <4> QED
        BY <3>2, <4>2
    <3> QED
      BY <3>1, <3>3
  <2>3. \A n \in 0..Bits : n \in S
    <3> HIDE DEF S
    <3> QED
      BY <1>1, <2>1, <2>2, UpTo
  <2> QED
    BY <1>1, <1>4, <2>3
<1>6. ASSUME NEW d \in 0..Bits, Ends(d), NEW e \in 0..Bits PROVE At(k, e) \in inner <=> e < d
  <2>1. d # 0 /\ d - 1 \in 0..Bits /\ d - 1 < Bits /\ (d - 1) + 1 = d
    BY <1>1, <1>3, <1>6
  <2>2. Path[k][d] \in 1..2 /\ At(k, d) = Append(At(k, d - 1), Path[k][d])
    BY <2>1, AtIs
  <2>3. At(k, d - 1) \in inner
    BY <1>2, <1>6, <2>1, <2>2, NodesArePositions
  <2>4. CASE e < d
    <3>1. e \in 0..(d - 1)
      BY <2>1, <2>4
    <3>2. At(k, e) = Prefix(At(k, d - 1), e) /\ e \in 0..Len(At(k, d - 1))
      BY <1>2, <2>1, <3>1, AtIs
    <3> QED
      BY <2>3, <2>4, <3>2, InnerAbove
  <2>5. CASE ~(e < d)
    <3>1. d \in 0..e
      BY <1>1, <2>5
    <3>2. At(k, d) = Prefix(At(k, e), d) /\ d \in 0..Len(At(k, e))
      BY <1>2, <3>1, AtIs
    <3>3. At(k, e) \in inner => At(k, d) \in inner
      <4> HIDE DEF Ends
      <4> QED
        BY <3>2, InnerAbove
    <3> QED
      BY <1>6, <2>5, <3>3
  <2> QED
    BY <2>4, <2>5
<1>7. \A d \in 0..Bits : Ends(d) <=> At(k, d) \in DOMAIN t /\ IsLeaf(t, At(k, d))
  BY <1>2, LeafIsOuter
<1>8. Depth(t, k) \in 0..Bits /\ Ends(Depth(t, k))
  BY <1>5, <1>7 DEF Depth
<1> DEFINE d == Depth(t, k)
<1> HIDE DEF d
<1>9. d \in 0..Bits /\ Ends(d)
  BY <1>8 DEF d
<1>10. \A e \in 0..Bits : At(k, e) \in inner <=> e < d
  BY <1>6, <1>9
<1>11. d \in 1..Bits
  BY <1>1, <1>3, <1>9
<1>12. At(k, d) \in Positions /\ Len(At(k, d)) = d /\ On(k, At(k, d))
  BY <1>2, <1>9 DEF On
<1>13. At(k, d) # <<>>
  BY <1>11, <1>12, RootIsPosition
<1> QED
  BY <1>9, <1>10, <1>11, <1>12, <1>13 DEF d, Leaf

\* A walk finds what the tree holds.
LEMMA LookupIs ==
    ASSUME NEW inner, InnerSet(inner), NEW contents, NEW t, Shape(t, inner, contents),
           NEW k \in Keys
    PROVE  /\ Lookup(t, k) = contents[k]
           /\ contents[k] # None <=> t[Leaf(t, k)].key = k
<1> DEFINE p == Leaf(t, k)
<1>1. DOMAIN t = NodesFor(inner)
  BY DEF Shape
<1>2. p \in NodesFor(inner) \ inner /\ On(k, p)
  BY <1>1, WalkEnds
<1>3. Holds(t[p], p, contents)
  BY <1>2 DEF Shape
<1> HIDE DEF p
<1>4. CASE contents[k] # None
  <2>1. k \in Present(contents)
    BY <1>4 DEF Present
  <2>2. t[p].key = k /\ t[p].val = contents[k]
    BY <1>2, <1>3, <2>1 DEF Holds
  <2> QED
    BY <1>4, <2>2 DEF Lookup, p
<1>5. CASE contents[k] = None
  <2>1. t[p].key # k
    <3>1. CASE \E l \in Present(contents) : On(l, p)
      <4>1. PICK l \in Present(contents) : On(l, p)
        BY <3>1
      <4>2. t[p].key = l /\ contents[l] # None
        BY <1>3, <4>1 DEF Holds, Present
      <4> QED
        BY <1>5, <4>2
    <3>2. CASE \A l \in Present(contents) : ~On(l, p)
      <4>1. t[p].key = None
        BY <1>3, <3>2 DEF Holds
      <4> QED
        BY <4>1, NoneIsNoKey
    <3> QED
      BY <3>1, <3>2
  <2> QED
    BY <1>5, <2>1 DEF Lookup, p
<1> QED
  BY <1>4, <1>5 DEF p

\* The key of a leaf is on its way there.
LEMMA LeafHolds ==
    ASSUME NEW inner, InnerSet(inner), NEW contents, NEW t, Shape(t, inner, contents),
           NEW p \in NodesFor(inner) \ inner
    PROVE  /\ t[p].key = None => t[p].val = 0 /\ \A k \in Present(contents) : ~On(k, p)
           /\ t[p].key # None => /\ t[p].key \in Present(contents) /\ On(t[p].key, p)
                                 /\ t[p].val = contents[t[p].key]
                                 /\ \A k \in Present(contents) : On(k, p) => k = t[p].key
<1>1. Holds(t[p], p, contents)
  BY DEF Shape
<1>2. CASE \E l \in Present(contents) : On(l, p)
  <2>1. PICK l \in Present(contents) : On(l, p)
    BY <1>2
  <2>2. t[p].key = l /\ t[p].val = contents[l] /\ l # None
    BY <1>1, <2>1, NoneIsNoKey DEF Holds, Present
  <2>3. \A k \in Present(contents) : On(k, p) => k = l
    BY <1>1, <2>2 DEF Holds
  <2> QED
    BY <2>1, <2>2, <2>3
<1>3. CASE \A l \in Present(contents) : ~On(l, p)
  BY <1>1, <1>3 DEF Holds
<1> QED
  BY <1>2, <1>3

-----------------------------------------------------------------------------
(* What is under a position.                                               *)

Above(p, q) == Under(p, q) /\ p # q

\* What it means to be under a position.
LEMMA UnderIs ==
    ASSUME NEW p \in Positions, NEW q \in Positions
    PROVE  /\ Under(p, q) <=> Len(p) <= Len(q) /\ \A i \in 1..Len(p) : p[i] = q[i]
           /\ Under(p, p) /\ Under(<<>>, p)
           /\ Under(p, q) /\ Len(p) = Len(q) => p = q
           /\ Under(p, <<>>) => p = <<>>
<1>1. p \in Seq({1, 2}) /\ q \in Seq({1, 2}) /\ Len(p) \in Nat /\ Len(q) \in Nat
  BY PositionIsSeq
<1>2. ASSUME Len(p) <= Len(q)
      PROVE  Prefix(q, Len(p)) = p <=> \A i \in 1..Len(p) : p[i] = q[i]
  <2> DEFINE r == Prefix(q, Len(p))
  <2>1. Len(p) \in 0..Len(q)
    BY <1>1, <1>2
  <2>2. r \in Positions /\ Len(r) = Len(p) /\ \A i \in 1..Len(p) : r[i] = q[i]
    BY <2>1, PrefixIs
  <2>3. r \in Seq({1, 2})
    BY <2>2, PositionIsSeq
  <2> HIDE DEF r
  <2>4. (\A i \in 1..Len(p) : p[i] = q[i]) => r = p
    BY <1>1, <2>2, <2>3, SamePosition
  <2>5. r = p => \A i \in 1..Len(p) : p[i] = q[i]
    BY <2>2
  <2> QED
    BY <2>4, <2>5 DEF r
<1>3. Under(p, q) <=> Len(p) <= Len(q) /\ \A i \in 1..Len(p) : p[i] = q[i]
  BY <1>2 DEF Under
<1>4. Under(p, p)
  BY <1>1, PrefixOf DEF Under
<1>5. Under(<<>>, p)
  BY <1>1, RootIsPosition, PrefixOf DEF Under
<1>6. Under(p, q) /\ Len(p) = Len(q) => p = q
  BY <1>1, <1>3, SamePosition
<1>7. Under(p, <<>>) => p = <<>>
  <2>1. Under(p, <<>>) => Len(p) = 0
    BY <1>1, RootIsPosition DEF Under
  <2> QED
    BY <2>1, OnlyRoot
<1> QED
  BY <1>3, <1>4, <1>5, <1>6, <1>7

\* To be under is an order, and what is above one position is in a line.
LEMMA UnderOrder ==
    ASSUME NEW p \in Positions, NEW q \in Positions, NEW r \in Positions
    PROVE  /\ Under(p, q) /\ Under(q, r) => Under(p, r)
           /\ Under(p, r) /\ Under(q, r) => Under(p, q) \/ Under(q, p)
           /\ Under(p, r) /\ Under(q, r) /\ Len(p) <= Len(q) => Under(p, q)
           /\ Above(p, q) => Len(p) < Len(q)
           /\ Above(p, q) /\ Under(q, r) => Above(p, r)
           /\ Under(p, q) /\ Above(q, r) => Above(p, r)
<1>1. Len(p) \in Nat /\ Len(q) \in Nat /\ Len(r) \in Nat
  BY PositionIsSeq
<1>2. /\ Under(p, q) <=> Len(p) <= Len(q) /\ \A i \in 1..Len(p) : p[i] = q[i]
      /\ Under(q, p) <=> Len(q) <= Len(p) /\ \A i \in 1..Len(q) : q[i] = p[i]
      /\ Under(q, r) <=> Len(q) <= Len(r) /\ \A i \in 1..Len(q) : q[i] = r[i]
      /\ Under(p, r) <=> Len(p) <= Len(r) /\ \A i \in 1..Len(p) : p[i] = r[i]
  BY UnderIs
<1>3. Under(p, q) /\ Under(q, r) => Under(p, r)
  BY <1>1, <1>2
<1>4. Under(p, r) /\ Under(q, r) /\ Len(p) <= Len(q) => Under(p, q)
  BY <1>1, <1>2
<1>5. Under(p, r) /\ Under(q, r) /\ Len(q) <= Len(p) => Under(q, p)
  BY <1>1, <1>2
<1>6. Above(p, q) => Len(p) < Len(q)
  <2>1. Under(p, q) /\ Len(p) = Len(q) => p = q
    BY UnderIs
  <2> QED
    BY <1>1, <1>2, <2>1 DEF Above
<1>7. Above(p, q) /\ Under(q, r) => Above(p, r)
  <2>1. Under(q, r) => Len(q) <= Len(r)
    BY <1>2
  <2>2. Above(p, q) /\ Under(q, r) => p # r
    BY <1>1, <1>6, <2>1
  <2> QED
    BY <1>3, <2>2 DEF Above
<1>8. Under(p, q) /\ Above(q, r) => Above(p, r)
  <2>1. Under(p, q) => Len(p) <= Len(q)
    BY <1>2
  <2>2. Above(q, r) => Len(q) < Len(r)
    <3>1. Under(q, r) /\ Len(q) = Len(r) => q = r
      BY UnderIs
    <3> QED
      BY <1>1, <1>2, <3>1 DEF Above
  <2>3. Under(p, q) /\ Above(q, r) => p # r
    BY <1>1, <2>1, <2>2
  <2> QED
    BY <1>3, <2>3 DEF Above
<1> QED
  BY <1>1, <1>3, <1>4, <1>5, <1>6, <1>7, <1>8

\* A child, what is above it, and what is below its parent.
LEMMA KidUnder ==
    ASSUME NEW p \in Positions, NEW i \in 1..2, Append(p, i) \in Positions
    PROVE  /\ Above(p, Append(p, i))
           /\ \A q \in Positions : Under(q, Append(p, i)) <=> q = Append(p, i) \/ Under(q, p)
           /\ \A q \in Positions : Above(q, Append(p, i)) <=> Under(q, p)
<1> DEFINE x == Append(p, i)
<1>1. x \in Positions /\ Len(p) \in Nat /\ Len(x) = Len(p) + 1 /\ x # p
      /\ \A j \in 1..Len(p) : x[j] = p[j]
  BY Kid, PositionIsSeq
<1> HIDE DEF x
<1>2. Above(p, x)
  <2>1. Under(p, x)
    BY <1>1, UnderIs
  <2> QED
    BY <1>1, <2>1 DEF Above
<1>3. ASSUME NEW q \in Positions PROVE Under(q, x) <=> q = x \/ Under(q, p)
  <2>1. Len(q) \in Nat
    BY PositionIsSeq
  <2>2. Under(q, p) => Under(q, x)
    BY <1>1, <1>2, UnderOrder DEF Above
  <2>3. Under(q, x) => Len(q) <= Len(x)
    BY <1>1, UnderIs
  <2>4. Under(q, x) /\ Len(q) = Len(x) => q = x
    BY <1>1, UnderIs
  <2>5. Under(q, x) /\ Len(q) <= Len(p) => Under(q, p)
    BY <1>1, <1>2, UnderOrder DEF Above
  <2>6. q = x => Under(q, x)
    BY <1>1, UnderIs
  <2> QED
    BY <1>1, <2>1, <2>2, <2>3, <2>4, <2>5, <2>6
<1>4. ASSUME NEW q \in Positions PROVE Above(q, x) <=> Under(q, p)
  <2>1. Under(q, p) => q # x
    <3>1. Under(q, p) => Len(q) <= Len(p)
      BY UnderIs
    <3> QED
      BY <1>1, <3>1, PositionIsSeq
  <2> QED
    BY <1>3, <2>1 DEF Above
<1> QED
  BY <1>2, <1>3, <1>4 DEF x

\* What is below a node is one of its children, or below one.
LEMMA BelowKid ==
    ASSUME NEW p \in Positions, NEW q \in Positions, Above(p, q)
    PROVE  \E i \in 1..2 : /\ Append(p, i) \in Positions /\ Under(Append(p, i), q)
                           /\ Append(p, i) = Prefix(q, Len(p) + 1)
<1>1. Len(p) \in Nat /\ Len(q) \in Nat /\ Len(p) < Len(q)
  BY UnderOrder, PositionIsSeq
<1>2. Prefix(q, Len(p)) = p
  BY DEF Above, Under
<1>3. Len(p) \in 0..Len(q) /\ Len(p) + 1 \in 0..Len(q)
  BY <1>1
<1>4. q[Len(p) + 1] \in 1..2 /\ Prefix(q, Len(p) + 1) = Append(p, q[Len(p) + 1])
  BY <1>1, <1>2, <1>3, PrefixOf
<1>5. Prefix(q, Len(p) + 1) \in Positions /\ Len(Prefix(q, Len(p) + 1)) = Len(p) + 1
  BY <1>3, PrefixIs
<1>6. Under(Prefix(q, Len(p) + 1), q)
  BY <1>1, <1>5 DEF Under
<1> QED
  BY <1>4, <1>5, <1>6

\* The positions on the way of a key.
LEMMA OnUnder ==
    ASSUME NEW k \in Keys, NEW p \in Positions, NEW q \in Positions
    PROVE  /\ On(k, q) /\ Under(p, q) => On(k, p)
           /\ On(k, p) /\ On(k, q) /\ Len(p) <= Len(q) => Under(p, q)
           /\ On(k, p) /\ On(k, q) /\ Len(p) = Len(q) => p = q
<1>1. Len(p) \in 0..Bits /\ Len(q) \in 0..Bits /\ Len(p) \in Nat /\ Len(q) \in Nat
  BY PositionIsSeq, PathsDiffer
<1>2. ASSUME Len(p) <= Len(q) PROVE Prefix(At(k, Len(q)), Len(p)) = At(k, Len(p))
  <2>1. Len(p) \in 0..Len(q)
    BY <1>1, <1>2
  <2> QED
    BY <1>1, <2>1, AtIs
<1>3. On(k, q) /\ Under(p, q) => On(k, p)
  BY <1>2 DEF On, Under
<1>4. On(k, p) /\ On(k, q) /\ Len(p) <= Len(q) => Under(p, q)
  BY <1>2 DEF On, Under
<1>5. On(k, p) /\ On(k, q) /\ Len(p) = Len(q) => p = q
  BY DEF On
<1> QED
  BY <1>3, <1>4, <1>5

-----------------------------------------------------------------------------
(* Nodes, and what a manipulator does to one.                              *)

IsNode(n) == n = [known |-> n.known, key |-> n.key, val |-> n.val, array |-> n.array,
                  label |-> n.label, inc |-> n.inc, bak |-> n.bak]

\* m is n with other values of some fields.
Like(m, n, key, val, array, label, inc, bak) ==
    /\ IsNode(m) /\ m.known = n.known
    /\ m.key = key /\ m.val = val /\ m.array = array /\ m.label = label
    /\ m.inc = inc /\ m.bak = bak

\* A node is like itself.
LEMMA LikeItself ==
    ASSUME NEW n, IsNode(n)
    PROVE  Like(n, n, n.key, n.val, n.array, n.label, n.inc, n.bak)
BY DEF Like

\* A node with another value in one field.
LEMMA WithIs ==
    ASSUME NEW n, IsNode(n), NEW x
    PROVE  /\ Like([n EXCEPT !.key = x], n, x, n.val, n.array, n.label, n.inc, n.bak)
           /\ Like([n EXCEPT !.val = x], n, n.key, x, n.array, n.label, n.inc, n.bak)
           /\ Like([n EXCEPT !.array = x], n, n.key, n.val, x, n.label, n.inc, n.bak)
           /\ Like([n EXCEPT !.label = x], n, n.key, n.val, n.array, x, n.inc, n.bak)
           /\ Like([n EXCEPT !.inc = x], n, n.key, n.val, n.array, n.label, x, n.bak)
           /\ Like([n EXCEPT !.bak = x], n, n.key, n.val, n.array, n.label, n.inc, x)
<1>1. Like([n EXCEPT !.key = x], n, x, n.val, n.array, n.label, n.inc, n.bak)
  BY DEF IsNode, Like
<1>2. Like([n EXCEPT !.val = x], n, n.key, x, n.array, n.label, n.inc, n.bak)
  BY DEF IsNode, Like
<1>3. Like([n EXCEPT !.array = x], n, n.key, n.val, x, n.label, n.inc, n.bak)
  BY DEF IsNode, Like
<1>4. Like([n EXCEPT !.label = x], n, n.key, n.val, n.array, x, n.inc, n.bak)
  BY DEF IsNode, Like
<1>5. Like([n EXCEPT !.inc = x], n, n.key, n.val, n.array, n.label, x, n.bak)
  BY DEF IsNode, Like
<1>6. Like([n EXCEPT !.bak = x], n, n.key, n.val, n.array, n.label, n.inc, x)
  BY DEF IsNode, Like
<1> QED
  BY <1>1, <1>2, <1>3, <1>4, <1>5, <1>6

Saved(t, p) == [Subtree(t, p) EXCEPT ![p].array = None]

\* The backup of the node at p after a change of it.
KeptBackup(t, p, tx) == IF tx /\ t[p].bak = NoTree THEN Saved(t, p) ELSE t[p].bak

\* NoTree has no node.
LEMMA NoTreeIsEmpty == DOMAIN NoTree = {}
BY DEF NoTree

\* What a backup has.
LEMMA SavedIs ==
    ASSUME NEW t, DOMAIN t \subseteq Positions, NEW p \in DOMAIN t, IsNode(t[p])
    PROVE  /\ DOMAIN Saved(t, p) = {q \in DOMAIN t : Under(p, q)}
           /\ p \in DOMAIN Saved(t, p) /\ Saved(t, p) # NoTree
           /\ \A q \in DOMAIN Saved(t, p) : q # p => Saved(t, p)[q] = t[q]
           /\ Like(Saved(t, p)[p], t[p], t[p].key, t[p].val, None, t[p].label, t[p].inc, t[p].bak)
<1> DEFINE s == Subtree(t, p)
<1>1. Under(p, p)
  BY UnderIs
<1>2. DOMAIN s = {q \in DOMAIN t : Under(p, q)} /\ p \in DOMAIN s /\ \A q \in DOMAIN s : s[q] = t[q]
  BY <1>1 DEF Subtree
<1> HIDE DEF s
<1> DEFINE r == [s EXCEPT ![p].array = None]
<1>3. DOMAIN r = DOMAIN s /\ r[p] = [s[p] EXCEPT !.array = None]
  BY <1>2
<1>4. \A q \in DOMAIN s : q # p => r[q] = s[q]
  OBVIOUS
<1>5. r # NoTree
  BY <1>2, <1>3, NoTreeIsEmpty
<1> HIDE DEF r
<1>6. r = Saved(t, p)
  BY DEF r, s, Saved
<1>7. IsNode(s[p]) /\ s[p] = t[p]
  BY <1>2
<1> DEFINE n == s[p]
<1> HIDE DEF n
<1>8. Like([n EXCEPT !.array = None], n, n.key, n.val, None, n.label, n.inc, n.bak)
  BY <1>7 DEF IsNode, Like, n
<1> QED
  BY <1>2, <1>3, <1>4, <1>5, <1>6, <1>7, <1>8 DEF n

\* A node after Backup has its backup, and nothing else is new.
LEMMA BackupIs ==
    ASSUME NEW t, NEW p, NEW tx, IsNode(t[p])
    PROVE  LET n == t[p] IN
           Like(Backup(t, p, tx), n, n.key, n.val, n.array, n.label, n.inc, KeptBackup(t, p, tx))
<1> DEFINE n == t[p]
           b == Saved(t, p)
           m == [n EXCEPT !.bak = b]
<1> HIDE DEF n, b
<1>1. IsNode(n)
  BY DEF n
<1>2. Like(m, n, n.key, n.val, n.array, n.label, n.inc, b)
  BY <1>1 DEF IsNode, Like
<1>3. Like(n, n, n.key, n.val, n.array, n.label, n.inc, n.bak)
  BY <1>1 DEF Like
<1>4. Backup(t, p, tx) = IF tx /\ n.bak = NoTree THEN m ELSE n
  BY DEF Backup, n, b, Saved
<1>5. KeptBackup(t, p, tx) = IF tx /\ n.bak = NoTree THEN b ELSE n.bak
  BY DEF KeptBackup, n, b
<1> HIDE DEF m
<1> QED
  BY <1>2, <1>3, <1>4, <1>5 DEF n

\* Trees that differ at p only.
DiffersAt(s, t, p) == DOMAIN s = DOMAIN t /\ \A q \in DOMAIN t : q # p => s[q] = t[q]

\* Fill changes one node.
LEMMA FillIs ==
    ASSUME NEW t, NEW p \in DOMAIN t, IsNode(t[p]), NEW tx, NEW key, NEW val
    PROVE  LET s == Fill(t, p, key, val, tx) IN
           /\ DiffersAt(s, t, p)
           /\ Like(s[p], t[p], key, val, None, LeafLabel(key, val), t[p].inc, KeptBackup(t, p, tx))
<1> DEFINE b == Backup(t, p, tx)
           n == t[p]
           l == LeafLabel(key, val)
           m1 == [b EXCEPT !.key = key]
           m2 == [m1 EXCEPT !.val = val]
           m3 == [m2 EXCEPT !.array = None]
           m4 == [m3 EXCEPT !.label = l]
           m == [b EXCEPT !.key = key, !.val = val, !.array = None, !.label = l]
           s == [t EXCEPT ![p] = m]
<1>1. Like(b, n, n.key, n.val, n.array, n.label, n.inc, KeptBackup(t, p, tx))
  BY BackupIs
<1> HIDE DEF b, n
<1>2. Like(m, n, key, val, None, l, n.inc, KeptBackup(t, p, tx))
  <2> HIDE DEF l
  <2>0. m = m4
    OBVIOUS
  <2>1. IsNode(b)
    BY <1>1 DEF Like
  <2>2. Like(m1, b, key, b.val, b.array, b.label, b.inc, b.bak)
    BY <2>1, WithIs
  <2> HIDE DEF m1
  <2>3. IsNode(m1)
    BY <2>2 DEF Like
  <2>4. Like(m2, m1, m1.key, val, m1.array, m1.label, m1.inc, m1.bak)
    BY <2>3, WithIs
  <2> HIDE DEF m2
  <2>5. IsNode(m2)
    BY <2>4 DEF Like
  <2>6. Like(m3, m2, m2.key, m2.val, None, m2.label, m2.inc, m2.bak)
    BY <2>5, WithIs
  <2> HIDE DEF m3
  <2>7. IsNode(m3)
    BY <2>6 DEF Like
  <2>8. Like(m4, m3, m3.key, m3.val, m3.array, l, m3.inc, m3.bak)
    BY <2>7, WithIs
  <2> HIDE DEF m4, m
  <2> QED
    BY <1>1, <2>0, <2>2, <2>4, <2>6, <2>8 DEF Like
<1> HIDE DEF m
<1>3. DOMAIN s = DOMAIN t /\ s[p] = m
  OBVIOUS
<1>4. \A q \in DOMAIN t : q # p => s[q] = t[q]
  OBVIOUS
<1>5. s = Fill(t, p, key, val, tx)
  BY DEF Fill, m, b
<1> HIDE DEF s
<1> QED
  BY <1>2, <1>3, <1>4, <1>5 DEF n, DiffersAt

\* The two halves of SetAt.
Assigned(t, p, k, v, tx) ==
    [t EXCEPT ![p] = [Backup(t, p, tx) EXCEPT !.val = v, !.label = LeafLabel(k, v)]]

WrittenThrough(t, array, s, v) ==
    [q \in DOMAIN t |->
        IF array # None /\ t[q].array = array THEN [s[q] EXCEPT !.val = v] ELSE s[q]]

\* Set changes the leaf itself.
LEMMA AssignedIs ==
    ASSUME NEW t, NEW p \in DOMAIN t, IsNode(t[p]), NEW tx, NEW k, NEW v
    PROVE  LET s == Assigned(t, p, k, v, tx) IN
           /\ DiffersAt(s, t, p)
           /\ Like(s[p], t[p], t[p].key, v, t[p].array, LeafLabel(k, v), t[p].inc,
                   KeptBackup(t, p, tx))
<1> DEFINE b == Backup(t, p, tx)
           n == t[p]
           l == LeafLabel(k, v)
           m1 == [b EXCEPT !.val = v]
           m2 == [m1 EXCEPT !.label = l]
           m == [b EXCEPT !.val = v, !.label = l]
           s == [t EXCEPT ![p] = m]
<1>1. Like(b, n, n.key, n.val, n.array, n.label, n.inc, KeptBackup(t, p, tx))
  BY BackupIs
<1> HIDE DEF b, n
<1>2. Like(m, n, n.key, v, n.array, l, n.inc, KeptBackup(t, p, tx))
  <2> HIDE DEF l
  <2>0. m = m2
    OBVIOUS
  <2>1. IsNode(b)
    BY <1>1 DEF Like
  <2>2. Like(m1, b, b.key, v, b.array, b.label, b.inc, b.bak)
    BY <2>1, WithIs
  <2> HIDE DEF m1
  <2>3. IsNode(m1)
    BY <2>2 DEF Like
  <2>4. Like(m2, m1, m1.key, m1.val, m1.array, l, m1.inc, m1.bak)
    BY <2>3, WithIs
  <2> HIDE DEF m2, m
  <2> QED
    BY <1>1, <2>0, <2>2, <2>4 DEF Like
<1> HIDE DEF m
<1>3. DOMAIN s = DOMAIN t /\ s[p] = m
  OBVIOUS
<1>4. \A q \in DOMAIN t : q # p => s[q] = t[q]
  OBVIOUS
<1>5. s = Assigned(t, p, k, v, tx)
  BY DEF Assigned, m, b
<1> HIDE DEF s
<1> QED
  BY <1>2, <1>3, <1>4, <1>5 DEF n, DiffersAt

\* A value that is written to an array changes no node but those that have it.
LEMMA WrittenIs ==
    ASSUME NEW t, NEW s, NEW array, NEW v, DOMAIN s = DOMAIN t, \A q \in DOMAIN s : IsNode(s[q])
    PROVE  LET r == WrittenThrough(t, array, s, v) IN
           /\ DOMAIN r = DOMAIN t
           /\ \A q \in DOMAIN t :
                IF array # None /\ t[q].array = array
                THEN Like(r[q], s[q], s[q].key, v, s[q].array, s[q].label, s[q].inc, s[q].bak)
                ELSE r[q] = s[q]
<1> DEFINE r == WrittenThrough(t, array, s, v)
<1>1. DOMAIN r = DOMAIN t
  BY DEF WrittenThrough
<1>2. ASSUME NEW q \in DOMAIN t, array # None /\ t[q].array = array
      PROVE  Like(r[q], s[q], s[q].key, v, s[q].array, s[q].label, s[q].inc, s[q].bak)
  <2> DEFINE n == s[q]
  <2> HIDE DEF n
  <2>1. IsNode(n)
    BY DEF n
  <2>2. Like([n EXCEPT !.val = v], n, n.key, v, n.array, n.label, n.inc, n.bak)
    BY <2>1 DEF IsNode, Like
  <2>3. r[q] = [n EXCEPT !.val = v]
    BY <1>2 DEF WrittenThrough, n
  <2> QED
    BY <2>2, <2>3 DEF n
<1>3. ASSUME NEW q \in DOMAIN t, ~(array # None /\ t[q].array = array) PROVE r[q] = s[q]
  BY <1>3 DEF WrittenThrough
<1> HIDE DEF r
<1> QED
  BY <1>1, <1>2, <1>3 DEF r

\* The two children of a position and the position differ.
LEMMA TwoKids ==
    ASSUME NEW p \in Positions
    PROVE  /\ Append(p, 1) # Append(p, 2) /\ Append(p, 1) # p /\ Append(p, 2) # p
           /\ \A i \in 1..2 : Append(p, i) # p /\ (i = 1 \/ i = 2)
<1>1. Append(p, 1)[Len(p) + 1] = 1 /\ Append(p, 2)[Len(p) + 1] = 2
  BY Kid
<1>2. \A i \in 1..2 : Append(p, i) # p
  BY Kid
<1> QED
  BY <1>1, <1>2

\* s is t, with the leaf at p moved to its child i.
Splits(s, t, p, i, tx) ==
    /\ DOMAIN s = DOMAIN t \cup {Append(p, 1), Append(p, 2)}
    /\ \A q \in DOMAIN t : q # p => s[q] = t[q]
    /\ Like(s[p], t[p], None, t[p].val, t[p].array, t[p].label, t[p].inc, KeptBackup(t, p, tx))
    /\ s[Append(p, i)] = NewLeaf(t[p].key, t[p].val, t[p].array, t[p].label)
    /\ \A j \in 1..2 : j # i => s[Append(p, j)] = NewPlaceholder

\* What Split does, node by node.
LEMMA SplitIs ==
    ASSUME NEW t, NEW p \in DOMAIN t, p \in Positions, IsNode(t[p]), NEW tx,
           Append(p, 1) \notin DOMAIN t, Append(p, 2) \notin DOMAIN t,
           NEW i \in 1..2, Path[t[p].key][Len(p) + 1] = i,
           NEW s, s = Split(t, p, tx)
    PROVE  Splits(s, t, p, i, tx)
<1> DEFINE b == Backup(t, p, tx)
           n == t[p]
           m == [b EXCEPT !.key = None]
           old == DOMAIN t
           kids == {Append(p, 1), Append(p, 2)}
           leaf == NewLeaf(n.key, n.val, n.array, n.label)
<1>1. Like(m, n, None, n.val, n.array, n.label, n.inc, KeptBackup(t, p, tx))
  <2>1. Like(b, n, n.key, n.val, n.array, n.label, n.inc, KeptBackup(t, p, tx))
    BY BackupIs
  <2> HIDE DEF b, n
  <2>2. IsNode(b)
    BY <2>1 DEF Like
  <2>3. Like(m, b, None, b.val, b.array, b.label, b.inc, b.bak)
    BY <2>2, WithIs
  <2> QED
    BY <2>1, <2>3 DEF Like
<1>2. s = [q \in old \cup kids |->
            IF q = p THEN m
            ELSE IF q = Append(p, i) THEN leaf
            ELSE IF q \in old THEN t[q] ELSE NewPlaceholder]
  BY DEF Split
<1>3. Append(p, 1) # Append(p, 2) /\ \A j \in 1..2 : Append(p, j) # p /\ (j = 1 \/ j = 2)
  BY TwoKids
<1>4. \A j \in 1..2 : Append(p, j) \in kids /\ Append(p, j) \notin old
  BY <1>3
<1> HIDE DEF m, leaf, n
<1>5. DOMAIN s = old \cup kids
  BY <1>2
<1>6. s[p] = m
  BY <1>2
<1>7. ASSUME NEW q \in old, q # p PROVE s[q] = t[q]
  <2>1. q # Append(p, i)
    BY <1>4
  <2> QED
    BY <1>2, <1>7, <2>1
<1>8. ASSUME NEW j \in 1..2
      PROVE  s[Append(p, j)] = IF j = i THEN leaf ELSE NewPlaceholder
  <2>1. j # i => Append(p, j) # Append(p, i)
    BY <1>3
  <2>2. Append(p, j) \in old \cup kids /\ Append(p, j) # p /\ Append(p, j) \notin old
    BY <1>3, <1>4
  <2> QED
    BY <1>2, <2>1, <2>2
<1> QED
  BY <1>1, <1>5, <1>6, <1>7, <1>8 DEF leaf, n, Splits

\* s is t, with the leaf at p that takes the place of its parent when the
\* other child, i, is a placeholder.
Collapses(s, t, p, i, tx) ==
    LET kept == t[Append(p, 3 - i)] IN
    /\ DOMAIN s = DOMAIN t \ {Append(p, 1), Append(p, 2)} /\ p \in DOMAIN s
    /\ \A q \in DOMAIN s : q # p => s[q] = t[q]
    /\ IsPlaceholder(t, Append(p, i)) /\ IsLeaf(t, Append(p, 3 - i))
    /\ Like(s[p], t[p], kept.key, kept.val, kept.array, kept.label, t[p].inc,
            KeptBackup(t, p, tx))

\* What Collapse does, node by node.
LEMMA CollapseIs ==
    ASSUME NEW t, NEW p \in DOMAIN t, p \in Positions, IsNode(t[p]), NEW tx, OnlyChild(t, p)
    PROVE  \E i \in 1..2 : Collapses(Collapse(t, p, tx), t, p, i, tx)
<1> DEFINE b == Backup(t, p, tx)
           n == t[p]
           i == IF IsPlaceholder(t, Append(p, 1)) THEN 1 ELSE 2
           kept == t[Append(p, 3 - i)]
           key == kept.key
           val == kept.val
           array == kept.array
           label == kept.label
           m == [b EXCEPT !.key = key, !.val = val, !.array = array, !.label = label]
           s == Collapse(t, p, tx)
           kids == {Append(p, 1), Append(p, 2)}
<1>1. i \in 1..2 /\ IsPlaceholder(t, Append(p, i)) /\ IsLeaf(t, Append(p, 3 - i))
  <2>1. PICK j \in 1..2 : IsPlaceholder(t, Append(p, j)) /\ IsLeaf(t, Append(p, 3 - j))
    BY DEF OnlyChild
  <2>2. CASE j = 1
    BY <2>1, <2>2
  <2>3. CASE j = 2
    <3>1. 3 - j = 1 /\ 3 - 1 = 2
      BY <2>3
    <3>2. CASE IsPlaceholder(t, Append(p, 1))
      BY <2>1, <2>3, <3>1, <3>2 DEF IsPlaceholder
    <3>3. CASE ~IsPlaceholder(t, Append(p, 1))
      BY <2>1, <2>3, <3>1, <3>3
    <3> QED
      BY <3>2, <3>3
  <2> QED
    BY <2>2, <2>3
<1>2. kept = t[Append(p, IF IsPlaceholder(t, Append(p, 1)) THEN 2 ELSE 1)]
  OBVIOUS
<1>3. s = [q \in DOMAIN t \ kids |-> IF q = p THEN m ELSE t[q]]
  <2> HIDE DEF kept
  <2> QED
    BY <1>2 DEF Collapse
<1> HIDE DEF i, kept
<1>4. Like(m, n, key, val, array, label, n.inc, KeptBackup(t, p, tx))
  <2> DEFINE m1 == [b EXCEPT !.key = key]
             m2 == [m1 EXCEPT !.val = val]
             m3 == [m2 EXCEPT !.array = array]
             m4 == [m3 EXCEPT !.label = label]
  <2>1. Like(b, n, n.key, n.val, n.array, n.label, n.inc, KeptBackup(t, p, tx))
    BY BackupIs
  <2> HIDE DEF b, n, key, val, array, label
  <2>0. m = m4
    OBVIOUS
  <2>2. IsNode(b)
    BY <2>1 DEF Like
  <2>3. Like(m1, b, key, b.val, b.array, b.label, b.inc, b.bak)
    BY <2>2, WithIs
  <2> HIDE DEF m1
  <2>4. IsNode(m1)
    BY <2>3 DEF Like
  <2>5. Like(m2, m1, m1.key, val, m1.array, m1.label, m1.inc, m1.bak)
    BY <2>4, WithIs
  <2> HIDE DEF m2
  <2>6. IsNode(m2)
    BY <2>5 DEF Like
  <2>7. Like(m3, m2, m2.key, m2.val, array, m2.label, m2.inc, m2.bak)
    BY <2>6, WithIs
  <2> HIDE DEF m3
  <2>8. IsNode(m3)
    BY <2>7 DEF Like
  <2>9. Like(m4, m3, m3.key, m3.val, m3.array, label, m3.inc, m3.bak)
    BY <2>8, WithIs
  <2> HIDE DEF m4, m
  <2> QED
    BY <2>0, <2>1, <2>3, <2>5, <2>7, <2>9 DEF Like
<1>5. Append(p, 1) # p /\ Append(p, 2) # p
  BY TwoKids
<1> HIDE DEF m, s
<1>6. DOMAIN s = DOMAIN t \ kids /\ p \in DOMAIN s
  BY <1>3, <1>5
<1>7. s[p] = m
  BY <1>3, <1>6
<1>8. \A q \in DOMAIN s : q # p => s[q] = t[q]
  BY <1>3, <1>6
<1> QED
  BY <1>1, <1>4, <1>6, <1>7, <1>8 DEF s, kept, Collapses

\* The update of a node whose children are known.
LEMMA UpdateIs ==
    ASSUME NEW t, NEW p, ~IsLeaf(t, p), \A i \in 1..2 : t[Append(p, i)].known = TRUE,
           IsNode(t[p]), t[p].known = TRUE
    PROVE  LET n == t[p]
               l == t[Append(p, 1)]
               r == t[Append(p, 2)]
               sum == Parent(l.val, r.val)
           IN  Like(Update(t, p), n, n.key, sum, None, NodeLabel(sum, l.label, r.label),
                    n.inc, n.bak)
<1> DEFINE n == t[p]
           l == t[Append(p, 1)]
           r == t[Append(p, 2)]
           sum == Parent(l.val, r.val)
           label == NodeLabel(sum, l.label, r.label)
           m1 == [n EXCEPT !.val = sum]
           m2 == [m1 EXCEPT !.array = None]
           m3 == [m2 EXCEPT !.label = label]
<1>1. Update(t, p) = m3
  <2>1. 1 \in 1..2 /\ 2 \in 1..2
    OBVIOUS
  <2>2. l.known = TRUE /\ r.known = TRUE /\ n.known = TRUE
    BY <2>1
  <2> HIDE DEF m3
  <2>3. Update(t, p) = [n EXCEPT !.val = sum, !.array = None, !.label = label]
    <3> HIDE DEF sum, label
    <3> QED
      BY <2>2 DEF Update, sum, label
  <2>4. [n EXCEPT !.val = sum, !.array = None, !.label = label] = m3
    <3> HIDE DEF sum, label, n
    <3> QED
      BY DEF m3
  <2> QED
    BY <2>3, <2>4
<1>2. Like(m3, n, n.key, sum, None, label, n.inc, n.bak)
  <2>1. IsNode(n)
    OBVIOUS
  <2> HIDE DEF n, sum, label
  <2>2. Like(m1, n, n.key, sum, n.array, n.label, n.inc, n.bak)
    BY <2>1, WithIs
  <2> HIDE DEF m1
  <2>3. IsNode(m1)
    BY <2>2 DEF Like
  <2>4. Like(m2, m1, m1.key, m1.val, None, m1.label, m1.inc, m1.bak)
    BY <2>3, WithIs
  <2> HIDE DEF m2
  <2>5. IsNode(m2)
    BY <2>4 DEF Like
  <2>6. Like(m3, m2, m2.key, m2.val, m2.array, label, m2.inc, m2.bak)
    BY <2>5, WithIs
  <2> HIDE DEF m3
  <2> QED
    BY <2>2, <2>4, <2>6 DEF Like
<1> HIDE DEF m3
<1> QED
  BY <1>1, <1>2

\* Ascend changes one node.
LEMMA AscendIs ==
    ASSUME NEW t, NEW p \in DOMAIN t, NEW tx, ~IsLeaf(t, p), \A i \in 1..2 : t[Append(p, i)].known = TRUE,
           IsNode(t[p]), t[p].known = TRUE
    PROVE  LET s == Ascend(t, p, tx)
               n == t[p]
               l == t[Append(p, 1)]
               r == t[Append(p, 2)]
               sum == Parent(l.val, r.val)
           IN  /\ DiffersAt(s, t, p)
               /\ IF tx THEN Like(s[p], n, n.key, n.val, n.array, n.label, TRUE, n.bak)
                        ELSE Like(s[p], n, n.key, sum, None, NodeLabel(sum, l.label, r.label),
                                  n.inc, n.bak)
<1> DEFINE s == Ascend(t, p, tx)
           n == t[p]
           l == t[Append(p, 1)]
           r == t[Append(p, 2)]
           sum == Parent(l.val, r.val)
           label == NodeLabel(sum, l.label, r.label)
           up == Update(t, p)
           inc == [n EXCEPT !.inc = TRUE]
           m == IF tx THEN inc ELSE up
<1>1. Like(up, n, n.key, sum, None, label, n.inc, n.bak)
  BY UpdateIs
<1>2. Like(inc, n, n.key, n.val, n.array, n.label, TRUE, n.bak)
  BY WithIs
<1>3. s = [t EXCEPT ![p] = m]
  BY DEF Ascend
<1> HIDE DEF s, m
<1>4. DOMAIN s = DOMAIN t /\ s[p] = m
  BY <1>3
<1>5. \A q \in DOMAIN t : q # p => s[q] = t[q]
  BY <1>3
<1> HIDE DEF up, inc, n, sum, label
<1>6. IF tx THEN Like(m, n, n.key, n.val, n.array, n.label, TRUE, n.bak)
            ELSE Like(m, n, n.key, sum, None, label, n.inc, n.bak)
  BY <1>1, <1>2 DEF m
<1> QED
  BY <1>4, <1>5, <1>6 DEF s, n, sum, label, DiffersAt

\* The walks up and down are repetitions of a step.
LEMMA AscendedIs ==
    ASSUME NEW t, NEW p \in Positions, NEW tx
    PROVE  \E up : /\ up[0] = t /\ Ascended(t, p, tx) = up[Len(p)]
                  /\ \A i \in 1..Len(p) : up[i] = Ascend(up[i - 1], Prefix(p, Len(p) - i), tx)
<1> DEFINE N == Len(p)
           Step(x, i) == Ascend(x, Prefix(p, Len(p) - i), tx)
           Is(f, n) == f = [i \in 0..n |-> IF i = 0 THEN t ELSE Step(f[i - 1], i)]
           S == {n \in 0..N : \E f : Is(f, n)}
<1>1. N \in Nat
  BY PositionIsSeq DEF N
<1> HIDE DEF Step, N
<1>2. 0 \in S
  <2> DEFINE f == [i \in 0..0 |-> t]
  <2>1. Is(f, 0) /\ 0 \in 0..N
    BY <1>1
  <2> QED
    BY <2>1
<1>3. ASSUME NEW n \in 0..N, n < N, n \in S PROVE n + 1 \in S
  <2>1. PICK f : Is(f, n)
    BY <1>3
  <2> DEFINE g == [i \in 0..(n + 1) |-> IF i = n + 1 THEN Step(f[n], n + 1) ELSE f[i]]
  <2>2. n + 1 \in 0..N /\ n \in Nat /\ \A i \in 0..(n + 1) : i # n + 1 => i \in 0..n
    BY <1>1, <1>3
  <2>3. \A i \in 0..n : i # 0 => g[i] = f[i] /\ g[i - 1] = f[i - 1]
    BY <2>2
  <2>4. g[n] = f[n] /\ g[0] = f[0] /\ f[0] = t
    BY <2>1, <2>2
  <2>5. ASSUME NEW i \in 0..(n + 1)
        PROVE  g[i] = IF i = 0 THEN t ELSE Step(g[i - 1], i)
    <3>1. CASE i = 0
      BY <2>4, <3>1
    <3>2. CASE i = n + 1
      BY <2>2, <2>4, <3>2
    <3>3. CASE i # 0 /\ i # n + 1
      <4>1. i \in 0..n /\ f[i] = Step(f[i - 1], i)
        BY <2>1, <2>2, <3>3
      <4> QED
        BY <2>3, <3>3, <4>1
    <3> QED
      BY <3>1, <3>2, <3>3
  <2>6. Is(g, n + 1)
    BY <2>5
  <2> HIDE DEF Is
  <2> QED
    BY <2>2, <2>6
<1>4. \A n \in 0..N : n \in S
  <2> HIDE DEF S
  <2> QED
    BY <1>1, <1>2, <1>3, UpTo
<1> DEFINE up == CHOOSE f : Is(f, N)
<1>5. Is(up, N)
  <2>1. N \in S
    BY <1>1, <1>4
  <2> HIDE DEF Is
  <2> QED
    BY <2>1
<1>6. up[0] = t /\ \A i \in 1..N : up[i] = Step(up[i - 1], i)
  <2> HIDE DEF up
  <2> QED
    BY <1>1, <1>5
<1>7. Ascended(t, p, tx) = up[N]
  BY DEF Ascended, Step, N
<1> HIDE DEF up
<1> QED
  BY <1>6, <1>7 DEF Step, N

\* The splits that make room for a key.
LEMMA RoomIs ==
    ASSUME NEW t, NEW k, NEW tx
    PROVE  \E room : /\ room[0] = t /\ Room(t, k, tx) = room[Bits]
                    /\ \A i \in 1..Bits :
                         room[i] = IF IsPlaceholder(room[i - 1], Leaf(room[i - 1], k)) THEN room[i - 1]
                                   ELSE Split(room[i - 1], Leaf(room[i - 1], k), tx)
<1> DEFINE N == Bits
           Step(x, i) == IF IsPlaceholder(x, Leaf(x, k)) THEN x ELSE Split(x, Leaf(x, k), tx)
           Is(f, n) == f = [i \in 0..n |-> IF i = 0 THEN t ELSE Step(f[i - 1], i)]
           S == {n \in 0..N : \E f : Is(f, n)}
<1>1. N \in Nat
  BY PathsDiffer DEF N
<1> HIDE DEF Step, N
<1>2. 0 \in S
  <2> DEFINE f == [i \in 0..0 |-> t]
  <2>1. Is(f, 0) /\ 0 \in 0..N
    BY <1>1
  <2> QED
    BY <2>1
<1>3. ASSUME NEW n \in 0..N, n < N, n \in S PROVE n + 1 \in S
  <2>1. PICK f : Is(f, n)
    BY <1>3
  <2> DEFINE g == [i \in 0..(n + 1) |-> IF i = n + 1 THEN Step(f[n], n + 1) ELSE f[i]]
  <2>2. n + 1 \in 0..N /\ n \in Nat /\ \A i \in 0..(n + 1) : i # n + 1 => i \in 0..n
    BY <1>1, <1>3
  <2>3. \A i \in 0..n : i # 0 => g[i] = f[i] /\ g[i - 1] = f[i - 1]
    BY <2>2
  <2>4. g[n] = f[n] /\ g[0] = f[0] /\ f[0] = t
    BY <2>1, <2>2
  <2>5. ASSUME NEW i \in 0..(n + 1)
        PROVE  g[i] = IF i = 0 THEN t ELSE Step(g[i - 1], i)
    <3>1. CASE i = 0
      BY <2>4, <3>1
    <3>2. CASE i = n + 1
      BY <2>2, <2>4, <3>2
    <3>3. CASE i # 0 /\ i # n + 1
      <4>1. i \in 0..n /\ f[i] = Step(f[i - 1], i)
        BY <2>1, <2>2, <3>3
      <4> QED
        BY <2>3, <3>3, <4>1
    <3> QED
      BY <3>1, <3>2, <3>3
  <2>6. Is(g, n + 1)
    BY <2>5
  <2> HIDE DEF Is
  <2> QED
    BY <2>2, <2>6
<1>4. \A n \in 0..N : n \in S
  <2> HIDE DEF S
  <2> QED
    BY <1>1, <1>2, <1>3, UpTo
<1> DEFINE up == CHOOSE f : Is(f, N)
<1>5. Is(up, N)
  <2>1. N \in S
    BY <1>1, <1>4
  <2> HIDE DEF Is
  <2> QED
    BY <2>1
<1>6. up[0] = t /\ \A i \in 1..N : up[i] = Step(up[i - 1], i)
  <2> HIDE DEF up
  <2> QED
    BY <1>1, <1>5
<1>7. Room(t, k, tx) = up[N]
  BY DEF Room, Step, N
<1> HIDE DEF up
<1> QED
  BY <1>6, <1>7 DEF Step, N

\* The walk up from a removed leaf.
LEMMA RemovedIs ==
    ASSUME NEW t, NEW k, NEW tx, Leaf(t, k) \in Positions
    PROVE  LET p == Leaf(t, k) IN
           \E up : /\ up[0] = Fill(t, p, None, 0, tx) /\ RemoveAt(t, k, tx) = up[Len(p)]
                  /\ \A i \in 1..Len(p) :
                       up[i] = AfterRemove(up[i - 1], Prefix(p, Len(p) - i), tx)
<1> DEFINE N == Len(Leaf(t, k))
           Step(x, i) == AfterRemove(x, Prefix(Leaf(t, k), Len(Leaf(t, k)) - i), tx)
           Is(f, n) == f = [i \in 0..n |-> IF i = 0 THEN Fill(t, Leaf(t, k), None, 0, tx) ELSE Step(f[i - 1], i)]
           S == {n \in 0..N : \E f : Is(f, n)}
<1>1. N \in Nat
  BY PositionIsSeq DEF N
<1> HIDE DEF Step, N
<1>2. 0 \in S
  <2> DEFINE f == [i \in 0..0 |-> Fill(t, Leaf(t, k), None, 0, tx)]
  <2>1. Is(f, 0) /\ 0 \in 0..N
    BY <1>1
  <2> QED
    BY <2>1
<1>3. ASSUME NEW n \in 0..N, n < N, n \in S PROVE n + 1 \in S
  <2>1. PICK f : Is(f, n)
    BY <1>3
  <2> DEFINE g == [i \in 0..(n + 1) |-> IF i = n + 1 THEN Step(f[n], n + 1) ELSE f[i]]
  <2>2. n + 1 \in 0..N /\ n \in Nat /\ \A i \in 0..(n + 1) : i # n + 1 => i \in 0..n
    BY <1>1, <1>3
  <2>3. \A i \in 0..n : i # 0 => g[i] = f[i] /\ g[i - 1] = f[i - 1]
    BY <2>2
  <2>4. g[n] = f[n] /\ g[0] = f[0] /\ f[0] = Fill(t, Leaf(t, k), None, 0, tx)
    BY <2>1, <2>2
  <2>5. ASSUME NEW i \in 0..(n + 1)
        PROVE  g[i] = IF i = 0 THEN Fill(t, Leaf(t, k), None, 0, tx) ELSE Step(g[i - 1], i)
    <3>1. CASE i = 0
      BY <2>4, <3>1
    <3>2. CASE i = n + 1
      BY <2>2, <2>4, <3>2
    <3>3. CASE i # 0 /\ i # n + 1
      <4>1. i \in 0..n /\ f[i] = Step(f[i - 1], i)
        BY <2>1, <2>2, <3>3
      <4> QED
        BY <2>3, <3>3, <4>1
    <3> QED
      BY <3>1, <3>2, <3>3
  <2>6. Is(g, n + 1)
    BY <2>5
  <2> HIDE DEF Is
  <2> QED
    BY <2>2, <2>6
<1>4. \A n \in 0..N : n \in S
  <2> HIDE DEF S
  <2> QED
    BY <1>1, <1>2, <1>3, UpTo
<1> DEFINE up == CHOOSE f : Is(f, N)
<1>5. Is(up, N)
  <2>1. N \in S
    BY <1>1, <1>4
  <2> HIDE DEF Is
  <2> QED
    BY <2>1
<1>6. up[0] = Fill(t, Leaf(t, k), None, 0, tx) /\ \A i \in 1..N : up[i] = Step(up[i - 1], i)
  <2> HIDE DEF up
  <2> QED
    BY <1>1, <1>5
<1>7. RemoveAt(t, k, tx) = up[N]
  BY DEF RemoveAt, Step, N
<1> HIDE DEF up
<1> QED
  BY <1>6, <1>7 DEF Step, N

\* The updates, one depth after the other.
LEMMA RelabelledIs ==
    ASSUME NEW t, NEW positions
    PROVE  \E up : /\ up[0] = t /\ Relabelled(t, positions) = up[Bits + 1]
                  /\ \A i \in 1..(Bits + 1) :
                       up[i] = [p \in DOMAIN t |->
                                    IF p \in positions /\ Len(p) = Bits + 1 - i
                                    THEN Update(up[i - 1], p) ELSE up[i - 1][p]]
<1> DEFINE N == Bits + 1
           Step(x, i) == [p \in DOMAIN t |-> IF p \in positions /\ Len(p) = Bits + 1 - i THEN Update(x, p) ELSE x[p]]
           Is(f, n) == f = [i \in 0..n |-> IF i = 0 THEN t ELSE Step(f[i - 1], i)]
           S == {n \in 0..N : \E f : Is(f, n)}
<1>1. N \in Nat
  BY PathsDiffer DEF N
<1> HIDE DEF Step, N
<1>2. 0 \in S
  <2> DEFINE f == [i \in 0..0 |-> t]
  <2>1. Is(f, 0) /\ 0 \in 0..N
    BY <1>1
  <2> QED
    BY <2>1
<1>3. ASSUME NEW n \in 0..N, n < N, n \in S PROVE n + 1 \in S
  <2>1. PICK f : Is(f, n)
    BY <1>3
  <2> DEFINE g == [i \in 0..(n + 1) |-> IF i = n + 1 THEN Step(f[n], n + 1) ELSE f[i]]
  <2>2. n + 1 \in 0..N /\ n \in Nat /\ \A i \in 0..(n + 1) : i # n + 1 => i \in 0..n
    BY <1>1, <1>3
  <2>3. \A i \in 0..n : i # 0 => g[i] = f[i] /\ g[i - 1] = f[i - 1]
    BY <2>2
  <2>4. g[n] = f[n] /\ g[0] = f[0] /\ f[0] = t
    BY <2>1, <2>2
  <2>5. ASSUME NEW i \in 0..(n + 1)
        PROVE  g[i] = IF i = 0 THEN t ELSE Step(g[i - 1], i)
    <3>1. CASE i = 0
      BY <2>4, <3>1
    <3>2. CASE i = n + 1
      BY <2>2, <2>4, <3>2
    <3>3. CASE i # 0 /\ i # n + 1
      <4>1. i \in 0..n /\ f[i] = Step(f[i - 1], i)
        BY <2>1, <2>2, <3>3
      <4> QED
        BY <2>3, <3>3, <4>1
    <3> QED
      BY <3>1, <3>2, <3>3
  <2>6. Is(g, n + 1)
    BY <2>5
  <2> HIDE DEF Is
  <2> QED
    BY <2>2, <2>6
<1>4. \A n \in 0..N : n \in S
  <2> HIDE DEF S
  <2> QED
    BY <1>1, <1>2, <1>3, UpTo
<1> DEFINE up == CHOOSE f : Is(f, N)
<1>5. Is(up, N)
  <2>1. N \in S
    BY <1>1, <1>4
  <2> HIDE DEF Is
  <2> QED
    BY <2>1
<1>6. up[0] = t /\ \A i \in 1..N : up[i] = Step(up[i - 1], i)
  <2> HIDE DEF up
  <2> QED
    BY <1>1, <1>5
<1>7. Relabelled(t, positions) = up[N]
  BY DEF Relabelled, Step, N
<1> HIDE DEF up
<1> QED
  BY <1>6, <1>7 DEF Step, N

\* The walk of Rollback to a position.
LEMMA SourceIs ==
    ASSUME NEW t, NEW p \in Positions
    PROVE  \E walk : /\ walk[0] = Visit([tree |-> t, goes |-> TRUE], Prefix(p, 0))
                     /\ \A d \in 1..Len(p) : walk[d] = Visit(walk[d - 1], Prefix(p, d))
                     /\ Source(t, p) = walk[Len(p)].tree
<1> DEFINE N == Len(p)
           start == [tree |-> t, goes |-> TRUE]
           Step(x, i) == Visit(x, Prefix(p, i))
           Is(f, n) == f = [i \in 0..n |-> Step(IF i = 0 THEN start ELSE f[i - 1], i)]
           S == {n \in 0..N : \E f : Is(f, n)}
<1>1. N \in Nat
  BY PositionIsSeq DEF N
<1> HIDE DEF Step, N, start
<1>2. 0 \in S
  <2> DEFINE f == [i \in 0..0 |-> Step(start, 0)]
  <2>1. Is(f, 0) /\ 0 \in 0..N
    BY <1>1
  <2> QED
    BY <2>1
<1>3. ASSUME NEW n \in 0..N, n < N, n \in S PROVE n + 1 \in S
  <2>1. PICK f : Is(f, n)
    BY <1>3
  <2> DEFINE g == [i \in 0..(n + 1) |-> IF i = n + 1 THEN Step(f[n], n + 1) ELSE f[i]]
  <2>2. n + 1 \in 0..N /\ n \in Nat /\ \A i \in 0..(n + 1) : i # n + 1 => i \in 0..n
    BY <1>1, <1>3
  <2>3. \A i \in 0..n : i # 0 => g[i] = f[i] /\ g[i - 1] = f[i - 1]
    BY <2>2
  <2>4. g[n] = f[n] /\ g[0] = f[0] /\ f[0] = Step(start, 0)
    BY <2>1, <2>2
  <2>5. ASSUME NEW i \in 0..(n + 1)
        PROVE  g[i] = Step(IF i = 0 THEN start ELSE g[i - 1], i)
    <3>1. CASE i = 0
      BY <2>4, <3>1
    <3>2. CASE i = n + 1
      <4>1. g[n + 1] = Step(f[n], n + 1) /\ i # 0 /\ i - 1 = n
        BY <2>2, <3>2
      <4> QED
        BY <2>4, <3>2, <4>1
    <3>3. CASE i # 0 /\ i # n + 1
      <4>1. i \in 0..n /\ f[i] = Step(f[i - 1], i)
        BY <2>1, <2>2, <3>3
      <4> QED
        BY <2>3, <3>3, <4>1
    <3> QED
      BY <3>1, <3>2, <3>3
  <2>6. Is(g, n + 1)
    BY <2>5
  <2> HIDE DEF Is
  <2> QED
    BY <2>2, <2>6
<1>4. \A n \in 0..N : n \in S
  <2> HIDE DEF S
  <2> QED
    BY <1>1, <1>2, <1>3, UpTo
<1> DEFINE up == CHOOSE f : Is(f, N)
<1>5. Is(up, N)
  <2>1. N \in S
    BY <1>1, <1>4
  <2> HIDE DEF Is
  <2> QED
    BY <2>1
<1>6. up[0] = Step(start, 0) /\ \A i \in 1..N : up[i] = Step(up[i - 1], i)
  <2> HIDE DEF up
  <2> QED
    BY <1>1, <1>5
<1>7. Source(t, p) = up[N].tree
  BY DEF Source, Step, N, start
<1> HIDE DEF up
<1> QED
  BY <1>6, <1>7 DEF Step, N, start

-----------------------------------------------------------------------------
(* What holds between the steps of a manipulator: it changes nodes on the  *)
(* path of k, from below, and owes a mark or an update to those at a depth *)
(* less than m.  Between the calls m is 0.                                 *)

Settled(t, p) ==
    LET left == t[Append(p, 1)]
        right == t[Append(p, 2)]
    IN  /\ t[p].val = Parent(left.val, right.val)
        /\ t[p].label = NodeLabel(t[p].val, left.label, right.label)

Quiet(t, p) == IsLeaf(t, p) \/ (t[p].array = None /\ Settled(t, p))

Fits(t, p, tx) ==
    LET n == t[p] IN
    /\ IsNode(n) /\ n.known = TRUE /\ NodeOK(n)
    /\ IsLeaf(t, p) => n.label = LeafLabel(n.key, n.val) /\ n.array \in {None, n.key}
    /\ n.array # None => tx /\ (IsLeaf(t, p) \/ n.bak # NoTree)
    /\ n.bak # NoTree => /\ tx /\ p # <<>> /\ p \in DOMAIN n.bak /\ n.bak[p].bak = NoTree
                         /\ \A q \in DOMAIN n.bak : Under(p, q)

Excused(t, p, k, m, tx) == (tx /\ t[p].inc = TRUE) \/ (On(k, p) /\ Len(p) < m)

Marks(t, k, m, tx) ==
    \A q \in DOMAIN t :
        /\ ~Quiet(t, q) => Excused(t, q, k, m, tx)
        /\ t[q].bak # NoTree \/ ~Quiet(t, q) =>
              \A p \in DOMAIN t : Above(p, q) => Excused(t, p, k, m, tx)

\* In a backup all nodes but the first are marked when one below them has a backup.
MarksInside(t) ==
    \A p, q, r \in DOMAIN t : Above(p, q) /\ Above(q, r) /\ t[r].bak # NoTree => Marked(t[q])

SavedWell(t) == TreeOK(t) /\ (\A p \in DOMAIN t : IsNode(t[p])) /\ MarksInside(t)

\* All backups in a tree, and in them, are well.
Nested(t) ==
    \E S : BackupsOf(t) \subseteq S /\ \A s \in S : SavedWell(s) /\ BackupsOf(s) \subseteq S

\* s is t with another node at x, with the same mark, and new leaves below it.
Changed(s, t, x, tx) ==
    /\ x \in DOMAIN s /\ x \in DOMAIN t
    /\ \A q \in Positions : ~Under(x, q) => /\ q \in DOMAIN s <=> q \in DOMAIN t
                                            /\ q \in DOMAIN t => s[q] = t[q]
    /\ s[x].inc = t[x].inc /\ s[x].bak = KeptBackup(t, x, tx)
    /\ \A q \in DOMAIN s : Above(x, q) => IsLeaf(s, q) /\ s[q].inc = FALSE /\ s[q].bak = NoTree

\* Under a position is the position, and what it is above.
LEMMA IsUnder ==
    ASSUME NEW p \in Positions, NEW q \in Positions
    PROVE  Under(p, q) <=> p = q \/ Above(p, q)
BY UnderIs DEF Above

\* The children of a node that is not at x, or below it.
LEMMA KidsApart ==
    ASSUME NEW x \in Positions, NEW q \in Positions, ~Under(x, q), NEW i \in 1..2,
           Append(q, i) \in Positions
    PROVE  Append(q, i) = x \/ ~Under(x, Append(q, i))
BY KidUnder

\* A change of one node disturbs nothing that is not on the path of k.
LEMMA ChangedMarks ==
    ASSUME NEW s, NEW t, DOMAIN s \subseteq Positions, DOMAIN t \subseteq Positions,
           NEW x, NEW tx, Changed(s, t, x, tx), NEW k \in Keys, On(k, x),
           NEW n \in Nat, NEW m \in Nat, n <= Len(x) + 1, Len(x) <= m, Marks(t, k, n, tx),
           \A p \in DOMAIN s : ~IsLeaf(s, p) => Len(p) < Bits,
           \A p \in DOMAIN t : IsLeaf(t, p) <=> Append(p, 2) \notin DOMAIN t,
           IsLeaf(s, x) \/ Len(x) < m
    PROVE  Marks(s, k, m, tx)
<1>1. x \in Positions /\ x \in DOMAIN s /\ x \in DOMAIN t
  BY DEF Changed
<1>2. ASSUME NEW q \in Positions, Above(q, x) PROVE Excused(s, q, k, m, tx)
  <2>1. Len(q) < Len(x) /\ On(k, q) /\ Len(q) \in Nat /\ Len(x) \in Nat
    BY <1>1, <1>2, UnderOrder, OnUnder, PositionIsSeq DEF Above
  <2> QED
    BY <2>1 DEF Excused
<1>3. ASSUME NEW q \in DOMAIN s, ~Under(x, q) PROVE q \in DOMAIN t /\ s[q] = t[q] /\ q \in Positions
  BY <1>3 DEF Changed
<1>4. ASSUME NEW q \in DOMAIN s, ~Under(x, q), Excused(t, q, k, n, tx) PROVE Excused(s, q, k, m, tx)
  <2>1. s[q] = t[q] /\ q \in Positions /\ Len(q) \in Nat /\ Len(x) \in Nat
    BY <1>1, <1>3, <1>4, PositionIsSeq
  <2>2. On(k, q) => Len(q) # Len(x)
    <3>1. On(k, q) /\ Len(q) = Len(x) => q = x
      BY <1>1, <2>1, OnUnder
    <3>2. q # x
      BY <1>1, <1>4, UnderIs
    <3> QED
      BY <3>1, <3>2
  <2>3. On(k, q) /\ Len(q) < n => Len(q) < m
    BY <2>1, <2>2
  <2> QED
    BY <1>4, <2>1, <2>3 DEF Excused
<1>5. ASSUME NEW q \in DOMAIN s, ~Quiet(s, q)
      PROVE  /\ Excused(s, q, k, m, tx)
             /\ Under(x, q) => q = x
             /\ ~Under(x, q) => Above(q, x) \/ ~Quiet(t, q)
  <2>1. ~IsLeaf(s, q)
    BY <1>5 DEF Quiet
  <2>2. CASE Under(x, q)
    <3>1. q = x
      BY <1>1, <2>1, <2>2, IsUnder DEF Changed
    <3>2. Len(x) < m
      BY <2>1, <3>1
    <3> QED
      BY <2>2, <3>1, <3>2 DEF Excused
  <2>3. CASE ~Under(x, q)
    <3>1. q \in DOMAIN t /\ s[q] = t[q] /\ q \in Positions
      BY <1>3, <2>3
    <3>2. \A i \in 1..2 : Append(q, i) \in Positions
      BY <2>1, <3>1, Kid
    <3>3. CASE \E i \in 1..2 : Append(q, i) = x
      <4>1. Above(q, x)
        BY <3>1, <3>2, <3>3, KidUnder
      <4> QED
        BY <1>2, <2>3, <3>1, <4>1
    <3>4. CASE \A i \in 1..2 : Append(q, i) # x
      <4>1. \A i \in 1..2 : ~Under(x, Append(q, i))
        BY <1>1, <2>3, <3>1, <3>2, <3>4, KidsApart
      <4>2. \A i \in 1..2 : /\ Append(q, i) \in DOMAIN s <=> Append(q, i) \in DOMAIN t
                            /\ Append(q, i) \in DOMAIN t => s[Append(q, i)] = t[Append(q, i)]
        BY <3>2, <4>1 DEF Changed
      <4>3. ~IsLeaf(t, q)
        BY <2>1, <4>2 DEF IsLeaf
      <4>4. Append(q, 1) \in DOMAIN t /\ Append(q, 2) \in DOMAIN t
        BY <3>1, <4>3 DEF IsLeaf
      <4>5. s[Append(q, 1)] = t[Append(q, 1)] /\ s[Append(q, 2)] = t[Append(q, 2)]
        BY <4>2, <4>4
      <4>6. ~Quiet(t, q)
        BY <1>5, <2>1, <3>1, <4>3, <4>5 DEF Quiet, Settled
      <4>7. Excused(t, q, k, n, tx)
        BY <3>1, <4>6 DEF Marks
      <4> QED
        BY <1>4, <2>3, <4>6, <4>7
    <3> QED
      BY <3>3, <3>4
  <2> QED
    BY <2>2, <2>3
<1>6. ASSUME NEW q \in DOMAIN s, s[q].bak # NoTree \/ ~Quiet(s, q), NEW p \in DOMAIN s, Above(p, q)
      PROVE  Excused(s, p, k, m, tx)
  <2>1. p \in Positions /\ q \in Positions
    OBVIOUS
  <2>2. CASE Under(x, q)
    <3>1. q = x
      BY <1>1, <1>5, <1>6, <2>1, <2>2, IsUnder DEF Changed
    <3> QED
      BY <1>2, <1>6, <2>1, <3>1
  <2>3. CASE Above(q, x)
    <3>1. Above(p, x)
      BY <1>1, <1>6, <2>1, <2>3, UnderOrder DEF Above
    <3> QED
      BY <1>2, <2>1, <3>1
  <2>4. CASE ~Under(x, q) /\ ~Above(q, x)
    <3>1. q \in DOMAIN t /\ s[q] = t[q]
      BY <1>3, <2>4
    <3>2. ~Under(x, p)
      BY <1>1, <1>6, <2>1, <2>4, UnderOrder DEF Above
    <3>3. p \in DOMAIN t
      BY <1>3, <3>2
    <3>4. t[q].bak # NoTree \/ ~Quiet(t, q)
      BY <1>5, <1>6, <2>4, <3>1
    <3>5. Excused(t, p, k, n, tx)
      BY <1>6, <3>1, <3>3, <3>4 DEF Marks
    <3> QED
      BY <1>4, <3>2, <3>5
  <2> QED
    BY <2>2, <2>3, <2>4
<1> QED
  BY <1>5, <1>6 DEF Marks

\* A new backup is well, and brings no other backups but those it copies.
LEMMA SavedIsWell ==
    ASSUME NEW t, TreeOK(t), \A p \in DOMAIN t : IsNode(t[p]), NEW x \in DOMAIN t,
           t[x].bak = NoTree, NEW k \in Keys, On(k, x), NEW n \in Nat, n <= Len(x) + 1,
           NEW tx, Marks(t, k, n, tx)
    PROVE  SavedWell(Saved(t, x)) /\ BackupsOf(Saved(t, x)) \subseteq BackupsOf(t)
<1> DEFINE s == Saved(t, x)
<1>1. DOMAIN t \subseteq Positions /\ x \in Positions /\ IsNode(t[x])
  BY DEF TreeOK
<1>2. /\ DOMAIN s = {q \in DOMAIN t : Under(x, q)}
      /\ \A q \in DOMAIN s : q # x => s[q] = t[q]
      /\ Like(s[x], t[x], t[x].key, t[x].val, None, t[x].label, t[x].inc, t[x].bak)
  BY <1>1, SavedIs
<1> HIDE DEF s
<1>3. ASSUME NEW p \in DOMAIN s PROVE p \in DOMAIN t /\ p \in Positions /\ Under(x, p)
  BY <1>1, <1>2
<1>4. ASSUME NEW p \in DOMAIN s, NEW i \in 1..2 PROVE Append(p, i) \in DOMAIN s <=> Append(p, i) \in DOMAIN t
  <2>1. Append(p, i) \in DOMAIN t => Under(x, Append(p, i))
    <3> SUFFICES ASSUME Append(p, i) \in DOMAIN t PROVE Under(x, Append(p, i))
      OBVIOUS
    <3>1. p \in Positions /\ Append(p, i) \in Positions
      BY <1>1, <1>3
    <3> QED
      BY <1>1, <1>3, <3>1, KidUnder
  <2> QED
    BY <1>2, <2>1
<1>5. ASSUME NEW p \in DOMAIN s
      PROVE  /\ IsNode(s[p]) /\ s[p].bak = t[p].bak /\ s[p].known = t[p].known /\ s[p].key = t[p].key
             /\ s[p].inc = t[p].inc /\ s[p].val = t[p].val /\ s[p].array \in {None, t[p].array}
             /\ (IsLeaf(s, p) <=> IsLeaf(t, p))
  <2>1. IsLeaf(s, p) <=> IsLeaf(t, p)
    BY <1>4 DEF IsLeaf
  <2>2. CASE p = x
    BY <1>2, <2>1, <2>2 DEF Like
  <2>3. CASE p # x
    BY <1>2, <1>3, <2>1, <2>3
  <2> QED
    BY <2>2, <2>3
<1>6. TreeOK(s)
  <2>1. DOMAIN s \subseteq Positions
    BY <1>3
  <2>2. ASSUME NEW p \in DOMAIN s
        PROVE  /\ NodeOK(s[p])
               /\ IsLeaf(s, p) \/ (s[p].known /\ s[p].key = None)
               /\ IsLeaf(s, p) <=> Append(p, 2) \notin DOMAIN s
               /\ s[p].bak # NoTree =>
                   /\ p \in DOMAIN s[p].bak /\ s[p].bak[p].bak = NoTree
                   /\ \A q \in DOMAIN s[p].bak : Under(p, q)
    <3>1. p \in DOMAIN t
      BY <1>3
    <3>2. NodeOK(t[p]) /\ (IsLeaf(t, p) \/ (t[p].known /\ t[p].key = None))
      BY <3>1 DEF TreeOK
    <3>3. IsLeaf(t, p) <=> Append(p, 2) \notin DOMAIN t
      BY <3>1 DEF TreeOK
    <3>4. t[p].bak # NoTree =>
                   /\ p \in DOMAIN t[p].bak /\ t[p].bak[p].bak = NoTree
                   /\ \A q \in DOMAIN t[p].bak : Under(p, q)
      BY <3>1 DEF TreeOK
    <3>5. NodeOK(s[p])
      BY <1>5, <3>2 DEF NodeOK
    <3>6. IsLeaf(s, p) \/ (s[p].known /\ s[p].key = None)
      BY <1>5, <3>2
    <3>7. IsLeaf(s, p) <=> Append(p, 2) \notin DOMAIN s
      BY <1>4, <1>5, <3>3
    <3>8. s[p].bak # NoTree =>
                   /\ p \in DOMAIN s[p].bak /\ s[p].bak[p].bak = NoTree
                   /\ \A q \in DOMAIN s[p].bak : Under(p, q)
      BY <1>5, <3>4
    <3> QED
      BY <3>5, <3>6, <3>7, <3>8
  <2> QED
    BY <2>1, <2>2 DEF TreeOK
<1>7. MarksInside(s)
  <2> SUFFICES ASSUME NEW p \in DOMAIN s, NEW q \in DOMAIN s, NEW r \in DOMAIN s,
                      Above(p, q), Above(q, r), s[r].bak # NoTree
               PROVE  Marked(s[q])
    BY DEF MarksInside
  <2>1. p \in Positions /\ q \in Positions /\ r \in Positions /\ Under(x, p)
        /\ q \in DOMAIN t /\ r \in DOMAIN t
    BY <1>3
  <2>2. t[r].bak # NoTree
    BY <1>5
  <2>3. Excused(t, q, k, n, tx)
    BY <2>1, <2>2 DEF Marks
  <2>4. Len(x) \in Nat /\ Len(q) \in Nat /\ Len(x) < Len(q)
    BY <1>1, <2>1, UnderOrder, PositionIsSeq
  <2>5. t[q].inc = TRUE
    BY <2>3, <2>4 DEF Excused
  <2> QED
    BY <1>5, <2>5 DEF Marked
<1>8. BackupsOf(s) \subseteq BackupsOf(t)
  BY <1>3, <1>5 DEF BackupsOf
<1> QED
  BY <1>5, <1>6, <1>7, <1>8 DEF SavedWell, s

\* A change of one node leaves the backups well.
LEMMA ChangedNested ==
    ASSUME NEW s, NEW t, DOMAIN s \subseteq Positions, TreeOK(t), \A p \in DOMAIN t : IsNode(t[p]),
           NEW x, NEW tx, Changed(s, t, x, tx), NEW k \in Keys, On(k, x),
           NEW n \in Nat, n <= Len(x) + 1, Marks(t, k, n, tx), Nested(t)
    PROVE  Nested(s)
<1>1. x \in DOMAIN t /\ x \in DOMAIN s /\ x \in Positions
  BY DEF Changed
<1>2. BackupsOf(s) \subseteq BackupsOf(t) \cup {KeptBackup(t, x, tx)}
  <2>1. ASSUME NEW p \in DOMAIN s, s[p].bak # NoTree
        PROVE  s[p].bak \in BackupsOf(t) \cup {KeptBackup(t, x, tx)}
    <3>1. CASE p = x
      BY <3>1 DEF Changed
    <3>2. CASE p # x
      <4>1. ~Under(x, p)
        BY <1>1, <2>1, <3>2, IsUnder DEF Changed
      <4>2. p \in DOMAIN t /\ s[p] = t[p]
        BY <4>1 DEF Changed
      <4> QED
        BY <2>1, <4>2 DEF BackupsOf
    <3> QED
      BY <3>1, <3>2
  <2> QED
    BY <2>1 DEF BackupsOf
<1>3. PICK S : BackupsOf(t) \subseteq S /\ \A r \in S : SavedWell(r) /\ BackupsOf(r) \subseteq S
  BY DEF Nested
<1>4. CASE tx /\ t[x].bak = NoTree
  <2> DEFINE b == Saved(t, x)
             T == S \cup {b}
  <2>1. SavedWell(b) /\ BackupsOf(b) \subseteq BackupsOf(t)
    BY <1>1, <1>4, SavedIsWell
  <2> HIDE DEF b
  <2>2. KeptBackup(t, x, tx) = b
    BY <1>4 DEF KeptBackup, b
  <2>3. BackupsOf(s) \subseteq T /\ \A r \in T : SavedWell(r) /\ BackupsOf(r) \subseteq T
    BY <1>2, <1>3, <2>1, <2>2
  <2> QED
    BY <2>3 DEF Nested
<1>5. CASE ~(tx /\ t[x].bak = NoTree)
  <2>1. KeptBackup(t, x, tx) = t[x].bak
    BY <1>5 DEF KeptBackup
  <2>2. BackupsOf(s) \subseteq BackupsOf(t)
    BY <1>1, <1>2, <2>1 DEF BackupsOf
  <2>3. BackupsOf(s) \subseteq S
    BY <1>3, <2>2
  <2> QED
    BY <1>3, <2>3 DEF Nested
<1> QED
  BY <1>4, <1>5

-----------------------------------------------------------------------------
(* What a rollback finds: from the node at p of s, with every backup that  *)
(* is met put back, the nodes of the tree base.                            *)

SameNode(n, b) ==
    /\ IsNode(n) /\ n.inc \in BOOLEAN /\ n.bak = NoTree
    /\ n.known = b.known /\ n.key = b.key /\ n.val = b.val /\ n.label = b.label

Undone(s, p, base, S) ==
    /\ p \in Positions /\ p \in DOMAIN s /\ p \in DOMAIN base /\ SameNode(s[p], base[p])
    /\ IsLeaf(s, p) <=> IsLeaf(base, p)
    /\ IsLeaf(s, p) => \A q \in DOMAIN s : ~Above(p, q)
    /\ ~IsLeaf(s, p) => \A i \in 1..2 : <<Restore(s, Append(p, i)), Append(p, i)>> \in S

Undoes(S, base) == \A s, p : <<s, p>> \in S => Undone(s, p, base, S)

Rolls(s, base) == \E S : <<s, <<>>>> \in S /\ Undoes(S, base)

\* s is t, but for marks and for the data of nodes that have a backup.
AlikeTrees(s, t) ==
    /\ DOMAIN s = DOMAIN t
    /\ \A q \in DOMAIN t :
        /\ s[q].bak = t[q].bak
        /\ t[q].bak = NoTree => /\ IsNode(s[q]) /\ s[q].inc \in BOOLEAN
                                /\ s[q].known = t[q].known /\ s[q].key = t[q].key
                                /\ s[q].val = t[q].val /\ s[q].label = t[q].label

\* More trees to roll back to do no harm.
LEMMA UndoneInMore ==
    ASSUME NEW s, NEW p, NEW base, NEW S, Undone(s, p, base, S), NEW T, S \subseteq T
    PROVE  Undone(s, p, base, T)
BY DEF Undone

\* Marks, and labels and values that are restored, do not matter to Rollback.
LEMMA AlikeRolls ==
    ASSUME NEW s, NEW t, AlikeTrees(s, t), NEW base, Rolls(t, base),
           \A p \in DOMAIN t : IsLeaf(t, p) <=> Append(p, 2) \notin DOMAIN t
    PROVE  Rolls(s, base)
<1>1. PICK S : <<t, <<>>>> \in S /\ Undoes(S, base)
  BY DEF Rolls
<1> DEFINE T == S \cup {<<s, p>> : p \in {p \in Positions : <<t, p>> \in S}}
<1>2. <<s, <<>>>> \in T
  BY <1>1, RootIsPosition
<1>3. ASSUME NEW p, <<t, p>> \in S PROVE Undone(s, p, base, T)
  <2>1. Undone(t, p, base, S)
    BY <1>1, <1>3 DEF Undoes
  <2>2. p \in DOMAIN t /\ p \in Positions /\ p \in DOMAIN base /\ SameNode(t[p], base[p]) /\ DOMAIN s = DOMAIN t
    BY <2>1 DEF Undone, AlikeTrees
  <2>3. SameNode(s[p], base[p])
    BY <2>2 DEF SameNode, AlikeTrees
  <2>4. IsLeaf(s, p) <=> IsLeaf(t, p)
    BY <2>2 DEF IsLeaf
  <2>5. ASSUME ~IsLeaf(s, p), NEW i \in 1..2 PROVE <<Restore(s, Append(p, i)), Append(p, i)>> \in T
    <3> DEFINE q == Append(p, i)
    <3>1. <<Restore(t, q), q>> \in S
      BY <2>1, <2>4, <2>5 DEF Undone
    <3> HIDE DEF q
    <3>2. Undone(Restore(t, q), q, base, S)
      BY <1>1, <3>1 DEF Undoes
    <3>3. q \in Positions
      BY <3>2 DEF Undone
    <3>4. CASE t[q].bak = NoTree
      <4>1. Restore(t, q) = t
        BY <3>4 DEF Restore
      <4>2. q \in DOMAIN t
        BY <3>2, <4>1 DEF Undone
      <4>3. Restore(s, q) = s
        BY <3>4, <4>2 DEF Restore, AlikeTrees
      <4> QED
        BY <3>1, <3>3, <4>1, <4>3 DEF q
    <3>5. CASE t[q].bak # NoTree /\ q \in DOMAIN t
      <4>1. Restore(s, q) = Restore(t, q)
        BY <3>5 DEF Restore, AlikeTrees
      <4> QED
        BY <3>1, <4>1 DEF q
    <3>6. q \in DOMAIN t
      <4>1. Append(p, 1) \in DOMAIN t /\ Append(p, 2) \in DOMAIN t
        BY <2>2, <2>4, <2>5 DEF IsLeaf
      <4>2. i = 1 \/ i = 2
        OBVIOUS
      <4> QED
        BY <4>1, <4>2 DEF q
    <3> QED
      BY <3>4, <3>5, <3>6
  <2> QED
    BY <2>1, <2>2, <2>3, <2>4, <2>5 DEF Undone
<1>4. ASSUME NEW r, NEW p, <<r, p>> \in T PROVE Undone(r, p, base, T)
  <2>1. CASE <<r, p>> \in S
    <3>1. Undone(r, p, base, S) /\ S \subseteq T
      BY <1>1, <2>1 DEF Undoes
    <3> HIDE DEF T
    <3> QED
      BY <3>1, UndoneInMore
  <2>2. CASE <<r, p>> \notin S
    <3>1. r = s /\ <<t, p>> \in S
      BY <1>4, <2>2
    <3> QED
      BY <1>3, <3>1
  <2> QED
    BY <2>1, <2>2
<1> HIDE DEF T
<1> QED
  BY <1>2, <1>4 DEF Rolls, Undoes

\* A node that is not a leaf has two children.
LEMMA BothKids ==
    ASSUME NEW t, NEW p, ~IsLeaf(t, p), IsLeaf(t, p) <=> Append(p, 2) \notin DOMAIN t
    PROVE  \A i \in 1..2 : Append(p, i) \in DOMAIN t
<1>1. Append(p, 1) \in DOMAIN t /\ Append(p, 2) \in DOMAIN t
  BY DEF IsLeaf
<1>2. \A i \in 1..2 : i = 1 \/ i = 2
  OBVIOUS
<1> QED
  BY <1>1, <1>2

\* After a change with a backup Rollback still finds the same tree.
LEMMA ChangedRolls ==
    ASSUME NEW s, NEW t, DOMAIN s \subseteq Positions, DOMAIN t \subseteq Positions,
           \A p \in DOMAIN t : IsNode(t[p]) /\ (IsLeaf(t, p) <=> Append(p, 2) \notin DOMAIN t),
           NEW x, x # <<>>, Changed(s, t, x, TRUE), NEW base, Rolls(t, base)
    PROVE  Rolls(s, base)
<1>1. x \in Positions /\ x \in DOMAIN s /\ x \in DOMAIN t /\ IsNode(t[x])
  BY DEF Changed
<1>2. PICK S : <<t, <<>>>> \in S /\ Undoes(S, base)
  BY DEF Rolls
<1> DEFINE b == Saved(t, x)
           Outside == {p \in Positions : <<t, p>> \in S /\ ~Under(x, p)}
           Inside == {p \in Positions : <<t, p>> \in S /\ Under(x, p) /\ t[x].bak = NoTree}
           T == S \cup {<<s, p>> : p \in Outside} \cup {<<b, p>> : p \in Inside}
<1>3. /\ DOMAIN b = {q \in DOMAIN t : Under(x, q)} /\ b # NoTree
      /\ \A q \in DOMAIN b : q # x => b[q] = t[q]
      /\ Like(b[x], t[x], t[x].key, t[x].val, None, t[x].label, t[x].inc, t[x].bak)
  BY <1>1, SavedIs
<1> HIDE DEF b
<1>4. <<s, <<>>>> \in T
  <2>1. ~Under(x, <<>>) /\ <<>> \in Positions
    BY <1>1, UnderIs, RootIsPosition
  <2> QED
    BY <1>2, <2>1
<1>5. s[x].bak = IF t[x].bak = NoTree THEN b ELSE t[x].bak
  BY DEF Changed, KeptBackup, b
<1>6. ASSUME NEW p, <<t, p>> \in S
      PROVE  /\ p \in Positions /\ p \in DOMAIN t /\ p \in DOMAIN base /\ SameNode(t[p], base[p])
             /\ IsLeaf(t, p) <=> IsLeaf(base, p)
             /\ IsLeaf(t, p) => \A q \in DOMAIN t : ~Above(p, q)
             /\ ~IsLeaf(t, p) => \A i \in 1..2 : /\ Append(p, i) \in DOMAIN t
                                                 /\ Append(p, i) \in Positions
                                                 /\ <<Restore(t, Append(p, i)), Append(p, i)>> \in S
  <2>1. Undone(t, p, base, S)
    BY <1>2, <1>6 DEF Undoes
  <2>2. ~IsLeaf(t, p) => \A i \in 1..2 : Append(p, i) \in DOMAIN t
    BY <2>1, BothKids DEF Undone
  <2> QED
    BY <2>1, <2>2 DEF Undone
<1>7. ASSUME NEW p, <<t, p>> \in S, ~Under(x, p) PROVE Undone(s, p, base, T)
  <2>1. p \in Positions /\ p \in DOMAIN t
    BY <1>6, <1>7
  <2>2. p \in DOMAIN s /\ s[p] = t[p]
    BY <1>7, <2>1 DEF Changed
  <2>3. ASSUME NEW i \in 1..2
        PROVE  Append(p, i) \in DOMAIN s <=> Append(p, i) \in DOMAIN t
    <3>1. CASE Append(p, i) \in Positions
      <4>1. Append(p, i) = x \/ ~Under(x, Append(p, i))
        BY <1>1, <1>7, <2>1, <3>1, KidsApart
      <4> QED
        BY <1>1, <3>1, <4>1 DEF Changed
    <3>2. CASE Append(p, i) \notin Positions
      BY <3>2
    <3> QED
      BY <3>1, <3>2
  <2>4. IsLeaf(s, p) <=> IsLeaf(t, p)
    BY <2>3 DEF IsLeaf
  <2>5. ASSUME IsLeaf(s, p), NEW q \in DOMAIN s, Above(p, q) PROVE FALSE
    <3>1. \A r \in DOMAIN t : ~Above(p, r)
      BY <1>6, <1>7, <2>4, <2>5
    <3>2. Under(x, q)
      BY <2>5, <3>1 DEF Changed
    <3>3. Under(p, x)
      BY <1>1, <1>7, <2>1, <2>5, <3>2, UnderOrder DEF Above
    <3>4. Above(p, x)
      BY <1>1, <1>7, <2>1, <3>3, UnderIs DEF Above
    <3> QED
      BY <1>1, <3>1, <3>4
  <2>6. ASSUME ~IsLeaf(s, p), NEW i \in 1..2 PROVE <<Restore(s, Append(p, i)), Append(p, i)>> \in T
    <3> DEFINE q == Append(p, i)
    <3>1. <<Restore(t, q), q>> \in S /\ q \in DOMAIN t /\ q \in Positions
      BY <1>6, <1>7, <2>4, <2>6
    <3>2. q = x \/ ~Under(x, q)
      BY <1>1, <1>7, <2>1, <3>1, KidsApart
    <3> HIDE DEF q
    <3>3. CASE t[q].bak # NoTree
      <4>1. s[q].bak = t[q].bak
        BY <1>5, <3>1, <3>2, <3>3 DEF Changed
      <4>2. Restore(s, q) = Restore(t, q)
        BY <3>3, <4>1 DEF Restore
      <4> QED
        BY <3>1, <4>2 DEF q
    <3>4. CASE t[q].bak = NoTree
      <4>1. <<t, q>> \in S
        BY <3>1, <3>4 DEF Restore
      <4>2. CASE q = x
        <5>1. Restore(s, q) = b
          BY <1>3, <1>5, <3>4, <4>2 DEF Restore
        <5>2. q \in Inside
          BY <1>1, <3>4, <4>1, <4>2, UnderIs
        <5> HIDE DEF Inside, Outside
        <5> QED
          BY <5>1, <5>2 DEF q
      <4>3. CASE ~Under(x, q)
        <5>1. s[q].bak = NoTree
          BY <3>1, <3>4, <4>3 DEF Changed
        <5>2. Restore(s, q) = s
          BY <5>1 DEF Restore
        <5>3. q \in Outside
          BY <3>1, <4>1, <4>3
        <5> HIDE DEF Inside, Outside
        <5> QED
          BY <5>2, <5>3 DEF q
      <4> QED
        BY <3>2, <4>2, <4>3
    <3> QED
      BY <3>3, <3>4
  <2> HIDE DEF T
  <2>7. SameNode(s[p], base[p]) /\ p \in DOMAIN base /\ (IsLeaf(t, p) <=> IsLeaf(base, p))
    BY <1>6, <1>7, <2>2
  <2> QED
    BY <2>1, <2>2, <2>4, <2>5, <2>6, <2>7 DEF Undone
<1>8. ASSUME NEW p, <<t, p>> \in S, Under(x, p), t[x].bak = NoTree PROVE Undone(b, p, base, T)
  <2>1. p \in Positions /\ p \in DOMAIN t /\ p \in DOMAIN b
    BY <1>3, <1>6, <1>8
  <2>2. SameNode(b[p], base[p])
    <3>1. SameNode(t[p], base[p])
      BY <1>6, <1>8
    <3>2. CASE p = x
      BY <1>3, <3>1, <3>2 DEF Like, SameNode
    <3>3. CASE p # x
      BY <1>3, <2>1, <3>1, <3>3
    <3> QED
      BY <3>2, <3>3
  <2>3. ASSUME NEW i \in 1..2
        PROVE  Append(p, i) \in DOMAIN b <=> Append(p, i) \in DOMAIN t
    <3>1. Append(p, i) \in DOMAIN t => Under(x, Append(p, i))
      <4> SUFFICES ASSUME Append(p, i) \in DOMAIN t PROVE Under(x, Append(p, i))
        OBVIOUS
      <4>1. Append(p, i) \in Positions
        OBVIOUS
      <4> QED
        BY <1>1, <1>8, <2>1, <4>1, KidUnder
    <3> QED
      BY <1>3, <3>1
  <2>4. IsLeaf(b, p) <=> IsLeaf(t, p)
    BY <2>3 DEF IsLeaf
  <2>5. IsLeaf(b, p) => \A q \in DOMAIN b : ~Above(p, q)
    BY <1>3, <1>6, <1>8, <2>4
  <2>6. ASSUME ~IsLeaf(b, p), NEW i \in 1..2 PROVE <<Restore(b, Append(p, i)), Append(p, i)>> \in T
    <3> DEFINE q == Append(p, i)
    <3>1. <<Restore(t, q), q>> \in S /\ q \in DOMAIN t /\ q \in Positions
      BY <1>6, <1>8, <2>4, <2>6
    <3>2. q \in DOMAIN b
      BY <2>3, <3>1
    <3>3. q # x /\ Under(x, q)
      <4>1. Above(p, q)
        BY <2>1, <3>1, KidUnder
      <4>2. Above(x, q)
        BY <1>1, <1>8, <2>1, <3>1, <4>1, UnderOrder
      <4> QED
        BY <4>2 DEF Above
    <3> HIDE DEF q
    <3>4. b[q] = t[q]
      BY <1>3, <3>2, <3>3
    <3>5. CASE t[q].bak # NoTree
      <4>1. Restore(b, q) = Restore(t, q)
        BY <3>4, <3>5 DEF Restore
      <4> QED
        BY <3>1, <4>1 DEF q
    <3>6. CASE t[q].bak = NoTree
      <4>1. Restore(b, q) = b /\ <<t, q>> \in S
        BY <3>1, <3>4, <3>6 DEF Restore
      <4>2. q \in Inside
        BY <1>8, <3>1, <3>3, <4>1
      <4> HIDE DEF Inside, Outside
      <4> QED
        BY <4>1, <4>2 DEF q
    <3> QED
      BY <3>5, <3>6
  <2> HIDE DEF T
  <2>7. p \in DOMAIN base /\ (IsLeaf(t, p) <=> IsLeaf(base, p))
    BY <1>6, <1>8
  <2> QED
    BY <2>1, <2>2, <2>4, <2>5, <2>6, <2>7 DEF Undone
<1>9. ASSUME NEW r, NEW p, <<r, p>> \in T PROVE Undone(r, p, base, T)
  <2>1. CASE <<r, p>> \in S
    <3>1. Undone(r, p, base, S) /\ S \subseteq T
      BY <1>2, <2>1 DEF Undoes
    <3> HIDE DEF T
    <3> QED
      BY <3>1, UndoneInMore
  <2>2. CASE \E q \in Outside : <<r, p>> = <<s, q>>
    <3>1. r = s /\ p \in Outside
      <4> HIDE DEF Outside
      <4> QED
        BY <2>2
    <3>2. <<t, p>> \in S /\ ~Under(x, p)
      BY <3>1
    <3> HIDE DEF T
    <3> QED
      BY <1>7, <3>1, <3>2
  <2>3. CASE \E q \in Inside : <<r, p>> = <<b, q>>
    <3>1. r = b /\ p \in Inside
      <4> HIDE DEF Inside
      <4> QED
        BY <2>3
    <3>2. <<t, p>> \in S /\ Under(x, p) /\ t[x].bak = NoTree
      BY <3>1
    <3> HIDE DEF T
    <3> QED
      BY <1>8, <3>1, <3>2
  <2> QED
    <3> HIDE DEF Inside, Outside
    <3> QED
      BY <1>9, <2>1, <2>2, <2>3
<1> HIDE DEF T
<1> QED
  BY <1>4, <1>9 DEF Rolls, Undoes

Mid(t, inner, contents, k, m, tx) ==
    /\ InnerSet(inner) /\ Shape(t, inner, contents)
    /\ \A p \in DOMAIN t : Fits(t, p, tx)
    /\ Marks(t, k, m, tx)
    /\ Nested(t)

\* Nothing is below a leaf.
LEMMA LeafEnds ==
    ASSUME NEW inner, InnerSet(inner), NEW p \in NodesFor(inner) \ inner, NEW q \in NodesFor(inner)
    PROVE  ~Above(p, q)
<1> SUFFICES ASSUME Above(p, q) PROVE FALSE
  OBVIOUS
<1>1. p \in Positions /\ q \in Positions
  BY NodesArePositions
<1>2. q # <<>>
  BY <1>1, UnderIs DEF Above
<1>3. PICK r \in inner, i \in 1..2 : q = Append(r, i)
  BY <1>2 DEF NodesFor
<1>4. r \in Positions
  BY DEF InnerSet
<1>5. Under(p, r)
  BY <1>1, <1>3, <1>4, KidUnder
<1>6. Len(p) \in 0..Len(r) /\ Prefix(r, Len(p)) = p
  BY <1>1, <1>4, <1>5, PositionIsSeq DEF Under
<1> QED
  BY <1>6, InnerAbove

\* A key has one leaf on its path.
LEMMA OneLeaf ==
    ASSUME NEW inner, InnerSet(inner), NEW t, DOMAIN t = NodesFor(inner), NEW k \in Keys,
           NEW q \in NodesFor(inner) \ inner, On(k, q)
    PROVE  q = Leaf(t, k)
<1> DEFINE p == Leaf(t, k)
<1>1. p \in NodesFor(inner) \ inner /\ p \in Positions /\ On(k, p)
  BY WalkEnds
<1> HIDE DEF p
<1>2. q \in Positions /\ Len(p) \in Nat /\ Len(q) \in Nat
  BY <1>1, NodesArePositions, PositionIsSeq
<1>3. Under(p, q) \/ Under(q, p)
  BY <1>1, <1>2, OnUnder
<1>4. ~Above(p, q) /\ ~Above(q, p)
  BY <1>1, LeafEnds
<1> QED
  BY <1>3, <1>4 DEF Above, p

\* What a change of the leaf of k means for what the tree holds.
LEMMA ShapeChange ==
    ASSUME NEW inner, InnerSet(inner), NEW contents, NEW t, Shape(t, inner, contents),
           NEW k \in Keys, NEW s, DOMAIN s = DOMAIN t,
           \A q \in DOMAIN t : q # Leaf(t, k) => /\ s[q].key = t[q].key
                                                 /\ q \notin inner => s[q].val = t[q].val,
           NEW new, \A l \in Keys : l # k => new[l] = contents[l],
           \A l \in Present(contents) : l # k => ~On(l, Leaf(t, k)),
           \/ s[Leaf(t, k)].key = k /\ new[k] # None /\ s[Leaf(t, k)].val = new[k]
           \/ s[Leaf(t, k)].key = None /\ s[Leaf(t, k)].val = 0 /\ new[k] = None
    PROVE  Shape(s, inner, new)
<1> DEFINE p == Leaf(t, k)
<1>1. DOMAIN t = NodesFor(inner) /\ inner \subseteq NodesFor(inner)
  BY NodesArePositions DEF Shape
<1>2. p \in NodesFor(inner) \ inner /\ On(k, p)
  BY <1>1, WalkEnds
<1> HIDE DEF p
<1>3. ASSUME NEW q \in inner PROVE s[q].key = None
  <2>1. q # p /\ q \in DOMAIN t
    BY <1>1, <1>2
  <2>2. s[q].key = t[q].key
    BY <2>1 DEF p
  <2> QED
    BY <2>2 DEF Shape
<1>4. Holds(s[p], p, new)
  <2>1. ASSUME NEW l \in Present(new), On(l, p) PROVE l = k
    <3>1. l # k => l \in Present(contents)
      BY DEF Present
    <3> QED
      BY <2>1, <3>1 DEF p, Present
  <2>2. k \in Present(new) <=> new[k] # None
    BY DEF Present
  <2> QED
    BY <1>2, <2>1, <2>2 DEF Holds, p
<1>5. ASSUME NEW q \in NodesFor(inner) \ inner, q # p PROVE Holds(s[q], q, new)
  <2>1. Holds(t[q], q, contents)
    BY DEF Shape
  <2>2. s[q].key = t[q].key /\ s[q].val = t[q].val
    BY <1>1, <1>5 DEF p
  <2>3. ~On(k, q)
    BY <1>1, <1>5, OneLeaf DEF p
  <2>4. ASSUME NEW l \in Keys, On(l, q)
        PROVE  (l \in Present(new) <=> l \in Present(contents)) /\ new[l] = contents[l]
    BY <2>3, <2>4 DEF Present
  <2>5. \A l \in Present(new) : On(l, q) => s[q].key = l /\ s[q].val = new[l]
    <3> SUFFICES ASSUME NEW l \in Present(new), On(l, q) PROVE s[q].key = l /\ s[q].val = new[l]
      OBVIOUS
    <3>1. l \in Keys
      BY DEF Present
    <3>2. l \in Present(contents) /\ new[l] = contents[l]
      BY <2>4, <3>1
    <3> QED
      BY <2>1, <2>2, <3>2 DEF Holds
  <2>6. (\A l \in Present(new) : ~On(l, q)) => s[q].key = None /\ s[q].val = 0
    <3> SUFFICES ASSUME \A l \in Present(new) : ~On(l, q) PROVE s[q].key = None /\ s[q].val = 0
      OBVIOUS
    <3>1. \A l \in Present(contents) : ~On(l, q)
      BY <2>4 DEF Present
    <3> QED
      BY <2>1, <2>2, <3>1 DEF Holds
  <2> QED
    BY <2>5, <2>6 DEF Holds
<1> QED
  BY <1>1, <1>3, <1>4, <1>5 DEF Shape

\* What Mid says of the tree and its nodes.
LEMMA MidTree ==
    ASSUME NEW t, NEW inner, NEW contents, NEW k, NEW m, NEW tx, Mid(t, inner, contents, k, m, tx)
    PROVE  /\ InnerSet(inner) /\ DOMAIN t = NodesFor(inner) /\ DOMAIN t \subseteq Positions
           /\ TreeOK(t)
           /\ \A p \in DOMAIN t : /\ IsNode(t[p]) /\ t[p].known = TRUE
                                  /\ Fits(t, p, tx)
                                  /\ IsLeaf(t, p) <=> p \notin inner
                                  /\ IsLeaf(t, p) <=> Append(p, 2) \notin DOMAIN t
                                  /\ ~IsLeaf(t, p) => Len(p) < Bits /\ t[p].key = None
           /\ <<>> \in DOMAIN t /\ t[<<>>].bak = NoTree /\ ~IsLeaf(t, <<>>)
<1>1. InnerSet(inner) /\ DOMAIN t = NodesFor(inner) /\ DOMAIN t \subseteq Positions
  BY NodesArePositions DEF Mid, Shape
<1>2. ASSUME NEW p \in DOMAIN t
      PROVE  /\ p \in Positions
             /\ Fits(t, p, tx)
             /\ IsLeaf(t, p) <=> p \notin inner
             /\ IsLeaf(t, p) <=> Append(p, 2) \notin DOMAIN t
             /\ ~IsLeaf(t, p) => Len(p) < Bits /\ t[p].key = None
  <2>1. p \in Positions
    BY <1>1
  <2>2. IsLeaf(t, p) <=> p \notin inner
    BY <1>1, <2>1, LeafIsOuter
  <2>3. Append(p, 2) \notin DOMAIN t <=> p \notin inner
    <3>1. 2 \in 1..2
      OBVIOUS
    <3> QED
      BY <1>1, <2>1, <3>1, NodesArePositions
  <2> QED
    BY <1>1, <2>1, <2>2, <2>3 DEF Mid, Shape, InnerSet
<1>3. ASSUME NEW p \in DOMAIN t
      PROVE  /\ IsNode(t[p]) /\ t[p].known = TRUE /\ NodeOK(t[p])
             /\ t[p].bak # NoTree => /\ p \in DOMAIN t[p].bak /\ t[p].bak[p].bak = NoTree
                                     /\ \A q \in DOMAIN t[p].bak : Under(p, q)
  BY <1>2 DEF Fits
<1>4. TreeOK(t)
  BY <1>1, <1>2, <1>3 DEF TreeOK
<1>5. <<>> \in inner /\ <<>> \in DOMAIN t
  BY <1>1, NodesArePositions DEF InnerSet
<1>6. t[<<>>].bak = NoTree /\ ~IsLeaf(t, <<>>)
  BY <1>2, <1>5 DEF Fits
<1> QED
  BY <1>1, <1>2, <1>3, <1>4, <1>5, <1>6

\* A node that is changed in its place still fits.
LEMMA KeptFits ==
    ASSUME NEW t, DOMAIN t \subseteq Positions, NEW x \in DOMAIN t, x # <<>>, NEW tx,
           Fits(t, x, tx)
    PROVE  LET b == KeptBackup(t, x, tx) IN
           /\ b # NoTree => /\ tx /\ x \in DOMAIN b /\ b[x].bak = NoTree
                            /\ \A q \in DOMAIN b : Under(x, q)
           /\ tx => b # NoTree
<1>1. CASE tx /\ t[x].bak = NoTree
  <2>1. IsNode(t[x])
    BY DEF Fits
  <2>2. /\ DOMAIN Saved(t, x) = {q \in DOMAIN t : Under(x, q)}
        /\ x \in DOMAIN Saved(t, x) /\ Saved(t, x) # NoTree
        /\ Like(Saved(t, x)[x], t[x], t[x].key, t[x].val, None, t[x].label, t[x].inc, t[x].bak)
    BY <2>1, SavedIs
  <2>3. Saved(t, x)[x].bak = NoTree
    BY <1>1, <2>2 DEF Like
  <2> QED
    BY <1>1, <2>2, <2>3 DEF KeptBackup
<1>2. CASE ~(tx /\ t[x].bak = NoTree)
  BY <1>2 DEF KeptBackup, Fits
<1> QED
  BY <1>1, <1>2

\* A change of one node on the path of k.
LEMMA MidChanged ==
    ASSUME NEW t, NEW inner, NEW contents, NEW k \in Keys, NEW n \in Nat, NEW tx,
           Mid(t, inner, contents, k, n, tx),
           NEW s, NEW x, Changed(s, t, x, tx), On(k, x),
           NEW m \in Nat, n <= Len(x) + 1, Len(x) <= m,
           NEW inner2, NEW contents2, InnerSet(inner2), Shape(s, inner2, contents2),
           \A p \in DOMAIN s : Fits(s, p, tx),
           IsLeaf(s, x) \/ Len(x) < m
    PROVE  Mid(s, inner2, contents2, k, m, tx)
<1>1. DOMAIN s = NodesFor(inner2) /\ DOMAIN s \subseteq Positions
  BY NodesArePositions DEF Shape
<1>2. ASSUME NEW p \in DOMAIN s, ~IsLeaf(s, p) PROVE Len(p) < Bits
  <2>1. p \in inner2
    BY <1>1, <1>2, LeafIsOuter
  <2> QED
    BY <2>1 DEF InnerSet
<1>3. DOMAIN t \subseteq Positions /\ TreeOK(t)
      /\ \A p \in DOMAIN t : IsNode(t[p]) /\ (IsLeaf(t, p) <=> Append(p, 2) \notin DOMAIN t)
  BY MidTree
<1>4. Marks(t, k, n, tx) /\ Nested(t)
  BY DEF Mid
<1>5. Marks(s, k, m, tx)
  BY <1>1, <1>2, <1>3, <1>4, ChangedMarks
<1>6. Nested(s)
  BY <1>1, <1>3, <1>4, ChangedNested
<1> QED
  BY <1>5, <1>6 DEF Mid

\* The leaf of k gets a key and a value, or loses them.
LEMMA LeafMid ==
    ASSUME NEW t, NEW inner, NEW contents, NEW k \in Keys, NEW n \in Nat, NEW tx \in BOOLEAN,
           Mid(t, inner, contents, k, n, tx), n <= Depth(t, k),
           NEW new, \A l \in Keys : l # k => new[l] = contents[l],
           \A l \in Present(contents) : l # k => ~On(l, Leaf(t, k)),
           NEW key, NEW val, \/ key = k /\ val \in Vals /\ new[k] = val
                             \/ key = None /\ val = 0 /\ new[k] = None,
           NEW array \in {None, key}, array # None => tx,
           NEW s, DiffersAt(s, t, Leaf(t, k)),
           Like(s[Leaf(t, k)], t[Leaf(t, k)], key, val, array, LeafLabel(key, val),
                t[Leaf(t, k)].inc, KeptBackup(t, Leaf(t, k), tx))
    PROVE  Mid(s, inner, new, k, Depth(t, k), tx) /\ Changed(s, t, Leaf(t, k), tx)
<1> DEFINE x == Leaf(t, k)
           m == Depth(t, k)
<1>1. InnerSet(inner) /\ DOMAIN t = NodesFor(inner) /\ DOMAIN t \subseteq Positions
      /\ \A p \in DOMAIN t : Fits(t, p, tx) /\ IsNode(t[p])
  BY MidTree
<1>2. /\ x \in NodesFor(inner) \ inner /\ x \in Positions /\ x # <<>> /\ Len(x) = m /\ On(k, x)
      /\ m \in 1..Bits
  BY <1>1, WalkEnds
<1>3. /\ DiffersAt(s, t, x)
      /\ Like(s[x], t[x], key, val, array, LeafLabel(key, val), t[x].inc, KeptBackup(t, x, tx))
  OBVIOUS
<1>4. Shape(t, inner, contents)
  BY DEF Mid
<1> HIDE DEF x, m
<1>5. val \in 0..(Width - 1) /\ key \in Keys \cup {None} /\ (key = k => val # None)
  <2>1. Width \in Nat \ {0} /\ 0 \in 0..(Width - 1)
    BY StakesFit
  <2>2. \A v \in Vals : v \in 0..(Width - 1) /\ v # None
    BY <2>1, StakesFit, NoneIsNoKey
  <2>3. k # None
    BY NoneIsNoKey
  <2>4. CASE key = k /\ val \in Vals
    BY <2>2, <2>4
  <2>5. CASE key = None /\ val = 0
    BY <2>1, <2>3, <2>5
  <2> QED
    BY <2>4, <2>5
<1>6. Shape(s, inner, new)
  <2>1. \A q \in DOMAIN t : q # Leaf(t, k) => s[q] = t[q]
    BY <1>3 DEF DiffersAt, x
  <2>2. s[x].key = key /\ s[x].val = val
    BY <1>3 DEF Like
  <2>3. \/ s[x].key = k /\ new[k] # None /\ s[x].val = new[k]
        \/ s[x].key = None /\ s[x].val = 0 /\ new[k] = None
    BY <1>5, <2>2
  <2>4. DOMAIN s = DOMAIN t
    BY <1>3 DEF DiffersAt
  <2> QED
    BY <1>1, <1>4, <2>1, <2>3, <2>4, ShapeChange DEF x
<1>7. IsLeaf(t, x) /\ \A p : IsLeaf(s, p) <=> IsLeaf(t, p)
  <2>1. IsLeaf(t, x)
    BY <1>1, <1>2, LeafIsOuter
  <2> QED
    BY <1>3, <2>1 DEF IsLeaf, DiffersAt
<1>8. Changed(s, t, x, tx)
  <2>1. ASSUME NEW q \in DOMAIN s, Above(x, q) PROVE FALSE
    <3>1. q \in NodesFor(inner)
      BY <1>1, <1>3 DEF DiffersAt
    <3> QED
      BY <1>1, <1>2, <2>1, <3>1, LeafEnds
  <2>2. ASSUME NEW q \in Positions, ~Under(x, q)
        PROVE  (q \in DOMAIN s <=> q \in DOMAIN t) /\ (q \in DOMAIN t => s[q] = t[q])
    <3>1. q # x
      BY <1>2, <2>2, UnderIs
    <3> QED
      BY <1>3, <3>1 DEF DiffersAt
  <2>3. s[x].inc = t[x].inc /\ s[x].bak = KeptBackup(t, x, tx)
    BY <1>3 DEF Like
  <2>4. x \in DOMAIN t /\ x \in DOMAIN s
    BY <1>1, <1>2, <1>3 DEF DiffersAt
  <2> QED
    BY <2>1, <2>2, <2>3, <2>4 DEF Changed
<1>9. ASSUME NEW p \in DOMAIN s PROVE Fits(s, p, tx)
  <2>1. p \in DOMAIN t
    BY <1>3 DEF DiffersAt
  <2>2. CASE p # x
    <3>1. s[p] = t[p] /\ Fits(t, p, tx)
      BY <1>1, <1>3, <2>1, <2>2 DEF DiffersAt
    <3> QED
      BY <1>7, <3>1 DEF Fits
  <2>3. CASE p = x
    <3>1. Fits(t, x, tx)
      BY <1>1, <2>1, <2>3
    <3>2. KeptBackup(t, x, tx) # NoTree =>
            /\ tx /\ x \in DOMAIN KeptBackup(t, x, tx) /\ KeptBackup(t, x, tx)[x].bak = NoTree
            /\ \A q \in DOMAIN KeptBackup(t, x, tx) : Under(x, q)
      BY <1>1, <1>2, <3>1, KeptFits
    <3>3. t[x].known = TRUE /\ t[x].inc \in BOOLEAN
      BY <3>1 DEF Fits, NodeOK
    <3>4. NodeOK(s[x])
      <4>1. s[x].known = TRUE /\ s[x].inc = t[x].inc /\ s[x].key = key /\ s[x].val = val
            /\ s[x].array = array
        BY <1>3, <3>3 DEF Like
      <4>2. s[x].known \in BOOLEAN /\ s[x].inc \in BOOLEAN /\ (s[x].known \/ (s[x].key = None /\ s[x].val = 0))
        BY <3>3, <4>1
      <4>3. s[x].key \in Keys \cup {None} /\ s[x].array \in Keys \cup {None} /\ s[x].val \in 0..(Width - 1)
        BY <1>5, <4>1
      <4> QED
        BY <4>2, <4>3 DEF NodeOK
    <3>5. IsNode(s[x]) /\ s[x].known = TRUE /\ s[x].array \in {None, s[x].key}
          /\ (s[x].array # None => tx) /\ s[x].label = LeafLabel(s[x].key, s[x].val) /\ s[x].bak = KeptBackup(t, x, tx)
      BY <1>3, <3>3 DEF Like
    <3> QED
      BY <1>2, <1>7, <2>3, <3>2, <3>4, <3>5 DEF Fits
  <2> QED
    BY <2>2, <2>3
<1>10. Mid(s, inner, new, k, m, tx)
  <2>1. IsLeaf(s, x)
    BY <1>7
  <2>2. m \in Nat /\ n <= Len(x) + 1 /\ Len(x) <= m
    <3>1. n <= m
      BY DEF m
    <3> QED
      BY <1>2, <3>1
  <2> QED
    BY <1>1, <1>2, <1>6, <1>8, <1>9, <2>1, <2>2, MidChanged
<1> QED
  BY <1>8, <1>10 DEF x, m

\* The leaf on the path of k is filled.
LEMMA FillMid ==
    ASSUME NEW t, NEW inner, NEW contents, NEW k \in Keys, NEW n \in Nat, NEW tx \in BOOLEAN,
           Mid(t, inner, contents, k, n, tx), n <= Depth(t, k),
           NEW new, \A l \in Keys : l # k => new[l] = contents[l],
           \A l \in Present(contents) : l # k => ~On(l, Leaf(t, k)),
           NEW key, NEW val, \/ key = k /\ val \in Vals /\ new[k] = val
                             \/ key = None /\ val = 0 /\ new[k] = None
    PROVE  LET s == Fill(t, Leaf(t, k), key, val, tx) IN
           Mid(s, inner, new, k, Depth(t, k), tx) /\ Changed(s, t, Leaf(t, k), tx)
<1> DEFINE x == Leaf(t, k)
           s == Fill(t, x, key, val, tx)
<1>1. x \in DOMAIN t /\ IsNode(t[x])
  <2>1. InnerSet(inner) /\ DOMAIN t = NodesFor(inner) /\ \A p \in DOMAIN t : IsNode(t[p])
    BY MidTree
  <2>2. x \in NodesFor(inner) \ inner
    BY <2>1, WalkEnds
  <2> QED
    BY <2>1, <2>2
<1>2. /\ DiffersAt(s, t, x)
      /\ Like(s[x], t[x], key, val, None, LeafLabel(key, val), t[x].inc, KeptBackup(t, x, tx))
  BY <1>1, FillIs
<1> HIDE DEF s
<1>3. None \in {None, key} /\ (None # None => tx)
  OBVIOUS
<1>4. Mid(s, inner, new, k, Depth(t, k), tx) /\ Changed(s, t, x, tx)
  BY <1>2, <1>3, LeafMid
<1> QED
  BY <1>4 DEF s

\* The leaf of k gets another value.
LEMMA AssignedMid ==
    ASSUME NEW t, NEW inner, NEW contents, NEW k \in Keys, NEW n \in Nat, NEW tx \in BOOLEAN,
           Mid(t, inner, contents, k, n, tx), n <= Depth(t, k), contents[k] # None,
           NEW v \in Vals, NEW new, new[k] = v, \A l \in Keys : l # k => new[l] = contents[l]
    PROVE  LET s == Assigned(t, Leaf(t, k), k, v, tx) IN
           Mid(s, inner, new, k, Depth(t, k), tx) /\ Changed(s, t, Leaf(t, k), tx)
<1> DEFINE x == Leaf(t, k)
           s == Assigned(t, x, k, v, tx)
<1>1. DOMAIN t = NodesFor(inner) /\ InnerSet(inner) /\ Shape(t, inner, contents)
  BY MidTree DEF Mid
<1>2. x \in NodesFor(inner) \ inner /\ x \in DOMAIN t /\ x \in Positions
  BY <1>1, WalkEnds
<1>3. IsNode(t[x]) /\ Fits(t, x, tx)
  BY ZenonT(30), <1>2, MidTree
<1>4. IsLeaf(t, x)
  BY <1>1, <1>2, LeafIsOuter
<1>5. t[x].key = k
  BY <1>1, LookupIs
<1>6. /\ DiffersAt(s, t, x)
      /\ Like(s[x], t[x], t[x].key, v, t[x].array, LeafLabel(k, v), t[x].inc,
              KeptBackup(t, x, tx))
  BY <1>2, <1>3, AssignedIs
<1> HIDE DEF s
<1>7. t[x].array \in {None, k} /\ (t[x].array # None => tx)
  BY <1>3, <1>4, <1>5 DEF Fits
<1>8. \A l \in Present(contents) : l # k => ~On(l, x)
  <2> HIDE DEF x
  <2>1. k # None
    BY NoneIsNoKey
  <2> QED
    BY <1>1, <1>2, <1>5, <2>1, LeafHolds
<1>9. /\ DiffersAt(s, t, x)
      /\ Like(s[x], t[x], k, v, t[x].array, LeafLabel(k, v), t[x].inc, KeptBackup(t, x, tx))
  BY <1>5, <1>6
<1> QED
  BY <1>7, <1>8, <1>9, LeafMid DEF s

\* The value is written to every node that has the array of the leaf.
LEMMA WrittenMid ==
    ASSUME NEW t, NEW inner, NEW contents, NEW k \in Keys, NEW tx \in BOOLEAN,
           Mid(t, inner, contents, k, 0, tx), contents[k] # None,
           NEW v \in Vals, NEW new, new[k] = v, \A l \in Keys : l # k => new[l] = contents[l]
    PROVE  LET x == Leaf(t, k)
               s == Assigned(t, x, k, v, tx)
               r == WrittenThrough(t, t[x].array, s, v)
           IN  Mid(r, inner, new, k, Depth(t, k), tx) /\ AlikeTrees(r, s)
<1> DEFINE x == Leaf(t, k)
           array == t[x].array
           s == Assigned(t, x, k, v, tx)
           r == WrittenThrough(t, array, s, v)
           m == Depth(t, k)
<1>1. /\ DOMAIN t = NodesFor(inner) /\ InnerSet(inner) /\ Shape(t, inner, contents)
      /\ \A p \in DOMAIN t : /\ IsNode(t[p]) /\ Fits(t, p, tx)
                             /\ IsLeaf(t, p) <=> p \notin inner
                             /\ IsLeaf(t, p) <=> Append(p, 2) \notin DOMAIN t
  BY MidTree DEF Mid
<1>2. /\ x \in NodesFor(inner) \ inner /\ x \in DOMAIN t /\ x \in Positions /\ On(k, x)
      /\ m \in 1..Bits /\ Len(x) = m
  BY <1>1, WalkEnds
<1>3. t[x].key = k
  BY <1>1, LookupIs
<1>4. /\ DiffersAt(s, t, x)
      /\ Like(s[x], t[x], t[x].key, v, t[x].array, LeafLabel(k, v), t[x].inc,
              KeptBackup(t, x, tx))
  BY <1>1, <1>2, AssignedIs
<1>5. Mid(s, inner, new, k, m, tx)
  <2>1. 0 \in Nat /\ 0 <= m
    BY <1>2
  <2> QED
    BY <2>1, AssignedMid
<1> HIDE DEF s
<1>6. /\ DOMAIN s = DOMAIN t /\ Shape(s, inner, new) /\ Marks(s, k, m, tx) /\ Nested(s)
      /\ \A p \in DOMAIN s : IsNode(s[p]) /\ Fits(s, p, tx) /\ (IsLeaf(s, p) <=> IsLeaf(t, p))
  BY <1>1, <1>5, MidTree DEF Mid
<1>7. /\ DOMAIN r = DOMAIN t
      /\ \A q \in DOMAIN t :
            IF array # None /\ t[q].array = array
            THEN Like(r[q], s[q], s[q].key, v, s[q].array, s[q].label, s[q].inc, s[q].bak)
            ELSE r[q] = s[q]
  BY <1>6, WrittenIs
<1> HIDE DEF r, x, m, array
<1>8. ASSUME NEW q \in DOMAIN t
      PROVE  /\ IsNode(r[q]) /\ r[q].known = s[q].known /\ r[q].key = s[q].key
             /\ r[q].array = s[q].array /\ r[q].label = s[q].label
             /\ r[q].inc = s[q].inc /\ r[q].bak = s[q].bak
             /\ \/ r[q].val = s[q].val
                \/ /\ ~IsLeaf(t, q) /\ s[q].bak # NoTree /\ s[q].array # None
                   /\ r[q].val = v
  <2>1. CASE ~(array # None /\ t[q].array = array)
    BY <1>6, <1>7, <2>1
  <2>2. CASE array # None /\ t[q].array = array
    <3>1. Like(r[q], s[q], s[q].key, v, s[q].array, s[q].label, s[q].inc, s[q].bak)
      BY <1>7, <2>2
    <3>2. CASE q = x
      <4>1. s[x].val = v
        BY <1>4 DEF Like
      <4> QED
        BY <3>1, <3>2, <4>1 DEF Like
    <3>3. CASE q # x
      <4>1. s[q] = t[q]
        BY <1>4, <3>3 DEF DiffersAt
      <4>2. array = k
        <5>1. IsLeaf(t, x) /\ Fits(t, x, tx)
          BY <1>1, <1>2
        <5> QED
          BY <1>3, <2>2, <5>1 DEF Fits, array
      <4>3. ~IsLeaf(t, q)
        <5> SUFFICES ASSUME IsLeaf(t, q) PROVE FALSE
          OBVIOUS
        <5>1. q \in NodesFor(inner) \ inner /\ Fits(t, q, tx)
          BY <1>1
        <5>2. t[q].key = k /\ k # None
          BY <2>2, <4>2, <5>1, NoneIsNoKey DEF Fits
        <5>3. On(k, q)
          BY <1>1, <5>1, <5>2, LeafHolds
        <5> QED
          BY <1>1, <3>3, <5>1, <5>3, OneLeaf DEF x
      <4>4. t[q].bak # NoTree
        <5>1. Fits(t, q, tx)
          BY <1>1
        <5> QED
          BY <2>2, <4>3, <5>1 DEF Fits
      <4> QED
        BY <2>2, <3>1, <4>1, <4>3, <4>4 DEF Like
    <3> QED
      BY <3>2, <3>3
  <2> QED
    BY <2>1, <2>2
<1>9. \A q : IsLeaf(r, q) <=> IsLeaf(t, q)
  BY <1>7 DEF IsLeaf
<1>10. v \in 0..(Width - 1)
  BY StakesFit
<1>11. Shape(r, inner, new)
  <2>1. DOMAIN r = NodesFor(inner) /\ inner \subseteq NodesFor(inner)
    BY <1>1, <1>7, NodesArePositions
  <2>2. ASSUME NEW q \in inner PROVE r[q].key = None
    BY <1>1, <1>6, <1>8, <2>1 DEF Shape
  <2>3. ASSUME NEW q \in NodesFor(inner) \ inner PROVE Holds(r[q], q, new)
    <3>1. Holds(s[q], q, new)
      BY <1>6 DEF Shape
    <3>2. r[q].key = s[q].key /\ r[q].val = s[q].val
      BY <1>1, <1>8
    <3> QED
      BY <3>1, <3>2 DEF Holds
  <2> QED
    BY <2>1, <2>2, <2>3 DEF Shape
<1>12. ASSUME NEW q \in DOMAIN r PROVE Fits(r, q, tx)
  <2>1. q \in DOMAIN t /\ Fits(s, q, tx) /\ (IsLeaf(r, q) <=> IsLeaf(t, q)) /\ (IsLeaf(s, q) <=> IsLeaf(t, q))
    BY <1>6, <1>7, <1>9
  <2>2. NodeOK(r[q])
    <3>1. NodeOK(s[q]) /\ s[q].known = TRUE
      BY <2>1 DEF Fits
    <3>2. r[q].known = TRUE /\ r[q].inc = s[q].inc /\ r[q].key = s[q].key /\ r[q].array = s[q].array
          /\ (r[q].val = s[q].val \/ r[q].val = v)
      BY <1>8, <2>1, <3>1
    <3>3. r[q].known \in BOOLEAN /\ r[q].inc \in BOOLEAN /\ (r[q].known \/ (r[q].key = None /\ r[q].val = 0))
      BY <3>1, <3>2 DEF NodeOK
    <3>4. r[q].key \in Keys \cup {None} /\ r[q].array \in Keys \cup {None} /\ r[q].val \in 0..(Width - 1)
      BY <1>10, <3>1, <3>2 DEF NodeOK
    <3> QED
      BY <3>3, <3>4 DEF NodeOK
  <2>3. IsLeaf(r, q) => r[q].val = s[q].val
    BY <1>8, <2>1
  <2>4. IsNode(r[q]) /\ r[q].known = s[q].known /\ r[q].key = s[q].key
        /\ r[q].array = s[q].array /\ r[q].label = s[q].label /\ r[q].bak = s[q].bak
    BY <1>8, <2>1
  <2> QED
    BY <2>1, <2>2, <2>3, <2>4 DEF Fits
<1>13. ASSUME NEW q \in DOMAIN t
       PROVE  Excused(r, q, k, m, tx) <=> Excused(s, q, k, m, tx)
  BY <1>8 DEF Excused
<1>14. ASSUME NEW q \in DOMAIN t, ~Quiet(r, q)
       PROVE  \/ ~Quiet(s, q)
              \/ \E i \in 1..2 : Append(q, i) \in DOMAIN t /\ s[Append(q, i)].bak # NoTree
  <2>1. ~IsLeaf(t, q) /\ ~IsLeaf(s, q) /\ ~IsLeaf(r, q)
    BY <1>6, <1>9, <1>14 DEF Quiet
  <2>2. Append(q, 1) \in DOMAIN t /\ Append(q, 2) \in DOMAIN t /\ 1 \in 1..2 /\ 2 \in 1..2
    BY <1>1, <2>1 DEF IsLeaf
  <2>3. CASE \E i \in 1..2 : s[Append(q, i)].bak # NoTree
    BY <1>14, <2>2, <2>3, BothKids, <1>1, <2>1
  <2>4. CASE \A i \in 1..2 : s[Append(q, i)].bak = NoTree
    <3>1. r[Append(q, 1)].val = s[Append(q, 1)].val /\ r[Append(q, 1)].label = s[Append(q, 1)].label
      BY <1>8, <2>2, <2>4
    <3>2. r[Append(q, 2)].val = s[Append(q, 2)].val /\ r[Append(q, 2)].label = s[Append(q, 2)].label
      BY <1>8, <2>2, <2>4
    <3>3. r[q].array = s[q].array /\ r[q].label = s[q].label /\ (r[q].val = s[q].val \/ s[q].array # None)
      BY <1>8
    <3> QED
      BY <1>14, <2>1, <3>1, <3>2, <3>3 DEF Quiet, Settled
  <2> QED
    BY <2>3, <2>4
<1>15. Marks(r, k, m, tx)
  <2>1. ASSUME NEW q \in DOMAIN t, NEW i \in 1..2, Append(q, i) \in DOMAIN t, s[Append(q, i)].bak # NoTree,
               NEW p \in DOMAIN t, Under(p, q)
        PROVE  Excused(s, p, k, m, tx)
    <3>1. p \in Positions /\ q \in Positions /\ Append(q, i) \in Positions
      <4>1. DOMAIN t \subseteq Positions
        BY <1>1, NodesArePositions
      <4> QED
        BY <2>1, <4>1
    <3>2. Above(p, Append(q, i))
      BY <2>1, <3>1, KidUnder
    <3> QED
      BY <1>6, <2>1, <3>2 DEF Marks
  <2>2. ASSUME NEW q \in DOMAIN t, ~Quiet(r, q) PROVE Excused(s, q, k, m, tx)
    <3>1. Under(q, q)
      BY <1>1, NodesArePositions, UnderIs
    <3> QED
      BY <1>6, <1>14, <2>1, <2>2, <3>1 DEF Marks
  <2>3. ASSUME NEW q \in DOMAIN t, r[q].bak # NoTree \/ ~Quiet(r, q), NEW p \in DOMAIN t, Above(p, q)
        PROVE  Excused(s, p, k, m, tx)
    <3>1. r[q].bak = s[q].bak
      BY <1>8
    <3>2. CASE s[q].bak # NoTree \/ ~Quiet(s, q)
      BY <1>6, <2>3, <3>2 DEF Marks
    <3>3. CASE ~Quiet(r, q) /\ Quiet(s, q)
      BY <1>14, <2>1, <2>3, <3>3 DEF Above
    <3> QED
      BY <2>3, <3>1, <3>2, <3>3
  <2> QED
    BY <1>7, <1>13, <2>2, <2>3 DEF Marks
<1>16. Nested(r)
  <2>1. BackupsOf(r) = BackupsOf(s)
    BY <1>6, <1>7, <1>8 DEF BackupsOf
  <2> QED
    BY <1>6, <2>1 DEF Nested
<1>17. AlikeTrees(r, s)
  <2>1. ASSUME NEW q \in DOMAIN t, s[q].bak = NoTree
        PROVE  /\ IsNode(r[q]) /\ r[q].inc \in BOOLEAN /\ r[q].known = s[q].known
               /\ r[q].key = s[q].key /\ r[q].val = s[q].val /\ r[q].label = s[q].label
    <3>1. s[q].inc \in BOOLEAN
      BY <1>6 DEF Fits, NodeOK
    <3> QED
      BY <1>8, <2>1, <3>1
  <2> QED
    BY <1>6, <1>7, <1>8, <2>1 DEF AlikeTrees
<1>18. Mid(r, inner, new, k, m, tx)
  BY <1>1, <1>11, <1>12, <1>15, <1>16 DEF Mid
<1> QED
  BY <1>17, <1>18 DEF r, s, x, m, array

\* A sum of stakes is a stake: it wraps around.
LEMMA ParentIs ==
    ASSUME NEW a \in 0..(Width - 1), NEW b \in 0..(Width - 1)
    PROVE  Parent(a, b) \in 0..(Width - 1)
<1>1. Width \in Nat \ {0} /\ a + b \in Nat
  BY StakesFit
<1> QED
  BY <1>1 DEF Parent

\* An ancestor is marked, or updated.
LEMMA AscendMid ==
    ASSUME NEW t, NEW inner, NEW contents, NEW k \in Keys, NEW m \in Nat, NEW tx \in BOOLEAN,
           Mid(t, inner, contents, k, m + 1, tx), NEW p \in inner, On(k, p), Len(p) = m
    PROVE  LET s == Ascend(t, p, tx) IN
           Mid(s, inner, contents, k, m, tx) /\ (tx => AlikeTrees(s, t))
<1> DEFINE s == Ascend(t, p, tx)
           l == t[Append(p, 1)]
           r == t[Append(p, 2)]
           sum == Parent(l.val, r.val)
           label == NodeLabel(sum, l.label, r.label)
<1>1. /\ DOMAIN t = NodesFor(inner) /\ DOMAIN t \subseteq Positions /\ InnerSet(inner)
      /\ Shape(t, inner, contents) /\ Marks(t, k, m + 1, tx) /\ Nested(t)
      /\ \A q \in DOMAIN t : /\ IsNode(t[q]) /\ t[q].known = TRUE /\ Fits(t, q, tx)
                             /\ IsLeaf(t, q) <=> q \notin inner
                             /\ IsLeaf(t, q) <=> Append(q, 2) \notin DOMAIN t
  BY MidTree DEF Mid
<1>2. p \in DOMAIN t /\ p \in Positions /\ ~IsLeaf(t, p)
      /\ \A i \in 1..2 : Append(p, i) \in DOMAIN t
  <2>1. p \in DOMAIN t /\ ~IsLeaf(t, p)
    BY <1>1, NodesArePositions
  <2> QED
    BY <1>1, <2>1, BothKids
<1>3. \A i \in 1..2 : t[Append(p, i)].known = TRUE
  BY <1>1, <1>2
<1>4. /\ DiffersAt(s, t, p)
      /\ IF tx THEN Like(s[p], t[p], t[p].key, t[p].val, t[p].array, t[p].label, TRUE, t[p].bak)
               ELSE Like(s[p], t[p], t[p].key, sum, None, label, t[p].inc, t[p].bak)
  BY <1>1, <1>2, <1>3, AscendIs
<1> HIDE DEF s
<1>5. DOMAIN s = DOMAIN t /\ \A q \in DOMAIN t : q # p => s[q] = t[q]
  BY <1>4 DEF DiffersAt
<1>6. \A q : IsLeaf(s, q) <=> IsLeaf(t, q)
  BY <1>5 DEF IsLeaf
<1>7. /\ IsNode(s[p]) /\ s[p].known = TRUE /\ s[p].key = t[p].key /\ s[p].bak = t[p].bak
      /\ s[p].inc \in {TRUE, t[p].inc} /\ s[p].array \in {None, t[p].array}
      /\ s[p].val \in {t[p].val, sum}
  <2>1. CASE tx
    BY <1>1, <1>2, <1>4, <2>1 DEF Like
  <2>2. CASE ~tx
    BY <1>1, <1>2, <1>4, <2>2 DEF Like
  <2> QED
    BY <2>1, <2>2
<1>8. Shape(s, inner, contents)
  <2>1. ASSUME NEW q \in inner PROVE s[q].key = None
    <3>1. q \in DOMAIN t /\ t[q].key = None
      BY <1>1, NodesArePositions DEF Shape
    <3> QED
      BY <1>5, <1>7, <3>1
  <2>2. ASSUME NEW q \in NodesFor(inner) \ inner PROVE Holds(s[q], q, contents)
    <3>1. s[q] = t[q]
      BY <1>1, <1>5
    <3> QED
      BY <1>1, <3>1 DEF Shape
  <2> QED
    BY <1>1, <1>5, <2>1, <2>2 DEF Shape
<1>9. ASSUME NEW q \in DOMAIN s PROVE Fits(s, q, tx)
  <2>1. q \in DOMAIN t /\ Fits(t, q, tx) /\ (IsLeaf(s, q) <=> IsLeaf(t, q))
    BY <1>1, <1>5, <1>6
  <2>2. CASE q # p
    <3>1. s[q] = t[q]
      BY <1>5, <2>1, <2>2
    <3> QED
      BY <2>1, <3>1 DEF Fits
  <2>3. CASE q = p
    <3>1. sum \in 0..(Width - 1)
      <4>1. Append(p, 1) \in DOMAIN t /\ Append(p, 2) \in DOMAIN t
        BY <1>2
      <4>2. l.val \in 0..(Width - 1) /\ r.val \in 0..(Width - 1)
        BY <1>1, <4>1 DEF Fits, NodeOK
      <4> QED
        BY <4>2, ParentIs
    <3>2. NodeOK(t[p])
      BY <2>1, <2>3 DEF Fits
    <3> HIDE DEF sum
    <3>3. s[p].known \in BOOLEAN /\ s[p].inc \in BOOLEAN /\ (s[p].known \/ (s[p].key = None /\ s[p].val = 0))
      BY <1>7, <3>2 DEF NodeOK
    <3>4. s[p].key \in Keys \cup {None} /\ s[p].array \in Keys \cup {None} /\ s[p].val \in 0..(Width - 1)
      BY <1>7, <3>1, <3>2 DEF NodeOK
    <3>5. NodeOK(s[p])
      BY <3>3, <3>4 DEF NodeOK
    <3> QED
      BY <1>2, <1>7, <2>1, <2>3, <3>5 DEF Fits
  <2> QED
    BY <2>2, <2>3
<1>10. ASSUME NEW q \in DOMAIN t, On(k, q), Len(q) < m + 1, q # p PROVE Len(q) < m
  <2>1. q \in Positions /\ Len(q) \in Nat
    BY <1>1, PositionIsSeq
  <2>2. Len(q) # m
    BY <1>2, <1>10, <2>1, OnUnder
  <2> QED
    BY <1>10, <2>1, <2>2
<1>11. CASE tx
  <2>1. s[p].val = t[p].val /\ s[p].array = t[p].array /\ s[p].label = t[p].label /\ s[p].inc = TRUE
    BY <1>4, <1>11 DEF Like
  <2>2. ASSUME NEW q \in DOMAIN t
        PROVE  s[q].val = t[q].val /\ s[q].array = t[q].array /\ s[q].label = t[q].label /\ s[q].bak = t[q].bak
    BY <1>5, <1>7, <2>1
  <2>3. ASSUME NEW q \in DOMAIN t, ~Quiet(s, q) PROVE ~Quiet(t, q)
    <3>1. ~IsLeaf(t, q)
      BY <1>6, <2>3 DEF Quiet
    <3>2. Append(q, 1) \in DOMAIN t /\ Append(q, 2) \in DOMAIN t
      BY <1>1, <3>1 DEF IsLeaf
    <3> QED
      BY <1>6, <2>2, <2>3, <3>2 DEF Quiet, Settled
  <2>4. ASSUME NEW q \in DOMAIN t, Excused(t, q, k, m + 1, tx) PROVE Excused(s, q, k, m, tx)
    <3>1. CASE q = p
      BY <1>11, <2>1, <3>1 DEF Excused
    <3>2. CASE q # p
      BY <1>5, <1>10, <2>4, <3>2 DEF Excused
    <3> QED
      BY <3>1, <3>2
  <2>5. Marks(s, k, m, tx)
    <3>1. ASSUME NEW q \in DOMAIN s, ~Quiet(s, q) PROVE Excused(s, q, k, m, tx)
      BY <1>1, <1>5, <2>3, <2>4, <3>1 DEF Marks
    <3>2. ASSUME NEW q \in DOMAIN s, s[q].bak # NoTree \/ ~Quiet(s, q), NEW x \in DOMAIN s, Above(x, q)
          PROVE  Excused(s, x, k, m, tx)
      <4>1. t[q].bak # NoTree \/ ~Quiet(t, q)
        BY <1>5, <2>2, <2>3, <3>2
      <4>2. Excused(t, x, k, m + 1, tx)
        BY <1>1, <1>5, <3>2, <4>1 DEF Marks
      <4> QED
        BY <1>5, <2>4, <4>2
    <3> QED
      BY <3>1, <3>2 DEF Marks
  <2>6. AlikeTrees(s, t)
    <3>1. ASSUME NEW q \in DOMAIN t
          PROVE  /\ IsNode(s[q]) /\ s[q].inc \in BOOLEAN /\ s[q].known = t[q].known
                 /\ s[q].key = t[q].key
      <4>1. t[q].inc \in BOOLEAN
        BY <1>1 DEF Fits, NodeOK
      <4> QED
        BY <1>1, <1>2, <1>5, <1>7, <2>1, <4>1
    <3> QED
      BY <1>5, <2>2, <3>1 DEF AlikeTrees
  <2>7. Nested(s)
    <3>1. BackupsOf(s) = BackupsOf(t)
      BY <1>5, <2>2 DEF BackupsOf
    <3> QED
      BY <1>1, <3>1 DEF Nested
  <2> QED
    BY <1>1, <1>8, <1>9, <2>5, <2>6, <2>7 DEF Mid, s
<1>12. CASE ~tx
  <2>1. s[p].val = sum /\ s[p].array = None /\ s[p].label = label
    BY <1>4, <1>12 DEF Like
  <2>2. Quiet(s, p)
    <3>1. Append(p, 1) \in DOMAIN t /\ Append(p, 2) \in DOMAIN t /\ Append(p, 1) # p /\ Append(p, 2) # p
      BY <1>2, TwoKids
    <3>2. s[Append(p, 1)] = l /\ s[Append(p, 2)] = r
      BY <1>5, <3>1
    <3> QED
      BY <2>1, <3>2 DEF Quiet, Settled
  <2>3. ASSUME NEW q \in DOMAIN s, ~Quiet(s, q) PROVE On(k, q) /\ Len(q) < m
    <3>1. q # p /\ q \in DOMAIN t /\ q \in Positions /\ ~IsLeaf(t, q)
      BY <1>1, <1>5, <1>6, <2>2, <2>3 DEF Quiet
    <3>2. Append(q, 1) \in DOMAIN t /\ Append(q, 2) \in DOMAIN t
          /\ Append(q, 1) \in Positions /\ Append(q, 2) \in Positions
      BY <1>1, <3>1 DEF IsLeaf
    <3>3. CASE p = Append(q, 1) \/ p = Append(q, 2)
      <4>1. Above(q, p)
        <5>1. 1 \in 1..2 /\ 2 \in 1..2
          OBVIOUS
        <5> QED
          BY <3>1, <3>2, <3>3, <5>1, KidUnder
      <4>2. Len(q) < Len(p)
        BY <1>2, <3>1, <4>1, UnderOrder
      <4>3. On(k, q)
        BY <1>2, <3>1, <4>1, OnUnder DEF Above
      <4> QED
        BY <4>2, <4>3
    <3>4. CASE p # Append(q, 1) /\ p # Append(q, 2)
      <4>1. s[q] = t[q] /\ s[Append(q, 1)] = t[Append(q, 1)] /\ s[Append(q, 2)] = t[Append(q, 2)]
        BY <1>5, <3>1, <3>2, <3>4
      <4>2. ~Quiet(t, q)
        BY <1>6, <2>3, <4>1 DEF Quiet, Settled
      <4>3. On(k, q) /\ Len(q) < m + 1
        BY <1>1, <1>12, <3>1, <4>2 DEF Marks, Excused
      <4> QED
        BY <1>10, <3>1, <4>3
    <3> QED
      BY <3>3, <3>4
  <2>4. \A q \in DOMAIN s : s[q].bak = NoTree
    BY <1>9, <1>12 DEF Fits
  <2>5. Marks(s, k, m, tx)
    <3>1. ASSUME NEW q \in DOMAIN s, ~Quiet(s, q), NEW x \in DOMAIN s, Above(x, q)
          PROVE  On(k, x) /\ Len(x) < m
      <4>1. x \in Positions /\ q \in Positions /\ On(k, q) /\ Len(q) < m
        BY <1>1, <1>5, <2>3, <3>1
      <4>2. On(k, x)
        BY <3>1, <4>1, OnUnder DEF Above
      <4>3. Len(x) < Len(q) /\ Len(x) \in Nat /\ Len(q) \in Nat
        BY <3>1, <4>1, UnderOrder, PositionIsSeq
      <4> QED
        BY <4>1, <4>2, <4>3
    <3> QED
      BY <2>3, <2>4, <3>1 DEF Marks, Excused
  <2>6. Nested(s)
    <3>1. BackupsOf(s) = {}
      BY <2>4 DEF BackupsOf
    <3>2. BackupsOf(s) \subseteq {}
      BY <3>1
    <3> QED
      BY <3>2 DEF Nested
  <2> QED
    BY <1>1, <1>8, <1>9, <1>12, <2>5, <2>6 DEF Mid, s
<1> QED
  BY <1>11, <1>12

\* Two keys part before the end of their paths.
LEMMA PathsPart ==
    ASSUME NEW k \in Keys, NEW l \in Keys, k # l, NEW p \in Positions, On(k, p), On(l, p)
    PROVE  Len(p) < Bits
<1>1. Len(p) \in 0..Bits /\ Bits \in Nat /\ Bits \in 0..Bits
  BY PositionIsSeq, PathsDiffer
<1> SUFFICES ASSUME Len(p) = Bits PROVE FALSE
  BY <1>1
<1>2. \A j \in Keys : At(j, Bits) = Path[j]
  <2> SUFFICES ASSUME NEW j \in Keys PROVE At(j, Bits) = Path[j]
    OBVIOUS
  <2>1. Path[j] \in [1..Bits -> {1, 2}] /\ Path[j] \in Positions
    BY <1>1, PathsDiffer DEF Positions
  <2>2. Len(Path[j]) = Bits
    BY <1>1, <2>1
  <2>3. Prefix(Path[j], Bits) = Path[j]
    BY <2>1, <2>2, PrefixOf
  <2>4. At(j, Bits) = Prefix(Path[j], Bits)
    BY <1>1 DEF At, Way
  <2> QED
    BY <2>3, <2>4
<1>3. Path[k] = Path[l]
  BY <1>2 DEF On
<1> QED
  BY <1>3, PathsDiffer

\* Another internal node: its children are nodes.
LEMMA MoreInner ==
    ASSUME NEW inner, InnerSet(inner), NEW x \in NodesFor(inner) \ inner, Len(x) < Bits
    PROVE  /\ InnerSet(inner \cup {x})
           /\ NodesFor(inner \cup {x}) = NodesFor(inner) \cup {Append(x, 1), Append(x, 2)}
           /\ Append(x, 1) \notin NodesFor(inner) /\ Append(x, 2) \notin NodesFor(inner)
<1>1. x \in Positions /\ x # <<>> /\ inner \subseteq Positions
  BY NodesArePositions DEF InnerSet
<1>2. ASSUME NEW p \in Positions, NEW i \in 1..2, Append(p, i) \in inner \cup {x}
      PROVE  p \in inner \cup {x}
  <2>1. Append(p, i) \in NodesFor(inner)
    BY <1>2, NodesArePositions
  <2> QED
    BY <2>1, NodesArePositions
<1>3. InnerSet(inner \cup {x})
  BY <1>1, <1>2 DEF InnerSet
<1>4. NodesFor(inner \cup {x}) = NodesFor(inner) \cup {Append(x, 1), Append(x, 2)}
  <2>1. \A i \in 1..2 : i = 1 \/ i = 2
    OBVIOUS
  <2>2. 1 \in 1..2 /\ 2 \in 1..2
    OBVIOUS
  <2> QED
    BY <2>1, <2>2 DEF NodesFor
<1>5. Append(x, 1) \notin NodesFor(inner) /\ Append(x, 2) \notin NodesFor(inner)
  <2>1. 1 \in 1..2 /\ 2 \in 1..2
    OBVIOUS
  <2> QED
    BY <1>1, <2>1, NodesArePositions
<1> QED
  BY <1>3, <1>4, <1>5

\* An internal node less: its children are no nodes.
LEMMA LessInner ==
    ASSUME NEW inner, InnerSet(inner), NEW x \in inner, x # <<>>,
           \A i \in 1..2 : Append(x, i) \notin inner
    PROVE  /\ InnerSet(inner \ {x})
           /\ NodesFor(inner \ {x}) = NodesFor(inner) \ {Append(x, 1), Append(x, 2)}
           /\ x \in NodesFor(inner \ {x})
<1>1. x \in Positions /\ inner \subseteq Positions
  BY DEF InnerSet
<1>2. InnerSet(inner \ {x})
  <2>1. ASSUME NEW p \in Positions, NEW i \in 1..2, Append(p, i) \in inner \ {x}
        PROVE  p \in inner \ {x}
    BY <2>1 DEF InnerSet
  <2> QED
    BY <1>1, <2>1 DEF InnerSet
<1>3. \A p \in inner, i \in 1..2, j \in 1..2 : Append(p, i) = Append(x, j) => p = x
  BY <1>1, KidsDiffer
<1>4. \A i \in 1..2 : Append(x, i) # <<>>
  BY <1>1, Kid
<1>5. \A i \in 1..2 : i = 1 \/ i = 2
  OBVIOUS
<1>6. 1 \in 1..2 /\ 2 \in 1..2
  OBVIOUS
<1>7. NodesFor(inner \ {x}) = NodesFor(inner) \ {Append(x, 1), Append(x, 2)}
  <2>1. ASSUME NEW q \in NodesFor(inner \ {x}) PROVE q \in NodesFor(inner) /\ q # Append(x, 1) /\ q # Append(x, 2)
    BY <1>3, <1>4, <1>6 DEF NodesFor
  <2>2. ASSUME NEW q \in NodesFor(inner), q # Append(x, 1), q # Append(x, 2) PROVE q \in NodesFor(inner \ {x})
    BY <1>5, <2>2 DEF NodesFor
  <2> QED
    BY <2>1, <2>2
<1>8. x \in NodesFor(inner \ {x})
  <2>1. x \in NodesFor(inner) /\ x # Append(x, 1) /\ x # Append(x, 2)
    BY <1>1, NodesArePositions, TwoKids
  <2> QED
    BY <1>7, <2>1
<1> QED
  BY <1>2, <1>7, <1>8
=============================================================================
