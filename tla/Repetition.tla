----------------------------- MODULE Repetition -----------------------------
(***************************************************************************)
(* Facts for the proofs about steps that are repeated a number of times:   *)
(* listeners of an event that are called one after the other, or entries of*)
(* a sequence that are looked at in their order.                           *)
(***************************************************************************)
EXTENDS Naturals, WellFoundedInduction, TLAPS

\* A set of numbers up to m with 0 and all successors has all of them.
LEMMA UpTo ==
    ASSUME NEW m \in Nat, NEW S, 0 \in S, \A n \in 0..m : n < m /\ n \in S => n + 1 \in S
    PROVE  \A n \in 0..m : n \in S
<1> DEFINE Before == OpToRel(<, Nat)
           Missing == (0..m) \ S
<1> SUFFICES ASSUME Missing # {} PROVE FALSE
  OBVIOUS
<1>1. IsWellFoundedOn(Before, Nat)
  BY NatLessThanWellFounded
<1>2. Missing \subseteq Nat
  OBVIOUS
<1> HIDE DEF Before
<1>3. PICK x \in Missing : \A y \in Missing : <<y, x>> \notin Before
  <2> HIDE DEF Missing
  <2> QED
    BY <1>1, <1>2, WFMin
<1>4. x \in 1..m /\ x - 1 \in 0..m
  OBVIOUS
<1>5. <<x - 1, x>> \in Before
  BY <1>4 DEF Before, OpToRel
<1>6. x - 1 \in S
  BY <1>3, <1>4, <1>5
<1> QED
  BY <1>4, <1>6

\* g starts with start, and each of its next m values is a step from the one before.
IsRepetition(g, m, start, step) ==
    g[0] = start /\ \A i \in 1..m : g[i] = step[<<i, g[i - 1]>>]

\* A step that is defined on every value of a type can be repeated up to m times.
LEMMA Repeats ==
    ASSUME NEW m \in Nat, NEW T, NEW start \in T, NEW step \in [(1..m) \X T -> T]
    PROVE  \E g \in [0..m -> T] : IsRepetition(g, m, start, step)
<1> USE DEF IsRepetition
<1> DEFINE Reaches(g, n) == IsRepetition(g, n, start, step)
           Defined == {n \in 0..m : \E g \in [0..n -> T] : Reaches(g, n)}
<1>1. 0 \in Defined
  <2> DEFINE g == [i \in 0..0 |-> start]
  <2>1. g \in [0..0 -> T] /\ Reaches(g, 0) /\ 0 \in 0..m
    OBVIOUS
  <2> QED
    BY <2>1
<1>2. ASSUME NEW n \in 0..m, n < m, n \in Defined
      PROVE  n + 1 \in Defined
  <2>1. PICK g \in [0..n -> T] : Reaches(g, n)
    BY <1>2
  <2> DEFINE next == step[<<n + 1, g[n]>>]
             h == [i \in 0..(n + 1) |-> IF i <= n THEN g[i] ELSE next]
  <2>2. n + 1 \in 1..m /\ n \in 0..n /\ g[n] \in T
    BY <1>2
  <2>3. next \in T
    BY <2>2
  <2>4. h \in [0..(n + 1) -> T]
    <3> HIDE DEF next
    <3> QED
      BY <2>1, <2>3
  <2>5. h[n + 1] = next /\ \A i \in 0..n : h[i] = g[i]
    <3> HIDE DEF next
    <3> QED
      OBVIOUS
  <2> HIDE DEF h
  <2>6. h[0] = start
    BY <2>1, <2>5
  <2>7. ASSUME NEW i \in 1..(n + 1) PROVE h[i] = step[<<i, h[i - 1]>>]
    <3>1. CASE i = n + 1
      BY <2>2, <2>5, <3>1
    <3>2. CASE i \in 1..n
      <4>1. h[i] = g[i] /\ h[i - 1] = g[i - 1] /\ g[i] = step[<<i, g[i - 1]>>]
        BY <2>1, <2>5, <3>2
      <4> QED
        BY <4>1
    <3> QED
      BY <3>1, <3>2
  <2>8. Reaches(h, n + 1) /\ n + 1 \in 0..m
    BY <2>2, <2>6, <2>7
  <2> HIDE DEF Reaches
  <2> QED
    BY <2>4, <2>8
<1>3. m \in 0..m /\ \A n \in 0..m : n \in Defined
  <2> HIDE DEF Defined
  <2> QED
    BY <1>1, <1>2, UpTo
<1> QED
  BY <1>3
=============================================================================
