--------------------------- MODULE MC_Collection ---------------------------
(***************************************************************************)
(* Values for the constants of Collection.                                 *)
(***************************************************************************)
EXTENDS SharedArrays, TLC

CONSTANTS k1, k2

\* The keys part at the third bit: a split or a removal goes over two levels.
Hash == k1 :> <<1, 1, 1>> @@ k2 :> <<1, 1, 2>>

Near == [k \in Keys |-> Hash[k]]
=============================================================================
