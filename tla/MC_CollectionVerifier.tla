------------------------ MODULE MC_CollectionVerifier ------------------------
(***************************************************************************)
(* Values for the constants of CollectionVerifier.                         *)
(***************************************************************************)
EXTENDS CollectionVerifier, TLC

CONSTANTS k1, k2, k3

\* k1 and k2 part at the fourth bit, k3 parts from them at the second: a
\* removal collapses one level, two or three, and may stop halfway.
Hash == k1 :> <<1, 1, 1, 1>> @@ k2 :> <<1, 1, 1, 2>> @@ k3 :> <<1, 2, 1, 1>>

Deep == [k \in Keys |-> Hash[k]]

\* NewVerifier, and a collection that keeps what is next to k3.
Nothing == [masks |-> {}, all |-> FALSE]
AroundK3 == [masks |-> {<<1, 2>>}, all |-> FALSE]

TwoScopes == {Nothing, AroundK3}

Op(kind, k, l) == [kind |-> kind, key |-> k, to |-> l, val |-> CHOOSE v \in Vals : TRUE]

FewUpdates == {Op("add", k1, k1), Op("remove", k1, k1), Op("move", k2, k3)}
=============================================================================
