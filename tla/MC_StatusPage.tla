--------------------------- MODULE MC_StatusPage ---------------------------
(* Two chains that share a server, each with two servers to ask.           *)
EXTENDS StatusPage, TLC

CONSTANTS c1, c2, s1, s2

Lists   == c1 :> <<s1, s2>> @@ c2 :> <<s2, s1>>
Rosters == c1 :> {s1, s2} @@ c2 :> {s2}

\* A user who waits, one who does not, and connections that fail silently.
Every == [hurried : BOOLEAN, lossy : BOOLEAN] \ {[hurried |-> TRUE, lossy |-> TRUE]}
Calm  == {[hurried |-> FALSE, lossy |-> FALSE]}
=============================================================================
