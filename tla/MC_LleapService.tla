------------------------- MODULE MC_LleapService -------------------------
(* Instances of LleapService for TLC: which requests clients send.         *)
EXTENDS LleapServiceInv, TLC

CONSTANTS h1, h2, c1, c2, c3, k1, k2, k3, v1, v2

Plain == [op |-> "get", current |-> TRUE, key |-> k1, val |-> v1, signed |-> FALSE,
          writers |-> <<>>]

Create(keys) == [Plain EXCEPT !.op = "create", !.writers = keys]
Set(k, v, s)    == [Plain EXCEPT !.op = "set", !.key = k, !.val = v, !.signed = s]
Get(k)          == [Plain EXCEPT !.op = "get", !.key = k]
Old(r)          == [r EXCEPT !.current = FALSE]

\* One chain with a writer; two values compete for a key, and an unsigned request
\* is sent.
Contended ==
    {Create(<<"rsa">>), Set(k1, v1, TRUE), Set(k1, v2, TRUE), Set(k2, v1, TRUE),
     Set(k1, v1, FALSE), Get(k1)}

\* Two keys, one value.
Keyed == {Create(<<>>), Get(k1), Get(k2)} \cup {Set(k, v1, FALSE) : k \in {k1, k2}}

\* Every kind of request; k3 is the empty key.
Everything ==
    Keyed \cup {Create(keys) : keys \in {<<"other">>, <<"junk">>, <<"rsa", "rsa">>}}
          \cup {Set(k3, v1, FALSE),
                Old(Create(<<>>)), Old(Get(k1)), Old(Set(k1, v1, FALSE))}

\* Chains with an RSA writer; signed and unsigned requests for one key.
Guarded == {Create(<<"rsa">>), Set(k1, v1, TRUE), Set(k1, v1, FALSE)}
=============================================================================
