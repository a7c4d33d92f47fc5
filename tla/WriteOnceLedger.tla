-------------------------- MODULE WriteOnceLedger --------------------------
(***************************************************************************)
(* What the lleap service promises its clients, with nothing of how it     *)
(* keeps the promise: every skipchain is an append-only sequence of blocks *)
(* in which no key occurs twice, and a SetKeyValue is confirmed only for   *)
(* a block that is on the chain, at the place it is confirmed for.         *)
(* LleapService implements this specification (see Ledger there).          *)
(***************************************************************************)
EXTENDS Naturals, Sequences

CONSTANTS Chains,       \* identifiers of skipchains
          Blocks        \* data blocks: records with at least a field key

VARIABLES ledger,       \* the blocks of every chain, after its genesis block
          confirmed     \* the blocks clients were told are stored

vars == <<ledger, confirmed>>

KeysOf(chain) == {chain[i].key : i \in DOMAIN chain}

Confirmations == [chain: Chains, at: Nat, block: Blocks]

TypeOK ==
    /\ ledger \in [Chains -> Seq(Blocks)]
    /\ confirmed \subseteq Confirmations

Init ==
    /\ ledger = [c \in Chains |-> <<>>]
    /\ confirmed = {}

\* A key is stored: a new block for a key its chain does not have.
Store(c, b) ==
    /\ b.key \notin KeysOf(ledger[c])
    /\ ledger' = [ledger EXCEPT ![c] = Append(@, b)]
    /\ UNCHANGED confirmed

\* A client is told that its key is stored in block i of the chain.
Confirm(c, i) ==
    /\ i \in DOMAIN ledger[c]
    /\ confirmed' = confirmed \cup {[chain |-> c, at |-> i, block |-> ledger[c][i]]}
    /\ UNCHANGED ledger

Next ==
    \E c \in Chains :
        \/ \E b \in Blocks : Store(c, b)
        \/ \E i \in DOMAIN ledger[c] : Confirm(c, i)

Spec == Init /\ [][Next]_vars

(***************************************************************************)
(* What follows for clients: a key names one block of its chain, and what  *)
(* was confirmed stays as it was confirmed.                                *)
(***************************************************************************)
KeysAreUnique ==
    \A c \in Chains : \A i, j \in DOMAIN ledger[c] :
        ledger[c][i].key = ledger[c][j].key => i = j

ConfirmedIsStored ==
    \A f \in confirmed : /\ f.at \in DOMAIN ledger[f.chain]
                         /\ ledger[f.chain][f.at] = f.block
=============================================================================
