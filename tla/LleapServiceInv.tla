-------------------------- MODULE LleapServiceInv --------------------------
(* The inductive invariants of LleapService.                               *)
EXTENDS LleapService

(***************************************************************************)
(* What the local variables of a handler hold where its program counter    *)
(* is.  TypeOK alone is not inductive: that reading the index of the       *)
(* latest block yields a number needs that the chain was found registered  *)
(* earlier in the handler, and that the service never unregisters one.     *)
(***************************************************************************)
Creation == {"identity", "private", "writer", "save"}
Opening == {"load", "install", "reread"}
Setting == {"check", "index", "store", "add", "commit", "propose", "vote", "finish"}
Getting == {"read", "fetch"}

Fits(h) ==
    /\ pc[h] # "idle" => req[h] \in Requests
    /\ pc[h] = "start" /\ req[h].op # "create" => gid[h] \in Chains
    /\ pc[h] \in Creation \cup Opening \cup Setting \cup Getting => gid[h] \in Chains
    /\ pc[h] = "install" => obj[h] \in {h, None}
    /\ pc[h] \in (Setting \cup Getting) \ {"check", "read"} => obj[h] \in Objs
    /\ pc[h] \in Setting \/ (pc[h] \in Opening /\ req[h].op = "set")
          => ident[gid[h]] # None

HandlerOK == \A h \in Handlers : Fits(h)

TypeInv == TypeOK /\ HandlerOK

-----------------------------------------------------------------------------
(***************************************************************************)
(* Why no key gets two blocks, when nobody races for a cold collection.    *)
(*                                                                         *)
(* A handler owns its key from the moment coll.Add accepted it until the   *)
(* block is made.  While it does, the key is in the collection in use, so  *)
(* Add refuses it to everybody else; afterwards it is on the chain and in  *)
(* the database, and every collection opened later has it from there.      *)
(***************************************************************************)
OnChain(c, k) == \E i \in DOMAIN log[c] : log[c][i].key = k

Owns(h) == pc[h] \in {"commit", "propose", "vote"}

\* Only one handler at a time is about to open a collection that is not open.
OneOpens ==
    \A g, h \in Handlers :
        /\ pc[g] \in {"start"} \cup Opening /\ pc[h] \in {"start"} \cup Opening
        /\ gid[g] = gid[h] /\ gid[h] \in Chains /\ collOf[gid[h]] = None
        => g = h

\* An open collection has every key of the database, which has every key of
\* the chain.
InStep ==
    \A c \in Chains, k \in Keys :
        /\ OnChain(c, k) => db[c][k] # None
        /\ collOf[c] # None /\ db[c][k] # None => mem[c][collOf[c]][k] # None

Sound(h) ==
    /\ pc[h] \in {"load", "install"} => collOf[gid[h]] = None
    /\ pc[h] = "install" /\ obj[h] # None =>
          \A k \in Keys : db[gid[h]][k] # None => mem[gid[h]][h][k] # None
    /\ pc[h] \in Setting /\ obj[h] # None => obj[h] = collOf[gid[h]]
    /\ Owns(h) => /\ mem[gid[h]][obj[h]][req[h].key] # None
                  /\ ~OnChain(gid[h], req[h].key)
    /\ pc[h] \in {"propose", "vote"} => db[gid[h]][req[h].key] # None
    /\ pc[h] = "finish" => /\ idx[h] \in DOMAIN log[gid[h]]
                           /\ log[gid[h]][idx[h]] = ProposedBlock(h)

\* No two handlers own the same key of a chain.
OneOwner ==
    \A g, h \in Handlers :
        Owns(g) /\ Owns(h) /\ gid[g] = gid[h] /\ req[g].key = req[h].key => g = h

LedgerInv ==
    /\ OneOpens /\ InStep /\ OneOwner /\ KeysUnique
    /\ \A h \in Handlers : Sound(h)

\* The inductive invariant the proofs rest on: the owner of a key is the only
\* one, and memory, database and chain never disagree on who that is.
Inductive == TypeInv /\ LedgerInv
-----------------------------------------------------------------------------
(***************************************************************************)
(* Why a chain has signed blocks only, while its writer is in memory.  It  *)
(* gets there before a client knows the chain; a SetKeyValue passes its    *)
(* checks only with the writer's signature; and what a restart brings back *)
(* is what was in memory.  Until the first restart, and while the saved    *)
(* storage has the writer, memory has it.                                  *)
(***************************************************************************)
WriterKept ==
    \A c \in Chains :
        /\ genesis[c] = None =>
              /\ ident[c] = None /\ saved.identities[c] = None /\ writers[c] = "none"
              /\ c \notin announced
        /\ c \in Ghosts => genesis[c] = None
        /\ c \notin announced => log[c] = <<>>
        /\ saved.writers[c] # "none" => saved.writers[c] = writers[c]
        /\ used["crashes"] = 0 /\ c \in announced => writers[c] = genesis[c]
        /\ writers[c] = "rsa" => \A i \in DOMAIN log[c] : log[c][i].signed

\* No two handlers create the same chain.
OneCreates ==
    \A g, h \in Handlers :
        pc[g] \in Creation /\ pc[h] \in Creation /\ gid[g] = gid[h] => g = h

Signs(h) ==
    /\ pc[h] \in Creation =>
          /\ genesis[gid[h]] # None /\ gid[h] \notin announced
          /\ genesis[gid[h]] = StoredWriter(req[h].writers)
    /\ pc[h] \in {"identity", "private", "writer"} => writers[gid[h]] = "none"
    /\ pc[h] = "save" => writers[gid[h]] = genesis[gid[h]]
    /\ pc[h] = "start" /\ req[h].op = "set" => gid[h] \in announced \cup Ghosts
    /\ pc[h] \in Setting \/ (pc[h] \in Opening /\ req[h].op = "set") =>
          /\ gid[h] \in announced
          /\ writers[gid[h]] = "rsa" => req[h].signed

WritersInv ==
    /\ TypeInv /\ WriterKept /\ OneCreates
    /\ \A h \in Handlers : Signs(h)

-----------------------------------------------------------------------------
(***************************************************************************)
(* Why a confirmed pair is kept.  For a key of the database, the open      *)
(* collection has the same record; the record is never written again,      *)
(* because its key is in the collection, and the restart reads it back.    *)
(***************************************************************************)
Agree ==
    \A c \in Chains, k \in Keys :
        collOf[c] # None /\ db[c][k] # None => mem[c][collOf[c]][k] = db[c][k]

Keeping(h) ==
    /\ pc[h] = "install" /\ obj[h] # None =>
          \A k \in Keys : db[gid[h]][k] # None => mem[gid[h]][h][k] = db[gid[h]][k]
    /\ pc[h] = "commit" =>
          mem[gid[h]][obj[h]][req[h].key] = [idx |-> idx[h], val |-> req[h].val]
    /\ pc[h] \in {"propose", "vote", "finish"} => db[gid[h]][req[h].key].val = req[h].val

\* What was confirmed is on the chain, and the database has its value.
Confirmed(a) ==
    /\ a.at \in DOMAIN log[a.chain] /\ log[a.chain][a.at] = a.block
    /\ db[a.chain][a.block.key].val = a.block.val

KeptInv ==
    /\ Inductive /\ Agree
    /\ \A h \in Handlers : Keeping(h)
    /\ \A a \in acked : Confirmed(a)

-----------------------------------------------------------------------------
(***************************************************************************)
(* Why orderly use finds the block of a confirmed pair.  The identity of a *)
(* chain knows the last block whenever a SetKeyValue reads it, because the *)
(* handler before has told it; so a block gets the place that was stored   *)
(* with its key.                                                           *)
(***************************************************************************)
Writing == {"store", "add", "commit", "propose", "vote"}

\* The identity of a chain knows its last block, unless a handler is about to
\* tell it.
LatestIsLast ==
    \A c \in Chains : ident[c] # None =>
        \/ ident[c] = Len(log[c])
        \/ \E h \in Handlers : pc[h] = "finish" /\ gid[h] = c

Placed(h) ==
    /\ pc[h] \in Setting => req[h].op = "set"
    /\ pc[h] \in Writing => idx[h] = Len(log[gid[h]]) + 1
    /\ pc[h] = "finish" => idx[h] = Len(log[gid[h]])
    /\ pc[h] \in {"propose", "vote", "finish"} =>
          db[gid[h]][req[h].key] = [idx |-> idx[h], val |-> req[h].val]

\* A GetValue that found the record of its key, or has answered its block.
Finding(h) == pc[h] = "fetch" \/ reply[h].kind = "block"
Looking(h) == (pc[h] = "read" /\ obj[h] # None) \/ Finding(h)

\* It looks into the collection in use, and the record it found is still there.
Found(h) ==
    /\ Looking(h) => gid[h] \in Chains /\ obj[h] # None /\ obj[h] = collOf[gid[h]]
    /\ Finding(h) => /\ mem[gid[h]][obj[h]][req[h].key] # None
                     /\ mem[gid[h]][obj[h]][req[h].key].idx = idx[h]
    /\ reply[h].kind = "block" => pc[h] = "reply" /\ reply[h].at = idx[h]

OrderlyInv ==
    /\ KeptInv /\ WritersInv /\ TakeTurns /\ LatestIsLast
    /\ \A h \in Handlers : Placed(h) /\ Found(h)
    /\ \A a \in acked : db[a.chain][a.block.key].idx = a.at
=============================================================================
