---------------------------- MODULE LleapService ----------------------------
(***************************************************************************)
(* The lleap service of one conode (service/service.go) with the           *)
(* persistent collections it keeps (service/struct.go).                    *)
(*                                                                         *)
(* Every websocket request runs in a goroutine of its own, here a handler. *)
(* Handlers share, without a lock,                                         *)
(*   ident, private, writers                                               *)
(*           Service.storage: the latest block of every identity, the        *)
(*           chains it has a private key for, and their writers              *)
(*   collOf  Service.collectionDB: which collection object a chain uses    *)
(*   mem     the contents of the collection objects                        *)
(* and, each behind a lock of its own, the bolt database (db, and saved,   *)
(* the copy of the storage that save() writes).  The skipchains are kept   *)
(* by the cisc identity service, which is external: genesis, log and       *)
(* proposed model it from the way service.go uses it.                      *)
(*                                                                         *)
(* pc says what a handler does next.  A step reads or writes shared state  *)
(* once; what the code does in between is local to its goroutine and part  *)
(* of the step.  A crash stops all handlers; newService/tryLoad then build *)
(* the memory anew from the database before the next request is taken.     *)
(***************************************************************************)
EXTENDS Naturals, Sequences, FiniteSets

CONSTANTS
    Handlers,     \* goroutines that serve requests
    Boot,         \* names the collection objects built by tryLoad
    Chains,       \* identifiers of skipchains
    Ghosts,       \* identifiers clients ask for that no skipchain has
    Keys, Vals,   \* keys and values; byte strings in the code
    EmptyKey,     \* the key bolt refuses to store (may be outside Keys)
    None,         \* nil
    Requests,     \* the requests clients send
    ColdRace,     \* TRUE if a request may arrive while the first request
                  \*   that uses a chain still opens its collection
    MaxArrivals, MaxCrashes, MaxFaults    \* bounds of a finite instance

Kinds == {"create", "set", "get"}

\* What can be stored as the writer of a chain: nothing, an RSA public key, a
\* public key of another kind, or bytes that are no public key.
WriterKeys  == {"rsa", "other", "junk"}
WriterKinds == WriterKeys \cup {"none"}

\* A request; fields its operation has no use for carry any value.
RequestType ==
    [op: Kinds, current: BOOLEAN, key: Keys, val: Vals, signed: BOOLEAN,
     writers: Seq(WriterKeys)]

ASSUME ConstantsOK ==
    /\ None \notin Handlers \cup {Boot} \cup Chains \cup Keys \cup Vals
    /\ Boot \notin Handlers
    /\ Ghosts \subseteq Chains
    /\ Requests \subseteq RequestType
    /\ ColdRace \in BOOLEAN
    /\ MaxArrivals \in Nat /\ MaxCrashes \in Nat /\ MaxFaults \in Nat

ASSUME NoneIsNoRecord ==
    /\ None \notin Nat
    /\ None \notin [idx: Nat, val: Vals]
    /\ None \notin [by: Handlers, key: Keys, val: Vals]

ASSUME NoneIsNoWriter == None \notin WriterKinds

Objs    == Handlers \cup {Boot}              \* collection objects of a chain
Records == [idx: Nat, val: Vals]             \* what a collection has for a key
Stored  == [Keys -> Records \cup {None}]     \* the contents of a collection
Idents  == [Chains -> Nat \cup {None}]       \* the index of the latest block
Writers == [Chains -> WriterKinds]           \* a writer that is missing is empty
Storage == [identities: Idents, private: SUBSET Chains, writers: Writers]
Blocks  == [key: Keys, val: Vals, signed: BOOLEAN]
Drafts  == [by: Handlers, key: Keys, val: Vals]

ReplyKinds == {"none", "error", "created", "stored", "block"}
Replies    == [kind: ReplyKinds, at: Nat]

Stages ==
    {"idle", "start",
     "identity", "private", "writer", "save",               \* CreateSkipchain
     "load", "install", "reread",                           \* getCollection
     "check", "index", "store", "add", "commit",            \* SetKeyValue
     "propose", "vote", "finish",
     "read", "fetch",                                       \* GetValue
     "reply", "panic"}                      \* the client has a reply, or never will

VARIABLES
    \* the handlers: program counter, request and local variables
    pc, req, gid, obj, idx, reply,
    \* memory of the service
    ident, private, writers, collOf, mem,
    \* the bolt database: its writer lock, the collections, the saved storage
    dbWriter, db, saved,
    \* cisc: writer in the genesis block, data blocks, pending proposal
    genesis, log, proposed,
    \* what clients know: chains they were told of, pairs they were confirmed
    announced, acked,
    \* how much of the bounds is used
    used

handlerVars == <<pc, req, gid, obj, idx, reply>>
storageVars == <<ident, private, writers>>
memoryVars  == <<storageVars, collOf, mem>>
diskVars    == <<dbWriter, db, saved>>
ciscVars    == <<genesis, log, proposed>>
clientVars  == <<announced, acked>>
sharedVars  == <<memoryVars, diskVars, ciscVars, clientVars, used>>
vars == <<handlerVars, sharedVars>>

NoReply == [kind |-> "none", at |-> 0]
Nothing == [k \in Keys |-> None]

-----------------------------------------------------------------------------
(* Parts of handlers.                                                      *)

Goto(h, stage) == pc' = [pc EXCEPT ![h] = stage]

\* The handler answers and ends.
Answer(h, kind, at) ==
    /\ Goto(h, "reply")
    /\ reply' = [reply EXCEPT ![h] = [kind |-> kind, at |-> at]]

\* The goroutine panics.  The HTTP server recovers it, so that the conode goes
\* on; the client gets no reply.
Panic(h) == Goto(h, "panic") /\ UNCHANGED reply

\* An external call fails; the bound keeps the instance finite.
Fault == used["faults"] < MaxFaults /\ used' = [used EXCEPT !["faults"] = @ + 1]

\* Storage["writer"] of the genesis block: only a single writer is stored.
StoredWriter(keys) == IF Len(keys) = 1 THEN keys[1] ELSE "none"

\* Another goroutine is inside coll.Add on the same collection object, whose
\* tree has no lock.
BeingChanged(c, o) ==
    \E g \in Handlers : pc[g] = "add" /\ gid[g] = c /\ obj[g] = o

\* What Get(key).Record() can find under k in object o: what it has, or
\* nothing when it walks through a part of the tree that is being changed.
Seen(c, o, k) ==
    {mem[c][o][k]} \cup {x \in {None} : BeingChanged(c, o)}

\* getCollection reads the map: the object to use, or one must be made.
EnterCollection(h, stage) ==
    IF collOf[gid[h]] = None
    THEN Goto(h, "load") /\ UNCHANGED obj
    ELSE Goto(h, stage) /\ obj' = [obj EXCEPT ![h] = collOf[gid[h]]]

AfterCollection(h) == IF req[h].op = "set" THEN "check" ELSE "read"

\* Handlers that are about to look up or make the collection of c.
Entering(c) ==
    {h \in Handlers : gid[h] = c /\ pc[h] \in {"start", "load", "install", "reread"}}

\* The block ProposeVote makes of h's proposal.  The merkle root is written
\* to Storage[KeyNewKey] and overwritten by the key, so it is left out.
ProposedBlock(h) ==
    [key |-> req[h].key, val |-> req[h].val, signed |-> req[h].signed]

Draft(h) == [by |-> h, key |-> req[h].key, val |-> req[h].val]

-----------------------------------------------------------------------------
Init ==
    /\ pc = [h \in Handlers |-> "idle"]
    /\ req = [h \in Handlers |-> None]
    /\ gid = [h \in Handlers |-> None]
    /\ obj = [h \in Handlers |-> None]
    /\ idx = [h \in Handlers |-> 0]
    /\ reply = [h \in Handlers |-> NoReply]
    /\ ident = [c \in Chains |-> None]
    /\ private = {}
    /\ writers = [c \in Chains |-> "none"]
    /\ collOf = [c \in Chains |-> None]
    /\ mem = [c \in Chains |-> [o \in Objs |-> Nothing]]
    /\ dbWriter = None
    /\ db = [c \in Chains |-> Nothing]
    /\ saved = [identities |-> ident, private |-> private, writers |-> writers]
    /\ genesis = [c \in Chains |-> None]
    /\ log = [c \in Chains |-> <<>>]
    /\ proposed = [c \in Chains |-> None]
    /\ announced = {}
    /\ acked = {}
    /\ used = [b \in {"arrivals", "crashes", "faults"} |-> 0]

(***************************************************************************)
(* Clients.  A client names a chain it was told of by a CreateSkipchain    *)
(* reply, or one that does not exist.  Identifiers are hashes: there is    *)
(* always one left, so an instance takes no more creations than it has.    *)
(***************************************************************************)
FreshIds == {c \in Chains \ Ghosts : genesis[c] = None}
Creating == {h \in Handlers : pc[h] = "start" /\ req[h].op = "create"}

Arrive(h, r, c) ==
    /\ pc[h] = "idle"
    /\ used["arrivals"] < MaxArrivals
    /\ IF r.op = "create"
       THEN c = None /\ Cardinality(FreshIds) > Cardinality(Creating)
       ELSE /\ c \in announced \cup Ghosts
            /\ ColdRace \/ collOf[c] # None \/ Entering(c) = {}
    /\ used' = [used EXCEPT !["arrivals"] = @ + 1]
    /\ Goto(h, "start")
    /\ req' = [req EXCEPT ![h] = r]
    /\ gid' = [gid EXCEPT ![h] = c]
    /\ reply' = [reply EXCEPT ![h] = NoReply]
    /\ UNCHANGED <<obj, idx, memoryVars, diskVars, ciscVars, clientVars>>

\* The goroutine ends: its reply is with the client, or it panicked.
Done(h) ==
    /\ pc[h] \in {"reply", "panic"}
    /\ Goto(h, "idle")
    /\ req' = [req EXCEPT ![h] = None]
    /\ gid' = [gid EXCEPT ![h] = None]
    /\ obj' = [obj EXCEPT ![h] = None]
    /\ idx' = [idx EXCEPT ![h] = 0]
    /\ reply' = [reply EXCEPT ![h] = NoReply]
    /\ UNCHANGED sharedVars

-----------------------------------------------------------------------------
(* CreateSkipchain.                                                        *)

\* CreateIdentityInternal makes a genesis block, whose hash is a new identifier.
CreateIdentity(h) ==
    /\ pc[h] = "start" /\ req[h].op = "create"
    /\ \/ /\ req[h].current
          /\ \E c \in FreshIds :
                /\ genesis' = [genesis EXCEPT ![c] = StoredWriter(req[h].writers)]
                /\ gid' = [gid EXCEPT ![h] = c]
          /\ Goto(h, "identity")
          /\ UNCHANGED <<reply, used>>
       \/ /\ req[h].current
          /\ Fault
          /\ Answer(h, "error", 0)
          /\ UNCHANGED <<gid, genesis>>
       \/ /\ ~req[h].current
          /\ Answer(h, "error", 0)
          /\ UNCHANGED <<gid, genesis, used>>
    /\ UNCHANGED <<req, obj, idx, memoryVars, diskVars, log, proposed, clientVars>>

(***************************************************************************)
(* The new chain is entered into the three maps of the storage, one after  *)
(* the other and without a lock.                                           *)
(***************************************************************************)
RegisterIdentity(h) ==
    /\ pc[h] = "identity"
    /\ ident' = [ident EXCEPT ![gid[h]] = 0]
    /\ Goto(h, "private")
    /\ UNCHANGED <<req, gid, obj, idx, reply, private, writers, collOf, mem, diskVars,
                   ciscVars, clientVars, used>>

RegisterPrivate(h) ==
    /\ pc[h] = "private"
    /\ private' = private \cup {gid[h]}
    /\ Goto(h, "writer")
    /\ UNCHANGED <<req, gid, obj, idx, reply, ident, writers, collOf, mem, diskVars,
                   ciscVars, clientVars, used>>

RegisterWriter(h) ==
    /\ pc[h] = "writer"
    /\ writers' = [writers EXCEPT ![gid[h]] = StoredWriter(req[h].writers)]
    /\ Goto(h, "save")
    /\ UNCHANGED <<req, gid, obj, idx, reply, ident, private, collOf, mem, diskVars,
                   ciscVars, clientVars, used>>

\* What save() writes: the three maps as they are.  They are encoded one after
\* the other, in the order they are filled: a chain that is entered meanwhile
\* may have an earlier part missing and a later one saved, but a chain without
\* an identity is not restored, and one without a private key takes no pair.
StorageOfNow == [identities |-> ident, private |-> private, writers |-> writers]

\* save() writes the whole storage, or fails, which is only logged.
SaveStorage(h) ==
    /\ pc[h] = "save"
    /\ dbWriter = None
    /\ \/ saved' = StorageOfNow /\ UNCHANGED used
       \/ Fault /\ UNCHANGED saved
    /\ announced' = announced \cup {gid[h]}
    /\ Answer(h, "created", 0)
    /\ UNCHANGED <<req, gid, obj, idx, memoryVars, dbWriter, db, ciscVars, acked>>

-----------------------------------------------------------------------------
(* SetKeyValue and GetValue up to the collection.                          *)

\* SetKeyValue's checks: the version, the identity, its private key and, if the chain has a
\* writer, the signature.  A public key that is not an RSA key panics.
Checkable(h) ==
    req[h].current /\ ident[gid[h]] # None /\ gid[h] \in private

Accepted(h) ==
    /\ Checkable(h)
    /\ \/ writers[gid[h]] = "none"
       \/ writers[gid[h]] = "rsa" /\ req[h].signed

CastPanics(h) == Checkable(h) /\ writers[gid[h]] = "other"

StartSet(h) ==
    /\ pc[h] = "start" /\ req[h].op = "set"
    /\ \/ Accepted(h) /\ EnterCollection(h, "check") /\ UNCHANGED reply
       \/ CastPanics(h) /\ Panic(h) /\ UNCHANGED obj
       \/ ~Accepted(h) /\ ~CastPanics(h) /\ Answer(h, "error", 0) /\ UNCHANGED obj
    /\ UNCHANGED <<req, gid, idx, sharedVars>>

StartGet(h) ==
    /\ pc[h] = "start" /\ req[h].op = "get"
    /\ IF ~req[h].current
       THEN Answer(h, "error", 0) /\ UNCHANGED obj
       ELSE EnterCollection(h, "read") /\ UNCHANGED reply
    /\ UNCHANGED <<req, gid, idx, sharedVars>>

\* Mutant: the collection starts empty.
LoadNothing(h) ==
    /\ pc[h] = "load"
    /\ dbWriter = None
    /\ obj' = [obj EXCEPT ![h] = h]
    /\ Goto(h, "install")
    /\ UNCHANGED <<req, gid, idx, reply, sharedVars>>

\* newCollectionDB: make the buckets, which takes bolt's writer lock, and read
\* what they have into a new collection object.  If one of the transactions
\* fails the object is nil.
LoadCollection(h) ==
    /\ pc[h] = "load"
    /\ dbWriter = None
    /\ \/ /\ mem' = [mem EXCEPT ![gid[h]][h] = db[gid[h]]]
          /\ obj' = [obj EXCEPT ![h] = h]
          /\ UNCHANGED used
       \/ /\ Fault
          /\ obj' = [obj EXCEPT ![h] = None]
          /\ UNCHANGED mem
    /\ Goto(h, "install")
    /\ UNCHANGED <<req, gid, idx, reply, storageVars, collOf, diskVars, ciscVars, clientVars>>

InstallCollection(h) ==
    /\ pc[h] = "install"
    /\ collOf' = [collOf EXCEPT ![gid[h]] = obj[h]]
    /\ Goto(h, "reread")
    /\ UNCHANGED <<req, gid, obj, idx, reply, storageVars, mem, diskVars, ciscVars, clientVars, used>>

\* getCollection reads the map again for what it returns.
RereadCollection(h) ==
    /\ pc[h] = "reread"
    /\ obj' = [obj EXCEPT ![h] = collOf[gid[h]]]
    /\ Goto(h, AfterCollection(h))
    /\ UNCHANGED <<req, gid, idx, reply, sharedVars>>

-----------------------------------------------------------------------------
(* SetKeyValue with the collection at hand.                                *)

\* Whoever reads the tree while Add changes it may follow a nil child.
TornRead(h) ==
    /\ pc[h] \in {"check", "read"}
    /\ BeingChanged(gid[h], obj[h])
    /\ Panic(h)
    /\ UNCHANGED <<req, gid, obj, idx, sharedVars>>

\* GetValue of a collection that could not be opened.
NilCollection(h) ==
    /\ pc[h] \in {"check", "read"}
    /\ obj[h] = None
    /\ Panic(h)
    /\ UNCHANGED <<req, gid, obj, idx, sharedVars>>

CheckKey(h) ==
    /\ pc[h] = "check" /\ obj[h] # None
    /\ \E found \in Seen(gid[h], obj[h], req[h].key) :
          IF found # None
          THEN Answer(h, "error", 0)                    \* cannot overwrite
          ELSE Goto(h, "index") /\ UNCHANGED reply
    /\ UNCHANGED <<req, gid, obj, idx, sharedVars>>

\* Mutant: the index of the block before the latest.
PreviousIndex(h) == ident[gid[h]] - 1

\* idb.LatestSkipblock.Index + 1, where the block is expected to go.
NextIndex(h) == ident[gid[h]] + 1

ReadIndex(h) ==
    /\ pc[h] = "index"
    /\ idx' = [idx EXCEPT ![h] = NextIndex(h)]
    /\ Goto(h, "store")
    /\ UNCHANGED <<req, gid, obj, reply, sharedVars>>

\* Store begins its transaction and puts the pair; bolt refuses an empty key.
BeginStore(h) ==
    /\ pc[h] = "store"
    /\ dbWriter = None
    /\ IF req[h].key = EmptyKey
       THEN Answer(h, "error", 0) /\ UNCHANGED dbWriter
       ELSE dbWriter' = h /\ Goto(h, "add") /\ UNCHANGED reply
    /\ UNCHANGED <<req, gid, obj, idx, memoryVars, db, saved, ciscVars, clientVars, used>>

\* Mutants: Add overwrites what it finds; a failed transaction is left open.
NoCollision(h)  == FALSE
KeepTransaction == UNCHANGED dbWriter

Collision(h) == mem[gid[h]][obj[h]][req[h].key] # None
RollBack     == dbWriter' = None

\* coll.Add inside the transaction: a key that is there is a collision, which
\* rolls the transaction back.
AddToCollection(h) ==
    /\ pc[h] = "add"
    /\ IF Collision(h)
       THEN /\ RollBack
            /\ Answer(h, "error", 0)
            /\ UNCHANGED mem
       ELSE /\ mem' = [mem EXCEPT ![gid[h]][obj[h]][req[h].key] =
                                    [idx |-> idx[h], val |-> req[h].val]]
            /\ Goto(h, "commit")
            /\ UNCHANGED <<dbWriter, reply>>
    /\ UNCHANGED <<req, gid, obj, idx, storageVars, collOf, db, saved, ciscVars, clientVars,
                   used>>

\* Mutant: the error of the transaction is ignored.
IgnoreFailure(h) == Goto(h, "propose") /\ UNCHANGED reply

FailStore(h) == Answer(h, "error", 0)

\* The transaction commits, or fails and is rolled back; the collection in
\* memory keeps the pair.
CommitStore(h) ==
    /\ pc[h] = "commit"
    /\ \/ /\ db' = [db EXCEPT ![gid[h]][req[h].key] = [idx |-> idx[h], val |-> req[h].val]]
          /\ dbWriter' = None
          /\ Goto(h, "propose")
          /\ UNCHANGED <<reply, used>>
       \/ Fault /\ RollBack /\ FailStore(h) /\ UNCHANGED db
    /\ UNCHANGED <<req, gid, obj, idx, memoryVars, saved, ciscVars, clientVars>>

\* ProposeSend makes the new pair the pending proposal of the chain, in place
\* of another one that is pending.
Propose(h) ==
    /\ pc[h] = "propose"
    /\ \/ /\ proposed' = [proposed EXCEPT ![gid[h]] = Draft(h)]
          /\ Goto(h, "vote")
          /\ UNCHANGED <<reply, used>>
       \/ Fault /\ Answer(h, "error", 0) /\ UNCHANGED proposed
    /\ UNCHANGED <<req, gid, obj, idx, memoryVars, diskVars, genesis, log, clientVars>>

\* ProposeVote signs this handler's proposal; cisc appends the pending one if
\* the signature is for it.
AppendBlock(h) ==
    /\ proposed[gid[h]] = Draft(h)
    /\ proposed' = [proposed EXCEPT ![gid[h]] = None]
    /\ log' = [log EXCEPT ![gid[h]] = Append(@, ProposedBlock(h))]

\* Mutant: the place the block was expected at.
ExpectedPlace(h) == idx[h]

\* resp.Data.Index
PlaceOfBlock(h) == Len(log[gid[h]]) + 1

Vote(h) ==
    /\ pc[h] = "vote"
    /\ \/ /\ AppendBlock(h)                             \* resp.Data is the block
          /\ idx' = [idx EXCEPT ![h] = PlaceOfBlock(h)]
          /\ Goto(h, "finish")
          /\ UNCHANGED <<reply, used>>
       \/ /\ proposed[gid[h]] # Draft(h)                \* the signature is wrong
          /\ Answer(h, "error", 0)
          /\ UNCHANGED <<idx, log, proposed, used>>
       \/ /\ Fault                                      \* an error, or no block
          /\ Answer(h, "error", 0)
          /\ AppendBlock(h) \/ UNCHANGED <<log, proposed>>
          /\ UNCHANGED idx
    /\ UNCHANGED <<req, gid, obj, memoryVars, diskVars, genesis, clientVars>>

\* Mutant: the new block does not become the latest one.
LatestAsBefore(h) == UNCHANGED ident

UpdateLatest(h) == ident' = [ident EXCEPT ![gid[h]] = idx[h]]

\* idb.LatestSkipblock = resp.Data; the storage is not saved.
FinishSet(h) ==
    /\ pc[h] = "finish"
    /\ UpdateLatest(h)
    /\ acked' = acked \cup
         {[chain |-> gid[h], at |-> idx[h], block |-> ProposedBlock(h)]}
    /\ Answer(h, "stored", idx[h])
    /\ UNCHANGED <<req, gid, obj, idx, private, writers, collOf, mem, diskVars, ciscVars,
                   announced, used>>

-----------------------------------------------------------------------------
(* GetValue with the collection at hand.                                   *)

ReadValue(h) ==
    /\ pc[h] = "read" /\ obj[h] # None
    /\ \E found \in Seen(gid[h], obj[h], req[h].key) :
          IF found = None
          THEN Answer(h, "error", 0) /\ UNCHANGED idx
          ELSE /\ idx' = [idx EXCEPT ![h] = found.idx]
               /\ Goto(h, "fetch")
               /\ UNCHANGED reply
    /\ UNCHANGED <<req, gid, obj, sharedVars>>

\* The block at the index the collection has for the key, with the link that
\* its predecessor has to it; asked from the roster, which may not answer.
FetchBlock(h) ==
    /\ pc[h] = "fetch"
    /\ \/ /\ ident[gid[h]] = None
          /\ Panic(h)
          /\ UNCHANGED used
       \/ /\ ident[gid[h]] # None
          /\ idx[h] \in DOMAIN log[gid[h]]
          /\ Answer(h, "block", idx[h])
          /\ UNCHANGED used
       \/ /\ ident[gid[h]] # None
          /\ idx[h] \notin DOMAIN log[gid[h]]
          /\ Answer(h, "error", 0)
          /\ UNCHANGED used
       \/ /\ ident[gid[h]] # None
          /\ Fault
          /\ Answer(h, "error", 0)
    /\ UNCHANGED <<req, gid, obj, idx, memoryVars, diskVars, ciscVars, clientVars>>

-----------------------------------------------------------------------------
(***************************************************************************)
(* The conode stops (a crash, or a fatal error of the Go runtime on two    *)
(* unsynchronised map accesses) and starts again: bolt drops a transaction *)
(* that did not commit, tryLoad restores the storage and opens the         *)
(* collection of every identity in it, or fails to for some of them.       *)
(***************************************************************************)
CollectionsOf(failed) ==
    /\ collOf' = [c \in Chains |->
                    IF saved.identities[c] = None \/ c \in failed THEN None ELSE Boot]
    /\ mem' = [c \in Chains |-> [o \in Objs |->
                 IF o = Boot /\ collOf'[c] = Boot THEN db[c] ELSE Nothing]]

\* Mutant: the writers are not restored.
RestoreUnwritten(failed) ==
    /\ ident' = saved.identities
    /\ private' = saved.private
    /\ writers' = [c \in Chains |-> "none"]
    /\ CollectionsOf(failed)

Restore(failed) ==
    /\ ident' = saved.identities
    /\ private' = saved.private
    /\ writers' = saved.writers
    /\ CollectionsOf(failed)

CrashAndRestart ==
    /\ used["crashes"] < MaxCrashes
    /\ pc' = [h \in Handlers |-> "idle"]
    /\ req' = [h \in Handlers |-> None]
    /\ gid' = [h \in Handlers |-> None]
    /\ obj' = [h \in Handlers |-> None]
    /\ idx' = [h \in Handlers |-> 0]
    /\ reply' = [h \in Handlers |-> NoReply]
    /\ dbWriter' = None
    /\ \/ /\ Restore({})
          /\ used' = [used EXCEPT !["crashes"] = @ + 1]
       \/ /\ used["faults"] < MaxFaults
          /\ \E failed \in SUBSET Chains : Restore(failed)
          /\ used' = [used EXCEPT !["crashes"] = @ + 1, !["faults"] = @ + 1]
    /\ UNCHANGED <<db, saved, ciscVars, clientVars>>

-----------------------------------------------------------------------------
HandlerStep(h) ==
    \/ CreateIdentity(h)
    \/ RegisterIdentity(h) \/ RegisterPrivate(h) \/ RegisterWriter(h) \/ SaveStorage(h)
    \/ StartSet(h) \/ StartGet(h)
    \/ LoadCollection(h) \/ InstallCollection(h) \/ RereadCollection(h)
    \/ TornRead(h) \/ NilCollection(h) \/ CheckKey(h) \/ ReadIndex(h)
    \/ BeginStore(h) \/ AddToCollection(h) \/ CommitStore(h)
    \/ Propose(h) \/ Vote(h) \/ FinishSet(h)
    \/ ReadValue(h) \/ FetchBlock(h)
    \/ Done(h)

Next ==
    \/ \E h \in Handlers, r \in Requests, c \in Chains \cup {None} : Arrive(h, r, c)
    \/ \E h \in Handlers : HandlerStep(h)
    \/ CrashAndRestart

Spec == Init /\ [][Next]_vars

\* Goroutines are scheduled, bolt's lock is freed by whoever holds it, and the
\* cisc service and the nodes of the roster answer, if only with an error.
Fairness == \A h \in Handlers : WF_vars(HandlerStep(h))

FairSpec == Spec /\ Fairness

(***************************************************************************)
(* What a client can see to, and an operator: the SetKeyValue requests of  *)
(* a chain come one after the other, the cisc service does not lose the    *)
(* answer to a vote that made a block, and the conode stops only while     *)
(* what it knows of the chains is what it saved.  Everything else of the   *)
(* environment stays: other chains, readers, failures, restarts.           *)
(***************************************************************************)
Storing(c) ==
    {h \in Handlers : /\ gid[h] = c /\ pc[h] \notin {"idle", "reply", "panic"}
                      /\ req[h].op = "set"}

TakeTurns == \A c \in Chains : \A g, h \in Storing(c) : g = h

VotesHeard ==
    log' # log => \E h \in Handlers : pc[h] = "vote" /\ pc'[h] = "finish"

StopsSaved ==
    used'["crashes"] # used["crashes"] =>
        ident = saved.identities /\ \A h \in Handlers : pc[h] # "finish"

OrderlyNext == Next /\ TakeTurns' /\ VotesHeard /\ StopsSaved

OrderlySpec == Init /\ [][OrderlyNext]_vars

-----------------------------------------------------------------------------
(***************************************************************************)
(* Properties.                                                             *)
(***************************************************************************)

HandlerTypes ==
    /\ pc \in [Handlers -> Stages]
    /\ req \in [Handlers -> Requests \cup {None}]
    /\ gid \in [Handlers -> Chains \cup {None}]
    /\ obj \in [Handlers -> Objs \cup {None}]
    /\ idx \in [Handlers -> Nat]
    /\ reply \in [Handlers -> Replies]

MemoryTypes ==
    /\ ident \in Idents /\ private \subseteq Chains /\ writers \in Writers
    /\ collOf \in [Chains -> Objs \cup {None}]
    /\ mem \in [Chains -> [Objs -> Stored]]

DiskTypes ==
    /\ dbWriter \in Handlers \cup {None}
    /\ db \in [Chains -> Stored]
    /\ saved \in Storage

CiscTypes ==
    /\ genesis \in [Chains -> WriterKinds \cup {None}]
    /\ log \in [Chains -> Seq(Blocks)]
    /\ proposed \in [Chains -> Drafts \cup {None}]

ClientTypes ==
    /\ announced \subseteq Chains
    /\ acked \subseteq [chain: Chains, at: Nat, block: Blocks]

UsedType ==
    /\ used \in [{"arrivals", "crashes", "faults"} -> Nat]
    /\ used["arrivals"] <= MaxArrivals
    /\ used["crashes"] <= MaxCrashes
    /\ used["faults"] <= MaxFaults

\* Every variable has its type: what goroutines pass through memory, the
\* database and the cisc service is what the next reader expects.
TypeOK ==
    HandlerTypes /\ MemoryTypes /\ DiskTypes /\ CiscTypes /\ ClientTypes /\ UsedType

\* The service as its clients see it: an append-only, write-once ledger.
Ledger == INSTANCE WriteOnceLedger WITH ledger <- log, confirmed <- acked

\* SetKeyValue adds a block only for a key its chain does not have, chains only
\* grow, and a client is told of a block only when and where it is on the chain.
ImplementsLedger == Ledger!Spec

\* "A key/value pair can only be stored once": no key is in two blocks of its
\* chain, whatever handlers, failures and restarts came in between.
KeysUnique == Ledger!KeysAreUnique

\* A pair that SetKeyValue confirmed is in the database and, whenever the chain
\* has an open collection, in the collection, with the value it was given.
AckedKept ==
    \A a \in acked :
        LET Has(coll) == coll[a.block.key] # None /\ coll[a.block.key].val = a.block.val
        IN  /\ Has(db[a.chain])
            /\ collOf[a.chain] # None => Has(mem[a.chain][collOf[a.chain]])

\* "Writers represent keys that are allowed to add new key/value pairs": a chain
\* created with an RSA writer carries only blocks of requests the writer signed.
\* It fails when the conode restarts from a storage that was saved, by another
\* handler, between two of the entries of the chain.
SignedBlocks ==
    \A c \in Chains : genesis[c] = "rsa" => \A i \in DOMAIN log[c] : log[c][i].signed

\* What does hold: as long as the conode was not restarted, or once the writer is
\* in the saved storage, an RSA chain carries only signed blocks, whatever
\* handlers, failures and restarts come in between.
SignedWhileSaved ==
    \A c \in Chains :
        genesis[c] = "rsa" /\ (saved.writers[c] = "rsa" \/ used["crashes"] = 0)
            => \A i \in DOMAIN log[c] : log[c][i].signed

\* GetValue "returns the corresponding block containing the value": a block it
\* answers is the block of the key that was asked for.
ReadsMatch ==
    \A h \in Handlers : reply[h].kind = "block" =>
        log[gid[h]][reply[h].at].key = req[h].key

\* While the service is used in an orderly way: the block a GetValue answers for
\* a confirmed pair is the block it was confirmed for, also when other calls
\* failed half-way and after restarts.
FindsItsBlock ==
    \A h \in Handlers, a \in acked :
        reply[h].kind = "block" /\ gid[h] = a.chain /\ req[h].key = a.block.key
            => reply[h].at = a.at

\* "Each call to SetKeyValue updates the Merkle-tree and creates a new block":
\* a stored key has a block or a handler that is about to make it.
StoredOnChain ==
    \A c \in Chains, k \in Keys : db[c][k] # None =>
        \/ \E i \in DOMAIN log[c] : log[c][i].key = k
        \/ \E h \in Handlers :
              pc[h] \in {"propose", "vote"} /\ gid[h] = c /\ req[h].key = k

\* No request waits forever.  It is answered or panics, which is no answer, with
\* another one waiting for bolt's lock or not, or the conode stops (the handler is
\* idle again).
NoRequestWaits ==
    \A h \in Handlers : pc[h] = "start" ~> pc[h] \in {"reply", "panic", "idle"}
=============================================================================
