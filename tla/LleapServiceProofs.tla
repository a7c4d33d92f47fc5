------------------------- MODULE LleapServiceProofs -------------------------
(***************************************************************************)
(* Proofs about LleapService, for every value of its constants: its        *)
(* variables keep their types; it keeps a write-once ledger as long as no  *)
(* request races for a collection that is not open; what it confirmed is   *)
(* kept; what needs the writer's signature is signed, while the writer is  *)
(* kept; and, when the service is used in an orderly way, a confirmed pair *)
(* is found with its block.                                                *)
(***************************************************************************)
EXTENDS LleapServiceInv, TLAPS

LEMMA RequestFields ==
    ASSUME NEW r \in Requests
    PROVE  /\ r.op \in Kinds /\ r.current \in BOOLEAN /\ r.signed \in BOOLEAN
           /\ r.key \in Keys /\ r.val \in Vals
           /\ r.writers \in Seq(WriterKeys)
BY ConstantsOK DEF RequestType

LEMMA StoredWriterKind ==
    ASSUME NEW r \in Requests
    PROVE  StoredWriter(r.writers) \in WriterKinds
BY RequestFields DEF StoredWriter, WriterKinds

LEMMA ProposedBlockType ==
    ASSUME NEW h \in Handlers, req[h] \in Requests
    PROVE  ProposedBlock(h) \in Blocks /\ ProposedBlock(h).key = req[h].key
BY RequestFields DEF ProposedBlock, Blocks

LEMMA FaultType == UsedType /\ (Fault \/ UNCHANGED used) => UsedType'
BY ConstantsOK DEF UsedType, Fault

\* A handler still fits when its local variables are left alone and no chain
\* loses its identity.
Keeps(g) ==
    /\ pc'[g] = pc[g] /\ req'[g] = req[g] /\ gid'[g] = gid[g] /\ obj'[g] = obj[g]
    /\ \A c \in Chains : ident[c] # None => ident'[c] # None

LEMMA FrameFits ==
    ASSUME NEW g \in Handlers, Fits(g), Keeps(g)
    PROVE  Fits(g)'
BY DEF Fits, Keeps, Creation, Opening, Setting, Getting

LEMMA GotoType ==
    ASSUME HandlerTypes, NEW h \in Handlers, NEW stage \in Stages, Goto(h, stage)
    PROVE  pc' \in [Handlers -> Stages]
BY DEF HandlerTypes, Goto

LEMMA AnswerType ==
    ASSUME HandlerTypes, NEW h \in Handlers, NEW kind \in ReplyKinds, NEW at \in Nat,
           Answer(h, kind, at)
    PROVE  pc' \in [Handlers -> Stages] /\ reply' \in [Handlers -> Replies]
BY DEF HandlerTypes, Answer, Panic, Goto, Stages, Replies

\* Putting a record under a key leaves a collection well-typed.
LEMMA PutType ==
    ASSUME NEW f \in Stored, NEW k \in Keys, NEW i \in Nat, NEW v \in Vals
    PROVE  [f EXCEPT ![k] = [idx |-> i, val |-> v]] \in Stored
BY DEF Stored, Records

LEMMA EnterType ==
    ASSUME HandlerTypes, MemoryTypes, NEW h \in Handlers, gid[h] \in Chains,
           NEW stage \in Stages, EnterCollection(h, stage)
    PROVE  /\ pc' \in [Handlers -> Stages]
           /\ obj' \in [Handlers -> Objs \cup {None}]
           /\ pc'[h] \in {"load", stage}
           /\ pc'[h] # "load" => obj'[h] \in Objs
BY ZenonT(30) DEF HandlerTypes, MemoryTypes, EnterCollection, Goto, Stages

\* An identity is not nil, whatever block of its chain is its latest.
LEMMA IdentIsSome == \A n \in Nat : n # None
BY NoneIsNoRecord

LEMMA TypeInit == Init => TypeInv
<1> USE ConstantsOK DEF Init
<1>1. Init => HandlerTypes
  BY DEF HandlerTypes, Stages, Replies, ReplyKinds, NoReply
<1>2. Init => MemoryTypes /\ DiskTypes /\ CiscTypes /\ ClientTypes
  BY DEF MemoryTypes, DiskTypes, CiscTypes, ClientTypes, Nothing, Stored, Idents, Writers,
     Storage, WriterKinds
<1>3. Init => UsedType
  BY DEF UsedType
<1>4. Init => HandlerOK
  BY DEF HandlerOK, Fits, Creation, Opening, Setting, Getting
<1>5. QED  BY <1>1, <1>2, <1>3, <1>4 DEF TypeInv, TypeOK

LEMMA TypeArrive ==
    ASSUME TypeInv, NEW h \in Handlers, NEW r \in Requests,
           NEW c \in Chains \cup {None}, Arrive(h, r, c)
    PROVE  TypeInv'
<1> USE DEF Arrive, Goto
<1>1. HandlerTypes'
  BY DEF TypeInv, TypeOK, HandlerTypes, Stages, Replies, ReplyKinds, NoReply
<1>2. (MemoryTypes /\ DiskTypes /\ CiscTypes /\ ClientTypes)'
  BY DEF TypeInv, TypeOK, MemoryTypes, DiskTypes, CiscTypes, ClientTypes,
     memoryVars, storageVars, diskVars, ciscVars, clientVars
<1>3. UsedType'
  BY ConstantsOK DEF TypeInv, TypeOK, UsedType
<1>4. HandlerOK'
  <2> SUFFICES ASSUME NEW g \in Handlers PROVE Fits(g)'
    BY DEF HandlerOK
  <2>1. CASE g = h
    BY <2>1, ConstantsOK DEF TypeInv, TypeOK, HandlerTypes, ClientTypes, Fits,
       Creation, Opening, Setting, Getting
  <2>2. CASE g # h
    BY <2>2, FrameFits DEF TypeInv, TypeOK, HandlerTypes, HandlerOK, Keeps, memoryVars, storageVars
  <2>3. QED  BY <2>1, <2>2
<1>5. QED  BY <1>1, <1>2, <1>3, <1>4 DEF TypeInv, TypeOK

LEMMA TypeCreateIdentity ==
    ASSUME TypeInv, NEW h \in Handlers, CreateIdentity(h)
    PROVE  TypeInv'
<1> USE DEF TypeInv, TypeOK, HandlerOK
<1>1. HandlerTypes'
  BY ConstantsOK, GotoType, AnswerType DEF HandlerTypes, Fits, CreateIdentity, Stages,
     ReplyKinds, Replies, Creation, Opening, Setting, Getting, FreshIds
<1>2. (MemoryTypes /\ DiskTypes /\ ClientTypes)'
  BY DEF CreateIdentity, sharedVars, MemoryTypes, DiskTypes, ClientTypes, memoryVars, storageVars,
     diskVars, clientVars
<1>3. CiscTypes'
  <2>1. StoredWriter(req[h].writers) \in WriterKinds
    BY StoredWriterKind DEF Fits, CreateIdentity
  <2>2. QED  BY <2>1 DEF CiscTypes, CreateIdentity
<1>4. UsedType'
  BY ConstantsOK, FaultType DEF HandlerTypes, UsedType, Fits, Creation, Opening, Setting, Getting,
     CreateIdentity
<1>5. Fits(h)'
  BY ConstantsOK DEF HandlerTypes, MemoryTypes, Fits, CreateIdentity, Goto, Answer, Panic,
     Creation, Opening, Setting, Getting, memoryVars, storageVars, sharedVars, FreshIds
<1>6. ASSUME NEW g \in Handlers, g # h
      PROVE  Fits(g)'
  <2>1. Keeps(g)
    BY <1>6, ConstantsOK DEF Keeps, CreateIdentity, HandlerTypes, MemoryTypes, Goto,
       Answer, Panic, memoryVars, storageVars, sharedVars, FreshIds
  <2>2. QED  BY <1>6, <2>1, FrameFits
<1>7. QED  BY <1>1, <1>2, <1>3, <1>4, <1>5, <1>6

LEMMA TypeRegisterIdentity ==
    ASSUME TypeInv, NEW h \in Handlers, RegisterIdentity(h)
    PROVE  TypeInv'
<1> USE DEF TypeInv, TypeOK, HandlerOK
<1>1. HandlerTypes'
  BY ConstantsOK, GotoType DEF HandlerTypes, Fits, RegisterIdentity, Stages, Creation
<1>2. (DiskTypes /\ CiscTypes /\ ClientTypes /\ UsedType)'
  BY DEF RegisterIdentity, DiskTypes, CiscTypes, ClientTypes, UsedType, diskVars, ciscVars, clientVars
<1>3. MemoryTypes'
  BY ConstantsOK DEF HandlerTypes, MemoryTypes, Fits, Creation, RegisterIdentity, Idents, Writers
<1>4. Fits(h)'
  BY DEF HandlerTypes, Fits, RegisterIdentity, Goto, Creation, Opening, Setting, Getting
<1>5. ASSUME NEW g \in Handlers, g # h
      PROVE  Fits(g)'
  <2>1. Keeps(g)
    BY <1>5, IdentIsSome DEF Keeps, RegisterIdentity, HandlerTypes, MemoryTypes, Idents, Goto, Fits, Creation
  <2>2. QED  BY <1>5, <2>1, FrameFits
<1>6. QED  BY <1>1, <1>2, <1>3, <1>4, <1>5

LEMMA TypeRegisterPrivate ==
    ASSUME TypeInv, NEW h \in Handlers, RegisterPrivate(h)
    PROVE  TypeInv'
<1> USE DEF TypeInv, TypeOK, HandlerOK
<1>1. HandlerTypes'
  BY ConstantsOK, GotoType DEF HandlerTypes, Fits, RegisterPrivate, Stages, Creation
<1>2. (DiskTypes /\ CiscTypes /\ ClientTypes /\ UsedType)'
  BY DEF RegisterPrivate, DiskTypes, CiscTypes, ClientTypes, UsedType, diskVars, ciscVars, clientVars
<1>3. MemoryTypes'
  BY ConstantsOK DEF HandlerTypes, MemoryTypes, Fits, Creation, RegisterPrivate, Idents, Writers
<1>4. Fits(h)'
  BY DEF HandlerTypes, Fits, RegisterPrivate, Goto, Creation, Opening, Setting, Getting
<1>5. ASSUME NEW g \in Handlers, g # h
      PROVE  Fits(g)'
  <2>1. Keeps(g)
    BY <1>5 DEF Keeps, RegisterPrivate, HandlerTypes, MemoryTypes, Idents, Goto, Fits, Creation
  <2>2. QED  BY <1>5, <2>1, FrameFits
<1>6. QED  BY <1>1, <1>2, <1>3, <1>4, <1>5

LEMMA TypeRegisterWriter ==
    ASSUME TypeInv, NEW h \in Handlers, RegisterWriter(h)
    PROVE  TypeInv'
<1> USE DEF TypeInv, TypeOK, HandlerOK
<1>1. HandlerTypes'
  BY ConstantsOK, GotoType DEF HandlerTypes, Fits, RegisterWriter, Stages, Creation
<1>2. (DiskTypes /\ CiscTypes /\ ClientTypes /\ UsedType)'
  BY DEF RegisterWriter, DiskTypes, CiscTypes, ClientTypes, UsedType, diskVars, ciscVars, clientVars
<1>3. MemoryTypes'
  BY StoredWriterKind DEF HandlerTypes, MemoryTypes, Fits, Creation, RegisterWriter, Idents, Writers
<1>4. Fits(h)'
  BY DEF HandlerTypes, Fits, RegisterWriter, Goto, Creation, Opening, Setting, Getting
<1>5. ASSUME NEW g \in Handlers, g # h
      PROVE  Fits(g)'
  <2>1. Keeps(g)
    BY <1>5 DEF Keeps, RegisterWriter, HandlerTypes, MemoryTypes, Idents, Goto, Fits, Creation
  <2>2. QED  BY <1>5, <2>1, FrameFits
<1>6. QED  BY <1>1, <1>2, <1>3, <1>4, <1>5

LEMMA TypeSaveStorage ==
    ASSUME TypeInv, NEW h \in Handlers, SaveStorage(h)
    PROVE  TypeInv'
<1> USE DEF TypeInv, TypeOK, HandlerOK
<1>1. HandlerTypes'
  BY ConstantsOK, GotoType, AnswerType DEF HandlerTypes, Fits, SaveStorage, Stages,
     ReplyKinds, Replies, Creation, Opening, Setting, Getting
<1>2. (MemoryTypes /\ CiscTypes)'
  BY DEF SaveStorage, sharedVars, MemoryTypes, CiscTypes, memoryVars, storageVars, ciscVars
<1>3. DiskTypes'
  BY DEF DiskTypes, SaveStorage, StorageOfNow, Storage, MemoryTypes
<1>4. ClientTypes'
  BY ConstantsOK DEF HandlerTypes, ClientTypes, Fits, Creation, Opening, Setting, Getting,
     SaveStorage
<1>5. UsedType'
  BY ConstantsOK, FaultType DEF HandlerTypes, UsedType, Fits, Creation, Opening, Setting, Getting,
     SaveStorage
<1>6. Fits(h)'
  BY ConstantsOK DEF HandlerTypes, MemoryTypes, Fits, SaveStorage, Goto, Answer, Panic,
     Creation, Opening, Setting, Getting, memoryVars, storageVars, sharedVars
<1>7. ASSUME NEW g \in Handlers, g # h
      PROVE  Fits(g)'
  <2>1. Keeps(g)
    BY <1>7, ConstantsOK DEF Keeps, SaveStorage, HandlerTypes, MemoryTypes, Goto,
       Answer, Panic, memoryVars, storageVars, sharedVars
  <2>2. QED  BY <1>7, <2>1, FrameFits
<1>8. QED  BY <1>1, <1>2, <1>3, <1>4, <1>5, <1>6, <1>7

LEMMA TypeStartSet ==
    ASSUME TypeInv, NEW h \in Handlers, StartSet(h)
    PROVE  TypeInv'
<1> USE DEF TypeInv, TypeOK, HandlerOK
<1>1. HandlerTypes'
  BY ConstantsOK, GotoType, AnswerType, EnterType DEF HandlerTypes, Fits, StartSet, Stages,
     ReplyKinds, Panic
<1>2. (MemoryTypes /\ DiskTypes /\ CiscTypes /\ ClientTypes /\ UsedType)'
  BY DEF StartSet, sharedVars, MemoryTypes, DiskTypes, CiscTypes, ClientTypes, UsedType,
     memoryVars, storageVars, diskVars, ciscVars, clientVars
<1>3. Fits(h)'
  <2>1. CASE Accepted(h) /\ EnterCollection(h, "check")
    <3>1. pc'[h] \in {"load", "check"} /\ (pc'[h] # "load" => obj'[h] \in Objs)
      BY <2>1, EnterType DEF StartSet, Fits, Stages
    <3>2. ident'[gid'[h]] # None /\ req' = req /\ gid' = gid
      BY <2>1 DEF Accepted, Checkable, StartSet, sharedVars, memoryVars, storageVars
    <3>3. QED  BY <3>1, <3>2 DEF Fits, StartSet, Creation, Opening, Setting, Getting
  <2>2. CASE pc'[h] \in {"reply", "panic"}
    BY <2>2 DEF Fits, StartSet, Creation, Opening, Setting, Getting
  <2>3. QED  BY <2>1, <2>2 DEF StartSet, Answer, Panic, Goto, HandlerTypes
<1>4. ASSUME NEW g \in Handlers, g # h
      PROVE  Fits(g)'
  <2>1. Keeps(g)
    BY <1>4, ConstantsOK DEF Keeps, StartSet, HandlerTypes, MemoryTypes, Goto, Answer, Panic,
       memoryVars, storageVars, sharedVars, EnterCollection
  <2>2. QED  BY <1>4, <2>1, FrameFits
<1>5. QED  BY <1>1, <1>2, <1>3, <1>4

LEMMA TypeStartGet ==
    ASSUME TypeInv, NEW h \in Handlers, StartGet(h)
    PROVE  TypeInv'
<1> USE DEF TypeInv, TypeOK, HandlerOK
<1>1. HandlerTypes'
  BY ConstantsOK, GotoType, AnswerType, EnterType DEF HandlerTypes, Fits, StartGet, Stages,
     ReplyKinds
<1>2. (MemoryTypes /\ DiskTypes /\ CiscTypes /\ ClientTypes /\ UsedType)'
  BY DEF StartGet, sharedVars, MemoryTypes, DiskTypes, CiscTypes, ClientTypes, UsedType,
     memoryVars, storageVars, diskVars, ciscVars, clientVars
<1>3. Fits(h)'
  <2>1. CASE EnterCollection(h, "read")
    <3>1. pc'[h] \in {"load", "read"} /\ (pc'[h] # "load" => obj'[h] \in Objs)
      BY <2>1, EnterType DEF StartGet, Fits, Stages
    <3>2. QED  BY <3>1 DEF Fits, StartGet, Creation, Opening, Setting, Getting
  <2>2. CASE pc'[h] \in {"reply", "panic"}
    BY <2>2 DEF Fits, StartGet, Creation, Opening, Setting, Getting
  <2>3. QED  BY <2>1, <2>2 DEF StartGet, Answer, Panic, Goto, HandlerTypes
<1>4. ASSUME NEW g \in Handlers, g # h
      PROVE  Fits(g)'
  <2>1. Keeps(g)
    BY <1>4, ConstantsOK DEF Keeps, StartGet, HandlerTypes, MemoryTypes, Goto, Answer, Panic,
       memoryVars, storageVars, sharedVars, EnterCollection
  <2>2. QED  BY <1>4, <2>1, FrameFits
<1>5. QED  BY <1>1, <1>2, <1>3, <1>4

LEMMA TypeLoadCollection ==
    ASSUME TypeInv, NEW h \in Handlers, LoadCollection(h)
    PROVE  TypeInv'
<1> USE DEF TypeInv, TypeOK, HandlerOK
<1>1. HandlerTypes'
  BY ConstantsOK, GotoType DEF HandlerTypes, LoadCollection, Stages, Objs
<1>2. (DiskTypes /\ CiscTypes /\ ClientTypes)'
  BY DEF LoadCollection, DiskTypes, CiscTypes, ClientTypes, diskVars, ciscVars, clientVars
<1>3. MemoryTypes'
  <2>1. gid[h] \in Chains
    BY DEF Fits, Opening, LoadCollection
  <2>2. db[gid[h]] \in Stored
    BY <2>1 DEF DiskTypes
  <2>3. mem' \in [Chains -> [Objs -> Stored]]
    <3>1. h \in Objs /\ mem[gid[h]] \in [Objs -> Stored]
      BY <2>1 DEF MemoryTypes, Objs
    <3>2. [mem[gid[h]] EXCEPT ![h] = db[gid[h]]] \in [Objs -> Stored]
      BY <2>2, <3>1
    <3>3. \/ mem' = [mem EXCEPT ![gid[h]] = [mem[gid[h]] EXCEPT ![h] = db[gid[h]]]]
          \/ mem' = mem
      BY DEF LoadCollection
    <3>4. QED  BY <2>1, <3>2, <3>3 DEF MemoryTypes
  <2>4. QED  BY <2>3 DEF MemoryTypes, LoadCollection, storageVars
<1>4. UsedType'
  BY FaultType DEF LoadCollection
<1>5. Fits(h)'
  BY ConstantsOK DEF HandlerTypes, Fits, LoadCollection, Goto, Creation, Opening, Setting,
     Getting, storageVars
<1>6. ASSUME NEW g \in Handlers, g # h
      PROVE  Fits(g)'
  <2>1. Keeps(g)
    BY <1>6 DEF Keeps, LoadCollection, HandlerTypes, Goto, storageVars
  <2>2. QED  BY <1>6, <2>1, FrameFits
<1>7. QED  BY <1>1, <1>2, <1>3, <1>4, <1>5, <1>6

LEMMA TypeInstallCollection ==
    ASSUME TypeInv, NEW h \in Handlers, InstallCollection(h)
    PROVE  TypeInv'
<1> USE DEF TypeInv, TypeOK, HandlerOK
<1>1. HandlerTypes'
  BY GotoType DEF HandlerTypes, InstallCollection, Stages
<1>2. (DiskTypes /\ CiscTypes /\ ClientTypes /\ UsedType)'
  BY DEF InstallCollection, DiskTypes, CiscTypes, ClientTypes, UsedType,
     diskVars, ciscVars, clientVars
<1>3. MemoryTypes'
  BY DEF HandlerTypes, MemoryTypes, InstallCollection, storageVars
<1>4. Fits(h)'
  BY DEF HandlerTypes, Fits, InstallCollection, Goto, Creation, Opening, Setting, Getting,
     storageVars
<1>5. ASSUME NEW g \in Handlers, g # h
      PROVE  Fits(g)'
  <2>1. Keeps(g)
    BY <1>5 DEF Keeps, InstallCollection, HandlerTypes, MemoryTypes, Goto, storageVars
  <2>2. QED  BY <1>5, <2>1, FrameFits
<1>6. QED  BY <1>1, <1>2, <1>3, <1>4, <1>5

LEMMA TypeRereadCollection ==
    ASSUME TypeInv, NEW h \in Handlers, RereadCollection(h)
    PROVE  TypeInv'
<1> USE DEF TypeInv, TypeOK, HandlerOK
<1>1. HandlerTypes'
  BY ConstantsOK, GotoType, AnswerType DEF HandlerTypes, Fits, RereadCollection, Stages,
     ReplyKinds, Replies, Creation, Opening, Setting, Getting, AfterCollection, MemoryTypes
<1>2. (MemoryTypes /\ DiskTypes /\ CiscTypes /\ ClientTypes /\ UsedType)'
  BY DEF RereadCollection, sharedVars, MemoryTypes, DiskTypes, CiscTypes, ClientTypes,
     UsedType, memoryVars, storageVars, diskVars, ciscVars, clientVars
<1>3. Fits(h)'
  BY ConstantsOK DEF HandlerTypes, MemoryTypes, Fits, RereadCollection, Goto, Answer, Panic,
     Creation, Opening, Setting, Getting, memoryVars, storageVars, sharedVars, AfterCollection
<1>4. ASSUME NEW g \in Handlers, g # h
      PROVE  Fits(g)'
  <2>1. Keeps(g)
    BY <1>4, ConstantsOK DEF Keeps, RereadCollection, HandlerTypes, MemoryTypes, Goto,
       Answer, Panic, memoryVars, storageVars, sharedVars
  <2>2. QED  BY <1>4, <2>1, FrameFits
<1>5. QED  BY <1>1, <1>2, <1>3, <1>4

LEMMA TypeTornRead ==
    ASSUME TypeInv, NEW h \in Handlers, TornRead(h)
    PROVE  TypeInv'
<1> USE DEF TypeInv, TypeOK, HandlerOK
<1>1. HandlerTypes'
  BY ConstantsOK, GotoType, AnswerType DEF HandlerTypes, Fits, TornRead, Stages,
     ReplyKinds, Panic, Replies, Creation, Opening, Setting, Getting
<1>2. (MemoryTypes /\ DiskTypes /\ CiscTypes /\ ClientTypes /\ UsedType)'
  BY DEF TornRead, sharedVars, MemoryTypes, DiskTypes, CiscTypes, ClientTypes, UsedType,
     memoryVars, storageVars, diskVars, ciscVars, clientVars
<1>3. Fits(h)'
  BY ConstantsOK DEF HandlerTypes, MemoryTypes, Fits, TornRead, Goto, Answer, Panic, Creation, Opening,
     Setting, Getting, memoryVars, storageVars, sharedVars
<1>4. ASSUME NEW g \in Handlers, g # h
      PROVE  Fits(g)'
  <2>1. Keeps(g)
    BY <1>4, ConstantsOK DEF Keeps, TornRead, HandlerTypes, MemoryTypes, Goto, Answer, Panic,
       memoryVars, storageVars, sharedVars
  <2>2. QED  BY <1>4, <2>1, FrameFits
<1>5. QED  BY <1>1, <1>2, <1>3, <1>4

LEMMA TypeNilCollection ==
    ASSUME TypeInv, NEW h \in Handlers, NilCollection(h)
    PROVE  TypeInv'
<1> USE DEF TypeInv, TypeOK, HandlerOK
<1>1. HandlerTypes'
  BY ConstantsOK, GotoType, AnswerType DEF HandlerTypes, Fits, NilCollection, Stages,
     ReplyKinds, Panic, Replies, Creation, Opening, Setting, Getting
<1>2. (MemoryTypes /\ DiskTypes /\ CiscTypes /\ ClientTypes /\ UsedType)'
  BY DEF NilCollection, sharedVars, MemoryTypes, DiskTypes, CiscTypes, ClientTypes, UsedType,
     memoryVars, storageVars, diskVars, ciscVars, clientVars
<1>3. Fits(h)'
  BY ConstantsOK DEF HandlerTypes, MemoryTypes, Fits, NilCollection, Goto, Answer, Panic, Creation, Opening,
     Setting, Getting, memoryVars, storageVars, sharedVars
<1>4. ASSUME NEW g \in Handlers, g # h
      PROVE  Fits(g)'
  <2>1. Keeps(g)
    BY <1>4, ConstantsOK DEF Keeps, NilCollection, HandlerTypes, MemoryTypes, Goto, Answer, Panic,
       memoryVars, storageVars, sharedVars
  <2>2. QED  BY <1>4, <2>1, FrameFits
<1>5. QED  BY <1>1, <1>2, <1>3, <1>4

LEMMA TypeCheckKey ==
    ASSUME TypeInv, NEW h \in Handlers, CheckKey(h)
    PROVE  TypeInv'
<1> USE DEF TypeInv, TypeOK, HandlerOK
<1>1. HandlerTypes'
  BY ConstantsOK, GotoType, AnswerType DEF HandlerTypes, Fits, CheckKey, Stages,
     ReplyKinds, Replies, Creation, Opening, Setting, Getting
<1>2. (MemoryTypes /\ DiskTypes /\ CiscTypes /\ ClientTypes /\ UsedType)'
  BY DEF CheckKey, sharedVars, MemoryTypes, DiskTypes, CiscTypes, ClientTypes, UsedType,
     memoryVars, storageVars, diskVars, ciscVars, clientVars
<1>3. Fits(h)'
  BY ConstantsOK DEF HandlerTypes, MemoryTypes, Fits, CheckKey, Goto, Answer, Panic, Creation, Opening,
     Setting, Getting, memoryVars, storageVars, sharedVars
<1>4. ASSUME NEW g \in Handlers, g # h
      PROVE  Fits(g)'
  <2>1. Keeps(g)
    BY <1>4, ConstantsOK DEF Keeps, CheckKey, HandlerTypes, MemoryTypes, Goto, Answer, Panic,
       memoryVars, storageVars, sharedVars
  <2>2. QED  BY <1>4, <2>1, FrameFits
<1>5. QED  BY <1>1, <1>2, <1>3, <1>4

LEMMA TypeReadIndex ==
    ASSUME TypeInv, NEW h \in Handlers, ReadIndex(h)
    PROVE  TypeInv'
<1> USE DEF TypeInv, TypeOK, HandlerOK
<1>1. HandlerTypes'
  BY ConstantsOK, GotoType, AnswerType DEF HandlerTypes, Fits, ReadIndex, Stages,
     ReplyKinds, Replies, Creation, Opening, Setting, Getting, NextIndex, MemoryTypes, Idents
<1>2. (MemoryTypes /\ DiskTypes /\ CiscTypes /\ ClientTypes /\ UsedType)'
  BY DEF ReadIndex, sharedVars, MemoryTypes, DiskTypes, CiscTypes, ClientTypes,
     UsedType, memoryVars, storageVars, diskVars, ciscVars, clientVars
<1>3. Fits(h)'
  BY ConstantsOK DEF HandlerTypes, MemoryTypes, Fits, ReadIndex, Goto, Answer, Panic, Creation, Opening,
     Setting, Getting, memoryVars, storageVars, sharedVars, NextIndex, Idents
<1>4. ASSUME NEW g \in Handlers, g # h
      PROVE  Fits(g)'
  <2>1. Keeps(g)
    BY <1>4, ConstantsOK DEF Keeps, ReadIndex, HandlerTypes, MemoryTypes, Goto, Answer, Panic,
       memoryVars, storageVars, sharedVars
  <2>2. QED  BY <1>4, <2>1, FrameFits
<1>5. QED  BY <1>1, <1>2, <1>3, <1>4

LEMMA TypeBeginStore ==
    ASSUME TypeInv, NEW h \in Handlers, BeginStore(h)
    PROVE  TypeInv'
<1> USE DEF TypeInv, TypeOK, HandlerOK
<1>1. HandlerTypes'
  BY ConstantsOK, GotoType, AnswerType DEF HandlerTypes, Fits, BeginStore, Stages,
     ReplyKinds, Replies, Creation, Opening, Setting, Getting
<1>2. (MemoryTypes /\ CiscTypes /\ ClientTypes /\ UsedType)'
  BY DEF BeginStore, sharedVars, MemoryTypes, CiscTypes, ClientTypes, UsedType,
     memoryVars, storageVars, ciscVars, clientVars
<1>3. DiskTypes'
  BY ConstantsOK DEF HandlerTypes, DiskTypes, Fits, Creation, Opening, Setting, Getting,
     BeginStore
<1>4. Fits(h)'
  BY ConstantsOK DEF HandlerTypes, MemoryTypes, Fits, BeginStore, Goto, Answer, Panic, Creation, Opening,
     Setting, Getting, memoryVars, storageVars, sharedVars
<1>5. ASSUME NEW g \in Handlers, g # h
      PROVE  Fits(g)'
  <2>1. Keeps(g)
    BY <1>5, ConstantsOK DEF Keeps, BeginStore, HandlerTypes, MemoryTypes, Goto, Answer, Panic,
       memoryVars, storageVars, sharedVars
  <2>2. QED  BY <1>5, <2>1, FrameFits
<1>6. QED  BY <1>1, <1>2, <1>3, <1>4, <1>5

LEMMA TypeAddToCollection ==
    ASSUME TypeInv, NEW h \in Handlers, AddToCollection(h)
    PROVE  TypeInv'
<1> USE DEF TypeInv, TypeOK, HandlerOK
<1>1. HandlerTypes'
  BY ConstantsOK, GotoType, AnswerType DEF HandlerTypes, Fits, AddToCollection, Stages,
     ReplyKinds, Replies, Creation, Opening, Setting, Getting
<1>2. (CiscTypes /\ ClientTypes /\ UsedType)'
  BY DEF AddToCollection, sharedVars, CiscTypes, ClientTypes, UsedType, ciscVars,
     clientVars
<1>3. MemoryTypes'
  <2>1. gid[h] \in Chains /\ obj[h] \in Objs /\ idx[h] \in Nat
        /\ req[h].key \in Keys /\ req[h].val \in Vals
    BY RequestFields DEF HandlerTypes, Fits, Setting, AddToCollection
  <2>2. mem[gid[h]][obj[h]] \in Stored
    BY <2>1 DEF MemoryTypes
  <2> DEFINE coll == [mem[gid[h]][obj[h]] EXCEPT
                        ![req[h].key] = [idx |-> idx[h], val |-> req[h].val]]
  <2>3. coll \in Stored
    BY <2>1, <2>2, PutType
  <2>4. mem' = [mem EXCEPT ![gid[h]] = [mem[gid[h]] EXCEPT ![obj[h]] = coll]]
        \/ mem' = mem
    BY DEF AddToCollection
  <2> HIDE DEF coll
  <2>5. [mem[gid[h]] EXCEPT ![obj[h]] = coll] \in [Objs -> Stored]
    BY <2>1, <2>3 DEF MemoryTypes
  <2>6. mem' \in [Chains -> [Objs -> Stored]]
    BY <2>1, <2>4, <2>5 DEF MemoryTypes
  <2>7. QED  BY <2>6 DEF AddToCollection, MemoryTypes, storageVars
<1>4. DiskTypes'
  BY ConstantsOK DEF HandlerTypes, DiskTypes, Fits, Creation, Opening, Setting, Getting,
     AddToCollection, RollBack
<1>5. Fits(h)'
  BY ConstantsOK DEF HandlerTypes, MemoryTypes, Fits, AddToCollection, Goto, Answer, Panic,
     Creation, Opening, Setting, Getting, memoryVars, storageVars, sharedVars
<1>6. ASSUME NEW g \in Handlers, g # h
      PROVE  Fits(g)'
  <2>1. Keeps(g)
    BY <1>6, ConstantsOK DEF Keeps, AddToCollection, HandlerTypes, MemoryTypes, Goto,
       Answer, Panic, memoryVars, storageVars, sharedVars
  <2>2. QED  BY <1>6, <2>1, FrameFits
<1>7. QED  BY <1>1, <1>2, <1>3, <1>4, <1>5, <1>6

LEMMA TypeCommitStore ==
    ASSUME TypeInv, NEW h \in Handlers, CommitStore(h)
    PROVE  TypeInv'
<1> USE DEF TypeInv, TypeOK, HandlerOK
<1>1. HandlerTypes'
  BY ConstantsOK, GotoType, AnswerType DEF HandlerTypes, Fits, CommitStore, Stages,
     ReplyKinds, Replies, Creation, Opening, Setting, Getting, FailStore
<1>2. (MemoryTypes /\ CiscTypes /\ ClientTypes)'
  BY DEF CommitStore, sharedVars, MemoryTypes, CiscTypes, ClientTypes, memoryVars, storageVars,
     ciscVars, clientVars
<1>3. DiskTypes'
  <2>1. gid[h] \in Chains /\ idx[h] \in Nat /\ req[h].key \in Keys /\ req[h].val \in Vals
    BY RequestFields DEF HandlerTypes, Fits, Setting, CommitStore
  <2> DEFINE coll == [db[gid[h]] EXCEPT
                        ![req[h].key] = [idx |-> idx[h], val |-> req[h].val]]
  <2>2. coll \in Stored
    BY <2>1, PutType DEF DiskTypes
  <2>3. db' = [db EXCEPT ![gid[h]] = coll] \/ db' = db
    BY DEF CommitStore
  <2> HIDE DEF coll
  <2>4. QED  BY <2>2, <2>3 DEF CommitStore, RollBack, DiskTypes
<1>4. UsedType'
  BY ConstantsOK, FaultType DEF HandlerTypes, UsedType, Fits, Creation, Opening, Setting, Getting,
     CommitStore
<1>5. Fits(h)'
  BY ConstantsOK DEF HandlerTypes, MemoryTypes, Fits, CommitStore, Goto, Answer, Panic,
     Creation, Opening, Setting, Getting, memoryVars, storageVars, sharedVars, FailStore
<1>6. ASSUME NEW g \in Handlers, g # h
      PROVE  Fits(g)'
  <2>1. Keeps(g)
    BY <1>6, ConstantsOK DEF Keeps, CommitStore, HandlerTypes, MemoryTypes, Goto,
       Answer, Panic, memoryVars, storageVars, sharedVars, FailStore
  <2>2. QED  BY <1>6, <2>1, FrameFits
<1>7. QED  BY <1>1, <1>2, <1>3, <1>4, <1>5, <1>6

LEMMA TypePropose ==
    ASSUME TypeInv, NEW h \in Handlers, Propose(h)
    PROVE  TypeInv'
<1> USE DEF TypeInv, TypeOK, HandlerOK
<1>1. HandlerTypes'
  BY ConstantsOK, GotoType, AnswerType DEF HandlerTypes, Fits, Propose, Stages,
     ReplyKinds, Replies, Creation, Opening, Setting, Getting
<1>2. (MemoryTypes /\ DiskTypes /\ ClientTypes)'
  BY DEF Propose, sharedVars, MemoryTypes, DiskTypes, ClientTypes, memoryVars, storageVars, diskVars,
     clientVars
<1>3. CiscTypes'
  <2>1. Draft(h) \in Drafts
    BY RequestFields DEF Fits, Propose, Draft, Drafts
  <2>2. QED  BY <2>1 DEF CiscTypes, Propose
<1>4. UsedType'
  BY ConstantsOK, FaultType DEF HandlerTypes, UsedType, Fits, Creation, Opening, Setting, Getting,
     Propose
<1>5. Fits(h)'
  BY ConstantsOK DEF HandlerTypes, MemoryTypes, Fits, Propose, Goto, Answer, Panic, Creation, Opening,
     Setting, Getting, memoryVars, storageVars, sharedVars
<1>6. ASSUME NEW g \in Handlers, g # h
      PROVE  Fits(g)'
  <2>1. Keeps(g)
    BY <1>6, ConstantsOK DEF Keeps, Propose, HandlerTypes, MemoryTypes, Goto, Answer, Panic,
       memoryVars, storageVars, sharedVars
  <2>2. QED  BY <1>6, <2>1, FrameFits
<1>7. QED  BY <1>1, <1>2, <1>3, <1>4, <1>5, <1>6

LEMMA TypeVote ==
    ASSUME TypeInv, NEW h \in Handlers, Vote(h)
    PROVE  TypeInv'
<1> USE DEF TypeInv, TypeOK, HandlerOK
<1>1. HandlerTypes'
  <2>1. PlaceOfBlock(h) \in Nat
    BY DEF PlaceOfBlock, CiscTypes, Fits, Vote, Setting
  <2>2. QED
    BY <2>1, GotoType, AnswerType DEF HandlerTypes, Vote, Stages, ReplyKinds
<1>2. (MemoryTypes /\ DiskTypes /\ ClientTypes)'
  BY DEF Vote, sharedVars, MemoryTypes, DiskTypes, ClientTypes, memoryVars, storageVars, diskVars,
     clientVars
<1>3. CiscTypes'
  <2>1. ProposedBlock(h) \in Blocks /\ gid[h] \in Chains
    BY ProposedBlockType DEF Fits, Vote, Setting
  <2>2. Append(log[gid[h]], ProposedBlock(h)) \in Seq(Blocks)
    BY <2>1 DEF CiscTypes
  <2>3. CASE AppendBlock(h)
    BY <2>2, <2>3 DEF CiscTypes, Vote, AppendBlock
  <2>4. CASE UNCHANGED <<log, proposed>>
    BY <2>4 DEF CiscTypes, Vote
  <2>5. QED  BY <2>3, <2>4 DEF Vote
<1>4. UsedType'
  BY ConstantsOK, FaultType DEF HandlerTypes, UsedType, Fits, Creation, Opening, Setting, Getting,
     Vote
<1>5. Fits(h)'
  BY ConstantsOK DEF HandlerTypes, MemoryTypes, Fits, Vote, Goto, Answer, Panic, Creation, Opening,
     Setting, Getting, memoryVars, storageVars, sharedVars, PlaceOfBlock, CiscTypes
<1>6. ASSUME NEW g \in Handlers, g # h
      PROVE  Fits(g)'
  <2>1. Keeps(g)
    BY <1>6, ConstantsOK DEF Keeps, Vote, HandlerTypes, MemoryTypes, Goto, Answer, Panic,
       memoryVars, storageVars, sharedVars
  <2>2. QED  BY <1>6, <2>1, FrameFits
<1>7. QED  BY <1>1, <1>2, <1>3, <1>4, <1>5, <1>6

LEMMA TypeFinishSet ==
    ASSUME TypeInv, NEW h \in Handlers, FinishSet(h)
    PROVE  TypeInv'
<1> USE DEF TypeInv, TypeOK, HandlerOK
<1>1. HandlerTypes'
  BY ConstantsOK, GotoType, AnswerType DEF HandlerTypes, Fits, FinishSet, Stages,
     ReplyKinds, Replies, Creation, Opening, Setting, Getting
<1>2. (DiskTypes /\ CiscTypes /\ UsedType)'
  BY DEF FinishSet, sharedVars, DiskTypes, CiscTypes, UsedType, diskVars, ciscVars
<1>3. MemoryTypes'
  BY ConstantsOK DEF HandlerTypes, MemoryTypes, Fits, Creation, Opening, Setting, Getting,
     FinishSet, UpdateLatest, Idents
<1>4. ClientTypes'
  BY ConstantsOK, ProposedBlockType DEF HandlerTypes, ClientTypes, Fits, Creation, Opening,
     Setting, Getting, FinishSet
<1>5. Fits(h)'
  BY ConstantsOK DEF HandlerTypes, MemoryTypes, Fits, FinishSet, Goto, Answer, Panic, Creation, Opening,
     Setting, Getting, memoryVars, storageVars, sharedVars
<1>6. ASSUME NEW g \in Handlers, g # h
      PROVE  Fits(g)'
  <2>1. gid[h] \in Chains /\ idx[h] \in Nat
    BY DEF FinishSet, Fits, Setting, HandlerTypes
  <2>2. ident' = [ident EXCEPT ![gid[h]] = idx[h]]
    BY DEF FinishSet, UpdateLatest
  <2>3. ident'[gid[h]] # None
    BY <2>1, <2>2, IdentIsSome DEF MemoryTypes, Idents
  <2>4. Keeps(g)
    BY <1>6, <2>2, <2>3 DEF Keeps, FinishSet, HandlerTypes, MemoryTypes, Idents, Goto, Answer, Panic
  <2>5. QED  BY <1>6, <2>4, FrameFits
<1>7. QED  BY <1>1, <1>2, <1>3, <1>4, <1>5, <1>6

LEMMA TypeReadValue ==
    ASSUME TypeInv, NEW h \in Handlers, ReadValue(h)
    PROVE  TypeInv'
<1> USE DEF TypeInv, TypeOK, HandlerOK
<1>1. HandlerTypes'
  <2>1. mem[gid[h]][obj[h]][req[h].key] \in Records \cup {None}
    <3>1. gid[h] \in Chains /\ obj[h] \in Objs /\ req[h].key \in Keys
      BY RequestFields DEF Fits, ReadValue, Getting, HandlerTypes
    <3>2. mem[gid[h]][obj[h]] \in Stored
      BY <3>1 DEF MemoryTypes
    <3>3. QED  BY <3>1, <3>2 DEF Stored
  <2>2. PICK found \in Seen(gid[h], obj[h], req[h].key) :
          IF found = None
          THEN Answer(h, "error", 0) /\ UNCHANGED idx
          ELSE /\ idx' = [idx EXCEPT ![h] = found.idx]
               /\ Goto(h, "fetch")
               /\ UNCHANGED reply
    BY DEF ReadValue
  <2>3. found # None => found.idx \in Nat
    BY <2>1, <2>2 DEF Seen, Records
  <2>4. QED
    BY <2>2, <2>3, GotoType, AnswerType DEF HandlerTypes, ReadValue, Stages, ReplyKinds
<1>2. (MemoryTypes /\ DiskTypes /\ CiscTypes /\ ClientTypes /\ UsedType)'
  BY DEF ReadValue, sharedVars, MemoryTypes, DiskTypes, CiscTypes, ClientTypes,
     UsedType, memoryVars, storageVars, diskVars, ciscVars, clientVars
<1>3. Fits(h)'
  BY ConstantsOK DEF HandlerTypes, MemoryTypes, Fits, ReadValue, Goto, Answer, Panic, Creation, Opening,
     Setting, Getting, memoryVars, storageVars, sharedVars, Seen, Stored, Records
<1>4. ASSUME NEW g \in Handlers, g # h
      PROVE  Fits(g)'
  <2>1. Keeps(g)
    BY <1>4, ConstantsOK DEF Keeps, ReadValue, HandlerTypes, MemoryTypes, Goto, Answer, Panic,
       memoryVars, storageVars, sharedVars
  <2>2. QED  BY <1>4, <2>1, FrameFits
<1>5. QED  BY <1>1, <1>2, <1>3, <1>4

LEMMA TypeFetchBlock ==
    ASSUME TypeInv, NEW h \in Handlers, FetchBlock(h)
    PROVE  TypeInv'
<1> USE DEF TypeInv, TypeOK, HandlerOK
<1>1. HandlerTypes'
  BY ConstantsOK, GotoType, AnswerType DEF HandlerTypes, Fits, FetchBlock, Stages,
     ReplyKinds, Panic, Replies, Creation, Opening, Setting, Getting
<1>2. (MemoryTypes /\ DiskTypes /\ CiscTypes /\ ClientTypes)'
  BY DEF FetchBlock, sharedVars, MemoryTypes, DiskTypes, CiscTypes, ClientTypes,
     memoryVars, storageVars, diskVars, ciscVars, clientVars
<1>3. UsedType'
  BY ConstantsOK, FaultType DEF HandlerTypes, UsedType, Fits, Creation, Opening, Setting, Getting,
     FetchBlock
<1>4. Fits(h)'
  BY ConstantsOK DEF HandlerTypes, MemoryTypes, Fits, FetchBlock, Goto, Answer, Panic, Creation, Opening,
     Setting, Getting, memoryVars, storageVars, sharedVars
<1>5. ASSUME NEW g \in Handlers, g # h
      PROVE  Fits(g)'
  <2>1. Keeps(g)
    BY <1>5, ConstantsOK DEF Keeps, FetchBlock, HandlerTypes, MemoryTypes, Goto, Answer, Panic,
       memoryVars, storageVars, sharedVars
  <2>2. QED  BY <1>5, <2>1, FrameFits
<1>6. QED  BY <1>1, <1>2, <1>3, <1>4, <1>5

LEMMA TypeDone ==
    ASSUME TypeInv, NEW h \in Handlers, Done(h)
    PROVE  TypeInv'
<1> USE DEF TypeInv, TypeOK, HandlerOK
<1>1. HandlerTypes'
  BY ConstantsOK, GotoType, AnswerType DEF HandlerTypes, Fits, Done, Stages, ReplyKinds,
     Replies, Creation, Opening, Setting, Getting, NoReply
<1>2. (MemoryTypes /\ DiskTypes /\ CiscTypes /\ ClientTypes /\ UsedType)'
  BY DEF Done, sharedVars, MemoryTypes, DiskTypes, CiscTypes, ClientTypes, UsedType,
     memoryVars, storageVars, diskVars, ciscVars, clientVars
<1>3. Fits(h)'
  BY ConstantsOK DEF HandlerTypes, MemoryTypes, Fits, Done, Goto, Answer, Panic, Creation, Opening,
     Setting, Getting, memoryVars, storageVars, sharedVars, NoReply
<1>4. ASSUME NEW g \in Handlers, g # h
      PROVE  Fits(g)'
  <2>1. Keeps(g)
    BY <1>4, ConstantsOK DEF Keeps, Done, HandlerTypes, MemoryTypes, Goto, Answer, Panic,
       memoryVars, storageVars, sharedVars
  <2>2. QED  BY <1>4, <2>1, FrameFits
<1>5. QED  BY <1>1, <1>2, <1>3, <1>4

LEMMA TypeRestore ==
    ASSUME TypeInv, NEW failed \in SUBSET Chains, Restore(failed)
    PROVE  MemoryTypes'
<1>1. Nothing \in Stored
  BY DEF Nothing, Stored
<1>2. collOf' \in [Chains -> Objs \cup {None}]
  BY DEF Restore, CollectionsOf, Objs
<1>3. mem' \in [Chains -> [Objs -> Stored]]
  BY <1>1 DEF TypeInv, TypeOK, DiskTypes, Restore, CollectionsOf
<1>4. ident' \in Idents /\ private' \subseteq Chains /\ writers' \in Writers
  BY DEF TypeInv, TypeOK, DiskTypes, Storage, Restore
<1>5. QED  BY <1>2, <1>3, <1>4 DEF MemoryTypes

LEMMA TypeCrash == TypeInv /\ CrashAndRestart => TypeInv'
<1> SUFFICES ASSUME TypeInv, CrashAndRestart PROVE TypeInv'
  OBVIOUS
<1>1. HandlerTypes'
  BY DEF HandlerTypes, CrashAndRestart, Stages, Replies, ReplyKinds, NoReply
<1>2. MemoryTypes'
  BY TypeRestore DEF CrashAndRestart
<1>3. DiskTypes'
  BY DEF TypeInv, TypeOK, DiskTypes, CrashAndRestart
<1>4. (CiscTypes /\ ClientTypes)'
  BY DEF TypeInv, TypeOK, CiscTypes, ClientTypes, CrashAndRestart, ciscVars, clientVars
<1>5. UsedType'
  <2>1. \/ used' = [used EXCEPT !["crashes"] = @ + 1]
        \/ /\ used["faults"] < MaxFaults
           /\ used' = [used EXCEPT !["crashes"] = @ + 1, !["faults"] = @ + 1]
    BY DEF CrashAndRestart
  <2>2. used["crashes"] < MaxCrashes /\ UsedType
    BY DEF TypeInv, TypeOK, CrashAndRestart
  <2>3. QED  BY <2>1, <2>2, ConstantsOK DEF UsedType
<1>6. HandlerOK'
  BY DEF CrashAndRestart, HandlerOK, Fits, Creation, Opening, Setting, Getting
<1>7. QED  BY <1>1, <1>2, <1>3, <1>4, <1>5, <1>6 DEF TypeInv, TypeOK

LEMMA TypeStutter == TypeInv /\ UNCHANGED vars => TypeInv'
BY DEF TypeInv, TypeOK, HandlerOK, Fits, HandlerTypes, MemoryTypes, DiskTypes, CiscTypes,
   ClientTypes, UsedType, vars, handlerVars, sharedVars, memoryVars, storageVars, diskVars, ciscVars,
   clientVars

LEMMA TypeNext == TypeInv /\ [Next]_vars => TypeInv'
<1> SUFFICES ASSUME TypeInv, [Next]_vars PROVE TypeInv'
  OBVIOUS
<1>1. ASSUME NEW h \in Handlers, HandlerStep(h)
      PROVE  TypeInv'
  BY <1>1, TypeCreateIdentity, TypeRegisterIdentity, TypeRegisterPrivate, TypeRegisterWriter,
     TypeSaveStorage, TypeStartSet, TypeStartGet,
     TypeLoadCollection, TypeInstallCollection, TypeRereadCollection, TypeTornRead, TypeNilCollection,
     TypeCheckKey, TypeReadIndex, TypeBeginStore, TypeAddToCollection, TypeCommitStore,
     TypePropose, TypeVote, TypeFinishSet, TypeReadValue, TypeFetchBlock, TypeDone
  DEF HandlerStep
<1>2. QED  BY <1>1, TypeArrive, TypeCrash, TypeStutter DEF Next

(***************************************************************************)
(* The variables always have their types: in particular every handler that *)
(* reads the index of the latest block finds an identity to read it from.  *)
(***************************************************************************)
THEOREM TypeCorrect == Spec => []TypeInv /\ []TypeOK
<1>1. Init => TypeInv
  BY TypeInit
<1>2. TypeInv /\ [Next]_vars => TypeInv'
  BY TypeNext
<1>3. TypeInv => TypeOK
  BY DEF TypeInv
<1>4. QED  BY <1>1, <1>2, <1>3, PTL DEF Spec

-----------------------------------------------------------------------------
(***************************************************************************)
(* A write-once ledger.                                                    *)
(***************************************************************************)

\* Step h leaves handler g alone.
Same(g) ==
    /\ pc'[g] = pc[g] /\ req'[g] = req[g] /\ gid'[g] = gid[g]
    /\ obj'[g] = obj[g] /\ idx'[g] = idx[g]

LEMMA KeysUniqueDef ==
    KeysUnique <=> \A c \in Chains : \A i, j \in DOMAIN log[c] :
                      log[c][i].key = log[c][j].key => i = j
BY DEF KeysUnique, Ledger!KeysAreUnique

\* A handler that is left alone stays sound when the shared state it relies on
\* does not change.
LEMMA SoundFrame ==
    ASSUME NEW g \in Handlers, Sound(g), Same(g), UNCHANGED <<collOf, mem, db, log>>
    PROVE  Sound(g)'
BY DEF Sound, Same, Setting, Owns, OnChain, ProposedBlock

\* Steps that change neither collections, database nor chains, and by which
\* nobody starts to open a collection or to own a key.
LEMMA Quiet ==
    ASSUME Inductive, NEW h \in Handlers,
           UNCHANGED <<collOf, mem, db, log>>,
           \A g \in Handlers : g # h => Same(g),
           Sound(h)',
           Owns(h)' => Owns(h) /\ gid'[h] = gid[h] /\ req'[h] = req[h],
           pc'[h] \in {"start"} \cup Opening =>
               pc[h] \in {"start"} \cup Opening /\ gid'[h] = gid[h]
    PROVE  LedgerInv'
<1> USE DEF Inductive, LedgerInv
<1>1. OneOpens'
  BY DEF OneOpens, Same, Opening
<1>2. InStep'
  BY DEF InStep, OnChain
<1>3. OneOwner'
  BY DEF OneOwner, Owns, Same
<1>4. KeysUnique'
  BY DEF KeysUnique, Ledger!KeysAreUnique
<1>5. ASSUME NEW g \in Handlers PROVE Sound(g)'
  BY <1>5, SoundFrame
<1>6. QED  BY <1>1, <1>2, <1>3, <1>4, <1>5

\* Stages in which a handler has nothing to do with its key.
Resting == {"reply", "panic", "idle", "read", "fetch"} \cup Creation

\* A handler that rests is sound and owns nothing.
LEMMA AnswersQuietly ==
    ASSUME TypeInv, NEW h \in Handlers, pc'[h] \in Resting
    PROVE  Sound(h)' /\ ~Owns(h)' /\ pc'[h] \notin {"start"} \cup Opening
BY DEF Sound, Owns, Opening, Setting, Resting, Creation

LEMMA LedgerInit == Init => LedgerInv
<1> SUFFICES ASSUME Init PROVE LedgerInv
  OBVIOUS
<1>1. OneOpens /\ OneOwner /\ InStep /\ KeysUnique
  BY KeysUniqueDef DEF Init, OneOpens, OneOwner, InStep, OnChain, Owns, Opening, Nothing
<1>2. \A h \in Handlers : Sound(h)
  BY DEF Init, Sound, Owns, Setting
<1>3. QED  BY <1>1, <1>2 DEF LedgerInv

LEMMA LedgerCreateIdentity ==
    ASSUME Inductive, NEW h \in Handlers, CreateIdentity(h)
    PROVE  LedgerInv'
<1> USE DEF CreateIdentity
<1>1. UNCHANGED <<collOf, mem, db, log>>
  BY DEF sharedVars, memoryVars, storageVars, diskVars, ciscVars
<1>2. \A g \in Handlers : g # h => Same(g)
  BY DEF Inductive, TypeInv, TypeOK, HandlerTypes, Same, Goto, Answer, Panic, EnterCollection, Done
<1>3. pc'[h] \in Resting
  BY DEF Inductive, TypeInv, TypeOK, HandlerTypes, Goto, Answer, Panic, Resting, Creation
<1>4. QED  BY <1>1, <1>2, <1>3, AnswersQuietly, Quiet DEF Inductive


LEMMA LedgerRegisterIdentity ==
    ASSUME Inductive, NEW h \in Handlers, RegisterIdentity(h)
    PROVE  LedgerInv'
<1> USE DEF RegisterIdentity
<1>1. UNCHANGED <<collOf, mem, db, log>>
  BY DEF sharedVars, memoryVars, storageVars, diskVars, ciscVars
<1>2. \A g \in Handlers : g # h => Same(g)
  BY DEF Inductive, TypeInv, TypeOK, HandlerTypes, Same, Goto, Answer, Panic, EnterCollection, Done
<1>3. pc'[h] \in Resting
  BY DEF Inductive, TypeInv, TypeOK, HandlerTypes, Goto, Answer, Panic, Resting, Creation
<1>4. QED  BY <1>1, <1>2, <1>3, AnswersQuietly, Quiet DEF Inductive


LEMMA LedgerRegisterPrivate ==
    ASSUME Inductive, NEW h \in Handlers, RegisterPrivate(h)
    PROVE  LedgerInv'
<1> USE DEF RegisterPrivate
<1>1. UNCHANGED <<collOf, mem, db, log>>
  BY DEF sharedVars, memoryVars, storageVars, diskVars, ciscVars
<1>2. \A g \in Handlers : g # h => Same(g)
  BY DEF Inductive, TypeInv, TypeOK, HandlerTypes, Same, Goto, Answer, Panic, EnterCollection, Done
<1>3. pc'[h] \in Resting
  BY DEF Inductive, TypeInv, TypeOK, HandlerTypes, Goto, Answer, Panic, Resting, Creation
<1>4. QED  BY <1>1, <1>2, <1>3, AnswersQuietly, Quiet DEF Inductive


LEMMA LedgerRegisterWriter ==
    ASSUME Inductive, NEW h \in Handlers, RegisterWriter(h)
    PROVE  LedgerInv'
<1> USE DEF RegisterWriter
<1>1. UNCHANGED <<collOf, mem, db, log>>
  BY DEF sharedVars, memoryVars, storageVars, diskVars, ciscVars
<1>2. \A g \in Handlers : g # h => Same(g)
  BY DEF Inductive, TypeInv, TypeOK, HandlerTypes, Same, Goto, Answer, Panic, EnterCollection, Done
<1>3. pc'[h] \in Resting
  BY DEF Inductive, TypeInv, TypeOK, HandlerTypes, Goto, Answer, Panic, Resting, Creation
<1>4. QED  BY <1>1, <1>2, <1>3, AnswersQuietly, Quiet DEF Inductive


LEMMA LedgerSaveStorage ==
    ASSUME Inductive, NEW h \in Handlers, SaveStorage(h)
    PROVE  LedgerInv'
<1> USE DEF SaveStorage
<1>1. UNCHANGED <<collOf, mem, db, log>>
  BY DEF sharedVars, memoryVars, storageVars, diskVars, ciscVars
<1>2. \A g \in Handlers : g # h => Same(g)
  BY DEF Inductive, TypeInv, TypeOK, HandlerTypes, Same, Goto, Answer, Panic, EnterCollection, Done
<1>3. pc'[h] \in Resting
  BY DEF Inductive, TypeInv, TypeOK, HandlerTypes, Goto, Answer, Panic, Resting, Creation
<1>4. QED  BY <1>1, <1>2, <1>3, AnswersQuietly, Quiet DEF Inductive


LEMMA LedgerTornRead ==
    ASSUME Inductive, NEW h \in Handlers, TornRead(h)
    PROVE  LedgerInv'
<1> USE DEF TornRead
<1>1. UNCHANGED <<collOf, mem, db, log>>
  BY DEF sharedVars, memoryVars, storageVars, diskVars, ciscVars
<1>2. \A g \in Handlers : g # h => Same(g)
  BY DEF Inductive, TypeInv, TypeOK, HandlerTypes, Same, Goto, Answer, Panic, EnterCollection, Done
<1>3. pc'[h] \in Resting
  BY DEF Inductive, TypeInv, TypeOK, HandlerTypes, Goto, Answer, Panic, Resting, Creation
<1>4. QED  BY <1>1, <1>2, <1>3, AnswersQuietly, Quiet DEF Inductive


LEMMA LedgerNilCollection ==
    ASSUME Inductive, NEW h \in Handlers, NilCollection(h)
    PROVE  LedgerInv'
<1> USE DEF NilCollection
<1>1. UNCHANGED <<collOf, mem, db, log>>
  BY DEF sharedVars, memoryVars, storageVars, diskVars, ciscVars
<1>2. \A g \in Handlers : g # h => Same(g)
  BY DEF Inductive, TypeInv, TypeOK, HandlerTypes, Same, Goto, Answer, Panic, EnterCollection, Done
<1>3. pc'[h] \in Resting
  BY DEF Inductive, TypeInv, TypeOK, HandlerTypes, Goto, Answer, Panic, Resting, Creation
<1>4. QED  BY <1>1, <1>2, <1>3, AnswersQuietly, Quiet DEF Inductive


LEMMA LedgerFinishSet ==
    ASSUME Inductive, NEW h \in Handlers, FinishSet(h)
    PROVE  LedgerInv'
<1> USE DEF FinishSet
<1>1. UNCHANGED <<collOf, mem, db, log>>
  BY DEF sharedVars, memoryVars, storageVars, diskVars, ciscVars
<1>2. \A g \in Handlers : g # h => Same(g)
  BY DEF Inductive, TypeInv, TypeOK, HandlerTypes, Same, Goto, Answer, Panic, EnterCollection, Done
<1>3. pc'[h] \in Resting
  BY DEF Inductive, TypeInv, TypeOK, HandlerTypes, Goto, Answer, Panic, Resting, Creation
<1>4. QED  BY <1>1, <1>2, <1>3, AnswersQuietly, Quiet DEF Inductive


LEMMA LedgerReadValue ==
    ASSUME Inductive, NEW h \in Handlers, ReadValue(h)
    PROVE  LedgerInv'
<1> USE DEF ReadValue
<1>1. UNCHANGED <<collOf, mem, db, log>>
  BY DEF sharedVars, memoryVars, storageVars, diskVars, ciscVars
<1>2. \A g \in Handlers : g # h => Same(g)
  BY DEF Inductive, TypeInv, TypeOK, HandlerTypes, Same, Goto, Answer, Panic, EnterCollection, Done
<1>3. pc'[h] \in Resting
  BY DEF Inductive, TypeInv, TypeOK, HandlerTypes, Goto, Answer, Panic, Resting, Creation
<1>4. QED  BY <1>1, <1>2, <1>3, AnswersQuietly, Quiet DEF Inductive


LEMMA LedgerFetchBlock ==
    ASSUME Inductive, NEW h \in Handlers, FetchBlock(h)
    PROVE  LedgerInv'
<1> USE DEF FetchBlock
<1>1. UNCHANGED <<collOf, mem, db, log>>
  BY DEF sharedVars, memoryVars, storageVars, diskVars, ciscVars
<1>2. \A g \in Handlers : g # h => Same(g)
  BY DEF Inductive, TypeInv, TypeOK, HandlerTypes, Same, Goto, Answer, Panic, EnterCollection, Done
<1>3. pc'[h] \in Resting
  BY DEF Inductive, TypeInv, TypeOK, HandlerTypes, Goto, Answer, Panic, Resting, Creation
<1>4. QED  BY <1>1, <1>2, <1>3, AnswersQuietly, Quiet DEF Inductive


LEMMA LedgerDone ==
    ASSUME Inductive, NEW h \in Handlers, Done(h)
    PROVE  LedgerInv'
<1> USE DEF Done
<1>1. UNCHANGED <<collOf, mem, db, log>>
  BY DEF sharedVars, memoryVars, storageVars, diskVars, ciscVars
<1>2. \A g \in Handlers : g # h => Same(g)
  BY DEF Inductive, TypeInv, TypeOK, HandlerTypes, Same, Goto, Answer, Panic, EnterCollection, Done
<1>3. pc'[h] \in Resting
  BY DEF Inductive, TypeInv, TypeOK, HandlerTypes, Goto, Answer, Panic, Resting, Creation
<1>4. QED  BY <1>1, <1>2, <1>3, AnswersQuietly, Quiet DEF Inductive


LEMMA LedgerStartSet ==
    ASSUME Inductive, NEW h \in Handlers, StartSet(h)
    PROVE  LedgerInv'
<1> USE DEF StartSet
<1>1. UNCHANGED <<collOf, mem, db, log>>
  BY DEF sharedVars, memoryVars, storageVars, diskVars, ciscVars
<1>2. \A g \in Handlers : g # h => Same(g)
  BY DEF Inductive, TypeInv, TypeOK, HandlerTypes, Same, Goto, Answer, Panic, EnterCollection, Done
<1>3. Sound(h)'
  BY <1>1 DEF Inductive, TypeInv, TypeOK, HandlerTypes, HandlerOK, Fits, LedgerInv, Sound,
     Owns, OnChain, Creation, Opening, Setting, Getting, Goto, Answer, Panic, EnterCollection
<1>4. Owns(h)' => Owns(h) /\ gid'[h] = gid[h] /\ req'[h] = req[h]
  BY DEF Inductive, TypeInv, TypeOK, HandlerTypes, Owns, Goto, Answer, Panic, EnterCollection
<1>5. pc'[h] \in {"start"} \cup Opening =>
        pc[h] \in {"start"} \cup Opening /\ gid'[h] = gid[h]
  BY DEF Inductive, TypeInv, TypeOK, HandlerTypes, Opening, Goto, Answer, Panic, EnterCollection
<1>6. QED  BY <1>1, <1>2, <1>3, <1>4, <1>5, Quiet


LEMMA LedgerStartGet ==
    ASSUME Inductive, NEW h \in Handlers, StartGet(h)
    PROVE  LedgerInv'
<1> USE DEF StartGet
<1>1. UNCHANGED <<collOf, mem, db, log>>
  BY DEF sharedVars, memoryVars, storageVars, diskVars, ciscVars
<1>2. \A g \in Handlers : g # h => Same(g)
  BY DEF Inductive, TypeInv, TypeOK, HandlerTypes, Same, Goto, Answer, Panic, EnterCollection, Done
<1>3. Sound(h)'
  BY <1>1 DEF Inductive, TypeInv, TypeOK, HandlerTypes, HandlerOK, Fits, LedgerInv, Sound,
     Owns, OnChain, Creation, Opening, Setting, Getting, Goto, Answer, Panic, EnterCollection
<1>4. Owns(h)' => Owns(h) /\ gid'[h] = gid[h] /\ req'[h] = req[h]
  BY DEF Inductive, TypeInv, TypeOK, HandlerTypes, Owns, Goto, Answer, Panic, EnterCollection
<1>5. pc'[h] \in {"start"} \cup Opening =>
        pc[h] \in {"start"} \cup Opening /\ gid'[h] = gid[h]
  BY DEF Inductive, TypeInv, TypeOK, HandlerTypes, Opening, Goto, Answer, Panic, EnterCollection
<1>6. QED  BY <1>1, <1>2, <1>3, <1>4, <1>5, Quiet


LEMMA LedgerRereadCollection ==
    ASSUME Inductive, NEW h \in Handlers, RereadCollection(h)
    PROVE  LedgerInv'
<1> USE DEF RereadCollection
<1>1. UNCHANGED <<collOf, mem, db, log>>
  BY DEF sharedVars, memoryVars, storageVars, diskVars, ciscVars
<1>2. \A g \in Handlers : g # h => Same(g)
  BY DEF Inductive, TypeInv, TypeOK, HandlerTypes, Same, Goto, Answer, Panic, EnterCollection, Done
<1>3. Sound(h)'
  BY <1>1 DEF Inductive, TypeInv, TypeOK, HandlerTypes, HandlerOK, Fits, LedgerInv, Sound,
     Owns, OnChain, Creation, Opening, Setting, Getting, Goto, Answer, Panic, AfterCollection
<1>4. Owns(h)' => Owns(h) /\ gid'[h] = gid[h] /\ req'[h] = req[h]
  BY DEF Inductive, TypeInv, TypeOK, HandlerTypes, Owns, Goto, Answer, Panic, AfterCollection
<1>5. pc'[h] \in {"start"} \cup Opening =>
        pc[h] \in {"start"} \cup Opening /\ gid'[h] = gid[h]
  BY DEF Inductive, TypeInv, TypeOK, HandlerTypes, Opening, Goto, Answer, Panic, AfterCollection
<1>6. QED  BY <1>1, <1>2, <1>3, <1>4, <1>5, Quiet


LEMMA LedgerCheckKey ==
    ASSUME Inductive, NEW h \in Handlers, CheckKey(h)
    PROVE  LedgerInv'
<1> USE DEF CheckKey
<1>1. UNCHANGED <<collOf, mem, db, log>>
  BY DEF sharedVars, memoryVars, storageVars, diskVars, ciscVars
<1>2. \A g \in Handlers : g # h => Same(g)
  BY DEF Inductive, TypeInv, TypeOK, HandlerTypes, Same, Goto, Answer, Panic, EnterCollection, Done
<1>3. Sound(h)'
  BY <1>1 DEF Inductive, TypeInv, TypeOK, HandlerTypes, HandlerOK, Fits, LedgerInv, Sound,
     Owns, OnChain, Creation, Opening, Setting, Getting, Goto, Answer, Panic
<1>4. Owns(h)' => Owns(h) /\ gid'[h] = gid[h] /\ req'[h] = req[h]
  BY DEF Inductive, TypeInv, TypeOK, HandlerTypes, Owns, Goto, Answer, Panic
<1>5. pc'[h] \in {"start"} \cup Opening =>
        pc[h] \in {"start"} \cup Opening /\ gid'[h] = gid[h]
  BY DEF Inductive, TypeInv, TypeOK, HandlerTypes, Opening, Goto, Answer, Panic
<1>6. QED  BY <1>1, <1>2, <1>3, <1>4, <1>5, Quiet


LEMMA LedgerReadIndex ==
    ASSUME Inductive, NEW h \in Handlers, ReadIndex(h)
    PROVE  LedgerInv'
<1> USE DEF ReadIndex
<1>1. UNCHANGED <<collOf, mem, db, log>>
  BY DEF sharedVars, memoryVars, storageVars, diskVars, ciscVars
<1>2. \A g \in Handlers : g # h => Same(g)
  BY DEF Inductive, TypeInv, TypeOK, HandlerTypes, Same, Goto, Answer, Panic, EnterCollection, Done
<1>3. Sound(h)'
  BY <1>1 DEF Inductive, TypeInv, TypeOK, HandlerTypes, HandlerOK, Fits, LedgerInv, Sound,
     Owns, OnChain, Creation, Opening, Setting, Getting, Goto, Answer, Panic
<1>4. Owns(h)' => Owns(h) /\ gid'[h] = gid[h] /\ req'[h] = req[h]
  BY DEF Inductive, TypeInv, TypeOK, HandlerTypes, Owns, Goto, Answer, Panic
<1>5. pc'[h] \in {"start"} \cup Opening =>
        pc[h] \in {"start"} \cup Opening /\ gid'[h] = gid[h]
  BY DEF Inductive, TypeInv, TypeOK, HandlerTypes, Opening, Goto, Answer, Panic
<1>6. QED  BY <1>1, <1>2, <1>3, <1>4, <1>5, Quiet


LEMMA LedgerBeginStore ==
    ASSUME Inductive, NEW h \in Handlers, BeginStore(h)
    PROVE  LedgerInv'
<1> USE DEF BeginStore
<1>1. UNCHANGED <<collOf, mem, db, log>>
  BY DEF sharedVars, memoryVars, storageVars, diskVars, ciscVars
<1>2. \A g \in Handlers : g # h => Same(g)
  BY DEF Inductive, TypeInv, TypeOK, HandlerTypes, Same, Goto, Answer, Panic, EnterCollection, Done
<1>3. Sound(h)'
  BY <1>1 DEF Inductive, TypeInv, TypeOK, HandlerTypes, HandlerOK, Fits, LedgerInv, Sound,
     Owns, OnChain, Creation, Opening, Setting, Getting, Goto, Answer, Panic
<1>4. Owns(h)' => Owns(h) /\ gid'[h] = gid[h] /\ req'[h] = req[h]
  BY DEF Inductive, TypeInv, TypeOK, HandlerTypes, Owns, Goto, Answer, Panic
<1>5. pc'[h] \in {"start"} \cup Opening =>
        pc[h] \in {"start"} \cup Opening /\ gid'[h] = gid[h]
  BY DEF Inductive, TypeInv, TypeOK, HandlerTypes, Opening, Goto, Answer, Panic
<1>6. QED  BY <1>1, <1>2, <1>3, <1>4, <1>5, Quiet


LEMMA LedgerPropose ==
    ASSUME Inductive, NEW h \in Handlers, Propose(h)
    PROVE  LedgerInv'
<1> USE DEF Propose
<1>1. UNCHANGED <<collOf, mem, db, log>>
  BY DEF sharedVars, memoryVars, storageVars, diskVars, ciscVars
<1>2. \A g \in Handlers : g # h => Same(g)
  BY DEF Inductive, TypeInv, TypeOK, HandlerTypes, Same, Goto, Answer, Panic, EnterCollection, Done
<1>3. Sound(h)'
  BY <1>1 DEF Inductive, TypeInv, TypeOK, HandlerTypes, HandlerOK, Fits, LedgerInv, Sound,
     Owns, OnChain, Creation, Opening, Setting, Getting, Goto, Answer, Panic
<1>4. Owns(h)' => Owns(h) /\ gid'[h] = gid[h] /\ req'[h] = req[h]
  BY DEF Inductive, TypeInv, TypeOK, HandlerTypes, Owns, Goto, Answer, Panic
<1>5. pc'[h] \in {"start"} \cup Opening =>
        pc[h] \in {"start"} \cup Opening /\ gid'[h] = gid[h]
  BY DEF Inductive, TypeInv, TypeOK, HandlerTypes, Opening, Goto, Answer, Panic
<1>6. QED  BY <1>1, <1>2, <1>3, <1>4, <1>5, Quiet

LEMMA LedgerArrive ==
    ASSUME Inductive, ColdRace = FALSE, NEW h \in Handlers, NEW r \in Requests,
           NEW c \in Chains \cup {None}, Arrive(h, r, c)
    PROVE  LedgerInv'
<1> USE DEF Inductive, LedgerInv, TypeInv, TypeOK, HandlerTypes
<1>1. UNCHANGED <<collOf, mem, db, log>>
  BY DEF Arrive, memoryVars, storageVars, diskVars, ciscVars
<1>2. \A g \in Handlers : g # h => Same(g)
  BY DEF Arrive, Goto, Same
<1>3. pc[h] = "idle" /\ pc'[h] = "start" /\ gid'[h] = c
  BY DEF Arrive, Goto
<1>4. OneOpens'
  <2> SUFFICES ASSUME NEW f \in Handlers, NEW g \in Handlers,
                      (pc[f] \in {"start"} \cup Opening)',
                      (pc[g] \in {"start"} \cup Opening)',
                      (gid[f] = gid[g] /\ gid[g] \in Chains /\ collOf[gid[g]] = None)'
               PROVE  f = g
    BY DEF OneOpens
  <2>1. CASE f # h /\ g # h
    BY <1>1, <1>2, <2>1 DEF OneOpens, Same
  <2>2. ASSUME c \in Chains, collOf[c] = None PROVE Entering(c) = {}
    <3>1. r.op # "create"
      BY <2>2, ConstantsOK DEF Arrive
    <3>2. QED  BY <2>2, <3>1 DEF Arrive
  <2>3. ASSUME c \in Chains, collOf[c] = None, NEW e \in Handlers, e # h, gid'[e] = c
        PROVE  pc'[e] \notin {"start"} \cup Opening
    BY <1>2, <2>2, <2>3 DEF Same, Entering, Opening
  <2>4. QED  BY <1>1, <1>3, <2>1, <2>3
<1>5. InStep'
  BY <1>1 DEF InStep, OnChain
<1>6. OneOwner'
  BY <1>2, <1>3 DEF OneOwner, Owns, Same
<1>7. KeysUnique'
  BY <1>1 DEF KeysUnique, Ledger!KeysAreUnique
<1>8. ASSUME NEW g \in Handlers PROVE Sound(g)'
  <2>1. CASE g = h
    BY <1>3, <2>1 DEF Sound, Owns, Setting
  <2>2. QED  BY <1>1, <1>2, <2>1, SoundFrame
<1>9. QED  BY <1>4, <1>5, <1>6, <1>7, <1>8

\* While a collection is not open nobody works with it, so the new object is
\* its opener's alone.
LEMMA LedgerLoadCollection ==
    ASSUME Inductive, NEW h \in Handlers, LoadCollection(h)
    PROVE  LedgerInv'
<1> USE DEF Inductive, LedgerInv, TypeInv, TypeOK, HandlerTypes, HandlerOK
<1> DEFINE c == gid[h]
<1>1. c \in Chains /\ collOf[c] = None /\ pc[h] = "load" /\ pc'[h] = "install"
  BY DEF LoadCollection, Goto, Fits, Sound, Opening
<1>2. UNCHANGED <<collOf, db, log, req, gid>>
  BY DEF LoadCollection, diskVars, ciscVars
<1>3. \A g \in Handlers : g # h => Same(g)
  BY DEF LoadCollection, Goto, Same
<1>4. \/ /\ mem' = [mem EXCEPT ![c] = [mem[c] EXCEPT ![h] = db[c]]]
         /\ obj'[h] = h
      \/ mem' = mem /\ obj'[h] = None
  BY DEF LoadCollection
<1>5. \A d \in Chains : d # c => mem'[d] = mem[d]
  BY <1>4 DEF MemoryTypes
<1>6. OneOpens'
  BY <1>1, <1>2, <1>3 DEF OneOpens, Same, Opening
<1>7. InStep'
  BY <1>1, <1>2, <1>5 DEF InStep, OnChain
<1>8. OneOwner'
  BY <1>1, <1>3 DEF OneOwner, Owns, Same
<1>9. KeysUnique'
  BY <1>2 DEF KeysUnique, Ledger!KeysAreUnique
<1>10. Sound(h)'
  <2>1. obj'[h] # None => mem'[c][h] = db[c]
    BY <1>1, <1>4 DEF MemoryTypes, Objs
  <2>2. QED
    BY <1>1, <1>2, <2>1 DEF Sound, Owns, Setting
<1>11. ASSUME NEW g \in Handlers, g # h PROVE Sound(g)'
  <2>1. CASE pc[g] \in {"install"} \cup Setting /\ gid[g] # c
    <3>1. gid[g] \in Chains
      BY <2>1 DEF Fits, Opening
    <3>2. mem'[gid[g]] = mem[gid[g]]
      BY <1>5, <2>1, <3>1
    <3>3. QED
      BY <1>2, <1>3, <1>11, <3>2 DEF Sound, Same, Setting, Owns, OnChain, ProposedBlock
  <2>2. CASE pc[g] \in {"install"} \cup Setting /\ gid[g] = c
    <3>1. pc[g] # "install"
      BY <1>1, <1>11, <2>2 DEF OneOpens, Opening
    <3>2. pc[g] = "check" \/ obj[g] = collOf[c]
      BY <2>2, <3>1, ConstantsOK DEF Sound, Fits, Setting, Objs
    <3>3. pc[g] \in {"check", "finish"}
      BY <1>1, <2>2, <3>1, <3>2, ConstantsOK DEF Fits, Setting, Objs
    <3>4. QED
      BY <1>2, <1>3, <1>11, <3>3 DEF Sound, Same, Setting, Owns, ProposedBlock
  <2>3. CASE pc[g] \notin {"install"} \cup Setting
    BY <1>2, <1>3, <1>11, <2>3 DEF Sound, Same, Setting, Owns
  <2>4. QED  BY <2>1, <2>2, <2>3
<1>12. QED  BY <1>6, <1>7, <1>8, <1>9, <1>10, <1>11

LEMMA LedgerInstallCollection ==
    ASSUME Inductive, NEW h \in Handlers, InstallCollection(h)
    PROVE  LedgerInv'
<1> USE DEF Inductive, LedgerInv, TypeInv, TypeOK, HandlerTypes, HandlerOK
<1> DEFINE c == gid[h]
<1>1. /\ c \in Chains /\ collOf[c] = None /\ pc[h] = "install" /\ pc'[h] = "reread"
      /\ obj[h] \in {h, None}
  BY DEF InstallCollection, Goto, Fits, Sound, Opening
<1>2. UNCHANGED <<mem, db, log, req, gid>> /\ collOf' = [collOf EXCEPT ![c] = obj[h]]
  BY DEF InstallCollection, diskVars, ciscVars
<1>3. \A g \in Handlers : g # h => Same(g)
  BY DEF InstallCollection, Goto, Same
<1>4. collOf'[c] = obj[h] /\ h # None /\ \A d \in Chains : d # c => collOf'[d] = collOf[d]
  BY <1>1, <1>2, ConstantsOK DEF MemoryTypes
<1>5. OneOpens'
  BY <1>1, <1>2, <1>3, <1>4 DEF OneOpens, Same, Opening
<1>6. InStep'
  BY <1>1, <1>2, <1>4 DEF InStep, OnChain, Sound
<1>7. OneOwner'
  BY <1>1, <1>3 DEF OneOwner, Owns, Same
<1>8. KeysUnique'
  BY <1>2 DEF KeysUnique, Ledger!KeysAreUnique
<1>9. Sound(h)'
  BY <1>1 DEF Sound, Owns, Setting
<1>10. ASSUME NEW g \in Handlers, g # h PROVE Sound(g)'
  <2>1. CASE pc[g] \in {"load", "install"} \cup Setting /\ gid[g] # c
    <3>1. gid[g] \in Chains
      BY <2>1 DEF Fits, Opening
    <3>2. QED
      BY <1>2, <1>3, <1>4, <1>10, <2>1, <3>1
      DEF Sound, Same, Setting, Owns, OnChain, ProposedBlock
  <2>2. CASE pc[g] \in {"load", "install"} \cup Setting /\ gid[g] = c
    <3>1. pc[g] \notin {"load", "install"}
      BY <1>1, <1>10, <2>2 DEF OneOpens, Opening
    <3>2. obj[g] = None
      BY <1>1, <2>2, <3>1 DEF Sound
    <3>3. pc[g] \in {"check"}
      BY <2>2, <3>1, <3>2, ConstantsOK DEF Fits, Setting, Objs
    <3>4. QED
      BY <1>2, <1>3, <1>10, <3>2, <3>3 DEF Sound, Same, Setting, Owns
  <2>3. CASE pc[g] \notin {"load", "install"} \cup Setting
    BY <1>3, <1>10, <2>3 DEF Sound, Same, Setting, Owns
  <2>4. QED  BY <2>1, <2>2, <2>3
<1>11. QED  BY <1>5, <1>6, <1>7, <1>8, <1>9, <1>10

\* coll.Add accepts a key only if nobody owns it and it is not on the chain.
LEMMA LedgerAddToCollection ==
    ASSUME Inductive, NEW h \in Handlers, AddToCollection(h)
    PROVE  LedgerInv'
<1> USE DEF Inductive, LedgerInv, TypeInv, TypeOK, HandlerTypes, HandlerOK
<1> DEFINE c == gid[h]
           o == obj[h]
           k == req[h].key
           rec == [idx |-> idx[h], val |-> req[h].val]
<1>1. /\ pc[h] = "add" /\ c \in Chains /\ o \in Objs /\ o = collOf[c] /\ k \in Keys
      /\ idx[h] \in Nat /\ req[h].val \in Vals
  BY RequestFields, ConstantsOK DEF AddToCollection, Fits, Sound, Setting, Getting, Objs
<1>2. UNCHANGED <<collOf, db, log, req, gid, obj, idx>>
  BY DEF AddToCollection, ciscVars
<1>3. \A g \in Handlers : g # h => Same(g)
  BY DEF AddToCollection, Goto, Answer, Panic, Same
<1>4. CASE Collision(h)
  <2>1. UNCHANGED mem /\ pc'[h] = "reply"
    BY <1>4 DEF AddToCollection, Answer, Panic, Goto
  <2>2. QED  BY <1>2, <1>3, <2>1, AnswersQuietly, Quiet DEF Resting
<1>5. CASE ~Collision(h)
  <2>1. mem[c][o][k] = None /\ pc'[h] = "commit"
    BY <1>5 DEF AddToCollection, Collision, Goto
  <2>2. mem' = [mem EXCEPT ![c] = [mem[c] EXCEPT ![o] = [mem[c][o] EXCEPT ![k] = rec]]]
    BY <1>5 DEF AddToCollection
  <2>3. mem[c] \in [Objs -> Stored] /\ mem[c][o] \in Stored /\ rec # None
    BY <1>1, NoneIsNoRecord DEF MemoryTypes
  <2> HIDE DEF rec
  <2>4. mem'[c][o][k] # None
    BY <1>1, <2>2, <2>3 DEF MemoryTypes, Stored
  <2>5. \A d \in Chains, p \in Objs, j \in Keys :
            (d # c \/ p # o \/ j # k) => mem'[d][p][j] = mem[d][p][j]
    BY <1>1, <2>2, <2>3 DEF MemoryTypes, Stored
  <2>6. \A d \in Chains, p \in Objs, j \in Keys :
            mem[d][p][j] # None => mem'[d][p][j] # None
    BY <2>4, <2>5
  <2>7. ~OnChain(c, k)
    BY <1>1, <2>1, ConstantsOK DEF InStep, Objs
  <2>8. \A g \in Handlers : Owns(g) /\ gid[g] = c => req[g].key # k
    <3>1. \A g \in Handlers : Owns(g) => obj[g] = collOf[gid[g]]
      BY ConstantsOK DEF Owns, Sound, Fits, Setting, Getting, Objs
    <3>2. QED  BY <1>1, <2>1, <3>1 DEF Owns, Sound, Setting
  <2>9. OneOpens'
    BY <1>2, <1>3, <2>1 DEF OneOpens, Same, Opening
  <2>10. InStep'
    BY <1>2, <2>6 DEF InStep, OnChain, MemoryTypes
  <2>11. OneOwner'
    BY <1>2, <1>3, <2>1, <2>8 DEF OneOwner, Owns, Same
  <2>12. KeysUnique'
    BY <1>2 DEF KeysUnique, Ledger!KeysAreUnique
  <2>13. Sound(h)'
    BY <1>1, <1>2, <2>1, <2>4, <2>7 DEF Sound, Owns, OnChain, Setting
  <2>14. ASSUME NEW g \in Handlers, g # h PROVE Sound(g)'
    <3>1. /\ pc[g] \in {"install"} \cup Setting => gid[g] \in Chains /\ req[g].key \in Keys
          /\ Owns(g) => obj[g] \in Objs
      BY RequestFields DEF Fits, Opening, Setting, Getting, Owns
    <3>2. QED
      BY <1>2, <1>3, <2>6, <2>14, <3>1
      DEF Sound, Same, Setting, Owns, OnChain, ProposedBlock, Objs
  <2>15. QED  BY <2>9, <2>10, <2>11, <2>12, <2>13, <2>14
<1>6. QED  BY <1>4, <1>5

LEMMA LedgerCommitStore ==
    ASSUME Inductive, NEW h \in Handlers, CommitStore(h)
    PROVE  LedgerInv'
<1> USE DEF Inductive, LedgerInv, TypeInv, TypeOK, HandlerTypes, HandlerOK
<1> DEFINE c == gid[h]
           k == req[h].key
           rec == [idx |-> idx[h], val |-> req[h].val]
<1>1. /\ pc[h] = "commit" /\ c \in Chains /\ k \in Keys /\ obj[h] = collOf[c]
      /\ obj[h] # None /\ mem[c][obj[h]][k] # None /\ ~OnChain(c, k)
      /\ idx[h] \in Nat /\ req[h].val \in Vals
  BY RequestFields, ConstantsOK DEF CommitStore, Fits, Sound, Setting, Owns, Objs
<1>2. UNCHANGED <<collOf, mem, log, req, gid, obj, idx>>
  BY DEF CommitStore, memoryVars, storageVars, ciscVars
<1>3. \A g \in Handlers : g # h => Same(g)
  BY DEF CommitStore, FailStore, Goto, Answer, Panic, Same
<1>4. CASE UNCHANGED db /\ pc'[h] = "reply"
  BY <1>2, <1>3, <1>4, AnswersQuietly, Quiet DEF Resting
<1>5. CASE db' = [db EXCEPT ![c] = [db[c] EXCEPT ![k] = rec]] /\ pc'[h] = "propose"
  <2>1. rec # None
    BY <1>1, NoneIsNoRecord
  <2> HIDE DEF rec
  <2>2. db[c] \in Stored
    BY <1>1 DEF DiskTypes
  <2>3. db'[c][k] # None
    BY <1>1, <1>5, <2>1, <2>2 DEF DiskTypes, Stored
  <2>4. \A d \in Chains, j \in Keys : (d # c \/ j # k) => db'[d][j] = db[d][j]
    BY <1>1, <1>5, <2>2 DEF DiskTypes, Stored
  <2>5. OneOpens'
    BY <1>2, <1>3, <1>5 DEF OneOpens, Same, Opening
  <2>6. InStep'
    BY <1>1, <1>2, <2>3, <2>4 DEF InStep, OnChain
  <2>7. OneOwner'
    BY <1>1, <1>2, <1>3, <1>5 DEF OneOwner, Owns, Same
  <2>8. KeysUnique'
    BY <1>2 DEF KeysUnique, Ledger!KeysAreUnique
  <2>9. Sound(h)'
    BY <1>1, <1>2, <1>5, <2>3 DEF Sound, Owns, OnChain, Setting
  <2>10. ASSUME NEW g \in Handlers, g # h PROVE Sound(g)'
    <3>1. /\ pc[g] \in {"install"} \cup Setting => gid[g] \in Chains /\ req[g].key \in Keys
          /\ pc[g] = "install" => gid[g] # c
      BY <1>1, RequestFields DEF Fits, Opening, Setting, Sound
    <3>2. QED
      BY <1>2, <1>3, <2>3, <2>4, <2>10, <3>1
      DEF Sound, Same, Setting, Owns, OnChain, ProposedBlock
  <2>11. QED  BY <2>5, <2>6, <2>7, <2>8, <2>9, <2>10
<1>6. QED  BY <1>4, <1>5 DEF CommitStore, FailStore, Answer, Panic, Goto

\* The handler that votes owns its key: the block it appends is the first one.
LEMMA LedgerVote ==
    ASSUME Inductive, NEW h \in Handlers, Vote(h)
    PROVE  LedgerInv'
<1> USE DEF Inductive, LedgerInv, TypeInv, TypeOK, HandlerTypes, HandlerOK
<1> DEFINE c == gid[h]
           k == req[h].key
           b == ProposedBlock(h)
<1>1. /\ pc[h] = "vote" /\ c \in Chains /\ k \in Keys /\ db[c][k] # None
      /\ ~OnChain(c, k) /\ b \in Blocks /\ b.key = k /\ log[c] \in Seq(Blocks)
  BY RequestFields, ProposedBlockType DEF Vote, Fits, Sound, Setting, Owns, CiscTypes
<1>2. UNCHANGED <<collOf, mem, db, req, gid, obj>>
  BY DEF Vote, memoryVars, storageVars, diskVars
<1>3. \A g \in Handlers : g # h => Same(g)
  BY DEF Vote, Goto, Answer, Panic, Same
<1>4. CASE UNCHANGED log /\ pc'[h] = "reply"
  BY <1>2, <1>3, <1>4, AnswersQuietly, Quiet DEF Resting
<1>5. CASE /\ log' = [log EXCEPT ![c] = Append(log[c], b)]
           /\ \/ pc'[h] = "reply"
              \/ pc'[h] = "finish" /\ idx'[h] = Len(log[c]) + 1
  <2> HIDE DEF b
  <2>1. /\ DOMAIN log'[c] = 1..(Len(log[c]) + 1)
        /\ DOMAIN log[c] = 1..Len(log[c]) /\ Len(log[c]) \in Nat
        /\ log'[c][Len(log[c]) + 1] = b
        /\ \A i \in DOMAIN log[c] : log'[c][i] = log[c][i]
        /\ \A d \in Chains : d # c => log'[d] = log[d]
    BY <1>1, <1>5 DEF CiscTypes
  <2> DEFINE n == Len(log[c])
  <2>2. ASSUME NEW d \in Chains, NEW j \in Keys
        PROVE  OnChain(d, j)' <=> (OnChain(d, j) \/ (d = c /\ j = k))
    <3>1. CASE d # c
      BY <2>1, <3>1 DEF OnChain
    <3>2. CASE d = c
      <4>1. ASSUME NEW i \in DOMAIN log'[c], log'[c][i].key = j
            PROVE  OnChain(c, j) \/ j = k
        <5>1. i \in DOMAIN log[c] \/ i = n + 1
          BY <2>1
        <5>2. QED  BY <1>1, <2>1, <4>1, <5>1 DEF OnChain
      <4>2. ASSUME NEW i \in DOMAIN log[c], log[c][i].key = j
            PROVE  OnChain(c, j)'
        <5>1. i \in DOMAIN log'[c] /\ log'[c][i] = log[c][i]
          BY <2>1
        <5>2. QED  BY <1>2, <4>2, <5>1 DEF OnChain
      <4>3. ASSUME j = k
            PROVE  OnChain(c, j)'
        <5>1. n + 1 \in DOMAIN log'[c] /\ log'[c][n + 1].key = k
          BY <1>1, <2>1
        <5>2. \E i \in DOMAIN log'[c] : log'[c][i].key = j
          BY <4>3, <5>1
        <5>3. QED  BY <1>2, <5>2 DEF OnChain
      <4>4. OnChain(c, j)' => OnChain(c, j) \/ j = k
        BY <1>2, <4>1 DEF OnChain
      <4>5. OnChain(c, j) => OnChain(c, j)'
        BY <1>2, <4>2 DEF OnChain
      <4>6. QED  BY <1>2, <3>2, <4>3, <4>4, <4>5
    <3>3. QED  BY <3>1, <3>2
  <2>3. OneOpens'
    BY <1>2, <1>3, <1>5 DEF OneOpens, Same, Opening
  <2>4. InStep'
    BY <1>1, <1>2, <2>2 DEF InStep
  <2>5. OneOwner'
    BY <1>2, <1>3, <1>5 DEF OneOwner, Owns, Same
  <2>6. KeysUnique'
    <3> SUFFICES ASSUME NEW d \in Chains, NEW i \in DOMAIN log'[d], NEW j \in DOMAIN log'[d],
                        log'[d][i].key = log'[d][j].key
                 PROVE  i = j
      BY DEF KeysUnique, Ledger!KeysAreUnique
    <3>1. CASE d # c
      BY <2>1, <3>1 DEF KeysUnique, Ledger!KeysAreUnique
    <3>2. CASE d = c
      <4>1. /\ i \in DOMAIN log[c] \/ i = n + 1
            /\ j \in DOMAIN log[c] \/ j = n + 1
        BY <2>1, <3>2
      <4>2. \A x \in DOMAIN log[c] : log'[c][x].key # k
        BY <1>1, <2>1 DEF OnChain
      <4>3. log'[c][n + 1].key = k
        BY <1>1, <2>1
      <4>4. CASE i \in DOMAIN log[c] /\ j \in DOMAIN log[c]
        BY <2>1, <3>2, <4>4 DEF KeysUnique, Ledger!KeysAreUnique
      <4>5. QED  BY <3>2, <4>1, <4>2, <4>3, <4>4
    <3>3. QED  BY <3>1, <3>2
  <2>7. Sound(h)'
    <3>1. b = ProposedBlock(h)'
      BY <1>2 DEF ProposedBlock, b
    <3>2. QED  BY <1>1, <1>2, <1>5, <2>1, <3>1 DEF Sound, Owns, Setting
  <2>8. ASSUME NEW g \in Handlers, g # h PROVE Sound(g)'
    <3>1. /\ pc[g] \in Setting => gid[g] \in Chains
          /\ Owns(g) /\ gid[g] = c => req[g].key # k
      BY <1>1, <2>8 DEF Fits, Setting, Owns, OneOwner
    <3>2. ProposedBlock(g)' = ProposedBlock(g)
      BY <1>2 DEF ProposedBlock
    <3>3. ASSUME pc[g] = "finish"
          PROVE  /\ idx[g] \in DOMAIN log'[gid[g]]
                 /\ log'[gid[g]][idx[g]] = ProposedBlock(g)
      <4>1. /\ gid[g] \in Chains /\ idx[g] \in DOMAIN log[gid[g]]
            /\ log[gid[g]][idx[g]] = ProposedBlock(g)
        BY <3>1, <3>3 DEF Sound, Setting
      <4>2. CASE gid[g] = c
        <5>1. idx[g] \in DOMAIN log[c]
          BY <4>1, <4>2
        <5>2. idx[g] \in DOMAIN log'[c] /\ log'[c][idx[g]] = log[c][idx[g]]
          BY <2>1, <5>1
        <5>3. QED  BY <4>1, <4>2, <5>2
      <4>3. CASE gid[g] # c
        BY <2>1, <4>1, <4>3
      <4>4. QED  BY <4>2, <4>3
    <3>4. ASSUME Owns(g)
          PROVE  ~OnChain(gid[g], req[g].key)'
      <4>1. /\ gid[g] \in Chains /\ req[g].key \in Keys /\ ~OnChain(gid[g], req[g].key)
            /\ ~(gid[g] = c /\ req[g].key = k)
        BY <3>1, <3>4, RequestFields DEF Sound, Owns, Setting, Fits
      <4>2. OnChain(gid[g], req[g].key)' <=> OnChain(gid[g], req[g].key)
        BY <1>2, <2>2, <4>1 DEF OnChain
      <4>3. QED  BY <4>1, <4>2
    <3>5. QED
      BY <1>2, <1>3, <2>8, <3>2, <3>3, <3>4 DEF Sound, Same, Setting, Owns, OnChain
  <2>9. QED  BY <2>3, <2>4, <2>5, <2>6, <2>7, <2>8
<1>6. QED
  BY <1>4, <1>5 DEF Vote, AppendBlock, PlaceOfBlock, Answer, Panic, Goto

LEMMA RestoredFromDb ==
    ASSUME NEW failed \in SUBSET Chains, Restore(failed), NEW c \in Chains, collOf'[c] # None
    PROVE  mem'[c][collOf'[c]] = db[c]
<1>1. collOf'[c] = Boot /\ Boot \in Objs
  BY DEF Restore, CollectionsOf, Objs
<1>2. mem'[c] = [o \in Objs |-> IF o = Boot /\ collOf'[c] = Boot THEN db[c] ELSE Nothing]
  BY DEF Restore, CollectionsOf
<1>3. QED  BY <1>1, <1>2

\* A restart opens collections with what the database has, and nothing is owned.
LEMMA LedgerCrash == Inductive /\ CrashAndRestart => LedgerInv'
<1> SUFFICES ASSUME Inductive, CrashAndRestart PROVE LedgerInv'
  OBVIOUS
<1> USE DEF Inductive, LedgerInv, TypeInv, TypeOK
<1>1. \A h \in Handlers : pc'[h] = "idle"
  BY DEF CrashAndRestart
<1>2. UNCHANGED <<db, log>>
  BY DEF CrashAndRestart, ciscVars
<1>3. OneOpens' /\ OneOwner' /\ \A h \in Handlers : Sound(h)'
  BY <1>1 DEF OneOpens, OneOwner, Sound, Owns, Opening, Setting
<1>4. KeysUnique'
  BY <1>2 DEF KeysUnique, Ledger!KeysAreUnique
<1>5. \A failed \in SUBSET Chains : Restore(failed) =>
         \A c \in Chains : collOf'[c] # None => mem'[c][collOf'[c]] = db[c]
  BY RestoredFromDb
<1>6. InStep'
  <2>1. \A c \in Chains : collOf'[c] # None => mem'[c][collOf'[c]] = db[c]
    BY <1>5 DEF CrashAndRestart
  <2>2. QED  BY <1>2, <2>1 DEF InStep, OnChain
<1>7. QED  BY <1>3, <1>4, <1>6

LEMMA LedgerStutter == Inductive /\ UNCHANGED vars => LedgerInv'
BY SMTT(20) DEF Inductive, LedgerInv, OneOpens, InStep, OneOwner, KeysUnique, Ledger!KeysAreUnique,
   Sound, Owns, OnChain, ProposedBlock, vars, handlerVars, sharedVars, memoryVars, storageVars, diskVars,
   ciscVars

LEMMA LedgerNext ==
    ASSUME ColdRace = FALSE, Inductive, [Next]_vars
    PROVE  Inductive'
<1>1. TypeInv'
  BY TypeNext DEF Inductive
<1>2. ASSUME NEW h \in Handlers, HandlerStep(h)
      PROVE  LedgerInv'
  BY <1>2, LedgerCreateIdentity, LedgerRegisterIdentity, LedgerRegisterPrivate,
     LedgerRegisterWriter, LedgerSaveStorage, LedgerStartSet, LedgerStartGet, LedgerLoadCollection, LedgerInstallCollection, LedgerRereadCollection,
     LedgerTornRead, LedgerNilCollection, LedgerCheckKey, LedgerReadIndex, LedgerBeginStore,
     LedgerAddToCollection, LedgerCommitStore, LedgerPropose, LedgerVote, LedgerFinishSet,
     LedgerReadValue, LedgerFetchBlock, LedgerDone
  DEF HandlerStep
<1>3. LedgerInv'
  BY <1>2, LedgerArrive, LedgerCrash, LedgerStutter DEF Next
<1>4. QED  BY <1>1, <1>3 DEF Inductive

(***************************************************************************)
(* The ledger's invariant, which the other results about the service start *)
(* from: of the handlers that store, one owns a key of a chain, and memory,*)
(* database and chain never disagree on who that is, for any number of     *)
(* handlers and chains and with restarts and external calls that fail.     *)
(***************************************************************************)
THEOREM LedgerIsKept == ColdRace = FALSE => (Spec => []Inductive)
<1> SUFFICES ASSUME ColdRace = FALSE PROVE Spec => []Inductive
  OBVIOUS
<1>1. Init => Inductive
  BY TypeInit, LedgerInit DEF Inductive
<1>2. Inductive /\ [Next]_vars => Inductive'
  BY LedgerNext
<1>3. QED  BY <1>1, <1>2, PTL DEF Spec

(***************************************************************************)
(* "A key/value pair can only be stored once": with any number of handlers *)
(* and chains, restarts at any point and external calls that fail, no key  *)
(* is in two blocks of its chain.                                          *)
(***************************************************************************)
THEOREM WriteOnce == ColdRace = FALSE => (Spec => []KeysUnique)
<1> SUFFICES ASSUME ColdRace = FALSE PROVE Spec => []KeysUnique
  OBVIOUS
<1>1. Inductive => KeysUnique
  BY DEF Inductive, LedgerInv
<1>2. Spec => []Inductive
  BY LedgerIsKept
<1>3. QED  BY <1>1, <1>2, PTL

-----------------------------------------------------------------------------
(* The refinement of WriteOnceLedger.                                      *)

\* Only Vote writes the chains and only FinishSet writes what is confirmed.
LEMMA OtherSteps ==
    ASSUME NEW h \in Handlers, HandlerStep(h), ~Vote(h), ~FinishSet(h)
    PROVE  UNCHANGED <<log, acked>>
BY DEF HandlerStep, CreateIdentity, RegisterIdentity, RegisterPrivate, RegisterWriter,
   SaveStorage, StartSet, StartGet,
   LoadCollection, InstallCollection, RereadCollection, TornRead, NilCollection, CheckKey, ReadIndex,
   BeginStore, AddToCollection, CommitStore, Propose, ReadValue, FetchBlock, Done,
   sharedVars, ciscVars, clientVars

LEMMA VoteStores ==
    ASSUME Inductive, NEW h \in Handlers, Vote(h)
    PROVE  Ledger!Next \/ UNCHANGED <<log, acked>>
<1>1. /\ gid[h] \in Chains /\ ~OnChain(gid[h], req[h].key)
      /\ ProposedBlock(h) \in Blocks /\ ProposedBlock(h).key = req[h].key
  BY ProposedBlockType
  DEF Inductive, TypeInv, HandlerOK, Fits, LedgerInv, Sound, Owns, Setting, Vote
<1>2. UNCHANGED acked
  BY DEF Vote, clientVars
<1>3. CASE AppendBlock(h)
  <2>1. Ledger!Store(gid[h], ProposedBlock(h))
    BY <1>1, <1>2, <1>3 DEF Ledger!Store, Ledger!KeysOf, OnChain, AppendBlock
  <2>2. QED  BY <1>1, <2>1 DEF Ledger!Next
<1>4. CASE UNCHANGED log
  BY <1>2, <1>4
<1>5. QED  BY <1>3, <1>4 DEF Vote

LEMMA FinishConfirms ==
    ASSUME Inductive, NEW h \in Handlers, FinishSet(h)
    PROVE  Ledger!Next
<1>1. /\ gid[h] \in Chains /\ idx[h] \in DOMAIN log[gid[h]]
      /\ log[gid[h]][idx[h]] = ProposedBlock(h)
  BY DEF Inductive, TypeInv, HandlerOK, Fits, LedgerInv, Sound, Setting, FinishSet
<1>2. Ledger!Confirm(gid[h], idx[h])
  BY <1>1 DEF Ledger!Confirm, FinishSet, ciscVars
<1>3. QED  BY <1>1, <1>2 DEF Ledger!Next

(***************************************************************************)
(* The service implements the write-once ledger: a vote that appends a     *)
(* block stores a key that is new to its chain, finishing a SetKeyValue    *)
(* confirms the block where it is, and every other step, a restart         *)
(* included, leaves the ledger as it is.                                   *)
(***************************************************************************)
THEOREM ServiceImplementsLedger == ColdRace = FALSE => (Spec => ImplementsLedger)
<1> SUFFICES ASSUME ColdRace = FALSE PROVE Spec => ImplementsLedger
  OBVIOUS
<1>1. Init => Ledger!Init
  BY DEF Init, Ledger!Init
<1>2. Inductive /\ [Next]_vars => [Ledger!Next]_(Ledger!vars)
  <2> SUFFICES ASSUME Inductive, [Next]_vars
               PROVE  Ledger!Next \/ UNCHANGED <<log, acked>>
    BY DEF Ledger!vars
  <2>1. ASSUME NEW h \in Handlers, HandlerStep(h)
        PROVE  Ledger!Next \/ UNCHANGED <<log, acked>>
    BY <2>1, OtherSteps, VoteStores, FinishConfirms
  <2>2. ASSUME NEW h \in Handlers, NEW r \in Requests, NEW c \in Chains \cup {None},
               Arrive(h, r, c)
        PROVE  UNCHANGED <<log, acked>>
    BY <2>2 DEF Arrive, ciscVars, clientVars
  <2>3. CrashAndRestart => UNCHANGED <<log, acked>>
    BY DEF CrashAndRestart, ciscVars, clientVars
  <2>4. UNCHANGED vars => UNCHANGED <<log, acked>>
    BY DEF vars, sharedVars, ciscVars, clientVars
  <2>5. QED  BY <2>1, <2>2, <2>3, <2>4 DEF Next
<1>3. Spec => []Inductive
  BY LedgerIsKept
<1>4. QED  BY <1>1, <1>2, <1>3, PTL DEF Spec, ImplementsLedger, Ledger!Spec

-----------------------------------------------------------------------------
(* What was confirmed, what is signed, what is read.                       *)

\* A step of one handler leaves the local variables of the others alone.
LEMMA OthersSame ==
    ASSUME TypeInv, NEW h \in Handlers, HandlerStep(h)
    PROVE  \A g \in Handlers : g # h => Same(g)
<1> USE DEF TypeInv, TypeOK, HandlerTypes, Same, Goto, Answer, Panic
<1>1. CreateIdentity(h) \/ SaveStorage(h) => \A g \in Handlers : g # h => Same(g)
  BY DEF CreateIdentity, SaveStorage
<1>9. RegisterIdentity(h) \/ RegisterPrivate(h) \/ RegisterWriter(h)
         => \A g \in Handlers : g # h => Same(g)
  BY DEF RegisterIdentity, RegisterPrivate, RegisterWriter
<1>2. StartSet(h) \/ StartGet(h) => \A g \in Handlers : g # h => Same(g)
  BY DEF StartSet, StartGet, EnterCollection
<1>3. LoadCollection(h) \/ InstallCollection(h) \/ RereadCollection(h)
         => \A g \in Handlers : g # h => Same(g)
  BY DEF LoadCollection, InstallCollection, RereadCollection
<1>4. TornRead(h) \/ NilCollection(h) \/ CheckKey(h) \/ ReadIndex(h)
         => \A g \in Handlers : g # h => Same(g)
  BY DEF TornRead, NilCollection, CheckKey, ReadIndex
<1>5. BeginStore(h) \/ AddToCollection(h) \/ CommitStore(h)
         => \A g \in Handlers : g # h => Same(g)
  BY DEF BeginStore, AddToCollection, CommitStore, FailStore
<1>6. Propose(h) \/ Vote(h) \/ FinishSet(h) => \A g \in Handlers : g # h => Same(g)
  BY DEF Propose, Vote, FinishSet
<1>7. ReadValue(h) \/ FetchBlock(h) \/ Done(h) => \A g \in Handlers : g # h => Same(g)
  BY DEF ReadValue, FetchBlock, Done
<1>8. QED  BY <1>1, <1>2, <1>3, <1>4, <1>5, <1>6, <1>7, <1>9 DEF HandlerStep

-----------------------------------------------------------------------------
(* Chains with a writer carry signed blocks only, while the writer is kept. *)

LEMMA FaultIsNoCrash ==
    ASSUME UsedType, Fault \/ UNCHANGED used
    PROVE  used'["crashes"] = used["crashes"]
BY DEF UsedType, Fault

LEMMA WritersInit == Init => WritersInv
<1> SUFFICES ASSUME Init PROVE WritersInv
  OBVIOUS
<1>1. WriterKept
  BY DEF Init, WriterKept
<1>2. OneCreates /\ \A h \in Handlers : Signs(h)
  BY DEF Init, OneCreates, Signs, Creation, Opening, Setting
<1>3. QED  BY <1>1, <1>2, TypeInit DEF WritersInv

\* What the writers of chains depend on, apart from the handlers.
WriterState == <<genesis, ident, writers, saved, log, announced>>

\* Steps that leave the writers, the chains and the clients alone.
LEMMA WritersFrame ==
    ASSUME WritersInv, TypeInv', NEW h \in Handlers,
           \A g \in Handlers : g # h => Same(g),
           UNCHANGED WriterState, used'["crashes"] = used["crashes"], Signs(h)',
           pc'[h] \in Creation => pc[h] \in Creation /\ gid'[h] = gid[h]
    PROVE  WritersInv'
<1>1. WriterKept'
  BY DEF WritersInv, WriterKept, WriterState
<1>2. OneCreates'
  BY DEF WritersInv, OneCreates, Same
<1>3. \A g \in Handlers : g # h => Signs(g)'
  BY DEF WritersInv, Signs, Same, WriterState, Creation, Opening, Setting
<1>4. QED  BY <1>1, <1>2, <1>3 DEF WritersInv

LEMMA WritersCreateIdentity ==
    ASSUME WritersInv, TypeInv', NEW h \in Handlers, CreateIdentity(h)
    PROVE  WritersInv'
<1> DEFINE w == StoredWriter(req[h].writers)
<1>1. \A g \in Handlers : g # h => Same(g)
  BY OthersSame DEF HandlerStep, WritersInv
<1>2. /\ UNCHANGED <<ident, writers, saved, log, announced>>
      /\ pc[h] = "start" /\ req' = req
      /\ used'["crashes"] = used["crashes"]
  BY FaultIsNoCrash DEF CreateIdentity, memoryVars, storageVars, diskVars, clientVars, WritersInv,
     TypeInv, TypeOK
<1>3. CASE UNCHANGED genesis /\ pc'[h] = "reply"
  BY <1>1, <1>2, <1>3, WritersFrame DEF Signs, Setting, Opening, Creation, WriterState
<1>4. ASSUME NEW c \in FreshIds, pc'[h] = "identity",
             genesis' = [genesis EXCEPT ![c] = w], gid' = [gid EXCEPT ![h] = c]
      PROVE  WritersInv'
  <2>1. w \in WriterKinds /\ w # None
    BY <1>2, StoredWriterKind, NoneIsNoWriter
    DEF WritersInv, TypeInv, HandlerOK, Fits
  <2> HIDE DEF w
  <2>2. /\ c \in Chains /\ c \notin Ghosts /\ genesis[c] = None
        /\ genesis'[c] = w /\ gid'[h] = c
        /\ \A d \in Chains : d # c => genesis'[d] = genesis[d]
    BY <1>4 DEF FreshIds, WritersInv, TypeInv, TypeOK, CiscTypes, HandlerTypes
  <2>3. writers[c] = "none" /\ c \notin announced
    BY <2>2 DEF WritersInv, WriterKept
  <2>4. WriterKept'
    BY <1>2, <2>1, <2>2, <2>3 DEF WritersInv, WriterKept
  <2>5. ASSUME NEW g \in Handlers, g # h, pc[g] \in Creation PROVE gid'[g] # c
    BY <1>1, <2>2, <2>5 DEF WritersInv, Signs, Same
  <2>6. OneCreates'
    BY <1>1, <2>2, <2>5 DEF WritersInv, OneCreates, Same
  <2>7. Signs(h)'
    BY <1>2, <1>4, <2>1, <2>2, <2>3 DEF Signs, Setting, Opening, Creation, w
  <2>8. ASSUME NEW g \in Handlers, g # h PROVE Signs(g)'
    <3>1. pc[g] \in Creation => gid[g] \in Chains /\ genesis'[gid[g]] = genesis[gid[g]]
      BY <1>1, <2>2, <2>5, <2>8 DEF WritersInv, TypeInv, HandlerOK, Fits, Same
    <3>2. Same(g) /\ Signs(g)
      BY <1>1, <2>8 DEF WritersInv
    <3>3. QED  BY <1>2, <3>1, <3>2 DEF Signs, Same, Creation, Opening, Setting
  <2>9. QED  BY <2>4, <2>6, <2>7, <2>8 DEF WritersInv
<1>5. QED  BY <1>3, <1>4 DEF CreateIdentity, Answer, Goto, WritersInv, TypeInv,
              TypeOK, HandlerTypes

\* The chain a handler creates is none that another handler works with.
LEMMA CreatesAlone ==
    ASSUME WritersInv, NEW h \in Handlers, pc[h] \in Creation, NEW g \in Handlers, g # h
    PROVE  /\ pc[g] \in Creation => gid[g] # gid[h]
           /\ pc[g] \in Setting \/ (pc[g] \in Opening /\ req[g].op = "set")
                 => gid[g] # gid[h]
BY DEF WritersInv, OneCreates, Signs

LEMMA WritersRegisterIdentity ==
    ASSUME WritersInv, TypeInv', NEW h \in Handlers, RegisterIdentity(h)
    PROVE  WritersInv'
<1>1. \A g \in Handlers : g # h => Same(g)
  BY OthersSame DEF HandlerStep, WritersInv
<1>2. /\ UNCHANGED <<genesis, writers, saved, log, announced, used, req, gid>>
      /\ pc[h] = "identity" /\ pc'[h] = "private"
      /\ gid[h] \in Chains /\ genesis[gid[h]] # None
  BY DEF RegisterIdentity, diskVars, ciscVars, clientVars, WritersInv, TypeInv, TypeOK,
     HandlerTypes, HandlerOK, Fits, Goto, Signs, Creation
<1>3. \A d \in Chains : d # gid[h] => ident'[d] = ident[d]
  BY <1>2 DEF RegisterIdentity, WritersInv, TypeInv, TypeOK, MemoryTypes, Idents
<1>4. WriterKept'
  BY <1>2, <1>3 DEF WritersInv, WriterKept
<1>5. OneCreates'
  BY <1>1, <1>2 DEF WritersInv, OneCreates, Same, Creation
<1>6. \A g \in Handlers : Signs(g)'
  BY <1>1, <1>2 DEF WritersInv, Signs, Same, Creation, Setting, Opening
<1>7. QED  BY <1>4, <1>5, <1>6 DEF WritersInv

LEMMA WritersRegisterPrivate ==
    ASSUME WritersInv, TypeInv', NEW h \in Handlers, RegisterPrivate(h)
    PROVE  WritersInv'
<1>1. \A g \in Handlers : g # h => Same(g)
  BY OthersSame DEF HandlerStep, WritersInv
<1>2. /\ UNCHANGED WriterState /\ UNCHANGED <<used, req, gid>>
      /\ pc[h] = "private" /\ pc'[h] = "writer"
  BY DEF RegisterPrivate, diskVars, ciscVars, clientVars, WriterState, WritersInv, TypeInv, TypeOK,
     HandlerTypes, Goto
<1>3. Signs(h)'
  BY <1>2 DEF WritersInv, Signs, Creation, Setting, Opening, WriterState
<1>4. QED  BY <1>1, <1>2, <1>3, WritersFrame DEF Creation

\* The writer of the genesis block gets into memory before a client can name
\* the chain.
LEMMA WritersRegisterWriter ==
    ASSUME WritersInv, TypeInv', NEW h \in Handlers, RegisterWriter(h)
    PROVE  WritersInv'
<1> DEFINE c == gid[h]
<1>1. \A g \in Handlers : g # h => Same(g)
  BY OthersSame DEF HandlerStep, WritersInv
<1>2. /\ UNCHANGED <<genesis, ident, saved, log, announced, used, req, gid>>
      /\ pc[h] = "writer" /\ pc'[h] = "save" /\ c \in Chains
  BY DEF RegisterWriter, diskVars, ciscVars, clientVars, WritersInv, TypeInv, TypeOK,
     HandlerTypes, HandlerOK, Fits, Goto, Creation
<1>3. /\ genesis[c] # None /\ c \notin announced /\ writers[c] = "none"
      /\ genesis[c] = StoredWriter(req[h].writers) /\ log[c] = <<>>
  BY <1>2 DEF WritersInv, Signs, WriterKept, Creation
<1>4. writers'[c] = genesis[c] /\ \A d \in Chains : d # c => writers'[d] = writers[d]
  BY <1>2, <1>3 DEF RegisterWriter, WritersInv, TypeInv, TypeOK, MemoryTypes, Writers
<1>5. WriterKept'
  BY <1>2, <1>3, <1>4 DEF WritersInv, WriterKept
<1>6. OneCreates'
  BY <1>1, <1>2 DEF WritersInv, OneCreates, Same, Creation
<1>7. Signs(h)'
  BY <1>2, <1>3, <1>4 DEF Signs, Creation, Setting, Opening
<1>8. ASSUME NEW g \in Handlers, g # h PROVE Signs(g)'
  <2>1. /\ Same(g) /\ Signs(g)
        /\ pc[g] \in Creation => gid[g] \in Chains /\ gid[g] # c
        /\ pc[g] \in Setting \/ (pc[g] \in Opening /\ req[g].op = "set")
              => gid[g] \in Chains /\ gid[g] # c
    BY <1>1, <1>2, <1>8, CreatesAlone DEF WritersInv, TypeInv, HandlerOK, Fits, Creation
  <2>2. QED  BY <1>2, <1>4, <2>1 DEF Signs, Same, Creation, Setting, Opening
<1>9. QED  BY <1>5, <1>6, <1>7, <1>8 DEF WritersInv

\* What save() writes has the writers that memory has; the chain is announced
\* with its writer in memory, even when nothing is written.
LEMMA WritersSaveStorage ==
    ASSUME WritersInv, TypeInv', NEW h \in Handlers, SaveStorage(h)
    PROVE  WritersInv'
<1> DEFINE c == gid[h]
<1>1. \A g \in Handlers : g # h => Same(g)
  BY OthersSame DEF HandlerStep, WritersInv
<1>2. /\ UNCHANGED <<genesis, ident, writers, log, req, gid>>
      /\ pc[h] = "save" /\ pc'[h] = "reply" /\ c \in Chains
      /\ announced' = announced \cup {c}
      /\ saved' = saved \/ (saved'.identities = ident /\ saved'.writers = writers)
      /\ used'["crashes"] = used["crashes"]
  BY FaultIsNoCrash DEF SaveStorage, StorageOfNow, memoryVars, storageVars, ciscVars, Answer, Goto,
     WritersInv, TypeInv, TypeOK, HandlerTypes, HandlerOK, Fits, Creation
<1>3. genesis[c] # None /\ writers[c] = genesis[c]
  BY <1>2 DEF WritersInv, Signs, Creation
<1>4. WriterKept'
  BY <1>2, <1>3 DEF WritersInv, WriterKept
<1>5. OneCreates'
  BY <1>1, <1>2 DEF WritersInv, OneCreates, Same, Creation
<1>6. Signs(h)'
  BY <1>2 DEF Signs, Creation, Setting, Opening
<1>7. ASSUME NEW g \in Handlers, g # h PROVE Signs(g)'
  <2>1. Same(g) /\ Signs(g) /\ (pc[g] \in Creation => gid[g] # c)
    BY <1>1, <1>2, <1>7, CreatesAlone DEF WritersInv, Creation
  <2>2. QED  BY <1>2, <2>1 DEF Signs, Same, Creation, Setting, Opening
<1>8. QED  BY <1>4, <1>5, <1>6, <1>7 DEF WritersInv

\* SetKeyValue checks the signature against the writer in memory, for a chain
\* that has an identity, and so was announced.
LEMMA WritersStartSet ==
    ASSUME WritersInv, TypeInv', NEW h \in Handlers, StartSet(h)
    PROVE  WritersInv'
<1>1. \A g \in Handlers : g # h => Same(g)
  BY OthersSame DEF HandlerStep, WritersInv
<1>2. /\ UNCHANGED WriterState /\ UNCHANGED <<req, gid, used>>
      /\ pc[h] = "start" /\ req[h].op = "set"
  BY DEF StartSet, sharedVars, memoryVars, storageVars, diskVars, ciscVars, clientVars, WriterState
<1>3. CASE Accepted(h)
  <2>1. gid[h] \in Chains /\ ident[gid[h]] # None
    BY <1>2, <1>3 DEF WritersInv, TypeInv, HandlerOK, Fits, Accepted, Checkable
  <2>2. gid[h] \in announced
    BY <1>2, <2>1 DEF WritersInv, WriterKept, Signs
  <2>3. writers[gid[h]] = "rsa" => req[h].signed
    BY <1>3 DEF Accepted
  <2>4. pc'[h] \notin Creation \cup {"start"}
    BY <1>3 DEF StartSet, CastPanics, EnterCollection, Goto, Answer, Panic, WritersInv, TypeInv, TypeOK,
       HandlerTypes, Creation
  <2>5. Signs(h)'
    BY <1>2, <2>2, <2>3, <2>4 DEF Signs, WriterState, Creation
  <2>6. QED  BY <1>1, <1>2, <2>4, <2>5, WritersFrame
<1>4. CASE ~Accepted(h)
  <2>1. pc'[h] \in {"reply", "panic"}
    BY <1>4 DEF StartSet, Answer, Panic, Goto, WritersInv, TypeInv, TypeOK, HandlerTypes
  <2>2. Signs(h)'
    BY <2>1 DEF Signs, Creation, Setting, Opening
  <2>3. QED  BY <1>1, <1>2, <2>1, <2>2, WritersFrame DEF Creation
<1>5. QED  BY <1>3, <1>4

LEMMA WritersVote ==
    ASSUME WritersInv, TypeInv', NEW h \in Handlers, Vote(h)
    PROVE  WritersInv'
<1> DEFINE c == gid[h]
           b == ProposedBlock(h)
<1>1. \A g \in Handlers : g # h => Same(g)
  BY OthersSame DEF HandlerStep, WritersInv
<1>2. /\ UNCHANGED <<genesis, ident, writers, saved, announced, req, gid>>
      /\ pc'[h] \in {"reply", "finish"} /\ pc[h] = "vote"
      /\ used'["crashes"] = used["crashes"]
  BY FaultIsNoCrash DEF Vote, memoryVars, storageVars, diskVars, clientVars, Answer, Goto, WritersInv,
     TypeInv, TypeOK, HandlerTypes
<1>3. c \in Chains /\ c \in announced /\ (writers[c] = "rsa" => req[h].signed)
  BY <1>2 DEF WritersInv, TypeInv, HandlerOK, Fits, Signs, Setting
<1>4. Signs(h)' /\ pc'[h] \notin Creation
  BY <1>2, <1>3 DEF Signs, Setting, Opening, Creation
<1>5. CASE UNCHANGED log
  BY <1>1, <1>2, <1>4, <1>5, WritersFrame DEF WriterState
<1>6. CASE log' = [log EXCEPT ![c] = Append(log[c], b)]
  <2>1. log[c] \in Seq(Blocks) /\ b \in Blocks /\ b.signed = req[h].signed
    BY <1>2, <1>3, ProposedBlockType
    DEF WritersInv, TypeInv, TypeOK, CiscTypes, HandlerOK, Fits, ProposedBlock
  <2> HIDE DEF b
  <2>2. \A d \in Chains : d # c => log'[d] = log[d]
    BY <1>3, <1>6 DEF WritersInv, TypeInv, TypeOK, CiscTypes
  <2>3. log'[c] = Append(log[c], b)
    BY <1>3, <1>6 DEF WritersInv, TypeInv, TypeOK, CiscTypes
  <2>4. \A i \in DOMAIN log'[c] : \/ i \in DOMAIN log[c] /\ log'[c][i] = log[c][i]
                                  \/ log'[c][i] = b
    BY <2>1, <2>3
  <2>5. writers[c] = "rsa" => \A i \in DOMAIN log'[c] : log'[c][i].signed
    BY <1>3, <2>1, <2>4 DEF WritersInv, WriterKept
  <2>6. WriterKept'
    BY <1>2, <1>3, <2>2, <2>5 DEF WritersInv, WriterKept
  <2>7. \A g \in Handlers : Signs(g)'
    BY <1>1, <1>2, <1>4 DEF WritersInv, Signs, Same, Setting, Opening, Creation
  <2>8. OneCreates'
    BY <1>1, <1>4 DEF WritersInv, OneCreates, Same
  <2>9. QED  BY <2>6, <2>7, <2>8 DEF WritersInv
<1>7. QED  BY <1>5, <1>6 DEF Vote, AppendBlock

LEMMA WritersFinishSet ==
    ASSUME WritersInv, TypeInv', NEW h \in Handlers, FinishSet(h)
    PROVE  WritersInv'
<1>1. \A g \in Handlers : g # h => Same(g)
  BY OthersSame DEF HandlerStep, WritersInv
<1>2. UNCHANGED <<genesis, writers, saved, log, announced, used>> /\ pc'[h] = "reply"
  BY DEF FinishSet, diskVars, ciscVars, Answer, Goto, WritersInv, TypeInv, TypeOK, HandlerTypes
<1>3. gid[h] \in Chains /\ ident[gid[h]] # None
  BY DEF FinishSet, WritersInv, TypeInv, HandlerOK, Fits, Setting
<1>4. \A c \in Chains : c # gid[h] => ident'[c] = ident[c]
  BY <1>3 DEF FinishSet, UpdateLatest, WritersInv, TypeInv, TypeOK, MemoryTypes, Idents
<1>5. WriterKept'
  BY <1>2, <1>3, <1>4 DEF WritersInv, WriterKept
<1>6. \A g \in Handlers : Signs(g)'
  BY <1>1, <1>2 DEF WritersInv, Signs, Same, Setting, Opening, Creation
<1>7. OneCreates'
  BY <1>1, <1>2 DEF WritersInv, OneCreates, Same, Creation
<1>8. QED  BY <1>5, <1>6, <1>7 DEF WritersInv

\* The other steps leave the writers alone, and none gets past the checks.
LEMMA WritersOtherSteps ==
    ASSUME WritersInv, TypeInv', NEW h \in Handlers,
           \/ StartGet(h) \/ LoadCollection(h) \/ InstallCollection(h)
           \/ RereadCollection(h) \/ TornRead(h) \/ NilCollection(h) \/ CheckKey(h)
           \/ ReadIndex(h) \/ BeginStore(h) \/ AddToCollection(h) \/ CommitStore(h)
           \/ Propose(h) \/ ReadValue(h) \/ FetchBlock(h) \/ Done(h)
    PROVE  WritersInv'
<1> DEFINE Stays == /\ UNCHANGED WriterState /\ Signs(h)' /\ pc'[h] \notin Creation
                    /\ Fault \/ UNCHANGED used
<1> USE DEF WritersInv, TypeInv, TypeOK, HandlerTypes, Signs, Setting, Opening, Creation, Goto,
        Answer, Panic, sharedVars, memoryVars, storageVars, diskVars, ciscVars, clientVars,
        WriterState
<1>1. StartGet(h) => Stays
  BY DEF StartGet, EnterCollection
<1>2. LoadCollection(h) \/ InstallCollection(h) => Stays
  BY DEF LoadCollection, InstallCollection
<1>3. RereadCollection(h) => Stays
  BY DEF RereadCollection, AfterCollection
<1>4. TornRead(h) \/ NilCollection(h) \/ CheckKey(h) \/ ReadIndex(h) => Stays
  BY DEF TornRead, NilCollection, CheckKey, ReadIndex
<1>5. BeginStore(h) => Stays
  BY DEF BeginStore
<1>6. AddToCollection(h) => Stays
  BY DEF AddToCollection
<1>7. CommitStore(h) \/ Propose(h) => Stays
  BY DEF CommitStore, FailStore, Propose
<1>8. ReadValue(h) \/ FetchBlock(h) \/ Done(h) => Stays
  BY DEF ReadValue, FetchBlock, Done
<1>9. Stays
  BY <1>1, <1>2, <1>3, <1>4, <1>5, <1>6, <1>7, <1>8
<1>10. used'["crashes"] = used["crashes"]
  BY <1>9, FaultIsNoCrash
<1>11. HandlerStep(h)
  BY DEF HandlerStep
<1>12. \A g \in Handlers : g # h => Same(g)
  BY <1>11, OthersSame
<1>13. QED  BY <1>9, <1>10, <1>12, WritersFrame

\* A client names a chain that it was told of, or one that does not exist.
LEMMA WritersArrive ==
    ASSUME WritersInv, TypeInv', NEW h \in Handlers, NEW r \in Requests,
           NEW c \in Chains \cup {None}, Arrive(h, r, c)
    PROVE  WritersInv'
<1>1. \A g \in Handlers : g # h => Same(g)
  BY DEF Arrive, Goto, Same
<1>2. UNCHANGED WriterState
  BY DEF Arrive, memoryVars, storageVars, diskVars, ciscVars, clientVars, WriterState
<1>3. used'["crashes"] = used["crashes"]
  BY DEF Arrive, WritersInv, TypeInv, TypeOK, UsedType
<1>4. /\ pc'[h] = "start" /\ req'[h] = r /\ gid'[h] = c
      /\ r.op = "create" \/ c \in announced \cup Ghosts
  BY DEF Arrive, Goto, WritersInv, TypeInv, TypeOK, HandlerTypes
<1>5. Signs(h)'
  BY <1>2, <1>4 DEF Signs, Setting, Opening, Creation, WriterState
<1>6. QED  BY <1>1, <1>2, <1>3, <1>4, <1>5, WritersFrame DEF Creation

\* A restart brings back the writers that were saved, and stops every handler.
LEMMA WritersCrash ==
    ASSUME WritersInv, TypeInv', CrashAndRestart
    PROVE  WritersInv'
<1>1. /\ UNCHANGED <<saved, genesis, log, announced>>
      /\ ident' = saved.identities /\ writers' = saved.writers
  BY DEF CrashAndRestart, Restore, ciscVars, clientVars
<1>2. used'["crashes"] # 0
  BY DEF CrashAndRestart, WritersInv, TypeInv, TypeOK, UsedType
<1>3. WriterKept'
  BY <1>1, <1>2 DEF WritersInv, WriterKept
<1>4. OneCreates' /\ \A h \in Handlers : Signs(h)'
  BY DEF CrashAndRestart, OneCreates, Signs, Setting, Opening, Creation
<1>5. QED  BY <1>3, <1>4 DEF WritersInv

LEMMA WritersNext == WritersInv /\ [Next]_vars => WritersInv'
<1> SUFFICES ASSUME WritersInv, [Next]_vars PROVE WritersInv'
  OBVIOUS
<1>1. TypeInv'
  BY TypeNext DEF WritersInv
<1>2. ASSUME NEW h \in Handlers, HandlerStep(h) PROVE WritersInv'
  BY <1>1, <1>2, WritersCreateIdentity, WritersRegisterIdentity, WritersRegisterPrivate,
     WritersRegisterWriter, WritersSaveStorage, WritersStartSet, WritersVote,
     WritersFinishSet, WritersOtherSteps DEF HandlerStep
<1>3. CASE UNCHANGED vars
  BY <1>1, <1>3 DEF WritersInv, WriterKept, OneCreates, Signs, vars, handlerVars, sharedVars,
     memoryVars, storageVars, diskVars, ciscVars, clientVars
<1>4. QED  BY <1>1, <1>2, <1>3, WritersArrive, WritersCrash DEF Next

(***************************************************************************)
(* As long as the conode was not restarted, and after that for every chain *)
(* whose writer is in the saved storage, a chain with an RSA writer has    *)
(* only blocks of requests that the writer signed: however the creations   *)
(* and saves of other handlers come between the three entries of a chain.  *)
(***************************************************************************)
THEOREM SignaturesChecked == Spec => []WritersInv /\ []SignedWhileSaved
<1>1. Init => WritersInv
  BY WritersInit
<1>2. WritersInv /\ [Next]_vars => WritersInv'
  BY WritersNext
<1>3. WritersInv => SignedWhileSaved
  <2> SUFFICES ASSUME WritersInv, NEW c \in Chains, genesis[c] = "rsa",
                      saved.writers[c] = "rsa" \/ used["crashes"] = 0
               PROVE  \A i \in DOMAIN log[c] : log[c][i].signed
    BY DEF SignedWhileSaved
  <2>1. CASE c \in announced
    <3>1. writers[c] = "rsa"
      BY <2>1 DEF WritersInv, WriterKept
    <3>2. QED  BY <3>1 DEF WritersInv, WriterKept
  <2>2. CASE c \notin announced
    BY <2>2 DEF WritersInv, WriterKept
  <2>3. QED  BY <2>1, <2>2
<1>4. QED  BY <1>1, <1>2, <1>3, PTL DEF Spec

-----------------------------------------------------------------------------
(* What was confirmed is kept.                                             *)

LEMMA KeptInit == Init => KeptInv
<1> SUFFICES ASSUME Init PROVE KeptInv
  OBVIOUS
<1>1. Agree /\ acked = {}
  BY DEF Init, Agree
<1>2. \A h \in Handlers : Keeping(h)
  BY DEF Init, Keeping
<1>3. QED  BY <1>1, <1>2, TypeInit, LedgerInit DEF KeptInv, Inductive

\* Steps that change neither collections, database, chains nor what is confirmed.
LEMMA KeptFrame ==
    ASSUME KeptInv, Inductive', NEW h \in Handlers,
           \A g \in Handlers : g # h => Same(g),
           UNCHANGED <<collOf, mem, db, log, acked>>, Keeping(h)'
    PROVE  KeptInv'
<1>1. Agree' /\ \A a \in acked' : Confirmed(a)'
  BY DEF KeptInv, Agree, Confirmed
<1>2. \A g \in Handlers : g # h => Keeping(g)'
  BY DEF KeptInv, Keeping, Same
<1>3. QED  BY <1>1, <1>2 DEF KeptInv

\* A confirmed pair is on its chain.
LEMMA ConfirmedOnChain ==
    ASSUME KeptInv, NEW a \in acked
    PROVE  /\ a.chain \in Chains /\ a.block.key \in Keys /\ a.block \in Blocks
           /\ OnChain(a.chain, a.block.key) /\ db[a.chain][a.block.key] # None
<1>1. a.chain \in Chains /\ a.block \in Blocks
  BY DEF KeptInv, Inductive, TypeInv, TypeOK, ClientTypes
<1>2. a.block.key \in Keys
  BY <1>1 DEF Blocks
<1>3. OnChain(a.chain, a.block.key)
  BY DEF KeptInv, Confirmed, OnChain
<1>4. QED  BY <1>1, <1>2, <1>3 DEF KeptInv, Inductive, LedgerInv, InStep

\* A handler that is past its look at the collection has the one in use.
LEMMA SetterHasCollection ==
    ASSUME Inductive, NEW g \in Handlers, pc[g] \in Setting \ {"check"}
    PROVE  /\ gid[g] \in Chains /\ obj[g] \in Objs /\ req[g].key \in Keys
           /\ collOf[gid[g]] = obj[g] /\ collOf[gid[g]] # None
<1>1. gid[g] \in Chains /\ obj[g] \in Objs /\ req[g] \in Requests
  BY DEF Inductive, TypeInv, HandlerOK, Fits, Setting
<1>2. collOf[gid[g]] = obj[g]
  BY <1>1, ConstantsOK DEF Inductive, LedgerInv, Sound, Objs
<1>3. QED  BY <1>1, <1>2, RequestFields, ConstantsOK DEF Objs

LEMMA OpenerHasNone ==
    ASSUME Inductive, NEW g \in Handlers, pc[g] \in {"load", "install"}
    PROVE  gid[g] \in Chains /\ collOf[gid[g]] = None
BY DEF Inductive, TypeInv, HandlerOK, Fits, LedgerInv, Sound, Opening

LEMMA KeptLoadCollection ==
    ASSUME KeptInv, Inductive', NEW h \in Handlers, LoadCollection(h)
    PROVE  KeptInv'
<1> DEFINE c == gid[h]
<1>1. \A g \in Handlers : g # h => Same(g)
  BY OthersSame DEF HandlerStep, KeptInv, Inductive
<1>2. UNCHANGED <<collOf, db, log, acked, gid, req, idx>>
  BY DEF LoadCollection, diskVars, ciscVars, clientVars
<1>3. c \in Chains /\ collOf[c] = None /\ pc'[h] = "install"
  BY OpenerHasNone
  DEF LoadCollection, KeptInv, Goto, Inductive, TypeInv, TypeOK, HandlerTypes
<1>4. /\ mem[c] \in [Objs -> Stored]
      /\ \/ mem' = [mem EXCEPT ![c] = [mem[c] EXCEPT ![h] = db[c]]]
         \/ mem' = mem /\ obj'[h] = None
  BY <1>3 DEF LoadCollection, KeptInv, Inductive, TypeInv, TypeOK, MemoryTypes, HandlerTypes
<1>5. /\ obj'[h] # None => mem'[c][h] = db[c]
      /\ \A d \in Chains, o \in Objs : (d # c \/ o # h) => mem'[d][o] = mem[d][o]
  BY <1>3, <1>4 DEF KeptInv, Inductive, TypeInv, TypeOK, MemoryTypes, Objs
<1>6. Agree'
  BY <1>2, <1>3, <1>5 DEF KeptInv, Agree, Inductive, TypeInv, TypeOK, MemoryTypes
<1>7. \A a \in acked' : Confirmed(a)'
  BY <1>2 DEF KeptInv, Confirmed
<1>8. Keeping(h)'
  BY <1>2, <1>3, <1>5 DEF Keeping
<1>9. ASSUME NEW g \in Handlers, g # h PROVE Keeping(g)'
  <2>1. CASE pc[g] = "install"
    BY <1>1, <1>2, <1>5, <1>9, <2>1, OpenerHasNone DEF KeptInv, Keeping, Same, Objs
  <2>2. CASE pc[g] = "commit"
    BY <1>1, <1>2, <1>3, <1>5, <1>9, <2>2, SetterHasCollection
    DEF KeptInv, Keeping, Same, Setting
  <2>3. CASE pc[g] \notin {"install", "commit"}
    BY <1>1, <1>2, <1>9, <2>3 DEF KeptInv, Keeping, Same
  <2>4. QED  BY <2>1, <2>2, <2>3
<1>10. QED  BY <1>6, <1>7, <1>8, <1>9 DEF KeptInv

LEMMA KeptInstallCollection ==
    ASSUME KeptInv, Inductive', NEW h \in Handlers, InstallCollection(h)
    PROVE  KeptInv'
<1> DEFINE c == gid[h]
<1>1. \A g \in Handlers : g # h => Same(g)
  BY OthersSame DEF HandlerStep, KeptInv, Inductive
<1>2. UNCHANGED <<mem, db, log, acked>>
  BY DEF InstallCollection, diskVars, ciscVars, clientVars
<1>3. c \in Chains /\ pc[h] = "install" /\ pc'[h] = "reread" /\ obj[h] \in {h, None}
  BY OpenerHasNone
  DEF InstallCollection, KeptInv, Goto, Inductive, TypeInv, TypeOK, HandlerTypes, HandlerOK, Fits
<1>4. collOf'[c] = obj[h] /\ \A d \in Chains : d # c => collOf'[d] = collOf[d]
  BY <1>3 DEF InstallCollection, KeptInv, Inductive, TypeInv, TypeOK, MemoryTypes
<1>5. Agree'
  <2>1. obj[h] # None => \A k \in Keys : db[c][k] # None => mem[c][obj[h]][k] = db[c][k]
    BY <1>3 DEF KeptInv, Keeping
  <2>2. ASSUME NEW d \in Chains, NEW k \in Keys, collOf'[d] # None, db[d][k] # None
        PROVE  mem[d][collOf'[d]][k] = db[d][k]
    BY <1>4, <2>1, <2>2 DEF KeptInv, Agree
  <2>3. QED  BY <1>2, <2>2 DEF Agree
<1>6. \A a \in acked' : Confirmed(a)'
  BY <1>2 DEF KeptInv, Confirmed
<1>7. \A g \in Handlers : Keeping(g)'
  BY <1>1, <1>2, <1>3 DEF KeptInv, Keeping, Same
<1>8. QED  BY <1>5, <1>6, <1>7 DEF KeptInv

\* Add writes only under a key that the collection, and so the database, has not.
LEMMA KeptAddToCollection ==
    ASSUME KeptInv, Inductive', NEW h \in Handlers, AddToCollection(h)
    PROVE  KeptInv'
<1> DEFINE c == gid[h]
           o == obj[h]
           k == req[h].key
           rec == [idx |-> idx[h], val |-> req[h].val]
<1>1. \A g \in Handlers : g # h => Same(g)
  BY OthersSame DEF HandlerStep, KeptInv, Inductive
<1>2. UNCHANGED <<collOf, db, log, acked, req, gid, obj, idx>>
  BY DEF AddToCollection, ciscVars, clientVars
<1>3. /\ c \in Chains /\ o \in Objs /\ k \in Keys /\ collOf[c] = o /\ collOf[c] # None
  BY SetterHasCollection DEF AddToCollection, KeptInv, Setting
<1>4. CASE Collision(h)
  <2>1. UNCHANGED mem /\ pc'[h] = "reply"
    BY <1>4 DEF AddToCollection, Answer, Panic, Goto, KeptInv, Inductive, TypeInv, TypeOK,
       HandlerTypes
  <2>2. QED  BY <1>1, <1>2, <2>1, KeptFrame DEF Keeping
<1>5. CASE ~Collision(h)
  <2>1. mem[c][o][k] = None /\ pc'[h] = "commit"
    BY <1>5 DEF AddToCollection, Collision, Goto, KeptInv, Inductive, TypeInv, TypeOK,
       HandlerTypes
  <2>2. db[c][k] = None
    BY <1>3, <2>1 DEF KeptInv, Inductive, LedgerInv, InStep
  <2>3. mem' = [mem EXCEPT ![c] = [mem[c] EXCEPT ![o] = [mem[c][o] EXCEPT ![k] = rec]]]
    BY <1>5 DEF AddToCollection
  <2>4. mem[c] \in [Objs -> Stored] /\ mem[c][o] \in Stored
    BY <1>3 DEF KeptInv, Inductive, TypeInv, TypeOK, MemoryTypes
  <2> HIDE DEF rec
  <2>5. mem'[c][o][k] = rec
    BY <1>3, <2>3, <2>4 DEF KeptInv, Inductive, TypeInv, TypeOK, MemoryTypes, Stored
  <2>6. \A d \in Chains, p \in Objs, j \in Keys :
            (d # c \/ p # o \/ j # k) => mem'[d][p][j] = mem[d][p][j]
    BY <1>3, <2>3, <2>4 DEF KeptInv, Inductive, TypeInv, TypeOK, MemoryTypes, Stored
  <2>7. Agree'
    <3> SUFFICES ASSUME NEW d \in Chains, NEW j \in Keys, collOf[d] # None, db[d][j] # None
                 PROVE  mem'[d][collOf[d]][j] = db[d][j]
      BY <1>2 DEF Agree
    <3>1. collOf[d] \in Objs /\ mem[d][collOf[d]][j] = db[d][j]
      BY DEF KeptInv, Inductive, TypeInv, TypeOK, MemoryTypes, Agree
    <3>2. QED  BY <2>2, <2>6, <3>1
  <2>8. \A a \in acked' : Confirmed(a)'
    BY <1>2 DEF KeptInv, Confirmed
  <2>9. Keeping(h)'
    BY <1>2, <2>1, <2>5 DEF Keeping, rec
  <2>10. ASSUME NEW g \in Handlers, g # h PROVE Keeping(g)'
    <3>1. CASE pc[g] = "install"
      <4>1. gid[g] \in Chains /\ gid[g] # c /\ g \in Objs
        BY <1>3, <3>1, OpenerHasNone DEF KeptInv, Objs
      <4>2. QED  BY <1>1, <1>2, <2>6, <2>10, <3>1, <4>1 DEF KeptInv, Keeping, Same
    <3>2. CASE pc[g] = "commit"
      <4>1. /\ gid[g] \in Chains /\ obj[g] \in Objs /\ req[g].key \in Keys
            /\ mem[gid[g]][obj[g]][req[g].key] # None
        BY <3>2, SetterHasCollection DEF KeptInv, Inductive, LedgerInv, Sound, Owns, Setting
      <4>2. mem'[gid[g]][obj[g]][req[g].key] = mem[gid[g]][obj[g]][req[g].key]
        BY <2>1, <2>6, <4>1
      <4>3. Keeping(g)
        BY DEF KeptInv
      <4>4. QED  BY <1>1, <2>10, <3>2, <4>2, <4>3 DEF Keeping, Same
    <3>3. CASE pc[g] \notin {"install", "commit"}
      BY <1>1, <1>2, <2>10, <3>3 DEF KeptInv, Keeping, Same
    <3>4. QED  BY <3>1, <3>2, <3>3
  <2>11. QED  BY <2>7, <2>8, <2>9, <2>10 DEF KeptInv
<1>6. QED  BY <1>4, <1>5

\* The owner of a key is the only one that writes it to the database, and not
\* after the key is on the chain.
LEMMA KeptCommitStore ==
    ASSUME KeptInv, Inductive', NEW h \in Handlers, CommitStore(h)
    PROVE  KeptInv'
<1> DEFINE c == gid[h]
           k == req[h].key
           rec == [idx |-> idx[h], val |-> req[h].val]
<1>1. \A g \in Handlers : g # h => Same(g)
  BY OthersSame DEF HandlerStep, KeptInv, Inductive
<1>2. UNCHANGED <<collOf, mem, log, acked, req, gid, obj, idx>>
  BY DEF CommitStore, memoryVars, storageVars, ciscVars, clientVars
<1>3. /\ c \in Chains /\ k \in Keys /\ collOf[c] = obj[h] /\ collOf[c] # None
      /\ mem[c][obj[h]][k] = rec /\ ~OnChain(c, k)
  BY SetterHasCollection
  DEF CommitStore, KeptInv, Keeping, Setting, Inductive, LedgerInv, Sound, Owns
<1>4. CASE UNCHANGED db /\ pc'[h] = "reply"
  BY <1>1, <1>2, <1>4, KeptFrame DEF Keeping
<1>5. CASE db' = [db EXCEPT ![c] = [db[c] EXCEPT ![k] = rec]] /\ pc'[h] = "propose"
  <2>1. rec.val = req[h].val
    OBVIOUS
  <2> HIDE DEF rec
  <2>2. db[c] \in Stored
    BY <1>3 DEF KeptInv, Inductive, TypeInv, TypeOK, DiskTypes
  <2>3. db'[c][k] = rec /\ \A d \in Chains, j \in Keys : (d # c \/ j # k) => db'[d][j] = db[d][j]
    BY <1>3, <1>5, <2>2 DEF KeptInv, Inductive, TypeInv, TypeOK, DiskTypes, Stored
  <2>4. Agree'
    BY <1>2, <1>3, <2>3 DEF KeptInv, Agree
  <2>5. ASSUME NEW a \in acked PROVE Confirmed(a)'
    <3>1. a.chain # c \/ a.block.key # k
      BY <1>3, ConfirmedOnChain
    <3>2. QED  BY <1>2, <2>3, <3>1, ConfirmedOnChain DEF KeptInv, Confirmed
  <2>6. Keeping(h)'
    BY <1>2, <1>5, <2>1, <2>3 DEF Keeping
  <2>7. ASSUME NEW g \in Handlers, g # h PROVE Keeping(g)'
    <3>1. CASE pc[g] = "install"
      <4>1. gid[g] \in Chains /\ gid[g] # c
        BY <1>3, <3>1, OpenerHasNone DEF KeptInv
      <4>2. QED  BY <1>1, <1>2, <2>3, <2>7, <3>1, <4>1 DEF KeptInv, Keeping, Same
    <3>2. CASE pc[g] \in {"propose", "vote", "finish"}
      <4>1. gid[g] \in Chains /\ req[g].key \in Keys
        BY <3>2, SetterHasCollection DEF KeptInv, Setting
      <4>2. gid[g] # c \/ req[g].key # k
        <5>1. CASE pc[g] = "finish"
          <6>1. /\ idx[g] \in DOMAIN log[gid[g]]
                /\ log[gid[g]][idx[g]].key = req[g].key
            <7>1. log[gid[g]][idx[g]] = ProposedBlock(g)
              BY <5>1 DEF KeptInv, Inductive, LedgerInv, Sound
            <7>2. QED
              BY <5>1, <7>1 DEF KeptInv, Inductive, LedgerInv, Sound, ProposedBlock
          <6>2. OnChain(gid[g], req[g].key)
            BY <6>1 DEF OnChain
          <6>3. QED  BY <1>3, <6>2
        <5>2. CASE pc[g] # "finish"
          BY <2>7, <3>2, <5>2
          DEF KeptInv, Inductive, LedgerInv, OneOwner, Owns, CommitStore
        <5>3. QED  BY <5>1, <5>2
      <4>3. db'[gid[g]][req[g].key] = db[gid[g]][req[g].key]
        BY <2>3, <4>1, <4>2
      <4>4. QED  BY <1>1, <2>7, <3>2, <4>3 DEF KeptInv, Keeping, Same
    <3>3. CASE pc[g] \notin {"install", "propose", "vote", "finish"}
      BY <1>1, <1>2, <2>7, <3>3 DEF KeptInv, Keeping, Same
    <3>4. QED  BY <3>1, <3>2, <3>3
  <2>8. QED  BY <1>2, <2>4, <2>5, <2>6, <2>7 DEF KeptInv
<1>6. QED
  BY <1>4, <1>5 DEF CommitStore, FailStore, Answer, Panic, Goto, KeptInv, Inductive, TypeInv, TypeOK,
     HandlerTypes

\* Blocks stay where they are on the chain.
LEMMA VoteAppends ==
    ASSUME TypeInv, NEW h \in Handlers, Vote(h)
    PROVE  /\ gid[h] \in Chains
           /\ \A c \in Chains : \A i \in DOMAIN log[c] :
                 i \in DOMAIN log'[c] /\ log'[c][i] = log[c][i]
<1> DEFINE b == ProposedBlock(h)
<1>1. gid[h] \in Chains /\ b \in Blocks /\ log \in [Chains -> Seq(Blocks)]
  BY ProposedBlockType DEF Vote, TypeInv, TypeOK, CiscTypes, HandlerOK, Fits, Setting
<1>2. CASE UNCHANGED log
  BY <1>1, <1>2
<1>3. CASE log' = [log EXCEPT ![gid[h]] = Append(log[gid[h]], b)]
  <2> HIDE DEF b
  <2>1. log'[gid[h]] = Append(log[gid[h]], b) /\ log[gid[h]] \in Seq(Blocks)
    BY <1>1, <1>3
  <2>2. \A i \in DOMAIN log[gid[h]] : i \in DOMAIN log'[gid[h]] /\
                                      log'[gid[h]][i] = log[gid[h]][i]
    BY <1>1, <2>1
  <2>3. \A c \in Chains : c # gid[h] => log'[c] = log[c]
    BY <1>1, <1>3
  <2>4. QED  BY <1>1, <2>2, <2>3
<1>4. QED  BY <1>2, <1>3 DEF Vote, AppendBlock

LEMMA KeptVote ==
    ASSUME KeptInv, Inductive', NEW h \in Handlers, Vote(h)
    PROVE  KeptInv'
<1>1. \A g \in Handlers : g # h => Same(g)
  BY OthersSame DEF HandlerStep, KeptInv, Inductive
<1>2. UNCHANGED <<collOf, mem, db, acked, req, gid, obj>>
  BY DEF Vote, memoryVars, storageVars, diskVars, clientVars
<1>3. pc[h] = "vote" /\ pc'[h] \in {"finish", "reply"}
  BY DEF Vote, Goto, Answer, Panic, KeptInv, Inductive, TypeInv, TypeOK, HandlerTypes
<1>4. Agree'
  BY <1>2 DEF KeptInv, Agree
<1>5. ASSUME NEW g \in Handlers PROVE Keeping(g)'
  <2>1. CASE g = h
    BY <1>2, <1>3, <2>1 DEF KeptInv, Keeping
  <2>2. CASE g # h
    BY <1>1, <1>2, <2>2 DEF KeptInv, Keeping, Same
  <2>3. QED  BY <2>1, <2>2
<1>6. \A a \in acked : Confirmed(a)'
  BY <1>2, VoteAppends, ConfirmedOnChain DEF KeptInv, Confirmed, Inductive
<1>7. QED  BY <1>2, <1>4, <1>5, <1>6 DEF KeptInv

LEMMA KeptFinishSet ==
    ASSUME KeptInv, Inductive', NEW h \in Handlers, FinishSet(h)
    PROVE  KeptInv'
<1> DEFINE new == [chain |-> gid[h], at |-> idx[h], block |-> ProposedBlock(h)]
<1>1. \A g \in Handlers : g # h => Same(g)
  BY OthersSame DEF HandlerStep, KeptInv, Inductive
<1>2. UNCHANGED <<collOf, mem, db, log>> /\ pc[h] = "finish" /\ pc'[h] = "reply"
  BY DEF FinishSet, diskVars, ciscVars, Goto, Answer, Panic, KeptInv, Inductive, TypeInv, TypeOK,
     HandlerTypes
<1>3. Confirmed(new)
  BY <1>2 DEF KeptInv, Keeping, Inductive, LedgerInv, Sound, Confirmed, ProposedBlock
<1>4. \A a \in acked' : Confirmed(a)
  BY <1>3 DEF FinishSet, KeptInv
<1>5. \A a \in acked' : Confirmed(a)'
  BY <1>2, <1>4 DEF Confirmed
<1>6. Agree' /\ \A g \in Handlers : Keeping(g)'
  BY <1>1, <1>2 DEF KeptInv, Agree, Keeping, Same
<1>7. QED  BY <1>5, <1>6 DEF KeptInv

\* The other steps leave collections, database, chains and clients alone.
LEMMA KeptOtherSteps ==
    ASSUME KeptInv, Inductive', NEW h \in Handlers, HandlerStep(h),
           ~LoadCollection(h), ~InstallCollection(h), ~AddToCollection(h),
           ~CommitStore(h), ~Vote(h), ~FinishSet(h)
    PROVE  KeptInv'
<1> DEFINE Stays == UNCHANGED <<collOf, mem, db, log, acked>> /\ Keeping(h)'
<1> USE DEF KeptInv, Inductive, TypeInv, TypeOK, HandlerTypes, Goto, Answer, Panic, Keeping,
        sharedVars, memoryVars, storageVars, diskVars, ciscVars, clientVars
<1>1. CreateIdentity(h) \/ SaveStorage(h) => Stays
  BY DEF CreateIdentity, SaveStorage
<1>9. RegisterIdentity(h) \/ RegisterPrivate(h) \/ RegisterWriter(h) => Stays
  BY DEF RegisterIdentity, RegisterPrivate, RegisterWriter
<1>2. StartSet(h) \/ StartGet(h) => Stays
  BY DEF StartSet, StartGet, EnterCollection
<1>3. RereadCollection(h) \/ TornRead(h) \/ NilCollection(h) \/ CheckKey(h) \/ ReadIndex(h)
         => Stays
  BY DEF RereadCollection, AfterCollection, TornRead, NilCollection, CheckKey, ReadIndex
<1>4. BeginStore(h) => Stays
  BY DEF BeginStore
<1>5. Propose(h) => Stays
  BY DEF Propose
<1>6. ReadValue(h) \/ FetchBlock(h) \/ Done(h) => Stays
  BY DEF ReadValue, FetchBlock, Done
<1>7. Stays
  BY <1>1, <1>2, <1>3, <1>4, <1>5, <1>6, <1>9 DEF HandlerStep
<1>8. QED  BY <1>7, OthersSame, KeptFrame

\* A restart opens collections with what the database has.
LEMMA KeptCrash ==
    ASSUME KeptInv, Inductive', CrashAndRestart
    PROVE  KeptInv'
<1>1. UNCHANGED <<db, log, acked>>
  BY DEF CrashAndRestart, ciscVars, clientVars
<1>2. Agree'
  <2>1. \A c \in Chains : collOf'[c] # None => mem'[c][collOf'[c]] = db[c]
    BY RestoredFromDb DEF CrashAndRestart
  <2>2. QED  BY <1>1, <2>1 DEF Agree
<1>3. \A h \in Handlers : Keeping(h)'
  BY DEF CrashAndRestart, Keeping
<1>4. \A a \in acked' : Confirmed(a)'
  BY <1>1 DEF KeptInv, Confirmed
<1>5. QED  BY <1>2, <1>3, <1>4 DEF KeptInv

LEMMA KeptNext ==
    ASSUME ColdRace = FALSE, KeptInv, [Next]_vars
    PROVE  KeptInv'
<1>1. Inductive'
  BY LedgerNext DEF KeptInv
<1>2. ASSUME NEW h \in Handlers, HandlerStep(h) PROVE KeptInv'
  BY <1>1, <1>2, KeptLoadCollection, KeptInstallCollection, KeptAddToCollection,
     KeptCommitStore, KeptVote, KeptFinishSet, KeptOtherSteps
<1>3. ASSUME NEW h \in Handlers, NEW r \in Requests, NEW c \in Chains \cup {None},
             Arrive(h, r, c)
      PROVE  KeptInv'
  <2>1. UNCHANGED <<collOf, mem, db, log, acked>>
    BY <1>3 DEF Arrive, memoryVars, storageVars, diskVars, ciscVars, clientVars
  <2>2. (\A g \in Handlers : g # h => Same(g)) /\ Keeping(h)'
    BY <1>3 DEF Arrive, Goto, Same, Keeping, KeptInv, Inductive, TypeInv, TypeOK, HandlerTypes
  <2>3. QED  BY <1>1, <2>1, <2>2, KeptFrame
<1>4. CASE UNCHANGED vars
  BY <1>1, <1>4 DEF vars, handlerVars, sharedVars, memoryVars, storageVars, diskVars, ciscVars, clientVars,
     KeptInv, Agree, Keeping, Confirmed
<1>5. QED  BY <1>1, <1>2, <1>3, <1>4, KeptCrash DEF Next

(***************************************************************************)
(* A pair that SetKeyValue confirmed stays in the database, and in the     *)
(* collection that is open, with the value it was given: no other request, *)
(* failure or restart takes it away or puts another value in its place.    *)
(***************************************************************************)
THEOREM ConfirmedIsKept == ColdRace = FALSE => (Spec => []KeptInv /\ []AckedKept)
<1> SUFFICES ASSUME ColdRace = FALSE PROVE Spec => []KeptInv /\ []AckedKept
  OBVIOUS
<1>1. Init => KeptInv
  BY KeptInit
<1>2. KeptInv /\ [Next]_vars => KeptInv'
  BY KeptNext
<1>3. KeptInv => AckedKept
  <2> SUFFICES ASSUME KeptInv, NEW a \in acked
               PROVE  LET Has(coll) == /\ coll[a.block.key] # None
                                       /\ coll[a.block.key].val = a.block.val
                      IN  /\ Has(db[a.chain])
                          /\ collOf[a.chain] # None => Has(mem[a.chain][collOf[a.chain]])
    BY DEF AckedKept
  <2>1. /\ db[a.chain][a.block.key] # None
        /\ db[a.chain][a.block.key].val = a.block.val
    BY ConfirmedOnChain DEF KeptInv, Confirmed
  <2>2. collOf[a.chain] # None =>
          mem[a.chain][collOf[a.chain]][a.block.key] = db[a.chain][a.block.key]
    BY <2>1, ConfirmedOnChain DEF KeptInv, Agree
  <2>3. QED  BY <2>1, <2>2
<1>4. QED  BY <1>1, <1>2, <1>3, PTL DEF Spec

-----------------------------------------------------------------------------
(* While the service is used in an orderly way, a confirmed pair is found. *)

\* A step of one handler does not answer for another.
LEMMA OthersReplies ==
    ASSUME TypeInv, NEW h \in Handlers, HandlerStep(h)
    PROVE  \A g \in Handlers : g # h => reply'[g] = reply[g]
<1> USE DEF TypeInv, TypeOK, HandlerTypes, Answer, Panic
<1> DEFINE Goal == \A g \in Handlers : g # h => reply'[g] = reply[g]
<1>1. CreateIdentity(h) \/ SaveStorage(h) \/ StartSet(h) \/ StartGet(h) => Goal
  BY DEF CreateIdentity, SaveStorage, StartSet, StartGet
<1>2. RegisterIdentity(h) \/ RegisterPrivate(h) \/ RegisterWriter(h) => Goal
  BY DEF RegisterIdentity, RegisterPrivate, RegisterWriter
<1>3. LoadCollection(h) \/ InstallCollection(h) \/ RereadCollection(h) => Goal
  BY DEF LoadCollection, InstallCollection, RereadCollection
<1>4. TornRead(h) \/ NilCollection(h) \/ CheckKey(h) \/ ReadIndex(h) => Goal
  BY DEF TornRead, NilCollection, CheckKey, ReadIndex
<1>5. BeginStore(h) \/ AddToCollection(h) \/ CommitStore(h) => Goal
  BY DEF BeginStore, AddToCollection, CommitStore, FailStore
<1>6. Propose(h) \/ Vote(h) \/ FinishSet(h) => Goal
  BY DEF Propose, Vote, FinishSet
<1>7. ReadValue(h) \/ FetchBlock(h) \/ Done(h) => Goal
  BY DEF ReadValue, FetchBlock, Done
<1>8. QED  BY <1>1, <1>2, <1>3, <1>4, <1>5, <1>6, <1>7 DEF HandlerStep

\* What another handler's step must leave to g.
LogStays(g)  == pc[g] \in Setting => log'[gid[g]] = log[gid[g]]
PairStays(g) == pc[g] \in {"propose", "vote", "finish"} =>
                    db'[gid[g]][req[g].key] = db[gid[g]][req[g].key]
CollStays(g) == Looking(g) => collOf'[gid[g]] = collOf[gid[g]]
ViewStays(g) == Finding(g) => mem'[gid[g]][obj[g]][req[g].key] = mem[gid[g]][obj[g]][req[g].key]
Untouched(g) == Same(g) /\ reply'[g] = reply[g]

LEMMA PlacedStays ==
    ASSUME NEW g \in Handlers, Placed(g), Untouched(g), LogStays(g), PairStays(g)
    PROVE  Placed(g)'
BY DEF Placed, Untouched, Same, LogStays, PairStays, Setting, Writing

LEMMA FoundStays ==
    ASSUME NEW g \in Handlers, Found(g), Untouched(g), CollStays(g), ViewStays(g)
    PROVE  Found(g)'
BY DEF Found, Looking, Finding, Untouched, Same, CollStays, ViewStays

\* What the next state must satisfy by the results above.
Ready(h) ==
    /\ KeptInv' /\ WritersInv' /\ TakeTurns'
    /\ \A g \in Handlers : g # h => Untouched(g)

\* Nobody else is between the checks and the end of a SetKeyValue of the chain.
LEMMA OnlySetter ==
    ASSUME OrderlyInv, NEW g \in Handlers, NEW h \in Handlers,
           pc[g] \in Setting, pc[h] \in Setting, gid[g] = gid[h]
    PROVE  g = h
<1>1. gid[h] \in Chains
  BY DEF OrderlyInv, KeptInv, Inductive, TypeInv, HandlerOK, Fits
<1>2. g \in Storing(gid[h]) /\ h \in Storing(gid[h])
  BY DEF OrderlyInv, Placed, Storing, Setting
<1>3. QED  BY <1>1, <1>2 DEF OrderlyInv, TakeTurns

\* Steps that change neither collections, database, chains, identities nor what
\* is confirmed.
LEMMA OrderlyFrame ==
    ASSUME OrderlyInv, NEW h \in Handlers, Ready(h), pc[h] # "finish",
           UNCHANGED <<collOf, mem, db, log, acked, ident>>, Placed(h)', Found(h)'
    PROVE  OrderlyInv'
<1>1. LatestIsLast'
  <2> SUFFICES ASSUME NEW c \in Chains, ident[c] # None
               PROVE  (\/ ident[c] = Len(log[c])
                       \/ \E g \in Handlers : pc[g] = "finish" /\ gid[g] = c)'
    BY DEF LatestIsLast
  <2>1. CASE ident[c] = Len(log[c])
    BY <2>1
  <2>2. ASSUME NEW g \in Handlers, pc[g] = "finish", gid[g] = c
        PROVE  (\E f \in Handlers : pc[f] = "finish" /\ gid[f] = c)'
    BY <2>2 DEF Ready, Untouched, Same
  <2>3. QED  BY <2>1, <2>2 DEF OrderlyInv, LatestIsLast
<1>2. ASSUME NEW g \in Handlers, g # h PROVE Placed(g)' /\ Found(g)'
  <2>1. Placed(g) /\ Found(g) /\ Untouched(g)
    BY <1>2 DEF OrderlyInv, Ready
  <2>2. LogStays(g) /\ PairStays(g) /\ CollStays(g) /\ ViewStays(g)
    BY DEF LogStays, PairStays, CollStays, ViewStays
  <2>3. QED  BY <2>1, <2>2, PlacedStays, FoundStays
<1>3. \A a \in acked' : (db[a.chain][a.block.key].idx = a.at)'
  BY DEF OrderlyInv
<1>4. QED  BY <1>1, <1>2, <1>3 DEF OrderlyInv, Ready

\* The other parts of the invariant, where the identities do not change and
\* nobody stops being about to tell one.
LEMMA LatestStays ==
    ASSUME OrderlyInv, NEW h \in Handlers, Ready(h), pc[h] # "finish",
           UNCHANGED <<ident, log>>
    PROVE  LatestIsLast'
<1> SUFFICES ASSUME NEW c \in Chains, ident[c] # None
             PROVE  (\/ ident[c] = Len(log[c])
                     \/ \E g \in Handlers : pc[g] = "finish" /\ gid[g] = c)'
  BY DEF LatestIsLast
<1>1. CASE ident[c] = Len(log[c])
  BY <1>1
<1>2. ASSUME NEW g \in Handlers, pc[g] = "finish", gid[g] = c
      PROVE  (\E f \in Handlers : pc[f] = "finish" /\ gid[f] = c)'
  BY <1>2 DEF Ready, Untouched, Same
<1>3. QED  BY <1>1, <1>2 DEF OrderlyInv, LatestIsLast

\* A chain whose identity is entered has no block yet.
LEMMA OrderlyRegisterIdentity ==
    ASSUME OrderlyInv, NEW h \in Handlers, Ready(h), RegisterIdentity(h)
    PROVE  OrderlyInv'
<1> DEFINE c == gid[h]
<1>1. /\ UNCHANGED <<collOf, mem, db, log, acked>> /\ c \in Chains /\ log[c] = <<>>
      /\ pc[h] = "identity" /\ pc'[h] = "private" /\ reply'[h] = reply[h]
  BY DEF RegisterIdentity, diskVars, ciscVars, clientVars, OrderlyInv, WritersInv, WriterKept,
     TypeInv, TypeOK, HandlerTypes, HandlerOK, Fits, Goto, Signs, Creation
<1>2. ident'[c] = 0 /\ \A d \in Chains : d # c => ident'[d] = ident[d]
  BY <1>1 DEF RegisterIdentity, OrderlyInv, WritersInv, TypeInv, TypeOK, MemoryTypes, Idents
<1>3. LatestIsLast'
  <2> SUFFICES ASSUME NEW d \in Chains, ident'[d] # None
               PROVE  (\/ ident[d] = Len(log[d])
                       \/ \E g \in Handlers : pc[g] = "finish" /\ gid[g] = d)'
    BY DEF LatestIsLast
  <2>1. CASE d = c
    BY <1>1, <1>2, <2>1
  <2>2. CASE d # c /\ ident[d] = Len(log[d])
    BY <1>1, <1>2, <2>2
  <2>3. ASSUME NEW g \in Handlers, pc[g] = "finish", gid[g] = d
        PROVE  (\E f \in Handlers : pc[f] = "finish" /\ gid[f] = d)'
    BY <1>1, <2>3 DEF Ready, Untouched, Same
  <2>4. QED  BY <1>2, <2>1, <2>2, <2>3 DEF OrderlyInv, LatestIsLast
<1>4. Placed(h)' /\ Found(h)'
  BY <1>1 DEF OrderlyInv, Placed, Found, Looking, Finding, Setting, Writing
<1>5. ASSUME NEW g \in Handlers, g # h PROVE Placed(g)' /\ Found(g)'
  <2>1. Placed(g) /\ Found(g) /\ Untouched(g)
    BY <1>5 DEF OrderlyInv, Ready
  <2>2. LogStays(g) /\ PairStays(g) /\ CollStays(g) /\ ViewStays(g)
    BY <1>1 DEF LogStays, PairStays, CollStays, ViewStays
  <2>3. QED  BY <2>1, <2>2, PlacedStays, FoundStays
<1>6. \A a \in acked' : (db[a.chain][a.block.key].idx = a.at)'
  BY <1>1 DEF OrderlyInv
<1>7. QED  BY <1>3, <1>4, <1>5, <1>6 DEF OrderlyInv, Ready

\* Nobody looks into a collection that is being opened.
LEMMA LookerHasCollection ==
    ASSUME OrderlyInv, NEW g \in Handlers, Looking(g), NEW h \in Handlers,
           pc[h] \in {"load", "install"}
    PROVE  gid[g] \in Chains /\ obj[g] \in Objs /\ obj[g] # None /\ gid[g] # gid[h]
<1>1. gid[g] \in Chains /\ obj[g] # None /\ obj[g] = collOf[gid[g]]
  BY DEF OrderlyInv, Found
<1>2. obj[g] \in Objs
  BY <1>1 DEF OrderlyInv, KeptInv, Inductive, TypeInv, TypeOK, HandlerTypes
<1>3. collOf[gid[h]] = None
  BY OpenerHasNone DEF OrderlyInv, KeptInv
<1>4. QED  BY <1>1, <1>2, <1>3

LEMMA OrderlyLoadCollection ==
    ASSUME OrderlyInv, NEW h \in Handlers, Ready(h), LoadCollection(h)
    PROVE  OrderlyInv'
<1> DEFINE c == gid[h]
<1>1. /\ UNCHANGED <<collOf, db, log, acked, ident>>
      /\ pc[h] = "load" /\ pc'[h] = "install" /\ reply'[h] = reply[h] /\ c \in Chains
  BY OpenerHasNone DEF LoadCollection, storageVars, diskVars, ciscVars, clientVars, OrderlyInv,
     KeptInv, Inductive, TypeInv, TypeOK, HandlerTypes, Goto
<1>2. \A d \in Chains : d # c => mem'[d] = mem[d]
  BY <1>1 DEF LoadCollection, OrderlyInv, KeptInv, Inductive, TypeInv, TypeOK, MemoryTypes
<1>3. LatestIsLast'
  BY <1>1, LatestStays
<1>4. Placed(h)' /\ Found(h)'
  BY <1>1 DEF OrderlyInv, Placed, Found, Looking, Finding, Setting, Writing
<1>5. ASSUME NEW g \in Handlers, g # h PROVE Placed(g)' /\ Found(g)'
  <2>1. Placed(g) /\ Found(g) /\ Untouched(g)
    BY <1>5 DEF OrderlyInv, Ready
  <2>2. LogStays(g) /\ PairStays(g) /\ CollStays(g)
    BY <1>1 DEF LogStays, PairStays, CollStays
  <2>3. ViewStays(g)
    BY <1>1, <1>2, LookerHasCollection DEF ViewStays, Looking
  <2>4. QED  BY <2>1, <2>2, <2>3, PlacedStays, FoundStays
<1>6. \A a \in acked' : (db[a.chain][a.block.key].idx = a.at)'
  BY <1>1 DEF OrderlyInv
<1>7. QED  BY <1>3, <1>4, <1>5, <1>6 DEF OrderlyInv, Ready

LEMMA OrderlyInstallCollection ==
    ASSUME OrderlyInv, NEW h \in Handlers, Ready(h), InstallCollection(h)
    PROVE  OrderlyInv'
<1> DEFINE c == gid[h]
<1>1. /\ UNCHANGED <<mem, db, log, acked, ident>>
      /\ pc[h] = "install" /\ pc'[h] = "reread" /\ reply'[h] = reply[h] /\ c \in Chains
  BY OpenerHasNone DEF InstallCollection, storageVars, diskVars, ciscVars, clientVars, OrderlyInv,
     KeptInv, Inductive, TypeInv, TypeOK, HandlerTypes, Goto
<1>2. \A d \in Chains : d # c => collOf'[d] = collOf[d]
  BY <1>1 DEF InstallCollection, OrderlyInv, KeptInv, Inductive, TypeInv, TypeOK, MemoryTypes
<1>3. LatestIsLast'
  BY <1>1, LatestStays
<1>4. Placed(h)' /\ Found(h)'
  BY <1>1 DEF OrderlyInv, Placed, Found, Looking, Finding, Setting, Writing
<1>5. ASSUME NEW g \in Handlers, g # h PROVE Placed(g)' /\ Found(g)'
  <2>1. Placed(g) /\ Found(g) /\ Untouched(g)
    BY <1>5 DEF OrderlyInv, Ready
  <2>2. LogStays(g) /\ PairStays(g) /\ ViewStays(g)
    BY <1>1 DEF LogStays, PairStays, ViewStays
  <2>3. CollStays(g)
    BY <1>1, <1>2, LookerHasCollection DEF CollStays
  <2>4. QED  BY <2>1, <2>2, <2>3, PlacedStays, FoundStays
<1>6. \A a \in acked' : (db[a.chain][a.block.key].idx = a.at)'
  BY <1>1 DEF OrderlyInv
<1>7. QED  BY <1>3, <1>4, <1>5, <1>6 DEF OrderlyInv, Ready

\* A record that was found is not written again: its key is in the collection.
LEMMA OrderlyAddToCollection ==
    ASSUME OrderlyInv, NEW h \in Handlers, Ready(h), AddToCollection(h)
    PROVE  OrderlyInv'
<1> DEFINE c == gid[h]
           o == obj[h]
           k == req[h].key
           rec == [idx |-> idx[h], val |-> req[h].val]
<1>1. /\ UNCHANGED <<collOf, db, log, acked, ident, req, gid, obj, idx>>
      /\ pc[h] = "add" /\ pc'[h] \in {"reply", "commit"}
      /\ reply'[h] = reply[h] \/ reply'[h].kind = "error"
  BY DEF AddToCollection, storageVars, ciscVars, clientVars, OrderlyInv, Answer,
     KeptInv, Inductive, TypeInv, TypeOK, HandlerTypes, Goto
<1>2. c \in Chains /\ o \in Objs /\ k \in Keys
  BY <1>1, SetterHasCollection DEF OrderlyInv, KeptInv, Setting
<1>3. ASSUME NEW d \in Chains, NEW p \in Objs, NEW j \in Keys, mem[d][p][j] # None
      PROVE  mem'[d][p][j] = mem[d][p][j]
  <2>1. CASE UNCHANGED mem
    BY <2>1
  <2>2. CASE /\ mem' = [mem EXCEPT ![c] = [mem[c] EXCEPT ![o] = [mem[c][o] EXCEPT ![k] = rec]]]
             /\ mem[c][o][k] = None
    <3>1. mem[c] \in [Objs -> Stored] /\ mem[c][o] \in Stored
      BY <1>2 DEF OrderlyInv, KeptInv, Inductive, TypeInv, TypeOK, MemoryTypes
    <3> HIDE DEF rec
    <3>2. d # c \/ p # o \/ j # k
      BY <1>3, <2>2
    <3>3. QED
      BY <1>2, <2>2, <3>1, <3>2
      DEF OrderlyInv, KeptInv, Inductive, TypeInv, TypeOK, MemoryTypes, Stored
  <2>3. QED  BY <2>1, <2>2 DEF AddToCollection, Collision
<1>4. LatestIsLast'
  BY <1>1, LatestStays
<1>5. Placed(h)'
  BY <1>1 DEF OrderlyInv, Placed, Setting, Writing
<1>6. Found(h)'
  BY <1>1 DEF OrderlyInv, Found, Looking, Finding
<1>7. ASSUME NEW g \in Handlers, g # h PROVE Placed(g)' /\ Found(g)'
  <2>1. Placed(g) /\ Found(g) /\ Untouched(g)
    BY <1>7 DEF OrderlyInv, Ready
  <2>2. LogStays(g) /\ PairStays(g) /\ CollStays(g)
    BY <1>1 DEF LogStays, PairStays, CollStays
  <2>3. Finding(g) => gid[g] \in Chains /\ obj[g] \in Objs /\ req[g].key \in Keys
    BY <2>1, RequestFields
    DEF Found, Looking, Finding, OrderlyInv, KeptInv, Inductive, TypeInv, TypeOK, HandlerTypes,
        HandlerOK, Fits
  <2>4. ViewStays(g)
    BY <1>3, <2>1, <2>3 DEF ViewStays, Found
  <2>5. QED  BY <2>1, <2>2, <2>4, PlacedStays, FoundStays
<1>8. \A a \in acked' : (db[a.chain][a.block.key].idx = a.at)'
  BY <1>1 DEF OrderlyInv
<1>9. QED  BY <1>4, <1>5, <1>6, <1>7, <1>8 DEF OrderlyInv, Ready

\* The database gets the place of the block that is still to be made.
LEMMA OrderlyCommitStore ==
    ASSUME OrderlyInv, NEW h \in Handlers, Ready(h), CommitStore(h)
    PROVE  OrderlyInv'
<1> DEFINE c == gid[h]
           k == req[h].key
           rec == [idx |-> idx[h], val |-> req[h].val]
<1>1. /\ UNCHANGED <<collOf, mem, log, acked, ident, req, gid, obj, idx>>
      /\ pc[h] = "commit"
      /\ reply'[h] = reply[h] \/ reply'[h].kind = "error"
  BY DEF CommitStore, FailStore, memoryVars, storageVars, ciscVars, clientVars, OrderlyInv, Answer,
     KeptInv, Inductive, TypeInv, TypeOK, HandlerTypes
<1>2. c \in Chains /\ k \in Keys /\ ~OnChain(c, k)
  BY <1>1, SetterHasCollection
  DEF OrderlyInv, KeptInv, Setting, Inductive, LedgerInv, Sound, Owns
<1>3. CASE UNCHANGED db /\ pc'[h] = "reply"
  <2>1. Placed(h)' /\ Found(h)'
    BY <1>1, <1>3 DEF OrderlyInv, Placed, Found, Looking, Finding, Setting, Writing
  <2>2. QED  BY <1>1, <1>3, <2>1, OrderlyFrame
<1>4. CASE db' = [db EXCEPT ![c] = [db[c] EXCEPT ![k] = rec]] /\ pc'[h] = "propose"
  <2>1. /\ db'[c][k] = rec
        /\ \A d \in Chains, j \in Keys : (d # c \/ j # k) => db'[d][j] = db[d][j]
    <3>1. db[c] \in Stored
      BY <1>2 DEF OrderlyInv, KeptInv, Inductive, TypeInv, TypeOK, DiskTypes
    <3> HIDE DEF rec
    <3>2. QED
      BY <1>2, <1>4, <3>1
      DEF OrderlyInv, KeptInv, Inductive, TypeInv, TypeOK, DiskTypes, Stored
  <2>2. LatestIsLast'
    BY <1>1, LatestStays
  <2>3. Placed(h)'
    BY <1>1, <1>4, <2>1 DEF OrderlyInv, Placed, Setting, Writing
  <2>4. Found(h)'
    BY <1>1, <1>4 DEF OrderlyInv, Found, Looking, Finding
  <2>5. ASSUME NEW g \in Handlers, g # h PROVE Placed(g)' /\ Found(g)'
    <3>1. Placed(g) /\ Found(g) /\ Untouched(g)
      BY <2>5 DEF OrderlyInv, Ready
    <3>2. LogStays(g) /\ CollStays(g) /\ ViewStays(g)
      BY <1>1 DEF LogStays, CollStays, ViewStays
    <3>3. PairStays(g)
      <4>1. pc[g] \in {"propose", "vote", "finish"} =>
              gid[g] \in Chains /\ req[g].key \in Keys /\ gid[g] # c
        BY <1>1, <2>5, OnlySetter, SetterHasCollection DEF OrderlyInv, KeptInv, Setting
      <4>2. QED  BY <2>1, <4>1 DEF PairStays
    <3>4. QED  BY <3>1, <3>2, <3>3, PlacedStays, FoundStays
  <2>6. ASSUME NEW a \in acked PROVE db'[a.chain][a.block.key].idx = a.at
    <3>1. a.chain \in Chains /\ a.block.key \in Keys /\ (a.chain # c \/ a.block.key # k)
      BY <1>2, ConfirmedOnChain DEF OrderlyInv
    <3>2. QED  BY <2>1, <3>1 DEF OrderlyInv
  <2>7. QED  BY <1>1, <2>2, <2>3, <2>4, <2>5, <2>6 DEF OrderlyInv, Ready
<1>5. QED
  BY <1>3, <1>4 DEF CommitStore, FailStore, Answer, Goto, OrderlyInv, KeptInv, Inductive, TypeInv,
     TypeOK, HandlerTypes

\* The block goes to the place that was stored with its key.
LEMMA OrderlyVote ==
    ASSUME OrderlyInv, NEW h \in Handlers, Ready(h), Vote(h), VotesHeard
    PROVE  OrderlyInv'
<1> DEFINE c == gid[h]
           b == ProposedBlock(h)
<1>1. /\ UNCHANGED <<collOf, mem, db, acked, ident, req, gid, obj>>
      /\ pc[h] = "vote" /\ pc'[h] \in {"reply", "finish"}
      /\ reply'[h] = reply[h] \/ reply'[h].kind = "error"
  BY DEF Vote, memoryVars, storageVars, diskVars, clientVars, OrderlyInv, Answer, Goto,
     KeptInv, Inductive, TypeInv, TypeOK, HandlerTypes
<1>2. c \in Chains /\ b \in Blocks /\ log[c] \in Seq(Blocks)
  BY <1>1, ProposedBlockType
  DEF OrderlyInv, KeptInv, Inductive, TypeInv, TypeOK, CiscTypes, HandlerOK, Fits, Setting
<1>3. CASE pc'[h] = "reply"
  <2>1. UNCHANGED log
    <3>1. ASSUME NEW g \in Handlers, pc[g] = "vote", pc'[g] = "finish" PROVE FALSE
      BY <1>3, <3>1 DEF Ready, Untouched, Same
    <3>2. QED  BY <3>1 DEF VotesHeard
  <2>2. Placed(h)' /\ Found(h)'
    BY <1>1, <1>3 DEF OrderlyInv, Placed, Found, Looking, Finding, Setting, Writing
  <2>3. QED  BY <1>1, <2>1, <2>2, OrderlyFrame
<1>4. CASE /\ pc'[h] = "finish" /\ idx'[h] = Len(log[c]) + 1
           /\ log' = [log EXCEPT ![c] = Append(log[c], b)]
  <2> HIDE DEF b
  <2>1. /\ Len(log'[c]) = Len(log[c]) + 1
        /\ \A d \in Chains : d # c => log'[d] = log[d]
    BY <1>2, <1>4 DEF OrderlyInv, KeptInv, Inductive, TypeInv, TypeOK, CiscTypes
  <2>2. LatestIsLast'
    <3> SUFFICES ASSUME NEW d \in Chains, ident[d] # None
                 PROVE  (\/ ident[d] = Len(log[d])
                         \/ \E g \in Handlers : pc[g] = "finish" /\ gid[g] = d)'
      BY <1>1 DEF LatestIsLast
    <3>1. CASE d = c
      BY <1>1, <1>4, <3>1
    <3>2. CASE d # c /\ ident[d] = Len(log[d])
      BY <1>1, <2>1, <3>2
    <3>3. ASSUME NEW g \in Handlers, pc[g] = "finish", gid[g] = d
          PROVE  (\E f \in Handlers : pc[f] = "finish" /\ gid[f] = d)'
      BY <1>1, <3>3 DEF Ready, Untouched, Same
    <3>4. QED  BY <3>1, <3>2, <3>3 DEF OrderlyInv, LatestIsLast
  <2>3. Placed(h)'
    <3>1. /\ req[h].op = "set" /\ idx[h] = Len(log[c]) + 1
          /\ db[c][req[h].key] = [idx |-> idx[h], val |-> req[h].val]
      BY <1>1 DEF OrderlyInv, Placed, Setting, Writing
    <3>2. QED  BY <1>1, <1>4, <2>1, <3>1 DEF Placed, Setting, Writing
  <2>4. Found(h)'
    BY <1>1, <1>4 DEF OrderlyInv, Found, Looking, Finding
  <2>5. ASSUME NEW g \in Handlers, g # h PROVE Placed(g)' /\ Found(g)'
    <3>1. Placed(g) /\ Found(g) /\ Untouched(g)
      BY <2>5 DEF OrderlyInv, Ready
    <3>2. PairStays(g) /\ CollStays(g) /\ ViewStays(g)
      BY <1>1 DEF PairStays, CollStays, ViewStays
    <3>3. LogStays(g)
      <4>1. pc[g] \in Setting => gid[g] \in Chains /\ gid[g] # c
        BY <1>1, <2>5, OnlySetter DEF OrderlyInv, KeptInv, Inductive, TypeInv, HandlerOK, Fits,
           Setting
      <4>2. QED  BY <2>1, <4>1 DEF LogStays
    <3>4. QED  BY <3>1, <3>2, <3>3, PlacedStays, FoundStays
  <2>6. \A a \in acked' : (db[a.chain][a.block.key].idx = a.at)'
    BY <1>1 DEF OrderlyInv
  <2>7. QED  BY <2>2, <2>3, <2>4, <2>5, <2>6 DEF OrderlyInv, Ready
<1>5. QED
  BY <1>1, <1>3, <1>4 DEF Vote, AppendBlock, PlaceOfBlock, Answer, Goto, OrderlyInv, KeptInv,
     Inductive, TypeInv, TypeOK, HandlerTypes

\* The identity learns of the block, and the client of its place.
LEMMA OrderlyFinishSet ==
    ASSUME OrderlyInv, NEW h \in Handlers, Ready(h), FinishSet(h)
    PROVE  OrderlyInv'
<1> DEFINE c == gid[h]
           new == [chain |-> gid[h], at |-> idx[h], block |-> ProposedBlock(h)]
<1>1. /\ UNCHANGED <<collOf, mem, db, log, req, gid, obj, idx>>
      /\ pc[h] = "finish" /\ pc'[h] = "reply" /\ reply'[h].kind = "stored"
      /\ acked' = acked \cup {new} /\ c \in Chains
  BY DEF FinishSet, diskVars, ciscVars, OrderlyInv, Answer, Goto,
     KeptInv, Inductive, TypeInv, TypeOK, HandlerTypes, HandlerOK, Fits, Setting
<1>2. /\ idx[h] = Len(log[c]) /\ db[c][req[h].key].idx = idx[h]
      /\ ident'[c] = idx[h] /\ \A d \in Chains : d # c => ident'[d] = ident[d]
  <2>1. idx[h] = Len(log[c]) /\ db[c][req[h].key] = [idx |-> idx[h], val |-> req[h].val]
    BY <1>1 DEF OrderlyInv, Placed
  <2>2. QED
    BY <1>1, <2>1
    DEF FinishSet, UpdateLatest, OrderlyInv, KeptInv, Inductive, TypeInv, TypeOK, MemoryTypes, Idents
<1>3. LatestIsLast'
  <2> SUFFICES ASSUME NEW d \in Chains, ident'[d] # None
               PROVE  (\/ ident[d] = Len(log[d])
                       \/ \E g \in Handlers : pc[g] = "finish" /\ gid[g] = d)'
    BY DEF LatestIsLast
  <2>1. CASE d = c
    BY <1>1, <1>2, <2>1
  <2>2. CASE d # c /\ ident[d] = Len(log[d])
    BY <1>1, <1>2, <2>2
  <2>3. ASSUME NEW g \in Handlers, pc[g] = "finish", gid[g] = d, d # c
        PROVE  (\E f \in Handlers : pc[f] = "finish" /\ gid[f] = d)'
    BY <1>1, <2>3 DEF Ready, Untouched, Same
  <2>4. QED  BY <1>2, <2>1, <2>2, <2>3 DEF OrderlyInv, LatestIsLast
<1>4. Placed(h)' /\ Found(h)'
  BY <1>1 DEF Placed, Found, Looking, Finding, Setting, Writing
<1>5. ASSUME NEW g \in Handlers, g # h PROVE Placed(g)' /\ Found(g)'
  <2>1. Placed(g) /\ Found(g) /\ Untouched(g)
    BY <1>5 DEF OrderlyInv, Ready
  <2>2. LogStays(g) /\ PairStays(g) /\ CollStays(g) /\ ViewStays(g)
    BY <1>1 DEF LogStays, PairStays, CollStays, ViewStays
  <2>3. QED  BY <2>1, <2>2, PlacedStays, FoundStays
<1>6. \A a \in acked' : db[a.chain][a.block.key].idx = a.at
  BY <1>1, <1>2 DEF OrderlyInv, ProposedBlock
<1>7. QED  BY <1>1, <1>3, <1>4, <1>5, <1>6 DEF OrderlyInv, Ready

\* A SetKeyValue that reads the index of the latest block is the only one of the
\* chain: the index is that of the last block.
LEMMA OrderlyReadIndex ==
    ASSUME OrderlyInv, NEW h \in Handlers, Ready(h), ReadIndex(h)
    PROVE  OrderlyInv'
<1> DEFINE c == gid[h]
<1>1. /\ UNCHANGED <<collOf, mem, db, log, acked, ident, req, gid, obj, reply>>
      /\ pc[h] = "index" /\ pc'[h] = "store" /\ idx'[h] = ident[c] + 1
  BY DEF ReadIndex, NextIndex, sharedVars, memoryVars, storageVars, diskVars, ciscVars, clientVars,
     OrderlyInv, Goto, KeptInv, Inductive, TypeInv, TypeOK, HandlerTypes
<1>2. c \in Chains /\ ident[c] # None /\ req[h].op = "set"
  BY <1>1 DEF OrderlyInv, KeptInv, Inductive, TypeInv, HandlerOK, Fits, Setting, Placed
<1>3. ident[c] = Len(log[c])
  <2>1. ASSUME NEW g \in Handlers, pc[g] = "finish", gid[g] = c PROVE FALSE
    BY <1>1, <2>1, OnlySetter DEF Setting
  <2>2. QED  BY <1>2, <2>1 DEF OrderlyInv, LatestIsLast
<1>4. Placed(h)'
  BY <1>1, <1>2, <1>3 DEF Placed, Setting, Writing
<1>5. Found(h)'
  BY <1>1 DEF OrderlyInv, Found, Looking, Finding
<1>6. QED  BY <1>1, <1>4, <1>5, OrderlyFrame

\* GetValue finds the record in the collection in use.
LEMMA OrderlyReadValue ==
    ASSUME OrderlyInv, NEW h \in Handlers, Ready(h), ReadValue(h)
    PROVE  OrderlyInv'
<1>1. /\ UNCHANGED <<collOf, mem, db, log, acked, ident, req, gid, obj>>
      /\ pc[h] = "read" /\ obj[h] # None /\ reply[h].kind # "block"
  BY DEF ReadValue, sharedVars, memoryVars, storageVars, diskVars, ciscVars, clientVars,
     OrderlyInv, Found
<1>2. gid[h] \in Chains /\ obj[h] = collOf[gid[h]]
  BY <1>1 DEF OrderlyInv, Found, Looking
<1>3. CASE pc'[h] = "reply" /\ reply'[h].kind = "error"
  <2>1. Placed(h)' /\ Found(h)'
    BY <1>1, <1>3 DEF Placed, Found, Looking, Finding, Setting, Writing
  <2>2. QED  BY <1>1, <2>1, OrderlyFrame
<1>4. ASSUME NEW found \in Seen(gid[h], obj[h], req[h].key), found # None,
             idx'[h] = found.idx, pc'[h] = "fetch", reply' = reply
      PROVE  OrderlyInv'
  <2>1. found = mem[gid[h]][obj[h]][req[h].key]
    BY <1>4 DEF Seen
  <2>2. Placed(h)' /\ Found(h)'
    BY <1>1, <1>2, <1>4, <2>1 DEF Placed, Found, Looking, Finding, Setting, Writing
  <2>3. QED  BY <1>1, <2>2, OrderlyFrame
<1>5. QED
  BY <1>3, <1>4 DEF ReadValue, Answer, Goto, OrderlyInv, KeptInv, Inductive, TypeInv, TypeOK,
     HandlerTypes

LEMMA OrderlyFetchBlock ==
    ASSUME OrderlyInv, NEW h \in Handlers, Ready(h), FetchBlock(h)
    PROVE  OrderlyInv'
<1>1. /\ UNCHANGED <<collOf, mem, db, log, acked, ident, req, gid, obj, idx>>
      /\ pc[h] = "fetch" /\ reply[h].kind # "block"
  BY DEF FetchBlock, memoryVars, storageVars, diskVars, ciscVars, clientVars, OrderlyInv, Found
<1>2. \/ pc'[h] = "panic" /\ reply'[h] = reply[h]
      \/ pc'[h] = "reply" /\ reply'[h].kind = "error"
      \/ pc'[h] = "reply" /\ reply'[h] = [kind |-> "block", at |-> idx[h]]
  BY DEF FetchBlock, Answer, Panic, Goto, OrderlyInv, KeptInv, Inductive, TypeInv, TypeOK,
     HandlerTypes
<1>3. Placed(h)'
  BY <1>2 DEF Placed, Setting, Writing
<1>4. Found(h)'
  BY <1>1, <1>2 DEF OrderlyInv, Found, Looking, Finding
<1>5. QED  BY <1>1, <1>3, <1>4, OrderlyFrame

\* Handlers enter the collection that is in use, or none.
LEMMA OrderlyEnter ==
    ASSUME OrderlyInv, NEW h \in Handlers, Ready(h),
           StartSet(h) \/ StartGet(h) \/ RereadCollection(h)
    PROVE  OrderlyInv'
<1>1. /\ UNCHANGED <<collOf, mem, db, log, acked, ident, req, gid>>
      /\ pc[h] \in {"start", "reread"} /\ reply[h].kind # "block"
      /\ reply'[h].kind # "block"
  BY DEF StartSet, StartGet, RereadCollection, sharedVars, memoryVars, storageVars, diskVars,
     ciscVars, clientVars, OrderlyInv, Found, Answer, Panic, KeptInv, Inductive, TypeInv, TypeOK,
     HandlerTypes
<1>2. /\ pc'[h] \in {"load", "check", "read", "reply", "panic"}
      /\ pc'[h] = "check" => req[h].op = "set"
      /\ pc'[h] = "read" => obj'[h] = collOf[gid[h]]
  BY DEF StartSet, StartGet, RereadCollection, EnterCollection, AfterCollection, Answer, Panic, Goto,
     OrderlyInv, KeptInv, Inductive, TypeInv, TypeOK, HandlerTypes
<1>3. pc'[h] = "read" => gid[h] \in Chains
  BY <1>1, <1>2 DEF Ready, KeptInv, Inductive, TypeInv, HandlerOK, Fits, Getting
<1>4. Placed(h)'
  BY <1>1, <1>2 DEF Placed, Setting, Writing
<1>5. Found(h)'
  BY <1>1, <1>2, <1>3 DEF Found, Looking, Finding
<1>6. QED  BY <1>1, <1>4, <1>5, OrderlyFrame

\* The other steps neither store nor find anything.
LEMMA OrderlyOtherSteps ==
    ASSUME OrderlyInv, NEW h \in Handlers, Ready(h),
           \/ CreateIdentity(h) \/ RegisterPrivate(h) \/ RegisterWriter(h) \/ SaveStorage(h)
           \/ TornRead(h) \/ NilCollection(h) \/ CheckKey(h) \/ BeginStore(h) \/ Propose(h)
           \/ Done(h)
    PROVE  OrderlyInv'
<1> DEFINE Stays == /\ UNCHANGED <<collOf, mem, db, log, acked, ident>>
                    /\ pc[h] # "finish" /\ Placed(h)' /\ Found(h)'
<1> USE DEF OrderlyInv, KeptInv, Inductive, TypeInv, TypeOK, HandlerTypes, Placed, Found, Looking,
        Finding, Setting, Writing, Goto, Answer, Panic, sharedVars, memoryVars, storageVars,
        diskVars, ciscVars, clientVars
<1>1. CreateIdentity(h) => Stays
  BY DEF CreateIdentity
<1>2. RegisterPrivate(h) \/ RegisterWriter(h) => Stays
  BY DEF RegisterPrivate, RegisterWriter
<1>3. SaveStorage(h) => Stays
  BY DEF SaveStorage
<1>4. TornRead(h) \/ NilCollection(h) => Stays
  BY DEF TornRead, NilCollection
<1>5. CheckKey(h) => Stays
  BY DEF CheckKey
<1>6. BeginStore(h) => Stays
  BY DEF BeginStore
<1>7. Propose(h) => Stays
  BY DEF Propose
<1>8. Done(h) => Stays
  BY DEF Done, NoReply
<1>9. Stays
  BY <1>1, <1>2, <1>3, <1>4, <1>5, <1>6, <1>7, <1>8
<1>10. QED  BY <1>9, OrderlyFrame

LEMMA OrderlyArrive ==
    ASSUME OrderlyInv, NEW h \in Handlers, Ready(h), NEW r \in Requests,
           NEW c \in Chains \cup {None}, Arrive(h, r, c)
    PROVE  OrderlyInv'
<1>1. /\ UNCHANGED <<collOf, mem, db, log, acked, ident>> /\ pc[h] = "idle"
      /\ pc'[h] = "start" /\ reply'[h].kind = "none"
  BY DEF Arrive, Goto, NoReply, memoryVars, storageVars, diskVars, ciscVars, clientVars, OrderlyInv,
     KeptInv, Inductive, TypeInv, TypeOK, HandlerTypes
<1>2. Placed(h)' /\ Found(h)'
  BY <1>1 DEF Placed, Found, Looking, Finding, Setting, Writing
<1>3. QED  BY <1>1, <1>2, OrderlyFrame

\* The conode stops only when what it saved is what it knows of the chains.
LEMMA OrderlyCrash ==
    ASSUME OrderlyInv, KeptInv', WritersInv', TakeTurns', CrashAndRestart, StopsSaved
    PROVE  OrderlyInv'
<1>1. used'["crashes"] # used["crashes"]
  BY DEF CrashAndRestart, OrderlyInv, WritersInv, TypeInv, TypeOK, UsedType
<1>2. /\ UNCHANGED <<db, log, acked, ident>>
      /\ \A h \in Handlers : pc[h] # "finish"
      /\ \A h \in Handlers : pc'[h] = "idle" /\ reply'[h].kind = "none"
  BY <1>1 DEF CrashAndRestart, Restore, StopsSaved, ciscVars, clientVars, NoReply
<1>3. LatestIsLast'
  BY <1>2 DEF OrderlyInv, LatestIsLast
<1>4. \A h \in Handlers : Placed(h)' /\ Found(h)'
  BY <1>2 DEF Placed, Found, Looking, Finding, Setting, Writing
<1>5. \A a \in acked' : (db[a.chain][a.block.key].idx = a.at)'
  BY <1>2 DEF OrderlyInv
<1>6. QED  BY <1>3, <1>4, <1>5 DEF OrderlyInv

LEMMA OrderlyInit == Init => OrderlyInv
<1> SUFFICES ASSUME Init PROVE OrderlyInv
  OBVIOUS
<1>1. TakeTurns /\ LatestIsLast /\ acked = {}
  BY DEF Init, TakeTurns, Storing, LatestIsLast
<1>2. \A h \in Handlers : Placed(h) /\ Found(h)
  BY DEF Init, Placed, Found, Looking, Finding, NoReply, Setting, Writing
<1>3. QED  BY <1>1, <1>2, KeptInit, WritersInit DEF OrderlyInv

LEMMA OrderlyStep ==
    ASSUME ColdRace = FALSE, OrderlyInv, [OrderlyNext]_vars
    PROVE  OrderlyInv'
<1>1. KeptInv' /\ WritersInv'
  BY KeptNext, WritersNext DEF OrderlyInv, OrderlyNext
<1>2. ASSUME NEW h \in Handlers, HandlerStep(h), OrderlyNext PROVE OrderlyInv'
  <2>1. \A g \in Handlers : g # h => Untouched(g)
    BY <1>2, OthersSame, OthersReplies DEF OrderlyInv, WritersInv, Untouched
  <2>2. Ready(h) /\ VotesHeard
    BY <1>1, <1>2, <2>1 DEF Ready, OrderlyNext
  <2>3. QED
    BY <1>2, <2>2, OrderlyRegisterIdentity, OrderlyLoadCollection, OrderlyInstallCollection,
       OrderlyAddToCollection, OrderlyCommitStore, OrderlyVote, OrderlyFinishSet,
       OrderlyReadIndex, OrderlyReadValue, OrderlyFetchBlock, OrderlyEnter, OrderlyOtherSteps
    DEF HandlerStep
<1>3. ASSUME NEW h \in Handlers, NEW r \in Requests, NEW c \in Chains \cup {None},
             Arrive(h, r, c), OrderlyNext
      PROVE  OrderlyInv'
  <2>1. \A g \in Handlers : g # h => Untouched(g)
    BY <1>3 DEF Arrive, Goto, Untouched, Same
  <2>2. Ready(h)
    BY <1>1, <1>3, <2>1 DEF Ready, OrderlyNext
  <2>3. QED  BY <1>3, <2>2, OrderlyArrive
<1>4. ASSUME CrashAndRestart, OrderlyNext PROVE OrderlyInv'
  BY <1>1, <1>4, OrderlyCrash DEF OrderlyNext
<1>5. ASSUME UNCHANGED vars PROVE OrderlyInv'
  <2>1. TakeTurns' /\ LatestIsLast'
    BY <1>5 DEF OrderlyInv, TakeTurns, Storing, LatestIsLast, vars, handlerVars, sharedVars,
       memoryVars, storageVars, ciscVars
  <2>2. ASSUME NEW g \in Handlers PROVE Placed(g)' /\ Found(g)'
    BY <1>5 DEF OrderlyInv, Placed, Found, Looking, Finding, vars, handlerVars, sharedVars,
       memoryVars, diskVars, ciscVars
  <2>3. \A a \in acked' : (db[a.chain][a.block.key].idx = a.at)'
    BY <1>5 DEF OrderlyInv, vars, sharedVars, diskVars, clientVars
  <2>4. QED  BY <1>1, <2>1, <2>2, <2>3 DEF OrderlyInv
<1>6. QED  BY <1>2, <1>3, <1>4, <1>5 DEF OrderlyNext, Next

(***************************************************************************)
(* Any number of handlers, chains and readers, calls that fail and         *)
(* restarts: as long as the SetKeyValue requests of a chain take turns, no *)
(* answer to a vote is lost and the conode stops with its storage saved,   *)
(* the block a GetValue answers for a confirmed pair is the block the pair *)
(* was confirmed for.  The runs index_race and restart_index show that the *)
(* first and the last of these conditions are needed.                      *)
(***************************************************************************)
THEOREM FindsConfirmed == ColdRace = FALSE => (OrderlySpec => []FindsItsBlock)
<1> SUFFICES ASSUME ColdRace = FALSE PROVE OrderlySpec => []FindsItsBlock
  OBVIOUS
<1>1. Init => OrderlyInv
  BY OrderlyInit
<1>2. OrderlyInv /\ [OrderlyNext]_vars => OrderlyInv'
  BY OrderlyStep
<1>3. OrderlyInv => FindsItsBlock
  <2> SUFFICES ASSUME OrderlyInv, NEW h \in Handlers, NEW a \in acked, reply[h].kind = "block",
                      gid[h] = a.chain, req[h].key = a.block.key
               PROVE  reply[h].at = a.at
    BY DEF FindsItsBlock
  <2>1. /\ obj[h] # None /\ obj[h] = collOf[a.chain] /\ reply[h].at = idx[h]
        /\ mem[a.chain][obj[h]][a.block.key].idx = idx[h]
    BY DEF OrderlyInv, Found, Looking, Finding
  <2>2. mem[a.chain][collOf[a.chain]][a.block.key] = db[a.chain][a.block.key]
    BY <2>1, ConfirmedOnChain DEF OrderlyInv, KeptInv, Agree
  <2>3. db[a.chain][a.block.key].idx = a.at
    BY DEF OrderlyInv
  <2>4. QED  BY <2>1, <2>2, <2>3
<1>4. QED  BY <1>1, <1>2, <1>3, PTL DEF OrderlySpec

=============================================================================
