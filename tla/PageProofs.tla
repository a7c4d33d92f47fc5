------------------------------ MODULE PageProofs ------------------------------
(***************************************************************************)
(* What the components of the page that do not act on each other, and the  *)
(* tool that fills the chains of the viewer, keep true whatever files,     *)
(* chains, servers and pages there are and however long they run.  Each    *)
(* section has a component: its invariant, why an action keeps it, and what*)
(* follows; the last one puts the components side by side.                 *)
(***************************************************************************)
EXTENDS MC_Components, PluginProofs

-----------------------------------------------------------------------------
(* The viewer.                                                             *)

\* The types of the viewer.
LEMMA ViewerTypes == ViewerSpec => []ViewerTypeOK
<1> USE DEF ViewerTypeOK
<1>1. ViewerInit => ViewerTypeOK
  BY DEF ViewerInit
<1>2. ViewerTypeOK /\ [ViewerNext]_viewerVars => ViewerTypeOK'
  <2> SUFFICES ASSUME ViewerTypeOK, [ViewerNext]_viewerVars PROVE ViewerTypeOK'
    OBVIOUS
  <2>1. CASE Mount \/ Back
    BY <2>1 DEF Mount, Back
  <2>2. CASE OpenStep
    <3>1. PICK call \in opens : CallStep(call)
      BY <2>2 DEF OpenStep
    <3>2. [call EXCEPT !.step = "servers"] \in [id : Sites, step : {"index", "servers"}]
      OBVIOUS
    <3> QED
      BY <3>1, <3>2 DEF CallStep, IndexFound, OpenRejected, BlockFound
  <2>3. ASSUME NEW id \in Sites, Open(id) PROVE ViewerTypeOK'
    BY <2>3 DEF Open
  <2>4. CASE UNCHANGED viewerVars
    BY <2>4 DEF viewerVars
  <2> QED
    BY <2>1, <2>2, <2>3, <2>4 DEF ViewerNext
<1> QED
  BY <1>1, <1>2, PTL DEF ViewerSpec

-----------------------------------------------------------------------------
(* The check of a signature file.                                          *)

Verdicts ==
    [file : Dropped \cup {None}, isVerified : BOOLEAN, isHashCorrect : BOOLEAN,
     isSignatureCorrect : BOOLEAN, error : BOOLEAN, of : (Dropped \X Dropped) \cup {None}]

\* A check has the pair that was dropped last, for a user who waits; and a verdict that is
\* shown is the one on that pair.
VerifyInv ==
    /\ verify \in Verdicts
    /\ verify.isVerified => verify.file = None
    /\ \A check \in verifying :
          /\ check \in [file : Dropped, info : Dropped, step : {"reading", "fetching", "hashing"}]
          /\ ~verifyEnv.hurried => verify.of = <<check.file, check.info>>
    /\ VerdictOfLastPair

LEMMA DropKeeps ==
    ASSUME VerifyInv, NEW x \in Files \cup Signatures, HandleFileDrop(x)
    PROVE  VerifyInv'
<1> USE DEF VerifyInv, Verdicts, Dropped
<1>1. x \in Dropped /\ verifyEnv' = verifyEnv
  BY DEF HandleFileDrop
<1>2. CASE verify.file = None \/ verify.isVerified
  <2>1. /\ verify' = [verify EXCEPT !.error = FALSE, !.file = x, !.isVerified = FALSE,
                                    !.isSignatureCorrect = FALSE]
        /\ verifying' = verifying
    BY <1>2 DEF HandleFileDrop
  <2>2. verify' \in Verdicts /\ ~verify'.isVerified /\ verify'.of = verify.of
    BY <1>1, <2>1
  <2> QED
    BY <1>1, <2>1, <2>2 DEF VerdictOfLastPair
<1>3. CASE verify.file # None /\ ~verify.isVerified
  <2> DEFINE check == [file |-> verify.file, info |-> x, step |-> "reading"]
  <2>1. /\ verify' = [verify EXCEPT !.of = <<verify.file, x>>]
        /\ verifying' = verifying \cup {check}
        /\ verifying = {} \/ verifyEnv.hurried
    BY <1>3 DEF HandleFileDrop
  <2>2. /\ verify' \in Verdicts /\ ~verify'.isVerified
        /\ verify'.of = <<verify.file, x>> /\ verify.file \in Dropped
    BY <1>1, <1>3, <2>1
  <2> QED
    BY <1>1, <2>1, <2>2 DEF VerdictOfLastPair
<1> QED
  BY <1>2, <1>3

LEMMA VerifyStepKeeps ==
    ASSUME VerifyInv, NEW check \in verifying, UNCHANGED verifyEnv,
           ReadInfo(check) \/ FetchBlock(check) \/ HashChecked(check) \/ HashThrows(check)
    PROVE  VerifyInv'
<1> USE DEF VerifyInv, Verdicts, VerdictOfLastPair
<1>1. CASE Rejected(check)
  <2>1. /\ verify' = [verify EXCEPT !.file = None, !.error = TRUE]
        /\ verifying' \subseteq verifying
    BY <1>1 DEF Rejected
  <2> QED
    BY <2>1
<1>2. CASE Lost(check)
  BY <1>2 DEF Lost
<1>3. ASSUME NEW step_ \in {"fetching", "hashing"}, GoesOn(check, step_)
      PROVE  VerifyInv'
  <2> DEFINE next == [check EXCEPT !.step = step_]
  <2>1. /\ verify' = verify
        /\ verifying' = (verifying \ {check}) \cup {next}
    BY <1>3 DEF GoesOn
  <2>2. /\ next \in [file : Dropped, info : Dropped, step : {"reading", "fetching", "hashing"}]
        /\ next.file = check.file /\ next.info = check.info
    OBVIOUS
  <2> HIDE DEF next
  <2> QED
    BY <2>1, <2>2
<1>4. CASE HashChecked(check)
  <2>1. /\ verifying' = verifying \ {check}
        /\ verify' = [verify EXCEPT !.file = None, !.isVerified = TRUE, !.error = FALSE,
                        !.isHashCorrect = (check.file = check.info.hash),
                        !.isSignatureCorrect = IsSignatureCorrect(check.file, check.info)]
    BY <1>4 DEF HashChecked
  <2>2. IsSignatureCorrect(check.file, check.info) \in BOOLEAN
        /\ (check.file = check.info.hash) \in BOOLEAN
    BY DEF IsSignatureCorrect
  <2>3. /\ verify' \in Verdicts /\ verify'.file = None /\ verify'.of = verify.of
        /\ verify'.isHashCorrect = (check.file = check.info.hash)
        /\ verify'.isSignatureCorrect = IsSignatureCorrect(check.file, check.info)
    BY <2>1, <2>2
  <2>4. ~verifyEnv.hurried => verify.of = <<check.file, check.info>>
    OBVIOUS
  <2>5. ~verifyEnv.hurried => verify'.of[1] = check.file /\ verify'.of[2] = check.info
    BY <2>3, <2>4
  <2>6. VerdictOfLastPair'
    BY <2>3, <2>5
  <2> QED
    BY <2>1, <2>3, <2>6
<1> QED
  BY <1>1, <1>2, <1>3, <1>4 DEF ReadInfo, FetchBlock, HashThrows

LEMMA VerifyKeeps ==
    ASSUME VerifyInv, [VerifyNext]_verifyVars
    PROVE  VerifyInv'
<1>1. CASE HandleFileReset
  <2>1. /\ verify' = [verify EXCEPT !.file = None, !.isVerified = FALSE,
                                    !.isSignatureCorrect = FALSE, !.isHashCorrect = FALSE]
        /\ UNCHANGED <<verifyEnv, verifying>>
    BY <1>1 DEF HandleFileReset
  <2> QED
    BY <2>1 DEF VerifyInv, Verdicts, VerdictOfLastPair
<1>2. CASE VerifyStep
  BY <1>2, VerifyStepKeeps DEF VerifyStep
<1>3. CASE UNCHANGED verifyVars
  BY <1>3 DEF verifyVars, VerifyInv, VerdictOfLastPair
<1> QED
  BY <1>1, <1>2, <1>3, DropKeeps DEF VerifyNext

\* The types of the check: what goes on after the reading is a signature file.
LEMMA VerifyTypeKeeps ==
    ASSUME VerifyInv, VerifyTypeOK, [VerifyNext]_verifyVars
    PROVE  VerifyTypeOK'
<1>1. VerifyInv'
  BY VerifyKeeps
<1>2. /\ verify'.file \in Dropped \cup {None} /\ (verify'.isVerified => verify'.file = None)
      /\ \A check \in verifying' : check.file \in Dropped /\ check.info \in Dropped
  BY <1>1 DEF VerifyInv, Verdicts
<1>3. verifyEnv' = verifyEnv
  BY DEF VerifyNext, VerifyStep, HandleFileDrop, HandleFileReset, verifyVars
<1>4. \A check \in verifying' : check.step # "reading" => IsSignatureFile(check.info)
  <2>1. \A check \in verifying : check.step # "reading" => IsSignatureFile(check.info)
    BY DEF VerifyTypeOK
  <2>2. CASE verifying' = verifying
    BY <2>1, <2>2
  <2>3. ASSUME NEW x \in Files \cup Signatures, HandleFileDrop(x)
        PROVE  \A check \in verifying' : check.step # "reading" => IsSignatureFile(check.info)
    BY <2>1, <2>3 DEF HandleFileDrop
  <2>4. ASSUME NEW check \in verifying,
               ReadInfo(check) \/ FetchBlock(check) \/ HashChecked(check) \/ HashThrows(check)
        PROVE  \A c \in verifying' : c.step # "reading" => IsSignatureFile(c.info)
    <3>1. check \in [file : Dropped, info : Dropped, step : {"reading", "fetching", "hashing"}]
      BY DEF VerifyInv
    <3>2. \A step_ : [check EXCEPT !.step = step_].info = check.info
      BY <3>1
    <3>3. IsSignatureFile(check.info) \/ verifying' \subseteq verifying
      BY <2>1, <2>4 DEF ReadInfo, FetchBlock, HashChecked, HashThrows, Rejected, Lost
    <3>4. \/ verifying' \subseteq verifying
          \/ \E step_ : verifying' = (verifying \ {check}) \cup {[check EXCEPT !.step = step_]}
      BY <2>4 DEF ReadInfo, FetchBlock, HashChecked, HashThrows, Rejected, Lost, GoesOn
    <3> QED
      BY <2>1, <3>2, <3>3, <3>4
  <2> QED
    BY <2>2, <2>3, <2>4 DEF VerifyNext, HandleFileReset, VerifyStep, verifyVars
<1> QED
  BY <1>2, <1>3, <1>4 DEF VerifyTypeOK

LEMMA VerifyTypes == VerifySpec => []VerifyTypeOK
<1>1. VerifyInit => VerifyInv /\ VerifyTypeOK
  BY DEF VerifyInit, VerifyInv, Verdicts, VerdictOfLastPair, VerifyTypeOK
<1>2. VerifyInv /\ VerifyTypeOK /\ [VerifyNext]_verifyVars => (VerifyInv /\ VerifyTypeOK)'
  BY VerifyKeeps, VerifyTypeKeeps
<1> QED
  BY <1>1, <1>2, PTL DEF VerifySpec

\* Whatever files and signature files the user has, whichever of them are dropped, and
\* whether blocks can be fetched: with a user who waits the verdict that is shown is the
\* one on the pair that was dropped last.
THEOREM VerdictIsOnPair == VerifySpec => []VerdictOfLastPair
<1>1. VerifyInit => VerifyInv
  BY DEF VerifyInit, VerifyInv, Verdicts, VerdictOfLastPair
<1>2. VerifyInv /\ [VerifyNext]_verifyVars => VerifyInv'
  BY VerifyKeeps
<1>3. VerifyInv => VerdictOfLastPair
  BY DEF VerifyInv
<1> QED
  BY <1>1, <1>2, <1>3, PTL DEF VerifySpec

-----------------------------------------------------------------------------
(* The tool that stores a web site in chains.                              *)

\* The pages that links lead to from baseURL, as those that every set has which has
\* baseURL and, with a page, what the page links to.
Reachable ==
    {u \in Urls : \A set \in SUBSET Urls :
        Base \in set /\ (\A v \in set : Links[v] \subseteq set) => u \in set}

\* A config gives chains to pages of the site: each a chain of its own, that exists.
GivesChains(conf) ==
    /\ \A u \in Urls : conf[u] # NoChain => u \in Reachable /\ chains[conf[u]].exists
    /\ \A u, v \in Urls : conf[u] # NoChain /\ conf[u] = conf[v] => u = v

\* Two configs have no chain in common.
Disjoint(conf, other) ==
    \A u, v \in Urls : conf[u] # NoChain => conf[u] # other[v]

\* A config keeps the chains of an earlier one.
Extends(conf, before) == \A u \in Urls : before[u] # NoChain => conf[u] = before[u]

\* The config gives the page of a chain that chain, and its links lead to chains of the
\* config.
ResolvesIn(id, conf) ==
    /\ conf[chains[id].page] = id
    /\ chains[id].links \subseteq {conf[v] : v \in Links[chains[id].page]} \ {NoChain}

\* The configs that are saved have a chain each, share none, and the one of this run has
\* no chain of another.
SavedApart ==
    /\ \A c \in Saved : chains[c].exists /\ GivesChains(stored[c])
    /\ \A c, d \in Saved : c # d => Disjoint(stored[c], stored[d])
    /\ GivesChains(config)
    /\ \A c \in Saved : c # config_block => Disjoint(config, stored[c])

\* The pages that were met are those that links lead to, as far as they were fetched.
Fetches ==
    step \in {"fetch", "populate", "update", "done"} =>
        /\ Base \in Met /\ Met \subseteq Reachable
        /\ \A u \in Urls : pages[u] = "fetched" => Links[u] \subseteq Met
        /\ step # "fetch" => \A u \in Urls : pages[u] # "fetching"

\* The config of this run keeps the chains that were saved, and is the one that is saved
\* when pages are stored.
Configures ==
    /\ step = "start" => config = NoConfig
    /\ config_block # NoChain => chains[config_block].exists
    /\ config_block = NoChain => step \in {"start", "over"}
    /\ step \in {"fetch", "populate"} /\ config_block \in Saved =>
          Extends(config, stored[config_block])
    /\ step \in {"update", "done"} =>
          /\ config_block \in Saved /\ config = stored[config_block]
          /\ \A u \in Met : config[u] # NoChain

\* The pages that this run has stored.
Updates ==
    /\ step \in {"start", "fetch", "populate"} => updated = {}
    /\ step = "done" => updated = Met
    /\ step \in {"update", "done"} =>
          \A u \in updated : /\ u \in Met
                             /\ chains[config[u]].page = u
                             /\ chains[config[u]].links = {config[v] : v \in Links[u]}

Resolve == \A id \in Ids : chains[id].page # NoUrl => \E c \in Saved : ResolvesIn(id, stored[c])

InlinerInv ==
    InlinerTypeOK /\ SavedApart /\ Fetches /\ Configures /\ Updates /\ Resolve

\* A config that is saved is one, and chains have numbers.
LEMMA SavedTypes ==
    ASSUME InlinerTypeOK
    PROVE  /\ \A c \in Saved : c \in Ids /\ stored[c] \in Configs
           /\ \A conf \in Configs : conf # Unsaved
           /\ NoChain \notin Ids /\ Ids \subseteq Nat
           /\ \A id \in Ids : chains[id].page # NoUrl =>
                 chains[id].page \in Urls /\ Links[chains[id].page] \subseteq Urls
           /\ \A conf \in Configs : \A u \in Urls :
                 conf[u] \in Ids \cup {NoChain} /\ (conf[u] # NoChain => conf[u] \in Ids)
<1>1. NoChain \notin Ids /\ Ids \subseteq Nat
  BY InlinerAssumption DEF NoChain, Ids
<1>2. ASSUME NEW conf \in Configs PROVE conf \in [Urls -> Nat]
  <2>1. Ids \cup {NoChain} \subseteq Nat
    BY <1>1 DEF NoChain
  <2>2. conf \in [Urls -> Ids \cup {NoChain}]
    BY DEF Configs
  <2> QED
    BY <2>1, <2>2
<1>3. \A conf \in Configs : conf # Unsaved
  BY <1>2, InlinerAssumption
<1>4. \A c \in Saved : c \in Ids /\ stored[c] \in Configs
  BY DEF Saved, InlinerTypeOK
<1>5. \A conf \in Configs : \A u \in Urls : conf[u] \in Ids \cup {NoChain}
  BY DEF Configs
<1>6. \A id \in Ids : chains[id].page \in Urls \cup {NoUrl}
  BY DEF InlinerTypeOK
<1>7. \A u \in Urls : Links[u] \subseteq Urls
  BY InlinerAssumption
<1> QED
  BY <1>1, <1>3, <1>4, <1>5, <1>6, <1>7

\* What a chain that is created changes: it exists.
LEMMA CreateMakes ==
    ASSUME InlinerInv, NEW id \in Ids, Create(id)
    PROVE  /\ chains' \in [Ids -> [exists : BOOLEAN, page : Urls \cup {NoUrl},
                                   links : SUBSET (Ids \cup {NoChain})]]
           /\ chains'[id].exists /\ ~chains[id].exists
           /\ \A other \in Ids : /\ chains[other].exists => chains'[other].exists
                                 /\ chains'[other].page = chains[other].page
                                 /\ chains'[other].links = chains[other].links
<1> DEFINE T == [exists : BOOLEAN, page : Urls \cup {NoUrl}, links : SUBSET (Ids \cup {NoChain})]
<1>1. chains \in [Ids -> T]
  BY DEF InlinerInv, InlinerTypeOK
<1>2. chains' = [chains EXCEPT ![id].exists = TRUE] /\ ~chains[id].exists
  BY DEF Create
<1>3. chains[id] \in T
  BY <1>1
<1>4. [chains[id] EXCEPT !.exists = TRUE] \in T
  BY <1>3
<1>5. chains' \in [Ids -> T]
  BY <1>1, <1>2, <1>4
<1>6. chains'[id] = [chains[id] EXCEPT !.exists = TRUE]
      /\ \A other \in Ids : other # id => chains'[other] = chains[other]
  BY <1>1, <1>2
<1>7. /\ chains'[id].exists = TRUE /\ chains'[id].page = chains[id].page
      /\ chains'[id].links = chains[id].links
  BY <1>3, <1>6
<1> QED
  BY <1>2, <1>5, <1>6, <1>7

\* A config keeps its chains when a chain is created.
LEMMA CreateGives ==
    ASSUME InlinerInv, NEW id \in Ids, Create(id), NEW conf \in Configs, GivesChains(conf)
    PROVE  /\ \A u \in Urls : conf[u] # NoChain => u \in Reachable /\ chains'[conf[u]].exists
           /\ \A u \in Urls : conf[u] # id
<1>1. \A u \in Urls : conf[u] # NoChain => conf[u] \in Ids
  BY SavedTypes DEF InlinerInv
<1>2. id # NoChain
  BY SavedTypes DEF InlinerInv
<1> QED
  BY <1>1, <1>2, CreateMakes DEF GivesChains

\* The invariants that a new chain leaves alone.
LEMMA CreateKeeps ==
    ASSUME InlinerInv, NEW id \in Ids, Create(id), stored' = stored
    PROVE  /\ Resolve'
           /\ Saved' = Saved /\ id \notin Saved
           /\ \A c \in Saved : chains'[c].exists /\ GivesChains(stored[c])'
           /\ config' = config => GivesChains(config)'
<1>1. Saved' = Saved
  BY DEF Saved
<1>2. \A c \in Saved : c \in Ids /\ chains[c].exists
  BY SavedTypes DEF InlinerInv, SavedApart
<1>3. id \notin Saved /\ \A c \in Saved : chains'[c].exists
  BY <1>2, CreateMakes
<1>4. ASSUME NEW c \in Saved PROVE GivesChains(stored[c])'
  <2>1. stored[c] \in Configs /\ GivesChains(stored[c])
    BY SavedTypes DEF InlinerInv, SavedApart
  <2>2. stored'[c] = stored[c]
    OBVIOUS
  <2> QED
    BY <2>1, <2>2, CreateGives DEF GivesChains
<1>5. config' = config => GivesChains(config)'
  <2>1. config \in Configs /\ GivesChains(config)
    BY DEF InlinerInv, SavedApart, InlinerTypeOK
  <2> QED
    BY <2>1, CreateGives DEF GivesChains
<1>6. Resolve'
  <2>1. Resolve
    BY DEF InlinerInv
  <2> QED
    BY <1>1, <2>1, CreateMakes DEF Resolve, ResolvesIn
<1> QED
  BY <1>1, <1>3, <1>4, <1>5, <1>6

\* The pages when getPages starts.
LEMMA PagesStart ==
    ASSUME StartPages
    PROVE  /\ step' = "fetch" /\ pages' \in [Urls -> {"unknown", "fetching", "fetched"}]
           /\ Fetches'
<1>1. step' = "fetch" /\ pages' = [NoPages EXCEPT ![Base] = "fetching"] /\ Base \in Urls
  BY InlinerAssumption DEF StartPages
<1>2. /\ pages' \in [Urls -> {"unknown", "fetching", "fetched"}]
      /\ \A u \in Urls : pages'[u] = IF u = Base THEN "fetching" ELSE "unknown"
  BY <1>1 DEF NoPages
<1>3. Met' = {Base}
  BY <1>1, <1>2 DEF Met
<1>4. Base \in Reachable
  BY <1>1 DEF Reachable
<1> QED
  BY <1>1, <1>2, <1>3, <1>4 DEF Fetches

LEMMA CreateConfigKeeps ==
    ASSUME InlinerInv, CreateConfig
    PROVE  InlinerInv'
<1>1. step = "start" /\ StartPages /\ UNCHANGED <<config, updated, stored>>
  BY DEF CreateConfig
<1>2. PICK id \in Ids : Create(id) /\ config_block' = id
  BY DEF CreateConfig
<1>3. updated = {} /\ config = NoConfig
  BY <1>1 DEF InlinerInv, Updates, Configures
<1>4. InlinerTypeOK'
  BY <1>1, <1>2, PagesStart, CreateMakes DEF InlinerInv, InlinerTypeOK
<1>5. \A u \in Urls : config[u] = NoChain
  BY <1>3 DEF NoConfig
<1>6. SavedApart'
  <2>1. /\ Saved' = Saved
        /\ \A c \in Saved : chains'[c].exists /\ GivesChains(stored[c])'
        /\ GivesChains(config)'
    BY <1>1, <1>2, CreateKeeps
  <2>2. \A c, d \in Saved : c # d => Disjoint(stored[c], stored[d])'
    BY <1>1 DEF InlinerInv, SavedApart, Disjoint
  <2>3. \A c \in Saved : Disjoint(config, stored[c])'
    BY <1>1, <1>5 DEF Disjoint
  <2> QED
    BY <2>1, <2>2, <2>3 DEF SavedApart
<1>7. Configures'
  <2>1. id # NoChain /\ chains'[id].exists /\ id \notin Saved'
    BY <1>1, <1>2, SavedTypes, CreateMakes, CreateKeeps DEF InlinerInv
  <2>2. step' = "fetch"
    BY <1>1, PagesStart
  <2> QED
    BY <1>2, <2>1, <2>2 DEF Configures
<1>8. Updates'
  BY <1>1, <1>3, PagesStart DEF Updates
<1>9. Fetches' /\ Resolve'
  BY <1>1, <1>2, PagesStart, CreateKeeps
<1> QED
  BY <1>4, <1>6, <1>7, <1>8, <1>9 DEF InlinerInv

LEMMA GetConfigKeeps ==
    ASSUME InlinerInv, GetConfig
    PROVE  InlinerInv'
<1>1. step = "start" /\ config_block # NoChain /\ UNCHANGED <<updated, config_block, stored, chains>>
  BY DEF GetConfig
<1>2. updated = {} /\ Saved' = Saved
  BY <1>1 DEF InlinerInv, Updates, Saved
<1>3. Resolve'
  BY <1>1, <1>2 DEF InlinerInv, Resolve, ResolvesIn
<1>4. CASE stored[config_block] = Unsaved
  <2>1. step' = "over" /\ UNCHANGED <<config, pages>>
    BY <1>4 DEF GetConfig
  <2>2. InlinerTypeOK' /\ Fetches' /\ Updates'
    BY <1>1, <2>1 DEF InlinerInv, InlinerTypeOK, Fetches, Updates
  <2>3. SavedApart'
    BY <1>1, <1>2, <2>1 DEF InlinerInv, SavedApart, GivesChains, Disjoint
  <2>4. Configures'
    BY <1>1, <2>1 DEF InlinerInv, Configures
  <2> QED
    BY <1>3, <2>2, <2>3, <2>4 DEF InlinerInv
<1>5. CASE stored[config_block] # Unsaved
  <2>1. config' = stored[config_block] /\ StartPages
    BY <1>5 DEF GetConfig
  <2>2. config_block \in Saved
    BY <1>1, <1>5 DEF InlinerInv, InlinerTypeOK, Saved
  <2>3. config' \in Configs
    BY <2>1, <2>2, SavedTypes DEF InlinerInv
  <2>4. InlinerTypeOK'
    BY <1>1, <2>1, <2>3, PagesStart DEF InlinerInv, InlinerTypeOK
  <2>5. SavedApart'
    <3>1. /\ \A c \in Saved : chains[c].exists /\ GivesChains(stored[c])
          /\ \A c, d \in Saved : c # d => Disjoint(stored[c], stored[d])
      BY DEF InlinerInv, SavedApart
    <3>2. GivesChains(config)'
      BY <1>1, <2>1, <2>2, <3>1 DEF GivesChains
    <3>3. \A c \in Saved : c # config_block => Disjoint(config, stored[c])'
      BY <1>1, <2>1, <2>2, <3>1 DEF Disjoint
    <3>4. \A c \in Saved : GivesChains(stored[c])'
      BY <1>1, <3>1 DEF GivesChains
    <3>5. \A c, d \in Saved : c # d => Disjoint(stored[c], stored[d])'
      BY <1>1, <3>1 DEF Disjoint
    <3> QED
      BY <1>1, <1>2, <3>1, <3>2, <3>3, <3>4, <3>5 DEF SavedApart
  <2>6. Configures'
    <3>1. Extends(config', stored'[config_block'])
      BY <1>1, <2>1 DEF Extends
    <3>2. chains[config_block].exists
      BY <1>1 DEF InlinerInv, Configures
    <3> QED
      BY <1>1, <2>1, <3>1, <3>2, PagesStart DEF Configures
  <2>7. Updates' /\ Fetches'
    BY <1>1, <1>2, <2>1, PagesStart DEF Updates
  <2> QED
    BY <1>3, <2>4, <2>5, <2>6, <2>7 DEF InlinerInv
<1> QED
  BY <1>4, <1>5

\* What a step keeps that leaves the configs and the chains alone.
LEMMA ConfigsAlone ==
    ASSUME InlinerInv, UNCHANGED <<config, config_block, stored, chains>>
    PROVE  SavedApart' /\ Resolve' /\ Saved' = Saved
<1>1. Saved' = Saved
  BY DEF Saved
<1>2. SavedApart'
  BY <1>1 DEF InlinerInv, SavedApart, GivesChains, Disjoint
<1>3. Resolve'
  BY <1>1 DEF InlinerInv, Resolve, ResolvesIn
<1> QED
  BY <1>1, <1>2, <1>3

LEMMA PageArrivesKeeps ==
    ASSUME InlinerInv, NEW u \in Urls, PageArrives(u)
    PROVE  InlinerInv'
<1>1. /\ step = "fetch" /\ pages[u] = "fetching"
      /\ pages' = [v \in Urls |-> IF v = u THEN "fetched"
                                  ELSE IF v \in Links[u] /\ pages[v] = "unknown" THEN "fetching"
                                  ELSE pages[v]]
      /\ UNCHANGED <<step, config, updated, config_block, stored, chains>>
  BY DEF PageArrives
<1>2. InlinerTypeOK'
  BY <1>1 DEF InlinerInv, InlinerTypeOK
<1>3. Met' = Met \cup Links[u] /\ u \in Met
  <2>1. Links[u] \subseteq Urls
    BY InlinerAssumption
  <2> QED
    BY <1>1, <2>1 DEF Met, InlinerInv, InlinerTypeOK
<1>4. Links[u] \subseteq Reachable
  <2>1. u \in Reachable
    BY <1>1, <1>3 DEF InlinerInv, Fetches
  <2>2. Links[u] \subseteq Urls
    BY InlinerAssumption
  <2> QED
    BY <2>1, <2>2 DEF Reachable
<1>5. Fetches'
  BY <1>1, <1>3, <1>4 DEF InlinerInv, Fetches
<1>6. Configures' /\ Updates'
  BY <1>1, ConfigsAlone DEF InlinerInv, Configures, Updates, Extends
<1> QED
  BY <1>1, <1>2, <1>5, <1>6, ConfigsAlone DEF InlinerInv

LEMMA CreateSkipChainKeeps ==
    ASSUME InlinerInv, NEW u \in Urls, CreateSkipChain(u)
    PROVE  InlinerInv'
<1>1. PICK id \in Ids : Create(id) /\ config' = [config EXCEPT ![u] = id]
  BY DEF CreateSkipChain
<1>2. /\ step = "populate" /\ u \in Met /\ config[u] = NoChain
      /\ UNCHANGED <<step, pages, updated, config_block, stored>>
  BY DEF CreateSkipChain
<1>3. /\ config \in Configs /\ config' \in Configs
      /\ \A v \in Urls : config'[v] = IF v = u THEN id ELSE config[v]
  BY <1>1 DEF InlinerInv, InlinerTypeOK, Configs
<1>4. InlinerTypeOK'
  BY <1>1, <1>2, <1>3, CreateMakes DEF InlinerInv, InlinerTypeOK
<1>5. /\ Saved' = Saved /\ \A c \in Saved : chains'[c].exists /\ GivesChains(stored[c])'
      /\ Resolve'
  BY <1>1, <1>2, CreateKeeps
<1>6. GivesChains(config) /\ \A c \in Saved : GivesChains(stored[c]) /\ stored[c] \in Configs
  BY SavedTypes DEF InlinerInv, SavedApart
<1>7. GivesChains(config)'
  <2>1. u \in Reachable
    BY <1>2 DEF InlinerInv, Fetches
  <2>2. \A v \in Urls : /\ config[v] # id
                        /\ config[v] # NoChain => v \in Reachable /\ chains'[config[v]].exists
    BY <1>1, <1>3, <1>6, CreateGives
  <2>3. chains'[id].exists
    BY <1>1, CreateMakes
  <2> QED
    BY <1>3, <1>6, <2>1, <2>2, <2>3 DEF GivesChains
<1>8. ASSUME NEW c \in Saved, c # config_block PROVE Disjoint(config, stored[c])'
  <2>1. \A v \in Urls : stored[c][v] # id
    BY <1>1, <1>6, CreateGives
  <2>2. Disjoint(config, stored[c])
    BY <1>8 DEF InlinerInv, SavedApart
  <2> QED
    BY <1>2, <1>3, <2>1, <2>2 DEF Disjoint
<1>9. SavedApart'
  <2>1. \A c, d \in Saved : c # d => Disjoint(stored[c], stored[d])'
    BY <1>2 DEF InlinerInv, SavedApart, Disjoint
  <2> QED
    BY <1>2, <1>5, <1>7, <1>8, <2>1 DEF SavedApart
<1>10. Configures'
  <2>1. config_block \in Saved => Extends(config, stored[config_block])'
    <3>1. config_block \in Saved => Extends(config, stored[config_block])
      BY <1>2 DEF InlinerInv, Configures
    <3> QED
      BY <1>2, <1>3, <3>1 DEF Extends
  <2>2. config_block # NoChain /\ chains'[config_block].exists
    <3>1. config_block \in Ids /\ config_block # NoChain /\ chains[config_block].exists
      BY <1>2 DEF InlinerInv, Configures, InlinerTypeOK
    <3> QED
      BY <1>1, <3>1, CreateMakes
  <2> QED
    BY <1>2, <1>5, <2>1, <2>2 DEF Configures
<1>11. Fetches' /\ Updates'
  BY <1>2 DEF InlinerInv, Fetches, Updates, Met
<1> QED
  BY <1>4, <1>5, <1>9, <1>10, <1>11 DEF InlinerInv

LEMMA SaveConfigKeeps ==
    ASSUME InlinerInv, SaveConfig
    PROVE  InlinerInv' /\ \A c \in Saved : Extends(stored'[c], stored[c])
<1>1. /\ step = "populate" /\ step' = "update" /\ \A u \in Met : config[u] # NoChain
      /\ stored' = [stored EXCEPT ![config_block] = config]
      /\ UNCHANGED <<config, pages, updated, config_block, chains>>
  BY DEF SaveConfig
<1>2. /\ config_block \in Ids /\ chains[config_block].exists /\ config \in Configs
      /\ config # Unsaved
  BY <1>1, SavedTypes DEF InlinerInv, Configures, InlinerTypeOK
<1>3. /\ InlinerTypeOK' /\ stored'[config_block] = config
      /\ \A c \in Ids : c # config_block => stored'[c] = stored[c]
  BY <1>1, <1>2 DEF InlinerInv, InlinerTypeOK
<1>4. Saved' = Saved \cup {config_block}
  BY <1>2, <1>3 DEF Saved
<1>5. \A c \in Saved : c \in Ids /\ stored[c] \in Configs
  BY SavedTypes DEF InlinerInv
<1>6. \A c \in Saved : Extends(stored'[c], stored[c])
  <2>1. config_block \in Saved => Extends(config, stored[config_block])
    BY <1>1 DEF InlinerInv, Configures
  <2>2. \A c \in Saved : Extends(stored[c], stored[c])
    BY DEF Extends
  <2> QED
    BY <1>3, <1>5, <2>1, <2>2
<1>7. SavedApart'
  <2>1. /\ \A c \in Saved : chains[c].exists /\ GivesChains(stored[c])
        /\ \A c, d \in Saved : c # d => Disjoint(stored[c], stored[d])
        /\ GivesChains(config)
        /\ \A c \in Saved : c # config_block => Disjoint(config, stored[c])
    BY DEF InlinerInv, SavedApart
  <2>2. GivesChains(config)' /\ \A c \in Saved' : chains'[c].exists /\ GivesChains(stored[c])'
    BY <1>1, <1>2, <1>3, <1>4, <1>5, <2>1 DEF GivesChains
  <2>3. \A c \in Saved : c # config_block => Disjoint(stored[c], config)
    BY <2>1, SavedTypes, <1>2, <1>5 DEF Disjoint, InlinerInv
  <2>4. \A c \in Saved' : c # config_block => Disjoint(config, stored[c])'
    BY <1>1, <1>3, <1>4, <1>5, <2>1 DEF Disjoint
  <2>5. \A c, d \in Saved' : c # d => Disjoint(stored[c], stored[d])'
    BY <1>3, <1>4, <1>5, <2>1, <2>3 DEF Disjoint
  <2> QED
    BY <1>1, <2>2, <2>4, <2>5 DEF SavedApart
<1>8. Resolve'
  <2> SUFFICES ASSUME NEW id \in Ids, chains[id].page # NoUrl
               PROVE  \E c \in Saved' : ResolvesIn(id, stored'[c])
    BY <1>1 DEF Resolve, ResolvesIn
  <2>1. PICK c \in Saved : ResolvesIn(id, stored[c])
    BY DEF InlinerInv, Resolve
  <2>2. Extends(stored'[c], stored[c]) /\ c \in Saved'
    BY <1>4, <1>6
  <2>3. /\ chains[id].page \in Urls /\ Links[chains[id].page] \subseteq Urls
        /\ id # NoChain
    BY SavedTypes DEF InlinerInv
  <2>4. ResolvesIn(id, stored'[c])
    BY <2>1, <2>2, <2>3 DEF ResolvesIn, Extends
  <2> QED
    BY <2>2, <2>4
<1>9. Fetches'
  BY <1>1 DEF InlinerInv, Fetches, Met
<1>10. Configures'
  <2>1. config_block # NoChain
    BY <1>1 DEF InlinerInv, Configures
  <2> QED
    BY <1>1, <1>2, <1>3, <1>4, <2>1 DEF Configures, Met
<1>11. Updates'
  BY <1>1 DEF InlinerInv, Updates
<1> QED
  BY <1>3, <1>6, <1>7, <1>8, <1>9, <1>10, <1>11 DEF InlinerInv

\* When the config is complete, the pages that were met are all that can be reached.
LEMMA AllMet ==
    ASSUME InlinerInv, step \in {"populate", "update", "done"}
    PROVE  Reachable \subseteq Met
<1>1. Met \in SUBSET Urls /\ Base \in Met
  BY DEF InlinerInv, Fetches, Met
<1>2. \A u \in Met : Links[u] \subseteq Met
  BY DEF InlinerInv, InlinerTypeOK, Fetches, Met
<1> QED
  BY <1>1, <1>2 DEF Reachable

LEMMA UpdatePageKeeps ==
    ASSUME InlinerInv, NEW u \in Urls, UpdatePage(u)
    PROVE  InlinerInv'
<1> DEFINE id == config[u]
           links == {config[v] : v \in Links[u]}
<1>1. /\ step = "update" /\ u \in Met \ updated /\ updated' = updated \cup {u}
      /\ chains' = [chains EXCEPT ![id].page = u, ![id].links = links]
      /\ UNCHANGED <<step, config, pages, config_block, stored>>
  BY DEF UpdatePage
<1>2. /\ config_block \in Saved /\ config = stored[config_block]
      /\ \A v \in Met : config[v] # NoChain
      /\ config \in Configs /\ id \in Ids /\ Saved' = Saved
  BY <1>1 DEF InlinerInv, InlinerTypeOK, Configures, Configs, Saved
<1>3. Links[u] \subseteq Met /\ Links[u] \subseteq Urls
  BY <1>1, InlinerAssumption DEF InlinerInv, InlinerTypeOK, Fetches, Met
<1>4. links \in SUBSET (Ids \cup {NoChain})
  BY <1>2, <1>3 DEF Configs
<1> HIDE DEF id, links
<1>5. /\ chains'[id].page = u /\ chains'[id].links = links /\ chains'[id].exists = chains[id].exists
      /\ \A other \in Ids : other # id => chains'[other] = chains[other]
  BY <1>1, <1>2 DEF InlinerInv, InlinerTypeOK
<1>6. InlinerTypeOK'
  BY ZenonT(60), <1>1, <1>2, <1>4 DEF InlinerInv, InlinerTypeOK
<1>7. SavedApart'
  <2>1. \A other \in Ids : chains'[other].exists = chains[other].exists
    BY <1>5
  <2>2. /\ \A c \in Saved : c \in Ids /\ stored[c] \in Configs
        /\ \A conf \in Configs : \A v \in Urls : conf[v] # NoChain => conf[v] \in Ids
    BY SavedTypes DEF InlinerInv
  <2>3. ASSUME NEW conf \in Configs, GivesChains(conf)
        PROVE  \A v \in Urls : conf[v] # NoChain => v \in Reachable /\ chains'[conf[v]].exists
    BY <2>1, <2>2, <2>3 DEF GivesChains
  <2>4. GivesChains(config) /\ \A c \in Saved : chains[c].exists /\ GivesChains(stored[c])
    BY DEF InlinerInv, SavedApart
  <2>5. GivesChains(config)'
    BY <1>1, <1>2, <2>3, <2>4 DEF GivesChains
  <2>6. \A c \in Saved : chains'[c].exists /\ GivesChains(stored[c])'
    BY <1>1, <2>1, <2>2, <2>3, <2>4 DEF GivesChains
  <2>7. /\ \A c, d \in Saved : c # d => Disjoint(stored[c], stored[d])'
        /\ \A c \in Saved : c # config_block => Disjoint(config, stored[c])'
    BY <1>1 DEF InlinerInv, SavedApart, Disjoint
  <2> QED
    BY <1>1, <1>2, <2>5, <2>6, <2>7 DEF SavedApart
<1>8. Resolve'
  <2> SUFFICES ASSUME NEW other \in Ids, chains'[other].page # NoUrl
               PROVE  \E c \in Saved : ResolvesIn(other, stored[c])'
    BY <1>1, <1>2 DEF Resolve
  <2>1. ASSUME other = id PROVE \E c \in Saved : ResolvesIn(other, stored[c])'
    <3>1. chains'[other].page = u /\ chains'[other].links = links
      BY <1>5, <2>1
    <3>2. links \subseteq {config[v] : v \in Links[u]} \ {NoChain}
      BY <1>2, <1>3 DEF links
    <3>3. stored' = stored /\ config_block \in Saved /\ stored[config_block] = config
      BY <1>1, <1>2
    <3>4. ResolvesIn(other, config)'
      BY <1>1, <2>1, <3>1, <3>2 DEF id, ResolvesIn
    <3>5. PICK c \in Saved : c = config_block
      BY <3>3
    <3>6. stored'[c] = config'
      BY <1>1, <3>3, <3>5
    <3>7. ResolvesIn(other, stored[c])'
      BY <3>4, <3>6 DEF ResolvesIn
    <3> QED
      BY <3>7
  <2>2. ASSUME other # id PROVE \E c \in Saved : ResolvesIn(other, stored[c])'
    <3>1. chains'[other] = chains[other] /\ stored' = stored
      BY <1>1, <1>5, <2>2
    <3>2. PICK c \in Saved : ResolvesIn(other, stored[c])
      BY <3>1 DEF InlinerInv, Resolve
    <3>3. ResolvesIn(other, stored[c])'
      BY <3>1, <3>2 DEF ResolvesIn
    <3> QED
      BY <3>3
  <2> QED
    BY <2>1, <2>2
<1>9. Updates'
  <2> SUFFICES ASSUME NEW w \in updated'
               PROVE  /\ w \in Met
                      /\ chains'[config[w]].page = w
                      /\ chains'[config[w]].links = {config[v] : v \in Links[w]}
    <3>1. step = "update" /\ UNCHANGED <<step, config, pages>>
      BY <1>1
    <3> QED
      BY <3>1 DEF Updates, Met
  <2>1. CASE w = u
    BY <1>1, <1>5, <2>1 DEF id, links
  <2>2. CASE w # u
    <3>1. /\ w \in updated /\ w \in Urls /\ w \in Met
          /\ chains[config[w]].page = w /\ chains[config[w]].links = {config[v] : v \in Links[w]}
      BY <1>1, <2>2 DEF InlinerInv, InlinerTypeOK, Updates
    <3>2. config[w] \in Ids /\ config[w] # id
      <4>1. GivesChains(config) /\ config[w] # NoChain
        BY <1>2, <3>1 DEF InlinerInv, SavedApart
      <4> QED
        BY <1>2, <2>2, <3>1, <4>1 DEF id, Configs, GivesChains
    <3> QED
      BY <1>5, <3>1, <3>2
  <2> QED
    BY <2>1, <2>2
<1>10. Fetches'
  BY <1>1 DEF InlinerInv, Fetches, Met
<1>11. Configures'
  <2>1. config_block \in Ids /\ config_block # NoChain /\ chains[config_block].exists
    BY <1>1, <1>2 DEF InlinerInv, Configures, InlinerTypeOK
  <2>2. chains'[config_block].exists
    BY <1>5, <2>1
  <2> QED
    BY <1>1, <1>2, <2>1, <2>2 DEF Configures, Met
<1> QED
  BY <1>6, <1>7, <1>8, <1>9, <1>10, <1>11 DEF InlinerInv

LEMMA RerunKeeps ==
    ASSUME InlinerInv, Rerun
    PROVE  InlinerInv'
<1>1. /\ config_block' \in {NoChain} \cup {id \in Ids : chains[id].exists}
      /\ step' = "start" /\ config' = NoConfig /\ pages' = NoPages /\ updated' = {}
      /\ UNCHANGED <<stored, chains>>
  BY DEF Rerun
<1>2. Saved' = Saved
  BY <1>1 DEF Saved
<1>3. InlinerTypeOK'
  BY <1>1 DEF InlinerInv, InlinerTypeOK, NoConfig, NoPages, Configs
<1>4. \A u \in Urls : config'[u] = NoChain
  BY <1>1 DEF NoConfig
<1>5. SavedApart'
  <2>1. GivesChains(config)' /\ \A c \in Saved : Disjoint(config, stored[c])'
    BY <1>4 DEF GivesChains, Disjoint
  <2> QED
    BY <1>1, <1>2, <2>1 DEF InlinerInv, SavedApart, GivesChains, Disjoint
<1>6. Resolve'
  BY <1>1, <1>2 DEF InlinerInv, Resolve, ResolvesIn
<1>7. Fetches' /\ Configures' /\ Updates'
  BY <1>1 DEF Fetches, Configures, Updates
<1> QED
  BY <1>3, <1>5, <1>6, <1>7 DEF InlinerInv

LEMMA InlinerKeeps ==
    ASSUME InlinerInv, [InlinerNext]_inlinerVars
    PROVE  InlinerInv'
<1>1. CASE PagesFetched
  <2>1. /\ step = "fetch" /\ step' = "populate" /\ \A u \in Urls : pages[u] # "fetching"
        /\ UNCHANGED <<config, pages, updated, config_block, stored, chains>>
    BY <1>1 DEF PagesFetched
  <2>2. SavedApart' /\ Resolve' /\ Saved' = Saved
    BY <2>1, ConfigsAlone
  <2>3. InlinerTypeOK' /\ Fetches' /\ Updates'
    BY <2>1 DEF InlinerInv, InlinerTypeOK, Fetches, Updates, Met
  <2>4. Configures'
    BY <2>1, <2>2 DEF InlinerInv, Configures, Extends
  <2> QED
    BY <2>2, <2>3, <2>4 DEF InlinerInv
<1>2. CASE AllUpdated
  <2>1. /\ step = "update" /\ step' = "done" /\ updated = Met
        /\ UNCHANGED <<config, pages, updated, config_block, stored, chains>>
    BY <1>2 DEF AllUpdated
  <2>2. SavedApart' /\ Resolve' /\ Saved' = Saved
    BY <2>1, ConfigsAlone
  <2>3. InlinerTypeOK' /\ Met' = Met
    BY <2>1 DEF InlinerInv, InlinerTypeOK, Met
  <2>4. Fetches' /\ Updates'
    BY <2>1, <2>3 DEF InlinerInv, Fetches, Updates
  <2>5. Configures'
    BY <2>1, <2>2, <2>3 DEF InlinerInv, Configures
  <2> QED
    BY <2>2, <2>3, <2>4, <2>5 DEF InlinerInv
<1>3. CASE Fails
  <2>1. step' = "over" /\ UNCHANGED <<config, pages, updated, config_block, stored, chains>>
    BY <1>3 DEF Fails
  <2>2. SavedApart' /\ Resolve' /\ Saved' = Saved
    BY <2>1, ConfigsAlone
  <2>3. InlinerTypeOK' /\ Fetches' /\ Updates' /\ Configures'
    BY <2>1 DEF InlinerInv, InlinerTypeOK, Fetches, Updates, Configures
  <2> QED
    BY <2>2, <2>3 DEF InlinerInv
<1>4. CASE UNCHANGED inlinerVars
  <2>1. UNCHANGED <<step, config, pages, updated, config_block, stored, chains>>
    BY <1>4 DEF inlinerVars
  <2>2. SavedApart' /\ Resolve' /\ Saved' = Saved
    BY <2>1, ConfigsAlone
  <2>3. InlinerTypeOK' /\ Met' = Met
    BY <2>1 DEF InlinerInv, InlinerTypeOK, Met
  <2>4. Fetches' /\ Updates'
    BY <2>1, <2>3 DEF InlinerInv, Fetches, Updates
  <2>5. Configures'
    BY <2>1, <2>2, <2>3 DEF InlinerInv, Configures, Extends
  <2> QED
    BY <2>2, <2>3, <2>4, <2>5 DEF InlinerInv
<1> QED
  BY <1>1, <1>2, <1>3, <1>4, CreateConfigKeeps, GetConfigKeeps, PageArrivesKeeps,
     CreateSkipChainKeeps, SaveConfigKeeps, UpdatePageKeeps, RerunKeeps DEF InlinerNext

LEMMA InlinerStarts == InlinerInit => InlinerInv
<1> SUFFICES ASSUME InlinerInit PROVE InlinerInv
  OBVIOUS
<1>1. /\ step = "start" /\ config = NoConfig /\ pages = NoPages /\ updated = {}
      /\ config_block = NoChain /\ stored = [id \in Ids |-> Unsaved]
      /\ chains = [id \in Ids |-> [exists |-> FALSE, page |-> NoUrl, links |-> {}]]
  BY DEF InlinerInit
<1>2. InlinerTypeOK
  BY <1>1 DEF InlinerTypeOK, NoConfig, NoPages, Configs
<1>3. Saved = {} /\ \A u \in Urls : config[u] = NoChain
  BY <1>1 DEF Saved, NoConfig
<1>4. SavedApart
  BY <1>3 DEF SavedApart, GivesChains
<1>5. Fetches /\ Configures /\ Updates /\ Resolve
  BY <1>1 DEF Fetches, Configures, Updates, Resolve
<1> QED
  BY <1>2, <1>4, <1>5 DEF InlinerInv

LEMMA InlinerHolds == InlinerSpec => []InlinerInv
<1>1. InlinerInit => InlinerInv
  BY InlinerStarts
<1>2. InlinerInv /\ [InlinerNext]_inlinerVars => InlinerInv'
  BY InlinerKeeps
<1> QED
  BY <1>1, <1>2, PTL DEF InlinerSpec

\* The types of the tool.
LEMMA InlinerTypes == InlinerSpec => []InlinerTypeOK
<1>1. InlinerInv => InlinerTypeOK
  BY DEF InlinerInv
<1> QED
  BY <1>1, InlinerHolds, PTL

\* Whatever site it is, wherever a run fails, and for whichever chain the tool is run
\* again, even one whose config was never saved: what is stored is linked to through a
\* saved config, no chain belongs to two pages or configs, and a run that ends normally
\* has stored every page that can be reached.
THEOREM LinksStayValid == InlinerSpec => []SiteIsSound
<1>1. InlinerInv => SiteIsSound
  <2> SUFFICES ASSUME InlinerInv PROVE SiteIsSound
    OBVIOUS
  <2>1. LinksResolve
    BY DEF InlinerInv, Resolve, ResolvesIn, LinksResolve
  <2>2. ChainsApart
    BY DEF InlinerInv, SavedApart, GivesChains, Disjoint, ChainsApart
  <2>3. DoneIsComplete
    <3> SUFFICES ASSUME step = "done"
                 PROVE  config_block \in Saved /\ SiteStored(stored[config_block])
      BY DEF DoneIsComplete
    <3>1. /\ config_block \in Saved /\ config = stored[config_block] /\ updated = Met
          /\ \A u \in Met : config[u] # NoChain
      BY DEF InlinerInv, Configures, Updates
    <3>2. \A u \in Urls : config[u] # NoChain => u \in Met
      BY AllMet DEF InlinerInv, SavedApart, GivesChains
    <3>3. \A u \in Met : Links[u] \subseteq Met
      BY DEF InlinerInv, InlinerTypeOK, Fetches, Met
    <3>4. Base \in Met
      BY DEF InlinerInv, Fetches
    <3>5. \A u \in Met : /\ chains[config[u]].page = u
                         /\ chains[config[u]].links = {config[v] : v \in Links[u]}
      BY <3>1 DEF InlinerInv, Updates
    <3> QED
      BY <3>1, <3>2, <3>3, <3>4, <3>5 DEF SiteStored
  <2> QED
    BY <2>1, <2>2, <2>3 DEF SiteIsSound
<1> QED
  BY <1>1, InlinerHolds, PTL

\* A page that was given a chain keeps it in all runs of the tool: a link to it from
\* elsewhere stays valid.
THEOREM PagesKeepChains == InlinerSpec => ChainsAreKept
<1> DEFINE Kept == \A c \in Saved : \A u \in Urls :
                      stored[c][u] # NoChain => stored'[c][u] = stored[c][u]
<1>1. InlinerInv /\ [InlinerNext]_inlinerVars => [Kept]_inlinerVars
  <2> SUFFICES ASSUME InlinerInv, InlinerNext PROVE Kept
    OBVIOUS
  <2>1. CASE SaveConfig
    BY <2>1, SaveConfigKeeps DEF Extends
  <2>2. CASE stored' = stored
    BY <2>2
  <2> QED
    BY <2>1, <2>2 DEF InlinerNext, CreateConfig, GetConfig, PagesFetched, AllUpdated, Fails,
                      Rerun, PageArrives, CreateSkipChain, UpdatePage
<1>2. InlinerSpec => [][Kept]_inlinerVars
  <2> HIDE DEF Kept
  <2> QED
    BY <1>1, InlinerHolds, PTL DEF InlinerSpec
<1> QED
  BY <1>2 DEF ChainsAreKept

-----------------------------------------------------------------------------
(* The random numbers.                                                     *)

ModuleStates == [counter : Nat, timer : BOOLEAN, error : BOOLEAN, random : BOOLEAN]

RandomTypes ==
    /\ module \in Seq(ModuleStates)
    /\ random_socket.waiting \in Seq(1..Len(module))
    /\ DOMAIN random_socket = {"to", "ready", "sent", "waiting"}
    /\ random_socket.ready = "closed" => random_socket.waiting = <<>>

\* A module that waits for a number is once among those that wait, and has neither a timer
\* nor an error; one with an error has no timer.
RandomInv ==
    /\ RandomTypes
    /\ \A i, j \in 1..Len(random_socket.waiting) :
          random_socket.waiting[i] = random_socket.waiting[j] => i = j
    /\ \A i \in 1..Len(random_socket.waiting) :
          ~module[random_socket.waiting[i]].timer /\ ~module[random_socket.waiting[i]].error
    /\ \A m \in 1..Len(module) : module[m].error => ~module[m].timer

\* What the timer, an answer and an error make of a module.
Ticked(s, c, t) == [s EXCEPT !.counter = c, !.timer = t]
Told(s)         == [s EXCEPT !.counter = 0, !.timer = TRUE, !.random = TRUE]
Ended(s)        == [s EXCEPT !.error = TRUE]

LEMMA TickedModule ==
    ASSUME NEW s \in ModuleStates, NEW c \in Nat, NEW t \in BOOLEAN
    PROVE  Ticked(s, c, t) \in ModuleStates /\ Ticked(s, c, t).timer = t
           /\ Ticked(s, c, t).error = s.error
  BY DEF ModuleStates, Ticked

LEMMA ToldModule ==
    ASSUME NEW s \in ModuleStates
    PROVE  Told(s) \in ModuleStates /\ Told(s).timer = TRUE /\ Told(s).error = s.error
  BY DEF ModuleStates, Told

LEMMA EndedModule ==
    ASSUME NEW s \in ModuleStates
    PROVE  Ended(s) \in ModuleStates /\ Ended(s).timer = s.timer /\ Ended(s).error = TRUE
  BY DEF ModuleStates, Ended

\* A request adds its module to those that wait.
LEMMA GetRandomAdds ==
    ASSUME RandomTypes, NEW m \in Nat
    PROVE  /\ GetRandom(random_socket, m).waiting = Append(random_socket.waiting, m)
           /\ GetRandom(random_socket, m).ready # "closed"
           /\ DOMAIN GetRandom(random_socket, m) = {"to", "ready", "sent", "waiting"}
<1> DEFINE used == IF random_socket.ready = "closed"
                   THEN [NoSocket EXCEPT !.to = RandomServer, !.ready = "connecting"]
                   ELSE random_socket
           made == CreateSocket(random_socket, RandomServer, "random", m)
<1>1. /\ used.waiting = random_socket.waiting /\ used.ready # "closed"
      /\ DOMAIN used = {"to", "ready", "sent", "waiting"}
  BY DEF RandomTypes, NoSocket
<1>2. made = [used EXCEPT !.waiting = Append(@, m),
                          !.sent = IF used.ready = "closing" THEN @ ELSE Append(@, "random")]
  BY DEF CreateSocket
<1> HIDE DEF used
<1>3. /\ made.waiting = Append(random_socket.waiting, m) /\ made.ready # "closed"
      /\ DOMAIN made = {"to", "ready", "sent", "waiting"}
  BY <1>1, <1>2
<1>4. GetRandom(random_socket, m) =
        [made EXCEPT !.sent = SubSeq(@, 1, IF Len(@) < MaxMounts THEN Len(@) ELSE MaxMounts)]
  BY DEF GetRandom
<1> HIDE DEF made
<1> QED
  BY <1>3, <1>4

LEMMA MountKeeps ==
    ASSUME RandomInv, MountRandom
    PROVE  RandomInv'
<1> DEFINE m == Len(module) + 1
           w == random_socket.waiting
<1>1. module' = Append(module, Unborn) /\ random_socket' = GetRandom(random_socket, m)
  BY DEF MountRandom
<1>2. module \in Seq(ModuleStates) /\ w \in Seq(1..Len(module)) /\ Unborn \in ModuleStates /\ m \in Nat
  BY DEF RandomInv, RandomTypes, Unborn, ModuleStates
<1>3. /\ module' \in Seq(ModuleStates) /\ Len(module') = m /\ module'[m] = Unborn
      /\ \A n \in 1..Len(module) : module'[n] = module[n]
  <2> QED
    BY <1>1, <1>2, AppendProperties
<1>4. /\ random_socket'.waiting = Append(w, m) /\ random_socket'.ready # "closed"
      /\ DOMAIN random_socket' = {"to", "ready", "sent", "waiting"}
  BY <1>1, <1>2, GetRandomAdds DEF RandomInv
<1>5. w \in Seq(1..m) /\ m \in 1..m
  BY <1>2
<1> DEFINE v == Append(w, m)
<1>6. v \in Seq(1..m) /\ Len(v) = Len(w) + 1 /\ v[Len(w) + 1] = m /\ \A i \in 1..Len(w) : v[i] = w[i]
  BY <1>5, AppendProperties
<1>7. \A i \in 1..Len(w) : w[i] \in 1..Len(module) /\ w[i] # m
  BY <1>2
<1>8. /\ \A i, j \in 1..Len(w) : w[i] = w[j] => i = j
      /\ \A i \in 1..Len(w) : ~module[w[i]].timer /\ ~module[w[i]].error
      /\ \A n \in 1..Len(module) : module[n].error => ~module[n].timer
  BY DEF RandomInv
<1>9. ~Unborn.timer /\ ~Unborn.error
  BY DEF Unborn
<1>10. Len(w) \in Nat /\ Len(module) \in Nat
  BY <1>2
<1> HIDE DEF v, w
<1>11. RandomTypes'
  BY <1>3, <1>4, <1>6 DEF RandomTypes, v
<1>12. \A i, j \in 1..Len(v) : v[i] = v[j] => i = j
  <2> SUFFICES ASSUME NEW i \in 1..Len(v), NEW j \in 1..Len(v), v[i] = v[j] PROVE i = j
    OBVIOUS
  <2>1. (i \in 1..Len(w) \/ i = Len(w) + 1) /\ (j \in 1..Len(w) \/ j = Len(w) + 1)
    BY <1>6, <1>10
  <2> QED
    BY <1>6, <1>7, <1>8, <2>1
<1>13. \A i \in 1..Len(v) : ~module'[v[i]].timer /\ ~module'[v[i]].error
  <2> SUFFICES ASSUME NEW i \in 1..Len(v) PROVE ~module'[v[i]].timer /\ ~module'[v[i]].error
    OBVIOUS
  <2>1. i \in 1..Len(w) \/ i = Len(w) + 1
    BY <1>6, <1>10
  <2>2. CASE i \in 1..Len(w)
    <3>1. v[i] = w[i] /\ w[i] \in 1..Len(module)
      BY <1>6, <1>7, <2>2
    <3>2. module'[v[i]] = module[w[i]]
      BY <1>3, <3>1
    <3> QED
      BY <1>8, <2>2, <3>2
  <2>3. CASE i = Len(w) + 1
    <3>1. module'[v[i]] = Unborn
      BY <1>3, <1>6, <2>3
    <3> QED
      BY <1>9, <3>1
  <2> QED
    BY <2>1, <2>2, <2>3
<1>14. \A n \in 1..Len(module') : module'[n].error => ~module'[n].timer
  BY <1>3, <1>8, <1>9, <1>10
<1> QED
  BY <1>4, <1>11, <1>12, <1>13, <1>14 DEF RandomInv, v

LEMMA CountDownKeeps ==
    ASSUME RandomInv, NEW m \in DOMAIN module, CheckCountDown(m)
    PROVE  RandomInv'
<1> DEFINE w == random_socket.waiting
           counter == module[m].counter + 1
<1>1. /\ module[m].timer
      /\ module' = [module EXCEPT ![m].counter = counter, ![m].timer = (counter < Interval)]
      /\ random_socket' = IF counter < Interval THEN random_socket
                          ELSE GetRandom(random_socket, m)
  BY DEF CheckCountDown
<1>2. module \in Seq(ModuleStates) /\ w \in Seq(1..Len(module)) /\ m \in 1..Len(module)
  BY DEF RandomInv, RandomTypes
<1>3. counter \in Nat /\ (counter < Interval) \in BOOLEAN /\ ~module[m].error
  <2>1. module[m] \in ModuleStates
    BY <1>2
  <2>2. module[m].counter \in Nat
    BY <2>1 DEF ModuleStates
  <2>3. ~module[m].error
    BY <1>1, <1>2 DEF RandomInv
  <2> QED
    BY <2>2, <2>3
<1> DEFINE ticked == [module[m] EXCEPT !.counter = counter, !.timer = (counter < Interval)]
<1>4. /\ ticked \in ModuleStates /\ ticked.timer = (counter < Interval) /\ ~ticked.error
      /\ module' = [module EXCEPT ![m] = ticked]
  <2> DEFINE full == counter < Interval
  <2>1. module[m] \in ModuleStates
    BY <1>2
  <2>2. counter \in Nat /\ full \in BOOLEAN
    BY <1>3
  <2>3. module' = [module EXCEPT ![m].counter = counter, ![m].timer = full]
    BY <1>1
  <2> HIDE DEF counter, full
  <2>4. ticked = Ticked(module[m], counter, full)
    BY DEF Ticked, full
  <2>5. module' = [module EXCEPT ![m] = Ticked(module[m], counter, full)]
    BY <1>2, <2>3, Zenon DEF Ticked
  <2> HIDE DEF ticked
  <2> QED
    BY <1>3, <2>1, <2>2, <2>4, <2>5, TickedModule DEF full
<1> HIDE DEF ticked, counter
<1>5. /\ module' \in Seq(ModuleStates) /\ Len(module') = Len(module)
      /\ \A n \in 1..Len(module) : module'[n] = IF n = m THEN ticked ELSE module[n]
  BY <1>2, <1>4, ExceptSeq
<1>6. /\ \A i, j \in 1..Len(w) : w[i] = w[j] => i = j
      /\ \A i \in 1..Len(w) : ~module[w[i]].timer /\ ~module[w[i]].error
      /\ \A n \in 1..Len(module) : module[n].error => ~module[n].timer
  BY DEF RandomInv
<1>7. Len(w) \in Nat /\ Len(module) \in Nat /\ \A i \in 1..Len(w) : w[i] \in 1..Len(module) /\ w[i] # m
  BY <1>1, <1>2, <1>6
<1>8. \A n \in 1..Len(module) : module'[n].error => ~module'[n].timer
  BY <1>4, <1>5, <1>6
<1>9. CASE counter < Interval
  <2>1. random_socket' = random_socket
    BY <1>1, <1>9
  <2>2. RandomTypes'
    BY <1>5, <2>1 DEF RandomInv, RandomTypes
  <2>3. \A i \in 1..Len(w) : ~module'[w[i]].timer /\ ~module'[w[i]].error
    BY <1>5, <1>6, <1>7
  <2> QED
    BY <1>5, <1>6, <1>8, <2>1, <2>2, <2>3 DEF RandomInv
<1>10. CASE ~(counter < Interval)
  <2> DEFINE v == Append(w, m)
  <2>1. /\ random_socket'.waiting = v /\ random_socket'.ready # "closed"
        /\ DOMAIN random_socket' = {"to", "ready", "sent", "waiting"}
    BY <1>1, <1>2, <1>10, GetRandomAdds DEF RandomInv
  <2>2. /\ v \in Seq(1..Len(module)) /\ Len(v) = Len(w) + 1 /\ v[Len(w) + 1] = m
        /\ \A i \in 1..Len(w) : v[i] = w[i]
    BY <1>2, AppendProperties
  <2> HIDE DEF v, w
  <2>3. RandomTypes'
    BY <1>5, <2>1, <2>2 DEF RandomTypes
  <2>4. \A i, j \in 1..Len(v) : v[i] = v[j] => i = j
    BY <1>6, <1>7, <2>2
  <2>5. \A i \in 1..Len(v) : ~module'[v[i]].timer /\ ~module'[v[i]].error
    <3> SUFFICES ASSUME NEW i \in 1..Len(v) PROVE ~module'[v[i]].timer /\ ~module'[v[i]].error
      OBVIOUS
    <3>1. i \in 1..Len(w) \/ i = Len(w) + 1
      BY <1>7, <2>2
    <3>2. CASE i \in 1..Len(w)
      BY <1>5, <1>6, <1>7, <2>2, <3>2
    <3>3. CASE i = Len(w) + 1
      BY <1>2, <1>4, <1>5, <1>10, <2>2, <3>3
    <3> QED
      BY <3>1, <3>2, <3>3
  <2> QED
    BY <1>5, <1>8, <2>1, <2>3, <2>4, <2>5 DEF RandomInv
<1> QED
  BY <1>9, <1>10

LEMMA RandomEventKeeps ==
    ASSUME RandomInv, RandomEvent
    PROVE  RandomInv'
<1> DEFINE w == random_socket.waiting
           W == ToSet(w)
<1>1. module \in Seq(ModuleStates) /\ w \in Seq(1..Len(module)) /\ <<>> \in Seq(1..Len(module))
  BY DEF RandomInv, RandomTypes
<1>2. W = {w[i] : i \in 1..Len(w)}
  <2>1. DOMAIN w = 1..Len(w)
    BY <1>1
  <2> HIDE DEF w
  <2> QED
    BY <2>1 DEF ToSet
<1>3. /\ \A n \in W : ~module[n].timer /\ ~module[n].error
      /\ \A n \in 1..Len(module) : module[n].error => ~module[n].timer
  BY <1>2 DEF RandomInv
<1>4. CASE RandomOpens
  <2>1. /\ module' = module /\ random_socket'.waiting = w /\ random_socket'.ready = "open"
        /\ DOMAIN random_socket' = {"to", "ready", "sent", "waiting"}
    BY <1>4 DEF RandomOpens, Opened, RandomInv, RandomTypes
  <2> QED
    BY <2>1 DEF RandomInv, RandomTypes
<1>5. CASE RandomAnswers
  <2> DEFINE next == [n \in DOMAIN module |->
                        IF n \in W
                        THEN Told(module[n])
                        ELSE module[n]]
  <2>1. /\ module' = next /\ random_socket'.waiting = <<>>
        /\ DOMAIN random_socket' = {"to", "ready", "sent", "waiting"}
    BY <1>5 DEF RandomAnswers, Answered, Told, RandomInv, RandomTypes
  <2> HIDE DEF W
  <2>2. \A n \in 1..Len(module) :
           next[n] \in ModuleStates /\ (next[n].error => ~next[n].timer)
    <3> SUFFICES ASSUME NEW n \in 1..Len(module)
                 PROVE  next[n] \in ModuleStates /\ (next[n].error => ~next[n].timer)
      OBVIOUS
    <3>1. module[n] \in ModuleStates /\ DOMAIN module = 1..Len(module)
      BY <1>1
    <3>2. (module[n].error => ~module[n].timer) /\ (n \in W => ~module[n].timer /\ ~module[n].error)
      BY <1>3
    <3> QED
      BY <3>1, <3>2, ToldModule
  <2>3. next \in Seq(ModuleStates) /\ Len(next) = Len(module)
    <3>1. DOMAIN next = 1..Len(module) /\ Len(module) \in Nat
      BY <1>1
    <3> HIDE DEF next
    <3>2. next \in [1..Len(module) -> ModuleStates]
      <4>1. next = [n \in DOMAIN next |-> next[n]]
        BY DEF next
      <4> QED
        BY <2>2, <3>1, <4>1
    <3> QED
      BY <3>1, <3>2
  <2> HIDE DEF next
  <2> QED
    BY <1>1, <2>1, <2>2, <2>3 DEF RandomInv, RandomTypes
<1>6. CASE RandomFails
  <2> DEFINE next == [n \in DOMAIN module |->
                        IF n \in W THEN Ended(module[n]) ELSE module[n]]
  <2>1. /\ module' = next /\ random_socket'.waiting = <<>>
        /\ DOMAIN random_socket' = {"to", "ready", "sent", "waiting"}
    BY <1>6 DEF RandomFails, Closed, Ended, RandomInv, RandomTypes
  <2> HIDE DEF W
  <2>2. \A n \in 1..Len(module) :
           next[n] \in ModuleStates /\ (next[n].error => ~next[n].timer)
    <3> SUFFICES ASSUME NEW n \in 1..Len(module)
                 PROVE  next[n] \in ModuleStates /\ (next[n].error => ~next[n].timer)
      OBVIOUS
    <3>1. module[n] \in ModuleStates /\ DOMAIN module = 1..Len(module)
      BY <1>1
    <3>2. (module[n].error => ~module[n].timer) /\ (n \in W => ~module[n].timer /\ ~module[n].error)
      BY <1>3
    <3> QED
      BY <3>1, <3>2, EndedModule
  <2>3. next \in Seq(ModuleStates) /\ Len(next) = Len(module)
    <3>1. DOMAIN next = 1..Len(module) /\ Len(module) \in Nat
      BY <1>1
    <3> HIDE DEF next
    <3>2. next \in [1..Len(module) -> ModuleStates]
      <4>1. next = [n \in DOMAIN next |-> next[n]]
        BY DEF next
      <4> QED
        BY <2>2, <3>1, <4>1
    <3> QED
      BY <3>1, <3>2
  <2> HIDE DEF next
  <2> QED
    BY <1>1, <2>1, <2>2, <2>3 DEF RandomInv, RandomTypes
<1>7. CASE RandomCloses
  <2>1. CASE random_socket' = Closing(random_socket)
    <3>1. /\ module' = module /\ random_socket'.waiting = w /\ random_socket'.ready = "closing"
          /\ DOMAIN random_socket' = {"to", "ready", "sent", "waiting"}
      BY <1>7, <2>1 DEF RandomCloses, Closing, RandomInv, RandomTypes
    <3> QED
      BY <3>1 DEF RandomInv, RandomTypes
  <2>2. CASE random_socket' = Closed(random_socket)
    <3>1. /\ module' = module /\ random_socket'.waiting = <<>>
          /\ DOMAIN random_socket' = {"to", "ready", "sent", "waiting"}
      BY <1>7, <2>2 DEF RandomCloses, Closed, RandomInv, RandomTypes
    <3> QED
      BY <1>1, <3>1 DEF RandomInv, RandomTypes
  <2> QED
    BY <1>7, <2>1, <2>2 DEF RandomCloses
<1> QED
  BY <1>4, <1>5, <1>6, <1>7 DEF RandomEvent

\* The sockets of random numbers for n modules.
RandomSockets(n) == Sockets({RandomServer}, {"random"}, 1..n)

\* What makes a socket one of them.
LEMMA IsRandomSocket ==
    ASSUME NEW n \in Nat, NEW s
    PROVE  s \in RandomSockets(n) <=>
               /\ s \in [to : {RandomServer, NoServer}, ready : ReadyStates,
                         sent : Seq({"random"}), waiting : Seq(1..n)]
               /\ s.ready = "closed" => s.sent = <<>> /\ s.waiting = <<>>
  BY DEF RandomSockets, Sockets

\* A socket, by its parts.
SocketOf(to, ready, sent, waiting) ==
    [to |-> to, ready |-> ready, sent |-> sent, waiting |-> waiting]

LEMMA MakesSocket ==
    ASSUME NEW n \in Nat, NEW to \in {RandomServer, NoServer}, NEW ready \in ReadyStates,
           NEW sent \in Seq({"random"}), NEW waiting \in Seq(1..n),
           ready = "closed" => sent = <<>> /\ waiting = <<>>
    PROVE  SocketOf(to, ready, sent, waiting) \in RandomSockets(n)
<1> DEFINE s == SocketOf(to, ready, sent, waiting)
<1>1. /\ s \in [to : {RandomServer, NoServer}, ready : ReadyStates, sent : Seq({"random"}),
                waiting : Seq(1..n)]
      /\ s.ready = ready /\ s.sent = sent /\ s.waiting = waiting
  BY DEF SocketOf
<1> HIDE DEF s
<1> QED
  BY <1>1, IsRandomSocket DEF s

\* A request on behalf of module m.
LEMMA GetRandomTyped ==
    ASSUME NEW n \in Nat, NEW k \in Nat, n <= k, NEW m \in 1..k, NEW socket \in RandomSockets(n)
    PROVE  GetRandom(socket, m) \in RandomSockets(k)
<1> DEFINE used == IF socket.ready = "closed"
                   THEN [NoSocket EXCEPT !.to = RandomServer, !.ready = "connecting"] ELSE socket
           sent == IF used.ready = "closing" THEN used.sent ELSE Append(used.sent, "random")
           l == IF Len(sent) < MaxMounts THEN Len(sent) ELSE MaxMounts
           cut == SubSeq(sent, 1, l)
           waits == Append(used.waiting, m)
<1>1. used \in [to : {RandomServer, NoServer}, ready : ReadyStates \ {"closed"},
                sent : Seq({"random"}), waiting : Seq(1..n)]
  <2>1. CASE socket.ready = "closed"
    <3> DEFINE none == <<>>
    <3>1. none \in Seq({"random"}) /\ none \in Seq(1..n)
      OBVIOUS
    <3>2. NoSocket = SocketOf(NoServer, "closed", none, none)
      BY DEF NoSocket, SocketOf
    <3> HIDE DEF none
    <3>3. used = SocketOf(RandomServer, "connecting", none, none)
      BY <2>1, <3>2 DEF SocketOf
    <3> HIDE DEF used
    <3> QED
      BY <3>1, <3>3 DEF SocketOf, ReadyStates
  <2>2. CASE socket.ready # "closed"
    <3>1. used = socket
      BY <2>2
    <3>2. socket \in [to : {RandomServer, NoServer}, ready : ReadyStates, sent : Seq({"random"}),
                      waiting : Seq(1..n)]
      BY IsRandomSocket
    <3> QED
      BY <2>2, <3>1, <3>2
  <2> QED
    BY <2>1, <2>2
<1>2. CreateSocket(socket, RandomServer, "random", m) =
          [used EXCEPT !.waiting = Append(@, m),
                       !.sent = IF used.ready = "closing" THEN @ ELSE Append(@, "random")]
  BY DEF CreateSocket
<1> HIDE DEF used
<1>3. used.to \in {RandomServer, NoServer} /\ used.ready \in ReadyStates /\ used.ready # "closed"
      /\ used.sent \in Seq({"random"}) /\ used.waiting \in Seq(1..n)
  BY <1>1
<1>4. sent \in Seq({"random"})
  BY <1>3
<1>5. used.waiting \in Seq(1..k)
  <2>1. used.waiting \in [1..Len(used.waiting) -> 1..n] /\ Len(used.waiting) \in Nat
    BY <1>3
  <2>2. \A i \in 1..Len(used.waiting) : used.waiting[i] \in 1..k
    BY <2>1
  <2> QED
    BY <2>1, <2>2
<1>6. waits \in Seq(1..k)
  BY <1>5
<1>7. cut \in Seq({"random"})
  <2>1. Len(sent) \in Nat /\ MaxMounts \in Nat
    BY <1>4, RandomAssumption
  <2>2. l \in 0..Len(sent)
    BY <2>1
  <2> HIDE DEF l, sent
  <2> QED
    BY <1>4, <2>2
<1>8. CreateSocket(socket, RandomServer, "random", m) = SocketOf(used.to, used.ready, sent, waits)
  <2>1. CreateSocket(socket, RandomServer, "random", m) =
            [used EXCEPT !.waiting = waits, !.sent = sent]
    BY <1>1, <1>2
  <2> HIDE DEF sent, waits
  <2> DEFINE a == [used EXCEPT !.waiting = waits]
  <2>2. /\ a.to = used.to /\ a.ready = used.ready /\ a.sent = used.sent /\ a.waiting = waits
        /\ DOMAIN a = {"to", "ready", "sent", "waiting"} /\ a = [i \in DOMAIN a |-> a[i]]
    BY <1>1
  <2>3. CreateSocket(socket, RandomServer, "random", m) = [a EXCEPT !.sent = sent]
    BY <2>1
  <2> HIDE DEF a
  <2>4. [a EXCEPT !.sent = sent] = SocketOf(used.to, used.ready, sent, waits)
    BY <2>2 DEF SocketOf
  <2> QED
    BY <2>3, <2>4
<1>9. GetRandom(socket, m) = SocketOf(used.to, used.ready, cut, waits)
  <2> DEFINE a == SocketOf(used.to, used.ready, sent, waits)
  <2>1. GetRandom(socket, m) =
            [a EXCEPT !.sent = SubSeq(@, 1, IF Len(@) < MaxMounts THEN Len(@) ELSE MaxMounts)]
    BY <1>8 DEF GetRandom
  <2> HIDE DEF sent, waits
  <2>2. a.sent = sent
    BY DEF SocketOf
  <2>3. GetRandom(socket, m) = [a EXCEPT !.sent = cut]
    BY <2>1, <2>2
  <2> HIDE DEF cut
  <2>4. [a EXCEPT !.sent = cut] = SocketOf(used.to, used.ready, cut, waits)
    BY DEF SocketOf
  <2> QED
    BY <2>3, <2>4
<1> HIDE DEF cut, waits
<1> QED
  BY <1>3, <1>6, <1>7, <1>9, MakesSocket

\* What the browser does to the socket.
LEMMA RandomSocketEvents ==
    ASSUME NEW n \in Nat, NEW s \in RandomSockets(n)
    PROVE  /\ s.ready # "closed" => Opened(s) \in RandomSockets(n) /\ Closing(s) \in RandomSockets(n)
           /\ s.sent # <<>> => Answered(s) \in RandomSockets(n)
           /\ Closed(s) \in RandomSockets(n)
<1>1. /\ s \in [to : {RandomServer, NoServer}, ready : ReadyStates, sent : Seq({"random"}),
                waiting : Seq(1..n)]
      /\ s.ready = "closed" => s.sent = <<>> /\ s.waiting = <<>>
  BY IsRandomSocket
<1>2. ASSUME s.ready # "closed"
      PROVE  Opened(s) \in RandomSockets(n) /\ Closing(s) \in RandomSockets(n)
  BY <1>1, <1>2, IsRandomSocket DEF Opened, Closing, ReadyStates
<1> DEFINE none == <<>>
           tail == Tail(s.sent)
<1>3. none \in Seq(1..n) /\ none \in Seq({"random"})
  OBVIOUS
<1>4. ASSUME s.sent # none PROVE Answered(s) \in RandomSockets(n)
  <2>1. tail \in Seq({"random"}) /\ s.ready # "closed"
    BY <1>1, <1>4
  <2>2. Answered(s) = [s EXCEPT !.sent = tail, !.waiting = none]
    BY <1>1 DEF Answered
  <2> HIDE DEF none, tail
  <2>3. Answered(s) = SocketOf(s.to, s.ready, tail, none)
    BY <1>1, <2>2 DEF SocketOf
  <2>4. s.to \in {RandomServer, NoServer} /\ s.ready \in ReadyStates
    BY <1>1
  <2> QED
    BY <1>3, <2>1, <2>3, <2>4, MakesSocket
<1>5. Closed(s) \in RandomSockets(n)
  <2>1. Closed(s) = [s EXCEPT !.ready = "closed", !.sent = none, !.waiting = none]
    BY DEF Closed
  <2>2. none = <<>>
    OBVIOUS
  <2> HIDE DEF none
  <2>3. Closed(s) = SocketOf(s.to, "closed", none, none)
    BY <1>1, <2>1 DEF SocketOf
  <2>4. s.to \in {RandomServer, NoServer} /\ "closed" \in ReadyStates
    BY <1>1 DEF ReadyStates
  <2> QED
    BY <1>3, <2>2, <2>3, <2>4, MakesSocket
<1> QED
  BY <1>2, <1>4, <1>5

\* The bar of a module whose timer runs is not full.
BarOK(s) == s \in Modules /\ (s.timer => s.counter < Interval)

RandomTypeInv ==
    /\ randomEnv \in RandomEnvs /\ module \in Seq(Modules) /\ current \in 0..Len(module)
    /\ \A m \in 1..Len(module) : BarOK(module[m])
    /\ random_socket \in RandomSockets(Len(module))

\* When modules change and the socket does, the rest stays.
LEMMA SameModules ==
    ASSUME RandomTypeInv, UNCHANGED randomEnv, UNCHANGED current, DOMAIN module' = DOMAIN module,
           \A m \in 1..Len(module) : BarOK(module'[m]), module' = [m \in DOMAIN module |-> module'[m]],
           random_socket' \in RandomSockets(Len(module))
    PROVE  RandomTypeInv'
<1>1. Len(module) \in Nat /\ DOMAIN module = 1..Len(module)
  BY DEF RandomTypeInv
<1>2. \A m \in 1..Len(module) : module'[m] \in Modules
  BY DEF BarOK
<1>3. module' \in Seq(Modules) /\ Len(module') = Len(module)
  BY <1>1, <1>2
<1> QED
  BY <1>3 DEF RandomTypeInv

LEMMA RandomTypeKeeps ==
    ASSUME RandomTypeInv, [RandomNext]_randomVars
    PROVE  RandomTypeInv'
<1> DEFINE n == Len(module)
<1>1. n \in Nat /\ module \in Seq(Modules) /\ DOMAIN module = 1..n
  BY DEF RandomTypeInv
<1>2. Interval \in Nat /\ 0 < Interval /\ 0 \in 0..Interval
  BY RandomAssumption
<1>3. random_socket \in RandomSockets(n) /\ \A m \in 1..n : BarOK(module[m])
  BY DEF RandomTypeInv
<1>4. CASE MountRandom
  <2>1. /\ module' = Append(module, Unborn) /\ current' = n + 1 /\ randomEnv' = randomEnv
        /\ random_socket' = GetRandom(random_socket, n + 1)
    BY <1>4 DEF MountRandom
  <2>2. BarOK(Unborn)
    BY <1>2 DEF BarOK, Unborn, Modules
  <2>3. /\ module' \in Seq(Modules) /\ Len(module') = n + 1
        /\ \A m \in 1..(n + 1) : module'[m] = IF m = n + 1 THEN Unborn ELSE module[m]
    BY <1>1, <2>1, <2>2 DEF BarOK
  <2>4. random_socket' \in RandomSockets(n + 1)
    <3>1. n + 1 \in Nat /\ n <= n + 1 /\ n + 1 \in 1..(n + 1)
      BY <1>1
    <3> HIDE DEF n
    <3> QED
      BY <1>1, <1>3, <2>1, <3>1, GetRandomTyped
  <2>5. \A m \in 1..(n + 1) : BarOK(module'[m])
    BY <1>1, <1>3, <2>2, <2>3
  <2>6. current' \in 0..(n + 1)
    BY <1>1, <2>1
  <2> QED
    BY <2>1, <2>3, <2>4, <2>5, <2>6 DEF RandomTypeInv
<1>5. CASE UnmountRandom
  BY <1>1, <1>5 DEF UnmountRandom, RandomTypeInv
<1>6. CASE RandomEvent
  <2>1. UNCHANGED randomEnv /\ UNCHANGED current
    BY <1>6 DEF RandomEvent
  <2>2. random_socket' \in RandomSockets(n)
    <3>1. \/ random_socket.ready # "closed" /\ random_socket' \in {Opened(random_socket), Closing(random_socket)}
          \/ random_socket.sent # <<>> /\ random_socket' = Answered(random_socket)
          \/ random_socket' = Closed(random_socket)
      BY <1>6 DEF RandomEvent, RandomOpens, RandomAnswers, RandomFails, RandomCloses
    <3> HIDE DEF n
    <3> QED
      BY <1>1, <1>3, <3>1, RandomSocketEvents
  <2> DEFINE W == ToSet(random_socket.waiting)
             told == [m \in DOMAIN module |-> IF m \in W THEN Told(module[m]) ELSE module[m]]
             ended == [m \in DOMAIN module |-> IF m \in W THEN Ended(module[m]) ELSE module[m]]
  <2>3. module' = module \/ module' = told \/ module' = ended
    BY <1>6 DEF RandomEvent, RandomOpens, RandomAnswers, RandomFails, RandomCloses, Told, Ended
  <2> HIDE DEF W
  <2>4. \A m \in 1..n : BarOK(Told(module[m])) /\ BarOK(Ended(module[m]))
    BY <1>2, <1>3 DEF BarOK, Modules, Told, Ended
  <2>5. /\ DOMAIN module' = DOMAIN module
        /\ module' = [m \in DOMAIN module |-> module'[m]]
    BY <1>1, <2>3
  <2>6. \A m \in 1..n : BarOK(module'[m])
    BY <1>1, <1>3, <2>3, <2>4
  <2> QED
    BY <2>1, <2>2, <2>5, <2>6, SameModules
<1>7. ASSUME NEW m \in DOMAIN module, CheckCountDown(m) PROVE RandomTypeInv'
  <2> DEFINE c == module[m].counter + 1
             ticked == [module[m] EXCEPT !.counter = c, !.timer = (c < Interval)]
  <2>1. /\ module[m].timer /\ UNCHANGED randomEnv /\ UNCHANGED current
        /\ random_socket' = random_socket \/ random_socket' = GetRandom(random_socket, m)
        /\ module' = [module EXCEPT ![m].counter = c, ![m].timer = (c < Interval)]
    BY <1>7 DEF CheckCountDown
  <2>2. module[m] \in Modules /\ module[m].counter < Interval /\ m \in 1..n
    BY <1>1, <1>3, <2>1 DEF BarOK
  <2>3. c \in 0..Interval
    BY <1>2, <2>2 DEF Modules
  <2>4. (c < Interval) \in BOOLEAN
    OBVIOUS
  <2>5. module' = [module EXCEPT ![m] = ticked]
    BY <1>1, <2>1, <2>2
  <2>6. BarOK(ticked)
    <3> DEFINE b == c < Interval
    <3>1. b => c < Interval
      OBVIOUS
    <3> HIDE DEF b, c
    <3>2. [module[m] EXCEPT !.counter = c, !.timer = b] \in Modules
          /\ [module[m] EXCEPT !.counter = c, !.timer = b].timer = b
          /\ [module[m] EXCEPT !.counter = c, !.timer = b].counter = c
      BY <2>2, <2>3, <2>4 DEF Modules, b
    <3> QED
      BY <3>1, <3>2 DEF BarOK, b
  <2>7. random_socket' \in RandomSockets(n)
    <3>1. n <= n
      BY <1>1
    <3> HIDE DEF n
    <3> QED
      BY <1>1, <1>3, <2>1, <2>2, <3>1, GetRandomTyped
  <2> HIDE DEF ticked
  <2>8. \A k \in 1..n : BarOK(module'[k])
    BY <1>1, <1>3, <2>5, <2>6
  <2>9. DOMAIN module' = DOMAIN module /\ module' = [k \in DOMAIN module |-> module'[k]]
    BY <1>1, <2>5
  <2> QED
    BY <2>1, <2>7, <2>8, <2>9, SameModules
<1>8. CASE UNCHANGED randomVars
  BY <1>8 DEF randomVars, RandomTypeInv
<1> QED
  BY <1>4, <1>5, <1>6, <1>7, <1>8 DEF RandomNext

\* The types of the modules of random numbers and of their socket.
LEMMA RandomTypesHold == RandomSpec => []RandomTypeOK
<1>1. RandomInit => RandomTypeInv
  <2> SUFFICES ASSUME RandomInit PROVE RandomTypeInv
    OBVIOUS
  <2>1. module = <<>> /\ Len(module) = 0 /\ current = 0 /\ random_socket = NoSocket /\ randomEnv \in RandomEnvs
    BY DEF RandomInit
  <2> DEFINE none == <<>>
  <2>2. NoSocket \in RandomSockets(0)
    <3>1. none \in Seq(1..0) /\ none \in Seq({"random"}) /\ "closed" \in ReadyStates
      BY DEF ReadyStates
    <3>2. NoSocket = SocketOf(NoServer, "closed", none, none) /\ none = <<>> /\ 0 \in Nat
      BY DEF NoSocket, SocketOf
    <3> HIDE DEF none
    <3> QED
      BY <3>1, <3>2, MakesSocket
  <2> QED
    BY <2>1, <2>2 DEF RandomTypeInv
<1>2. RandomTypeInv /\ [RandomNext]_randomVars => RandomTypeInv'
  BY RandomTypeKeeps
<1>3. RandomTypeInv => RandomTypeOK
  BY DEF RandomTypeInv, RandomTypeOK, RandomSockets
<1> QED
  BY <1>1, <1>2, <1>3, PTL DEF RandomSpec

\* However many modules were mounted and left behind, and whichever of their timers,
\* requests and connections end in which order: each of them has one loop, which waits for
\* a number or for a timer, and for neither once an error ended it.
THEOREM OneLoop == RandomSpec => []OneLoopEach
<1>1. RandomInit => RandomInv
  <2>1. <<>> \in Seq(ModuleStates)
        /\ <<>> \in Seq(1..0) /\ Len(<<>>) = 0
    OBVIOUS
  <2>2. NoSocket.waiting = <<>> /\ DOMAIN NoSocket = {"to", "ready", "sent", "waiting"}
    BY DEF NoSocket
  <2> SUFFICES ASSUME RandomInit PROVE RandomInv
    OBVIOUS
  <2>3. module = <<>> /\ Len(module) = 0 /\ random_socket = NoSocket
    BY <2>1 DEF RandomInit
  <2>4. random_socket.waiting = <<>> /\ DOMAIN random_socket = {"to", "ready", "sent", "waiting"}
    BY <2>2, <2>3
  <2> QED
    BY <2>1, <2>3, <2>4 DEF RandomInv, RandomTypes
<1>2. RandomInv /\ [RandomNext]_randomVars => RandomInv'
  <2> SUFFICES ASSUME RandomInv, [RandomNext]_randomVars PROVE RandomInv'
    OBVIOUS
  <2>1. CASE UNCHANGED <<module, random_socket>>
    BY <2>1 DEF RandomInv, RandomTypes
  <2> QED
    BY <2>1, MountKeeps, CountDownKeeps, RandomEventKeeps
    DEF RandomNext, UnmountRandom, randomVars
<1>3. RandomInv => OneLoopEach
  <2> SUFFICES ASSUME RandomInv, NEW m \in DOMAIN module
               PROVE  LET requests == Cardinality({i \in DOMAIN random_socket.waiting :
                                                      random_socket.waiting[i] = m})
                      IN  /\ requests + (IF module[m].timer THEN 1 ELSE 0) <= 1
                          /\ module[m].error => requests = 0 /\ ~module[m].timer
    BY DEF OneLoopEach
  <2> DEFINE Mine == {i \in DOMAIN random_socket.waiting : random_socket.waiting[i] = m}
  <2>1. m \in 1..Len(module) /\ DOMAIN random_socket.waiting = 1..Len(random_socket.waiting)
    BY DEF RandomInv, RandomTypes
  <2>2. CASE Mine = {}
    <3>1. Cardinality(Mine) = 0
      BY <2>2, FS_EmptySet
    <3> HIDE DEF Mine
    <3>2. module[m].error => ~module[m].timer
      BY <2>1 DEF RandomInv
    <3> QED
      BY <3>1, <3>2 DEF Mine
  <2>3. CASE Mine # {}
    <3>1. PICK i \in Mine : Mine = {i}
      BY <2>1, <2>3 DEF RandomInv
    <3>2. Cardinality(Mine) = 1
      <4> HIDE DEF Mine
      <4> QED
        BY <3>1, FS_Singleton
    <3>3. ~module[m].timer /\ ~module[m].error
      BY <2>1, <3>1 DEF RandomInv
    <3> HIDE DEF Mine
    <3> QED
      BY <3>2, <3>3 DEF Mine
  <2> QED
    BY <2>2, <2>3
<1> QED
  BY <1>1, <1>2, <1>3, PTL DEF RandomSpec

-----------------------------------------------------------------------------
(* The sockets of the components.                                          *)

\* What happens to a socket leaves a socket.
LEMMA SocketSteps ==
    ASSUME NEW S, NEW M, NEW L, NEW socket \in Sockets(S, M, L)
    PROVE  /\ /\ Closed(socket) \in Sockets(S, M, L)
              /\ Closed(socket).sent = <<>> /\ Closed(socket).waiting = <<>>
           /\ socket.sent # <<>> =>
                 /\ Answered(socket) \in Sockets(S, M, L)
                 /\ Answered(socket).sent = Tail(socket.sent) /\ Answered(socket).waiting = <<>>
           /\ socket.ready # "closed" =>
                 /\ Opened(socket) \in Sockets(S, M, L)
                 /\ Opened(socket).sent = socket.sent /\ Opened(socket).waiting = socket.waiting
                 /\ Closing(socket) \in Sockets(S, M, L)
                 /\ Closing(socket).sent = socket.sent /\ Closing(socket).waiting = socket.waiting
<1> DEFINE T == [to : S \cup {NoServer}, ready : ReadyStates, sent : Seq(M), waiting : Seq(L)]
<1>1. /\ socket \in T
      /\ socket.ready = "closed" => socket.sent = <<>> /\ socket.waiting = <<>>
  BY DEF Sockets
<1>2. /\ <<>> \in Seq(M) /\ <<>> \in Seq(L) /\ socket.sent \in Seq(M)
      /\ socket.sent # <<>> => Tail(socket.sent) \in Seq(M)
      /\ {"open", "closing", "closed"} \subseteq ReadyStates
  BY <1>1 DEF ReadyStates
<1>3. /\ Closed(socket) \in T
      /\ Closed(socket).sent = <<>> /\ Closed(socket).waiting = <<>>
  BY <1>1, <1>2 DEF Closed
<1>4. ASSUME socket.sent # <<>>
      PROVE  /\ Answered(socket) \in T /\ Answered(socket).ready = socket.ready
             /\ Answered(socket).sent = Tail(socket.sent) /\ Answered(socket).waiting = <<>>
  BY <1>1, <1>2, <1>4 DEF Answered
<1>5. /\ Opened(socket) \in T /\ Opened(socket).ready = "open"
      /\ Opened(socket).sent = socket.sent /\ Opened(socket).waiting = socket.waiting
  BY <1>1, <1>2 DEF Opened
<1>6. /\ Closing(socket) \in T /\ Closing(socket).ready = "closing"
      /\ Closing(socket).sent = socket.sent /\ Closing(socket).waiting = socket.waiting
  BY <1>1, <1>2 DEF Closing
<1> QED
  BY <1>1, <1>3, <1>4, <1>5, <1>6 DEF Sockets

\* A request adds its listener, and its message unless the socket is closing.
LEMMA SocketUsed ==
    ASSUME NEW S, NEW M, NEW L, NEW socket \in Sockets(S, M, L), NEW s \in S, NEW m \in M, NEW l \in L
    PROVE  /\ CreateSocket(socket, s, m, l) \in Sockets(S, M, L)
           /\ CreateSocket(socket, s, m, l).waiting = Append(socket.waiting, l)
           /\ CreateSocket(socket, s, m, l).sent =
                IF socket.ready = "closing" THEN socket.sent ELSE Append(socket.sent, m)
           /\ CreateSocket(socket, s, m, l).ready # "closed"
<1> DEFINE T == [to : S \cup {NoServer}, ready : ReadyStates, sent : Seq(M), waiting : Seq(L)]
           fresh == [NoSocket EXCEPT !.to = s, !.ready = "connecting"]
           used == IF socket.ready = "closed" THEN fresh ELSE socket
           made == CreateSocket(socket, s, m, l)
<1>1. /\ socket \in T
      /\ socket.ready = "closed" => socket.sent = <<>> /\ socket.waiting = <<>>
  BY DEF Sockets
<1>2. NoSocket \in T
  BY DEF NoSocket, ReadyStates
<1>3. fresh \in T /\ fresh.sent = <<>> /\ fresh.waiting = <<>> /\ fresh.ready = "connecting"
  <2>1. "connecting" \in ReadyStates /\ NoSocket.sent = <<>> /\ NoSocket.waiting = <<>>
    BY DEF ReadyStates, NoSocket
  <2> QED
    BY <1>2, <2>1
<1> HIDE DEF fresh
<1>4. /\ used \in T /\ used.ready # "closed" /\ (used.ready = "closing" <=> socket.ready = "closing")
      /\ used.sent = socket.sent /\ used.waiting = socket.waiting
  BY <1>1, <1>3
<1> DEFINE sent == IF used.ready = "closing" THEN used.sent ELSE Append(used.sent, m)
           waiting == Append(used.waiting, l)
<1>5. sent \in Seq(M) /\ waiting \in Seq(L)
  <2>1. used.sent \in Seq(M) /\ used.waiting \in Seq(L)
    BY <1>4
  <2> QED
    BY <2>1
<1>6. made = [used EXCEPT !.waiting = waiting, !.sent = sent]
  BY DEF CreateSocket, fresh
<1> HIDE DEF used, made, sent, waiting
<1>7. made \in T /\ made.sent = sent /\ made.waiting = waiting /\ made.ready = used.ready
  BY <1>4, <1>5, <1>6
<1> QED
  BY <1>4, <1>7 DEF Sockets, sent, waiting, made

-----------------------------------------------------------------------------
(* The signature files.                                                    *)

\* An attempt asks more than two thirds of as many servers as its block has, and none
\* that it names as offline.
SoundAttempt(a) ==
    a \in Attempts /\ Enough(a.servers, a.block) /\ a.servers \cap a.offline = {}

Request(a) == [file |-> a.file, signers |-> a.servers]

\* A block is there only with the identifier of a chain, its own or another's.
AreaInv ==
    /\ SignTypeOK
    /\ file = None => area.block = None
    /\ area.block # None => area.genesisID # None
    /\ services.blocks # None \/ services.fetching # {} => services.curr_genesis # None

\* With a user who waits one attempt is under way, and an answer is the one to it.
AttemptsInv ==
    /\ \A a \in hashing : SoundAttempt(a)
    /\ \A i \in 1..Len(sign_socket.waiting) : SoundAttempt(sign_socket.waiting[i])
    /\ ~signEnv.hurried =>
          /\ \A a, b \in hashing : a = b
          /\ Len(sign_socket.waiting) <= 1
          /\ hashing = {} \/ sign_socket.waiting = <<>>
          /\ hashing # {} \/ sign_socket.waiting # <<>> => area.isSigning /\ file # None
          /\ sign_socket.sent # <<>> =>
                /\ sign_socket.waiting # <<>> /\ Len(sign_socket.sent) = 1
                /\ sign_socket.sent[1] = Request(sign_socket.waiting[1])

SignInv == AreaInv /\ AttemptsInv /\ SavedIsSound

ServiceStates ==
    [curr_genesis : Chains \cup {None}, blocks : Chains \cup {None}, error : BOOLEAN,
     fetching : SUBSET Chains, status : [Servers -> {"none", "online", "offline"}],
     asked : SUBSET Servers]
AreaStates ==
    [genesisID : Chains \cup {None}, block : Chains \cup {None},
     error : {"", "genesis", "servers", "oops"}, isSigning : BOOLEAN]
SignRequests == [file : Files, signers : SUBSET Servers]
SignSockets == Sockets(Servers, SignRequests, Attempts)

\* What is remembered of an attempt whose area is closed.
LEMMA Disowned ==
    ASSUME NEW a, SoundAttempt(a)
    PROVE  SoundAttempt(Disown(a)) /\ Request(Disown(a)) = Request(a) /\ Disown(a) \in Attempts
<1>1. a \in Attempts
  BY DEF SoundAttempt
<1>2. /\ Disown(a) \in Attempts
      /\ Disown(a).file = a.file /\ Disown(a).block = a.block /\ Disown(a).servers = a.servers
      /\ Disown(a).offline = a.offline
  BY <1>1 DEF Disown, Attempts
<1> QED
  BY <1>2 DEF SoundAttempt, Request

LEMMA DisownedAll ==
    ASSUME NEW w \in Seq(Attempts), \A i \in 1..Len(w) : SoundAttempt(w[i])
    PROVE  LET v == [i \in DOMAIN w |-> Disown(w[i])]
           IN  /\ v \in Seq(Attempts) /\ Len(v) = Len(w)
               /\ \A i \in 1..Len(v) : SoundAttempt(v[i]) /\ Request(v[i]) = Request(w[i])
<1> DEFINE v == [i \in DOMAIN w |-> Disown(w[i])]
<1>1. DOMAIN w = 1..Len(w) /\ Len(w) \in Nat
  OBVIOUS
<1>2. \A i \in 1..Len(w) : /\ v[i] \in Attempts /\ SoundAttempt(v[i])
                           /\ Request(v[i]) = Request(w[i])
  BY <1>1, Disowned
<1>3. v = [i \in 1..Len(w) |-> v[i]]
  BY <1>1
<1> HIDE DEF v
<1>4. v \in [1..Len(w) -> Attempts]
  BY <1>2, <1>3
<1>5. v \in Seq(Attempts) /\ Len(v) = Len(w)
  BY <1>1, <1>4
<1> QED
  BY <1>2, <1>5 DEF v

\* handleSign makes a sound attempt of what it reads.
LEMMA NewIsSound ==
    ASSUME AreaInv, file # None, area.block # None, Enough(With("online"), area.block)
    PROVE  SoundAttempt(NewAttempt)
<1>1. /\ area.block \in Chains /\ area.genesisID \in Chains /\ file \in Files
      /\ With("online") \in SUBSET Servers /\ With("offline") \in SUBSET Servers
  BY DEF AreaInv, SignTypeOK, With
<1>2. With("online") \cap With("offline") = {}
  BY DEF With
<1>3. NewAttempt = [file |-> file, genesisID |-> area.genesisID, block |-> area.block,
                    servers |-> With("online"), offline |-> With("offline"), own |-> TRUE]
  BY DEF NewAttempt
<1>4. /\ NewAttempt \in Attempts
      /\ NewAttempt.servers = With("online") /\ NewAttempt.offline = With("offline")
      /\ NewAttempt.block = area.block
  BY <1>1, <1>3 DEF Attempts
<1> QED
  BY <1>2, <1>4 DEF SoundAttempt

\* An attempt has a server to ask.
LEMMA HasServer ==
    ASSUME NEW a, SoundAttempt(a)
    PROVE  /\ (CHOOSE s \in a.servers : TRUE) \in Servers
           /\ Request(a) \in SignRequests
<1>1. a.block \in Chains /\ a.servers \in SUBSET Servers /\ a.file \in Files
  BY DEF SoundAttempt, Attempts
<1>2. Cardinality(Roster[a.block]) \in Nat
  BY <1>1, FileAssumption, FS_Subset, FS_CardinalityType
<1>3. a.servers # {}
  <2> SUFFICES ASSUME a.servers = {} PROVE FALSE
    OBVIOUS
  <2>1. Cardinality(a.servers) = 0
    BY FS_EmptySet
  <2> QED
    BY <1>2, <2>1 DEF SoundAttempt, Enough
<1> QED
  BY <1>1, <1>3 DEF Request, SignRequests

LEMMA SignTypes ==
    ASSUME AreaInv
    PROVE  /\ services \in ServiceStates /\ area \in AreaStates
           /\ file \in Files \cup {None} /\ sign_socket \in SignSockets
           /\ sign_socket.waiting \in Seq(Attempts) /\ sign_socket.sent \in Seq(SignRequests)
  BY DEF AreaInv, SignTypeOK, SignSockets, Sockets, SignRequests, ServiceStates, AreaStates

\* Steps of the services leave the attempts alone.
LEMMA ServicesKept ==
    ASSUME SignInv, UNCHANGED <<signEnv, file, hashing, sign_socket, saved>>,
           services' \in ServiceStates, area' \in AreaStates, area'.isSigning = area.isSigning,
           file = None => area'.block = None,
           area'.block # None => area'.genesisID # None,
           services'.blocks # None \/ services'.fetching # {} => services'.curr_genesis # None
    PROVE  SignInv'
<1>1. AreaInv /\ AttemptsInv
  BY DEF SignInv
<1>2. AreaInv'
  BY <1>1 DEF AreaInv, SignTypeOK, ServiceStates, AreaStates
<1>3. AttemptsInv'
  BY <1>1 DEF AttemptsInv
<1>4. SavedIsSound'
  BY DEF SignInv, SavedIsSound, Roundtrip, SignedByMost
<1> QED
  BY <1>2, <1>3, <1>4 DEF SignInv

LEMMA PickKeeps ==
    ASSUME SignInv, NEW c \in Chains, Pick(c)
    PROVE  SignInv'
<1>1. /\ UNCHANGED <<signEnv, file, area, hashing, sign_socket, saved>>
      /\ services' = [services EXCEPT !.curr_genesis = c, !.fetching = @ \cup {c}]
  BY DEF Pick
<1>2. AreaInv /\ services \in ServiceStates /\ area \in AreaStates
  BY SignTypes DEF SignInv
<1>3. services' \in ServiceStates /\ services'.curr_genesis = c /\ c # None
  BY <1>1, <1>2, FileAssumption DEF ServiceStates
<1> QED
  BY <1>1, <1>2, <1>3, ServicesKept DEF AreaInv

LEMMA UpdateKeeps ==
    ASSUME SignInv, NEW c \in Chains, GenesisUpdates(c)
    PROVE  SignInv'
<1>1. /\ UNCHANGED <<signEnv, file, hashing, sign_socket, saved>>
      /\ c \in services.fetching
      /\ services' = [services EXCEPT !.blocks = c, !.fetching = @ \ {c},
                                      !.status = NoStatuses, !.asked = @ \cup Roster[c]]
      /\ area' = IF file = None THEN area
                 ELSE [area EXCEPT !.genesisID = services.curr_genesis, !.block = c]
  BY DEF GenesisUpdates
<1>2. AreaInv /\ services \in ServiceStates /\ area \in AreaStates
  BY SignTypes DEF SignInv
<1>3. /\ NoStatuses \in [Servers -> {"none", "online", "offline"}]
      /\ Roster[c] \in SUBSET Servers /\ services.curr_genesis # None
      /\ services.curr_genesis \in Chains \cup {None}
  BY <1>1, <1>2, FileAssumption DEF NoStatuses, AreaInv, ServiceStates
<1> HIDE DEF NoStatuses
<1> DEFINE asked == services.asked \cup Roster[c]
           fetching == services.fetching \ {c}
<1>4. asked \in SUBSET Servers /\ fetching \in SUBSET Chains
  BY <1>2, <1>3 DEF ServiceStates
<1>5. services' = [services EXCEPT !.blocks = c, !.fetching = fetching,
                                   !.status = NoStatuses, !.asked = asked]
  BY <1>1
<1> HIDE DEF asked, fetching
<1>6. services' \in ServiceStates /\ services'.curr_genesis = services.curr_genesis
  BY <1>2, <1>3, <1>4, <1>5 DEF ServiceStates
<1>7. /\ area' \in AreaStates /\ area'.isSigning = area.isSigning
      /\ file = None => area' = area
      /\ file # None => area'.genesisID = services.curr_genesis
  BY <1>1, <1>2, <1>3 DEF AreaStates
<1> QED
  BY <1>1, <1>2, <1>3, <1>6, <1>7, ServicesKept DEF AreaInv

LEMMA FailureKeeps ==
    ASSUME SignInv, GenesisFails
    PROVE  SignInv'
<1>1. UNCHANGED <<signEnv, file, hashing, sign_socket, saved>>
  BY DEF GenesisFails
<1>2. AreaInv /\ services \in ServiceStates /\ area \in AreaStates
  BY SignTypes DEF SignInv
<1>3. \E chains_ \in SUBSET services.fetching :
         services' = [services EXCEPT !.error = TRUE, !.fetching = chains_]
  <2>1. CASE services' = [services EXCEPT !.error = TRUE]
    <3>1. services' = [services EXCEPT !.error = TRUE, !.fetching = services.fetching]
      BY <1>2, <2>1 DEF ServiceStates
    <3> QED
      BY <3>1
  <2>2. CASE \E chain \in services.fetching :
               services' = [services EXCEPT !.error = TRUE, !.fetching = @ \ {chain}]
    BY <2>2
  <2> QED
    BY <2>1, <2>2 DEF GenesisFails
<1>4. PICK left \in SUBSET services.fetching :
         services' = [services EXCEPT !.error = TRUE, !.fetching = left]
  BY <1>3
<1>5. left \in SUBSET Chains
  BY <1>2 DEF ServiceStates
<1>6. /\ services' \in ServiceStates /\ services'.curr_genesis = services.curr_genesis
      /\ services'.blocks = services.blocks /\ services'.fetching = left
  BY <1>2, <1>4, <1>5 DEF ServiceStates
<1>7. /\ area' \in AreaStates /\ area'.isSigning = area.isSigning
      /\ area'.block = area.block /\ area'.genesisID = area.genesisID
  BY <1>2 DEF GenesisFails, AreaStates
<1>8. services'.blocks # None \/ services'.fetching # {} => services'.curr_genesis # None
  BY <1>2, <1>6 DEF AreaInv
<1> QED
  BY <1>1, <1>2, <1>6, <1>7, <1>8, ServicesKept DEF AreaInv

LEMMA StatusKeeps ==
    ASSUME SignInv, NEW s \in Servers, StatusAnswers(s)
    PROVE  SignInv'
<1>1. UNCHANGED <<signEnv, file, area, hashing, sign_socket, saved>>
  BY DEF StatusAnswers
<1>2. AreaInv /\ services \in ServiceStates /\ area \in AreaStates
  BY SignTypes DEF SignInv
<1>3. PICK answer \in Answers[s] :
         services' = [services EXCEPT !.status[s] = answer,
                                      !.asked = @ \ ({s} \ Roster[services.blocks])]
  BY DEF StatusAnswers
<1> DEFINE status == [services.status EXCEPT ![s] = answer]
           asked == services.asked \ ({s} \ Roster[services.blocks])
<1>4. answer \in {"online", "offline"}
  BY SignAssumption
<1>5. status \in [Servers -> {"none", "online", "offline"}] /\ asked \in SUBSET Servers
  BY <1>2, <1>4 DEF ServiceStates
<1>6. services' = [services EXCEPT !.status = status, !.asked = asked]
  BY <1>3
<1> HIDE DEF status, asked
<1>7. /\ services' \in ServiceStates /\ services'.curr_genesis = services.curr_genesis
      /\ services'.blocks = services.blocks /\ services'.fetching = services.fetching
  BY <1>2, <1>5, <1>6 DEF ServiceStates
<1> QED
  BY <1>1, <1>2, <1>7, ServicesKept DEF AreaInv

\* Steps of the user.
LEMMA DroppedKeeps ==
    ASSUME SignInv, NEW f \in Files, HandleFileDropped(f)
    PROVE  SignInv'
<1>1. /\ UNCHANGED <<signEnv, services, hashing, sign_socket>>
      /\ file = None /\ file' = f /\ area' = NewArea /\ saved' = None
  BY DEF HandleFileDropped
<1>2. AreaInv /\ AttemptsInv
  BY DEF SignInv
<1>3. NewArea \in AreaStates /\ (NewArea.block # None => NewArea.genesisID # None)
  BY <1>2, SignTypes DEF NewArea, AreaInv, AreaStates, ServiceStates
<1>4. AreaInv'
  BY <1>1, <1>2, <1>3, FileAssumption DEF AreaInv, SignTypeOK, AreaStates
<1>5. AttemptsInv'
  BY <1>1, <1>2 DEF AttemptsInv
<1>6. SavedIsSound'
  BY <1>1 DEF SavedIsSound, Roundtrip, SignedByMost
<1> QED
  BY <1>4, <1>5, <1>6 DEF SignInv

\* When the area is closed, none of its attempts is under way for a user who waits.
LEMMA BackKeeps ==
    ASSUME SignInv, HandleBack
    PROVE  SignInv'
<1> DEFINE w == sign_socket.waiting
           v == [i \in DOMAIN w |-> Disown(w[i])]
<1>1. /\ UNCHANGED <<signEnv, services, saved>>
      /\ file' = None /\ area' = NoArea /\ hashing' = {Disown(a) : a \in hashing}
      /\ sign_socket' = [sign_socket EXCEPT !.waiting = v]
      /\ ~signEnv.hurried => hashing = {} /\ w = <<>>
  BY DEF HandleBack, CloseArea, Idle
<1>2. AreaInv /\ AttemptsInv
  BY DEF SignInv
<1>3. /\ v \in Seq(Attempts) /\ Len(v) = Len(w)
      /\ \A i \in 1..Len(v) : SoundAttempt(v[i])
  BY <1>2, SignTypes, DisownedAll DEF AttemptsInv
<1>4. /\ sign_socket' \in SignSockets
      /\ sign_socket'.waiting = v /\ sign_socket'.sent = sign_socket.sent
  <2>1. /\ sign_socket \in [to : Servers \cup {NoServer}, ready : ReadyStates,
                            sent : Seq(SignRequests), waiting : Seq(Attempts)]
        /\ sign_socket.ready = "closed" => sign_socket.sent = <<>> /\ w = <<>>
    BY <1>2, SignTypes DEF SignSockets, Sockets
  <2>2. w = <<>> => v = <<>>
    OBVIOUS
  <2> HIDE DEF v
  <2>3. /\ sign_socket' \in [to : Servers \cup {NoServer}, ready : ReadyStates,
                             sent : Seq(SignRequests), waiting : Seq(Attempts)]
        /\ sign_socket'.ready = sign_socket.ready
        /\ sign_socket'.waiting = v /\ sign_socket'.sent = sign_socket.sent
    BY <1>1, <1>3, <2>1
  <2> QED
    BY <2>1, <2>2, <2>3 DEF SignSockets, Sockets
<1>5. (\A a \in hashing' : SoundAttempt(a)) /\ hashing' \subseteq Attempts
  BY <1>1, <1>2, Disowned DEF AttemptsInv
<1>6. AreaInv'
  BY <1>1, <1>2, <1>4, <1>5 DEF AreaInv, SignTypeOK, NoArea, SignSockets, SignRequests
<1>7. AttemptsInv'
  <2>1. ~signEnv.hurried => hashing' = {} /\ v = <<>> /\ sign_socket.sent = <<>>
    BY <1>1, <1>2 DEF AttemptsInv
  <2> HIDE DEF v
  <2> QED
    BY <1>1, <1>3, <1>4, <1>5, <2>1 DEF AttemptsInv
<1>8. SavedIsSound'
  BY <1>1 DEF SignInv, SavedIsSound, Roundtrip, SignedByMost
<1> QED
  BY <1>6, <1>7, <1>8 DEF SignInv

LEMMA SignKeeps ==
    ASSUME SignInv, HandleSign
    PROVE  SignInv'
<1>1. /\ UNCHANGED <<signEnv, services, file, sign_socket, saved>>
      /\ file # None /\ ~area.isSigning
  BY DEF HandleSign
<1>2. AreaInv /\ AttemptsInv
  BY DEF SignInv
<1>3. /\ area' \in AreaStates
      /\ area'.isSigning = TRUE /\ area'.block = area.block /\ area'.genesisID = area.genesisID
  BY <1>2, SignTypes DEF HandleSign, AreaStates
<1>4. \/ hashing' = hashing
      \/ SoundAttempt(NewAttempt) /\ hashing' = hashing \cup {NewAttempt}
  BY <1>1, <1>2, NewIsSound DEF HandleSign
<1>5. (\A a \in hashing' : SoundAttempt(a)) /\ hashing' \subseteq Attempts
  BY <1>2, <1>4 DEF AttemptsInv, SoundAttempt
<1>6. AreaInv'
  BY <1>1, <1>2, <1>3, <1>5 DEF AreaInv, SignTypeOK, AreaStates
<1>7. AttemptsInv'
  <2>1. ~signEnv.hurried => hashing = {} /\ sign_socket.waiting = <<>> /\ sign_socket.sent = <<>>
    BY <1>1, <1>2 DEF AttemptsInv
  <2> HIDE DEF SoundAttempt
  <2> QED
    BY <1>1, <1>2, <1>3, <1>4, <1>5, <2>1 DEF AttemptsInv
<1>8. SavedIsSound'
  BY <1>1 DEF SignInv, SavedIsSound, Roundtrip, SignedByMost
<1> QED
  BY <1>6, <1>7, <1>8 DEF SignInv

\* The file is hashed and a server is asked.
LEMMA HashedKeeps ==
    ASSUME SignInv, NEW a \in hashing, HashFile(a)
    PROVE  SignInv'
<1> DEFINE w == sign_socket.waiting
           server == CHOOSE s \in a.servers : TRUE
<1>1. /\ UNCHANGED <<signEnv, services, file, area, saved>>
      /\ hashing' = hashing \ {a}
      /\ sign_socket' = CreateSocket(sign_socket, server, Request(a), a)
  BY DEF HashFile, Request
<1>2. AreaInv /\ AttemptsInv
  BY DEF SignInv
<1>3. SoundAttempt(a) /\ a \in Attempts /\ server \in Servers /\ Request(a) \in SignRequests
  BY <1>2, HasServer DEF AttemptsInv, SoundAttempt
<1>4. sign_socket \in SignSockets /\ w \in Seq(Attempts) /\ sign_socket.sent \in Seq(SignRequests)
  BY <1>2, SignTypes
<1> HIDE DEF server
<1>5. /\ sign_socket' \in SignSockets /\ sign_socket'.waiting = Append(w, a)
      /\ sign_socket'.sent = IF sign_socket.ready = "closing" THEN sign_socket.sent
                             ELSE Append(sign_socket.sent, Request(a))
  BY <1>1, <1>3, <1>4, SocketUsed DEF SignSockets
<1>6. AreaInv'
  BY <1>1, <1>2, <1>5 DEF AreaInv, SignTypeOK, SignSockets, SignRequests
<1> DEFINE v == Append(w, a)
<1>7. /\ Len(v) = Len(w) + 1 /\ v[Len(w) + 1] = a /\ Len(w) \in Nat
      /\ \A i \in 1..Len(w) : v[i] = w[i]
  BY <1>3, <1>4, AppendProperties
<1>8. \A i \in 1..Len(v) : SoundAttempt(v[i])
  <2> SUFFICES ASSUME NEW i \in 1..Len(v) PROVE SoundAttempt(v[i])
    OBVIOUS
  <2> HIDE DEF v
  <2>1. i \in 1..Len(w) \/ i = Len(w) + 1
    BY <1>7
  <2> QED
    BY <1>2, <1>3, <1>7, <2>1 DEF AttemptsInv
<1>9. ASSUME ~signEnv.hurried
      PROVE  /\ \A b, c \in hashing' : b = c
             /\ Len(v) <= 1 /\ hashing' = {} /\ area.isSigning /\ file # None
             /\ sign_socket'.sent # <<>> =>
                   v # <<>> /\ Len(sign_socket'.sent) = 1 /\ sign_socket'.sent[1] = Request(v[1])
  <2>1. /\ hashing = {a} /\ w = <<>> /\ area.isSigning /\ file # None
        /\ sign_socket.sent = <<>>
    BY <1>2, <1>9 DEF AttemptsInv
  <2>2. v = <<a>> /\ Append(sign_socket.sent, Request(a)) = <<Request(a)>>
    BY <2>1
  <2> QED
    BY <1>1, <1>5, <2>1, <2>2
<1>10. AttemptsInv'
  <2> HIDE DEF SoundAttempt, v
  <2>1. sign_socket'.waiting = v
    BY <1>5 DEF v
  <2>3. Len(v) # 0 /\ Len(<<>>) = 0
    BY <1>7
  <2>4. v # <<>>
    BY <2>3
  <2>2. \A b \in hashing' : SoundAttempt(b)
    BY <1>1, <1>2 DEF AttemptsInv
  <2> QED
    BY <1>1, <1>8, <1>9, <2>1, <2>2, <2>4 DEF AttemptsInv
<1>11. SavedIsSound'
  BY <1>1 DEF SignInv, SavedIsSound, Roundtrip, SignedByMost
<1> QED
  BY <1>6, <1>10, <1>11 DEF SignInv

\* A socket that loses its requests, or keeps them, under an area that shows them or not.
AreaShows(next) == next = area \/ next = [area EXCEPT !.error = "oops"]

LEMMA SocketKeeps ==
    ASSUME SignInv, UNCHANGED <<signEnv, services, file, hashing, saved>>,
           sign_socket' \in SignSockets,
           \/ sign_socket'.waiting = <<>> /\ sign_socket'.sent = <<>>
           \/ sign_socket'.waiting = sign_socket.waiting /\ sign_socket'.sent = sign_socket.sent,
           AreaShows(area')
    PROVE  SignInv'
<1>1. AreaInv /\ AttemptsInv
  BY DEF SignInv
<1>2. /\ area' \in AreaStates /\ area'.isSigning = area.isSigning
      /\ area'.block = area.block /\ area'.genesisID = area.genesisID
  <2>1. area \in AreaStates
    BY <1>1, SignTypes
  <2>2. CASE area' = area
    BY <2>1, <2>2
  <2>3. CASE area' = [area EXCEPT !.error = "oops"]
    BY <2>1, <2>3 DEF AreaStates
  <2> QED
    BY <2>2, <2>3 DEF AreaShows
<1>3. AreaInv'
  BY <1>1, <1>2 DEF AreaInv, SignTypeOK, SignSockets, SignRequests, AreaStates
<1>4. AttemptsInv'
  <2>1. CASE sign_socket'.waiting = <<>> /\ sign_socket'.sent = <<>>
    <3>1. Len(sign_socket'.waiting) = 0 /\ \A i \in 1..Len(sign_socket'.waiting) : FALSE
      BY <2>1
    <3>2. \A a \in hashing' : SoundAttempt(a)
      BY <1>1 DEF AttemptsInv
    <3>3. ~signEnv'.hurried =>
             /\ \A a, b \in hashing' : a = b
             /\ hashing' # {} => area'.isSigning /\ file' # None
      BY <1>1, <1>2 DEF AttemptsInv
    <3> QED
      BY <2>1, <3>1, <3>2, <3>3 DEF AttemptsInv
  <2>2. CASE sign_socket'.waiting = sign_socket.waiting /\ sign_socket'.sent = sign_socket.sent
    BY <1>1, <1>2, <2>2 DEF AttemptsInv
  <2> QED
    BY <2>1, <2>2
<1>5. SavedIsSound'
  BY DEF SignInv, SavedIsSound, Roundtrip, SignedByMost
<1> QED
  BY <1>3, <1>4, <1>5 DEF SignInv

\* What a signature file is to be that is saved.
FileIsSound(info) ==
    /\ info.known = Roster[info.block] =>
          info.signature.file = info.hash /\ IsSignatureCorrect(info.hash, info)
    /\ info.known \subseteq Roster[info.block] =>
          3 * Cardinality(info.signature.signers \cap Roster[info.block])
             > 2 * Cardinality(Roster[info.block])

\* A sound attempt and the answer to it make a signature file that can be verified.
LEMMA SoundFile ==
    ASSUME NEW a, SoundAttempt(a), NEW answer \in SignRequests
    PROVE  /\ SignatureFile(a, answer) \in SignatureFiles
           /\ answer = Request(a) => FileIsSound(SignatureFile(a, answer))
<1>1. /\ a.file \in Files /\ a.block \in Chains /\ a.servers \in SUBSET Servers
      /\ a.genesisID \in Chains /\ a.offline \in SUBSET Servers
  BY DEF SoundAttempt, Attempts
<1> DEFINE info == SignatureFile(a, answer)
<1>2. /\ info \in SignatureFiles
      /\ info.hash = a.file /\ info.signature = answer /\ info.block = a.block
      /\ info.offline = a.offline /\ info.known = a.servers \cup a.offline
  BY <1>1 DEF SignatureFile, SignatureFiles, SignRequests
<1>3. ASSUME answer = Request(a) PROVE FileIsSound(info)
  <2>1. answer.file = a.file /\ answer.signers = a.servers
    BY <1>3 DEF Request
  <2>2. a.servers \cap a.offline = {} /\ Enough(a.servers, a.block)
    BY DEF SoundAttempt
  <2> HIDE DEF info
  <2>3. ASSUME info.known = Roster[info.block]
        PROVE  info.signature.file = info.hash /\ IsSignatureCorrect(info.hash, info)
    <3>1. a.servers = Roster[a.block] \ a.offline
      BY <1>2, <2>2, <2>3
    <3> QED
      BY <1>2, <2>1, <3>1 DEF IsSignatureCorrect
  <2>4. ASSUME info.known \subseteq Roster[info.block]
        PROVE  3 * Cardinality(info.signature.signers \cap Roster[info.block])
               > 2 * Cardinality(Roster[info.block])
    <3>1. info.signature.signers \cap Roster[info.block] = a.servers
      BY <1>2, <2>1, <2>4
    <3> QED
      BY <1>2, <2>2, <3>1 DEF Enough
  <2> QED
    BY <2>3, <2>4 DEF FileIsSound
<1> QED
  BY <1>2, <1>3

LEMMA AnswerKeeps ==
    ASSUME SignInv, SignAnswers, UNCHANGED <<signEnv, services>>
    PROVE  SignInv'
<1> DEFINE w == sign_socket.waiting
           sent == sign_socket.sent
<1>1. sent # <<>> /\ sign_socket' = Answered(sign_socket)
  BY DEF SignAnswers
<1>2. AreaInv /\ AttemptsInv
  BY DEF SignInv
<1>3. sign_socket \in SignSockets /\ w \in Seq(Attempts) /\ sent \in Seq(SignRequests)
  BY <1>2, SignTypes
<1>4. /\ sign_socket' \in SignSockets
      /\ sign_socket'.sent = Tail(sent) /\ sign_socket'.waiting = <<>>
  BY <1>1, <1>3, SocketSteps DEF SignSockets
<1>5. CASE w = <<>>
  <2>1. UNCHANGED <<file, area, hashing, saved>>
    BY <1>5 DEF SignAnswers
  <2>2. signEnv.hurried
    BY <1>1, <1>2, <1>5 DEF AttemptsInv
  <2>3. AreaInv'
    BY <1>2, <1>4, <2>1 DEF AreaInv, SignTypeOK, SignSockets, SignRequests
  <2>4. AttemptsInv'
    BY <1>2, <1>4, <2>1, <2>2 DEF AttemptsInv
  <2>5. SavedIsSound'
    BY <2>1 DEF SignInv, SavedIsSound, Roundtrip, SignedByMost
  <2> QED
    BY <2>3, <2>4, <2>5 DEF SignInv
<1>6. CASE w # <<>>
  <2>1. PICK i \in DOMAIN w : saved' = SignatureFile(w[i], Head(sent))
    BY <1>6 DEF SignAnswers
  <2>2. file' = None /\ area' = NoArea /\ hashing' = {Disown(a) : a \in hashing}
    BY <1>6 DEF SignAnswers, CloseArea
  <2>3. i \in 1..Len(w) /\ SoundAttempt(w[i]) /\ Head(sent) \in SignRequests /\ Head(sent) = sent[1]
    BY <1>1, <1>2, <1>3 DEF AttemptsInv
  <2>4. (\A a \in hashing' : SoundAttempt(a)) /\ hashing' \subseteq Attempts
    BY <1>2, <2>2, Disowned DEF AttemptsInv
  <2>5. saved' \in SignatureFiles
    BY <2>1, <2>3, SoundFile
  <2>6. AreaInv'
    BY <1>2, <1>4, <2>2, <2>4, <2>5 DEF AreaInv, SignTypeOK, NoArea, SignSockets, SignRequests
  <2>7. ~signEnv.hurried => hashing' = {} /\ Len(w) = 1 /\ Len(sent) = 1 /\ sent[1] = Request(w[1])
    BY <1>1, <1>2, <1>3, <1>6, <2>2 DEF AttemptsInv
  <2>8. ~signEnv.hurried => Tail(sent) = <<>>
    <3>1. ASSUME Len(sent) = 1 PROVE Tail(sent) = <<>>
      <4>1. sent \in Seq(SignRequests) /\ sent # <<>>
        BY <1>1, <1>3
      <4> HIDE DEF sent
      <4>2. Tail(sent) \in Seq(SignRequests) /\ Len(Tail(sent)) = Len(sent) - 1
        BY <4>1, HeadTailProperties
      <4>3. Len(Tail(sent)) = 0
        BY <3>1, <4>2
      <4> QED
        BY <4>2, <4>3, EmptySeq
    <3> QED
      BY <2>7, <3>1
  <2>9. AttemptsInv'
    BY <1>4, <2>4, <2>7, <2>8 DEF AttemptsInv
  <2>10. SavedIsSound'
    <3> SUFFICES ASSUME ~signEnv.hurried PROVE SavedIsSound'
      BY DEF SavedIsSound, Roundtrip, SignedByMost
    <3>1. i = 1 /\ Head(sent) = Request(w[i])
      BY <2>3, <2>7
    <3> DEFINE a == w[i]
               answer == Head(sent)
               info == SignatureFile(a, answer)
    <3>2. SoundAttempt(a) /\ answer \in SignRequests /\ answer = Request(a)
      BY <2>3, <3>1
    <3> HIDE DEF a, answer
    <3>3. FileIsSound(info)
      BY <3>2, SoundFile
    <3>4. saved' = info
      BY <2>1 DEF a, answer
    <3> HIDE DEF info
    <3> QED
      BY <3>3, <3>4 DEF SavedIsSound, Roundtrip, SignedByMost, FileIsSound, IsSignatureCorrect
  <2> QED
    BY <2>6, <2>9, <2>10 DEF SignInv
<1> QED
  BY <1>5, <1>6

LEMMA SignEventKeeps ==
    ASSUME SignInv, SignEvent
    PROVE  SignInv'
<1>1. UNCHANGED <<signEnv, services>>
  BY DEF SignEvent
<1>2. sign_socket \in SignSockets
  BY SignTypes DEF SignInv
<1>3. CASE SignOpens
  <2>1. /\ UNCHANGED <<file, area, hashing, saved>>
        /\ sign_socket' \in SignSockets
        /\ sign_socket'.waiting = sign_socket.waiting /\ sign_socket'.sent = sign_socket.sent
    BY <1>2, <1>3, SocketSteps DEF SignOpens, SignSockets
  <2> QED
    BY <1>1, <2>1, SocketKeeps DEF AreaShows
<1>4. CASE SignAnswers
  BY <1>1, <1>4, AnswerKeeps
<1>5. CASE SignFails
  <2>1. /\ UNCHANGED <<file, hashing, saved>>
        /\ sign_socket' \in SignSockets
        /\ sign_socket'.waiting = <<>> /\ sign_socket'.sent = <<>>
    BY <1>2, <1>5, SocketSteps DEF SignFails, SignSockets
  <2>2. AreaShows(area')
    BY <1>5 DEF SignFails, AreaShows
  <2> QED
    BY <1>1, <2>1, <2>2, SocketKeeps
<1>6. CASE SignCloses
  <2>1. /\ UNCHANGED <<file, area, hashing, saved>>
        /\ sign_socket' \in SignSockets
        /\ \/ sign_socket'.waiting = <<>> /\ sign_socket'.sent = <<>>
           \/ sign_socket'.waiting = sign_socket.waiting /\ sign_socket'.sent = sign_socket.sent
    BY <1>2, <1>6, SocketSteps DEF SignCloses, SignSockets
  <2> QED
    BY <1>1, <2>1, SocketKeeps DEF AreaShows
<1> QED
  BY <1>3, <1>4, <1>5, <1>6 DEF SignEvent

\* The invariant of the area where files are signed holds.
LEMMA AreaKept == SignSpec => []SignInv
<1>1. SignInit => SignInv
  <2> SUFFICES ASSUME SignInit PROVE SignInv
    OBVIOUS
  <2>1. /\ services = [curr_genesis |-> None, blocks |-> None, error |-> FALSE,
                       fetching |-> {}, status |-> NoStatuses, asked |-> {}]
        /\ NoStatuses \in [Servers -> {"none", "online", "offline"}]
        /\ \A s \in Servers : NoStatuses[s] = "none"
    BY DEF SignInit, NoStatuses
  <2>2. services \in ServiceStates /\ services.blocks = None /\ services.fetching = {}
    <3> HIDE DEF NoStatuses
    <3> QED
      BY <2>1 DEF ServiceStates
  <2>3. /\ sign_socket \in SignSockets /\ sign_socket.waiting = <<>> /\ sign_socket.sent = <<>>
    <3>1. /\ <<>> \in Seq(SignRequests) /\ <<>> \in Seq(Attempts) /\ "closed" \in ReadyStates
      BY DEF ReadyStates
    <3> HIDE DEF SignRequests, Attempts, ReadyStates
    <3>2. /\ NoSocket.waiting = <<>> /\ NoSocket.sent = <<>>
          /\ NoSocket \in [to : Servers \cup {NoServer}, ready : ReadyStates,
                           sent : Seq(SignRequests), waiting : Seq(Attempts)]
      BY <3>1 DEF NoSocket
    <3> QED
      BY <3>2 DEF SignInit, SignSockets, Sockets
  <2>4. /\ signEnv \in SignEnvs /\ file = None /\ area = NoArea /\ hashing = {} /\ saved = None
    BY DEF SignInit
  <2>5. AreaInv
    BY <2>2, <2>3, <2>4 DEF AreaInv, SignTypeOK, NoArea, SignSockets, SignRequests, ServiceStates
  <2>6. AttemptsInv
    BY <2>3, <2>4 DEF AttemptsInv
  <2>7. SavedIsSound
    BY <2>4 DEF SavedIsSound, Roundtrip, SignedByMost
  <2> QED
    BY <2>5, <2>6, <2>7 DEF SignInv
<1>2. SignInv /\ [SignNext]_signVars => SignInv'
  <2> SUFFICES ASSUME SignInv, [SignNext]_signVars PROVE SignInv'
    OBVIOUS
  <2>1. CASE UNCHANGED signVars
    BY ZenonT(30), <2>1 DEF signVars, SignInv, AreaInv, SignTypeOK, AttemptsInv, SavedIsSound, Roundtrip,
                SignedByMost
  <2> QED
    BY <2>1, PickKeeps, UpdateKeeps, FailureKeeps, StatusKeeps, DroppedKeeps, BackKeeps, SignKeeps, HashedKeeps, SignEventKeeps
    DEF SignNext
<1> QED
  BY <1>1, <1>2, PTL DEF SignSpec

\* The types of the area, its attempts and their socket.
LEMMA AreaTypes == SignSpec => []SignTypeOK
<1>1. SignInv => SignTypeOK
  BY DEF SignInv, AreaInv
<1> QED
  BY <1>1, AreaKept, PTL

\* Whatever chains the user changes to, whichever servers answer late, for this block or
\* an earlier one, and whichever connections fail: the signature file that a user who waits
\* saves verifies against its own file if, at the click, the page named the chain of its
\* block and had the statuses of the servers of the block, and is signed by more than two
\* thirds of them if no other server had a status.
THEOREM SavedVerifies == SignSpec => []SavedIsSound
<1>1. SignInv => SavedIsSound
  BY DEF SignInv
<1> QED
  BY <1>1, AreaKept, PTL

-----------------------------------------------------------------------------
(* The components side by side: they share no variable, and each behaves   *)
(* as it does alone.                                                       *)

StepOf ==
    /\ [SignNext]_signVars /\ [VerifyNext]_verifyVars /\ [ViewerNext]_viewerVars
    /\ [RandomNext]_randomVars /\ [InlinerNext]_inlinerVars
    /\ [ModalNext]_modalVars /\ [CollapseNext]_panelVars
    /\ [CarouselNext]_carouselVars /\ [TooltipNext]_tooltipVars /\ [TabNext]_tabVars
    /\ [DropdownNext]_dropdownVars

LEMMA StepOfOne == [Next]_vars => StepOf
<1> SUFFICES ASSUME [Next]_vars PROVE StepOf
  OBVIOUS
<1>1. CASE PageNext /\ UNCHANGED pluginVars
  <2>1. UNCHANGED <<modalVars, panelVars, carouselVars, tooltipVars, tabVars, dropdownVars>>
    BY <1>1 DEF pluginVars
  <2>2. /\ [SignNext]_signVars /\ [VerifyNext]_verifyVars /\ [ViewerNext]_viewerVars
        /\ [RandomNext]_randomVars /\ [InlinerNext]_inlinerVars
    BY <1>1 DEF PageNext
  <2> QED
    BY <2>1, <2>2 DEF StepOf
<1>2. CASE PluginNext /\ UNCHANGED pageVars
  <2>1. UNCHANGED <<signVars, verifyVars, viewerVars, randomVars, inlinerVars>>
    BY <1>2 DEF pageVars
  <2>2. /\ [ModalNext]_modalVars /\ [CollapseNext]_panelVars /\ [CarouselNext]_carouselVars
        /\ [TooltipNext]_tooltipVars /\ [TabNext]_tabVars /\ [DropdownNext]_dropdownVars
    BY <1>2 DEF PluginNext
  <2> QED
    BY <2>1, <2>2 DEF StepOf
<1>3. CASE UNCHANGED vars
  BY <1>3 DEF vars, pageVars, pluginVars, StepOf
<1> QED
  BY <1>1, <1>2, <1>3 DEF Next

\* Whatever the components do: the variables of the page's and of the plugins' components
\* have their types, in particular what waits is bounded as the models say, sockets that
\* are closed hold no requests, and what is saved and shown is made of files and servers
\* that there are.
THEOREM ComponentTypes == FairSpec => []ComponentsTypeOK
<1>1. Init => /\ SignInit /\ VerifyInit /\ ViewerInit /\ RandomInit /\ InlinerInit
              /\ ModalInit /\ CollapseInit /\ CarouselInit /\ TooltipInit /\ TabInit /\ DropdownInit
  BY DEF Init
<1>2. FairSpec => Init /\ [][Next]_vars
  BY DEF FairSpec
<1>3. Init /\ [][Next]_vars => SignSpec /\ VerifySpec /\ ViewerSpec /\ RandomSpec /\ InlinerSpec
  <2>1. StepOf => /\ [SignNext]_signVars /\ [VerifyNext]_verifyVars /\ [ViewerNext]_viewerVars
                  /\ [RandomNext]_randomVars /\ [InlinerNext]_inlinerVars
    BY DEF StepOf
  <2> QED
    BY <1>1, <2>1, StepOfOne, PTL DEF SignSpec, VerifySpec, ViewerSpec, RandomSpec, InlinerSpec
<1>4. Init /\ [][Next]_vars => ModalSpec /\ CollapseSpec /\ CarouselSpec
  <2>1. StepOf => [ModalNext]_modalVars /\ [CollapseNext]_panelVars /\ [CarouselNext]_carouselVars
    BY DEF StepOf
  <2> QED
    BY <1>1, <2>1, StepOfOne, PTL DEF ModalSpec, CollapseSpec, CarouselSpec
<1>5. Init /\ [][Next]_vars => TooltipSpec /\ TabSpec /\ DropdownSpec
  <2>1. StepOf => [TooltipNext]_tooltipVars /\ [TabNext]_tabVars /\ [DropdownNext]_dropdownVars
    BY DEF StepOf
  <2> QED
    BY <1>1, <2>1, StepOfOne, PTL DEF TooltipSpec, TabSpec, DropdownSpec
<1>6. ComponentsTypeOK <=>
         /\ SignTypeOK /\ VerifyTypeOK /\ ViewerTypeOK /\ RandomTypeOK /\ InlinerTypeOK
         /\ ModalTypeOK /\ CollapseTypeOK /\ CarouselTypeOK /\ TooltipTypeOK
         /\ TabTypeOK /\ DropdownTypeOK
  BY DEF ComponentsTypeOK
<1> QED
  BY <1>2, <1>3, <1>4, <1>5, <1>6, AreaTypes, VerifyTypes, ViewerTypes, RandomTypesHold, InlinerTypes,
     ModalTypes, PanelsAgree, CarouselTypes, TipIsSound, LinksFollowClicks, MenusAgree, PTL
=============================================================================
