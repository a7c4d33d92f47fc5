----------------------------- MODULE ModuleSign -----------------------------
(***************************************************************************)
(* ModuleSign and SignArea of src/status: the user drops a file, the file  *)
(* is hashed, a conode is asked for a signature of the available servers,  *)
(* and the signature file is saved.                                        *)
(*                                                                         *)
(* Of GenesisService and StatusService there is what these components read *)
(* (StatusPage models the services themselves): the identifier of a picked *)
(* chain is there at once, its blocks come later, and a server that was    *)
(* asked for its status answers when it likes.                             *)
(***************************************************************************)
EXTENDS Websocket, SignatureFile, SequencesExt

CONSTANTS
    Answers,       \* per server, what StatusService may file of it
    SignEnvs,      \* see signEnv
    MaxAttempts    \* bound: attempts to sign that are under way

ASSUME SignAssumption ==
    /\ Answers \in [Servers -> SUBSET {"online", "offline"}]
    /\ SignEnvs \subseteq [hurried : BOOLEAN, lossy : BOOLEAN, picks : BOOLEAN]
    /\ MaxAttempts \in Nat \ {0}

VARIABLES
    signEnv,       \* hurried: the user goes back while an attempt is under way;
                   \* lossy: sockets close without an error;
                   \* picks: the user changes the chain
    services,      \* GenesisService: curr_genesis, the chain of its blocks, its error,
                   \* the chains whose blocks are fetched; StatusService: status, and
                   \* the servers whose answer may come
    file,          \* ModuleSign.state
    area,          \* SignArea.state, while a file is shown
    hashing,       \* attempts whose file is being hashed (equal ones act alike)
    sign_socket,   \* CothorityWebsocket.sign_socket
    saved          \* (history) the signature file saved since a file was dropped

signVars == <<signEnv, services, file, area, hashing, sign_socket, saved>>

NoStatuses == [s \in Servers |-> "none"]

\* A new SignArea subscribes: it gets the error if there is one, else the block.
NewArea == [genesisID |-> IF services.error THEN None ELSE services.curr_genesis,
            block  |-> IF services.error THEN None ELSE services.blocks,
            error  |-> IF services.error THEN "genesis" ELSE "",
            isSigning |-> FALSE]

NoArea == [genesisID |-> None, block |-> None, error |-> "", isSigning |-> FALSE]

SignInit ==
    /\ signEnv \in SignEnvs
    /\ services = [curr_genesis |-> None, blocks |-> None, error |-> FALSE,
                   fetching |-> {}, status |-> NoStatuses, asked |-> {}]
    /\ file = None /\ area = NoArea
    /\ hashing = {} /\ sign_socket = NoSocket /\ saved = None

-----------------------------------------------------------------------------
(* The services                                                            *)

\* The list of chains arrives, and the first is fetched; later,
\* setCurrentSkipchainID.  Nobody is told before the blocks are there.
Pick(chain) ==
    /\ IF services.curr_genesis = None THEN ~services.error ELSE signEnv.picks
    /\ services' = [services EXCEPT !.curr_genesis = chain, !.fetching = @ \cup {chain}]
    /\ UNCHANGED <<signEnv, file, area, hashing, sign_socket, saved>>

\* Blocks of a chain arrive: onGenesisUpdate of StatusService, which asks the servers
\* of the block, and of the area.
GenesisUpdates(chain) ==
    /\ chain \in services.fetching
    /\ services' = [services EXCEPT !.blocks = chain, !.fetching = @ \ {chain},
                                    !.status = NoStatuses, !.asked = @ \cup Roster[chain]]
    /\ area' = IF file = None THEN area
               ELSE [area EXCEPT !.genesisID = services.curr_genesis, !.block = chain]
    /\ UNCHANGED <<signEnv, file, hashing, sign_socket, saved>>

\* The list of chains or the blocks of one cannot be fetched.  The error is kept by
\* the service, and told to the area.
GenesisFails ==
    /\ \/ services.curr_genesis = None /\ services' = [services EXCEPT !.error = TRUE]
       \/ \E chain \in services.fetching :
             services' = [services EXCEPT !.error = TRUE, !.fetching = @ \ {chain}]
    /\ area' = IF file = None THEN area ELSE [area EXCEPT !.error = "genesis"]
    /\ UNCHANGED <<signEnv, file, hashing, sign_socket, saved>>

\* The answer of a server, or its failure, is filed whatever chain it was asked for.
\* The servers of the block are asked again and again.
StatusAnswers(s) ==
    /\ s \in services.asked
    /\ \E answer \in Answers[s] :
          services' = [services EXCEPT !.status[s] = answer,
                                       !.asked = @ \ ({s} \ Roster[services.blocks])]
    /\ UNCHANGED <<signEnv, file, area, hashing, sign_socket, saved>>

\* getAvailableRoster and getOfflineRoster.
With(status) == {s \in Servers : services.status[s] = status}

-----------------------------------------------------------------------------
(* ModuleSign and SignArea                                                 *)

\* An attempt to sign remembers what handleSign read, and whether the area it
\* was started in is still the one that is shown.
Attempts == [file : Files, genesisID : Chains, block : Chains,
             servers : SUBSET Servers, offline : SUBSET Servers, own : BOOLEAN]

Disown(attempt) == [attempt EXCEPT !.own = FALSE]

\* No attempt is under way.
Idle == hashing = {} /\ sign_socket.waiting = <<>>

\* The area is unmounted: its attempts go on without it.
CloseArea ==
    /\ file' = None /\ area' = NoArea
    /\ hashing' = {Disown(a) : a \in hashing}

\* handleFileDropped.
HandleFileDropped(f) ==
    /\ file = None
    /\ file' = f /\ area' = NewArea /\ saved' = None
    /\ UNCHANGED <<signEnv, services, hashing, sign_socket>>

\* handleBack, by a user who waits for an attempt or does not.
HandleBack ==
    /\ file # None
    /\ Idle \/ signEnv.hurried
    /\ CloseArea
    /\ sign_socket' = [sign_socket EXCEPT !.waiting = [i \in DOMAIN @ |-> Disown(@[i])]]
    /\ UNCHANGED <<signEnv, services, saved>>

\* The attempt that handleSign makes of the state it reads.
NewAttempt ==
    [file |-> file, genesisID |-> area.genesisID, block |-> area.block,
     servers |-> With("online"), offline |-> With("offline"), own |-> TRUE]

\* The servers that are available are more than two thirds of as many as the block
\* has.
Enough(servers, block) == 3 * Cardinality(servers) > 2 * Cardinality(Roster[block])

\* handleSign.  Without a block the click ends in a TypeError, after the
\* spinner is shown.
HandleSign ==
    /\ file # None /\ area.error = "" /\ ~area.isSigning
    /\ \A queue \in {sign_socket.waiting, sign_socket.sent} :
          Cardinality(hashing) + Len(queue) < MaxAttempts
    /\ \/ /\ area.block = None
          /\ area' = [area EXCEPT !.isSigning = TRUE]
          /\ UNCHANGED hashing
       \/ /\ area.block # None /\ ~Enough(With("online"), area.block)
          /\ area' = [area EXCEPT !.isSigning = TRUE, !.error = "servers"]
          /\ UNCHANGED hashing
       \/ /\ area.block # None /\ Enough(With("online"), area.block)
          /\ area' = [area EXCEPT !.isSigning = TRUE]
          /\ hashing' = hashing \cup {NewAttempt}
    /\ UNCHANGED <<signEnv, services, file, sign_socket, saved>>

\* The hash is there: the first of the servers is asked.
HashFile(attempt) ==
    /\ hashing' = hashing \ {attempt}
    /\ sign_socket' = CreateSocket(sign_socket, CHOOSE s \in attempt.servers : TRUE,
                           [file |-> attempt.file, signers |-> attempt.servers], attempt)
    /\ UNCHANGED <<signEnv, services, file, area, saved>>

SignOpens ==
    /\ sign_socket.ready = "connecting"
    /\ sign_socket' = Opened(sign_socket)
    /\ UNCHANGED <<file, area, hashing, saved>>

\* Mutant: the offline servers are those of the time of the answer.
SignatureFileOfNow(attempt, signature) ==
    [hash |-> attempt.file, signature |-> signature, genesisID |-> attempt.genesisID,
     block |-> attempt.block, offline |-> With("offline"),
     known |-> attempt.servers \cup attempt.offline]

\* What SignatureFile.save writes for an attempt and the signature it got.
\* known (history): the servers that had a status when the user clicked.
SignatureFile(attempt, signature) ==
    [hash |-> attempt.file, signature |-> signature, genesisID |-> attempt.genesisID,
     block |-> attempt.block, offline |-> attempt.offline,
     known |-> attempt.servers \cup attempt.offline]

\* The first answer goes to every attempt that waits: each saves a file and
\* closes the area that is shown, whoever's it is.
SignAnswers ==
    /\ sign_socket.ready = "open" /\ sign_socket.sent # <<>>
    /\ sign_socket' = Answered(sign_socket)
    /\ IF sign_socket.waiting = <<>> THEN UNCHANGED <<file, area, hashing, saved>>
       ELSE /\ \E i \in DOMAIN sign_socket.waiting :
                  saved' = SignatureFile(sign_socket.waiting[i], Head(sign_socket.sent))
            /\ CloseArea

\* Mutant: only the first attempt that waits is told.
SignFailsFirst ==
    /\ sign_socket.ready # "closed"
    /\ sign_socket' = Closed(sign_socket)
    /\ area' = IF sign_socket.waiting # <<>> /\ Head(sign_socket.waiting).own
               THEN [area EXCEPT !.error = "oops"] ELSE area
    /\ UNCHANGED <<file, hashing, saved>>

\* An error: the area shows it, if it is still the attempt's own.
SignFails ==
    /\ sign_socket.ready # "closed"
    /\ sign_socket' = Closed(sign_socket)
    /\ area' = IF \E i \in DOMAIN sign_socket.waiting : sign_socket.waiting[i].own
               THEN [area EXCEPT !.error = "oops"] ELSE area
    /\ UNCHANGED <<file, hashing, saved>>

SignCloses ==
    /\ signEnv.lossy
    /\ \/ sign_socket.ready = "open" /\ sign_socket' = Closing(sign_socket)
       \/ sign_socket.ready = "closing" /\ sign_socket' = Closed(sign_socket)
    /\ UNCHANGED <<file, area, hashing, saved>>

SignEvent ==
    /\ SignOpens \/ SignAnswers \/ SignFails \/ SignCloses
    /\ UNCHANGED <<signEnv, services>>

-----------------------------------------------------------------------------
SignNext ==
    \/ \E c \in Chains : Pick(c) \/ GenesisUpdates(c)
    \/ GenesisFails
    \/ \E s \in Servers : StatusAnswers(s)
    \/ \E f \in Files : HandleFileDropped(f)
    \/ HandleBack \/ HandleSign
    \/ \E a \in hashing : HashFile(a)
    \/ SignEvent

SignSpec == SignInit /\ [][SignNext]_signVars

\* Files are read, and requests for signatures end one way or the other.
SignFairness == WF_signVars(\E a \in hashing : HashFile(a)) /\ WF_signVars(SignEvent)

SignFairSpec == SignSpec /\ SignFairness

-----------------------------------------------------------------------------
\* Every variable has its type.
SignTypeOK ==
    /\ signEnv \in SignEnvs
    /\ services \in [curr_genesis : Chains \cup {None}, blocks : Chains \cup {None},
                     error : BOOLEAN, fetching : SUBSET Chains,
                     status : [Servers -> {"none", "online", "offline"}],
                     asked : SUBSET Servers]
    /\ file \in Files \cup {None}
    /\ area \in [genesisID : Chains \cup {None}, block : Chains \cup {None},
                 error : {"", "genesis", "servers", "oops"}, isSigning : BOOLEAN]
    /\ hashing \subseteq Attempts
    /\ sign_socket \in Sockets(Servers, [file : Files, signers : SUBSET Servers], Attempts)
    /\ saved \in SignatureFiles \cup {None}

\* With a user who waits, a signature file that was made when the area named one
\* chain, and the statuses were those of the servers of its block, verifies
\* against its own file: the keys ModuleVerify aggregates are those of the servers
\* SignArea asked, though statuses and chains go on changing while the request is
\* under way.
Roundtrip ==
    ~signEnv.hurried /\ saved # None /\ saved.genesisID = saved.block
                     /\ saved.known = Roster[saved.block]
    => saved.signature.file = saved.hash /\ IsSignatureCorrect(saved.hash, saved)

\* A signature file carries the signature of more than two thirds of the
\* servers of its block, if no other server had a status.
SignedByMost ==
    ~signEnv.hurried /\ saved # None /\ saved.known \subseteq Roster[saved.block]
    => 3 * Cardinality(saved.signature.signers \cap Roster[saved.block])
       > 2 * Cardinality(Roster[saved.block])

\* The attempts that are under way.
UnderWay == hashing \cup ToSet(sign_socket.waiting)

\* The attempts of the area that is shown.
Own == {a \in UnderWay : a.own}

\* The spinner of an attempt that is under way ends: its area is closed or shows
\* an error.  Connections that close silently are excluded.
SignEnds == (Own # {} /\ ~signEnv.lossy) ~> (~area.isSigning \/ area.error # "")

\* Whatever interleaves with the request of a user who waits, and who clicked when the
\* page showed the chain and the statuses of its servers: the signature file that is
\* saved is signed by enough servers, and can be verified.
SavedIsSound == Roundtrip /\ SignedByMost

=============================================================================
