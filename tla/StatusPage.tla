----------------------------- MODULE StatusPage -----------------------------
(***************************************************************************)
(* The home page of src/status: GenesisService (the chains, and the blocks *)
(* of the chosen one), SkipChainService (asks the servers of a chain one   *)
(* after the other), StatusService (polls the servers of the roster), and  *)
(* the two components that subscribe to them, ModuleSkipChain (the list    *)
(* where the user picks a chain) and ServersStatus (the table).            *)
(*                                                                         *)
(* A step is one event of the browser with everything that runs before the *)
(* next one: the listeners, and the promise callbacks they set off.        *)
(***************************************************************************)
EXTENDS Websocket, FiniteSets, SequencesExt

CONSTANTS
    Chains,        \* the chains of index.js
    FirstChain,    \* the first of them
    Servers,       \* the conodes
    ServerList,    \* per chain, the servers index.js lists, in order
    Roster,        \* per chain, the servers of its latest block
    None,
    Environments,  \* what users and connections may do, see env
    MaxCalls,      \* bound: requests for blocks that are under way
    MaxSent        \* bound: status requests to one server told apart

ASSUME PageAssumption ==
    /\ FirstChain \in Chains
    /\ ServerList \in [Chains -> Seq(Servers) \ {<<>>}]
    /\ Roster \in [Chains -> SUBSET Servers \ {{}}]
    /\ None \notin Chains
    /\ Environments \subseteq [hurried : BOOLEAN, lossy : BOOLEAN]
    /\ MaxCalls \in Nat \ {0} /\ MaxSent \in Nat \ {0}

VARIABLES
    env,           \* hurried: the user picks a chain while another is under way;
                   \* lossy: sockets close without an error, answers are
                   \* garbled, or lack what they should hold
    down,          \* the servers that cannot be reached
    index,         \* the request for index.js: "loading", "loaded", "failed"
    curr_genesis, blocks, error,     \* GenesisService; blocks: of which chain
    latest_block,                    \* CothorityWebsocket: socket for blocks
    status_sockets,                  \* CothorityWebsocket.status: one per server
    servers, status, timers,         \* StatusService; timers: how many run
    list,                            \* ModuleSkipChain.state
    table                            \* ServersStatus.state

vars == <<env, down, index, curr_genesis, blocks, error, latest_block, status_sockets,
          servers, status, timers, list, table>>

genesis == <<curr_genesis, blocks, error, list>>
roster  == <<servers, status, timers, table, status_sockets>>

\* No server has a status yet.
NoStatus == [s \in Servers |-> "none"]

\* A call of getLatestBlock: the chain, the place in its list of servers, and
\* (history) the servers its requests went to.
Calls == {call \in [id : Chains, at : Nat, asked : SUBSET Servers] :
            call.at \in DOMAIN ServerList[call.id]}

\* Module load and first render: the services exist, the components have
\* subscribed, and index.js was asked for.
Init ==
    /\ env \in Environments
    /\ down \in IF env.lossy THEN {{}} ELSE SUBSET Servers
    /\ index = "loading"
    /\ curr_genesis = None /\ blocks = None /\ error = FALSE
    /\ latest_block = NoSocket
    /\ status_sockets = [s \in Servers |-> NoSocket]
    /\ servers = {} /\ status = NoStatus /\ timers = 0
    /\ list = [loaded |-> FALSE, current |-> None, error |-> FALSE]
    /\ table = NoStatus

-----------------------------------------------------------------------------
(* StatusService                                                           *)

\* getStatus.  Requests to one server are alike, and one event settles all
\* that wait: one listener stands for them.
GetStatus(s) ==
    LET used == CreateSocket(status_sockets[s], s, "status", "status")
    IN  [used EXCEPT !.waiting = <<Head(@)>>,
                     !.sent = SubSeq(@, 1, IF Len(@) < MaxSent THEN Len(@) ELSE MaxSent)]

\* Mutant: it is not cleared.
ClearNoTimer(n) == n

\* clearTimeout on the timer that was armed last.
ClearTimer(n) == IF n > 0 THEN n - 1 ELSE 0

\* Ask every server of the roster, and arm the timer again.
UpdateStatus(polled, running) ==
    /\ status_sockets' = [s \in Servers |-> IF s \in polled THEN GetStatus(s)
                                            ELSE status_sockets[s]]
    /\ timers' = running + 1

\* Mutant: the servers polled are those of the roster before.
OnGenesisUpdatePollsOld(chain) ==
    IF chain = None THEN UNCHANGED roster
    ELSE /\ status' = NoStatus
         /\ servers' = Roster[chain]
         /\ UpdateStatus(servers, ClearTimer(timers))
         /\ UNCHANGED table

\* Mutant: the servers of the roster before are kept.
OnGenesisUpdateAdds(chain) ==
    IF chain = None THEN UNCHANGED roster
    ELSE /\ status' = NoStatus
         /\ servers' = servers \cup Roster[chain]
         /\ UpdateStatus(Roster[chain], ClearTimer(timers))
         /\ UNCHANGED table

\* An update without blocks is left alone; else the statuses start anew.
OnGenesisUpdate(chain) ==
    IF chain = None THEN UNCHANGED roster
    ELSE /\ status' = NoStatus
         /\ servers' = Roster[chain]
         /\ UpdateStatus(Roster[chain], ClearTimer(timers))
         /\ UNCHANGED table

\* The timer of the next round: it is over, so there is none to clear.
Refresh ==
    /\ timers > 0
    /\ UpdateStatus(servers, timers - 1)
    /\ UNCHANGED <<env, down, index, genesis, latest_block, servers, status, table>>

\* Mutant: only a server that answered is shown.
SetStatusOfOnline(s, value) ==
    /\ status' = [status EXCEPT ![s] = value]
    /\ table' = IF value = "online" THEN status' ELSE table

\* A request for the status of s ends, and the table is told.
SetStatus(s, value) ==
    /\ status' = [status EXCEPT ![s] = value]
    /\ table' = status'

\* What happens to the socket of server s.
StatusOpens(s) ==
    /\ status_sockets[s].ready = "connecting" /\ s \notin down
    /\ status_sockets' = [status_sockets EXCEPT ![s] = Opened(@)]
    /\ UNCHANGED <<status, table>>

StatusAnswers(s) ==
    /\ status_sockets[s].ready = "open" /\ s \notin down
    /\ status_sockets[s].sent # <<>>
    /\ status_sockets' = [status_sockets EXCEPT ![s] = Answered(@)]
    /\ \/ status_sockets[s].waiting # <<>> /\ SetStatus(s, "online")
       \/ status_sockets[s].waiting = <<>> /\ UNCHANGED <<status, table>>
       \/ env.lossy /\ UNCHANGED <<status, table>>   \* it cannot be decoded

StatusFails(s) ==
    /\ status_sockets[s].ready # "closed" /\ (s \in down \/ env.lossy)
    /\ status_sockets' = [status_sockets EXCEPT ![s] = Closed(@)]
    /\ IF status_sockets[s].waiting # <<>> THEN SetStatus(s, "offline")
       ELSE UNCHANGED <<status, table>>

\* Only if lossy: the other side closes the connection, and that is no error.
StatusCloses(s) ==
    /\ env.lossy
    /\ \/ /\ status_sockets[s].ready = "open"
          /\ status_sockets' = [status_sockets EXCEPT ![s] = Closing(@)]
       \/ /\ status_sockets[s].ready = "closing"
          /\ status_sockets' = [status_sockets EXCEPT ![s] = Closed(@)]
    /\ UNCHANGED <<status, table>>

StatusEvent(s) ==
    /\ StatusOpens(s) \/ StatusAnswers(s) \/ StatusFails(s) \/ StatusCloses(s)
    /\ UNCHANGED <<env, down, index, genesis, latest_block, servers, timers>>

-----------------------------------------------------------------------------
(* GenesisService and SkipChainService                                     *)

\* updateGenesis with an error: it is kept, and the list shows it.
UpdateWithError ==
    /\ error' = TRUE
    /\ list' = [list EXCEPT !.error = TRUE]

\* updateGenesis without one: the status service and the list are told.
UpdateGenesis(chain, current) ==
    /\ blocks' = chain
    /\ OnGenesisUpdate(chain)
    /\ list' = [list EXCEPT !.loaded = TRUE, !.current = current]

\* _getUpdates from the server at place n of the list of chain id.
GetUpdates(socket, id, n, asked) ==
    LET server == ServerList[id][n]
        used   == CreateSocket(socket, server, id, [id |-> id, at |-> n, asked |-> asked])
    IN  [used EXCEPT !.waiting[Len(used.waiting)].asked = @ \cup {used.to}]

\* getLatestBlock.
GetLatestBlock(id) == latest_block' = GetUpdates(latest_block, id, 1, {})

\* index.js arrives; the first chain is fetched.
IndexArrives ==
    /\ index = "loading"
    /\ index' = "loaded"
    /\ curr_genesis' = FirstChain
    /\ GetLatestBlock(FirstChain)
    /\ UNCHANGED <<env, down, blocks, error, list, roster>>

\* It does not, or it lists no chain.
IndexFails ==
    /\ index = "loading"
    /\ index' = "failed"
    /\ UpdateWithError
    /\ UNCHANGED <<env, down, curr_genesis, blocks, latest_block, roster>>

\* The user clicks a chain of the list, which shows none after an error.
HandleGenesisChange(c) ==
    /\ list.loaded /\ ~list.error /\ c # list.current
    /\ latest_block.waiting = <<>> \/ (env.hurried /\ Len(latest_block.waiting) < MaxCalls)
    /\ Len(latest_block.sent) < MaxCalls
    /\ curr_genesis' = c
    /\ GetLatestBlock(c)
    /\ UNCHANGED <<env, down, index, blocks, error, list, roster>>

ChainOpens ==
    /\ latest_block.ready = "connecting" /\ latest_block.to \notin down
    /\ latest_block' = Opened(latest_block)
    /\ UNCHANGED <<genesis, roster>>

\* The answer to the oldest request resolves every call that waits.  Each of
\* them stores the blocks and tells the listeners: the last one counts.
ChainAnswers ==
    /\ latest_block.ready = "open" /\ latest_block.to \notin down
    /\ latest_block.sent # <<>>
    /\ latest_block' = Answered(latest_block)
    /\ UNCHANGED <<curr_genesis, error>>
    /\ \/ \E id \in Chains :
             /\ latest_block.waiting # <<>> /\ id = Head(latest_block.sent)
             /\ UpdateGenesis(id, curr_genesis)
       \/ /\ latest_block.waiting # <<>> /\ env.lossy   \* the list is empty
          /\ UpdateGenesis(None, curr_genesis)
       \/ /\ latest_block.waiting = <<>> \/ env.lossy   \* it cannot be decoded
          /\ UNCHANGED <<blocks, list, roster>>

\* Mutant: the place in the list is not moved.
TrySameServer(state, call) ==
    [state EXCEPT !.socket = GetUpdates(@, call.id, call.at, call.asked)]

\* onError: the call tries its next server; after the last one it rejects.
TryNextServer(state, call) ==
    IF call.at < Len(ServerList[call.id])
    THEN [state EXCEPT !.socket = GetUpdates(@, call.id, call.at + 1, call.asked)]
    ELSE [state EXCEPT !.rejected = TRUE]

\* What is left of a socket, per n, when onError ran for the first n calls that wait.
AfterErrors(socket) ==
    LET after[n \in 0..Len(latest_block.waiting)] ==
            IF n = 0 THEN [socket |-> socket, rejected |-> FALSE]
            ELSE TryNextServer(after[n - 1], latest_block.waiting[n])
    IN  after

\* Every call that waits fails.
CallsFail(socket) ==
    /\ LET end == AfterErrors(socket)[Len(latest_block.waiting)]
       IN  /\ latest_block' = end.socket
           /\ IF end.rejected THEN UpdateWithError ELSE UNCHANGED <<error, list>>
    /\ UNCHANGED <<curr_genesis, blocks, roster>>

ChainFails ==
    /\ latest_block.ready # "closed" /\ (latest_block.to \in down \/ env.lossy)
    /\ CallsFail(Closed(latest_block))

\* An answer has no list of blocks: "Malformed response".
ChainMalformed ==
    /\ latest_block.ready = "open" /\ latest_block.sent # <<>> /\ env.lossy
    /\ CallsFail(Answered(latest_block))

ChainCloses ==
    /\ env.lossy
    /\ \/ latest_block.ready = "open" /\ latest_block' = Closing(latest_block)
       \/ latest_block.ready = "closing" /\ latest_block' = Closed(latest_block)
    /\ UNCHANGED <<genesis, roster>>

ChainEvent ==
    /\ ChainOpens \/ ChainAnswers \/ ChainMalformed \/ ChainFails \/ ChainCloses
    /\ UNCHANGED <<env, down, index>>

-----------------------------------------------------------------------------
\* A server becomes unreachable, or reachable again.  If connections are lossy
\* they fail whether their server can be reached or not.
ServerChanges(s) ==
    /\ ~env.lossy
    /\ down' = IF s \in down THEN down \ {s} ELSE down \cup {s}
    /\ UNCHANGED <<env, index, genesis, latest_block, roster>>

Next ==
    \/ IndexArrives \/ IndexFails \/ Refresh \/ ChainEvent
    \/ \E c \in Chains : HandleGenesisChange(c)
    \/ \E s \in Servers : StatusEvent(s) \/ ServerChanges(s)

Spec == Init /\ [][Next]_vars

\* A request on a connection ends, one way or the other, and timers fire.
FairSpec ==
    /\ Spec
    /\ WF_vars(ChainEvent) /\ WF_vars(Refresh)
    /\ \A s \in Servers : WF_vars(StatusEvent(s))

-----------------------------------------------------------------------------
\* Every variable has its type.
TypeOK ==
    /\ env \in Environments /\ down \subseteq Servers
    /\ index \in {"loading", "loaded", "failed"}
    /\ curr_genesis \in Chains \cup {None} /\ blocks \in Chains \cup {None}
    /\ error \in BOOLEAN
    /\ latest_block \in Sockets(Servers, Chains, Calls)
    /\ status_sockets \in [Servers -> Sockets(Servers, {"status"}, {"status"})]
    /\ servers \subseteq Servers /\ timers \in Nat
    /\ status \in [Servers -> {"none", "online", "offline"}]
    /\ list \in [loaded : BOOLEAN, current : Chains \cup {None}, error : BOOLEAN]
    /\ table \in [Servers -> {"none", "online", "offline"}]

\* However chains are changed while rounds run, there is one refresh loop:
\* _updateStatus clears the timer of the round before it arms the next.
OneRefreshLoop == timers <= 1 /\ (servers # {} => timers = 1)

\* A server of the roster without a status has a request that will give it one,
\* also when requests made for the chain before were settled meanwhile.
NoneForgotten ==
    ~env.lossy => \A s \in servers :
                      status[s] = "none" => status_sockets[s].waiting # <<>>

\* The table shows the statuses the service has, but for the time between a
\* change of chain and the first answer.
TableFollows == table = status \/ status = NoStatus

\* With a user who waits and sound connections, the blocks kept and the roster
\* polled are those of the chain that is shown as chosen.
ChainMatches ==
    /\ ~env.hurried /\ ~env.lossy
    /\ index = "loaded" /\ ~error /\ latest_block.waiting = <<>>
    => blocks = curr_genesis /\ servers = Roster[curr_genesis] /\ list.current = curr_genesis

\* A call gives up only after each server of its chain was asked.
AsksEveryServer ==
    [][\A i \in DOMAIN latest_block.waiting :
          LET call == latest_block.waiting[i]
          IN  ~error /\ error' /\ call.at = Len(ServerList[call.id])
              => call.asked = ToSet(ServerList[call.id])]_vars

\* Every pick ends with blocks or an error: no call waits for ever, as the
\* failover visits each server of the list once.
PickSettles ==
    (latest_block.waiting # <<>> /\ ~env.lossy) ~> (latest_block.waiting = <<>>)

\* A server of the roster that stays reachable is shown online again and again,
\* whatever happened to its connections before.
Recovers ==
    \A s \in Servers :
        <>[](s \in servers /\ s \notin down /\ ~env.lossy) => []<>(status[s] = "online")
=============================================================================
