----------------------------- MODULE HtmlViewer -----------------------------
(***************************************************************************)
(* The viewer of web pages that are stored in skipchains: IFrameService,   *)
(* which a page calls by a message "skipchain://id" and ModuleHTML by      *)
(* handleOpenPage, GenesisService.getLatestFromSkipchainID, which finds    *)
(* the latest block of a chain, and HTMLIFrame, which shows its data.      *)
(***************************************************************************)
EXTENDS Naturals, FiniteSets

CONSTANTS
    Sites,         \* genesis IDs of chains of web pages
    NoPage,
    ViewerEnvs,    \* see viewerEnv
    MaxOpens       \* bound: calls of open under way

ASSUME ViewerAssumption ==
    /\ NoPage \notin Sites
    /\ ViewerEnvs \subseteq [sound : BOOLEAN, named : BOOLEAN]
    /\ MaxOpens \in Nat \ {0}

VARIABLES
    viewerEnv,     \* sound: requests succeed;
                   \* named: getLatestFromSkipchainID has the name by which
                   \*        IFrameService calls it, getLatestFromGenesisID, and
                   \*        which its mock in the tests has
    html,          \* HTMLIFrame.state: the chain whose page is shown, or NoPage
    mounted,       \* HTMLIFrame is mounted, and IFrameService has it as listener
    opens,         \* calls of open under way
    wanted         \* (history) the chain that the mounted viewer was last asked to
                   \* show, or NoPage when the user has gone back

viewerVars == <<viewerEnv, html, mounted, opens, wanted>>

ViewerInit ==
    /\ viewerEnv \in ViewerEnvs
    /\ html = NoPage /\ mounted = FALSE /\ opens = {} /\ wanted = NoPage

\* componentWillMount and componentWillUnmount: the page is forgotten with the
\* component, the calls of the service are not.
Mount ==
    /\ mounted' = ~mounted
    /\ html' = NoPage /\ wanted' = NoPage
    /\ UNCHANGED <<viewerEnv, opens>>

\* IFrameService.open, which any message calls: without the method it throws.
Open(id) ==
    /\ Cardinality(opens) < MaxOpens
    /\ wanted' = IF mounted THEN id ELSE NoPage
    /\ opens' = IF viewerEnv.named THEN opens \cup {[id |-> id, step |-> "index"]} ELSE opens
    /\ UNCHANGED <<viewerEnv, html, mounted>>

\* HTMLIFrame.handleBack and IFrameService.back: every listener closes its page.
Back ==
    /\ mounted /\ html # NoPage
    /\ wanted' = NoPage /\ html' = NoPage
    /\ UNCHANGED <<viewerEnv, mounted, opens>>

\* getLatestFromSkipchainID: the servers of the chain are fetched, then asked.
IndexFound(call) ==
    /\ call.step = "index"
    /\ opens' = (opens \ {call}) \cup {[call EXCEPT !.step = "servers"]}
    /\ UNCHANGED html

\* Either request fails, or there is no block: nobody handles the rejection.
OpenRejected(call) ==
    /\ ~viewerEnv.sound
    /\ opens' = opens \ {call}
    /\ UNCHANGED html


\* The block is there: its data is told to the listener, if it still listens.
BlockFound(call) ==
    /\ call.step = "servers"
    /\ opens' = opens \ {call}
    /\ html' = IF mounted THEN call.id ELSE html

CallStep(call) ==
    /\ call \in opens
    /\ IndexFound(call) \/ OpenRejected(call) \/ BlockFound(call)
    /\ UNCHANGED <<viewerEnv, mounted, wanted>>

OpenStep == \E call \in opens : CallStep(call)

ViewerNext == Mount \/ Back \/ OpenStep \/ \E id \in Sites : Open(id)

ViewerSpec == ViewerInit /\ [][ViewerNext]_viewerVars

\* Each request ends one way or the other.
ViewerFairness ==
    \A id \in Sites, step \in {"index", "servers"} :
        WF_viewerVars(CallStep([id |-> id, step |-> step]))

ViewerFairSpec == ViewerSpec /\ ViewerFairness

-----------------------------------------------------------------------------
\* Every variable has its type.
ViewerTypeOK ==
    /\ viewerEnv \in ViewerEnvs
    /\ html \in Sites \cup {NoPage} /\ wanted \in Sites \cup {NoPage} /\ mounted \in BOOLEAN
    /\ opens \subseteq [id : Sites, step : {"index", "servers"}]

=============================================================================
