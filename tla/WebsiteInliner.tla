--------------------------- MODULE WebsiteInliner ---------------------------
(***************************************************************************)
(* website-inliner-v2.js, the tool that stores a web site in skipchains:   *)
(* it reads the config (page -> chain) from a chain of its own or creates  *)
(* that chain, fetches all pages that can be reached, creates a chain for  *)
(* each page that has none, saves the config, and stores each page with    *)
(* its links replaced by chains.  The tool scmgr, the chains, and the web  *)
(* site are external; the tool may crash, and be run again, for the config *)
(* chain of a run before, for any other chain, or for a config of its own. *)
(***************************************************************************)
EXTENDS Naturals, FiniteSets

CONSTANTS
    Urls,          \* pages of the site
    Base,          \* baseURL
    Links,         \* per page, the pages it links to
    MaxChains,     \* bound: the chains that can be created
    NoUrl, Unsaved

ASSUME InlinerAssumption ==
    /\ Base \in Urls /\ Links \in [Urls -> SUBSET Urls]
    /\ MaxChains \in Nat /\ NoUrl \notin Urls
    /\ Unsaved \notin [Urls -> Nat]

Ids     == 1..MaxChains   \* chains, in the order they are created
NoChain == 0

VARIABLES
    step,          \* where the tool is, "over" if it failed, "done" if it did not
    config,        \* per page, its chain
    pages,         \* per page, whether it was met ("fetching") or is "fetched"
    updated,       \* the pages that this run stored
    config_block,  \* params.block: the chain of the config, or NoChain
    stored,        \* external: per chain, the config that is saved in it, or Unsaved
    chains         \* external: per chain, whether it exists, the page stored in it,
                   \*           and the chains that links of the page lead to

inlinerVars == <<step, config, pages, updated, config_block, stored, chains>>

NoConfig == [u \in Urls |-> NoChain]
NoPages  == [u \in Urls |-> "unknown"]

Configs == [Urls -> Ids \cup {NoChain}]

InlinerInit ==
    /\ step = "start" /\ config = NoConfig /\ pages = NoPages /\ updated = {}
    /\ config_block = NoChain /\ stored = [id \in Ids |-> Unsaved]
    /\ chains = [id \in Ids |-> [exists |-> FALSE, page |-> NoUrl, links |-> {}]]

\* scmgr create: a new chain.
Create(id) ==
    /\ ~chains[id].exists /\ \A other \in 1..id - 1 : chains[other].exists
    /\ chains' = [chains EXCEPT ![id].exists = TRUE]

\* getPages starts at baseURL.
StartPages == step' = "fetch" /\ pages' = [NoPages EXCEPT ![Base] = "fetching"]

\* The tool is run without a block: the chain of the config is created, with its URL
\* as data.
CreateConfig ==
    /\ step = "start" /\ config_block = NoChain
    /\ \E id \in Ids : Create(id) /\ config_block' = id
    /\ StartPages
    /\ UNCHANGED <<config, updated, stored>>

\* Mutant: the config of the chain that is given is not used.
GetConfigAfresh ==
    /\ step = "start" /\ config_block # NoChain
    /\ StartPages
    /\ UNCHANGED <<config, updated, config_block, stored, chains>>

\* The tool is run for a block: the config is read from its chain.  The tool exits if
\* the data is not a config, be it a page or the URL that the chain was created with.
GetConfig ==
    /\ step = "start" /\ config_block # NoChain
    /\ \/ /\ stored[config_block] = Unsaved
          /\ step' = "over"
          /\ UNCHANGED <<config, pages>>
       \/ /\ stored[config_block] # Unsaved
          /\ config' = stored[config_block]
          /\ StartPages
    /\ UNCHANGED <<updated, config_block, stored, chains>>

\* A page arrives: the pages it links to that were not met before are fetched.
PageArrives(u) ==
    /\ step = "fetch" /\ pages[u] = "fetching"
    /\ pages' = [v \in Urls |-> IF v = u THEN "fetched"
                                ELSE IF v \in Links[u] /\ pages[v] = "unknown" THEN "fetching"
                                ELSE pages[v]]
    /\ UNCHANGED <<step, config, updated, config_block, stored, chains>>

\* All promises of getPages are resolved.
PagesFetched ==
    /\ step = "fetch" /\ \A u \in Urls : pages[u] # "fetching"
    /\ step' = "populate"
    /\ UNCHANGED <<config, pages, updated, config_block, stored, chains>>

Met == {u \in Urls : pages[u] # "unknown"}

\* populateConfig, for a page that is not in the config.
CreateSkipChain(u) ==
    /\ step = "populate" /\ u \in Met /\ config[u] = NoChain
    /\ \E id \in Ids : Create(id) /\ config' = [config EXCEPT ![u] = id]
    /\ UNCHANGED <<step, pages, updated, config_block, stored>>

\* Mutant: the config is not saved.
ConfigUnsaved ==
    /\ step = "populate" /\ \A u \in Met : config[u] # NoChain
    /\ step' = "update"
    /\ UNCHANGED <<config, pages, updated, config_block, stored, chains>>

\* The end of populateConfig: the config is saved if a chain was added.
SaveConfig ==
    /\ step = "populate" /\ \A u \in Met : config[u] # NoChain
    /\ stored' = [stored EXCEPT ![config_block] = config]
    /\ step' = "update"
    /\ UNCHANGED <<config, pages, updated, config_block, chains>>

\* updateURL and updatePageSkipChain, for one page.
UpdatePage(u) ==
    /\ step = "update" /\ u \in Met \ updated
    /\ chains' = [chains EXCEPT ![config[u]].page = u,
                                ![config[u]].links = {config[v] : v \in Links[u]}]
    /\ updated' = updated \cup {u}
    /\ UNCHANGED <<step, config, pages, config_block, stored>>

AllUpdated ==
    /\ step = "update" /\ updated = Met
    /\ step' = "done"
    /\ UNCHANGED <<config, pages, updated, config_block, stored, chains>>

\* A page cannot be fetched, scmgr fails, or the tool is stopped.
Fails ==
    /\ step \in {"start", "fetch", "populate", "update"}
    /\ step' = "over"
    /\ UNCHANGED <<config, pages, updated, config_block, stored, chains>>

\* The tool is run again, for any chain there is or without one.
Rerun ==
    /\ step \in {"over", "done"}
    /\ config_block' \in {NoChain} \cup {id \in Ids : chains[id].exists}
    /\ step' = "start" /\ config' = NoConfig /\ pages' = NoPages /\ updated' = {}
    /\ UNCHANGED <<stored, chains>>

InlinerNext ==
    \/ CreateConfig \/ GetConfig \/ PagesFetched \/ SaveConfig \/ AllUpdated
    \/ Fails \/ Rerun
    \/ \E u \in Urls : PageArrives(u) \/ CreateSkipChain(u) \/ UpdatePage(u)

InlinerSpec == InlinerInit /\ [][InlinerNext]_inlinerVars

-----------------------------------------------------------------------------
\* Every variable has its type.
InlinerTypeOK ==
    /\ step \in {"start", "fetch", "populate", "update", "over", "done"}
    /\ config \in Configs
    /\ pages \in [Urls -> {"unknown", "fetching", "fetched"}] /\ updated \subseteq Urls
    /\ config_block \in Ids \cup {NoChain}
    /\ stored \in [Ids -> Configs \cup {Unsaved}]
    /\ chains \in [Ids -> [exists : BOOLEAN, page : Urls \cup {NoUrl},
                           links : SUBSET (Ids \cup {NoChain})]]

\* A config that is saved.
Saved == {id \in Ids : stored[id] # Unsaved}

\* The site is in the chains: each page that has a chain in the config is stored in
\* it, and so are the pages it links to, where its links lead.
SiteStored(conf) ==
    /\ conf[Base] # NoChain
    /\ \A u \in Urls : conf[u] # NoChain =>
          /\ chains[conf[u]].page = u
          /\ \A v \in Links[u] : conf[v] # NoChain
          /\ chains[conf[u]].links = {conf[v] : v \in Links[u]}

\* A run that ends normally has saved its config and stored the whole site, whatever
\* failed before.
DoneIsComplete ==
    step = "done" => config_block \in Saved /\ SiteStored(stored[config_block])

\* At all times a page that is stored belongs to a saved config, and a link in it leads
\* to the chain that is, or will be, the one of the page: chains of runs that failed
\* before they saved the config are never linked to.
LinksResolve ==
    \A id \in Ids : chains[id].page # NoUrl =>
        \E c \in Saved :
           /\ stored[c][chains[id].page] = id
           /\ chains[id].links
                 \subseteq {stored[c][v] : v \in Links[chains[id].page]} \ {NoChain}

\* No two saved configs, and no two pages, share a chain: a run for one site never
\* writes over a page of another.
ChainsApart ==
    \A c, d \in Saved : \A u, v \in Urls :
        stored[c][u] = stored[d][v] /\ stored[c][u] # NoChain => c = d /\ u = v

\* A page that has a chain keeps it: links from elsewhere stay valid.
ChainsAreKept ==
    [][\A c \in Saved : \A u \in Urls :
          stored[c][u] # NoChain => stored'[c][u] = stored[c][u]]_inlinerVars

\* Whatever fails, and however often the tool is run again, for whichever chain: the
\* links of what is stored resolve, no chain is used twice, and a run that ends normally
\* has stored the whole site.
SiteIsSound == LinksResolve /\ ChainsApart /\ DoneIsComplete
=============================================================================
