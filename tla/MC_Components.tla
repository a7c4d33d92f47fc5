--------------------------- MODULE MC_Components ---------------------------
(* The components of the page that do not act on each other, the tool that *)
(* fills the chains of the viewer, and the plugins of the vendored         *)
(* bootstrap.  turn says which of them acts while the others rest.         *)
EXTENDS MC_ModuleSign, ModuleVerify, HtmlViewer, ModuleRandom, WebsiteInliner,
        Modal, Collapse, Carousel, Tooltip, Tab, Dropdown, TLC

CONSTANTS p1, p2, p3

\* Signature files of f1: a good one, one that lacks a server, one of a block
\* that its chain does not have.
Signed(signers, id, block) ==
    [hash |-> f1, signature |-> [file |-> f1, signers |-> signers], genesisID |-> id,
     block |-> block, offline |-> {s4}, known |-> Servers]
SomeSignatures == {Signed({s1, s2, s3}, c1, c1), Signed({s1, s2}, c1, c1),
                   Signed({s1, s2, s3}, c2, c1)}

VerifyEnv(hurried, named) == [hurried |-> hurried, named |-> named]
SomeVerifyEnvs == {VerifyEnv(FALSE, FALSE), VerifyEnv(FALSE, TRUE), VerifyEnv(TRUE, TRUE)}

SomeViewerEnvs == [sound : BOOLEAN, named : BOOLEAN]

\* Two pages that link to each other.
SomeLinks == p1 :> {p2} @@ p2 :> {p1}

SomeModalEnvs == [fade : BOOLEAN, backdrop : BOOLEAN, prevents : BOOLEAN,
                  calls : {"settled", "ui", "api"}]

SomePanelEnvs == [patient : BOOLEAN, prevents : BOOLEAN, opened : {0, 1, 2}]

SomeCarouselEnvs == [wrap : BOOLEAN, animated : BOOLEAN, ride : BOOLEAN,
                     prevents : BOOLEAN, api : BOOLEAN]

SomeTooltipEnvs == [triggers : {{"hover", "focus"}, {"click"}, {"click", "hover"}},
                    animation : BOOLEAN, delayShow : BOOLEAN, delayHide : BOOLEAN,
                    patient : BOOLEAN]

\* The tabs 3 and 4, if any, are in the dropdown; a tab may have no target.
SomeTabEnvs == [patient : BOOLEAN, fade : BOOLEAN, opened : {0, 1, 4},
                menu : {{}, {3, 4}}, paneless : {{}, {2}}]

SomeDropdownEnvs == [touch : BOOLEAN, prevents : SUBSET {"show", "hide"}]

VARIABLE turn

pageVars   == <<signVars, verifyVars, viewerVars, randomVars, inlinerVars>>
pluginVars == <<modalVars, panelVars, carouselVars, tooltipVars, tabVars, dropdownVars>>
vars       == <<turn, pageVars, pluginVars>>

\* The environments of component name: a component that rests has one.
Of(name, envs) == IF turn = name THEN envs ELSE {CHOOSE e \in envs : TRUE}

Init ==
    /\ turn \in {"sign", "verify", "viewer", "random", "inliner",
                "modal", "collapse", "carousel", "tooltip", "tab", "dropdown"}
    /\ signEnv \in Of("sign", SignEnvs)
    /\ verifyEnv \in Of("verify", VerifyEnvs)
    /\ viewerEnv \in Of("viewer", ViewerEnvs)
    /\ randomEnv \in Of("random", RandomEnvs)
    /\ modalEnv \in Of("modal", ModalEnvs)
    /\ panelEnv \in Of("collapse", PanelEnvs)
    /\ carouselEnv \in Of("carousel", CarouselEnvs)
    /\ tooltipEnv \in Of("tooltip", TooltipEnvs)
    /\ tabEnv \in Of("tab", TabEnvs)
    /\ dropdownEnv \in Of("dropdown", DropdownEnvs)
    /\ SignInit /\ VerifyInit /\ ViewerInit /\ RandomInit /\ InlinerInit
    /\ ModalInit /\ CollapseInit /\ CarouselInit /\ TooltipInit /\ TabInit /\ DropdownInit

PageNext ==
    \/ /\ turn = "sign" /\ SignNext
       /\ UNCHANGED <<verifyVars, viewerVars, randomVars, inlinerVars>>
    \/ /\ turn = "verify" /\ VerifyNext
       /\ UNCHANGED <<signVars, viewerVars, randomVars, inlinerVars>>
    \/ /\ turn = "viewer" /\ ViewerNext
       /\ UNCHANGED <<signVars, verifyVars, randomVars, inlinerVars>>
    \/ /\ turn = "random" /\ RandomNext
       /\ UNCHANGED <<signVars, verifyVars, viewerVars, inlinerVars>>
    \/ /\ turn = "inliner" /\ InlinerNext
       /\ UNCHANGED <<signVars, verifyVars, viewerVars, randomVars>>

PluginNext ==
    \/ /\ turn = "modal" /\ ModalNext
       /\ UNCHANGED <<panelVars, carouselVars, tooltipVars, tabVars, dropdownVars>>
    \/ /\ turn = "collapse" /\ CollapseNext
       /\ UNCHANGED <<modalVars, carouselVars, tooltipVars, tabVars, dropdownVars>>
    \/ /\ turn = "carousel" /\ CarouselNext
       /\ UNCHANGED <<modalVars, panelVars, tooltipVars, tabVars, dropdownVars>>
    \/ /\ turn = "tooltip" /\ TooltipNext
       /\ UNCHANGED <<modalVars, panelVars, carouselVars, tabVars, dropdownVars>>
    \/ /\ turn = "tab" /\ TabNext
       /\ UNCHANGED <<modalVars, panelVars, carouselVars, tooltipVars, dropdownVars>>
    \/ /\ turn = "dropdown" /\ DropdownNext
       /\ UNCHANGED <<modalVars, panelVars, carouselVars, tooltipVars, tabVars>>

Next ==
    \/ PageNext /\ UNCHANGED <<turn, pluginVars>>
    \/ PluginNext /\ UNCHANGED <<turn, pageVars>>

Spec == Init /\ [][Next]_vars

FairSpec ==
    /\ Init /\ [][Next]_vars
    /\ SignFairness /\ ViewerFairness /\ RandomFairness

-----------------------------------------------------------------------------
\* The type invariants of the components.
ComponentsTypeOK ==
    /\ SignTypeOK /\ VerifyTypeOK /\ ViewerTypeOK /\ RandomTypeOK /\ InlinerTypeOK
    /\ ModalTypeOK /\ CollapseTypeOK /\ CarouselTypeOK /\ TooltipTypeOK
    /\ TabTypeOK /\ DropdownTypeOK
=============================================================================
