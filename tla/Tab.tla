-------------------------------- MODULE Tab --------------------------------
(***************************************************************************)
(* The tabs of the vendored bootstrap (js/src/tab.js): links, some of them *)
(* in the menu of a dropdown of the same list, and the panes they show.  A *)
(* click moves class active from link to link at once; from pane to pane   *)
(* only when the transition of the pane that was active is over, and clicks*)
(* that come before leave their callbacks on the same pane.                *)
(***************************************************************************)
EXTENDS Naturals, Sequences, FiniteSetsExt

CONSTANTS
    Tabs,          \* the number of tabs
    TabEnvs,       \* see tabEnv
    MaxQuick       \* bound: clicks during one transition

ASSUME TabAssumption ==
    /\ Tabs \in Nat \ {0} /\ MaxQuick \in Nat \ {0}
    /\ TabEnvs \subseteq [patient : BOOLEAN, fade : BOOLEAN, opened : 0..Tabs,
                          menu : SUBSET (1..Tabs), paneless : SUBSET (1..Tabs)]

VARIABLES
    tabEnv,        \* patient: the user waits until the transition is over; fade: panes
                   \* have class fade; opened: the tab that the markup activates, 0 for
                   \* none; menu: tabs in the dropdown; paneless: tabs without a target
    link,          \* the links that have class active, with the toggle of the dropdown
    pane,          \* per pane: has it class active, and class show?
    quick          \* the panes to activate when the transition of the first active
                   \* pane ends, one per callback that waits for it

tabVars == <<tabEnv, link, pane, quick>>

\* The toggle of the dropdown comes after the other links of the list.
MenuToggle == Tabs + 1
ActiveLinks(t) == {t} \cup (IF t \in tabEnv.menu THEN {MenuToggle} ELSE {})

TabInit ==
    /\ tabEnv \in TabEnvs
    /\ link = IF tabEnv.opened = 0 THEN {} ELSE ActiveLinks(tabEnv.opened)
    /\ pane = [p \in 1..Tabs |-> [active |-> p = tabEnv.opened /\ p \notin tabEnv.paneless,
                                  show |-> p = tabEnv.opened /\ p \notin tabEnv.paneless]]
    /\ quick = <<>>

\* _activate of a link, which has no callback and no transition.  The first active
\* link is not looked for in the menu: its toggle stands for it.
ActivateLink(t) ==
    LET direct == link \ tabEnv.menu
    IN  (IF direct = {} THEN link
         ELSE IF Min(direct) = MenuToggle THEN link \ ({MenuToggle} \cup tabEnv.menu)
         ELSE link \ {Min(direct)}) \cup ActiveLinks(t)

\* container.find(ACTIVE_CHILD): the panes that are active, of which the first counts.
ActivePanes == {p \in 1..Tabs : pane[p].active}

\* _transitionComplete: active (the panes of it, none or one) gives way to p.
TransitionOver(panes, p, active) ==
    [q \in 1..Tabs |->
        IF q = p THEN [active |-> TRUE, show |-> tabEnv.fade \/ panes[q].show]
        ELSE [panes[q] EXCEPT !.active = @ /\ q \notin active]]

\* The first active pane, if there is one.
FirstPane == {q \in ActivePanes : \A r \in ActivePanes : q <= r}

\* _activate of a pane.  The pane that was active loses class show in either case.
ActivatePane(p) ==
    LET moves == FirstPane # {} /\ tabEnv.fade
        now   == IF moves THEN pane ELSE TransitionOver(pane, p, FirstPane)
    IN  /\ pane' = [q \in 1..Tabs |-> [now[q] EXCEPT !.show = @ /\ q \notin FirstPane]]
        /\ quick' = IF moves THEN Append(quick, p) ELSE quick

\* show, after a click on the link of t or from a script.  It does nothing when the
\* link is active; a handler of the events that prevents it leaves all as it is.
ShowTab(t) ==
    /\ tabEnv.patient => quick = <<>>
    /\ Len(quick) < MaxQuick
    /\ t \notin link
    /\ link' = ActivateLink(t)
    /\ IF t \in tabEnv.paneless THEN UNCHANGED <<pane, quick>> ELSE ActivatePane(t)
    /\ UNCHANGED tabEnv

\* Mutant: only the callback of the first click runs.
FirstOnly(panes, waiting, active) == TransitionOver(panes, waiting[1], active)

\* The callbacks on the pane whose transition ended, one after the other.
RunQuick(panes, waiting, active) ==
    LET after[n \in 0..Len(waiting)] ==
            IF n = 0 THEN panes ELSE TransitionOver(after[n - 1], waiting[n], active)
    IN  after[Len(waiting)]

PaneTransitionEnds ==
    /\ quick # <<>>
    /\ pane' = RunQuick(pane, quick, FirstPane)
    /\ quick' = <<>>
    /\ UNCHANGED <<tabEnv, link>>

TabNext == (\E t \in 1..Tabs : ShowTab(t)) \/ PaneTransitionEnds

TabSpec == TabInit /\ [][TabNext]_tabVars

-----------------------------------------------------------------------------
\* Every variable has its type, and callbacks wait only on a pane that is active and
\* fades out.
TabTypeOK ==
    /\ tabEnv \in TabEnvs
    /\ link \subseteq 1..MenuToggle
    /\ pane \in [1..Tabs -> [active : BOOLEAN, show : BOOLEAN]]
    /\ quick \in Seq(1..Tabs)
    /\ quick # <<>> => tabEnv.fade /\ FirstPane # {} /\ \A q \in FirstPane : ~pane[q].show

\* However fast the user clicks, and whether links are in the dropdown or not: one
\* link at most is active, and the toggle of the dropdown tells whether it is there.
OneLinkActive ==
    /\ Cardinality(link \ {MenuToggle}) <= 1
    /\ MenuToggle \in link <=> link \cap tabEnv.menu # {}

\* However fast the user clicks: when no transition is under way, the pane of the
\* active link can be seen.
PaneFollowsLink ==
    quick = <<>> =>
        \A t \in (link \ {MenuToggle}) \ tabEnv.paneless :
            pane[t].active /\ (tabEnv.fade => pane[t].show)

\* For a user who waits until the transition is over, one pane at most is active then.
OnePaneActive == tabEnv.patient /\ quick = <<>> => Cardinality(ActivePanes) <= 1

\* Links and panes agree, for users who wait and for those who do not.
TabSound == OneLinkActive /\ PaneFollowsLink /\ OnePaneActive
=============================================================================
