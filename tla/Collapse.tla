------------------------------ MODULE Collapse ------------------------------
(***************************************************************************)
(* The accordion of the vendored bootstrap (js/src/collapse.js): panels of *)
(* one parent, each with a trigger.  The Collapse object of a panel is made*)
(* at the first click on its trigger, or when another panel that opens     *)
(* hides it; its constructor toggles the panel before the object is        *)
(* registered, and registers nothing when it throws.                       *)
(***************************************************************************)
EXTENDS Naturals, Sequences

CONSTANTS
    Panels,        \* the number of panels
    PanelEnvs      \* see panelEnv

ASSUME CollapseAssumption ==
    /\ Panels \in Nat \ {0}
    /\ PanelEnvs \subseteq [patient : BOOLEAN, prevents : BOOLEAN, opened : 0..Panels]

VARIABLES
    panelEnv,      \* patient: the user waits until all transitions are over;
                   \* prevents: listeners of the events show and hide may prevent them;
                   \* opened: the panel that is shown in the markup, 0 for none
    panel          \* per panel: see PanelRecords

panelVars == <<panelEnv, panel>>

\* class: "shown" has class show, "moving" has class collapsing; expanded: what
\* aria-expanded tells; object: the registered Collapse; pending: the callbacks that
\* run when the transition of the element ends, of which matters what the last one
\* does, and whether one is the registered object's own.
NoneWaits == [do |-> "none", own |-> FALSE]
NoObject == [transitioning |-> FALSE, parent |-> FALSE, made |-> FALSE]
Made(parent) == [transitioning |-> FALSE, parent |-> parent, made |-> TRUE]

CollapseInit ==
    /\ panelEnv \in PanelEnvs
    /\ panel = [p \in 1..Panels |->
          [class |-> IF p = panelEnv.opened THEN "shown" ELSE "hidden",
           expanded |-> p = panelEnv.opened, object |-> NoObject, pending |-> NoneWaits]]

\* What a handler works on: the panels, and whether it threw.
Good(panels) == [panels |-> panels, threw |-> FALSE]
Threw(panels) == [panels |-> panels, threw |-> TRUE]

\* _addAriaAndCollapsedClass
AddAria(record) == [record EXCEPT !.expanded = (record.class = "shown")]

\* _getParent: what every trigger of the accordion tells is set anew.
GetParent(panels) == [p \in 1..Panels |-> AddAria(panels[p])]

\* The object of a panel starts a transition.
Start(record, do) ==
    LET made == record.object.made
    IN  [record EXCEPT !.class = "moving", !.expanded = (do = "shown"),
                       !.object.transitioning = made,
                       !.pending = [do |-> do, own |-> @.own \/ made]]

\* hide, of the object that p has.  stopped, here and below: the panels whose event is
\* prevented.
HidePanel(panels, p, stopped) ==
    IF panels[p].object.transitioning THEN Threw(panels)
    ELSE Good(IF panels[p].class = "shown" /\ p \notin stopped
              THEN [panels EXCEPT ![p] = Start(@, "hidden")] ELSE panels)

\* _jQueryInterface.call(p, 'hide'): a panel that has no object gets one without a
\* parent.
CallHide(panels, p, stopped) ==
    HidePanel(IF panels[p].object.made THEN panels
              ELSE [panels EXCEPT ![p] = AddAria([@ EXCEPT !.object = Made(FALSE)])],
              p, stopped)

\* The same on one active panel after the other, until one throws.
HideActives(panels, actives, stopped) ==
    LET done[n \in 0..Len(actives)] ==
            IF n = 0 THEN Good(panels)
            ELSE IF done[n - 1].threw THEN done[n - 1]
            ELSE CallHide(done[n - 1].panels, actives[n], stopped)
    IN  done[Len(actives)]

\* $(actives).data(DATA_KEY, null)
Forget(panels, actives) ==
    [p \in 1..Panels |->
        IF \E i \in DOMAIN actives : actives[i] = p
        THEN [panels[p] EXCEPT !.object = NoObject,
                               !.pending.own = FALSE]
        ELSE panels[p]]

\* The panels of the parent that are shown or moving, in the order of the document.
Actives(panels) ==
    LET among[n \in 0..Panels] ==
            IF n = 0 THEN <<>>
            ELSE IF panels[n].class \in {"shown", "moving"} THEN Append(among[n - 1], n)
            ELSE among[n - 1]
    IN  among[Panels]

\* The object that a click makes is registered when its constructor is through.
Register(panels, p) ==
    IF panel[p].object.made THEN panels ELSE [panels EXCEPT ![p].object = Made(TRUE)]

\* Mutant: the panels that are open already stay open.
ShowAlone(panels, p, object, stopped) ==
    Good([Register(panels, p) EXCEPT ![p] = Start(@, "shown")])

\* show, of the object that p has or is to have.
ShowPanel(panels, p, object, stopped) ==
    LET actives == IF object.parent THEN Actives(panels) ELSE <<>>
        First   == panels[actives[1]].object
        hidden  == HideActives(panels, actives, stopped)
    IN  IF object.transitioning THEN Threw(panels)
        ELSE IF \/ actives # <<>> /\ First.transitioning
                \/ p \in stopped THEN Good(Register(panels, p))
        ELSE IF hidden.threw THEN hidden
        ELSE LET left == IF actives # <<>> /\ ~First.made
                         THEN Forget(hidden.panels, actives) ELSE hidden.panels
             IN  Good([Register(left, p) EXCEPT ![p] = Start(@, "shown")])

\* The panels whose event may be prevented during one click.
StoppedPanels == IF panelEnv.prevents THEN SUBSET (1..Panels) ELSE {{}}

PanelSettled == \A p \in 1..Panels : panel[p].pending = NoneWaits

\* A click on the trigger of p: its object toggles it, and is made first if there is
\* none.  A trigger tells whether its panel is expanded: that of a new object that
\* has a parent, like those of all other panels of the parent, anew.
Click(p) ==
    LET object == IF panel[p].object.made THEN panel[p].object ELSE Made(TRUE)
        panels == IF panel[p].object.made THEN panel ELSE GetParent(panel)
    IN  /\ panelEnv.patient => PanelSettled
        /\ \E stopped \in StoppedPanels :
              panel' = (IF panel[p].class = "shown"
                        THEN HidePanel(Register(panels, p), p, stopped)
                        ELSE ShowPanel(panels, p, object, stopped)).panels
        /\ UNCHANGED panelEnv

\* The callbacks that wait for the transition of one element.
Complete(record) ==
    [record EXCEPT !.class = record.pending.do, !.pending = NoneWaits,
                   !.object.transitioning = @ /\ ~record.pending.own]

PanelTransitionEnds(p) ==
    /\ panel[p].pending # NoneWaits
    /\ panel' = [panel EXCEPT ![p] = Complete(@)]
    /\ UNCHANGED panelEnv

CollapseNext == \E p \in 1..Panels : Click(p) \/ PanelTransitionEnds(p)

CollapseSpec == CollapseInit /\ [][CollapseNext]_panelVars

-----------------------------------------------------------------------------
\* Every variable has its type, and a panel that moves waits for its end.
CollapseTypeOK ==
    \A p \in 1..Panels :
        /\ panel[p].class \in {"hidden", "shown", "moving"}
        /\ panel[p].expanded \in BOOLEAN
        /\ (panel[p].class = "moving") = (panel[p].pending # NoneWaits)
        /\ panel[p].object \in [transitioning : BOOLEAN, parent : BOOLEAN, made : BOOLEAN]

\* For a user who waits until all transitions are over, where no listener prevents any:
\* at most one panel of the accordion is open then, and the triggers tell which.
AccordionSettled ==
    panelEnv.patient /\ ~panelEnv.prevents /\ PanelSettled =>
        /\ \A p, q \in 1..Panels : panel[p].class = "shown" /\ panel[q].class = "shown" => p = q
        /\ \A p \in 1..Panels : panel[p].expanded = (panel[p].class = "shown")

\* However fast the user clicks, and whatever is prevented: an object that refuses
\* every call because it is in transition has a callback of its own to come.  No
\* trigger is dead for ever.
NoDeadTrigger ==
    \A p \in 1..Panels : panel[p].object.transitioning => panel[p].pending.own

\* What the accordion comes to, for users who wait and for those who do not.
AccordionSound == AccordionSettled /\ NoDeadTrigger
=============================================================================
