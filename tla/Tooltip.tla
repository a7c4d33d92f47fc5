------------------------------ MODULE Tooltip ------------------------------
(***************************************************************************)
(* One tooltip of the vendored bootstrap (js/src/tooltip.js), which has    *)
(* content, is enabled, and whose events nobody prevents: the triggers that*)
(* ask for it, the delays before it is shown or hidden, and the transitions*)
(* during which show and hide throw.  A throw ends the handler: what it did*)
(* before stays done.                                                      *)
(***************************************************************************)
EXTENDS Naturals

CONSTANT TooltipEnvs \* see tooltipEnv

ASSUME TooltipAssumption ==
    TooltipEnvs \subseteq
        [triggers : SUBSET {"hover", "focus", "click"}, animation : BOOLEAN,
         delayShow : BOOLEAN, delayHide : BOOLEAN, patient : BOOLEAN]

VARIABLES
    tooltipEnv,    \* the config; patient: the user waits while a transition is under way
    tooltip,       \* see TooltipInit
    held           \* the triggers the user holds: the mouse is over the element, the
                   \* element has the focus, it was clicked an odd number of times

tooltipVars == <<tooltipEnv, tooltip, held>>

\* shown: the tip has class show; inserted: it is in the document; fade: it has class
\* fade; described: the element has aria-describedby; timeout: what the delayed call
\* does; pending: what the callback does that waits for the transition of the tip.
TooltipInit ==
    /\ tooltipEnv \in TooltipEnvs
    /\ held = {}
    /\ tooltip = [hoverState |-> "", activeTrigger |-> {}, isTransitioning |-> FALSE,
                  shown |-> FALSE, inserted |-> FALSE, fade |-> FALSE, described |-> FALSE,
                  timeout |-> "none", pending |-> "none"]

\* The callback of hide.
HideComplete(t) ==
    [t EXCEPT !.inserted = @ /\ t.hoverState = "show", !.described = FALSE,
              !.isTransitioning = FALSE]

\* hide
HideTip(t) ==
    LET hidden == [t EXCEPT !.shown = FALSE, !.activeTrigger = {}]
    IN  IF t.isTransitioning THEN t
        ELSE IF t.fade
        THEN [hidden EXCEPT !.isTransitioning = TRUE, !.pending = "hidden", !.hoverState = ""]
        ELSE [HideComplete(hidden) EXCEPT !.hoverState = ""]

\* _leave, of which the caller has noted that a trigger is active no more.
Leave(t) ==
    LET out == [t EXCEPT !.hoverState = "out", !.timeout = "none"]
    IN  IF t.activeTrigger # {} THEN t
        ELSE IF tooltipEnv.delayHide THEN [out EXCEPT !.timeout = "hide"]
        ELSE HideTip(out)

\* Mutant: a leave during the transition is forgotten.
ShowCompletes(t) == [t EXCEPT !.hoverState = "null", !.isTransitioning = FALSE]

\* The callback of show.
ShowComplete(t) ==
    LET done == [t EXCEPT !.hoverState = "null", !.isTransitioning = FALSE]
    IN  IF t.hoverState = "out" THEN Leave(done) ELSE done

\* show
ShowTip(t) ==
    LET shown == [t EXCEPT !.described = TRUE, !.shown = TRUE, !.inserted = TRUE,
                           !.fade = tooltipEnv.animation]
    IN  IF t.isTransitioning THEN t
        ELSE IF tooltipEnv.animation
        THEN [shown EXCEPT !.isTransitioning = TRUE, !.pending = "shown"]
        ELSE ShowComplete(shown)

\* _enter, of which the caller has noted that a trigger is active.
Enter(t) ==
    LET entered == [t EXCEPT !.hoverState = "show"]
    IN  IF t.shown \/ t.hoverState = "show" THEN entered
        ELSE IF tooltipEnv.delayShow THEN [entered EXCEPT !.timeout = "show"]
        ELSE ShowTip([entered EXCEPT !.timeout = "none"])

UserMay == tooltipEnv.patient => tooltip.pending = "none"

\* The mouse enters, or the element gets the focus; and the opposite.
In(trigger) ==
    /\ UserMay
    /\ trigger \in tooltipEnv.triggers \ held
    /\ held' = held \cup {trigger}
    /\ tooltip' = Enter([tooltip EXCEPT !.activeTrigger = @ \cup {trigger}])
    /\ UNCHANGED tooltipEnv

Out(trigger) ==
    /\ UserMay
    /\ trigger \in held
    /\ held' = held \ {trigger}
    /\ tooltip' = Leave([tooltip EXCEPT !.activeTrigger = @ \ {trigger}])
    /\ UNCHANGED tooltipEnv

\* toggle, by a click.
ToggleTip ==
    LET isActive == "click" \in tooltip.activeTrigger
        toggled  == [tooltip EXCEPT !.activeTrigger =
                        IF isActive THEN @ \ {"click"} ELSE @ \cup {"click"}]
    IN  /\ UserMay
        /\ "click" \in tooltipEnv.triggers
        /\ held' = IF "click" \in held THEN held \ {"click"} ELSE held \cup {"click"}
        /\ tooltip' = IF toggled.activeTrigger # {} THEN Enter(toggled) ELSE Leave(toggled)
        /\ UNCHANGED tooltipEnv

\* A delay is over.
DelayOver ==
    LET over == [tooltip EXCEPT !.timeout = "none"]
    IN  /\ tooltip.timeout # "none"
        /\ tooltip' = CASE tooltip.timeout = "show" /\ tooltip.hoverState = "show" -> ShowTip(over)
                        [] tooltip.timeout = "hide" /\ tooltip.hoverState = "out"  -> HideTip(over)
                        [] OTHER -> over
        /\ UNCHANGED <<tooltipEnv, held>>

TipTransitionEnds ==
    LET over == [tooltip EXCEPT !.pending = "none"]
    IN  /\ tooltip.pending # "none"
        /\ tooltip' = IF tooltip.pending = "shown" THEN ShowComplete(over) ELSE HideComplete(over)
        /\ UNCHANGED <<tooltipEnv, held>>

TooltipNext ==
    \/ \E trigger \in {"hover", "focus"} : In(trigger) \/ Out(trigger)
    \/ ToggleTip \/ DelayOver \/ TipTransitionEnds

TooltipSpec == TooltipInit /\ [][TooltipNext]_tooltipVars

-----------------------------------------------------------------------------
TipSettled == tooltip.timeout = "none" /\ tooltip.pending = "none"

\* Every variable has its type, and show and hide throw only while the transition
\* they wait for is under way.
TooltipTypeOK ==
    /\ tooltip.hoverState \in {"", "null", "show", "out"}
    /\ tooltip.activeTrigger \subseteq tooltipEnv.triggers /\ held \subseteq tooltipEnv.triggers
    /\ tooltip.timeout \in {"none", "show", "hide"}
    /\ tooltip.pending \in {"none", "shown", "hidden"}
    /\ tooltip.isTransitioning = (tooltip.pending # "none")

\* However fast the user comes and goes: once nothing is under way and no trigger is
\* held, the tip is out of the document and the element is not described by it.
GoneAfterLeave ==
    TipSettled /\ held = {} => ~tooltip.shown /\ ~tooltip.inserted /\ ~tooltip.described

\* For a user who lets transitions end, the tip is shown while a trigger is held.
ShownWhileHeld ==
    tooltipEnv.patient /\ TipSettled /\ held # {} =>
        tooltip.shown /\ tooltip.inserted /\ tooltip.described

\* The tip follows its triggers, for users who wait and for those who do not.
TooltipSound == GoneAfterLeave /\ ShownWhileHeld
=============================================================================
