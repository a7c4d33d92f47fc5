------------------------------- MODULE Modal -------------------------------
(***************************************************************************)
(* The modal dialog of the vendored bootstrap (js/src/modal.js): one modal,*)
(* its backdrop, and what it does to the document.  A CSS transition that  *)
(* was started ends some time later (emulateTransitionEnd sees to that),   *)
(* and then the callback that waits for it on its element runs.            *)
(***************************************************************************)
EXTENDS Naturals, Sequences

CONSTANTS
    ModalEnvs,     \* see modalEnv
    MaxBackdrops   \* bound: backdrops that are in the document at one time

ASSUME ModalAssumption ==
    /\ ModalEnvs \subseteq
          [fade : BOOLEAN, backdrop : BOOLEAN, prevents : BOOLEAN,
           calls : {"settled", "ui", "api"}]
    /\ MaxBackdrops \in Nat \ {0}

VARIABLES
    modalEnv,      \* class and config; prevents: a listener of the events show and
                   \* hide may prevent them, or throw; calls: the user acts when all
                   \* transitions are over ("settled") or at any time ("ui"), or a
                   \* script calls show and hide ("api")
    modal,         \* the fields of the Modal, and whether its element is displayed
    page,          \* the document: backdrops, class modal-open, padding of the body
    callbacks      \* callbacks that wait for a transition to end, in the order in
                   \* which the transitions end: what they do, and on which backdrop

modalVars == <<modalEnv, modal, page, callbacks>>

Backdrops == 1..MaxBackdrops
NoBackdrop == 0

\* The document before a modal is shown.
PageClean == [backdrops |-> {}, open |-> FALSE, padding |-> "own"]

ModalInit ==
    /\ modalEnv \in ModalEnvs
    /\ modal = [isShown |-> FALSE, isTransitioning |-> FALSE, backdrop |-> NoBackdrop,
                originalBodyPadding |-> "unset", display |-> FALSE]
    /\ page = PageClean
    /\ callbacks = <<>>

\* The handlers below work on the three variables taken together.
State == [modal |-> modal, page |-> page, callbacks |-> callbacks]

Becomes(state) ==
    /\ modal' = state.modal /\ page' = state.page /\ callbacks' = state.callbacks
    /\ UNCHANGED modalEnv

\* .one(TRANSITION_END, ...).emulateTransitionEnd(...)
Wait(state, do, on) == [state EXCEPT !.callbacks = Append(@, [do |-> do, on |-> on])]

\* _showElement's transitionComplete.
TransitionComplete(state) == [state EXCEPT !.modal.isTransitioning = FALSE]

ShowElement(state) ==
    LET displayed == [state EXCEPT !.modal.display = TRUE]
    IN  IF modalEnv.fade THEN Wait(displayed, "shown", NoBackdrop)
        ELSE TransitionComplete(displayed)

\* The callback of _hideModal: class and padding of the body are restored.
ResetPage(state) ==
    [state EXCEPT !.page.open = FALSE, !.page.padding = state.modal.originalBodyPadding]

\* The callbacks that stay when the element of a backdrop goes, in their order.
Staying(waiting, backdrop) ==
    LET among[n \in 0..Len(waiting)] ==
            IF n = 0 THEN <<>>
            ELSE IF waiting[n].on # NoBackdrop /\ waiting[n].on = backdrop THEN among[n - 1]
            ELSE Append(among[n - 1], waiting[n])
    IN  among[Len(waiting)]

\* callbackRemove: the backdrop that the modal has now is removed, and with it the
\* callbacks that wait on it.
RemoveBackdrop(state) ==
    ResetPage([state EXCEPT !.page.backdrops = @ \ {state.modal.backdrop},
                            !.modal.backdrop = NoBackdrop,
                            !.callbacks = Staying(@, state.modal.backdrop)])

\* _showBackdrop for a modal that is shown.
ShowBackdrop(state) ==
    LET new   == CHOOSE b \in Backdrops \ state.page.backdrops : TRUE
        added == [state EXCEPT !.modal.backdrop = new, !.page.backdrops = @ \cup {new}]
    IN  IF ~modalEnv.backdrop THEN ShowElement(state)
        ELSE IF modalEnv.fade THEN Wait(added, "show", new)
        ELSE ShowElement(added)

\* _showBackdrop for one that is hidden.
HideBackdrop(state) ==
    IF state.modal.backdrop = NoBackdrop THEN ResetPage(state)
    ELSE IF modalEnv.fade THEN Wait(state, "remove", state.modal.backdrop)
    ELSE RemoveBackdrop(state)

\* Mutant: the end of the transition is not noted.
HideModalTransitioning(state) == HideBackdrop([state EXCEPT !.modal.display = FALSE])

\* _hideModal.
HideModal(state) ==
    HideBackdrop([state EXCEPT !.modal.display = FALSE, !.modal.isTransitioning = FALSE])

\* _setScrollbar, for a body that overflows.
SetScrollbar(state) ==
    [state EXCEPT !.modal.originalBodyPadding = state.page.padding, !.page.padding = "added"]

\* show.  The transition is noted before it is known whether there will be one.
Show ==
    /\ ~modal.isTransitioning
    /\ Backdrops \ page.backdrops # {}
    /\ LET noted == [State EXCEPT !.modal.isTransitioning = modalEnv.fade]
           shown == SetScrollbar([noted EXCEPT !.modal.isShown = TRUE, !.page.open = TRUE])
       IN  \/ (modal.isShown \/ modalEnv.prevents) /\ Becomes(noted)
           \/ ~modal.isShown /\ Becomes(ShowBackdrop(shown))

\* hide.
Hide ==
    /\ ~modal.isTransitioning
    /\ LET noted  == [State EXCEPT !.modal.isTransitioning = modalEnv.fade]
           hidden == [noted EXCEPT !.modal.isShown = FALSE]
       IN  \/ (~modal.isShown \/ modalEnv.prevents) /\ Becomes(noted)
           \/ /\ modal.isShown
              /\ Becomes(IF modalEnv.fade THEN Wait(hidden, "hide", NoBackdrop)
                         ELSE HideModal(hidden))

\* The user may act.
UserActs == modalEnv.calls = "ui" \/ (modalEnv.calls = "settled" /\ callbacks = <<>>)

\* A click on what toggles the modal.
Toggle == UserActs /\ IF modal.isShown THEN Hide ELSE Show

\* A click on what dismisses it, or on the backdrop, or the escape key.
Dismiss ==
    /\ UserActs
    /\ modal.isShown /\ modal.display
    /\ Hide

\* A script calls the plugin.
Call == modalEnv.calls = "api" /\ (Show \/ Hide)

\* A transition ends.
TransitionEnds ==
    /\ callbacks # <<>>
    /\ LET over == [State EXCEPT !.callbacks = Tail(callbacks)]
           do   == Head(callbacks).do
       IN  Becomes(CASE do = "show"   -> ShowElement(over)
                     [] do = "shown"  -> TransitionComplete(over)
                     [] do = "hide"   -> HideModal(over)
                     [] do = "remove" -> RemoveBackdrop(over))

ModalNext == Toggle \/ Dismiss \/ Call \/ TransitionEnds

ModalSpec == ModalInit /\ [][ModalNext]_modalVars

-----------------------------------------------------------------------------
\* Every variable has its type.
ModalTypeOK ==
    /\ modal \in [isShown : BOOLEAN, isTransitioning : BOOLEAN, display : BOOLEAN,
                  backdrop : Backdrops \cup {NoBackdrop}, originalBodyPadding : {"unset", "own", "added"}]
    /\ page \in [backdrops : SUBSET Backdrops, open : BOOLEAN, padding : {"own", "added"}]
    /\ Len(callbacks) <= 2
    /\ \A i \in DOMAIN callbacks :
          callbacks[i] \in [do : {"show", "shown", "hide", "remove"},
                            on : Backdrops \cup {NoBackdrop}]

\* For a user who waits until all transitions are over, a modal then can be shown
\* or hidden; it is hidden and has left nothing in the document, or is shown with
\* its own backdrop and no other.
ModalSettled ==
    modalEnv.calls = "settled" /\ ~modalEnv.prevents /\ callbacks = <<>> =>
        /\ ~modal.isTransitioning
        /\ modal.display = modal.isShown
        /\ IF modal.isShown
           THEN page.open /\ page.backdrops = {modal.backdrop} \ {NoBackdrop}
           ELSE page = PageClean

\* Whoever calls and whenever: the body has its own padding again when the modal
\* is hidden and its transitions are over.
PaddingRestored == callbacks = <<>> /\ ~modal.isShown => page.padding = "own"

\* What the modal leaves in the document, for users who wait and for those who do not.
ModalSound == ModalSettled /\ PaddingRestored
=============================================================================
