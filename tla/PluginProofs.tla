----------------------------- MODULE PluginProofs -----------------------------
(***************************************************************************)
(* What the stateful plugins of the vendored bootstrap keep true however   *)
(* many panels, items, tabs and menus the page has and however fast a user *)
(* clicks.  Each section has a plugin: the types of its states, what each  *)
(* operator of the model makes of a state of its type, the invariant, and  *)
(* why an action keeps it.  Queues of callbacks and of clicks that wait are*)
(* of any length.                                                          *)
(***************************************************************************)
EXTENDS Modal, Collapse, Carousel, Tooltip, Tab, Dropdown,
        Repetition, SequenceTheorems, FiniteSetTheorems, TLAPS

-----------------------------------------------------------------------------
(* The modal.                                                              *)

ModalStates ==
    [isShown : BOOLEAN, isTransitioning : BOOLEAN, display : BOOLEAN,
     backdrop : Backdrops \cup {NoBackdrop}, originalBodyPadding : {"unset", "own", "added"}]
PageStates ==
    [backdrops : SUBSET Backdrops, open : BOOLEAN, padding : {"unset", "own", "added"}]
Callback(do, on) == [do |-> do, on |-> on]
Callbacks == [do : {"show", "shown", "hide", "remove"}, on : Backdrops \cup {NoBackdrop}]
States == [modal : ModalStates, page : PageStates, callbacks : Seq(Callbacks)]

\* A callback that stays, or does not.
LEMMA StayingOne ==
    ASSUME NEW c, NEW backdrop, c.on # NoBackdrop, c.on = backdrop
    PROVE  Staying(<<>>, backdrop) = <<>> /\ Staying(<<c>>, backdrop) = <<>>
<1>1. Staying(<<>>, backdrop) = <<>>
  <2> DEFINE w == <<>>
             next(f, n) == IF n = 0 THEN <<>>
                           ELSE IF w[n].on # NoBackdrop /\ w[n].on = backdrop THEN f[n - 1]
                           ELSE Append(f[n - 1], w[n])
             g == [n \in 0..0 |-> <<>>]
             among == CHOOSE f : f = [n \in 0..0 |-> next(f, n)]
  <2>1. Len(w) = 0
    OBVIOUS
  <2>2. Staying(w, backdrop) = among[0]
    BY <2>1 DEF Staying
  <2> HIDE DEF w
  <2>3. g = [n \in 0..0 |-> next(g, n)]
    OBVIOUS
  <2>4. among = [n \in 0..0 |-> next(among, n)]
    <3> HIDE DEF next, g
    <3> QED
      BY <2>3
  <2>5. among[0] = <<>>
    <3> HIDE DEF among
    <3> QED
      BY <2>4
  <2> QED
    BY <2>2, <2>5 DEF w
<1>2. Staying(<<c>>, backdrop) = <<>>
  <2> DEFINE w == <<c>>
             next(f, n) == IF n = 0 THEN <<>>
                           ELSE IF w[n].on # NoBackdrop /\ w[n].on = backdrop THEN f[n - 1]
                           ELSE Append(f[n - 1], w[n])
             g == [n \in 0..1 |-> <<>>]
             among == CHOOSE f : f = [n \in 0..1 |-> next(f, n)]
  <2>1. Len(w) = 1 /\ w[1] = c
    OBVIOUS
  <2>2. Staying(w, backdrop) = among[1]
    BY <2>1 DEF Staying
  <2> HIDE DEF w
  <2>3. g = [n \in 0..1 |-> next(g, n)]
    BY <2>1
  <2>4. among = [n \in 0..1 |-> next(among, n)]
    <3> HIDE DEF next, g
    <3> QED
      BY <2>3
  <2>5. among[0] = <<>> /\ among[1] = <<>>
    <3> HIDE DEF among
    <3>1. among[0] = <<>>
      BY <2>4
    <3> QED
      BY <2>1, <2>4, <3>1
  <2> QED
    BY <2>2, <2>5 DEF w
<1> QED
  BY <1>1, <1>2

\* What the steps make of a state, field by field.
LEMMA WaitIs ==
    ASSUME NEW s \in States, NEW do \in {"show", "shown", "hide", "remove"},
           NEW on \in Backdrops \cup {NoBackdrop}
    PROVE  LET u == Wait(s, do, on)
           IN  /\ u \in States /\ u.modal = s.modal /\ u.page = s.page
               /\ u.callbacks = Append(s.callbacks, Callback(do, on))
<1> DEFINE more == Append(s.callbacks, Callback(do, on))
           u == [s EXCEPT !.callbacks = more]
<1>1. more \in Seq(Callbacks)
  <2>1. Callback(do, on) \in Callbacks /\ s.callbacks \in Seq(Callbacks)
    BY DEF Callback, Callbacks, States
  <2> QED
    BY <2>1
<1>2. Wait(s, do, on) = u
  BY DEF Wait, Callback
<1> HIDE DEF more
<1>3. u \in States /\ u.modal = s.modal /\ u.page = s.page /\ u.callbacks = more
  BY <1>1 DEF States
<1> QED
  BY <1>2, <1>3 DEF more

LEMMA TransitionCompleteIs ==
    ASSUME NEW s \in States
    PROVE  LET u == TransitionComplete(s)
           IN  /\ u \in States /\ u.page = s.page /\ u.callbacks = s.callbacks
               /\ u.modal.isShown = s.modal.isShown /\ u.modal.isTransitioning = FALSE
               /\ u.modal.display = s.modal.display /\ u.modal.backdrop = s.modal.backdrop
               /\ u.modal.originalBodyPadding = s.modal.originalBodyPadding
  BY DEF States, ModalStates, TransitionComplete

LEMMA ResetPageIs ==
    ASSUME NEW s \in States
    PROVE  LET u == ResetPage(s)
           IN  /\ u \in States /\ u.modal = s.modal /\ u.callbacks = s.callbacks
               /\ u.page.open = FALSE /\ u.page.padding = s.modal.originalBodyPadding
               /\ u.page.backdrops = s.page.backdrops
  BY DEF States, ModalStates, PageStates, ResetPage

LEMMA SetScrollbarIs ==
    ASSUME NEW s \in States
    PROVE  LET u == SetScrollbar(s)
           IN  /\ u \in States /\ u.callbacks = s.callbacks
               /\ u.modal.isShown = s.modal.isShown
               /\ u.modal.isTransitioning = s.modal.isTransitioning
               /\ u.modal.display = s.modal.display /\ u.modal.backdrop = s.modal.backdrop
               /\ u.modal.originalBodyPadding = s.page.padding
               /\ u.page.open = s.page.open /\ u.page.padding = "added"
               /\ u.page.backdrops = s.page.backdrops
  BY DEF States, ModalStates, PageStates, SetScrollbar

LEMMA RemoveBackdropIs ==
    ASSUME NEW s \in States, Staying(s.callbacks, s.modal.backdrop) = <<>>
    PROVE  LET u == RemoveBackdrop(s)
           IN  /\ u \in States /\ u.callbacks = <<>>
               /\ u.modal.isShown = s.modal.isShown
               /\ u.modal.isTransitioning = s.modal.isTransitioning
               /\ u.modal.display = s.modal.display /\ u.modal.backdrop = NoBackdrop
               /\ u.modal.originalBodyPadding = s.modal.originalBodyPadding
               /\ u.page.open = FALSE /\ u.page.padding = s.modal.originalBodyPadding
               /\ u.page.backdrops = s.page.backdrops \ {s.modal.backdrop}
<1> DEFINE a == [s EXCEPT !.page.backdrops = @ \ {s.modal.backdrop}]
           b == [a EXCEPT !.modal.backdrop = NoBackdrop]
           none == <<>>
           c == [b EXCEPT !.callbacks = none]
<1>1. /\ a \in States /\ a.modal = s.modal /\ a.callbacks = s.callbacks
      /\ a.page.open = s.page.open /\ a.page.padding = s.page.padding
      /\ a.page.backdrops = s.page.backdrops \ {s.modal.backdrop}
  BY DEF States, PageStates
<1>2. RemoveBackdrop(s) = ResetPage(c)
  BY DEF RemoveBackdrop
<1> HIDE DEF a
<1>3. /\ b \in States /\ b.page = a.page /\ b.callbacks = a.callbacks
      /\ b.modal.isShown = a.modal.isShown
      /\ b.modal.isTransitioning = a.modal.isTransitioning
      /\ b.modal.display = a.modal.display /\ b.modal.backdrop = NoBackdrop
      /\ b.modal.originalBodyPadding = a.modal.originalBodyPadding
  BY <1>1 DEF States, ModalStates
<1> HIDE DEF b
<1>4. none \in Seq(Callbacks)
  OBVIOUS
<1> HIDE DEF none
<1>5. c \in States /\ c.modal = b.modal /\ c.page = b.page /\ c.callbacks = none
  BY <1>3, <1>4 DEF States
<1> HIDE DEF c
<1>6. /\ ResetPage(c) \in States /\ ResetPage(c).modal = c.modal
      /\ ResetPage(c).callbacks = c.callbacks
      /\ ResetPage(c).page.open = FALSE
      /\ ResetPage(c).page.padding = c.modal.originalBodyPadding
      /\ ResetPage(c).page.backdrops = c.page.backdrops
  BY <1>5, ResetPageIs
<1> QED
  BY <1>1, <1>2, <1>3, <1>5, <1>6 DEF none

\* The phases of a modal, in a state s of the three variables.  Its marks are on the page
\* while it is shown or hides.
OnPage(s) ==
    /\ s.page.open /\ s.page.padding = "added" /\ s.modal.originalBodyPadding = "own"
    /\ s.page.backdrops = {s.modal.backdrop} \ {NoBackdrop}
    /\ modalEnv.backdrop <=> s.modal.backdrop # NoBackdrop

IsHidden(s) ==
    /\ ~s.modal.isShown /\ ~s.modal.display /\ s.modal.backdrop = NoBackdrop
    /\ s.page = PageClean /\ s.callbacks = <<>>

IsShown(s) ==
    /\ s.modal.isShown /\ OnPage(s)
    /\ \/ s.callbacks = <<>> /\ s.modal.display
       \/ /\ s.callbacks = <<Callback("shown", NoBackdrop)>>
          /\ s.modal.display /\ s.modal.isTransitioning
       \/ /\ s.callbacks = <<Callback("show", s.modal.backdrop)>>
          /\ s.modal.backdrop # NoBackdrop /\ s.modal.isTransitioning

Hides(s) ==
    /\ ~s.modal.isShown /\ OnPage(s) /\ modalEnv.fade
    /\ \/ s.callbacks = <<Callback("hide", NoBackdrop)>> /\ s.modal.isTransitioning
       \/ /\ s.callbacks = <<Callback("remove", s.modal.backdrop)>>
          /\ s.modal.backdrop # NoBackdrop /\ ~s.modal.display

\* A modal that is shown again while its backdrop goes takes its new backdrop away with
\* the old one, and waits for a transition that does not end.
IsStuck(s) ==
    /\ s.modal.isShown /\ s.modal.isTransitioning /\ modalEnv.calls # "settled"
    /\ s.page.padding = "added" /\ s.modal.originalBodyPadding = "added"
    /\ \/ s.callbacks = <<>>
       \/ \E b \in Backdrops :
            /\ s.callbacks = <<Callback("remove", b), Callback("show", s.modal.backdrop)>>
            /\ s.modal.backdrop # NoBackdrop

Calm == modalEnv.calls = "settled" /\ ~modalEnv.prevents

ModalGoesOn(s) ==
    /\ s \in States
    /\ IsHidden(s) \/ IsShown(s) \/ Hides(s) \/ IsStuck(s)
    /\ Calm /\ s.modal.isTransitioning =>
          s.callbacks # <<>> /\ s.callbacks # <<Callback("remove", s.modal.backdrop)>>
    /\ s.modal.isTransitioning => modalEnv.fade

ModalInv == modalEnv \in ModalEnvs /\ ModalGoesOn(State)

\* The page is as it was when class and padding are restored and no backdrop is left.
LEMMA PageIsClean ==
    ASSUME NEW s \in States, s.page.open = FALSE, s.page.padding = "own", s.page.backdrops = {}
    PROVE  s.page = PageClean
  BY DEF States, PageStates, PageClean

\* Both ways to end the hiding.
LEMMA HideModalGoesOn ==
    ASSUME NEW s \in States, ~s.modal.isShown, OnPage(s), s.callbacks = <<>>
    PROVE  ModalGoesOn(HideModal(s))
<1> DEFINE d == [s EXCEPT !.modal.display = FALSE]
           t == [d EXCEPT !.modal.isTransitioning = FALSE]
<1>1. /\ d \in States /\ d.page = s.page /\ d.callbacks = <<>>
      /\ d.modal.isShown = s.modal.isShown
      /\ d.modal.display = FALSE /\ d.modal.backdrop = s.modal.backdrop
      /\ d.modal.originalBodyPadding = s.modal.originalBodyPadding
  BY DEF States, ModalStates
<1>2. HideModal(s) = HideBackdrop(t)
  BY DEF HideModal
<1> HIDE DEF d
<1>3. /\ t \in States /\ t.page = s.page /\ t.callbacks = <<>>
      /\ t.modal.isShown = s.modal.isShown /\ t.modal.isTransitioning = FALSE
      /\ t.modal.display = FALSE /\ t.modal.backdrop = s.modal.backdrop
      /\ t.modal.originalBodyPadding = s.modal.originalBodyPadding
  BY <1>1 DEF States, ModalStates
<1> HIDE DEF t
<1>4. OnPage(t) /\ ~t.modal.isShown
  BY <1>3 DEF OnPage
<1>5. CASE t.modal.backdrop = NoBackdrop
  <2> DEFINE u == ResetPage(t)
  <2>1. /\ u \in States /\ u.modal = t.modal /\ u.callbacks = t.callbacks
        /\ u.page.open = FALSE /\ u.page.padding = t.modal.originalBodyPadding
        /\ u.page.backdrops = t.page.backdrops
    BY <1>3, ResetPageIs
  <2> HIDE DEF u
  <2>2. u.page = PageClean
    BY <1>4, <1>5, <2>1, PageIsClean DEF OnPage
  <2>3. ModalGoesOn(u)
    BY <1>3, <1>4, <1>5, <2>1, <2>2 DEF ModalGoesOn, IsHidden
  <2> QED
    BY <1>2, <1>5, <2>3 DEF HideBackdrop, u
<1>6. CASE t.modal.backdrop # NoBackdrop /\ modalEnv.fade
  <2> DEFINE u == Wait(t, "remove", t.modal.backdrop)
  <2>1. t.modal.backdrop \in Backdrops \cup {NoBackdrop}
    BY <1>3 DEF States, ModalStates
  <2>2. /\ u \in States /\ u.modal = t.modal /\ u.page = t.page
        /\ u.callbacks = Append(t.callbacks, Callback("remove", t.modal.backdrop))
    BY <1>3, <2>1, WaitIs
  <2> HIDE DEF u
  <2>3. u.callbacks = <<Callback("remove", u.modal.backdrop)>>
    BY <1>3, <2>2
  <2>4. ModalGoesOn(u)
    BY <1>3, <1>4, <1>6, <2>2, <2>3 DEF ModalGoesOn, Hides, OnPage
  <2> QED
    BY <1>2, <1>6, <2>4 DEF HideBackdrop, u
<1>7. CASE t.modal.backdrop # NoBackdrop /\ ~modalEnv.fade
  <2> DEFINE u == RemoveBackdrop(t)
             c == Callback("remove", t.modal.backdrop)
  <2>1. Staying(t.callbacks, t.modal.backdrop) = <<>>
    <3>1. c.on = t.modal.backdrop
      BY DEF Callback
    <3> HIDE DEF c
    <3> QED
      BY <1>3, <1>7, <3>1, StayingOne
  <2>2. /\ u \in States /\ u.callbacks = <<>>
        /\ u.modal.isShown = t.modal.isShown
        /\ u.modal.isTransitioning = t.modal.isTransitioning
        /\ u.modal.display = t.modal.display /\ u.modal.backdrop = NoBackdrop
        /\ u.page.open = FALSE /\ u.page.padding = t.modal.originalBodyPadding
        /\ u.page.backdrops = t.page.backdrops \ {t.modal.backdrop}
    BY <1>3, <2>1, RemoveBackdropIs
  <2> HIDE DEF u
  <2>3. u.page = PageClean
    BY <1>4, <2>2, PageIsClean DEF OnPage
  <2>4. ModalGoesOn(u)
    BY <1>3, <1>4, <2>2, <2>3 DEF ModalGoesOn, IsHidden
  <2> QED
    BY <1>2, <1>7, <2>4 DEF HideBackdrop, u
<1> QED
  BY <1>5, <1>6, <1>7

\* The modal is displayed: at once, or in a transition.
LEMMA ShowElementGoesOn ==
    ASSUME NEW s \in States, s.modal.isShown, OnPage(s), s.callbacks = <<>>,
           s.modal.isTransitioning = modalEnv.fade
    PROVE  ModalGoesOn(ShowElement(s))
<1> DEFINE d == [s EXCEPT !.modal.display = TRUE]
<1>1. /\ d \in States /\ d.page = s.page /\ d.callbacks = <<>>
      /\ d.modal.isShown = s.modal.isShown /\ d.modal.isTransitioning = s.modal.isTransitioning
      /\ d.modal.display = TRUE /\ d.modal.backdrop = s.modal.backdrop
      /\ d.modal.originalBodyPadding = s.modal.originalBodyPadding
  BY DEF States, ModalStates
<1>2. ShowElement(s) = IF modalEnv.fade THEN Wait(d, "shown", NoBackdrop) ELSE TransitionComplete(d)
  BY DEF ShowElement
<1> HIDE DEF d
<1>3. OnPage(d)
  BY <1>1 DEF OnPage
<1>4. CASE modalEnv.fade
  <2> DEFINE u == Wait(d, "shown", NoBackdrop)
  <2>1. /\ u \in States /\ u.modal = d.modal /\ u.page = d.page
        /\ u.callbacks = Append(d.callbacks, Callback("shown", NoBackdrop))
    BY <1>1, WaitIs
  <2> HIDE DEF u
  <2>2. u.callbacks = <<Callback("shown", NoBackdrop)>> /\ u.callbacks # <<>>
    BY <1>1, <2>1
  <2>3. u.callbacks # <<Callback("remove", u.modal.backdrop)>>
    BY <2>2 DEF Callback
  <2>4. ModalGoesOn(u)
    BY <1>1, <1>3, <1>4, <2>1, <2>2, <2>3 DEF ModalGoesOn, IsShown, OnPage
  <2> QED
    BY <1>2, <1>4, <2>4 DEF u
<1>5. CASE ~modalEnv.fade
  <2> DEFINE u == TransitionComplete(d)
  <2>1. /\ u \in States /\ u.page = d.page /\ u.callbacks = d.callbacks
        /\ u.modal.isShown = d.modal.isShown /\ u.modal.isTransitioning = FALSE
        /\ u.modal.display = d.modal.display /\ u.modal.backdrop = d.modal.backdrop
        /\ u.modal.originalBodyPadding = d.modal.originalBodyPadding
    BY <1>1, TransitionCompleteIs
  <2> HIDE DEF u
  <2>2. ModalGoesOn(u)
    BY <1>1, <1>3, <2>1 DEF ModalGoesOn, IsShown, OnPage
  <2> QED
    BY <1>2, <1>5, <2>2 DEF u
<1> QED
  BY <1>4, <1>5

LEMMA AppendToOne ==
    ASSUME NEW c, NEW d
    PROVE  Append(<<c>>, d) = <<c, d>>
<1> DEFINE S == {c, d}
           s == Append(<<c>>, d)
           t == <<c, d>>
<1>1. <<c>> \in Seq(S) /\ Len(<<c>>) = 1 /\ <<c>>[1] = c /\ d \in S
  OBVIOUS
<1>2. t \in Seq(S) /\ Len(t) = 2 /\ t[1] = c /\ t[2] = d
  OBVIOUS
<1> HIDE DEF S, t
<1>3. s \in Seq(S) /\ Len(s) = 2 /\ s[1] = c /\ s[2] = d
  BY <1>1, AppendProperties
<1> HIDE DEF s
<1>4. \A i \in 1..2 : s[i] = t[i]
  BY <1>2, <1>3
<1>5. s = t
  BY <1>2, <1>3, <1>4, SeqEqual
<1> QED
  BY <1>5 DEF s, t

\* A modal that is shown gets its backdrop, and then is displayed.
LEMMA ShowBackdropGoesOn ==
    ASSUME NEW s \in States, s.modal.isShown, s.modal.isTransitioning = modalEnv.fade,
           s.page.open, s.page.padding = "added", s.modal.originalBodyPadding = "own",
           s.page.backdrops = {}, s.modal.backdrop = NoBackdrop, s.callbacks = <<>>,
           Backdrops \ s.page.backdrops # {}
    PROVE  ModalGoesOn(ShowBackdrop(s))
<1> DEFINE new == CHOOSE b \in Backdrops \ s.page.backdrops : TRUE
           a == [s EXCEPT !.modal.backdrop = new]
           all == s.page.backdrops \cup {new}
           added == [a EXCEPT !.page.backdrops = all]
<1>1. new \in Backdrops \ s.page.backdrops
  OBVIOUS
<1>2. ShowBackdrop(s) = IF ~modalEnv.backdrop THEN ShowElement(s)
                        ELSE IF modalEnv.fade THEN Wait(added, "show", new)
                        ELSE ShowElement(added)
  BY DEF ShowBackdrop
<1> HIDE DEF new, all
<1>3. /\ a \in States /\ a.page = s.page /\ a.callbacks = <<>>
      /\ a.modal.isShown = s.modal.isShown /\ a.modal.isTransitioning = s.modal.isTransitioning
      /\ a.modal.backdrop = new
      /\ a.modal.originalBodyPadding = s.modal.originalBodyPadding
  BY <1>1 DEF States, ModalStates
<1> HIDE DEF a
<1>4. all \in SUBSET Backdrops /\ all = {new}
  BY <1>1 DEF all
<1>5. /\ added \in States /\ added.modal = a.modal /\ added.callbacks = <<>>
      /\ added.page.open = s.page.open /\ added.page.padding = s.page.padding
      /\ added.page.backdrops = {new}
  BY <1>3, <1>4 DEF States, PageStates
<1> HIDE DEF added
<1>6. new # NoBackdrop
  BY <1>1 DEF Backdrops, NoBackdrop
<1>7. CASE ~modalEnv.backdrop
  <2>1. OnPage(s)
    BY <1>7 DEF OnPage
  <2> QED
    BY <1>2, <1>7, <2>1, ShowElementGoesOn
<1>8. CASE modalEnv.backdrop
  <2>1. OnPage(added)
    BY <1>3, <1>5, <1>6, <1>8 DEF OnPage
  <2>2. CASE ~modalEnv.fade
    BY <1>2, <1>3, <1>5, <1>8, <2>1, <2>2, ShowElementGoesOn
  <2>3. CASE modalEnv.fade
    <3> DEFINE u == Wait(added, "show", new)
    <3>1. /\ u \in States /\ u.modal = added.modal /\ u.page = added.page
          /\ u.callbacks = Append(added.callbacks, Callback("show", new))
      BY ZenonT(30), <1>1, <1>5, WaitIs
    <3> HIDE DEF u
    <3>2. u.callbacks = <<Callback("show", u.modal.backdrop)>> /\ u.callbacks # <<>>
      BY <1>3, <1>5, <3>1
    <3>3. u.callbacks # <<Callback("remove", u.modal.backdrop)>>
      BY <3>2 DEF Callback
    <3>4. OnPage(u)
      BY <2>1, <3>1 DEF OnPage
    <3>5. u.modal.isShown /\ u.modal.isTransitioning /\ u.modal.backdrop # NoBackdrop
      BY <1>3, <1>5, <1>6, <2>3, <3>1
    <3>6. ModalGoesOn(u)
      BY <2>3, <3>1, <3>2, <3>3, <3>4, <3>5 DEF ModalGoesOn, IsShown
    <3> QED
      BY <1>2, <1>8, <2>3, <3>6 DEF u
  <2> QED
    BY <2>2, <2>3
<1> QED
  BY <1>7, <1>8

\* One that is shown while its old backdrop goes.
LEMMA ShowBackdropIsStuck ==
    ASSUME NEW s \in States, NEW b \in Backdrops, s.modal.isShown, s.modal.isTransitioning,
           modalEnv.fade, modalEnv.backdrop, modalEnv.calls # "settled",
           s.callbacks = <<Callback("remove", b)>>,
           s.page.padding = "added", s.modal.originalBodyPadding = "added",
           Backdrops \ s.page.backdrops # {}
    PROVE  ModalGoesOn(ShowBackdrop(s))
<1> DEFINE new == CHOOSE x \in Backdrops \ s.page.backdrops : TRUE
           a == [s EXCEPT !.modal.backdrop = new]
           all == s.page.backdrops \cup {new}
           added == [a EXCEPT !.page.backdrops = all]
           u == Wait(added, "show", new)
<1>1. new \in Backdrops \ s.page.backdrops
  OBVIOUS
<1>2. ShowBackdrop(s) = u
  BY DEF ShowBackdrop
<1> HIDE DEF new, all
<1>3. /\ a \in States /\ a.page = s.page /\ a.callbacks = s.callbacks
      /\ a.modal.isShown = s.modal.isShown /\ a.modal.isTransitioning = s.modal.isTransitioning
      /\ a.modal.backdrop = new /\ a.modal.originalBodyPadding = "added"
  BY <1>1 DEF States, ModalStates
<1> HIDE DEF a
<1>4. all \in SUBSET Backdrops
  BY <1>1 DEF all, States, PageStates
<1>5. /\ added \in States /\ added.modal = a.modal /\ added.callbacks = s.callbacks
      /\ added.page.padding = "added"
  BY <1>3, <1>4 DEF States, PageStates
<1> HIDE DEF added
<1>6. new # NoBackdrop
  BY <1>1 DEF Backdrops, NoBackdrop
<1>7. /\ u \in States /\ u.modal = added.modal /\ u.page = added.page
      /\ u.callbacks = Append(added.callbacks, Callback("show", new))
  BY <1>1, <1>5, WaitIs
<1> HIDE DEF u
<1>8. u.callbacks = <<Callback("remove", b), Callback("show", u.modal.backdrop)>>
  <2> DEFINE c == Callback("remove", b)
             d == Callback("show", new)
  <2>1. added.callbacks = <<c>> /\ u.callbacks = Append(added.callbacks, d)
    BY <1>5, <1>7
  <2> HIDE DEF c, d
  <2>2. u.callbacks = <<c, d>>
    BY <2>1, AppendToOne
  <2>3. new = u.modal.backdrop
    BY <1>3, <1>5, <1>7
  <2> QED
    BY <2>2, <2>3 DEF c, d
<1>9. IsStuck(u)
  BY <1>3, <1>5, <1>6, <1>7, <1>8 DEF IsStuck
<1> QED
  BY <1>2, <1>7, <1>9 DEF ModalGoesOn, Calm

\* The state in which show and hide note the transition.
Noted == [State EXCEPT !.modal.isTransitioning = modalEnv.fade]

LEMMA NotedIs ==
    ASSUME ModalInv
    PROVE  LET u == Noted
           IN  /\ u \in States /\ u.page = page /\ u.callbacks = callbacks
               /\ u.modal.isShown = modal.isShown /\ u.modal.isTransitioning = modalEnv.fade
               /\ u.modal.display = modal.display /\ u.modal.backdrop = modal.backdrop
               /\ u.modal.originalBodyPadding = modal.originalBodyPadding
<1> DEFINE s == State
           f == modalEnv.fade
           u == [s EXCEPT !.modal.isTransitioning = f]
<1>1. s \in States /\ s.modal = modal /\ s.page = page /\ s.callbacks = callbacks
  BY DEF ModalInv, ModalGoesOn, State
<1>2. f \in BOOLEAN
  BY ModalAssumption DEF ModalInv
<1>3. Noted = u
  BY DEF Noted
<1> HIDE DEF s, f
<1>4. /\ u \in States /\ u.page = s.page /\ u.callbacks = s.callbacks
      /\ u.modal.isShown = s.modal.isShown /\ u.modal.isTransitioning = f
      /\ u.modal.display = s.modal.display /\ u.modal.backdrop = s.modal.backdrop
      /\ u.modal.originalBodyPadding = s.modal.originalBodyPadding
  BY <1>1, <1>2 DEF States, ModalStates
<1> QED
  BY <1>1, <1>3, <1>4 DEF f

\* The next state is one of the phases.
LEMMA BecomesGoesOn ==
    ASSUME ModalInv, NEW s, ModalGoesOn(s), Becomes(s)
    PROVE  ModalInv'
<1>1. s \in States
  BY DEF ModalGoesOn
<1>2. s = [modal |-> s.modal, page |-> s.page, callbacks |-> s.callbacks]
  BY <1>1 DEF States
<1>3. State' = s
  BY <1>2 DEF State, Becomes
<1>4. modalEnv' = modalEnv
  BY DEF Becomes
<1> QED
  BY <1>3, <1>4 DEF ModalInv, ModalGoesOn, IsHidden, IsShown, Hides, IsStuck, OnPage, Calm

\* A call that only notes the transition: nobody who is calm does that.
LEMMA NotedGoesOn ==
    ASSUME ModalInv, ~modal.isTransitioning, ~Calm
    PROVE  ModalGoesOn(Noted)
<1> DEFINE u == Noted
<1>1. /\ u \in States /\ u.page = page /\ u.callbacks = callbacks
      /\ u.modal.isShown = modal.isShown /\ u.modal.isTransitioning = modalEnv.fade
      /\ u.modal.display = modal.display /\ u.modal.backdrop = modal.backdrop
      /\ u.modal.originalBodyPadding = modal.originalBodyPadding
  BY NotedIs
<1> HIDE DEF u
<1>2. /\ State.modal = modal /\ State.page = page /\ State.callbacks = callbacks
      /\ IsHidden(State) \/ IsShown(State) \/ Hides(State)
  BY DEF ModalInv, ModalGoesOn, IsStuck, State
<1> SUFFICES ModalGoesOn(u)
  BY DEF u
<1>3. CASE IsHidden(State)
  BY <1>1, <1>2, <1>3 DEF ModalGoesOn, IsHidden
<1>4. CASE IsShown(State)
  <2>1. callbacks = <<>> /\ modal.display
    BY <1>2, <1>4 DEF IsShown
  <2> QED
    BY <1>1, <1>2, <1>4, <2>1 DEF ModalGoesOn, IsShown, OnPage
<1>5. CASE Hides(State)
  BY <1>1, <1>2, <1>5 DEF ModalGoesOn, Hides, OnPage
<1> QED
  BY <1>2, <1>3, <1>4, <1>5

\* show, called by one who has the modal hidden if he is calm.
LEMMA ShowGoesOn ==
    ASSUME ModalInv, Show, Calm => callbacks = <<>> /\ ~modal.isShown,
           modalEnv.calls = "settled" => callbacks = <<>>
    PROVE  ModalInv'
<1> DEFINE noted == Noted
           a == [noted EXCEPT !.modal.isShown = TRUE]
           b == [a EXCEPT !.page.open = TRUE]
           shown == SetScrollbar(b)
<1>1. ~modal.isTransitioning /\ Backdrops \ page.backdrops # {}
  BY DEF Show
<1>2. \/ (modal.isShown \/ modalEnv.prevents) /\ Becomes(noted)
      \/ ~modal.isShown /\ Becomes(ShowBackdrop(shown))
  BY DEF Show, Noted
<1>3. /\ noted \in States /\ noted.page = page /\ noted.callbacks = callbacks
      /\ noted.modal.isShown = modal.isShown /\ noted.modal.isTransitioning = modalEnv.fade
      /\ noted.modal.display = modal.display /\ noted.modal.backdrop = modal.backdrop
      /\ noted.modal.originalBodyPadding = modal.originalBodyPadding
  BY NotedIs
<1>4. CASE (modal.isShown \/ modalEnv.prevents) /\ Becomes(noted)
  BY <1>1, <1>4, NotedGoesOn, BecomesGoesOn DEF Calm
<1>5. CASE ~modal.isShown /\ Becomes(ShowBackdrop(shown))
  <2> HIDE DEF noted
  <2>1. /\ a \in States /\ a.page = page /\ a.callbacks = callbacks
        /\ a.modal.isShown = TRUE /\ a.modal.isTransitioning = modalEnv.fade
        /\ a.modal.backdrop = modal.backdrop
    BY <1>3 DEF States, ModalStates
  <2> HIDE DEF a
  <2>2. /\ b \in States /\ b.modal = a.modal /\ b.callbacks = callbacks
        /\ b.page.open = TRUE /\ b.page.padding = page.padding
        /\ b.page.backdrops = page.backdrops
    BY <2>1 DEF States, PageStates
  <2> HIDE DEF b
  <2>3. /\ shown \in States /\ shown.callbacks = callbacks
        /\ shown.modal.isShown /\ shown.modal.isTransitioning = modalEnv.fade
        /\ shown.modal.backdrop = modal.backdrop
        /\ shown.modal.originalBodyPadding = page.padding
        /\ shown.page.open /\ shown.page.padding = "added"
        /\ shown.page.backdrops = page.backdrops
    BY <2>1, <2>2, SetScrollbarIs
  <2> HIDE DEF shown
  <2>4. /\ State.modal = modal /\ State.page = page /\ State.callbacks = callbacks
        /\ IsHidden(State) \/ Hides(State)
    BY <1>5 DEF ModalInv, ModalGoesOn, IsStuck, IsShown, State
  <2>5. CASE IsHidden(State)
    <3>1. page.backdrops = {} /\ page.padding = "own" /\ modal.backdrop = NoBackdrop
          /\ callbacks = <<>>
      BY <2>4, <2>5 DEF IsHidden, PageClean
    <3>2. ModalGoesOn(ShowBackdrop(shown))
      BY <1>1, <2>3, <3>1, ShowBackdropGoesOn
    <3> QED
      BY <1>5, <3>2, BecomesGoesOn
  <2>6. CASE Hides(State)
    <3>1. /\ callbacks = <<Callback("remove", modal.backdrop)>>
          /\ modal.backdrop # NoBackdrop /\ modalEnv.fade /\ modalEnv.backdrop
          /\ page.padding = "added"
      BY <1>1, <2>4, <2>6 DEF Hides, OnPage
    <3>2. callbacks # <<>>
      BY <3>1
    <3>3. modal.backdrop \in Backdrops
      BY <3>1, <1>3 DEF States, ModalStates
    <3>4. ModalGoesOn(ShowBackdrop(shown))
      BY <1>1, <2>3, <3>1, <3>2, <3>3, ShowBackdropIsStuck
    <3> QED
      BY <1>5, <3>4, BecomesGoesOn
  <2> QED
    BY <2>4, <2>5, <2>6
<1> QED
  BY <1>2, <1>4, <1>5

\* hide, called by one who has the modal shown if he is calm.
LEMMA HideGoesOn ==
    ASSUME ModalInv, Hide, Calm => modal.isShown
    PROVE  ModalInv'
<1> DEFINE noted == Noted
           hidden == [noted EXCEPT !.modal.isShown = FALSE]
<1>1. ~modal.isTransitioning
  BY DEF Hide
<1>2. \/ (~modal.isShown \/ modalEnv.prevents) /\ Becomes(noted)
      \/ /\ modal.isShown
         /\ Becomes(IF modalEnv.fade THEN Wait(hidden, "hide", NoBackdrop)
                    ELSE HideModal(hidden))
  BY DEF Hide, Noted
<1>3. /\ noted \in States /\ noted.page = page /\ noted.callbacks = callbacks
      /\ noted.modal.isShown = modal.isShown /\ noted.modal.isTransitioning = modalEnv.fade
      /\ noted.modal.display = modal.display /\ noted.modal.backdrop = modal.backdrop
      /\ noted.modal.originalBodyPadding = modal.originalBodyPadding
  BY NotedIs
<1>4. CASE (~modal.isShown \/ modalEnv.prevents) /\ Becomes(noted)
  BY <1>1, <1>4, NotedGoesOn, BecomesGoesOn DEF Calm
<1>5. CASE /\ modal.isShown
           /\ Becomes(IF modalEnv.fade THEN Wait(hidden, "hide", NoBackdrop)
                      ELSE HideModal(hidden))
  <2> HIDE DEF noted
  <2>1. /\ hidden \in States /\ hidden.page = page /\ hidden.callbacks = callbacks
        /\ hidden.modal.isShown = FALSE /\ hidden.modal.isTransitioning = modalEnv.fade
        /\ hidden.modal.display = modal.display /\ hidden.modal.backdrop = modal.backdrop
        /\ hidden.modal.originalBodyPadding = modal.originalBodyPadding
    BY <1>3 DEF States, ModalStates
  <2> HIDE DEF hidden
  <2>2. /\ State.modal = modal /\ State.page = page /\ State.callbacks = callbacks
        /\ IsShown(State)
    BY <1>1, <1>5 DEF ModalInv, ModalGoesOn, IsStuck, IsHidden, Hides, State
  <2>3. callbacks = <<>> /\ OnPage(hidden)
    BY <1>1, <2>1, <2>2 DEF IsShown, OnPage
  <2>4. CASE ~modalEnv.fade
    BY <1>5, <2>1, <2>3, <2>4, HideModalGoesOn, BecomesGoesOn
  <2>5. CASE modalEnv.fade
    <3> DEFINE u == Wait(hidden, "hide", NoBackdrop)
    <3>1. /\ u \in States /\ u.modal = hidden.modal /\ u.page = hidden.page
          /\ u.callbacks = Append(hidden.callbacks, Callback("hide", NoBackdrop))
      BY <2>1, WaitIs
    <3>2. Becomes(u)
      BY <1>5, <2>5
    <3> HIDE DEF u
    <3>3. u.callbacks = <<Callback("hide", NoBackdrop)>> /\ u.callbacks # <<>>
      <4>1. hidden.callbacks = <<>>
        BY <2>1, <2>3
      <4> QED
        BY <3>1, <4>1
    <3>4. u.callbacks # <<Callback("remove", u.modal.backdrop)>>
      BY <3>3 DEF Callback
    <3>5. OnPage(u) /\ ~u.modal.isShown /\ u.modal.isTransitioning
      BY <2>1, <2>3, <2>5, <3>1 DEF OnPage
    <3>6. ModalGoesOn(u)
      BY <2>5, <3>1, <3>3, <3>4, <3>5 DEF ModalGoesOn, Hides
    <3> QED
      BY <3>2, <3>6, BecomesGoesOn
  <2> QED
    BY <2>4, <2>5
<1> QED
  BY <1>2, <1>4, <1>5

\* The backdrop of a modal that hides goes: it is hidden.
LEMMA RemovedWhenHiding ==
    ASSUME NEW s \in States, ~s.modal.isShown, ~s.modal.display, OnPage(s),
           s.modal.backdrop # NoBackdrop, s.callbacks = <<>>,
           Calm => ~s.modal.isTransitioning, s.modal.isTransitioning => modalEnv.fade
    PROVE  ModalGoesOn(RemoveBackdrop(s))
<1> DEFINE u == RemoveBackdrop(s)
<1>1. Staying(s.callbacks, s.modal.backdrop) = <<>>
  <2> DEFINE d == Callback("remove", s.modal.backdrop)
  <2>1. d.on = s.modal.backdrop
    BY DEF Callback
  <2> HIDE DEF d
  <2> QED
    BY <2>1, StayingOne
<1>2. /\ u \in States /\ u.callbacks = <<>>
      /\ u.modal.isShown = s.modal.isShown
      /\ u.modal.isTransitioning = s.modal.isTransitioning
      /\ u.modal.display = s.modal.display /\ u.modal.backdrop = NoBackdrop
      /\ u.page.open = FALSE /\ u.page.padding = s.modal.originalBodyPadding
      /\ u.page.backdrops = s.page.backdrops \ {s.modal.backdrop}
  BY <1>1, RemoveBackdropIs
<1> HIDE DEF u
<1>3. u.page = PageClean
  BY <1>2, PageIsClean DEF OnPage
<1> QED
  BY <1>2, <1>3 DEF ModalGoesOn, IsHidden, u

\* The wrong backdrop goes: the modal that was shown again waits for ever.
LEMMA RemovedWhenStuck ==
    ASSUME NEW s \in States, s.modal.isShown, s.modal.isTransitioning,
           modalEnv.calls # "settled", modalEnv.fade, s.modal.backdrop # NoBackdrop,
           s.callbacks = <<Callback("show", s.modal.backdrop)>>,
           s.modal.originalBodyPadding = "added"
    PROVE  ModalGoesOn(RemoveBackdrop(s))
<1> DEFINE u == RemoveBackdrop(s)
<1>1. Staying(s.callbacks, s.modal.backdrop) = <<>>
  <2> DEFINE d == Callback("show", s.modal.backdrop)
  <2>1. d.on = s.modal.backdrop
    BY DEF Callback
  <2>2. s.callbacks = <<d>>
    OBVIOUS
  <2> HIDE DEF d
  <2> QED
    BY <2>1, <2>2, StayingOne
<1>2. /\ u \in States /\ u.callbacks = <<>>
      /\ u.modal.isShown = s.modal.isShown
      /\ u.modal.isTransitioning = s.modal.isTransitioning
      /\ u.modal.originalBodyPadding = s.modal.originalBodyPadding
      /\ u.page.padding = s.modal.originalBodyPadding
  BY <1>1, RemoveBackdropIs
<1> HIDE DEF u
<1> QED
  BY <1>2 DEF ModalGoesOn, IsStuck, Calm, u

\* A transition ends.
LEMMA TransitionEndsGoesOn ==
    ASSUME ModalInv, TransitionEnds
    PROVE  ModalInv'
<1> DEFINE s == State
           rest == Tail(callbacks)
           over == [s EXCEPT !.callbacks = rest]
           do == Head(callbacks).do
<1>1. /\ s \in States /\ s.modal = modal /\ s.page = page /\ s.callbacks = callbacks
      /\ callbacks # <<>> /\ callbacks \in Seq(Callbacks)
  BY DEF ModalInv, ModalGoesOn, State, TransitionEnds, States
<1>2. rest \in Seq(Callbacks)
  BY <1>1
<1>3. Becomes(CASE do = "show"   -> ShowElement(over)
                [] do = "shown"  -> TransitionComplete(over)
                [] do = "hide"   -> HideModal(over)
                [] do = "remove" -> RemoveBackdrop(over))
  BY DEF TransitionEnds
<1>4. IsShown(s) \/ Hides(s) \/ IsStuck(s)
  BY <1>1 DEF ModalInv, ModalGoesOn, IsHidden
<1>5. /\ Calm /\ modal.isTransitioning => callbacks # <<Callback("remove", modal.backdrop)>>
      /\ modal.isTransitioning => modalEnv.fade
  BY <1>1 DEF ModalInv, ModalGoesOn
<1>6. modalEnv.fade \in BOOLEAN
  BY ModalAssumption DEF ModalInv
<1> HIDE DEF s, rest
<1>7. over \in States /\ over.modal = modal /\ over.page = page /\ over.callbacks = rest
  BY <1>1, <1>2 DEF States
<1> HIDE DEF over
<1>8. ASSUME NEW what, NEW on, callbacks = <<Callback(what, on)>>
      PROVE  do = what /\ rest = <<>>
  <2> DEFINE c == Callback(what, on)
  <2>1. callbacks = <<c>> /\ c.do = what
    BY <1>8 DEF Callback
  <2> HIDE DEF c
  <2>2. Head(callbacks) = c /\ Tail(callbacks) = <<>>
    BY <2>1
  <2> QED
    BY <2>1, <2>2 DEF rest
<1> HIDE DEF do
<1> SUFFICES ASSUME NEW u, Becomes(u),
                    u = CASE do = "show"   -> ShowElement(over)
                          [] do = "shown"  -> TransitionComplete(over)
                          [] do = "hide"   -> HideModal(over)
                          [] do = "remove" -> RemoveBackdrop(over)
             PROVE  ModalGoesOn(u)
  BY <1>3, BecomesGoesOn
<1>9. CASE IsShown(s)
  <2>1. OnPage(over) /\ over.modal.isShown
    BY <1>1, <1>7, <1>9 DEF IsShown, OnPage
  <2>2. CASE callbacks = <<Callback("shown", NoBackdrop)>> /\ modal.display
    <3>1. do = "shown" /\ rest = <<>>
      BY <1>8, <2>2
    <3>2. u = TransitionComplete(over)
      BY <3>1
    <3>3. /\ u \in States /\ u.page = over.page /\ u.callbacks = over.callbacks
          /\ u.modal.isShown = over.modal.isShown /\ u.modal.isTransitioning = FALSE
          /\ u.modal.display = over.modal.display /\ u.modal.backdrop = over.modal.backdrop
          /\ u.modal.originalBodyPadding = over.modal.originalBodyPadding
      BY ZenonT(30), <1>7, <3>2, TransitionCompleteIs
    <3>4. OnPage(u)
      BY <2>1, <3>3 DEF OnPage
    <3>5. u.modal.isShown /\ u.modal.display /\ u.callbacks = <<>>
      BY <1>7, <2>1, <2>2, <3>1, <3>3
    <3> QED
      BY <3>3, <3>4, <3>5 DEF ModalGoesOn, IsShown
  <2>3. CASE callbacks = <<Callback("show", modal.backdrop)>> /\ modal.isTransitioning
    <3>1. do = "show" /\ rest = <<>>
      BY <1>8, <2>3
    <3>2. u = ShowElement(over)
      BY <3>1
    <3>3. over.modal.isTransitioning = modalEnv.fade
      <4>1. modal.isTransitioning \in BOOLEAN
        BY <1>1 DEF States, ModalStates
      <4> QED
        BY <1>5, <1>6, <1>7, <2>3, <4>1
    <3> QED
      BY <1>7, <2>1, <3>1, <3>2, <3>3, ShowElementGoesOn
  <2> QED
    BY <1>1, <1>9, <2>2, <2>3 DEF IsShown
<1>10. CASE Hides(s)
  <2>1. OnPage(over) /\ ~over.modal.isShown
    BY <1>1, <1>7, <1>10 DEF Hides, OnPage
  <2>2. CASE callbacks = <<Callback("hide", NoBackdrop)>>
    <3>1. do = "hide" /\ rest = <<>>
      BY <1>8, <2>2
    <3>2. u = HideModal(over)
      BY <3>1
    <3> QED
      BY <1>7, <2>1, <3>1, <3>2, HideModalGoesOn
  <2>3. CASE /\ callbacks = <<Callback("remove", modal.backdrop)>>
             /\ modal.backdrop # NoBackdrop /\ ~modal.display
    <3>1. do = "remove" /\ rest = <<>>
      BY <1>8, <2>3
    <3>2. u = RemoveBackdrop(over)
      BY <3>1
    <3>3. Calm => ~modal.isTransitioning
      BY <1>5, <2>3
    <3> QED
      BY <1>5, <1>7, <2>1, <2>3, <3>1, <3>2, <3>3, RemovedWhenHiding
  <2> QED
    BY <1>1, <1>10, <2>2, <2>3 DEF Hides
<1>11. CASE IsStuck(s)
  <2>1. PICK b \in Backdrops :
           callbacks = <<Callback("remove", b), Callback("show", modal.backdrop)>>
    BY <1>1, <1>11 DEF IsStuck
  <2>2. do = "remove" /\ rest = <<Callback("show", modal.backdrop)>>
    <3> DEFINE c == Callback("remove", b)
               d == Callback("show", modal.backdrop)
    <3>1. callbacks = <<c, d>> /\ c.do = "remove"
      BY <2>1 DEF Callback
    <3> HIDE DEF c, d
    <3>2. Head(callbacks) = c /\ Tail(callbacks) = <<d>>
      BY <3>1
    <3> QED
      BY <3>1, <3>2 DEF rest, do, d
  <2>3. u = RemoveBackdrop(over)
    BY <2>2
  <2>4. /\ modal.isShown /\ modal.isTransitioning /\ modalEnv.calls # "settled"
        /\ modal.backdrop # NoBackdrop /\ modal.originalBodyPadding = "added"
    BY <1>1, <2>1, <1>11 DEF IsStuck
  <2> QED
    BY <1>5, <1>7, <2>2, <2>3, <2>4, RemovedWhenStuck
<1> QED
  BY <1>4, <1>9, <1>10, <1>11

\* The invariant of the modal holds.
LEMMA ModalPhases == ModalSpec => []ModalInv
<1>1. ModalInit => ModalInv
  <2> SUFFICES ASSUME ModalInit PROVE ModalInv
    OBVIOUS
  <2>1. State.modal = modal /\ State.page = page /\ State.callbacks = callbacks
    BY DEF State
  <2>2. State \in States
    BY DEF ModalInit, State, States, ModalStates, PageStates, PageClean
  <2>3. IsHidden(State) /\ ~modal.isTransitioning
    BY <2>1 DEF ModalInit, IsHidden
  <2> QED
    BY <2>1, <2>2, <2>3 DEF ModalInit, ModalInv, ModalGoesOn
<1>2. ModalInv /\ [ModalNext]_modalVars => ModalInv'
  <2> SUFFICES ASSUME ModalInv, [ModalNext]_modalVars PROVE ModalInv'
    OBVIOUS
  <2>1. CASE Toggle
    BY <2>1, ShowGoesOn, HideGoesOn DEF Toggle, UserActs, Calm
  <2>2. CASE Dismiss
    BY <2>2, HideGoesOn DEF Dismiss
  <2>3. CASE Call
    BY <2>3, ShowGoesOn, HideGoesOn DEF Call, Calm
  <2>4. CASE TransitionEnds
    BY <2>4, TransitionEndsGoesOn
  <2>5. CASE UNCHANGED modalVars
    BY <2>5 DEF modalVars, State, ModalInv, ModalGoesOn, IsHidden, IsShown, Hides, IsStuck,
                OnPage, Calm
  <2> QED
    BY <2>1, <2>2, <2>3, <2>4, <2>5 DEF ModalNext
<1> QED
  BY <1>1, <1>2, PTL DEF ModalSpec

\* The types of the modal: in no phase is the padding of the body unset, and two
\* callbacks wait at most.
LEMMA ModalTypes == ModalSpec => []ModalTypeOK
<1>1. ModalInv => ModalTypeOK
  <2> SUFFICES ASSUME ModalInv PROVE ModalTypeOK
    OBVIOUS
  <2>1. State.modal = modal /\ State.page = page /\ State.callbacks = callbacks
    BY DEF State
  <2>2. modal \in ModalStates /\ page \in PageStates /\ callbacks \in Seq(Callbacks)
    BY <2>1 DEF ModalInv, ModalGoesOn, States
  <2>3. page.padding # "unset"
    BY <2>1 DEF ModalInv, ModalGoesOn, IsHidden, IsShown, Hides, IsStuck, OnPage, PageClean
  <2>4. Len(callbacks) <= 2
    <3>1. ASSUME NEW c, callbacks = <<c>> PROVE Len(callbacks) <= 2
      BY <3>1
    <3>2. ASSUME NEW c, NEW d, callbacks = <<c, d>> PROVE Len(callbacks) <= 2
      BY <3>2
    <3>3. CASE callbacks = <<>>
      BY <3>3
    <3>4. CASE IsHidden(State)
      BY <2>1, <3>3, <3>4 DEF IsHidden
    <3>5. CASE IsShown(State)
      <4>1. \/ callbacks = <<>> \/ callbacks = <<Callback("shown", NoBackdrop)>>
            \/ callbacks = <<Callback("show", modal.backdrop)>>
        BY <2>1, <3>5, Zenon DEF IsShown
      <4> QED
        BY <3>1, <3>3, <4>1
    <3>6. CASE Hides(State)
      <4>1. \/ callbacks = <<Callback("hide", NoBackdrop)>>
            \/ callbacks = <<Callback("remove", modal.backdrop)>>
        BY <2>1, <3>6, Zenon DEF Hides
      <4> QED
        BY <3>1, <4>1
    <3>7. CASE IsStuck(State)
      <4>1. \/ callbacks = <<>>
            \/ \E b \in Backdrops :
                  callbacks = <<Callback("remove", b), Callback("show", modal.backdrop)>>
        BY <2>1, <3>7, Zenon DEF IsStuck
      <4> QED
        BY <3>2, <3>3, <4>1
    <3> QED
      BY <3>4, <3>5, <3>6, <3>7 DEF ModalInv, ModalGoesOn
  <2>5. \A i \in DOMAIN callbacks : callbacks[i] \in Callbacks
    BY <2>2
  <2>6. page \in [backdrops : SUBSET Backdrops, open : BOOLEAN, padding : {"own", "added"}]
    BY <2>2, <2>3 DEF PageStates
  <2> QED
    BY <2>2, <2>4, <2>5, <2>6 DEF ModalTypeOK, ModalStates, Callbacks
<1> QED
  BY <1>1, ModalPhases, PTL

\* What a modal leaves in the document is as users expect, whoever calls its methods,
\* whether its transitions are slow or not, and however many backdrops there may be:
\* js/src/modal.js.
THEOREM ModalLeavesNothing == ModalSpec => []ModalSound
<1>1. ModalInv => ModalSound
  <2> SUFFICES ASSUME ModalInv, callbacks = <<>>
               PROVE  /\ ~modal.isShown => page.padding = "own"
                      /\ Calm => /\ ~modal.isTransitioning
                                 /\ modal.display = modal.isShown
                                 /\ IF modal.isShown
                                    THEN page.open /\ page.backdrops = {modal.backdrop} \ {NoBackdrop}
                                    ELSE page = PageClean
    BY DEF ModalSound, ModalSettled, PaddingRestored, Calm
  <2>1. /\ State.modal = modal /\ State.page = page /\ State.callbacks = callbacks
        /\ modal.isShown \in BOOLEAN /\ modal.display \in BOOLEAN
    BY DEF State, ModalInv, ModalGoesOn, States, ModalStates
  <2>2. IsHidden(State) \/ (IsShown(State) /\ modal.display) \/ IsStuck(State)
    <3>1. /\ callbacks # <<Callback("shown", NoBackdrop)>>
          /\ callbacks # <<Callback("show", modal.backdrop)>>
          /\ callbacks # <<Callback("hide", NoBackdrop)>>
          /\ callbacks # <<Callback("remove", modal.backdrop)>>
      OBVIOUS
    <3> QED
      BY <2>1, <3>1 DEF ModalInv, ModalGoesOn, IsShown, Hides
  <2>3. Calm => ~modal.isTransitioning
    BY <2>1 DEF ModalInv, ModalGoesOn
  <2>4. page = PageClean => page.padding = "own"
    BY DEF PageClean
  <2> QED
    BY <2>1, <2>2, <2>3, <2>4 DEF IsHidden, IsShown, IsStuck, Calm, OnPage
<1> QED
  BY <1>1, ModalPhases, PTL

-----------------------------------------------------------------------------
(* The accordion.                                                          *)

Objects == [transitioning : BOOLEAN, parent : BOOLEAN, made : BOOLEAN]
Pendings == [do : {"none", "shown", "hidden"}, own : BOOLEAN]
PanelRecords ==
    [class : {"hidden", "shown", "moving"}, expanded : BOOLEAN, object : Objects,
     pending : Pendings]

\* A panel that moves waits for its end, and an object in transition for its own.
IsLive(r) ==
    /\ r.object.transitioning => r.pending.own
    /\ r.pending.do = "none" => ~r.pending.own
    /\ r.class = "moving" <=> r.pending.do # "none"

LiveRecords == {r \in PanelRecords : IsLive(r)}
LivePanels == [1..Panels -> LiveRecords]
Outcomes == [panels : LivePanels, threw : BOOLEAN]

\* What handlers make of the record of a panel.
LEMMA AddAriaIs ==
    ASSUME NEW r \in LiveRecords
    PROVE  LET u == AddAria(r)
           IN  /\ u \in LiveRecords /\ u.expanded = (r.class = "shown")
               /\ u.class = r.class /\ u.object = r.object /\ u.pending = r.pending
<1> DEFINE e == (r.class = "shown")
           u == [r EXCEPT !.expanded = e]
<1>1. e \in BOOLEAN /\ r \in PanelRecords /\ IsLive(r)
  BY DEF LiveRecords
<1>2. AddAria(r) = u
  BY DEF AddAria
<1> HIDE DEF e
<1>3. /\ u \in PanelRecords /\ u.expanded = e
      /\ u.class = r.class /\ u.object = r.object /\ u.pending = r.pending
  BY <1>1 DEF PanelRecords
<1> HIDE DEF u
<1> QED
  BY <1>1, <1>2, <1>3 DEF LiveRecords, IsLive, e

LEMMA StartIs ==
    ASSUME NEW r \in LiveRecords, NEW do \in {"shown", "hidden"}
    PROVE  LET u == Start(r, do)
           IN  /\ u \in LiveRecords /\ u.class = "moving" /\ u.pending.do = do
               /\ u.expanded = (do = "shown")
               /\ u.object.made = r.object.made /\ u.object.parent = r.object.parent
<1> DEFINE made == r.object.made
           e == (do = "shown")
           o == [r.object EXCEPT !.transitioning = made]
           own == r.pending.own \/ made
           p == [do |-> do, own |-> own]
           u == [r EXCEPT !.class = "moving", !.expanded = e, !.object = o, !.pending = p]
<1>1. /\ r \in PanelRecords /\ r.object \in Objects /\ r.pending \in Pendings
      /\ made \in BOOLEAN /\ e \in BOOLEAN /\ own \in BOOLEAN /\ (made => own)
  BY DEF LiveRecords, PanelRecords, Objects, Pendings
<1>2. Start(r, do) = u
  BY DEF Start
<1> HIDE DEF made, e, own
<1>3. /\ o \in Objects /\ o.transitioning = made
      /\ o.made = r.object.made /\ o.parent = r.object.parent
  BY <1>1 DEF Objects
<1>4. p \in Pendings /\ p.do = do /\ p.own = own
  BY <1>1 DEF Pendings
<1> HIDE DEF o, p
<1>5. /\ u \in PanelRecords /\ u.class = "moving" /\ u.expanded = e
      /\ u.object = o /\ u.pending = p
  BY <1>1, <1>3, <1>4 DEF PanelRecords
<1> HIDE DEF u
<1>6. IsLive(u)
  BY <1>1, <1>3, <1>4, <1>5 DEF IsLive
<1> QED
  BY <1>2, <1>3, <1>4, <1>5, <1>6 DEF LiveRecords, e

\* A new object, which is not in transition.
LEMMA WithObject ==
    ASSUME NEW r \in LiveRecords, NEW o \in Objects, ~o.transitioning
    PROVE  LET u == [r EXCEPT !.object = o]
           IN  /\ u \in LiveRecords /\ u.object = o
               /\ u.class = r.class /\ u.expanded = r.expanded /\ u.pending = r.pending
<1> DEFINE u == [r EXCEPT !.object = o]
<1>1. r \in PanelRecords /\ IsLive(r)
  BY DEF LiveRecords
<1>2. /\ u \in PanelRecords /\ u.object = o
      /\ u.class = r.class /\ u.expanded = r.expanded /\ u.pending = r.pending
  BY <1>1 DEF PanelRecords
<1> HIDE DEF u
<1>3. IsLive(u)
  BY <1>1, <1>2 DEF IsLive
<1> QED
  BY <1>2, <1>3 DEF LiveRecords, u

LEMMA MadeIs ==
    ASSUME NEW parent \in BOOLEAN
    PROVE  /\ Made(parent) \in Objects /\ ~Made(parent).transitioning
           /\ Made(parent).parent = parent /\ Made(parent).made
           /\ NoObject \in Objects /\ ~NoObject.transitioning /\ ~NoObject.made
  BY DEF Made, NoObject, Objects

\* The object of a panel is forgotten; its callbacks stay, but are not its own now.
LEMMA ForgottenIs ==
    ASSUME NEW r \in LiveRecords
    PROVE  LET u == [r EXCEPT !.object = NoObject, !.pending.own = FALSE]
           IN  /\ u \in LiveRecords /\ u.object = NoObject
               /\ u.class = r.class /\ u.expanded = r.expanded /\ u.pending.do = r.pending.do
<1> DEFINE p == [r.pending EXCEPT !.own = FALSE]
           u == [r EXCEPT !.object = NoObject, !.pending = p]
<1>1. /\ r \in PanelRecords /\ r.pending \in Pendings /\ IsLive(r)
      /\ NoObject \in Objects /\ ~NoObject.transitioning
  BY MadeIs DEF LiveRecords, PanelRecords
<1>2. [r EXCEPT !.object = NoObject, !.pending.own = FALSE] = u
  OBVIOUS
<1>3. p \in Pendings /\ p.own = FALSE /\ p.do = r.pending.do
  BY <1>1 DEF Pendings
<1> HIDE DEF p
<1>4. /\ u \in PanelRecords /\ u.object = NoObject /\ u.pending = p
      /\ u.class = r.class /\ u.expanded = r.expanded
  BY <1>1, <1>3 DEF PanelRecords
<1> HIDE DEF u
<1>5. IsLive(u)
  BY <1>1, <1>3, <1>4 DEF IsLive
<1> QED
  BY <1>2, <1>3, <1>4, <1>5 DEF LiveRecords

\* The callbacks of a panel run.
LEMMA CompleteIs ==
    ASSUME NEW r \in LiveRecords, r.pending # NoneWaits
    PROVE  LET u == Complete(r)
           IN  /\ u \in LiveRecords /\ u.class = r.pending.do /\ u.pending.do = "none"
               /\ r.pending.do # "none" /\ u.expanded = r.expanded
               /\ u.object.made = r.object.made /\ u.object.parent = r.object.parent
<1> DEFINE goes == r.object.transitioning /\ ~r.pending.own
           o == [r.object EXCEPT !.transitioning = goes]
           do == r.pending.do
           none == NoneWaits
           u == [r EXCEPT !.class = do, !.pending = none, !.object = o]
<1>1. /\ r \in PanelRecords /\ r.object \in Objects /\ r.pending \in Pendings /\ IsLive(r)
      /\ goes \in BOOLEAN
  BY DEF LiveRecords, PanelRecords, Objects, Pendings
<1>2. Complete(r) = u
  BY DEF Complete
<1>3. none \in Pendings /\ none.do = "none" /\ ~none.own
  BY DEF NoneWaits, Pendings
<1>4. ~goes
  BY <1>1 DEF IsLive
<1>5. do \in {"shown", "hidden"}
  <2>1. SUFFICES ASSUME do = "none" PROVE FALSE
    BY <1>1 DEF Pendings
  <2>2. r.pending.own = FALSE
    BY <1>1, <2>1 DEF IsLive, Pendings
  <2>3. r.pending = NoneWaits
    BY <1>1, <2>1, <2>2 DEF NoneWaits, Pendings
  <2> QED
    BY <2>3
<1> HIDE DEF goes, do, none
<1>6. /\ o \in Objects /\ o.transitioning = goes
      /\ o.made = r.object.made /\ o.parent = r.object.parent
  BY <1>1 DEF Objects
<1> HIDE DEF o
<1>7. /\ u \in PanelRecords /\ u.class = do /\ u.pending = none /\ u.object = o
      /\ u.expanded = r.expanded
  BY <1>1, <1>3, <1>5, <1>6 DEF PanelRecords
<1> HIDE DEF u
<1>8. IsLive(u)
  BY <1>3, <1>4, <1>5, <1>6, <1>7 DEF IsLive
<1> QED
  BY <1>2, <1>3, <1>5, <1>6, <1>7, <1>8 DEF LiveRecords, do

\* One panel hides: what hide does to the panels.
LEMMA HidePanelIs ==
    ASSUME NEW panels \in LivePanels, NEW p \in 1..Panels, NEW stopped
    PROVE  /\ HidePanel(panels, p, stopped) \in Outcomes
           /\ ~panels[p].object.transitioning /\ panels[p].class = "shown" /\ p \notin stopped =>
                 HidePanel(panels, p, stopped) = Good([panels EXCEPT ![p] = Start(panels[p], "hidden")])
<1> DEFINE u == [panels EXCEPT ![p] = Start(panels[p], "hidden")]
<1>1. panels[p] \in LiveRecords
  BY DEF LivePanels
<1>2. Start(panels[p], "hidden") \in LiveRecords
  BY <1>1, StartIs
<1>3. u \in LivePanels
  BY <1>2 DEF LivePanels
<1>4. /\ Good(u) \in Outcomes /\ Good(panels) \in Outcomes /\ Threw(panels) \in Outcomes
  <2> HIDE DEF u
  <2> QED
    BY <1>3 DEF Good, Threw, Outcomes
<1>5. HidePanel(panels, p, stopped) =
        IF panels[p].object.transitioning THEN Threw(panels)
        ELSE Good(IF panels[p].class = "shown" /\ p \notin stopped THEN u ELSE panels)
  BY DEF HidePanel
<1> HIDE DEF u
<1> QED
  BY <1>4, <1>5 DEF u

\* What comes of hiding the panel p that is shown.
HidesAt(u, panels, p) ==
    /\ ~u.threw
    /\ \A q \in 1..Panels : q # p => u.panels[q] = panels[q]
    /\ u.panels[p].class = "moving" /\ u.panels[p].pending.do = "hidden"
    /\ u.panels[p].expanded = FALSE
    /\ panels[p].object.made => u.panels[p].object.parent = panels[p].object.parent

LEMMA CallHideIs ==
    ASSUME NEW panels \in LivePanels, NEW p \in 1..Panels, NEW stopped
    PROVE  /\ CallHide(panels, p, stopped) \in Outcomes
           /\ ~panels[p].object.transitioning /\ panels[p].class = "shown" /\ p \notin stopped =>
                 HidesAt(CallHide(panels, p, stopped), panels, p)
<1> DEFINE r == AddAria([panels[p] EXCEPT !.object = Made(FALSE)])
           made == IF panels[p].object.made THEN panels ELSE [panels EXCEPT ![p] = r]
<1>1. panels[p] \in LiveRecords
  BY DEF LivePanels
<1>2. r \in LiveRecords /\ r.class = panels[p].class /\ r.object = Made(FALSE)
  <2> DEFINE x == [panels[p] EXCEPT !.object = Made(FALSE)]
  <2>1. x \in LiveRecords /\ x.object = Made(FALSE) /\ x.class = panels[p].class
    BY <1>1, MadeIs, WithObject
  <2> HIDE DEF x
  <2>2. LET v == AddAria(x)
        IN  v \in LiveRecords /\ v.class = x.class /\ v.object = x.object
    BY <2>1, AddAriaIs
  <2> QED
    BY <2>1, <2>2 DEF x
<1> HIDE DEF r
<1>3. /\ made \in LivePanels /\ made[p].class = panels[p].class
      /\ \A q \in 1..Panels : q # p => made[q] = panels[q]
      /\ panels[p].object.made => made[p] = panels[p]
      /\ ~panels[p].object.transitioning => ~made[p].object.transitioning
  <2>1. CASE panels[p].object.made
    BY <2>1
  <2>2. CASE ~panels[p].object.made
    <3> DEFINE u == [panels EXCEPT ![p] = r]
    <3>1. u \in LivePanels /\ u[p] = r /\ \A q \in 1..Panels : q # p => u[q] = panels[q]
      BY <1>2 DEF LivePanels
    <3> HIDE DEF u
    <3>2. made = u
      BY <2>2 DEF u
    <3> QED
      BY <1>2, <2>2, <3>1, <3>2, MadeIs
  <2> QED
    BY <2>1, <2>2
<1>4. CallHide(panels, p, stopped) = HidePanel(made, p, stopped)
  BY DEF CallHide, r
<1> HIDE DEF made
<1>5. CallHide(panels, p, stopped) \in Outcomes
  BY <1>3, <1>4, HidePanelIs
<1>6. ASSUME ~panels[p].object.transitioning, panels[p].class = "shown", p \notin stopped
      PROVE  HidesAt(CallHide(panels, p, stopped), panels, p)
  <2> DEFINE s == Start(made[p], "hidden")
             u == [made EXCEPT ![p] = s]
  <2>1. CallHide(panels, p, stopped) = Good(u)
    BY <1>3, <1>4, <1>6, HidePanelIs
  <2>2. s.class = "moving" /\ s.pending.do = "hidden" /\ s.expanded = ("hidden" = "shown")
        /\ s.object.parent = made[p].object.parent
    <3>1. made[p] \in LiveRecords
      BY <1>3 DEF LivePanels
    <3> QED
      BY <3>1, StartIs
  <2> HIDE DEF s
  <2>3. u[p] = s /\ \A q \in 1..Panels : q # p => u[q] = made[q]
    BY <1>3 DEF LivePanels
  <2> HIDE DEF u
  <2>4. Good(u).panels = u /\ ~Good(u).threw
    BY DEF Good
  <2> QED
    BY <1>3, <2>1, <2>2, <2>3, <2>4 DEF HidesAt
<1> QED
  BY <1>5, <1>6

\* The same on the active panels, as long as none throws.
HidesNext(done, p, stopped) == IF done.threw THEN done ELSE CallHide(done.panels, p, stopped)

LEMMA HideActivesIs ==
    ASSUME NEW panels \in LivePanels, NEW actives \in Seq(1..Panels), NEW stopped
    PROVE  /\ HideActives(panels, actives, stopped) \in Outcomes
           /\ actives = <<>> => HideActives(panels, actives, stopped) = Good(panels)
           /\ \A q \in 1..Panels : actives = <<q>> =>
                 HideActives(panels, actives, stopped) = CallHide(panels, q, stopped)
<1> DEFINE m == Len(actives)
           T == Outcomes
           start == Good(panels)
           step == [a \in (1..m) \X T |-> HidesNext(a[2], actives[a[1]], stopped)]
           next(f, n) == IF n = 0 THEN start
                         ELSE IF f[n - 1].threw THEN f[n - 1]
                         ELSE CallHide(f[n - 1].panels, actives[n], stopped)
           done == CHOOSE f : f = [n \in 0..m |-> next(f, n)]
<1>1. m \in Nat /\ \A n \in 1..m : actives[n] \in 1..Panels
  <2> DEFINE S == 1..Panels
  <2>1. actives \in Seq(S)
    OBVIOUS
  <2> HIDE DEF S
  <2>2. m \in Nat /\ \A n \in 1..m : actives[n] \in S
    BY <2>1
  <2> QED
    BY <2>2 DEF S
<1>2. HideActives(panels, actives, stopped) = done[m]
  BY DEF HideActives
<1>3. start \in T
  BY DEF Good, Outcomes
<1> HIDE DEF m, start
<1>4. \A n \in 1..m : \A x \in T : HidesNext(x, actives[n], stopped) \in T
  <2> TAKE n \in 1..m
  <2> TAKE x \in T
  <2>1. x.panels \in LivePanels
    BY DEF Outcomes
  <2>2. CallHide(x.panels, actives[n], stopped) \in T
    BY <1>1, <2>1, CallHideIs
  <2> QED
    BY <2>2 DEF HidesNext
<1> HIDE DEF T
<1>5. step \in [(1..m) \X T -> T]
  BY <1>4
<1>6. PICK g \in [0..m -> T] : IsRepetition(g, m, start, step)
  <2> HIDE DEF step
  <2> QED
    BY <1>1, <1>3, <1>5, Repeats
<1>7. g = [n \in 0..m |-> next(g, n)]
  <2>1. \A n \in 0..m : g[n] = next(g, n)
    <3> TAKE n \in 0..m
    <3>1. CASE n = 0
      BY <1>6, <3>1 DEF IsRepetition
    <3>2. CASE n # 0
      <4>1. n \in 1..m /\ n - 1 \in 0..m
        BY <1>1, <3>2
      <4>2. g[n] = step[<<n, g[n - 1]>>] /\ g[n - 1] \in T
        BY <1>6, <4>1 DEF IsRepetition
      <4>3. g[n] = HidesNext(g[n - 1], actives[n], stopped)
        BY <4>1, <4>2
      <4> QED
        BY <3>2, <4>3 DEF HidesNext
    <3> QED
      BY <3>1, <3>2
  <2> HIDE DEF next
  <2> QED
    BY <1>6, <2>1
<1>8. done = [n \in 0..m |-> next(done, n)]
  <2> HIDE DEF next
  <2> QED
    BY <1>7
<1>9. \A n \in 0..m : done[n] = next(done, n)
  <2> HIDE DEF done, next
  <2> QED
    BY <1>8
<1> HIDE DEF done
<1>10. done[0] = start /\ \A n \in 1..m : done[n] = HidesNext(done[n - 1], actives[n], stopped)
  <2>1. done[0] = start
    BY <1>1, <1>9
  <2>2. \A n \in 1..m : n \in 0..m /\ n # 0
    BY <1>1
  <2> QED
    BY <1>9, <2>1, <2>2 DEF HidesNext
<1>11. \A n \in 0..m : done[n] \in T
  <2> DEFINE S == {n \in 0..m : done[n] \in T}
  <2>1. 0 \in S
    BY <1>1, <1>3, <1>10
  <2>2. ASSUME NEW n \in 0..m, n < m, n \in S
        PROVE  n + 1 \in S
    <3>1. n + 1 \in 1..m /\ n + 1 \in 0..m /\ (n + 1) - 1 = n
      BY <1>1, <2>2
    <3>2. done[n + 1] = HidesNext(done[n], actives[n + 1], stopped)
      BY <1>10, <3>1
    <3> QED
      BY <1>4, <2>2, <3>1, <3>2
  <2>3. \A n \in 0..m : n \in S
    <3> HIDE DEF S
    <3> QED
      BY <1>1, <2>1, <2>2, UpTo
  <2> QED
    BY <2>3
<1>12. done[m] \in T
  BY <1>1, <1>11
<1>13. actives = <<>> => done[m] = start
  BY <1>10 DEF m
<1>14. ASSUME NEW q \in 1..Panels, actives = <<q>>
       PROVE  done[m] = CallHide(panels, q, stopped)
  <2>1. m = 1 /\ actives[1] = q
    BY <1>14 DEF m
  <2>2. done[1] = HidesNext(done[0], q, stopped)
    BY <1>10, <2>1
  <2>3. start.panels = panels /\ ~start.threw
    BY DEF start, Good
  <2> QED
    BY <1>10, <2>1, <2>2, <2>3 DEF HidesNext
<1> QED
  BY <1>2, <1>12, <1>13, <1>14 DEF T, start

\* The panels that are shown or moving: in general, and where there is one at most.
IsActive(r) == r.class \in {"shown", "moving"}

LEMMA ActivesAre ==
    ASSUME NEW panels
    PROVE  /\ Actives(panels) \in Seq(1..Panels)
           /\ (\A p \in 1..Panels : ~IsActive(panels[p])) => Actives(panels) = <<>>
           /\ \A q \in 1..Panels :
                 (\A p \in 1..Panels : IsActive(panels[p]) <=> p = q) => Actives(panels) = <<q>>
<1> DEFINE m == Panels
           S == 1..Panels
           T == Seq(S)
           none == <<>>
           adds(s, n) == IF IsActive(panels[n]) THEN Append(s, n) ELSE s
           step == [a \in (1..m) \X T |-> adds(a[2], a[1])]
           next(f, n) == IF n = 0 THEN none
                         ELSE IF panels[n].class \in {"shown", "moving"} THEN Append(f[n - 1], n)
                         ELSE f[n - 1]
           among == CHOOSE f : f = [n \in 0..m |-> next(f, n)]
<1>1. m \in Nat
  BY CollapseAssumption
<1>2. Actives(panels) = among[m]
  BY DEF Actives
<1>3. none \in T /\ \A s \in T : \A n \in S : Append(s, n) \in T
  <2> HIDE DEF S
  <2> QED
    OBVIOUS
<1>4. \A n \in 1..m : \A x \in T : adds(x, n) \in T
  <2> HIDE DEF T
  <2> QED
    BY <1>3
<1> HIDE DEF T, none, adds
<1>5. step \in [(1..m) \X T -> T]
  BY <1>4
<1>6. PICK g \in [0..m -> T] : IsRepetition(g, m, none, step)
  <2> HIDE DEF step, m
  <2> QED
    BY <1>1, <1>3, <1>5, Repeats
<1>7. g = [n \in 0..m |-> next(g, n)]
  <2>1. \A n \in 0..m : g[n] = next(g, n)
    <3> TAKE n \in 0..m
    <3>1. CASE n = 0
      BY <1>6, <3>1 DEF IsRepetition
    <3>2. CASE n # 0
      <4>1. n \in 1..m /\ n - 1 \in 0..m
        BY <1>1, <3>2
      <4>2. g[n] = step[<<n, g[n - 1]>>] /\ g[n - 1] \in T
        BY <1>6, <4>1 DEF IsRepetition
      <4>3. g[n] = adds(g[n - 1], n)
        BY <4>1, <4>2
      <4> QED
        BY <3>2, <4>3 DEF adds, IsActive
    <3> QED
      BY <3>1, <3>2
  <2> HIDE DEF next
  <2> QED
    BY <1>6, <2>1
<1>8. among = [n \in 0..m |-> next(among, n)]
  <2> HIDE DEF next
  <2> QED
    BY <1>7
<1>9. \A n \in 0..m : among[n] = next(among, n)
  <2> HIDE DEF among, next
  <2> QED
    BY <1>8
<1> HIDE DEF among
<1>10. among[0] = none /\ \A n \in 1..m : among[n] = adds(among[n - 1], n)
  <2>1. among[0] = none
    BY <1>1, <1>9
  <2>2. \A n \in 1..m : n \in 0..m /\ n # 0
    BY <1>1
  <2> QED
    BY <1>9, <2>1, <2>2 DEF adds, IsActive
<1> HIDE DEF m
<1>11. among[m] \in T
  <2> DEFINE U == {n \in 0..m : among[n] \in T}
  <2>1. 0 \in U
    BY <1>1, <1>3, <1>10
  <2>2. ASSUME NEW n \in 0..m, n < m, n \in U
        PROVE  n + 1 \in U
    <3>1. n + 1 \in 1..m /\ n + 1 \in 0..m /\ (n + 1) - 1 = n
      BY <1>1, <2>2
    <3>2. among[n + 1] = adds(among[n], n + 1)
      BY <1>10, <3>1
    <3> QED
      BY <1>4, <2>2, <3>1, <3>2
  <2>3. \A n \in 0..m : n \in U
    <3> HIDE DEF U
    <3> QED
      BY <1>1, <2>1, <2>2, UpTo
  <2> QED
    BY <1>1, <2>3
<1>12. ASSUME \A p \in 1..m : ~IsActive(panels[p])
       PROVE  among[m] = none
  <2> DEFINE U == {n \in 0..m : among[n] = none}
  <2>1. 0 \in U
    BY <1>1, <1>10
  <2>2. ASSUME NEW n \in 0..m, n < m, n \in U
        PROVE  n + 1 \in U
    <3>1. n + 1 \in 1..m /\ n + 1 \in 0..m /\ (n + 1) - 1 = n
      BY <1>1, <2>2
    <3>2. among[n + 1] = adds(among[n], n + 1)
      BY <1>10, <3>1
    <3> QED
      BY <1>12, <2>2, <3>1, <3>2 DEF adds
  <2>3. \A n \in 0..m : n \in U
    <3> HIDE DEF U
    <3> QED
      BY <1>1, <2>1, <2>2, UpTo
  <2> QED
    BY <1>1, <2>3
<1>13. ASSUME NEW q \in 1..m, \A p \in 1..m : IsActive(panels[p]) <=> p = q
       PROVE  among[m] = <<q>>
  <2> DEFINE one == Append(none, q)
             U == {n \in 0..m : among[n] = IF n < q THEN none ELSE one}
  <2>1. 0 \in U
    BY <1>1, <1>10
  <2>2. ASSUME NEW n \in 0..m, n < m, n \in U
        PROVE  n + 1 \in U
    <3>1. n + 1 \in 1..m /\ n + 1 \in 0..m /\ (n + 1) - 1 = n
      BY <1>1, <2>2
    <3>2. among[n + 1] = adds(among[n], n + 1)
      BY <1>10, <3>1
    <3>3. CASE n + 1 = q
      <4>1. among[n] = none /\ among[n + 1] = Append(among[n], q)
        BY <1>1, <1>13, <2>2, <3>1, <3>2, <3>3 DEF adds
      <4>2. among[n + 1] = one /\ ~(n + 1 < q)
        BY <1>1, <3>1, <3>3, <4>1
      <4> HIDE DEF one
      <4> QED
        BY <3>1, <4>2
    <3>4. CASE n + 1 # q
      <4>1. among[n + 1] = among[n]
        BY <1>13, <3>1, <3>2, <3>4 DEF adds
      <4>2. n + 1 < q <=> n < q
        BY <1>1, <3>4
      <4> QED
        BY <2>2, <3>1, <4>1, <4>2
    <3> QED
      BY <3>3, <3>4
  <2>3. \A n \in 0..m : n \in U
    <3> HIDE DEF U
    <3> QED
      BY <1>1, <2>1, <2>2, UpTo
  <2>4. m \in 0..m /\ ~(m < q)
    BY <1>1
  <2>5. one = <<q>>
    BY DEF none
  <2> HIDE DEF one
  <2> QED
    BY <2>3, <2>4, <2>5
<1> QED
  BY <1>2, <1>11, <1>12, <1>13 DEF m, T, none

\* Some panels forget their objects.
LEMMA ForgetIs ==
    ASSUME NEW panels \in LivePanels, NEW actives
    PROVE  LET u == Forget(panels, actives)
           IN  /\ u \in LivePanels
               /\ \A p \in 1..Panels :
                     IF \E i \in DOMAIN actives : actives[i] = p
                     THEN /\ u[p].object = NoObject /\ u[p].class = panels[p].class
                          /\ u[p].expanded = panels[p].expanded
                          /\ u[p].pending.do = panels[p].pending.do
                     ELSE u[p] = panels[p]
<1> DEFINE gone(p) == [panels[p] EXCEPT !.object = NoObject, !.pending.own = FALSE]
           new(p) == IF \E i \in DOMAIN actives : actives[i] = p THEN gone(p) ELSE panels[p]
           u == [p \in 1..Panels |-> new(p)]
<1>1. Forget(panels, actives) = u
  BY DEF Forget
<1>2. \A p \in 1..Panels : /\ gone(p) \in LiveRecords /\ gone(p).object = NoObject
                           /\ gone(p).class = panels[p].class
                           /\ gone(p).expanded = panels[p].expanded
                           /\ gone(p).pending.do = panels[p].pending.do
                           /\ panels[p] \in LiveRecords
  <2> TAKE p \in 1..Panels
  <2>1. panels[p] \in LiveRecords
    BY DEF LivePanels
  <2> QED
    BY <2>1, ForgottenIs
<1> HIDE DEF gone
<1>3. \A p \in 1..Panels : new(p) \in LiveRecords
  BY <1>2
<1>4. u \in LivePanels /\ \A p \in 1..Panels : u[p] = new(p)
  <2> HIDE DEF new
  <2> QED
    BY <1>3 DEF LivePanels
<1> HIDE DEF u
<1> QED
  BY <1>1, <1>2, <1>4

LEMMA RegisterIs ==
    ASSUME NEW panels \in LivePanels, NEW p \in 1..Panels
    PROVE  LET u == Register(panels, p)
           IN  /\ u \in LivePanels /\ \A q \in 1..Panels : q # p => u[q] = panels[q]
               /\ u[p].class = panels[p].class
               /\ IF panel[p].object.made THEN u[p] = panels[p] ELSE u[p].object = Made(TRUE)
<1> DEFINE r == [panels[p] EXCEPT !.object = Made(TRUE)]
           u == [panels EXCEPT ![p] = r]
<1>1. r \in LiveRecords /\ r.object = Made(TRUE) /\ r.class = panels[p].class
  <2>1. panels[p] \in LiveRecords
    BY DEF LivePanels
  <2> QED
    BY <2>1, MadeIs, WithObject
<1>2. Register(panels, p) = IF panel[p].object.made THEN panels ELSE u
  BY DEF Register
<1> HIDE DEF r
<1>3. u \in LivePanels /\ u[p] = r /\ \A q \in 1..Panels : q # p => u[q] = panels[q]
  BY <1>1 DEF LivePanels
<1> HIDE DEF u
<1> QED
  BY <1>1, <1>2, <1>3

\* A panel starts to move.
StartsAt(u, panels, p, do) ==
    /\ \A q \in 1..Panels : q # p => u[q] = panels[q]
    /\ u[p].class = "moving" /\ u[p].pending.do = do /\ u[p].expanded = (do = "shown")
    /\ u[p].object.made = panels[p].object.made
    /\ u[p].object.parent = panels[p].object.parent

LEMMA StartsIs ==
    ASSUME NEW panels \in LivePanels, NEW p \in 1..Panels, NEW do \in {"shown", "hidden"}
    PROVE  LET u == [panels EXCEPT ![p] = Start(@, do)]
           IN  u \in LivePanels /\ StartsAt(u, panels, p, do)
<1> DEFINE s == Start(panels[p], do)
           u == [panels EXCEPT ![p] = s]
<1>1. /\ s \in LiveRecords /\ s.class = "moving" /\ s.pending.do = do
      /\ s.expanded = (do = "shown")
      /\ s.object.made = panels[p].object.made /\ s.object.parent = panels[p].object.parent
  <2>1. panels[p] \in LiveRecords
    BY DEF LivePanels
  <2> QED
    BY <2>1, StartIs
<1>2. [panels EXCEPT ![p] = Start(@, do)] = u
  OBVIOUS
<1> HIDE DEF s
<1>3. u \in LivePanels /\ u[p] = s /\ \A q \in 1..Panels : q # p => u[q] = panels[q]
  BY <1>1 DEF LivePanels
<1> HIDE DEF u
<1>4. StartsAt(u, panels, p, do)
  BY <1>1, <1>3 DEF StartsAt
<1> QED
  BY <1>2, <1>3, <1>4

\* A click leaves panels of the right kind, whatever it finds.
LEMMA ShowPanelIsLive ==
    ASSUME NEW panels \in LivePanels, NEW p \in 1..Panels, NEW object, NEW stopped
    PROVE  ShowPanel(panels, p, object, stopped).panels \in LivePanels
<1> DEFINE actives == IF object.parent THEN Actives(panels) ELSE <<>>
           First   == panels[actives[1]].object
           hidden  == HideActives(panels, actives, stopped)
           left    == IF actives # <<>> /\ ~First.made THEN Forget(hidden.panels, actives)
                      ELSE hidden.panels
           ends    == [Register(left, p) EXCEPT ![p] = Start(@, "shown")]
<1>1. ShowPanel(panels, p, object, stopped) =
        IF object.transitioning THEN Threw(panels)
        ELSE IF \/ actives # <<>> /\ First.transitioning
                \/ p \in stopped THEN Good(Register(panels, p))
        ELSE IF hidden.threw THEN hidden
        ELSE Good(ends)
  BY DEF ShowPanel
<1>2. actives \in Seq(1..Panels)
  <2> DEFINE S == 1..Panels
  <2>1. Actives(panels) \in Seq(S)
    BY ActivesAre
  <2> HIDE DEF S
  <2>2. <<>> \in Seq(S)
    OBVIOUS
  <2> QED
    BY <2>1, <2>2 DEF S
<1> HIDE DEF actives
<1>3. hidden.panels \in LivePanels
  BY <1>2, HideActivesIs DEF Outcomes
<1> HIDE DEF hidden
<1>4. left \in LivePanels
  BY <1>3, ForgetIs
<1> HIDE DEF left
<1>5. Register(left, p) \in LivePanels /\ Register(panels, p) \in LivePanels
  BY <1>4, RegisterIs
<1>6. ends \in LivePanels
  BY <1>5, StartsIs
<1> HIDE DEF ends
<1>7. \A x : Good(x).panels = x /\ Threw(x).panels = x
  BY DEF Good, Threw
<1> QED
  BY <1>1, <1>3, <1>5, <1>6, <1>7

\* The panels as a click on p finds them.
Found(p) == IF panel[p].object.made THEN panel ELSE GetParent(panel)

LEMMA FoundIs ==
    ASSUME panel \in LivePanels, NEW p \in 1..Panels
    PROVE  /\ Found(p) \in LivePanels
           /\ \A q \in 1..Panels : /\ Found(p)[q].class = panel[q].class
                                   /\ Found(p)[q].object = panel[q].object
                                   /\ Found(p)[q].pending = panel[q].pending
                                   /\ \/ Found(p)[q].expanded = panel[q].expanded
                                      \/ Found(p)[q].expanded = (panel[q].class = "shown")
<1> DEFINE u == [q \in 1..Panels |-> AddAria(panel[q])]
<1>1. \A q \in 1..Panels :
         /\ AddAria(panel[q]) \in LiveRecords
         /\ AddAria(panel[q]).expanded = (panel[q].class = "shown")
         /\ AddAria(panel[q]).class = panel[q].class /\ AddAria(panel[q]).object = panel[q].object
         /\ AddAria(panel[q]).pending = panel[q].pending
  <2> TAKE q \in 1..Panels
  <2>1. panel[q] \in LiveRecords
    BY DEF LivePanels
  <2> QED
    BY <2>1, AddAriaIs
<1>2. u \in LivePanels /\ \A q \in 1..Panels : u[q] = AddAria(panel[q])
  BY <1>1 DEF LivePanels
<1>3. Found(p) = IF panel[p].object.made THEN panel ELSE u
  BY DEF Found, GetParent
<1> HIDE DEF u
<1> QED
  BY <1>1, <1>2, <1>3

\* A click as a value of the panels.
Clicked(p, stopped) ==
    IF panel[p].class = "shown" THEN HidePanel(Register(Found(p), p), p, stopped).panels
    ELSE ShowPanel(Found(p), p, IF panel[p].object.made THEN panel[p].object ELSE Made(TRUE),
                   stopped).panels

LEMMA ClickIs ==
    ASSUME NEW p \in 1..Panels, Click(p)
    PROVE  /\ \E stopped \in StoppedPanels : panel' = Clicked(p, stopped)
           /\ panelEnv' = panelEnv /\ (panelEnv.patient => PanelSettled)
  BY DEF Click, Clicked, Found

LEMMA ClickedIsLive ==
    ASSUME panel \in LivePanels, NEW p \in 1..Panels, NEW stopped
    PROVE  Clicked(p, stopped) \in LivePanels
<1>1. Found(p) \in LivePanels
  BY FoundIs
<1>2. Register(Found(p), p) \in LivePanels
  BY <1>1, RegisterIs
<1>3. HidePanel(Register(Found(p), p), p, stopped).panels \in LivePanels
  BY <1>2, HidePanelIs DEF Outcomes
<1> QED
  BY <1>1, <1>3, ShowPanelIsLive DEF Clicked

\* What a panel comes to when its transition is over.
Final(r) == IF r.pending.do = "none" THEN r.class ELSE r.pending.do

\* The panels of a user who waits, where no listener prevents an event.
Tidy(panels) ==
    /\ \A p \in 1..Panels : /\ panels[p].object.made => panels[p].object.parent
                            /\ panels[p].expanded = (Final(panels[p]) = "shown")
    /\ \A p, q \in 1..Panels :
          Final(panels[p]) = "shown" /\ Final(panels[q]) = "shown" => p = q

PanelInv == panel \in LivePanels /\ (panelEnv.patient /\ ~panelEnv.prevents => Tidy(panel))

\* The panel of a user who waits is closed.
LEMMA ClickHides ==
    ASSUME panel \in LivePanels, Tidy(panel), PanelSettled, NEW p \in 1..Panels,
           panel[p].class = "shown"
    PROVE  Tidy(Clicked(p, {}))
<1> DEFINE f == Found(p)
           g == Register(f, p)
           u == [g EXCEPT ![p] = Start(@, "hidden")]
<1>1. \A q \in 1..Panels : /\ panel[q].pending.do = "none" /\ panel[q].class # "moving"
                           /\ ~panel[q].object.transitioning
  <2> TAKE q \in 1..Panels
  <2>1. panel[q].pending.do = "none" /\ ~panel[q].pending.own
    BY DEF PanelSettled, NoneWaits
  <2>2. panel[q] \in LiveRecords
    BY DEF LivePanels
  <2> QED
    BY <2>1, <2>2 DEF LiveRecords, IsLive
<1>2. /\ f \in LivePanels
      /\ \A q \in 1..Panels : /\ f[q].class = panel[q].class /\ f[q].object = panel[q].object
                              /\ f[q].pending = panel[q].pending
                              /\ f[q].expanded = (panel[q].class = "shown")
  <2>1. \A q \in 1..Panels : panel[q].expanded = (panel[q].class = "shown")
    BY <1>1 DEF Tidy, Final
  <2> QED
    BY <2>1, FoundIs
<1> HIDE DEF f
<1>3. /\ g \in LivePanels /\ \A q \in 1..Panels : q # p => g[q] = f[q]
      /\ g[p].class = "shown" /\ ~g[p].object.transitioning
      /\ g[p].object.made => g[p].object.parent
  <2>1. /\ g \in LivePanels /\ \A q \in 1..Panels : q # p => g[q] = f[q]
        /\ g[p].class = f[p].class
        /\ IF panel[p].object.made THEN g[p] = f[p] ELSE g[p].object = Made(TRUE)
    BY <1>2, RegisterIs
  <2>2. CASE panel[p].object.made
    BY <1>1, <1>2, <2>1, <2>2 DEF Tidy
  <2>3. CASE ~panel[p].object.made
    BY <1>2, <2>1, <2>3, MadeIs
  <2> QED
    BY <2>2, <2>3
<1>4. Clicked(p, {}) = u
  <2>1. HidePanel(g, p, {}) = Good([g EXCEPT ![p] = Start(g[p], "hidden")])
    BY <1>3, HidePanelIs
  <2>2. \A x : Good(x).panels = x
    BY DEF Good
  <2> QED
    BY <2>1, <2>2 DEF Clicked, f
<1> HIDE DEF g
<1>5. /\ \A q \in 1..Panels : q # p => u[q] = g[q]
      /\ u[p].class = "moving" /\ u[p].pending.do = "hidden"
      /\ u[p].expanded = ("hidden" = "shown")
      /\ u[p].object.made = g[p].object.made /\ u[p].object.parent = g[p].object.parent
  <2>1. StartsAt(u, g, p, "hidden")
    BY <1>3, StartsIs
  <2> HIDE DEF u
  <2> QED
    BY <2>1 DEF StartsAt
<1> HIDE DEF u
<1>6. Final(u[p]) = "hidden"
  BY <1>5 DEF Final
<1>7. \A q \in 1..Panels : q # p => /\ Final(u[q]) = panel[q].class /\ Final(u[q]) # "shown"
                                    /\ u[q].object = panel[q].object
                                    /\ u[q].expanded = (panel[q].class = "shown")
  <2>1. \A q \in 1..Panels : q # p => panel[q].class # "shown"
    BY <1>1 DEF Tidy, Final
  <2> QED
    BY <1>1, <1>2, <1>3, <1>5, <2>1 DEF Final
<1>8. \A q \in 1..Panels : /\ u[q].object.made => u[q].object.parent
                           /\ u[q].expanded = (Final(u[q]) = "shown")
  <2> TAKE q \in 1..Panels
  <2>1. CASE q = p
    BY <1>3, <1>5, <1>6, <2>1
  <2>2. CASE q # p
    BY <1>7, <2>2 DEF Tidy
  <2> QED
    BY <2>1, <2>2
<1> QED
  BY <1>4, <1>6, <1>7, <1>8 DEF Tidy

\* The last steps of show, when the other panels are closed or close.
LEMMA ShownLast ==
    ASSUME panel \in LivePanels, Tidy(panel), NEW p \in 1..Panels, NEW left \in LivePanels,
           left[p].object = panel[p].object,
           \A q \in 1..Panels : q # p => /\ Final(left[q]) # "shown"
                                         /\ left[q].expanded = FALSE
                                         /\ left[q].object.made => left[q].object.parent
    PROVE  Tidy([Register(left, p) EXCEPT ![p] = Start(@, "shown")])
<1> DEFINE g == Register(left, p)
           u == [g EXCEPT ![p] = Start(@, "shown")]
<1>1. /\ g \in LivePanels /\ \A q \in 1..Panels : q # p => g[q] = left[q]
      /\ g[p].object.made => g[p].object.parent
  <2>1. /\ g \in LivePanels /\ \A q \in 1..Panels : q # p => g[q] = left[q]
        /\ IF panel[p].object.made THEN g[p] = left[p] ELSE g[p].object = Made(TRUE)
    BY RegisterIs
  <2>2. CASE panel[p].object.made
    BY <2>1, <2>2 DEF Tidy
  <2>3. CASE ~panel[p].object.made
    BY <2>1, <2>3, MadeIs
  <2> QED
    BY <2>1, <2>2, <2>3
<1> HIDE DEF g
<1>2. /\ \A q \in 1..Panels : q # p => u[q] = g[q]
      /\ u[p].class = "moving" /\ u[p].pending.do = "shown"
      /\ u[p].expanded = ("shown" = "shown")
      /\ u[p].object.made = g[p].object.made /\ u[p].object.parent = g[p].object.parent
  <2>1. StartsAt(u, g, p, "shown")
    BY <1>1, StartsIs
  <2> HIDE DEF u
  <2> QED
    BY <2>1 DEF StartsAt
<1> HIDE DEF u
<1>3. Final(u[p]) = "shown"
  BY <1>2 DEF Final
<1>4. \A q \in 1..Panels : q # p => /\ Final(u[q]) # "shown" /\ u[q].expanded = FALSE
                                    /\ u[q].object.made => u[q].object.parent
  BY <1>1, <1>2
<1>5. \A q \in 1..Panels : /\ u[q].object.made => u[q].object.parent
                           /\ u[q].expanded = (Final(u[q]) = "shown")
  <2> TAKE q \in 1..Panels
  <2>1. CASE q = p
    BY <1>1, <1>2, <1>3, <2>1
  <2>2. CASE q # p
    BY <1>4, <2>2
  <2> QED
    BY <2>1, <2>2
<1>6. Tidy(u)
  BY <1>3, <1>4, <1>5 DEF Tidy
<1> QED
  BY <1>6 DEF u, g

\* The panel of a user who waits is opened, and the open one closed.
LEMMA ClickShows ==
    ASSUME panel \in LivePanels, Tidy(panel), PanelSettled, NEW p \in 1..Panels,
           panel[p].class # "shown"
    PROVE  Tidy(Clicked(p, {}))
<1> DEFINE f == Found(p)
           object == IF panel[p].object.made THEN panel[p].object ELSE Made(TRUE)
           actives == IF object.parent THEN Actives(f) ELSE <<>>
           First   == f[actives[1]].object
           hidden  == HideActives(f, actives, {})
           left    == IF actives # <<>> /\ ~First.made THEN Forget(hidden.panels, actives)
                      ELSE hidden.panels
           ends    == [Register(left, p) EXCEPT ![p] = Start(@, "shown")]
<1>1. \A q \in 1..Panels : /\ panel[q].pending.do = "none" /\ panel[q].class # "moving"
                           /\ ~panel[q].object.transitioning
                           /\ panel[q].expanded = (panel[q].class = "shown")
                           /\ panel[q].object.made => panel[q].object.parent
  <2> TAKE q \in 1..Panels
  <2>1. panel[q].pending.do = "none" /\ ~panel[q].pending.own
    BY DEF PanelSettled, NoneWaits
  <2>2. panel[q] \in LiveRecords
    BY DEF LivePanels
  <2> QED
    BY <2>1, <2>2 DEF LiveRecords, IsLive, Tidy, Final
<1>2. /\ f \in LivePanels
      /\ \A q \in 1..Panels : /\ f[q].class = panel[q].class /\ f[q].object = panel[q].object
                              /\ f[q].pending = panel[q].pending
                              /\ f[q].expanded = (panel[q].class = "shown")
  BY <1>1, FoundIs
<1>3. object.parent /\ ~object.transitioning
  BY <1>1, MadeIs
<1>4. Clicked(p, {}) = (IF object.transitioning THEN Threw(f)
                    ELSE IF \/ actives # <<>> /\ First.transitioning
                            \/ p \in {} THEN Good(Register(f, p))
                    ELSE IF hidden.threw THEN hidden
                    ELSE Good(ends)).panels
  BY DEF Clicked, ShowPanel
<1>5. actives = Actives(f)
  BY <1>3
<1>6. \A q \in 1..Panels : IsActive(f[q]) <=> panel[q].class = "shown"
  BY <1>1, <1>2 DEF IsActive
<1>7. \A q, r \in 1..Panels : panel[q].class = "shown" /\ panel[r].class = "shown" => q = r
  BY <1>1 DEF Tidy, Final
<1>8. Good(f).panels = f /\ ~Good(f).threw /\ Good(ends).panels = ends
  BY DEF Good
<1> HIDE DEF object, f, ends, actives
<1>9. CASE \A q \in 1..Panels : panel[q].class # "shown"
  <2>1. actives = <<>>
    BY <1>5, <1>6, <1>9, ActivesAre
  <2>2. hidden = Good(f)
    <3>1. actives \in Seq(1..Panels)
      BY <1>5, ActivesAre
    <3> QED
      BY <1>2, <2>1, <3>1, HideActivesIs
  <2>3. left = f /\ ~hidden.threw
    BY <1>8, <2>1, <2>2
  <2>4. Clicked(p, {}) = ends
    BY <1>3, <1>4, <1>8, <2>1, <2>3
  <2> HIDE DEF left, hidden
  <2>5. left \in LivePanels /\ left[p].object = panel[p].object
        /\ \A q \in 1..Panels : q # p => /\ Final(left[q]) # "shown"
                                         /\ left[q].expanded = FALSE
                                         /\ left[q].object.made => left[q].object.parent
    BY <1>1, <1>2, <1>9, <2>3 DEF Final
  <2> QED
    BY <2>4, <2>5, ShownLast DEF ends
<1>10. ASSUME NEW q \in 1..Panels, panel[q].class = "shown"
       PROVE  Tidy(Clicked(p, {}))
  <2>1. actives = <<q>>
    BY <1>5, <1>6, <1>7, <1>10, ActivesAre
  <2>2. hidden = CallHide(f, q, {})
    <3>1. actives \in Seq(1..Panels)
      BY <1>5, ActivesAre
    <3> QED
      BY <1>2, <2>1, <3>1, HideActivesIs
  <2>3. actives # <<>> /\ actives[1] = q /\ First = panel[q].object
    <3>1. <<q>> # <<>> /\ <<q>>[1] = q
      OBVIOUS
    <3> QED
      BY <1>2, <2>1, <3>1
  <2>4. f[q].class = "shown" /\ ~f[q].object.transitioning /\ q # p
    BY <1>1, <1>2, <1>10
  <2>5. /\ hidden \in Outcomes /\ ~hidden.threw
        /\ \A r \in 1..Panels : r # q => hidden.panels[r] = f[r]
        /\ hidden.panels[q].class = "moving" /\ hidden.panels[q].pending.do = "hidden"
        /\ hidden.panels[q].expanded = FALSE
        /\ f[q].object.made => hidden.panels[q].object.parent = f[q].object.parent
    <3>1. CallHide(f, q, {}) \in Outcomes /\ HidesAt(CallHide(f, q, {}), f, q)
      <4>1. f \in LivePanels
        BY <1>2
      <4> QED
        BY <4>1, <2>4, CallHideIs
    <3> HIDE DEF hidden
    <3> QED
      BY <3>1, <2>2 DEF HidesAt
  <2>6. hidden.panels \in LivePanels
    BY <2>5 DEF Outcomes
  <2>7. left = IF ~panel[q].object.made THEN Forget(hidden.panels, <<q>>) ELSE hidden.panels
    BY <2>1, <2>3
  <2>8. Clicked(p, {}) = ends
    BY <1>1, <1>3, <1>4, <1>8, <2>3, <2>5
  <2> HIDE DEF left, hidden
  <2>9. /\ left \in LivePanels /\ \A r \in 1..Panels : r # q => left[r] = f[r]
        /\ left[q].pending.do = "hidden" /\ left[q].expanded = FALSE
        /\ left[q].object.made => left[q].object.parent
    <3>1. CASE panel[q].object.made
      BY <1>1, <1>2, <2>5, <2>6, <2>7, <3>1
    <3>2. CASE ~panel[q].object.made
      <4> DEFINE u == Forget(hidden.panels, <<q>>)
      <4>1. DOMAIN <<q>> = {1} /\ <<q>>[1] = q
        OBVIOUS
      <4>2. /\ u \in LivePanels
            /\ u[q].object = NoObject /\ u[q].expanded = hidden.panels[q].expanded
            /\ u[q].pending.do = hidden.panels[q].pending.do
            /\ \A r \in 1..Panels : r # q => u[r] = hidden.panels[r]
        BY <2>6, <4>1, ForgetIs
      <4> HIDE DEF u
      <4>3. left = u
        BY <2>7, <3>2 DEF u
      <4> QED
        BY <2>5, <4>2, <4>3, MadeIs
    <3> QED
      BY <3>1, <3>2
  <2>10. left[p].object = panel[p].object
         /\ \A r \in 1..Panels : r # p => /\ Final(left[r]) # "shown"
                                          /\ left[r].expanded = FALSE
                                          /\ left[r].object.made => left[r].object.parent
    <3>1. left[p].object = panel[p].object
      BY <1>2, <2>4, <2>9
    <3>2. \A r \in 1..Panels : r # q => panel[r].class # "shown"
      BY <1>7, <1>10
    <3>3. ASSUME NEW r \in 1..Panels, r # p
          PROVE  /\ Final(left[r]) # "shown" /\ left[r].expanded = FALSE
                 /\ left[r].object.made => left[r].object.parent
      <4>1. CASE r = q
        BY <2>9, <4>1 DEF Final
      <4>2. CASE r # q
        <5>1. left[r] = f[r]
          BY <2>9, <4>2
        <5>2. /\ f[r].class # "shown" /\ f[r].pending.do = "none" /\ f[r].expanded = FALSE
              /\ f[r].object.made => f[r].object.parent
          BY <1>1, <1>2, <3>2, <4>2
        <5>3. Final(left[r]) = f[r].class
          BY <5>1, <5>2 DEF Final
        <5> QED
          BY <5>1, <5>2, <5>3
      <4> QED
        BY <4>1, <4>2
    <3> QED
      BY <3>1, <3>3
  <2> QED
    BY <2>8, <2>9, <2>10, ShownLast DEF ends
<1> QED
  BY <1>9, <1>10

LEMMA PanelKeeps ==
    ASSUME PanelInv, [CollapseNext]_panelVars
    PROVE  PanelInv'
<1>1. panel \in LivePanels /\ (panelEnv.patient /\ ~panelEnv.prevents => Tidy(panel))
  BY DEF PanelInv
<1>2. ASSUME NEW p \in 1..Panels, Click(p)
      PROVE  PanelInv'
  <2>1. PICK stopped \in StoppedPanels : panel' = Clicked(p, stopped)
    BY <1>2, ClickIs
  <2>2. panelEnv' = panelEnv /\ (panelEnv.patient => PanelSettled)
    BY <1>2, ClickIs
  <2>3. Clicked(p, stopped) \in LivePanels
    BY <1>1, ClickedIsLive
  <2>4. panelEnv.patient /\ ~panelEnv.prevents => stopped = {} /\ Tidy(Clicked(p, {}))
    BY <1>1, <2>1, <2>2, ClickHides, ClickShows DEF StoppedPanels
  <2>5. panel' \in LivePanels /\ (panelEnv'.patient /\ ~panelEnv'.prevents => Tidy(panel'))
    BY <2>1, <2>2, <2>3, <2>4
  <2> QED
    BY <2>5 DEF PanelInv, LivePanels, Tidy, Final
<1>3. ASSUME NEW p \in 1..Panels, PanelTransitionEnds(p)
      PROVE  PanelInv'
  <2> DEFINE r == Complete(panel[p])
             u == [panel EXCEPT ![p] = r]
  <2>1. panel' = u /\ panelEnv' = panelEnv /\ panel[p].pending # NoneWaits
    BY <1>3 DEF PanelTransitionEnds
  <2>2. /\ r \in LiveRecords /\ r.class = panel[p].pending.do /\ r.pending.do = "none"
        /\ panel[p].pending.do # "none" /\ r.expanded = panel[p].expanded
        /\ r.object.made = panel[p].object.made /\ r.object.parent = panel[p].object.parent
    <3>1. panel[p] \in LiveRecords
      BY <1>1 DEF LivePanels
    <3> QED
      BY <2>1, <3>1, CompleteIs
  <2> HIDE DEF r
  <2>3. u \in LivePanels /\ u[p] = r /\ \A q \in 1..Panels : q # p => u[q] = panel[q]
    BY <1>1, <2>2 DEF LivePanels
  <2> HIDE DEF u
  <2>4. \A q \in 1..Panels : /\ Final(u[q]) = Final(panel[q])
                             /\ u[q].expanded = panel[q].expanded
                             /\ u[q].object.made = panel[q].object.made
                             /\ u[q].object.parent = panel[q].object.parent
    BY <2>2, <2>3 DEF Final
  <2>5. panelEnv.patient /\ ~panelEnv.prevents => Tidy(u)
    <3> SUFFICES ASSUME Tidy(panel) PROVE Tidy(u)
      BY <1>1
    <3> HIDE DEF Final
    <3>1. \A q \in 1..Panels : /\ u[q].object.made => u[q].object.parent
                               /\ u[q].expanded = (Final(u[q]) = "shown")
      <4> TAKE q \in 1..Panels
      <4>1. /\ panel[q].object.made => panel[q].object.parent
            /\ panel[q].expanded = (Final(panel[q]) = "shown")
        BY DEF Tidy
      <4> QED
        BY <2>4, <4>1
    <3> QED
      BY <2>4, <3>1 DEF Tidy
  <2> QED
    BY <2>1, <2>3, <2>5 DEF PanelInv, LivePanels, Tidy, Final
<1>4. CASE UNCHANGED panelVars
  BY <1>1, <1>4 DEF panelVars, PanelInv, LivePanels, Tidy, Final
<1> QED
  BY <1>2, <1>3, <1>4 DEF CollapseNext

\* However many panels there are and whichever the markup opens: of a user who waits one
\* panel is open at most and the triggers tell which, if no event is prevented, and however
\* fast a user clicks and whatever is prevented no trigger is dead for ever
\* (js/src/collapse.js).
THEOREM PanelsAgree == CollapseSpec => []CollapseTypeOK /\ []AccordionSound
<1>1. CollapseInit => PanelInv
  <2> SUFFICES ASSUME CollapseInit PROVE PanelInv
    OBVIOUS
  <2> DEFINE class(p) == IF p = panelEnv.opened THEN "shown" ELSE "hidden"
             open(p) == p = panelEnv.opened
             r(p) == [class |-> class(p), expanded |-> open(p), object |-> NoObject,
                      pending |-> NoneWaits]
  <2>1. panel = [p \in 1..Panels |-> r(p)]
    BY DEF CollapseInit
  <2>2. \A p \in 1..Panels : class(p) \in {"shown", "hidden"} /\ open(p) \in BOOLEAN
                             /\ (class(p) = "shown" <=> open(p))
    OBVIOUS
  <2>3. /\ NoneWaits \in Pendings /\ NoneWaits.do = "none" /\ ~NoneWaits.own
        /\ NoObject \in Objects /\ ~NoObject.transitioning /\ ~NoObject.made
    BY MadeIs DEF NoneWaits, Pendings
  <2>4. \A p, q \in 1..Panels : open(p) /\ open(q) => p = q
    OBVIOUS
  <2> HIDE DEF class, open
  <2>5. \A p \in 1..Panels : /\ r(p) \in PanelRecords
                             /\ r(p).class = class(p) /\ r(p).expanded = open(p)
                             /\ r(p).object = NoObject /\ r(p).pending = NoneWaits
    BY <2>2, <2>3 DEF PanelRecords
  <2> HIDE DEF r
  <2>6. \A p \in 1..Panels : r(p) \in LiveRecords
    BY <2>2, <2>3, <2>5 DEF LiveRecords, IsLive
  <2>7. panel \in LivePanels /\ \A p \in 1..Panels : panel[p] = r(p)
    BY <2>1, <2>6 DEF LivePanels
  <2>8. \A p \in 1..Panels : /\ ~panel[p].object.made /\ Final(panel[p]) = class(p)
                             /\ panel[p].expanded = open(p)
    BY <2>3, <2>5, <2>7 DEF Final
  <2>9. \A p \in 1..Panels : panel[p].expanded = (Final(panel[p]) = "shown")
    BY <2>2, <2>8
  <2> QED
    BY <2>2, <2>4, <2>7, <2>8, <2>9 DEF PanelInv, Tidy
<1>2. PanelInv /\ [CollapseNext]_panelVars => PanelInv'
  BY PanelKeeps
<1>3. PanelInv => CollapseTypeOK /\ AccordionSound
  <2> SUFFICES ASSUME PanelInv PROVE CollapseTypeOK /\ AccordionSound
    OBVIOUS
  <2>1. \A p \in 1..Panels : panel[p] \in PanelRecords /\ IsLive(panel[p])
    BY DEF PanelInv, LivePanels, LiveRecords
  <2>2. \A p \in 1..Panels : panel[p].pending # NoneWaits <=> panel[p].pending.do # "none"
    <3> TAKE p \in 1..Panels
    <3>1. panel[p].pending \in Pendings /\ (panel[p].pending.do = "none" => ~panel[p].pending.own)
      BY <2>1 DEF PanelRecords, IsLive
    <3>2. NoneWaits.do = "none"
      BY DEF NoneWaits
    <3>3. ASSUME panel[p].pending.do = "none" PROVE panel[p].pending = NoneWaits
      <4>1. panel[p].pending.own = FALSE
        BY <3>1, <3>3 DEF Pendings
      <4> QED
        BY <3>1, <3>3, <4>1 DEF NoneWaits, Pendings
    <3> QED
      BY <3>2, <3>3
  <2>3. CollapseTypeOK
    <3> SUFFICES ASSUME NEW p \in 1..Panels
                 PROVE  /\ panel[p].class \in {"hidden", "shown", "moving"}
                        /\ panel[p].expanded \in BOOLEAN
                        /\ (panel[p].class = "moving") = (panel[p].pending # NoneWaits)
                        /\ panel[p].object \in [transitioning : BOOLEAN, parent : BOOLEAN,
                                                made : BOOLEAN]
      BY DEF CollapseTypeOK
    <3>1. /\ panel[p].class \in {"hidden", "shown", "moving"}
          /\ panel[p].expanded \in BOOLEAN /\ panel[p].object \in Objects
      BY <2>1 DEF PanelRecords
    <3>2. panel[p].class = "moving" <=> panel[p].pending # NoneWaits
      BY <2>1, <2>2 DEF IsLive
    <3> QED
      BY <3>1, <3>2 DEF Objects
  <2>4. NoDeadTrigger
    BY <2>1 DEF IsLive, NoDeadTrigger
  <2>5. AccordionSettled
    <3> SUFFICES ASSUME Tidy(panel), PanelSettled
                 PROVE  /\ \A p, q \in 1..Panels :
                              panel[p].class = "shown" /\ panel[q].class = "shown" => p = q
                        /\ \A p \in 1..Panels : panel[p].expanded = (panel[p].class = "shown")
      BY DEF PanelInv, AccordionSettled
    <3>1. \A p \in 1..Panels : Final(panel[p]) = panel[p].class
      BY <2>2 DEF PanelSettled, Final
    <3> QED
      BY <3>1 DEF Tidy
  <2> QED
    BY <2>3, <2>4, <2>5 DEF AccordionSound
<1> QED
  BY <1>1, <1>2, <1>3, PTL DEF CollapseSpec

-----------------------------------------------------------------------------
(* The carousel.                                                           *)

\* The calls of to() that can wait: only a script calls it with a number.
ToCalls ==
    {call \in [index : 1..Items, number : BOOLEAN] : call.number => carouselEnv.api}

CarouselStates ==
    [active : SUBSET (1..Items), indicator : 1..Items,
     slides : Seq([from : 1..Items, to : 1..Items]), slid : BOOLEAN,
     waiting : Seq(ToCalls), isSliding : BOOLEAN, isPaused : BOOLEAN,
     interval : BOOLEAN, over : BOOLEAN]

ASlide(from, to) == [from |-> from, to |-> to]

\* One item is active; and no slide is under way, or one that leaves this item.
OneAt(c) ==
    \E i \in 1..Items :
        /\ c.active = {i}
        /\ \/ ~c.isSliding /\ c.slides = <<>> /\ c.indicator = i
           \/ /\ c.isSliding
              /\ \E j \in 1..Items : c.slides = <<ASlide(i, j)>> /\ c.indicator = j

\* Without scripts nothing stays paused: RestsUnderMouse in a form that is inductive.
Rides(c) ==
    ~carouselEnv.api =>
        /\ ~c.isPaused
        /\ c.interval => ~c.over
        /\ carouselEnv.ride /\ ~c.over => c.interval

IsServed(c) == c.waiting # <<>> => c.slides # <<>> \/ c.slid

CarouselGoesOn(c) == c \in CarouselStates /\ OneAt(c) /\ Rides(c) /\ IsServed(c)

\* No more calls wait than the model lets wait.
FewWait(c, n) == Len(c.waiting) <= n

CarouselInv ==
    carouselEnv \in CarouselEnvs /\ CarouselGoesOn(carousel) /\ FewWait(carousel, MaxWaiting)

SameItems(u, c) ==
    /\ u.active = c.active /\ u.indicator = c.indicator /\ u.slides = c.slides
    /\ u.isSliding = c.isSliding

SameCalls(u, c) == u.slid = c.slid /\ u.waiting = c.waiting /\ u.over = c.over

LEMMA CycleIs ==
    ASSUME NEW c \in CarouselStates, NEW event \in BOOLEAN
    PROVE  LET u == Cycle(c, event)
           IN  /\ u \in CarouselStates /\ SameItems(u, c) /\ SameCalls(u, c)
               /\ u.isPaused = (event /\ c.isPaused) /\ u.interval = ~(event /\ c.isPaused)
<1> DEFINE isPaused == event /\ c.isPaused
           interval == ~isPaused
           u == [c EXCEPT !.isPaused = isPaused, !.interval = interval]
<1>1. isPaused \in BOOLEAN /\ interval \in BOOLEAN
  OBVIOUS
<1>2. Cycle(c, event) = u
  BY DEF Cycle
<1> HIDE DEF isPaused, interval
<1>3. u \in CarouselStates
  BY <1>1 DEF CarouselStates
<1>4. u.isPaused = isPaused /\ u.interval = interval
  BY DEF CarouselStates
<1>5. SameItems(u, c) /\ SameCalls(u, c)
  BY DEF CarouselStates, SameItems, SameCalls
<1> HIDE DEF u
<1> QED
  BY <1>2, <1>3, <1>4, <1>5 DEF isPaused, interval

LEMMA PauseIs ==
    ASSUME NEW c \in CarouselStates, NEW event \in BOOLEAN
    PROVE  LET u == Pause(c, event)
           IN  /\ u \in CarouselStates /\ SameItems(u, c) /\ SameCalls(u, c)
               /\ u.isPaused = (c.isPaused \/ ~event) /\ u.interval = FALSE
<1> DEFINE isPaused == c.isPaused \/ ~event
           paused == [c EXCEPT !.isPaused = isPaused]
           cycled == IF c.slides # <<>> THEN Cycle(paused, TRUE) ELSE paused
           u == [cycled EXCEPT !.interval = FALSE]
<1>1. c.isPaused \in BOOLEAN /\ isPaused \in BOOLEAN
  BY DEF CarouselStates
<1>2. Pause(c, event) = u
  BY DEF Pause
<1> HIDE DEF isPaused
<1>3. paused \in CarouselStates /\ paused.isPaused = isPaused
  BY <1>1 DEF CarouselStates
<1>4. SameItems(paused, c) /\ SameCalls(paused, c)
  BY DEF CarouselStates, SameItems, SameCalls
<1> HIDE DEF paused
<1>5. cycled \in CarouselStates /\ SameItems(cycled, c) /\ SameCalls(cycled, c)
      /\ cycled.isPaused = isPaused
  <2>1. LET v == Cycle(paused, TRUE)
        IN  /\ v \in CarouselStates /\ SameItems(v, paused) /\ SameCalls(v, paused)
            /\ v.isPaused = (TRUE /\ paused.isPaused)
    BY <1>3, CycleIs
  <2> QED
    BY <1>1, <1>3, <1>4, <2>1 DEF SameItems, SameCalls
<1> HIDE DEF cycled
<1>6. u \in CarouselStates /\ u.interval = FALSE /\ u.isPaused = cycled.isPaused
  BY <1>5 DEF CarouselStates
<1>7. SameItems(u, cycled) /\ SameCalls(u, cycled)
  BY <1>5 DEF CarouselStates, SameItems, SameCalls
<1> HIDE DEF u
<1> QED
  BY <1>2, <1>5, <1>6, <1>7 DEF isPaused, SameItems, SameCalls

\* A slide starts, or the next item is shown at once.
LEMMA SlideGoesOn ==
    ASSUME NEW c, CarouselGoesOn(c), ~c.isSliding, NEW next \in 1..Items,
           NEW prevented \in BOOLEAN
    PROVE  LET u == Slide(c, next, prevented) IN CarouselGoesOn(u) /\ SameCalls(u, c)
<1> DEFINE from   == ActiveItem(c)
           paused == IF c.interval THEN Pause(c, FALSE) ELSE c
           one    == Append(paused.slides, [from |-> from, to |-> next])
           slides == [paused EXCEPT !.isSliding = TRUE, !.indicator = next, !.slides = one]
           items  == (paused.active \ {from}) \cup {next}
           steps  == [paused EXCEPT !.indicator = next, !.active = items]
           moved  == IF carouselEnv.animated THEN slides ELSE steps
           last   == IF c.interval THEN Cycle(moved, FALSE) ELSE moved
<1>1. Slide(c, next, prevented) = IF next \in c.active THEN [c EXCEPT !.isSliding = FALSE]
                                  ELSE IF prevented THEN c ELSE last
  BY DEF Slide
<1>2. c \in CarouselStates /\ c.interval \in BOOLEAN /\ c.isPaused \in BOOLEAN
  BY DEF CarouselGoesOn, CarouselStates
<1>3. PICK i \in 1..Items : c.active = {i} /\ c.slides = <<>> /\ c.indicator = i
  BY DEF CarouselGoesOn, OneAt
<1>4. from = i
  BY <1>3 DEF ActiveItem
<1>5. CASE next \in c.active
  <2> DEFINE u == [c EXCEPT !.isSliding = FALSE]
  <2>1. u \in CarouselStates /\ u.isSliding = FALSE
    BY <1>2 DEF CarouselStates
  <2>2. /\ u.active = c.active /\ u.indicator = c.indicator /\ u.slides = c.slides
        /\ SameCalls(u, c) /\ u.isPaused = c.isPaused /\ u.interval = c.interval
    BY <1>2 DEF CarouselStates, SameCalls
  <2> HIDE DEF u
  <2>3. CarouselGoesOn(u)
    BY <1>3, <2>1, <2>2 DEF CarouselGoesOn, OneAt, Rides, IsServed, SameCalls
  <2> QED
    BY <1>1, <1>5, <2>2, <2>3 DEF u
<1>6. CASE next \notin c.active /\ prevented
  BY <1>1, <1>6 DEF SameCalls
<1>7. CASE next \notin c.active /\ ~prevented
  <2> HIDE DEF from
  <2>1. /\ paused \in CarouselStates /\ SameItems(paused, c) /\ SameCalls(paused, c)
        /\ ~c.interval => paused.isPaused = c.isPaused /\ paused.interval = c.interval
    <3>1. LET v == Pause(c, FALSE)
          IN  v \in CarouselStates /\ SameItems(v, c) /\ SameCalls(v, c)
      BY <1>2, PauseIs
    <3> QED
      BY <1>2, <3>1 DEF SameItems, SameCalls
  <2> HIDE DEF paused
  <2>2. /\ moved \in CarouselStates /\ SameCalls(moved, c) /\ OneAt(moved)
        /\ moved.isPaused = paused.isPaused /\ moved.interval = paused.interval
        /\ c.slides # <<>> => moved.slides # <<>>
    <3>1. CASE carouselEnv.animated
      <4>1. one = <<ASlide(i, next)>> /\ one \in Seq([from : 1..Items, to : 1..Items])
        <5> DEFINE r == ASlide(i, next)
        <5>1. r \in [from : 1..Items, to : 1..Items] /\ one = Append(<<>>, r)
          BY <1>3, <1>4, <2>1 DEF ASlide, SameItems
        <5> HIDE DEF r
        <5>2. one = <<r>> /\ <<r>> \in Seq([from : 1..Items, to : 1..Items])
          BY <5>1
        <5> QED
          BY <5>2 DEF r
      <4> HIDE DEF one
      <4>2. slides \in CarouselStates
        BY <2>1, <4>1 DEF CarouselStates
      <4>3. slides.isSliding = TRUE /\ slides.indicator = next /\ slides.slides = one
        BY <2>1 DEF CarouselStates
      <4>4. slides.active = paused.active /\ SameCalls(slides, paused)
            /\ slides.isPaused = paused.isPaused /\ slides.interval = paused.interval
        BY <2>1 DEF CarouselStates, SameCalls
      <4> HIDE DEF slides
      <4>5. OneAt(slides)
        BY <1>3, <2>1, <4>1, <4>3, <4>4 DEF OneAt, SameItems
      <4>6. moved = slides
        BY <3>1
      <4> HIDE DEF moved
      <4> QED
        BY <1>3, <2>1, <4>2, <4>4, <4>5, <4>6 DEF SameCalls
    <3>2. CASE ~carouselEnv.animated
      <4>1. items = {next} /\ items \in SUBSET (1..Items)
        BY <1>3, <1>4, <2>1 DEF SameItems
      <4> HIDE DEF items
      <4>2. steps \in CarouselStates
        BY <2>1, <4>1 DEF CarouselStates
      <4>3. steps.active = items /\ steps.indicator = next
        BY <2>1 DEF CarouselStates
      <4>4. /\ steps.isSliding = paused.isSliding /\ steps.slides = paused.slides
            /\ SameCalls(steps, paused)
            /\ steps.isPaused = paused.isPaused /\ steps.interval = paused.interval
        BY <2>1 DEF CarouselStates, SameCalls
      <4> HIDE DEF steps
      <4>5. OneAt(steps)
        BY <1>3, <2>1, <4>1, <4>3, <4>4 DEF OneAt, SameItems
      <4>6. moved = steps
        BY <3>2
      <4> HIDE DEF moved
      <4> QED
        BY <1>3, <2>1, <4>2, <4>4, <4>5, <4>6 DEF SameCalls
    <3> QED
      BY <3>1, <3>2
  <2> HIDE DEF moved
  <2>3. /\ last \in CarouselStates /\ SameCalls(last, c) /\ OneAt(last)
        /\ c.slides # <<>> => last.slides # <<>>
        /\ IF c.interval THEN last.isPaused = FALSE /\ last.interval = TRUE
           ELSE last.isPaused = c.isPaused /\ last.interval = c.interval
    <3>1. CASE c.interval
      <4> DEFINE v == Cycle(moved, FALSE)
      <4>1. /\ v \in CarouselStates /\ SameItems(v, moved) /\ SameCalls(v, moved)
            /\ v.isPaused = (FALSE /\ moved.isPaused)
            /\ v.interval = ~(FALSE /\ moved.isPaused)
        BY <2>2, CycleIs
      <4> HIDE DEF v
      <4>2. v.isPaused = FALSE /\ v.interval = TRUE
        BY <4>1
      <4>3. OneAt(v) /\ SameCalls(v, c) /\ (c.slides # <<>> => v.slides # <<>>)
        BY <2>2, <4>1 DEF OneAt, SameItems, SameCalls
      <4>4. last = v
        BY <3>1 DEF v
      <4> HIDE DEF last
      <4> QED
        BY <3>1, <4>1, <4>2, <4>3, <4>4
    <3>2. CASE ~c.interval
      <4>1. last = moved
        BY <3>2
      <4> HIDE DEF last
      <4> QED
        BY <2>1, <2>2, <3>2, <4>1
    <3> QED
      BY <1>2, <3>1, <3>2
  <2> HIDE DEF last
  <2>4. Rides(last)
    <3>1. Rides(c)
      BY DEF CarouselGoesOn
    <3>2. last.over = c.over
      BY <2>3 DEF SameCalls
    <3>3. CASE c.interval
      BY <2>3, <3>1, <3>2, <3>3 DEF Rides
    <3>4. CASE ~c.interval
      BY <2>3, <3>1, <3>2, <3>4 DEF Rides
    <3> QED
      BY <1>2, <3>3, <3>4
  <2>5. IsServed(last)
    BY <2>3 DEF CarouselGoesOn, IsServed, SameCalls
  <2>6. CarouselGoesOn(last)
    BY <2>3, <2>4, <2>5 DEF CarouselGoesOn
  <2> QED
    BY <1>1, <1>7, <2>3, <2>6
<1> QED
  BY <1>5, <1>6, <1>7

\* A call of to(): it waits, starts the interval anew, or slides.
LEMMA ToGoesOn ==
    ASSUME carouselEnv \in CarouselEnvs, NEW c, CarouselGoesOn(c), NEW call \in ToCalls,
           NEW prevented \in BOOLEAN
    PROVE  LET u == To(c, call, prevented) IN CarouselGoesOn(u) /\ FewWait(u, Len(c.waiting) + 1)
<1>1. c \in CarouselStates /\ c.isSliding \in BOOLEAN
  BY DEF CarouselGoesOn, CarouselStates
<1> DEFINE m == Len(c.waiting)
<1>0. m \in Nat
  BY <1>1 DEF CarouselStates
<1>2. call.index \in 1..Items
  BY DEF ToCalls
<1>3. CASE c.isSliding
  <2> DEFINE more == Append(c.waiting, call)
             u == [c EXCEPT !.waiting = more]
  <2>1. more \in Seq(ToCalls) /\ Len(more) = m + 1
    <3>1. c.waiting \in Seq(ToCalls)
      BY <1>1 DEF CarouselStates
    <3> QED
      BY <3>1
  <2> HIDE DEF more
  <2>2. u \in CarouselStates
    BY <1>1, <2>1 DEF CarouselStates
  <2>3. /\ SameItems(u, c) /\ u.over = c.over /\ u.waiting = more
        /\ u.isPaused = c.isPaused /\ u.interval = c.interval
    BY <1>1 DEF CarouselStates, SameItems
  <2> HIDE DEF u
  <2>4. u.slides # <<>>
    <3>1. PICK i \in 1..Items, j \in 1..Items : c.slides = <<ASlide(i, j)>>
      BY <1>3 DEF CarouselGoesOn, OneAt
    <3> QED
      BY <2>3, <3>1 DEF SameItems
  <2>5. CarouselGoesOn(u)
    BY <2>2, <2>3, <2>4 DEF CarouselGoesOn, OneAt, Rides, IsServed, SameItems
  <2>6. FewWait(u, m + 1)
    BY <1>0, <2>1, <2>3 DEF FewWait
  <2> QED
    BY <1>3, <2>5, <2>6 DEF To, u, more
<1>4. CASE ~c.isSliding /\ call.number /\ call.index = ActiveItem(c)
  <2> DEFINE p == Pause(c, FALSE)
             u == Cycle(p, FALSE)
  <2>1. p \in CarouselStates /\ SameItems(p, c) /\ SameCalls(p, c)
    BY <1>1, PauseIs
  <2> HIDE DEF p
  <2>2. u \in CarouselStates /\ SameItems(u, p) /\ SameCalls(u, p)
    BY <2>1, CycleIs
  <2> HIDE DEF u
  <2>3. carouselEnv.api
    BY <1>4 DEF ToCalls
  <2>4. CarouselGoesOn(u)
    BY <2>1, <2>2, <2>3 DEF CarouselGoesOn, OneAt, Rides, IsServed, SameItems, SameCalls
  <2>5. To(c, call, prevented) = Cycle(Pause(c, FALSE), FALSE)
    BY <1>4, Zenon DEF To
  <2>6. FewWait(u, m + 1)
    BY <1>0, <2>1, <2>2 DEF FewWait, SameCalls
  <2> QED
    BY <2>4, <2>5, <2>6 DEF u, p
<1>5. CASE ~c.isSliding /\ ~(call.number /\ call.index = ActiveItem(c))
  <2> DEFINE u == Slide(c, call.index, prevented)
  <2>1. CarouselGoesOn(u) /\ SameCalls(u, c)
    BY <1>2, <1>5, SlideGoesOn
  <2>2. To(c, call, prevented) = u
    BY <1>5 DEF To
  <2> HIDE DEF u
  <2>3. FewWait(u, m + 1)
    BY <1>0, <2>1 DEF FewWait, SameCalls
  <2> QED
    BY <2>1, <2>2, <2>3
<1> QED
  BY <1>1, <1>3, <1>4, <1>5

\* The calls that waited are made again, one after the other.
LEMMA RunWaitingGoesOn ==
    ASSUME carouselEnv \in CarouselEnvs, NEW c, CarouselGoesOn(c), NEW prevented \in BOOLEAN
    PROVE  LET u == RunWaiting(c, prevented) IN CarouselGoesOn(u) /\ FewWait(u, Len(c.waiting))
<1> DEFINE m == Len(c.waiting)
           w == c.waiting
           none == <<>>
           start == [c EXCEPT !.slid = FALSE, !.waiting = none]
           T == {x \in CarouselStates : CarouselGoesOn(x)}
           step == [a \in (1..m) \X T |-> To(a[2], w[a[1]], prevented)]
           next(f, n) == IF n = 0 THEN start ELSE To(f[n - 1], w[n], prevented)
           after == CHOOSE f : f = [n \in 0..m |-> next(f, n)]
<1>1. c \in CarouselStates /\ w \in Seq(ToCalls) /\ m \in Nat /\ none \in Seq(ToCalls)
  <2>1. c \in CarouselStates /\ w \in Seq(ToCalls) /\ none \in Seq(ToCalls)
    BY DEF CarouselGoesOn, CarouselStates
  <2> QED
    BY <2>1
<1>2. \A n \in 1..m : w[n] \in ToCalls
  BY <1>1
<1>3. RunWaiting(c, prevented) = after[m]
  BY DEF RunWaiting
<1>4. start \in T /\ FewWait(start, 0)
  <2> HIDE DEF none
  <2>1. start \in CarouselStates
    BY <1>1 DEF CarouselStates
  <2>2. /\ SameItems(start, c) /\ start.over = c.over /\ start.waiting = none
        /\ start.isPaused = c.isPaused /\ start.interval = c.interval
    BY <1>1 DEF CarouselStates, SameItems
  <2> HIDE DEF start
  <2>3. CarouselGoesOn(start)
    BY <2>1, <2>2 DEF CarouselGoesOn, OneAt, Rides, IsServed, SameItems, none
  <2>4. FewWait(start, 0)
    BY <2>2 DEF FewWait, none
  <2> QED
    BY <2>1, <2>3, <2>4
<1> HIDE DEF w, m, start
<1>5. \A n \in 1..m : \A x \in T : /\ To(x, w[n], prevented) \in T
                                 /\ FewWait(To(x, w[n], prevented), Len(x.waiting) + 1)
  <2> TAKE n \in 1..m
  <2> TAKE x \in T
  <2>1. /\ CarouselGoesOn(To(x, w[n], prevented))
        /\ FewWait(To(x, w[n], prevented), Len(x.waiting) + 1)
    BY <1>2, ToGoesOn
  <2> QED
    BY <2>1 DEF CarouselGoesOn
<1>13. \A x \in T : Len(x.waiting) \in Nat
  <2> TAKE x \in T
  <2>1. x.waiting \in Seq(ToCalls)
    BY DEF CarouselStates
  <2> QED
    BY <2>1
<1> HIDE DEF T
<1>6. step \in [(1..m) \X T -> T]
  BY <1>5
<1>7. PICK g \in [0..m -> T] : IsRepetition(g, m, start, step)
  <2> HIDE DEF step
  <2> QED
    BY <1>1, <1>4, <1>6, Repeats
<1>8. g = [n \in 0..m |-> next(g, n)]
  <2>1. \A n \in 0..m : g[n] = next(g, n)
    <3> TAKE n \in 0..m
    <3>1. CASE n = 0
      BY <1>7, <3>1 DEF IsRepetition
    <3>2. CASE n # 0
      <4>1. n \in 1..m /\ n - 1 \in 0..m
        BY <1>1, <3>2
      <4>2. g[n] = step[<<n, g[n - 1]>>] /\ g[n - 1] \in T
        BY <1>7, <4>1 DEF IsRepetition
      <4> QED
        BY <3>2, <4>1, <4>2
    <3> QED
      BY <3>1, <3>2
  <2> HIDE DEF next
  <2> QED
    BY <1>7, <2>1
<1>9. after = [n \in 0..m |-> next(after, n)]
  <2> HIDE DEF next
  <2> QED
    BY <1>8
<1>10. \A n \in 0..m : after[n] = next(after, n)
  <2> HIDE DEF after, next
  <2> QED
    BY <1>9
<1> HIDE DEF after
<1>11. \A n \in 0..m : after[n] \in T /\ FewWait(after[n], n)
  <2> DEFINE S == {n \in 0..m : after[n] \in T /\ FewWait(after[n], n)}
  <2>1. 0 \in S
    BY <1>1, <1>4, <1>10
  <2>2. ASSUME NEW n \in 0..m, n < m, n \in S
        PROVE  n + 1 \in S
    <3>1. n + 1 \in 1..m /\ n + 1 \in 0..m /\ n + 1 # 0 /\ (n + 1) - 1 = n
      BY <1>1, <2>2
    <3>2. after[n + 1] = To(after[n], w[n + 1], prevented)
      BY <1>10, <3>1
    <3> DEFINE x == after[n]
               y == after[n + 1]
               a == Len(x.waiting)
               b == Len(y.waiting)
    <3>3. x \in T /\ y \in T /\ FewWait(y, a + 1) /\ a <= n
      BY <1>5, <2>2, <3>1, <3>2 DEF FewWait
    <3>4. a \in Nat /\ b \in Nat
      BY <1>13, <3>3
    <3>5. b <= a + 1
      BY <3>3 DEF FewWait
    <3>6. y \in T /\ b <= n + 1
      <4> HIDE DEF a, b
      <4> QED
        BY <3>3, <3>4, <3>5, <1>1
    <3> QED
      BY <3>1, <3>6 DEF FewWait
  <2>3. \A n \in 0..m : n \in S
    <3> HIDE DEF S
    <3> QED
      BY <1>1, <2>1, <2>2, UpTo
  <2> QED
    BY <2>3
<1>12. after[m] \in T /\ FewWait(after[m], m)
  BY <1>1, <1>11
<1> QED
  BY <1>3, <1>12 DEF T, m

\* A slide is over: its last item is active now.
LEMMA SlidGoesOn ==
    ASSUME NEW c, CarouselGoesOn(c), c.slides # <<>>
    PROVE  LET u == SlidThenOver(c) IN CarouselGoesOn(u) /\ u.waiting = c.waiting
<1> DEFINE items == (c.active \ {Head(c.slides).from}) \cup {Head(c.slides).to}
           rest == Tail(c.slides)
           a == [c EXCEPT !.active = items, !.slides = rest]
           u == [a EXCEPT !.isSliding = FALSE, !.slid = TRUE]
<1>1. c \in CarouselStates
  BY DEF CarouselGoesOn
<1>2. PICK i \in 1..Items, j \in 1..Items :
         c.active = {i} /\ c.slides = <<ASlide(i, j)>> /\ c.indicator = j
  BY DEF CarouselGoesOn, OneAt
<1>3. items = {j} /\ rest = <<>>
  <2> DEFINE r == ASlide(i, j)
  <2>1. r.from = i /\ r.to = j
    BY DEF ASlide
  <2> HIDE DEF r
  <2>2. c.slides = <<r>>
    BY <1>2 DEF r
  <2>3. Head(c.slides) = r /\ Tail(c.slides) = <<>>
    BY <2>2
  <2> QED
    BY <1>2, <2>1, <2>3
<1>4. SlidThenOver(c) = u
  BY DEF SlidThenOver, SlideOver
<1> HIDE DEF items, rest
<1>5. items \in SUBSET (1..Items) /\ rest \in Seq([from : 1..Items, to : 1..Items])
  BY <1>3
<1>6. /\ a \in CarouselStates /\ a.active = items /\ a.slides = rest
      /\ a.indicator = c.indicator /\ a.waiting = c.waiting /\ a.over = c.over
      /\ a.isPaused = c.isPaused /\ a.interval = c.interval
  BY <1>1, <1>5 DEF CarouselStates
<1> HIDE DEF a
<1>7. u \in CarouselStates
  BY <1>6 DEF CarouselStates
<1>8. /\ u.isSliding = FALSE /\ u.slid = TRUE /\ u.active = a.active /\ u.slides = a.slides
      /\ u.indicator = a.indicator /\ u.over = a.over /\ u.waiting = a.waiting
      /\ u.isPaused = a.isPaused /\ u.interval = a.interval
  BY <1>6 DEF CarouselStates
<1> HIDE DEF u
<1>9. OneAt(u)
  BY <1>2, <1>3, <1>6, <1>8 DEF OneAt
<1>10. Rides(u) /\ IsServed(u)
  BY <1>6, <1>8 DEF CarouselGoesOn, Rides, IsServed
<1> QED
  BY <1>4, <1>6, <1>7, <1>8, <1>9, <1>10 DEF CarouselGoesOn

\* The mouse comes or goes, or a script calls pause() or cycle().
StillWaits(u, c) == CarouselGoesOn(u) /\ u.waiting = c.waiting

LEMMA PausesGoOn ==
    ASSUME carouselEnv \in CarouselEnvs, NEW c, CarouselGoesOn(c)
    PROVE  /\ StillWaits(Pause([c EXCEPT !.over = TRUE], TRUE), c)
           /\ StillWaits(Cycle([c EXCEPT !.over = FALSE], TRUE), c)
           /\ carouselEnv.api => /\ StillWaits(Pause(c, FALSE), c)
                                 /\ StillWaits(Cycle(c, FALSE), c)
<1> DEFINE comes == [c EXCEPT !.over = TRUE]
           goes == [c EXCEPT !.over = FALSE]
           there == Pause(comes, TRUE)
           gone == Cycle(goes, TRUE)
<1>1. c \in CarouselStates /\ c.isPaused \in BOOLEAN
  BY DEF CarouselGoesOn, CarouselStates
<1>2. /\ comes \in CarouselStates /\ SameItems(comes, c) /\ comes.over = TRUE
      /\ comes.slid = c.slid /\ comes.waiting = c.waiting
      /\ comes.isPaused = c.isPaused /\ comes.interval = c.interval
  BY <1>1 DEF CarouselStates, SameItems
<1>3. /\ goes \in CarouselStates /\ SameItems(goes, c) /\ goes.over = FALSE
      /\ goes.slid = c.slid /\ goes.waiting = c.waiting
      /\ goes.isPaused = c.isPaused /\ goes.interval = c.interval
  BY <1>1 DEF CarouselStates, SameItems
<1> HIDE DEF comes, goes
<1>4. StillWaits(there, c)
  <2>1. /\ there \in CarouselStates /\ SameItems(there, comes) /\ SameCalls(there, comes)
        /\ there.isPaused = (comes.isPaused \/ ~TRUE) /\ there.interval = FALSE
    BY <1>2, PauseIs
  <2> HIDE DEF there
  <2>2. there.isPaused = c.isPaused
    BY <1>1, <1>2, <2>1
  <2>3. OneAt(there) /\ IsServed(there)
    BY <1>2, <2>1 DEF CarouselGoesOn, OneAt, IsServed, SameItems, SameCalls
  <2>4. Rides(there) /\ there.waiting = c.waiting
    BY <1>2, <2>1, <2>2 DEF CarouselGoesOn, Rides, SameCalls
  <2> QED
    BY <2>1, <2>3, <2>4 DEF CarouselGoesOn, StillWaits
<1>5. StillWaits(gone, c)
  <2>1. /\ gone \in CarouselStates /\ SameItems(gone, goes) /\ SameCalls(gone, goes)
        /\ gone.isPaused = (TRUE /\ goes.isPaused) /\ gone.interval = ~(TRUE /\ goes.isPaused)
    BY <1>3, CycleIs
  <2> HIDE DEF gone
  <2>2. gone.isPaused = c.isPaused /\ gone.interval = ~c.isPaused
    BY <1>1, <1>3, <2>1
  <2>3. OneAt(gone) /\ IsServed(gone)
    BY <1>3, <2>1 DEF CarouselGoesOn, OneAt, IsServed, SameItems, SameCalls
  <2>4. Rides(gone) /\ gone.waiting = c.waiting
    BY <1>3, <2>1, <2>2 DEF CarouselGoesOn, Rides, SameCalls
  <2> QED
    BY <2>1, <2>3, <2>4 DEF CarouselGoesOn, StillWaits
<1>6. ASSUME carouselEnv.api
      PROVE  StillWaits(Pause(c, FALSE), c) /\ StillWaits(Cycle(c, FALSE), c)
  <2>1. LET u == Pause(c, FALSE)
        IN  u \in CarouselStates /\ SameItems(u, c) /\ SameCalls(u, c)
    BY <1>1, PauseIs
  <2>2. LET u == Cycle(c, FALSE)
        IN  u \in CarouselStates /\ SameItems(u, c) /\ SameCalls(u, c)
    BY <1>1, CycleIs
  <2> QED
    BY ZenonT(30), <1>6, <2>1, <2>2 DEF StillWaits, CarouselGoesOn, OneAt, Rides, IsServed, SameItems, SameCalls
<1> QED
  BY <1>4, <1>5, <1>6 DEF comes, goes

LEMMA CarouselKeeps ==
    ASSUME CarouselInv, [CarouselNext]_carouselVars
    PROVE  CarouselInv'
<1> SUFFICES ASSUME carouselEnv' = carouselEnv
             PROVE  CarouselGoesOn(carousel') /\ FewWait(carousel', MaxWaiting)
  <2>1. carouselEnv' = carouselEnv
    BY DEF CarouselNext, carouselVars, Step, Tick, CallTo, MouseEnter, MouseLeave, CallPause,
           SlideTransitionEnds, Slid
  <2> QED
    BY <2>1 DEF CarouselInv, FewWait, CarouselGoesOn, CarouselStates, OneAt, Rides, IsServed, ToCalls
<1>1. /\ carouselEnv \in CarouselEnvs /\ CarouselGoesOn(carousel) /\ FewWait(carousel, MaxWaiting)
      /\ Prevented \subseteq BOOLEAN
  BY DEF CarouselInv, Prevented
<1>0. Len(carousel.waiting) \in Nat /\ MaxWaiting \in Nat
  <2>1. carousel.waiting \in Seq(ToCalls)
    BY <1>1 DEF CarouselGoesOn, CarouselStates
  <2> QED
    BY <2>1, CarouselAssumption
<1>11. ASSUME NEW u, CarouselGoesOn(u), u.waiting = carousel.waiting
       PROVE  CarouselGoesOn(u) /\ FewWait(u, MaxWaiting)
  BY <1>1, <1>11 DEF FewWait
<1>2. ASSUME NEW direction \in {"next", "prev"}, Step(direction)
      PROVE  CarouselGoesOn(carousel') /\ FewWait(carousel', MaxWaiting)
  <2>1. PICK prevented \in BOOLEAN :
           carousel' = Slide(carousel, ItemByDirection(carousel, direction), prevented)
    BY <1>1, <1>2 DEF Step
  <2>2. ItemByDirection(carousel, direction) \in 1..Items
    <3>1. PICK i \in 1..Items : carousel.active = {i}
      BY <1>1 DEF CarouselGoesOn, OneAt
    <3>2. ActiveItem(carousel) = i
      BY <3>1 DEF ActiveItem
    <3>3. Items \in Nat
      BY CarouselAssumption
    <3> QED
      BY <3>2, <3>3 DEF ItemByDirection
  <2>3. ~carousel.isSliding
    BY <1>2 DEF Step
  <2> QED
    BY <1>1, <1>11, <2>1, <2>2, <2>3, SlideGoesOn DEF SameCalls
<1>3. CASE Tick
  BY <1>2, <1>3 DEF Tick
<1>4. ASSUME NEW call \in [index : 1..Items, number : BOOLEAN], CallTo(call)
      PROVE  CarouselGoesOn(carousel') /\ FewWait(carousel', MaxWaiting)
  <2>1. call \in ToCalls
    BY <1>4 DEF CallTo, ToCalls
  <2>2. PICK prevented \in BOOLEAN : carousel' = To(carousel, call, prevented)
    BY <1>1, <1>4 DEF CallTo
  <2>3. Len(carousel.waiting) < MaxWaiting
    BY <1>4 DEF CallTo
  <2> DEFINE m == Len(carousel.waiting)
             b == Len(carousel'.waiting)
  <2>4. CarouselGoesOn(carousel') /\ b <= m + 1
    BY <1>1, <2>1, <2>2, ToGoesOn DEF FewWait
  <2>5. b \in Nat
    <3>1. carousel'.waiting \in Seq(ToCalls)
      BY <2>4 DEF CarouselGoesOn, CarouselStates
    <3> QED
      BY <3>1
  <2>6. b <= MaxWaiting
    <3>1. m \in Nat /\ m < MaxWaiting
      BY <1>0, <2>3
    <3> HIDE DEF b, m
    <3> QED
      BY <1>0, <2>4, <2>5, <3>1
  <2> QED
    BY <2>4, <2>6 DEF FewWait
<1>5. CASE MouseEnter
  BY <1>1, <1>5, <1>11, PausesGoOn DEF MouseEnter, StillWaits
<1>6. CASE MouseLeave
  BY <1>1, <1>6, <1>11, PausesGoOn DEF MouseLeave, StillWaits
<1>7. CASE CallPause
  BY <1>1, <1>7, <1>11, PausesGoOn DEF CallPause, StillWaits
<1>8. CASE SlideTransitionEnds
  BY <1>1, <1>8, <1>11, SlidGoesOn DEF SlideTransitionEnds
<1>9. CASE Slid
  <2>1. PICK prevented \in BOOLEAN : carousel' = RunWaiting(carousel, prevented)
    BY <1>1, <1>9 DEF Slid
  <2> DEFINE m == Len(carousel.waiting)
             b == Len(carousel'.waiting)
  <2>2. CarouselGoesOn(carousel') /\ b <= m
    BY <1>1, <2>1, RunWaitingGoesOn DEF FewWait
  <2>3. b \in Nat
    <3>1. carousel'.waiting \in Seq(ToCalls)
      BY <2>2 DEF CarouselGoesOn, CarouselStates
    <3> QED
      BY <3>1
  <2>4. b <= MaxWaiting
    <3>1. m \in Nat /\ m <= MaxWaiting
      BY <1>0, <1>1 DEF FewWait
    <3> HIDE DEF b, m
    <3> QED
      BY <1>0, <2>2, <2>3, <3>1
  <2> QED
    BY <2>2, <2>4 DEF FewWait
<1>10. CASE UNCHANGED carouselVars
  BY <1>1, <1>10 DEF carouselVars
<1> QED
  BY <1>2, <1>3, <1>4, <1>5, <1>6, <1>7, <1>8, <1>9, <1>10 DEF CarouselNext

\* The invariant of the carousel holds.
LEMMA CarouselKept == CarouselSpec => []CarouselInv
<1>1. CarouselInit => CarouselInv
  <2> SUFFICES ASSUME CarouselInit PROVE CarouselInv
    OBVIOUS
  <2>1. carouselEnv \in CarouselEnvs /\ carouselEnv.ride \in BOOLEAN /\ 1 \in 1..Items
    BY CarouselAssumption DEF CarouselInit
  <2>2. carousel = [active |-> {1}, indicator |-> 1, slides |-> <<>>, slid |-> FALSE,
                    waiting |-> <<>>, isSliding |-> FALSE, isPaused |-> FALSE,
                    interval |-> carouselEnv.ride, over |-> FALSE]
    BY DEF CarouselInit
  <2>3. carousel \in CarouselStates
    BY <2>1, <2>2 DEF CarouselStates
  <2>4. OneAt(carousel) /\ Rides(carousel) /\ IsServed(carousel)
    BY <2>1, <2>2 DEF OneAt, Rides, IsServed
  <2>5. FewWait(carousel, MaxWaiting)
    <3>1. Len(<<>>) = 0 /\ MaxWaiting \in Nat
      BY CarouselAssumption
    <3> QED
      BY <2>2, <3>1 DEF FewWait
  <2> QED
    BY <2>1, <2>3, <2>4, <2>5 DEF CarouselInv, CarouselGoesOn
<1>2. CarouselInv /\ [CarouselNext]_carouselVars => CarouselInv'
  BY CarouselKeeps
<1> QED
  BY <1>1, <1>2, PTL DEF CarouselSpec

\* The types of the carousel.
LEMMA CarouselTypes == CarouselSpec => []CarouselTypeOK
<1>1. CarouselInv => CarouselTypeOK
  BY DEF CarouselInv, CarouselGoesOn, CarouselStates, FewWait, CarouselTypeOK
<1> QED
  BY <1>1, CarouselKept, PTL

\* However many items there are and calls of to() wait, and however the interval, the
\* mouse, scripts and the transition interleave: slides, indicator and interval agree,
\* and no call is forgotten (js/src/carousel.js).
THEOREM SlidesAgree == CarouselSpec => []CarouselSound
<1>1. CarouselInv => CarouselSound
  <2> SUFFICES ASSUME CarouselInv PROVE CarouselSound
    OBVIOUS
  <2>1. /\ carousel \in CarouselStates /\ OneAt(carousel) /\ Rides(carousel)
        /\ IsServed(carousel)
    BY DEF CarouselInv, CarouselGoesOn
  <2>2. OneActive
    <3>1. PICK i \in 1..Items :
             /\ carousel.active = {i}
             /\ \/ ~carousel.isSliding /\ carousel.slides = <<>> /\ carousel.indicator = i
                \/ /\ carousel.isSliding
                   /\ \E j \in 1..Items : /\ carousel.slides = <<ASlide(i, j)>>
                                          /\ carousel.indicator = j
      BY <2>1 DEF OneAt
    <3>2. Cardinality({i}) = 1
      BY FS_Singleton
    <3>3. carousel.isSliding \in BOOLEAN
      BY <2>1 DEF CarouselStates
    <3>4. CASE ~carousel.isSliding /\ carousel.slides = <<>> /\ carousel.indicator = i
      <4>1. Len(<<>>) <= 1
        OBVIOUS
      <4> QED
        BY <3>1, <3>2, <3>3, <3>4, <4>1 DEF OneActive
    <3>5. ASSUME NEW j \in 1..Items, carousel.isSliding, carousel.slides = <<ASlide(i, j)>>,
                 carousel.indicator = j
          PROVE  OneActive
      <4> DEFINE r == ASlide(i, j)
      <4>1. r.to = j
        BY DEF ASlide
      <4> HIDE DEF r
      <4>2. <<r>> # <<>> /\ Len(<<r>>) = 1 /\ <<r>>[1] = r
        OBVIOUS
      <4>3. carousel.slides = <<r>>
        BY <3>5 DEF r
      <4>4. carousel.slides # <<>> /\ Len(carousel.slides) <= 1 /\ carousel.slides[1].to = j
        BY <4>1, <4>2, <4>3
      <4> QED
        BY <3>1, <3>2, <3>3, <3>5, <4>4 DEF OneActive
    <3> QED
      BY <3>1, <3>4, <3>5
  <2>3. RestsUnderMouse /\ CallsAreServed
    BY <2>1 DEF Rides, IsServed, RestsUnderMouse, CallsAreServed
  <2> QED
    BY <2>2, <2>3 DEF CarouselSound
<1> QED
  BY <1>1, CarouselKept, PTL

-----------------------------------------------------------------------------
(* The tooltip.                                                            *)

TipStates ==
    [hoverState : {"", "null", "show", "out"}, activeTrigger : SUBSET {"hover", "focus", "click"},
     isTransitioning : BOOLEAN, shown : BOOLEAN, inserted : BOOLEAN, fade : BOOLEAN,
     described : BOOLEAN, timeout : {"none", "show", "hide"},
     pending : {"none", "shown", "hidden"}]

\* A tip that is shown is inserted and described; it waits for what it is in transition to.
TipIsSane(t) ==
    /\ t \in TipStates
    /\ t.isTransitioning = (t.pending # "none")
    /\ t.shown => t.inserted /\ t.described
    /\ t.pending = "hidden" => ~t.shown

\* A tip t that is under way to what the triggers ask for.
TipFollows(t, triggers) ==
    /\ TipIsSane(t) /\ t.activeTrigger = triggers
    /\ t.hoverState = "out" => triggers = {}
    /\ triggers = {} =>
          /\ t.hoverState \in {"", "out"} /\ t.timeout # "show"
          /\ t.timeout = "hide" \/ t.pending = "shown" => t.hoverState = "out"
          /\ t.timeout = "none" /\ t.pending = "none" => ~t.shown /\ ~t.inserted /\ ~t.described
    /\ tooltipEnv.patient =>
          /\ t.pending = "hidden" => triggers = {}
          /\ t.pending = "shown" => triggers # {} /\ t.shown
          /\ t.timeout = "show" => t.hoverState = "show" /\ t.pending = "none"
          /\ triggers # {} /\ t.pending = "none" => t.shown \/ t.timeout = "show"

TipInv ==
    /\ tooltipEnv \in TooltipEnvs
    /\ held \subseteq tooltipEnv.triggers
    /\ TipFollows(tooltip, held)

\* What the steps make of a tip, field by field.
LEMMA HideTipIs ==
    ASSUME NEW t \in TipStates, ~t.isTransitioning
    PROVE  LET u == HideTip(t)
           IN  /\ u \in TipStates
               /\ u.hoverState = "" /\ u.activeTrigger = {} /\ ~u.shown /\ u.timeout = t.timeout
               /\ t.fade => u.isTransitioning /\ u.pending = "hidden"
               /\ ~t.fade => /\ ~u.isTransitioning /\ u.pending = t.pending /\ ~u.described
                             /\ u.inserted => t.hoverState = "show"
<1> DEFINE hidden == [t EXCEPT !.shown = FALSE, !.activeTrigger = {}]
<1>1. /\ hidden \in TipStates
      /\ hidden.hoverState = t.hoverState /\ hidden.activeTrigger = {} /\ hidden.shown = FALSE
      /\ hidden.timeout = t.timeout /\ hidden.pending = t.pending
  BY DEF TipStates
<1> HIDE DEF hidden
<1>2. CASE t.fade
  <2>1. HideTip(t) = [hidden EXCEPT !.isTransitioning = TRUE, !.pending = "hidden", !.hoverState = ""]
    BY <1>2 DEF HideTip, hidden
  <2> DEFINE u == [hidden EXCEPT !.isTransitioning = TRUE, !.pending = "hidden", !.hoverState = ""]
  <2>2. /\ u \in TipStates
        /\ u.hoverState = "" /\ u.activeTrigger = {} /\ u.shown = FALSE
        /\ u.timeout = hidden.timeout /\ u.isTransitioning = TRUE /\ u.pending = "hidden"
    BY <1>1 DEF TipStates
  <2> HIDE DEF u
  <2>3. HideTip(t) = u
    BY <2>1 DEF u
  <2> QED
    BY <1>1, <1>2, <2>2, <2>3
<1>3. CASE ~t.fade
  <2> DEFINE done == HideComplete(hidden)
             u == [done EXCEPT !.hoverState = ""]
  <2>1. /\ done \in TipStates /\ done.activeTrigger = {} /\ done.shown = FALSE
        /\ done.timeout = hidden.timeout /\ done.isTransitioning = FALSE
        /\ done.pending = hidden.pending /\ done.described = FALSE
        /\ done.inserted = (hidden.inserted /\ hidden.hoverState = "show")
    BY <1>1 DEF TipStates, HideComplete
  <2> HIDE DEF done
  <2>2. /\ u \in TipStates
        /\ u.hoverState = "" /\ u.activeTrigger = {} /\ u.shown = FALSE
        /\ u.timeout = done.timeout /\ u.isTransitioning = FALSE /\ u.pending = done.pending
        /\ u.described = FALSE /\ u.inserted = done.inserted
    BY <2>1 DEF TipStates
  <2>3. HideTip(t) = u
    BY <1>3 DEF HideTip, hidden, done
  <2> HIDE DEF u
  <2> QED
    BY <1>1, <1>3, <2>1, <2>2, <2>3
<1> QED
  BY <1>2, <1>3

LEMMA LeaveFollows ==
    ASSUME NEW t, TipIsSane(t), t.activeTrigger = {}, tooltipEnv.patient => t.pending = "none"
    PROVE  TipFollows(Leave(t), {})
<1> DEFINE out == [t EXCEPT !.hoverState = "out", !.timeout = "none"]
           later == [out EXCEPT !.timeout = "hide"]
<1>1. t \in TipStates
  BY DEF TipIsSane
<1>2. /\ out \in TipStates /\ out.hoverState = "out" /\ out.activeTrigger = t.activeTrigger
      /\ out.isTransitioning = t.isTransitioning /\ out.shown = t.shown
      /\ out.inserted = t.inserted /\ out.described = t.described
      /\ out.timeout = "none" /\ out.pending = t.pending
  BY <1>1 DEF TipStates
<1> HIDE DEF out
<1>3. /\ later \in TipStates /\ later.hoverState = "out" /\ later.activeTrigger = out.activeTrigger
      /\ later.isTransitioning = out.isTransitioning /\ later.shown = out.shown
      /\ later.inserted = out.inserted /\ later.described = out.described
      /\ later.timeout = "hide" /\ later.pending = out.pending
  BY <1>2 DEF TipStates
<1>4. CASE tooltipEnv.delayHide
  <2>1. Leave(t) = later
    BY <1>4 DEF Leave, out
  <2> HIDE DEF later
  <2> QED
    BY <1>2, <1>3, <2>1 DEF TipFollows, TipIsSane
<1>5. CASE ~tooltipEnv.delayHide
  <2>1. Leave(t) = HideTip(out)
    BY <1>5 DEF Leave, out
  <2> HIDE DEF later
  <2>2. CASE out.isTransitioning
    <3>1. Leave(t) = out
      BY <2>1, <2>2 DEF HideTip
    <3> QED
      BY <1>2, <2>2, <3>1 DEF TipFollows, TipIsSane
  <2>3. CASE ~out.isTransitioning
    <3> DEFINE u == HideTip(out)
    <3>1. /\ u \in TipStates
          /\ u.hoverState = "" /\ u.activeTrigger = {} /\ ~u.shown /\ u.timeout = out.timeout
          /\ out.fade => u.isTransitioning /\ u.pending = "hidden"
          /\ ~out.fade => /\ ~u.isTransitioning /\ u.pending = out.pending /\ ~u.described
                          /\ u.inserted => out.hoverState = "show"
      BY <1>2, <2>3, HideTipIs
    <3>2. u.isTransitioning \in BOOLEAN
      BY <3>1 DEF TipStates
    <3> HIDE DEF u
    <3>3. TipFollows(u, {})
      BY <1>2, <2>3, <3>1, <3>2 DEF TipFollows, TipIsSane
    <3> QED
      BY <2>1, <3>3 DEF u
  <2> QED
    BY <2>2, <2>3
<1> QED
  BY <1>4, <1>5

\* The tip is shown: it was left meanwhile, or its triggers are still there.
LEMMA ShowCompleteFollows ==
    ASSUME NEW t \in TipStates, t.pending = "none", t.shown => t.inserted /\ t.described,
           t.hoverState = "out" <=> t.activeTrigger = {},
           tooltipEnv.patient /\ t.activeTrigger # {} => t.shown /\ t.timeout # "show"
    PROVE  TipFollows(ShowComplete(t), t.activeTrigger)
<1> DEFINE done == [t EXCEPT !.hoverState = "null", !.isTransitioning = FALSE]
<1>1. /\ done \in TipStates /\ done.hoverState = "null" /\ done.activeTrigger = t.activeTrigger
      /\ done.isTransitioning = FALSE /\ done.shown = t.shown
      /\ done.inserted = t.inserted /\ done.described = t.described
      /\ done.timeout = t.timeout /\ done.pending = t.pending
  BY DEF TipStates
<1>2. ShowComplete(t) = IF t.hoverState = "out" THEN Leave(done) ELSE done
  BY DEF ShowComplete
<1> HIDE DEF done
<1>3. TipIsSane(done)
  BY <1>1 DEF TipIsSane
<1>4. CASE t.hoverState = "out"
  BY <1>1, <1>2, <1>3, <1>4, LeaveFollows
<1>5. CASE t.hoverState # "out"
  BY <1>1, <1>2, <1>3, <1>5 DEF TipFollows
<1> QED
  BY <1>4, <1>5

LEMMA ShowTipFollows ==
    ASSUME NEW t, TipIsSane(t), t.activeTrigger # {}, t.hoverState = "show", t.timeout = "none",
           tooltipEnv.patient => t.pending = "none", tooltipEnv.animation \in BOOLEAN
    PROVE  TipFollows(ShowTip(t), t.activeTrigger)
<1> DEFINE shown == [t EXCEPT !.described = TRUE, !.shown = TRUE, !.inserted = TRUE,
                              !.fade = tooltipEnv.animation]
           moving == [shown EXCEPT !.isTransitioning = TRUE, !.pending = "shown"]
<1>1. t \in TipStates
  BY DEF TipIsSane
<1>2. /\ shown \in TipStates /\ shown.hoverState = t.hoverState
      /\ shown.activeTrigger = t.activeTrigger
      /\ shown.isTransitioning = t.isTransitioning /\ shown.shown = TRUE
      /\ shown.inserted = TRUE /\ shown.described = TRUE
      /\ shown.timeout = t.timeout /\ shown.pending = t.pending
  BY <1>1 DEF TipStates
<1>3. ShowTip(t) = IF t.isTransitioning THEN t
                   ELSE IF tooltipEnv.animation THEN moving ELSE ShowComplete(shown)
  BY DEF ShowTip
<1> HIDE DEF shown
<1>4. /\ moving \in TipStates /\ moving.hoverState = shown.hoverState
      /\ moving.activeTrigger = shown.activeTrigger
      /\ moving.isTransitioning = TRUE /\ moving.shown = shown.shown
      /\ moving.inserted = shown.inserted /\ moving.described = shown.described
      /\ moving.timeout = shown.timeout /\ moving.pending = "shown"
  BY <1>2 DEF TipStates
<1> HIDE DEF moving
<1>5. CASE t.isTransitioning
  BY <1>3, <1>5 DEF TipFollows, TipIsSane
<1>6. CASE ~t.isTransitioning /\ tooltipEnv.animation
  <2>1. TipFollows(moving, t.activeTrigger)
    BY <1>2, <1>4 DEF TipFollows, TipIsSane
  <2> QED
    BY <1>3, <1>6, <2>1
<1>7. CASE ~t.isTransitioning /\ ~tooltipEnv.animation
  <2>1. shown.pending = "none"
    BY <1>2, <1>7 DEF TipIsSane
  <2>2. TipFollows(ShowComplete(shown), shown.activeTrigger)
    BY <1>2, <2>1, ShowCompleteFollows
  <2> QED
    BY <1>2, <1>3, <1>7, <2>2
<1> QED
  BY <1>5, <1>6, <1>7

LEMMA EnterFollows ==
    ASSUME NEW t, TipIsSane(t), t.activeTrigger # {}, tooltipEnv.animation \in BOOLEAN,
           tooltipEnv.patient =>
              /\ t.pending = "none"
              /\ ~t.shown /\ t.hoverState = "show" => t.timeout = "show"
    PROVE  TipFollows(Enter(t), t.activeTrigger)
<1> DEFINE entered == [t EXCEPT !.hoverState = "show"]
           later == [entered EXCEPT !.timeout = "show"]
           now == [entered EXCEPT !.timeout = "none"]
<1>1. t \in TipStates
  BY DEF TipIsSane
<1>2. /\ entered \in TipStates /\ entered.hoverState = "show"
      /\ entered.activeTrigger = t.activeTrigger
      /\ entered.isTransitioning = t.isTransitioning /\ entered.shown = t.shown
      /\ entered.inserted = t.inserted /\ entered.described = t.described
      /\ entered.timeout = t.timeout /\ entered.pending = t.pending
  BY <1>1 DEF TipStates
<1>3. Enter(t) = IF t.shown \/ t.hoverState = "show" THEN entered
                 ELSE IF tooltipEnv.delayShow THEN later ELSE ShowTip(now)
  BY DEF Enter
<1> HIDE DEF entered
<1>4. /\ later \in TipStates /\ later.hoverState = "show"
      /\ later.activeTrigger = entered.activeTrigger
      /\ later.isTransitioning = entered.isTransitioning /\ later.shown = entered.shown
      /\ later.inserted = entered.inserted /\ later.described = entered.described
      /\ later.timeout = "show" /\ later.pending = entered.pending
  BY <1>2 DEF TipStates
<1>5. /\ now \in TipStates /\ now.hoverState = "show"
      /\ now.activeTrigger = entered.activeTrigger
      /\ now.isTransitioning = entered.isTransitioning /\ now.shown = entered.shown
      /\ now.inserted = entered.inserted /\ now.described = entered.described
      /\ now.timeout = "none" /\ now.pending = entered.pending
  BY <1>2 DEF TipStates
<1> HIDE DEF later, now
<1>6. CASE t.shown \/ t.hoverState = "show"
  <2>1. TipFollows(entered, t.activeTrigger)
    BY <1>2, <1>6 DEF TipFollows, TipIsSane
  <2> QED
    BY <1>3, <1>6, <2>1
<1>7. CASE ~(t.shown \/ t.hoverState = "show") /\ tooltipEnv.delayShow
  <2>1. TipFollows(later, t.activeTrigger)
    BY <1>2, <1>4, <1>7 DEF TipFollows, TipIsSane
  <2> QED
    BY <1>3, <1>7, <2>1
<1>8. CASE ~(t.shown \/ t.hoverState = "show") /\ ~tooltipEnv.delayShow
  <2>1. TipIsSane(now)
    BY <1>2, <1>5 DEF TipIsSane
  <2>2. TipFollows(ShowTip(now), now.activeTrigger)
    BY <1>2, <1>5, <2>1, ShowTipFollows
  <2> QED
    BY <1>2, <1>3, <1>5, <1>8, <2>2
<1> QED
  BY <1>6, <1>7, <1>8

\* A trigger comes or goes: the tip is entered or left with the triggers there are.
Retagged(t, triggers) == [t EXCEPT !.activeTrigger = triggers]

LEMMA TriggerFollows ==
    ASSUME TipInv, UserMay, NEW triggers \in SUBSET {"hover", "focus", "click"}
    PROVE  LET t == Retagged(tooltip, triggers)
           IN  /\ t.activeTrigger = triggers
               /\ triggers # {} => TipFollows(Enter(t), triggers)
               /\ triggers # {} /\ held # {} => TipFollows(t, triggers)
               /\ triggers = {} => TipFollows(Leave(t), triggers)
<1> DEFINE t == Retagged(tooltip, triggers)
<1>1. /\ TipFollows(tooltip, held) /\ TipIsSane(tooltip) /\ tooltip \in TipStates
      /\ tooltipEnv.patient => tooltip.pending = "none"
      /\ tooltipEnv.animation \in BOOLEAN
  BY TooltipAssumption DEF TipInv, TipFollows, TipIsSane, UserMay
<1>2. /\ t \in TipStates /\ t.hoverState = tooltip.hoverState /\ t.activeTrigger = triggers
      /\ t.isTransitioning = tooltip.isTransitioning /\ t.shown = tooltip.shown
      /\ t.inserted = tooltip.inserted /\ t.described = tooltip.described
      /\ t.timeout = tooltip.timeout /\ t.pending = tooltip.pending
  BY <1>1 DEF TipStates, Retagged
<1> HIDE DEF t
<1>3. TipIsSane(t)
  BY <1>1, <1>2 DEF TipIsSane
<1>4. /\ tooltip.hoverState = "show" => held # {}
      /\ tooltipEnv.patient /\ ~tooltip.shown /\ tooltip.hoverState = "show" => tooltip.timeout = "show"
  BY <1>1 DEF TipFollows
<1>5. ASSUME triggers # {} PROVE TipFollows(Enter(t), triggers)
  BY <1>1, <1>2, <1>3, <1>4, <1>5, EnterFollows
<1>6. ASSUME triggers # {}, held # {} PROVE TipFollows(t, triggers)
  BY <1>1, <1>2, <1>3, <1>6 DEF TipFollows
<1>7. ASSUME triggers = {} PROVE TipFollows(Leave(t), triggers)
  BY <1>1, <1>2, <1>3, <1>7, LeaveFollows
<1> QED
  BY <1>2, <1>5, <1>6, <1>7 DEF t

LEMMA TriggersAre ==
    ASSUME TipInv
    PROVE  /\ held \subseteq tooltipEnv.triggers /\ tooltip.activeTrigger = held
           /\ tooltipEnv.triggers \in SUBSET {"hover", "focus", "click"}
           /\ tooltipEnv \in TooltipEnvs
  BY TooltipAssumption DEF TipInv, TipFollows

LEMMA InKeeps ==
    ASSUME TipInv, NEW trigger, In(trigger)
    PROVE  TipInv'
<1> DEFINE triggers == held \cup {trigger}
<1>1. /\ held' = triggers /\ tooltipEnv' = tooltipEnv /\ UserMay
      /\ tooltip' = Enter(Retagged(tooltip, triggers))
      /\ triggers # {} /\ triggers \subseteq tooltipEnv.triggers
  BY TriggersAre DEF In, Retagged
<1>2. TipFollows(tooltip', triggers)
  <2>1. triggers \in SUBSET {"hover", "focus", "click"}
    BY <1>1, TriggersAre
  <2> HIDE DEF triggers
  <2> QED
    BY <1>1, <2>1, TriggerFollows
<1>3. TipFollows(tooltip, held)'
  BY <1>1, <1>2 DEF TipFollows, TipIsSane
<1> QED
  BY <1>1, <1>3, TriggersAre DEF TipInv

\* Leave leaves alone a tip that another trigger holds.
LEMMA OutKeeps ==
    ASSUME TipInv, NEW trigger, Out(trigger)
    PROVE  TipInv'
<1> DEFINE triggers == held \ {trigger}
           t == Retagged(tooltip, triggers)
<1>1. /\ held' = triggers /\ tooltipEnv' = tooltipEnv /\ UserMay /\ held # {}
      /\ tooltip' = Leave(t)
      /\ triggers \subseteq tooltipEnv.triggers
  BY TriggersAre DEF Out, Retagged
<1>2. triggers \in SUBSET {"hover", "focus", "click"}
  BY <1>1, TriggersAre
<1> HIDE DEF triggers
<1>3. /\ t.activeTrigger = triggers
      /\ triggers # {} => TipFollows(t, triggers)
      /\ triggers = {} => TipFollows(Leave(t), triggers)
  BY <1>1, <1>2, TriggerFollows
<1> HIDE DEF t
<1>4. triggers # {} => Leave(t) = t
  BY <1>3 DEF Leave
<1>5. TipFollows(tooltip', triggers)
  BY <1>1, <1>3, <1>4
<1>6. TipFollows(tooltip, held)'
  BY <1>1, <1>5 DEF TipFollows, TipIsSane
<1> QED
  BY <1>1, <1>6, TriggersAre DEF TipInv

LEMMA ToggleKeeps ==
    ASSUME TipInv, ToggleTip
    PROVE  TipInv'
<1> DEFINE triggers == IF "click" \in held THEN held \ {"click"} ELSE held \cup {"click"}
           t == Retagged(tooltip, triggers)
<1>1. /\ held' = triggers /\ tooltipEnv' = tooltipEnv /\ UserMay
      /\ triggers \subseteq tooltipEnv.triggers
  BY TriggersAre DEF ToggleTip
<1>2. triggers \in SUBSET {"hover", "focus", "click"}
  BY <1>1, TriggersAre
<1>3. tooltip' = IF t.activeTrigger # {} THEN Enter(t) ELSE Leave(t)
  BY TriggersAre DEF ToggleTip, Retagged
<1> HIDE DEF triggers
<1>4. /\ t.activeTrigger = triggers
      /\ triggers # {} => TipFollows(Enter(t), triggers)
      /\ triggers = {} => TipFollows(Leave(t), triggers)
  BY <1>1, <1>2, TriggerFollows
<1> HIDE DEF t
<1>5. TipFollows(tooltip', triggers)
  BY <1>3, <1>4
<1>6. TipFollows(tooltip, held)'
  BY <1>1, <1>5 DEF TipFollows, TipIsSane
<1> QED
  BY <1>1, <1>6, TriggersAre DEF TipInv

LEMMA DelayKeeps ==
    ASSUME TipInv, DelayOver
    PROVE  TipInv'
<1> DEFINE over == [tooltip EXCEPT !.timeout = "none"]
<1>1. /\ held' = held /\ tooltipEnv' = tooltipEnv /\ tooltip.timeout # "none"
      /\ tooltip' = CASE tooltip.timeout = "show" /\ tooltip.hoverState = "show" -> ShowTip(over)
                      [] tooltip.timeout = "hide" /\ tooltip.hoverState = "out"  -> HideTip(over)
                      [] OTHER -> over
  BY DEF DelayOver
<1>2. /\ TipFollows(tooltip, held) /\ TipIsSane(tooltip) /\ tooltip \in TipStates
      /\ tooltip.activeTrigger = held /\ tooltipEnv.animation \in BOOLEAN
  BY TooltipAssumption DEF TipInv, TipFollows, TipIsSane
<1>3. /\ over \in TipStates /\ over.hoverState = tooltip.hoverState
      /\ over.activeTrigger = tooltip.activeTrigger
      /\ over.isTransitioning = tooltip.isTransitioning /\ over.shown = tooltip.shown
      /\ over.inserted = tooltip.inserted /\ over.described = tooltip.described
      /\ over.timeout = "none" /\ over.pending = tooltip.pending
  BY <1>2 DEF TipStates
<1> HIDE DEF over
<1>4. TipIsSane(over)
  BY <1>2, <1>3 DEF TipIsSane
<1>5. TipFollows(tooltip', held)
  <2>1. CASE tooltip.timeout = "show" /\ tooltip.hoverState = "show"
    <3>1. tooltip' = ShowTip(over)
      BY <1>1, <2>1
    <3>2. held # {} /\ (tooltipEnv.patient => tooltip.pending = "none")
      BY <1>2, <2>1 DEF TipFollows
    <3>3. TipFollows(ShowTip(over), over.activeTrigger)
      BY <1>2, <1>3, <1>4, <2>1, <3>2, ShowTipFollows
    <3> QED
      BY <1>2, <1>3, <3>1, <3>3
  <2>2. CASE tooltip.timeout = "hide" /\ tooltip.hoverState = "out"
    <3> DEFINE u == HideTip(over)
    <3>1. tooltip' = u /\ held = {}
      BY <1>1, <1>2, <2>2 DEF TipFollows
    <3>2. CASE over.isTransitioning
      <4>1. u = over
        BY <3>2 DEF HideTip
      <4> HIDE DEF u
      <4> QED
        BY <1>2, <1>3, <1>4, <2>2, <3>1, <3>2, <4>1 DEF TipFollows, TipIsSane
    <3>3. CASE ~over.isTransitioning
      <4>1. /\ u \in TipStates
            /\ u.hoverState = "" /\ u.activeTrigger = {} /\ ~u.shown /\ u.timeout = over.timeout
            /\ over.fade => u.isTransitioning /\ u.pending = "hidden"
            /\ ~over.fade => /\ ~u.isTransitioning /\ u.pending = over.pending /\ ~u.described
                             /\ u.inserted => over.hoverState = "show"
        BY <1>3, <3>3, HideTipIs
      <4> HIDE DEF u
      <4>2. u.isTransitioning \in BOOLEAN
        BY <4>1 DEF TipStates
      <4>3. TipFollows(u, {})
        BY <1>3, <1>4, <2>2, <3>3, <4>1, <4>2 DEF TipFollows, TipIsSane
      <4> QED
        BY <3>1, <4>3
    <3> QED
      BY <3>2, <3>3
  <2>3. CASE /\ ~(tooltip.timeout = "show" /\ tooltip.hoverState = "show")
             /\ ~(tooltip.timeout = "hide" /\ tooltip.hoverState = "out")
    <3>1. tooltip' = over
      BY <1>1, <2>3
    <3>2. held # {} /\ (tooltipEnv.patient => tooltip.timeout = "hide")
      BY <1>1, <1>2, <2>3 DEF TipFollows, TipIsSane, TipStates
    <3>3. TipFollows(over, held)
      BY <1>2, <1>3, <1>4, <3>2 DEF TipFollows
    <3> QED
      BY <3>1, <3>3
  <2> QED
    BY <2>1, <2>2, <2>3
<1>6. TipFollows(tooltip, held)'
  BY <1>1, <1>5 DEF TipFollows, TipIsSane
<1> QED
  BY <1>1, <1>6 DEF TipInv

LEMMA TransitionKeeps ==
    ASSUME TipInv, TipTransitionEnds
    PROVE  TipInv'
<1> DEFINE over == [tooltip EXCEPT !.pending = "none"]
           done == HideComplete(over)
<1>1. /\ held' = held /\ tooltipEnv' = tooltipEnv /\ tooltip.pending # "none"
      /\ tooltip' = IF tooltip.pending = "shown" THEN ShowComplete(over) ELSE done
  BY DEF TipTransitionEnds
<1>2. /\ TipFollows(tooltip, held) /\ TipIsSane(tooltip) /\ tooltip \in TipStates
      /\ tooltip.activeTrigger = held
  BY DEF TipInv, TipFollows, TipIsSane
<1>3. /\ over \in TipStates /\ over.hoverState = tooltip.hoverState
      /\ over.activeTrigger = tooltip.activeTrigger
      /\ over.shown = tooltip.shown
      /\ over.inserted = tooltip.inserted /\ over.described = tooltip.described
      /\ over.timeout = tooltip.timeout /\ over.pending = "none"
  BY <1>2 DEF TipStates
<1> HIDE DEF over
<1>4. /\ done \in TipStates /\ done.hoverState = over.hoverState
      /\ done.activeTrigger = over.activeTrigger
      /\ done.isTransitioning = FALSE /\ done.shown = over.shown
      /\ done.inserted = (over.inserted /\ over.hoverState = "show") /\ done.described = FALSE
      /\ done.timeout = over.timeout /\ done.pending = over.pending
  BY <1>3 DEF TipStates, HideComplete
<1> HIDE DEF done
<1>5. CASE tooltip.pending = "shown"
  <2>1. /\ over.hoverState = "out" <=> held = {}
        /\ tooltipEnv.patient /\ held # {} => over.shown /\ over.timeout # "show"
    BY <1>2, <1>3, <1>5 DEF TipFollows
  <2>2. over.shown => over.inserted /\ over.described
    BY <1>2, <1>3 DEF TipIsSane
  <2>3. TipFollows(ShowComplete(over), over.activeTrigger)
    BY <1>2, <1>3, <2>1, <2>2, ShowCompleteFollows
  <2>4. TipFollows(tooltip', held)
    BY <1>1, <1>2, <1>3, <1>5, <2>3
  <2>5. TipFollows(tooltip, held)'
    BY <1>1, <2>4 DEF TipFollows, TipIsSane
  <2> QED
    BY <1>1, <2>5 DEF TipInv
<1>6. CASE tooltip.pending = "hidden"
  <2>1. tooltip' = done
    BY <1>1, <1>6
  <2>2. ~tooltip.shown
    BY <1>2, <1>6 DEF TipIsSane
  <2>3. TipFollows(done, held)
    BY <1>2, <1>3, <1>4, <1>6, <2>2 DEF TipFollows, TipIsSane
  <2>4. TipFollows(tooltip, held)'
    BY <1>1, <2>1, <2>3 DEF TipFollows, TipIsSane
  <2> QED
    BY <1>1, <2>4 DEF TipInv
<1> QED
  BY <1>1, <1>2, <1>5, <1>6 DEF TipStates

\* However fast a user comes and goes, and whatever delays and transitions there are: once
\* nothing is under way and no trigger is held, the tip is gone from the document; and a
\* user who lets transitions end sees the tip while a trigger is held.
THEOREM TipIsSound == TooltipSpec => []TooltipTypeOK /\ []TooltipSound
<1>1. TooltipInit => TipInv
  <2> SUFFICES ASSUME TooltipInit PROVE TipInv
    OBVIOUS
  <2>1. /\ tooltipEnv \in TooltipEnvs /\ held = {}
        /\ tooltip = [hoverState |-> "", activeTrigger |-> {}, isTransitioning |-> FALSE,
                      shown |-> FALSE, inserted |-> FALSE, fade |-> FALSE, described |-> FALSE,
                      timeout |-> "none", pending |-> "none"]
    BY DEF TooltipInit
  <2>2. tooltip \in TipStates
    BY <2>1 DEF TipStates
  <2> QED
    BY <2>1, <2>2 DEF TipInv, TipFollows, TipIsSane
<1>2. TipInv /\ [TooltipNext]_tooltipVars => TipInv'
  <2> SUFFICES ASSUME TipInv, [TooltipNext]_tooltipVars PROVE TipInv'
    OBVIOUS
  <2>1. CASE UNCHANGED tooltipVars
    BY <2>1 DEF tooltipVars, TipInv, TipFollows, TipIsSane
  <2> QED
    BY <2>1, InKeeps, OutKeeps, ToggleKeeps, DelayKeeps, TransitionKeeps DEF TooltipNext
<1>3. TipInv => TooltipTypeOK /\ TooltipSound
  BY DEF TipInv, TipFollows, TipIsSane, TipStates, TooltipTypeOK, TooltipSound, GoneAfterLeave,
         ShownWhileHeld, TipSettled
<1> QED
  BY <1>1, <1>2, <1>3, PTL DEF TooltipSpec

-----------------------------------------------------------------------------
(* The tabs.                                                               *)

PaneStates == [1..Tabs -> [active : BOOLEAN, show : BOOLEAN]]

\* No link is active, or those of one tab.
LinksAgree == link = {} \/ \E t \in 1..Tabs : link = ActiveLinks(t)

\* Callbacks wait only on a pane that is active and fades out.
QuickIsSane ==
    /\ quick \in Seq(1..Tabs)
    /\ quick # <<>> => tabEnv.fade /\ FirstPane # {} /\ \A q \in FirstPane : ~pane[q].show

\* The pane of the active link is there, or the last callback will bring it.
LinkIsFollowed ==
    \A t \in (link \ {MenuToggle}) \ tabEnv.paneless :
        IF quick = <<>> THEN pane[t].active /\ (tabEnv.fade => pane[t].show)
        ELSE quick[Len(quick)] = t

\* A user who waits leaves one callback, and one pane active.
OneAtATime ==
    tabEnv.patient => /\ Len(quick) <= 1
                      /\ \A p, q \in ActivePanes : p = q

TabInv ==
    /\ tabEnv \in TabEnvs /\ pane \in PaneStates
    /\ LinksAgree /\ QuickIsSane /\ LinkIsFollowed /\ OneAtATime

\* A new class for a pane.
LEMMA PaneWith ==
    ASSUME NEW x \in [active : BOOLEAN, show : BOOLEAN], NEW b \in BOOLEAN
    PROVE  /\ LET u == [x EXCEPT !.active = x.active /\ b]
              IN  /\ u \in [active : BOOLEAN, show : BOOLEAN]
                  /\ u.active = (x.active /\ b) /\ u.show = x.show
           /\ LET u == [x EXCEPT !.show = x.show /\ b]
              IN  /\ u \in [active : BOOLEAN, show : BOOLEAN]
                  /\ u.show = (x.show /\ b) /\ u.active = x.active
<1> DEFINE a == x.active /\ b
           s == x.show /\ b
<1>1. a \in BOOLEAN /\ s \in BOOLEAN
  OBVIOUS
<1> HIDE DEF a, s
<1>2. LET u == [x EXCEPT !.active = a]
      IN  u \in [active : BOOLEAN, show : BOOLEAN] /\ u.active = a /\ u.show = x.show
  BY <1>1
<1>3. LET u == [x EXCEPT !.show = s]
      IN  u \in [active : BOOLEAN, show : BOOLEAN] /\ u.show = s /\ u.active = x.active
  BY <1>1
<1> QED
  BY <1>2, <1>3 DEF a, s

\* What _transitionComplete makes of the panes.
Follows(u, panes, p, active) ==
    /\ u[p].active = TRUE /\ u[p].show = (tabEnv.fade \/ panes[p].show)
    /\ \A q \in 1..Tabs : q # p => /\ u[q].active = (panes[q].active /\ q \notin active)
                                   /\ u[q].show = panes[q].show

LEMMA TransitionOverIs ==
    ASSUME NEW panes \in PaneStates, NEW p \in 1..Tabs,
           NEW active \in SUBSET (1..Tabs), tabEnv.fade \in BOOLEAN
    PROVE  /\ TransitionOver(panes, p, active) \in PaneStates
           /\ Follows(TransitionOver(panes, p, active), panes, p, active)
<1> DEFINE new == [active |-> TRUE, show |-> tabEnv.fade \/ panes[p].show]
           left(q) == [panes[q] EXCEPT !.active = panes[q].active /\ q \notin active]
           u == [q \in 1..Tabs |-> IF q = p THEN new ELSE left(q)]
<1>1. TransitionOver(panes, p, active) = u
  <2>1. \A q \in 1..Tabs :
           (IF q = p THEN [active |-> TRUE, show |-> tabEnv.fade \/ panes[q].show]
            ELSE [panes[q] EXCEPT !.active = @ /\ q \notin active])
             = IF q = p THEN new ELSE left(q)
    OBVIOUS
  <2> QED
    BY <2>1 DEF TransitionOver
<1>2. /\ new \in [active : BOOLEAN, show : BOOLEAN]
      /\ new.active = TRUE /\ new.show = (tabEnv.fade \/ panes[p].show)
  BY DEF PaneStates
<1>3. \A q \in 1..Tabs :
         /\ left(q) \in [active : BOOLEAN, show : BOOLEAN]
         /\ left(q).active = (panes[q].active /\ q \notin active) /\ left(q).show = panes[q].show
  <2> TAKE q \in 1..Tabs
  <2>1. panes[q] \in [active : BOOLEAN, show : BOOLEAN] /\ (q \notin active) \in BOOLEAN
    BY DEF PaneStates
  <2> QED
    BY <2>1, PaneWith
<1> HIDE DEF new, left
<1>4. u \in PaneStates
  BY <1>2, <1>3 DEF PaneStates
<1>5. u[p] = new /\ \A q \in 1..Tabs : q # p => u[q] = left(q)
  OBVIOUS
<1> HIDE DEF u
<1>6. Follows(u, panes, p, active)
  BY <1>2, <1>3, <1>5 DEF Follows
<1> QED
  BY <1>1, <1>4, <1>6

\* Of the callbacks that run, the last one decides about its pane.
LEMMA RunQuickEnds ==
    ASSUME NEW panes \in PaneStates, NEW waiting \in Seq(1..Tabs), waiting # <<>>,
           NEW active \in SUBSET (1..Tabs), tabEnv.fade \in BOOLEAN
    PROVE  \E before \in PaneStates :
              /\ RunQuick(panes, waiting, active) =
                    TransitionOver(before, waiting[Len(waiting)], active)
              /\ Len(waiting) = 1 => before = panes
<1> DEFINE m == Len(waiting)
           T == PaneStates
           step == [a \in (1..m) \X T |-> TransitionOver(a[2], waiting[a[1]], active)]
           next(f, n) == IF n = 0 THEN panes ELSE TransitionOver(f[n - 1], waiting[n], active)
           after == CHOOSE f : f = [n \in 0..m |-> next(f, n)]
<1>1. m \in Nat /\ m # 0 /\ \A n \in 1..m : waiting[n] \in 1..Tabs
  <2> DEFINE S == 1..Tabs
  <2>1. waiting \in Seq(S)
    OBVIOUS
  <2> HIDE DEF S
  <2>2. m \in Nat /\ m # 0 /\ \A n \in 1..m : waiting[n] \in S
    BY <2>1, EmptySeq
  <2> QED
    BY <2>2 DEF S
<1>2. RunQuick(panes, waiting, active) = after[m]
  BY DEF RunQuick
<1> HIDE DEF m
<1>3. \A n \in 1..m : \A x \in T : TransitionOver(x, waiting[n], active) \in T
  <2> TAKE n \in 1..m
  <2> TAKE x \in T
  <2> QED
    BY <1>1, TransitionOverIs
<1> HIDE DEF T
<1>4. step \in [(1..m) \X T -> T]
  BY <1>3
<1> panes \in T
  BY DEF T
<1>5. PICK g \in [0..m -> T] : IsRepetition(g, m, panes, step)
  <2> HIDE DEF step
  <2> QED
    BY <1>1, <1>4, Repeats
<1>6. g = [n \in 0..m |-> next(g, n)]
  <2>1. \A n \in 0..m : g[n] = next(g, n)
    <3> TAKE n \in 0..m
    <3>1. CASE n = 0
      BY <1>5, <3>1 DEF IsRepetition
    <3>2. CASE n # 0
      <4>1. n \in 1..m /\ n - 1 \in 0..m
        BY <1>1, <3>2
      <4>2. g[n] = step[<<n, g[n - 1]>>] /\ g[n - 1] \in T
        BY <1>5, <4>1 DEF IsRepetition
      <4> QED
        BY <3>2, <4>1, <4>2
    <3> QED
      BY <3>1, <3>2
  <2> HIDE DEF next
  <2> QED
    BY <1>5, <2>1
<1>7. after = [n \in 0..m |-> next(after, n)]
  <2> HIDE DEF next
  <2> QED
    BY <1>6
<1>8. \A n \in 0..m : after[n] = next(after, n)
  <2> HIDE DEF after, next
  <2> QED
    BY <1>7
<1> HIDE DEF after
<1>9. after[0] = panes /\ \A n \in 1..m : after[n] = TransitionOver(after[n - 1], waiting[n], active)
  <2>1. after[0] = panes
    BY <1>1, <1>8
  <2>2. \A n \in 1..m : n \in 0..m /\ n # 0
    BY <1>1
  <2> QED
    BY <1>8, <2>1, <2>2
<1>10. \A n \in 0..m : after[n] \in T
  <2> DEFINE S == {n \in 0..m : after[n] \in T}
  <2>1. 0 \in S
    BY <1>1, <1>4, <1>9
  <2>2. ASSUME NEW n \in 0..m, n < m, n \in S
        PROVE  n + 1 \in S
    <3>1. n + 1 \in 1..m /\ n + 1 \in 0..m /\ (n + 1) - 1 = n
      BY <1>1, <2>2
    <3>2. after[n + 1] = TransitionOver(after[n], waiting[n + 1], active)
      BY <1>9, <3>1
    <3> QED
      BY <1>3, <2>2, <3>1, <3>2
  <2>3. \A n \in 0..m : n \in S
    <3> HIDE DEF S
    <3> QED
      BY <1>1, <2>1, <2>2, UpTo
  <2> QED
    BY <2>3
<1>11. m - 1 \in 0..m /\ m \in 1..m /\ (m = 1 => m - 1 = 0)
  BY <1>1
<1>12. after[m - 1] \in T /\ (m = 1 => after[m - 1] = panes)
  BY <1>9, <1>10, <1>11
<1> QED
  BY <1>2, <1>9, <1>11, <1>12 DEF m, T

\* The links after a click are those of the tab that was clicked on.
LEMMA ActivateLinkIs ==
    ASSUME LinksAgree, tabEnv.menu \subseteq 1..Tabs, NEW t \in 1..Tabs
    PROVE  ActivateLink(t) = ActiveLinks(t)
<1>1. MenuToggle \notin 1..Tabs
  BY TabAssumption DEF MenuToggle
<1>2. CASE link = {}
  BY <1>2 DEF ActivateLink
<1>3. ASSUME NEW u \in 1..Tabs, link = ActiveLinks(u)
      PROVE  ActivateLink(t) = ActiveLinks(t)
  <2> DEFINE direct == link \ tabEnv.menu
             first == IF u \in tabEnv.menu THEN MenuToggle ELSE u
  <2>1. direct = {first}
    BY <1>1, <1>3 DEF ActiveLinks
  <2>2. Min(direct) = first
    <3>1. first \in Nat
      BY TabAssumption DEF MenuToggle
    <3> HIDE DEF direct, first
    <3> QED
      BY <2>1, <3>1 DEF Min
  <2> QED
    BY <1>1, <1>3, <2>1, <2>2 DEF ActivateLink, ActiveLinks
<1> QED
  BY <1>2, <1>3 DEF LinksAgree

\* The first active pane of a user who waits is the only one.
LEMMA FirstIsOnly ==
    ASSUME \A p, q \in ActivePanes : p = q
    PROVE  FirstPane = ActivePanes
  BY DEF FirstPane, ActivePanes

\* The pane that shows no more.
Faded(panes, away) ==
    [q \in 1..Tabs |-> [panes[q] EXCEPT !.show = @ /\ q \notin away]]

LEMMA FadedIs ==
    ASSUME NEW panes \in PaneStates, NEW away
    PROVE  LET u == Faded(panes, away)
           IN  /\ u \in PaneStates
               /\ \A q \in 1..Tabs : /\ u[q].active = panes[q].active
                                     /\ u[q].show = (panes[q].show /\ q \notin away)
<1> DEFINE left(q) == [panes[q] EXCEPT !.show = panes[q].show /\ q \notin away]
           u == [q \in 1..Tabs |-> left(q)]
<1>1. Faded(panes, away) = u
  BY DEF Faded
<1>2. \A q \in 1..Tabs :
         /\ left(q) \in [active : BOOLEAN, show : BOOLEAN]
         /\ left(q).show = (panes[q].show /\ q \notin away) /\ left(q).active = panes[q].active
  <2> TAKE q \in 1..Tabs
  <2>1. panes[q] \in [active : BOOLEAN, show : BOOLEAN] /\ (q \notin away) \in BOOLEAN
    BY DEF PaneStates
  <2> QED
    BY <2>1, PaneWith
<1> HIDE DEF left
<1>3. u \in PaneStates /\ \A q \in 1..Tabs : u[q] = left(q)
  BY <1>2 DEF PaneStates
<1> HIDE DEF u
<1> QED
  BY <1>1, <1>2, <1>3

\* A click on a tab whose pane is shown at once, or when the transition is over.
LEMMA ActivatePaneKeeps ==
    ASSUME TabInv, NEW t \in 1..Tabs, t \notin tabEnv.paneless, tabEnv' = tabEnv,
           tabEnv.patient => quick = <<>>, link' = ActiveLinks(t), ActivatePane(t)
    PROVE  /\ pane' \in PaneStates /\ QuickIsSane' /\ OneAtATime'
           /\ IF quick' = <<>> THEN pane'[t].active /\ (tabEnv.fade => pane'[t].show)
              ELSE quick'[Len(quick')] = t
<1> DEFINE moves == FirstPane # {} /\ tabEnv.fade
           now == IF moves THEN pane ELSE TransitionOver(pane, t, FirstPane)
<1>1. /\ pane \in PaneStates /\ quick \in Seq(1..Tabs) /\ tabEnv.fade \in BOOLEAN
      /\ FirstPane \subseteq 1..Tabs
  BY TabAssumption DEF TabInv, QuickIsSane, FirstPane, ActivePanes
<1>2. pane' = Faded(now, FirstPane) /\ quick' = IF moves THEN Append(quick, t) ELSE quick
  BY DEF ActivatePane, Faded
<1>3. CASE moves
  <2>1. pane' = Faded(pane, FirstPane) /\ quick' = Append(quick, t)
    BY <1>2, <1>3
  <2>2. /\ pane' \in PaneStates
        /\ \A q \in 1..Tabs : /\ pane'[q].active = pane[q].active
                              /\ pane'[q].show = (pane[q].show /\ q \notin FirstPane)
    BY <1>1, <2>1, FadedIs
  <2>3. ActivePanes' = ActivePanes
    BY <2>2 DEF ActivePanes
  <2>4. FirstPane' = FirstPane
    BY <2>3 DEF FirstPane
  <2>5. \A q \in FirstPane : ~pane'[q].show
    BY <2>2 DEF FirstPane, ActivePanes
  <2>6. quick' \in Seq(1..Tabs) /\ quick' # <<>> /\ quick'[Len(quick')] = t
        /\ Len(quick') = Len(quick) + 1
    BY <1>1, <2>1, AppendProperties
  <2>7. QuickIsSane'
    BY <1>3, <2>4, <2>5, <2>6 DEF QuickIsSane
  <2>8. OneAtATime'
    <3>1. Len(<<>>) = 0
      OBVIOUS
    <3>2. tabEnv.patient => Len(quick') <= 1
      BY <2>6, <3>1
    <3> QED
      BY <2>3, <3>2 DEF TabInv, OneAtATime
  <2> QED
    BY <2>2, <2>6, <2>7, <2>8
<1>4. CASE ~moves
  <2>1. now = TransitionOver(pane, t, FirstPane)
    BY <1>4
  <2>2. /\ now \in PaneStates /\ now[t].active = TRUE
        /\ now[t].show = (tabEnv.fade \/ pane[t].show)
        /\ \A q \in 1..Tabs : q # t => now[q].active = (pane[q].active /\ q \notin FirstPane)
    <3>1. now \in PaneStates /\ Follows(now, pane, t, FirstPane)
      BY <1>1, <2>1, TransitionOverIs
    <3> HIDE DEF now
    <3> QED
      BY <3>1 DEF Follows
  <2> HIDE DEF now
  <2>3. /\ pane' \in PaneStates
        /\ \A q \in 1..Tabs : /\ pane'[q].active = now[q].active
                              /\ pane'[q].show = (now[q].show /\ q \notin FirstPane)
    BY <1>2, <2>2, FadedIs
  <2>4. quick' = quick /\ quick = <<>>
    BY <1>2, <1>4 DEF TabInv, QuickIsSane
  <2>5. pane'[t].active /\ (tabEnv.fade => pane'[t].show)
    BY <1>4, <2>2, <2>3
  <2>6. OneAtATime'
    <3>1. ASSUME tabEnv.patient PROVE \A q \in ActivePanes' : q = t
      <4>1. FirstPane = ActivePanes
        BY <3>1, FirstIsOnly DEF TabInv, OneAtATime
      <4>2. \A q \in 1..Tabs : q # t => ~pane'[q].active
        BY <2>2, <2>3, <4>1 DEF ActivePanes
      <4> QED
        BY <4>2 DEF ActivePanes
    <3>2. Len(<<>>) <= 1
      OBVIOUS
    <3> QED
      BY <2>4, <3>1, <3>2 DEF OneAtATime
  <2>7. QuickIsSane'
    BY <1>1, <2>4 DEF QuickIsSane
  <2> QED
    BY <2>3, <2>4, <2>5, <2>6, <2>7
<1> QED
  BY <1>3, <1>4

LEMMA ShowTabKeeps ==
    ASSUME TabInv, NEW t \in 1..Tabs, ShowTab(t)
    PROVE  TabInv'
<1>1. /\ tabEnv' = tabEnv /\ link' = ActivateLink(t)
      /\ tabEnv.patient => quick = <<>>
  BY DEF ShowTab
<1>2. tabEnv.menu \subseteq 1..Tabs /\ LinksAgree
  BY TabAssumption DEF TabInv
<1>3. link' = ActiveLinks(t)
  BY <1>1, <1>2, ActivateLinkIs
<1>4. LinksAgree'
  BY <1>1, <1>3 DEF LinksAgree, ActiveLinks
<1>5. link' \ {MenuToggle} \subseteq {t}
  BY <1>3 DEF ActiveLinks
<1>6. CASE t \in tabEnv.paneless
  <2>1. pane' = pane /\ quick' = quick
    BY <1>6 DEF ShowTab
  <2>2. LinkIsFollowed'
    BY <1>1, <1>5, <1>6 DEF LinkIsFollowed, MenuToggle
  <2>3. QuickIsSane' /\ OneAtATime'
    BY <1>1, <2>1 DEF TabInv, QuickIsSane, OneAtATime, FirstPane, ActivePanes
  <2> QED
    BY <1>1, <1>4, <2>1, <2>2, <2>3 DEF TabInv
<1>7. CASE t \notin tabEnv.paneless
  <2>1. ActivatePane(t)
    BY <1>7 DEF ShowTab
  <2>2. /\ pane' \in PaneStates /\ QuickIsSane' /\ OneAtATime'
        /\ IF quick' = <<>> THEN pane'[t].active /\ (tabEnv.fade => pane'[t].show)
           ELSE quick'[Len(quick')] = t
    BY <1>1, <1>3, <1>7, <2>1, ActivatePaneKeeps
  <2>3. LinkIsFollowed'
    BY <1>1, <1>5, <2>2 DEF LinkIsFollowed, MenuToggle
  <2> QED
    BY <1>1, <1>4, <2>2, <2>3 DEF TabInv
<1> QED
  BY <1>6, <1>7

LEMMA PaneTransitionKeeps ==
    ASSUME TabInv, PaneTransitionEnds
    PROVE  TabInv'
<1>1. /\ quick # <<>> /\ quick' = <<>> /\ tabEnv' = tabEnv /\ link' = link
      /\ pane' = RunQuick(pane, quick, FirstPane)
  BY DEF PaneTransitionEnds
<1>2. /\ pane \in PaneStates /\ quick \in Seq(1..Tabs) /\ tabEnv.fade
      /\ tabEnv.fade \in BOOLEAN
  BY <1>1, TabAssumption DEF TabInv, QuickIsSane
<1> DEFINE p == quick[Len(quick)]
<1>3. p \in 1..Tabs /\ Len(quick) \in Nat \ {0} /\ FirstPane \subseteq 1..Tabs
  <2>1. Len(quick) \in Nat /\ Len(quick) # 0
    BY <1>1, <1>2, EmptySeq
  <2> DEFINE S == 1..Tabs
  <2>2. quick \in Seq(S)
    BY <1>2
  <2> HIDE DEF S
  <2>3. p \in S
    BY <2>1, <2>2
  <2> QED
    BY <2>1, <2>3 DEF S, FirstPane, ActivePanes
<1>4. PICK before \in PaneStates :
         /\ pane' = TransitionOver(before, p, FirstPane)
         /\ Len(quick) = 1 => before = pane
  BY <1>1, <1>2, <1>3, RunQuickEnds
<1> HIDE DEF p
<1>5. /\ pane' \in PaneStates /\ pane'[p].active = TRUE
      /\ pane'[p].show = (tabEnv.fade \/ before[p].show)
      /\ \A q \in 1..Tabs : q # p => pane'[q].active = (before[q].active /\ q \notin FirstPane)
  <2>1. pane' \in PaneStates /\ Follows(pane', before, p, FirstPane)
    BY <1>2, <1>3, <1>4, TransitionOverIs
  <2> QED
    BY <2>1 DEF Follows
<1>6. QuickIsSane'
  BY <1>1 DEF QuickIsSane
<1>7. LinksAgree'
  BY <1>1 DEF TabInv, LinksAgree, ActiveLinks
<1>8. LinkIsFollowed'
  <2>1. \A t \in (link \ {MenuToggle}) \ tabEnv.paneless : t = p
    BY <1>1 DEF TabInv, LinkIsFollowed, p
  <2> QED
    BY <1>1, <1>2, <1>5, <2>1 DEF LinkIsFollowed, MenuToggle
<1>9. OneAtATime'
  <2>1. ASSUME tabEnv.patient PROVE \A q \in ActivePanes' : q = p
    <3>1. Len(quick) <= 1 /\ FirstPane = ActivePanes
      BY <2>1, FirstIsOnly DEF TabInv, OneAtATime
    <3> HIDE DEF p
    <3>2. before = pane
      <4>1. Len(quick) = 1
        <5> DEFINE n == Len(quick)
        <5>1. n \in Nat /\ n # 0 /\ n <= 1
          BY <1>3, <3>1
        <5> HIDE DEF n
        <5>2. n = 1
          BY <5>1
        <5> QED
          BY <5>2 DEF n
      <4> QED
        BY <1>4, <4>1
    <3>3. ASSUME NEW q \in 1..Tabs, q # p PROVE ~pane'[q].active
      <4>1. pane'[q].active = (pane[q].active /\ q \notin FirstPane)
        BY <1>5, <3>2, <3>3
      <4>2. q \in FirstPane \/ ~pane[q].active
        BY <3>1 DEF ActivePanes
      <4> QED
        BY <4>1, <4>2
    <3> QED
      BY <3>3 DEF ActivePanes
  <2>2. Len(<<>>) <= 1
    OBVIOUS
  <2> QED
    BY <1>1, <2>1, <2>2 DEF OneAtATime
<1> QED
  BY <1>1, <1>5, <1>6, <1>7, <1>8, <1>9 DEF TabInv

\* However many tabs there are, in a dropdown or not, with panes or without, and however
\* fast the user clicks: links and panes agree, and callbacks wait only where a pane
\* fades out (js/src/tab.js).
THEOREM LinksFollowClicks == TabSpec => []TabTypeOK /\ []TabSound
<1>1. TabInit => TabInv
  <2> SUFFICES ASSUME TabInit PROVE TabInv
    OBVIOUS
  <2> DEFINE first(p) == p = tabEnv.opened /\ p \notin tabEnv.paneless
  <2>1. /\ tabEnv \in TabEnvs /\ tabEnv.opened \in 0..Tabs /\ quick = <<>>
        /\ pane = [p \in 1..Tabs |-> [active |-> first(p), show |-> first(p)]]
        /\ link = IF tabEnv.opened = 0 THEN {} ELSE ActiveLinks(tabEnv.opened)
    BY TabAssumption DEF TabInit
  <2>2. \A p \in 1..Tabs : first(p) \in BOOLEAN
    OBVIOUS
  <2>3. pane \in PaneStates /\ \A p \in 1..Tabs : pane[p].active = first(p) /\ pane[p].show = first(p)
    <3> HIDE DEF first
    <3> QED
      BY <2>1, <2>2 DEF PaneStates
  <2>4. LinksAgree
    <3>1. tabEnv.opened # 0 => tabEnv.opened \in 1..Tabs
      BY <2>1, TabAssumption
    <3> QED
      BY <2>1, <3>1 DEF LinksAgree
  <2>5. QuickIsSane
    BY <2>1 DEF QuickIsSane
  <2>6. LinkIsFollowed
    <3>1. tabEnv.opened # 0 => tabEnv.opened \in 1..Tabs
      BY <2>1, TabAssumption
    <3>2. \A t \in link \ {MenuToggle} : t = tabEnv.opened /\ tabEnv.opened # 0
      BY <2>1 DEF ActiveLinks
    <3> QED
      BY <2>1, <2>3, <3>1, <3>2 DEF LinkIsFollowed
  <2>7. OneAtATime
    <3>1. Len(<<>>) <= 1
      OBVIOUS
    <3>2. \A p \in ActivePanes : p = tabEnv.opened
      BY <2>3 DEF ActivePanes
    <3> QED
      BY <2>1, <3>1, <3>2 DEF OneAtATime
  <2> QED
    BY <2>1, <2>3, <2>4, <2>5, <2>6, <2>7 DEF TabInv
<1>2. TabInv /\ [TabNext]_tabVars => TabInv'
  <2> SUFFICES ASSUME TabInv, [TabNext]_tabVars PROVE TabInv'
    OBVIOUS
  <2>1. CASE UNCHANGED tabVars
    BY <2>1 DEF tabVars, TabInv, LinksAgree, ActiveLinks, QuickIsSane, LinkIsFollowed,
                OneAtATime, FirstPane, ActivePanes
  <2> QED
    BY <2>1, ShowTabKeeps, PaneTransitionKeeps DEF TabNext
<1>3. TabInv => TabTypeOK /\ TabSound
  <2> SUFFICES ASSUME TabInv PROVE TabTypeOK /\ TabSound
    OBVIOUS
  <2>1. link \subseteq 1..MenuToggle
    BY TabAssumption DEF TabInv, LinksAgree, ActiveLinks, MenuToggle
  <2>2. TabTypeOK
    BY <2>1 DEF TabInv, QuickIsSane, TabTypeOK, PaneStates
  <2>3. OneLinkActive
    <3>1. MenuToggle \notin 1..Tabs /\ tabEnv.menu \subseteq 1..Tabs
      BY TabAssumption DEF MenuToggle, TabInv
    <3>2. CASE link = {}
      BY <3>2, FS_EmptySet DEF OneLinkActive
    <3>3. ASSUME NEW t \in 1..Tabs, link = ActiveLinks(t) PROVE OneLinkActive
      <4>1. link \ {MenuToggle} = {t} /\ (MenuToggle \in link <=> t \in tabEnv.menu)
            /\ link \cap tabEnv.menu = {t} \cap tabEnv.menu
        BY <3>1, <3>3 DEF ActiveLinks
      <4>2. Cardinality({t}) = 1
        BY FS_Singleton
      <4> QED
        BY <4>1, <4>2 DEF OneLinkActive
    <3> QED
      BY <3>2, <3>3 DEF TabInv, LinksAgree
  <2>4. PaneFollowsLink
    BY DEF TabInv, LinkIsFollowed, PaneFollowsLink
  <2>5. OnePaneActive
    <3> SUFFICES ASSUME tabEnv.patient PROVE Cardinality(ActivePanes) <= 1
      BY DEF OnePaneActive
    <3>1. \A p, q \in ActivePanes : p = q
      BY DEF TabInv, OneAtATime
    <3>2. CASE ActivePanes = {}
      BY <3>2, FS_EmptySet
    <3>3. CASE ActivePanes # {}
      <4>1. PICK p : ActivePanes = {p}
        BY <3>1, <3>3
      <4> QED
        BY <4>1, FS_Singleton
    <3> QED
      BY <3>2, <3>3
  <2> QED
    BY <2>2, <2>3, <2>4, <2>5 DEF TabSound
<1> QED
  BY <1>1, <1>2, <1>3, PTL DEF TabSpec

-----------------------------------------------------------------------------
(* The dropdown menus.                                                     *)

FocusStates == [at : Menus \cup {Nowhere}, item : 0..MenuItems]

DropStates ==
    [open : SUBSET Menus, expanded : SUBSET Menus, backdrops : {0, 1}, focus : FocusStates]

MenusTold(d) == d \in DropStates /\ d.expanded = d.open

\* Toggles, menus and backdrop of d agree, wherever the focus is.
DropAgrees(d) ==
    /\ MenusTold(d)
    /\ "hide" \notin dropdownEnv.prevents => \A x, y \in d.open : x = y
    /\ "show" \notin dropdownEnv.prevents /\ d.backdrops > 0 => d.open # {}

FocusIsOpen(d) == d.focus.item > 0 => d.focus.at \in d.open

DropInv == dropdownEnv \in DropdownEnvs /\ DropAgrees(dropdown) /\ FocusIsOpen(dropdown)

\* What closes menus closes no menu that is spared, and takes the backdrop away.
LEMMA ClearMenusIs ==
    ASSUME NEW d, MenusTold(d), NEW spared
    PROVE  LET u == ClearMenus(d, spared)
           IN  /\ MenusTold(u) /\ u.open = d.open \cap spared
               /\ u.backdrops = 0 /\ u.focus = d.focus
<1> DEFINE less == IF d.backdrops > 0 THEN d.backdrops - 1 ELSE 0
           u == [d EXCEPT !.open = @ \cap spared, !.expanded = @ \ (d.open \ spared),
                          !.backdrops = less]
<1>1. d \in DropStates /\ d.expanded = d.open
  BY DEF MenusTold
<1>2. less = 0
  <2>1. d.backdrops \in {0, 1}
    BY <1>1 DEF DropStates
  <2> QED
    BY <2>1
<1>3. ClearMenus(d, spared) = u
  BY DEF ClearMenus
<1> HIDE DEF less
<1>4. /\ u \in DropStates /\ u.open = d.open \cap spared
      /\ u.expanded = d.expanded \ (d.open \ spared)
      /\ u.backdrops = 0 /\ u.focus = d.focus
  BY <1>1, <1>2 DEF DropStates
<1> HIDE DEF u
<1>5. u.expanded = u.open
  BY <1>1, <1>4
<1> QED
  BY <1>3, <1>4, <1>5 DEF MenusTold

LEMMA FocusOnIs ==
    ASSUME NEW d, MenusTold(d), NEW x \in FocusStates, NEW spared
    PROVE  LET u == FocusOn(d, x, spared)
           IN  /\ MenusTold(u) /\ u.focus = x /\ u.open \subseteq d.open
               /\ x.at \in d.open => x.at \in u.open
               /\ u = d \/ u.backdrops = 0
<1> DEFINE cleared == ClearMenus(d, spared \cup {x.at})
           u == [cleared EXCEPT !.focus = x]
<1>1. CASE d.focus = x
  BY <1>1 DEF FocusOn
<1>2. CASE d.focus # x
  <2>1. /\ MenusTold(cleared) /\ cleared.open = d.open \cap (spared \cup {x.at})
        /\ cleared.backdrops = 0
    BY ClearMenusIs
  <2>2. FocusOn(d, x, spared) = u
    BY <1>2 DEF FocusOn
  <2> HIDE DEF cleared
  <2>3. cleared \in DropStates
    BY <2>1 DEF MenusTold
  <2>4. /\ u \in DropStates /\ u.open = cleared.open /\ u.expanded = cleared.expanded
        /\ u.backdrops = cleared.backdrops /\ u.focus = x
    BY <2>3 DEF DropStates
  <2> HIDE DEF u
  <2> QED
    BY <2>1, <2>2, <2>4 DEF MenusTold
<1> QED
  BY <1>1, <1>2

LEMMA OpenMenuIs ==
    ASSUME NEW d, MenusTold(d), NEW x \in Menus
    PROVE  LET u == OpenMenu(d, x)
           IN  MenusTold(u) /\ u.open = d.open \cup {x} /\ u.focus = d.focus
<1> DEFINE u == OpenMenu(d, x)
<1>1. d \in DropStates /\ d.expanded = d.open
  BY DEF MenusTold
<1>2. /\ u \in DropStates /\ u.open = d.open \cup {x} /\ u.expanded = d.expanded \cup {x}
      /\ u.focus = d.focus
  BY <1>1 DEF DropStates, OpenMenu
<1> HIDE DEF u
<1>3. MenusTold(u) /\ u.open = d.open \cup {x} /\ u.focus = d.focus
  BY <1>1, <1>2 DEF MenusTold
<1> QED
  BY <1>3 DEF u

\* Each of the steps keeps toggles, menus and backdrop in agreement.
LEMMA ClearAgrees ==
    ASSUME NEW d, DropAgrees(d), NEW spared
    PROVE  DropAgrees(ClearMenus(d, spared)) /\ ClearMenus(d, spared).focus = d.focus
           /\ ClearMenus(d, spared).open = d.open \cap spared
<1> DEFINE u == ClearMenus(d, spared)
<1>1. MenusTold(u) /\ u.open = d.open \cap spared /\ u.backdrops = 0 /\ u.focus = d.focus
  BY ClearMenusIs DEF DropAgrees
<1> HIDE DEF u
<1>2. DropAgrees(u) /\ u.open = d.open \cap spared /\ u.focus = d.focus
  BY <1>1 DEF DropAgrees
<1> QED
  BY <1>2 DEF u

LEMMA FocusAgrees ==
    ASSUME NEW d, DropAgrees(d), NEW x \in FocusStates, NEW spared
    PROVE  LET u == FocusOn(d, x, spared)
           IN  /\ DropAgrees(u) /\ u.focus = x
               /\ x.at \in d.open => x.at \in u.open
<1> DEFINE u == FocusOn(d, x, spared)
<1>1. /\ MenusTold(u) /\ u.focus = x /\ u.open \subseteq d.open
      /\ x.at \in d.open => x.at \in u.open
      /\ u = d \/ u.backdrops = 0
  BY FocusOnIs DEF DropAgrees
<1> HIDE DEF u
<1>2. DropAgrees(u)
  BY <1>1 DEF DropAgrees
<1> QED
  BY <1>1, <1>2 DEF u

LEMMA ToggleAgrees ==
    ASSUME NEW d, DropAgrees(d), NEW x \in Menus, NEW stopped \in Stopping, NEW spared \in Sparing
    PROVE  LET u == ToggleMenu(d, x, stopped, spared)
           IN  DropAgrees(u) /\ u.focus \in {d.focus, ToggleAt(x)}
<1> DEFINE u == ToggleMenu(d, x, stopped, spared)
           cleared == ClearMenus(d, spared)
           more == cleared.backdrops + 1
           added == [cleared EXCEPT !.backdrops = more]
           backed == IF dropdownEnv.touch THEN added ELSE cleared
           focused == FocusOn(backed, ToggleAt(x), spared)
           opened == OpenMenu(focused, x)
<1>1. /\ MenusTold(cleared) /\ cleared.open = d.open \cap spared
      /\ cleared.backdrops = 0 /\ cleared.focus = d.focus /\ DropAgrees(cleared)
  BY ClearMenusIs, ClearAgrees DEF DropAgrees
<1>2. /\ x \in d.open => u = cleared
      /\ x \notin d.open /\ stopped => u = backed
      /\ x \notin d.open /\ ~stopped => u = opened
  BY DEF ToggleMenu
<1> HIDE DEF u, cleared
<1>3. /\ MenusTold(backed) /\ backed.open = d.open \cap spared /\ backed.focus = d.focus
  <2>1. cleared \in DropStates /\ more = 1
    BY <1>1 DEF MenusTold
  <2> HIDE DEF more
  <2>2. /\ added \in DropStates /\ added.open = cleared.open /\ added.expanded = cleared.expanded
        /\ added.focus = cleared.focus
    BY <2>1 DEF DropStates
  <2> HIDE DEF added
  <2> QED
    BY <1>1, <2>2 DEF MenusTold
<1> HIDE DEF backed
<1>4. ToggleAt(x) \in FocusStates
  BY DropdownAssumption DEF ToggleAt, FocusStates
<1>5. /\ MenusTold(focused) /\ focused.open \subseteq d.open \cap spared
      /\ focused.focus = ToggleAt(x)
  BY <1>3, <1>4, FocusOnIs
<1> HIDE DEF focused
<1>6. /\ MenusTold(opened) /\ opened.open = focused.open \cup {x}
      /\ opened.focus = ToggleAt(x)
  BY <1>5, OpenMenuIs
<1> HIDE DEF opened
<1>7. /\ "hide" \notin dropdownEnv.prevents => spared = {}
      /\ stopped => "show" \in dropdownEnv.prevents
  BY DEF Sparing, Stopping
<1>8. CASE x \in d.open
  BY <1>1, <1>2, <1>8 DEF u
<1>9. CASE x \notin d.open /\ stopped
  <2>1. DropAgrees(backed)
    BY <1>3, <1>7, <1>9 DEF DropAgrees
  <2> QED
    BY <1>2, <1>3, <1>9, <2>1 DEF u
<1>10. CASE x \notin d.open /\ ~stopped
  <2>1. DropAgrees(opened)
    BY <1>5, <1>6, <1>7 DEF DropAgrees
  <2> QED
    BY <1>2, <1>6, <1>10, <2>1 DEF u
<1> QED
  BY <1>8, <1>9, <1>10

\* The focus leaves an item whose menu closes.
LEMMA BlurredAgrees ==
    ASSUME NEW d, DropAgrees(d)
    PROVE  DropAgrees(Blurred(d)) /\ FocusIsOpen(Blurred(d))
<1> DEFINE u == [d EXCEPT !.focus = Elsewhere]
<1>1. d \in DropStates
  BY DEF DropAgrees, MenusTold
<1>2. Elsewhere \in FocusStates /\ Elsewhere.item = 0
  BY DropdownAssumption DEF Elsewhere, FocusStates
<1>3. /\ u \in DropStates /\ u.open = d.open /\ u.expanded = d.expanded
      /\ u.backdrops = d.backdrops /\ u.focus = Elsewhere
  BY <1>1, <1>2 DEF DropStates
<1>4. Blurred(d) = IF d.focus.item > 0 /\ d.focus.at \notin d.open THEN u ELSE d
  BY DEF Blurred
<1> HIDE DEF u
<1>5. CASE d.focus.item > 0 /\ d.focus.at \notin d.open
  BY <1>2, <1>3, <1>4, <1>5 DEF DropAgrees, MenusTold, FocusIsOpen
<1>6. CASE ~(d.focus.item > 0 /\ d.focus.at \notin d.open)
  BY <1>4, <1>6 DEF FocusIsOpen
<1> QED
  BY <1>5, <1>6

\* A click elsewhere takes the focus away.
LEMMA ElsewhereAgrees ==
    ASSUME NEW d, DropAgrees(d)
    PROVE  LET u == [d EXCEPT !.focus = Elsewhere] IN DropAgrees(u) /\ FocusIsOpen(u)
<1> DEFINE u == [d EXCEPT !.focus = Elsewhere]
<1>1. d \in DropStates
  BY DEF DropAgrees, MenusTold
<1>2. Elsewhere \in FocusStates /\ Elsewhere.item = 0
  BY DropdownAssumption DEF Elsewhere, FocusStates
<1>3. /\ u \in DropStates /\ u.open = d.open /\ u.expanded = d.expanded
      /\ u.backdrops = d.backdrops /\ u.focus = Elsewhere
  BY <1>1, <1>2 DEF DropStates
<1> HIDE DEF u
<1>4. DropAgrees(u) /\ FocusIsOpen(u)
  BY <1>2, <1>3 DEF DropAgrees, MenusTold, FocusIsOpen
<1> QED
  BY <1>4 DEF u

LEMMA DropKept ==
    ASSUME DropInv, UNCHANGED dropdownEnv, DropAgrees(dropdown'), FocusIsOpen(dropdown')
    PROVE  DropInv'
  BY DEF DropInv, DropAgrees, MenusTold, FocusIsOpen

LEMMA ClickToggleKeeps ==
    ASSUME DropInv, NEW x \in Menus, ClickToggle(x)
    PROVE  DropInv'
<1>1. PICK focuses \in BOOLEAN, stopped \in Stopping, spared \in Sparing :
         dropdown' = Blurred(ToggleMenu(
            IF focuses THEN FocusOn(dropdown, ToggleAt(x), spared) ELSE dropdown,
            x, stopped, spared))
  BY DEF ClickToggle
<1> DEFINE focused == FocusOn(dropdown, ToggleAt(x), spared)
           d == IF focuses THEN focused ELSE dropdown
           u == ToggleMenu(d, x, stopped, spared)
<1>2. DropAgrees(focused) /\ DropAgrees(dropdown)
  <2>1. ToggleAt(x) \in FocusStates
    BY DropdownAssumption DEF ToggleAt, FocusStates
  <2> QED
    BY <2>1, FocusAgrees DEF DropInv
<1> HIDE DEF focused
<1>3. DropAgrees(d)
  BY <1>2
<1> HIDE DEF d
<1>4. DropAgrees(u)
  BY <1>3, ToggleAgrees
<1>5. dropdown' = Blurred(u)
  BY <1>1 DEF d, focused
<1> HIDE DEF u
<1>6. DropAgrees(dropdown') /\ FocusIsOpen(dropdown')
  BY <1>4, <1>5, BlurredAgrees
<1> QED
  BY <1>6, DropKept DEF ClickToggle

LEMMA FocusToggleKeeps ==
    ASSUME DropInv, NEW x \in Menus, FocusToggle(x)
    PROVE  DropInv'
<1>1. PICK spared \in Sparing : dropdown' = Blurred(FocusOn(dropdown, ToggleAt(x), spared))
  BY DEF FocusToggle
<1> DEFINE u == FocusOn(dropdown, ToggleAt(x), spared)
<1>2. ToggleAt(x) \in FocusStates
  BY DropdownAssumption DEF ToggleAt, FocusStates
<1>3. DropAgrees(u)
  BY <1>2, FocusAgrees DEF DropInv
<1> HIDE DEF u
<1>4. DropAgrees(dropdown') /\ FocusIsOpen(dropdown')
  BY <1>1, <1>3, BlurredAgrees DEF u
<1> QED
  BY <1>4, DropKept DEF FocusToggle

LEMMA ClickElsewhereKeeps ==
    ASSUME DropInv, ClickDocument \/ \E x \in Menus : ClickInput(x)
    PROVE  DropInv'
<1>1. PICK spared : dropdown' = [ClearMenus(dropdown, spared) EXCEPT !.focus = Elsewhere]
  BY DEF ClickDocument, ClickInput
<1> DEFINE d == ClearMenus(dropdown, spared)
<1>2. DropAgrees(d)
  BY ClearAgrees DEF DropInv
<1> HIDE DEF d
<1>3. DropAgrees(dropdown') /\ FocusIsOpen(dropdown')
  BY <1>1, <1>2, ElsewhereAgrees DEF d
<1> QED
  BY <1>3, DropKept DEF ClickDocument, ClickInput

LEMMA KeyDownKeeps ==
    ASSUME DropInv, NEW key, KeyDown(key)
    PROVE  DropInv'
<1> DEFINE at == dropdown.focus.at
           item == dropdown.focus.item
<1>1. PICK stopped \in Stopping, spared \in Sparing :
         LET fresh == IF key = "escape" THEN FocusOn(dropdown, ToggleAt(at), spared) ELSE dropdown
         IN  /\ at # Nowhere
             /\ IF (at \in dropdown.open) = (key = "escape")
                THEN dropdown' = IF item = 0 THEN ToggleMenu(fresh, at, stopped, spared)
                                 ELSE ClearMenus(fresh, spared)
                ELSE /\ at \in dropdown.open
                     /\ dropdown' = FocusOn(dropdown, [at |-> at, item |-> ItemFor(key, item)], spared)
  BY DEF KeyDown
<1> DEFINE focused == FocusOn(dropdown, ToggleAt(at), spared)
           fresh == IF key = "escape" THEN focused ELSE dropdown
<1>2. DropAgrees(dropdown) /\ FocusIsOpen(dropdown) /\ dropdown.focus \in FocusStates
  BY DEF DropInv, DropAgrees, MenusTold, DropStates
<1>3. at \in Menus /\ item \in 0..MenuItems
  BY <1>1, <1>2 DEF FocusStates
<1>4. ToggleAt(at) \in FocusStates /\ ToggleAt(at).item = 0 /\ ToggleAt(at).at = at
  BY <1>3, DropdownAssumption DEF ToggleAt, FocusStates
<1>5. DropAgrees(focused) /\ focused.focus = ToggleAt(at)
  BY <1>2, <1>4, FocusAgrees
<1> HIDE DEF focused
<1>6. /\ DropAgrees(fresh)
      /\ fresh.focus = IF key = "escape" THEN ToggleAt(at) ELSE dropdown.focus
  BY <1>2, <1>5
<1>7. CASE (at \in dropdown.open) = (key = "escape") /\ item = 0
  <2> DEFINE u == ToggleMenu(fresh, at, stopped, spared)
  <2>1. dropdown' = u
    BY <1>1, <1>7 DEF focused
  <2> HIDE DEF fresh
  <2>2. DropAgrees(u) /\ u.focus \in {fresh.focus, ToggleAt(at)}
    BY <1>3, <1>6, ToggleAgrees
  <2> HIDE DEF u
  <2>3. u.focus.item = 0
    BY <1>4, <1>6, <1>7, <2>2
  <2>4. FocusIsOpen(u)
    BY <2>3 DEF FocusIsOpen
  <2> QED
    BY <2>1, <2>2, <2>4, DropKept DEF KeyDown
<1>8. CASE (at \in dropdown.open) = (key = "escape") /\ item # 0
  <2> DEFINE u == ClearMenus(fresh, spared)
  <2>1. dropdown' = u
    BY <1>1, <1>8 DEF focused
  <2>2. at \in dropdown.open /\ key = "escape"
    BY <1>2, <1>3, <1>8 DEF FocusIsOpen
  <2> HIDE DEF fresh
  <2>3. DropAgrees(u) /\ u.focus = fresh.focus
    BY <1>6, ClearAgrees
  <2> HIDE DEF u
  <2>4. FocusIsOpen(u)
    BY <1>4, <1>6, <2>2, <2>3 DEF FocusIsOpen
  <2> QED
    BY <2>1, <2>3, <2>4, DropKept DEF KeyDown
<1>9. CASE (at \in dropdown.open) # (key = "escape")
  <2> DEFINE x == [at |-> at, item |-> ItemFor(key, item)]
             u == FocusOn(dropdown, x, spared)
  <2>1. dropdown' = u /\ at \in dropdown.open
    BY <1>1, <1>9
  <2>2. ItemFor(key, item) \in 0..MenuItems
    BY <1>3, DropdownAssumption DEF ItemFor
  <2>3. x \in FocusStates /\ x.at = at
    BY <1>3, <2>2 DEF FocusStates
  <2> HIDE DEF x
  <2>4. DropAgrees(u) /\ u.focus = x /\ at \in u.open
    BY <1>2, <2>1, <2>3, FocusAgrees
  <2> HIDE DEF u
  <2>5. FocusIsOpen(u)
    BY <2>3, <2>4 DEF FocusIsOpen
  <2> QED
    BY <2>1, <2>4, <2>5, DropKept DEF KeyDown
<1> QED
  BY <1>7, <1>8, <1>9

\* Whatever opens and closes menus, by mouse, keys and focus, and whichever events a page
\* prevents: the toggles tell which menus are open, at most one is if no hide event is
\* prevented, and no backdrop stays behind unless a show event was.
THEOREM MenusAgree == DropdownSpec => []DropdownTypeOK /\ []DropdownSound
<1>1. DropdownInit => DropInv
  <2> SUFFICES ASSUME DropdownInit PROVE DropInv
    OBVIOUS
  <2>1. /\ dropdownEnv \in DropdownEnvs
        /\ dropdown = [open |-> {}, expanded |-> {}, backdrops |-> 0, focus |-> Elsewhere]
    BY DEF DropdownInit
  <2>2. Elsewhere \in FocusStates /\ Elsewhere.item = 0
    BY DropdownAssumption DEF Elsewhere, FocusStates
  <2>3. dropdown \in DropStates
    BY <2>1, <2>2 DEF DropStates
  <2> QED
    BY <2>1, <2>2, <2>3 DEF DropInv, DropAgrees, MenusTold, FocusIsOpen
<1>2. DropInv /\ [DropdownNext]_dropdownVars => DropInv'
  <2> SUFFICES ASSUME DropInv, [DropdownNext]_dropdownVars PROVE DropInv'
    OBVIOUS
  <2>1. CASE UNCHANGED dropdownVars
    BY <2>1 DEF dropdownVars, DropInv, DropAgrees, MenusTold, FocusIsOpen
  <2> QED
    BY <2>1, ClickToggleKeeps, FocusToggleKeeps, ClickElsewhereKeeps, KeyDownKeeps
    DEF DropdownNext
<1>3. DropInv => DropdownTypeOK /\ DropdownSound
  <2> SUFFICES ASSUME DropInv PROVE DropdownTypeOK /\ DropdownSound
    OBVIOUS
  <2>1. DropdownTypeOK /\ BackdropHasMenu /\ dropdown.expanded = dropdown.open
    BY DEF DropInv, DropAgrees, MenusTold, DropStates, FocusStates, FocusIsOpen,
           DropdownTypeOK, BackdropHasMenu
  <2>2. ASSUME "hide" \notin dropdownEnv.prevents
        PROVE  Cardinality(dropdown.open) <= 1
    <3>1. CASE dropdown.open = {}
      BY <3>1, FS_EmptySet
    <3>2. CASE dropdown.open # {}
      <4>1. PICK x \in dropdown.open : dropdown.open = {x}
        BY <2>2, <3>2 DEF DropInv, DropAgrees
      <4>2. Cardinality({x}) = 1
        BY FS_Singleton
      <4> QED
        BY <4>1, <4>2
    <3> QED
      BY <3>1, <3>2
  <2> QED
    BY <2>1, <2>2 DEF DropdownSound, MenusAreTold
<1> QED
  BY <1>1, <1>2, <1>3, PTL DEF DropdownSpec
=============================================================================
