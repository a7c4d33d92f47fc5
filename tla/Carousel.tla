------------------------------ MODULE Carousel ------------------------------
(***************************************************************************)
(* The carousel of the vendored bootstrap (js/src/carousel.js): its items, *)
(* the slide under way, the interval that asks for the next item, and the  *)
(* calls of to() that wait until a slide is over.                          *)
(***************************************************************************)
EXTENDS Naturals, FiniteSets, Sequences

CONSTANTS
    Items,         \* the number of items
    CarouselEnvs,  \* see carouselEnv
    MaxWaiting     \* bound: calls of to() that wait

ASSUME CarouselAssumption ==
    /\ Items \in Nat \ {0} /\ MaxWaiting \in Nat
    /\ CarouselEnvs \subseteq
          [wrap : BOOLEAN, animated : BOOLEAN, ride : BOOLEAN, prevents : BOOLEAN, api : BOOLEAN]

VARIABLES
    carouselEnv,   \* wrap: the config; animated: slides take time; ride: it cycles from
                   \* the start; prevents: a listener may prevent a slide; api: scripts
                   \* call it too
    carousel       \* see CarouselInit

carouselVars == <<carouselEnv, carousel>>

\* The object is there: made when the page was loaded (ride), or by a first click on a
\* control, whose slide is over.
\* active: the items of class active; indicator: the active one; slides: the slides
\* whose transition has not ended; slid: the event slid is due; waiting: the calls of
\* to() that wait for it; interval: the timer is set; over: the mouse is.
CarouselInit ==
    /\ carouselEnv \in CarouselEnvs
    /\ carousel = [active |-> {1}, indicator |-> 1, slides |-> <<>>, slid |-> FALSE,
                   waiting |-> <<>>, isSliding |-> FALSE, isPaused |-> FALSE,
                   interval |-> carouselEnv.ride, over |-> FALSE]

\* cycle.  An event leaves a pause as it is.
Cycle(c, event) ==
    LET isPaused == event /\ c.isPaused
    IN  [c EXCEPT !.isPaused = isPaused, !.interval = ~isPaused]

\* pause.  While it slides, which the class of the next item tells, it cycles first.
Pause(c, event) ==
    LET paused == [c EXCEPT !.isPaused = @ \/ ~event]
        cycled == IF c.slides # <<>> THEN Cycle(paused, TRUE) ELSE paused
    IN  [cycled EXCEPT !.interval = FALSE]

\* The first item of class active.
ActiveItem(c) == CHOOSE i \in c.active : \A j \in c.active : i <= j

\* _getItemByDirection
ItemByDirection(c, direction) ==
    LET i == ActiveItem(c)
    IN  CASE direction = "next" -> IF i < Items THEN i + 1 ELSE IF carouselEnv.wrap THEN 1 ELSE i
          [] direction = "prev" -> IF i > 1 THEN i - 1 ELSE IF carouselEnv.wrap THEN Items ELSE i

\* _slide
Slide(c, next, prevented) ==
    LET from   == ActiveItem(c)
        paused == IF c.interval THEN Pause(c, FALSE) ELSE c
        moved  == IF carouselEnv.animated
                  THEN [paused EXCEPT !.isSliding = TRUE, !.indicator = next,
                                      !.slides = Append(@, [from |-> from, to |-> next])]
                  ELSE [paused EXCEPT !.indicator = next, !.active = (@ \ {from}) \cup {next}]
    IN  IF next \in c.active THEN [c EXCEPT !.isSliding = FALSE]
        ELSE IF prevented THEN c
        ELSE IF c.interval THEN Cycle(moved, FALSE) ELSE moved

\* Mutant: a call does not wait for the slide under way.
ToAtOnce(c, call, prevented) == Slide(c, call.index, prevented)

\* to.  A click on an indicator passes the index as a string, which no index equals.
To(c, call, prevented) ==
    IF c.isSliding THEN [c EXCEPT !.waiting = Append(@, call)]
    ELSE IF call.number /\ call.index = ActiveItem(c) THEN Cycle(Pause(c, FALSE), FALSE)
    ELSE Slide(c, call.index, prevented)

Prevented == IF carouselEnv.prevents THEN BOOLEAN ELSE {FALSE}

\* next and prev, by a control or a key.  While it slides they throw.
Step(direction) ==
    /\ ~carousel.isSliding
    /\ \E prevented \in Prevented :
          carousel' = Slide(carousel, ItemByDirection(carousel, direction), prevented)
    /\ UNCHANGED carouselEnv

\* The interval; nextWhenVisible does nothing while the page is hidden.
Tick == carousel.interval /\ Step("next")

\* A click on an indicator, or a script's call of to().
CallTo(call) ==
    /\ call.number => carouselEnv.api
    /\ Len(carousel.waiting) < MaxWaiting
    /\ \E prevented \in Prevented : carousel' = To(carousel, call, prevented)
    /\ UNCHANGED carouselEnv

MouseEnter ==
    /\ ~carousel.over
    /\ carousel' = Pause([carousel EXCEPT !.over = TRUE], TRUE)
    /\ UNCHANGED carouselEnv

MouseLeave ==
    /\ carousel.over
    /\ carousel' = Cycle([carousel EXCEPT !.over = FALSE], TRUE)
    /\ UNCHANGED carouselEnv

\* A script calls pause() or cycle().
CallPause ==
    /\ carouselEnv.api
    /\ carousel' \in {Pause(carousel, FALSE), Cycle(carousel, FALSE)}
    /\ UNCHANGED carouselEnv

\* The callbacks that wait for the event slid, one after the other.
RunWaiting(c, prevented) ==
    LET after[n \in 0..Len(c.waiting)] ==
            IF n = 0 THEN [c EXCEPT !.slid = FALSE, !.waiting = <<>>]
            ELSE To(after[n - 1], c.waiting[n], prevented)
    IN  after[Len(c.waiting)]

SlideOver(c) ==
    [c EXCEPT !.active = (@ \ {Head(c.slides).from}) \cup {Head(c.slides).to},
              !.slides = Tail(@)]

\* The callback of _slide; the event slid follows by setTimeout(..., 0).
SlidThenOver(c) == [SlideOver(c) EXCEPT !.isSliding = FALSE, !.slid = TRUE]

SlideTransitionEnds ==
    /\ carousel.slides # <<>> /\ ~carousel.slid
    /\ carousel' = SlidThenOver(carousel)
    /\ UNCHANGED carouselEnv

Slid ==
    /\ carousel.slid
    /\ \E prevented \in Prevented : carousel' = RunWaiting(carousel, prevented)
    /\ UNCHANGED carouselEnv

CarouselNext ==
    \/ \E direction \in {"next", "prev"} : Step(direction)
    \/ Tick
    \/ \E call \in [index : 1..Items, number : BOOLEAN] : CallTo(call)
    \/ MouseEnter \/ MouseLeave \/ CallPause
    \/ SlideTransitionEnds \/ Slid

CarouselSpec == CarouselInit /\ [][CarouselNext]_carouselVars

-----------------------------------------------------------------------------
\* Every variable has its type.
CarouselTypeOK ==
    /\ carousel.active \subseteq 1..Items /\ carousel.indicator \in 1..Items
    /\ carousel.slid \in BOOLEAN /\ carousel.isSliding \in BOOLEAN
    /\ carousel.isPaused \in BOOLEAN /\ carousel.interval \in BOOLEAN
    /\ Len(carousel.waiting) <= MaxWaiting

\* One item is active and one slide at most is under way, whatever calls wait and
\* however the interval, the user and the transition interleave; and the indicator
\* shows the item that is active, or will be.
OneActive ==
    /\ Cardinality(carousel.active) = 1
    /\ carousel.isSliding = (carousel.slides # <<>>) /\ Len(carousel.slides) <= 1
    /\ {carousel.indicator} =
          IF carousel.isSliding THEN {carousel.slides[1].to} ELSE carousel.active

\* A carousel that no script calls rests while the mouse is over it, and one that
\* cycles from the start does so whenever the mouse is not.
RestsUnderMouse ==
    ~carouselEnv.api =>
        /\ carousel.interval => ~carousel.over /\ ~carousel.isPaused
        /\ carouselEnv.ride /\ ~carousel.over => carousel.interval

\* A call of to() that waits is not forgotten: the event it waits for will come.
CallsAreServed ==
    carousel.waiting # <<>> => carousel.slides # <<>> \/ carousel.slid

\* The slides, the interval and the calls that wait agree, however they interleave.
CarouselSound == OneActive /\ RestsUnderMouse /\ CallsAreServed
=============================================================================
