------------------------------ MODULE Dropdown ------------------------------
(***************************************************************************)
(* The dropdowns of the vendored bootstrap (js/src/dropdown.js): toggles,  *)
(* none of them disabled, each with a menu.  Whatever opens a menu closes  *)
(* the others first; the focus moves with the events, and its own event    *)
(* closes menus too.  On a touch screen a backdrop under an open menu      *)
(* takes the clicks.                                                       *)
(***************************************************************************)
EXTENDS Naturals, FiniteSets

CONSTANTS
    Menus,         \* the toggles, and their menus
    MenuItems,     \* the number of items of each menu
    DropdownEnvs,  \* see dropdownEnv
    Nowhere

ASSUME DropdownAssumption ==
    /\ MenuItems \in Nat \ {0} /\ Nowhere \notin Menus
    /\ DropdownEnvs \subseteq [touch : BOOLEAN, prevents : SUBSET {"show", "hide"}]

VARIABLES
    dropdownEnv,   \* touch: the screen is one, and no menu is in a navbar; prevents: the
                   \* events that a handler of the page may prevent
    dropdown       \* open: the menus whose parent has class show; expanded: the toggles
                   \* that say so; backdrops: how many there are; focus: what has it,
                   \* the toggle of a menu (item 0) or an item of the menu

dropdownVars == <<dropdownEnv, dropdown>>

Elsewhere == [at |-> Nowhere, item |-> 0]
ToggleAt(x) == [at |-> x, item |-> 0]

DropdownInit ==
    /\ dropdownEnv \in DropdownEnvs
    /\ dropdown = [open |-> {}, expanded |-> {}, backdrops |-> 0, focus |-> Elsewhere]

\* _clearMenus: one backdrop goes, and the menus that are open, except those that are
\* spared: the event comes from inside, or a handler prevents their hide event.
ClearMenus(d, spared) ==
    [d EXCEPT !.open = @ \cap spared,
              !.expanded = @ \ (d.open \ spared),
              !.backdrops = IF @ > 0 THEN @ - 1 ELSE 0]

\* element.focus(): if the focus moves, focusin reaches the document.
FocusOn(d, x, spared) ==
    IF d.focus = x THEN d ELSE [ClearMenus(d, spared \cup {x.at}) EXCEPT !.focus = x]

OpenMenu(d, x) == [d EXCEPT !.open = @ \cup {x}, !.expanded = @ \cup {x}]

\* Mutant: the backdrop is inserted before the menus are cleared.
ToggleBacked(d, x, stopped, spared) ==
    LET backed == IF dropdownEnv.touch THEN [d EXCEPT !.backdrops = @ + 1] ELSE d
    IN  IF x \in d.open \/ stopped THEN ClearMenus(backed, spared)
        ELSE OpenMenu(FocusOn(backed, ToggleAt(x), spared), x)

\* toggle: closes all menus, and opens that of x if it was not open.  A backdrop is
\* inserted before the show event, which a handler may stop.
ToggleMenu(d, x, stopped, spared) ==
    LET cleared == ClearMenus(d, spared)
        backed  == IF dropdownEnv.touch THEN [cleared EXCEPT !.backdrops = @ + 1] ELSE cleared
    IN  IF x \in d.open THEN cleared
        ELSE IF stopped THEN backed
        ELSE OpenMenu(FocusOn(backed, ToggleAt(x), spared), x)

\* An item whose menu closes loses the focus.
Blurred(d) ==
    IF d.focus.item > 0 /\ d.focus.at \notin d.open THEN [d EXCEPT !.focus = Elsewhere] ELSE d

\* What handlers of the page prevent during one event.
Sparing == IF "hide" \in dropdownEnv.prevents THEN SUBSET Menus ELSE {{}}
Stopping == IF "show" \in dropdownEnv.prevents THEN BOOLEAN ELSE {FALSE}

\* A click on the toggle of x, which some browsers focus first; toggle stops the event,
\* so that the document's own handler does not see it.
ClickToggle(x) ==
    \E focuses \in BOOLEAN, stopped \in Stopping, spared \in Sparing :
        /\ dropdown' = Blurred(ToggleMenu(
               IF focuses THEN FocusOn(dropdown, ToggleAt(x), spared) ELSE dropdown,
               x, stopped, spared))
        /\ UNCHANGED dropdownEnv

\* The focus comes to the toggle of x by the tabulator key.
FocusToggle(x) ==
    \E spared \in Sparing :
        /\ dropdown.focus # ToggleAt(x)
        /\ dropdown' = Blurred(FocusOn(dropdown, ToggleAt(x), spared))
        /\ UNCHANGED dropdownEnv

\* A click outside the menus, or on an item: the document closes all menus.
ClickDocument ==
    \E spared \in Sparing :
        /\ dropdown' = [ClearMenus(dropdown, spared) EXCEPT !.focus = Elsewhere]
        /\ UNCHANGED dropdownEnv

\* A click on an input in the menu of x: this menu is spared.
ClickInput(x) ==
    \E spared \in Sparing :
        /\ x \in dropdown.open
        /\ dropdown' = [ClearMenus(dropdown, spared \cup {x}) EXCEPT !.focus = Elsewhere]
        /\ UNCHANGED dropdownEnv

\* The item that gets the focus after item i, or the toggle, 0, had it.
ItemFor(key, i) ==
    IF key = "up" /\ i > 1 THEN i - 1
    ELSE IF key = "down" /\ i < MenuItems THEN i + 1
    ELSE IF i = 0 THEN 1 ELSE i

\* _dataApiKeydownHandler: a click on what handles the key, the toggle or the menu,
\* opens the menu, and closes it after the escape key; other keys move the focus.
KeyDown(key) ==
    \E stopped \in Stopping, spared \in Sparing :
        LET at    == dropdown.focus.at
            item  == dropdown.focus.item
            fresh == IF key = "escape" THEN FocusOn(dropdown, ToggleAt(at), spared) ELSE dropdown
        IN  /\ at # Nowhere
            /\ IF (at \in dropdown.open) = (key = "escape")
               THEN dropdown' = IF item = 0 THEN ToggleMenu(fresh, at, stopped, spared)
                                ELSE ClearMenus(fresh, spared)
               ELSE /\ at \in dropdown.open
                    /\ dropdown' = FocusOn(dropdown, [at |-> at, item |-> ItemFor(key, item)], spared)
            /\ UNCHANGED dropdownEnv

DropdownNext ==
    \/ \E x \in Menus : ClickToggle(x) \/ FocusToggle(x) \/ ClickInput(x)
    \/ ClickDocument
    \/ \E key \in {"up", "down", "space", "escape"} : KeyDown(key)

DropdownSpec == DropdownInit /\ [][DropdownNext]_dropdownVars

-----------------------------------------------------------------------------
\* Every variable has its type, and the focus is on an item of an open menu or on none.
DropdownTypeOK ==
    /\ dropdown.open \subseteq Menus /\ dropdown.expanded \subseteq Menus
    /\ dropdown.backdrops \in {0, 1}
    /\ dropdown.focus \in [at : Menus \cup {Nowhere}, item : 0..MenuItems]
    /\ dropdown.focus.item > 0 => dropdown.focus.at \in dropdown.open

\* Whatever opens and closes menus, and whichever of their hide events are prevented,
\* the toggles tell what is open; if none is prevented, one menu at most is.
MenusAreTold ==
    /\ dropdown.expanded = dropdown.open
    /\ "hide" \notin dropdownEnv.prevents => Cardinality(dropdown.open) <= 1

\* If no handler stops the show event, a backdrop never takes the clicks of a page on
\* which no menu is open.
BackdropHasMenu ==
    "show" \notin dropdownEnv.prevents /\ dropdown.backdrops > 0 => dropdown.open # {}

\* Toggles, menus and backdrops agree after any events, prevented or not.
DropdownSound == MenusAreTold /\ BackdropHasMenu
=============================================================================
