-------------------------------- MODULE Panel --------------------------------
(***************************************************************************)
(* The panel example: a button for each window, made, labelled and removed *)
(* by the callbacks of ForeignTopLevel, and one menu that is opened for a  *)
(* window at a time.  Buttons and menu items hold on to the TopLevel they  *)
(* were made for; what they send goes to whatever the compositor has under *)
(* its id by then.                                                         *)
(***************************************************************************)
EXTENDS Toplevels

CONSTANTS
    NoButton,   \* None
    MaxClicks   \* bound: clicks on buttons and menu items

ASSUME PanelAssumption == MaxClicks \in Nat /\ NoButton \notin TopLevel

VARIABLES
    box,            \* the toplevels that have a button in the box
    label,          \* the label of each toplevel's button
    classed,        \* the toplevels whose button has the class 'activated'
    active_button,  \* the toplevel of active_button
    menu,           \* the toplevel the menu is open for
    nclicks,        \* clicks so far
    dimmed,         \* history: the active buttons that lost their class
    late            \* history: the toplevels a menu item was chosen for after they closed

buttonVars == <<box, label, classed, active_button>>
userVars == <<menu, nclicks, late>>
panelVars == <<toplevelVars, buttonVars, userVars, dimmed>>

PanelTypeOK ==
    /\ LibTypeOK
    /\ box \subseteq TopLevel /\ classed \subseteq TopLevel
    /\ label \in [TopLevel -> Titles \cup {NoTitle}]
    /\ active_button \in TopLevel \cup {NoButton}
    /\ menu \in TopLevel \cup {NoButton}

\* on_wl_sync has made the manager, which binds.
PanelInit ==
    /\ LibInit
    /\ requests = <<[op |-> "bind"]>>
    /\ box = {} /\ label = [t \in TopLevel |-> NoTitle]
    /\ classed = {} /\ active_button = NoButton
    /\ menu = NoButton /\ nclicks = 0
    /\ dimmed = {} /\ late = {}

-----------------------------------------------------------------------------
\* on_toplevel_new
NewButton(t) ==
    /\ OnNewToplevel(t)
    /\ box' = box \cup {t}
    /\ label' = [label EXCEPT ![t] = NoTitle]
    /\ classed' = classed \ {t}
    /\ UNCHANGED <<active_button, userVars, dimmed>>

\* Mutant of OnToplevelSynced: the class of the button that was active stays.
OnToplevelSyncedBoth(t) ==
    /\ OnDone(t)
    /\ label' = [label EXCEPT ![t] = title[t]]
    /\ IF t \in states
       THEN classed' = classed \cup {t} /\ active_button' = t
       ELSE UNCHANGED <<classed, active_button>>
    /\ UNCHANGED <<box, userVars, dimmed>>

\* on_toplevel_synced.  The button that lost its class stays the active one, and is
\* not given the class again as long as it is.
OnToplevelSynced(t) ==
    /\ OnDone(t)
    /\ label' = [label EXCEPT ![t] = title[t]]
    /\ IF t \in states
       THEN /\ active_button' = t
            /\ classed' = IF t = active_button THEN classed
                          ELSE (classed \ {active_button}) \cup {t}
            /\ UNCHANGED dimmed
       ELSE /\ UNCHANGED active_button
            /\ classed' = IF t = active_button THEN classed \ {t} ELSE classed
            /\ dimmed' = IF t = active_button THEN dimmed \cup {t} ELSE dimmed
    /\ UNCHANGED <<box, userVars>>

\* Mutant of OnToplevelClosed: the button stays in the box.
OnToplevelClosedKeeping(t) ==
    /\ OnClosed(t)
    /\ UNCHANGED <<buttonVars, userVars, dimmed>>

\* on_toplevel_closed.  The menu stays open if it is.
OnToplevelClosed(t) ==
    /\ OnClosed(t)
    /\ box' = box \ {t}
    /\ UNCHANGED <<label, classed, active_button, userVars, dimmed>>

Detail(t) == (OnTitle(t) \/ OnState(t)) /\ UNCHANGED <<buttonVars, userVars, dimmed>>

PanelDispatch ==
    \E t \in TopLevel : NewButton(t) \/ OnToplevelSynced(t) \/ OnToplevelClosed(t) \/ Detail(t)

-----------------------------------------------------------------------------
\* The user.
Choose(op, t) ==
    /\ Running /\ nclicks < MaxClicks
    /\ nclicks' = nclicks + 1
    /\ requests' = Append(requests, Command(op, t))
    /\ UNCHANGED <<libVars, serverVars, events, buttonVars, dimmed>>

\* app_toggle
Click(t) ==
    /\ t \in box
    /\ menu = NoButton
    /\ Choose(IF t \in states THEN "set_minimize" ELSE "activate", t)
    /\ UNCHANGED <<menu, late>>

\* handle_context_menu
OpenMenu(t) ==
    /\ Running /\ nclicks < MaxClicks
    /\ t \in box
    /\ menu = NoButton
    /\ menu' = t
    /\ UNCHANGED <<toplevelVars, buttonVars, dimmed, nclicks, late>>

\* An item of the menu: app_toggle_minimize, or app_close for all that do not
\* change the focus.
MenuItem(op) ==
    /\ menu # NoButton
    /\ Choose(op, menu)
    /\ late' = IF menu \in Range(windows) THEN late ELSE late \cup {menu}
    /\ menu' = NoButton

User == \E t \in TopLevel : Click(t) \/ OpenMenu(t)
Menu == \E op \in {"set_minimize", "close"} : MenuItem(op)
Compositor ==
    /\ ServeWindows \/ NewTitle \/ NewFocus \/ Done \/ OpenOrClose
    /\ UNCHANGED <<buttonVars, userVars, dimmed>>

PanelNext == PanelDispatch \/ User \/ Menu \/ Compositor

PanelSpec == PanelInit /\ [][PanelNext]_panelVars

-----------------------------------------------------------------------------
Quiet == bound /\ ~rejected /\ requests = <<>> /\ events = <<>> /\ unsynced = {}

\* Nothing raises, the box always has the windows of the table, and once everything
\* has arrived, those are the compositor's, under its titles, and the active one is
\* shown as such.  Only a window that went inactive and came back with no other
\* active in between is not (on_toplevel_synced leaves active_button).
PanelShows ==
    /\ PanelTypeOK /\ Handles
    /\ box = Range(windows)
    /\ Quiet =>
         /\ box = Objects(open)
         /\ \A t \in box : label[t] = names[t.win] /\ title[t] = names[t.win]
         /\ \A t \in box : \/ (t \in classed) = (t.win \in focus)
                           \/ t \notin classed /\ t = active_button /\ t \in dimmed

\* What the user asks for is done to the window they chose or, if that is closed,
\* to none: the compositor never rejects a request, and none goes to a later window
\* under the same id.  Only an item chosen from a menu whose window closed while it
\* was open may do either.
RequestsMeant ==
    /\ rejected => late # {}
    /\ \A s \in served : s.on = s.meant.win \/ s.meant \in late
=============================================================================
