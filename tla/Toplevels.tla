------------------------------ MODULE Toplevels ------------------------------
(***************************************************************************)
(* The windows a ForeignTopLevel knows, and the compositor that has them.  *)
(* The compositor creates an object for each of its windows once the       *)
(* manager is bound, sends what there is to say of it, and later each      *)
(* change; a request names a window by the id of its object.  The id is    *)
(* used again as soon as the compositor has read that the object is        *)
(* destroyed.  Wlctrl and Panel add an application to this.                *)
(*                                                                         *)
(* An object is [id, win]: win, the number of the compositor's window, is  *)
(* not in the code and tells it from others that had its id.  Of what a    *)
(* window reports there is its title and whether it is activated.          *)
(***************************************************************************)
EXTENDS Naturals, Sequences, FiniteSets, SequencesExt, Functions

CONSTANTS
    Ids,          \* the ids the compositor creates objects with
    Titles,       \* titles of windows
    NoTitle,      \* the title before the first event
    MaxWindows,   \* bound: windows opened in a run
    MaxChanges    \* bound: changes of title and focus

ASSUME ToplevelAssumption ==
    /\ MaxWindows \in Nat /\ MaxChanges \in Nat
    /\ NoTitle \notin Titles

Wins == 1..MaxWindows
TopLevel == [id : Ids, win : Wins]
Ops == {"activate", "set_minimize", "close"}
Request == [op : {"bind"}] \cup [op : {"sync"}, callback : {"info_done", "quit"}]
             \cup [op : Ops \cup {"destroy"}, id : Ids, meant : TopLevel]

VARIABLES
    handlers,   \* the toplevels among the connection's event handlers
    windows,    \* windows: id -> toplevel
    title,      \* the title of each toplevel, as last read
    states,     \* the toplevels whose states have 'activated'
    raised,     \* the exception that ended the event loop, if any
    requests,   \* in flight to the compositor
    events,     \* in flight to the client
    bound,      \* whether the compositor has read the bind
    resources,  \* the objects it has made
    open,       \* its windows
    names,      \* the titles of all windows there have been
    focus,      \* its active windows
    unsynced,   \* windows whose done is still to be sent
    served,     \* history: the requests on windows it has carried out
    rejected,   \* whether a request named an object it did not have
    nchanges    \* changes so far

libVars == <<handlers, windows, title, states, raised>>
serverVars == <<bound, resources, open, names, focus, unsynced, served, rejected, nchanges>>
toplevelVars == <<libVars, serverVars, requests, events>>

LibTypeOK ==
    /\ handlers \subseteq TopLevel
    /\ \A id \in DOMAIN windows : id \in Ids /\ windows[id] \in TopLevel
    /\ title \in [TopLevel -> Titles \cup {NoTitle}]
    /\ states \subseteq TopLevel
    /\ requests \in Seq(Request)
    /\ resources \subseteq TopLevel
    /\ names \in Seq(Titles) /\ open \subseteq DOMAIN names /\ focus \subseteq open

\* Any windows, one of them active perhaps, and a client that has not bound yet.
LibInit ==
    /\ handlers = {} /\ windows = <<>>
    /\ title = [t \in TopLevel |-> NoTitle]
    /\ states = {} /\ raised = {}
    /\ events = <<>>
    /\ bound = FALSE /\ resources = {}
    /\ names \in UNION {[1..n -> Titles] : n \in 0..MaxWindows}
    /\ open = DOMAIN names
    /\ focus \in {{}} \cup {{w} : w \in open}
    /\ unsynced = {} /\ served = {} /\ rejected = FALSE /\ nchanges = 0

-----------------------------------------------------------------------------
Running == raised = {}
Take(t) ==
    /\ Running
    /\ events # <<>>
    /\ Head(events).ev = t
    /\ events' = Tail(events)

Handled(id) == \E h \in handlers : h.id = id

\* send_command names the toplevel by its id.
Command(op, t) == [op |-> op, id |-> t.id, meant |-> t]

\* on_new_toplevel
OnNewToplevel(t) ==
    /\ Take("toplevel")
    /\ t = Head(events).obj
    /\ IF Handled(t.id)
       THEN raised' = {"installed"} /\ UNCHANGED <<handlers, windows, title, states>>
       ELSE /\ handlers' = handlers \cup {t}
            /\ windows' = [id \in DOMAIN windows \cup {t.id} |->
                              IF id = t.id THEN t ELSE windows[id]]
            /\ title' = [title EXCEPT ![t] = NoTitle]
            /\ states' = states \ {t}
            /\ UNCHANGED raised
    /\ UNCHANGED <<serverVars, requests>>

\* The handler an event of type ev is for.
TakeFor(t, ev) ==
    /\ Take(ev)
    /\ t \in handlers
    /\ t.id = Head(events).obj.id

\* on_title, and on_app_id, on_parent alike
OnTitle(t) ==
    /\ TakeFor(t, "title")
    /\ title' = [title EXCEPT ![t] = Head(events).title]
    /\ UNCHANGED <<handlers, windows, states, raised, serverVars, requests>>

OnState(t) ==
    /\ TakeFor(t, "state")
    /\ states' = IF Head(events).activated THEN states \cup {t} ELSE states \ {t}
    /\ UNCHANGED <<handlers, windows, title, raised, serverVars, requests>>

\* on_done only tells the application.
OnDone(t) ==
    /\ TakeFor(t, "done")
    /\ UNCHANGED <<libVars, serverVars, requests>>

\* on_closed destroys the object, then _on_toplevel_closed forgets its window.
OnClosed(t) ==
    /\ TakeFor(t, "closed")
    /\ handlers' = handlers \ {t}
    /\ requests' = Append(requests, Command("destroy", t))
    /\ IF t.id \in DOMAIN windows
       THEN /\ windows' = Restrict(windows, DOMAIN windows \ {t.id})
            /\ UNCHANGED raised
       ELSE raised' = {"not in windows"} /\ UNCHANGED windows
    /\ UNCHANGED <<title, states, serverVars>>

-----------------------------------------------------------------------------
\* The compositor.
Event(ev, o) == [ev |-> ev, obj |-> o]
TitleEvent(o, t) == [ev |-> "title", obj |-> o, title |-> t]
StateEvent(o, active) == [ev |-> "state", obj |-> o, activated |-> active]
Details(o) ==
    <<Event("toplevel", o), TitleEvent(o, names'[o.win]),
      StateEvent(o, o.win \in focus'), Event("done", o)>>
\* The details of the objects in q, one after the other.
AllDetails(q) ==
    [k \in 1..(4 * Len(q)) |-> LET i == (k + 3) \div 4 IN Details(q[i])[k - 4 * (i - 1)]]

\* The objects of windows that are open.
Objects(wins) == {r \in resources : r.win \in wins \cap open}
Free(id) == \A r \in resources : r.id # id

TakeRequest(op) ==
    /\ ~rejected
    /\ requests # <<>>
    /\ Head(requests).op = op
    /\ requests' = Tail(requests)

\* The client learns of every window there is.
ServeBind ==
    /\ TakeRequest("bind")
    /\ bound' = TRUE
    /\ UNCHANGED <<names, focus>>
    /\ \E ids \in [open -> Ids] :
         /\ IsInjective(ids)
         /\ resources' = {[id |-> ids[w], win |-> w] : w \in open}
         /\ \E q \in SetToSeqs(resources') : events' = events \o AllDetails(q)
    /\ UNCHANGED <<libVars, open, unsynced, served, rejected, nchanges>>

\* The active windows are now those in wins, which those concerned are told.
Refocus(wins) ==
    LET lost == Objects(focus \ wins)
        won == Objects(wins \ focus)
    IN /\ focus' = wins
       /\ unsynced' = unsynced \cup ((wins \ focus) \cup (focus \ wins))
       /\ \E q \in SetToSeqs(lost \cup won) :
            events' = events \o [k \in DOMAIN q |-> StateEvent(q[k], q[k] \in won)]

\* A request of a window acts on the window of the object it names.  One that is
\* closed ignores it.
ServeCommand(op) ==
    LET r == Head(requests)
        named == {o \in resources : o.id = r.id}
    IN
    /\ TakeRequest(op)
    /\ rejected' = (named = {})
    /\ served' = served \cup {[op |-> op, meant |-> r.meant, on |-> o.win] : o \in named}
    /\ LET on == {o.win : o \in named} \cap open IN
       CASE op = "activate" /\ on # {} -> Refocus(on)
         [] op = "set_minimize" -> Refocus(focus \ on)
         [] OTHER -> UNCHANGED <<focus, unsynced, events>>
    /\ UNCHANGED <<libVars, bound, resources, open, names, nchanges>>

ServeDestroy ==
    LET id == Head(requests).id IN
    /\ TakeRequest("destroy")
    /\ rejected' = Free(id)
    /\ resources' = {r \in resources : r.id # id}
    /\ UNCHANGED <<libVars, bound, open, names, focus, unsynced, served, nchanges, events>>

ServeWindows == ServeBind \/ ServeDestroy \/ \E op \in Ops : ServeCommand(op)

Change == nchanges < MaxChanges /\ nchanges' = nchanges + 1

Rename(o, t) ==
    /\ Change
    /\ t # names[o.win]
    /\ names' = [names EXCEPT ![o.win] = t]
    /\ unsynced' = unsynced \cup {o.win}
    /\ events' = Append(events, TitleEvent(o, t))
    /\ UNCHANGED <<libVars, bound, resources, open, focus, served, rejected, requests>>

\* The user turns to another window, or to none.
Focus(wins) ==
    /\ Change
    /\ wins # focus
    /\ Refocus(wins)
    /\ UNCHANGED <<libVars, bound, resources, open, names, served, rejected, requests>>

\* Changes are followed by done, which is sent when there is nothing else to do.
SendDone(o) ==
    /\ unsynced' = unsynced \ {o.win}
    /\ events' = Append(events, Event("done", o))
    /\ UNCHANGED <<libVars, bound, resources, open, names, focus, served, rejected,
                   nchanges, requests>>

Open(id, t) ==
    LET w == Len(names) + 1
        o == [id |-> id, win |-> w]
    IN
    /\ w <= MaxWindows
    /\ names' = Append(names, t)
    /\ open' = open \cup {w}
    /\ UNCHANGED focus
    /\ Free(id)
    /\ resources' = resources \cup {o}
    /\ events' = events \o Details(o)
    /\ UNCHANGED <<libVars, bound, unsynced, served, rejected, nchanges, requests>>

Close(o) ==
    /\ open' = open \ {o.win}
    /\ focus' = focus \ {o.win}
    /\ unsynced' = unsynced \ {o.win}
    /\ events' = Append(events, Event("closed", o))
    /\ UNCHANGED <<libVars, bound, resources, names, served, rejected, nchanges, requests>>

\* What the user does to the windows, from the time the client is told of them: each
\* has its object then.
NewTitle == bound /\ \E o \in Objects(open), t \in Titles : Rename(o, t)
NewFocus == bound /\ \E wins \in {{}} \cup {{w} : w \in open} : Focus(wins)
Done == bound /\ \E o \in Objects(unsynced) : SendDone(o)
OpenOrClose ==
    /\ bound
    /\ \/ \E id \in Ids, t \in Titles : Open(id, t)
       \/ \E o \in Objects(open) : Close(o)

-----------------------------------------------------------------------------
\* _handle_event finds a handler for every event and add_event_handler none, so
\* that nothing raises; an action of a handler that is missing is not modelled.
Handles ==
    /\ raised \cap {"installed", "not in windows"} = {}
    /\ events # <<>> /\ Head(events).ev \in {"title", "state", "done", "closed"} =>
         Handled(Head(events).obj.id)
=============================================================================
