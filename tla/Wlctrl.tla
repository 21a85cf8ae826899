-------------------------------- MODULE Wlctrl --------------------------------
(***************************************************************************)
(* The wlctrl example: it binds the manager, waits for a sync, looks the   *)
(* window up that its arguments name, sends one request and waits for      *)
(* another sync before it leaves.  No wait is for anything but the sync:   *)
(* that all windows are known by then, and that the request is carried out *)
(* before the connection is closed, rests on the order of the streams.     *)
(***************************************************************************)
EXTENDS Toplevels

CONSTANTS
    Actions,    \* what can be asked for: "list" or the requests of Ops
    Targets     \* the targets that can be asked for, [by : "#", value : a set of ids],
                \* empty for one that is not a number, or [by : ":", value : a set of titles]

ASSUME ToolAssumption == Actions \subseteq {"list"} \cup Ops

VARIABLES
    action,       \* "list" or the request to send
    target,       \* the window to send it to
    listed,       \* the windows that were printed
    return_code,  \* what it leaves with
    seen          \* history: the windows open when the first sync was served

toolVars == <<listed, return_code>>
vars == <<toplevelVars, action, target, toolVars, seen>>

Codes == {"OK", "NO_MATCH", "MULTIPLE_MATCHES"}

TypeOK ==
    /\ LibTypeOK
    /\ raised \subseteq {"installed", "not in windows", "not a number", "disconnected"}
    /\ return_code \in Codes

Start ==
    /\ LibInit /\ focus = {}
    /\ action \in Actions
    /\ target \in Targets
    /\ listed = {} /\ return_code = "OK" /\ seen = {}

\* Mutant of Init: the sync is asked for before the bind.
InitSyncFirst ==
    Start /\ requests = <<[op |-> "sync", callback |-> "info_done"], [op |-> "bind"]>>

\* on_initial_sync has bound the manager and asked for a sync.
Init == Start /\ requests = <<[op |-> "bind"], [op |-> "sync", callback |-> "info_done"]>>

-----------------------------------------------------------------------------
\* shutdown raises WaylandDisconnected, which leaves run().
Quit(code) ==
    /\ return_code' = code
    /\ raised' = {"disconnected"}
    /\ UNCHANGED requests

Found ==
    {t \in Range(windows) :
        IF target.by = "#" THEN t.id \in target.value ELSE title[t] \in target.value}

TakeCallback(c) ==
    /\ Take("callback")
    /\ Head(events).callback = c

\* Mutant of InfoDone: it leaves without the second sync.
InfoDoneQuit ==
    /\ TakeCallback("info_done")
    /\ listed' = IF action = "list" THEN Range(windows) ELSE listed
    /\ return_code' = IF action = "list" \/ Found # {} THEN "OK" ELSE "NO_MATCH"
    /\ raised' = {"disconnected"}
    /\ requests' = IF action # "list" /\ \E t \in Found : Found = {t}
                   THEN Append(requests, Command(action, CHOOSE t \in Found : TRUE)) ELSE requests
    /\ UNCHANGED <<handlers, windows, title, states, serverVars, action, target, seen>>

\* int() raises for a target that is not a number, once there is a window to compare.
InfoDone ==
    /\ TakeCallback("info_done")
    /\ CASE action = "list" ->
              listed' = Range(windows) /\ Quit("OK")
         [] action # "list" /\ target = [by |-> "#", value |-> {}] /\ windows # <<>> ->
              raised' = {"not a number"} /\ UNCHANGED <<listed, return_code, requests>>
         [] OTHER ->
              CASE Found = {} -> Quit("NO_MATCH") /\ UNCHANGED listed
                [] Cardinality(Found) > 1 -> Quit("MULTIPLE_MATCHES") /\ listed' = Found
                [] OTHER -> /\ \E t \in Found :
                                 requests' = requests \o
                                     <<Command(action, t), [op |-> "sync", callback |-> "quit"]>>
                            /\ UNCHANGED <<listed, return_code, raised>>
    /\ UNCHANGED <<handlers, windows, title, states, serverVars, action, target, seen>>

\* Mutant of OnQuit: it does not shut down.
OnQuitStay ==
    /\ TakeCallback("quit")
    /\ UNCHANGED <<libVars, serverVars, requests, action, target, toolVars, seen>>

\* quit, the callback of the second sync
OnQuit ==
    /\ TakeCallback("quit")
    /\ Quit(return_code)
    /\ UNCHANGED <<handlers, windows, title, states, serverVars, action, target, listed, seen>>

\* The windows that are open, with what there is to name each by.
OpenWindows ==
    {[win |-> w, title |-> names[w], ids |-> {r.id : r \in Objects({w})}] : w \in open}

ServeSync ==
    LET c == Head(requests).callback IN
    /\ TakeRequest("sync")
    /\ events' = Append(events, [ev |-> "callback", callback |-> c])
    /\ seen' = IF c = "info_done" THEN OpenWindows ELSE seen
    /\ UNCHANGED <<libVars, bound, resources, open, names, focus, unsynced, served, rejected,
                   nchanges, action, target, toolVars>>

Library ==
    \/ \E t \in TopLevel : OnNewToplevel(t) \/ OnTitle(t) \/ OnState(t) \/ OnDone(t) \/ OnClosed(t)

Others == UNCHANGED <<action, target, toolVars, seen>>
Dispatch == InfoDone \/ OnQuit \/ (Library /\ Others)
Serve == ServeSync \/ (ServeWindows /\ Others)
\* Of the changes those of focus, and the done events, are nothing to the tool; and
\* nothing is modelled after it has left.
Next == Dispatch \/ (Running /\ Serve) \/ (Running /\ (NewTitle \/ OpenOrClose) /\ Others)

Spec == Init /\ [][Next]_vars

\* The event loop reads what is there, and the compositor serves its clients.
FairSpec == Spec /\ WF_vars(Dispatch) /\ WF_vars(Running /\ Serve)

-----------------------------------------------------------------------------
\* The windows in seen that the target names.
Named ==
    {w \in seen :
        IF target.by = "#" THEN w.ids \cap target.value # {} ELSE w.title \in target.value}
Exited == raised = {"disconnected"}

\* What it decides is true of the compositor's windows at the time it served the sync,
\* however they change meanwhile: all of them are listed, and the result says how many
\* the target names (info_done, after "we just wait for that to happen").
ExitTrue ==
    /\ TypeOK
    /\ Exited /\ action = "list" =>
         /\ {t.win : t \in listed} = {w.win : w \in seen}
         /\ return_code = "OK"
    /\ Exited /\ action # "list" =>
         CASE Cardinality(Named) = 0 -> return_code = "NO_MATCH"
           [] Cardinality(Named) = 1 -> return_code = "OK"
           [] OTHER -> return_code = "MULTIPLE_MATCHES"
    /\ Handles

\* When it leaves with success the compositor has already carried the request out, on
\* the window the target named and on no other, or has closed that window before.
DoneBeforeExit ==
    /\ ~rejected
    /\ \A s \in served : s.on = s.meant.win /\ s.op = action
    /\ Exited /\ action # "list" /\ return_code = "OK" =>
         {s.on : s \in served} = {w.win : w \in Named}
    /\ return_code # "OK" => served = {}

\* It always leaves, unless its target is not a number.
Finishes == <>(Exited \/ raised = {"not a number"})
=============================================================================
