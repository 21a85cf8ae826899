------------------------------ MODULE Workspaces ------------------------------
(***************************************************************************)
(* The groups and workspaces of a CosmicWorkspaceManager, with the example *)
(* application on top: it prints what there is at each done event, and     *)
(* sends a request from the callback of a workspace that is removed.  The  *)
(* compositor adds, removes and activates workspaces at any time, and ends *)
(* a batch of changes with done.                                           *)
(*                                                                         *)
(* An object is [id, no, of]: no numbers the objects in the order in which *)
(* they are made and is not in the code; of is 0 for a group and the       *)
(* number of its group for a workspace.                                    *)
(***************************************************************************)
EXTENDS Naturals, Sequences, FiniteSets, SequencesExt

CONSTANTS
    Ids,         \* the ids the compositor creates objects with
    MaxObjects,  \* bound: objects made in a run
    MaxChanges,  \* bound: changes besides
    MaxCalls     \* bound: calls of the application

ASSUME WorkspaceAssumption ==
    MaxObjects \in Nat /\ MaxChanges \in Nat /\ MaxCalls \in Nat

Object == [id : Ids, no : 1..MaxObjects, of : 0..MaxObjects]
Request == [op : {"commit"}] \cup
           [op : {"activate", "remove", "create_workspace", "destroy"}, obj : Object]

VARIABLES
    handlers,    \* the objects among the connection's event handlers
    groups,      \* groups, and the workspaces of each:
    workspaces,  \* the number of a group -> its set
    states,      \* the workspaces whose states have 'active'
    printed,     \* what on_sync printed last
    raised,      \* the exception that ended the event loop, if any
    requests,    \* in flight to the compositor
    events,      \* in flight to the client
    resources,   \* the objects the compositor has
    removed,     \* those among them that it has sent its last event on
    active,      \* its active workspaces
    unsynced,    \* whether done is still to be sent
    nobjects,    \* objects made so far
    nchanges,    \* changes so far
    ncalls,      \* calls so far
    synced,      \* history: what the last done that was read stood for
    given_up,    \* history: objects the application destroyed itself
    rejected,    \* whether a request named an object there is not
    misled       \* history: whether a request acted on another object than was meant

clientVars == <<handlers, groups, workspaces, states, printed, raised, synced, given_up, ncalls>>
serverVars == <<resources, removed, active, unsynced, nobjects, nchanges, rejected, misled>>
vars == <<clientVars, serverVars, requests, events>>

TypeOK ==
    /\ handlers \subseteq Object
    /\ groups \in Seq(Object)
    /\ \A g \in DOMAIN workspaces : g \in 1..MaxObjects /\ workspaces[g] \subseteq Object
    /\ states \subseteq Object
    /\ requests \in Seq(Request)
    /\ removed \subseteq resources /\ active \subseteq resources
    /\ resources \subseteq Object
    /\ raised \subseteq {"installed", "invalid", "not attached", "not in workspaces"}

\* The manager is bound, and the compositor has nothing to tell yet.
Nothing == [groups |-> {}, workspaces |-> {}]
Init ==
    /\ handlers = {} /\ groups = <<>> /\ workspaces = <<>> /\ states = {}
    /\ printed = Nothing /\ synced = Nothing
    /\ raised = {} /\ given_up = {}
    /\ requests = <<>> /\ events = <<>>
    /\ resources = {} /\ removed = {} /\ active = {} /\ unsynced = FALSE
    /\ nobjects = 0 /\ nchanges = 0 /\ ncalls = 0
    /\ rejected = FALSE /\ misled = FALSE

-----------------------------------------------------------------------------
Running == raised = {}
Take(t) ==
    /\ Running
    /\ events # <<>>
    /\ Head(events).ev = t
    /\ events' = Tail(events)

\* The handler the next event, for an object, is given to.
IsFor(h) == h \in handlers /\ h.id = Head(events).obj.id
Command(op, o) == [op |-> op, obj |-> o]

\* add_event_handler refuses an id that has a handler, in the constructor.
Refused(o) == \E h \in handlers : h.id = o.id
OnRefused ==
    \E t \in {"workspace_group", "workspace"} :
        /\ Take(t)
        /\ Refused(Head(events).new)
        /\ raised' = {"installed"}
        /\ UNCHANGED <<handlers, groups, workspaces, states, printed, synced, given_up, ncalls,
                       serverVars, requests>>

\* _handle_event finds no handler.
OnInvalid ==
    \E t \in {"workspace", "state", "remove"} :
        /\ Take(t)
        /\ ~\E h \in handlers : IsFor(h)
        /\ raised' = {"invalid"}
        /\ UNCHANGED <<handlers, groups, workspaces, states, printed, synced, given_up, ncalls,
                       serverVars, requests>>

\* _on_workspace_group
OnWorkspaceGroup ==
    LET g == Head(events).new IN
    /\ Take("workspace_group")
    /\ ~Refused(g)
    /\ handlers' = handlers \cup {g}
    /\ groups' = Append(groups, g)
    /\ workspaces' = [k \in DOMAIN workspaces \cup {g.no} |->
                         IF k = g.no THEN {} ELSE workspaces[k]]
    /\ UNCHANGED <<states, printed, raised, synced, given_up, ncalls, serverVars, requests>>

\* on_workspace of the group the event is for
OnWorkspace(g) ==
    LET w == Head(events).new IN
    /\ Take("workspace")
    /\ IsFor(g) /\ ~Refused(w)
    /\ handlers' = handlers \cup {w}
    /\ workspaces' = [workspaces EXCEPT ![g.no] = @ \cup {w}]
    /\ UNCHANGED <<groups, states, printed, raised, synced, given_up, ncalls, serverVars, requests>>

\* on_state; on_name, on_coordinates and on_capabilities alike
OnState(w) ==
    /\ Take("state")
    /\ IsFor(w)
    /\ states' = IF Head(events).active THEN states \cup {w} ELSE states \ {w}
    /\ UNCHANGED <<handlers, groups, workspaces, printed, raised, synced, given_up, ncalls,
                   serverVars, requests>>

\* Mutant of Forgotten: the workspace stays in the set.
ForgottenNot(w) == workspaces

\* _on_workspace_removed of the parent
Forgotten(w) == [workspaces EXCEPT ![w.of] = @ \ {w}]

\* on_workspace_removed of the example
OnWorkspaceRemoved(w) == <<Command("activate", w), [op |-> "commit"]>>

\* Mutant of OnRemove: the object is destroyed before the callback.
OnRemoveFirst(w) ==
    /\ Take("remove")
    /\ IsFor(w) /\ w.of # 0
    /\ workspaces' = Forgotten(w)
    /\ handlers' = handlers \ {w}
    /\ requests' = requests \o <<Command("destroy", w)>> \o OnWorkspaceRemoved(w)
    /\ UNCHANGED <<groups, states, printed, raised, synced, given_up, ncalls, serverVars>>

\* on_remove: the workspace leaves the set, the callback still activates
\* it, and then it is destroyed.  Another application destroys it in the
\* callback, and remove_event_handler raises the second time.
OnRemove(w) ==
    \E twice \in BOOLEAN :
        /\ Take("remove")
        /\ IsFor(w) /\ w.of # 0
        /\ twice => ncalls < MaxCalls
        /\ workspaces' = Forgotten(w)
        /\ handlers' = handlers \ {w}
        /\ requests' = requests \o OnWorkspaceRemoved(w) \o <<Command("destroy", w)>>
        /\ raised' = IF w \notin workspaces[w.of] THEN {"not in workspaces"}
                     ELSE IF twice THEN {"not attached"} ELSE {}
        /\ given_up' = IF twice THEN given_up \cup {w} ELSE given_up
        /\ ncalls' = IF twice THEN ncalls + 1 ELSE ncalls
        /\ UNCHANGED <<groups, states, printed, synced, serverVars>>

\* on_remove of a group does nothing.
OnGroupRemove(g) ==
    /\ Take("remove")
    /\ IsFor(g) /\ g.of = 0
    /\ UNCHANGED <<clientVars, serverVars, requests>>

\* on_sync prints what the manager has.
OnDone ==
    /\ Take("done")
    /\ printed' =
          [groups |-> {g.no : g \in ToSet(groups)},
           workspaces |-> UNION {{[no |-> w.no, of |-> g.no, active |-> w \in states] :
                                     w \in workspaces[g.no]} : g \in ToSet(groups)}]
    /\ synced' = Head(events).view
    /\ UNCHANGED <<handlers, groups, workspaces, states, raised, given_up, ncalls,
                   serverVars, requests>>

Dispatch ==
    \/ OnRefused \/ OnInvalid \/ OnWorkspaceGroup \/ OnDone
    \/ \E o \in handlers : OnWorkspace(o) \/ OnState(o) \/ OnRemove(o) \/ OnGroupRemove(o)

-----------------------------------------------------------------------------
\* The application.
Call ==
    /\ Running /\ ncalls < MaxCalls
    /\ ncalls' = ncalls + 1
    /\ UNCHANGED <<groups, workspaces, states, printed, raised, synced, serverVars, events>>

\* activate, deactivate and remove of a workspace
Ask(w) ==
    /\ Call
    /\ w.of # 0
    /\ requests' = requests \o <<Command("activate", w), [op |-> "commit"]>>
    /\ UNCHANGED <<handlers, given_up>>

\* create_workspace of a group
CreateWorkspace(g) ==
    /\ Call
    /\ g.of = 0
    /\ requests' = requests \o <<Command("create_workspace", g), [op |-> "commit"]>>
    /\ UNCHANGED <<handlers, given_up>>

GiveUp(o) ==
    /\ Call
    /\ o \notin given_up
    /\ given_up' = given_up \cup {o}
    /\ requests' = Append(requests, Command("destroy", o))

\* destroy of a workspace: its handler goes, and the group still lists it.
Destroy(w) ==
    /\ w.of # 0
    /\ GiveUp(w)
    /\ handlers' = {h \in handlers : h.id # w.id}

\* destroy of a group: its handler and the tables stay.
DestroyGroup(g) ==
    /\ g.of = 0
    /\ GiveUp(g)
    /\ UNCHANGED handlers

Listed == ToSet(groups) \cup UNION {workspaces[g] : g \in DOMAIN workspaces}
\* The application asks for what the manager lists.
Application ==
    \E o \in Listed : Ask(o) \/ CreateWorkspace(o) \/ Destroy(o) \/ DestroyGroup(o)

-----------------------------------------------------------------------------
\* The compositor.
Named(id) == {o \in resources : o.id = id}
Truth ==
    LET there == resources \ removed IN
    [groups |-> {g.no : g \in {o \in there : o.of = 0}},
     workspaces |-> {[no |-> w.no, of |-> w.of, active |-> w \in active] :
                        w \in {o \in there : o.of # 0}}]

TakeRequest ==
    /\ ~rejected
    /\ requests # <<>>
    /\ requests' = Tail(requests)

ServeCommit ==
    /\ TakeRequest
    /\ Head(requests).op = "commit"
    /\ UNCHANGED <<clientVars, serverVars, events>>

\* A request acts on the object it names.  What the compositor does about requests
\* other than destroy is up to it, and among its changes.
ServeRequest ==
    LET r == Head(requests) IN
    /\ TakeRequest
    /\ r.op # "commit"
    /\ LET named == Named(r.obj.id)
           gone == IF r.op = "destroy" THEN named ELSE {}
       IN
       /\ rejected' = (named = {})
       /\ misled' = (misled \/ named \ {r.obj} # {})
       /\ resources' = resources \ gone
       /\ removed' = removed \ gone
       /\ active' = active \ gone
    /\ UNCHANGED <<clientVars, unsynced, nobjects, nchanges, events>>

Groups == {o \in resources \ removed : o.of = 0}
Workspace(o) == o \in resources \ removed /\ o.of # 0
Send(e) == events' = Append(events, e) /\ unsynced' = TRUE

Make(o, e) ==
    /\ nobjects < MaxObjects
    /\ Named(o.id) = {}
    /\ nobjects' = nobjects + 1
    /\ resources' = resources \cup {o}
    /\ Send(e)
    /\ UNCHANGED <<clientVars, removed, active, nchanges, rejected, misled, requests>>

AddGroup(id) ==
    LET g == [id |-> id, no |-> nobjects + 1, of |-> 0] IN
    Make(g, [ev |-> "workspace_group", new |-> g])

AddWorkspace(g, id) ==
    LET w == [id |-> id, no |-> nobjects + 1, of |-> g.no] IN
    Make(w, [ev |-> "workspace", obj |-> g, new |-> w])

Change ==
    /\ nchanges < MaxChanges
    /\ nchanges' = nchanges + 1
    /\ UNCHANGED <<clientVars, resources, nobjects, rejected, misled, requests>>

Turn(w) ==
    /\ Change
    /\ Workspace(w)
    /\ active' = IF w \in active THEN active \ {w} ELSE active \cup {w}
    /\ Send([ev |-> "state", obj |-> w, active |-> w \notin active])
    /\ UNCHANGED removed

\* A group goes after its workspaces.
End(o) ==
    /\ Change
    /\ o \notin removed
    /\ o.of = 0 => ~\E w \in resources \ removed : w.of = o.no
    /\ removed' = removed \cup {o}
    /\ active' = active \ {o}
    /\ Send([ev |-> "remove", obj |-> o])

SendDone ==
    /\ unsynced
    /\ unsynced' = FALSE
    /\ events' = Append(events, [ev |-> "done", view |-> Truth])
    /\ UNCHANGED <<clientVars, resources, removed, active, nobjects, nchanges, rejected, misled,
                   requests>>

Compositor ==
    \/ ServeCommit \/ ServeRequest
    \/ ~rejected /\
       \/ SendDone
       \/ \E id \in Ids : AddGroup(id) \/ \E g \in Groups : AddWorkspace(g, id)
       \/ \E o \in resources : Turn(o) \/ End(o)

Next == Dispatch \/ Application \/ Compositor

Spec == Init /\ [][Next]_vars

-----------------------------------------------------------------------------
\* What is printed at a done event is what the compositor had when it sent it: the
\* batch is complete, and every workspace is in its own group with its state, whatever
\* else is on its way.  Groups that were removed stay, without workspaces; a workspace
\* that the application destroyed itself stays as it was, one whose group it destroyed
\* does not.
Mine(view) == {w \in view.workspaces : \A o \in given_up : o.no # w.no}
SyncedView ==
    /\ TypeOK
    /\ Mine(printed) = Mine(synced)
    /\ synced.groups \subseteq printed.groups

\* No handler raises, no request is rejected and none acts on another object than was
\* meant, the one from the callback of a removed workspace included, unless the
\* application has destroyed something itself: a group keeps its handler, and the next
\* object under its id is refused; a workspace stays listed and has no handler for the
\* events on their way, nor for on_remove to take away.
FailsOnlyAfterDestroy ==
    /\ "installed" \in raised => \E o \in given_up : o.of = 0
    /\ raised \cap {"invalid", "not attached"} # {} => \E o \in given_up : o.of # 0
    /\ "not in workspaces" \notin raised
    /\ rejected \/ misled => given_up # {}
=============================================================================
