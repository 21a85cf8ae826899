------------------------------ MODULE Registry ------------------------------
(***************************************************************************)
(* The registry of globals, the outputs bound from it, and the objects     *)
(* that refer to outputs.  A global is announced, bound and removed by its *)
(* name (gid); events of other objects refer to an output by the id of the *)
(* object it was bound to.  The two tables of the registry, the list of    *)
(* outputs and the outputs of each holder (a TopLevel or a                 *)
(* CosmicWorkspaceGroup) are kept by different handlers.                   *)
(***************************************************************************)
EXTENDS Naturals, Sequences, FiniteSets, SequencesExt, Functions

CONSTANTS
    Names,        \* the interfaces the compositor may have globals of
    AtStart,      \* the interfaces of the globals there are at the start, in order
    Hotplug,      \* the interfaces whose globals come and go after that
    Managers,     \* the interfaces the application binds
    Offered,      \* version of an interface the compositor offers
    Version,      \* version of an interface the client is written for
    Holders,      \* the objects that may be created by a manager
    MaxGlobals,   \* bound: globals announced in a run
    MaxBinds,     \* bound: the application binds no more beyond this many objects
    MaxMoves      \* bound: times an object enters an output

ASSUME NamesAssumption ==
    /\ {"wl_output", "wl_seat", "wl_shm"} \subseteq Names
    /\ AtStart \subseteq Seq(Names) /\ \A s \in AtStart : Len(s) <= MaxGlobals
    /\ Hotplug \subseteq Names
    /\ Managers \subseteq Names \ {"wl_output"}
    /\ Offered \in [Names -> Nat] /\ Version \in [Names -> Nat]
ASSUME BoundsAssumption ==
    /\ MaxGlobals \in Nat /\ MaxBinds \in Nat /\ MaxMoves \in Nat

Gids == 1..MaxGlobals
ObjIds == Nat \ {0}
Output == [obj_id : ObjIds, global_id : Gids]
Request == [op : {"get_registry", "sync"}]
             \cup [op : {"bind"}, gid : Gids, name : Names, version : Nat, obj_id : ObjIds]
Event == [ev : {"global"}, gid : Gids, name : Names]
             \cup [ev : {"global_remove"}, gid : Gids]
             \cup [ev : {"done"}]
             \cup [ev : {"holder", "closed"}, holder : Holders]
             \cup [ev : {"enter", "leave"}, holder : Holders, obj_id : ObjIds]

VARIABLES
    registry,      \* _registry: name of a global -> its interface
    interfaces,    \* _interfaces: interface -> its globals, in order
    initial_sync,  \* _initial_sync
    outputs,       \* Display.outputs
    windows,       \* windows, groups: the holders the client knows
    held,          \* the outputs attribute of each holder
    raised,        \* the exception that ended the event loop, if any
    nbound,        \* objects bound so far
    requests,      \* in flight to the compositor
    events,        \* in flight to the client
    globals,       \* the compositor's globals
    nglobals,      \* globals announced so far
    registered,    \* whether the client has asked for the registry
    bound,         \* outputs the compositor knows to be bound
    shown,         \* holder -> the bound outputs it is on
    nmoves,        \* enter events sent so far
    abrupt,        \* history: outputs removed with an object still on them
    rejected       \* whether the compositor found a bind to be invalid

clientVars == <<registry, interfaces, initial_sync, outputs, windows, held, raised, nbound>>
serverVars == <<globals, nglobals, registered, bound, shown, nmoves, abrupt, rejected>>
vars == <<clientVars, serverVars, requests, events>>

TypeOK ==
    /\ registry \in [DOMAIN registry -> Names] /\ DOMAIN registry \subseteq Gids
    /\ interfaces \in [DOMAIN interfaces -> Seq(Gids)] /\ DOMAIN interfaces \subseteq Names
    /\ initial_sync \in BOOLEAN
    /\ outputs \in Seq(Output)
    /\ windows \subseteq Holders
    /\ held \in [Holders -> SUBSET Output]
    /\ raised \subseteq {"unsupported", "no output", "not held"}
    /\ nbound \in Nat
    /\ requests \in Seq(Request)
    /\ events \in Seq(Event)
    /\ globals \in [DOMAIN globals -> Names] /\ DOMAIN globals \subseteq 1..nglobals
    /\ nglobals \in 0..MaxGlobals
    /\ registered \in BOOLEAN
    /\ bound \subseteq Output
    /\ shown \in [Holders -> SUBSET bound]
    /\ nmoves \in 0..MaxMoves
    /\ abrupt \subseteq Gids
    /\ rejected \in BOOLEAN

-----------------------------------------------------------------------------
\* A new connection, with any globals on the compositor's side.
Init ==
    /\ registry = <<>> /\ interfaces = <<>>
    /\ initial_sync = FALSE
    /\ outputs = <<>>
    /\ windows = {} /\ held = [h \in Holders |-> {}]
    /\ raised = {}
    /\ nbound = 0
    /\ requests = <<[op |-> "get_registry"], [op |-> "sync"]>>
    /\ events = <<>>
    /\ globals \in AtStart
    /\ nglobals = Len(globals)
    /\ registered = FALSE
    /\ bound = {} /\ shown = [h \in Holders |-> {}]
    /\ nmoves = 0 /\ abrupt = {}
    /\ rejected = FALSE

-----------------------------------------------------------------------------
Without(f, x) == Restrict(f, DOMAIN f \ {x})
With(f, x, v) == [y \in DOMAIN f \cup {x} |-> IF y = x THEN v ELSE f[y]]
Smaller(a, b) == IF a < b THEN a ELSE b

Running == raised = {}
Take(t) ==
    /\ Running
    /\ events # <<>>
    /\ Head(events).ev = t
    /\ events' = Tail(events)

\* do_bind asks for the version both sides know.
BindRequest(gid, name, obj_id) ==
    [op |-> "bind", gid |-> gid, name |-> name,
     version |-> Smaller(Version[name], Offered[name]), obj_id |-> obj_id]

\* on_global: both tables learn of the global; an output is bound at once.
OnGlobal ==
    LET e == Head(events) IN
    /\ Take("global")
    /\ IF e.gid \in DOMAIN registry
       THEN UNCHANGED <<registry, interfaces, outputs, nbound, requests>>
       ELSE /\ registry' = With(registry, e.gid, e.name)
            /\ interfaces' = With(interfaces, e.name, Append(
                   IF e.name \in DOMAIN interfaces THEN interfaces[e.name] ELSE <<>>, e.gid))
            /\ IF e.name = "wl_output"
               THEN /\ nbound' = nbound + 1
                    /\ requests' = Append(requests, BindRequest(e.gid, e.name, nbound + 1))
                    /\ outputs' = Append(outputs, [obj_id |-> nbound + 1, global_id |-> e.gid])
               ELSE UNCHANGED <<nbound, requests, outputs>>
    /\ UNCHANGED <<initial_sync, windows, held, raised, serverVars>>

First(at) == CHOOSE k \in at : \A j \in at : k <= j

\* on_output_del takes the first output of the global off the list.
OutputsWithout(gid) ==
    LET at == {k \in DOMAIN outputs : outputs[k].global_id = gid} IN
    IF at = {} THEN outputs ELSE RemoveAt(outputs, First(at))

\* Both tables forget the global, and an empty list is dropped.
Forget(g) ==
    LET name == registry[g]
        at == {k \in DOMAIN interfaces[name] : interfaces[name][k] = g}
        rest == RemoveAt(interfaces[name], First(at))
    IN /\ registry' = Without(registry, g)
       /\ interfaces' = IF rest = <<>> THEN Without(interfaces, name)
                        ELSE [interfaces EXCEPT ![name] = rest]

\* Mutants of OnGlobalRemove: the list of the interface keeps the global; only outputs
\* are looked at.

OnGlobalRemoveInterfaces ==
    LET e == Head(events) IN
    /\ Take("global_remove")
    /\ registry' = Without(registry, e.gid)
    /\ outputs' = OutputsWithout(e.gid)
    /\ UNCHANGED <<interfaces, initial_sync, windows, held, raised, nbound, serverVars, requests>>

OnGlobalRemoveOnlyOutputs ==
    LET e == Head(events) IN
    /\ Take("global_remove")
    /\ IF registry[e.gid] = "wl_output"
       THEN Forget(e.gid) /\ outputs' = OutputsWithout(e.gid)
       ELSE UNCHANGED <<registry, interfaces, outputs>>
    /\ UNCHANGED <<initial_sync, windows, held, raised, nbound, serverVars, requests>>

\* on_global_remove.  An output leaves the list of outputs, its object stays.
OnGlobalRemove ==
    LET e == Head(events) IN
    /\ Take("global_remove")
    /\ IF e.gid \notin DOMAIN registry
       THEN UNCHANGED <<registry, interfaces, outputs>>
       ELSE /\ Forget(e.gid)
            /\ outputs' = IF registry[e.gid] = "wl_output" THEN OutputsWithout(e.gid) ELSE outputs
    /\ UNCHANGED <<initial_sync, windows, held, raised, nbound, serverVars, requests>>

\* do_bind of an interface without a global of its own takes the first one.
FirstGlobal(name) == Head(interfaces[name])
Supported(name) == name \in DOMAIN interfaces /\ FirstGlobal(name) \in DOMAIN registry

\* on_initial_sync: binding is open now, and the display binds a seat and shm;
\* one the compositor does not have raises.
OnInitialSync ==
    LET seat == Supported("wl_seat")
        shm == Supported("wl_shm")
        first == BindRequest(FirstGlobal("wl_seat"), "wl_seat", nbound + 1)
        second == BindRequest(FirstGlobal("wl_shm"), "wl_shm", nbound + 2)
    IN
    /\ Take("done")
    /\ initial_sync' = TRUE
    /\ raised' = IF seat /\ shm THEN {} ELSE {"unsupported"}
    /\ IF ~seat THEN UNCHANGED <<requests, nbound>>
       ELSE IF ~shm THEN requests' = Append(requests, first) /\ nbound' = nbound + 1
       ELSE requests' = requests \o <<first, second>> /\ nbound' = nbound + 2
    /\ UNCHANGED <<registry, interfaces, outputs, windows, held, serverVars>>

\* The application binds a manager; a bind that is refused raises in the
\* application, before anything has changed.
BindManager(name) ==
    /\ Running /\ nbound < MaxBinds
    /\ initial_sync
    /\ Supported(name)
    /\ nbound' = nbound + 1
    /\ requests' = Append(requests, BindRequest(FirstGlobal(name), name, nbound + 1))
    /\ UNCHANGED <<registry, interfaces, initial_sync, outputs, windows, held, raised, serverVars, events>>

\* on_new_toplevel, _on_workspace_group
OnHolder ==
    LET h == Head(events).holder IN
    /\ Take("holder")
    /\ windows' = windows \cup {h}
    /\ held' = [held EXCEPT ![h] = {}]
    /\ UNCHANGED <<registry, interfaces, initial_sync, outputs, raised, nbound, serverVars, requests>>

\* on_closed, and with it _on_toplevel_closed
OnClosed ==
    LET h == Head(events).holder IN
    /\ Take("closed")
    /\ windows' = windows \ {h}
    /\ UNCHANGED <<registry, interfaces, initial_sync, outputs, held, raised, nbound, serverVars, requests>>

\* Mutant of OutputsById: the id is taken for the name of the global.
OutputsByGlobal(id) == {o \in ToSet(outputs) : o.global_id = id}

\* get_output_by_id
OutputsById(id) == {o \in ToSet(outputs) : o.obj_id = id}

\* Mutant of OnEnter: the output replaces the others.
OnEnterOnly ==
    LET e == Head(events) IN
    /\ Take("enter")
    /\ OutputsById(e.obj_id) # {}
    /\ held' = [held EXCEPT ![e.holder] = OutputsById(e.obj_id)]
    /\ UNCHANGED <<registry, interfaces, initial_sync, outputs, windows, raised, nbound, serverVars, requests>>

\* on_output_enter; get_output_by_id raises when the output is not listed.
OnEnter ==
    LET e == Head(events) IN
    /\ Take("enter")
    /\ IF OutputsById(e.obj_id) = {}
       THEN raised' = {"no output"} /\ UNCHANGED held
       ELSE held' = [held EXCEPT ![e.holder] = @ \cup OutputsById(e.obj_id)] /\ UNCHANGED raised
    /\ UNCHANGED <<registry, interfaces, initial_sync, outputs, windows, nbound, serverVars, requests>>

\* on_output_leave; set.remove raises for an output that is not held.
OnLeave ==
    LET e == Head(events)
        found == OutputsById(e.obj_id)
    IN
    /\ Take("leave")
    /\ IF found = {} THEN raised' = {"no output"} /\ UNCHANGED held
       ELSE IF found \cap held[e.holder] = {} THEN raised' = {"not held"} /\ UNCHANGED held
       ELSE held' = [held EXCEPT ![e.holder] = @ \ found] /\ UNCHANGED raised
    /\ UNCHANGED <<registry, interfaces, initial_sync, outputs, windows, nbound, serverVars, requests>>

Dispatch ==
    \/ OnGlobal
    \/ OnGlobalRemove
    \/ OnInitialSync
    \/ OnHolder
    \/ OnClosed
    \/ OnEnter
    \/ OnLeave

-----------------------------------------------------------------------------
\* The compositor.
GlobalEvent(g) == [ev |-> "global", gid |-> g, name |-> globals[g]]
TakeRequest(op) ==
    /\ requests # <<>>
    /\ Head(requests).op = op
    /\ requests' = Tail(requests)

\* The globals of that moment, in the order they came about.
ServeRegistry ==
    /\ TakeRequest("get_registry")
    /\ registered' = TRUE
    /\ \E order \in [1..Cardinality(DOMAIN globals) -> DOMAIN globals] :
         /\ Range(order) = DOMAIN globals
         /\ \A j, k \in DOMAIN order : j < k => order[j] < order[k]
         /\ events' = events \o [k \in DOMAIN order |-> GlobalEvent(order[k])]
    /\ UNCHANGED <<clientVars, globals, nglobals, bound, shown, nmoves, abrupt, rejected>>

ServeSync ==
    /\ TakeRequest("sync")
    /\ events' = Append(events, [ev |-> "done"])
    /\ UNCHANGED <<clientVars, serverVars>>

\* A bind may come late, for a global that is gone; it then gives a dead object.
ServeBind ==
    LET b == Head(requests)
        alive == b.gid \in DOMAIN globals
    IN
    /\ TakeRequest("bind")
    /\ rejected' = \/ rejected
                   \/ b.version > Offered[b.name]
                   \/ b.gid > nglobals
                   \/ alive /\ globals[b.gid] # b.name
    /\ bound' = IF alive /\ b.name = "wl_output"
                THEN bound \cup {[obj_id |-> b.obj_id, global_id |-> b.gid]} ELSE bound
    /\ UNCHANGED <<clientVars, globals, nglobals, registered, shown, nmoves, abrupt, events>>

AddGlobal(name) ==
    /\ nglobals < MaxGlobals
    /\ nglobals' = nglobals + 1
    /\ globals' = With(globals, nglobals + 1, name)
    /\ events' = IF registered
                 THEN Append(events, [ev |-> "global", gid |-> nglobals + 1, name |-> name])
                 ELSE events
    /\ UNCHANGED <<clientVars, registered, bound, shown, nmoves, abrupt, rejected, requests>>

RemoveGlobal(g) ==
    /\ globals' = Without(globals, g)
    /\ events' = IF registered THEN Append(events, [ev |-> "global_remove", gid |-> g]) ELSE events
    /\ abrupt' = abrupt \cup {o.global_id : o \in {p \in UNION Range(shown) : p.global_id = g}}
    /\ UNCHANGED <<clientVars, nglobals, registered, bound, shown, nmoves, rejected, requests>>

\* A holder is announced, sends its events and is closed; its id is used again
\* once the client has destroyed it.
Announced(h) == h \in windows \/ \E k \in DOMAIN events : events[k] = [ev |-> "holder", holder |-> h]
Closing(h) == \E k \in DOMAIN events : events[k] = [ev |-> "closed", holder |-> h]

NewHolder(h) ==
    /\ initial_sync /\ ~Announced(h)
    /\ shown' = [shown EXCEPT ![h] = {}]
    /\ events' = Append(events, [ev |-> "holder", holder |-> h])
    /\ UNCHANGED <<clientVars, globals, nglobals, registered, bound, nmoves, abrupt, rejected, requests>>

CloseHolder(h) ==
    /\ Announced(h) /\ ~Closing(h)
    /\ shown' = [shown EXCEPT ![h] = {}]
    /\ events' = Append(events, [ev |-> "closed", holder |-> h])
    /\ UNCHANGED <<clientVars, globals, nglobals, registered, bound, nmoves, abrupt, rejected, requests>>

Enter(h, o) ==
    /\ Announced(h) /\ ~Closing(h)
    /\ nmoves < MaxMoves
    /\ o \in bound \ shown[h] /\ o.global_id \in DOMAIN globals
    /\ nmoves' = nmoves + 1
    /\ shown' = [shown EXCEPT ![h] = @ \cup {o}]
    /\ events' = Append(events, [ev |-> "enter", holder |-> h, obj_id |-> o.obj_id])
    /\ UNCHANGED <<clientVars, globals, nglobals, registered, bound, abrupt, rejected, requests>>

Leave(h, o) ==
    /\ o \in shown[h]
    /\ shown' = [shown EXCEPT ![h] = @ \ {o}]
    /\ events' = Append(events, [ev |-> "leave", holder |-> h, obj_id |-> o.obj_id])
    /\ UNCHANGED <<clientVars, globals, nglobals, registered, bound, nmoves, abrupt, rejected, requests>>

Serve == ServeRegistry \/ ServeSync \/ ServeBind

Change ==
    \/ \E name \in Hotplug : AddGlobal(name)
    \/ \E g \in {k \in DOMAIN globals : globals[k] \in Hotplug} : RemoveGlobal(g)
    \/ \E h \in Holders : NewHolder(h) \/ CloseHolder(h)
    \/ \E h \in Holders, o \in bound : Enter(h, o) \/ Leave(h, o)

Next == Dispatch \/ Serve \/ Change \/ \E name \in Managers : BindManager(name)

Spec == Init /\ [][Next]_vars

-----------------------------------------------------------------------------
\* The two tables of the registry are inverses: every global is listed once,
\* under its interface, and no interface is listed without a global.
TablesInverse ==
    /\ TypeOK
    /\ DOMAIN interfaces = Range(registry)
    /\ \A n \in DOMAIN interfaces :
         /\ IsInjective(interfaces[n])
         /\ ToSet(interfaces[n]) = {g \in DOMAIN registry : registry[g] = n}

\* Once everything in flight has arrived, the client knows the compositor's
\* globals, it has bound the outputs among them, under the ids the compositor has
\* for them, and every object is on the outputs the compositor has it on.
ViewsAgree ==
    Running /\ registered /\ requests = <<>> /\ events = <<>> =>
        /\ registry = globals
        /\ {o.global_id : o \in ToSet(outputs)} = {g \in DOMAIN globals : globals[g] = "wl_output"}
        /\ ToSet(outputs) = {o \in bound : o.global_id \in DOMAIN globals}
        /\ \A h \in windows : held[h] = shown[h]

\* The compositor never has to reject a bind: it names a global there was, the
\* interface of that global and a version the compositor has.  And the client
\* binds no global that it has read the end of.
RemovalRead(g) ==
    g \notin DOMAIN globals /\ \A k \in DOMAIN events : events[k] # [ev |-> "global_remove", gid |-> g]
BindsValid ==
    /\ []~rejected
    /\ [][\A k \in DOMAIN requests' : k > Len(requests) /\ requests'[k].op = "bind" =>
              ~RemovalRead(requests'[k].gid)]_vars

\* An event refers to an output that cannot be found only if the compositor has
\* removed the output without taking the object off it first; an object never
\* leaves an output it is not on.
OutputsFound ==
    /\ "no output" \in raised =>
         \E o \in bound : o.global_id \in abrupt /\ o.global_id \notin DOMAIN registry
    /\ "not held" \notin raised
=============================================================================
