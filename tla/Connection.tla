----------------------------- MODULE Connection -----------------------------
(***************************************************************************)
(* The object table of a WaylandConnection: ids are handed out by          *)
(* get_new_obj_id, handlers are installed and removed, requests go to the  *)
(* compositor in order, events come back in order, and an id returns to    *)
(* the client with wl_display.delete_id (free_obj_id).  The compositor is  *)
(* modelled from what the protocol lets it do.                             *)
(*                                                                         *)
(* An object is [id, gen, kind].  gen numbers the objects in the order of  *)
(* their creation: it is not in the code, and tells an object from a later *)
(* one that was given the same id.  The kind says which of the code's ways *)
(* of ending an object applies:                                            *)
(*   callback  do_sync; the compositor ends it after its done event        *)
(*   keep      destroy only sends; the handler goes with delete_id         *)
(*             (IdleNotifier, ShmPool, WlBuffer, the managers)             *)
(*   silent    as keep, but no handler is installed (VirtualKeyboard)      *)
(*   forget    destroy sends and removes the handler (DataControlDevice,   *)
(*             DataControlSource)                                          *)
(*   remote    created by the compositor; destroy removes the handler and  *)
(*             sends (TopLevel, DataControlOffer, CosmicWorkspaceHandle)   *)
(*   group     created by the compositor; destroy only sends               *)
(*             (CosmicWorkspaceGroup)                                      *)
(***************************************************************************)
EXTENDS Naturals, Sequences, FiniteSets

CONSTANTS
    MaxId,       \* last id of the client's range; ids above it are the server's
    RemoteIds,   \* the ids the compositor creates objects with
    Kinds,       \* the kinds of object the application uses besides callbacks
    MaxObjects,  \* bound: objects created in a run
    MaxEvents    \* bound: plain events the compositor sends in a run

LocalKinds == {"keep", "silent", "forget"}
RemoteKinds == {"remote", "group"}

ASSUME IdAssumption ==
    /\ MaxId \in Nat /\ MaxId >= 3
    /\ RemoteIds \cap Nat = {}
ASSUME KindAssumption == Kinds \subseteq LocalKinds \cup RemoteKinds
ASSUME BoundAssumption ==
    /\ MaxObjects \in Nat /\ MaxObjects >= 2
    /\ MaxEvents \in Nat

ClientIds == 1..MaxId
Obj(ids, kinds) == [id : ids, gen : 0..MaxObjects, kind : kinds]
LocalObject == Obj(ClientIds, LocalKinds \cup {"callback"})
RemoteObject == Obj(RemoteIds, RemoteKinds)
Object == LocalObject \cup RemoteObject
Request == [op : {"create"}, obj : Obj(ClientIds, LocalKinds)]
               \cup [op : {"sync"}, obj : Obj(ClientIds, {"callback"})]
               \cup [op : {"destroy"}, obj : Object]
Event == [ev : {"done"}, obj : Obj(ClientIds, {"callback"})]
             \cup [ev : {"delete_id"}, obj : LocalObject]
             \cup [ev : {"event"}, obj : {o \in Object : o.kind # "silent"}]
             \cup [ev : {"finished"}, obj : {o \in Object : o.kind \in {"forget", "remote"}}]
             \cup [ev : {"new"}, obj : RemoteObject]

VARIABLES
    next_id,         \* the id generator's counter
    obj_ids_reuse,   \* ids returned by the compositor, in order
    event_handlers,  \* the objects that have a handler, at most one per id
    proxies,         \* objects the application holds and has not destroyed
    failed,          \* history: objects whose request could not be made or sent
    calls,           \* history: the sync callbacks run, in order
    raised,          \* the exception that ended the event loop, if any
    requests,        \* in flight to the compositor
    events,          \* in flight to the client
    resources,       \* the compositor's table of live objects
    ended,           \* live objects the compositor has sent its last event on
    highest,         \* the highest id of the client's it has been told of
    rejected,        \* whether the compositor found a request to be invalid
    gens,            \* objects created so far
    nevents          \* plain events sent so far

clientVars == <<next_id, obj_ids_reuse, event_handlers, proxies, failed, calls, raised>>
serverVars == <<resources, ended, highest, rejected, nevents>>
vars == <<clientVars, serverVars, requests, events, gens>>

TypeOK ==
    /\ next_id \in 4..(MaxId + 1)
    /\ obj_ids_reuse \in Seq(ClientIds)
    /\ event_handlers \subseteq Object
    /\ proxies \subseteq Object
    /\ failed \subseteq Object
    /\ calls \in Seq(Object)
    /\ raised \subseteq [why : {"installed", "invalid"}, obj : Object]
    /\ requests \in Seq(Request)
    /\ events \in Seq(Event)
    /\ resources \subseteq Object
    /\ ended \subseteq Object
    /\ highest \in ClientIds
    /\ rejected \in BOOLEAN
    /\ gens \in 2..MaxObjects
    /\ nevents \in 0..MaxEvents

-----------------------------------------------------------------------------
\* The state __init__ leaves: wl_display is object 1, get_registry and do_sync
\* have taken ids 2 and 3, and both requests are on their way.
Display == [id |-> 1, gen |-> 0, kind |-> "keep"]
Registry == [id |-> 2, gen |-> 1, kind |-> "keep"]
InitialSync == [id |-> 3, gen |-> 2, kind |-> "callback"]

Init ==
    /\ next_id = 4
    /\ obj_ids_reuse = <<>>
    /\ event_handlers = {Display, Registry, InitialSync}
    /\ proxies = {} /\ failed = {}
    /\ calls = <<>>
    /\ raised = {}
    /\ requests = <<[op |-> "create", obj |-> Registry],
                    [op |-> "sync", obj |-> InitialSync]>>
    /\ events = <<>>
    /\ resources = {Display}
    /\ ended = {}
    /\ highest = 1
    /\ rejected = FALSE
    /\ gens = 2
    /\ nevents = 0

-----------------------------------------------------------------------------
\* The client.  Every action needs the event loop to be running: an exception
\* that leaves a handler leaves PollIntegration.run() as well.
Running == raised = {}

Installed(id) == \E h \in event_handlers : h.id = id
WithoutHandler(id) == {h \in event_handlers : h.id # id}
Raise(why, o) == raised' = {[why |-> why, obj |-> o]}
Send(op, o) == requests' = Append(requests, [op |-> op, obj |-> o])

\* get_new_obj_id: a returned id first, the counter otherwise.
NewObjId == IF obj_ids_reuse # <<>> THEN Head(obj_ids_reuse) ELSE next_id

\* Mutant of TakeObjId: the returned id is looked at and left in the list.
PeekObjId ==
    \/ /\ obj_ids_reuse # <<>>
       /\ UNCHANGED <<obj_ids_reuse, next_id>>
    \/ /\ obj_ids_reuse = <<>>
       /\ next_id <= MaxId
       /\ next_id' = next_id + 1
       /\ UNCHANGED obj_ids_reuse

TakeObjId ==
    \/ /\ obj_ids_reuse # <<>>
       /\ obj_ids_reuse' = Tail(obj_ids_reuse)
       /\ UNCHANGED next_id
    \/ /\ obj_ids_reuse = <<>>
       /\ next_id <= MaxId
       /\ next_id' = next_id + 1
       /\ UNCHANGED obj_ids_reuse

\* add_event_handler refuses an id that has a handler already.
AddEventHandler(o) ==
    \/ /\ ~Installed(o.id)
       /\ event_handlers' = event_handlers \cup {o}
       /\ UNCHANGED raised
    \/ /\ Installed(o.id)
       /\ Raise("installed", o)
       /\ UNCHANGED event_handlers

\* A new object of the client's making.
Allocate(kind) == [id |-> NewObjId, gen |-> gens + 1, kind |-> kind]

DoSync ==
    LET o == Allocate("callback") IN
    /\ Running /\ gens < MaxObjects
    /\ TakeObjId
    /\ gens' = gens + 1
    /\ AddEventHandler(o)
    /\ IF raised' = {} THEN Send("sync", o) ELSE UNCHANGED requests
    /\ UNCHANGED <<proxies, failed, calls, serverVars, events>>

\* bind, get_data_device, create_data_source, get_idle_notifier, create_pool,
\* create_buffer: a new id, its handler and the request that names it.
Create(kind) ==
    LET o == Allocate(kind) IN
    /\ Running /\ gens < MaxObjects
    /\ kind \in {"keep", "forget"}
    /\ TakeObjId
    /\ gens' = gens + 1
    /\ AddEventHandler(o)
    /\ IF raised' = {}
       THEN Send("create", o) /\ proxies' = proxies \cup {o}
       ELSE UNCHANGED <<requests, proxies>>
    /\ UNCHANGED <<failed, calls, serverVars, events>>

\* The same calls, when the arguments cannot be packed or the socket does not take
\* the descriptor: the exception goes to the application, which may go on.  The id
\* has been taken and the handler is installed, but the compositor is not told.
CreateFails(kind) ==
    LET o == Allocate(kind) IN
    /\ Running /\ gens < MaxObjects
    /\ kind \in {"keep", "forget"}
    /\ TakeObjId
    /\ gens' = gens + 1
    /\ AddEventHandler(o)
    /\ failed' = failed \cup {o}
    /\ UNCHANGED <<proxies, calls, serverVars, requests, events>>

\* create_virtual_keyboard installs no handler.
CreateSilent ==
    LET o == Allocate("silent") IN
    /\ Running /\ gens < MaxObjects
    /\ TakeObjId
    /\ gens' = gens + 1
    /\ Send("create", o)
    /\ proxies' = proxies \cup {o}
    /\ UNCHANGED <<event_handlers, failed, calls, raised, serverVars, events>>

\* Mutants of HandlersAfterDestroy: every destroy removes the handler, or none does.
NoHandlerAfterDestroy(o) == WithoutHandler(o.id)
AllHandlersAfterDestroy(o) == event_handlers

\* What destroy leaves of the handlers, by the kind of the object.
HandlersAfterDestroy(o) ==
    IF o.kind \in {"forget", "remote"} THEN WithoutHandler(o.id) ELSE event_handlers

\* Mutant of Destroy: the id is free for the next object at once.
DestroyAndFree(o) ==
    /\ Running
    /\ o \in proxies
    /\ Send("destroy", o)
    /\ proxies' = proxies \ {o}
    /\ event_handlers' = WithoutHandler(o.id)
    /\ obj_ids_reuse' = IF o.id \in ClientIds THEN Append(obj_ids_reuse, o.id) ELSE obj_ids_reuse
    /\ UNCHANGED <<next_id, failed, calls, raised, serverVars, events, gens>>

\* The application destroys an object it holds.
Destroy(o) ==
    /\ Running
    /\ o \in proxies
    /\ Send("destroy", o)
    /\ proxies' = proxies \ {o}
    /\ event_handlers' = HandlersAfterDestroy(o)
    /\ UNCHANGED <<next_id, obj_ids_reuse, failed, calls, raised, serverVars, events, gens>>

\* The next event, of type t.
Take(t) ==
    /\ Running
    /\ events # <<>>
    /\ Head(events).ev = t
    /\ events' = Tail(events)

\* An event whose handler changes nothing here.
HandleEvent ==
    /\ Take("event")
    /\ Installed(Head(events).obj.id)
    /\ UNCHANGED <<clientVars, serverVars, requests, gens>>

\* closed, cancelled, finished, remove: the handler destroys its object.
HandleFinished ==
    /\ Take("finished")
    /\ \E h \in event_handlers :
         /\ h.id = Head(events).obj.id
         /\ Send("destroy", h)
         /\ proxies' = proxies \ {h}
         /\ event_handlers' = HandlersAfterDestroy(h)
    /\ UNCHANGED <<next_id, obj_ids_reuse, failed, calls, raised, serverVars, gens>>

\* wl_callback.done runs the callback given to do_sync.
HandleDone ==
    /\ Take("done")
    /\ \E h \in event_handlers :
         /\ h.id = Head(events).obj.id
         /\ calls' = Append(calls, h)
    /\ UNCHANGED <<next_id, obj_ids_reuse, event_handlers, proxies, failed, raised,
                   serverVars, requests, gens>>

\* _handle_event finds no handler.
HandleUnknown ==
    \E t \in {"event", "finished", "done"} :
        /\ Take(t)
        /\ ~Installed(Head(events).obj.id)
        /\ Raise("invalid", Head(events).obj)
        /\ UNCHANGED <<next_id, obj_ids_reuse, event_handlers, proxies, failed, calls,
                       serverVars, requests, gens>>

\* Mutant of FreeObjId: an id without a handler is not kept.
FreeHandledObjId(id) ==
    /\ event_handlers' = WithoutHandler(id)
    /\ obj_ids_reuse' = IF Installed(id) THEN Append(obj_ids_reuse, id) ELSE obj_ids_reuse

\* on_delete_id: free_obj_id drops the handler, if there is one, and keeps the
\* id for the next object.
FreeObjId(id) ==
    /\ event_handlers' = WithoutHandler(id)
    /\ obj_ids_reuse' = Append(obj_ids_reuse, id)

\* Mutant of HandleDeleteId: the wrong word of the message is taken for the id.
HandleDeleteZero ==
    /\ Take("delete_id")
    /\ FreeObjId(0)
    /\ UNCHANGED <<next_id, proxies, failed, calls, raised, serverVars, requests, gens>>

HandleDeleteId ==
    /\ Take("delete_id")
    /\ FreeObjId(Head(events).obj.id)
    /\ UNCHANGED <<next_id, proxies, failed, calls, raised, serverVars, requests, gens>>

\* The compositor announces an object it made (on_new_toplevel, on_data_offer,
\* on_workspace, _on_workspace_group).
HandleNew ==
    /\ Take("new")
    /\ AddEventHandler(Head(events).obj)
    /\ proxies' = IF raised' = {} THEN proxies \cup {Head(events).obj} ELSE proxies
    /\ UNCHANGED <<next_id, obj_ids_reuse, failed, calls, serverVars, requests, gens>>

Dispatch ==
    \/ HandleEvent
    \/ HandleFinished
    \/ HandleDone
    \/ HandleUnknown
    \/ HandleDeleteId
    \/ HandleNew

Call ==
    \/ DoSync
    \/ \E kind \in Kinds \cap {"keep", "forget"} : Create(kind) \/ CreateFails(kind)
    \/ "silent" \in Kinds /\ CreateSilent
    \/ \E o \in proxies : Destroy(o)

-----------------------------------------------------------------------------
\* The compositor.  A new id must be free, and the next one after those it has
\* been told of; a destroy must name an object there is.  It closes its books on
\* a client it has to reject.
Live(id) == \E r \in resources : r.id = id
Acceptable(r) ==
    IF r.op = "destroy" THEN r.obj \in resources
    ELSE ~Live(r.obj.id) /\ r.obj.id <= highest + 1
Learn(id) == highest' = IF id > highest THEN id ELSE highest

TakeRequest(op) ==
    /\ ~rejected
    /\ requests # <<>>
    /\ Head(requests).op = op
    /\ Acceptable(Head(requests))
    /\ requests' = Tail(requests)

ServeCreate ==
    LET o == Head(requests).obj IN
    /\ TakeRequest("create")
    /\ resources' = resources \cup {o}
    /\ Learn(o.id)
    /\ UNCHANGED <<clientVars, events, ended, rejected, nevents, gens>>

ServeSync ==
    LET o == Head(requests).obj IN
    /\ TakeRequest("sync")
    /\ events' = Append(Append(events, [ev |-> "done", obj |-> o]),
                        [ev |-> "delete_id", obj |-> o])
    /\ Learn(o.id)
    /\ UNCHANGED <<clientVars, resources, ended, rejected, nevents, gens>>

\* An id of the client's range is given back with delete_id, one of the
\* compositor's own is free at once.
ServeDestroy ==
    LET o == Head(requests).obj IN
    /\ TakeRequest("destroy")
    /\ resources' = resources \ {o}
    /\ ended' = ended \ {o}
    /\ events' = IF o.id \in ClientIds
                 THEN Append(events, [ev |-> "delete_id", obj |-> o])
                 ELSE events
    /\ UNCHANGED <<clientVars, highest, rejected, nevents, gens>>

Reject ==
    /\ ~rejected
    /\ requests # <<>>
    /\ ~Acceptable(Head(requests))
    /\ rejected' = TRUE
    /\ UNCHANGED <<clientVars, resources, ended, highest, nevents, requests, events, gens>>

SendEvent(o) ==
    /\ ~rejected /\ nevents < MaxEvents
    /\ o \in resources \ ended
    /\ o.kind # "silent"
    /\ events' = Append(events, [ev |-> "event", obj |-> o])
    /\ nevents' = nevents + 1
    /\ UNCHANGED <<clientVars, resources, ended, highest, rejected, requests, gens>>

SendFinished(o) ==
    /\ ~rejected
    /\ o \in resources \ ended
    /\ o.kind \in {"forget", "remote"}
    /\ events' = Append(events, [ev |-> "finished", obj |-> o])
    /\ ended' = ended \cup {o}
    /\ UNCHANGED <<clientVars, resources, highest, rejected, nevents, requests, gens>>

SendNew(id, kind) ==
    LET o == [id |-> id, gen |-> gens + 1, kind |-> kind] IN
    /\ ~rejected /\ gens < MaxObjects
    /\ ~Live(id)
    /\ gens' = gens + 1
    /\ resources' = resources \cup {o}
    /\ events' = Append(events, [ev |-> "new", obj |-> o])
    /\ UNCHANGED <<clientVars, ended, highest, rejected, nevents, requests>>

Serve == ServeCreate \/ ServeSync \/ ServeDestroy \/ Reject

Announce ==
    \/ \E o \in resources : SendEvent(o) \/ SendFinished(o)
    \/ \E id \in RemoteIds, kind \in Kinds \cap RemoteKinds : SendNew(id, kind)

-----------------------------------------------------------------------------
Next == Call \/ Dispatch \/ Serve \/ Announce

Spec == Init /\ [][Next]_vars

\* The event loop reads what is there, and the compositor serves its clients.
FairSpec == Spec /\ WF_vars(Dispatch) /\ WF_vars(Serve)

-----------------------------------------------------------------------------
\* An id is leased to one object at a time.
Opening == [op : {"create", "sync"}, obj : LocalObject]
Deleting == [ev : {"delete_id"}, obj : LocalObject]

\* The objects of the messages in queue q that are among the messages M.
Named(q, M) == {q[k].obj : k \in {j \in DOMAIN q : q[j] \in M}}
Requested == Named(requests, Opening)
Deleted == Named(events, Deleting)
LocalResources == {r \in resources : r.id \in ClientIds}

Lease == INSTANCE ObjectLease WITH
             Objects <- Object,
             First <- [opening |-> {Registry, InitialSync}, open |-> {Display}],
             opening <- Requested, open <- LocalResources, closing <- Deleted

\* The id handshake of get_new_obj_id, free_obj_id and delete_id implements the
\* lease: no id is handed out while either side still holds an object under it.
LeaseSpec == Lease!Spec

\* The compositor never has to reject a request: no new_id names an object it
\* still has or skips an id, no destroy names an object it does not have.  Only
\* the id of a creation that failed is skipped, by the requests that follow it.
NeverRejected ==
    rejected =>
        /\ Head(requests).op # "destroy" /\ ~Live(Head(requests).obj.id)
        /\ \E o \in failed : o.id = highest + 1

\* The event handled next is never given to the handler of another object that
\* has, or had, the same id (_handle_event looks handlers up by id alone).
NoMisrouting ==
    Running /\ events # <<>> /\ Head(events).ev \in {"event", "finished", "done"} =>
        \A h \in event_handlers : h.id = Head(events).obj.id => h = Head(events).obj

\* Groups that destroy() has left in the table.
LeftGroups == {h \in event_handlers : h.kind = "group" /\ h \notin proxies}

\* Once everything in flight has arrived the two tables agree: no handler is
\* left for an object that is gone, except those of groups, none for one that never
\* was, except where its creation failed, and no live object lacks its handler.
TablesAgree ==
    Running /\ ~rejected /\ requests = <<>> /\ events = <<>> =>
        event_handlers = {r \in resources : r.kind # "silent"} \cup LeftGroups \cup failed

\* The loop is left by an exception in two cases only: an event comes for an
\* object whose destroy() has removed the handler while it was on its way, or a
\* new object has the id of a group that destroy() has left in the table.
RaisesExplained ==
    \A r \in raised :
        \/ r.why = "invalid" /\ r.obj.kind \in {"forget", "remote"} /\ r.obj \notin proxies
        \/ r.why = "installed" /\ \E h \in LeftGroups : h.id = r.obj.id

\* Sync callbacks run once each and in the order of the do_sync calls.
SyncOrder ==
    \A j, k \in DOMAIN calls : j < k => calls[j].gen < calls[k].gen

\* The sync of object number g is answered by its callback.
SyncAnswered(g) ==
    (\E k \in DOMAIN requests : requests[k].op = "sync" /\ requests[k].obj.gen = g)
        ~> (raised # {} \/ rejected \/ \E k \in DOMAIN calls : calls[k].gen = g)

\* The id of destroyed object number g comes back to the client: it waits in the
\* reuse list or has been handed out to a later object.
IdReturns(id, g) ==
    (\E k \in DOMAIN requests :
         requests[k].op = "destroy" /\ requests[k].obj.id = id /\ requests[k].obj.gen = g)
        ~> \/ raised # {} \/ rejected
           \/ \E k \in DOMAIN obj_ids_reuse : obj_ids_reuse[k] = id
           \/ \E p \in event_handlers \cup proxies : p.id = id /\ p.gen > g

\* What the client asked for comes back, unless an exception or the compositor ends
\* the connection: each do_sync gets its callback, in their order, each destroyed
\* object's id is free again.
RepliesCome ==
    /\ []SyncOrder
    /\ \A g \in 1..MaxObjects :
         SyncAnswered(g) /\ \A id \in 3..MaxId : g >= 3 => IdReturns(id, g)
=============================================================================
