-------------------------- MODULE ConnectionProofs --------------------------
(***************************************************************************)
(* Proofs about Connection: type correctness, and that the id handshake    *)
(* implements ObjectLease.  The inductive invariant accounts for every id  *)
(* the counter has given out: it waits in the reuse list, or is leased to  *)
(* one object in one phase, or was lost with a call that raised.           *)
(***************************************************************************)
EXTENDS Connection, SequenceTheorems, TLAPS

USE DEF LocalKinds, RemoteKinds, Obj, LocalObject, RemoteObject, Object

LEMMA AllocatedTyped ==
    ASSUME TypeOK, gens < MaxObjects, TakeObjId,
           NEW kind \in LocalKinds \cup {"callback"}
    PROVE  /\ Allocate(kind) \in LocalObject
           /\ Allocate(kind) \in Object /\ Allocate(kind).kind = kind
           /\ next_id' \in 4..(MaxId + 1)
           /\ obj_ids_reuse' \in Seq(ClientIds)
           /\ gens + 1 \in 2..MaxObjects
<1>1. CASE obj_ids_reuse # <<>> /\ obj_ids_reuse' = Tail(obj_ids_reuse) /\ UNCHANGED next_id
  <2>1. Head(obj_ids_reuse) \in ClientIds /\ Tail(obj_ids_reuse) \in Seq(ClientIds)
    BY <1>1, HeadTailProperties DEF TypeOK
  <2> QED
    BY <1>1, <2>1, BoundAssumption, IdAssumption DEF TypeOK, Allocate, NewObjId, Object
<1>2. CASE obj_ids_reuse = <<>> /\ next_id <= MaxId /\ next_id' = next_id + 1 /\ UNCHANGED obj_ids_reuse
  BY <1>2, BoundAssumption, IdAssumption DEF TypeOK, Allocate, NewObjId, Object, ClientIds
<1> QED
  BY <1>1, <1>2 DEF TakeObjId

LEMMA CreateTyped ==
    ASSUME TypeOK, NEW op \in {"create", "sync"}, NEW o \in LocalObject, Send(op, o),
           op = "sync" <=> o.kind = "callback"
    PROVE  requests' \in Seq(Request)
<1>1. [op |-> op, obj |-> o] \in Request
  BY DEF Request
<1> QED
  BY <1>1, AppendProperties DEF Send, TypeOK

LEMMA DestroyTyped ==
    ASSUME TypeOK, NEW o \in Object, Send("destroy", o)
    PROVE  requests' \in Seq(Request)
<1>1. [op |-> "destroy", obj |-> o] \in Request
  BY DEF Request
<1> QED
  BY <1>1, AppendProperties DEF Send, TypeOK

LEMMA TakeTyped ==
    ASSUME TypeOK, NEW t, Take(t)
    PROVE  Head(events) \in Event /\ events' \in Seq(Event)
BY HeadTailProperties DEF Take, TypeOK

LEMMA AddEventHandlerTyped ==
    ASSUME TypeOK, NEW o \in Object, AddEventHandler(o)
    PROVE  /\ event_handlers' \subseteq Object
           /\ raised' \subseteq [why : {"installed", "invalid"}, obj : Object]
BY DEF AddEventHandler, TypeOK, Raise

LEMMA TakeRequestTyped ==
    ASSUME TypeOK, NEW op, TakeRequest(op)
    PROVE  Head(requests) \in Request /\ requests' \in Seq(Request)
BY HeadTailProperties DEF TakeRequest, TypeOK

LEMMA InitTyped == Init => TypeOK
<1> SUFFICES ASSUME Init PROVE TypeOK
  OBVIOUS
<1>1. {Display, Registry, InitialSync} \subseteq LocalObject /\ LocalObject \subseteq Object
  BY IdAssumption, BoundAssumption DEF Display, Registry, InitialSync, ClientIds
<1>2. [op |-> "create", obj |-> Registry] \in Request /\ [op |-> "sync", obj |-> InitialSync] \in Request
  BY <1>1 DEF Request, Registry, InitialSync
<1>3. requests \in Seq(Request)
  BY <1>2 DEF Init
<1>4. event_handlers \subseteq Object /\ resources \subseteq Object
  BY <1>1 DEF Init
<1>5. obj_ids_reuse \in Seq(ClientIds) /\ calls \in Seq(Object) /\ events \in Seq(Event)
  BY DEF Init
<1>6. next_id \in 4..(MaxId + 1) /\ gens \in 2..MaxObjects /\ nevents \in 0..MaxEvents
          /\ highest \in ClientIds
  BY IdAssumption, BoundAssumption DEF Init, ClientIds
<1> QED
  BY <1>3, <1>4, <1>5, <1>6 DEF Init, TypeOK

LEMMA TypeInvariant == TypeOK /\ [Next]_vars => TypeOK'
<1> SUFFICES ASSUME TypeOK, [Next]_vars PROVE TypeOK'
  OBVIOUS
<1> USE DEF clientVars, serverVars
<1>1. CASE DoSync
  <2> DEFINE o == Allocate("callback")
  <2>1. o \in LocalObject /\ o \in Object /\ o.kind = "callback" /\ next_id' \in 4..(MaxId + 1)
          /\ obj_ids_reuse' \in Seq(ClientIds) /\ gens + 1 \in 2..MaxObjects
    BY <1>1, AllocatedTyped DEF DoSync
  <2>2. event_handlers' \subseteq Object
          /\ raised' \subseteq [why : {"installed", "invalid"}, obj : Object]
    BY <1>1, <2>1, AddEventHandlerTyped DEF DoSync
  <2>3. requests' \in Seq(Request)
    BY <1>1, <2>1, CreateTyped DEF DoSync, TypeOK
  <2> QED
    BY <1>1, <2>1, <2>2, <2>3 DEF DoSync, TypeOK
<1>2. ASSUME NEW kind \in Kinds, Create(kind) PROVE TypeOK'
  <2> DEFINE o == Allocate(kind)
  <2>1. o \in LocalObject /\ o \in Object /\ o.kind = kind /\ next_id' \in 4..(MaxId + 1)
          /\ obj_ids_reuse' \in Seq(ClientIds) /\ gens + 1 \in 2..MaxObjects
    BY <1>2, AllocatedTyped DEF Create
  <2>2. event_handlers' \subseteq Object
          /\ raised' \subseteq [why : {"installed", "invalid"}, obj : Object]
    BY <1>2, <2>1, AddEventHandlerTyped DEF Create
  <2>3. requests' \in Seq(Request) /\ proxies' \subseteq Object
    BY <1>2, <2>1, CreateTyped DEF Create, TypeOK
  <2> QED
    BY <1>2, <2>1, <2>2, <2>3 DEF Create, TypeOK
<1>3. ASSUME NEW kind \in Kinds, CreateFails(kind) PROVE TypeOK'
  <2> DEFINE o == Allocate(kind)
  <2>1. o \in LocalObject /\ o \in Object /\ o.kind = kind /\ next_id' \in 4..(MaxId + 1)
          /\ obj_ids_reuse' \in Seq(ClientIds) /\ gens + 1 \in 2..MaxObjects
    BY <1>3, AllocatedTyped DEF CreateFails
  <2>2. event_handlers' \subseteq Object
          /\ raised' \subseteq [why : {"installed", "invalid"}, obj : Object]
    BY <1>3, <2>1, AddEventHandlerTyped DEF CreateFails
  <2> QED
    BY <1>3, <2>1, <2>2 DEF CreateFails, TypeOK
<1>4. CASE CreateSilent
  <2> DEFINE o == Allocate("silent")
  <2>1. o \in LocalObject /\ o \in Object /\ o.kind = "silent" /\ next_id' \in 4..(MaxId + 1)
          /\ obj_ids_reuse' \in Seq(ClientIds) /\ gens + 1 \in 2..MaxObjects
    BY <1>4, AllocatedTyped DEF CreateSilent
  <2>2. requests' \in Seq(Request) /\ proxies' \subseteq Object
    BY <1>4, <2>1, CreateTyped DEF CreateSilent, TypeOK
  <2> QED
    BY <1>4, <2>1, <2>2 DEF CreateSilent, TypeOK
<1>5. ASSUME NEW o \in proxies, Destroy(o) PROVE TypeOK'
  <2>1. o \in Object /\ requests' \in Seq(Request)
    BY <1>5, DestroyTyped DEF Destroy, TypeOK
  <2> QED
    BY <1>5, <2>1 DEF Destroy, TypeOK, HandlersAfterDestroy, WithoutHandler
<1>6. CASE HandleEvent
  BY <1>6, TakeTyped DEF HandleEvent, TypeOK
<1>7. CASE HandleFinished
  <2>1. PICK h \in event_handlers :
          /\ Send("destroy", h)
          /\ proxies' = proxies \ {h}
          /\ event_handlers' = HandlersAfterDestroy(h)
    BY <1>7 DEF HandleFinished
  <2>2. requests' \in Seq(Request)
    BY <2>1, DestroyTyped DEF TypeOK
  <2>3. events' \in Seq(Event)
    BY <1>7, TakeTyped DEF HandleFinished
  <2> QED
    BY <1>7, <2>1, <2>2, <2>3 DEF HandleFinished, TypeOK, HandlersAfterDestroy, WithoutHandler
<1>8. CASE HandleDone
  <2>1. PICK h \in event_handlers : calls' = Append(calls, h)
    BY <1>8 DEF HandleDone
  <2>2. events' \in Seq(Event)
    BY <1>8, TakeTyped DEF HandleDone
  <2> QED
    BY <1>8, <2>1, <2>2 DEF HandleDone, TypeOK
<1>9. CASE HandleUnknown
  <2>1. PICK t \in {"event", "finished", "done"} : Take(t) /\ Raise("invalid", Head(events).obj)
    BY <1>9 DEF HandleUnknown
  <2>2. Head(events) \in Event /\ events' \in Seq(Event)
    BY <2>1, TakeTyped
  <2> QED
    BY <1>9, <2>1, <2>2 DEF HandleUnknown, TypeOK, Raise, Event
<1>10. CASE HandleDeleteId
  <2>1. Head(events) \in Event /\ events' \in Seq(Event) /\ Head(events).ev = "delete_id"
    BY <1>10, TakeTyped DEF HandleDeleteId, Take
  <2>2. Head(events).obj.id \in ClientIds
    BY <2>1 DEF Event
  <2>3. obj_ids_reuse' \in Seq(ClientIds)
    BY <1>10, <2>2, AppendProperties DEF HandleDeleteId, FreeObjId, TypeOK
  <2> QED
    BY <1>10, <2>1, <2>3 DEF HandleDeleteId, FreeObjId, WithoutHandler, TypeOK
<1>11. CASE HandleNew
  <2>1. Head(events).obj \in Object /\ events' \in Seq(Event)
    BY <1>11, TakeTyped DEF HandleNew, Event
  <2>2. event_handlers' \subseteq Object
          /\ raised' \subseteq [why : {"installed", "invalid"}, obj : Object]
    BY <1>11, <2>1, AddEventHandlerTyped DEF HandleNew
  <2> QED
    BY <1>11, <2>1, <2>2 DEF HandleNew, TypeOK
<1>12. CASE ServeCreate
  <2>1. Head(requests).obj \in LocalObject /\ requests' \in Seq(Request)
    BY <1>12, TakeRequestTyped DEF ServeCreate, Request, TakeRequest
  <2>2. highest' \in ClientIds
    BY <1>12, <2>1 DEF ServeCreate, Learn, TypeOK
  <2> QED
    BY <1>12, <2>1, <2>2 DEF ServeCreate, TypeOK
<1>13. CASE ServeSync
  <2> DEFINE o == Head(requests).obj
  <2>1. o \in Obj(ClientIds, {"callback"}) /\ requests' \in Seq(Request)
    BY <1>13, TakeRequestTyped DEF ServeSync, Request, TakeRequest
  <2>2. [ev |-> "done", obj |-> o] \in Event /\ [ev |-> "delete_id", obj |-> o] \in Event
    BY <2>1 DEF Event
  <2>3. Append(events, [ev |-> "done", obj |-> o]) \in Seq(Event)
    BY <2>2, AppendProperties DEF TypeOK
  <2>4. events' \in Seq(Event)
    BY <1>13, <2>2, <2>3, AppendProperties DEF ServeSync, TypeOK
  <2>5. highest' \in ClientIds
    BY <1>13, <2>1 DEF ServeSync, Learn, TypeOK
  <2> QED
    BY <1>13, <2>1, <2>4, <2>5 DEF ServeSync, TypeOK
<1>14. CASE ServeDestroy
  <2>1. Head(requests).obj \in Object /\ requests' \in Seq(Request)
    BY <1>14, TakeRequestTyped DEF ServeDestroy, Request
  <2>2. events' \in Seq(Event)
    <3>1. CASE Head(requests).obj.id \in ClientIds
      <4>1. Head(requests).obj \in LocalObject
        BY <2>1, <3>1, IdAssumption DEF ClientIds
      <4>2. [ev |-> "delete_id", obj |-> Head(requests).obj] \in Event
        BY <4>1 DEF Event
      <4> QED
        BY <1>14, <3>1, <4>2, AppendProperties DEF ServeDestroy, TypeOK
    <3> QED
      BY <1>14, <3>1 DEF ServeDestroy, TypeOK
  <2> QED
    BY <1>14, <2>1, <2>2 DEF ServeDestroy, TypeOK
<1>15. ASSUME NEW o \in resources, SendEvent(o) PROVE TypeOK'
  <2>1. o \in Object /\ o.kind # "silent"
    BY <1>15 DEF SendEvent, TypeOK
  <2>2. [ev |-> "event", obj |-> o] \in Event
    BY <2>1 DEF Event
  <2> QED
    BY <1>15, <2>2, BoundAssumption DEF SendEvent, TypeOK
<1>16. ASSUME NEW o \in resources, SendFinished(o) PROVE TypeOK'
  BY <1>16 DEF SendFinished, TypeOK, Event
<1>17. ASSUME NEW id \in RemoteIds, NEW kind \in Kinds \cap RemoteKinds, SendNew(id, kind)
       PROVE TypeOK'
  <2> DEFINE o == [id |-> id, gen |-> gens + 1, kind |-> kind]
  <2>1. o \in Object /\ gens + 1 \in 2..MaxObjects
    BY <1>17, BoundAssumption DEF SendNew, TypeOK, Object
  <2>2. events' \in Seq(Event)
    BY <1>17, <2>1 DEF SendNew, TypeOK, Event
  <2> QED
    BY <1>17, <2>1, <2>2 DEF SendNew, TypeOK
<1>18. CASE Reject
  BY <1>18 DEF Reject, TypeOK
<1>19. CASE UNCHANGED vars
  BY <1>19 DEF vars, TypeOK
<1> QED
  BY <1>1, <1>2, <1>3, <1>4, <1>5, <1>6, <1>7, <1>8, <1>9, <1>10, <1>11, <1>12, <1>13,
     <1>14, <1>15, <1>16, <1>17, <1>18, <1>19 DEF Next, Call, Dispatch, Serve, Announce

\* The tables and queues hold objects, ids of the client's own range are the only
\* ones that are reused, and the counter never leaves that range.
THEOREM TypeCorrect == Spec => []TypeOK
<1>1. Init => TypeOK
  BY InitTyped
<1>2. TypeOK /\ [Next]_vars => TypeOK'
  BY TypeInvariant
<1> QED
  BY <1>1, <1>2, PTL DEF Spec

-----------------------------------------------------------------------------
\* No two messages of M in the queue q are about the same id.
DistinctIds(q, M) ==
    \A j, k \in DOMAIN q :
        q[j] \in M /\ q[k] \in M /\ q[j].obj.id = q[k].obj.id => j = k

LeasedObjects == Requested \cup LocalResources \cup Deleted

ReuseDistinct ==
    \A j, k \in DOMAIN obj_ids_reuse : obj_ids_reuse[j] = obj_ids_reuse[k] => j = k

ReuseFree ==
    \A k \in DOMAIN obj_ids_reuse :
        /\ obj_ids_reuse[k] < next_id
        /\ \A o \in LeasedObjects : o.id # obj_ids_reuse[k]

LeasedOnce ==
    /\ \A o \in LeasedObjects : o.id < next_id
    /\ \A o, p \in LocalResources : o.id = p.id => o = p
    /\ \A o \in Requested, p \in LocalResources \cup Deleted : o.id # p.id
    /\ \A o \in LocalResources, p \in Deleted : o.id # p.id

LeaseInv ==
    /\ DistinctIds(requests, Opening)
    /\ DistinctIds(events, Deleting)
    /\ ReuseDistinct
    /\ ReuseFree
    /\ LeasedOnce

-----------------------------------------------------------------------------
\* What a queue names after a message is added at its end or taken from its front.
LEMMA NamedAppend ==
    ASSUME NEW T, NEW q \in Seq(T), NEW m \in T, NEW M
    PROVE  /\ m \in M => Named(Append(q, m), M) = Named(q, M) \cup {m.obj}
           /\ m \notin M => Named(Append(q, m), M) = Named(q, M)
BY AppendProperties DEF Named

LEMMA NamedTail ==
    ASSUME NEW T, NEW q \in Seq(T), q # <<>>, NEW M
    PROVE  /\ Head(q) \in M => Named(q, M) = Named(Tail(q), M) \cup {Head(q).obj}
           /\ Head(q) \notin M => Named(q, M) = Named(Tail(q), M)
<1>1. /\ Len(q) \in Nat \ {0} /\ Head(q) = q[1] /\ DOMAIN q = 1..Len(q)
      /\ DOMAIN Tail(q) = 1..(Len(q) - 1)
      /\ \A k \in 1..(Len(q) - 1) : Tail(q)[k] = q[k + 1]
  BY HeadTailProperties, EmptySeq, LenProperties
<1>2. Named(q, M) \subseteq Named(Tail(q), M) \cup (IF Head(q) \in M THEN {Head(q).obj} ELSE {})
  <2> SUFFICES ASSUME NEW k \in 1..Len(q), q[k] \in M, k # 1
               PROVE  q[k].obj \in Named(Tail(q), M)
    BY <1>1 DEF Named
  <2>1. k - 1 \in DOMAIN Tail(q) /\ Tail(q)[k - 1] = q[k]
    BY <1>1
  <2> QED
    BY <2>1 DEF Named
<1>3. Named(Tail(q), M) \subseteq Named(q, M)
  <2> SUFFICES ASSUME NEW k \in 1..(Len(q) - 1), q[k + 1] \in M
               PROVE  q[k + 1].obj \in Named(q, M)
    BY <1>1 DEF Named
  <2> QED
    BY <1>1 DEF Named
<1>4. Head(q) \in M => Head(q).obj \in Named(q, M)
  BY <1>1 DEF Named
<1> QED
  BY <1>2, <1>3, <1>4

LEMMA DistinctAppend ==
    ASSUME NEW T, NEW q \in Seq(T), NEW m \in T, NEW M, DistinctIds(q, M),
           m \in M => \A o \in Named(q, M) : o.id # m.obj.id
    PROVE  DistinctIds(Append(q, m), M)
<1>1. /\ DOMAIN q = 1..Len(q) /\ Len(q) \in Nat
      /\ DOMAIN Append(q, m) = 1..(Len(q) + 1)
      /\ Append(q, m)[Len(q) + 1] = m
      /\ \A k \in 1..Len(q) : Append(q, m)[k] = q[k]
  BY AppendProperties, LenProperties
<1>2. \A k \in 1..Len(q) : m \in M /\ q[k] \in M => q[k].obj.id # m.obj.id
  BY <1>1 DEF Named
<1> QED
  BY <1>1, <1>2 DEF DistinctIds

LEMMA DistinctTail ==
    ASSUME NEW T, NEW q \in Seq(T), q # <<>>, NEW M, DistinctIds(q, M)
    PROVE  /\ DistinctIds(Tail(q), M)
           /\ Head(q) \in M => \A o \in Named(Tail(q), M) : o.id # Head(q).obj.id
<1>1. /\ Len(q) \in Nat \ {0} /\ Head(q) = q[1] /\ DOMAIN q = 1..Len(q)
      /\ DOMAIN Tail(q) = 1..(Len(q) - 1)
      /\ \A k \in 1..(Len(q) - 1) : Tail(q)[k] = q[k + 1]
  BY HeadTailProperties, EmptySeq, LenProperties
<1>2. DistinctIds(Tail(q), M)
  <2> SUFFICES ASSUME NEW j \in 1..(Len(q) - 1), NEW k \in 1..(Len(q) - 1),
                      q[j + 1] \in M, q[k + 1] \in M, q[j + 1].obj.id = q[k + 1].obj.id
               PROVE  j = k
    BY <1>1 DEF DistinctIds
  <2>1. j + 1 \in DOMAIN q /\ k + 1 \in DOMAIN q
    BY <1>1
  <2>2. j + 1 = k + 1
    BY <2>1 DEF DistinctIds
  <2> QED
    BY <2>2
<1>3. ASSUME Head(q) \in M, NEW k \in 1..(Len(q) - 1), q[k + 1] \in M
      PROVE  q[k + 1].obj.id # Head(q).obj.id
  <2>1. 1 \in DOMAIN q /\ k + 1 \in DOMAIN q /\ k + 1 # 1
    BY <1>1
  <2> QED
    BY <1>1, <1>3, <2>1 DEF DistinctIds
<1> QED
  BY <1>1, <1>2, <1>3 DEF Named

-----------------------------------------------------------------------------
\* What the next state's queues name.
LEMMA NextNames ==
    /\ Requested' = Named(requests', Opening)
    /\ Deleted' = Named(events', Deleting)
BY DEF Requested, Deleted, Named, Opening, Deleting, LocalObject, Obj, ClientIds

leased == <<Requested, LocalResources, Deleted>>
ids == <<next_id, obj_ids_reuse>>

\* The invariant looks at the ids, at what the queues name and at the client's
\* live objects only.
LEMMA LeaseInvFrame ==
    ASSUME LeaseInv, UNCHANGED ids, UNCHANGED leased,
           DistinctIds(requests', Opening), DistinctIds(events', Deleting)
    PROVE  LeaseInv'
BY DEF LeaseInv, ReuseDistinct, ReuseFree, LeasedOnce, LeasedObjects, leased, ids, DistinctIds

\* Messages that neither open nor give back an id.
LEMMA OtherRequest ==
    ASSUME TypeOK, LeaseInv, NEW m \in Request, m \notin Opening, requests' = Append(requests, m)
    PROVE  Requested' = Requested /\ DistinctIds(requests', Opening)
<1>1. requests \in Seq(Request) /\ DistinctIds(requests, Opening)
  BY DEF TypeOK, LeaseInv
<1>2. Named(requests', Opening) = Named(requests, Opening)
  BY <1>1, NamedAppend
<1>3. DistinctIds(requests', Opening)
  BY <1>1, DistinctAppend
<1> QED
  BY <1>2, <1>3, NextNames DEF Requested

LEMMA OtherEvent ==
    ASSUME TypeOK, LeaseInv, NEW m \in Event, m \notin Deleting, events' = Append(events, m)
    PROVE  Deleted' = Deleted /\ DistinctIds(events', Deleting)
<1>1. events \in Seq(Event) /\ DistinctIds(events, Deleting)
  BY DEF TypeOK, LeaseInv
<1>2. Named(events', Deleting) = Named(events, Deleting)
  BY <1>1, NamedAppend
<1>3. DistinctIds(events', Deleting)
  BY <1>1, DistinctAppend
<1> QED
  BY <1>2, <1>3, NextNames DEF Deleted

LEMMA OtherTaken ==
    ASSUME TypeOK, LeaseInv, NEW t, t # "delete_id", Take(t)
    PROVE  Deleted' = Deleted /\ DistinctIds(events', Deleting)
<1>1. Head(events) \notin Deleting
  BY DEF Take, Deleting
<1>2. events \in Seq(Event) /\ events # <<>> /\ DistinctIds(events, Deleting) /\ events' = Tail(events)
  BY DEF Take, TypeOK, LeaseInv
<1>3. Named(events', Deleting) = Named(events, Deleting)
  BY <1>1, <1>2, NamedTail
<1>4. DistinctIds(events', Deleting)
  BY <1>2, DistinctTail
<1> QED
  BY <1>3, <1>4, NextNames DEF Deleted

\* The id get_new_obj_id returns is nobody's, and stays out of the reuse list.
LEMMA Taken ==
    ASSUME TypeOK, LeaseInv, TakeObjId
    PROVE  /\ NewObjId \in ClientIds /\ NewObjId < next_id'
           /\ next_id <= next_id' /\ next_id' \in Nat
           /\ \A o \in LeasedObjects : o.id # NewObjId
           /\ \A k \in DOMAIN obj_ids_reuse' :
                 /\ obj_ids_reuse'[k] # NewObjId
                 /\ \E j \in DOMAIN obj_ids_reuse : obj_ids_reuse'[k] = obj_ids_reuse[j]
           /\ ReuseDistinct'
<1>1. CASE obj_ids_reuse # <<>> /\ obj_ids_reuse' = Tail(obj_ids_reuse) /\ UNCHANGED next_id
  <2> DEFINE q == obj_ids_reuse
  <2>1. /\ Len(q) \in Nat \ {0} /\ NewObjId = q[1] /\ DOMAIN q = 1..Len(q)
        /\ DOMAIN obj_ids_reuse' = 1..(Len(q) - 1)
        /\ \A k \in 1..(Len(q) - 1) : obj_ids_reuse'[k] = q[k + 1]
        /\ q[1] \in ClientIds
    BY <1>1, HeadTailProperties, EmptySeq, LenProperties DEF TypeOK, NewObjId
  <2>2. 1 \in DOMAIN q /\ \A k \in 1..(Len(q) - 1) : k + 1 \in DOMAIN q /\ k + 1 # 1
    BY <2>1
  <2>3. \A k \in 1..(Len(q) - 1) : q[k + 1] # q[1]
    BY <2>2 DEF LeaseInv, ReuseDistinct
  <2>4. ReuseDistinct'
    <3> SUFFICES ASSUME NEW j \in 1..(Len(q) - 1), NEW k \in 1..(Len(q) - 1), q[j + 1] = q[k + 1]
                 PROVE  j = k
      BY <2>1 DEF ReuseDistinct
    <3>1. j + 1 = k + 1
      BY <2>2 DEF LeaseInv, ReuseDistinct
    <3> QED
      BY <3>1
  <2>5. q[1] < next_id /\ \A o \in LeasedObjects : o.id # q[1]
    BY <2>2 DEF LeaseInv, ReuseFree
  <2>6. next_id \in Nat /\ next_id' = next_id
    BY <1>1, IdAssumption DEF TypeOK
  <2> QED
    BY <2>1, <2>2, <2>3, <2>4, <2>5, <2>6
<1>2. CASE obj_ids_reuse = <<>> /\ next_id <= MaxId /\ next_id' = next_id + 1 /\ UNCHANGED obj_ids_reuse
  <2>1. NewObjId = next_id /\ next_id \in Nat /\ next_id \in ClientIds
    BY <1>2, IdAssumption DEF TypeOK, NewObjId, ClientIds
  <2>2. \A o \in LeasedObjects : o.id # next_id
    <3> SUFFICES ASSUME NEW o \in LeasedObjects PROVE o.id # next_id
      OBVIOUS
    <3>1. o.id < next_id
      BY DEF LeaseInv, LeasedOnce
    <3> QED
      BY <2>1, <3>1
  <2>3. DOMAIN obj_ids_reuse' = {}
    BY <1>2
  <2> QED
    BY <1>2, <2>1, <2>2, <2>3 DEF ReuseDistinct
<1> QED
  BY <1>1, <1>2 DEF TakeObjId

LEMMA LeasedTyped ==
    ASSUME TypeOK
    PROVE  /\ \A o \in LeasedObjects : o \in LocalObject /\ o \in Object /\ o.id \in Nat
           /\ next_id \in Nat
<1>1. Requested \subseteq LocalObject
  BY DEF Requested, Named, Opening
<1>2. Deleted \subseteq LocalObject
  BY DEF Deleted, Named, Deleting
<1>3. LocalResources \subseteq LocalObject
  BY IdAssumption DEF LocalResources, TypeOK, ClientIds
<1>4. \A o \in LocalObject : o \in Object /\ o.id \in Nat
  BY IdAssumption DEF ClientIds
<1>5. next_id \in Nat
  BY IdAssumption DEF TypeOK
<1> QED
  BY <1>1, <1>2, <1>3, <1>4, <1>5 DEF LeasedObjects

-----------------------------------------------------------------------------
\* The five steps of a lease, as the actions take them.
LEMMA OpenStep ==
    ASSUME TypeOK, LeaseInv, TakeObjId, NEW op \in {"create", "sync"}, NEW o \in LocalObject,
           o.id = NewObjId, op = "sync" <=> o.kind = "callback",
           Send(op, o), UNCHANGED <<events, resources>>
    PROVE  LeaseInv' /\ Lease!Open(o)
<1> DEFINE m == [op |-> op, obj |-> o]
<1>1. requests \in Seq(Request) /\ m \in Request /\ m \in Opening /\ m.obj = o
        /\ requests' = Append(requests, m) /\ DistinctIds(requests, Opening)
  BY DEF TypeOK, LeaseInv, Request, Opening, Send
<1>2. Requested' = Requested \cup {o}
  BY <1>1, NamedAppend, NextNames DEF Requested
<1>3. Deleted' = Deleted /\ LocalResources' = LocalResources
  BY NextNames DEF Deleted, LocalResources, ClientIds
<1>4. \A p \in LeasedObjects : p.id # o.id
  BY Taken
<1>5. DistinctIds(requests', Opening)
  BY <1>1, <1>4, DistinctAppend DEF LeasedObjects, Requested
<1>6. DistinctIds(events', Deleting)
  BY DEF LeaseInv
<1>7. LeasedObjects' = LeasedObjects \cup {o}
  BY <1>2, <1>3 DEF LeasedObjects
<1>8. \A p \in LeasedObjects' : p.id < next_id'
  <2> SUFFICES ASSUME NEW p \in LeasedObjects PROVE p.id < next_id'
    BY <1>7, Taken
  <2>1. p.id < next_id /\ p.id \in Nat /\ next_id \in Nat
    BY LeasedTyped DEF LeaseInv, LeasedOnce
  <2> QED
    BY <2>1, Taken
<1>9. LeasedOnce'
  BY <1>2, <1>3, <1>4, <1>8 DEF LeaseInv, LeasedOnce, LeasedObjects
<1>10. ReuseFree'
  <2> SUFFICES ASSUME NEW k \in DOMAIN obj_ids_reuse'
               PROVE  /\ obj_ids_reuse'[k] < next_id'
                      /\ \A p \in LeasedObjects \cup {o} : p.id # obj_ids_reuse'[k]
    BY <1>7 DEF ReuseFree
  <2>1. PICK j \in DOMAIN obj_ids_reuse : obj_ids_reuse'[k] = obj_ids_reuse[j]
    BY Taken
  <2>2. next_id \in Nat /\ next_id <= next_id' /\ next_id' \in Nat
    BY Taken, IdAssumption DEF TypeOK
  <2>3. obj_ids_reuse[j] \in ClientIds
    BY ElementOfSeq DEF TypeOK
  <2>4. obj_ids_reuse[j] < next_id /\ \A p \in LeasedObjects : p.id # obj_ids_reuse[j]
    BY DEF LeaseInv, ReuseFree
  <2>5. obj_ids_reuse[j] < next_id'
    BY <2>2, <2>3, <2>4, IdAssumption DEF ClientIds
  <2> QED
    BY <2>1, <2>4, <2>5, Taken
<1>11. LeaseInv'
  BY <1>5, <1>6, <1>9, <1>10, Taken DEF LeaseInv, DistinctIds
<1> QED
  BY <1>2, <1>3, <1>4, <1>11 DEF Lease!Open, Lease!Leased, LeasedObjects

\* An id taken by a call that then raises is lost, and leased to nobody.
LEMMA LoseStep ==
    ASSUME TypeOK, LeaseInv, TakeObjId, UNCHANGED <<requests, events, resources>>
    PROVE  LeaseInv' /\ UNCHANGED leased
<1>1. UNCHANGED leased
  BY NextNames DEF leased, Requested, Deleted, LocalResources, ClientIds
<1>2. LeasedObjects' = LeasedObjects
  BY <1>1 DEF LeasedObjects, leased
<1>3. LeasedOnce'
  <2>1. \A p \in LeasedObjects : p.id < next_id'
    <3> SUFFICES ASSUME NEW p \in LeasedObjects PROVE p.id < next_id'
      OBVIOUS
    <3>1. p.id < next_id /\ p.id \in Nat /\ next_id \in Nat
      BY LeasedTyped DEF LeaseInv, LeasedOnce
    <3> QED
      BY <3>1, Taken
  <2> QED
    BY <1>1, <1>2, <2>1 DEF LeaseInv, LeasedOnce, leased
<1>4. ReuseFree'
  <2> SUFFICES ASSUME NEW k \in DOMAIN obj_ids_reuse'
               PROVE  /\ obj_ids_reuse'[k] < next_id'
                      /\ \A p \in LeasedObjects : p.id # obj_ids_reuse'[k]
    BY <1>2 DEF ReuseFree
  <2>1. PICK j \in DOMAIN obj_ids_reuse : obj_ids_reuse'[k] = obj_ids_reuse[j]
    BY Taken
  <2>2. next_id \in Nat /\ next_id <= next_id' /\ next_id' \in Nat
    BY Taken, IdAssumption DEF TypeOK
  <2>3. obj_ids_reuse[j] \in ClientIds
    BY ElementOfSeq DEF TypeOK
  <2>4. obj_ids_reuse[j] < next_id /\ \A p \in LeasedObjects : p.id # obj_ids_reuse[j]
    BY DEF LeaseInv, ReuseFree
  <2>5. obj_ids_reuse[j] < next_id'
    BY <2>2, <2>3, <2>4, IdAssumption DEF ClientIds
  <2> QED
    BY <2>1, <2>4, <2>5, Taken
<1> QED
  BY <1>1, <1>3, <1>4, Taken DEF LeaseInv, DistinctIds

LEMMA AcceptStep ==
    ASSUME TypeOK, LeaseInv, ServeCreate
    PROVE  LeaseInv' /\ Lease!Accept(Head(requests).obj)
<1> DEFINE m == Head(requests)
           o == m.obj
<1>1. requests \in Seq(Request) /\ requests # <<>> /\ requests' = Tail(requests)
        /\ m \in Request /\ m.op = "create" /\ DistinctIds(requests, Opening)
  BY TakeRequestTyped DEF ServeCreate, TakeRequest, TypeOK, LeaseInv
<1>2. m \in Opening /\ o \in LocalObject /\ o.id \in ClientIds
  BY <1>1 DEF Request, Opening
<1>3. Requested = Requested' \cup {o}
  BY <1>1, <1>2, NamedTail, NextNames DEF Requested
<1>4. \A p \in Requested' : p.id # o.id
  BY <1>1, <1>2, DistinctTail, NextNames
<1>5. DistinctIds(requests', Opening)
  BY <1>1, DistinctTail
<1>7. LocalResources' = LocalResources \cup {o}
  BY <1>2 DEF ServeCreate, LocalResources
<1>8. Deleted' = Deleted /\ UNCHANGED ids /\ DistinctIds(events', Deleting)
  BY NextNames DEF ServeCreate, Deleted, clientVars, ids, LeaseInv
<1>9. LeasedObjects' = LeasedObjects
  BY <1>3, <1>7, <1>8 DEF LeasedObjects
<1>10. LeasedOnce'
  BY <1>3, <1>4, <1>7, <1>8, <1>9 DEF LeaseInv, LeasedOnce, ids
<1>11. ReuseFree' /\ ReuseDistinct'
  BY <1>8, <1>9 DEF LeaseInv, ReuseFree, ReuseDistinct, ids
<1>12. LeaseInv'
  BY <1>5, <1>8, <1>10, <1>11 DEF LeaseInv, DistinctIds
<1> QED
  BY <1>3, <1>4, <1>7, <1>8, <1>12 DEF Lease!Accept

LEMMA AnswerStep ==
    ASSUME TypeOK, LeaseInv, ServeSync
    PROVE  LeaseInv' /\ Lease!Answer(Head(requests).obj)
<1> DEFINE m == Head(requests)
           o == m.obj
           done == [ev |-> "done", obj |-> o]
           gone == [ev |-> "delete_id", obj |-> o]
<1>1. requests \in Seq(Request) /\ requests # <<>> /\ requests' = Tail(requests)
        /\ m \in Request /\ m.op = "sync" /\ DistinctIds(requests, Opening)
  BY TakeRequestTyped DEF ServeSync, TakeRequest, TypeOK, LeaseInv
<1>2. m \in Opening /\ o \in LocalObject /\ o.id \in ClientIds /\ o.kind = "callback"
  BY <1>1 DEF Request, Opening
<1>3. Requested = Requested' \cup {o}
  BY <1>1, <1>2, NamedTail, NextNames DEF Requested
<1>4. \A p \in Requested' : p.id # o.id
  BY <1>1, <1>2, DistinctTail, NextNames
<1>5. DistinctIds(requests', Opening)
  BY <1>1, DistinctTail
<1>7. LocalResources' = LocalResources /\ UNCHANGED ids
  BY DEF ServeSync, LocalResources, clientVars, ids, ClientIds
<1> DEFINE evs == Append(events, done)
<1>8. events \in Seq(Event) /\ DistinctIds(events, Deleting) /\ events' = Append(evs, gone)
        /\ done \in Event /\ gone \in Event /\ done \notin Deleting
        /\ gone \in Deleting /\ gone.obj = o
  BY <1>2 DEF ServeSync, TypeOK, LeaseInv, Event, Deleting
<1>9. evs \in Seq(Event) /\ Named(evs, Deleting) = Deleted /\ DistinctIds(evs, Deleting)
  BY <1>8, NamedAppend, DistinctAppend, AppendProperties DEF Deleted
<1>10. \A p \in Deleted : p.id # o.id
  BY <1>3 DEF LeaseInv, LeasedOnce
<1> HIDE DEF evs, gone, done
<1>11. Named(events', Deleting) = Deleted \cup {o}
  BY <1>8, <1>9, NamedAppend
<1>12. Deleted' = Deleted \cup {o}
  BY <1>11, NextNames
<1>13. DistinctIds(events', Deleting)
  BY <1>8, <1>9, <1>10, DistinctAppend
<1>14. LeasedObjects' = LeasedObjects
  BY <1>3, <1>7, <1>12 DEF LeasedObjects
<1>15. LeasedOnce'
  BY <1>3, <1>4, <1>7, <1>12, <1>14 DEF LeaseInv, LeasedOnce, ids
<1>16. ReuseFree' /\ ReuseDistinct'
  BY <1>7, <1>14 DEF LeaseInv, ReuseFree, ReuseDistinct, ids
<1>17. LeaseInv'
  BY <1>5, <1>13, <1>15, <1>16 DEF LeaseInv, DistinctIds
<1> QED
  BY <1>3, <1>4, <1>7, <1>12, <1>17 DEF Lease!Answer

\* A destroy request takes nothing from what the queue opens.
LEMMA DestroyTaken ==
    ASSUME TypeOK, LeaseInv, TakeRequest("destroy")
    PROVE  Requested' = Requested /\ DistinctIds(requests', Opening)
<1>1. Head(requests) \notin Opening
  BY DEF TakeRequest, Opening
<1>2. requests \in Seq(Request) /\ requests # <<>> /\ DistinctIds(requests, Opening)
        /\ requests' = Tail(requests)
  BY DEF TakeRequest, TypeOK, LeaseInv
<1>3. Named(requests', Opening) = Named(requests, Opening)
  BY <1>1, <1>2, NamedTail
<1>4. DistinctIds(requests', Opening)
  BY <1>2, DistinctTail
<1> QED
  BY <1>3, <1>4, NextNames DEF Requested

LEMMA CloseStep ==
    ASSUME TypeOK, LeaseInv, ServeDestroy
    PROVE  LeaseInv' /\ (Lease!Close(Head(requests).obj) \/ UNCHANGED leased)
<1> DEFINE o == Head(requests).obj
           gone == [ev |-> "delete_id", obj |-> o]
<1>1. Requested' = Requested /\ DistinctIds(requests', Opening) /\ UNCHANGED ids
  BY DestroyTaken DEF ServeDestroy, clientVars, ids
<1>2. CASE o.id \in ClientIds
  <2>1. o \in LocalResources /\ LocalResources' = LocalResources \ {o}
    BY <1>2 DEF ServeDestroy, TakeRequest, Acceptable, LocalResources
  <2>2. events \in Seq(Event) /\ DistinctIds(events, Deleting) /\ events' = Append(events, gone)
          /\ gone \in Event /\ gone \in Deleting /\ gone.obj = o
    BY <1>2, <2>1, LeasedTyped DEF ServeDestroy, TypeOK, LeaseInv, Event, Deleting, LeasedObjects
  <2>3. \A p \in Deleted : p.id # o.id
    BY <2>1 DEF LeaseInv, LeasedOnce
  <2> HIDE DEF gone
  <2>4. Named(events', Deleting) = Deleted \cup {o}
    BY <2>2, NamedAppend DEF Deleted
  <2>5. Deleted' = Deleted \cup {o}
    BY <2>4, NextNames
  <2>6. DistinctIds(events', Deleting)
    BY <2>2, <2>3, DistinctAppend DEF Deleted
  <2>7. LeasedObjects' = LeasedObjects
    BY <1>1, <2>1, <2>5 DEF LeasedObjects
  <2>8. LeasedOnce'
    BY <1>1, <2>1, <2>5, <2>7 DEF LeaseInv, LeasedOnce, ids
  <2>9. ReuseFree' /\ ReuseDistinct'
    BY <1>1, <2>7 DEF LeaseInv, ReuseFree, ReuseDistinct, ids
  <2>10. LeaseInv'
    BY <1>1, <2>6, <2>8, <2>9 DEF LeaseInv, DistinctIds
  <2> QED
    BY <1>1, <2>1, <2>5, <2>10 DEF Lease!Close
<1>3. CASE o.id \notin ClientIds
  <2>1. LocalResources' = LocalResources /\ events' = events
    BY <1>3 DEF ServeDestroy, LocalResources
  <2>2. Deleted' = Deleted /\ DistinctIds(events', Deleting)
    BY <2>1, NextNames DEF Deleted, LeaseInv
  <2> QED
    BY <1>1, <2>1, <2>2, LeaseInvFrame DEF leased
<1> QED
  BY <1>2, <1>3

LEMMA ReturnStep ==
    ASSUME TypeOK, LeaseInv, HandleDeleteId
    PROVE  LeaseInv' /\ Lease!Return(Head(events).obj)
<1> DEFINE m == Head(events)
           o == m.obj
<1>1. events \in Seq(Event) /\ events # <<>> /\ events' = Tail(events)
        /\ m \in Event /\ m.ev = "delete_id" /\ DistinctIds(events, Deleting)
  BY TakeTyped DEF HandleDeleteId, Take, TypeOK, LeaseInv
<1>2. m \in Deleting /\ o \in LocalObject /\ o.id \in ClientIds
  BY <1>1 DEF Event, Deleting
<1>3. Deleted = Deleted' \cup {o}
  BY <1>1, <1>2, NamedTail, NextNames DEF Deleted
<1>4. \A p \in Deleted' : p.id # o.id
  BY <1>1, <1>2, DistinctTail, NextNames
<1>5. DistinctIds(events', Deleting)
  BY <1>1, DistinctTail
<1>6. Requested' = Requested /\ LocalResources' = LocalResources /\ next_id' = next_id
        /\ DistinctIds(requests', Opening)
  BY NextNames DEF HandleDeleteId, Requested, LocalResources, serverVars, ClientIds, LeaseInv
<1>7. LeasedObjects' \subseteq LeasedObjects /\ o \in LeasedObjects
        /\ \A p \in LeasedObjects' : p.id # o.id
  BY <1>3, <1>4, <1>6 DEF LeasedObjects, LeaseInv, LeasedOnce
<1>8. LeasedOnce'
  BY <1>3, <1>6, <1>7 DEF LeaseInv, LeasedOnce
<1> DEFINE q == obj_ids_reuse
<1>9. /\ q \in Seq(ClientIds) /\ Len(q) \in Nat /\ DOMAIN q = 1..Len(q)
      /\ DOMAIN q' = 1..(Len(q) + 1)
      /\ \A k \in 1..Len(q) : q'[k] = q[k]
      /\ q'[Len(q) + 1] = o.id
  BY <1>2, AppendProperties, LenProperties DEF HandleDeleteId, FreeObjId, TypeOK
<1>10. \A k \in 1..Len(q) : q[k] # o.id
  BY <1>7, <1>9 DEF LeaseInv, ReuseFree
<1>11. ReuseDistinct'
  BY <1>9, <1>10 DEF LeaseInv, ReuseDistinct
<1>12. ReuseFree'
  <2>1. o.id < next_id
    BY <1>7 DEF LeaseInv, LeasedOnce
  <2> QED
    BY <1>6, <1>7, <1>9, <2>1 DEF LeaseInv, ReuseFree
<1>13. LeaseInv'
  BY <1>5, <1>6, <1>8, <1>11, <1>12 DEF LeaseInv, DistinctIds
<1> QED
  BY <1>3, <1>4, <1>6, <1>13 DEF Lease!Return

\* A destroy request, the end of most objects' use by the application.
LEMMA DestroyStep ==
    ASSUME TypeOK, LeaseInv, NEW o \in Object, Send("destroy", o), UNCHANGED ids,
           UNCHANGED resources,
           Deleted' = Deleted, DistinctIds(events', Deleting)
    PROVE  LeaseInv' /\ UNCHANGED leased
<1> DEFINE m == [op |-> "destroy", obj |-> o]
<1>1. m \in Request /\ m \notin Opening /\ requests' = Append(requests, m)
  BY DEF Request, Opening, Send
<1>2. Requested' = Requested /\ DistinctIds(requests', Opening)
  BY <1>1, OtherRequest
<1>3. LocalResources' = LocalResources
  BY DEF LocalResources, ClientIds
<1> QED
  BY <1>2, <1>3, LeaseInvFrame DEF leased

\* A step that leaves the ids, the requests and the client's live objects alone.
LEMMA QuietStep ==
    ASSUME LeaseInv, UNCHANGED ids, UNCHANGED requests, LocalResources' = LocalResources,
           Deleted' = Deleted, DistinctIds(events', Deleting)
    PROVE  LeaseInv' /\ UNCHANGED leased
<1>1. Requested' = Requested /\ DistinctIds(requests', Opening)
  BY NextNames DEF Requested, LeaseInv
<1> QED
  BY <1>1, LeaseInvFrame DEF leased

LEMMA LeaseStep ==
    ASSUME TypeOK, LeaseInv, [Next]_vars
    PROVE  LeaseInv' /\ (Lease!Next \/ UNCHANGED leased)
<1> USE DEF clientVars, serverVars, ids
<1>0. /\ \A o \in LocalObject : o \in Object
      /\ events' = events => Deleted' = Deleted /\ DistinctIds(events', Deleting)
      /\ resources' = resources => LocalResources' = LocalResources
  BY NextNames DEF LocalObject, Object, Obj, Deleted, LeaseInv, LocalResources, ClientIds
<1>1. ASSUME NEW kind \in LocalKinds \cup {"callback"}, NEW op \in {"create", "sync"},
             gens < MaxObjects, TakeObjId, UNCHANGED <<events, resources>>,
             op = "sync" <=> kind = "callback",
             Send(op, Allocate(kind)) \/ UNCHANGED requests
      PROVE  LeaseInv' /\ (Lease!Next \/ UNCHANGED leased)
  <2>1. /\ Allocate(kind) \in LocalObject /\ Allocate(kind).id = NewObjId
        /\ Allocate(kind).kind = kind
    BY <1>1, AllocatedTyped DEF Allocate
  <2>2. CASE Send(op, Allocate(kind))
    BY <1>0, <1>1, <2>1, <2>2, OpenStep DEF Lease!Next
  <2>3. CASE UNCHANGED requests
    BY <1>1, <2>3, LoseStep
  <2> QED
    BY <1>1, <2>2, <2>3
<1>2. CASE DoSync
  BY <1>1, <1>2 DEF DoSync
<1>3. ASSUME NEW kind \in Kinds, Create(kind)
      PROVE  LeaseInv' /\ (Lease!Next \/ UNCHANGED leased)
  BY <1>1, <1>3 DEF Create, LocalKinds
<1>4. ASSUME NEW kind \in Kinds, CreateFails(kind)
       PROVE  LeaseInv' /\ (Lease!Next \/ UNCHANGED leased)
  BY <1>4, LoseStep DEF CreateFails
<1>5. CASE CreateSilent
  BY <1>1, <1>5 DEF CreateSilent, LocalKinds
<1>6. ASSUME NEW o \in proxies, Destroy(o)
      PROVE  LeaseInv' /\ (Lease!Next \/ UNCHANGED leased)
  BY <1>0, <1>6, DestroyStep DEF Destroy, TypeOK
<1>7. CASE HandleEvent
  BY <1>0, <1>7, OtherTaken, QuietStep DEF HandleEvent
<1>8. CASE HandleFinished
  <2>1. PICK h \in event_handlers : Send("destroy", h)
    BY <1>8 DEF HandleFinished
  <2> QED
    BY <1>8, <2>1, OtherTaken, DestroyStep DEF HandleFinished, TypeOK
<1>9. CASE HandleDone
  BY <1>0, <1>9, OtherTaken, QuietStep DEF HandleDone
<1>10. CASE HandleUnknown
  BY <1>0, <1>10, OtherTaken, QuietStep DEF HandleUnknown
<1>11. CASE HandleDeleteId
  <2>1. Head(events).obj \in Object
    BY <1>11, TakeTyped DEF HandleDeleteId, Event
  <2> QED
    BY <1>11, <2>1, ReturnStep DEF Lease!Next
<1>12. CASE HandleNew
  BY <1>0, <1>12, OtherTaken, QuietStep DEF HandleNew
<1>13. ASSUME TakeRequest("create") \/ TakeRequest("sync") \/ TakeRequest("destroy")
       PROVE  Head(requests).obj \in Object
  BY <1>13, TakeRequestTyped DEF Request
<1>14. CASE ServeCreate
  BY <1>13, <1>14, AcceptStep DEF ServeCreate, Lease!Next
<1>15. CASE ServeSync
  BY <1>13, <1>15, AnswerStep DEF ServeSync, Lease!Next
<1>16. CASE ServeDestroy
  BY <1>13, <1>16, CloseStep DEF ServeDestroy, Lease!Next
<1>17. ASSUME NEW o \in resources, SendEvent(o) \/ SendFinished(o)
       PROVE  LeaseInv' /\ (Lease!Next \/ UNCHANGED leased)
  <2>1. PICK t \in {"event", "finished"} :
            /\ events' = Append(events, [ev |-> t, obj |-> o])
            /\ t = "event" => o.kind # "silent"
            /\ t = "finished" => o.kind \in {"forget", "remote"}
    BY <1>17 DEF SendEvent, SendFinished
  <2>2. [ev |-> t, obj |-> o] \in Event /\ [ev |-> t, obj |-> o] \notin Deleting
    BY <2>1 DEF Event, Deleting, TypeOK
  <2>3. Deleted' = Deleted /\ DistinctIds(events', Deleting)
    BY <2>1, <2>2, OtherEvent
  <2> QED
    BY <1>0, <1>17, <2>3, QuietStep DEF SendEvent, SendFinished
<1>18. ASSUME NEW id \in RemoteIds, NEW kind \in Kinds \cap RemoteKinds, SendNew(id, kind)
       PROVE  LeaseInv' /\ (Lease!Next \/ UNCHANGED leased)
  <2> DEFINE o == [id |-> id, gen |-> gens + 1, kind |-> kind]
             m == [ev |-> "new", obj |-> o]
  <2>1. gens + 1 \in 0..MaxObjects
    BY <1>18, BoundAssumption DEF SendNew, TypeOK
  <2>2. o \in Object
    BY <2>1 DEF RemoteObject, Obj
  <2>3. m \in Event /\ m \notin Deleting
    BY <2>2 DEF Event, Deleting
  <2>4. Deleted' = Deleted /\ DistinctIds(events', Deleting)
    BY <1>18, <2>3, OtherEvent DEF SendNew
  <2>5. o.id \notin ClientIds
    BY IdAssumption DEF ClientIds
  <2>6. LocalResources' = LocalResources
    BY <1>18, <2>5 DEF SendNew, LocalResources, ClientIds
  <2> QED
    BY <1>18, <2>4, <2>6, QuietStep DEF SendNew
<1>19. CASE Reject
  BY <1>0, <1>19, QuietStep DEF Reject
<1>20. CASE UNCHANGED vars
  BY <1>0, <1>20, QuietStep DEF vars
<1> QED
  BY <1>2, <1>3, <1>5, <1>6, <1>7, <1>8, <1>9, <1>10, <1>11, <1>12, <1>14, <1>15, <1>16,
     <1>17, <1>18, <1>20, <1>4, <1>19 DEF Next, Call, Dispatch, Serve, Announce

LEMMA LeaseInit == Init => LeaseInv /\ Lease!Init
<1> SUFFICES ASSUME Init PROVE LeaseInv /\ Lease!Init
  OBVIOUS
<1>1. Registry \in LocalObject /\ InitialSync \in LocalObject
  BY IdAssumption, BoundAssumption DEF Registry, InitialSync, ClientIds, LocalKinds
<1>2. /\ DOMAIN requests = {1, 2}
      /\ requests[1] = [op |-> "create", obj |-> Registry]
      /\ requests[2] = [op |-> "sync", obj |-> InitialSync]
  BY DEF Init
<1>3. requests[1] \in Opening /\ requests[2] \in Opening
  BY <1>1, <1>2 DEF Opening
<1>4. Requested = {Registry, InitialSync}
  BY <1>2, <1>3 DEF Requested, Named
<1>5. Deleted = {}
  BY DEF Init, Deleted, Named
<1>6. LocalResources = {Display}
  BY IdAssumption DEF Init, LocalResources, Display, ClientIds
<1>7. Display.id = 1 /\ Registry.id = 2 /\ InitialSync.id = 3
  BY DEF Display, Registry, InitialSync
<1>8. DistinctIds(requests, Opening)
  BY <1>2, <1>7 DEF DistinctIds
<1>9. DistinctIds(events, Deleting) /\ ReuseDistinct /\ ReuseFree
  BY DEF Init, DistinctIds, ReuseDistinct, ReuseFree
<1>10. LeasedOnce
  BY <1>4, <1>5, <1>6, <1>7 DEF LeasedOnce, LeasedObjects, Init
<1> QED
  BY <1>4, <1>5, <1>6, <1>8, <1>9, <1>10 DEF LeaseInv, Lease!Init

\* Every id is in one place: free, waiting to be reused, or leased to one object.
THEOREM IdsAccounted == Spec => []LeaseInv
<1>1. Init => LeaseInv
  BY LeaseInit
<1>2. TypeOK /\ LeaseInv /\ [Next]_vars => LeaseInv'
  BY LeaseStep
<1> QED
  BY <1>1, <1>2, TypeCorrect, PTL DEF Spec

\* The id handshake of get_new_obj_id, free_obj_id and delete_id implements the
\* lease: no id is handed out while either side still holds an object under it.
THEOREM LeaseImplemented == Spec => LeaseSpec
<1>1. Init => Lease!Init
  BY LeaseInit
<1>2. TypeOK /\ LeaseInv /\ [Next]_vars => [Lease!Next]_(Lease!leaseVars)
  BY LeaseStep DEF leased, Lease!leaseVars
<1> QED
  BY <1>1, <1>2, TypeCorrect, IdsAccounted, PTL DEF Spec, LeaseSpec, Lease!Spec

\* An id names one leased object, in one phase of its life: between the request
\* that creates it and the delete_id the client has read no other object has it.
THEOREM LeaseExclusive == Spec => []Lease!Exclusive
<1>1. TypeOK /\ LeaseInv => Lease!Exclusive
  <2> SUFFICES ASSUME TypeOK, LeaseInv PROVE Lease!Exclusive
    OBVIOUS
  <2>1. \A o, p \in Requested : o.id = p.id => o = p
    BY DEF LeaseInv, DistinctIds, Requested, Named
  <2>2. \A o, p \in Deleted : o.id = p.id => o = p
    BY DEF LeaseInv, DistinctIds, Deleted, Named
  <2> QED
    BY <2>1, <2>2 DEF LeaseInv, LeasedOnce, Lease!Exclusive, Lease!Leased
<1> QED
  BY <1>1, TypeCorrect, IdsAccounted, PTL

-----------------------------------------------------------------------------
(***************************************************************************)
(* The client's handlers and proxies against what is on its way to the     *)
(* compositor and what comes back.  The inductive invariant says which     *)
(* table or queue each object is found in at every stage of its life, for  *)
(* the objects of the client's making and for those of the compositor's.   *)
(* It gives the safety of requests, of the delivery of events by id and of *)
(* the tables once everything in flight has arrived; with the order in     *)
(* which ids are opened, that requests are rejected only for an id that a  *)
(* failed creation has skipped.                                            *)
(***************************************************************************)
Creating == [op : {"create"}, obj : LocalObject]
Destroying == [op : {"destroy"}, obj : Object]
Announcing == [ev : {"new"}, obj : RemoteObject]

\* Objects whose creation, destruction or announcement is in flight.
Created == Named(requests, Creating)
Doomed == Named(requests, Destroying)
Announced == Named(events, Announcing)

\* A handler is that of an object which is leased or was lost, one per id.
HandlersKnown ==
    /\ \A h, g \in event_handlers : h.id = g.id => h = g
    /\ \A h \in event_handlers :
         /\ h.kind # "silent"
         /\ h \in LocalObject => h \in LeasedObjects \cup failed
         /\ h.kind \in {"forget", "remote"} => h \in proxies \cup failed

\* Handlers stay as long as something can still ask for them.
HandlersKept ==
    /\ failed \subseteq event_handlers
    /\ \A o \in LeasedObjects : o.kind \in {"keep", "callback"} => o \in event_handlers
    /\ \A p \in proxies : p.kind # "silent" => p \in event_handlers

\* The id of a creation that failed is nobody else's.
FailedLost ==
    \A o \in failed :
        /\ o \in LocalObject /\ o.id < next_id
        /\ \A k \in DOMAIN obj_ids_reuse : obj_ids_reuse[k] # o.id
        /\ \A p \in LeasedObjects : p.id # o.id

\* What the application may still destroy is there or will be, and a destroy is
\* sent once, for an object that is there when the compositor reads the request.
DestroysServed ==
    /\ \A p \in proxies : p \in resources \cup Created /\ p \notin Doomed
    /\ \A j, k \in DOMAIN requests :
         requests[j].op = "destroy" /\ requests[k] = requests[j] => j = k
    /\ \A k \in DOMAIN requests :
         requests[k].op = "destroy" =>
            \/ requests[k].obj \in resources
            \/ \E j \in 1..(k - 1) : requests[j] = [op |-> "create", obj |-> requests[k].obj]

\* An event about an object of the client's is read before its delete_id.
EventsTimely ==
    \A k \in DOMAIN events :
        events[k].obj \in LocalObject =>
            \/ events[k].obj \in resources
            \/ \E j \in DOMAIN events :
                  k <= j /\ events[j] = [ev |-> "delete_id", obj |-> events[k].obj]

\* The compositor's objects: one per id, numbered as they are made, announced once
\* and before anything else about them, and destroyed only when they are known.
Announcements ==
    /\ \A o, p \in resources : o.id = p.id => o = p
    /\ \A o \in (event_handlers \cup resources) \cap RemoteObject : o.gen <= gens
    /\ \A o \in Announced : o \in resources /\ o \notin event_handlers \cup Doomed
    /\ \A j, k \in DOMAIN events :
         events[j].ev = "new" /\ j < k /\ events[k].obj.id = events[j].obj.id =>
            events[k].obj = events[j].obj /\ events[k].ev # "new"

\* What the events and the handlers of a live object's id are about, once the
\* client has read of it.
LiveKnown ==
    \A r \in (resources \cap RemoteObject) \ Announced :
        /\ \A k \in DOMAIN events : events[k].obj.id = r.id => events[k].obj = r
        /\ Running => \A h \in event_handlers : h.id = r.id => h = r

\* An event about another object than its id has a handler for comes after the
\* announcement of that object.
EventsInTurn ==
    Running =>
        \A k \in DOMAIN events, h \in event_handlers :
            h \in RemoteObject /\ events[k].obj.id = h.id /\ events[k].obj # h =>
                \E i \in 1..k : events[i] = [ev |-> "new", obj |-> events[k].obj]

\* No live object lacks its handler for another reason than its destroy, and a
\* group, which destroy() leaves in the table, for none.
HandlersServed ==
    Running =>
        /\ \A r \in resources \cup Created :
             r.kind \in {"forget", "remote"} => r \in proxies \cup Doomed \cup Announced
        /\ \A r \in resources : r.kind = "group" => r \in event_handlers \cup Announced

\* An event about a group finds its handler, or the announcement before it.
GroupsKnown ==
    Running =>
        \A k \in DOMAIN events :
            events[k].obj.kind = "group" =>
                \/ events[k].obj \in event_handlers
                \/ \E i \in 1..k : events[i] = [ev |-> "new", obj |-> events[k].obj]

HandlerInv ==
    /\ HandlersKnown /\ HandlersKept /\ FailedLost
    /\ DestroysServed /\ EventsTimely
    /\ Announcements /\ LiveKnown /\ EventsInTurn /\ HandlersServed
    /\ GroupsKnown

-----------------------------------------------------------------------------
\* What the sets of objects in flight stand for, and the two kinds of id.
LEMMA NextMessages ==
    /\ Created' = Named(requests', Creating)
    /\ Doomed' = Named(requests', Destroying)
    /\ Announced' = Named(events', Announcing)
BY DEF Created, Doomed, Announced, Named, Creating, Destroying, Announcing, ClientIds

LEMMA InFlight ==
    ASSUME TypeOK
    PROVE  /\ \A o : o \in Created <=> \E k \in DOMAIN requests : requests[k] = [op |-> "create", obj |-> o]
           /\ \A o : o \in Doomed <=> \E k \in DOMAIN requests : requests[k] = [op |-> "destroy", obj |-> o]
           /\ \A o : o \in Announced <=> \E k \in DOMAIN events : events[k] = [ev |-> "new", obj |-> o]
           /\ Created \subseteq Requested
<1>1. \A k \in DOMAIN requests : requests[k] \in Request
  BY ElementOfSeq DEF TypeOK
<1>2. \A k \in DOMAIN events : events[k] \in Event
  BY ElementOfSeq DEF TypeOK
<1>3. \A k \in DOMAIN requests :
         /\ requests[k] \in Creating <=> requests[k].op = "create"
         /\ requests[k] \in Destroying <=> requests[k].op = "destroy"
         /\ requests[k] = [op |-> requests[k].op, obj |-> requests[k].obj]
         /\ requests[k] \in Creating => requests[k] \in Opening
  BY <1>1 DEF Request, Creating, Destroying, Opening
<1>4. \A k \in DOMAIN events :
         /\ events[k] \in Announcing <=> events[k].ev = "new"
         /\ events[k] = [ev |-> events[k].ev, obj |-> events[k].obj]
  BY <1>2 DEF Event, Announcing
<1>5. \A o : o \in Created <=> \E k \in DOMAIN requests : requests[k] = [op |-> "create", obj |-> o]
  BY <1>3 DEF Created, Named
<1>6. \A o : o \in Doomed <=> \E k \in DOMAIN requests : requests[k] = [op |-> "destroy", obj |-> o]
  BY <1>3 DEF Doomed, Named
<1>7. \A o : o \in Announced <=> \E k \in DOMAIN events : events[k] = [ev |-> "new", obj |-> o]
  BY <1>4 DEF Announced, Named
<1>8. Created \subseteq Requested
  BY <1>3 DEF Created, Requested, Named
<1> QED
  BY <1>5, <1>6, <1>7, <1>8

LEMMA IdsApart ==
    /\ \A o \in LocalObject : o.id \in ClientIds /\ o.id \in Nat /\ o.id \notin RemoteIds
                              /\ o.kind \notin RemoteKinds
    /\ \A o \in RemoteObject : o.id \in RemoteIds /\ o.id \notin Nat /\ o.id \notin ClientIds
                               /\ o.kind \in RemoteKinds
    /\ \A o \in Object : \/ o \in LocalObject /\ o \notin RemoteObject
                         \/ o \in RemoteObject /\ o \notin LocalObject
BY IdAssumption DEF ClientIds

\* One leased object at most has a given id.
LEMMA LeasedUnique ==
    ASSUME TypeOK, LeaseInv
    PROVE  \A o, p \in LeasedObjects : o.id = p.id => o = p
<1>1. \A o, p \in Requested : o.id = p.id => o = p
  BY DEF LeaseInv, DistinctIds, Requested, Named
<1>2. \A o, p \in Deleted : o.id = p.id => o = p
  BY DEF LeaseInv, DistinctIds, Deleted, Named
<1> QED
  BY <1>1, <1>2 DEF LeaseInv, LeasedOnce, LeasedObjects

\* What the application holds is leased to it or is a live object it has been told
\* of, and has the one handler its id has.
LEMMA ProxyKnown ==
    ASSUME TypeOK, LeaseInv, HandlerInv, NEW p \in proxies
    PROVE  /\ p \in LocalObject => p \in LeasedObjects
           /\ p \in RemoteObject => p \in resources /\ p \notin Announced
           /\ p \notin failed
           /\ \A h \in event_handlers : h.id = p.id => h = p
           /\ \A r \in resources : r.id = p.id => r = p
<1>1. p \in Object /\ p \in resources \cup Created /\ Created \subseteq Requested /\ Requested \subseteq LocalObject
        /\ failed \subseteq LocalObject /\ event_handlers \subseteq Object /\ resources \subseteq Object
  <2>1. Requested \subseteq LocalObject
    BY DEF Requested, Named, Opening
  <2> QED
    BY <2>1, InFlight DEF TypeOK, HandlerInv, DestroysServed, FailedLost
<1>2. p \in LocalObject => p \in LeasedObjects
  BY <1>1, IdsApart DEF LeasedObjects, LocalResources
<1>3. p \in RemoteObject => p \in resources
  BY <1>1, IdsApart
<1>4. p \in RemoteObject => p \notin Announced
  BY IdsApart DEF HandlerInv, Announcements, HandlersKept, RemoteKinds
<1>5. p \notin failed
  BY <1>1, <1>2 DEF HandlerInv, FailedLost
<1>6. ASSUME NEW h \in event_handlers, h.id = p.id PROVE h = p
  <2>1. CASE p \in RemoteObject
    BY <1>6, <2>1, IdsApart DEF HandlerInv, HandlersKept, HandlersKnown
  <2>2. CASE p \in LocalObject
    <3>1. h \in LocalObject
      BY <1>1, <1>6, <2>2, IdsApart
    <3>2. h \in LeasedObjects
      BY <1>2, <1>6, <2>2, <3>1 DEF HandlerInv, HandlersKnown, FailedLost
    <3> QED
      BY <1>2, <1>6, <2>2, <3>2, LeasedUnique
  <2> QED
    BY <1>1, <2>1, <2>2, IdsApart
<1>7. ASSUME NEW r \in resources, r.id = p.id PROVE r = p
  <2>1. CASE p \in RemoteObject
    BY <1>3, <1>7, <2>1 DEF HandlerInv, Announcements
  <2>2. CASE p \in LocalObject
    <3>1. r \in LeasedObjects
      BY <1>7, <2>2, IdsApart DEF LeasedObjects, LocalResources
    <3> QED
      BY <1>2, <1>7, <2>2, <3>1, LeasedUnique
  <2> QED
    BY <1>1, <2>1, <2>2, IdsApart
<1> QED
  BY <1>2, <1>3, <1>4, <1>5, <1>6, <1>7

\* An id get_new_obj_id returns has no handler.
LEMMA NotInstalled ==
    ASSUME TypeOK, LeaseInv, HandlerInv, TakeObjId
    PROVE  \A h \in event_handlers \cup failed : h.id # NewObjId
<1>1. NewObjId \in ClientIds /\ \A o \in LeasedObjects : o.id # NewObjId
  BY Taken
<1>2. ASSUME NEW h \in failed PROVE h.id # NewObjId
  <2>1. CASE obj_ids_reuse # <<>>
    <3>1. 1 \in DOMAIN obj_ids_reuse /\ NewObjId = obj_ids_reuse[1]
      BY <2>1, EmptySeq, LenProperties, HeadTailProperties DEF TypeOK, NewObjId
    <3> QED
      BY <3>1 DEF HandlerInv, FailedLost
  <2>2. CASE obj_ids_reuse = <<>>
    <3>1. NewObjId = next_id /\ next_id \in Nat
      BY <2>2, IdAssumption DEF TypeOK, NewObjId
    <3>2. h.id < next_id /\ h.id \in Nat
      BY IdsApart DEF HandlerInv, FailedLost
    <3> QED
      BY <3>1, <3>2
  <2> QED
    BY <2>1, <2>2
<1>3. ASSUME NEW h \in event_handlers, h.id = NewObjId PROVE h \in failed
  <2>1. h \in LocalObject
    BY <1>1, <1>3, IdsApart DEF TypeOK
  <2> QED
    BY <1>1, <1>3, <2>1 DEF HandlerInv, HandlersKnown
<1> QED
  BY <1>2, <1>3
-----------------------------------------------------------------------------
\* The events after the first d of them, which is none or one that announces nothing.
EventsPassed(d) ==
    /\ d \in {0, 1}
    /\ DOMAIN events = 1..Len(events) /\ Len(events) \in Nat
    /\ DOMAIN events' = 1..(Len(events) - d)
    /\ \A k \in DOMAIN events' : k + d \in DOMAIN events /\ events'[k] = events[k + d]
    /\ d = 1 => events[1].ev # "new"
    /\ Announced' = Announced

LEMMA NonePassed ==
    ASSUME TypeOK, UNCHANGED events
    PROVE  EventsPassed(0)
<1>1. DOMAIN events = 1..Len(events) /\ Len(events) \in Nat
  BY LenProperties DEF TypeOK
<1>2. Announced' = Announced
  BY NextMessages DEF Announced
<1> QED
  BY <1>1, <1>2 DEF EventsPassed

LEMMA OnePassed ==
    ASSUME TypeOK, NEW t, t # "new", Take(t)
    PROVE  EventsPassed(1)
<1>1. /\ Len(events) \in Nat \ {0} /\ Head(events) = events[1] /\ DOMAIN events = 1..Len(events)
      /\ DOMAIN events' = 1..(Len(events) - 1)
      /\ \A k \in 1..(Len(events) - 1) : events'[k] = events[k + 1]
  BY HeadTailProperties, EmptySeq, LenProperties DEF Take, TypeOK
<1>2. Head(events) \notin Announcing
  BY DEF Take, Announcing
<1>3. Announced' = Announced
  BY <1>2, NamedTail, NextMessages DEF Take, TypeOK, Announced
<1> QED
  BY <1>1, <1>3 DEF EventsPassed, Take

\* What holds of the events goes on to hold when one has been read and handlers are
\* removed, but for the events of a group whose handler went.
LEMMA EventsPass ==
    ASSUME TypeOK, HandlerInv, NEW d, EventsPassed(d), UNCHANGED <<resources, gens>>,
           event_handlers' \subseteq event_handlers, Running' => Running,
           \A h \in event_handlers : h.kind = "group" => h \in event_handlers',
           \A o \in Announced : o \notin Doomed'
    PROVE  EventsTimely' /\ Announcements' /\ LiveKnown' /\ EventsInTurn' /\ GroupsKnown'
<1>1. \A k \in DOMAIN events' : \A i \in 1..(k + d) :
         events[i].ev = "new" => i - d \in 1..k /\ events'[i - d] = events[i]
  <2> SUFFICES ASSUME NEW k \in DOMAIN events', NEW i \in 1..(k + d), events[i].ev = "new"
               PROVE  i - d \in 1..k /\ events'[i - d] = events[i]
    OBVIOUS
  <2>1. k \in Nat /\ (d = 0 \/ d = 1)
    BY DEF EventsPassed
  <2>2. d = 1 => i # 1
    BY DEF EventsPassed
  <2>3. i - d \in 1..k
    BY <2>1, <2>2
  <2>4. i - d \in DOMAIN events'
    BY <2>1, <2>3 DEF EventsPassed
  <2> QED
    BY <2>1, <2>3, <2>4 DEF EventsPassed
<1>2. EventsTimely'
  <2> SUFFICES ASSUME NEW k \in DOMAIN events', events'[k].obj \in LocalObject, events'[k].obj \notin resources
               PROVE  \E j \in DOMAIN events' :
                         k <= j /\ events'[j] = [ev |-> "delete_id", obj |-> events'[k].obj]
    BY DEF EventsTimely, ClientIds
  <2>1. PICK j \in DOMAIN events :
            k + d <= j /\ events[j] = [ev |-> "delete_id", obj |-> events'[k].obj]
    BY DEF HandlerInv, EventsTimely, EventsPassed
  <2>2. j - d \in DOMAIN events' /\ k <= j - d
    BY <2>1 DEF EventsPassed
  <2>3. events'[j - d] = events[j]
    BY <2>2 DEF EventsPassed
  <2> QED
    BY <2>1, <2>2, <2>3
<1>3. Announcements'
  <2>1. \A j, k \in DOMAIN events' :
           events'[j].ev = "new" /\ j < k /\ events'[k].obj.id = events'[j].obj.id =>
              events'[k].obj = events'[j].obj /\ events'[k].ev # "new"
    <3> SUFFICES ASSUME NEW j \in DOMAIN events', NEW k \in DOMAIN events', events'[j].ev = "new",
                        j < k, events'[k].obj.id = events'[j].obj.id
                 PROVE  events'[k].obj = events'[j].obj /\ events'[k].ev # "new"
      OBVIOUS
    <3>1. j + d < k + d /\ j + d \in DOMAIN events /\ k + d \in DOMAIN events
      BY DEF EventsPassed
    <3> QED
      BY <3>1 DEF EventsPassed, HandlerInv, Announcements
  <2> QED
    BY <2>1 DEF HandlerInv, Announcements, EventsPassed
<1>4. LiveKnown'
  BY DEF LiveKnown, HandlerInv, EventsPassed
<1>5. EventsInTurn'
  <2> SUFFICES ASSUME Running', NEW k \in DOMAIN events', NEW h \in event_handlers', h \in RemoteObject,
                      events'[k].obj.id = h.id, events'[k].obj # h
               PROVE  \E i \in 1..k : events'[i] = [ev |-> "new", obj |-> events'[k].obj]
    BY DEF EventsInTurn
  <2>1. PICK i \in 1..(k + d) : events[i] = [ev |-> "new", obj |-> events'[k].obj]
    BY DEF HandlerInv, EventsInTurn, EventsPassed
  <2> QED
    BY <1>1, <2>1
<1>6. GroupsKnown'
  <2> SUFFICES ASSUME Running', NEW k \in DOMAIN events', events'[k].obj.kind = "group",
                      events'[k].obj \notin event_handlers'
               PROVE  \E i \in 1..k : events'[i] = [ev |-> "new", obj |-> events'[k].obj]
    BY DEF GroupsKnown
  <2>1. PICK i \in 1..(k + d) : events[i] = [ev |-> "new", obj |-> events'[k].obj]
    BY DEF HandlerInv, GroupsKnown, EventsPassed
  <2> QED
    BY <1>1, <2>1
<1> QED
  BY <1>2, <1>3, <1>4, <1>5, <1>6
-----------------------------------------------------------------------------
\* What a request at the end of the queue adds.
LEMMA Appended ==
    ASSUME TypeOK, NEW m \in Request, requests' = Append(requests, m)
    PROVE  /\ DOMAIN requests = 1..Len(requests) /\ Len(requests) \in Nat
           /\ DOMAIN requests' = 1..(Len(requests) + 1)
           /\ requests'[Len(requests) + 1] = m
           /\ \A k \in DOMAIN requests : requests'[k] = requests[k]
           /\ Created' = IF m.op = "create" THEN Created \cup {m.obj} ELSE Created
           /\ Doomed' = IF m.op = "destroy" THEN Doomed \cup {m.obj} ELSE Doomed
<1>1. requests \in Seq(Request)
  BY DEF TypeOK
<1>2. m \in Creating <=> m.op = "create"
  BY DEF Request, Creating
<1>3. m \in Destroying <=> m.op = "destroy"
  BY DEF Request, Destroying
<1>4. Created' = IF m.op = "create" THEN Created \cup {m.obj} ELSE Created
  BY <1>1, <1>2, NamedAppend, NextMessages DEF Created
<1>5. Doomed' = IF m.op = "destroy" THEN Doomed \cup {m.obj} ELSE Doomed
  BY <1>1, <1>3, NamedAppend, NextMessages DEF Doomed
<1> QED
  BY <1>1, <1>4, <1>5, AppendProperties, LenProperties

\* An object of the client's making, its handler and the request that names it.
LEMMA ObjectMade ==
    ASSUME TypeOK, LeaseInv, HandlerInv, gens < MaxObjects, TakeObjId, gens' = gens + 1,
           NEW kind \in LocalKinds \cup {"callback"},
           NEW op \in {"create", "sync"}, op = "sync" <=> kind = "callback",
           Send(op, Allocate(kind)),
           event_handlers' = IF kind = "silent" THEN event_handlers
                             ELSE event_handlers \cup {Allocate(kind)},
           proxies' = IF op = "create" THEN proxies \cup {Allocate(kind)} ELSE proxies,
           UNCHANGED <<failed, raised, events, resources>>
    PROVE  HandlerInv'
<1> DEFINE o == Allocate(kind)
           m == [op |-> op, obj |-> o]
<1>1. o \in LocalObject /\ o.kind = kind /\ o.id = NewObjId /\ o.id \in ClientIds
  BY AllocatedTyped DEF Allocate
<1>2. m \in Request /\ requests' = Append(requests, m) /\ m.op = op /\ m.obj = o
  BY <1>1 DEF Request, Send
<1>3. Created' = (IF op = "create" THEN Created \cup {o} ELSE Created) /\ Doomed' = Doomed
  BY <1>2, Appended
<1>4. EventsPassed(0) /\ Announced' = Announced
  BY NonePassed DEF EventsPassed
<1>5. Requested' = Requested \cup {o} /\ Deleted' = Deleted /\ LocalResources' = LocalResources
  BY <1>1, OpenStep DEF Lease!Open, LocalResources, ClientIds
<1>6. LeasedObjects' = LeasedObjects \cup {o}
  BY <1>5 DEF LeasedObjects
<1>7. \A h \in event_handlers \cup failed \cup LeasedObjects : h.id # o.id
  BY <1>1, NotInstalled, Taken
<1>8. /\ event_handlers' = IF kind = "silent" THEN event_handlers ELSE event_handlers \cup {o}
      /\ proxies' = IF op = "create" THEN proxies \cup {o} ELSE proxies
      /\ Running' = Running
  BY DEF Running
<1> HIDE DEF o, m
<1>9. HandlersKnown' /\ HandlersKept'
  BY <1>1, <1>6, <1>7, <1>8 DEF HandlerInv, HandlersKnown, HandlersKept, ClientIds
<1>10. FailedLost'
  <2> SUFFICES ASSUME NEW f \in failed
               PROVE  /\ f \in LocalObject /\ f.id < next_id'
                      /\ \A k \in DOMAIN obj_ids_reuse' : obj_ids_reuse'[k] # f.id
                      /\ \A p \in LeasedObjects \cup {o} : p.id # f.id
    BY <1>6 DEF FailedLost, ClientIds
  <2>1. f \in LocalObject /\ f.id \in Nat /\ f.id < next_id
    BY IdsApart DEF HandlerInv, FailedLost
  <2>2. next_id \in Nat /\ next_id' \in Nat /\ next_id <= next_id'
    BY Taken, IdAssumption DEF TypeOK
  <2>3. f.id < next_id'
    BY <2>1, <2>2
  <2> QED
    BY <1>1, <1>7, <2>1, <2>3, Taken DEF HandlerInv, FailedLost
<1>11. DestroysServed'
  <2>1. o \notin Doomed
    <3>1. ASSUME o \in Doomed PROVE o \in resources \cup Created
      <4>1. PICK k \in DOMAIN requests : requests[k] = [op |-> "destroy", obj |-> o]
        BY <3>1, InFlight
      <4>2. \/ o \in resources
            \/ \E j \in 1..(k - 1) : requests[j] = [op |-> "create", obj |-> o]
        BY <4>1 DEF HandlerInv, DestroysServed
      <4>3. 1..(k - 1) \subseteq DOMAIN requests
        BY <4>1, LenProperties DEF TypeOK
      <4> QED
        BY <4>2, <4>3, InFlight
    <3>2. o \notin LeasedObjects
      BY <1>7
    <3> QED
      BY <1>1, <3>1, <3>2, InFlight DEF LeasedObjects, LocalResources
  <2>2. \A p \in proxies' : p \in resources' \cup Created' /\ p \notin Doomed'
    BY <1>3, <1>8, <2>1 DEF HandlerInv, DestroysServed
  <2>3. \A k \in DOMAIN requests' : requests'[k].op = "destroy" =>
            k \in DOMAIN requests /\ requests'[k] = requests[k]
    BY <1>2, Appended
  <2>4. \A k \in DOMAIN requests : \A j \in 1..(k - 1) : requests'[j] = requests[j]
    BY <1>2, Appended
  <2> QED
    BY <2>2, <2>3, <2>4 DEF HandlerInv, DestroysServed
<1>12. EventsTimely'
  BY <1>4 DEF HandlerInv, EventsTimely, ClientIds
<1>13. Announcements'
  <2>1. \A p \in (event_handlers' \cup resources') \cap RemoteObject : p.gen <= gens'
    <3> SUFFICES ASSUME NEW p \in (event_handlers \cup resources) \cap RemoteObject
                 PROVE  p.gen <= gens'
      BY <1>1, <1>8, IdsApart
    <3>1. p.gen <= gens /\ p.gen \in Nat /\ gens \in Nat
      BY BoundAssumption DEF HandlerInv, Announcements, TypeOK
    <3> QED
      BY <3>1
  <2>2. \A p \in Announced : p \notin event_handlers'
    BY <1>1, <1>8, IdsApart DEF HandlerInv, Announcements, Announced, Named, Announcing
  <2> QED
    BY <1>3, <1>4, <2>1, <2>2 DEF HandlerInv, Announcements
<1>14. LiveKnown' /\ EventsInTurn' /\ GroupsKnown'
  BY <1>1, <1>4, <1>8, IdsApart DEF HandlerInv, LiveKnown, EventsInTurn, GroupsKnown
<1>15. HandlersServed'
  BY <1>1, <1>3, <1>4, <1>8 DEF HandlerInv, HandlersServed
<1> QED
  BY <1>9, <1>10, <1>11, <1>12, <1>13, <1>14, <1>15 DEF HandlerInv
\* A creation that failed: the id is gone and the handler stays.
LEMMA ObjectLost ==
    ASSUME TypeOK, LeaseInv, HandlerInv, gens < MaxObjects, TakeObjId, gens' = gens + 1,
           NEW kind \in {"keep", "forget"},
           event_handlers' = event_handlers \cup {Allocate(kind)},
           failed' = failed \cup {Allocate(kind)},
           UNCHANGED <<proxies, raised, requests, events, resources>>
    PROVE  HandlerInv'
<1> DEFINE o == Allocate(kind)
<1>1. o \in LocalObject /\ o.kind = kind /\ o.id = NewObjId /\ o.id \in ClientIds /\ o.id \in Nat
  BY AllocatedTyped, IdsApart DEF Allocate
<1>2. event_handlers' = event_handlers \cup {o} /\ failed' = failed \cup {o}
  OBVIOUS
<1> HIDE DEF o
<1>3. /\ Created' = Created /\ Doomed' = Doomed /\ Announced' = Announced
      /\ LeasedObjects' = LeasedObjects /\ Running' = Running
  BY LoseStep, NextMessages DEF Created, Doomed, Announced, leased, LeasedObjects, Running
<1>4. \A h \in event_handlers \cup failed \cup LeasedObjects : h.id # o.id
  BY <1>1, NotInstalled, Taken
<1>5. HandlersKnown' /\ HandlersKept'
  BY <1>1, <1>2, <1>3, <1>4 DEF HandlerInv, HandlersKnown, HandlersKept, ClientIds
<1>6. FailedLost'
  <2>1. next_id \in Nat /\ next_id' \in Nat /\ next_id <= next_id' /\ o.id < next_id'
    BY <1>1, Taken, IdAssumption DEF TypeOK
  <2>2. ASSUME NEW f \in failed PROVE f.id < next_id'
    <3>1. f.id \in Nat /\ f.id < next_id
      BY IdsApart DEF HandlerInv, FailedLost
    <3> QED
      BY <2>1, <3>1
  <2> QED
    BY <1>1, <1>2, <1>3, <1>4, <2>1, <2>2, Taken DEF HandlerInv, FailedLost, ClientIds
<1>7. DestroysServed' /\ EventsTimely'
  BY <1>3 DEF HandlerInv, DestroysServed, EventsTimely, ClientIds
<1>8. Announcements'
  <2>1. \A p \in (event_handlers' \cup resources') \cap RemoteObject : p.gen <= gens'
    <3> SUFFICES ASSUME NEW p \in (event_handlers \cup resources) \cap RemoteObject
                 PROVE  p.gen <= gens'
      BY <1>1, <1>2, IdsApart
    <3>1. p.gen <= gens /\ p.gen \in Nat /\ gens \in Nat
      BY BoundAssumption DEF HandlerInv, Announcements, TypeOK
    <3> QED
      BY <3>1
  <2>2. \A p \in Announced : p \notin event_handlers'
    BY <1>1, <1>2, IdsApart DEF HandlerInv, Announcements, Announced, Named, Announcing
  <2> QED
    BY <1>3, <2>1, <2>2 DEF HandlerInv, Announcements
<1>9. LiveKnown' /\ EventsInTurn' /\ GroupsKnown'
  BY <1>1, <1>2, <1>3, IdsApart DEF HandlerInv, LiveKnown, EventsInTurn, GroupsKnown
<1>10. HandlersServed'
  BY <1>2, <1>3 DEF HandlerInv, HandlersServed
<1> QED
  BY <1>5, <1>6, <1>7, <1>8, <1>9, <1>10 DEF HandlerInv

\* The parts that read neither the handlers nor the events nor whether the loop runs.
LEMMA SameIds ==
    ASSUME TypeOK, LeaseInv, HandlerInv, UNCHANGED <<ids, failed>>,
           LeasedObjects' = LeasedObjects
    PROVE  FailedLost'
BY DEF HandlerInv, FailedLost, ids, ClientIds

\* The application, or the handler of a last event, destroys an object it holds.
LEMMA ObjectDestroyed ==
    ASSUME TypeOK, LeaseInv, HandlerInv, NEW p \in proxies, NEW d,
           Send("destroy", p), proxies' = proxies \ {p}, event_handlers' = HandlersAfterDestroy(p),
           EventsPassed(d), LeasedObjects' = LeasedObjects,
           UNCHANGED <<ids, failed, raised, resources, gens>>
    PROVE  HandlerInv'
<1> DEFINE m == [op |-> "destroy", obj |-> p]
<1>1. p \in Object /\ m \in Request /\ requests' = Append(requests, m) /\ m.op = "destroy" /\ m.obj = p
  BY DEF TypeOK, Request, Send
<1> HIDE DEF m
<1>2. Created' = Created /\ Doomed' = Doomed \cup {p} /\ Announced' = Announced /\ Running' = Running
  BY <1>1, Appended DEF EventsPassed, Running
<1>3. event_handlers' = IF p.kind \in {"forget", "remote"} THEN event_handlers \ {p} ELSE event_handlers
  BY ProxyKnown DEF HandlersAfterDestroy, WithoutHandler
<1>4. p \notin failed /\ p \notin Announced
  BY ProxyKnown, IdsApart DEF Announced, Named, Announcing, TypeOK
<1>5. HandlersKnown' /\ HandlersKept'
  BY <1>3, <1>4 DEF HandlerInv, HandlersKnown, HandlersKept, ClientIds
<1>6. FailedLost'
  BY SameIds
<1>7. EventsTimely' /\ Announcements' /\ LiveKnown' /\ EventsInTurn' /\ GroupsKnown'
  BY <1>2, <1>3, <1>4, EventsPass DEF HandlerInv, Announcements
<1>8. DestroysServed'
  <2>1. p \in resources \cup Created /\ p \notin Doomed
    BY DEF HandlerInv, DestroysServed
  <2>2. \A q \in proxies' : q \in resources' \cup Created' /\ q \notin Doomed'
    BY <1>2 DEF HandlerInv, DestroysServed
  <2>3. \A k \in DOMAIN requests : requests[k] # m
    BY <1>1, <2>1, InFlight DEF m
  <2>4. \A j, k \in DOMAIN requests' :
           requests'[j].op = "destroy" /\ requests'[k] = requests'[j] => j = k
    BY <1>1, <2>3, Appended DEF HandlerInv, DestroysServed
  <2>5. ASSUME NEW k \in DOMAIN requests', requests'[k].op = "destroy", requests'[k].obj \notin resources
        PROVE  \E j \in 1..(k - 1) : requests'[j] = [op |-> "create", obj |-> requests'[k].obj]
    <3>1. CASE k \in DOMAIN requests
      <4>1. \A j \in 1..(k - 1) : j \in DOMAIN requests
        BY <1>1, <3>1, Appended
      <4> QED
        BY <1>1, <2>5, <3>1, <4>1, Appended DEF HandlerInv, DestroysServed
    <3>2. CASE k \notin DOMAIN requests
      <4>1. k = Len(requests) + 1 /\ requests'[k].obj = p
        BY <1>1, <3>2, Appended
      <4>2. PICK j \in DOMAIN requests : requests[j] = [op |-> "create", obj |-> p]
        BY <2>1, <2>5, <4>1, InFlight
      <4>3. j \in 1..(k - 1) /\ requests'[j] = requests[j]
        BY <1>1, <4>1, Appended
      <4> QED
        BY <4>1, <4>2, <4>3
    <3> QED
      BY <3>1, <3>2
  <2> QED
    BY <2>2, <2>4, <2>5 DEF DestroysServed
<1>9. HandlersServed'
  BY <1>2, <1>3 DEF HandlerInv, HandlersServed
<1> QED
  BY <1>5, <1>6, <1>7, <1>8, <1>9 DEF HandlerInv

\* An event that changes nothing here, or ends the loop.
LEMMA EventRead ==
    ASSUME TypeOK, LeaseInv, HandlerInv, NEW d, EventsPassed(d), LeasedObjects' = LeasedObjects,
           Running' => Running,
           UNCHANGED <<ids, event_handlers, proxies, failed, requests, resources, gens>>
    PROVE  HandlerInv'
<1>1. Created' = Created /\ Doomed' = Doomed /\ Announced' = Announced
  BY NextMessages DEF Created, Doomed, EventsPassed
<1>2. EventsTimely' /\ Announcements' /\ LiveKnown' /\ EventsInTurn' /\ GroupsKnown'
  BY <1>1, EventsPass DEF HandlerInv, Announcements
<1>3. HandlersKnown' /\ HandlersKept' /\ DestroysServed' /\ HandlersServed'
  BY <1>1 DEF HandlerInv, HandlersKnown, HandlersKept, DestroysServed, HandlersServed, ClientIds
<1> QED
  BY <1>2, <1>3, SameIds DEF HandlerInv
\* The id of an object comes back: free_obj_id drops the object's handler.
LEMMA ObjectReturned ==
    ASSUME TypeOK, LeaseInv, HandlerInv, HandleDeleteId
    PROVE  HandlerInv'
<1> DEFINE o == Head(events).obj
<1>1. o \in LocalObject /\ o.id \in ClientIds
  BY TakeTyped DEF HandleDeleteId, Take, Event
<1>2. EventsPassed(1) /\ Announced' = Announced
  BY OnePassed DEF HandleDeleteId, EventsPassed
<1>3. /\ UNCHANGED <<next_id, proxies, failed, raised, requests, resources, gens>>
      /\ event_handlers' = WithoutHandler(o.id)
      /\ obj_ids_reuse' = Append(obj_ids_reuse, o.id)
  BY DEF HandleDeleteId, FreeObjId, serverVars
<1>4. Created' = Created /\ Doomed' = Doomed /\ Running' = Running
  BY <1>3, NextMessages DEF Created, Doomed, Running
<1>5. LeaseInv' /\ Requested' = Requested /\ LocalResources' = LocalResources /\ o \in Deleted
        /\ Deleted' = Deleted \ {o}
  BY ReturnStep DEF Lease!Return
<1>6. LeasedObjects \subseteq LeasedObjects' \cup {o} /\ LeasedObjects' \subseteq LeasedObjects
        /\ o \in LeasedObjects
  BY <1>5 DEF LeasedObjects
<1> HIDE DEF o
<1>7. /\ DOMAIN obj_ids_reuse = 1..Len(obj_ids_reuse) /\ Len(obj_ids_reuse) \in Nat
      /\ DOMAIN obj_ids_reuse' = 1..(Len(obj_ids_reuse) + 1)
      /\ \A k \in DOMAIN obj_ids_reuse : obj_ids_reuse'[k] = obj_ids_reuse[k]
      /\ obj_ids_reuse'[Len(obj_ids_reuse) + 1] = o.id
  BY <1>1, <1>3, AppendProperties, LenProperties DEF TypeOK
<1>8. \A q \in LeasedObjects' : q.id # o.id
  BY <1>5, <1>7 DEF LeaseInv, ReuseFree
<1>9. \A f \in failed : f.id # o.id
  BY <1>6 DEF HandlerInv, FailedLost
<1>10. \A p \in proxies : p.id # o.id
  <2> SUFFICES ASSUME NEW p \in proxies, p.id = o.id PROVE FALSE
    OBVIOUS
  <2>1. p \in LocalObject /\ p \in resources \cup Created
    BY <1>1, IdsApart DEF TypeOK, HandlerInv, DestroysServed
  <2>2. p \in LeasedObjects'
    BY <1>1, <1>5, <2>1, InFlight DEF LeasedObjects, LocalResources
  <2> QED
    BY <1>8, <2>2
<1>11. HandlersKnown'
  BY <1>3, <1>6 DEF HandlerInv, HandlersKnown, WithoutHandler, ClientIds
<1>12. HandlersKept'
  BY <1>3, <1>6, <1>8, <1>9, <1>10 DEF HandlerInv, HandlersKept, WithoutHandler
<1>13. FailedLost'
  BY <1>3, <1>6, <1>7, <1>9 DEF HandlerInv, FailedLost, ClientIds
<1>14. \A h \in event_handlers : h.kind = "group" => h \in event_handlers'
  BY <1>1, <1>3, IdsApart DEF WithoutHandler, TypeOK
<1>15. EventsTimely' /\ Announcements' /\ LiveKnown' /\ EventsInTurn' /\ GroupsKnown'
  BY <1>2, <1>3, <1>4, <1>14, EventsPass DEF HandlerInv, Announcements, WithoutHandler
<1>16. DestroysServed'
  BY <1>3, <1>4 DEF HandlerInv, DestroysServed
<1>17. HandlersServed'
  BY <1>2, <1>3, <1>4, <1>14 DEF HandlerInv, HandlersServed
<1> QED
  BY <1>11, <1>12, <1>13, <1>15, <1>16, <1>17 DEF HandlerInv

\* The client reads of an object of the compositor's.
LEMMA ObjectAnnounced ==
    ASSUME TypeOK, LeaseInv, HandlerInv, HandleNew, LeasedObjects' = LeasedObjects
    PROVE  HandlerInv'
<1> DEFINE o == Head(events).obj
<1>1. /\ Len(events) \in Nat \ {0} /\ DOMAIN events = 1..Len(events)
      /\ events[1] = [ev |-> "new", obj |-> o] /\ o \in RemoteObject
      /\ DOMAIN events' = 1..(Len(events) - 1)
      /\ \A k \in DOMAIN events' : k + 1 \in DOMAIN events /\ events'[k] = events[k + 1]
  <2>1. /\ Len(events) \in Nat \ {0} /\ DOMAIN events = 1..Len(events) /\ Head(events) = events[1]
        /\ DOMAIN events' = 1..(Len(events) - 1)
        /\ \A k \in 1..(Len(events) - 1) : events'[k] = events[k + 1]
    BY HeadTailProperties, EmptySeq, LenProperties DEF HandleNew, Take, TypeOK
  <2>2. Head(events) \in Event /\ Head(events).ev = "new"
    BY TakeTyped DEF HandleNew, Take
  <2> QED
    BY <2>1, <2>2 DEF Event
<1>2. UNCHANGED <<next_id, obj_ids_reuse, failed, requests, resources, gens>>
  BY DEF HandleNew, serverVars
<1>3. Created' = Created /\ Doomed' = Doomed
  BY <1>2, NextMessages DEF Created, Doomed
<1> HIDE DEF o
<1>4. Head(events) \in Announcing
  BY <1>1, HeadTailProperties DEF Announcing, TypeOK, HandleNew, Take
<1>5. Announced = Announced' \cup {o}
  BY <1>1, <1>4, NamedTail, NextMessages, HeadTailProperties DEF HandleNew, Take, TypeOK, Announced
<1>6. \A k \in DOMAIN events' : events'[k].obj.id = o.id => events'[k].obj = o /\ events'[k].ev # "new"
  BY <1>1 DEF HandlerInv, Announcements
<1>7. o \notin Announced'
  <2>1. \A k \in DOMAIN events' : events'[k] \notin Announcing \/ events'[k].obj # o
    BY <1>6 DEF Announcing
  <2> QED
    BY <2>1, NextMessages DEF Named
<1>8. o \in resources /\ o \notin event_handlers \cup Doomed
  BY <1>5 DEF HandlerInv, Announcements
<1>9. EventsTimely'
  <2> SUFFICES ASSUME NEW k \in DOMAIN events', events'[k].obj \in LocalObject, events'[k].obj \notin resources
               PROVE  \E j \in DOMAIN events' :
                         k <= j /\ events'[j] = [ev |-> "delete_id", obj |-> events'[k].obj]
    BY <1>2 DEF EventsTimely, ClientIds
  <2>1. PICK j \in DOMAIN events :
            k + 1 <= j /\ events[j] = [ev |-> "delete_id", obj |-> events'[k].obj]
    BY <1>1 DEF HandlerInv, EventsTimely
  <2>2. j - 1 \in DOMAIN events' /\ k <= j - 1
    BY <1>1, <2>1
  <2>3. events'[j - 1] = events[j]
    BY <1>1, <2>2
  <2> QED
    BY <2>1, <2>2, <2>3
<1>10. \A j, k \in DOMAIN events' :
         events'[j].ev = "new" /\ j < k /\ events'[k].obj.id = events'[j].obj.id =>
            events'[k].obj = events'[j].obj /\ events'[k].ev # "new"
  <2> SUFFICES ASSUME NEW j \in DOMAIN events', NEW k \in DOMAIN events', events'[j].ev = "new",
                      j < k, events'[k].obj.id = events'[j].obj.id
               PROVE  events'[k].obj = events'[j].obj /\ events'[k].ev # "new"
    OBVIOUS
  <2>1. j + 1 < k + 1 /\ j + 1 \in DOMAIN events /\ k + 1 \in DOMAIN events
    BY <1>1
  <2> QED
    BY <1>1, <2>1 DEF HandlerInv, Announcements
<1>11. (FailedLost' /\ DestroysServed') \/ proxies' # proxies
  BY <1>2, <1>3 DEF HandlerInv, FailedLost, DestroysServed, ClientIds
<1>12. CASE ~Installed(o.id)
  <2>1. event_handlers' = event_handlers \cup {o} /\ proxies' = proxies \cup {o} /\ Running' /\ Running
    BY <1>12 DEF HandleNew, AddEventHandler, Installed, Raise, Running, Take, o
  <2>2. \A h \in event_handlers : h.id # o.id
    BY <1>12 DEF Installed
  <2>3. HandlersKnown' /\ HandlersKept' /\ FailedLost'
    BY <1>1, <1>2, <2>1, <2>2, IdsApart
       DEF HandlerInv, HandlersKnown, HandlersKept, FailedLost, ClientIds
  <2>4. DestroysServed'
    BY <1>2, <1>3, <1>8, <2>1 DEF HandlerInv, DestroysServed
  <2>5. Announcements'
    BY <1>2, <1>3, <1>5, <1>7, <1>8, <1>10, <2>1 DEF HandlerInv, Announcements
  <2>6. LiveKnown'
    BY <1>1, <1>2, <1>5, <1>6, <2>1, <2>2 DEF HandlerInv, LiveKnown
  <2>7. \A k \in DOMAIN events', i \in DOMAIN events :
           events[i] = [ev |-> "new", obj |-> events'[k].obj] /\ i <= k + 1 /\ events'[k].obj # o =>
              i - 1 \in 1..k /\ events'[i - 1] = events[i]
    <3> SUFFICES ASSUME NEW k \in DOMAIN events', NEW i \in DOMAIN events,
                        events[i] = [ev |-> "new", obj |-> events'[k].obj],
                        i <= k + 1, events'[k].obj # o
                 PROVE  i - 1 \in 1..k /\ events'[i - 1] = events[i]
      OBVIOUS
    <3>1. i # 1
      BY <1>1
    <3>2. i - 1 \in 1..k /\ i - 1 \in DOMAIN events'
      BY <1>1, <3>1
    <3> QED
      BY <1>1, <3>2
  <2>8. EventsInTurn'
    <3> SUFFICES ASSUME NEW k \in DOMAIN events', NEW h \in event_handlers', h \in RemoteObject,
                        events'[k].obj.id = h.id, events'[k].obj # h
                 PROVE  \E i \in 1..k : events'[i] = [ev |-> "new", obj |-> events'[k].obj]
      BY DEF EventsInTurn
    <3>1. h \in event_handlers /\ events'[k].obj # o
      BY <1>6, <2>1, <2>2
    <3>2. PICK i \in 1..(k + 1) : events[i] = [ev |-> "new", obj |-> events'[k].obj]
      BY <1>1, <2>1, <3>1 DEF HandlerInv, EventsInTurn
    <3> QED
      BY <1>1, <2>7, <3>1, <3>2
  <2>9. GroupsKnown'
    <3> SUFFICES ASSUME NEW k \in DOMAIN events', events'[k].obj.kind = "group",
                        events'[k].obj \notin event_handlers'
                 PROVE  \E i \in 1..k : events'[i] = [ev |-> "new", obj |-> events'[k].obj]
      BY DEF GroupsKnown
    <3>1. events'[k].obj # o /\ events'[k].obj \notin event_handlers
      BY <2>1
    <3>2. PICK i \in 1..(k + 1) : events[i] = [ev |-> "new", obj |-> events'[k].obj]
      BY <1>1, <2>1, <3>1 DEF HandlerInv, GroupsKnown
    <3> QED
      BY <1>1, <2>7, <3>1, <3>2
  <2>10. HandlersServed'
    BY <1>2, <1>3, <1>5, <2>1 DEF HandlerInv, HandlersServed
  <2> QED
    BY <1>9, <2>3, <2>4, <2>5, <2>6, <2>8, <2>9, <2>10 DEF HandlerInv
<1>13. CASE Installed(o.id)
  <2>1. event_handlers' = event_handlers /\ proxies' = proxies /\ ~Running'
    BY <1>13 DEF HandleNew, AddEventHandler, Raise, Running, o
  <2>2. HandlersKnown' /\ HandlersKept'
    BY <1>2, <2>1 DEF HandlerInv, HandlersKnown, HandlersKept, ClientIds
  <2>3. Announcements'
    BY <1>2, <1>3, <1>5, <1>10, <2>1 DEF HandlerInv, Announcements
  <2>4. LiveKnown'
    BY <1>1, <1>2, <1>5, <1>6, <2>1 DEF HandlerInv, LiveKnown
  <2> QED
    BY <1>9, <1>11, <2>1, <2>2, <2>3, <2>4 DEF HandlerInv, EventsInTurn, GroupsKnown, HandlersServed
<1> QED
  BY <1>12, <1>13
-----------------------------------------------------------------------------
\* What the compositor takes from one queue and adds to the other.
LEMMA RequestTaken ==
    ASSUME TypeOK, NEW op \in {"create", "sync", "destroy"}, TakeRequest(op)
    PROVE  LET o == Head(requests).obj IN
           /\ Len(requests) \in Nat \ {0} /\ DOMAIN requests = 1..Len(requests)
           /\ requests[1] = [op |-> op, obj |-> o] /\ requests[1] \in Request
           /\ DOMAIN requests' = 1..(Len(requests) - 1)
           /\ \A k \in DOMAIN requests' : k + 1 \in DOMAIN requests /\ requests'[k] = requests[k + 1]
           /\ Created = IF op = "create" THEN Created' \cup {o} ELSE Created'
           /\ Doomed = IF op = "destroy" THEN Doomed' \cup {o} ELSE Doomed'
<1>1. /\ Len(requests) \in Nat \ {0} /\ DOMAIN requests = 1..Len(requests)
      /\ Head(requests) = requests[1] /\ DOMAIN requests' = 1..(Len(requests) - 1)
      /\ \A k \in 1..(Len(requests) - 1) : requests'[k] = requests[k + 1]
  BY HeadTailProperties, EmptySeq, LenProperties DEF TakeRequest, TypeOK
<1>2. Head(requests) \in Request /\ Head(requests).op = op
  BY TakeRequestTyped DEF TakeRequest
<1>3. Head(requests) = [op |-> op, obj |-> Head(requests).obj]
  BY <1>2 DEF Request
<1>4. Head(requests) \in Creating <=> op = "create"
  BY <1>2 DEF Request, Creating
<1>5. Head(requests) \in Destroying <=> op = "destroy"
  BY <1>2 DEF Request, Destroying
<1>6. Created = IF op = "create" THEN Created' \cup {Head(requests).obj} ELSE Created'
  BY <1>4, NamedTail, NextMessages DEF TakeRequest, TypeOK, Created
<1>7. Doomed = IF op = "destroy" THEN Doomed' \cup {Head(requests).obj} ELSE Doomed'
  BY <1>5, NamedTail, NextMessages DEF TakeRequest, TypeOK, Doomed
<1> QED
  BY <1>1, <1>2, <1>3, <1>6, <1>7

LEMMA EventAppended ==
    ASSUME TypeOK, NEW m \in Event, events' = Append(events, m)
    PROVE  /\ DOMAIN events = 1..Len(events) /\ Len(events) \in Nat
           /\ DOMAIN events' = 1..(Len(events) + 1)
           /\ events'[Len(events) + 1] = m
           /\ \A k \in DOMAIN events : k \in DOMAIN events' /\ events'[k] = events[k]
           /\ \A k \in DOMAIN events' : k \in DOMAIN events \/ k = Len(events) + 1
           /\ Announced' = IF m.ev = "new" THEN Announced \cup {m.obj} ELSE Announced
<1>1. events \in Seq(Event)
  BY DEF TypeOK
<1>2. m \in Announcing <=> m.ev = "new"
  BY DEF Event, Announcing
<1>3. Announced' = IF m.ev = "new" THEN Announced \cup {m.obj} ELSE Announced
  BY <1>1, <1>2, NamedAppend, NextMessages DEF Announced
<1> QED
  BY <1>1, <1>3, AppendProperties, LenProperties

\* A request that destroys nothing is served.
LEMMA DestroysShift ==
    ASSUME TypeOK, HandlerInv, NEW op \in {"create", "sync"}, TakeRequest(op),
           resources' = resources \cup (IF op = "create" THEN {Head(requests).obj} ELSE {}),
           UNCHANGED proxies
    PROVE  DestroysServed'
<1> DEFINE o == Head(requests).obj
<1>1. /\ DOMAIN requests = 1..Len(requests) /\ requests[1] = [op |-> op, obj |-> o]
      /\ DOMAIN requests' = 1..(Len(requests) - 1) /\ Len(requests) \in Nat
      /\ \A k \in DOMAIN requests' : k + 1 \in DOMAIN requests /\ requests'[k] = requests[k + 1]
      /\ Created = (IF op = "create" THEN Created' \cup {o} ELSE Created') /\ Doomed = Doomed'
      /\ resources' = resources \cup (IF op = "create" THEN {o} ELSE {})
  BY RequestTaken
<1> HIDE DEF o
<1>2. \A p \in proxies' : p \in resources' \cup Created' /\ p \notin Doomed'
  BY <1>1 DEF HandlerInv, DestroysServed
<1>3. ASSUME NEW j \in DOMAIN requests', NEW k \in DOMAIN requests',
             requests'[j].op = "destroy", requests'[k] = requests'[j]
      PROVE  j = k
  <2>1. j + 1 = k + 1
    BY <1>1, <1>3 DEF HandlerInv, DestroysServed
  <2> QED
    BY <1>1, <2>1
<1>4. ASSUME NEW k \in DOMAIN requests', requests'[k].op = "destroy", requests'[k].obj \notin resources'
      PROVE  \E j \in 1..(k - 1) : requests'[j] = [op |-> "create", obj |-> requests'[k].obj]
  <2>1. PICK j \in 1..k : requests[j] = [op |-> "create", obj |-> requests'[k].obj]
    BY <1>1, <1>4 DEF HandlerInv, DestroysServed
  <2>2. j # 1
    BY <1>1, <1>4, <2>1
  <2>3. j - 1 \in 1..(k - 1) /\ j - 1 \in DOMAIN requests'
    BY <1>1, <2>2
  <2> QED
    BY <1>1, <2>1, <2>3
<1> QED
  BY <1>2, <1>3, <1>4 DEF DestroysServed

LEMMA CreateServed ==
    ASSUME TypeOK, LeaseInv, HandlerInv, ServeCreate
    PROVE  HandlerInv'
<1> DEFINE o == Head(requests).obj
<1>1. /\ Created = Created' \cup {o} /\ Doomed = Doomed' /\ o \in LocalObject
      /\ resources' = resources \cup {o}
  BY RequestTaken DEF ServeCreate, Request
<1>2. UNCHANGED <<ids, event_handlers, proxies, failed, raised, events, gens>>
  BY DEF ServeCreate, clientVars, ids
<1>3. LeaseInv' /\ LeasedObjects' = LeasedObjects
  BY AcceptStep DEF Lease!Accept, LeasedObjects
<1>4. DestroysServed'
  BY <1>2, DestroysShift DEF ServeCreate
<1> HIDE DEF o
<1>5. Announced' = Announced /\ Running' = Running
  BY <1>2, NextMessages DEF Announced, Running
<1>6. HandlersKnown' /\ HandlersKept' /\ FailedLost' /\ EventsTimely'
  BY <1>1, <1>2, <1>3, SameIds DEF HandlerInv, HandlersKnown, HandlersKept, EventsTimely, ClientIds
<1>7. Announcements'
  <2>1. ASSUME NEW r \in resources, r.id = o.id PROVE r = o
    <3>1. r \in LocalObject
      BY <1>1, <2>1, IdsApart DEF TypeOK
    <3>2. r \in LocalResources' /\ o \in LocalResources'
      BY <1>1, <3>1, IdsApart DEF LocalResources, ClientIds
    <3> QED
      BY <1>3, <2>1, <3>2 DEF LeaseInv, LeasedOnce
  <2> QED
    BY <1>1, <1>2, <1>5, <2>1, IdsApart DEF HandlerInv, Announcements
<1>8. LiveKnown' /\ EventsInTurn' /\ GroupsKnown'
  BY <1>1, <1>2, <1>5, IdsApart DEF HandlerInv, LiveKnown, EventsInTurn, GroupsKnown
<1>9. HandlersServed'
  BY <1>1, <1>2, <1>5, IdsApart DEF HandlerInv, HandlersServed
<1> QED
  BY <1>4, <1>6, <1>7, <1>8, <1>9 DEF HandlerInv

\* Events about objects of the client's, at the end of the queue.
EventsAdded ==
    /\ DOMAIN events = 1..Len(events) /\ Len(events) \in Nat
    /\ \A k \in DOMAIN events : k \in DOMAIN events' /\ events'[k] = events[k]
    /\ \A k \in DOMAIN events' \ DOMAIN events :
         k > Len(events) /\ events'[k].obj \in LocalObject /\ events'[k].ev # "new"
    /\ Announced' = Announced

LEMMA OneAdded ==
    ASSUME TypeOK, NEW m \in Event, m.obj \in LocalObject, events' = Append(events, m)
    PROVE  EventsAdded
<1>1. m.ev # "new"
  BY IdsApart DEF Event
<1> QED
  BY <1>1, EventAppended DEF EventsAdded

LEMMA EventsJoin ==
    ASSUME TypeOK, HandlerInv, EventsAdded,
           resources' \subseteq resources, \A r \in Announced : r \in resources',
           Doomed' \subseteq Doomed,
           UNCHANGED <<event_handlers, raised, gens>>
    PROVE  Announcements' /\ LiveKnown' /\ EventsInTurn' /\ GroupsKnown'
<1>1. Announced' = Announced /\ Running' = Running
  BY DEF EventsAdded, Running
<1>2. ASSUME NEW k \in DOMAIN events, events[k].ev = "new" PROVE events[k].obj.id \in RemoteIds
  <2>1. events[k] \in Event
    BY ElementOfSeq DEF TypeOK
  <2> QED
    BY <1>2, <2>1, IdsApart DEF Event
<1>3. Announcements'
  <2>1. ASSUME NEW j \in DOMAIN events', NEW k \in DOMAIN events', events'[j].ev = "new", j < k,
               events'[k].obj.id = events'[j].obj.id
        PROVE  events'[k].obj = events'[j].obj /\ events'[k].ev # "new"
    <3>1. j \in DOMAIN events /\ events'[j] = events[j]
      BY <2>1 DEF EventsAdded
    <3>2. k \in DOMAIN events /\ events'[k] = events[k]
      BY <1>2, <2>1, <3>1, IdsApart DEF EventsAdded
    <3> QED
      BY <2>1, <3>1, <3>2 DEF HandlerInv, Announcements
  <2> QED
    BY <1>1, <2>1 DEF HandlerInv, Announcements
<1>4. LiveKnown'
  BY <1>1, IdsApart DEF HandlerInv, LiveKnown, EventsAdded
<1>5. \A k \in DOMAIN events : \A i \in 1..k : events'[i] = events[i]
  BY DEF EventsAdded
<1>6. EventsInTurn'
  <2> SUFFICES ASSUME Running', NEW k \in DOMAIN events', NEW h \in event_handlers', h \in RemoteObject,
                      events'[k].obj.id = h.id, events'[k].obj # h
               PROVE  \E i \in 1..k : events'[i] = [ev |-> "new", obj |-> events'[k].obj]
    BY DEF EventsInTurn
  <2>1. k \in DOMAIN events /\ events'[k] = events[k]
    BY IdsApart DEF EventsAdded
  <2> QED
    BY <1>1, <1>5, <2>1 DEF HandlerInv, EventsInTurn
<1>7. GroupsKnown'
  <2> SUFFICES ASSUME Running', NEW k \in DOMAIN events', events'[k].obj.kind = "group",
                      events'[k].obj \notin event_handlers'
               PROVE  \E i \in 1..k : events'[i] = [ev |-> "new", obj |-> events'[k].obj]
    BY DEF GroupsKnown
  <2>1. k \in DOMAIN events /\ events'[k] = events[k]
    BY DEF EventsAdded
  <2> QED
    BY <1>1, <1>5, <2>1 DEF HandlerInv, GroupsKnown
<1> QED
  BY <1>3, <1>4, <1>6, <1>7

\* A sync is answered: the done event and the id's return.
LEMMA SyncServed ==
    ASSUME TypeOK, LeaseInv, HandlerInv, ServeSync
    PROVE  HandlerInv'
<1> DEFINE o == Head(requests).obj
           done == [ev |-> "done", obj |-> o]
           gone == [ev |-> "delete_id", obj |-> o]
           evs == Append(events, done)
           n == Len(events)
<1>1. Created = Created' /\ Doomed = Doomed' /\ o \in Obj(ClientIds, {"callback"})
  BY RequestTaken DEF ServeSync, Request
<1>2. UNCHANGED <<ids, event_handlers, proxies, failed, raised, resources, gens>>
  BY DEF ServeSync, clientVars, ids
<1>3. LeasedObjects' = LeasedObjects
  BY AnswerStep DEF Lease!Answer, LeasedObjects
<1>4. DestroysServed'
  BY <1>2, DestroysShift DEF ServeSync
<1>5. events \in Seq(Event) /\ done \in Event /\ gone \in Event /\ done.obj = o /\ gone.obj = o
        /\ events' = Append(evs, gone)
        /\ done.ev = "done" /\ gone.ev = "delete_id"
        /\ done \notin Announcing /\ gone \notin Announcing
  BY <1>1 DEF Event, TypeOK, ServeSync, Announcing
<1>6. gone = [ev |-> "delete_id", obj |-> o]
  OBVIOUS
<1> HIDE DEF o, done, gone
<1>7. evs \in Seq(Event) /\ Named(evs, Announcing) = Announced
        /\ DOMAIN evs = 1..(n + 1) /\ evs[n + 1] = done /\ n \in Nat /\ Len(evs) = n + 1
        /\ DOMAIN events = 1..n /\ \A k \in 1..n : evs[k] = events[k]
  BY <1>5, NamedAppend, AppendProperties, LenProperties DEF Announced
<1> HIDE DEF evs
<1>8. Announced' = Announced
  BY <1>5, <1>7, NamedAppend, NextMessages
<1>9. /\ n \in Nat /\ DOMAIN events = 1..n /\ DOMAIN events' = 1..(n + 2)
      /\ events'[n + 1] = done /\ events'[n + 2] = gone
      /\ \A k \in 1..n : events'[k] = events[k]
  BY <1>5, <1>7, AppendProperties, LenProperties
<1>10. EventsAdded
  BY <1>1, <1>5, <1>8, <1>9 DEF EventsAdded
<1>11. Announcements' /\ LiveKnown' /\ EventsInTurn' /\ GroupsKnown'
  BY <1>1, <1>2, <1>10, EventsJoin DEF HandlerInv, Announcements
<1>12. EventsTimely'
  <2> SUFFICES ASSUME NEW k \in DOMAIN events', events'[k].obj \in LocalObject, events'[k].obj \notin resources'
               PROVE  \E j \in DOMAIN events' :
                         k <= j /\ events'[j] = [ev |-> "delete_id", obj |-> events'[k].obj]
    BY DEF EventsTimely, ClientIds
  <2>1. CASE k \in 1..n
    <3>1. PICK j \in DOMAIN events : k <= j /\ events[j] = [ev |-> "delete_id", obj |-> events[k].obj]
      BY <1>2, <1>9, <2>1 DEF HandlerInv, EventsTimely
    <3> QED
      BY <1>9, <2>1, <3>1
  <2>2. CASE k \notin 1..n
    BY <1>5, <1>6, <1>9, <2>2
  <2> QED
    BY <2>1, <2>2
<1>13. HandlersKnown' /\ HandlersKept' /\ HandlersServed' /\ FailedLost'
  BY <1>1, <1>2, <1>3, <1>8, SameIds
     DEF HandlerInv, HandlersKnown, HandlersKept, HandlersServed, Running, ClientIds
<1> QED
  BY <1>4, <1>11, <1>12, <1>13 DEF HandlerInv
\* An object is destroyed, and an id of the client's range is given back.
LEMMA DestroyServed ==
    ASSUME TypeOK, LeaseInv, HandlerInv, ServeDestroy
    PROVE  HandlerInv'
<1> DEFINE o == Head(requests).obj
           gone == [ev |-> "delete_id", obj |-> o]
<1>1. /\ DOMAIN requests = 1..Len(requests) /\ requests[1] = [op |-> "destroy", obj |-> o]
      /\ DOMAIN requests' = 1..(Len(requests) - 1) /\ Len(requests) \in Nat \ {0}
      /\ \A k \in DOMAIN requests' : k + 1 \in DOMAIN requests /\ requests'[k] = requests[k + 1]
      /\ Created = Created' /\ Doomed = Doomed' \cup {o} /\ o \in Object
  BY RequestTaken DEF ServeDestroy, Request
<1>2. /\ UNCHANGED <<ids, event_handlers, proxies, failed, raised, gens>>
      /\ o \in resources /\ resources' = resources \ {o}
      /\ events' = IF o.id \in ClientIds THEN Append(events, gone) ELSE events
  BY <1>1 DEF ServeDestroy, TakeRequest, Acceptable, clientVars, ids
<1>3. LeasedObjects' = LeasedObjects
  BY CloseStep DEF Lease!Close, leased, LeasedObjects
<1>4. EventsAdded /\ EventsTimely'
  <2>1. CASE o \in LocalObject
    <3>1. gone \in Event /\ events' = Append(events, gone) /\ gone.obj = o
      BY <1>2, <2>1, IdsApart DEF Event
    <3>2. EventsAdded
      BY <2>1, <3>1, OneAdded
    <3>3. ASSUME NEW k \in DOMAIN events', events'[k].obj \in LocalObject, events'[k].obj \notin resources'
          PROVE  \E j \in DOMAIN events' :
                    k <= j /\ events'[j] = [ev |-> "delete_id", obj |-> events'[k].obj]
      <4>1. CASE events'[k].obj = o
        <5>1. Len(events) + 1 \in DOMAIN events' /\ events'[Len(events) + 1] = gone /\ k <= Len(events) + 1
          BY <3>1, EventAppended
        <5> QED
          BY <4>1, <5>1
      <4>2. CASE events'[k].obj # o
        <5>1. k \in DOMAIN events /\ events'[k] = events[k]
          BY <3>1, <4>2, EventAppended
        <5>2. PICK j \in DOMAIN events : k <= j /\ events[j] = [ev |-> "delete_id", obj |-> events[k].obj]
          BY <1>2, <3>3, <4>2, <5>1 DEF HandlerInv, EventsTimely
        <5> QED
          BY <5>1, <5>2, <3>1, EventAppended
      <4> QED
        BY <4>1, <4>2
    <3> QED
      BY <3>2, <3>3 DEF EventsTimely, ClientIds
  <2>2. CASE o \in RemoteObject
    <3>1. events' = events
      BY <1>2, <2>2, IdsApart
    <3>2. EventsAdded
      BY <3>1, LenProperties, NextMessages DEF EventsAdded, Announced, TypeOK
    <3>3. EventsTimely'
      BY <1>2, <2>2, <3>1, IdsApart DEF HandlerInv, EventsTimely, ClientIds
    <3> QED
      BY <3>2, <3>3
  <2> QED
    BY <1>1, <2>1, <2>2
<1> HIDE DEF o, gone
<1>5. o \notin Created
  BY <1>2, InFlight, IdsApart DEF LeaseInv, LeasedOnce, LocalResources, Created, Named, Creating
<1>6. Announced' = Announced /\ \A r \in Announced : r \in resources'
  BY <1>1, <1>2, <1>4 DEF EventsAdded, HandlerInv, Announcements
<1>7. Announcements' /\ LiveKnown' /\ EventsInTurn' /\ GroupsKnown'
  BY <1>1, <1>2, <1>4, <1>6, EventsJoin
<1>8. DestroysServed'
  <2>1. ASSUME NEW j \in DOMAIN requests', NEW k \in DOMAIN requests',
               requests'[j].op = "destroy", requests'[k] = requests'[j]
        PROVE  j = k
    <3>1. j + 1 = k + 1
      BY <1>1, <2>1 DEF HandlerInv, DestroysServed
    <3> QED
      BY <1>1, <3>1
  <2>2. ASSUME NEW k \in DOMAIN requests', requests'[k].op = "destroy" PROVE requests'[k].obj # o
    <3>1. requests[k + 1] \in Request /\ requests[k + 1].op = "destroy" /\ k + 1 # 1 /\ k + 1 \in DOMAIN requests
      BY <1>1, <2>2, ElementOfSeq DEF TypeOK
    <3>2. requests[k + 1] # requests[1]
      BY <1>1, <3>1 DEF HandlerInv, DestroysServed
    <3> QED
      BY <1>1, <2>2, <3>1, <3>2 DEF Request
  <2>3. ASSUME NEW k \in DOMAIN requests', requests'[k].op = "destroy", requests'[k].obj \notin resources'
        PROVE  \E j \in 1..(k - 1) : requests'[j] = [op |-> "create", obj |-> requests'[k].obj]
    <3>1. PICK j \in 1..k : requests[j] = [op |-> "create", obj |-> requests'[k].obj]
      BY <1>1, <1>2, <2>2, <2>3 DEF HandlerInv, DestroysServed
    <3>2. j # 1
      BY <1>1, <3>1
    <3>3. j - 1 \in 1..(k - 1) /\ j - 1 \in DOMAIN requests'
      BY <1>1, <3>2
    <3> QED
      BY <1>1, <3>1, <3>3
  <2>4. \A p \in proxies' : p \in resources' \cup Created' /\ p \notin Doomed'
    BY <1>1, <1>2 DEF HandlerInv, DestroysServed
  <2> QED
    BY <2>1, <2>3, <2>4 DEF DestroysServed
<1>9. HandlersKnown' /\ HandlersKept' /\ FailedLost'
  BY <1>2, <1>3, SameIds DEF HandlerInv, HandlersKnown, HandlersKept, ClientIds
<1>10. HandlersServed'
  BY <1>1, <1>2, <1>5, <1>6 DEF HandlerInv, HandlersServed, Running
<1> QED
  BY <1>4, <1>7, <1>8, <1>9, <1>10 DEF HandlerInv

\* An event about a live object.
LEMMA EventSent ==
    ASSUME TypeOK, LeaseInv, HandlerInv, NEW o \in resources, NEW t \in {"event", "finished"},
           [ev |-> t, obj |-> o] \in Event, events' = Append(events, [ev |-> t, obj |-> o]),
           LeasedObjects' = LeasedObjects,
           UNCHANGED <<ids, event_handlers, proxies, failed, raised, requests, resources, gens>>
    PROVE  HandlerInv'
<1> DEFINE m == [ev |-> t, obj |-> o]
<1>1. m \in Event /\ events' = Append(events, m) /\ m.obj = o /\ m.ev = t /\ o \in Object
  BY DEF TypeOK
<1> HIDE DEF m
<1>2. Created' = Created /\ Doomed' = Doomed /\ Announced' = Announced /\ Running' = Running
  BY <1>1, EventAppended, NextMessages DEF Created, Doomed, Running
<1>3. /\ \A k \in DOMAIN events' : \/ k \in DOMAIN events /\ events'[k] = events[k]
                                   \/ k = Len(events) + 1 /\ events'[k] = m
      /\ \A k \in DOMAIN events : k \in DOMAIN events' /\ k < Len(events) + 1
      /\ \A k \in DOMAIN events : \A i \in 1..k : i \in DOMAIN events /\ events'[i] = events[i]
  BY <1>1, EventAppended
<1>4. \A i \in DOMAIN events : i \in 1..(Len(events) + 1) /\ events'[i] = events[i]
  BY <1>1, EventAppended
<1>5. EventsTimely'
  BY <1>1, <1>3 DEF HandlerInv, EventsTimely, ClientIds
<1>6. Announcements'
  <2>1. ASSUME NEW j \in DOMAIN events', NEW k \in DOMAIN events', events'[j].ev = "new", j < k,
               events'[k].obj.id = events'[j].obj.id
        PROVE  events'[k].obj = events'[j].obj /\ events'[k].ev # "new"
    <3>1. j \in DOMAIN events /\ events'[j] = events[j]
      BY <1>1, <1>3, <2>1
    <3>2. CASE k \in DOMAIN events
      BY <1>3, <2>1, <3>1, <3>2 DEF HandlerInv, Announcements
    <3>3. CASE k \notin DOMAIN events
      <4>1. events[j] \in Event
        BY <3>1, ElementOfSeq DEF TypeOK
      <4>2. events[j] = [ev |-> "new", obj |-> events[j].obj]
        BY <2>1, <3>1, <4>1 DEF Event
      <4>3. events[j].obj \in Announced
        BY <3>1, <4>2, InFlight
      <4> QED
        BY <1>1, <1>3, <2>1, <3>1, <3>3, <4>3 DEF HandlerInv, Announcements
    <3> QED
      BY <3>2, <3>3
  <2> QED
    BY <1>2, <2>1 DEF HandlerInv, Announcements
<1>7. LiveKnown'
  BY <1>1, <1>2, <1>3 DEF HandlerInv, LiveKnown, Announcements
<1>8. EventsInTurn'
  <2> SUFFICES ASSUME Running, NEW k \in DOMAIN events', NEW h \in event_handlers, h \in RemoteObject,
                      events'[k].obj.id = h.id, events'[k].obj # h
               PROVE  \E i \in 1..k : events'[i] = [ev |-> "new", obj |-> events'[k].obj]
    BY <1>2 DEF EventsInTurn
  <2>1. CASE k \in DOMAIN events
    BY <1>3, <2>1 DEF HandlerInv, EventsInTurn
  <2>2. CASE k \notin DOMAIN events
    <3>1. k = Len(events) + 1 /\ events'[k].obj = o /\ o \in RemoteObject
      BY <1>1, <1>3, <2>2, IdsApart
    <3>2. o \in Announced
      BY <3>1 DEF HandlerInv, LiveKnown
    <3>3. PICK i \in DOMAIN events : events[i] = [ev |-> "new", obj |-> o]
      BY <3>2, InFlight
    <3> QED
      BY <1>4, <3>1, <3>3
  <2> QED
    BY <2>1, <2>2
<1>9. GroupsKnown'
  <2> SUFFICES ASSUME Running, NEW k \in DOMAIN events', events'[k].obj.kind = "group",
                      events'[k].obj \notin event_handlers
               PROVE  \E i \in 1..k : events'[i] = [ev |-> "new", obj |-> events'[k].obj]
    BY <1>2 DEF GroupsKnown
  <2>1. CASE k \in DOMAIN events
    BY <1>3, <2>1 DEF HandlerInv, GroupsKnown
  <2>2. CASE k \notin DOMAIN events
    <3>1. k = Len(events) + 1 /\ events'[k].obj = o
      BY <1>1, <1>3, <2>2
    <3>2. o \in Announced
      BY <3>1 DEF HandlerInv, HandlersServed
    <3>3. PICK i \in DOMAIN events : events[i] = [ev |-> "new", obj |-> o]
      BY <3>2, InFlight
    <3> QED
      BY <1>4, <3>1, <3>3
  <2> QED
    BY <2>1, <2>2
<1>10. HandlersKnown' /\ HandlersKept' /\ FailedLost' /\ DestroysServed' /\ HandlersServed'
  BY <1>2, SameIds
     DEF HandlerInv, HandlersKnown, HandlersKept, DestroysServed, HandlersServed, ClientIds
<1> QED
  BY <1>5, <1>6, <1>7, <1>8, <1>9, <1>10 DEF HandlerInv

\* The compositor makes an object with an id that is free on its side.
LEMMA NewSent ==
    ASSUME TypeOK, LeaseInv, HandlerInv, NEW id \in RemoteIds, NEW kind \in RemoteKinds,
           SendNew(id, kind), LeasedObjects' = LeasedObjects
    PROVE  HandlerInv'
<1> DEFINE o == [id |-> id, gen |-> gens + 1, kind |-> kind]
           m == [ev |-> "new", obj |-> o]
<1>1. /\ o \in RemoteObject /\ m \in Event /\ events' = Append(events, m)
      /\ m.obj = o /\ m.ev = "new" /\ o.id = id /\ o.gen = gens + 1
      /\ resources' = resources \cup {o} /\ gens' = gens + 1 /\ gens \in Nat
      /\ \A r \in resources : r.id # o.id
      /\ UNCHANGED <<ids, event_handlers, proxies, failed, raised, requests>>
  BY BoundAssumption DEF SendNew, TypeOK, Event, Live, clientVars, ids
<1>2. m = [ev |-> "new", obj |-> o]
  OBVIOUS
<1> HIDE DEF m, o
<1>3. Created' = Created /\ Doomed' = Doomed /\ Announced' = Announced \cup {o} /\ Running' = Running
  BY <1>1, EventAppended, NextMessages DEF Created, Doomed, Running
<1>4. /\ \A k \in DOMAIN events' : \/ k \in DOMAIN events /\ events'[k] = events[k]
                                   \/ k = Len(events) + 1 /\ events'[k] = m
      /\ \A k \in DOMAIN events : k \in DOMAIN events' /\ k < Len(events) + 1
      /\ \A k \in DOMAIN events : \A i \in 1..k : i \in DOMAIN events /\ events'[i] = events[i]
      /\ Len(events) + 1 \in DOMAIN events' /\ events'[Len(events) + 1] = m /\ Len(events) + 1 \in 1..(Len(events) + 1)
  BY <1>1, EventAppended
<1>5. EventsTimely'
  BY <1>1, <1>4, IdsApart DEF HandlerInv, EventsTimely, ClientIds
<1>6. Announcements'
  <2>1. ASSUME NEW j \in DOMAIN events', NEW k \in DOMAIN events', events'[j].ev = "new", j < k,
               events'[k].obj.id = events'[j].obj.id
        PROVE  events'[k].obj = events'[j].obj /\ events'[k].ev # "new"
    <3>1. j \in DOMAIN events /\ events'[j] = events[j]
      <4>1. j # Len(events) + 1
        BY <1>1, <1>4, <2>1, EventAppended
      <4> QED
        BY <1>4, <4>1
    <3>2. CASE k \in DOMAIN events
      BY <1>4, <2>1, <3>1, <3>2 DEF HandlerInv, Announcements
    <3>3. CASE k \notin DOMAIN events
      <4>1. events[j] \in Event
        BY <3>1, ElementOfSeq DEF TypeOK
      <4>2. events[j] = [ev |-> "new", obj |-> events[j].obj]
        BY <2>1, <3>1, <4>1 DEF Event
      <4>3. events[j].obj \in resources
        BY <3>1, <4>2, InFlight DEF HandlerInv, Announcements
      <4> QED
        BY <1>1, <1>4, <2>1, <3>1, <3>3, <4>3
    <3> QED
      BY <3>2, <3>3
  <2>2. \A p \in (event_handlers' \cup resources') \cap RemoteObject : p.gen <= gens'
    <3> SUFFICES ASSUME NEW p \in (event_handlers \cup resources) \cap RemoteObject
                 PROVE  p.gen <= gens + 1
      BY <1>1
    <3>1. p.gen <= gens /\ p.gen \in Nat
      BY BoundAssumption DEF HandlerInv, Announcements
    <3> QED
      BY <1>1, <3>1
  <2>3. o \notin event_handlers \cup Doomed
    <3>1. o \notin event_handlers
      BY <1>1 DEF HandlerInv, Announcements
    <3>2. ASSUME o \in Doomed PROVE FALSE
      <4>1. PICK k \in DOMAIN requests : requests[k] = [op |-> "destroy", obj |-> o]
        BY <3>2, InFlight
      <4>2. PICK j \in 1..(k - 1) : requests[j] = [op |-> "create", obj |-> o]
        BY <1>1, <4>1 DEF HandlerInv, DestroysServed
      <4>3. j \in DOMAIN requests
        BY <4>1, LenProperties DEF TypeOK
      <4>4. requests[j] \in Request
        BY <4>3, ElementOfSeq DEF TypeOK
      <4> QED
        BY <1>1, <4>2, <4>4, IdsApart DEF Request
    <3> QED
      BY <3>1, <3>2
  <2> QED
    BY <1>1, <1>3, <2>1, <2>2, <2>3 DEF HandlerInv, Announcements
<1>7. LiveKnown'
  BY <1>1, <1>3, <1>4 DEF HandlerInv, LiveKnown
<1>8. EventsInTurn'
  BY <1>1, <1>2, <1>3, <1>4 DEF HandlerInv, EventsInTurn
<1>9. GroupsKnown'
  BY <1>1, <1>2, <1>3, <1>4 DEF HandlerInv, GroupsKnown
<1>10. HandlersServed' /\ DestroysServed'
  BY <1>1, <1>3 DEF HandlerInv, HandlersServed, DestroysServed
<1>11. HandlersKnown' /\ HandlersKept' /\ FailedLost'
  BY <1>1, SameIds DEF HandlerInv, HandlersKnown, HandlersKept, ClientIds
<1> QED
  BY <1>5, <1>6, <1>7, <1>8, <1>9, <1>10, <1>11 DEF HandlerInv
-----------------------------------------------------------------------------
\* An event about an object of the client's comes while the object is leased.
LEMMA EventLeased ==
    ASSUME TypeOK, HandlerInv, NEW k \in DOMAIN events, events[k].obj \in LocalObject
    PROVE  events[k].obj \in LeasedObjects
<1> DEFINE o == events[k].obj
<1>1. CASE o \in resources
  BY <1>1, IdsApart DEF LeasedObjects, LocalResources
<1>2. CASE \E j \in DOMAIN events : events[j] = [ev |-> "delete_id", obj |-> o]
  <2>1. [ev |-> "delete_id", obj |-> o] \in Deleting
    BY DEF Deleting
  <2>2. o \in Deleted
    BY <1>2, <2>1 DEF Deleted, Named
  <2> QED
    BY <2>2 DEF LeasedObjects
<1> QED
  BY <1>1, <1>2 DEF HandlerInv, EventsTimely

\* The handler _handle_event finds is the object's own.
LEMMA HeadHandled ==
    ASSUME TypeOK, LeaseInv, HandlerInv, Running, events # <<>>, Head(events).ev # "new",
           NEW h \in event_handlers, h.id = Head(events).obj.id
    PROVE  h = Head(events).obj
<1> DEFINE o == Head(events).obj
<1>1. 1 \in DOMAIN events /\ Head(events) = events[1] /\ events[1] \in Event /\ h \in Object
  BY HeadTailProperties, EmptySeq, LenProperties, ElementOfSeq DEF TypeOK
<1>2. o \in Object
  BY <1>1 DEF Event
<1>3. CASE o \in LocalObject
  <2>1. o \in LeasedObjects
    BY <1>1, <1>3, EventLeased
  <2>2. h \in LocalObject
    BY <1>1, <1>3, IdsApart
  <2>3. h \in LeasedObjects
    BY <2>1, <2>2 DEF HandlerInv, HandlersKnown, FailedLost
  <2> QED
    BY <2>1, <2>3, LeasedUnique
<1>4. CASE o \in RemoteObject
  <2>1. h \in RemoteObject
    BY <1>1, <1>4, IdsApart
  <2>2. \A i \in 1..1 : events[i] # [ev |-> "new", obj |-> o]
    BY <1>1
  <2> QED
    BY <1>1, <2>1, <2>2 DEF HandlerInv, EventsInTurn
<1> QED
  BY <1>2, <1>3, <1>4

\* An event that finds no handler is about an object the application has destroyed.
LEMMA HeadUnhandled ==
    ASSUME TypeOK, LeaseInv, HandlerInv, Running, events # <<>>,
           Head(events).ev \in {"event", "finished", "done"}, ~Installed(Head(events).obj.id)
    PROVE  Head(events).obj.kind \in {"forget", "remote"} /\ Head(events).obj \notin proxies
<1> DEFINE o == Head(events).obj
<1>1. 1 \in DOMAIN events /\ Head(events) = events[1] /\ events[1] \in Event
  BY HeadTailProperties, EmptySeq, LenProperties, ElementOfSeq DEF TypeOK
<1>2. o \in Object /\ o.kind # "silent"
  BY <1>1 DEF Event
<1>3. o \notin event_handlers
  BY DEF Installed
<1>4. o \notin proxies
  BY <1>2, <1>3 DEF HandlerInv, HandlersKept
<1>5. o.kind # "group"
  <2>1. \A i \in 1..1 : events[i] # [ev |-> "new", obj |-> o]
    BY <1>1
  <2> QED
    BY <1>1, <1>3, <2>1 DEF HandlerInv, GroupsKnown
<1>6. o.kind \notin {"keep", "callback"}
  <2>1. o.kind \in {"keep", "callback"} => o \in LeasedObjects
    BY <1>1, <1>2, EventLeased
  <2> QED
    BY <1>3, <2>1 DEF HandlerInv, HandlersKept
<1> QED
  BY <1>2, <1>4, <1>5, <1>6

\* An announcement that finds its id taken finds a group that destroy() has left.
LEMMA HeadInstalled ==
    ASSUME TypeOK, LeaseInv, HandlerInv, Running, events # <<>>,
           Head(events).ev = "new", NEW h \in event_handlers, h.id = Head(events).obj.id
    PROVE  h \in LeftGroups
<1> DEFINE o == Head(events).obj
<1>1. 1 \in DOMAIN events /\ Head(events) = events[1] /\ events[1] \in Event /\ h \in Object
  BY HeadTailProperties, EmptySeq, LenProperties, ElementOfSeq DEF TypeOK
<1>2. o \in RemoteObject /\ events[1] = [ev |-> "new", obj |-> o]
  BY <1>1 DEF Event
<1>3. o \in resources /\ o \notin event_handlers
  BY <1>1, <1>2, InFlight DEF HandlerInv, Announcements
<1>4. h \notin proxies
  BY <1>3, ProxyKnown
<1>5. h \in RemoteObject /\ h \notin failed
  BY <1>1, <1>2, IdsApart DEF HandlerInv, FailedLost
<1>6. h.kind = "group"
  BY <1>4, <1>5 DEF HandlerInv, HandlersKnown
<1> QED
  BY <1>4, <1>6 DEF LeftGroups

LEMMA HandlerInit == Init => HandlerInv
<1> SUFFICES ASSUME Init PROVE HandlerInv
  OBVIOUS
<1>1. TypeOK /\ LeaseInv
  BY InitTyped, LeaseInit
<1>2. /\ event_handlers = {Display, Registry, InitialSync} /\ resources = {Display}
      /\ proxies = {} /\ failed = {} /\ events = <<>> /\ DOMAIN events = {}
      /\ DOMAIN requests = {1, 2} /\ next_id = 4
      /\ requests[1] = [op |-> "create", obj |-> Registry]
      /\ requests[2] = [op |-> "sync", obj |-> InitialSync]
  BY DEF Init
<1>3. /\ Display.id = 1 /\ Registry.id = 2 /\ InitialSync.id = 3
      /\ Display.kind = "keep" /\ Registry.kind = "keep" /\ InitialSync.kind = "callback"
      /\ Display \in LocalObject /\ Registry \in LocalObject /\ InitialSync \in LocalObject
  BY IdAssumption, BoundAssumption DEF Display, Registry, InitialSync, ClientIds
<1>4. requests[1] \in Opening /\ requests[2] \in Opening /\ requests[1].obj = Registry
        /\ requests[2].obj = InitialSync
  BY <1>2, <1>3 DEF Opening
<1>5. Created = {Registry} /\ Doomed = {} /\ Announced = {}
  BY <1>1, <1>2, InFlight
<1>6. LeasedObjects = {Display, Registry, InitialSync}
  <2>1. Requested = {Registry, InitialSync}
    BY <1>2, <1>4 DEF Requested, Named
  <2>2. Deleted = {}
    BY <1>2 DEF Deleted, Named
  <2>3. LocalResources = {Display}
    BY <1>2, <1>3, IdsApart DEF LocalResources
  <2> QED
    BY <2>1, <2>2, <2>3 DEF LeasedObjects
<1> USE <1>2, <1>3, <1>5, <1>6
<1>7. HandlersKnown /\ HandlersKept /\ FailedLost
  BY DEF HandlersKnown, HandlersKept, FailedLost
<1>8. DestroysServed /\ EventsTimely
  BY DEF DestroysServed, EventsTimely
<1>9. Announcements /\ LiveKnown /\ EventsInTurn
  BY IdsApart DEF Announcements, LiveKnown, EventsInTurn
<1>10. HandlersServed /\ GroupsKnown
  BY DEF HandlersServed, GroupsKnown
<1> QED
  BY <1>7, <1>8, <1>9, <1>10 DEF HandlerInv

\* An object of the client's making gets its handler: add_event_handler never
\* refuses an id of the client's range.
LEMMA NeverRefused ==
    ASSUME TypeOK, LeaseInv, HandlerInv, Running, TakeObjId, NEW kind, AddEventHandler(Allocate(kind))
    PROVE  event_handlers' = event_handlers \cup {Allocate(kind)} /\ UNCHANGED raised /\ raised' = {}
<1>1. Allocate(kind).id = NewObjId
  BY DEF Allocate
<1>2. ~Installed(Allocate(kind).id)
  BY <1>1, NotInstalled DEF Installed
<1> QED
  BY <1>2 DEF AddEventHandler, Running
LEMMA HandlerStep ==
    ASSUME TypeOK, LeaseInv, HandlerInv, [Next]_vars
    PROVE  HandlerInv'
<1> USE DEF clientVars, serverVars, ids
<1>0. /\ UNCHANGED leased => LeasedObjects' = LeasedObjects
      /\ events' = events => Deleted' = Deleted /\ DistinctIds(events', Deleting)
      /\ resources' = resources => LocalResources' = LocalResources
  BY NextNames DEF leased, LeasedObjects, Deleted, LeaseInv, LocalResources, ClientIds
<1>1. CASE DoSync
  <2>1. Running /\ AddEventHandler(Allocate("callback")) /\ TakeObjId
    BY <1>1 DEF DoSync
  <2>2. event_handlers' = event_handlers \cup {Allocate("callback")} /\ UNCHANGED raised /\ raised' = {}
    BY <2>1, NeverRefused
  <2> QED
    BY <1>1, <2>2, ObjectMade DEF DoSync
<1>2. ASSUME NEW kind \in Kinds, Create(kind) PROVE HandlerInv'
  <2>1. Running /\ AddEventHandler(Allocate(kind)) /\ TakeObjId
    BY <1>2 DEF Create
  <2>2. event_handlers' = event_handlers \cup {Allocate(kind)} /\ UNCHANGED raised /\ raised' = {}
    BY <2>1, NeverRefused
  <2> QED
    BY <1>2, <2>2, ObjectMade DEF Create
<1>3. ASSUME NEW kind \in Kinds, CreateFails(kind) PROVE HandlerInv'
  <2>1. Running /\ AddEventHandler(Allocate(kind)) /\ TakeObjId
    BY <1>3 DEF CreateFails
  <2>2. event_handlers' = event_handlers \cup {Allocate(kind)} /\ UNCHANGED raised /\ raised' = {}
    BY <2>1, NeverRefused
  <2> QED
    BY <1>3, <2>2, ObjectLost DEF CreateFails
<1>4. CASE CreateSilent
  BY <1>4, ObjectMade DEF CreateSilent
<1>5. ASSUME NEW o \in proxies, Destroy(o) PROVE HandlerInv'
  <2>1. EventsPassed(0)
    BY <1>5, NonePassed DEF Destroy
  <2>2. UNCHANGED leased
    BY <1>0, <1>5, DestroyStep DEF Destroy, TypeOK
  <2> QED
    BY <1>0, <1>5, <2>1, <2>2, ObjectDestroyed DEF Destroy
<1>6. CASE HandleEvent
  <2>1. EventsPassed(1) /\ UNCHANGED leased
    BY <1>0, <1>6, OnePassed, OtherTaken, QuietStep DEF HandleEvent
  <2> QED
    BY <1>0, <1>6, <2>1, EventRead DEF HandleEvent, Running
<1>7. CASE HandleFinished
  <2>1. PICK h \in event_handlers :
          /\ h.id = Head(events).obj.id
          /\ Send("destroy", h)
          /\ proxies' = proxies \ {h}
          /\ event_handlers' = HandlersAfterDestroy(h)
    BY <1>7 DEF HandleFinished
  <2>2. EventsPassed(1) /\ UNCHANGED leased
    BY <1>7, <2>1, OnePassed, OtherTaken, DestroyStep DEF HandleFinished, TypeOK
  <2>3. Running /\ events # <<>> /\ Head(events).ev = "finished" /\ Head(events) \in Event
    BY <1>7, TakeTyped DEF HandleFinished, Take
  <2>4. h = Head(events).obj
    BY <2>1, <2>3, HeadHandled
  <2>5. h \in proxies \cup failed
    BY <2>3, <2>4 DEF Event, HandlerInv, HandlersKnown
  <2>6. h \notin failed
    <3>1. 1 \in DOMAIN events /\ Head(events) = events[1]
      BY <2>3, HeadTailProperties, EmptySeq, LenProperties DEF TypeOK
    <3>2. h \in LocalObject => h \in LeasedObjects
      BY <2>4, <3>1, EventLeased
    <3> QED
      BY <3>2 DEF HandlerInv, FailedLost
  <2>7. h \in proxies
    BY <2>5, <2>6
  <2> QED
    BY <1>0, <1>7, <2>1, <2>2, <2>7, ObjectDestroyed DEF HandleFinished
<1>8. CASE HandleDone
  <2>1. EventsPassed(1) /\ UNCHANGED leased
    BY <1>0, <1>8, OnePassed, OtherTaken, QuietStep DEF HandleDone
  <2> QED
    BY <1>0, <1>8, <2>1, EventRead DEF HandleDone, Running
<1>9. CASE HandleUnknown
  <2>1. EventsPassed(1) /\ UNCHANGED leased
    BY <1>0, <1>9, OnePassed, OtherTaken, QuietStep DEF HandleUnknown
  <2>2. Running' => Running
    BY <1>9 DEF HandleUnknown, Take
  <2> QED
    BY <1>0, <1>9, <2>1, <2>2, EventRead DEF HandleUnknown
<1>10. CASE HandleDeleteId
  BY <1>10, ObjectReturned
<1>11. CASE HandleNew
  <2>1. UNCHANGED leased
    BY <1>0, <1>11, OtherTaken, QuietStep DEF HandleNew
  <2> QED
    BY <1>0, <1>11, <2>1, ObjectAnnounced
<1>12. CASE ServeCreate
  BY <1>12, CreateServed
<1>13. CASE ServeSync
  BY <1>13, SyncServed
<1>14. CASE ServeDestroy
  BY <1>14, DestroyServed
<1>15. ASSUME NEW o \in resources, SendEvent(o) \/ SendFinished(o) PROVE HandlerInv'
  <2>1. PICK t \in {"event", "finished"} :
            /\ events' = Append(events, [ev |-> t, obj |-> o])
            /\ t = "event" => o.kind # "silent"
            /\ t = "finished" => o.kind \in {"forget", "remote"}
    BY <1>15 DEF SendEvent, SendFinished
  <2>2. [ev |-> t, obj |-> o] \in Event /\ [ev |-> t, obj |-> o] \notin Deleting
    BY <2>1 DEF Event, Deleting, TypeOK
  <2>3. UNCHANGED leased
    BY <1>0, <1>15, <2>1, <2>2, OtherEvent, QuietStep DEF SendEvent, SendFinished
  <2> QED
    BY <1>0, <1>15, <2>1, <2>2, <2>3, EventSent DEF SendEvent, SendFinished
<1>16. ASSUME NEW id \in RemoteIds, NEW kind \in Kinds \cap RemoteKinds, SendNew(id, kind)
       PROVE HandlerInv'
  <2> DEFINE o == [id |-> id, gen |-> gens + 1, kind |-> kind]
             m == [ev |-> "new", obj |-> o]
  <2>1. o \in RemoteObject /\ m \in Event /\ m \notin Deleting
    BY <1>16, BoundAssumption DEF SendNew, TypeOK, Event, Deleting
  <2>2. LocalResources' = LocalResources
    BY <1>16, <2>1, IdsApart DEF SendNew, LocalResources, ClientIds
  <2>3. UNCHANGED leased
    BY <1>16, <2>1, <2>2, OtherEvent, QuietStep DEF SendNew
  <2> QED
    BY <1>0, <1>16, <2>3, NewSent
<1>17. CASE Reject \/ UNCHANGED vars
  <2>1. /\ UNCHANGED <<next_id, obj_ids_reuse, event_handlers, proxies, failed, raised>>
        /\ UNCHANGED <<requests, events, resources, gens>>
    BY <1>17 DEF Reject, vars
  <2>2. EventsPassed(0) /\ UNCHANGED leased
    BY <1>0, <2>1, NonePassed, QuietStep
  <2> QED
    BY <1>0, <2>1, <2>2, EventRead DEF Running
<1> QED
  BY <1>1, <1>2, <1>3, <1>4, <1>5, <1>6, <1>7, <1>8, <1>9, <1>10, <1>11, <1>12, <1>13,
     <1>14, <1>15, <1>16, <1>17 DEF Next, Call, Dispatch, Serve, Announce

\* At every stage of its life an object is found in the tables and queues of the
\* client and the compositor that HandlerInv says.
THEOREM ObjectsAccounted == Spec => []HandlerInv
<1>1. Init => HandlerInv
  BY HandlerInit
<1>2. TypeOK /\ LeaseInv /\ HandlerInv /\ [Next]_vars => HandlerInv'
  BY HandlerStep
<1> QED
  BY <1>1, <1>2, TypeCorrect, IdsAccounted, PTL DEF Spec

\* The event handled next is never given to the handler of another object that
\* has, or had, the same id (_handle_event looks handlers up by id alone).
THEOREM EventsRouted == Spec => []NoMisrouting
<1>1. TypeOK /\ LeaseInv /\ HandlerInv => NoMisrouting
  BY HeadHandled DEF NoMisrouting
<1> QED
  BY <1>1, TypeCorrect, IdsAccounted, ObjectsAccounted, PTL

\* The loop is left by an exception in two cases only: an event comes for an
\* object whose destroy() has removed the handler, or a new object has the id of
\* a group that destroy() has left in the table.
THEOREM RaisesAreExplained == Spec => []RaisesExplained
<1>1. Init => RaisesExplained
  BY DEF Init, RaisesExplained
<1>2. ASSUME TypeOK, LeaseInv, HandlerInv, RaisesExplained, [Next]_vars
      PROVE  RaisesExplained'
  <2> USE DEF clientVars, serverVars
  <2>1. CASE Serve \/ Announce \/ UNCHANGED vars
    BY <1>2, <2>1 DEF Serve, Announce, ServeCreate, ServeSync, ServeDestroy, Reject, SendEvent,
       SendFinished, SendNew, vars, RaisesExplained, LeftGroups
  <2>2. CASE Call
    <3>1. Running /\ UNCHANGED raised
      BY <2>2, <1>2, NeverRefused DEF Call, DoSync, Create, CreateFails, CreateSilent, Destroy
    <3> QED
      BY <3>1 DEF Running, RaisesExplained
  <2>3. CASE HandleEvent \/ HandleFinished \/ HandleDone \/ HandleDeleteId
    BY <2>3 DEF HandleEvent, HandleFinished, HandleDone, HandleDeleteId, Take, Running,
       RaisesExplained
  <2>4. CASE HandleUnknown
    <3>1. PICK t \in {"event", "finished", "done"} :
            /\ Take(t)
            /\ ~Installed(Head(events).obj.id)
            /\ raised' = {[why |-> "invalid", obj |-> Head(events).obj]}
            /\ UNCHANGED proxies
      BY <2>4 DEF HandleUnknown, Raise
    <3>2. Head(events).obj.kind \in {"forget", "remote"} /\ Head(events).obj \notin proxies
      BY <1>2, <3>1, HeadUnhandled DEF Take
    <3> QED
      BY <3>1, <3>2 DEF RaisesExplained
  <2>5. CASE HandleNew
    <3>1. CASE ~Installed(Head(events).obj.id)
      BY <2>5, <3>1 DEF HandleNew, AddEventHandler, Take, Running, RaisesExplained
    <3>2. CASE Installed(Head(events).obj.id)
      <4>1. /\ raised' = {[why |-> "installed", obj |-> Head(events).obj]}
            /\ UNCHANGED <<event_handlers, proxies>>
            /\ Running /\ events # <<>> /\ Head(events).ev = "new"
        BY <2>5, <3>2 DEF HandleNew, AddEventHandler, Raise, Take
      <4>2. PICK h \in event_handlers : h.id = Head(events).obj.id
        BY <3>2 DEF Installed
      <4>3. h \in LeftGroups'
        BY <1>2, <4>1, <4>2, HeadInstalled DEF LeftGroups
      <4> QED
        BY <4>1, <4>2, <4>3 DEF RaisesExplained
    <3> QED
      BY <3>1, <3>2
  <2> QED
    BY <1>2, <2>1, <2>2, <2>3, <2>4, <2>5 DEF Next, Dispatch
<1> QED
  BY <1>1, <1>2, TypeCorrect, IdsAccounted, ObjectsAccounted, PTL DEF Spec

\* Once everything in flight has arrived the two tables agree: no handler is
\* left for an object that is gone, except those of groups, none for one that never
\* was, except where its creation failed, and no live object lacks its handler.
THEOREM TablesMeet == Spec => []TablesAgree
<1>1. ASSUME TypeOK, LeaseInv, HandlerInv PROVE TablesAgree
  <2> SUFFICES ASSUME Running, requests = <<>>, events = <<>>
               PROVE  event_handlers = {r \in resources : r.kind # "silent"} \cup LeftGroups \cup failed
    BY DEF TablesAgree
  <2>1. Requested = {} /\ Deleted = {} /\ Created = {} /\ Doomed = {} /\ Announced = {}
    BY DEF Requested, Deleted, Created, Doomed, Announced, Named
  <2>2. ASSUME NEW h \in event_handlers, h \notin LeftGroups, h \notin failed
        PROVE  h \in resources /\ h.kind # "silent"
    <3>1. h \in Object /\ h.kind # "silent"
      BY <1>1 DEF TypeOK, HandlerInv, HandlersKnown
    <3>2. CASE h \in LocalObject
      BY <1>1, <2>1, <2>2, <3>1, <3>2 DEF HandlerInv, HandlersKnown, LeasedObjects, LocalResources
    <3>3. CASE h \in RemoteObject
      <4>1. h \in proxies
        BY <1>1, <2>2, <3>3 DEF LeftGroups, HandlerInv, HandlersKnown
      <4> QED
        BY <1>1, <3>1, <3>3, <4>1, ProxyKnown
    <3> QED
      BY <3>1, <3>2, <3>3
  <2>3. ASSUME NEW r \in resources, r.kind # "silent" PROVE r \in event_handlers
    <3>1. CASE r.kind \in {"keep", "callback"}
      <4>1. r \in LocalObject
        BY <1>1, <3>1 DEF TypeOK
      <4>2. r \in LeasedObjects
        BY <4>1, IdsApart DEF LeasedObjects, LocalResources
      <4> QED
        BY <1>1, <3>1, <4>2 DEF HandlerInv, HandlersKept
    <3>2. CASE r.kind \in {"forget", "remote"}
      BY <1>1, <2>1, <3>2 DEF HandlerInv, HandlersServed, HandlersKept
    <3>3. CASE r.kind = "group"
      BY <1>1, <2>1, <3>3 DEF HandlerInv, HandlersServed
    <3> QED
      BY <1>1, <2>3, <3>1, <3>2, <3>3 DEF TypeOK
  <2> QED
    BY <1>1, <2>2, <2>3 DEF LeftGroups, HandlerInv, HandlersKept
<1> QED
  BY <1>1, TypeCorrect, IdsAccounted, ObjectsAccounted, PTL

-----------------------------------------------------------------------------
\* What the compositor makes of the requests: it rejects none but for an id that a
\* failed creation has skipped, and it answers syncs in order.

\* Ids are opened in the order of the counter, but for those that are used again.
OpenedInOrder ==
    \A j, k \in DOMAIN requests :
        j < k /\ requests[j] \in Opening /\ requests[k] \in Opening =>
            requests[j].obj.id < requests[k].obj.id \/ requests[k].obj.id <= highest

\* Every id the counter has given out has reached the compositor, is on its way or
\* was lost, and the compositor has been told of an id before it is used again.
IdsInOrder ==
    /\ \A i \in 1..(next_id - 1) :
         i <= highest \/ \E o \in Requested \cup failed : o.id = i
    /\ \A o \in LocalResources \cup Deleted : o.id <= highest
    /\ \A k \in DOMAIN obj_ids_reuse : obj_ids_reuse[k] <= highest
    /\ OpenedInOrder

\* A request that is rejected stays at the head of the queue.
RejectInv == rejected => requests # <<>> /\ NeverRejected

-----------------------------------------------------------------------------
LEMMA OrderTyped ==
    ASSUME TypeOK
    PROVE  /\ highest \in Nat /\ next_id \in Nat
           /\ requests \in Seq(Request) /\ Len(requests) \in Nat /\ DOMAIN requests = 1..Len(requests)
           /\ \A k \in DOMAIN requests : requests[k] \in Opening => requests[k].obj.id \in Nat
           /\ \A k \in DOMAIN obj_ids_reuse : obj_ids_reuse[k] \in Nat
           /\ \A o \in LeasedObjects : o.id \in Nat
<1>1. highest \in Nat /\ next_id \in Nat
  BY IdAssumption DEF TypeOK, ClientIds
<1>2. \A k \in DOMAIN requests : requests[k] \in Opening => requests[k].obj.id \in Nat
  BY IdAssumption DEF Opening, ClientIds
<1>3. \A k \in DOMAIN obj_ids_reuse : obj_ids_reuse[k] \in Nat
  <2> SUFFICES ASSUME NEW k \in DOMAIN obj_ids_reuse PROVE obj_ids_reuse[k] \in Nat
    OBVIOUS
  <2>1. obj_ids_reuse[k] \in ClientIds
    BY ElementOfSeq DEF TypeOK
  <2> QED
    BY <2>1, IdAssumption DEF ClientIds
<1> QED
  BY <1>1, <1>2, <1>3, LenProperties, LeasedTyped DEF TypeOK

\* A step that tells the compositor of no id and takes none.
LEMMA OrderFrame ==
    ASSUME TypeOK, IdsInOrder, UNCHANGED <<ids, highest>>, UNCHANGED leased, failed \subseteq failed',
           OpenedInOrder'
    PROVE  IdsInOrder'
BY DEF IdsInOrder, ids, leased

LEMMA OrderAppend ==
    ASSUME TypeOK, OpenedInOrder, UNCHANGED highest, NEW m \in Request, requests' = Append(requests, m),
           m \in Opening => \/ m.obj.id <= highest
                            \/ \A o \in Requested : o.id < m.obj.id
    PROVE  OpenedInOrder'
<1>1. /\ DOMAIN requests = 1..Len(requests) /\ Len(requests) \in Nat
      /\ DOMAIN requests' = 1..(Len(requests) + 1)
      /\ requests'[Len(requests) + 1] = m
      /\ \A k \in DOMAIN requests : requests'[k] = requests[k]
  BY Appended
<1>2. ASSUME NEW j \in DOMAIN requests', NEW k \in DOMAIN requests', j < k,
             requests'[j] \in Opening, requests'[k] \in Opening
      PROVE  requests'[j].obj.id < requests'[k].obj.id \/ requests'[k].obj.id <= highest
  <2>1. j \in DOMAIN requests /\ requests'[j] = requests[j]
    BY <1>1, <1>2
  <2>2. CASE k \in DOMAIN requests
    BY <1>1, <1>2, <2>1, <2>2 DEF OpenedInOrder
  <2>3. CASE k \notin DOMAIN requests
    <3>1. requests'[k] = m
      BY <1>1, <2>3
    <3>2. requests[j].obj \in Requested
      BY <1>2, <2>1 DEF Requested, Named
    <3> QED
      BY <1>2, <2>1, <3>1, <3>2
  <2> QED
    BY <2>2, <2>3
<1> QED
  BY <1>2 DEF OpenedInOrder, Opening, ClientIds

LEMMA OrderTail ==
    ASSUME TypeOK, OpenedInOrder, requests # <<>>, requests' = Tail(requests), highest' \in Nat,
           highest <= highest'
    PROVE  OpenedInOrder'
<1>1. /\ Len(requests) \in Nat \ {0} /\ DOMAIN requests = 1..Len(requests)
      /\ DOMAIN requests' = 1..(Len(requests) - 1)
      /\ \A k \in 1..(Len(requests) - 1) : requests'[k] = requests[k + 1]
  BY HeadTailProperties, EmptySeq, LenProperties DEF TypeOK
<1>2. ASSUME NEW j \in DOMAIN requests', NEW k \in DOMAIN requests', j < k,
             requests'[j] \in Opening, requests'[k] \in Opening
      PROVE  requests'[j].obj.id < requests'[k].obj.id \/ requests'[k].obj.id <= highest'
  <2>1. j + 1 \in DOMAIN requests /\ k + 1 \in DOMAIN requests /\ j + 1 < k + 1
    BY <1>1, <1>2
  <2>2. requests[j + 1].obj.id < requests[k + 1].obj.id \/ requests[k + 1].obj.id <= highest
    BY <1>1, <1>2, <2>1 DEF OpenedInOrder
  <2>3. requests[k + 1].obj.id \in Nat /\ highest \in Nat
    BY <1>1, <1>2, <2>1, OrderTyped
  <2> QED
    BY <1>1, <2>2, <2>3
<1> QED
  BY <1>2 DEF OpenedInOrder, Opening, ClientIds

\* What get_new_obj_id returns is known to the compositor or is above every id that is.
LEMMA TakenInOrder ==
    ASSUME TypeOK, LeaseInv, IdsInOrder, TakeObjId
    PROVE  /\ NewObjId <= highest \/ \A o \in Requested : o.id < NewObjId
           /\ \A i \in 1..(next_id' - 1) : i \in 1..(next_id - 1) \/ i = NewObjId
           /\ \A k \in DOMAIN obj_ids_reuse' : obj_ids_reuse'[k] <= highest
<1>1. CASE obj_ids_reuse # <<>> /\ obj_ids_reuse' = Tail(obj_ids_reuse) /\ UNCHANGED next_id
  <2>1. 1 \in DOMAIN obj_ids_reuse /\ NewObjId = obj_ids_reuse[1]
    BY <1>1, EmptySeq, LenProperties, HeadTailProperties DEF TypeOK, NewObjId
  <2> QED
    BY <1>1, <2>1, Taken DEF IdsInOrder
<1>2. CASE obj_ids_reuse = <<>> /\ next_id <= MaxId /\ next_id' = next_id + 1 /\ UNCHANGED obj_ids_reuse
  <2>1. NewObjId = next_id /\ next_id \in Nat
    BY <1>2, OrderTyped DEF NewObjId
  <2>2. \A o \in Requested : o.id < next_id
    BY DEF LeaseInv, LeasedOnce, LeasedObjects
  <2> QED
    BY <1>2, <2>1, <2>2 DEF IdsInOrder
<1> QED
  BY <1>1, <1>2 DEF TakeObjId

\* A request that opens an id, or one that could not be made.
LEMMA OpenedOrder ==
    ASSUME TypeOK, LeaseInv, IdsInOrder, gens < MaxObjects, TakeObjId,
           NEW kind \in LocalKinds \cup {"callback"}, NEW op \in {"create", "sync"},
           op = "sync" <=> kind = "callback",
           Send(op, Allocate(kind)), UNCHANGED <<failed, events, resources, highest>>
    PROVE  IdsInOrder'
<1> DEFINE o == Allocate(kind)
           m == [op |-> op, obj |-> o]
<1>1. o \in LocalObject /\ o.id = NewObjId /\ o.kind = kind
  BY AllocatedTyped DEF Allocate
<1>2. m \in Request /\ m.obj = o /\ requests' = Append(requests, m)
  BY <1>1 DEF Request, Send
<1>3. Requested' = Requested \cup {o} /\ Deleted' = Deleted /\ LocalResources' = LocalResources
  BY <1>1, OpenStep DEF Lease!Open, LocalResources, ClientIds
<1> HIDE DEF m, o
<1>4. OpenedInOrder'
  BY <1>1, <1>2, TakenInOrder, OrderAppend DEF IdsInOrder
<1> QED
  BY <1>1, <1>3, <1>4, TakenInOrder DEF IdsInOrder

LEMMA LostOrder ==
    ASSUME TypeOK, LeaseInv, IdsInOrder, gens < MaxObjects, TakeObjId,
           NEW kind \in {"keep", "forget"}, failed' = failed \cup {Allocate(kind)},
           UNCHANGED <<requests, events, resources, highest>>
    PROVE  IdsInOrder'
<1> DEFINE o == Allocate(kind)
<1>1. o.id = NewObjId /\ o \in failed' /\ failed \subseteq failed'
  BY DEF Allocate
<1>2. UNCHANGED leased
  BY LoseStep
<1> HIDE DEF o
<1> QED
  BY <1>1, <1>2, TakenInOrder DEF IdsInOrder, leased, OpenedInOrder, Opening, ClientIds

\* The compositor is told of an id.
LEMMA LearnedOrder ==
    ASSUME TypeOK, LeaseInv, IdsInOrder, NEW op \in {"create", "sync"}, TakeRequest(op),
           Learn(Head(requests).obj.id), UNCHANGED <<ids, failed>>,
           Requested = Requested' \cup {Head(requests).obj},
           (LocalResources \cup Deleted)' = LocalResources \cup Deleted \cup {Head(requests).obj}
    PROVE  IdsInOrder'
<1> DEFINE o == Head(requests).obj
<1>1. o \in Requested /\ o.id \in Nat /\ highest \in Nat
  BY LeasedTyped, OrderTyped DEF LeasedObjects
<1>2. highest' \in Nat /\ highest <= highest' /\ o.id <= highest'
  BY <1>1 DEF Learn
<1>3. OpenedInOrder'
  BY <1>2, OrderTail DEF TakeRequest, IdsInOrder
<1>4. \A p \in LocalResources \cup Deleted : p.id <= highest'
  <2> SUFFICES ASSUME NEW p \in LocalResources \cup Deleted PROVE p.id <= highest'
    OBVIOUS
  <2>1. p.id \in Nat /\ p.id <= highest
    BY OrderTyped DEF IdsInOrder, LeasedObjects
  <2> QED
    BY <1>1, <1>2, <2>1
<1>5. \A k \in DOMAIN obj_ids_reuse : obj_ids_reuse[k] <= highest'
  <2> SUFFICES ASSUME NEW k \in DOMAIN obj_ids_reuse PROVE obj_ids_reuse[k] <= highest'
    OBVIOUS
  <2>1. obj_ids_reuse[k] \in Nat /\ obj_ids_reuse[k] <= highest
    BY OrderTyped DEF IdsInOrder
  <2> QED
    BY <1>1, <1>2, <2>1
<1>6. \A i \in 1..(next_id - 1) : i <= highest' \/ \E p \in Requested' \cup failed : p.id = i
  <2> SUFFICES ASSUME NEW i \in 1..(next_id - 1), ~(i <= highest')
               PROVE  \E p \in Requested' \cup failed : p.id = i
    OBVIOUS
  <2>1. ~(i <= highest) /\ i # o.id
    BY <1>1, <1>2, OrderTyped
  <2> QED
    BY <2>1 DEF IdsInOrder
<1> QED
  BY <1>2, <1>3, <1>4, <1>5, <1>6 DEF IdsInOrder, ids
LEMMA OrderStep ==
    ASSUME TypeOK, LeaseInv, HandlerInv, IdsInOrder, [Next]_vars
    PROVE  IdsInOrder'
<1> USE DEF clientVars, serverVars, ids
<1>0. /\ events' = events => Deleted' = Deleted /\ DistinctIds(events', Deleting)
      /\ resources' = resources => LocalResources' = LocalResources
      /\ requests' = requests /\ highest' = highest => OpenedInOrder'
  BY NextNames DEF Deleted, LeaseInv, LocalResources, ClientIds, IdsInOrder, OpenedInOrder, Opening
<1>1. CASE DoSync
  <2>1. Running /\ AddEventHandler(Allocate("callback")) /\ TakeObjId
    BY <1>1 DEF DoSync
  <2>2. raised' = {}
    BY <2>1, NeverRefused
  <2> QED
    BY <1>1, <2>2, OpenedOrder DEF DoSync
<1>2. ASSUME NEW kind \in Kinds, Create(kind) PROVE IdsInOrder'
  <2>1. Running /\ AddEventHandler(Allocate(kind)) /\ TakeObjId
    BY <1>2 DEF Create
  <2>2. raised' = {}
    BY <2>1, NeverRefused
  <2> QED
    BY <1>2, <2>2, OpenedOrder DEF Create
<1>3. ASSUME NEW kind \in Kinds, CreateFails(kind) PROVE IdsInOrder'
  BY <1>3, LostOrder DEF CreateFails
<1>4. CASE CreateSilent
  BY <1>4, OpenedOrder DEF CreateSilent
<1>5. ASSUME NEW o \in Object, Send("destroy", o), UNCHANGED <<ids, highest, failed>>, UNCHANGED leased
      PROVE  IdsInOrder'
  <2>1. [op |-> "destroy", obj |-> o] \in Request /\ [op |-> "destroy", obj |-> o] \notin Opening
    BY DEF Request, Opening
  <2>2. OpenedInOrder'
    BY <1>5, <2>1, OrderAppend DEF Send, IdsInOrder
  <2> QED
    BY <1>5, <2>2, OrderFrame
<1>6. ASSUME NEW o \in proxies, Destroy(o) PROVE IdsInOrder'
  BY <1>0, <1>5, <1>6, DestroyStep DEF Destroy, TypeOK
<1>7. CASE HandleEvent
  BY <1>0, <1>7, OtherTaken, QuietStep, OrderFrame DEF HandleEvent
<1>8. CASE HandleFinished
  <2>1. PICK h \in event_handlers : Send("destroy", h)
    BY <1>8 DEF HandleFinished
  <2> QED
    BY <1>5, <1>8, <2>1, OtherTaken, DestroyStep DEF HandleFinished, TypeOK
<1>9. CASE HandleDone
  BY <1>0, <1>9, OtherTaken, QuietStep, OrderFrame DEF HandleDone
<1>10. CASE HandleUnknown
  BY <1>0, <1>10, OtherTaken, QuietStep, OrderFrame DEF HandleUnknown
<1>11. CASE HandleDeleteId
  <2> DEFINE o == Head(events).obj
  <2>1. o.id \in ClientIds
    BY <1>11, TakeTyped DEF HandleDeleteId, Take, Event
  <2>2. Requested' = Requested /\ LocalResources' = LocalResources /\ o \in Deleted
          /\ Deleted' \subseteq Deleted
    BY <1>11, ReturnStep DEF Lease!Return
  <2>3. \A k \in DOMAIN obj_ids_reuse' :
            \/ k \in DOMAIN obj_ids_reuse /\ obj_ids_reuse'[k] = obj_ids_reuse[k]
            \/ obj_ids_reuse'[k] = o.id
    BY <1>11, <2>1, AppendProperties, LenProperties DEF HandleDeleteId, FreeObjId, TypeOK
  <2> QED
    BY <1>0, <1>11, <2>2, <2>3 DEF HandleDeleteId, IdsInOrder
<1>12. CASE HandleNew
  BY <1>0, <1>12, OtherTaken, QuietStep, OrderFrame DEF HandleNew
<1>13. CASE ServeCreate
  <2>1. /\ Requested = Requested' \cup {Head(requests).obj}
        /\ (LocalResources \cup Deleted)' = LocalResources \cup Deleted \cup {Head(requests).obj}
    BY <1>13, AcceptStep DEF Lease!Accept
  <2> QED
    BY <1>13, <2>1, LearnedOrder DEF ServeCreate
<1>14. CASE ServeSync
  <2>1. /\ Requested = Requested' \cup {Head(requests).obj}
        /\ (LocalResources \cup Deleted)' = LocalResources \cup Deleted \cup {Head(requests).obj}
    BY <1>14, AnswerStep DEF Lease!Answer
  <2> QED
    BY <1>14, <2>1, LearnedOrder DEF ServeSync
<1>15. CASE ServeDestroy
  <2>1. Requested' = Requested /\ (LocalResources \cup Deleted)' = LocalResources \cup Deleted
    BY <1>15, CloseStep, DestroyTaken DEF ServeDestroy, Lease!Close, leased
  <2>2. OpenedInOrder'
    BY <1>15, OrderTail, OrderTyped DEF ServeDestroy, TakeRequest, IdsInOrder
  <2> QED
    BY <1>15, <2>1, <2>2 DEF ServeDestroy, IdsInOrder
<1>16. ASSUME NEW o \in resources, SendEvent(o) \/ SendFinished(o) PROVE IdsInOrder'
  <2>1. PICK t \in {"event", "finished"} :
            /\ events' = Append(events, [ev |-> t, obj |-> o])
            /\ t = "event" => o.kind # "silent"
            /\ t = "finished" => o.kind \in {"forget", "remote"}
    BY <1>16 DEF SendEvent, SendFinished
  <2>2. [ev |-> t, obj |-> o] \in Event /\ [ev |-> t, obj |-> o] \notin Deleting
    BY <2>1 DEF Event, Deleting, TypeOK
  <2>3. UNCHANGED leased
    BY <1>0, <1>16, <2>1, <2>2, OtherEvent, QuietStep DEF SendEvent, SendFinished
  <2> QED
    BY <1>0, <1>16, <2>3, OrderFrame DEF SendEvent, SendFinished
<1>17. ASSUME NEW id \in RemoteIds, NEW kind \in Kinds \cap RemoteKinds, SendNew(id, kind)
       PROVE IdsInOrder'
  <2> DEFINE o == [id |-> id, gen |-> gens + 1, kind |-> kind]
             m == [ev |-> "new", obj |-> o]
  <2>1. o \in RemoteObject /\ m \in Event /\ m \notin Deleting
    BY <1>17, BoundAssumption DEF SendNew, TypeOK, Event, Deleting
  <2>2. LocalResources' = LocalResources
    BY <1>17, <2>1, IdsApart DEF SendNew, LocalResources, ClientIds
  <2>3. UNCHANGED leased
    BY <1>17, <2>1, <2>2, OtherEvent, QuietStep DEF SendNew
  <2> QED
    BY <1>0, <1>17, <2>3, OrderFrame DEF SendNew
<1>18. CASE Reject \/ UNCHANGED vars
  <2>1. /\ UNCHANGED <<next_id, obj_ids_reuse, failed, requests, events, resources, highest>>
    BY <1>18 DEF Reject, vars
  <2>2. UNCHANGED leased
    BY <1>0, <2>1, QuietStep
  <2> QED
    BY <1>0, <2>1, <2>2, OrderFrame
<1> QED
  BY <1>1, <1>2, <1>3, <1>4, <1>6, <1>7, <1>8, <1>9, <1>10, <1>11, <1>12, <1>13,
     <1>14, <1>15, <1>16, <1>17, <1>18 DEF Next, Call, Dispatch, Serve, Announce

LEMMA OrderInit == Init => IdsInOrder
<1> SUFFICES ASSUME Init PROVE IdsInOrder
  OBVIOUS
<1>1. TypeOK
  BY InitTyped
<1>2. /\ DOMAIN requests = {1, 2} /\ next_id = 4 /\ highest = 1 /\ DOMAIN obj_ids_reuse = {}
      /\ requests[1] = [op |-> "create", obj |-> Registry]
      /\ requests[2] = [op |-> "sync", obj |-> InitialSync]
      /\ resources = {Display} /\ events = <<>>
  BY DEF Init
<1>3. /\ Display.id = 1 /\ Registry.id = 2 /\ InitialSync.id = 3
      /\ Registry \in LocalObject /\ InitialSync \in LocalObject
  BY IdAssumption, BoundAssumption DEF Display, Registry, InitialSync, ClientIds
<1>4. requests[1] \in Opening /\ requests[2] \in Opening /\ requests[1].obj = Registry
        /\ requests[2].obj = InitialSync
  BY <1>2, <1>3 DEF Opening
<1>5. Registry \in Requested /\ InitialSync \in Requested /\ Deleted = {} /\ LocalResources \subseteq {Display}
  BY <1>2, <1>4 DEF Requested, Deleted, Named, LocalResources
<1>6. OpenedInOrder
  BY <1>2, <1>3, <1>4 DEF OpenedInOrder
<1> QED
  BY <1>2, <1>3, <1>5, <1>6 DEF IdsInOrder

\* A request the compositor cannot accept opens an id that skips a lost one.
LEMMA Unacceptable ==
    ASSUME TypeOK, LeaseInv, HandlerInv, IdsInOrder, requests # <<>>, ~Acceptable(Head(requests))
    PROVE  /\ Head(requests).op # "destroy" /\ ~Live(Head(requests).obj.id)
           /\ \E o \in failed : o.id = highest + 1
<1> DEFINE m == Head(requests)
           o == m.obj
<1>1. 1 \in DOMAIN requests /\ m = requests[1] /\ m \in Request
  BY HeadTailProperties, EmptySeq, LenProperties, ElementOfSeq DEF TypeOK
<1>2. m.op # "destroy"
  <2>1. 1..(1 - 1) = {}
    OBVIOUS
  <2>2. m.op = "destroy" => o \in resources
    BY <1>1, <2>1 DEF HandlerInv, DestroysServed
  <2> QED
    BY <2>2 DEF Acceptable
<1>3. m \in Opening /\ o \in LocalObject /\ o \in Requested
  BY <1>1, <1>2 DEF Request, Opening, Requested, Named
<1>4. ~Live(o.id)
  <2> SUFFICES ASSUME NEW r \in resources, r.id = o.id PROVE FALSE
    BY DEF Live
  <2>1. r \in LocalResources
    BY <1>3, IdsApart DEF LocalResources
  <2> QED
    BY <1>3, <2>1 DEF LeaseInv, LeasedOnce
<1>5. ~(o.id <= highest + 1)
  BY <1>2, <1>4 DEF Acceptable
<1>6. o.id \in Nat /\ o.id < next_id /\ next_id \in Nat /\ highest \in Nat
  BY <1>3, OrderTyped DEF LeaseInv, LeasedOnce, LeasedObjects
<1>7. highest + 1 \in 1..(next_id - 1) /\ ~(highest + 1 <= highest)
  BY <1>5, <1>6
<1>8. \A p \in Requested : p.id # highest + 1
  <2> SUFFICES ASSUME NEW p \in Requested, p.id = highest + 1 PROVE FALSE
    OBVIOUS
  <2>1. PICK k \in DOMAIN requests : requests[k] \in Opening /\ requests[k].obj = p
    BY DEF Requested, Named
  <2>2. k # 1
    BY <1>1, <1>5, <1>6, <2>1
  <2>3. 1 < k
    BY <2>2, OrderTyped
  <2>4. o.id < p.id \/ p.id <= highest
    BY <1>1, <1>3, <2>1, <2>3 DEF IdsInOrder, OpenedInOrder
  <2> QED
    BY <1>5, <1>6, <2>4
<1> QED
  BY <1>2, <1>4, <1>7, <1>8 DEF IdsInOrder

LEMMA RejectStep ==
    ASSUME TypeOK, LeaseInv, HandlerInv, IdsInOrder, RejectInv, [Next]_vars
    PROVE  RejectInv'
<1> USE DEF clientVars, serverVars
<1>1. CASE Reject
  <2>1. requests # <<>> /\ ~Acceptable(Head(requests))
          /\ UNCHANGED <<requests, resources, highest, failed>>
    BY <1>1 DEF Reject
  <2> QED
    BY <2>1, Unacceptable DEF RejectInv, NeverRejected, Live
<1>2. CASE ~rejected /\ ~Reject
  BY <1>2 DEF RejectInv, Next, Call, Dispatch, Serve, Announce, DoSync, Create, CreateFails, CreateSilent,
     Destroy, HandleEvent, HandleFinished, HandleDone, HandleUnknown, HandleDeleteId, HandleNew,
     ServeCreate, ServeSync, ServeDestroy, SendEvent, SendFinished, SendNew, vars
<1>3. CASE rejected
  <2>1. requests' = requests \/ \E m : requests' = Append(requests, m)
    BY <1>3 DEF Next, Call, Dispatch, Serve, Announce, DoSync, Create, CreateFails, CreateSilent,
       Destroy, HandleEvent, HandleFinished, HandleDone, HandleUnknown, HandleDeleteId, HandleNew,
       ServeCreate, ServeSync, ServeDestroy, Reject, SendEvent, SendFinished, SendNew, vars, Send, TakeRequest
  <2>2. failed \subseteq failed' /\ UNCHANGED <<resources, highest>>
    BY <1>3 DEF Next, Call, Dispatch, Serve, Announce, DoSync, Create, CreateFails, CreateSilent,
       Destroy, HandleEvent, HandleFinished, HandleDone, HandleUnknown, HandleDeleteId, HandleNew,
       ServeCreate, ServeSync, ServeDestroy, Reject, SendEvent, SendFinished, SendNew, vars, TakeRequest
  <2>3. requests # <<>> /\ NeverRejected
    BY <1>3 DEF RejectInv
  <2>4. requests' # <<>> /\ Head(requests') = Head(requests)
    <3>1. TypeOK'
      BY TypeInvariant
    <3>2. ASSUME NEW m, requests' = Append(requests, m)
          PROVE  requests' # <<>> /\ Head(requests') = Head(requests)
      <4>1. requests \in Seq(Request) /\ requests' \in Seq(Request) /\ Len(requests) \in Nat \ {0}
              /\ Head(requests) = requests[1]
        BY <2>3, <3>1, EmptySeq, LenProperties, HeadTailProperties DEF TypeOK
      <4>2. Len(requests') = Len(requests) + 1 /\ requests'[1] = requests[1]
        BY <3>2, <4>1
      <4> QED
        BY <4>1, <4>2, EmptySeq, LenProperties, HeadTailProperties
    <3> QED
      BY <2>1, <2>3, <3>2
  <2> QED
    BY <1>3, <2>2, <2>3, <2>4 DEF RejectInv, NeverRejected, Live
<1> QED
  BY <1>1, <1>2, <1>3

\* Every id has reached the compositor, is on its way in order, or was lost.
THEOREM IdsReachCompositor == Spec => []IdsInOrder
<1>1. Init => IdsInOrder
  BY OrderInit
<1>2. TypeOK /\ LeaseInv /\ HandlerInv /\ IdsInOrder /\ [Next]_vars => IdsInOrder'
  BY OrderStep
<1> QED
  BY <1>1, <1>2, TypeCorrect, IdsAccounted, ObjectsAccounted, PTL DEF Spec

\* The compositor never has to reject a request: no new_id names an object it
\* still has or skips an id, no destroy names an object it does not have.  Only
\* the id of a creation that failed is skipped, by the requests that follow it.
THEOREM RequestsAccepted == Spec => []NeverRejected
<1>1. Init => RejectInv
  BY DEF Init, RejectInv
<1>2. TypeOK /\ LeaseInv /\ HandlerInv /\ IdsInOrder /\ RejectInv /\ [Next]_vars => RejectInv'
  BY RejectStep
<1>3. RejectInv => NeverRejected
  BY DEF RejectInv, NeverRejected
<1> QED
  BY <1>1, <1>2, <1>3, TypeCorrect, IdsAccounted, ObjectsAccounted, IdsReachCompositor, PTL DEF Spec
-----------------------------------------------------------------------------
\* The order of sync callbacks.
Asking == [op : {"sync"}, obj : LocalObject]
Answering == [ev : {"done"}, obj : LocalObject]

Asked == Named(requests, Asking)
Answered == Named(events, Answering)
Called == {calls[k] : k \in DOMAIN calls}

\* The messages of M in queue q are about objects in the order of their creation.
Rising(q, M) ==
    \A j, k \in DOMAIN q : j < k /\ q[j] \in M /\ q[k] \in M => q[j].obj.gen < q[k].obj.gen

\* The callbacks that have run, the done events on their way and the requests on
\* their way are, in this order, those of the do_sync calls in theirs.
SyncInv ==
    /\ SyncOrder
    /\ Rising(events, Answering)
    /\ Rising(requests, Asking)
    /\ \A o \in Called, p \in Answered \cup Asked : o.gen < p.gen
    /\ \A o \in Answered, p \in Asked : o.gen < p.gen
    /\ \A o \in Called \cup Answered \cup Asked : o.gen <= gens

LEMMA RisingAppend ==
    ASSUME NEW T, NEW q \in Seq(T), NEW m \in T, NEW M, Rising(q, M),
           m \in M => \A o \in Named(q, M) : o.gen < m.obj.gen
    PROVE  Rising(Append(q, m), M)
<1>1. /\ DOMAIN q = 1..Len(q) /\ Len(q) \in Nat
      /\ DOMAIN Append(q, m) = 1..(Len(q) + 1)
      /\ Append(q, m)[Len(q) + 1] = m
      /\ \A k \in 1..Len(q) : Append(q, m)[k] = q[k]
  BY AppendProperties, LenProperties
<1>2. \A k \in 1..Len(q) : m \in M /\ q[k] \in M => q[k].obj.gen < m.obj.gen
  BY <1>1 DEF Named
<1> QED
  BY <1>1, <1>2 DEF Rising

LEMMA RisingTail ==
    ASSUME NEW T, NEW q \in Seq(T), q # <<>>, NEW M, Rising(q, M)
    PROVE  /\ Rising(Tail(q), M)
           /\ Head(q) \in M => \A o \in Named(Tail(q), M) : Head(q).obj.gen < o.gen
<1>1. /\ Len(q) \in Nat \ {0} /\ Head(q) = q[1] /\ DOMAIN q = 1..Len(q)
      /\ DOMAIN Tail(q) = 1..(Len(q) - 1)
      /\ \A k \in 1..(Len(q) - 1) : Tail(q)[k] = q[k + 1]
  BY HeadTailProperties, EmptySeq, LenProperties
<1>2. ASSUME NEW j \in 1..(Len(q) - 1), NEW k \in 1..(Len(q) - 1), j < k, q[j + 1] \in M, q[k + 1] \in M
      PROVE  q[j + 1].obj.gen < q[k + 1].obj.gen
  <2>1. j + 1 \in DOMAIN q /\ k + 1 \in DOMAIN q /\ j + 1 < k + 1
    BY <1>1, <1>2
  <2> QED
    BY <1>2, <2>1 DEF Rising
<1>3. ASSUME Head(q) \in M, NEW k \in 1..(Len(q) - 1), q[k + 1] \in M
      PROVE  Head(q).obj.gen < q[k + 1].obj.gen
  <2>1. 1 \in DOMAIN q /\ k + 1 \in DOMAIN q /\ 1 < k + 1
    BY <1>1
  <2> QED
    BY <1>1, <1>3, <2>1 DEF Rising
<1> QED
  BY <1>1, <1>2, <1>3 DEF Rising, Named

LEMMA NextSyncs ==
    /\ Asked' = Named(requests', Asking)
    /\ Answered' = Named(events', Answering)
    /\ Called' = {calls'[k] : k \in DOMAIN calls'}
    /\ SyncInv' =
          ( /\ \A j, k \in DOMAIN calls' : j < k => calls'[j].gen < calls'[k].gen
            /\ Rising(events', Answering)
            /\ Rising(requests', Asking)
            /\ \A o \in Called', p \in Answered' \cup Asked' : o.gen < p.gen
            /\ \A o \in Answered', p \in Asked' : o.gen < p.gen
            /\ \A o \in Called' \cup Answered' \cup Asked' : o.gen <= gens')
BY DEF Asked, Answered, Called, Named, Asking, Answering, SyncInv, SyncOrder, Rising, ClientIds

LEMMA SyncTyped ==
    ASSUME TypeOK, SyncInv
    PROVE  /\ gens \in Nat
           /\ \A o \in Called \cup Answered \cup Asked : o.gen \in Nat /\ o.gen <= gens
<1>1. gens \in Nat
  BY BoundAssumption DEF TypeOK
<1>2. ASSUME NEW o \in Called PROVE o.gen \in Nat
  <2>1. o \in Object
    BY ElementOfSeq DEF TypeOK, Called
  <2> QED
    BY <2>1, BoundAssumption
<1>3. ASSUME NEW o \in Answered \cup Asked PROVE o.gen \in Nat
  <2>1. o \in LocalObject
    BY DEF Answered, Asked, Answering, Asking, Named
  <2> QED
    BY <2>1, BoundAssumption
<1> QED
  BY <1>1, <1>2, <1>3 DEF SyncInv

\* What takes no sync and no done event and adds none keeps the order.
LEMMA SyncFrame ==
    ASSUME TypeOK, SyncInv, UNCHANGED calls, Asked' \subseteq Asked, Answered' \subseteq Answered,
           gens' = gens \/ gens' = gens + 1,
           Rising(events', Answering), Rising(requests', Asking)
    PROVE  SyncInv'
<1>1. Called' = Called
  BY DEF Called
<1>2. ASSUME NEW o \in Called \cup Answered \cup Asked PROVE o.gen <= gens'
  BY SyncTyped
<1> QED
  BY <1>1, <1>2, NextSyncs DEF SyncInv, SyncOrder

LEMMA OtherRequests ==
    ASSUME TypeOK, SyncInv,
           \/ UNCHANGED requests
           \/ requests # <<>> /\ requests' = Tail(requests)
           \/ \E m \in Request : m.op # "sync" /\ requests' = Append(requests, m)
    PROVE  Asked' \subseteq Asked /\ Rising(requests', Asking)
<1>1. requests \in Seq(Request) /\ Rising(requests, Asking)
  BY DEF TypeOK, SyncInv
<1>2. CASE UNCHANGED requests
  BY <1>1, <1>2, NextSyncs DEF Asked
<1>3. CASE requests # <<>> /\ requests' = Tail(requests)
  BY <1>1, <1>3, RisingTail, NamedTail, NextSyncs DEF Asked
<1>4. ASSUME NEW m \in Request, m.op # "sync", requests' = Append(requests, m)
      PROVE  Asked' \subseteq Asked /\ Rising(requests', Asking)
  <2>1. m \notin Asking
    BY <1>4 DEF Asking
  <2> QED
    BY <1>1, <1>4, <2>1, RisingAppend, NamedAppend, NextSyncs DEF Asked
<1> QED
  BY <1>2, <1>3, <1>4

LEMMA OtherEvents ==
    ASSUME TypeOK, SyncInv,
           \/ UNCHANGED events
           \/ events # <<>> /\ events' = Tail(events)
           \/ \E m \in Event : m.ev # "done" /\ events' = Append(events, m)
    PROVE  Answered' \subseteq Answered /\ Rising(events', Answering)
<1>1. events \in Seq(Event) /\ Rising(events, Answering)
  BY DEF TypeOK, SyncInv
<1>2. CASE UNCHANGED events
  BY <1>1, <1>2, NextSyncs DEF Answered
<1>3. CASE events # <<>> /\ events' = Tail(events)
  BY <1>1, <1>3, RisingTail, NamedTail, NextSyncs DEF Answered
<1>4. ASSUME NEW m \in Event, m.ev # "done", events' = Append(events, m)
      PROVE  Answered' \subseteq Answered /\ Rising(events', Answering)
  <2>1. m \notin Answering
    BY <1>4 DEF Answering
  <2> QED
    BY <1>1, <1>4, <2>1, RisingAppend, NamedAppend, NextSyncs DEF Answered
<1> QED
  BY <1>2, <1>3, <1>4

\* do_sync, the compositor's answer and the callback.
LEMMA SyncAsked ==
    ASSUME TypeOK, LeaseInv, HandlerInv, SyncInv, DoSync
    PROVE  SyncInv'
<1> DEFINE o == Allocate("callback")
           m == [op |-> "sync", obj |-> o]
<1>1. /\ o \in LocalObject /\ o.gen = gens + 1 /\ o.kind = "callback"
      /\ Running /\ TakeObjId /\ AddEventHandler(o)
      /\ gens' = gens + 1 /\ UNCHANGED <<calls, events>>
  BY AllocatedTyped DEF DoSync, Allocate
<1>2. requests' = Append(requests, m)
  BY <1>1, NeverRefused DEF DoSync, Send
<1>3. m \in Request /\ m \in Asking /\ m.obj = o /\ requests \in Seq(Request)
  BY <1>1 DEF Request, Asking, TypeOK
<1> HIDE DEF m, o
<1>4. Asked' = Asked \cup {o}
  BY <1>2, <1>3, NamedAppend, NextSyncs DEF Asked
<1>5. \A p \in Called \cup Answered \cup Asked : p.gen < o.gen /\ p.gen <= gens'
  BY <1>1, SyncTyped
<1>6. Rising(requests', Asking)
  BY <1>2, <1>3, <1>5, RisingAppend DEF Asked, SyncInv
<1>7. Answered' = Answered /\ Called' = Called
  BY <1>1, NextSyncs DEF Answered, Called
<1>8. o.gen <= gens'
  BY <1>1, SyncTyped
<1> QED
  BY <1>1, <1>4, <1>5, <1>6, <1>7, <1>8, NextSyncs DEF SyncInv, SyncOrder

LEMMA SyncAnsweredStep ==
    ASSUME TypeOK, SyncInv, ServeSync
    PROVE  SyncInv'
<1> DEFINE o == Head(requests).obj
           done == [ev |-> "done", obj |-> o]
           gone == [ev |-> "delete_id", obj |-> o]
           evs == Append(events, done)
<1>1. /\ requests \in Seq(Request) /\ requests # <<>> /\ requests' = Tail(requests)
      /\ Head(requests) \in Asking /\ o \in Obj(ClientIds, {"callback"})
      /\ UNCHANGED <<calls, gens>>
  BY TakeRequestTyped DEF ServeSync, TakeRequest, TypeOK, Request, Asking, clientVars
<1>2. /\ events \in Seq(Event) /\ done \in Event /\ gone \in Event
      /\ done \in Answering /\ done.obj = o /\ gone \notin Answering
      /\ events' = Append(evs, gone)
  BY <1>1 DEF Event, TypeOK, ServeSync, Answering
<1> HIDE DEF done, gone
<1>3. Asked = Asked' \cup {o} /\ Rising(requests', Asking) /\ \A p \in Asked' : o.gen < p.gen
  BY <1>1, NamedTail, RisingTail, NextSyncs DEF Asked, SyncInv
<1>4. \A p \in Answered : p.gen < o.gen
  BY <1>3 DEF SyncInv
<1>5. evs \in Seq(Event) /\ Rising(evs, Answering) /\ Named(evs, Answering) = Answered \cup {o}
  BY <1>2, <1>4, AppendProperties, RisingAppend, NamedAppend DEF Answered, SyncInv
<1> HIDE DEF evs, o
<1>6. Answered' = Answered \cup {o} /\ Rising(events', Answering)
  BY <1>2, <1>5, RisingAppend, NamedAppend, NextSyncs
<1>7. Called' = Called
  BY <1>1 DEF Called
<1> QED
  BY <1>1, <1>3, <1>4, <1>6, <1>7, NextSyncs DEF SyncInv, SyncOrder

LEMMA SyncCalled ==
    ASSUME TypeOK, LeaseInv, HandlerInv, SyncInv, HandleDone
    PROVE  SyncInv'
<1> DEFINE o == Head(events).obj
<1>1. /\ events \in Seq(Event) /\ events # <<>> /\ events' = Tail(events) /\ Running
      /\ Head(events).ev = "done" /\ Head(events) \in Answering
      /\ UNCHANGED <<requests, gens>> /\ calls \in Seq(Object)
  BY TakeTyped DEF HandleDone, Take, TypeOK, Event, Answering
<1>2. PICK h \in event_handlers : h.id = o.id /\ calls' = Append(calls, h)
  BY DEF HandleDone
<1>3. h = o /\ h \in Object
  BY <1>1, <1>2, HeadHandled DEF TypeOK
<1>4. /\ Answered = Answered' \cup {h} /\ Rising(events', Answering)
      /\ \A p \in Answered' : h.gen < p.gen
  BY <1>1, <1>3, NamedTail, RisingTail, NextSyncs DEF Answered, SyncInv
<1>5. /\ DOMAIN calls = 1..Len(calls) /\ Len(calls) \in Nat
      /\ DOMAIN calls' = 1..(Len(calls) + 1) /\ calls'[Len(calls) + 1] = h
      /\ \A k \in 1..Len(calls) : calls'[k] = calls[k]
  BY <1>1, <1>2, <1>3, AppendProperties, LenProperties
<1>6. Called' = Called \cup {h}
  BY <1>5 DEF Called
<1>7. \A p \in Called : p.gen < h.gen
  BY <1>4 DEF SyncInv
<1>8. \A j, k \in DOMAIN calls' : j < k => calls'[j].gen < calls'[k].gen
  <2> SUFFICES ASSUME NEW j \in DOMAIN calls', NEW k \in DOMAIN calls', j < k
               PROVE  calls'[j].gen < calls'[k].gen
    OBVIOUS
  <2>1. j \in DOMAIN calls /\ calls'[j] = calls[j] /\ calls[j] \in Called
    BY <1>5 DEF Called
  <2>2. CASE k \in DOMAIN calls
    BY <1>5, <2>1, <2>2 DEF SyncInv, SyncOrder
  <2>3. CASE k \notin DOMAIN calls
    BY <1>5, <1>7, <2>1, <2>3
  <2> QED
    BY <2>2, <2>3
<1>9. Asked' = Asked /\ Rising(requests', Asking)
  BY <1>1, NextSyncs DEF Asked, SyncInv
<1> QED
  BY <1>1, <1>4, <1>6, <1>8, <1>9, NextSyncs DEF SyncInv

LEMMA SyncStep ==
    ASSUME TypeOK, LeaseInv, HandlerInv, SyncInv, [Next]_vars
    PROVE  SyncInv'
<1> USE DEF clientVars, serverVars
<1>1. CASE DoSync
  BY <1>1, SyncAsked
<1>2. CASE ServeSync
  BY <1>2, SyncAnsweredStep
<1>3. CASE HandleDone
  BY <1>3, SyncCalled
<1>4. ASSUME UNCHANGED calls, gens' = gens \/ gens' = gens + 1,
             \/ UNCHANGED requests
             \/ requests # <<>> /\ requests' = Tail(requests)
             \/ \E m \in Request : m.op # "sync" /\ requests' = Append(requests, m),
             \/ UNCHANGED events
             \/ events # <<>> /\ events' = Tail(events)
             \/ \E m \in Event : m.ev # "done" /\ events' = Append(events, m)
      PROVE  SyncInv'
  BY <1>4, OtherRequests, OtherEvents, SyncFrame
<1>5. ASSUME NEW kind \in {"keep", "silent", "forget"}, gens < MaxObjects, TakeObjId, gens' = gens + 1,
             \/ Send("create", Allocate(kind))
             \/ UNCHANGED requests,
             UNCHANGED <<calls, events>>
      PROVE  SyncInv'
  <2>1. Allocate(kind) \in LocalObject /\ Allocate(kind).kind = kind
    BY <1>5, AllocatedTyped
  <2>2. [op |-> "create", obj |-> Allocate(kind)] \in Request
    BY <2>1 DEF Request
  <2> QED
    BY <1>4, <1>5, <2>2 DEF Send
<1>6. ASSUME NEW kind \in Kinds, Create(kind) \/ CreateFails(kind) PROVE SyncInv'
  BY <1>5, <1>6 DEF Create, CreateFails
<1>7. CASE CreateSilent
  BY <1>5, <1>7 DEF CreateSilent
<1>8. ASSUME NEW o \in Object, Send("destroy", o), UNCHANGED <<calls, gens>>,
             UNCHANGED events \/ (events # <<>> /\ events' = Tail(events))
      PROVE  SyncInv'
  <2>1. [op |-> "destroy", obj |-> o] \in Request
    BY DEF Request
  <2> QED
    BY <1>4, <1>8, <2>1 DEF Send
<1>9. ASSUME NEW o \in proxies, Destroy(o) PROVE SyncInv'
  BY <1>8, <1>9 DEF Destroy, TypeOK
<1>10. CASE HandleFinished
  <2>1. PICK h \in event_handlers : Send("destroy", h)
    BY <1>10 DEF HandleFinished
  <2> QED
    BY <1>8, <1>10, <2>1 DEF HandleFinished, Take, TypeOK
<1>11. CASE HandleEvent \/ HandleUnknown \/ HandleDeleteId \/ HandleNew
  BY <1>4, <1>11 DEF HandleEvent, HandleUnknown, HandleDeleteId, HandleNew, Take
<1>12. CASE ServeCreate \/ Reject \/ UNCHANGED vars
  BY <1>4, <1>12 DEF ServeCreate, TakeRequest, Reject, vars
<1>13. CASE ServeDestroy
  <2> DEFINE gone == [ev |-> "delete_id", obj |-> Head(requests).obj]
  <2>1. requests # <<>> /\ requests' = Tail(requests) /\ UNCHANGED <<calls, gens>>
    BY <1>13 DEF ServeDestroy, TakeRequest
  <2>2. CASE Head(requests).obj.id \in ClientIds
    <3>1. Head(requests).obj \in LocalObject
      BY <1>13, <2>2, TakeRequestTyped, IdsApart DEF ServeDestroy, Request
    <3>2. gone \in Event /\ gone.ev # "done"
      BY <3>1 DEF Event
    <3> QED
      BY <1>4, <1>13, <2>1, <2>2, <3>2 DEF ServeDestroy
  <2>3. CASE Head(requests).obj.id \notin ClientIds
    BY <1>4, <1>13, <2>1, <2>3 DEF ServeDestroy
  <2> QED
    BY <2>2, <2>3
<1>14. ASSUME NEW o \in resources, SendEvent(o) \/ SendFinished(o) PROVE SyncInv'
  <2>1. PICK t \in {"event", "finished"} :
            /\ events' = Append(events, [ev |-> t, obj |-> o])
            /\ t = "event" => o.kind # "silent"
            /\ t = "finished" => o.kind \in {"forget", "remote"}
    BY <1>14 DEF SendEvent, SendFinished
  <2>2. [ev |-> t, obj |-> o] \in Event
    BY <2>1 DEF Event, TypeOK
  <2> QED
    BY <1>4, <1>14, <2>1, <2>2 DEF SendEvent, SendFinished
<1>15. ASSUME NEW id \in RemoteIds, NEW kind \in Kinds \cap RemoteKinds, SendNew(id, kind)
       PROVE  SyncInv'
  <2> DEFINE m == [ev |-> "new", obj |-> [id |-> id, gen |-> gens + 1, kind |-> kind]]
  <2>1. m \in Event /\ m.ev # "done"
    BY <1>15, BoundAssumption DEF SendNew, TypeOK, Event
  <2> QED
    BY <1>4, <1>15, <2>1 DEF SendNew
<1> QED
  BY <1>1, <1>2, <1>3, <1>6, <1>7, <1>9, <1>10, <1>11, <1>12, <1>13, <1>14, <1>15
     DEF Next, Call, Dispatch, Serve, Announce

LEMMA SyncInit == Init => SyncInv
<1> SUFFICES ASSUME Init PROVE SyncInv
  OBVIOUS
<1>1. /\ DOMAIN requests = {1, 2} /\ calls = <<>> /\ events = <<>> /\ gens = 2
      /\ requests[1] = [op |-> "create", obj |-> Registry]
      /\ requests[2] = [op |-> "sync", obj |-> InitialSync]
      /\ InitialSync.gen = 2
  BY DEF Init, InitialSync
<1>2. Called = {} /\ Answered = {}
  BY <1>1 DEF Called, Answered, Named
<1>3. requests[1] \notin Asking /\ Asked \subseteq {InitialSync}
  BY <1>1 DEF Asked, Named, Asking
<1> QED
  BY <1>1, <1>2, <1>3 DEF SyncInv, SyncOrder, Rising

\* Sync callbacks run once each and in the order of the do_sync calls.
THEOREM CallbacksInOrder == Spec => []SyncOrder
<1>1. Init => SyncInv
  BY SyncInit
<1>2. TypeOK /\ LeaseInv /\ HandlerInv /\ SyncInv /\ [Next]_vars => SyncInv'
  BY SyncStep
<1>3. SyncInv => SyncOrder
  BY DEF SyncInv
<1> QED
  BY <1>1, <1>2, <1>3, TypeCorrect, IdsAccounted, ObjectsAccounted, PTL DEF Spec
=============================================================================
