--------------------------- MODULE ProtocolProofs ----------------------------
(***************************************************************************)
(* Two protocols.  Cosmic workspaces: what the application prints at a     *)
(* done event against what the compositor had when it sent it, for any     *)
(* number of objects and calls.  The inductive invariant reads the tables  *)
(* together with the events on their way: after the first k - 1 of them    *)
(* they are what the k-th event is sent against, and after all of them     *)
(* they are the compositor's.  Then the virtual keyboard: its invariant    *)
(* says that the numbers of keys are apart and fill 1, 2, ..., and that    *)
(* the compositor has the key map of the client unless that has changed.   *)
(***************************************************************************)
EXTENDS Workspaces, VirtualKeyboard, SequenceTheorems, FiniteSetTheorems,
        FunctionTheorems, WellFoundedInduction, TLAPS


\* The events there are.
View == [groups : SUBSET (1..MaxObjects),
         workspaces : SUBSET [no : 1..MaxObjects, of : 0..MaxObjects, active : BOOLEAN]]
Event ==
    [ev : {"workspace_group"}, new : Object] \cup [ev : {"workspace"}, obj : Object, new : Object]
        \cup [ev : {"state"}, obj : Object, active : BOOLEAN] \cup [ev : {"remove"}, obj : Object]
        \cup [ev : {"done"}, view : View]

Creates(e, o) == e.ev \in {"workspace_group", "workspace"} /\ e.new = o
About(e, o) == e.ev \in {"workspace", "state", "remove"} /\ e.obj = o
Says(e, o) == e.ev = "state" /\ e.obj = o
Removes(e, o) == e.ev = "remove" /\ e.obj = o
Destroys(r, o) == r.op = "destroy" /\ r.obj = o
DestroyAsked(o) == \E k \in DOMAIN requests : Destroys(requests[k], o)

\* What the first k - 1 events make of an object.
Born(o, k) == \E j \in DOMAIN events : j < k /\ Creates(events[j], o)
Gone(o, k) == \E j \in DOMAIN events : j < k /\ Removes(events[j], o)
Listing(w) == w.of \in DOMAIN workspaces /\ w \in workspaces[w.of]
There(w, k) == (Listing(w) \/ Born(w, k)) /\ ~Gone(w, k)
ActiveAt(w, k) ==
    \/ \E j \in DOMAIN events :
         /\ j < k /\ Says(events[j], w) /\ events[j].active
         /\ \A i \in DOMAIN events : j < i /\ i < k => ~Says(events[i], w)
    \/ w \in states /\ \A j \in DOMAIN events : j < k => ~Says(events[j], w)
Own(w) == \A o \in given_up : o.no # w.no

-----------------------------------------------------------------------------
TypesOK ==
    /\ TypeOK
    /\ events \in Seq(Event) /\ nobjects \in 0..MaxObjects
    /\ given_up \subseteq Object
    /\ active \subseteq Object

\* The compositor's objects have ids of their own.
IdsApart == \A o, p \in resources : o.id = p.id => o = p

\* A request finds the object it is about, unless the application has destroyed
\* that; an object is destroyed once, after its last event or by the application.
RequestsKnown ==
    \A k \in DOMAIN requests : requests[k].op # "commit" =>
        LET o == requests[k].obj IN
        /\ \/ requests[k].op # "destroy" /\ o \in given_up
           \/ o \in resources /\ \A j \in DOMAIN requests : j < k => ~Destroys(requests[j], o)
        /\ requests[k].op = "destroy" => o \in given_up \cup removed

\* Whatever an event or a table names was made before.
Numbered ==
    /\ \A o \in resources \cup handlers \cup given_up \cup states \cup ToSet(groups) : o.no <= nobjects
    /\ \A n \in DOMAIN workspaces : n <= nobjects /\ \A w \in workspaces[n] : w.no <= nobjects
    /\ \A k \in DOMAIN events : \A o \in Object :
         Creates(events[k], o) \/ About(events[k], o) => o.no <= nobjects
    /\ \A k \in DOMAIN requests : \A o \in Object : Destroys(requests[k], o) => o.no <= nobjects

Grouped ==
    \A k \in DOMAIN events : LET e == events[k] IN
        /\ e.ev = "workspace_group" => e.new.of = 0
        /\ e.ev = "workspace" => e.new.of = e.obj.no /\ e.obj.of = 0
        /\ e.ev = "state" => e.obj.of # 0

\* The tables have the objects with handlers.
TablesMatch ==
    /\ \A h, i \in handlers : h.id = i.id => h = i
    /\ \A h \in handlers : IF h.of = 0 THEN h \in ToSet(groups) ELSE Listing(h)
    /\ ToSet(groups) \subseteq handlers
    /\ DOMAIN workspaces = {g.no : g \in ToSet(groups)}
    /\ \A g \in ToSet(groups) : g.of = 0
    /\ \A n \in DOMAIN workspaces : \A w \in workspaces[n] : w.of = n /\ w \in handlers \cup given_up

\* An object with a handler is the compositor's until it is destroyed.
HandlersAlive ==
    /\ \A h \in handlers : IF h \in given_up THEN h.of = 0
                           ELSE h \in resources /\ ~DestroyAsked(h)
    /\ \A w \in given_up \cap resources : w.of # 0 => \A h \in handlers : h.id # w.id

\* A new object is unknown until the event that announces it.
Announced ==
    /\ \A k \in DOMAIN events : \A o \in Object : Creates(events[k], o) =>
         /\ o \in resources
         /\ o \notin handlers \cup given_up \cup states
         /\ ~Listing(o) /\ ~DestroyAsked(o)
         /\ o.no \notin DOMAIN workspaces
    /\ \A j, k \in DOMAIN events : \A o, p \in Object :
         Creates(events[j], o) /\ Creates(events[k], p) /\ o.no = p.no => j = k

\* An event finds the object it is about, and no other under its id.
EventsFind ==
    \A k \in DOMAIN events : \A o \in Object : About(events[k], o) =>
        /\ o \in handlers \/ Born(o, k) \/ (o \in given_up /\ o.of # 0)
        /\ \A h \in handlers : h.id = o.id => h = o \/ Born(o, k)
        /\ \A j \in DOMAIN events : \A p \in Object :
             j < k /\ Creates(events[j], p) /\ p.id = o.id => p = o

\* The event that an object is removed is the last about it.
RemovedLast ==
    \A j \in DOMAIN events : \A o \in Object : Removes(events[j], o) =>
        /\ o \in resources => o \in removed
        /\ \A k \in DOMAIN events : j < k => ~About(events[k], o)

\* With what is on its way, the tables are those of the compositor.
TruthFollows ==
    /\ \A w \in Object : w.of # 0 /\ w \notin given_up =>
         /\ w \in resources \ removed <=> There(w, Len(events) + 1)
         /\ w \in resources \ removed => (w \in active <=> ActiveAt(w, Len(events) + 1))
    /\ \A g \in resources : g.of = 0 => g \in ToSet(groups) \/ Born(g, Len(events) + 1)

\* How a view lists a workspace.
Entry(w, a) == [no |-> w.no, of |-> w.of, active |-> a]

\* With what comes before it, they are what a done event stands for.
ViewFollows(k) ==
    LET view == events[k].view IN
    /\ \A v : v \in Mine(view) <=> \E w \in Object, a \in BOOLEAN :
         /\ w.of # 0 /\ Own(w) /\ There(w, k) /\ (a <=> ActiveAt(w, k))
         /\ v = Entry(w, a)
    /\ \A n \in view.groups : \E g \in Object : g.of = 0 /\ g.no = n /\ (g \in ToSet(groups) \/ Born(g, k))
ViewsFollow == \A k \in DOMAIN events : events[k].ev = "done" => ViewFollows(k)

ClientInv ==
    /\ Numbered /\ Grouped /\ TablesMatch /\ HandlersAlive /\ Announced
    /\ EventsFind /\ RemovedLast /\ TruthFollows /\ ViewsFollow

WorkspacesInv ==
    /\ TypesOK
    /\ IdsApart
    /\ RequestsKnown
    /\ Running => ClientInv
    /\ SyncedView
    /\ FailsOnlyAfterDestroy

-----------------------------------------------------------------------------
\* What the types say of an event, and of an object.
LEMMA EventFields ==
    ASSUME NEW e \in Event
    PROVE  /\ e.ev \in {"workspace_group", "workspace", "state", "remove", "done"}
           /\ e.ev \in {"workspace_group", "workspace"} => e.new \in Object
           /\ e.ev \in {"workspace", "state", "remove"} => e.obj \in Object
           /\ e.ev = "state" => e.active \in BOOLEAN
           /\ e.ev = "done" => e.view \in View
BY DEF Event

LEMMA ObjectFields ==
    ASSUME NEW o \in Object
    PROVE  o.id \in Ids /\ o.no \in 1..MaxObjects /\ o.of \in 0..MaxObjects
           /\ o = [id |-> o.id, no |-> o.no, of |-> o.of]
BY DEF Object

LEMMA RequestFields ==
    ASSUME NEW r \in Request
    PROVE  /\ r.op \in {"commit", "activate", "remove", "create_workspace", "destroy"}
           /\ r.op # "commit" => r.obj \in Object
BY DEF Request

\* The events after the first is taken.
Popped == events # <<>> /\ events' = Tail(events)

LEMMA EventsPopped ==
    ASSUME TypesOK, Popped
    PROVE  /\ events' \in Seq(Event)
           /\ Len(events) \in Nat \ {0} /\ Len(events') = Len(events) - 1
           /\ 1 \in DOMAIN events /\ Head(events) = events[1]
           /\ DOMAIN events = 1..Len(events) /\ DOMAIN events' = 1..Len(events')
           /\ \A k \in DOMAIN events' : k + 1 \in DOMAIN events /\ events'[k] = events[k + 1]
           /\ \A k \in DOMAIN events : k # 1 => k - 1 \in DOMAIN events' /\ events[k] = events'[k - 1]
           /\ \A k \in DOMAIN events : events[k] \in Event
<1>1. events \in Seq(Event)
  BY DEF TypesOK
<1>2. /\ events' \in Seq(Event) /\ Len(events') = Len(events) - 1
      /\ \A k \in 1..Len(events') : events'[k] = events[k + 1]
  BY <1>1, HeadTailProperties DEF Popped
<1>3. Len(events) \in Nat \ {0}
  BY <1>1, EmptySeq, LenProperties DEF Popped
<1>4. DOMAIN events = 1..Len(events) /\ DOMAIN events' = 1..Len(events')
  BY <1>1, <1>2, LenProperties
<1>5. Head(events) = events[1]
  BY <1>1 DEF Popped
<1>6. \A k \in DOMAIN events : events[k] \in Event
  BY <1>1, ElementOfSeq, <1>4
<1> QED
  BY <1>2, <1>3, <1>4, <1>5, <1>6

\* What is there before the k-th event is not changed by taking the first, if that
\* one is accounted for.
LEMMA PastPopped ==
    ASSUME TypesOK, Popped, NEW o \in Object, NEW k \in Nat \ {0}
    PROVE  /\ Born(o, k + 1) <=> Creates(events[1], o) \/ Born(o, k)'
           /\ Gone(o, k + 1) <=> Removes(events[1], o) \/ Gone(o, k)'
<1> USE EventsPopped
<1>1. ASSUME Creates(events[1], o) PROVE Born(o, k + 1)
  BY <1>1 DEF Born
<1>2. ASSUME Born(o, k)' PROVE Born(o, k + 1)
  <2>1. PICK j \in DOMAIN events' : j < k /\ Creates(events'[j], o)
    BY <1>2 DEF Born, Creates
  <2>2. j + 1 \in DOMAIN events /\ j + 1 < k + 1 /\ Creates(events[j + 1], o)
    BY <2>1
  <2> QED
    BY <2>2 DEF Born
<1>3. ASSUME Born(o, k + 1) PROVE Creates(events[1], o) \/ Born(o, k)'
  <2>1. PICK j \in DOMAIN events : j < k + 1 /\ Creates(events[j], o)
    BY <1>3 DEF Born
  <2>2. CASE j # 1
    <3>1. j - 1 \in DOMAIN events' /\ j - 1 < k /\ Creates(events'[j - 1], o)
      BY <2>1, <2>2
    <3> QED
      BY <3>1 DEF Born, Creates
  <2> QED
    BY <2>1, <2>2
<1>4. ASSUME Removes(events[1], o) PROVE Gone(o, k + 1)
  BY <1>4 DEF Gone
<1>5. ASSUME Gone(o, k)' PROVE Gone(o, k + 1)
  <2>1. PICK j \in DOMAIN events' : j < k /\ Removes(events'[j], o)
    BY <1>5 DEF Gone, Removes
  <2>2. j + 1 \in DOMAIN events /\ j + 1 < k + 1 /\ Removes(events[j + 1], o)
    BY <2>1
  <2> QED
    BY <2>2 DEF Gone
<1>6. ASSUME Gone(o, k + 1) PROVE Removes(events[1], o) \/ Gone(o, k)'
  <2>1. PICK j \in DOMAIN events : j < k + 1 /\ Removes(events[j], o)
    BY <1>6 DEF Gone
  <2>2. CASE j # 1
    <3>1. j - 1 \in DOMAIN events' /\ j - 1 < k /\ Removes(events'[j - 1], o)
      BY <2>1, <2>2
    <3> QED
      BY <3>1 DEF Gone, Removes
  <2> QED
    BY <2>1, <2>2
<1> QED
  BY <1>1, <1>2, <1>3, <1>4, <1>5, <1>6

LEMMA ActivePopped ==
    ASSUME TypesOK, Popped, NEW w \in Object, NEW k \in Nat \ {0},
           w \in states' <=> IF Says(events[1], w) THEN events[1].active ELSE w \in states
    PROVE  ActiveAt(w, k)' <=> ActiveAt(w, k + 1)
<1> USE EventsPopped
<1> DEFINE Latest(j) == j \in DOMAIN events /\ j < k + 1 /\ Says(events[j], w)
                      /\ \A i \in DOMAIN events : j < i /\ i < k + 1 => ~Says(events[i], w)
           LatestP(j) == j \in DOMAIN events' /\ j < k /\ Says(events'[j], w)
                      /\ \A i \in DOMAIN events' : j < i /\ i < k => ~Says(events'[i], w)
           None == \A j \in DOMAIN events : j < k + 1 => ~Says(events[j], w)
           NoneP == \A j \in DOMAIN events' : j < k => ~Says(events'[j], w)
<1>0. /\ ActiveAt(w, k + 1) <=> (\E j \in DOMAIN events : Latest(j) /\ events[j].active)
                                \/ (w \in states /\ None)
      /\ ActiveAt(w, k)' <=> (\E j \in DOMAIN events' : LatestP(j) /\ events'[j].active)
                                \/ (w \in states' /\ NoneP)
  BY DEF ActiveAt, Says
<1>1. \A j \in DOMAIN events' : LatestP(j) <=> Latest(j + 1)
  <2> SUFFICES ASSUME NEW j \in DOMAIN events' PROVE LatestP(j) <=> Latest(j + 1)
    OBVIOUS
  <2>1. ASSUME LatestP(j) PROVE Latest(j + 1)
    <3>1. ASSUME NEW i \in DOMAIN events, j + 1 < i, i < k + 1 PROVE ~Says(events[i], w)
      <4>1. i # 1 /\ i - 1 \in DOMAIN events' /\ j < i - 1 /\ i - 1 < k
        BY <3>1
      <4> QED
        BY <4>1, <2>1
    <3> QED
      BY <2>1, <3>1
  <2>2. ASSUME Latest(j + 1) PROVE LatestP(j)
    <3>1. ASSUME NEW i \in DOMAIN events', j < i, i < k PROVE ~Says(events'[i], w)
      <4>1. i + 1 \in DOMAIN events /\ j + 1 < i + 1 /\ i + 1 < k + 1
        BY <3>1
      <4> QED
        BY <4>1, <2>2
    <3> QED
      BY <2>2, <3>1
  <2> QED
    BY <2>1, <2>2
<1>2. None <=> NoneP /\ ~Says(events[1], w)
  <2>1. ASSUME None PROVE NoneP /\ ~Says(events[1], w)
    <3>1. ASSUME NEW j \in DOMAIN events', j < k PROVE ~Says(events'[j], w)
      <4>1. j + 1 \in DOMAIN events /\ j + 1 < k + 1
        BY <3>1
      <4> QED
        BY <4>1, <2>1
    <3> QED
      BY <2>1, <3>1
  <2>2. ASSUME NoneP, ~Says(events[1], w) PROVE None
    <3>1. ASSUME NEW j \in DOMAIN events, j < k + 1 PROVE ~Says(events[j], w)
      <4>1. CASE j # 1
        <5>1. j - 1 \in DOMAIN events' /\ j - 1 < k
          BY <3>1, <4>1
        <5> QED
          BY <4>1, <5>1, <2>2
      <4> QED
        BY <4>1, <2>2
    <3> QED
      BY <3>1
  <2> QED
    BY <2>1, <2>2
<1>3. Latest(1) <=> NoneP /\ Says(events[1], w)
  <2>1. ASSUME Latest(1) PROVE NoneP /\ Says(events[1], w)
    <3>1. ASSUME NEW j \in DOMAIN events', j < k PROVE ~Says(events'[j], w)
      <4>1. j + 1 \in DOMAIN events /\ 1 < j + 1 /\ j + 1 < k + 1
        BY <3>1
      <4> QED
        BY <4>1, <2>1
    <3> QED
      BY <2>1, <3>1
  <2>2. ASSUME NoneP, Says(events[1], w) PROVE Latest(1)
    <3>1. ASSUME NEW i \in DOMAIN events, 1 < i, i < k + 1 PROVE ~Says(events[i], w)
      <4>1. i # 1 /\ i - 1 \in DOMAIN events' /\ i - 1 < k
        BY <3>1
      <4> QED
        BY <4>1, <2>2
    <3> QED
      BY <2>2, <3>1
  <2> QED
    BY <2>1, <2>2
<1> HIDE DEF Latest, LatestP, None, NoneP
<1>4. (\E j \in DOMAIN events : Latest(j) /\ events[j].active)
        <=> (Latest(1) /\ events[1].active) \/ \E j \in DOMAIN events' : LatestP(j) /\ events'[j].active
  <2>1. ASSUME NEW j \in DOMAIN events, Latest(j), events[j].active, j # 1
        PROVE  \E i \in DOMAIN events' : LatestP(i) /\ events'[i].active
    <3>1. j - 1 \in DOMAIN events' /\ (j - 1) + 1 = j /\ events[j] = events'[j - 1]
      BY <2>1
    <3>2. LatestP(j - 1) <=> Latest((j - 1) + 1)
      BY <1>1, <3>1
    <3> QED
      BY <2>1, <3>1, <3>2
  <2>2. ASSUME NEW j \in DOMAIN events', LatestP(j), events'[j].active
        PROVE  \E i \in DOMAIN events : Latest(i) /\ events[i].active
    BY <2>2, <1>1
  <2> QED
    BY <2>1, <2>2
<1> QED
  BY <1>0, <1>2, <1>3, <1>4

-----------------------------------------------------------------------------
\* What a handler that does not raise may do with the first event, e.
PopEffect(e) ==
    /\ Popped /\ e = Head(events)
    /\ UNCHANGED <<resources, removed, active, nobjects, given_up>>
    /\ \A o \in Object :
         /\ Creates(e, o) => o \in handlers' /\ ~Refused(o)
         /\ o \in handlers' => o \in handlers \/ Creates(e, o)
         /\ o \in handlers => o \in handlers' \/ Removes(e, o)
         /\ o \in states' => o \in states \/ o \in handlers
         /\ o \in states' <=> IF Says(e, o) THEN e.active ELSE o \in states
         /\ o \in ToSet(groups)' <=> o \in ToSet(groups) \/ (Creates(e, o) /\ o.of = 0)
         /\ o.of # 0 => (Listing(o)' <=> (Listing(o) \/ Creates(e, o)) /\ ~Removes(e, o))
         /\ DestroyAsked(o)' => DestroyAsked(o) \/ (o \in handlers /\ o \notin handlers' /\ Removes(e, o))
    /\ \A n \in DOMAIN workspaces' : n \in DOMAIN workspaces \/ \E o \in Object : Creates(e, o) /\ o.no = n /\ o.of = 0

\* An event is for the handler its id finds.
LEMMA Found ==
    ASSUME TypesOK, ClientInv, events # <<>>, NEW o \in Object, About(Head(events), o),
           NEW h \in handlers, h.id = o.id
    PROVE  h = o
<1>1. events \in Seq(Event)
  BY DEF TypesOK
<1>2. 1 \in DOMAIN events /\ Head(events) = events[1]
  BY <1>1
<1>3. ~Born(o, 1)
  BY <1>1 DEF Born
<1> QED
  BY <1>2, <1>3 DEF ClientInv, EventsFind

LEMMA NumberedPopped ==
    ASSUME TypesOK, ClientInv, NEW e, PopEffect(e),
           groups' \in Seq(Object),
           \A n \in DOMAIN workspaces' : workspaces'[n] \subseteq Object,
           handlers' \subseteq Object, states' \subseteq Object,
           \A n \in DOMAIN workspaces' : \A w \in workspaces'[n] : w.of = n /\ n # 0
    PROVE  Numbered'
<1> DEFINE NumberedEvents == \A k \in DOMAIN events : \A o \in Object :
         Creates(events[k], o) \/ About(events[k], o) => o.no <= nobjects
<1>0. NumberedEvents /\ nobjects' = nobjects /\ Popped /\ e = Head(events)
  BY DEF ClientInv, Numbered, PopEffect
<1>e. /\ \A k \in DOMAIN events' : k + 1 \in DOMAIN events /\ events'[k] = events[k + 1]
      /\ 1 \in DOMAIN events /\ Head(events) = events[1]
  BY <1>0, EventsPopped
<1>1. \A o \in Object : Creates(e, o) => o.no <= nobjects
  BY <1>e, <1>0
<1>2. NumberedEvents'
  <2>1. ASSUME NEW k \in DOMAIN events', NEW o \in Object, Creates(events'[k], o) \/ About(events'[k], o)
        PROVE  o.no <= nobjects'
    BY <2>1, <1>e, <1>0
  <2> QED
    BY <2>1 DEF Creates, About
<1>3. \A o \in resources \cup handlers \cup given_up \cup states \cup ToSet(groups) : o.no <= nobjects
  BY DEF ClientInv, Numbered
<1>4. \A o \in (resources \cup handlers \cup given_up \cup states \cup ToSet(groups))' : o.no <= nobjects'
  <2>1. ToSet(groups)' \subseteq Object
    BY DEF ToSet
  <2> QED
    BY <1>0, <1>1, <1>3, <2>1 DEF PopEffect
<1>5. \A n \in DOMAIN workspaces : n <= nobjects /\ \A w \in workspaces[n] : w.no <= nobjects
  BY DEF ClientInv, Numbered
<1>6. ASSUME NEW n \in DOMAIN workspaces' PROVE n <= nobjects' /\ \A w \in workspaces'[n] : w.no <= nobjects'
  <2>1. n <= nobjects'
    BY <1>6, <1>5, <1>1, <1>0 DEF PopEffect
  <2>2. ASSUME NEW w \in workspaces'[n] PROVE w.no <= nobjects'
    <3>1. w \in Object /\ w.of = n /\ n # 0
      BY <1>6
    <3>2. Listing(w)'
      BY <3>1 DEF Listing
    <3>3. Listing(w) \/ Creates(e, w)
      BY <3>1, <3>2 DEF PopEffect
    <3>4. Listing(w) => w.no <= nobjects
      BY <1>5 DEF Listing
    <3> QED
      BY <3>1, <3>3, <3>4, <1>1, <1>0
  <2> QED
    BY <2>1, <2>2
<1>7. ASSUME NEW k \in DOMAIN requests', NEW o \in Object, Destroys(requests'[k], o)
      PROVE o.no <= nobjects'
  <2>1. DestroyAsked(o)'
    BY <1>7 DEF DestroyAsked, Destroys
  <2>2. DestroyAsked(o) \/ o \in handlers
    BY <2>1 DEF PopEffect
  <2> QED
    BY <2>2, <1>3, <1>0 DEF DestroyAsked, ClientInv, Numbered
<1> QED
  BY <1>2, <1>4, <1>6, <1>7 DEF Numbered, Creates, About, Destroys

LEMMA GroupedPopped ==
    ASSUME TypesOK, Grouped, Popped
    PROVE  Grouped'
BY EventsPopped DEF Grouped

LEMMA RemovedLastPopped ==
    ASSUME TypesOK, RemovedLast, Popped, UNCHANGED <<resources, removed>>
    PROVE  RemovedLast'
<1>1. ASSUME NEW j \in DOMAIN events', NEW o \in Object, Removes(events'[j], o)
      PROVE  /\ o \in resources' => o \in removed'
             /\ \A k \in DOMAIN events' : j < k => ~About(events'[k], o)
  <2>1. j + 1 \in DOMAIN events /\ Removes(events[j + 1], o)
    BY <1>1, EventsPopped
  <2>2. ASSUME NEW k \in DOMAIN events', j < k PROVE ~About(events'[k], o)
    BY <2>1, <2>2, EventsPopped DEF RemovedLast
  <2> QED
    BY <2>1, <2>2 DEF RemovedLast
<1> QED
  BY <1>1 DEF RemovedLast, Removes, About

LEMMA AnnouncedPopped ==
    ASSUME TypesOK, ClientInv, NEW e, PopEffect(e)
    PROVE  Announced'
<1>0. Popped /\ e = Head(events) /\ Announced /\ resources' = resources /\ given_up' = given_up
  BY DEF ClientInv, PopEffect
<1>e. /\ \A k \in DOMAIN events' : k + 1 \in DOMAIN events /\ events'[k] = events[k + 1]
      /\ 1 \in DOMAIN events /\ Head(events) = events[1]
      /\ DOMAIN events' = 1..Len(events') /\ Len(events') \in Nat
  BY <1>0, EventsPopped
<1>1. ASSUME NEW j \in DOMAIN events', NEW k \in DOMAIN events', NEW o \in Object, NEW p \in Object,
             Creates(events'[j], o), Creates(events'[k], p), o.no = p.no
      PROVE  j = k
  <2>1. j + 1 = k + 1
    BY <1>0, <1>1, <1>e DEF Announced
  <2> QED
    BY <2>1, <1>e
<1>2. ASSUME NEW k \in DOMAIN events', NEW o \in Object, Creates(events'[k], o)
      PROVE  /\ o \in resources'
             /\ o \notin (handlers \cup given_up \cup states)'
             /\ ~Listing(o)' /\ ~DestroyAsked(o)'
             /\ o.no \notin DOMAIN workspaces'
  <2>1. k + 1 \in DOMAIN events /\ Creates(events[k + 1], o) /\ k + 1 # 1
    BY <1>2, <1>e
  <2>2. /\ o \in resources /\ o \notin handlers \cup given_up \cup states
        /\ ~Listing(o) /\ ~DestroyAsked(o) /\ o.no \notin DOMAIN workspaces
    BY <2>1, <1>0 DEF Announced
  <2>3. \A p \in Object : Creates(e, p) => p.no # o.no
    BY <2>1, <1>0, <1>e DEF Announced
  <2>4. ~Creates(e, o)
    BY <2>3
  <2>5. o.no \notin DOMAIN workspaces'
    BY <2>2, <2>3 DEF PopEffect
  <2>6. ~Listing(o)'
    <3>1. CASE o.of # 0
      BY <3>1, <2>2, <2>4 DEF PopEffect
    <3>2. CASE o.of = 0
      <4>1. 0 \notin DOMAIN workspaces
        <5>1. \A n \in DOMAIN workspaces : n \in 1..MaxObjects
          BY DEF TypesOK, TypeOK
        <5> QED
          BY <5>1, WorkspaceAssumption
      <4>2. \A p \in Object : p.no # 0
        BY DEF Object
      <4>3. 0 \notin DOMAIN workspaces'
        BY <4>1, <4>2 DEF PopEffect
      <4> QED
        BY <3>2, <4>3 DEF Listing
    <3> QED
      BY <3>1, <3>2
  <2> QED
    BY <2>2, <2>4, <2>5, <2>6, <1>0 DEF PopEffect
<1> QED
  BY <1>1, <1>2 DEF Announced, Creates

LEMMA EventsFindPopped ==
    ASSUME TypesOK, ClientInv, NEW e, PopEffect(e), handlers' \subseteq Object
    PROVE  EventsFind'
<1>0. Popped /\ e = Head(events) /\ given_up' = given_up /\ EventsFind
  BY DEF ClientInv, PopEffect
<1>e. /\ \A k \in DOMAIN events' : k + 1 \in DOMAIN events /\ events'[k] = events[k + 1]
      /\ 1 \in DOMAIN events /\ e = events[1]
      /\ DOMAIN events' = 1..Len(events') /\ Len(events') \in Nat
  BY <1>0, EventsPopped
<1>1. ASSUME NEW k \in DOMAIN events', NEW o \in Object, About(events'[k], o)
      PROVE  /\ o \in handlers' \/ Born(o, k)' \/ (o \in given_up' /\ o.of # 0)
             /\ \A h \in handlers' : h.id = o.id => h = o \/ Born(o, k)'
             /\ \A j \in DOMAIN events' : \A p \in Object :
                  j < k /\ Creates(events'[j], p) /\ p.id = o.id => p = o
  <2>1. k + 1 \in DOMAIN events /\ About(events[k + 1], o) /\ k \in Nat \ {0}
    BY <1>1, <1>e
  <2>2. Born(o, k + 1) <=> Creates(e, o) \/ Born(o, k)'
    BY <2>1, <1>0, <1>e, PastPopped
  <2>3. /\ o \in handlers \/ Born(o, k + 1) \/ (o \in given_up /\ o.of # 0)
        /\ \A h \in handlers : h.id = o.id => h = o \/ Born(o, k + 1)
        /\ \A j \in DOMAIN events : \A p \in Object :
             j < k + 1 /\ Creates(events[j], p) /\ p.id = o.id => p = o
    BY <2>1, <1>0 DEF EventsFind
  <2>4. ~Removes(e, o)
    <3>1. RemovedLast
      BY DEF ClientInv
    <3>2. 1 < k + 1
      BY <2>1
    <3> QED
      BY <3>1, <3>2, <2>1, <1>e DEF RemovedLast
  <2>5. o \in handlers' \/ Born(o, k)' \/ (o \in given_up' /\ o.of # 0)
    BY <2>2, <2>3, <2>4, <1>0 DEF PopEffect
  <2>6. ASSUME NEW h \in handlers', h.id = o.id PROVE h = o \/ Born(o, k)'
    <3>1. CASE Creates(e, h)
      <4>1. h \in Object /\ 1 < k + 1
        BY <2>1
      <4> QED
        BY <4>1, <3>1, <2>3, <2>6, <1>e
    <3>2. CASE h \in handlers
      <4>1. ~Creates(e, o)
        BY <3>2, <2>6 DEF PopEffect, Refused
      <4> QED
        BY <4>1, <3>2, <2>3, <2>2, <2>6
    <3> QED
      BY <3>1, <3>2 DEF PopEffect
  <2>7. ASSUME NEW j \in DOMAIN events', NEW p \in Object, j < k, Creates(events'[j], p), p.id = o.id
        PROVE  p = o
    <3>1. j + 1 \in DOMAIN events /\ j + 1 < k + 1 /\ Creates(events[j + 1], p)
      BY <2>7, <1>e
    <3> QED
      BY <3>1, <2>3, <2>7
  <2> QED
    BY <2>5, <2>6, <2>7
<1> QED
  BY <1>1 DEF EventsFind, Creates, About

LEMMA HandlersAlivePopped ==
    ASSUME TypesOK, IdsApart, ClientInv, NEW e, PopEffect(e), handlers' \subseteq Object
    PROVE  HandlersAlive'
<1>0. /\ resources' = resources /\ given_up' = given_up /\ HandlersAlive /\ Announced
      /\ e = Head(events) /\ events # <<>>
  BY DEF ClientInv, PopEffect, Popped
<1>1. \A o \in Object : Creates(e, o) => o \in resources /\ o \notin given_up /\ ~DestroyAsked(o) /\ o \notin handlers
  BY <1>0, EventsPopped DEF Announced, PopEffect
<1>2. ASSUME NEW h \in handlers'
      PROVE  IF h \in given_up' THEN h.of = 0 ELSE h \in resources' /\ ~DestroyAsked(h)'
  BY <1>0, <1>1, <1>2 DEF HandlersAlive, PopEffect
<1>3. ASSUME NEW w \in given_up' \cap resources', w.of # 0, NEW h \in handlers' PROVE h.id # w.id
  <2>1. CASE h \in handlers
    BY <2>1, <1>3, <1>0 DEF HandlersAlive
  <2>2. CASE Creates(e, h)
    BY <2>2, <1>3, <1>0, <1>1 DEF IdsApart
  <2> QED
    BY <2>1, <2>2 DEF PopEffect
<1> QED
  BY <1>2, <1>3 DEF HandlersAlive

\* The tables and the events left add up to what they did before.
LEMMA TherePopped ==
    ASSUME TypesOK, ClientInv, NEW e, PopEffect(e), NEW w \in Object, w.of # 0, NEW k \in Nat \ {0}
    PROVE  There(w, k)' <=> There(w, k + 1)
<1>0. Popped /\ e = events[1]
  BY EventsPopped DEF PopEffect
<1>1. /\ Born(w, k + 1) <=> Creates(e, w) \/ Born(w, k)'
      /\ Gone(w, k + 1) <=> Removes(e, w) \/ Gone(w, k)'
  BY <1>0, PastPopped
<1>2. Listing(w)' <=> (Listing(w) \/ Creates(e, w)) /\ ~Removes(e, w)
  BY DEF PopEffect
<1>3. ~(Removes(e, w) /\ Born(w, k)')
  <2>1. ASSUME Removes(e, w), Born(w, k)' PROVE FALSE
    <3>1. PICK j \in DOMAIN events' : Creates(events'[j], w)
      BY <2>1 DEF Born, Creates
    <3>2. j + 1 \in DOMAIN events /\ Creates(events[j + 1], w) /\ j + 1 > 1 /\ 1 \in DOMAIN events
      BY <3>1, <1>0, EventsPopped
    <3>3. About(e, w)
      BY <2>1 DEF Removes, About
    <3>4. w \notin handlers /\ w \notin given_up
      BY <3>2 DEF ClientInv, Announced
    <3>5. ~Born(w, 1)
      BY <1>0, EventsPopped DEF Born
    <3> QED
      BY <3>2, <3>3, <3>4, <3>5, <1>0 DEF ClientInv, EventsFind
  <2> QED
    BY <2>1
<1> QED
  BY <1>1, <1>2, <1>3 DEF There

LEMMA GroupPopped ==
    ASSUME TypesOK, NEW e, PopEffect(e), NEW g \in Object, g.of = 0, NEW k \in Nat \ {0},
           g \in ToSet(groups) \/ Born(g, k + 1)
    PROVE  g \in ToSet(groups)' \/ Born(g, k)'
<1>0. Popped /\ e = events[1]
  BY EventsPopped DEF PopEffect
<1>1. Born(g, k + 1) <=> Creates(e, g) \/ Born(g, k)'
  BY <1>0, PastPopped
<1> QED
  BY <1>1 DEF PopEffect

LEMMA FollowsPopped ==
    ASSUME TypesOK, ClientInv, NEW e, PopEffect(e)
    PROVE  TruthFollows' /\ ViewsFollow'
<1>0. /\ Popped /\ e = events[1] /\ UNCHANGED <<resources, removed, active, given_up>>
      /\ TruthFollows /\ ViewsFollow
  BY EventsPopped DEF PopEffect, ClientInv
<1>e. /\ \A k \in DOMAIN events' : k + 1 \in DOMAIN events /\ events'[k] = events[k + 1] /\ k \in Nat \ {0}
      /\ Len(events') + 1 \in Nat \ {0} /\ (Len(events') + 1) + 1 = Len(events) + 1
  BY <1>0, EventsPopped
<1>1. \A w \in Object : \A k \in Nat \ {0} : w.of # 0 => (There(w, k)' <=> There(w, k + 1))
  BY TherePopped
<1>2. \A w \in Object : \A k \in Nat \ {0} : ActiveAt(w, k)' <=> ActiveAt(w, k + 1)
  <2> SUFFICES ASSUME NEW w \in Object, NEW k \in Nat \ {0}
               PROVE  ActiveAt(w, k)' <=> ActiveAt(w, k + 1)
    OBVIOUS
  <2>1. w \in states' <=> IF Says(events[1], w) THEN events[1].active ELSE w \in states
    BY <1>0 DEF PopEffect
  <2> QED
    BY <2>1, <1>0, ActivePopped
<1>3. \A g \in Object : \A k \in Nat \ {0} :
        g.of = 0 /\ (g \in ToSet(groups) \/ Born(g, k + 1)) => g \in ToSet(groups)' \/ Born(g, k)'
  BY GroupPopped
<1>4. TruthFollows'
  <2>m. PICK n \in Nat \ {0} : n = Len(events') + 1 /\ n + 1 = Len(events) + 1
    BY <1>e
  <2>1. ASSUME NEW w \in Object, w.of # 0, w \notin given_up'
        PROVE  /\ w \in resources' \ removed' <=> There(w, n)'
               /\ w \in resources' \ removed' => (w \in active' <=> ActiveAt(w, n)')
    <3>1. There(w, n)' <=> There(w, Len(events) + 1)
      BY <1>1, <2>m, <2>1
    <3>2. ActiveAt(w, n)' <=> ActiveAt(w, Len(events) + 1)
      BY <1>2, <2>m, <2>1
    <3> QED
      BY <2>1, <3>1, <3>2, <1>0 DEF TruthFollows
  <2>2. ASSUME NEW g \in resources', g.of = 0
        PROVE  g \in ToSet(groups)' \/ Born(g, n)'
    <3>1. g \in Object /\ g \in resources
      BY <2>2, <1>0 DEF TypesOK, TypeOK
    <3> QED
      BY <2>2, <3>1, <1>3, <2>m, <1>0 DEF TruthFollows
  <2>3. \A w : /\ There(w, n)' <=> There(w, Len(events) + 1)'
               /\ ActiveAt(w, n)' <=> ActiveAt(w, Len(events) + 1)'
               /\ Born(w, n)' <=> Born(w, Len(events) + 1)'
    BY <2>m DEF There, ActiveAt, Born, Gone
  <2> QED
    BY <2>1, <2>2, <2>3 DEF TruthFollows
<1>5. ViewsFollow'
  <2> SUFFICES ASSUME NEW k \in DOMAIN events', events'[k].ev = "done"
               PROVE  ViewFollows(k)'
    BY DEF ViewsFollow
  <2>1. ViewFollows(k + 1) /\ k \in Nat \ {0} /\ events'[k] = events[k + 1]
    BY <1>0, <1>e DEF ViewsFollow
  <2>3. \A w \in Object : Own(w)' <=> Own(w)
    BY <1>0 DEF Own
  <2>4. ASSUME NEW v
        PROVE  v \in Mine(events[k].view)' <=> \E w \in Object, a \in BOOLEAN :
                  /\ w.of # 0 /\ Own(w)' /\ There(w, k)' /\ (a <=> ActiveAt(w, k)')
                  /\ v = Entry(w, a)
    <3>1. v \in Mine(events[k + 1].view) <=> \E w \in Object, a \in BOOLEAN :
             /\ w.of # 0 /\ Own(w) /\ There(w, k + 1) /\ (a <=> ActiveAt(w, k + 1))
             /\ v = Entry(w, a)
      BY <2>1 DEF ViewFollows
    <3>2. Mine(events[k].view)' = Mine(events[k + 1].view)
      BY <1>0, <2>1 DEF Mine
    <3> QED
      BY <3>1, <3>2, <1>1, <1>2, <2>1, <2>3
  <2>5. ASSUME NEW n \in events'[k].view.groups
        PROVE  \E g \in Object : g.of = 0 /\ g.no = n /\ (g \in ToSet(groups)' \/ Born(g, k)')
    <3>1. PICK g \in Object : g.of = 0 /\ g.no = n /\ (g \in ToSet(groups) \/ Born(g, k + 1))
      BY <2>1, <2>5 DEF ViewFollows
    <3> QED
      BY <3>1, <1>3, <2>1
  <2> QED
    BY <2>4, <2>5 DEF ViewFollows, Mine, Entry
<1> QED
  BY <1>4, <1>5

-----------------------------------------------------------------------------
\* The handlers.
LEMMA ClientPopped ==
    ASSUME TypesOK, IdsApart, ClientInv, NEW e, PopEffect(e), TypeOK', TablesMatch'
    PROVE  ClientInv'
<1>1. /\ groups' \in Seq(Object) /\ handlers' \subseteq Object /\ states' \subseteq Object
      /\ \A n \in DOMAIN workspaces' : n \in 1..MaxObjects /\ workspaces'[n] \subseteq Object
  BY DEF TypeOK
<1>2. \A n \in DOMAIN workspaces' : \A w \in workspaces'[n] : w.of = n
  BY DEF TablesMatch
<1>3. \A n \in DOMAIN workspaces' : n # 0
  BY <1>1, WorkspaceAssumption
<1>4. Numbered'
  BY <1>1, <1>2, <1>3, NumberedPopped
<1>5. Grouped' /\ RemovedLast'
  BY GroupedPopped, RemovedLastPopped DEF PopEffect, ClientInv
<1> QED
  BY <1>1, <1>4, <1>5, AnnouncedPopped, EventsFindPopped, HandlersAlivePopped, FollowsPopped
     DEF ClientInv

LEMMA WorkspaceGroupKeeps ==
    ASSUME WorkspacesInv, OnWorkspaceGroup
    PROVE  TypesOK' /\ ClientInv'
<1> DEFINE g == Head(events).new
           e == Head(events)
<1>1. /\ TypesOK /\ TypeOK /\ IdsApart /\ ClientInv /\ Popped /\ e \in Event /\ e = events[1]
      /\ 1 \in DOMAIN events /\ events' \in Seq(Event) /\ e.ev = "workspace_group" /\ ~Refused(g)
      /\ Running
  BY EventsPopped DEF WorkspacesInv, OnWorkspaceGroup, Take, Popped, TypesOK
<1>2. g \in Object /\ g.of = 0
  BY <1>1, EventFields DEF ClientInv, Grouped
<1>3. /\ handlers' = handlers \cup {g} /\ groups' = Append(groups, g)
      /\ workspaces' = [k \in DOMAIN workspaces \cup {g.no} |-> IF k = g.no THEN {} ELSE workspaces[k]]
      /\ UNCHANGED <<states, printed, raised, synced, given_up, ncalls, resources, removed, active,
                     unsynced, nobjects, nchanges, rejected, misled, requests>>
  BY DEF OnWorkspaceGroup, serverVars
<1>4. /\ g \in resources /\ g \notin handlers \cup given_up \cup states
      /\ g.no \notin DOMAIN workspaces
  BY <1>1, <1>2 DEF ClientInv, Announced, Creates
<1>5. \A o \in Object : /\ Creates(e, o) <=> o = g
                        /\ ~Removes(e, o) /\ ~Says(e, o)
  BY <1>1, <1>2 DEF Creates, Removes, Says
<1> HIDE DEF g, e
<1>6. groups' \in Seq(Object) /\ ToSet(groups)' = ToSet(groups) \cup {g}
  <2>1. groups \in Seq(Object)
    BY <1>1 DEF TypeOK
  <2>2. /\ groups' \in Seq(Object) /\ Len(groups') = Len(groups) + 1
        /\ \A i \in 1..Len(groups) : groups'[i] = groups[i]
        /\ groups'[Len(groups) + 1] = g
    BY <1>2, <1>3, <2>1, AppendProperties
  <2>3. DOMAIN groups = 1..Len(groups) /\ DOMAIN groups' = 1..(Len(groups) + 1) /\ Len(groups) \in Nat
    BY <2>1, <2>2, LenProperties
  <2>4. ASSUME NEW o PROVE o \in ToSet(groups') <=> o \in ToSet(groups) \cup {g}
    BY <2>2, <2>3 DEF ToSet
  <2> QED
    BY <2>2, <2>4
<1>7. /\ DOMAIN workspaces' = DOMAIN workspaces \cup {g.no}
      /\ workspaces'[g.no] = {} /\ \A n \in DOMAIN workspaces : workspaces'[n] = workspaces[n]
  BY <1>3, <1>4
<1>8. TypeOK' /\ TypesOK'
  <2>1. g.no \in 1..MaxObjects
    BY <1>2 DEF Object
  <2>2. \A n \in DOMAIN workspaces' : n \in 1..MaxObjects /\ workspaces'[n] \subseteq Object
    BY <1>1, <1>7, <2>1 DEF TypeOK
  <2> QED
    BY <1>1, <1>2, <1>3, <1>6, <2>2 DEF TypeOK, TypesOK
<1>9. \A o \in Object : Listing(o)' <=> Listing(o)
  BY <1>4, <1>7 DEF Listing
<1>10. PopEffect(e)
  <2>1. UNCHANGED <<resources, removed, active, nobjects, given_up>> /\ e = Head(events)
    BY <1>3 DEF e
  <2>2. ASSUME NEW o \in Object
        PROVE  /\ Creates(e, o) => o \in handlers' /\ ~Refused(o)
               /\ o \in handlers' => o \in handlers \/ Creates(e, o)
               /\ o \in handlers => o \in handlers' \/ Removes(e, o)
               /\ o \in states' => o \in states \/ o \in handlers
               /\ o \in states' <=> IF Says(e, o) THEN e.active ELSE o \in states
               /\ o \in ToSet(groups)' <=> o \in ToSet(groups) \/ (Creates(e, o) /\ o.of = 0)
    BY <1>1, <1>2, <1>3, <1>5, <1>6
  <2>3. ASSUME NEW o \in Object
        PROVE  /\ o.of # 0 => (Listing(o)' <=> (Listing(o) \/ Creates(e, o)) /\ ~Removes(e, o))
               /\ DestroyAsked(o)' => DestroyAsked(o)
    BY <1>2, <1>3, <1>5, <1>9 DEF DestroyAsked, Destroys
  <2>4. \A n \in DOMAIN workspaces' :
           n \in DOMAIN workspaces \/ \E o \in Object : Creates(e, o) /\ o.no = n /\ o.of = 0
    BY <1>2, <1>5, <1>7
  <2> QED
    BY <1>1, <2>1, <2>2, <2>3, <2>4 DEF PopEffect
<1>11. TablesMatch'
  <2>1. \A h, i \in handlers' : h.id = i.id => h = i
    BY <1>1, <1>3 DEF ClientInv, TablesMatch, Refused
  <2>2. \A h \in handlers' : IF h.of = 0 THEN h \in ToSet(groups)' ELSE Listing(h)'
    BY <1>1, <1>2, <1>3, <1>6, <1>9 DEF ClientInv, TablesMatch, TypeOK
  <2>3. /\ ToSet(groups)' \subseteq handlers'
        /\ \A k \in ToSet(groups)' : k.of = 0
    BY <1>1, <1>2, <1>3, <1>6 DEF ClientInv, TablesMatch
  <2>4. DOMAIN workspaces' = {k.no : k \in ToSet(groups)'}
    BY <1>1, <1>6, <1>7 DEF ClientInv, TablesMatch
  <2>5. \A n \in DOMAIN workspaces' : \A w \in workspaces'[n] : w.of = n /\ w \in handlers' \cup given_up'
    BY <1>1, <1>3, <1>7 DEF ClientInv, TablesMatch
  <2> QED
    BY <2>1, <2>2, <2>3, <2>4, <2>5 DEF TablesMatch
<1> QED
  BY <1>1, <1>8, <1>10, <1>11, ClientPopped

LEMMA WorkspaceKeeps ==
    ASSUME WorkspacesInv, NEW g \in handlers, OnWorkspace(g)
    PROVE  TypesOK' /\ ClientInv'
<1> DEFINE w == Head(events).new
           e == Head(events)
<1>1. /\ TypesOK /\ TypeOK /\ IdsApart /\ ClientInv /\ Popped /\ e \in Event /\ e = events[1]
      /\ 1 \in DOMAIN events /\ events' \in Seq(Event) /\ e.ev = "workspace" /\ ~Refused(w)
      /\ Running
  BY EventsPopped DEF WorkspacesInv, OnWorkspace, Take, Popped, TypesOK
<1>2. w \in Object /\ e.obj \in Object /\ w.of = e.obj.no /\ e.obj.of = 0
  BY <1>1, EventFields DEF ClientInv, Grouped
<1>g. g = e.obj /\ g \in Object
  <2>1. About(e, e.obj) /\ g.id = e.obj.id
    BY <1>1 DEF About, OnWorkspace, IsFor
  <2>2. events # <<>>
    BY <1>1 DEF Popped
  <2> QED
    BY <1>1, <1>2, <2>1, <2>2, Found
<1>3. /\ handlers' = handlers \cup {w}
      /\ workspaces' = [workspaces EXCEPT ![g.no] = @ \cup {w}]
      /\ UNCHANGED <<groups, states, printed, raised, synced, given_up, ncalls, resources, removed, active,
                     unsynced, nobjects, nchanges, rejected, misled, requests>>
  BY DEF OnWorkspace, serverVars
<1>4. /\ w \in resources /\ w \notin handlers \cup given_up \cup states /\ ~Listing(w)
  BY <1>1, <1>2 DEF ClientInv, Announced, Creates
<1>5. \A o \in Object : /\ Creates(e, o) <=> o = w
                        /\ ~Removes(e, o) /\ ~Says(e, o)
  BY <1>1, <1>2 DEF Creates, Removes, Says
<1>6. g.no \in DOMAIN workspaces /\ g.no # 0 /\ w.of = g.no
  <2>1. g \in ToSet(groups)
    BY <1>1, <1>2, <1>g DEF ClientInv, TablesMatch
  <2> QED
    BY <1>1, <1>2, <1>g, <2>1, ObjectFields, WorkspaceAssumption DEF ClientInv, TablesMatch
<1> HIDE DEF w, e
<1>7. /\ DOMAIN workspaces' = DOMAIN workspaces
      /\ workspaces'[g.no] = workspaces[g.no] \cup {w}
      /\ \A n \in DOMAIN workspaces : n # g.no => workspaces'[n] = workspaces[n]
  BY <1>3, <1>6
<1>8. TypeOK' /\ TypesOK'
  <2>2. \A n \in DOMAIN workspaces' : n \in 1..MaxObjects /\ workspaces'[n] \subseteq Object
    BY <1>1, <1>2, <1>7 DEF TypeOK
  <2> QED
    BY <1>1, <1>2, <1>3, <2>2 DEF TypeOK, TypesOK
<1>9. \A o \in Object : Listing(o)' <=> Listing(o) \/ o = w
  BY <1>6, <1>7 DEF Listing
<1>10. PopEffect(e)
  <2>1. UNCHANGED <<resources, removed, active, nobjects, given_up>> /\ e = Head(events)
    BY <1>3 DEF e
  <2>2. ASSUME NEW o \in Object
        PROVE  /\ Creates(e, o) => o \in handlers' /\ ~Refused(o)
               /\ o \in handlers' => o \in handlers \/ Creates(e, o)
               /\ o \in handlers => o \in handlers' \/ Removes(e, o)
               /\ o \in states' => o \in states \/ o \in handlers
               /\ o \in states' <=> IF Says(e, o) THEN e.active ELSE o \in states
    BY <1>1, <1>2, <1>3, <1>5
  <2>5. ASSUME NEW o \in Object
        PROVE  o \in ToSet(groups)' <=> o \in ToSet(groups) \/ (Creates(e, o) /\ o.of = 0)
    BY <1>3, <1>5, <1>6 DEF ToSet
  <2>3. ASSUME NEW o \in Object
        PROVE  /\ o.of # 0 => (Listing(o)' <=> (Listing(o) \/ Creates(e, o)) /\ ~Removes(e, o))
               /\ DestroyAsked(o)' => DestroyAsked(o)
    BY <1>2, <1>3, <1>5, <1>9 DEF DestroyAsked, Destroys
  <2>4. \A n \in DOMAIN workspaces' : n \in DOMAIN workspaces
    BY <1>7
  <2> QED
    BY <1>1, <2>1, <2>2, <2>3, <2>4, <2>5 DEF PopEffect
<1>11. TablesMatch'
  <2>1. \A h, i \in handlers' : h.id = i.id => h = i
    BY <1>1, <1>3 DEF ClientInv, TablesMatch, Refused
  <2>0. ToSet(groups)' = ToSet(groups)
    BY <1>3 DEF ToSet
  <2>2. \A h \in handlers' : IF h.of = 0 THEN h \in ToSet(groups)' ELSE Listing(h)'
    BY <1>1, <1>2, <1>3, <1>6, <1>9, <2>0 DEF ClientInv, TablesMatch, TypeOK
  <2>3. /\ ToSet(groups)' \subseteq handlers'
        /\ \A k \in ToSet(groups)' : k.of = 0
    BY <1>1, <1>2, <1>3, <2>0 DEF ClientInv, TablesMatch
  <2>4. DOMAIN workspaces' = {k.no : k \in ToSet(groups)'}
    BY <1>1, <2>0, <1>7 DEF ClientInv, TablesMatch
  <2>5. \A n \in DOMAIN workspaces' : \A v \in workspaces'[n] : v.of = n /\ v \in handlers' \cup given_up'
    BY <1>1, <1>3, <1>6, <1>7 DEF ClientInv, TablesMatch
  <2> QED
    BY <2>1, <2>2, <2>3, <2>4, <2>5 DEF TablesMatch
<1> QED
  BY <1>1, <1>8, <1>10, <1>11, ClientPopped

LEMMA StateKeeps ==
    ASSUME WorkspacesInv, NEW w \in handlers, OnState(w)
    PROVE  TypesOK' /\ ClientInv'
<1> DEFINE e == Head(events)
<1>1. /\ TypesOK /\ TypeOK /\ IdsApart /\ ClientInv /\ Popped /\ e \in Event /\ e = events[1]
      /\ 1 \in DOMAIN events /\ events' \in Seq(Event) /\ e.ev = "state"
      /\ Running
  BY EventsPopped DEF WorkspacesInv, OnState, Take, Popped, TypesOK
<1>2. e.obj \in Object
  BY <1>1, EventFields
<1>g. w = e.obj /\ w \in Object
  <2>1. About(e, e.obj) /\ w.id = e.obj.id
    BY <1>1 DEF About, OnState, IsFor
  <2>2. events # <<>>
    BY <1>1 DEF Popped
  <2> QED
    BY <1>1, <1>2, <2>1, <2>2, Found
<1>3. /\ states' = IF e.active THEN states \cup {w} ELSE states \ {w}
      /\ UNCHANGED <<handlers, groups, workspaces, printed, raised, synced, given_up, ncalls, resources,
                     removed, active, unsynced, nobjects, nchanges, rejected, misled, requests>>
  BY DEF OnState, serverVars
<1>5. \A o \in Object : /\ Says(e, o) <=> o = w
                        /\ ~Removes(e, o) /\ ~Creates(e, o)
  BY <1>1, <1>2, <1>g DEF Creates, Removes, Says
<1> HIDE DEF e
<1>8. TypeOK' /\ TypesOK'
  BY <1>1, <1>g, <1>3 DEF TypeOK, TypesOK
<1>9. \A o \in Object : /\ Listing(o)' <=> Listing(o)
                        /\ DestroyAsked(o)' <=> DestroyAsked(o)
                        /\ o \in ToSet(groups)' <=> o \in ToSet(groups)
  BY <1>3 DEF Listing, DestroyAsked, Destroys, ToSet
<1>10. PopEffect(e)
  <2>1. UNCHANGED <<resources, removed, active, nobjects, given_up>> /\ e = Head(events)
    BY <1>3 DEF e
  <2>2. ASSUME NEW o \in Object
        PROVE  /\ o \in states' => o \in states \/ o \in handlers
               /\ o \in states' <=> IF Says(e, o) THEN e.active ELSE o \in states
    BY <1>3, <1>5
  <2> QED
    BY <1>1, <1>3, <1>5, <1>9, <2>1, <2>2 DEF PopEffect
<1>11. TablesMatch'
  BY <1>1, <1>3 DEF ClientInv, TablesMatch, Listing, ToSet
<1> QED
  BY <1>1, <1>8, <1>10, <1>11, ClientPopped

LEMMA GroupRemoveKeeps ==
    ASSUME WorkspacesInv, NEW g \in handlers, OnGroupRemove(g)
    PROVE  TypesOK' /\ ClientInv'
<1> DEFINE e == Head(events)
<1>1. /\ TypesOK /\ TypeOK /\ IdsApart /\ ClientInv /\ Popped /\ e \in Event /\ e = events[1]
      /\ 1 \in DOMAIN events /\ events' \in Seq(Event) /\ e.ev = "remove"
      /\ Running /\ g.of = 0
  BY EventsPopped DEF WorkspacesInv, OnGroupRemove, Take, Popped, TypesOK
<1>2. e.obj \in Object
  BY <1>1, EventFields
<1>g. g = e.obj /\ g \in Object
  <2>1. About(e, e.obj) /\ g.id = e.obj.id
    BY <1>1 DEF About, OnGroupRemove, IsFor
  <2>2. events # <<>>
    BY <1>1 DEF Popped
  <2> QED
    BY <1>1, <1>2, <2>1, <2>2, Found
<1>3. UNCHANGED <<handlers, groups, workspaces, states, printed, raised, synced, given_up, ncalls,
                  resources, removed, active, unsynced, nobjects, nchanges, rejected, misled, requests>>
  BY DEF OnGroupRemove, serverVars, clientVars
<1>5. \A o \in Object : /\ Removes(e, o) <=> o = g
                        /\ ~Says(e, o) /\ ~Creates(e, o)
  BY <1>1, <1>2, <1>g DEF Creates, Removes, Says
<1> HIDE DEF e
<1>8. TypeOK' /\ TypesOK'
  BY <1>1, <1>g, <1>3 DEF TypeOK, TypesOK
<1>9. \A o \in Object : /\ Listing(o)' <=> Listing(o)
                        /\ DestroyAsked(o)' <=> DestroyAsked(o)
                        /\ o \in ToSet(groups)' <=> o \in ToSet(groups)
  BY <1>3 DEF Listing, DestroyAsked, Destroys, ToSet
<1>10. PopEffect(e)
  <2>1. UNCHANGED <<resources, removed, active, nobjects, given_up>> /\ e = Head(events)
    BY <1>3 DEF e
  <2> QED
    BY <1>1, <1>3, <1>5, <1>9, <2>1 DEF PopEffect
<1>11. TablesMatch'
  BY <1>1, <1>3 DEF ClientInv, TablesMatch, Listing, ToSet
<1> QED
  BY <1>1, <1>8, <1>10, <1>11, ClientPopped

LEMMA DoneKeeps ==
    ASSUME WorkspacesInv, OnDone
    PROVE  TypesOK' /\ ClientInv'
<1> DEFINE e == Head(events)
<1>1. /\ TypesOK /\ TypeOK /\ IdsApart /\ ClientInv /\ Popped /\ e \in Event /\ e = events[1]
      /\ 1 \in DOMAIN events /\ events' \in Seq(Event) /\ e.ev = "done"
      /\ Running
  BY EventsPopped DEF WorkspacesInv, OnDone, Take, Popped, TypesOK
<1>3. UNCHANGED <<handlers, groups, workspaces, states, raised, given_up, ncalls,
                  resources, removed, active, unsynced, nobjects, nchanges, rejected, misled, requests>>
  BY DEF OnDone, serverVars
<1>5. \A o \in Object : ~Removes(e, o) /\ ~Says(e, o) /\ ~Creates(e, o)
  BY <1>1 DEF Creates, Removes, Says
<1> HIDE DEF e
<1>8. TypeOK' /\ TypesOK'
  BY <1>1, <1>3 DEF TypeOK, TypesOK
<1>9. \A o \in Object : /\ Listing(o)' <=> Listing(o)
                        /\ DestroyAsked(o)' <=> DestroyAsked(o)
                        /\ o \in ToSet(groups)' <=> o \in ToSet(groups)
  BY <1>3 DEF Listing, DestroyAsked, Destroys, ToSet
<1>10. PopEffect(e)
  <2>1. UNCHANGED <<resources, removed, active, nobjects, given_up>> /\ e = Head(events)
    BY <1>3 DEF e
  <2> QED
    BY <1>1, <1>3, <1>5, <1>9, <2>1 DEF PopEffect
<1>11. TablesMatch'
  BY <1>1, <1>3 DEF ClientInv, TablesMatch, Listing, ToSet
<1> QED
  BY <1>1, <1>8, <1>10, <1>11, ClientPopped

\* What is printed is what the done event stands for.
LEMMA DoneShows ==
    ASSUME WorkspacesInv, OnDone
    PROVE  Mine(printed)' = Mine(synced)' /\ synced'.groups \subseteq printed'.groups
<1> DEFINE view == Head(events).view
<1>1. /\ TypesOK /\ TypeOK /\ ClientInv /\ Popped /\ Head(events) = events[1]
      /\ 1 \in DOMAIN events /\ events[1].ev = "done" /\ events \in Seq(Event)
  BY EventsPopped DEF WorkspacesInv, OnDone, Take, Popped, TypesOK, Running
<1>2. ViewFollows(1)
  BY <1>1 DEF ClientInv, ViewsFollow
<1>3. \A o : ~Born(o, 1) /\ ~Gone(o, 1)
  BY <1>1 DEF Born, Gone
<1>4. \A w : ActiveAt(w, 1) <=> w \in states
  BY <1>1 DEF ActiveAt
<1>5. synced' = events[1].view /\ given_up' = given_up
  BY <1>1 DEF OnDone
<1>6. printed' = [groups |-> {g.no : g \in ToSet(groups)},
                  workspaces |-> UNION {{[no |-> w.no, of |-> g.no, active |-> w \in states] :
                                          w \in workspaces[g.no]} : g \in ToSet(groups)}]
  BY DEF OnDone
<1>7. ASSUME NEW v PROVE v \in printed'.workspaces <=> \E g \in ToSet(groups) : \E w \in workspaces[g.no] :
                            v = [no |-> w.no, of |-> g.no, active |-> w \in states]
  BY <1>6
<1>8. ASSUME NEW v PROVE v \in printed'.workspaces <=> \E w \in Object, a \in BOOLEAN :
                            w.of # 0 /\ Listing(w) /\ (a <=> w \in states) /\ v = Entry(w, a)
  <2>1. /\ DOMAIN workspaces = {g.no : g \in ToSet(groups)}
        /\ \A n \in DOMAIN workspaces : \A w \in workspaces[n] : w.of = n
        /\ \A n \in DOMAIN workspaces : n \in 1..MaxObjects /\ workspaces[n] \subseteq Object
    BY <1>1 DEF ClientInv, TablesMatch, TypeOK
  <2>2. ASSUME NEW g \in ToSet(groups), NEW w \in workspaces[g.no],
               v = [no |-> w.no, of |-> g.no, active |-> w \in states]
        PROVE  \E x \in Object, a \in BOOLEAN :
                  x.of # 0 /\ Listing(x) /\ (a <=> x \in states) /\ v = Entry(x, a)
    <3>1. g.no \in DOMAIN workspaces /\ w \in Object /\ w.of = g.no
      BY <2>1
    <3>2. w.of # 0 /\ Listing(w)
      BY <3>1, <2>1, WorkspaceAssumption DEF Listing
    <3>3. PICK a \in BOOLEAN : a = (w \in states)
      <4>1. (w \in states) \in BOOLEAN
        OBVIOUS
      <4> QED
        BY <4>1, Zenon
    <3>4. v = Entry(w, a)
      BY <2>2, <3>1, <3>3 DEF Entry
    <3> QED
      BY <3>1, <3>2, <3>3, <3>4
  <2>3. ASSUME NEW w \in Object, NEW a \in BOOLEAN, w.of # 0, Listing(w), a <=> w \in states, v = Entry(w, a)
        PROVE  \E g \in ToSet(groups) : \E x \in workspaces[g.no] :
                  v = [no |-> x.no, of |-> g.no, active |-> x \in states]
    <3>1. PICK g \in ToSet(groups) : g.no = w.of
      BY <2>1, <2>3 DEF Listing
    <3>2. w \in workspaces[g.no]
      BY <2>3, <3>1 DEF Listing
    <3>3. a = (w \in states)
      BY <2>3
    <3>4. v = [no |-> w.no, of |-> g.no, active |-> w \in states]
      BY <2>3, <3>1, <3>3 DEF Entry
    <3> QED
      BY <3>2, <3>4
  <2> QED
    BY <1>7, <2>2, <2>3
<1>9. ASSUME NEW v PROVE v \in Mine(printed)' <=> v \in Mine(synced)'
  <2>1. v \in Mine(synced)' <=> v \in Mine(events[1].view)
    BY <1>5 DEF Mine
  <2>2. v \in Mine(events[1].view) <=> \E w \in Object, a \in BOOLEAN :
           w.of # 0 /\ Own(w) /\ Listing(w) /\ (a <=> w \in states) /\ v = Entry(w, a)
    BY <1>2, <1>3, <1>4 DEF ViewFollows, There
  <2>3. v \in Mine(printed)' <=> v \in printed'.workspaces /\ \A o \in given_up : o.no # v.no
    BY <1>5 DEF Mine
  <2>4. \A w, a : Entry(w, a).no = w.no
    BY DEF Entry
  <2>5. \A w : Own(w) <=> \A o \in given_up : o.no # w.no
    BY DEF Own
  <2> QED
    BY <2>1, <2>2, <2>3, <2>4, <2>5, <1>8
<1>10. Mine(printed)' \subseteq Mine(synced)' /\ Mine(synced)' \subseteq Mine(printed)'
  BY <1>9
<1>11. \A n \in events[1].view.groups : \E g \in ToSet(groups) : g.no = n
  BY <1>2, <1>3 DEF ViewFollows
<1> QED
  BY <1>10, <1>11, <1>5, <1>6

-----------------------------------------------------------------------------
\* Requests of the application, all about one object, of which at most the last
\* destroys it.
LEMMA RequestsMore ==
    ASSUME TypesOK, RequestsKnown, NEW s \in Seq(Request), requests' = requests \o s,
           UNCHANGED <<resources, removed>>, given_up \subseteq given_up', NEW w \in Object,
           \A k \in DOMAIN s : s[k].op # "commit" => s[k].obj = w,
           \A k \in DOMAIN s : s[k].op = "destroy" => k = Len(s) /\ w \in given_up' \cup removed,
           \/ w \in given_up /\ \A k \in DOMAIN s : s[k].op # "destroy"
           \/ w \in resources /\ ~DestroyAsked(w)
    PROVE  /\ RequestsKnown'
           /\ requests' \in Seq(Request)
           /\ \A o \in Object : DestroyAsked(o)' =>
                DestroyAsked(o) \/ (o = w /\ \E k \in DOMAIN s : s[k].op = "destroy")
<1>0. requests \in Seq(Request)
  BY DEF TypesOK, TypeOK
<1>1. /\ requests' \in Seq(Request) /\ Len(requests') = Len(requests) + Len(s)
      /\ \A k \in 1..Len(requests) + Len(s) :
           requests'[k] = IF k <= Len(requests) THEN requests[k] ELSE s[k - Len(requests)]
  BY <1>0, ConcatProperties
<1>2. /\ DOMAIN requests = 1..Len(requests) /\ DOMAIN s = 1..Len(s)
      /\ DOMAIN requests' = 1..Len(requests) + Len(s)
      /\ Len(requests) \in Nat /\ Len(s) \in Nat
  BY <1>0, <1>1, LenProperties
<1>3. \A k \in DOMAIN requests : k \in DOMAIN requests' /\ requests'[k] = requests[k]
  BY <1>1, <1>2
<1>4. ASSUME NEW k \in DOMAIN requests', k \notin DOMAIN requests
      PROVE  k - Len(requests) \in DOMAIN s /\ requests'[k] = s[k - Len(requests)]
  BY <1>1, <1>2, <1>4
<1>5. ASSUME NEW k \in DOMAIN requests', requests'[k].op # "commit"
      PROVE  LET o == requests'[k].obj IN
             /\ \/ requests'[k].op # "destroy" /\ o \in given_up'
                \/ o \in resources' /\ \A j \in DOMAIN requests' : j < k => ~Destroys(requests'[j], o)
             /\ requests'[k].op = "destroy" => o \in given_up' \cup removed'
  <2>1. CASE k \in DOMAIN requests
    <3>1. \A j \in DOMAIN requests' : j < k => j \in DOMAIN requests
      BY <2>1, <1>2
    <3> QED
      BY <2>1, <3>1, <1>3, <1>5 DEF RequestsKnown
  <2>2. CASE k \notin DOMAIN requests
    <3>1. PICK m \in DOMAIN s : m = k - Len(requests) /\ requests'[k] = s[m]
      BY <1>4, <2>2
    <3>2. s[m].obj = w
      BY <1>5, <3>1
    <3>3. CASE w \in given_up /\ \A i \in DOMAIN s : s[i].op # "destroy"
      BY <3>1, <3>2, <3>3
    <3>4. CASE w \in resources /\ ~DestroyAsked(w)
      <4>1. ASSUME NEW j \in DOMAIN requests', j < k PROVE ~Destroys(requests'[j], w)
        <5>1. CASE j \in DOMAIN requests
          BY <3>4, <5>1, <1>3 DEF DestroyAsked
        <5>2. CASE j \notin DOMAIN requests
          <6>1. PICK i \in DOMAIN s : i = j - Len(requests) /\ requests'[j] = s[i]
            BY <1>4, <5>2
          <6>2. i < m /\ m <= Len(s) /\ i \in Nat /\ m \in Nat
            BY <6>1, <3>1, <4>1, <1>2
          <6>3. i # Len(s)
            BY <6>2, <1>2
          <6> QED
            BY <6>1, <6>3 DEF Destroys
        <5> QED
          BY <5>1, <5>2
      <4> QED
        BY <3>1, <3>2, <3>4, <4>1
    <3> QED
      BY <3>3, <3>4
  <2> QED
    BY <2>1, <2>2
<1>6. ASSUME NEW o \in Object, DestroyAsked(o)'
      PROVE  DestroyAsked(o) \/ (o = w /\ \E k \in DOMAIN s : s[k].op = "destroy")
  <2>1. PICK k \in DOMAIN requests' : Destroys(requests'[k], o)
    BY <1>6 DEF DestroyAsked, Destroys
  <2>2. CASE k \in DOMAIN requests
    BY <2>1, <2>2, <1>3 DEF DestroyAsked
  <2>3. CASE k \notin DOMAIN requests
    BY <2>1, <2>3, <1>4 DEF Destroys
  <2> QED
    BY <2>2, <2>3
<1>7. RequestsKnown'
  BY <1>5 DEF RequestsKnown, Destroys
<1> QED
  BY <1>1, <1>6, <1>7

\* What was printed stays right as the application destroys more.
LEMMA ShownKept ==
    ASSUME WorkspacesInv, TypeOK', UNCHANGED <<printed, synced>>, given_up \subseteq given_up'
    PROVE  SyncedView'
<1>1. ASSUME NEW v PROVE v \in Mine(printed)' <=> v \in Mine(synced)'
  <2>1. v \in Mine(printed) <=> v \in Mine(synced)
    BY DEF WorkspacesInv, SyncedView
  <2> QED
    BY <2>1 DEF Mine
<1>2. Mine(printed)' = Mine(synced)'
  <2>1. Mine(printed)' \subseteq Mine(synced)' /\ Mine(synced)' \subseteq Mine(printed)'
    BY <1>1
  <2> QED
    BY <2>1
<1> QED
  BY <1>2 DEF WorkspacesInv, SyncedView

LEMMA RestKept ==
    ASSUME WorkspacesInv, TypesOK', ClientInv',
           UNCHANGED <<resources, removed, requests, printed, synced, given_up, raised, rejected, misled>>
    PROVE  WorkspacesInv'
<1>1. IdsApart' /\ RequestsKnown'
  BY DEF WorkspacesInv, IdsApart, RequestsKnown, Destroys
<1>2. SyncedView'
  BY ShownKept DEF TypesOK
<1>3. FailsOnlyAfterDestroy'
  BY DEF WorkspacesInv, FailsOnlyAfterDestroy
<1> QED
  BY <1>1, <1>2, <1>3 DEF WorkspacesInv

LEMMA Joined ==
    ASSUME NEW r \in Seq(Request), NEW a \in Request, NEW b \in Request, NEW c \in Request
    PROVE  /\ <<a, b, c>> \in Seq(Request)
           /\ r \o <<a, b>> \o <<c>> = r \o <<a, b, c>>
<1> DEFINE s == <<a, b>>
           t == <<c>>
           u == <<a, b, c>>
<1>1. /\ s \in Seq(Request) /\ Len(s) = 2 /\ s[1] = a /\ s[2] = b
      /\ t \in Seq(Request) /\ Len(t) = 1 /\ t[1] = c
      /\ u \in Seq(Request) /\ Len(u) = 3 /\ u[1] = a /\ u[2] = b /\ u[3] = c
  OBVIOUS
<1> HIDE DEF s, t, u
<1>2. /\ s \o t \in Seq(Request) /\ Len(s \o t) = Len(s) + Len(t)
      /\ \A i \in 1..Len(s) + Len(t) : (s \o t)[i] = IF i <= Len(s) THEN s[i] ELSE t[i - Len(s)]
  BY <1>1, ConcatProperties
<1>3. \A i \in 1..3 : (s \o t)[i] = u[i]
  <2>1. \A i \in 1..3 : i = 1 \/ i = 2 \/ i = 3
    OBVIOUS
  <2>2. (s \o t)[1] = u[1] /\ (s \o t)[2] = u[2] /\ (s \o t)[3] = u[3]
    BY <1>1, <1>2
  <2> QED
    BY <2>1, <2>2
<1>4. s \o t = u
  BY <1>1, <1>2, <1>3, SeqEqual
<1>5. (r \o s) \o t = r \o (s \o t)
  BY <1>1, ConcatAssociative
<1> QED
  BY <1>1, <1>4, <1>5 DEF s, t, u

LEMMA RemoveKeeps ==
    ASSUME WorkspacesInv, NEW w \in handlers, OnRemove(w)
    PROVE  WorkspacesInv'
<1> DEFINE e == Head(events)
<1>1. /\ TypesOK /\ TypeOK /\ IdsApart /\ ClientInv /\ Popped /\ e \in Event /\ e = events[1]
      /\ 1 \in DOMAIN events /\ events' \in Seq(Event) /\ e.ev = "remove"
      /\ Running /\ w.of # 0 /\ RequestsKnown /\ FailsOnlyAfterDestroy
  BY EventsPopped DEF WorkspacesInv, OnRemove, Take, Popped, TypesOK
<1>2. e.obj \in Object
  BY <1>1, EventFields
<1>g. w = e.obj /\ w \in Object
  <2>1. About(e, e.obj) /\ w.id = e.obj.id
    BY <1>1 DEF About, OnRemove, IsFor
  <2>2. events # <<>>
    BY <1>1 DEF Popped
  <2> QED
    BY <1>1, <1>2, <2>1, <2>2, Found
<1>p. PICK twice \in BOOLEAN :
        /\ raised' = IF w \notin workspaces[w.of] THEN {"not in workspaces"}
                     ELSE IF twice THEN {"not attached"} ELSE {}
        /\ given_up' = IF twice THEN given_up \cup {w} ELSE given_up
  BY DEF OnRemove
<1>3. /\ workspaces' = [workspaces EXCEPT ![w.of] = @ \ {w}]
      /\ handlers' = handlers \ {w}
      /\ requests' = requests \o <<Command("activate", w), [op |-> "commit"]>> \o <<Command("destroy", w)>>
      /\ UNCHANGED <<groups, states, printed, synced, resources, removed, active,
                     unsynced, nobjects, nchanges, rejected, misled>>
  BY DEF OnRemove, serverVars, Forgotten, OnWorkspaceRemoved
<1>4. /\ Listing(w) /\ w \in resources /\ ~DestroyAsked(w)
      /\ w \notin given_up /\ w \in removed
  <2>1. Listing(w) /\ w \notin given_up /\ w \in resources /\ ~DestroyAsked(w)
    BY <1>1, <1>g DEF ClientInv, TablesMatch, HandlersAlive
  <2>2. Removes(events[1], w)
    BY <1>1, <1>g DEF Removes
  <2> QED
    BY <1>1, <1>g, <2>1, <2>2 DEF ClientInv, RemovedLast
<1>5. \A o \in Object : /\ Removes(e, o) <=> o = w
                        /\ ~Says(e, o) /\ ~Creates(e, o)
  BY <1>1, <1>2, <1>g DEF Creates, Removes, Says
<1>6. w.of \in DOMAIN workspaces /\ w \in workspaces[w.of]
  BY <1>4 DEF Listing
<1> HIDE DEF e
<1>7. /\ DOMAIN workspaces' = DOMAIN workspaces
      /\ workspaces'[w.of] = workspaces[w.of] \ {w}
      /\ \A n \in DOMAIN workspaces : n # w.of => workspaces'[n] = workspaces[n]
  BY <1>3, <1>6
<1>8. PICK s \in Seq(Request) : /\ requests' = requests \o s
                                /\ s = <<Command("activate", w), [op |-> "commit"], Command("destroy", w)>>
  <2>1. /\ Command("activate", w) \in Request /\ Command("destroy", w) \in Request
        /\ [op |-> "commit"] \in Request
    BY <1>g DEF Request, Command
  <2> QED
    BY <2>1, <1>1, <1>3, Joined DEF TypeOK
<1>9. /\ RequestsKnown'
      /\ requests' \in Seq(Request)
      /\ \A o \in Object : DestroyAsked(o)' => DestroyAsked(o) \/ o = w
  <2>1. /\ DOMAIN s = 1..3 /\ Len(s) = 3
        /\ s[1] = Command("activate", w) /\ s[2] = [op |-> "commit"] /\ s[3] = Command("destroy", w)
    BY <1>8
  <2>2. /\ \A k \in DOMAIN s : s[k].op # "commit" => s[k].obj = w
        /\ \A k \in DOMAIN s : s[k].op = "destroy" => k = Len(s) /\ w \in given_up' \cup removed
    BY <2>1, <1>4 DEF Command
  <2>3. given_up \subseteq given_up' /\ UNCHANGED <<resources, removed>>
    BY <1>p, <1>3
  <2>4. requests' = requests \o s
    BY <1>8
  <2>5. /\ RequestsKnown'
        /\ requests' \in Seq(Request)
        /\ \A o \in Object : DestroyAsked(o)' =>
             DestroyAsked(o) \/ (o = w /\ \E k \in DOMAIN s : s[k].op = "destroy")
    <3>1. \/ w \in given_up /\ \A k \in DOMAIN s : s[k].op # "destroy"
          \/ w \in resources /\ ~DestroyAsked(w)
      BY <1>4
    <3>2. TypesOK /\ RequestsKnown /\ w \in Object
      BY <1>1, <1>g
    <3> QED
      BY <3>1, <3>2, <2>2, <2>3, <2>4, RequestsMore
  <2> QED
    BY <2>5
<1>10. TypeOK' /\ TypesOK'
  <2>2. \A n \in DOMAIN workspaces' : n \in 1..MaxObjects /\ workspaces'[n] \subseteq Object
    BY <1>1, <1>7 DEF TypeOK
  <2>3. given_up' \subseteq Object /\ raised' \subseteq {"installed", "invalid", "not attached", "not in workspaces"}
    BY <1>1, <1>g, <1>p DEF TypesOK
  <2> QED
    BY <1>1, <1>g, <1>3, <1>9, <2>2, <2>3 DEF TypeOK, TypesOK
<1>11. IdsApart' /\ SyncedView'
  BY <1>1, <1>3, <1>p, <1>10, ShownKept DEF IdsApart
<1>12. FailsOnlyAfterDestroy'
  <2>1. raised' = IF twice THEN {"not attached"} ELSE {}
    BY <1>p, <1>6
  <2>2. raised = {}
    BY <1>1 DEF Running
  <2> QED
    BY <1>1, <1>3, <1>p, <2>1, <2>2 DEF FailsOnlyAfterDestroy
<1>13. CASE twice
  <2>1. ~Running'
    BY <1>13, <1>p, <1>6 DEF Running
  <2> QED
    BY <2>1, <1>9, <1>10, <1>11, <1>12 DEF WorkspacesInv
<1>14. CASE ~twice
  <2>0. given_up' = given_up
    BY <1>14, <1>p
  <2>1. \A o \in Object : Listing(o)' <=> Listing(o) /\ o # w
    BY <1>6, <1>7 DEF Listing
  <2>2. ToSet(groups)' = ToSet(groups)
    BY <1>3 DEF ToSet
  <2>3. PopEffect(e)
    <3>1. UNCHANGED <<resources, removed, active, nobjects, given_up>> /\ e = Head(events)
      BY <1>3, <2>0 DEF e
    <3>2. ASSUME NEW o \in Object
          PROVE  /\ Creates(e, o) => o \in handlers' /\ ~Refused(o)
                 /\ o \in handlers' => o \in handlers \/ Creates(e, o)
                 /\ o \in handlers => o \in handlers' \/ Removes(e, o)
                 /\ o \in states' => o \in states \/ o \in handlers
                 /\ o \in states' <=> IF Says(e, o) THEN e.active ELSE o \in states
                 /\ o \in ToSet(groups)' <=> o \in ToSet(groups) \/ (Creates(e, o) /\ o.of = 0)
      BY <1>3, <1>5, <2>2
    <3>3. ASSUME NEW o \in Object
          PROVE  /\ o.of # 0 => (Listing(o)' <=> (Listing(o) \/ Creates(e, o)) /\ ~Removes(e, o))
                 /\ DestroyAsked(o)' =>
                      DestroyAsked(o) \/ (o \in handlers /\ o \notin handlers' /\ Removes(e, o))
      BY <1>3, <1>5, <1>9, <2>1
    <3>4. \A n \in DOMAIN workspaces' : n \in DOMAIN workspaces
      BY <1>7
    <3> QED
      BY <1>1, <3>1, <3>2, <3>3, <3>4 DEF PopEffect
  <2>4. TablesMatch'
    <3>1. \A h, i \in handlers' : h.id = i.id => h = i
      BY <1>1, <1>3 DEF ClientInv, TablesMatch
    <3>2. \A h \in handlers' : IF h.of = 0 THEN h \in ToSet(groups)' ELSE Listing(h)'
      BY <1>1, <1>3, <2>1, <2>2 DEF ClientInv, TablesMatch, TypeOK
    <3>3. /\ ToSet(groups)' \subseteq handlers'
          /\ \A k \in ToSet(groups)' : k.of = 0
      BY <1>1, <1>3, <2>2 DEF ClientInv, TablesMatch
    <3>4. DOMAIN workspaces' = {k.no : k \in ToSet(groups)'}
      BY <1>1, <2>2, <1>7 DEF ClientInv, TablesMatch
    <3>5. \A n \in DOMAIN workspaces' : \A v \in workspaces'[n] : v.of = n /\ v \in handlers' \cup given_up'
      BY <1>1, <1>3, <1>7, <2>0 DEF ClientInv, TablesMatch
    <3> QED
      BY <3>1, <3>2, <3>3, <3>4, <3>5 DEF TablesMatch
  <2>5. ClientInv'
    BY <1>1, <1>10, <2>3, <2>4, ClientPopped
  <2> QED
    BY <2>5, <1>9, <1>10, <1>11, <1>12 DEF WorkspacesInv
<1> QED
  BY <1>13, <1>14

-----------------------------------------------------------------------------
\* Exceptions.
LEMMA RefusedKeeps ==
    ASSUME WorkspacesInv, OnRefused
    PROVE  WorkspacesInv'
<1>1. /\ TypesOK /\ TypeOK /\ IdsApart /\ ClientInv /\ Popped /\ Head(events) \in Event
      /\ Head(events) = events[1] /\ 1 \in DOMAIN events /\ events' \in Seq(Event)
      /\ Head(events).ev \in {"workspace_group", "workspace"} /\ Refused(Head(events).new)
      /\ raised' = {"installed"}
      /\ UNCHANGED <<handlers, groups, workspaces, states, printed, synced, given_up, ncalls,
                     resources, removed, active, unsynced, nobjects, nchanges, rejected, misled, requests>>
  BY EventsPopped DEF WorkspacesInv, OnRefused, Take, Popped, TypesOK, Running, serverVars
<1>2. Head(events).new \in Object
  BY <1>1, EventFields
<1>3. PICK h \in handlers : h.id = Head(events).new.id
  BY <1>1 DEF Refused
<1>4. Head(events).new \in resources /\ Head(events).new \notin handlers
  BY <1>1, <1>2 DEF ClientInv, Announced, Creates
<1>5. h \in given_up /\ h.of = 0
  BY <1>1, <1>3, <1>4 DEF ClientInv, HandlersAlive, IdsApart
<1>6. TypeOK' /\ TypesOK'
  BY <1>1 DEF TypeOK, TypesOK
<1>7. IdsApart' /\ RequestsKnown' /\ SyncedView'
  BY <1>1, <1>6, ShownKept DEF WorkspacesInv, IdsApart, RequestsKnown, Destroys
<1>8. FailsOnlyAfterDestroy'
  BY <1>1, <1>5 DEF WorkspacesInv, FailsOnlyAfterDestroy
<1>9. ~Running'
  BY <1>1 DEF Running
<1> QED
  BY <1>6, <1>7, <1>8, <1>9 DEF WorkspacesInv

LEMMA InvalidKeeps ==
    ASSUME WorkspacesInv, OnInvalid
    PROVE  WorkspacesInv'
<1>1. /\ TypesOK /\ TypeOK /\ IdsApart /\ ClientInv /\ Popped /\ Head(events) \in Event
      /\ Head(events) = events[1] /\ 1 \in DOMAIN events /\ events' \in Seq(Event)
      /\ Head(events).ev \in {"workspace", "state", "remove"}
      /\ \A h \in handlers : h.id # Head(events).obj.id
      /\ raised' = {"invalid"}
      /\ UNCHANGED <<handlers, groups, workspaces, states, printed, synced, given_up, ncalls,
                     resources, removed, active, unsynced, nobjects, nchanges, rejected, misled, requests>>
  BY EventsPopped DEF WorkspacesInv, OnInvalid, Take, Popped, TypesOK, Running, serverVars, IsFor
<1>2. Head(events).obj \in Object /\ About(events[1], Head(events).obj)
  BY <1>1, EventFields DEF About
<1>3. ~Born(Head(events).obj, 1)
  BY <1>1 DEF Born
<1>4. Head(events).obj \in given_up /\ Head(events).obj.of # 0
  BY <1>1, <1>2, <1>3 DEF ClientInv, EventsFind
<1>6. TypeOK' /\ TypesOK'
  BY <1>1 DEF TypeOK, TypesOK
<1>7. IdsApart' /\ RequestsKnown' /\ SyncedView'
  BY <1>1, <1>6, ShownKept DEF WorkspacesInv, IdsApart, RequestsKnown, Destroys
<1>8. FailsOnlyAfterDestroy'
  BY <1>1, <1>4 DEF WorkspacesInv, FailsOnlyAfterDestroy
<1>9. ~Running'
  BY <1>1 DEF Running
<1> QED
  BY <1>6, <1>7, <1>8, <1>9 DEF WorkspacesInv

LEMMA DispatchKeeps ==
    ASSUME WorkspacesInv, Dispatch
    PROVE  WorkspacesInv'
<1>1. CASE OnRefused
  BY <1>1, RefusedKeeps
<1>2. CASE OnInvalid
  BY <1>2, InvalidKeeps
<1>3. CASE OnWorkspaceGroup
  BY <1>3, WorkspaceGroupKeeps, RestKept DEF OnWorkspaceGroup, serverVars
<1>4. CASE OnDone
  <2>1. /\ UNCHANGED <<resources, removed, requests, given_up, raised, rejected, misled>>
        /\ TypesOK' /\ ClientInv'
    BY <1>4, DoneKeeps DEF OnDone, serverVars
  <2>2. IdsApart' /\ RequestsKnown' /\ FailsOnlyAfterDestroy'
    BY <2>1 DEF WorkspacesInv, IdsApart, RequestsKnown, Destroys, FailsOnlyAfterDestroy
  <2>3. SyncedView'
    BY <1>4, <2>1, DoneShows DEF SyncedView, TypesOK
  <2> QED
    BY <2>1, <2>2, <2>3 DEF WorkspacesInv
<1>5. ASSUME NEW o \in handlers, OnWorkspace(o) PROVE WorkspacesInv'
  BY <1>5, WorkspaceKeeps, RestKept DEF OnWorkspace, serverVars
<1>6. ASSUME NEW o \in handlers, OnState(o) PROVE WorkspacesInv'
  BY <1>6, StateKeeps, RestKept DEF OnState, serverVars
<1>7. ASSUME NEW o \in handlers, OnRemove(o) PROVE WorkspacesInv'
  BY <1>7, RemoveKeeps
<1>8. ASSUME NEW o \in handlers, OnGroupRemove(o) PROVE WorkspacesInv'
  BY <1>8, GroupRemoveKeeps, RestKept DEF OnGroupRemove, serverVars, clientVars
<1> QED
  BY <1>1, <1>2, <1>3, <1>4, <1>5, <1>6, <1>7, <1>8 DEF Dispatch

-----------------------------------------------------------------------------
\* The application.
LEMMA ListedKnown ==
    ASSUME TypesOK, ClientInv, NEW o \in Listed
    PROVE  o \in Object /\ (o \in given_up \/ (o \in handlers /\ o \in resources /\ ~DestroyAsked(o)))
<1>1. o \in Object /\ o \in handlers \cup given_up
  <2>1. handlers \cup given_up \subseteq Object
    BY DEF TypesOK, TypeOK
  <2>2. o \in ToSet(groups) \/ \E n \in DOMAIN workspaces : o \in workspaces[n]
    BY DEF Listed
  <2>3. o \in handlers \cup given_up
    BY <2>2 DEF ClientInv, TablesMatch
  <2> QED
    BY <2>1, <2>3
<1> QED
  BY <1>1 DEF ClientInv, HandlersAlive

LEMMA AskKeeps ==
    ASSUME WorkspacesInv, NEW o \in Listed, Ask(o) \/ CreateWorkspace(o)
    PROVE  WorkspacesInv'
<1>1. /\ TypesOK /\ TypeOK /\ IdsApart /\ ClientInv /\ RequestsKnown
      /\ UNCHANGED <<handlers, groups, workspaces, states, printed, raised, synced, given_up,
                     resources, removed, active, unsynced, nobjects, nchanges, rejected, misled, events>>
  BY DEF WorkspacesInv, Ask, CreateWorkspace, Call, TypesOK, serverVars
<1>2. o \in Object /\ (o \in given_up \/ (o \in resources /\ ~DestroyAsked(o)))
  BY <1>1, ListedKnown
<1>3. PICK op \in {"create_workspace", "activate"} : requests' = requests \o <<Command(op, o), [op |-> "commit"]>>
  BY DEF Ask, CreateWorkspace
<1>4. PICK s \in Seq(Request) : /\ requests' = requests \o s /\ s = <<Command(op, o), [op |-> "commit"]>>
  <2>1. Command(op, o) \in Request /\ [op |-> "commit"] \in Request
    BY <1>2 DEF Request, Command
  <2>2. <<Command(op, o), [op |-> "commit"]>> \in Seq(Request)
    BY <2>1
  <2> QED
    BY <2>2, <1>3
<1>5. /\ RequestsKnown'
      /\ requests' \in Seq(Request)
      /\ \A p \in Object : DestroyAsked(p)' =>
           DestroyAsked(p) \/ (p = o /\ \E k \in DOMAIN s : s[k].op = "destroy")
  <2>1. DOMAIN s = 1..2 /\ s[1] = Command(op, o) /\ s[2] = [op |-> "commit"]
    BY <1>4
  <2>2. /\ \A k \in DOMAIN s : s[k].op # "commit" => s[k].obj = o
        /\ \A k \in DOMAIN s : s[k].op # "destroy"
    BY <2>1 DEF Command
  <2>3. /\ \A k \in DOMAIN s : s[k].op = "destroy" => k = Len(s) /\ o \in given_up' \cup removed
        /\ \/ o \in given_up /\ \A k \in DOMAIN s : s[k].op # "destroy"
           \/ o \in resources /\ ~DestroyAsked(o)
    BY <2>2, <1>2
  <2>4. given_up \subseteq given_up' /\ UNCHANGED <<resources, removed>> /\ TypesOK /\ RequestsKnown
    BY <1>1
  <2>5. requests' = requests \o s /\ o \in Object
    BY <1>4, <1>2
  <2> QED
    BY <2>2, <2>3, <2>4, <2>5, RequestsMore
<1>6. \A p \in Object : DestroyAsked(p)' => DestroyAsked(p)
  <2>1. \A k \in DOMAIN s : s[k].op # "destroy"
    BY <1>4 DEF Command
  <2> QED
    BY <1>5, <2>1
<1>7. TypeOK' /\ TypesOK'
  BY <1>1, <1>5 DEF TypeOK, TypesOK
<1>8. IdsApart' /\ SyncedView' /\ FailsOnlyAfterDestroy'
  BY <1>1, <1>7, ShownKept DEF WorkspacesInv, IdsApart, FailsOnlyAfterDestroy
<1>9. ClientInv'
  <2>1. Numbered'
    <3>1. ASSUME NEW k \in DOMAIN requests', NEW p \in Object, Destroys(requests'[k], p)
          PROVE  p.no <= nobjects'
      <4>1. DestroyAsked(p)
        BY <3>1, <1>6 DEF DestroyAsked, Destroys
      <4> QED
        BY <4>1, <1>1 DEF DestroyAsked, ClientInv, Numbered
    <3> QED
      BY <3>1, <1>1 DEF ClientInv, Numbered, Creates, About, Destroys
  <2>2. Grouped' /\ TablesMatch' /\ RemovedLast'
    BY <1>1 DEF ClientInv, Grouped, TablesMatch, RemovedLast, Removes, About, Listing
  <2>3. HandlersAlive'
    <3>1. handlers \subseteq Object
      BY <1>1 DEF TypeOK
    <3> QED
      BY <1>1, <1>6, <3>1 DEF ClientInv, HandlersAlive
  <2>4. Announced'
    <3>1. \A p : Listing(p)' <=> Listing(p)
      BY <1>1 DEF Listing
    <3> QED
      BY <1>1, <1>6, <3>1 DEF ClientInv, Announced, Creates
  <2>5. EventsFind'
    BY <1>1 DEF ClientInv, EventsFind, Creates, About, Born
  <2>6. TruthFollows' /\ ViewsFollow'
    BY <1>1 DEF ClientInv, TruthFollows, ViewsFollow, ViewFollows, There, ActiveAt, Born, Gone, Listing,
                Creates, Removes, Says, Own, Mine, Entry
  <2> QED
    BY <2>1, <2>2, <2>3, <2>4, <2>5, <2>6 DEF ClientInv
<1> QED
  BY <1>5, <1>7, <1>8, <1>9 DEF WorkspacesInv

LEMMA DestroyKeeps ==
    ASSUME WorkspacesInv, NEW o \in Listed, Destroy(o) \/ DestroyGroup(o)
    PROVE  WorkspacesInv'
<1>1. /\ TypesOK /\ TypeOK /\ IdsApart /\ ClientInv /\ RequestsKnown
      /\ o \notin given_up /\ given_up' = given_up \cup {o} /\ Running
      /\ handlers' = IF o.of = 0 THEN handlers ELSE {h \in handlers : h.id # o.id}
      /\ requests' = Append(requests, Command("destroy", o))
      /\ UNCHANGED <<groups, workspaces, states, printed, raised, synced,
                     resources, removed, active, unsynced, nobjects, nchanges, rejected, misled, events>>
  BY DEF WorkspacesInv, Destroy, DestroyGroup, GiveUp, Call, TypesOK, serverVars
<1>2. o \in Object /\ o \in handlers /\ o \in resources /\ ~DestroyAsked(o)
  BY <1>1, ListedKnown
<1>3. handlers' = IF o.of = 0 THEN handlers ELSE handlers \ {o}
  BY <1>1, <1>2 DEF ClientInv, TablesMatch
<1>4. PICK s \in Seq(Request) : requests' = requests \o s /\ s = <<Command("destroy", o)>>
  <2>1. Command("destroy", o) \in Request
    BY <1>2 DEF Request, Command
  <2>2. <<Command("destroy", o)>> \in Seq(Request)
    BY <2>1
  <2>3. Append(requests, Command("destroy", o)) = requests \o <<Command("destroy", o)>>
    BY <2>1, <1>1, AppendIsConcat DEF TypeOK
  <2> QED
    BY <2>2, <2>3, <1>1
<1>5. /\ RequestsKnown'
      /\ requests' \in Seq(Request)
      /\ \A p \in Object : DestroyAsked(p)' =>
           DestroyAsked(p) \/ (p = o /\ \E k \in DOMAIN s : s[k].op = "destroy")
  <2>1. DOMAIN s = 1..1 /\ Len(s) = 1 /\ s[1] = Command("destroy", o)
    BY <1>4
  <2>2. /\ \A k \in DOMAIN s : s[k].op # "commit" => s[k].obj = o
        /\ \A k \in DOMAIN s : s[k].op = "destroy" => k = Len(s) /\ o \in given_up' \cup removed
    BY <2>1, <1>1 DEF Command
  <2>3. \/ o \in given_up /\ \A k \in DOMAIN s : s[k].op # "destroy"
        \/ o \in resources /\ ~DestroyAsked(o)
    BY <1>2
  <2>4. given_up \subseteq given_up' /\ UNCHANGED <<resources, removed>> /\ TypesOK /\ RequestsKnown
    BY <1>1
  <2>5. requests' = requests \o s /\ o \in Object
    BY <1>4, <1>2
  <2> QED
    BY <2>2, <2>3, <2>4, <2>5, RequestsMore
<1>6. \A p \in Object : DestroyAsked(p)' => DestroyAsked(p) \/ p = o
  BY <1>5
<1>7. TypeOK' /\ TypesOK'
  BY <1>1, <1>2, <1>3, <1>5 DEF TypeOK, TypesOK
<1>8. IdsApart' /\ SyncedView'
  BY <1>1, <1>7, ShownKept DEF IdsApart
<1>9. FailsOnlyAfterDestroy'
  BY <1>1 DEF WorkspacesInv, FailsOnlyAfterDestroy
<1>10. ClientInv'
  <2>1. Numbered'
    <3>1. o.no <= nobjects
      BY <1>1, <1>2 DEF ClientInv, Numbered
    <3>2. ASSUME NEW k \in DOMAIN requests', NEW p \in Object, Destroys(requests'[k], p)
          PROVE  p.no <= nobjects'
      <4>1. DestroyAsked(p) \/ p = o
        BY <3>2, <1>6 DEF DestroyAsked, Destroys
      <4> QED
        BY <4>1, <1>1, <3>1 DEF DestroyAsked, ClientInv, Numbered
    <3>3. \A p \in (resources \cup handlers \cup given_up \cup states \cup ToSet(groups))' : p.no <= nobjects'
      BY <3>1, <1>1, <1>3 DEF ClientInv, Numbered
    <3> QED
      BY <3>2, <3>3, <1>1 DEF ClientInv, Numbered, Creates, About, Destroys
  <2>2. Grouped' /\ RemovedLast'
    BY <1>1 DEF ClientInv, Grouped, RemovedLast, Removes, About
  <2>3. TablesMatch'
    <3>1. \A p : Listing(p)' <=> Listing(p)
      BY <1>1 DEF Listing
    <3> QED
      BY <1>1, <1>3, <3>1 DEF ClientInv, TablesMatch
  <2>4. HandlersAlive'
    <3>1. handlers \subseteq Object
      BY <1>1 DEF TypeOK
    <3>2. \A h \in handlers' : IF h \in given_up' THEN h.of = 0 ELSE h \in resources' /\ ~DestroyAsked(h)'
      BY <1>1, <1>3, <1>6, <3>1 DEF ClientInv, HandlersAlive
    <3>3. \A w \in given_up' \cap resources' : w.of # 0 => \A h \in handlers' : h.id # w.id
      BY <1>1, <1>2, <1>3 DEF ClientInv, HandlersAlive
    <3> QED
      BY <3>2, <3>3 DEF HandlersAlive
  <2>5. Announced'
    <3>1. \A p : Listing(p)' <=> Listing(p)
      BY <1>1 DEF Listing
    <3> QED
      BY <1>1, <1>2, <1>3, <1>6, <3>1 DEF ClientInv, Announced, Creates
  <2>6. EventsFind'
    <3>1. \A p, k : Born(p, k)' <=> Born(p, k)
      BY <1>1 DEF Born, Creates
    <3> QED
      BY <1>1, <1>3, <3>1 DEF ClientInv, EventsFind, Creates, About
  <2>7. \A p, k : /\ Born(p, k)' <=> Born(p, k)
                  /\ There(p, k)' <=> There(p, k)
                  /\ ActiveAt(p, k)' <=> ActiveAt(p, k)
    BY <1>1 DEF Born, Gone, There, ActiveAt, Listing, Creates, Removes, Says
  <2>8. TruthFollows'
    BY <1>1, <2>7 DEF ClientInv, TruthFollows
  <2>9. ASSUME NEW k \in DOMAIN events', events'[k].ev = "done" PROVE ViewFollows(k)'
    <3>1. ViewFollows(k) /\ events'[k] = events[k]
      BY <1>1, <2>9 DEF ClientInv, ViewsFollow
    <3>2. ASSUME NEW v
          PROVE  v \in Mine(events[k].view)' <=> \E w \in Object, a \in BOOLEAN :
                    /\ w.of # 0 /\ Own(w)' /\ There(w, k)' /\ (a <=> ActiveAt(w, k)')
                    /\ v = Entry(w, a)
      <4>1. v \in Mine(events[k].view)' <=> v \in Mine(events[k].view) /\ o.no # v.no
        BY <1>1, <3>1 DEF Mine
      <4>2. \A w : Own(w)' <=> Own(w) /\ o.no # w.no
        BY <1>1 DEF Own
      <4>3. \A w, a : Entry(w, a).no = w.no
        BY DEF Entry
      <4>4. v \in Mine(events[k].view) <=> \E w \in Object, a \in BOOLEAN :
               w.of # 0 /\ Own(w) /\ There(w, k) /\ (a <=> ActiveAt(w, k)) /\ v = Entry(w, a)
        BY <3>1 DEF ViewFollows
      <4> QED
        BY <4>1, <4>2, <4>3, <4>4, <2>7
    <3>3. \A n \in events'[k].view.groups :
             \E g \in Object : g.of = 0 /\ g.no = n /\ (g \in ToSet(groups)' \/ Born(g, k)')
      BY <3>1, <2>7, <1>1 DEF ViewFollows, ToSet
    <3> QED
      BY <3>2, <3>3 DEF ViewFollows, Mine, Entry
  <2> QED
    BY <2>1, <2>2, <2>3, <2>4, <2>5, <2>6, <2>8, <2>9 DEF ClientInv, ViewsFollow
<1> QED
  BY <1>5, <1>7, <1>8, <1>9, <1>10 DEF WorkspacesInv

-----------------------------------------------------------------------------
\* The compositor serves a request.
LEMMA RequestsPopped ==
    ASSUME TypesOK, TakeRequest
    PROVE  /\ requests' \in Seq(Request)
           /\ 1 \in DOMAIN requests /\ Head(requests) = requests[1] /\ requests[1] \in Request
           /\ \A k \in DOMAIN requests' : /\ k + 1 \in DOMAIN requests /\ requests'[k] = requests[k + 1]
                                          /\ k \in Nat \ {0}
           /\ \A o : DestroyAsked(o)' => DestroyAsked(o)
<1>1. requests \in Seq(Request) /\ requests # <<>> /\ requests' = Tail(requests)
  BY DEF TypesOK, TypeOK, TakeRequest
<1>2. /\ requests' \in Seq(Request) /\ Len(requests') = Len(requests) - 1
      /\ \A k \in 1..Len(requests') : requests'[k] = requests[k + 1]
  BY <1>1, HeadTailProperties
<1>3. DOMAIN requests = 1..Len(requests) /\ DOMAIN requests' = 1..Len(requests') /\ Len(requests) \in Nat \ {0}
  BY <1>1, <1>2, LenProperties, EmptySeq
<1>4. Head(requests) = requests[1] /\ requests[1] \in Request
  BY <1>1, <1>3
<1>5. \A k \in DOMAIN requests' : /\ k + 1 \in DOMAIN requests /\ requests'[k] = requests[k + 1]
                                  /\ k \in Nat \ {0}
  BY <1>2, <1>3
<1>6. \A o : DestroyAsked(o)' => DestroyAsked(o)
  BY <1>5 DEF DestroyAsked, Destroys
<1> QED
  BY <1>2, <1>3, <1>4, <1>5, <1>6

\* Less is asked and the compositor has no more than before.
LEMMA Served ==
    ASSUME WorkspacesInv, TakeRequest, UNCHANGED <<clientVars, unsynced, nobjects, nchanges, events>>,
           resources' \subseteq resources,
           \A o \in resources : o \notin resources' => Destroys(requests[1], o),
           \A o : o \in removed' <=> o \in removed \cap resources',
           \A o : o \in active' <=> o \in active \cap resources',
           \A o \in resources : Destroys(requests[1], o) => o \notin resources',
           rejected' \/ misled' => given_up # {}
    PROVE  WorkspacesInv'
<1>1. /\ TypesOK /\ TypeOK /\ IdsApart /\ RequestsKnown
      /\ UNCHANGED <<handlers, groups, workspaces, states, printed, raised, synced, given_up,
                     unsynced, nobjects, nchanges, events>>
  BY DEF WorkspacesInv, TypesOK, clientVars
<1>2. /\ requests' \in Seq(Request)
      /\ 1 \in DOMAIN requests /\ requests[1] \in Request
      /\ \A k \in DOMAIN requests' : /\ k + 1 \in DOMAIN requests /\ requests'[k] = requests[k + 1]
                                     /\ k \in Nat \ {0}
      /\ \A o : DestroyAsked(o)' => DestroyAsked(o)
  BY <1>1, RequestsPopped
<1>3. TypeOK' /\ TypesOK'
  BY <1>1, <1>2 DEF TypeOK, TypesOK
<1>4. IdsApart' /\ SyncedView' /\ FailsOnlyAfterDestroy'
  BY <1>1, <1>3, ShownKept DEF WorkspacesInv, IdsApart, FailsOnlyAfterDestroy
<1>5. RequestsKnown'
  <2>1. ASSUME NEW k \in DOMAIN requests', requests'[k].op # "commit"
        PROVE  LET p == requests'[k].obj IN
               /\ \/ requests'[k].op # "destroy" /\ p \in given_up'
                  \/ p \in resources' /\ \A j \in DOMAIN requests' : j < k => ~Destroys(requests'[j], p)
               /\ requests'[k].op = "destroy" => p \in given_up' \cup removed'
    <3> DEFINE p == requests[k + 1].obj
    <3>1. /\ \/ requests[k + 1].op # "destroy" /\ p \in given_up
             \/ p \in resources /\ \A j \in DOMAIN requests : j < k + 1 => ~Destroys(requests[j], p)
          /\ requests[k + 1].op = "destroy" => p \in given_up \cup removed
      BY <1>1, <1>2, <2>1 DEF RequestsKnown
    <3>2. CASE requests[k + 1].op # "destroy" /\ p \in given_up
      BY <3>2, <1>1, <1>2, <2>1
    <3>3. CASE p \in resources /\ \A j \in DOMAIN requests : j < k + 1 => ~Destroys(requests[j], p)
      <4>1. ~Destroys(requests[1], p)
        BY <3>3, <1>2
      <4>2. p \in resources'
        BY <4>1, <3>3
      <4>3. \A j \in DOMAIN requests' : j < k => ~Destroys(requests'[j], p)
        BY <3>3, <1>2
      <4>4. requests[k + 1].op = "destroy" => p \in given_up' \cup removed'
        BY <3>1, <4>2, <1>1
      <4> QED
        BY <4>2, <4>3, <4>4, <1>2
    <3> QED
      BY <3>1, <3>2, <3>3
  <2> QED
    BY <2>1 DEF RequestsKnown, Destroys
<1>6. ASSUME Running PROVE ClientInv'
  <2>0. ClientInv
    BY <1>6 DEF WorkspacesInv
  <2>1. Numbered'
    <3>1. \A k \in DOMAIN requests' : \A p \in Object : Destroys(requests'[k], p) => p.no <= nobjects'
      BY <2>0, <1>1, <1>2 DEF ClientInv, Numbered
    <3> QED
      BY <3>1, <2>0, <1>1 DEF ClientInv, Numbered, Creates, About, Destroys
  <2>2. Grouped' /\ TablesMatch'
    BY <2>0, <1>1 DEF ClientInv, Grouped, TablesMatch, Listing
  <2>3. RemovedLast'
    BY <2>0, <1>1 DEF ClientInv, RemovedLast, Removes, About
  <2>4. \A p : DestroyAsked(p) \/ ~Destroys(requests[1], p)
    BY <1>2 DEF DestroyAsked
  <2>5. HandlersAlive'
    BY <2>0, <1>1, <1>2, <2>4 DEF ClientInv, HandlersAlive
  <2>6. Announced'
    <3>1. \A p : Listing(p)' <=> Listing(p)
      BY <1>1 DEF Listing
    <3> QED
      BY <2>0, <1>1, <1>2, <2>4, <3>1 DEF ClientInv, Announced, Creates
  <2>7. EventsFind'
    <3>1. \A p, k : Born(p, k)' <=> Born(p, k)
      BY <1>1 DEF Born, Creates
    <3> QED
      BY <2>0, <1>1, <3>1 DEF ClientInv, EventsFind, Creates, About
  <2>8. \A p, k : /\ Born(p, k)' <=> Born(p, k)
                  /\ There(p, k)' <=> There(p, k)
                  /\ ActiveAt(p, k)' <=> ActiveAt(p, k)
    BY <1>1 DEF Born, Gone, There, ActiveAt, Listing, Creates, Removes, Says
  <2>9. TruthFollows'
    <3>1. \A w \in resources : Destroys(requests[1], w) => w \in given_up \cup removed
      BY <1>1, <1>2 DEF RequestsKnown, Destroys
    <3>2. \A w \in Object : w \notin given_up => (w \in resources' \ removed' <=> w \in resources \ removed)
      BY <3>1
    <3>3. \A w \in resources' : w \in active' <=> w \in active
      OBVIOUS
    <3> QED
      BY <2>0, <1>1, <2>8, <3>2, <3>3 DEF ClientInv, TruthFollows
  <2>10. ViewsFollow'
    <3>1. ASSUME NEW k \in DOMAIN events', events'[k].ev = "done" PROVE ViewFollows(k)'
      <4>1. ViewFollows(k)
        BY <2>0, <1>1, <3>1 DEF ClientInv, ViewsFollow
      <4> QED
        BY <4>1, <1>1, <2>8 DEF ViewFollows, Mine, Own, Entry
    <3> QED
      BY <3>1 DEF ViewsFollow
  <2> QED
    BY <2>1, <2>2, <2>3, <2>5, <2>6, <2>7, <2>9, <2>10 DEF ClientInv
<1> QED
  BY <1>1, <1>3, <1>4, <1>5, <1>6 DEF WorkspacesInv, Running

LEMMA ServeKeeps ==
    ASSUME WorkspacesInv, ServeCommit \/ ServeRequest
    PROVE  WorkspacesInv'
<1>1. TakeRequest /\ TypesOK /\ TypeOK /\ RequestsKnown /\ IdsApart
  BY DEF ServeCommit, ServeRequest, WorkspacesInv, TypesOK
<1>2. 1 \in DOMAIN requests /\ Head(requests) = requests[1] /\ requests[1] \in Request
  BY <1>1, RequestsPopped
<1>3. /\ removed \subseteq resources /\ active \subseteq resources /\ ~rejected
      /\ misled => given_up # {}
  BY <1>1 DEF TypeOK, WorkspacesInv, FailsOnlyAfterDestroy, TakeRequest
<1>4. CASE ServeCommit
  <2>1. /\ UNCHANGED <<clientVars, unsynced, nobjects, nchanges, events>>
        /\ UNCHANGED <<resources, removed, active, rejected, misled>>
        /\ requests[1].op = "commit"
    BY <1>4, <1>2 DEF ServeCommit, serverVars
  <2>2. \A o : ~Destroys(requests[1], o)
    BY <2>1 DEF Destroys
  <2> QED
    BY <1>1, <1>3, <2>1, <2>2, Served
<1>5. CASE ServeRequest
  <2> DEFINE r == requests[1]
             gone == IF r.op = "destroy" THEN Named(r.obj.id) ELSE {}
  <2>1. /\ UNCHANGED <<clientVars, unsynced, nobjects, nchanges, events>>
        /\ r.op # "commit"
        /\ rejected' = (Named(r.obj.id) = {})
        /\ misled' = (misled \/ Named(r.obj.id) \ {r.obj} # {})
        /\ resources' = resources \ gone /\ removed' = removed \ gone /\ active' = active \ gone
    BY <1>5, <1>2 DEF ServeRequest
  <2>2. \/ r.op # "destroy" /\ r.obj \in given_up
        \/ r.obj \in resources
    BY <1>1, <1>2, <2>1 DEF RequestsKnown
  <2>3. r.obj \in resources => Named(r.obj.id) = {r.obj}
    BY <1>1 DEF Named, IdsApart
  <2>4. rejected' \/ misled' => given_up # {}
    BY <2>1, <2>2, <2>3, <1>3
  <2>5. gone = IF r.op = "destroy" THEN {r.obj} ELSE {}
    BY <2>2, <2>3
  <2>6. \A o : Destroys(r, o) <=> r.op = "destroy" /\ r.obj = o
    BY DEF Destroys
  <2> HIDE DEF gone
  <2>7. /\ resources' \subseteq resources
        /\ \A o \in resources : o \notin resources' => Destroys(requests[1], o)
        /\ \A o : o \in removed' <=> o \in removed \cap resources'
        /\ \A o : o \in active' <=> o \in active \cap resources'
        /\ \A o \in resources : Destroys(requests[1], o) => o \notin resources'
    BY <2>1, <2>5, <2>6, <1>3
  <2> QED
    BY <1>1, <2>1, <2>4, <2>7, Served
<1> QED
  BY <1>4, <1>5

-----------------------------------------------------------------------------
\* The compositor sends an event, e.
Pushed(e) == e \in Event /\ events' = Append(events, e)

LEMMA EventsPushed ==
    ASSUME TypesOK, NEW e, Pushed(e)
    PROVE  /\ events' \in Seq(Event)
           /\ Len(events) \in Nat /\ Len(events') = Len(events) + 1
           /\ DOMAIN events = 1..Len(events) /\ DOMAIN events' = 1..Len(events')
           /\ \A k \in DOMAIN events : k \in DOMAIN events' /\ events'[k] = events[k]
           /\ Len(events') \in DOMAIN events' /\ events'[Len(events')] = e
           /\ \A k \in DOMAIN events' : k \in DOMAIN events \/ k = Len(events) + 1
<1>1. events \in Seq(Event)
  BY DEF TypesOK
<1>2. /\ events' \in Seq(Event) /\ Len(events') = Len(events) + 1
      /\ \A k \in 1..Len(events) : events'[k] = events[k]
      /\ events'[Len(events) + 1] = e
  BY <1>1, AppendProperties DEF Pushed
<1>3. DOMAIN events = 1..Len(events) /\ DOMAIN events' = 1..Len(events') /\ Len(events) \in Nat
  BY <1>1, <1>2, LenProperties
<1> QED
  BY <1>2, <1>3

\* What is there before an event that was sent earlier is as it was.
LEMMA PastPushed ==
    ASSUME TypesOK, NEW e, Pushed(e), UNCHANGED <<workspaces, states>>,
           NEW o \in Object, NEW k \in 1..(Len(events) + 1)
    PROVE  /\ Born(o, k)' <=> Born(o, k)
           /\ Gone(o, k)' <=> Gone(o, k)
           /\ There(o, k)' <=> There(o, k)
           /\ ActiveAt(o, k)' <=> ActiveAt(o, k)
<1>1. \A j : j \in DOMAIN events' /\ j < k <=> j \in DOMAIN events /\ j < k
  BY EventsPushed
<1>2. \A j \in DOMAIN events : events'[j] = events[j]
  BY EventsPushed
<1>3. Born(o, k)' <=> Born(o, k)
  BY <1>1, <1>2 DEF Born, Creates
<1>4. Gone(o, k)' <=> Gone(o, k)
  BY <1>1, <1>2 DEF Gone, Removes
<1>5. There(o, k)' <=> There(o, k)
  BY <1>3, <1>4 DEF There, Listing
<1>6. ActiveAt(o, k)' <=> ActiveAt(o, k)
  <2>1. (\A j \in DOMAIN events' : j < k => ~Says(events'[j], o))
          <=> (\A j \in DOMAIN events : j < k => ~Says(events[j], o))
    BY <1>1, <1>2
  <2>2. ASSUME NEW j \in DOMAIN events, j < k
        PROVE  (\A i \in DOMAIN events' : j < i /\ i < k => ~Says(events'[i], o))
                 <=> (\A i \in DOMAIN events : j < i /\ i < k => ~Says(events[i], o))
    BY <1>1, <1>2
  <2>3. (\E j \in DOMAIN events' : /\ j < k /\ Says(events'[j], o) /\ events'[j].active
                                   /\ \A i \in DOMAIN events' : j < i /\ i < k => ~Says(events'[i], o))
          <=> (\E j \in DOMAIN events : /\ j < k /\ Says(events[j], o) /\ events[j].active
                                   /\ \A i \in DOMAIN events : j < i /\ i < k => ~Says(events[i], o))
    BY <1>1, <1>2, <2>2
  <2> QED
    BY <2>1, <2>3 DEF ActiveAt, Says
<1> QED
  BY <1>3, <1>4, <1>5, <1>6

\* What is there after the event as well.
LEMMA LastPushed ==
    ASSUME TypesOK, NEW e, Pushed(e), UNCHANGED <<workspaces, states>>, NEW o \in Object
    PROVE  /\ Born(o, Len(events) + 1)' <=> Born(o, Len(events) + 1) \/ Creates(e, o)
           /\ There(o, Len(events) + 1)' <=>
                (There(o, Len(events) + 1) \/ (Creates(e, o) /\ ~Gone(o, Len(events) + 1))) /\ ~Removes(e, o)
           /\ ActiveAt(o, Len(events) + 1)' <=>
                IF Says(e, o) THEN e.active ELSE ActiveAt(o, Len(events) + 1)
<1> DEFINE n == Len(events) + 1
<1>0. /\ DOMAIN events = 1..Len(events) /\ DOMAIN events' = 1..n /\ Len(events') = n /\ n \in Nat
      /\ Len(events) \in Nat
      /\ \A k \in DOMAIN events : events'[k] = events[k]
      /\ events'[n] = e
  BY EventsPushed
<1> HIDE DEF n
<1>1. (\E j \in DOMAIN events' : Creates(events'[j], o)) <=> (\E j \in DOMAIN events : Creates(events[j], o)) \/ Creates(e, o)
  BY <1>0 DEF n
<1>2. (\E j \in DOMAIN events' : Removes(events'[j], o)) <=> (\E j \in DOMAIN events : Removes(events[j], o)) \/ Removes(e, o)
  BY <1>0 DEF n
<1>3. /\ Born(o, Len(events) + 1) <=> \E j \in DOMAIN events : Creates(events[j], o)
      /\ Gone(o, Len(events) + 1) <=> \E j \in DOMAIN events : Removes(events[j], o)
  BY <1>0 DEF Born, Gone
<1>4. /\ Born(o, Len(events) + 1)' <=> \E j \in DOMAIN events' : Creates(events'[j], o)
      /\ Gone(o, Len(events) + 1)' <=> \E j \in DOMAIN events' : Removes(events'[j], o)
  BY <1>0 DEF Born, Gone, Creates, Removes
<1>5. ActiveAt(o, Len(events) + 1)' <=> IF Says(e, o) THEN e.active ELSE ActiveAt(o, Len(events) + 1)
  <2> DEFINE Latest(j) == Says(events[j], o) /\ \A i \in DOMAIN events : j < i => ~Says(events[i], o)
             LatestP(j) == Says(events'[j], o) /\ \A i \in DOMAIN events' : j < i => ~Says(events'[i], o)
  <2>1. ActiveAt(o, Len(events) + 1) <=> \/ \E j \in DOMAIN events : Latest(j) /\ events[j].active
                                         \/ o \in states /\ \A j \in DOMAIN events : ~Says(events[j], o)
    BY <1>0 DEF ActiveAt
  <2>2. ActiveAt(o, Len(events) + 1)' <=> \/ \E j \in DOMAIN events' : LatestP(j) /\ events'[j].active
                                          \/ o \in states /\ \A j \in DOMAIN events' : ~Says(events'[j], o)
    BY <1>0 DEF ActiveAt, Says
  <2>3. ASSUME Says(e, o) PROVE ActiveAt(o, Len(events) + 1)' <=> e.active
    <3>1. n \in DOMAIN events' /\ LatestP(n) /\ events'[n] = e
      BY <1>0, <2>3 DEF n
    <3>2. \A j \in DOMAIN events' : LatestP(j) => j = n
      BY <1>0, <3>1 DEF n
    <3> QED
      BY <2>2, <3>1, <3>2
  <2>4. ASSUME ~Says(e, o) PROVE ActiveAt(o, Len(events) + 1)' <=> ActiveAt(o, Len(events) + 1)
    <3>1. \A j \in DOMAIN events' : Says(events'[j], o) => j \in DOMAIN events
      BY <1>0, <2>4 DEF n
    <3>2. DOMAIN events \subseteq DOMAIN events'
      BY <1>0 DEF n
    <3>3. \A j \in DOMAIN events : LatestP(j) <=> Latest(j)
      BY <1>0, <3>1, <3>2
    <3>4. (\A j \in DOMAIN events' : ~Says(events'[j], o)) <=> (\A j \in DOMAIN events : ~Says(events[j], o))
      BY <1>0, <3>1, <3>2
    <3>5. (\E j \in DOMAIN events' : LatestP(j) /\ events'[j].active) <=> (\E j \in DOMAIN events : Latest(j) /\ events[j].active)
      BY <1>0, <3>1, <3>2, <3>3
    <3> QED
      BY <2>1, <2>2, <3>4, <3>5
  <2> QED
    BY <2>3, <2>4
<1>6. There(o, Len(events) + 1)' <=>
        (There(o, Len(events) + 1) \/ (Creates(e, o) /\ ~Gone(o, Len(events) + 1))) /\ ~Removes(e, o)
  <2>1. There(o, Len(events) + 1)' <=> (Listing(o)' \/ Born(o, Len(events) + 1)') /\ ~Gone(o, Len(events) + 1)'
    BY DEF There
  <2>2. Listing(o)' <=> Listing(o)
    BY DEF Listing
  <2> QED
    BY <2>1, <2>2, <1>1, <1>2, <1>3, <1>4 DEF There
<1> QED
  BY <1>1, <1>3, <1>4, <1>5, <1>6

\* What the compositor does with an event that it sends.
PushEffect(e) ==
    /\ Pushed(e)
    /\ UNCHANGED <<clientVars, requests, rejected, misled>>
    /\ nobjects' \in 0..MaxObjects /\ nobjects <= nobjects'
    /\ resources' \subseteq Object /\ removed' \subseteq resources' /\ active' \subseteq resources'
    /\ \A o \in Object :
         /\ o \in resources' <=> o \in resources \/ Creates(e, o)
         /\ o \in removed' <=> o \in removed \/ Removes(e, o)
         /\ o \in active' <=> IF Says(e, o) THEN e.active ELSE o \in active /\ ~Removes(e, o)
         /\ Creates(e, o) => o.no = nobjects + 1 /\ o.no = nobjects' /\ \A p \in resources : p.id # o.id
         /\ About(e, o) => o \in resources \ removed
    /\ e.ev = "workspace_group" => e.new.of = 0
    /\ e.ev = "workspace" => e.new.of = e.obj.no /\ e.obj.of = 0
    /\ e.ev = "state" => e.obj.of # 0
    /\ e.ev = "done" => e.view = Truth

\* An object that is made now is nowhere yet.
LEMMA Unheard ==
    ASSUME TypesOK, ClientInv, NEW o \in Object, o.no = nobjects + 1
    PROVE  /\ o \notin resources \cup handlers \cup given_up \cup states \cup ToSet(groups)
           /\ o.no \notin DOMAIN workspaces /\ ~Listing(o) /\ ~DestroyAsked(o)
           /\ \A k \in DOMAIN events : ~Creates(events[k], o) /\ ~About(events[k], o)
<1>1. nobjects \in Nat /\ ~(o.no <= nobjects)
  BY WorkspaceAssumption DEF TypesOK
<1>2. Numbered
  BY DEF ClientInv
<1>3. o \notin resources \cup handlers \cup given_up \cup states \cup ToSet(groups)
  BY <1>1, <1>2 DEF Numbered
<1>4. o.no \notin DOMAIN workspaces /\ ~Listing(o)
  BY <1>1, <1>2 DEF Numbered, Listing
<1>5. ~DestroyAsked(o)
  BY <1>1, <1>2 DEF Numbered, DestroyAsked
<1>6. \A k \in DOMAIN events : ~Creates(events[k], o) /\ ~About(events[k], o)
  BY <1>1, <1>2 DEF Numbered
<1> QED
  BY <1>3, <1>4, <1>5, <1>6

LEMMA Typed ==
    ASSUME TypesOK
    PROVE  /\ handlers \subseteq Object /\ given_up \subseteq Object /\ states \subseteq Object
           /\ resources \subseteq Object /\ ToSet(groups) \subseteq Object
           /\ nobjects \in Nat /\ nobjects <= MaxObjects
           /\ \A n \in DOMAIN workspaces : n \in Nat /\ workspaces[n] \subseteq Object
<1>1. /\ handlers \subseteq Object /\ given_up \subseteq Object /\ states \subseteq Object
      /\ resources \subseteq Object /\ groups \in Seq(Object) /\ nobjects \in 0..MaxObjects
      /\ \A n \in DOMAIN workspaces : n \in 1..MaxObjects /\ workspaces[n] \subseteq Object
  BY DEF TypesOK, TypeOK
<1>2. ToSet(groups) \subseteq Object
  BY <1>1 DEF ToSet
<1>3. 1..MaxObjects \subseteq Nat /\ nobjects \in Nat /\ nobjects <= MaxObjects
  BY <1>1, WorkspaceAssumption
<1> QED
  BY <1>1, <1>2, <1>3

LEMMA NumberedPushed ==
    ASSUME TypesOK, ClientInv, NEW e, PushEffect(e)
    PROVE  Numbered'
<1>0. /\ Numbered /\ Pushed(e) /\ nobjects \in Nat /\ nobjects' \in Nat /\ nobjects <= nobjects'
      /\ UNCHANGED <<handlers, groups, workspaces, states, given_up, requests>>
      /\ resources \subseteq Object
  <2>1. nobjects' \in 0..MaxObjects
    BY DEF PushEffect
  <2>2. nobjects' \in Nat
    BY <2>1, WorkspaceAssumption
  <2> QED
    BY <2>2, Typed DEF ClientInv, PushEffect, clientVars
<1>1. \A o \in Object : o.no \in Nat
  BY WorkspaceAssumption DEF Object
<1>2. \A o \in Object : Creates(e, o) \/ About(e, o) => o.no <= nobjects'
  BY <1>0, <1>1 DEF PushEffect, Numbered
<1>3. \A k \in DOMAIN events' : \A o \in Object :
        Creates(events'[k], o) \/ About(events'[k], o) => o.no <= nobjects'
  <2>1. ASSUME NEW k \in DOMAIN events', NEW o \in Object, Creates(events'[k], o) \/ About(events'[k], o)
        PROVE  o.no <= nobjects'
    <3>1. CASE k \in DOMAIN events
      <4>1. o.no <= nobjects
        BY <2>1, <3>1, <1>0, EventsPushed DEF Numbered
      <4> QED
        BY <4>1, <1>0, <1>1
    <3>2. CASE k = Len(events')
      BY <2>1, <3>2, <1>0, <1>2, EventsPushed
    <3> QED
      BY <3>1, <3>2, <1>0, EventsPushed
  <2> QED
    BY <2>1
<1>4. \A o \in resources \cup handlers \cup given_up \cup states \cup ToSet(groups) : o.no <= nobjects'
  <2>1. handlers \cup given_up \cup states \cup ToSet(groups) \subseteq Object
    BY Typed
  <2> QED
    BY <1>0, <1>1, <2>1 DEF Numbered
<1>5. \A o \in (resources \cup handlers \cup given_up \cup states \cup ToSet(groups))' : o.no <= nobjects'
  BY <1>0, <1>2, <1>4 DEF PushEffect, ToSet
<1>6. \A n \in DOMAIN workspaces' : n <= nobjects' /\ \A w \in workspaces'[n] : w.no <= nobjects'
  <2>1. \A n \in DOMAIN workspaces : n \in Nat /\ workspaces[n] \subseteq Object
    BY Typed
  <2> QED
    BY <1>0, <1>1, <2>1 DEF Numbered
<1>7. \A k \in DOMAIN requests' : \A o \in Object : Destroys(requests'[k], o) => o.no <= nobjects'
  BY <1>0, <1>1 DEF Numbered
<1> QED
  BY <1>3, <1>5, <1>6, <1>7 DEF Numbered, Creates, About, Destroys

LEMMA AnnouncedPushed ==
    ASSUME TypesOK, ClientInv, NEW e, PushEffect(e)
    PROVE  Announced'
<1>0. /\ Announced /\ Pushed(e)
      /\ UNCHANGED <<handlers, groups, workspaces, states, given_up, requests>>
  BY DEF ClientInv, PushEffect, clientVars
<1>1. \A o : (Listing(o)' <=> Listing(o)) /\ (DestroyAsked(o)' <=> DestroyAsked(o))
  BY <1>0 DEF Listing, DestroyAsked, Destroys
<1>2. ASSUME NEW k \in DOMAIN events', NEW o \in Object, Creates(events'[k], o)
      PROVE  /\ o \in resources'
             /\ o \notin (handlers \cup given_up \cup states)'
             /\ ~Listing(o)' /\ ~DestroyAsked(o)'
             /\ o.no \notin DOMAIN workspaces'
  <2>1. CASE k \in DOMAIN events
    BY <1>0, <1>1, <1>2, <2>1, EventsPushed DEF Announced, PushEffect
  <2>2. CASE k = Len(events')
    <3>1. Creates(e, o)
      BY <1>0, <1>2, <2>2, EventsPushed
    <3>2. o.no = nobjects + 1
      BY <3>1 DEF PushEffect
    <3> QED
      BY <3>1, <3>2, <1>0, <1>1, Unheard DEF PushEffect
  <2> QED
    BY <2>1, <2>2, <1>0, EventsPushed
<1>3. ASSUME NEW j \in DOMAIN events', NEW k \in DOMAIN events', NEW o \in Object, NEW p \in Object,
             Creates(events'[j], o), Creates(events'[k], p), o.no = p.no
      PROVE  j = k
  <2>1. CASE j \in DOMAIN events /\ k \in DOMAIN events
    BY <1>0, <1>3, <2>1, EventsPushed DEF Announced
  <2>2. \A q \in Object : \A i \in DOMAIN events : Creates(events[i], q) => q.no <= nobjects
    BY DEF ClientInv, Numbered
  <2>3. \A q \in Object : Creates(e, q) => ~(q.no <= nobjects)
    BY WorkspaceAssumption DEF PushEffect, TypesOK
  <2> QED
    BY <2>1, <2>2, <2>3, <1>0, <1>3, EventsPushed
<1> QED
  BY <1>2, <1>3 DEF Announced, Creates

LEMMA EventsFindPushed ==
    ASSUME TypesOK, IdsApart, ClientInv, NEW e, PushEffect(e)
    PROVE  EventsFind'
<1>0. /\ EventsFind /\ Pushed(e)
      /\ UNCHANGED <<handlers, groups, workspaces, states, given_up, requests>>
  BY DEF ClientInv, PushEffect, clientVars
<1>e. /\ Len(events) \in Nat /\ Len(events') = Len(events) + 1
      /\ DOMAIN events = 1..Len(events) /\ DOMAIN events' = 1..Len(events')
      /\ \A k \in DOMAIN events : events'[k] = events[k]
      /\ events'[Len(events')] = e
  BY <1>0, EventsPushed
<1>1. ASSUME NEW k \in DOMAIN events', NEW o \in Object, About(events'[k], o)
      PROVE  /\ o \in handlers' \/ Born(o, k)' \/ (o \in given_up' /\ o.of # 0)
             /\ \A h \in handlers' : h.id = o.id => h = o \/ Born(o, k)'
             /\ \A j \in DOMAIN events' : \A p \in Object :
                  j < k /\ Creates(events'[j], p) /\ p.id = o.id => p = o
  <2>1. k \in 1..(Len(events) + 1) /\ \A j \in DOMAIN events' : j < k => j \in DOMAIN events
    BY <1>e
  <2>2. Born(o, k)' <=> Born(o, k)
    BY <2>1, <1>0, PastPushed
  <2>3. CASE k \in DOMAIN events
    BY <1>0, <1>1, <1>e, <2>1, <2>2, <2>3 DEF EventsFind
  <2>4. CASE k = Len(events) + 1
    <3>1. o \in resources \ removed
      BY <1>1, <1>e, <2>4 DEF PushEffect
    <3>2. o \in handlers \/ Born(o, k) \/ (o \in given_up /\ o.of # 0)
      <4>1. CASE o.of = 0
        BY <3>1, <4>1, <2>4 DEF ClientInv, TruthFollows, TablesMatch
      <4>2. CASE o.of # 0 /\ o \notin given_up
        <5>1. There(o, k)
          BY <3>1, <4>2, <2>4 DEF ClientInv, TruthFollows
        <5>2. Listing(o) => o \in handlers \cup given_up
          BY DEF Listing, ClientInv, TablesMatch
        <5> QED
          BY <5>1, <5>2, <4>2 DEF There
      <4> QED
        BY <4>1, <4>2
    <3>3. ASSUME NEW h \in handlers, h.id = o.id PROVE h = o \/ Born(o, k)
      <4>1. CASE h \in resources
        BY <4>1, <3>1, <3>3 DEF IdsApart
      <4>2. CASE h \notin resources
        <5>1. h \in given_up
          BY <4>2 DEF ClientInv, HandlersAlive
        <5>2. CASE o \in handlers
          BY <5>2, <3>3 DEF ClientInv, TablesMatch
        <5>3. CASE o \in given_up /\ o.of # 0
          BY <5>3, <3>1, <3>3 DEF ClientInv, HandlersAlive
        <5> QED
          BY <5>2, <5>3, <3>2
      <4> QED
        BY <4>1, <4>2
    <3>4. ASSUME NEW j \in DOMAIN events, NEW p \in Object, Creates(events[j], p), p.id = o.id
          PROVE  p = o
      <4>1. p \in resources
        BY <3>4 DEF ClientInv, Announced
      <4> QED
        BY <4>1, <3>1, <3>4 DEF IdsApart
    <3> QED
      BY <3>2, <3>3, <3>4, <2>1, <2>2, <1>0, <1>e
  <2> QED
    BY <2>3, <2>4, <1>e
<1> QED
  BY <1>1 DEF EventsFind, Creates, About

LEMMA FollowsPushed ==
    ASSUME TypesOK, ClientInv, NEW e, PushEffect(e)
    PROVE  TruthFollows' /\ ViewsFollow'
<1>0. /\ TruthFollows /\ ViewsFollow /\ Pushed(e)
      /\ UNCHANGED <<handlers, groups, workspaces, states, given_up, requests>>
      /\ removed \subseteq resources /\ active \subseteq resources
  BY DEF ClientInv, PushEffect, clientVars, TypesOK, TypeOK
<1>e. /\ Len(events) \in Nat /\ Len(events') = Len(events) + 1
      /\ DOMAIN events = 1..Len(events) /\ DOMAIN events' = 1..Len(events')
      /\ \A k \in DOMAIN events : events'[k] = events[k]
      /\ events'[Len(events')] = e
      /\ Len(events) + 1 \in 1..(Len(events) + 1)
  BY <1>0, EventsPushed
<1>1. ASSUME NEW w \in Object, w.of # 0, w \notin given_up'
      PROVE  /\ w \in resources' \ removed' <=> There(w, Len(events) + 1)'
             /\ w \in resources' \ removed' => (w \in active' <=> ActiveAt(w, Len(events) + 1)')
  <2>1. /\ There(w, Len(events) + 1)' <=>
             (There(w, Len(events) + 1) \/ (Creates(e, w) /\ ~Gone(w, Len(events) + 1))) /\ ~Removes(e, w)
        /\ ActiveAt(w, Len(events) + 1)' <=>
             IF Says(e, w) THEN e.active ELSE ActiveAt(w, Len(events) + 1)
    BY <1>0, LastPushed
  <2>2. /\ w \in resources' <=> w \in resources \/ Creates(e, w)
        /\ w \in removed' <=> w \in removed \/ Removes(e, w)
        /\ w \in active' <=> IF Says(e, w) THEN e.active ELSE w \in active /\ ~Removes(e, w)
    BY DEF PushEffect
  <2>3. /\ w \in resources \ removed <=> There(w, Len(events) + 1)
        /\ w \in resources \ removed => (w \in active <=> ActiveAt(w, Len(events) + 1))
    BY <1>0, <1>1 DEF TruthFollows
  <2>4. CASE Creates(e, w)
    <3>1. w.no = nobjects + 1
      BY <2>4 DEF PushEffect
    <3>2. /\ w \notin resources /\ w \notin states
          /\ \A k \in DOMAIN events : ~Creates(events[k], w) /\ ~About(events[k], w)
      BY <3>1, Unheard
    <3>3. ~Gone(w, Len(events) + 1) /\ ~ActiveAt(w, Len(events) + 1)
      BY <3>2 DEF Gone, ActiveAt, Removes, Says, About
    <3>4. ~Removes(e, w) /\ ~Says(e, w)
      BY <2>4 DEF Creates, Removes, Says
    <3> QED
      BY <2>1, <2>2, <2>4, <3>2, <3>3, <3>4, <1>0
  <2>5. CASE ~Creates(e, w)
    BY <2>1, <2>2, <2>3, <2>5
  <2> QED
    BY <2>4, <2>5
<1>2. ASSUME NEW g \in resources', g.of = 0 PROVE g \in ToSet(groups)' \/ Born(g, Len(events) + 1)'
  <2>1. g \in Object
    BY DEF PushEffect
  <2>2. Born(g, Len(events) + 1)' <=> Born(g, Len(events) + 1) \/ Creates(e, g)
    BY <2>1, <1>0, LastPushed
  <2>3. g \in resources \/ Creates(e, g)
    BY <2>1 DEF PushEffect
  <2>4. ToSet(groups)' = ToSet(groups)
    BY <1>0 DEF ToSet
  <2> QED
    BY <2>2, <2>3, <2>4, <1>0, <1>2 DEF TruthFollows
<1>3. ASSUME NEW k \in DOMAIN events', events'[k].ev = "done" PROVE ViewFollows(k)'
  <2>0. k \in 1..(Len(events) + 1)
    BY <1>e
  <2>1. \A o \in Object : /\ Born(o, k)' <=> Born(o, k)
                          /\ There(o, k)' <=> There(o, k)
                          /\ ActiveAt(o, k)' <=> ActiveAt(o, k)
    BY <2>0, <1>0, PastPushed
  <2>2. ToSet(groups)' = ToSet(groups)
    BY <1>0 DEF ToSet
  <2>3. CASE k \in DOMAIN events
    <3>1. ViewFollows(k) /\ events'[k] = events[k]
      BY <1>0, <1>e, <1>3, <2>3 DEF ViewsFollow
    <3> QED
      BY <3>1, <2>1, <2>2, <1>0 DEF ViewFollows, Mine, Own, Entry
  <2>4. CASE k = Len(events) + 1
    <3>1. events'[k] = e /\ e.view = Truth
      BY <2>4, <1>e, <1>3 DEF PushEffect
    <3>2. ASSUME NEW v
          PROVE  v \in Mine(e.view)' <=> \E w \in Object, a \in BOOLEAN :
                    /\ w.of # 0 /\ Own(w)' /\ There(w, k)' /\ (a <=> ActiveAt(w, k)')
                    /\ v = Entry(w, a)
      <4>0. resources \subseteq Object
        BY Typed
      <4>1. v \in Mine(e.view)' <=> v \in Truth.workspaces /\ \A o \in given_up : o.no # v.no
        BY <3>1, <1>0 DEF Mine
      <4>2. v \in Truth.workspaces <=> \E w \in resources \ removed :
                w.of # 0 /\ v = [no |-> w.no, of |-> w.of, active |-> w \in active]
        BY DEF Truth
      <4>3. v \in Truth.workspaces <=> \E w \in Object, a \in BOOLEAN :
                w.of # 0 /\ w \in resources \ removed /\ (a <=> w \in active) /\ v = Entry(w, a)
        <5>1. ASSUME NEW w \in resources \ removed, w.of # 0,
                     v = [no |-> w.no, of |-> w.of, active |-> w \in active]
              PROVE  \E x \in Object, a \in BOOLEAN :
                        x.of # 0 /\ x \in resources \ removed /\ (a <=> x \in active) /\ v = Entry(x, a)
          <6>1. (w \in active) \in BOOLEAN
            OBVIOUS
          <6>2. PICK a \in BOOLEAN : a = (w \in active)
            BY <6>1, Zenon
          <6>3. v = Entry(w, a)
            BY <5>1, <6>2 DEF Entry
          <6> QED
            BY <5>1, <6>2, <6>3, <4>0
        <5>2. ASSUME NEW w \in Object, NEW a \in BOOLEAN, w.of # 0, w \in resources \ removed,
                     a <=> w \in active, v = Entry(w, a)
              PROVE  v = [no |-> w.no, of |-> w.of, active |-> w \in active]
          <6>1. a = (w \in active)
            BY <5>2
          <6> QED
            BY <5>2, <6>1 DEF Entry
        <5> QED
          BY <4>2, <5>1, <5>2
      <4>4. \A w, a : Entry(w, a).no = w.no
        BY DEF Entry
      <4>5. \A w : /\ Own(w)' <=> Own(w)
                   /\ Own(w) <=> \A o \in given_up : o.no # w.no
                   /\ Own(w) => w \notin given_up
        BY <1>0 DEF Own
      <4>6. \A w \in Object : w.of # 0 /\ Own(w) =>
               /\ w \in resources \ removed <=> There(w, k)
               /\ w \in resources \ removed => (w \in active <=> ActiveAt(w, k))
        BY <4>5, <1>0, <2>4 DEF TruthFollows
      <4>7. v \in Mine(e.view)' <=> \E w \in Object, a \in BOOLEAN :
               w.of # 0 /\ Own(w) /\ w \in resources \ removed /\ (a <=> w \in active) /\ v = Entry(w, a)
        BY <4>1, <4>3, <4>4, <4>5
      <4> QED
        BY <4>5, <4>6, <4>7, <2>1
    <3>3. ASSUME NEW n \in e.view.groups
          PROVE  \E g \in Object : g.of = 0 /\ g.no = n /\ (g \in ToSet(groups)' \/ Born(g, k)')
      <4>1. PICK g \in resources \ removed : g.of = 0 /\ g.no = n
        BY <3>1, <3>3 DEF Truth
      <4>2. g \in Object
        BY <4>1, Typed
      <4> QED
        BY <4>1, <4>2, <2>1, <2>2, <2>4, <1>0 DEF TruthFollows
    <3> QED
      BY <3>1, <3>2, <3>3 DEF ViewFollows, Mine, Entry
  <2> QED
    BY <2>3, <2>4, <1>e
<1>4. TruthFollows'
  BY <1>1, <1>2 DEF TruthFollows
<1> QED
  BY <1>3, <1>4 DEF ViewsFollow

LEMMA SentKeeps ==
    ASSUME WorkspacesInv, NEW e, PushEffect(e)
    PROVE  WorkspacesInv'
<1>1. /\ TypesOK /\ TypeOK /\ IdsApart /\ RequestsKnown /\ Pushed(e)
      /\ UNCHANGED <<handlers, groups, workspaces, states, printed, raised, synced, given_up, ncalls,
                     requests, rejected, misled>>
  BY DEF WorkspacesInv, TypesOK, PushEffect, clientVars
<1>2. /\ events' \in Seq(Event) /\ nobjects' \in 0..MaxObjects
      /\ resources' \subseteq Object /\ removed' \subseteq resources' /\ active' \subseteq resources'
  BY <1>1, EventsPushed DEF PushEffect
<1>3. TypeOK' /\ TypesOK'
  BY <1>1, <1>2 DEF TypeOK, TypesOK
<1>4. /\ \A o \in Object : o \in resources' <=> o \in resources \/ Creates(e, o)
      /\ \A o \in Object : Creates(e, o) => \A p \in resources : p.id # o.id
      /\ \A o \in Object : o \in removed => o \in removed'
      /\ resources \subseteq Object /\ removed \subseteq Object
  BY <1>1 DEF PushEffect, TypeOK
<1>5. IdsApart'
  <2>1. \A o, p : Creates(e, o) /\ Creates(e, p) => o = p
    BY DEF Creates
  <2> QED
    BY <1>1, <1>2, <1>4, <2>1 DEF IdsApart
<1>6. RequestsKnown'
  BY <1>1, <1>4 DEF RequestsKnown, Destroys
<1>7. SyncedView' /\ FailsOnlyAfterDestroy'
  BY <1>1, <1>3, ShownKept DEF WorkspacesInv, FailsOnlyAfterDestroy
<1>8. ASSUME Running PROVE ClientInv'
  <2>1. ClientInv
    BY <1>8 DEF WorkspacesInv
  <2>e. /\ \A k \in DOMAIN events : k \in DOMAIN events' /\ events'[k] = events[k]
        /\ events'[Len(events')] = e
        /\ Len(events) \in Nat /\ Len(events') = Len(events) + 1 /\ DOMAIN events = 1..Len(events)
        /\ \A k \in DOMAIN events' : k \in DOMAIN events \/ k = Len(events')
    BY <1>1, EventsPushed
  <2>2. Grouped'
    <3>1. ASSUME NEW k \in DOMAIN events'
          PROVE  /\ events'[k].ev = "workspace_group" => events'[k].new.of = 0
                 /\ events'[k].ev = "workspace" => events'[k].new.of = events'[k].obj.no /\ events'[k].obj.of = 0
                 /\ events'[k].ev = "state" => events'[k].obj.of # 0
      BY <2>1, <2>e DEF ClientInv, Grouped, PushEffect
    <3> QED
      BY <3>1 DEF Grouped
  <2>3. TablesMatch'
    BY <2>1, <1>1 DEF ClientInv, TablesMatch, Listing, ToSet
  <2>4. HandlersAlive'
    <3>1. \A o : DestroyAsked(o)' <=> DestroyAsked(o)
      BY <1>1 DEF DestroyAsked, Destroys
    <3>2. \A w \in given_up' \cap resources' : w \in resources
      <4>1. \A o \in Object : Creates(e, o) => o \notin given_up
        BY <1>1, <2>1, Unheard DEF PushEffect
      <4> QED
        BY <1>1, <1>2, <1>4, <4>1
    <3>3. \A h \in handlers : h \in Object
      BY <1>1 DEF TypeOK
    <3>4. \A h \in handlers' : IF h \in given_up' THEN h.of = 0 ELSE h \in resources' /\ ~DestroyAsked(h)'
      BY <2>1, <1>1, <1>4, <3>1, <3>3 DEF ClientInv, HandlersAlive
    <3>5. \A w \in given_up' \cap resources' : w.of # 0 => \A h \in handlers' : h.id # w.id
      BY <2>1, <1>1, <3>2 DEF ClientInv, HandlersAlive
    <3> QED
      BY <3>4, <3>5 DEF HandlersAlive
  <2>5. RemovedLast'
    <3>1. ASSUME NEW j \in DOMAIN events', NEW o \in Object, Removes(events'[j], o)
          PROVE  /\ o \in resources' => o \in removed'
                 /\ \A k \in DOMAIN events' : j < k => ~About(events'[k], o)
      <4>1. CASE j \in DOMAIN events
        <5>1. /\ o \in resources => o \in removed
              /\ \A k \in DOMAIN events : j < k => ~About(events[k], o)
          BY <2>1, <2>e, <3>1, <4>1 DEF ClientInv, RemovedLast
        <5>2. ~Creates(e, o)
          <6>1. ASSUME Creates(e, o) PROVE FALSE
            <7>1. o.no = nobjects + 1
              BY <6>1 DEF PushEffect
            <7>2. ~About(events[j], o)
              BY <7>1, <4>1, <1>1, <2>1, Unheard
            <7> QED
              BY <7>2, <3>1, <2>e, <4>1 DEF Removes, About
          <6> QED
            BY <6>1
        <5>3. ~About(e, o)
          BY <5>1 DEF PushEffect
        <5> QED
          BY <5>1, <5>2, <5>3, <1>4, <2>e
      <4>2. CASE j = Len(events')
        <5>1. o \in removed'
          BY <3>1, <4>2, <2>e DEF PushEffect
        <5> QED
          BY <5>1, <4>2, <2>e
      <4> QED
        BY <4>1, <4>2, <2>e
    <3> QED
      BY <3>1 DEF RemovedLast, Removes, About
  <2> QED
    BY <1>1, <2>1, <2>2, <2>3, <2>4, <2>5, NumberedPushed, AnnouncedPushed, EventsFindPushed, FollowsPushed
       DEF ClientInv
<1> QED
  BY <1>1, <1>3, <1>5, <1>6, <1>7, <1>8 DEF WorkspacesInv, Running

LEMMA SentHas ==
    ASSUME WorkspacesInv
    PROVE  /\ TypesOK /\ resources \subseteq Object /\ removed \subseteq resources
           /\ active \subseteq resources /\ nobjects \in Nat /\ nobjects \in 0..MaxObjects
BY Typed DEF WorkspacesInv, TypesOK, TypeOK

LEMMA AddGroupKeeps ==
    ASSUME WorkspacesInv, NEW id \in Ids, AddGroup(id)
    PROVE  WorkspacesInv'
<1> DEFINE g == [id |-> id, no |-> nobjects + 1, of |-> 0]
           e == [ev |-> "workspace_group", new |-> g]
<1>1. /\ nobjects < MaxObjects /\ Named(id) = {} /\ nobjects' = nobjects + 1
      /\ resources' = resources \cup {g} /\ events' = Append(events, e)
      /\ UNCHANGED <<clientVars, removed, active, nchanges, rejected, misled, requests>>
  BY DEF AddGroup, Make, Send
<1>2. g \in Object /\ nobjects + 1 \in 0..MaxObjects
  BY <1>1, SentHas, WorkspaceAssumption DEF Object
<1>3. /\ e \in Event /\ e.ev = "workspace_group" /\ e.new = g
      /\ g.of = 0 /\ g.no = nobjects + 1 /\ g.id = id
  BY <1>2 DEF Event
<1> HIDE DEF g, e
<1>4. \A o \in Object : /\ Creates(e, o) <=> o = g
                        /\ ~About(e, o) /\ ~Says(e, o) /\ ~Removes(e, o)
  BY <1>2, <1>3 DEF Creates, About, Says, Removes
<1>5. \A p \in resources : p.id # g.id
  BY <1>1, <1>3 DEF Named
<1>6. /\ e.ev # "workspace" /\ e.ev # "state" /\ e.ev # "done"
  BY <1>3
<1>7. PushEffect(e)
  <2>1. /\ Pushed(e) /\ UNCHANGED <<clientVars, requests, rejected, misled>>
        /\ nobjects' \in 0..MaxObjects /\ nobjects <= nobjects'
    BY <1>1, <1>2, <1>3, SentHas DEF Pushed
  <2>2. resources' \subseteq Object /\ removed' \subseteq resources' /\ active' \subseteq resources'
    BY <1>1, <1>2, SentHas
  <2>3. ASSUME NEW o \in Object
        PROVE  /\ o \in resources' <=> o \in resources \/ Creates(e, o)
               /\ o \in removed' <=> o \in removed \/ Removes(e, o)
               /\ o \in active' <=> IF Says(e, o) THEN e.active ELSE o \in active /\ ~Removes(e, o)
               /\ Creates(e, o) => o.no = nobjects + 1 /\ o.no = nobjects' /\ \A p \in resources : p.id # o.id
               /\ About(e, o) => o \in resources \ removed
    BY <1>1, <1>3, <1>4, <1>5
  <2> QED
    BY <2>1, <2>2, <2>3, <1>3, <1>6 DEF PushEffect
<1> QED
  BY <1>7, SentKeeps

LEMMA AddWorkspaceKeeps ==
    ASSUME WorkspacesInv, NEW id \in Ids, NEW g \in Groups, AddWorkspace(g, id)
    PROVE  WorkspacesInv'
<1> DEFINE w == [id |-> id, no |-> nobjects + 1, of |-> g.no]
           e == [ev |-> "workspace", obj |-> g, new |-> w]
<1>1. /\ nobjects < MaxObjects /\ Named(id) = {} /\ nobjects' = nobjects + 1
      /\ resources' = resources \cup {w} /\ events' = Append(events, e)
      /\ UNCHANGED <<clientVars, removed, active, nchanges, rejected, misled, requests>>
  BY DEF AddWorkspace, Make, Send
<1>g. g \in resources \ removed /\ g.of = 0 /\ g \in Object /\ g.no \in 1..MaxObjects
  BY SentHas, ObjectFields DEF Groups
<1>2. w \in Object /\ nobjects + 1 \in 0..MaxObjects
  BY <1>1, <1>g, SentHas, WorkspaceAssumption DEF Object
<1>3. /\ e \in Event /\ e.ev = "workspace" /\ e.new = w /\ e.obj = g
      /\ w.of = g.no /\ w.no = nobjects + 1 /\ w.id = id
  BY <1>2, <1>g DEF Event
<1> HIDE DEF w, e
<1>4. \A o \in Object : /\ Creates(e, o) <=> o = w
                        /\ About(e, o) <=> o = g
                        /\ ~Says(e, o) /\ ~Removes(e, o)
  BY <1>2, <1>g, <1>3 DEF Creates, About, Says, Removes
<1>5. \A p \in resources : p.id # w.id
  BY <1>1, <1>3 DEF Named
<1>6. /\ e.ev # "workspace_group" /\ e.ev # "state" /\ e.ev # "done"
  BY <1>3
<1>7. PushEffect(e)
  <2>1. /\ Pushed(e) /\ UNCHANGED <<clientVars, requests, rejected, misled>>
        /\ nobjects' \in 0..MaxObjects /\ nobjects <= nobjects'
    BY <1>1, <1>2, <1>3, SentHas DEF Pushed
  <2>2. resources' \subseteq Object /\ removed' \subseteq resources' /\ active' \subseteq resources'
    BY <1>1, <1>2, SentHas
  <2>3. ASSUME NEW o \in Object
        PROVE  /\ o \in resources' <=> o \in resources \/ Creates(e, o)
               /\ o \in removed' <=> o \in removed \/ Removes(e, o)
               /\ o \in active' <=> IF Says(e, o) THEN e.active ELSE o \in active /\ ~Removes(e, o)
               /\ Creates(e, o) => o.no = nobjects + 1 /\ o.no = nobjects' /\ \A p \in resources : p.id # o.id
               /\ About(e, o) => o \in resources \ removed
    BY <1>1, <1>3, <1>4, <1>5, <1>g
  <2> QED
    BY <2>1, <2>2, <2>3, <1>3, <1>6, <1>g DEF PushEffect
<1> QED
  BY <1>7, SentKeeps

LEMMA TurnKeeps ==
    ASSUME WorkspacesInv, NEW w \in resources, Turn(w)
    PROVE  WorkspacesInv'
<1> DEFINE e == [ev |-> "state", obj |-> w, active |-> w \notin active]
<1>1. /\ w \in resources \ removed /\ w.of # 0 /\ events' = Append(events, e)
      /\ active' = IF w \in active THEN active \ {w} ELSE active \cup {w}
      /\ UNCHANGED <<clientVars, resources, removed, nobjects, rejected, misled, requests>>
  BY DEF Turn, Change, Send, Workspace
<1>2. w \in Object
  BY SentHas
<1>3. e \in Event /\ e.ev = "state" /\ e.obj = w /\ (e.active <=> w \notin active)
  <2>1. (w \notin active) \in BOOLEAN
    OBVIOUS
  <2>2. e.active = (w \notin active) /\ e.ev = "state" /\ e.obj = w
    OBVIOUS
  <2>3. e \in [ev : {"state"}, obj : Object, active : BOOLEAN]
    BY <1>2, <2>1
  <2> QED
    BY <2>2, <2>3 DEF Event
<1> HIDE DEF e
<1>4. \A o \in Object : /\ Says(e, o) <=> o = w
                        /\ About(e, o) <=> o = w
                        /\ ~Creates(e, o) /\ ~Removes(e, o)
  BY <1>2, <1>3 DEF Creates, About, Says, Removes
<1>6. /\ e.ev # "workspace_group" /\ e.ev # "workspace" /\ e.ev # "done"
  BY <1>3
<1>7. PushEffect(e)
  <2>1. /\ Pushed(e) /\ UNCHANGED <<clientVars, requests, rejected, misled>>
        /\ nobjects' \in 0..MaxObjects /\ nobjects <= nobjects'
    BY <1>1, <1>3, SentHas DEF Pushed
  <2>2. resources' \subseteq Object /\ removed' \subseteq resources' /\ active' \subseteq resources'
    BY <1>1, <1>2, SentHas
  <2>4. ASSUME NEW o \in Object
        PROVE  o \in active' <=> IF Says(e, o) THEN e.active ELSE o \in active /\ ~Removes(e, o)
    BY <1>1, <1>3, <1>4
  <2>3. ASSUME NEW o \in Object
        PROVE  /\ o \in resources' <=> o \in resources \/ Creates(e, o)
               /\ o \in removed' <=> o \in removed \/ Removes(e, o)
               /\ Creates(e, o) => o.no = nobjects + 1 /\ o.no = nobjects' /\ \A p \in resources : p.id # o.id
               /\ About(e, o) => o \in resources \ removed
    BY <1>1, <1>3, <1>4
  <2> QED
    BY <2>1, <2>2, <2>3, <2>4, <1>1, <1>3, <1>6 DEF PushEffect
<1> QED
  BY <1>7, SentKeeps

LEMMA EndKeeps ==
    ASSUME WorkspacesInv, NEW o \in resources, End(o)
    PROVE  WorkspacesInv'
<1> DEFINE e == [ev |-> "remove", obj |-> o]
<1>1. /\ o \notin removed /\ events' = Append(events, e)
      /\ removed' = removed \cup {o} /\ active' = active \ {o}
      /\ UNCHANGED <<clientVars, resources, nobjects, rejected, misled, requests>>
  BY DEF End, Change, Send
<1>2. o \in Object
  BY SentHas
<1>3. e \in Event /\ e.ev = "remove" /\ e.obj = o
  BY <1>2 DEF Event
<1> HIDE DEF e
<1>4. \A p \in Object : /\ Removes(e, p) <=> p = o
                        /\ About(e, p) <=> p = o
                        /\ ~Creates(e, p) /\ ~Says(e, p)
  BY <1>2, <1>3 DEF Creates, About, Says, Removes
<1>6. /\ e.ev # "workspace_group" /\ e.ev # "workspace" /\ e.ev # "done" /\ e.ev # "state"
  BY <1>3
<1>7. PushEffect(e)
  <2>1. /\ Pushed(e) /\ UNCHANGED <<clientVars, requests, rejected, misled>>
        /\ nobjects' \in 0..MaxObjects /\ nobjects <= nobjects'
    BY <1>1, <1>3, SentHas DEF Pushed
  <2>2. resources' \subseteq Object /\ removed' \subseteq resources' /\ active' \subseteq resources'
    BY <1>1, <1>2, SentHas
  <2>3. ASSUME NEW p \in Object
        PROVE  /\ p \in resources' <=> p \in resources \/ Creates(e, p)
               /\ p \in removed' <=> p \in removed \/ Removes(e, p)
               /\ p \in active' <=> IF Says(e, p) THEN e.active ELSE p \in active /\ ~Removes(e, p)
               /\ Creates(e, p) => p.no = nobjects + 1 /\ p.no = nobjects' /\ \A q \in resources : q.id # p.id
               /\ About(e, p) => p \in resources \ removed
    BY <1>1, <1>3, <1>4
  <2> QED
    BY <2>1, <2>2, <2>3, <1>6 DEF PushEffect
<1> QED
  BY <1>7, SentKeeps

LEMMA TruthTyped ==
    ASSUME TypesOK
    PROVE  Truth \in View
<1>1. resources \subseteq Object
  BY Typed
<1>2. \A o \in resources : o.no \in 1..MaxObjects /\ o.of \in 0..MaxObjects
  BY <1>1, ObjectFields
<1>3. {g.no : g \in {o \in resources \ removed : o.of = 0}} \subseteq 1..MaxObjects
  BY <1>2
<1>4. \A w \in resources : (w \in active) \in BOOLEAN
  OBVIOUS
<1>5. {[no |-> w.no, of |-> w.of, active |-> w \in active] : w \in {o \in resources \ removed : o.of # 0}}
        \subseteq [no : 1..MaxObjects, of : 0..MaxObjects, active : BOOLEAN]
  <2>1. \A n \in 1..MaxObjects, m \in 0..MaxObjects, a \in BOOLEAN :
           [no |-> n, of |-> m, active |-> a] \in [no : 1..MaxObjects, of : 0..MaxObjects, active : BOOLEAN]
    OBVIOUS
  <2>2. ASSUME NEW w \in resources
        PROVE  [no |-> w.no, of |-> w.of, active |-> w \in active]
                 \in [no : 1..MaxObjects, of : 0..MaxObjects, active : BOOLEAN]
    BY <1>2, <1>4, <2>1, Zenon
  <2> QED
    BY <2>2
<1> QED
  BY <1>3, <1>5 DEF Truth, View

LEMMA SendDoneKeeps ==
    ASSUME WorkspacesInv, SendDone
    PROVE  WorkspacesInv'
<1> DEFINE e == [ev |-> "done", view |-> Truth]
<1>1. /\ events' = Append(events, e)
      /\ UNCHANGED <<clientVars, resources, removed, active, nobjects, rejected, misled, requests>>
  BY DEF SendDone
<1>3. e \in Event /\ e.ev = "done" /\ e.view = Truth
  BY SentHas, TruthTyped DEF Event
<1> HIDE DEF e
<1>4. \A p \in Object : ~Removes(e, p) /\ ~About(e, p) /\ ~Creates(e, p) /\ ~Says(e, p)
  BY <1>3 DEF Creates, About, Says, Removes
<1>6. /\ e.ev # "workspace_group" /\ e.ev # "workspace" /\ e.ev # "state"
  BY <1>3
<1>7. PushEffect(e)
  <2>1. /\ Pushed(e) /\ UNCHANGED <<clientVars, requests, rejected, misled>>
        /\ nobjects' \in 0..MaxObjects /\ nobjects <= nobjects'
    BY <1>1, <1>3, SentHas DEF Pushed
  <2>2. resources' \subseteq Object /\ removed' \subseteq resources' /\ active' \subseteq resources'
    BY <1>1, SentHas
  <2>3. ASSUME NEW p \in Object
        PROVE  /\ p \in resources' <=> p \in resources \/ Creates(e, p)
               /\ p \in removed' <=> p \in removed \/ Removes(e, p)
               /\ p \in active' <=> IF Says(e, p) THEN e.active ELSE p \in active /\ ~Removes(e, p)
               /\ Creates(e, p) => p.no = nobjects + 1 /\ p.no = nobjects' /\ \A q \in resources : q.id # p.id
               /\ About(e, p) => p \in resources \ removed
    BY <1>1, <1>4
  <2> QED
    BY <2>1, <2>2, <2>3, <1>3, <1>6 DEF PushEffect
<1> QED
  BY <1>7, SentKeeps

-----------------------------------------------------------------------------
LEMMA InitHolds == Init => WorkspacesInv
<1> SUFFICES ASSUME Init PROVE WorkspacesInv
  OBVIOUS
<1>1. /\ events = <<>> /\ requests = <<>> /\ groups = <<>> /\ workspaces = <<>>
      /\ handlers = {} /\ states = {} /\ resources = {} /\ removed = {} /\ active = {} /\ given_up = {}
      /\ raised = {} /\ nobjects = 0 /\ ~rejected /\ ~misled /\ printed = Nothing /\ synced = Nothing
  BY DEF Init
<1>2. DOMAIN events = {} /\ DOMAIN requests = {} /\ DOMAIN workspaces = {} /\ ToSet(groups) = {}
  BY <1>1 DEF ToSet
<1>3. TypeOK
  BY <1>1, <1>2 DEF TypeOK
<1>4. TypesOK
  BY <1>1, <1>3, WorkspaceAssumption DEF TypesOK
<1>5. IdsApart /\ RequestsKnown
  BY <1>1, <1>2 DEF IdsApart, RequestsKnown
<1>6. SyncedView /\ FailsOnlyAfterDestroy
  BY <1>1, <1>3 DEF SyncedView, FailsOnlyAfterDestroy, Nothing
<1>7. ClientInv
  <2>1. Numbered /\ Grouped /\ HandlersAlive /\ Announced /\ EventsFind /\ RemovedLast /\ ViewsFollow
    BY <1>1, <1>2 DEF Numbered, Grouped, HandlersAlive, Announced, EventsFind, RemovedLast, ViewsFollow
  <2>2. TablesMatch
    BY <1>1, <1>2 DEF TablesMatch
  <2>3. TruthFollows
    BY <1>1, <1>2 DEF TruthFollows, There, Listing, Born
  <2> QED
    BY <2>1, <2>2, <2>3 DEF ClientInv
<1> QED
  BY <1>4, <1>5, <1>6, <1>7 DEF WorkspacesInv

LEMMA NextHolds == WorkspacesInv /\ [Next]_vars => WorkspacesInv'
<1> SUFFICES ASSUME WorkspacesInv, [Next]_vars PROVE WorkspacesInv'
  OBVIOUS
<1>1. CASE Dispatch
  BY <1>1, DispatchKeeps
<1>2. CASE Application
  BY <1>2, AskKeeps, DestroyKeeps DEF Application
<1>3. CASE Compositor
  BY <1>3, ServeKeeps, SendDoneKeeps, AddGroupKeeps, AddWorkspaceKeeps, TurnKeeps, EndKeeps DEF Compositor
<1>4. CASE UNCHANGED vars
  <2>1. /\ UNCHANGED <<resources, removed, active, requests, events, unsynced, nobjects, nchanges, rejected, misled>>
        /\ UNCHANGED <<handlers, groups, workspaces, states, printed, raised, synced, given_up, ncalls>>
    BY <1>4 DEF vars, clientVars, serverVars
  <2>2. TypeOK' /\ TypesOK'
    BY <2>1 DEF WorkspacesInv, TypesOK, TypeOK
  <2>3. Running => ClientInv'
    <3> SUFFICES ASSUME ClientInv PROVE ClientInv'
      BY DEF WorkspacesInv
    <3>1. Numbered' /\ Grouped' /\ TablesMatch' /\ HandlersAlive' /\ Announced'
      BY <2>1 DEF ClientInv, Numbered, Grouped, TablesMatch, HandlersAlive, Announced, Creates, About, Destroys,
                  DestroyAsked, Listing, ToSet
    <3>2. EventsFind' /\ RemovedLast'
      BY <2>1 DEF ClientInv, EventsFind, RemovedLast, Creates, About, Removes, Born
    <3>3. TruthFollows' /\ ViewsFollow'
      BY <2>1 DEF ClientInv, TruthFollows, ViewsFollow, ViewFollows, There, ActiveAt, Born, Gone, Listing,
                  Creates, Removes, Says, Own, Mine, Entry, ToSet
    <3> QED
      BY <3>1, <3>2, <3>3 DEF ClientInv
  <2>4. IdsApart' /\ RequestsKnown' /\ SyncedView' /\ FailsOnlyAfterDestroy'
    BY <2>1, <2>2, ShownKept DEF WorkspacesInv, IdsApart, RequestsKnown, Destroys, FailsOnlyAfterDestroy
  <2> QED
    BY <2>1, <2>2, <2>3, <2>4 DEF WorkspacesInv, Running
<1> QED
  BY <1>1, <1>2, <1>3, <1>4 DEF Next

\* The tables, the handlers, the requests and the events on their way account for all
\* that the compositor has, until an exception ends the loop (cosmic_workspaces.py).
THEOREM WorkspacesAccounted == Spec => []WorkspacesInv
<1> QED
  BY InitHolds, NextHolds, PTL DEF Spec

\* What is printed at a done event is what the compositor had when it sent it: a batch is
\* complete, every workspace in its own group with its state, but for those that the
\* application destroyed itself (on_sync of the example, done in cosmic_workspaces.py).
THEOREM ShowsWhatIsThere == Spec => []SyncedView
<1>1. WorkspacesInv => SyncedView
  BY DEF WorkspacesInv
<1> QED
  BY <1>1, WorkspacesAccounted, PTL

\* No handler raises, and no request is rejected or acts on another object than was meant,
\* unless the application has destroyed a group or a workspace itself.
THEOREM OnlyDestroyFails == Spec => []FailsOnlyAfterDestroy
<1>1. WorkspacesInv => FailsOnlyAfterDestroy
  BY DEF WorkspacesInv
<1> QED
  BY <1>1, WorkspacesAccounted, PTL

-----------------------------------------------------------------------------
\* The virtual keyboard and its key map.
\* A key map: its names have symbols and numbers of their own, from 1.
KeysNumbered(m) ==
    /\ DOMAIN m \subseteq Names /\ IsFiniteSet(DOMAIN m)
    /\ \A n \in DOMAIN m : Symbol[n] # "none" /\ m[n] \in 1..Cardinality(DOMAIN m)
    /\ \A n, o \in DOMAIN m : m[n] = m[o] => n = o

\* The compositor has the key map as it is, unless it is to be sent again.
KeymapCurrent == changed \/ srv_map = Serialize(map)

\* What two open blocks have in common is known.
OverlapsKnown ==
    \A i, j \in DOMAIN blocks : i # j => blocks[i] \cap blocks[j] \subseteq overlapped

KeyboardInv ==
    /\ KeysNumbered(map)
    /\ KeymapCurrent
    /\ OverlapsKnown
    /\ TypedAsAsked
    /\ ModifiersCurrent
    /\ ModifiersHeld

-----------------------------------------------------------------------------
\* A set of numbers that is not empty has a least one.
LEMMA Least ==
    ASSUME NEW S \in SUBSET Nat, S # {}
    PROVE  \E j \in S : \A k \in S : j <= k
<1>1. PICK j \in S : \A k \in S : <<k, j>> \notin OpToRel(<, Nat)
  BY WFMin, NatLessThanWellFounded
<1>2. \A k \in S : ~(k < j)
  <2> SUFFICES ASSUME NEW k \in S, k < j PROVE <<k, j>> \in OpToRel(<, Nat)
    BY <1>1
  <2> QED
    BY DEF OpToRel
<1> QED
  BY <1>2

\* The key map after a text has names of its own for all that have a symbol.
LEMMA TextLearned ==
    ASSUME NEW m, KeysNumbered(m), NEW text \in Seq(Names)
    PROVE  /\ KeysNumbered(LearnAll(m, text))
           /\ \A k \in DOMAIN text : text[k] \in DOMAIN LearnAll(m, text) <=> Symbol[text[k]] # "none"
<1> DEFINE new == {k \in DOMAIN text : IsNew(m, text, k)}
           names == {text[k] : k \in new}
           UpTo(n) == {j \in new : \E k \in new : text[k] = n /\ j <= k}
           learned == LearnAll(m, text)
<1>1. /\ DOMAIN text = 1..Len(text) /\ Len(text) \in Nat
      /\ new \in SUBSET (1..Len(text)) /\ new \in SUBSET Nat
      /\ \A k \in DOMAIN text : text[k] \in Names
  BY LenProperties, ElementOfSeq
<1>2. IsFiniteSet(new) /\ Cardinality(new) \in Nat
  <2> HIDE DEF new
  <2>1. IsFiniteSet(1..Len(text))
    BY <1>1, FS_Interval
  <2>2. IsFiniteSet(new)
    BY <1>1, <2>1, FS_Subset
  <2> QED
    BY <2>2, FS_CardinalityType
<1>3. \A j, k \in new : text[j] = text[k] => j = k
  <2> SUFFICES ASSUME NEW j \in new, NEW k \in new, text[j] = text[k], j < k PROVE FALSE
    BY <1>1
  <2> QED
    BY <1>1 DEF IsNew
<1>4. /\ DOMAIN learned = DOMAIN m \cup names
      /\ \A n \in DOMAIN m : learned[n] = m[n]
      /\ \A n \in names : n \notin DOMAIN m
      /\ \A n \in names : learned[n] = Cardinality(DOMAIN m) + Cardinality(UpTo(n))
  BY DEF LearnAll, IsNew
<1>5. IsFiniteSet(names) /\ Cardinality(names) = Cardinality(new)
  <2> DEFINE f == [k \in new |-> text[k]]
  <2>1. f \in [new -> names]
    OBVIOUS
  <2>2. f \in Injection(new, names)
    BY <1>3, <2>1, Fun_IsInj
  <2>3. f \in Surjection(new, names)
    BY <2>1, Fun_IsSurj
  <2>4. ExistsBijection(new, names)
    BY <2>2, <2>3 DEF Bijection, ExistsBijection
  <2> QED
    BY <1>2, <2>4, FS_Bijection
<1> HIDE DEF learned
<1>6. /\ IsFiniteSet(DOMAIN learned)
      /\ Cardinality(DOMAIN m) \in Nat
      /\ Cardinality(DOMAIN learned) = Cardinality(DOMAIN m) + Cardinality(new)
  <2>1. IsFiniteSet(DOMAIN m)
    BY DEF KeysNumbered
  <2>2. DOMAIN m \cap names = {}
    BY <1>4
  <2>3. Cardinality(DOMAIN m \cap names) = 0
    BY <2>2, FS_EmptySet
  <2>4. Cardinality(DOMAIN m) \in Nat
    BY <2>1, FS_CardinalityType
  <2> HIDE DEF new, names
  <2>5. /\ IsFiniteSet(DOMAIN m \cup names)
        /\ Cardinality(DOMAIN m \cup names) =
             Cardinality(DOMAIN m) + Cardinality(names) - Cardinality(DOMAIN m \cap names)
    BY <1>5, <2>1, FS_Union
  <2>6. DOMAIN learned = DOMAIN m \cup names
    BY <1>4
  <2> QED
    BY <1>2, <1>5, <2>3, <2>4, <2>5, <2>6
<1>7. ASSUME NEW n \in names
      PROVE  /\ UpTo(n) \in SUBSET new /\ IsFiniteSet(UpTo(n))
             /\ Cardinality(UpTo(n)) \in 1..Cardinality(new)
  <2>1. PICK k \in new : text[k] = n
    OBVIOUS
  <2>2. UpTo(n) \in SUBSET new /\ k \in UpTo(n)
    BY <1>1, <2>1
  <2>3. /\ IsFiniteSet(UpTo(n)) /\ Cardinality(UpTo(n)) <= Cardinality(new)
        /\ Cardinality(UpTo(n)) \in Nat
    BY <1>2, <2>2, FS_Subset, FS_CardinalityType
  <2>4. Cardinality(UpTo(n)) # 0
    BY <2>2, <2>3, FS_EmptySet
  <2> QED
    BY <1>2, <2>2, <2>3, <2>4
<1>8. ASSUME NEW n \in names, NEW o \in names, Cardinality(UpTo(n)) = Cardinality(UpTo(o))
      PROVE  n = o
  <2>1. PICK j \in new : text[j] = n
    OBVIOUS
  <2>2. PICK k \in new : text[k] = o
    OBVIOUS
  <2>3. UpTo(n) = {i \in new : i <= j} /\ UpTo(o) = {i \in new : i <= k}
    BY <1>3, <2>1, <2>2
  <2>4. CASE j <= k
    <3>1. UpTo(n) \in SUBSET UpTo(o)
      BY <1>1, <2>3, <2>4
    <3>2. UpTo(n) = UpTo(o)
      BY <1>7, <1>8, <3>1, FS_Subset
    <3>3. k <= j
      BY <1>1, <2>3, <3>2, k \in UpTo(o)
    <3> QED
      BY <1>1, <2>1, <2>2, <2>4, <3>3
  <2>5. CASE k <= j
    <3>1. UpTo(o) \in SUBSET UpTo(n)
      BY <1>1, <2>3, <2>5
    <3>2. UpTo(n) = UpTo(o)
      BY <1>7, <1>8, <3>1, FS_Subset
    <3>3. j <= k
      BY <1>1, <2>3, <3>2, j \in UpTo(n)
    <3> QED
      BY <1>1, <2>1, <2>2, <2>5, <3>3
  <2> QED
    BY <1>1, <2>4, <2>5
<1>9. KeysNumbered(learned)
  <2>1. \A n \in names : n \in Names /\ Symbol[n] # "none"
    BY <1>1 DEF IsNew
  <2>2. DOMAIN learned \subseteq Names /\ \A n \in DOMAIN learned : Symbol[n] # "none"
    BY <1>4, <2>1 DEF KeysNumbered
  <2>3. \A n \in DOMAIN m : m[n] \in 1..Cardinality(DOMAIN m)
    BY DEF KeysNumbered
  <2>4. \A n \in DOMAIN learned : learned[n] \in 1..Cardinality(DOMAIN learned)
    <3>1. \A n \in DOMAIN m : learned[n] \in 1..Cardinality(DOMAIN learned)
      BY <1>2, <1>4, <1>6, <2>3
    <3>2. ASSUME NEW n \in names PROVE learned[n] \in 1..Cardinality(DOMAIN learned)
      <4>1. Cardinality(UpTo(n)) \in 1..Cardinality(new)
        BY <1>7
      <4> HIDE DEF new, names, UpTo
      <4> QED
        BY <1>2, <1>4, <1>6, <4>1
    <3> QED
      BY <1>4, <3>1, <3>2
  <2>5. ASSUME NEW n \in DOMAIN learned, NEW o \in DOMAIN learned, learned[n] = learned[o]
        PROVE  n = o
    <3> HIDE DEF new, names, UpTo
    <3>1. CASE n \in DOMAIN m /\ o \in DOMAIN m
      BY <1>4, <2>5, <3>1 DEF KeysNumbered
    <3>2. CASE n \in names /\ o \in names
      BY <1>4, <1>6, <1>7, <1>8, <2>5, <3>2
    <3>3. CASE n \in DOMAIN m /\ o \in names
      BY <1>4, <1>6, <1>7, <2>3, <2>5, <3>3
    <3>4. CASE n \in names /\ o \in DOMAIN m
      BY <1>4, <1>6, <1>7, <2>3, <2>5, <3>4
    <3> QED
      BY <1>4, <3>1, <3>2, <3>3, <3>4
  <2> QED
    BY <1>6, <2>2, <2>4, <2>5 DEF KeysNumbered
<1>10. ASSUME NEW k \in DOMAIN text, Symbol[text[k]] # "none"
       PROVE  text[k] \in DOMAIN learned
  <2>1. CASE text[k] \in DOMAIN m
    BY <1>4, <2>1
  <2>2. CASE text[k] \notin DOMAIN m
    <3> DEFINE same == {j \in DOMAIN text : text[j] = text[k]}
    <3>1. PICK j \in same : \A i \in same : j <= i
      <4>1. same \in SUBSET Nat /\ same # {}
        BY <1>1
      <4> QED
        BY <4>1, Least
    <3>2. j \in new
      BY <1>1, <1>10, <2>2, <3>1 DEF IsNew
    <3> QED
      BY <1>4, <3>1, <3>2
  <2> QED
    BY <2>1, <2>2
<1>11. \A n \in DOMAIN learned : Symbol[n] # "none"
  BY <1>9 DEF KeysNumbered
<1> HIDE DEF new, names
<1> QED
  BY <1>9, <1>10, <1>11 DEF learned

\* A key that is sent by its number in the map the compositor has gives the symbol
\* of its name.
LEMMA SerializedRight ==
    ASSUME NEW m, KeysNumbered(m)
    PROVE  /\ \A n \in DOMAIN m : Lookup(Serialize(m), m[n]) = Symbol[n]
           /\ Serialize(m) # NoKeymap
<1> DEFINE codes == {m[n] + 8 : n \in DOMAIN m}
<1>1. Cardinality(DOMAIN m) \in Nat
  BY FS_CardinalityType DEF KeysNumbered
<1>2. /\ Serialize(m).maximum = 8 + Cardinality(DOMAIN m)
      /\ DOMAIN Serialize(m).symbols = codes
      /\ \A c \in codes : Serialize(m).symbols[c] = Symbol[CHOOSE n \in DOMAIN m : m[n] + 8 = c]
  BY DEF Serialize
<1>3. Serialize(m) # NoKeymap
  BY <1>1, <1>2 DEF NoKeymap
<1>4. ASSUME NEW n \in DOMAIN m
      PROVE  Lookup(Serialize(m), m[n]) = Symbol[n]
  <2>1. /\ \A o \in DOMAIN m : m[o] \in Nat
        /\ m[n] + 8 <= 8 + Cardinality(DOMAIN m) /\ m[n] + 8 \in codes
    BY <1>1 DEF KeysNumbered
  <2>2. (CHOOSE o \in DOMAIN m : m[o] + 8 = m[n] + 8) = n
    <3>1. \A o \in DOMAIN m : m[o] + 8 = m[n] + 8 => o = n
      BY <2>1 DEF KeysNumbered
    <3> QED
      BY <3>1
  <2>3. Serialize(m).symbols[m[n] + 8] = Symbol[n]
    BY <1>2, <2>1, <2>2
  <2> HIDE DEF codes
  <2> QED
    BY <1>2, <2>1, <2>3 DEF Lookup
<1> QED
  BY <1>3, <1>4

-----------------------------------------------------------------------------
\* The compositor is told the modifiers as they are, and NoMods says that there are none.
LEMMA ModifiersTold ==
    /\ NoMods = ModifiersOf({})
    /\ \A mods, S :
         /\ ModifiersOf(mods).depressed \cup ModifiersOf(mods).latched \cup ModifiersOf(mods).locked = mods
         /\ ModifiersOf(mods).depressed \cap ModifiersOf(mods).locked = {}
         /\ mods \subseteq S =>
              ModifiersOf(mods) \in [{"depressed", "latched", "locked"} -> SUBSET S]
BY DEF ModifiersOf, NoMods

LEMMA KeyboardInvInit == KeyboardInit => KeyboardInv
<1> SUFFICES ASSUME KeyboardInit PROVE KeyboardInv
  OBVIOUS
<1> USE DEF KeyboardInit
<1>1. DOMAIN map = {} /\ blocks \in Seq(Combos) /\ DOMAIN blocks = {} /\ DOMAIN asked = {}
      /\ asked \in Seq(Names)
  OBVIOUS
<1>2. KeysNumbered(map)
  BY <1>1, FS_EmptySet DEF KeysNumbered
<1>3. KeyboardTypeOK
  <2>1. srv_mods \in [{"depressed", "latched", "locked"} -> SUBSET Mods]
    BY ModifiersTold
  <2> QED
    BY <1>1, <2>1 DEF KeyboardTypeOK
<1>4. TypedAsAsked
  BY <1>1, <1>3 DEF TypedAsAsked
<1>5. ModifiersCurrent
  BY DEF ModifiersCurrent, NoMods
<1>6. ToSet(blocks) = {}
  BY <1>1 DEF ToSet
<1>7. ModifiersHeld
  BY <1>6 DEF ModifiersHeld
<1> QED
  BY <1>1, <1>2, <1>4, <1>5, <1>7 DEF KeyboardInv, KeymapCurrent, OverlapsKnown

\* Sending the key map when it has changed, or not.
LEMMA KeymapUpdated ==
    ASSUME KeyboardInv, NEW m, KeysNumbered(m), NEW must \in BOOLEAN, ~must => ~changed /\ m = map,
           NEW fails \in BOOLEAN, map' = m, UpdateKeymap(m, must, fails),
           UNCHANGED modifiers
    PROVE  /\ KeymapCurrent' /\ changed' \in BOOLEAN
           /\ srv_mods' \in [{"depressed", "latched", "locked"} -> SUBSET Mods]
           /\ srv_mods'.depressed \cup srv_mods'.latched \cup srv_mods'.locked = modifiers
           /\ srv_mods'.depressed \cap srv_mods'.locked = {}
           /\ ~(must /\ fails) => srv_map' = Serialize(m)
<1>1. CASE must /\ fails
  BY <1>1 DEF UpdateKeymap, KeyboardInv, KeymapCurrent, TypedAsAsked, KeyboardTypeOK, ModifiersCurrent
<1>2. CASE ~must
  BY <1>2 DEF UpdateKeymap, KeyboardInv, KeymapCurrent, TypedAsAsked, KeyboardTypeOK, ModifiersCurrent
<1>3. CASE must /\ ~fails
  <2>1. changed' = FALSE /\ srv_map' = Serialize(m)
        /\ srv_mods' = IF modifiers = {} THEN NoMods ELSE ModifiersOf(modifiers)
    BY <1>3 DEF UpdateKeymap
  <2>2. modifiers \subseteq Mods
    BY DEF KeyboardInv, TypedAsAsked, KeyboardTypeOK
  <2>3. srv_mods' = ModifiersOf(modifiers)
    BY <2>1, ModifiersTold
  <2>4. /\ srv_mods' \in [{"depressed", "latched", "locked"} -> SUBSET Mods]
        /\ srv_mods'.depressed \cup srv_mods'.latched \cup srv_mods'.locked = modifiers
        /\ srv_mods'.depressed \cap srv_mods'.locked = {}
    BY <2>2, <2>3, ModifiersTold
  <2>5. KeymapCurrent'
    BY <2>1 DEF KeymapCurrent
  <2> QED
    BY <2>1, <2>4, <2>5
<1> QED
  BY <1>1, <1>2, <1>3

LEMMA TypeHolds ==
    ASSUME KeyboardInv, NEW text \in Seq(Names), NEW fails \in BOOLEAN, Type(text, fails)
    PROVE  KeyboardInv'
<1> DEFINE m == LearnAll(map, text)
           must == changed \/ m # map
           keys == KeysOf(m, text)
<1>1. /\ KeysNumbered(m) /\ must \in BOOLEAN
      /\ \A k \in DOMAIN text : text[k] \in DOMAIN m <=> Symbol[text[k]] # "none"
  BY TextLearned DEF KeyboardInv
<1> HIDE DEF m
<1>2. /\ map' = m /\ UpdateKeymap(m, must, fails)
      /\ IF must /\ fails THEN NothingTyped ELSE Press(m, text)
      /\ UNCHANGED <<modifiers, blocks, broken, overlapped>>
  BY DEF Type, m
<1>3. /\ KeymapCurrent' /\ changed' \in BOOLEAN
      /\ srv_mods' \in [{"depressed", "latched", "locked"} -> SUBSET Mods]
      /\ srv_mods'.depressed \cup srv_mods'.latched \cup srv_mods'.locked = modifiers
      /\ srv_mods'.depressed \cap srv_mods'.locked = {}
      /\ ~(must /\ fails) => srv_map' = Serialize(m)
  BY <1>1, <1>2, KeymapUpdated
<1>4. /\ asked' \in Seq(Names) /\ refused' = FALSE
      /\ typed' = [k \in DOMAIN asked' |-> Symbol[asked'[k]]]
  <2>1. CASE must /\ fails
    <3>1. asked' = <<>> /\ typed' = <<>> /\ refused' = refused
      BY <1>2, <2>1 DEF NothingTyped
    <3>2. DOMAIN asked' = {} /\ asked' \in Seq(Names)
      BY <3>1
    <3> QED
      BY <3>1, <3>2 DEF KeyboardInv, ModifiersCurrent
  <2>2. CASE ~(must /\ fails)
    <3>1. srv_map' = Serialize(m) /\ asked' = text
      BY <1>2, <1>3, <2>2 DEF Press
    <3>2. refused' = FALSE
      BY <1>1, <1>2, <2>2, <3>1, SerializedRight DEF Press, KeyboardInv, ModifiersCurrent
    <3>3. ASSUME NEW k \in DOMAIN text
          PROVE  (IF keys[k] = 0 THEN "none" ELSE Lookup(srv_map', keys[k])) = Symbol[text[k]]
      <4>1. CASE text[k] \in DOMAIN m
        <5>1. keys[k] = m[text[k]] /\ keys[k] # 0
          BY <1>1, <4>1, FS_CardinalityType DEF KeysOf, KeysNumbered
        <5> QED
          BY <1>1, <3>1, <4>1, <5>1, SerializedRight
      <4>2. CASE text[k] \notin DOMAIN m
        BY <1>1, <4>2 DEF KeysOf
      <4> QED
        BY <4>1, <4>2
    <3>4. typed' = [k \in DOMAIN keys |-> IF keys[k] = 0 THEN "none" ELSE Lookup(srv_map', keys[k])]
      BY <1>2, <2>2 DEF Press
    <3>5. DOMAIN keys = DOMAIN text
      BY DEF KeysOf
    <3> QED
      BY <3>1, <3>2, <3>3, <3>4, <3>5
  <2> QED
    BY <2>1, <2>2
<1>5. KeyboardTypeOK'
  BY <1>1, <1>2, <1>3, <1>4 DEF KeyboardInv, TypedAsAsked, KeyboardTypeOK, KeysNumbered
<1>6. TypedAsAsked'
  BY <1>4, <1>5 DEF TypedAsAsked
<1>7. ModifiersCurrent'
  BY <1>2, <1>3, <1>4 DEF ModifiersCurrent
<1>8. ModifiersHeld' /\ OverlapsKnown'
  BY <1>2 DEF KeyboardInv, ModifiersHeld, OverlapsKnown, ToSet
<1> QED
  BY <1>1, <1>2, <1>3, <1>6, <1>7, <1>8 DEF KeyboardInv

LEMMA SendKeyHolds ==
    ASSUME KeyboardInv, SendKey
    PROVE  KeyboardInv'
<1>1. PICK name \in Names, fails \in BOOLEAN :
        LET key == IF name \in KeyNames THEN Lower[name] ELSE name IN
        IF Symbol[key] # "none" THEN Type(<<key>>, fails)
        ELSE NothingTyped /\ UNCHANGED <<ownVars, broken, overlapped, srv_map, srv_mods>>
  BY DEF SendKey
<1> DEFINE key == IF name \in KeyNames THEN Lower[name] ELSE name
<1>2. key \in Names
  BY NamesAssumption DEF Names
<1>3. CASE Type(<<key>>, fails)
  <2>1. <<key>> \in Seq(Names)
    BY <1>2
  <2> QED
    BY <1>3, <2>1, TypeHolds
<1>4. CASE NothingTyped /\ UNCHANGED <<ownVars, broken, overlapped, srv_map, srv_mods>>
  <2> USE <1>4 DEF NothingTyped, ownVars
  <2>1. DOMAIN asked' = {} /\ asked' \in Seq(Names)
    OBVIOUS
  <2>2. TypedAsAsked'
    BY <2>1 DEF KeyboardInv, TypedAsAsked, KeyboardTypeOK
  <2>3. KeymapCurrent' /\ OverlapsKnown' /\ ModifiersCurrent' /\ ModifiersHeld'
    BY DEF KeyboardInv, KeymapCurrent, OverlapsKnown, ModifiersCurrent, ModifiersHeld
  <2> QED
    BY <2>2, <2>3 DEF KeyboardInv
<1> QED
  BY <1>1, <1>3, <1>4

LEMMA EnterHolds ==
    ASSUME KeyboardInv, NEW ms \in Combos, NEW fails \in BOOLEAN, EnterBlock(ms, fails)
    PROVE  KeyboardInv'
<1>1. CASE changed /\ fails
  <2> USE <1>1 DEF EnterBlock, ownVars
  <2>1. TypedAsAsked'
    BY DEF KeyboardInv, TypedAsAsked, KeyboardTypeOK
  <2>2. KeysNumbered(map)' /\ KeymapCurrent' /\ OverlapsKnown' /\ ModifiersCurrent' /\ ModifiersHeld'
    BY DEF KeyboardInv, KeysNumbered, KeymapCurrent, OverlapsKnown, ModifiersCurrent, ModifiersHeld
  <2> QED
    BY <2>1, <2>2 DEF KeyboardInv
<1>2. CASE ~(changed /\ fails)
  <2>1. /\ modifiers' = modifiers \cup ms
        /\ blocks' = Append(blocks, ms)
        /\ overlapped' = overlapped \cup (ms \cap UNION ToSet(blocks))
        /\ changed' = FALSE
        /\ srv_map' = IF changed THEN Serialize(map) ELSE srv_map
        /\ srv_mods' = ModifiersOf(modifiers \cup ms)
        /\ refused' = (refused \/ srv_map' = NoKeymap)
        /\ UNCHANGED <<map, broken, asked, typed>>
    BY <1>2 DEF EnterBlock
  <2>2. KeyboardTypeOK /\ blocks \in Seq(Combos)
    BY DEF KeyboardInv, TypedAsAsked, KeyboardTypeOK
  <2>3. /\ blocks' \in Seq(Combos) /\ Len(blocks) \in Nat
        /\ DOMAIN blocks = 1..Len(blocks) /\ DOMAIN blocks' = 1..(Len(blocks) + 1)
        /\ \A i \in DOMAIN blocks : blocks'[i] = blocks[i]
        /\ blocks'[Len(blocks) + 1] = ms
    BY <2>1, <2>2, AppendProperties, LenProperties
  <2>4. ToSet(blocks') = ToSet(blocks) \cup {ms}
    BY <2>3 DEF ToSet
  <2>5. ms \subseteq Mods
    BY DEF Mods
  <2>6. modifiers' \subseteq Mods /\ overlapped' \subseteq Mods
    BY <2>1, <2>2, <2>5 DEF KeyboardTypeOK
  <2>7. srv_map' = Serialize(map)
    BY <2>1 DEF KeyboardInv, KeymapCurrent
  <2>8. refused' = FALSE
    BY <2>1, <2>7, SerializedRight DEF KeyboardInv, ModifiersCurrent
  <2>9. TypedAsAsked'
    <3>1. KeyboardTypeOK'
      BY <2>1, <2>2, <2>3, <2>6, <2>8, ModifiersTold DEF KeyboardTypeOK
    <3> QED
      BY <2>1, <3>1 DEF TypedAsAsked, KeyboardInv
  <2>10. ModifiersCurrent'
    BY <2>1, <2>8, ModifiersTold DEF ModifiersCurrent
  <2>11. ModifiersHeld'
    BY <2>1, <2>4 DEF ModifiersHeld, KeyboardInv
  <2>12. OverlapsKnown'
    <3> SUFFICES ASSUME NEW i \in DOMAIN blocks', NEW j \in DOMAIN blocks', i # j
                 PROVE  blocks'[i] \cap blocks'[j] \subseteq overlapped'
      BY DEF OverlapsKnown
    <3>1. CASE i \in DOMAIN blocks /\ j \in DOMAIN blocks
      BY <2>1, <2>3, <3>1 DEF OverlapsKnown, KeyboardInv
    <3>2. CASE i \in DOMAIN blocks /\ j = Len(blocks) + 1
      BY <2>1, <2>3, <3>2 DEF ToSet
    <3>3. CASE i = Len(blocks) + 1 /\ j \in DOMAIN blocks
      BY <2>1, <2>3, <3>3 DEF ToSet
    <3> QED
      BY <2>3, <3>1, <3>2, <3>3
  <2> QED
    BY <2>1, <2>7, <2>9, <2>10, <2>11, <2>12 DEF KeyboardInv, KeymapCurrent
<1> QED
  BY <1>1, <1>2

\* The innermost block ends.
LEMMA BlockEnds ==
    ASSUME KeyboardTypeOK, blocks # <<>>, blocks' = Front(blocks), OverlapsKnown, UNCHANGED overlapped
    PROVE  /\ blocks' \in Seq(Combos)
           /\ UNION ToSet(blocks) = (UNION ToSet(blocks')) \cup Last(blocks)
           /\ Last(blocks) \subseteq Mods
           /\ (UNION ToSet(blocks')) \cap Last(blocks) \subseteq overlapped
           /\ OverlapsKnown'
<1>1. /\ blocks \in Seq(Combos) /\ Len(blocks) \in Nat /\ Len(blocks) # 0
      /\ DOMAIN blocks = 1..Len(blocks)
      /\ Last(blocks) = blocks[Len(blocks)]
      /\ blocks' = SubSeq(blocks, 1, Len(blocks) - 1)
  BY LenProperties, EmptySeq DEF KeyboardTypeOK, Last, Front
<1>2. /\ blocks' \in Seq(Combos)
      /\ DOMAIN blocks' = 1..(Len(blocks) - 1)
      /\ \A i \in DOMAIN blocks' : blocks'[i] = blocks[i]
  BY <1>1, SubSeqProperties
<1>3. UNION ToSet(blocks) = (UNION ToSet(blocks')) \cup Last(blocks)
  <2>1. DOMAIN blocks = DOMAIN blocks' \cup {Len(blocks)}
    BY <1>1, <1>2
  <2>2. ToSet(blocks) = ToSet(blocks') \cup {Last(blocks)}
    BY <1>1, <1>2, <2>1 DEF ToSet
  <2> QED
    BY <2>2
<1>4. Last(blocks) \subseteq Mods
  BY <1>1, ElementOfSeq DEF Mods
<1>5. \A i \in DOMAIN blocks' : blocks'[i] \cap Last(blocks) \subseteq overlapped
  <2> SUFFICES ASSUME NEW i \in DOMAIN blocks'
               PROVE  blocks'[i] \cap Last(blocks) \subseteq overlapped
    OBVIOUS
  <2>1. i \in DOMAIN blocks /\ Len(blocks) \in DOMAIN blocks /\ i # Len(blocks)
    BY <1>1, <1>2
  <2> QED
    BY <1>1, <1>2, <2>1 DEF OverlapsKnown
<1>6. (UNION ToSet(blocks')) \cap Last(blocks) \subseteq overlapped
  BY <1>5 DEF ToSet
<1>7. OverlapsKnown'
  BY <1>1, <1>2 DEF OverlapsKnown
<1> QED
  BY <1>2, <1>3, <1>4, <1>6, <1>7

LEMMA LeaveHolds ==
    ASSUME KeyboardInv, LeaveBlock
    PROVE  KeyboardInv'
<1>1. /\ blocks # <<>> /\ blocks' = Front(blocks)
      /\ modifiers' = modifiers \ Last(blocks)
      /\ srv_mods' = ModifiersOf(modifiers \ Last(blocks))
      /\ UNCHANGED <<map, changed, broken, overlapped, asked, typed, srv_map, refused>>
  BY DEF LeaveBlock
<1>2. KeyboardTypeOK /\ OverlapsKnown /\ ModifiersHeld
  BY DEF KeyboardInv, TypedAsAsked
<1>3. /\ blocks' \in Seq(Combos)
      /\ UNION ToSet(blocks) = (UNION ToSet(blocks')) \cup Last(blocks)
      /\ (UNION ToSet(blocks')) \cap Last(blocks) \subseteq overlapped
      /\ OverlapsKnown'
  BY <1>1, <1>2, BlockEnds
<1>4. KeyboardTypeOK'
  BY <1>1, <1>2, <1>3, ModifiersTold DEF KeyboardTypeOK
<1>5. TypedAsAsked'
  BY <1>1, <1>4 DEF TypedAsAsked, KeyboardInv
<1>6. ModifiersCurrent'
  BY <1>1, ModifiersTold DEF ModifiersCurrent, KeyboardInv
<1>7. ModifiersHeld'
  <2> DEFINE inside == UNION ToSet(blocks')
  <2>1. /\ (inside \cup Last(blocks)) \ overlapped \subseteq modifiers
        /\ modifiers \subseteq inside \cup Last(blocks) \cup broken
        /\ inside \cap Last(blocks) \subseteq overlapped
    BY <1>2, <1>3 DEF ModifiersHeld
  <2> HIDE DEF inside
  <2>2. /\ inside \ overlapped \subseteq modifiers \ Last(blocks)
        /\ modifiers \ Last(blocks) \subseteq inside \cup broken
    BY <2>1
  <2> QED
    BY <1>1, <2>2 DEF ModifiersHeld, inside
<1> QED
  BY <1>1, <1>3, <1>5, <1>6, <1>7 DEF KeyboardInv, KeymapCurrent

LEMMA RaiseHolds ==
    ASSUME KeyboardInv, RaiseFromBlock
    PROVE  KeyboardInv'
<1>1. /\ blocks # <<>> /\ blocks' = Front(blocks)
      /\ broken' = broken \cup Last(blocks)
      /\ UNCHANGED <<map, changed, modifiers, overlapped, asked, typed, srv_map, srv_mods, refused>>
  BY DEF RaiseFromBlock
<1>2. KeyboardTypeOK /\ OverlapsKnown /\ ModifiersHeld
  BY DEF KeyboardInv, TypedAsAsked
<1>3. /\ blocks' \in Seq(Combos)
      /\ UNION ToSet(blocks) = (UNION ToSet(blocks')) \cup Last(blocks)
      /\ Last(blocks) \subseteq Mods
      /\ OverlapsKnown'
  BY <1>1, <1>2, BlockEnds
<1>4. KeyboardTypeOK'
  BY <1>1, <1>2, <1>3 DEF KeyboardTypeOK
<1>5. TypedAsAsked'
  BY <1>1, <1>4 DEF TypedAsAsked, KeyboardInv
<1>6. ModifiersCurrent'
  BY <1>1 DEF ModifiersCurrent, KeyboardInv
<1>7. ModifiersHeld'
  <2> DEFINE inside == UNION ToSet(blocks')
  <2>1. /\ (inside \cup Last(blocks)) \ overlapped \subseteq modifiers
        /\ modifiers \subseteq inside \cup Last(blocks) \cup broken
    BY <1>2, <1>3 DEF ModifiersHeld
  <2> HIDE DEF inside
  <2>2. /\ inside \ overlapped \subseteq modifiers
        /\ modifiers \subseteq inside \cup (broken \cup Last(blocks))
    BY <2>1
  <2> QED
    BY <1>1, <2>2 DEF ModifiersHeld, inside
<1> QED
  BY <1>1, <1>3, <1>5, <1>6, <1>7 DEF KeyboardInv, KeymapCurrent

-----------------------------------------------------------------------------
\* The numbers of the key map, the key map of the compositor and the modifiers of
\* nested blocks are as they should be, whatever fails in between.
THEOREM KeyboardAccounted == KeyboardSpec => []KeyboardInv
<1>1. KeyboardInv /\ [KeyboardNext]_keyboardVars => KeyboardInv'
  <2> SUFFICES ASSUME KeyboardInv, [KeyboardNext]_keyboardVars PROVE KeyboardInv'
    OBVIOUS
  <2>1. CASE Write
    <3>1. PICK text \in Texts, fails \in BOOLEAN : Type(text, fails)
      BY <2>1 DEF Write
    <3>2. text \in Seq(Names)
      BY NamesAssumption, SeqMonotonic DEF Names
    <3> QED
      BY <3>1, <3>2, TypeHolds
  <2>2. CASE SendKey
    BY <2>2, SendKeyHolds
  <2>3. CASE \E ms \in Combos, fails \in BOOLEAN : EnterBlock(ms, fails)
    BY <2>3, EnterHolds
  <2>4. CASE LeaveBlock
    BY <2>4, LeaveHolds
  <2>5. CASE RaiseFromBlock
    BY <2>5, RaiseHolds
  <2>6. CASE UNCHANGED keyboardVars
    <3> USE <2>6 DEF keyboardVars, ownVars
    <3>1. TypedAsAsked'
      BY DEF KeyboardInv, TypedAsAsked, KeyboardTypeOK
    <3>2. KeysNumbered(map)' /\ KeymapCurrent' /\ OverlapsKnown' /\ ModifiersCurrent' /\ ModifiersHeld'
      BY DEF KeyboardInv, KeysNumbered, KeymapCurrent, OverlapsKnown, ModifiersCurrent, ModifiersHeld
    <3> QED
      BY <3>1, <3>2 DEF KeyboardInv
  <2> QED
    BY <2>1, <2>2, <2>3, <2>4, <2>5, <2>6 DEF KeyboardNext
<1> QED
  BY <1>1, KeyboardInvInit, PTL DEF KeyboardSpec

\* Each character or key that is sent is typed as its symbol, after a key map that
\* could not be sent as well (VirtualKeyboard.write, send_key).
THEOREM TypesAsAsked == KeyboardSpec => []TypedAsAsked
<1>1. KeyboardInv => TypedAsAsked
  BY DEF KeyboardInv
<1> QED
  BY <1>1, KeyboardAccounted, PTL

\* The compositor has the keyboard's modifiers at all times, and is sent neither
\* them nor a key before the first key map.
THEOREM ModifiersAreCurrent == KeyboardSpec => []ModifiersCurrent
<1>1. KeyboardInv => ModifiersCurrent
  BY DEF KeyboardInv
<1> QED
  BY <1>1, KeyboardAccounted, PTL

\* Blocks keep their modifiers until they end, for any nesting and any exceptions.
THEOREM BlocksHoldModifiers == KeyboardSpec => []ModifiersHeld
<1>1. KeyboardInv => ModifiersHeld
  BY DEF KeyboardInv
<1> QED
  BY <1>1, KeyboardAccounted, PTL
==============================================================================
