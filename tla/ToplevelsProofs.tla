-------------------------- MODULE ToplevelsProofs ---------------------------
(***************************************************************************)
(* Windows, and the two programs that show them or send requests to them.  *)
(* ToplevelsInv reads the state of the client together with the events on  *)
(* their way: what the first k - 1 of them make known (Known) and say      *)
(* (Heard) is what the k-th finds, and after all of them (End) the client  *)
(* has what the compositor has.  PanelInv adds what the buttons owe to the *)
(* done event that is still to be read, WlctrlInv the four steps of a run  *)
(* of wlctrl with what is known at each of them.                           *)
(***************************************************************************)
EXTENDS Panel, Wlctrl, SequenceTheorems, FiniteSetTheorems, FunctionTheorems,
        WellFoundedInduction, TLAPS

\* The events there are.
Message ==
    [ev : {"toplevel", "done", "closed"}, obj : TopLevel]
        \cup [ev : {"title"}, obj : TopLevel, title : Titles]
        \cup [ev : {"state"}, obj : TopLevel, activated : BOOLEAN]
        \cup [ev : {"callback"}, callback : {"info_done", "quit"}]

\* Title and state are the two aspects of a window that events tell of.
Aspects == {"title", "state"}
OnOff(b) == IF b THEN "on" ELSE "off"

Creates(e, o) == e.ev = "toplevel" /\ e.obj = o
About(e, o) == e.ev \in {"title", "state", "done", "closed"} /\ e.obj = o
Closes(e, o) == e.ev = "closed" /\ e.obj = o
Completes(e, o) == e.ev = "done" /\ e.obj = o
Tells(e, a, o) == e.ev = a /\ e.obj = o
Told(e) == IF e.ev = "title" THEN e.title ELSE OnOff(e.activated)
Destroys(r, o) == r.op = "destroy" /\ r.meant = o

\* What the client has, and what the compositor has.
Read(a, o) == IF a = "title" THEN title[o] ELSE OnOff(o \in states)
Actual(a, o) == IF a = "title" THEN names[o.win] ELSE OnOff(o.win \in focus)

\* What the first k - 1 events make of an object.
Born(o, k) == \E j \in DOMAIN events : j < k /\ Creates(events[j], o)
Gone(o, k) == \E j \in DOMAIN events : j < k /\ Closes(events[j], o)
Known(o, k) == (o \in handlers \/ Born(o, k)) /\ ~Gone(o, k)
Silent(a, o, i, k) == \A j \in DOMAIN events : i < j /\ j < k => ~Tells(events[j], a, o)
Heard(a, o, v, k) ==
    \/ \E j \in DOMAIN events : j < k /\ Tells(events[j], a, o) /\ Told(events[j]) = v /\ Silent(a, o, j, k)
    \/ Read(a, o) = v /\ Silent(a, o, 0, k)
End == Len(events) + 1
DestroyAsked(o) == \E k \in DOMAIN requests : Destroys(requests[k], o)

-----------------------------------------------------------------------------
TypesOK ==
    /\ LibTypeOK
    /\ events \in Seq(Message)
    /\ bound \in BOOLEAN /\ Len(names) <= MaxWindows
    /\ unsynced \subseteq open

\* The compositor's objects are told apart by their ids, and by their windows.
Apart ==
    /\ \A r, s \in resources : r.id = s.id \/ r.win = s.win => r = s
    /\ \A r \in resources : r.win \in DOMAIN names

\* One window at most is active.
OneFocus == \A v, w \in focus : v = w

\* The table of windows has the objects with handlers, which the compositor has too.
TablesMatch ==
    /\ handlers \subseteq resources
    /\ \A h \in handlers : h.id \in DOMAIN windows /\ windows[h.id] = h
    /\ \A id \in DOMAIN windows : windows[id] \in handlers /\ windows[id].id = id
    /\ raised \cap {"installed", "not in windows"} = {}

\* Nothing happens before the bind is read, and it is the first request.
BoundFirst ==
    /\ \A k \in DOMAIN requests : requests[k].op = "bind" <=> k = 1 /\ ~bound
    /\ ~bound => resources = {} /\ events = <<>> /\ requests # <<>>

\* A new object is unknown, and its details follow its announcement.
Announced ==
    \A k \in DOMAIN events : \A o \in TopLevel : Creates(events[k], o) =>
        /\ o \in resources \ handlers
        /\ \A j \in DOMAIN events : Creates(events[j], o) => j = k
        /\ k + 3 \in DOMAIN events
        /\ Tells(events[k + 1], "title", o) /\ Tells(events[k + 2], "state", o)
        /\ Completes(events[k + 3], o)

\* An event finds its object, which has not been closed before.
EventsFind ==
    \A k \in DOMAIN events : \A o \in TopLevel : About(events[k], o) => Known(o, k)

\* When all events are read the objects of the open windows are known, and those of
\* the others are being destroyed.
TruthFollows ==
    \A o \in TopLevel :
        /\ Known(o, End) <=> o \in resources /\ o.win \in open
        /\ o \in resources => Known(o, End) \/ Gone(o, End) \/ DestroyAsked(o)

\* By then they have what the compositor has.
DetailsFollow ==
    \A o \in resources : o.win \in open => \A a \in Aspects : Heard(a, o, Actual(a, o), End)

\* An object is destroyed once, when it is not known any more; a request names the
\* object that it means.
DestroysFind ==
    \A k \in DOMAIN requests : requests[k].op \in Ops \cup {"destroy"} =>
        LET o == requests[k].meant IN
        /\ requests[k].id = o.id
        /\ requests[k].op = "destroy" =>
             /\ o \in resources \ handlers /\ ~Born(o, End)
             /\ \A j \in DOMAIN requests : Destroys(requests[j], o) => j = k

ToplevelsInv ==
    /\ TypesOK
    /\ Apart /\ OneFocus
    /\ TablesMatch
    /\ BoundFirst
    /\ Announced /\ EventsFind
    /\ TruthFollows /\ DetailsFollow
    /\ DestroysFind

\* Every open window has its object once the client is told of them.
Complete == bound => \A w \in open : \E r \in resources : r.win = w

\* Requests on windows find their object, but for those on the windows in except.
CommandsFind(except) ==
    /\ \A k \in DOMAIN requests : requests[k].op \in Ops /\ requests[k].meant \notin except =>
         LET o == requests[k].meant IN
         o \in resources /\ \A j \in DOMAIN requests : j < k => ~Destroys(requests[j], o)
    /\ rejected => except # {}
    /\ \A s \in served : s.on = s.meant.win \/ s.meant \in except

-----------------------------------------------------------------------------
\* What the types say of an event, of an object and of a request.
LEMMA MessageFields ==
    ASSUME NEW e \in Message
    PROVE  /\ e.ev \in {"toplevel", "title", "state", "done", "closed", "callback"}
           /\ e.ev # "callback" => e.obj \in TopLevel
           /\ e.ev = "title" => e.title \in Titles
           /\ e.ev = "state" => e.activated \in BOOLEAN
           /\ e.ev = "callback" => e.callback \in {"info_done", "quit"}
BY DEF Message

LEMMA ObjectFields ==
    ASSUME NEW o \in TopLevel
    PROVE  o.id \in Ids /\ o.win \in Wins /\ o = [id |-> o.id, win |-> o.win]
BY DEF TopLevel

LEMMA RequestFields ==
    ASSUME NEW r \in Request
    PROVE  /\ r.op \in {"bind", "sync", "destroy"} \cup Ops
           /\ r.op \in Ops \cup {"destroy"} => r.id \in Ids /\ r.meant \in TopLevel
           /\ r.op = "sync" => r.callback \in {"info_done", "quit"}
BY DEF Request, Ops

\* The events after the first is taken.
Popped == events # <<>> /\ events' = Tail(events)

LEMMA EventsPopped ==
    ASSUME TypesOK, Popped
    PROVE  /\ events' \in Seq(Message)
           /\ Len(events) \in Nat \ {0} /\ Len(events') = Len(events) - 1
           /\ 1 \in DOMAIN events /\ Head(events) = events[1]
           /\ DOMAIN events = 1..Len(events) /\ DOMAIN events' = 1..Len(events')
           /\ \A k \in DOMAIN events' : k + 1 \in DOMAIN events /\ events'[k] = events[k + 1]
           /\ \A k \in DOMAIN events : k # 1 => k - 1 \in DOMAIN events' /\ events[k] = events'[k - 1]
           /\ \A k \in DOMAIN events : events[k] \in Message
<1>1. events \in Seq(Message)
  BY DEF TypesOK
<1>2. /\ events' \in Seq(Message) /\ Len(events') = Len(events) - 1
      /\ \A k \in 1..Len(events') : events'[k] = events[k + 1]
  BY <1>1, HeadTailProperties DEF Popped
<1>3. Len(events) \in Nat \ {0}
  BY <1>1, EmptySeq, LenProperties DEF Popped
<1>4. DOMAIN events = 1..Len(events) /\ DOMAIN events' = 1..Len(events')
  BY <1>1, <1>2, LenProperties
<1>5. Head(events) = events[1]
  BY <1>1 DEF Popped
<1>6. \A k \in DOMAIN events : events[k] \in Message
  BY <1>1, ElementOfSeq, <1>4
<1> QED
  BY <1>2, <1>3, <1>4, <1>5, <1>6

\* What is there before the k-th event is not changed by taking the first, if that
\* one is accounted for.
LEMMA PastPopped ==
    ASSUME TypesOK, Popped, NEW o \in TopLevel, NEW k \in Nat \ {0}
    PROVE  /\ Born(o, k + 1) <=> Creates(events[1], o) \/ Born(o, k)'
           /\ Gone(o, k + 1) <=> Closes(events[1], o) \/ Gone(o, k)'
<1> USE EventsPopped
<1>1. ASSUME Creates(events[1], o) PROVE Born(o, k + 1)
  BY <1>1 DEF Born
<1>2. ASSUME Born(o, k)' PROVE Born(o, k + 1)
  <2>1. PICK j \in DOMAIN events' : j < k /\ Creates(events'[j], o)
    BY <1>2 DEF Born, Creates
  <2>2. j + 1 \in DOMAIN events /\ j + 1 < k + 1 /\ Creates(events[j + 1], o)
    BY <2>1
  <2> QED
    BY <2>2 DEF Born
<1>3. ASSUME Born(o, k + 1) PROVE Creates(events[1], o) \/ Born(o, k)'
  <2>1. PICK j \in DOMAIN events : j < k + 1 /\ Creates(events[j], o)
    BY <1>3 DEF Born
  <2>2. CASE j # 1
    <3>1. j - 1 \in DOMAIN events' /\ j - 1 < k /\ Creates(events'[j - 1], o)
      BY <2>1, <2>2
    <3> QED
      BY <3>1 DEF Born, Creates
  <2> QED
    BY <2>1, <2>2
<1>4. ASSUME Closes(events[1], o) PROVE Gone(o, k + 1)
  BY <1>4 DEF Gone
<1>5. ASSUME Gone(o, k)' PROVE Gone(o, k + 1)
  <2>1. PICK j \in DOMAIN events' : j < k /\ Closes(events'[j], o)
    BY <1>5 DEF Gone, Closes
  <2>2. j + 1 \in DOMAIN events /\ j + 1 < k + 1 /\ Closes(events[j + 1], o)
    BY <2>1
  <2> QED
    BY <2>2 DEF Gone
<1>6. ASSUME Gone(o, k + 1) PROVE Closes(events[1], o) \/ Gone(o, k)'
  <2>1. PICK j \in DOMAIN events : j < k + 1 /\ Closes(events[j], o)
    BY <1>6 DEF Gone
  <2>2. CASE j # 1
    <3>1. j - 1 \in DOMAIN events' /\ j - 1 < k /\ Closes(events'[j - 1], o)
      BY <2>1, <2>2
    <3> QED
      BY <3>1 DEF Gone, Closes
  <2> QED
    BY <2>1, <2>2
<1> QED
  BY <1>1, <1>2, <1>3, <1>4, <1>5, <1>6

LEMMA SilentPopped ==
    ASSUME TypesOK, Popped, NEW o \in TopLevel, NEW a \in Aspects, NEW i \in Nat, NEW k \in Nat
    PROVE  Silent(a, o, i, k)' <=> Silent(a, o, i + 1, k + 1)
<1> USE EventsPopped
<1>1. ASSUME Silent(a, o, i, k)', NEW j \in DOMAIN events, i + 1 < j, j < k + 1
      PROVE  ~Tells(events[j], a, o)
  <2>1. j - 1 \in DOMAIN events' /\ i < j - 1 /\ j - 1 < k /\ events[j] = events'[j - 1]
    BY <1>1
  <2> QED
    BY <1>1, <2>1 DEF Silent, Tells
<1>2. ASSUME Silent(a, o, i + 1, k + 1), NEW j \in DOMAIN events', i < j, j < k
      PROVE  ~Tells(events'[j], a, o)
  <2>1. j + 1 \in DOMAIN events /\ i + 1 < j + 1 /\ j + 1 < k + 1 /\ events'[j] = events[j + 1]
    BY <1>2
  <2> QED
    BY <1>2, <2>1 DEF Silent
<1>3. Silent(a, o, i, k)' <=> \A j \in DOMAIN events' : i < j /\ j < k => ~Tells(events'[j], a, o)
  BY DEF Silent, Tells
<1> QED
  BY <1>1, <1>2, <1>3 DEF Silent

\* The program takes the first event.  What is appended to requests does not matter
\* here, but for the destroy when a window was closed.
Taking(s) ==
    LET e == events[1] IN
    /\ Popped
    /\ UNCHANGED serverVars
    /\ LibTypeOK'
    /\ \A o \in TopLevel : o \in handlers' <=> (o \in handlers \/ Creates(e, o)) /\ ~Closes(e, o)
    /\ \A o \in TopLevel, a \in Aspects :
         /\ Tells(e, a, o) => Read(a, o)' = Told(e)
         /\ ~Tells(e, a, o) /\ ~Creates(e, o) => Read(a, o)' = Read(a, o)
    /\ s \in Seq(Request) /\ requests' = requests \o s
    /\ \A k \in DOMAIN s : s[k].op # "bind" /\ (s[k].op # "sync" => s[k].id = s[k].meant.id)
    /\ IF e.ev = "closed" THEN s = <<Command("destroy", e.obj)>>
       ELSE \A k \in DOMAIN s : s[k].op # "destroy"

LEMMA TypesTaken ==
    ASSUME TypesOK, NEW s, Taking(s)
    PROVE  TypesOK'
<1>1. events' \in Seq(Message)
  BY EventsPopped DEF Taking
<1>2. UNCHANGED <<bound, names, unsynced, open>> /\ LibTypeOK'
  BY DEF Taking, serverVars
<1> QED
  BY <1>1, <1>2 DEF TypesOK

LEMMA KnownTaken ==
    ASSUME TypesOK, Announced, EventsFind, NEW s, Taking(s), NEW o \in TopLevel, NEW k \in Nat \ {0}
    PROVE  Known(o, k)' <=> Known(o, k + 1)
<1>0. Popped
  BY DEF Taking
<1> USE <1>0, EventsPopped
<1>1. /\ Born(o, k + 1) <=> Creates(events[1], o) \/ Born(o, k)'
      /\ Gone(o, k + 1) <=> Closes(events[1], o) \/ Gone(o, k)'
  BY PastPopped
<1>2. o \in handlers' <=> (o \in handlers \/ Creates(events[1], o)) /\ ~Closes(events[1], o)
  BY DEF Taking
<1>3. ASSUME Closes(events[1], o) PROVE ~Born(o, k)'
  <2>1. Known(o, 1) /\ ~Born(o, 1)
    BY <1>3 DEF EventsFind, Closes, About, Born
  <2>2. o \in handlers
    BY <2>1 DEF Known
  <2>3. \A j \in DOMAIN events : ~Creates(events[j], o)
    BY <2>2 DEF Announced
  <2> QED
    BY <2>3 DEF Born, Creates
<1> QED
  BY <1>1, <1>2, <1>3 DEF Known

\* The last that was told of an aspect stays the last.
LEMMA HeardTaken ==
    ASSUME TypesOK, NEW s, Taking(s), NEW o \in TopLevel, NEW a \in Aspects, NEW v,
           NEW k \in Nat \ {0}, Heard(a, o, v, k + 1),
           Creates(events[1], o) => \E j \in DOMAIN events : j < k + 1 /\ Tells(events[j], a, o)
    PROVE  Heard(a, o, v, k)'
<1>0. Popped
  BY DEF Taking
<1> USE <1>0, EventsPopped
<1>1. ASSUME NEW j \in DOMAIN events, j < k + 1, Tells(events[j], a, o), Told(events[j]) = v,
             Silent(a, o, j, k + 1), j # 1
      PROVE  Heard(a, o, v, k)'
  <2>1. j - 1 \in DOMAIN events' /\ j - 1 < k /\ events'[j - 1] = events[j] /\ j - 1 \in Nat
    BY <1>1
  <2>2. Silent(a, o, j - 1, k)'
    BY <1>1, <2>1, SilentPopped, (j - 1) + 1 = j
  <2> QED
    BY <1>1, <2>1, <2>2 DEF Heard, Tells, Told, OnOff
<1>2. ASSUME Tells(events[1], a, o), Told(events[1]) = v, Silent(a, o, 1, k + 1)
      PROVE  Heard(a, o, v, k)'
  <2>1. Read(a, o)' = v
    BY <1>2 DEF Taking
  <2>2. Silent(a, o, 0, k)'
    BY <1>2, SilentPopped, 0 + 1 = 1
  <2> QED
    BY <2>1, <2>2 DEF Heard
<1>3. ASSUME Read(a, o) = v, Silent(a, o, 0, k + 1)
      PROVE  Heard(a, o, v, k)'
  <2>1. \A j \in DOMAIN events : j < k + 1 => ~Tells(events[j], a, o)
    BY <1>3 DEF Silent
  <2>2. ~Tells(events[1], a, o) /\ ~Creates(events[1], o)
    BY <2>1
  <2>3. Read(a, o)' = v
    BY <1>3, <2>2 DEF Taking
  <2>4. Silent(a, o, 1, k + 1)
    BY <1>3 DEF Silent
  <2>5. Silent(a, o, 0, k)'
    BY <2>4, SilentPopped, 0 + 1 = 1
  <2> QED
    BY <2>3, <2>5 DEF Heard
<1> QED
  BY <1>1, <1>2, <1>3 DEF Heard

\* Once an object is announced its details come before anything else.
LEMMA DetailsFirst ==
    ASSUME TypesOK, Popped, Announced, NEW o \in TopLevel, Creates(events[1], o), NEW a \in Aspects,
           NEW k \in Nat \ {0}, k + 1 = End \/ (k + 1 \in DOMAIN events /\ events[k + 1].ev \notin Aspects)
    PROVE  \E j \in DOMAIN events : j < k + 1 /\ Tells(events[j], a, o)
<1> USE EventsPopped
<1>0. 1 \in DOMAIN events
  BY EventsPopped
<1>1. 4 \in DOMAIN events /\ Tells(events[2], "title", o) /\ Tells(events[3], "state", o)
  <2>1. /\ 1 + 3 \in DOMAIN events
        /\ Tells(events[1 + 1], "title", o) /\ Tells(events[1 + 2], "state", o)
    BY <1>0 DEF Announced
  <2> QED
    BY <2>1, 1 + 3 = 4, 1 + 2 = 3, 1 + 1 = 2
<1>2. k + 1 > 3
  <2>1. CASE k + 1 = End
    BY <1>1, <2>1 DEF End
  <2>2. CASE k + 1 \in DOMAIN events /\ events[k + 1].ev \notin Aspects
    <3>1. k + 1 # 2 /\ k + 1 # 3
      BY <1>1, <2>2 DEF Tells, Aspects
    <3> QED
      BY <3>1
  <2> QED
    BY <2>1, <2>2
<1>3. 2 \in DOMAIN events /\ 3 \in DOMAIN events /\ 2 < k + 1 /\ 3 < k + 1
  BY <1>1, <1>2
<1>4. CASE a = "title"
  BY <1>1, <1>3, <1>4
<1>5. CASE a = "state"
  BY <1>1, <1>3, <1>5
<1> QED
  BY <1>4, <1>5 DEF Aspects

\* Where the stream ends is a number.
LEMMA AtEnd ==
    ASSUME TypesOK
    PROVE  \E n \in Nat \ {0} :
             /\ n = End
             /\ \A o : /\ Known(o, n) <=> Known(o, End)
                       /\ Gone(o, n) <=> Gone(o, End)
                       /\ Born(o, n) <=> Born(o, End)
             /\ \A a, o, v : Heard(a, o, v, n) <=> Heard(a, o, v, End)
<1>1. Len(events) \in Nat
  BY LenProperties DEF TypesOK
<1>2. PICK n \in Nat \ {0} : n = End
  BY <1>1 DEF End
<1> QED
  BY <1>2

LEMMA NextEnd ==
    ASSUME TypesOK'
    PROVE  \E n \in Nat \ {0} :
             /\ n = End'
             /\ \A o : /\ Known(o, n)' <=> Known(o, End)'
                       /\ Gone(o, n)' <=> Gone(o, End)'
                       /\ Born(o, n)' <=> Born(o, End)'
             /\ \A a, o, v : Heard(a, o, v, n)' <=> Heard(a, o, v, End)'
<1>1. Len(events') \in Nat
  BY LenProperties DEF TypesOK
<1>2. PICK n \in Nat \ {0} : n = End'
  BY <1>1 DEF End
<1>3. \A o : /\ Gone(o, n)' <=> Gone(o, End)'
             /\ Born(o, n)' <=> Born(o, End)'
  BY <1>2 DEF Gone, Born
<1>4. \A o : Known(o, n)' <=> Known(o, End)'
  BY <1>3 DEF Known
<1>5. \A a, o, v : Heard(a, o, v, n)' <=> Heard(a, o, v, End)'
  <2>1. \A a, o, j : Silent(a, o, j, n)' <=> Silent(a, o, j, End)'
    BY <1>2 DEF Silent
  <2> SUFFICES ASSUME NEW a, NEW o, NEW v PROVE Heard(a, o, v, n)' <=> Heard(a, o, v, End)'
    OBVIOUS
  <2>2. Heard(a, o, v, n)' <=>
          \/ \E j \in DOMAIN events' : j < n /\ Tells(events'[j], a, o) /\ Told(events'[j]) = v /\ Silent(a, o, j, n)'
          \/ Read(a, o)' = v /\ Silent(a, o, 0, n)'
    BY DEF Heard, Silent, Tells, Told, OnOff
  <2>3. Heard(a, o, v, End)' <=>
          \/ \E j \in DOMAIN events' : j < End' /\ Tells(events'[j], a, o) /\ Told(events'[j]) = v /\ Silent(a, o, j, End)'
          \/ Read(a, o)' = v /\ Silent(a, o, 0, End)'
    BY DEF Heard, Silent, Tells, Told, OnOff
  <2> QED
    BY <1>2, <2>1, <2>2, <2>3
<1> QED
  BY <1>2, <1>3, <1>4, <1>5

LEMMA Joined ==
    ASSUME NEW S, NEW q \in Seq(S), NEW s \in Seq(S)
    PROVE  /\ q \o s \in Seq(S) /\ Len(q) \in Nat /\ Len(s) \in Nat /\ Len(q \o s) = Len(q) + Len(s)
           /\ DOMAIN q = 1..Len(q) /\ DOMAIN s = 1..Len(s) /\ DOMAIN (q \o s) = 1..(Len(q) + Len(s))
           /\ \A k \in DOMAIN q : q[k] \in S /\ (q \o s)[k] = q[k]
           /\ \A k \in DOMAIN s : s[k] \in S /\ (q \o s)[Len(q) + k] = s[k]
           /\ \A k \in DOMAIN (q \o s) : k \in DOMAIN q \/ (k - Len(q) \in DOMAIN s /\ (q \o s)[k] = s[k - Len(q)])
BY ConcatProperties, LenProperties, ElementOfSeq

\* How requests grow when the first event is taken.
LEMMA RequestsTaken ==
    ASSUME TypesOK, NEW s, Taking(s)
    PROVE  /\ DOMAIN requests \subseteq Nat
           /\ DOMAIN requests \subseteq DOMAIN requests' /\ \A k \in DOMAIN requests : requests'[k] = requests[k]
           /\ \A k \in DOMAIN requests' \ DOMAIN requests :
                \E i \in DOMAIN s : k = Len(requests) + i /\ requests'[k] = s[i]
           /\ \A i \in DOMAIN s : Len(requests) + i \in DOMAIN requests' \ DOMAIN requests
                                    /\ requests'[Len(requests) + i] = s[i]
           /\ Len(requests) \in Nat /\ DOMAIN requests = 1..Len(requests)
           /\ \A k \in DOMAIN requests : requests[k] \in Request
<1>1. requests \in Seq(Request) /\ s \in Seq(Request) /\ requests' = requests \o s
  BY DEF TypesOK, LibTypeOK, Taking
<1>2. /\ DOMAIN requests = 1..Len(requests) /\ DOMAIN s = 1..Len(s) /\ Len(requests) \in Nat /\ Len(s) \in Nat
      /\ DOMAIN requests' = 1..(Len(requests) + Len(s))
      /\ \A k \in DOMAIN requests : requests[k] \in Request /\ requests'[k] = requests[k]
      /\ \A k \in DOMAIN s : requests'[Len(requests) + k] = s[k]
      /\ \A k \in DOMAIN requests' :
           k \in DOMAIN requests \/ (k - Len(requests) \in DOMAIN s /\ requests'[k] = s[k - Len(requests)])
  BY <1>1, Joined
<1>3. \A k \in DOMAIN requests' \ DOMAIN requests :
        \E i \in DOMAIN s : k = Len(requests) + i /\ requests'[k] = s[i]
  <2> SUFFICES ASSUME NEW k \in DOMAIN requests' \ DOMAIN requests
               PROVE  \E i \in DOMAIN s : k = Len(requests) + i /\ requests'[k] = s[i]
    OBVIOUS
  <2>1. k - Len(requests) \in DOMAIN s /\ requests'[k] = s[k - Len(requests)] /\ k \in Nat
    BY <1>2
  <2>2. k = Len(requests) + (k - Len(requests))
    BY <2>1, <1>2
  <2> QED
    BY <2>1, <2>2
<1>4. \A i \in DOMAIN s : Len(requests) + i \in DOMAIN requests' \ DOMAIN requests
  BY <1>2
<1> QED
  BY <1>2, <1>3, <1>4

LEMMA AnnouncedTaken ==
    ASSUME TypesOK, Announced, NEW s, Taking(s)
    PROVE  Announced'
<1>0. Popped /\ resources' = resources
      /\ \A o \in TopLevel : o \in handlers' <=> (o \in handlers \/ Creates(events[1], o)) /\ ~Closes(events[1], o)
  BY DEF Taking, serverVars
<1>1. /\ DOMAIN events = 1..Len(events) /\ DOMAIN events' = 1..Len(events') /\ Len(events') = Len(events) - 1
      /\ Len(events) \in Nat /\ 1 \in DOMAIN events
      /\ \A k \in DOMAIN events' : k + 1 \in DOMAIN events /\ events'[k] = events[k + 1]
  BY <1>0, EventsPopped
<1> SUFFICES ASSUME NEW k \in DOMAIN events', NEW o \in TopLevel, Creates(events'[k], o)
             PROVE  /\ o \in resources' \ handlers'
                    /\ \A j \in DOMAIN events' : Creates(events'[j], o) => j = k
                    /\ k + 3 \in DOMAIN events'
                    /\ Tells(events'[k + 1], "title", o) /\ Tells(events'[k + 2], "state", o)
                    /\ Completes(events'[k + 3], o)
  BY DEF Announced, Creates, Tells, Completes
<1>2. k \in Nat \ {0} /\ k + 1 \in DOMAIN events /\ Creates(events[k + 1], o)
  BY <1>1
<1>3. /\ o \in resources \ handlers
      /\ \A j \in DOMAIN events : Creates(events[j], o) => j = k + 1
      /\ (k + 1) + 3 \in DOMAIN events
      /\ Tells(events[(k + 1) + 1], "title", o) /\ Tells(events[(k + 1) + 2], "state", o)
      /\ Completes(events[(k + 1) + 3], o)
  BY <1>2 DEF Announced
<1>4. ~Creates(events[1], o)
  BY <1>1, <1>2, <1>3
<1>5. \A j \in DOMAIN events' : Creates(events'[j], o) => j = k
  <2> SUFFICES ASSUME NEW j \in DOMAIN events', Creates(events'[j], o) PROVE j = k
    OBVIOUS
  <2>1. j + 1 = k + 1 /\ j \in Nat
    BY <1>1, <1>3
  <2> QED
    BY <2>1, <1>2
<1>6. k + 3 \in DOMAIN events' /\ k + 2 \in DOMAIN events' /\ k + 1 \in DOMAIN events'
  BY <1>1, <1>2, <1>3
<1>7. /\ events'[k + 1] = events[(k + 1) + 1] /\ events'[k + 2] = events[(k + 1) + 2]
      /\ events'[k + 3] = events[(k + 1) + 3]
  <2>1. events'[k + 1] = events[(k + 1) + 1]
    BY <1>1, <1>6
  <2>2. events'[k + 2] = events[(k + 2) + 1] /\ (k + 2) + 1 = (k + 1) + 2
    BY <1>1, <1>2, <1>6
  <2>3. events'[k + 3] = events[(k + 3) + 1] /\ (k + 3) + 1 = (k + 1) + 3
    BY <1>1, <1>2, <1>6
  <2> QED
    BY <2>1, <2>2, <2>3
<1> QED
  BY <1>0, <1>3, <1>4, <1>5, <1>6, <1>7

LEMMA EventsFindTaken ==
    ASSUME TypesOK, Announced, EventsFind, NEW s, Taking(s)
    PROVE  EventsFind'
<1>0. Popped
  BY DEF Taking
<1> SUFFICES ASSUME NEW k \in DOMAIN events', NEW o \in TopLevel, About(events'[k], o)
             PROVE  Known(o, k)'
  BY DEF EventsFind, About
<1>1. k \in Nat \ {0} /\ k + 1 \in DOMAIN events /\ events'[k] = events[k + 1]
  BY <1>0, EventsPopped
<1>2. Known(o, k + 1)
  BY <1>1 DEF EventsFind
<1> QED
  BY <1>1, <1>2, KnownTaken

LEMMA TruthTaken ==
    ASSUME TypesOK, Announced, EventsFind, TruthFollows, NEW s, Taking(s)
    PROVE  TruthFollows'
<1>0. Popped /\ resources' = resources /\ open' = open
  BY DEF Taking, serverVars
<1>n. PICK n \in Nat \ {0} :
        /\ n = End'
        /\ \A o : /\ Known(o, n)' <=> Known(o, End)'
                  /\ Gone(o, n)' <=> Gone(o, End)'
  BY TypesTaken, NextEnd
<1>1. n + 1 = End
  BY <1>0, <1>n, EventsPopped DEF End
<1> SUFFICES ASSUME NEW o \in TopLevel
             PROVE  /\ Known(o, n)' <=> o \in resources /\ o.win \in open
                    /\ o \in resources => Known(o, n)' \/ Gone(o, n)' \/ DestroyAsked(o)'
  BY <1>0, <1>n DEF TruthFollows
<1>2. Known(o, n)' <=> Known(o, End)
  BY KnownTaken, <1>1
<1>3. Gone(o, End) <=> Closes(events[1], o) \/ Gone(o, n)'
  BY PastPopped, <1>0, <1>1
<1>4. ASSUME DestroyAsked(o) PROVE DestroyAsked(o)'
  <2>1. PICK k \in DOMAIN requests : Destroys(requests[k], o)
    BY <1>4 DEF DestroyAsked
  <2>2. k \in DOMAIN requests' /\ Destroys(requests'[k], o)
    BY <2>1, RequestsTaken
  <2> QED
    BY <2>2 DEF DestroyAsked, Destroys
<1>5. ASSUME Closes(events[1], o) PROVE DestroyAsked(o)'
  <2>1. s = <<Command("destroy", o)>>
    BY <1>5 DEF Taking, Closes
  <2>2. 1 \in DOMAIN s /\ s[1] = Command("destroy", o)
    BY <2>1
  <2>3. Len(requests) + 1 \in DOMAIN requests' /\ Destroys(requests'[Len(requests) + 1], o)
    BY <2>2, RequestsTaken DEF Destroys, Command
  <2> QED
    BY <2>3 DEF DestroyAsked, Destroys
<1> QED
  BY <1>2, <1>3, <1>4, <1>5 DEF TruthFollows

LEMMA DetailsTaken ==
    ASSUME TypesOK, Announced, DetailsFollow, NEW s, Taking(s)
    PROVE  DetailsFollow'
<1>0. Popped /\ UNCHANGED <<resources, open, names, focus>>
  BY DEF Taking, serverVars
<1>n. PICK n \in Nat \ {0} :
        n = End' /\ \A a, o, v : Heard(a, o, v, n)' <=> Heard(a, o, v, End)'
  BY TypesTaken, NextEnd
<1>1. n + 1 = End
  BY <1>0, <1>n, EventsPopped DEF End
<1>2. \A a, o : Actual(a, o)' = Actual(a, o)
  BY <1>0 DEF Actual, OnOff
<1> SUFFICES ASSUME NEW o \in resources, o.win \in open, NEW a \in Aspects
             PROVE  Heard(a, o, Actual(a, o), n)'
  <2>1. \A o \in resources', a \in Aspects : o.win \in open' => Heard(a, o, Actual(a, o), n)'
    BY <1>0
  <2>2. \A a, o : Heard(a, o, Actual(a, o), n)' <=> Heard(a, o, Actual(a, o), End)'
    BY <1>n DEF Heard, Silent
  <2> QED
    BY <2>1, <2>2 DEF DetailsFollow
<1>3. o \in TopLevel
  BY DEF TypesOK, LibTypeOK
<1>4. PICK v : v = Actual(a, o)
  OBVIOUS
<1>5. Heard(a, o, v, n + 1)
  <2>1. Heard(a, o, Actual(a, o), End)
    BY DEF DetailsFollow
  <2> QED
    BY <2>1, <1>1, <1>4
<1>6. Creates(events[1], o) => \E j \in DOMAIN events : j < n + 1 /\ Tells(events[j], a, o)
  BY <1>0, <1>1, <1>3, DetailsFirst
<1>7. Heard(a, o, v, n)'
  BY <1>3, <1>5, <1>6, HeardTaken
<1>8. Actual(a, o)' = v
  BY <1>2, <1>4
<1> QED
  BY <1>7, <1>8 DEF Heard, Silent, Tells, Told, OnOff

LEMMA BoundTaken ==
    ASSUME TypesOK, BoundFirst, NEW s, Taking(s)
    PROVE  BoundFirst'
<1>0. bound' = bound /\ events # <<>>
  BY DEF Taking, Popped, serverVars
<1>1. bound
  BY <1>0 DEF BoundFirst
<1>2. \A k \in DOMAIN requests' : requests'[k].op # "bind"
  <2> SUFFICES ASSUME NEW k \in DOMAIN requests' PROVE requests'[k].op # "bind"
    OBVIOUS
  <2>1. CASE k \in DOMAIN requests
    BY <2>1, <1>1, RequestsTaken DEF BoundFirst
  <2>2. CASE k \notin DOMAIN requests
    <3>1. PICK i \in DOMAIN s : requests'[k] = s[i]
      BY <2>2, RequestsTaken
    <3> QED
      BY <3>1 DEF Taking
  <2> QED
    BY <2>1, <2>2
<1> QED
  BY <1>0, <1>1, <1>2 DEF BoundFirst

\* The object of the first event, if that is about one, is the handler.
LEMMA FirstFinds ==
    ASSUME TypesOK, Popped, EventsFind, Announced, NEW o \in TopLevel, About(events[1], o)
    PROVE  o \in handlers /\ ~Born(o, End)
<1>0. 1 \in DOMAIN events /\ DOMAIN events \subseteq Nat \ {0}
  BY EventsPopped
<1>1. Known(o, 1)
  BY <1>0 DEF EventsFind
<1>2. ~Born(o, 1)
  BY <1>0 DEF Born
<1>3. o \in handlers
  BY <1>1, <1>2 DEF Known
<1> QED
  BY <1>3 DEF Born, Announced

LEMMA DestroysTaken ==
    ASSUME TypesOK, TablesMatch, Announced, EventsFind, DestroysFind, NEW s, Taking(s)
    PROVE  DestroysFind'
<1>0. /\ Popped /\ resources' = resources /\ handlers \subseteq resources
      /\ \A o \in TopLevel : o \in handlers' <=> (o \in handlers \/ Creates(events[1], o)) /\ ~Closes(events[1], o)
  BY DEF Taking, serverVars, TablesMatch
<1>n. PICK n \in Nat \ {0} : n = End' /\ \A o : Born(o, n)' <=> Born(o, End)'
  BY TypesTaken, NextEnd
<1>1. n + 1 = End
  BY <1>0, <1>n, EventsPopped DEF End
<1>2. \A o \in TopLevel : Born(o, End) <=> Creates(events[1], o) \/ Born(o, n)'
  BY PastPopped, <1>0, <1>1
<1>3. \A k \in DOMAIN requests' \ DOMAIN requests :
        /\ requests'[k].op \in Ops \cup {"destroy"} => requests'[k].id = requests'[k].meant.id
        /\ requests'[k].op = "destroy" => events[1].ev = "closed" /\ requests'[k] = Command("destroy", events[1].obj)
                                           /\ k = Len(requests) + 1
  <2> SUFFICES ASSUME NEW k \in DOMAIN requests' \ DOMAIN requests
               PROVE  /\ requests'[k].op \in Ops \cup {"destroy"} => requests'[k].id = requests'[k].meant.id
                      /\ requests'[k].op = "destroy" =>
                           events[1].ev = "closed" /\ requests'[k] = Command("destroy", events[1].obj)
                           /\ k = Len(requests) + 1
    OBVIOUS
  <2>1. PICK i \in DOMAIN s : requests'[k] = s[i] /\ k = Len(requests) + i
    BY RequestsTaken
  <2>2. requests'[k].op \in Ops \cup {"destroy"} => requests'[k].id = requests'[k].meant.id
    BY <2>1 DEF Taking, Ops
  <2>3. ASSUME requests'[k].op = "destroy"
        PROVE  events[1].ev = "closed" /\ requests'[k] = Command("destroy", events[1].obj) /\ i = 1
    <3>1. events[1].ev = "closed" /\ s = <<Command("destroy", events[1].obj)>>
      BY <2>1, <2>3 DEF Taking
    <3> QED
      BY <2>1, <3>1
  <2> QED
    BY <2>1, <2>2, <2>3
<1>4. \A k \in DOMAIN requests : requests'[k] = requests[k] /\ k \in DOMAIN requests'
  BY RequestsTaken
<1>5. ASSUME events[1].ev = "closed"
      PROVE  LET o == events[1].obj IN
             o \in TopLevel /\ o \in handlers /\ ~Born(o, End) /\ Closes(events[1], o)
  <2>1. events[1].obj \in TopLevel
    BY <1>0, <1>5, EventsPopped, MessageFields
  <2> QED
    BY <2>1, <1>0, <1>5, FirstFinds DEF About, Closes
<1> SUFFICES ASSUME NEW k \in DOMAIN requests', requests'[k].op = "destroy", NEW o, o = requests'[k].meant
             PROVE  /\ o \in resources' \ handlers' /\ ~Born(o, n)'
                    /\ \A j \in DOMAIN requests' : Destroys(requests'[j], o) => j = k
  <2>1. \A k \in DOMAIN requests' : requests'[k].op \in Ops \cup {"destroy"} => requests'[k].id = requests'[k].meant.id
    BY <1>3, <1>4 DEF DestroysFind
  <2>2. \A o : ~Born(o, n)' => ~Born(o, End)'
    BY <1>n
  <2> QED
    BY <2>1, <2>2 DEF DestroysFind, Destroys
<1>6. CASE k \in DOMAIN requests
  <2>1. /\ o \in resources \ handlers /\ ~Born(o, End)
        /\ \A j \in DOMAIN requests : Destroys(requests[j], o) => j = k
    BY <1>4, <1>6 DEF DestroysFind
  <2>2. o \in TopLevel
    BY <2>1 DEF TypesOK, LibTypeOK
  <2>3. ~Creates(events[1], o) /\ ~Born(o, n)'
    BY <1>2, <2>1, <2>2
  <2>4. \A j \in DOMAIN requests' : Destroys(requests'[j], o) => j = k
    <3> SUFFICES ASSUME NEW j \in DOMAIN requests', Destroys(requests'[j], o), j \notin DOMAIN requests
                 PROVE  FALSE
      BY <1>4, <2>1 DEF Destroys
    <3>1. events[1].ev = "closed" /\ o = events[1].obj
      BY <1>3 DEF Destroys, Command
    <3> QED
      BY <3>1, <1>5, <2>1
  <2> QED
    BY <1>0, <2>1, <2>2, <2>3, <2>4
<1>7. CASE k \notin DOMAIN requests
  <2>1. events[1].ev = "closed" /\ o = events[1].obj /\ k = Len(requests) + 1
    BY <1>3, <1>7 DEF Command
  <2>2. o \in TopLevel /\ o \in handlers /\ ~Born(o, End) /\ Closes(events[1], o)
    BY <2>1, <1>5
  <2>3. \A j \in DOMAIN requests' : Destroys(requests'[j], o) => j = k
    <3> SUFFICES ASSUME NEW j \in DOMAIN requests', Destroys(requests'[j], o) PROVE j = k
      OBVIOUS
    <3>1. CASE j \in DOMAIN requests
      BY <3>1, <1>4, <2>2 DEF DestroysFind, Destroys
    <3>2. CASE j \notin DOMAIN requests
      BY <3>2, <1>3, <2>1 DEF Destroys
    <3> QED
      BY <3>1, <3>2
  <2> QED
    BY <1>0, <1>2, <2>2, <2>3
<1> QED
  BY <1>6, <1>7

LEMMA LibTaken ==
    ASSUME ToplevelsInv, NEW s, Taking(s), TablesMatch'
    PROVE  ToplevelsInv'
<1>1. UNCHANGED <<resources, names, focus>>
  BY DEF Taking, serverVars
<1>2. Apart' /\ OneFocus'
  BY <1>1 DEF ToplevelsInv, Apart, OneFocus
<1> QED
  BY <1>2, TypesTaken, AnnouncedTaken, EventsFindTaken, TruthTaken, DetailsTaken, DestroysTaken, BoundTaken
     DEF ToplevelsInv

\* Commands that are appended are for windows with handlers.
LEMMA CommandsTaken ==
    ASSUME TypesOK, TablesMatch, DestroysFind, NEW x, CommandsFind(x), NEW s, Taking(s),
           \A k \in DOMAIN s : s[k].op \in Ops => s[k].meant \in handlers /\ events[1].ev # "closed"
    PROVE  CommandsFind(x)'
<1>0. /\ resources' = resources /\ rejected' = rejected /\ served' = served /\ handlers \subseteq resources
      /\ \A k \in DOMAIN s : s[k].op = "destroy" => events[1].ev = "closed"
  BY DEF Taking, serverVars, TablesMatch
<1>1. /\ \A k \in DOMAIN requests : requests'[k] = requests[k] /\ k \in DOMAIN requests'
      /\ DOMAIN requests = 1..Len(requests) /\ Len(requests) \in Nat
      /\ DOMAIN requests' \subseteq Nat
      /\ \A k \in DOMAIN requests' \ DOMAIN requests :
           \E i \in DOMAIN s : requests'[k] = s[i]
  <2>1. requests' \in Seq(Request)
    BY DEF Taking, LibTypeOK
  <2> QED
    BY <2>1, RequestsTaken
<1> SUFFICES ASSUME NEW k \in DOMAIN requests', requests'[k].op \in Ops, NEW o, o = requests'[k].meant, o \notin x
             PROVE  o \in resources /\ \A j \in DOMAIN requests' : j < k => ~Destroys(requests'[j], o)
  BY <1>0 DEF CommandsFind, Destroys
<1>2. CASE k \in DOMAIN requests
  <2>1. o \in resources /\ \A j \in DOMAIN requests : j < k => ~Destroys(requests[j], o)
    BY <1>1, <1>2 DEF CommandsFind
  <2>2. \A j \in DOMAIN requests' : j < k => j \in DOMAIN requests
    <3>1. DOMAIN requests' = 1..Len(requests')
      BY LenProperties DEF Taking, LibTypeOK
    <3> QED
      BY <1>1, <1>2, <3>1
  <2> QED
    BY <1>1, <2>1, <2>2
<1>3. CASE k \notin DOMAIN requests
  <2>1. PICK i \in DOMAIN s : requests'[k] = s[i]
    BY <1>1, <1>3
  <2>2. o \in handlers /\ events[1].ev # "closed"
    BY <2>1
  <2>3. \A j \in DOMAIN requests : ~Destroys(requests[j], o)
    BY <2>2 DEF DestroysFind, Destroys
  <2>4. \A j \in DOMAIN requests' \ DOMAIN requests : ~Destroys(requests'[j], o)
    BY <1>0, <1>1, <2>2 DEF Destroys
  <2> QED
    BY <1>0, <1>1, <2>2, <2>3, <2>4
<1> QED
  BY <1>2, <1>3

-----------------------------------------------------------------------------
\* The handlers.
LEMMA TakePops ==
    ASSUME TypesOK, NEW ev, Take(ev)
    PROVE  Popped /\ events[1].ev = ev /\ Head(events) = events[1] /\ events[1] \in Message /\ events' \in Seq(Message)
BY EventsPopped DEF Take, Popped

\* An event is for the object with the handler, and for no other with its id.
LEMMA HandlerFound ==
    ASSUME TypesOK, Apart, TablesMatch, Announced, EventsFind, NEW t \in TopLevel,
           NEW ev \in {"title", "state", "done", "closed"}, TakeFor(t, ev)
    PROVE  t = events[1].obj /\ t \in handlers /\ Popped /\ Head(events) = events[1] /\ events[1].ev = ev
           /\ events[1] \in Message /\ events' \in Seq(Message) /\ Running
<1>1. Popped /\ events[1].ev = ev /\ Head(events) = events[1] /\ events[1] \in Message /\ events' \in Seq(Message)
  BY TakePops DEF TakeFor
<1>2. events[1].obj \in TopLevel
  BY <1>1, MessageFields
<1>3. events[1].obj \in handlers
  BY <1>1, <1>2, FirstFinds DEF About
<1>4. t \in handlers /\ t.id = events[1].obj.id
  BY <1>1 DEF TakeFor
<1>5. t = events[1].obj
  BY <1>3, <1>4 DEF Apart, TablesMatch
<1> QED
  BY <1>1, <1>4, <1>5 DEF TakeFor, Take

LEMMA NothingAsked ==
    ASSUME TypesOK, requests' = requests
    PROVE  requests' = requests \o <<>> /\ <<>> \in Seq(Request) /\ DOMAIN <<>> = {}
<1>1. requests \in Seq(Request)
  BY DEF TypesOK, LibTypeOK
<1> QED
  BY <1>1, ConcatEmptySeq

LEMMA RangeNow ==
    ASSUME TablesMatch
    PROVE  Range(windows) = handlers
<1>1. \A h \in handlers : h \in Range(windows)
  BY DEF TablesMatch, Range
<1>2. \A h \in Range(windows) : h \in handlers
  BY DEF TablesMatch, Range
<1> QED
  BY <1>1, <1>2

LEMMA RangeNext ==
    ASSUME TablesMatch'
    PROVE  Range(windows') = handlers'
<1>1. \A h \in handlers' : h \in Range(windows')
  BY DEF TablesMatch, Range
<1>2. \A h \in Range(windows') : h \in handlers'
  BY DEF TablesMatch, Range
<1> QED
  BY <1>1, <1>2

LEMMA NewTakes ==
    ASSUME ToplevelsInv, NEW t \in TopLevel, OnNewToplevel(t)
    PROVE  /\ Taking(<<>>) /\ TablesMatch' /\ events[1] = Event("toplevel", t)
           /\ t \notin handlers /\ handlers' = handlers \cup {t} /\ raised' = raised
           /\ title' = [title EXCEPT ![t] = NoTitle] /\ states' = states \ {t}
           /\ Range(windows') = handlers'
<1> USE DEF ToplevelsInv
<1>1. Popped /\ events[1].ev = "toplevel" /\ Head(events) = events[1] /\ events[1] \in Message /\ events' \in Seq(Message)
  BY TakePops DEF OnNewToplevel
<1>2. t = events[1].obj /\ Creates(events[1], t)
  BY <1>1 DEF OnNewToplevel, Creates
<1>3. t \in resources \ handlers
  BY <1>1, <1>2, EventsPopped DEF Announced
<1>4. ~Handled(t.id)
  BY <1>3 DEF Handled, Apart, TablesMatch
<1>5. /\ handlers' = handlers \cup {t}
      /\ windows' = [id \in DOMAIN windows \cup {t.id} |-> IF id = t.id THEN t ELSE windows[id]]
      /\ title' = [title EXCEPT ![t] = NoTitle]
      /\ states' = states \ {t}
      /\ UNCHANGED <<raised, serverVars, requests>>
  BY <1>4 DEF OnNewToplevel
<1>6. LibTypeOK'
  <2>1. t.id \in Ids
    BY ObjectFields
  <2>2. \A id \in DOMAIN windows' : id \in Ids /\ windows'[id] \in TopLevel
    BY <1>5, <2>1 DEF TypesOK, LibTypeOK
  <2>3. title' \in [TopLevel -> Titles \cup {NoTitle}]
    BY <1>5 DEF TypesOK, LibTypeOK
  <2> QED
    BY <1>5, <2>2, <2>3 DEF TypesOK, LibTypeOK, serverVars
<1>7. TablesMatch'
  <2>1. handlers' \subseteq resources' /\ raised' = raised
    BY <1>3, <1>5 DEF TablesMatch, serverVars
  <2>2. \A h \in handlers : h.id # t.id
    BY <1>4 DEF Handled
  <2>3. \A h \in handlers' : h.id \in DOMAIN windows' /\ windows'[h.id] = h
    BY <1>5, <2>2 DEF TablesMatch
  <2>4. \A id \in DOMAIN windows' : windows'[id] \in handlers' /\ windows'[id].id = id
    BY <1>5 DEF TablesMatch
  <2> QED
    BY <2>1, <2>3, <2>4 DEF TablesMatch
<1>8. \A o \in TopLevel : o \in handlers' <=> (o \in handlers \/ Creates(events[1], o)) /\ ~Closes(events[1], o)
  BY <1>1, <1>2, <1>5 DEF Creates, Closes
<1>9. ASSUME NEW o \in TopLevel, NEW a \in Aspects
      PROVE  /\ ~Tells(events[1], a, o)
             /\ ~Creates(events[1], o) => Read(a, o)' = Read(a, o)
  <2>1. ~Tells(events[1], a, o)
    BY <1>1 DEF Tells, Aspects
  <2>2. ASSUME o # t PROVE title'[o] = title[o] /\ (o \in states' <=> o \in states)
    BY <1>5, <2>2 DEF TypesOK, LibTypeOK
  <2> QED
    BY <1>2, <2>1, <2>2 DEF Read, OnOff, Creates
<1>10. Taking(<<>>)
  BY <1>1, <1>5, <1>6, <1>8, <1>9, NothingAsked DEF Taking
<1>11. Range(windows') = handlers'
  BY <1>7, RangeNext
<1>12. events[1] = Event("toplevel", t)
  BY <1>1, <1>2 DEF Message, Event
<1> QED
  BY <1>3, <1>5, <1>7, <1>10, <1>11, <1>12

LEMMA DetailTakes ==
    ASSUME ToplevelsInv, NEW t \in TopLevel, OnTitle(t) \/ OnState(t)
    PROVE  /\ Taking(<<>>) /\ TablesMatch' /\ t \in handlers /\ UNCHANGED <<handlers, windows, raised>>
           /\ events[1].ev \in {"title", "state"} /\ events[1].obj = t
<1> USE DEF ToplevelsInv
<1> DEFINE Effect ==
        /\ t = events[1].obj /\ t \in handlers /\ Popped
        /\ events[1].ev \in {"title", "state"} /\ events[1] \in Message
        /\ LibTypeOK'
        /\ UNCHANGED <<handlers, windows, raised, requests, serverVars>>
        /\ \A o \in TopLevel, a \in Aspects :
             IF Tells(events[1], a, o) THEN Read(a, o)' = Told(events[1]) ELSE Read(a, o)' = Read(a, o)
<1>1. ASSUME OnTitle(t) PROVE Effect
  <2>1. /\ t = events[1].obj /\ t \in handlers /\ Popped /\ Head(events) = events[1] /\ events[1].ev = "title"
        /\ events[1] \in Message
    BY <1>1, HandlerFound DEF OnTitle
  <2>2. title' = [title EXCEPT ![t] = events[1].title] /\ UNCHANGED <<handlers, windows, states, raised, requests, serverVars>>
    BY <1>1, <2>1 DEF OnTitle
  <2>3. LibTypeOK'
    <3>1. title' \in [TopLevel -> Titles \cup {NoTitle}]
      BY <2>1, <2>2, MessageFields DEF TypesOK, LibTypeOK
    <3> QED
      BY <2>2, <3>1 DEF TypesOK, LibTypeOK, serverVars
  <2>4. ASSUME NEW o \in TopLevel, NEW a \in Aspects
        PROVE  IF Tells(events[1], a, o) THEN Read(a, o)' = Told(events[1]) ELSE Read(a, o)' = Read(a, o)
    <3>1. title'[o] = (IF o = t THEN events[1].title ELSE title[o])
      BY <2>2 DEF TypesOK, LibTypeOK
    <3> QED
      BY <2>1, <2>2, <3>1 DEF Tells, Told, Read, Aspects, OnOff
  <2> QED
    BY <2>1, <2>2, <2>3, <2>4
<1>2. ASSUME OnState(t) PROVE Effect
  <2>1. /\ t = events[1].obj /\ t \in handlers /\ Popped /\ Head(events) = events[1] /\ events[1].ev = "state"
        /\ events[1] \in Message
    BY <1>2, HandlerFound DEF OnState
  <2>2. /\ states' = IF events[1].activated THEN states \cup {t} ELSE states \ {t}
        /\ UNCHANGED <<handlers, windows, title, raised, requests, serverVars>>
    BY <1>2, <2>1 DEF OnState
  <2>3. LibTypeOK'
    BY <2>2 DEF TypesOK, LibTypeOK, serverVars
  <2>4. ASSUME NEW o \in TopLevel, NEW a \in Aspects
        PROVE  IF Tells(events[1], a, o) THEN Read(a, o)' = Told(events[1]) ELSE Read(a, o)' = Read(a, o)
    <3>1. CASE a = "title"
      BY <2>1, <2>2, <3>1 DEF Tells, Read
    <3>2. CASE a = "state" /\ o = t
      <4>1. Tells(events[1], a, o) /\ Told(events[1]) = OnOff(events[1].activated)
        BY <2>1, <3>2 DEF Tells, Told
      <4>2. OnOff(o \in states') = OnOff(events[1].activated)
        BY <2>2, <3>2 DEF OnOff
      <4> QED
        BY <3>2, <4>1, <4>2 DEF Read, OnOff
    <3>3. CASE a = "state" /\ o # t
      <4>1. ~Tells(events[1], a, o)
        BY <2>1, <3>3 DEF Tells
      <4>2. o \in states' <=> o \in states
        BY <2>2, <3>3
      <4> QED
        BY <3>3, <4>1, <4>2 DEF Read, OnOff
    <3> QED
      BY <3>1, <3>2, <3>3 DEF Aspects
  <2> QED
    BY <2>1, <2>2, <2>3, <2>4
<1>3. Effect
  BY <1>1, <1>2
<1>4. Taking(<<>>)
  <2>1. \A o \in TopLevel : ~Creates(events[1], o) /\ ~Closes(events[1], o)
    BY <1>3 DEF Creates, Closes
  <2> QED
    BY <1>3, <2>1, NothingAsked DEF Taking
<1>5. TablesMatch'
  BY <1>3 DEF TablesMatch, serverVars
<1> QED
  BY <1>3, <1>4, <1>5

LEMMA DoneTakes ==
    ASSUME ToplevelsInv, NEW t \in TopLevel, OnDone(t)
    PROVE  /\ Taking(<<>>) /\ TablesMatch' /\ t \in handlers /\ UNCHANGED libVars
           /\ events[1].ev = "done" /\ events[1].obj = t
<1> USE DEF ToplevelsInv
<1>1. /\ t = events[1].obj /\ t \in handlers /\ Popped /\ events[1].ev = "done"
      /\ UNCHANGED <<libVars, serverVars, requests>>
  BY HandlerFound DEF OnDone
<1>2. LibTypeOK' /\ TablesMatch'
  BY <1>1 DEF TypesOK, LibTypeOK, libVars, serverVars, TablesMatch
<1>3. \A o \in TopLevel : ~Creates(events[1], o) /\ ~Closes(events[1], o) /\ \A a \in Aspects : ~Tells(events[1], a, o)
  BY <1>1 DEF Creates, Closes, Tells, Aspects
<1>4. \A o, a : Read(a, o)' = Read(a, o)
  BY <1>1 DEF Read, OnOff, libVars
<1>5. Taking(<<>>)
  BY <1>1, <1>2, <1>3, <1>4, NothingAsked DEF Taking, libVars
<1> QED
  BY <1>1, <1>2, <1>5

LEMMA ClosedTakes ==
    ASSUME ToplevelsInv, NEW t \in TopLevel, OnClosed(t)
    PROVE  /\ Taking(<<Command("destroy", t)>>) /\ TablesMatch' /\ t \in handlers /\ events[1] = Event("closed", t)
           /\ handlers' = handlers \ {t} /\ UNCHANGED <<title, states, raised>>
           /\ Range(windows') = handlers'
<1> USE DEF ToplevelsInv
<1>1. /\ t = events[1].obj /\ t \in handlers /\ Popped /\ events[1].ev = "closed" /\ events[1] \in Message
      /\ UNCHANGED <<title, states, serverVars>>
      /\ handlers' = handlers \ {t} /\ requests' = Append(requests, Command("destroy", t))
  BY HandlerFound DEF OnClosed
<1>2. t.id \in DOMAIN windows
  BY <1>1 DEF TablesMatch
<1>3. windows' = [id \in DOMAIN windows \ {t.id} |-> windows[id]] /\ raised' = raised
  BY <1>2 DEF OnClosed, Restrict
<1>4. Command("destroy", t) \in Request /\ requests \in Seq(Request)
  BY ObjectFields DEF Command, Request, TypesOK, LibTypeOK
<1>5. <<Command("destroy", t)>> \in Seq(Request) /\ requests' = requests \o <<Command("destroy", t)>>
  BY <1>1, <1>4, AppendIsConcat
<1>6. LibTypeOK'
  <2>1. requests' \in Seq(Request)
    BY <1>1, <1>4, AppendProperties
  <2> QED
    BY <1>1, <1>3, <2>1 DEF TypesOK, LibTypeOK, serverVars
<1>7. TablesMatch'
  <2>1. \A h \in handlers' : h.id \in DOMAIN windows' /\ windows'[h.id] = h
    <3> SUFFICES ASSUME NEW h \in handlers' PROVE h.id \in DOMAIN windows' /\ windows'[h.id] = h
      OBVIOUS
    <3>1. h.id # t.id
      BY <1>1 DEF TablesMatch, Apart
    <3> QED
      BY <1>1, <1>3, <3>1 DEF TablesMatch
  <2>2. \A id \in DOMAIN windows' : windows'[id] \in handlers' /\ windows'[id].id = id
    BY <1>1, <1>3 DEF TablesMatch
  <2> QED
    BY <1>1, <1>3, <2>1, <2>2 DEF TablesMatch, serverVars
<1>8. \A o \in TopLevel : /\ o \in handlers' <=> (o \in handlers \/ Creates(events[1], o)) /\ ~Closes(events[1], o)
                          /\ \A a \in Aspects : ~Tells(events[1], a, o)
  BY <1>1 DEF Creates, Closes, Tells, Aspects
<1>9. \A o, a : Read(a, o)' = Read(a, o)
  BY <1>1 DEF Read, OnOff
<1>10. Taking(<<Command("destroy", t)>>)
  <2> DEFINE s == <<Command("destroy", t)>>
  <2>1. DOMAIN s = {1} /\ s[1] = Command("destroy", t)
    OBVIOUS
  <2>2. \A k \in DOMAIN s : s[k].op # "bind" /\ (s[k].op # "sync" => s[k].id = s[k].meant.id)
    BY <2>1 DEF Command
  <2> QED
    BY <1>1, <1>5, <1>6, <1>8, <1>9, <2>2 DEF Taking
<1>11. Range(windows') = handlers'
  BY <1>7, RangeNext
<1>12. events[1] = Event("closed", t)
  BY <1>1 DEF Message, Event
<1> QED
  BY <1>1, <1>3, <1>7, <1>10, <1>11, <1>12

-----------------------------------------------------------------------------
\* The compositor sends s.
Grown(s) == s \in Seq(Message) /\ events' = events \o s /\ UNCHANGED <<handlers, title, states>>

LEMMA EventsGrown ==
    ASSUME TypesOK, NEW s, Grown(s)
    PROVE  /\ events' \in Seq(Message) /\ Len(events) \in Nat /\ Len(s) \in Nat
           /\ Len(events') = Len(events) + Len(s)
           /\ DOMAIN events = 1..Len(events) /\ DOMAIN s = 1..Len(s) /\ DOMAIN events' = 1..Len(events')
           /\ \A k \in DOMAIN events : k \in DOMAIN events' /\ events'[k] = events[k]
           /\ \A i \in DOMAIN s : Len(events) + i \in DOMAIN events' /\ events'[Len(events) + i] = s[i] /\ s[i] \in Message
           /\ \A k \in DOMAIN events' : k \in DOMAIN events \/ \E i \in DOMAIN s : k = Len(events) + i
<1>1. events \in Seq(Message) /\ s \in Seq(Message)
  BY DEF TypesOK, Grown
<1>2. /\ events' \in Seq(Message) /\ Len(events) \in Nat /\ Len(s) \in Nat
      /\ Len(events') = Len(events) + Len(s)
      /\ DOMAIN events = 1..Len(events) /\ DOMAIN s = 1..Len(s) /\ DOMAIN events' = 1..(Len(events) + Len(s))
      /\ \A k \in DOMAIN events : events'[k] = events[k]
      /\ \A i \in DOMAIN s : events'[Len(events) + i] = s[i] /\ s[i] \in Message
  BY <1>1, Joined DEF Grown
<1>3. \A k \in DOMAIN events' : k \in DOMAIN events \/ \E i \in DOMAIN s : k = Len(events) + i
  <2> SUFFICES ASSUME NEW k \in DOMAIN events', k \notin DOMAIN events
               PROVE  \E i \in DOMAIN s : k = Len(events) + i
    OBVIOUS
  <2>1. k - Len(events) \in DOMAIN s /\ k = Len(events) + (k - Len(events))
    BY <1>2
  <2> QED
    BY <2>1
<1>4. \A i \in DOMAIN s : Len(events) + i \in DOMAIN events'
  BY <1>2
<1> QED
  BY <1>2, <1>3, <1>4

\* What was there before an event is as it was.
LEMMA PastGrown ==
    ASSUME TypesOK, NEW s, Grown(s), NEW k \in Nat, k <= Len(events) + 1
    PROVE  \A o : /\ Born(o, k)' <=> Born(o, k)
                  /\ Gone(o, k)' <=> Gone(o, k)
                  /\ Known(o, k)' <=> Known(o, k)
                  /\ \A a, i : Silent(a, o, i, k)' <=> Silent(a, o, i, k)
                  /\ \A a, v : Heard(a, o, v, k)' <=> Heard(a, o, v, k)
<1>1. /\ \A j \in DOMAIN events' : j < k <=> j \in DOMAIN events /\ j < k
      /\ \A j \in DOMAIN events : j \in DOMAIN events' /\ events'[j] = events[j]
  <2>1. /\ DOMAIN events = 1..Len(events) /\ Len(events) \in Nat
        /\ \A j \in DOMAIN events : j \in DOMAIN events' /\ events'[j] = events[j]
        /\ DOMAIN events' = 1..Len(events') /\ Len(events') \in Nat
    BY EventsGrown
  <2> QED
    BY <2>1
<1>2. \A o : Born(o, k)' <=> Born(o, k)
  BY <1>1 DEF Born, Creates
<1>3. \A o : Gone(o, k)' <=> Gone(o, k)
  BY <1>1 DEF Gone, Closes
<1>4. \A o : Known(o, k)' <=> Known(o, k)
  BY <1>2, <1>3 DEF Known, Grown
<1>5. \A o, a, i : Silent(a, o, i, k)' <=> Silent(a, o, i, k)
  BY <1>1 DEF Silent, Tells
<1>6. \A o, a : Read(a, o)' = Read(a, o)
  BY DEF Read, OnOff, Grown
<1>7. \A o, a, v : Heard(a, o, v, k)' <=> Heard(a, o, v, k)
  <2> SUFFICES ASSUME NEW o, NEW a, NEW v PROVE Heard(a, o, v, k)' <=> Heard(a, o, v, k)
    OBVIOUS
  <2>1. (\E j \in DOMAIN events' : j < k /\ Tells(events'[j], a, o) /\ Told(events'[j]) = v /\ Silent(a, o, j, k)')
          <=> \E j \in DOMAIN events : j < k /\ Tells(events[j], a, o) /\ Told(events[j]) = v /\ Silent(a, o, j, k)
    BY <1>1, <1>5
  <2>2. Heard(a, o, v, k)' <=>
          \/ \E j \in DOMAIN events' : j < k /\ Tells(events'[j], a, o) /\ Told(events'[j]) = v /\ Silent(a, o, j, k)'
          \/ Read(a, o)' = v /\ Silent(a, o, 0, k)'
    BY DEF Heard, Silent, Tells, Told, OnOff
  <2> QED
    BY <1>5, <1>6, <2>1, <2>2 DEF Heard
<1> QED
  BY <1>2, <1>3, <1>4, <1>5, <1>7

\* And so is what is said after it.
LEMMA RecentGrown ==
    ASSUME TypesOK, NEW s, Grown(s), NEW m \in 1..(Len(s) + 1), NEW k, k = Len(events) + m
    PROVE  \A o : /\ Born(o, k)' <=> Born(o, End) \/ \E i \in DOMAIN s : i < m /\ Creates(s[i], o)
                  /\ Gone(o, k)' <=> Gone(o, End) \/ \E i \in DOMAIN s : i < m /\ Closes(s[i], o)
<1>1. /\ \A j \in DOMAIN events : j \in DOMAIN events' /\ events'[j] = events[j] /\ j < k /\ j < Len(events) + 1
      /\ \A i \in DOMAIN s : Len(events) + i \in DOMAIN events' /\ events'[Len(events) + i] = s[i]
                               /\ (Len(events) + i < k <=> i < m)
      /\ \A j \in DOMAIN events' : j \in DOMAIN events \/ \E i \in DOMAIN s : j = Len(events) + i
  <2>1. /\ DOMAIN events = 1..Len(events) /\ Len(events) \in Nat /\ DOMAIN s = 1..Len(s) /\ Len(s) \in Nat
        /\ \A j \in DOMAIN events : j \in DOMAIN events' /\ events'[j] = events[j]
        /\ \A i \in DOMAIN s : Len(events) + i \in DOMAIN events' /\ events'[Len(events) + i] = s[i]
        /\ \A j \in DOMAIN events' : j \in DOMAIN events \/ \E i \in DOMAIN s : j = Len(events) + i
    BY EventsGrown
  <2>2. \A i \in DOMAIN s : Len(events) + i < Len(events) + m <=> i < m
    BY <2>1
  <2> QED
    BY <2>1, <2>2
<1>2. \A o : Born(o, k)' <=> Born(o, End) \/ \E i \in DOMAIN s : i < m /\ Creates(s[i], o)
  <2> SUFFICES ASSUME NEW o
               PROVE  (\E j \in DOMAIN events' : j < k /\ Creates(events'[j], o))
                        <=> (\E j \in DOMAIN events : j < Len(events) + 1 /\ Creates(events[j], o))
                              \/ \E i \in DOMAIN s : i < m /\ Creates(s[i], o)
    BY DEF Born, End, Creates
  <2> QED
    BY <1>1
<1>3. \A o : Gone(o, k)' <=> Gone(o, End) \/ \E i \in DOMAIN s : i < m /\ Closes(s[i], o)
  <2> SUFFICES ASSUME NEW o
               PROVE  (\E j \in DOMAIN events' : j < k /\ Closes(events'[j], o))
                        <=> (\E j \in DOMAIN events : j < Len(events) + 1 /\ Closes(events[j], o))
                              \/ \E i \in DOMAIN s : i < m /\ Closes(s[i], o)
    BY DEF Gone, End, Closes
  <2> QED
    BY <1>1
<1> QED
  BY <1>2, <1>3

LEMMA SilentGrown ==
    ASSUME TypesOK, NEW s, Grown(s), NEW m \in 1..(Len(s) + 1), NEW k, k = Len(events) + m,
           NEW o, NEW a
    PROVE  /\ \A i \in Nat, h \in Nat :
                h = Len(events) + i /\ (\A j \in DOMAIN s : i < j /\ j < m => ~Tells(s[j], a, o))
                  => Silent(a, o, h, k)'
           /\ \A i \in Nat : Silent(a, o, i, End) /\ (\A j \in DOMAIN s : j < m => ~Tells(s[j], a, o))
                               => Silent(a, o, i, k)'
<1>1. /\ DOMAIN events = 1..Len(events) /\ Len(events) \in Nat /\ DOMAIN s = 1..Len(s) /\ Len(s) \in Nat
      /\ \A j \in DOMAIN events : events'[j] = events[j]
      /\ \A j \in DOMAIN s : events'[Len(events) + j] = s[j]
      /\ \A j \in DOMAIN events' : j \in DOMAIN events \/ \E i \in DOMAIN s : j = Len(events) + i
  BY EventsGrown
<1>2. ASSUME NEW i \in Nat, NEW g \in Nat, g = Len(events) + i,
             \A j \in DOMAIN s : i < j /\ j < m => ~Tells(s[j], a, o)
      PROVE  Silent(a, o, g, k)'
  <2> SUFFICES ASSUME NEW j \in DOMAIN events', g < j, j < k PROVE ~Tells(events'[j], a, o)
    BY DEF Silent, Tells
  <2>1. PICK h \in DOMAIN s : j = Len(events) + h
    BY <1>1, <1>2
  <2>2. i < h /\ h < m
    BY <1>1, <1>2, <2>1
  <2> QED
    BY <1>1, <1>2, <2>1, <2>2
<1>3. ASSUME NEW i \in Nat, Silent(a, o, i, End), \A j \in DOMAIN s : j < m => ~Tells(s[j], a, o)
      PROVE  Silent(a, o, i, k)'
  <2> SUFFICES ASSUME NEW j \in DOMAIN events', i < j, j < k PROVE ~Tells(events'[j], a, o)
    BY DEF Silent, Tells
  <2>1. CASE j \in DOMAIN events
    <3>1. j < End
      BY <1>1, <2>1 DEF End
    <3> QED
      BY <1>1, <1>3, <2>1, <3>1 DEF Silent
  <2>2. CASE j \notin DOMAIN events
    <3>1. PICK h \in DOMAIN s : j = Len(events) + h
      BY <1>1, <2>2
    <3>2. h < m
      BY <1>1, <3>1
    <3> QED
      BY <1>1, <1>3, <3>1, <3>2
  <2> QED
    BY <2>1, <2>2
<1> QED
  BY <1>2, <1>3

\* What was told last stays so if nothing is told, and else is what s tells last.
LEMMA HeardKept ==
    ASSUME TypesOK, NEW s, Grown(s), NEW m \in 1..(Len(s) + 1), NEW k, k = Len(events) + m,
           NEW o, NEW a, NEW v, Heard(a, o, v, End), \A j \in DOMAIN s : j < m => ~Tells(s[j], a, o)
    PROVE  Heard(a, o, v, k)'
<1>1. \A i \in Nat : Silent(a, o, i, End) => Silent(a, o, i, k)'
  BY SilentGrown
<1>2. /\ \A j \in DOMAIN events : j \in Nat /\ j < k /\ j \in DOMAIN events' /\ events'[j] = events[j]
  <2>1. /\ DOMAIN events = 1..Len(events) /\ Len(events) \in Nat /\ Len(s) \in Nat
        /\ \A j \in DOMAIN events : j \in DOMAIN events' /\ events'[j] = events[j]
    BY EventsGrown
  <2> QED
    BY <2>1
<1>3. Read(a, o)' = Read(a, o)
  BY DEF Read, OnOff, Grown
<1>4. CASE Read(a, o) = v /\ Silent(a, o, 0, End)
  BY <1>1, <1>3, <1>4 DEF Heard
<1>5. ASSUME NEW j \in DOMAIN events, Tells(events[j], a, o), Told(events[j]) = v, Silent(a, o, j, End)
      PROVE  Heard(a, o, v, k)'
  <2>1. Silent(a, o, j, k)' /\ j \in DOMAIN events' /\ j < k /\ events'[j] = events[j]
    BY <1>1, <1>2, <1>5
  <2> QED
    BY <1>5, <2>1 DEF Heard, Tells, Told, OnOff
<1> QED
  BY <1>4, <1>5 DEF Heard

LEMMA HeardNew ==
    ASSUME TypesOK, NEW s, Grown(s), NEW m \in 1..(Len(s) + 1), NEW k, k = Len(events) + m,
           NEW o, NEW a, NEW i \in DOMAIN s, i < m, Tells(s[i], a, o),
           \A j \in DOMAIN s : i < j /\ j < m => ~Tells(s[j], a, o), NEW v, Told(s[i]) = v
    PROVE  Heard(a, o, v, k)'
<1>1. DOMAIN s \subseteq Nat /\ Len(events) \in Nat
  BY EventsGrown
<1>2. PICK j \in DOMAIN events' : j = Len(events) + i /\ j < k /\ events'[j] = s[i] /\ j \in Nat
  <2>1. Len(events) + i \in DOMAIN events' /\ events'[Len(events) + i] = s[i]
    BY EventsGrown
  <2>2. Len(events) + i < k /\ Len(events) + i \in Nat
    BY <1>1
  <2> QED
    BY <2>1, <2>2
<1>3. Silent(a, o, j, k)'
  BY <1>1, <1>2, SilentGrown
<1>5. Told(events'[j]) = v /\ Tells(events'[j], a, o) /\ Silent(a, o, j, k)'
  BY <1>2, <1>3
<1> QED
  BY <1>2, <1>5 DEF Heard, Tells, Told, OnOff, Silent

-----------------------------------------------------------------------------
\* A sequence of the elements of a set has each of them once.
LEMMA ListsAll ==
    ASSUME NEW S, IsFiniteSet(S), NEW q \in SetToSeqs(S)
    PROVE  /\ q \in Seq(S)
           /\ \A i, j \in DOMAIN q : q[i] = q[j] => i = j
           /\ \A x \in S : \E i \in DOMAIN q : q[i] = x
<1>1. PICK n \in Nat : n = Cardinality(S)
  BY FS_CardinalityType
<1>2. q \in [1..n -> S] /\ \A i, j \in 1..n : i # j => q[i] # q[j]
  BY <1>1 DEF SetToSeqs
<1>3. q \in Injection(1..n, S)
  BY <1>2, Fun_IsInj
<1>4. Cardinality(1..n) = n /\ IsFiniteSet(1..n)
  BY FS_Interval
<1>5. q \in Surjection(1..n, S)
  BY <1>1, <1>3, <1>4, FS_Injection
<1>6. \A x \in S : \E i \in 1..n : q[i] = x
  BY <1>5 DEF Surjection
<1>7. q \in Seq(S) /\ DOMAIN q = 1..n
  BY <1>2, IsASeq
<1> QED
  BY <1>2, <1>6, <1>7

LEMMA FinitelyMany ==
    ASSUME TypesOK, Apart
    PROVE  IsFiniteSet(resources)
<1> DEFINE f == [r \in resources |-> r.win]
<1>1. f \in [resources -> 1..MaxWindows]
  BY ObjectFields DEF TypesOK, LibTypeOK, Wins
<1>2. \A r, s \in resources : f[r] = f[s] => r = s
  BY DEF Apart
<1>3. f \in Injection(resources, 1..MaxWindows)
  BY <1>1, <1>2, Fun_IsInj
<1>4. IsFiniteSet(1..MaxWindows)
  BY FS_Interval, ToplevelAssumption
<1> QED
  BY <1>3, <1>4, FS_Injection

\* What else the program has to know of is settled where the stream ends.
LEMMA EndGrown ==
    ASSUME TypesOK, TypesOK', NEW s, Grown(s)
    PROVE  \E n \in Nat \ {0}, m \in 1..(Len(s) + 1) :
             /\ m = Len(s) + 1 /\ n = Len(events) + m /\ n = End'
             /\ \A i \in DOMAIN s : i < m
             /\ \A o : /\ Known(o, n)' <=> Known(o, End)'
                       /\ Gone(o, n)' <=> Gone(o, End)'
                       /\ Born(o, n)' <=> Born(o, End)'
             /\ \A a, o, v : Heard(a, o, v, n)' <=> Heard(a, o, v, End)'
<1>1. PICK n \in Nat \ {0} :
             /\ n = End'
             /\ \A o : /\ Known(o, n)' <=> Known(o, End)'
                       /\ Gone(o, n)' <=> Gone(o, End)'
                       /\ Born(o, n)' <=> Born(o, End)'
             /\ \A a, o, v : Heard(a, o, v, n)' <=> Heard(a, o, v, End)'
  BY NextEnd
<1>2. Len(events) \in Nat /\ Len(s) \in Nat /\ Len(events') = Len(events) + Len(s) /\ DOMAIN s = 1..Len(s)
  BY EventsGrown
<1>3. PICK m \in 1..(Len(s) + 1) : m = Len(s) + 1
  BY <1>2
<1>4. n = Len(events) + m /\ \A i \in DOMAIN s : i < m
  BY <1>1, <1>2, <1>3 DEF End
<1> QED
  BY <1>1, <1>3, <1>4

\* The compositor says what has changed of windows that are open.
Tidings(s) ==
    /\ Grown(s)
    /\ UNCHANGED <<resources, open>>
    /\ \A i \in DOMAIN s :
         /\ s[i].ev \notin {"toplevel", "closed"}
         /\ s[i].ev # "callback" => s[i].obj \in resources /\ s[i].obj.win \in open
    /\ \A o \in resources, a \in Aspects :
         /\ \A i, j \in DOMAIN s : Tells(s[i], a, o) /\ Tells(s[j], a, o) => i = j
         /\ \A i \in DOMAIN s : Tells(s[i], a, o) => Told(s[i]) = Actual(a, o)'
         /\ (\A i \in DOMAIN s : ~Tells(s[i], a, o)) => Actual(a, o)' = Actual(a, o)

LEMMA AnnouncedKept ==
    ASSUME TypesOK, Announced, NEW s, Grown(s), \A i \in DOMAIN s : s[i].ev # "toplevel",
           resources \subseteq resources'
    PROVE  Announced'
<1> SUFFICES ASSUME NEW k \in DOMAIN events', NEW o \in TopLevel, Creates(events'[k], o)
             PROVE  /\ o \in resources' \ handlers'
                    /\ \A j \in DOMAIN events' : Creates(events'[j], o) => j = k
                    /\ k + 3 \in DOMAIN events'
                    /\ Tells(events'[k + 1], "title", o) /\ Tells(events'[k + 2], "state", o)
                    /\ Completes(events'[k + 3], o)
  BY DEF Announced, Creates, Tells, Completes
<1>1. /\ \A j \in DOMAIN events : j \in DOMAIN events' /\ events'[j] = events[j]
      /\ \A i \in DOMAIN s : events'[Len(events) + i] = s[i]
      /\ \A j \in DOMAIN events' : j \in DOMAIN events \/ \E i \in DOMAIN s : j = Len(events) + i
      /\ DOMAIN events = 1..Len(events) /\ Len(events) \in Nat
  BY EventsGrown
<1>2. \A j \in DOMAIN events' : Creates(events'[j], o) => j \in DOMAIN events /\ Creates(events[j], o)
  BY <1>1 DEF Creates
<1>3. k \in DOMAIN events /\ Creates(events[k], o)
  BY <1>2
<1>4. /\ o \in resources \ handlers
      /\ \A j \in DOMAIN events : Creates(events[j], o) => j = k
      /\ k + 3 \in DOMAIN events
      /\ Tells(events[k + 1], "title", o) /\ Tells(events[k + 2], "state", o)
      /\ Completes(events[k + 3], o)
  BY <1>3 DEF Announced
<1>5. k + 1 \in DOMAIN events /\ k + 2 \in DOMAIN events
  BY <1>1, <1>3, <1>4
<1> QED
  BY <1>1, <1>2, <1>4, <1>5 DEF Grown

LEMMA TidingsKeep ==
    ASSUME ToplevelsInv, TypesOK', NEW s, Tidings(s),
           \A o \in resources : DestroyAsked(o) => DestroyAsked(o)'
    PROVE  /\ Announced' /\ EventsFind' /\ TruthFollows' /\ DetailsFollow'
           /\ \A o \in TopLevel : Born(o, End)' <=> Born(o, End)
           /\ \A o \in TopLevel : Known(o, End)' <=> Known(o, End)
<1> USE DEF ToplevelsInv
<1>0. Grown(s) /\ UNCHANGED <<resources, open>>
  BY DEF Tidings
<1>n. PICK n \in Nat \ {0}, m \in 1..(Len(s) + 1) :
             /\ m = Len(s) + 1 /\ n = Len(events) + m /\ n = End'
             /\ \A i \in DOMAIN s : i < m
             /\ \A o : /\ Known(o, n)' <=> Known(o, End)'
                       /\ Gone(o, n)' <=> Gone(o, End)'
                       /\ Born(o, n)' <=> Born(o, End)'
             /\ \A a, o, v : Heard(a, o, v, n)' <=> Heard(a, o, v, End)'
  BY <1>0, EndGrown
<1>1. Announced'
  BY <1>0, AnnouncedKept DEF Tidings
<1>2. \A i \in 1..(Len(s) + 1) : \A k : k = Len(events) + i =>
        \A o : /\ Born(o, k)' <=> Born(o, End)
               /\ Gone(o, k)' <=> Gone(o, End)
               /\ Known(o, k)' <=> Known(o, End)
  <2> SUFFICES ASSUME NEW i \in 1..(Len(s) + 1), NEW k, k = Len(events) + i, NEW o
               PROVE  /\ Born(o, k)' <=> Born(o, End)
                      /\ Gone(o, k)' <=> Gone(o, End)
                      /\ Known(o, k)' <=> Known(o, End)
    OBVIOUS
  <2>1. /\ Born(o, k)' <=> Born(o, End) \/ \E j \in DOMAIN s : j < i /\ Creates(s[j], o)
        /\ Gone(o, k)' <=> Gone(o, End) \/ \E j \in DOMAIN s : j < i /\ Closes(s[j], o)
    BY <1>0, RecentGrown
  <2>2. \A j \in DOMAIN s : ~Creates(s[j], o) /\ ~Closes(s[j], o)
    BY DEF Tidings, Creates, Closes
  <2> QED
    BY <1>0, <2>1, <2>2 DEF Known, Grown
<1>3. EventsFind'
  <2> SUFFICES ASSUME NEW k \in DOMAIN events', NEW o \in TopLevel, About(events'[k], o) PROVE Known(o, k)'
    BY DEF EventsFind, About
  <2>0. /\ \A j \in DOMAIN events : events'[j] = events[j] /\ j \in Nat /\ j <= Len(events) + 1
        /\ \A i \in DOMAIN s : events'[Len(events) + i] = s[i] /\ i \in 1..(Len(s) + 1)
        /\ \A j \in DOMAIN events' : j \in DOMAIN events \/ \E i \in DOMAIN s : j = Len(events) + i
    BY <1>0, EventsGrown
  <2>1. CASE k \in DOMAIN events
    <3>1. Known(o, k)
      BY <2>0, <2>1 DEF EventsFind
    <3> QED
      BY <1>0, <2>0, <2>1, <3>1, PastGrown
  <2>2. CASE k \notin DOMAIN events
    <3>1. PICK i \in DOMAIN s : k = Len(events) + i
      BY <2>0, <2>2
    <3>2. o \in resources /\ o.win \in open
      BY <2>0, <3>1 DEF Tidings, About
    <3>3. Known(o, End)
      BY <3>2 DEF TruthFollows
    <3> QED
      BY <1>2, <2>0, <3>1, <3>3
  <2> QED
    BY <2>1, <2>2
<1>4. \A o : /\ Born(o, End)' <=> Born(o, End)
             /\ Gone(o, End)' <=> Gone(o, End)
             /\ Known(o, End)' <=> Known(o, End)
  BY <1>2, <1>n
<1>5. TruthFollows'
  BY <1>0, <1>4 DEF TruthFollows
<1>6. DetailsFollow'
  <2> SUFFICES ASSUME NEW o \in resources, o.win \in open, NEW a \in Aspects, NEW v, v = Actual(a, o)'
               PROVE  Heard(a, o, v, n)'
    <3>1. \A o \in resources', a \in Aspects : \A v : o.win \in open' /\ v = Actual(a, o)' => Heard(a, o, v, End)'
      BY <1>0, <1>n
    <3>2. \A o \in resources', a \in Aspects : o.win \in open' => Heard(a, o, Actual(a, o), End)'
      BY <3>1 DEF Heard, Silent, Tells, Told, OnOff
    <3> QED
      BY <3>2 DEF DetailsFollow
  <2>1. CASE \A i \in DOMAIN s : ~Tells(s[i], a, o)
    <3>1. Actual(a, o) = v
      BY <2>1 DEF Tidings
    <3>2. Heard(a, o, v, End)
      BY <3>1 DEF DetailsFollow
    <3> QED
      BY <1>0, <1>n, <2>1, <3>2, HeardKept
  <2>2. CASE \E i \in DOMAIN s : Tells(s[i], a, o)
    <3>1. PICK i \in DOMAIN s : Tells(s[i], a, o)
      BY <2>2
    <3>2. Told(s[i]) = v /\ \A j \in DOMAIN s : Tells(s[j], a, o) => j = i
      BY <3>1 DEF Tidings
    <3>3. DOMAIN s \subseteq Nat
      BY <1>0, EventsGrown
    <3> QED
      BY <1>0, <1>n, <3>1, <3>2, <3>3, HeardNew
  <2> QED
    BY <2>1, <2>2
<1> QED
  BY <1>1, <1>3, <1>4, <1>5, <1>6

\* The details of an object.
LEMMA DetailsOfOne ==
    ASSUME NEW o \in TopLevel, names'[o.win] \in Titles
    PROVE  /\ Details(o)[1] \in Message /\ Details(o)[2] \in Message
           /\ Details(o)[3] \in Message /\ Details(o)[4] \in Message
           /\ Creates(Details(o)[1], o)
           /\ Tells(Details(o)[2], "title", o) /\ Told(Details(o)[2]) = names'[o.win]
           /\ Tells(Details(o)[3], "state", o) /\ Told(Details(o)[3]) = OnOff(o.win \in focus')
           /\ Completes(Details(o)[4], o)
<1>1. /\ Details(o)[1] = Event("toplevel", o) /\ Details(o)[2] = TitleEvent(o, names'[o.win])
      /\ Details(o)[4] = Event("done", o)
  BY DEF Details
<1>2. PICK b \in BOOLEAN : Details(o)[3] = StateEvent(o, b) /\ (b <=> o.win \in focus')
  <2>1. Details(o)[3] = StateEvent(o, o.win \in focus')
    BY DEF Details
  <2>2. CASE o.win \in focus'
    <3>1. (o.win \in focus') = TRUE
      BY <2>2
    <3>2. Details(o)[3] = StateEvent(o, TRUE)
      BY <2>1, <3>1, Zenon
    <3> QED
      BY <2>2, <3>2
  <2>3. CASE o.win \notin focus'
    <3>1. (o.win \in focus') = FALSE
      BY <2>3
    <3>2. Details(o)[3] = StateEvent(o, FALSE)
      BY <2>1, <3>1, Zenon
    <3> QED
      BY <2>3, <3>2
  <2> QED
    BY <2>2, <2>3
<1>3. StateEvent(o, b) \in Message /\ Tells(StateEvent(o, b), "state", o)
  BY DEF StateEvent, Message, Tells
<1>4. Told(StateEvent(o, b)) = OnOff(o.win \in focus')
  BY <1>2 DEF StateEvent, Told, OnOff
<1>5. /\ Event("toplevel", o) \in Message /\ Event("done", o) \in Message
      /\ TitleEvent(o, names'[o.win]) \in Message
      /\ Tells(TitleEvent(o, names'[o.win]), "title", o) /\ Told(TitleEvent(o, names'[o.win])) = names'[o.win]
      /\ Creates(Event("toplevel", o), o) /\ Completes(Event("done", o), o)
  BY DEF Event, TitleEvent, Message, Tells, Told, Creates, Completes
<1> QED
  BY <1>1, <1>2, <1>3, <1>4, <1>5

LEMMA Quarter ==
    ASSUME NEW k \in Int, NEW d \in Int, d <= k + 3, k + 3 < d + 4
    PROVE  k = d - 3 \/ k = d - 2 \/ k = d - 1 \/ k = d
OBVIOUS

\* The details of the objects in q, four events for each.
LEMMA DetailsOf ==
    ASSUME NEW q \in Seq(TopLevel), \A i \in DOMAIN q : names'[q[i].win] \in Titles
    PROVE  /\ AllDetails(q) \in Seq(Message)
           /\ \A i \in DOMAIN q :
                /\ 4 * i - 3 \in DOMAIN AllDetails(q) /\ 4 * i - 2 \in DOMAIN AllDetails(q)
                /\ 4 * i - 1 \in DOMAIN AllDetails(q) /\ 4 * i \in DOMAIN AllDetails(q)
                /\ Creates(AllDetails(q)[4 * i - 3], q[i])
                /\ Tells(AllDetails(q)[4 * i - 2], "title", q[i])
                /\ Told(AllDetails(q)[4 * i - 2]) = names'[q[i].win]
                /\ Tells(AllDetails(q)[4 * i - 1], "state", q[i])
                /\ Told(AllDetails(q)[4 * i - 1]) = OnOff(q[i].win \in focus')
                /\ Completes(AllDetails(q)[4 * i], q[i])
           /\ \A k \in DOMAIN AllDetails(q) :
                \E i \in DOMAIN q : k = 4 * i - 3 \/ k = 4 * i - 2 \/ k = 4 * i - 1 \/ k = 4 * i
<1> DEFINE s == AllDetails(q)
<1>1. Len(q) \in Nat /\ DOMAIN q = 1..Len(q) /\ \A i \in DOMAIN q : q[i] \in TopLevel
  BY LenProperties, ElementOfSeq
<1>2. DOMAIN s = 1..(4 * Len(q))
  BY DEF AllDetails
<1>3. ASSUME NEW i \in DOMAIN q, NEW d \in 0..3
      PROVE  /\ 4 * i - d \in DOMAIN s
             /\ s[4 * i - d] = Details(q[i])[4 - d]
  <2>1. 4 * i - d \in 1..(4 * Len(q))
    BY <1>1
  <2>2. ((4 * i - d) + 3) \div 4 = i
    BY <1>1
  <2>3. (4 * i - d) - 4 * (i - 1) = 4 - d
    BY <1>1
  <2>4. s[4 * i - d] = Details(q[((4 * i - d) + 3) \div 4])[(4 * i - d) - 4 * (((4 * i - d) + 3) \div 4 - 1)]
    BY <2>1 DEF AllDetails
  <2> QED
    BY <1>2, <2>1, <2>2, <2>3, <2>4
<1>4. ASSUME NEW i \in DOMAIN q
      PROVE  /\ 4 * i - 3 \in DOMAIN s /\ 4 * i - 2 \in DOMAIN s
             /\ 4 * i - 1 \in DOMAIN s /\ 4 * i \in DOMAIN s
             /\ s[4 * i - 3] = Details(q[i])[1]
             /\ s[4 * i - 2] = Details(q[i])[2]
             /\ s[4 * i - 1] = Details(q[i])[3]
             /\ s[4 * i] = Details(q[i])[4]
  <2>2. 3 \in 0..3 /\ 2 \in 0..3 /\ 1 \in 0..3 /\ 0 \in 0..3 /\ 4 - 3 = 1 /\ 4 - 2 = 2 /\ 4 - 1 = 3 /\ 4 - 0 = 4
        /\ 4 * i - 0 = 4 * i
    BY <1>1
  <2> HIDE DEF s
  <2>3. 4 * i - 3 \in DOMAIN s /\ s[4 * i - 3] = Details(q[i])[1]
    BY <1>3, <2>2
  <2>4. 4 * i - 2 \in DOMAIN s /\ s[4 * i - 2] = Details(q[i])[2]
    BY <1>3, <2>2
  <2>5. 4 * i - 1 \in DOMAIN s /\ s[4 * i - 1] = Details(q[i])[3]
    BY <1>3, <2>2
  <2>6. 4 * i \in DOMAIN s /\ s[4 * i] = Details(q[i])[4]
    BY <1>3, <2>2
  <2> QED
    BY <2>3, <2>4, <2>5, <2>6
<1>5. ASSUME NEW k \in DOMAIN s
      PROVE  \E i \in DOMAIN q : k = 4 * i - 3 \/ k = 4 * i - 2 \/ k = 4 * i - 1 \/ k = 4 * i
  <2>1. k \in 1..(4 * Len(q))
    BY <1>2
  <2> DEFINE i == (k + 3) \div 4
  <2>2. i \in Int /\ 4 * i <= k + 3 /\ k + 3 < 4 * i + 4
    BY <1>1, <2>1
  <2> HIDE DEF i, s
  <2>3. i \in DOMAIN q
    BY <1>1, <2>1, <2>2
  <2>4. k = 4 * i - 3 \/ k = 4 * i - 2 \/ k = 4 * i - 1 \/ k = 4 * i
    <3>1. k \in Int
      BY <1>1, <2>1
    <3>2. PICK d \in Int : d = 4 * i
      BY <2>2
    <3>3. d <= k + 3 /\ k + 3 < d + 4
      BY <2>2, <3>2
    <3>4. k = d - 3 \/ k = d - 2 \/ k = d - 1 \/ k = d
      BY <3>1, <3>3, Quarter
    <3> QED
      BY <3>2, <3>4
  <2> QED
    BY <2>3, <2>4
<1>6. s \in Seq(Message)
  <2>1. \A k \in 1..(4 * Len(q)) : s[k] \in Message
    <3> SUFFICES ASSUME NEW k \in DOMAIN s PROVE s[k] \in Message
      BY <1>2
    <3>1. PICK i \in DOMAIN q : k = 4 * i - 3 \/ k = 4 * i - 2 \/ k = 4 * i - 1 \/ k = 4 * i
      BY <1>5
    <3>2. q[i] \in TopLevel /\ names'[q[i].win] \in Titles
      BY <1>1
    <3>3. /\ Details(q[i])[1] \in Message /\ Details(q[i])[2] \in Message
          /\ Details(q[i])[3] \in Message /\ Details(q[i])[4] \in Message
      BY <1>1, DetailsOfOne
    <3> HIDE DEF s
    <3> QED
      BY <1>4, <3>1, <3>3
  <2>2. 4 * Len(q) \in Nat
    BY <1>1
  <2>3. s = [k \in 1..(4 * Len(q)) |-> s[k]]
    BY DEF AllDetails
  <2> HIDE DEF s
  <2> QED
    BY <2>1, <2>2, <2>3, IsASeq
<1>7. \A i \in DOMAIN q :
        /\ Creates(Details(q[i])[1], q[i])
        /\ Tells(Details(q[i])[2], "title", q[i]) /\ Told(Details(q[i])[2]) = names'[q[i].win]
        /\ Tells(Details(q[i])[3], "state", q[i]) /\ Told(Details(q[i])[3]) = OnOff(q[i].win \in focus')
        /\ Completes(Details(q[i])[4], q[i])
  BY <1>1, DetailsOfOne
<1> HIDE DEF s
<1>8. /\ s \in Seq(Message)
      /\ \A i \in DOMAIN q :
           /\ 4 * i - 3 \in DOMAIN s /\ 4 * i - 2 \in DOMAIN s
           /\ 4 * i - 1 \in DOMAIN s /\ 4 * i \in DOMAIN s
           /\ Creates(s[4 * i - 3], q[i])
           /\ Tells(s[4 * i - 2], "title", q[i]) /\ Told(s[4 * i - 2]) = names'[q[i].win]
           /\ Tells(s[4 * i - 1], "state", q[i]) /\ Told(s[4 * i - 1]) = OnOff(q[i].win \in focus')
           /\ Completes(s[4 * i], q[i])
      /\ \A k \in DOMAIN s :
           \E i \in DOMAIN q : k = 4 * i - 3 \/ k = 4 * i - 2 \/ k = 4 * i - 1 \/ k = 4 * i
  BY <1>4, <1>5, <1>6, <1>7
<1> QED
  BY <1>8 DEF s

\* What the compositor does not have is nowhere.
LEMMA Unheard ==
    ASSUME TypesOK, TablesMatch, Announced, EventsFind, NEW o \in TopLevel, o \notin resources
    PROVE  o \notin handlers /\ \A k : ~Born(o, k) /\ ~Gone(o, k)
<1>1. o \notin handlers
  BY DEF TablesMatch
<1>2. \A j \in DOMAIN events : ~Creates(events[j], o)
  BY DEF Announced
<1>3. \A j \in DOMAIN events : ~Closes(events[j], o)
  BY <1>1, <1>2 DEF EventsFind, Closes, About, Known, Born
<1> QED
  BY <1>1, <1>2, <1>3 DEF Born, Gone

\* The compositor makes the objects in q and gives their details.
Fresh(q, s) ==
    /\ Grown(s)
    /\ s = AllDetails(q) /\ q \in Seq(TopLevel)
    /\ \A i \in DOMAIN q : q[i] \notin resources /\ q[i].win \in open'
    /\ \A i, j \in DOMAIN q : q[i] = q[j] => i = j
    /\ \A o : o \in resources' <=> o \in resources \/ \E i \in DOMAIN q : q[i] = o
    /\ \A o \in resources : o.win \in open' <=> o.win \in open
    /\ \A o \in resources, a \in Aspects : Actual(a, o)' = Actual(a, o)

\* What it tells: four events of each object, at known places.
LEMMA FreshTells ==
    ASSUME TypesOK, TypesOK', NEW q, NEW s, Fresh(q, s)
    PROVE  /\ \A i \in DOMAIN q : q[i] \in TopLevel /\ q[i] \in resources' /\ i \in Nat \ {0}
           /\ \A i \in DOMAIN q :
                /\ 4 * i - 3 \in DOMAIN s /\ 4 * i - 2 \in DOMAIN s
                /\ 4 * i - 1 \in DOMAIN s /\ 4 * i \in DOMAIN s
                /\ Creates(s[4 * i - 3], q[i])
                /\ Tells(s[4 * i - 2], "title", q[i]) /\ Told(s[4 * i - 2]) = names'[q[i].win]
                /\ Tells(s[4 * i - 1], "state", q[i]) /\ Told(s[4 * i - 1]) = OnOff(q[i].win \in focus')
                /\ Completes(s[4 * i], q[i])
           /\ \A k \in DOMAIN s :
                \E i \in DOMAIN q : k = 4 * i - 3 \/ k = 4 * i - 2 \/ k = 4 * i - 1 \/ k = 4 * i
           /\ \A k \in DOMAIN s, o \in TopLevel :
                /\ Creates(s[k], o) => \E i \in DOMAIN q : k = 4 * i - 3 /\ o = q[i]
                /\ ~Closes(s[k], o)
                /\ About(s[k], o) => \E i \in DOMAIN q : 4 * i - 3 < k /\ o = q[i]
           /\ \A k \in DOMAIN s, i \in DOMAIN q :
                /\ Tells(s[k], "title", q[i]) <=> k = 4 * i - 2
                /\ Tells(s[k], "state", q[i]) <=> k = 4 * i - 1
           /\ \A k \in DOMAIN s, o \in resources, a \in Aspects : ~Tells(s[k], a, o)
<1>1. \A i \in DOMAIN q : q[i] \in TopLevel /\ q[i] \in resources' /\ i \in Nat \ {0}
  BY LenProperties, ElementOfSeq DEF Fresh
<1>2. \A i \in DOMAIN q : names'[q[i].win] \in Titles
  <2> SUFFICES ASSUME NEW i \in DOMAIN q PROVE names'[q[i].win] \in Titles
    OBVIOUS
  <2>1. q[i].win \in DOMAIN names' /\ names' \in Seq(Titles)
    BY DEF Fresh, TypesOK, LibTypeOK
  <2> QED
    BY <2>1, ElementOfSeq, LenProperties
<1>3. /\ \A i \in DOMAIN q :
           /\ 4 * i - 3 \in DOMAIN s /\ 4 * i - 2 \in DOMAIN s
           /\ 4 * i - 1 \in DOMAIN s /\ 4 * i \in DOMAIN s
           /\ Creates(s[4 * i - 3], q[i])
           /\ Tells(s[4 * i - 2], "title", q[i]) /\ Told(s[4 * i - 2]) = names'[q[i].win]
           /\ Tells(s[4 * i - 1], "state", q[i]) /\ Told(s[4 * i - 1]) = OnOff(q[i].win \in focus')
           /\ Completes(s[4 * i], q[i])
      /\ \A k \in DOMAIN s :
           \E i \in DOMAIN q : k = 4 * i - 3 \/ k = 4 * i - 2 \/ k = 4 * i - 1 \/ k = 4 * i
  BY <1>2, DetailsOf DEF Fresh
<1>4. \A k \in DOMAIN s, o \in TopLevel :
        /\ Creates(s[k], o) => \E i \in DOMAIN q : k = 4 * i - 3 /\ o = q[i]
        /\ ~Closes(s[k], o)
        /\ About(s[k], o) => \E i \in DOMAIN q : 4 * i - 3 < k /\ o = q[i]
  <2> SUFFICES ASSUME NEW k \in DOMAIN s, NEW o \in TopLevel
               PROVE  /\ Creates(s[k], o) => \E i \in DOMAIN q : k = 4 * i - 3 /\ o = q[i]
                      /\ ~Closes(s[k], o)
                      /\ About(s[k], o) => \E i \in DOMAIN q : 4 * i - 3 < k /\ o = q[i]
    OBVIOUS
  <2>1. PICK i \in DOMAIN q : k = 4 * i - 3 \/ k = 4 * i - 2 \/ k = 4 * i - 1 \/ k = 4 * i
    BY <1>3
  <2>2. CASE k = 4 * i - 3
    <3>1. s[k].ev = "toplevel" /\ s[k].obj = q[i]
      BY <1>3, <2>2 DEF Creates
    <3> QED
      BY <2>2, <3>1 DEF Creates, Closes, About
  <2>3. CASE k = 4 * i - 2 \/ k = 4 * i - 1 \/ k = 4 * i
    <3>0. /\ s[4 * i - 2].ev = "title" /\ s[4 * i - 2].obj = q[i]
          /\ s[4 * i - 1].ev = "state" /\ s[4 * i - 1].obj = q[i]
          /\ s[4 * i].ev = "done" /\ s[4 * i].obj = q[i]
      BY <1>3 DEF Tells, Completes
    <3>1. s[k].ev \in {"title", "state", "done"} /\ s[k].obj = q[i]
      BY <2>3, <3>0
    <3>2. 4 * i - 3 < k
      BY <1>1, <2>3
    <3> QED
      BY <3>1, <3>2 DEF Creates, Closes, About
  <2> QED
    BY <2>1, <2>2, <2>3
<1>5. \A k \in DOMAIN s, i \in DOMAIN q :
        /\ Tells(s[k], "title", q[i]) <=> k = 4 * i - 2
        /\ Tells(s[k], "state", q[i]) <=> k = 4 * i - 1
  <2> SUFFICES ASSUME NEW k \in DOMAIN s, NEW i \in DOMAIN q
               PROVE  /\ Tells(s[k], "title", q[i]) <=> k = 4 * i - 2
                      /\ Tells(s[k], "state", q[i]) <=> k = 4 * i - 1
    OBVIOUS
  <2>1. PICK j \in DOMAIN q : k = 4 * j - 3 \/ k = 4 * j - 2 \/ k = 4 * j - 1 \/ k = 4 * j
    BY <1>3
  <2>2. q[j] = q[i] => j = i
    BY DEF Fresh
  <2>3. i \in Nat /\ j \in Nat
    BY <1>1
  <2>4. CASE k = 4 * j - 3
    <3>1. s[k].ev = "toplevel"
      BY <1>3, <2>4 DEF Creates
    <3>2. k # 4 * i - 2 /\ k # 4 * i - 1
      BY <2>3, <2>4
    <3> QED
      BY <3>1, <3>2 DEF Tells
  <2>5. CASE k = 4 * j - 2
    <3>1. s[k].ev = "title" /\ s[k].obj = q[j]
      BY <1>3, <2>5 DEF Tells
    <3>2. (k = 4 * i - 2 <=> i = j) /\ k # 4 * i - 1
      BY <2>3, <2>5
    <3> QED
      BY <2>2, <3>1, <3>2 DEF Tells
  <2>6. CASE k = 4 * j - 1
    <3>1. s[k].ev = "state" /\ s[k].obj = q[j]
      BY <1>3, <2>6 DEF Tells
    <3>2. (k = 4 * i - 1 <=> i = j) /\ k # 4 * i - 2
      BY <2>3, <2>6
    <3> QED
      BY <2>2, <3>1, <3>2 DEF Tells
  <2>7. CASE k = 4 * j
    <3>1. s[k].ev = "done"
      BY <1>3, <2>7 DEF Completes
    <3>2. k # 4 * i - 2 /\ k # 4 * i - 1
      BY <2>3, <2>7
    <3> QED
      BY <3>1, <3>2 DEF Tells
  <2> QED
    BY <2>1, <2>4, <2>5, <2>6, <2>7
<1>6. \A k \in DOMAIN s, o \in resources, a \in Aspects : ~Tells(s[k], a, o)
  <2> SUFFICES ASSUME NEW k \in DOMAIN s, NEW o \in resources, NEW a \in Aspects, Tells(s[k], a, o) PROVE FALSE
    OBVIOUS
  <2>1. o \in TopLevel /\ About(s[k], o)
    BY DEF TypesOK, LibTypeOK, Tells, About, Aspects
  <2>2. PICK i \in DOMAIN q : o = q[i]
    BY <1>4, <2>1
  <2> QED
    BY <2>2 DEF Fresh
<1> QED
  BY <1>1, <1>3, <1>4, <1>5, <1>6

\* What was there before one of them.
LEMMA FreshPast ==
    ASSUME TypesOK, TypesOK', NEW q, NEW s, Fresh(q, s), NEW i \in 1..(Len(s) + 1), NEW k, k = Len(events) + i,
           NEW o \in TopLevel
    PROVE  /\ Born(o, k)' <=> Born(o, End) \/ \E j \in DOMAIN q : 4 * j - 3 < i /\ q[j] = o
           /\ Gone(o, k)' <=> Gone(o, End)
<1>0. Grown(s)
  BY DEF Fresh
<1>1. /\ Born(o, k)' <=> Born(o, End) \/ \E j \in DOMAIN s : j < i /\ Creates(s[j], o)
      /\ Gone(o, k)' <=> Gone(o, End) \/ \E j \in DOMAIN s : j < i /\ Closes(s[j], o)
  BY <1>0, RecentGrown
<1>2. \A j \in DOMAIN q : 4 * j - 3 \in DOMAIN s /\ Creates(s[4 * j - 3], q[j])
  BY FreshTells
<1>3. \A h \in DOMAIN s : Creates(s[h], o) => \E j \in DOMAIN q : h = 4 * j - 3 /\ o = q[j]
  BY FreshTells
<1>4. (\E j \in DOMAIN s : j < i /\ Creates(s[j], o)) <=> \E j \in DOMAIN q : 4 * j - 3 < i /\ q[j] = o
  BY <1>2, <1>3
<1>5. \A h \in DOMAIN s : ~Closes(s[h], o)
  BY FreshTells
<1> QED
  BY <1>1, <1>4, <1>5

LEMMA FreshKeeps ==
    ASSUME ToplevelsInv, TypesOK', NEW q, NEW s, Fresh(q, s),
           \A o \in resources : DestroyAsked(o) => DestroyAsked(o)'
    PROVE  /\ Announced' /\ EventsFind' /\ TruthFollows' /\ DetailsFollow'
           /\ \A o \in TopLevel : Born(o, End)' <=> Born(o, End) \/ \E i \in DOMAIN q : q[i] = o
           /\ \A o \in TopLevel : Known(o, End)' <=> Known(o, End) \/ \E i \in DOMAIN q : q[i] = o
<1> USE DEF ToplevelsInv
<1>0. Grown(s) /\ handlers' = handlers
  BY DEF Fresh, Grown
<1>n. PICK n \in Nat \ {0}, m \in 1..(Len(s) + 1) :
             /\ m = Len(s) + 1 /\ n = Len(events) + m /\ n = End'
             /\ \A i \in DOMAIN s : i < m
             /\ \A o : /\ Known(o, n)' <=> Known(o, End)'
                       /\ Gone(o, n)' <=> Gone(o, End)'
                       /\ Born(o, n)' <=> Born(o, End)'
             /\ \A a, o, v : Heard(a, o, v, n)' <=> Heard(a, o, v, End)'
  BY <1>0, EndGrown
<1>1. \A i \in DOMAIN q : q[i] \in TopLevel /\ q[i] \in resources' /\ i \in Nat \ {0}
  BY FreshTells
<1>3. /\ \A i \in DOMAIN q :
           /\ 4 * i - 3 \in DOMAIN s /\ 4 * i - 2 \in DOMAIN s
           /\ 4 * i - 1 \in DOMAIN s /\ 4 * i \in DOMAIN s
           /\ Creates(s[4 * i - 3], q[i])
           /\ Tells(s[4 * i - 2], "title", q[i]) /\ Told(s[4 * i - 2]) = names'[q[i].win]
           /\ Tells(s[4 * i - 1], "state", q[i]) /\ Told(s[4 * i - 1]) = OnOff(q[i].win \in focus')
           /\ Completes(s[4 * i], q[i])
      /\ \A k \in DOMAIN s :
           \E i \in DOMAIN q : k = 4 * i - 3 \/ k = 4 * i - 2 \/ k = 4 * i - 1 \/ k = 4 * i
  BY FreshTells
<1>4. \A k \in DOMAIN s, o \in TopLevel :
        /\ Creates(s[k], o) => \E i \in DOMAIN q : k = 4 * i - 3 /\ o = q[i]
        /\ ~Closes(s[k], o)
        /\ About(s[k], o) => \E i \in DOMAIN q : 4 * i - 3 < k /\ o = q[i]
  BY FreshTells
<1>5. \A k \in DOMAIN s, i \in DOMAIN q :
        /\ Tells(s[k], "title", q[i]) <=> k = 4 * i - 2
        /\ Tells(s[k], "state", q[i]) <=> k = 4 * i - 1
  BY FreshTells
<1>6. \A k \in DOMAIN s, o \in resources, a \in Aspects : ~Tells(s[k], a, o)
  BY FreshTells
<1>7. \A i \in DOMAIN q : q[i] \notin handlers /\ ~Born(q[i], End) /\ ~Gone(q[i], End)
  BY <1>1, Unheard DEF Fresh
<1>8. /\ \A j \in DOMAIN events : events'[j] = events[j] /\ j \in Nat /\ j <= Len(events) + 1 /\ j \in DOMAIN events'
      /\ \A i \in DOMAIN s : events'[Len(events) + i] = s[i] /\ i \in 1..(Len(s) + 1) /\ Len(events) + i \in DOMAIN events'
      /\ \A j \in DOMAIN events' : j \in DOMAIN events \/ \E i \in DOMAIN s : j = Len(events) + i
      /\ Len(events) \in Nat /\ DOMAIN events = 1..Len(events)
  BY <1>0, EventsGrown
<1>9. Announced'
  <2> SUFFICES ASSUME NEW k \in DOMAIN events', NEW o \in TopLevel, Creates(events'[k], o)
               PROVE  /\ o \in resources' \ handlers'
                      /\ \A j \in DOMAIN events' : Creates(events'[j], o) => j = k
                      /\ k + 3 \in DOMAIN events'
                      /\ Tells(events'[k + 1], "title", o) /\ Tells(events'[k + 2], "state", o)
                      /\ Completes(events'[k + 3], o)
    BY DEF Announced, Creates, Tells, Completes
  <2>1. CASE k \in DOMAIN events
    <3>1. /\ o \in resources \ handlers
          /\ \A j \in DOMAIN events : Creates(events[j], o) => j = k
          /\ k + 3 \in DOMAIN events
          /\ Tells(events[k + 1], "title", o) /\ Tells(events[k + 2], "state", o)
          /\ Completes(events[k + 3], o)
      BY <1>8, <2>1 DEF Announced
    <3>2. k + 1 \in DOMAIN events /\ k + 2 \in DOMAIN events
      BY <1>8, <2>1, <3>1
    <3>3. \A i \in DOMAIN s : ~Creates(s[i], o)
      BY <1>4, <3>1 DEF Fresh
    <3>4. \A j \in DOMAIN events' : Creates(events'[j], o) => j = k
      BY <1>8, <3>1, <3>3
    <3>5. o \in resources'
      BY <3>1 DEF Fresh
    <3> QED
      BY <1>0, <1>8, <3>1, <3>2, <3>4, <3>5
  <2>2. CASE k \notin DOMAIN events
    <3>1. PICK h \in DOMAIN s : k = Len(events) + h
      BY <1>8, <2>2
    <3>2. PICK i \in DOMAIN q : h = 4 * i - 3 /\ o = q[i]
      BY <1>4, <1>8, <3>1
    <3>3. \A j \in DOMAIN events : ~Creates(events[j], o)
      BY <3>2 DEF Announced, Fresh
    <3>4. \A j \in DOMAIN s : Creates(s[j], o) => j = h
      BY <1>4, <3>2 DEF Fresh
    <3>5. \A j \in DOMAIN events' : Creates(events'[j], o) => j = k
      BY <1>8, <3>1, <3>3, <3>4
    <3>6. /\ k + 1 = Len(events) + (4 * i - 2) /\ k + 2 = Len(events) + (4 * i - 1)
          /\ k + 3 = Len(events) + 4 * i
      BY <1>1, <1>8, <3>1, <3>2
    <3>7. /\ events'[k + 1] = s[4 * i - 2] /\ events'[k + 2] = s[4 * i - 1]
          /\ events'[k + 3] = s[4 * i] /\ k + 3 \in DOMAIN events'
      BY <1>3, <1>8, <3>6
    <3>8. /\ Tells(events'[k + 1], "title", o) /\ Tells(events'[k + 2], "state", o)
          /\ Completes(events'[k + 3], o)
      BY <1>3, <3>2, <3>7
    <3> QED
      BY <1>0, <1>1, <1>7, <3>2, <3>5, <3>7, <3>8
  <2> QED
    BY <2>1, <2>2
<1>10. \A i \in 1..(Len(s) + 1) : \A k : k = Len(events) + i => \A o \in TopLevel :
         /\ Born(o, k)' <=> Born(o, End) \/ \E j \in DOMAIN q : 4 * j - 3 < i /\ q[j] = o
         /\ Gone(o, k)' <=> Gone(o, End)
  BY FreshPast
<1>11. EventsFind'
  <2> SUFFICES ASSUME NEW k \in DOMAIN events', NEW o \in TopLevel, About(events'[k], o) PROVE Known(o, k)'
    BY DEF EventsFind, About
  <2>1. CASE k \in DOMAIN events
    <3>1. Known(o, k)
      BY <1>8, <2>1 DEF EventsFind
    <3> QED
      BY <1>0, <1>8, <2>1, <3>1, PastGrown
  <2>2. CASE k \notin DOMAIN events
    <3>1. PICK h \in DOMAIN s : k = Len(events) + h
      BY <1>8, <2>2
    <3>2. PICK i \in DOMAIN q : 4 * i - 3 < h /\ o = q[i]
      BY <1>4, <1>8, <3>1
    <3>3. Born(o, k)' /\ ~Gone(o, k)'
      BY <1>7, <1>8, <1>10, <3>1, <3>2
    <3> QED
      BY <3>3 DEF Known
  <2> QED
    BY <2>1, <2>2
<1>12. \A o \in TopLevel : /\ Born(o, End)' <=> Born(o, End) \/ \E i \in DOMAIN q : q[i] = o
                           /\ Gone(o, End)' <=> Gone(o, End)
  <2>1. \A j \in DOMAIN q : 4 * j - 3 < m
    BY <1>3, <1>n
  <2>2. \A o \in TopLevel : /\ Born(o, n)' <=> Born(o, End) \/ \E i \in DOMAIN q : q[i] = o
                            /\ Gone(o, n)' <=> Gone(o, End)
    BY <1>10, <1>n, <2>1
  <2> QED
    BY <1>n, <2>2
<1>13. \A o \in TopLevel : Known(o, End)' <=> Known(o, End) \/ \E i \in DOMAIN q : q[i] = o
  <2>1. \A o \in TopLevel : Known(o, End)' <=> (o \in handlers \/ Born(o, End)') /\ ~Gone(o, End)'
    BY <1>0 DEF Known
  <2> QED
    BY <1>7, <1>12, <2>1 DEF Known
<1>14. TruthFollows'
  <2> SUFFICES ASSUME NEW o \in TopLevel
               PROVE  /\ Known(o, End)' <=> o \in resources' /\ o.win \in open'
                      /\ o \in resources' => Known(o, End)' \/ Gone(o, End)' \/ DestroyAsked(o)'
    BY DEF TruthFollows
  <2>1. CASE \E i \in DOMAIN q : q[i] = o
    BY <1>1, <1>13, <2>1 DEF Fresh
  <2>2. CASE ~\E i \in DOMAIN q : q[i] = o
    <3>1. o \in resources' <=> o \in resources
      BY <2>2 DEF Fresh
    <3>2. o \in resources => (o.win \in open' <=> o.win \in open)
      BY DEF Fresh
    <3>3. /\ Known(o, End) <=> o \in resources /\ o.win \in open
          /\ o \in resources => Known(o, End) \/ Gone(o, End) \/ DestroyAsked(o)
      BY DEF TruthFollows
    <3> QED
      BY <1>12, <1>13, <2>2, <3>1, <3>2, <3>3
  <2> QED
    BY <2>1, <2>2
<1>15. DetailsFollow'
  <2> SUFFICES ASSUME NEW o \in resources', o.win \in open', NEW a \in Aspects, NEW v, v = Actual(a, o)'
               PROVE  Heard(a, o, v, n)'
    <3>1. \A o \in resources', a \in Aspects : \A v : o.win \in open' /\ v = Actual(a, o)' => Heard(a, o, v, End)'
      BY <1>n
    <3>2. \A o \in resources', a \in Aspects : o.win \in open' => Heard(a, o, Actual(a, o), End)'
      BY <3>1 DEF Heard, Silent, Tells, Told, OnOff
    <3> QED
      BY <3>2 DEF DetailsFollow
  <2>1. CASE o \in resources
    <3>1. Actual(a, o) = v /\ o.win \in open
      BY <2>1 DEF Fresh
    <3>2. Heard(a, o, v, End)
      BY <2>1, <3>1 DEF DetailsFollow
    <3> QED
      BY <1>0, <1>n, <1>6, <2>1, <3>2, HeardKept
  <2>2. CASE o \notin resources
    <3>1. PICK i \in DOMAIN q : q[i] = o
      BY <2>2 DEF Fresh
    <3>2. CASE a = "title"
      <4>1. Tells(s[4 * i - 2], a, o) /\ Told(s[4 * i - 2]) = v
        BY <1>3, <3>1, <3>2 DEF Actual
      <4>2. \A j \in DOMAIN s : Tells(s[j], a, o) => j = 4 * i - 2
        BY <1>5, <3>1, <3>2
      <4>3. PICK h \in DOMAIN s : h = 4 * i - 2
        BY <1>3
      <4>4. \A j \in DOMAIN s : h < j /\ j < m => ~Tells(s[j], a, o)
        BY <1>1, <1>8, <4>2, <4>3
      <4> QED
        BY <1>0, <1>n, <4>1, <4>3, <4>4, HeardNew
    <3>3. CASE a = "state"
      <4>1. Tells(s[4 * i - 1], a, o) /\ Told(s[4 * i - 1]) = v
        BY <1>3, <3>1, <3>3 DEF Actual, OnOff
      <4>2. \A j \in DOMAIN s : Tells(s[j], a, o) => j = 4 * i - 1
        BY <1>5, <3>1, <3>3
      <4>3. PICK h \in DOMAIN s : h = 4 * i - 1
        BY <1>3
      <4>4. \A j \in DOMAIN s : h < j /\ j < m => ~Tells(s[j], a, o)
        BY <1>1, <1>8, <4>2, <4>3
      <4> QED
        BY <1>0, <1>n, <4>1, <4>3, <4>4, HeardNew
    <3> QED
      BY <3>2, <3>3 DEF Aspects
  <2> QED
    BY <2>1, <2>2
<1> QED
  BY <1>9, <1>11, <1>12, <1>13, <1>14, <1>15

\* A window is closed.
LEMMA ClosedKeeps ==
    ASSUME ToplevelsInv, TypesOK', NEW p \in resources, p.win \in open, NEW s,
           s = <<Event("closed", p)>>, Grown(s),
           UNCHANGED <<resources, names>>, open' = open \ {p.win}, focus' = focus \ {p.win},
           \A o \in resources : DestroyAsked(o) => DestroyAsked(o)'
    PROVE  /\ Announced' /\ EventsFind' /\ TruthFollows' /\ DetailsFollow'
           /\ \A o \in TopLevel : Born(o, End)' <=> Born(o, End)
<1> USE DEF ToplevelsInv
<1>p. p \in TopLevel
  BY DEF TypesOK, LibTypeOK
<1>s. /\ DOMAIN s = {1} /\ s[1].ev = "closed" /\ s[1].obj = p /\ 1 < Len(s) + 1 /\ 1 \in 1..(Len(s) + 1)
      /\ \A o, a : a \in Aspects => ~Tells(s[1], a, o)
      /\ \A o : (Closes(s[1], o) <=> o = p) /\ ~Creates(s[1], o)
  BY DEF Event, Tells, Aspects, Closes, Creates
<1>n. PICK n \in Nat \ {0}, m \in 1..(Len(s) + 1) :
             /\ m = Len(s) + 1 /\ n = Len(events) + m /\ n = End'
             /\ \A i \in DOMAIN s : i < m
             /\ \A o : /\ Known(o, n)' <=> Known(o, End)'
                       /\ Gone(o, n)' <=> Gone(o, End)'
                       /\ Born(o, n)' <=> Born(o, End)'
             /\ \A a, o, v : Heard(a, o, v, n)' <=> Heard(a, o, v, End)'
  BY EndGrown
<1>1. Announced'
  BY <1>s, AnnouncedKept
<1>2. Known(p, End)
  BY <1>p DEF TruthFollows
<1>3. EventsFind'
  <2> SUFFICES ASSUME NEW k \in DOMAIN events', NEW o \in TopLevel, About(events'[k], o) PROVE Known(o, k)'
    BY DEF EventsFind, About
  <2>0. /\ \A j \in DOMAIN events : events'[j] = events[j] /\ j \in Nat /\ j <= Len(events) + 1
        /\ \A i \in DOMAIN s : events'[Len(events) + i] = s[i]
        /\ \A j \in DOMAIN events' : j \in DOMAIN events \/ \E i \in DOMAIN s : j = Len(events) + i
        /\ Len(events) \in Nat
    BY EventsGrown
  <2>1. CASE k \in DOMAIN events
    <3>1. Known(o, k)
      BY <2>0, <2>1 DEF EventsFind
    <3> QED
      BY <2>0, <2>1, <3>1, PastGrown
  <2>2. CASE k \notin DOMAIN events
    <3>1. k = Len(events) + 1 /\ events'[k] = s[1] /\ k \in Nat
      BY <1>s, <2>0, <2>2
    <3>2. o = p
      BY <1>s, <3>1 DEF About
    <3>3. Known(o, k)
      BY <1>2, <3>1, <3>2 DEF End
    <3> QED
      BY <2>0, <3>1, <3>3, PastGrown
  <2> QED
    BY <2>1, <2>2
<1>4. \A o : /\ Born(o, End)' <=> Born(o, End)
             /\ Gone(o, End)' <=> Gone(o, End) \/ o = p
  <2>1. \A o : /\ Born(o, n)' <=> Born(o, End) \/ \E i \in DOMAIN s : i < m /\ Creates(s[i], o)
               /\ Gone(o, n)' <=> Gone(o, End) \/ \E i \in DOMAIN s : i < m /\ Closes(s[i], o)
    BY <1>n, RecentGrown
  <2>2. \A o : /\ Born(o, n)' <=> Born(o, End)
               /\ Gone(o, n)' <=> Gone(o, End) \/ o = p
    BY <1>n, <1>s, <2>1
  <2> QED
    BY <1>n, <2>2
<1>5. \A o : Known(o, End)' <=> Known(o, End) /\ o # p
  <2>1. \A o : Known(o, End)' <=> (o \in handlers \/ Born(o, End)') /\ ~Gone(o, End)'
    BY DEF Known, Grown
  <2> QED
    BY <1>4, <2>1 DEF Known
<1>6. \A o \in resources : o.win \in open' <=> o.win \in open /\ o # p
  BY DEF Apart
<1>7. TruthFollows'
  <2> SUFFICES ASSUME NEW o \in TopLevel
               PROVE  /\ Known(o, End)' <=> o \in resources /\ o.win \in open'
                      /\ o \in resources => Known(o, End)' \/ Gone(o, End)' \/ DestroyAsked(o)'
    BY DEF TruthFollows
  <2> QED
    BY <1>4, <1>5, <1>6 DEF TruthFollows
<1>8. DetailsFollow'
  <2> SUFFICES ASSUME NEW o \in resources, o.win \in open', NEW a \in Aspects, NEW v, v = Actual(a, o)'
               PROVE  Heard(a, o, v, n)'
    <3>1. \A o \in resources', a \in Aspects : \A v : o.win \in open' /\ v = Actual(a, o)' => Heard(a, o, v, End)'
      BY <1>n
    <3>2. \A o \in resources', a \in Aspects : o.win \in open' => Heard(a, o, Actual(a, o), End)'
      BY <3>1 DEF Heard, Silent, Tells, Told, OnOff
    <3> QED
      BY <3>2 DEF DetailsFollow
  <2>1. o.win \in focus' <=> o.win \in focus
    OBVIOUS
  <2>2. Actual(a, o) = v
    BY <2>1 DEF Actual, OnOff
  <2>3. Heard(a, o, v, End)
    BY <1>6, <2>2 DEF DetailsFollow
  <2>4. \A j \in DOMAIN s : j < m => ~Tells(s[j], a, o)
    BY <1>s
  <2> QED
    BY <1>n, <2>3, <2>4, HeardKept
<1> QED
  BY <1>1, <1>3, <1>4, <1>7, <1>8

-----------------------------------------------------------------------------
\* The requests, when the first is served.
LEMMA RequestsPopped ==
    ASSUME TypesOK, requests # <<>>, requests' = Tail(requests)
    PROVE  /\ requests' \in Seq(Request)
           /\ Len(requests) \in Nat \ {0} /\ Len(requests') = Len(requests) - 1
           /\ 1 \in DOMAIN requests /\ Head(requests) = requests[1] /\ requests[1] \in Request
           /\ DOMAIN requests = 1..Len(requests) /\ DOMAIN requests' = 1..Len(requests')
           /\ \A k \in DOMAIN requests' : k + 1 \in DOMAIN requests /\ requests'[k] = requests[k + 1] /\ k \in Nat \ {0}
           /\ \A k \in DOMAIN requests : k # 1 => k - 1 \in DOMAIN requests' /\ requests[k] = requests'[k - 1]
<1>1. requests \in Seq(Request)
  BY DEF TypesOK, LibTypeOK
<1>2. /\ requests' \in Seq(Request) /\ Len(requests') = Len(requests) - 1
      /\ \A k \in 1..Len(requests') : requests'[k] = requests[k + 1]
  BY <1>1, HeadTailProperties
<1>3. Len(requests) \in Nat \ {0}
  BY <1>1, EmptySeq, LenProperties
<1>4. DOMAIN requests = 1..Len(requests) /\ DOMAIN requests' = 1..Len(requests')
  BY <1>1, <1>2, LenProperties
<1>5. Head(requests) = requests[1] /\ requests[1] \in Request
  BY <1>1, <1>3, ElementOfSeq
<1> QED
  BY <1>2, <1>3, <1>4, <1>5

\* What is served is the bind, or that has been served.
LEMMA BoundServed ==
    ASSUME TypesOK, BoundFirst, NEW op, TakeRequest(op)
    PROVE  /\ \A k \in DOMAIN requests' : requests'[k].op # "bind"
           /\ op # "bind" => bound
           /\ op = "bind" => ~bound
<1>1. requests # <<>> /\ requests' = Tail(requests) /\ Head(requests).op = op
  BY DEF TakeRequest
<1> USE RequestsPopped, <1>1
<1>2. \A k \in DOMAIN requests : k # 1 => requests[k].op # "bind"
  BY DEF BoundFirst
<1>3. \A k \in DOMAIN requests' : requests'[k].op # "bind"
  <2> SUFFICES ASSUME NEW k \in DOMAIN requests' PROVE requests'[k].op # "bind"
    OBVIOUS
  <2>1. k + 1 \in DOMAIN requests /\ requests'[k] = requests[k + 1] /\ k + 1 # 1
    OBVIOUS
  <2> QED
    BY <1>2, <2>1
<1>4. requests[1].op = "bind" <=> ~bound
  <2>1. 1 \in DOMAIN requests
    OBVIOUS
  <2> QED
    BY <2>1 DEF BoundFirst
<1> QED
  BY <1>3, <1>4

LEMMA AskedServed ==
    ASSUME TypesOK, requests # <<>>, requests' = Tail(requests), NEW o, DestroyAsked(o),
           ~Destroys(Head(requests), o)
    PROVE  DestroyAsked(o)'
<1>1. PICK k \in DOMAIN requests : Destroys(requests[k], o)
  BY DEF DestroyAsked
<1>2. k # 1
  BY <1>1, RequestsPopped
<1>3. k - 1 \in DOMAIN requests' /\ Destroys(requests'[k - 1], o)
  BY <1>1, <1>2, RequestsPopped
<1> QED
  BY <1>3 DEF DestroyAsked, Destroys

LEMMA DestroysServed ==
    ASSUME TypesOK, DestroysFind, requests # <<>>, requests' = Tail(requests), handlers' = handlers,
           \A o \in resources : (Born(o, End)' => Born(o, End)) /\ (o \in resources' \/ Destroys(Head(requests), o))
    PROVE  DestroysFind'
<1> USE RequestsPopped
<1> SUFFICES ASSUME NEW k \in DOMAIN requests', requests'[k].op \in Ops \cup {"destroy"},
                    NEW o, o = requests'[k].meant
             PROVE  /\ requests'[k].id = o.id
                    /\ requests'[k].op = "destroy" =>
                         /\ o \in resources' \ handlers' /\ ~Born(o, End)'
                         /\ \A j \in DOMAIN requests' : Destroys(requests'[j], o) => j = k
  BY DEF DestroysFind, Destroys
<1>1. k + 1 \in DOMAIN requests /\ requests'[k] = requests[k + 1] /\ k \in Nat \ {0}
  OBVIOUS
<1>2. /\ requests[k + 1].id = o.id
      /\ requests[k + 1].op = "destroy" =>
           /\ o \in resources \ handlers /\ ~Born(o, End)
           /\ \A j \in DOMAIN requests : Destroys(requests[j], o) => j = k + 1
  BY <1>1 DEF DestroysFind
<1>3. ASSUME requests'[k].op = "destroy"
      PROVE  /\ o \in resources' \ handlers' /\ ~Born(o, End)'
             /\ \A j \in DOMAIN requests' : Destroys(requests'[j], o) => j = k
  <2>1. /\ o \in resources \ handlers /\ ~Born(o, End)
        /\ \A j \in DOMAIN requests : Destroys(requests[j], o) => j = k + 1
    BY <1>1, <1>2, <1>3
  <2>2. 1 \in DOMAIN requests /\ Head(requests) = requests[1]
    OBVIOUS
  <2>3. ~Destroys(Head(requests), o)
    BY <1>1, <2>1, <2>2
  <2>4. \A j \in DOMAIN requests' : Destroys(requests'[j], o) => j = k
    <3> SUFFICES ASSUME NEW j \in DOMAIN requests', Destroys(requests'[j], o) PROVE j = k
      OBVIOUS
    <3>1. j + 1 \in DOMAIN requests /\ requests'[j] = requests[j + 1] /\ j \in Nat
      OBVIOUS
    <3>2. j + 1 = k + 1
      BY <2>1, <3>1
    <3> QED
      BY <1>1, <3>1, <3>2
  <2> QED
    BY <2>1, <2>3, <2>4
<1> QED
  BY <1>1, <1>2, <1>3

LEMMA CommandsServed ==
    ASSUME TypesOK, NEW x, CommandsFind(x), requests # <<>>, requests' = Tail(requests),
           \A o \in resources : o \in resources' \/ Destroys(Head(requests), o),
           rejected' => x # {}, \A s \in served' : s.on = s.meant.win \/ s.meant \in x
    PROVE  CommandsFind(x)'
<1> USE RequestsPopped
<1> SUFFICES ASSUME NEW k \in DOMAIN requests', requests'[k].op \in Ops, NEW o, o = requests'[k].meant, o \notin x
             PROVE  o \in resources' /\ \A j \in DOMAIN requests' : j < k => ~Destroys(requests'[j], o)
  BY DEF CommandsFind, Destroys
<1>1. k + 1 \in DOMAIN requests /\ requests'[k] = requests[k + 1] /\ k \in Nat \ {0}
  OBVIOUS
<1>2. o \in resources /\ \A j \in DOMAIN requests : j < k + 1 => ~Destroys(requests[j], o)
  BY <1>1 DEF CommandsFind
<1>3. 1 \in DOMAIN requests /\ Head(requests) = requests[1] /\ 1 < k + 1
  BY <1>1
<1>4. \A j \in DOMAIN requests' : j < k => ~Destroys(requests'[j], o)
  <2> SUFFICES ASSUME NEW j \in DOMAIN requests', j < k PROVE ~Destroys(requests'[j], o)
    OBVIOUS
  <2>1. j + 1 \in DOMAIN requests /\ requests'[j] = requests[j + 1] /\ j \in Nat /\ j + 1 < k + 1
    BY <1>1
  <2> QED
    BY <1>2, <2>1
<1> QED
  BY <1>2, <1>3, <1>4

\* Steps that leave the requests alone.
LEMMA RequestsKept ==
    ASSUME requests' = requests, handlers' = handlers, resources \subseteq resources',
           \A o \in resources : Born(o, End)' => Born(o, End)
    PROVE  /\ \A o : DestroyAsked(o) => DestroyAsked(o)'
           /\ DestroysFind => DestroysFind'
           /\ \A x : CommandsFind(x) /\ rejected' = rejected /\ served' = served => CommandsFind(x)'
<1>1. \A o : DestroyAsked(o) => DestroyAsked(o)'
  BY DEF DestroyAsked, Destroys
<1>2. DestroysFind => DestroysFind'
  BY DEF DestroysFind, Destroys
<1>3. \A x : CommandsFind(x) /\ rejected' = rejected /\ served' = served => CommandsFind(x)'
  BY DEF CommandsFind, Destroys
<1> QED
  BY <1>1, <1>2, <1>3

-----------------------------------------------------------------------------
\* The compositor's actions.
LEMMA StateTells ==
    ASSUME NEW o \in TopLevel, NEW x, NEW S
    PROVE  /\ StateEvent(o, x \in S) \in Message
           /\ Tells(StateEvent(o, x \in S), "state", o)
           /\ Told(StateEvent(o, x \in S)) = OnOff(x \in S)
<1>1. CASE x \in S
  <2>1. (x \in S) = TRUE
    BY <1>1
  <2>2. StateEvent(o, x \in S) = StateEvent(o, TRUE)
    BY <2>1, Zenon
  <2> QED
    BY <1>1, <2>2 DEF StateEvent, Message, Tells, Told, OnOff
<1>2. CASE x \notin S
  <2>1. (x \in S) = FALSE
    BY <1>2
  <2>2. StateEvent(o, x \in S) = StateEvent(o, FALSE)
    BY <2>1, Zenon
  <2> QED
    BY <1>2, <2>2 DEF StateEvent, Message, Tells, Told, OnOff
<1> QED
  BY <1>1, <1>2

\* What a change of focus tells.
Unfinished(s) ==
    /\ Tidings(s)
    /\ \A i \in DOMAIN s : s[i].ev \in Aspects /\ s[i].obj.win \in unsynced'
    /\ unsynced \subseteq unsynced' /\ unsynced' \subseteq open

LEMMA RefocusTells ==
    ASSUME ToplevelsInv, NEW wins \in SUBSET open, Refocus(wins),
           UNCHANGED <<handlers, title, states, resources, names, open>>
    PROVE  focus' = wins /\ \E s : Unfinished(s)
<1> USE DEF ToplevelsInv
<1> DEFINE lost == Objects(focus \ wins)
           won == Objects(wins \ focus)
<1>1. /\ focus' = wins
      /\ unsynced' = unsynced \cup ((wins \ focus) \cup (focus \ wins))
      /\ \E q \in SetToSeqs(lost \cup won) :
            events' = events \o [k \in DOMAIN q |-> StateEvent(q[k], q[k] \in won)]
  BY DEF Refocus
<1>2. /\ lost \cup won \subseteq resources /\ resources \subseteq TopLevel
      /\ \A o \in resources : /\ o \in lost <=> o.win \in focus \ wins
                              /\ o \in won <=> o.win \in wins \ focus
  BY DEF Objects, TypesOK, LibTypeOK
<1> HIDE DEF lost, won
<1>3. IsFiniteSet(lost \cup won)
  BY <1>2, FinitelyMany, FS_Subset
<1>4. PICK q \in SetToSeqs(lost \cup won) :
        events' = events \o [k \in DOMAIN q |-> StateEvent(q[k], q[k] \in won)]
  BY <1>1
<1>5. /\ q \in Seq(lost \cup won)
      /\ \A i, j \in DOMAIN q : q[i] = q[j] => i = j
      /\ \A x \in lost \cup won : \E i \in DOMAIN q : q[i] = x
  BY <1>3, ListsAll
<1>6. Len(q) \in Nat /\ DOMAIN q = 1..Len(q) /\ \A i \in DOMAIN q : q[i] \in lost \cup won
  BY <1>5, LenProperties, ElementOfSeq
<1>7. PICK s : s = [k \in DOMAIN q |-> StateEvent(q[k], q[k] \in won)]
  OBVIOUS
<1>8. \A i \in DOMAIN s : /\ i \in DOMAIN q /\ q[i] \in resources /\ q[i] \in TopLevel
                          /\ s[i] \in Message /\ Tells(s[i], "state", q[i]) /\ Told(s[i]) = OnOff(q[i] \in won)
  <2> SUFFICES ASSUME NEW i \in DOMAIN s
               PROVE  /\ i \in DOMAIN q /\ q[i] \in resources /\ q[i] \in TopLevel
                      /\ s[i] \in Message /\ Tells(s[i], "state", q[i]) /\ Told(s[i]) = OnOff(q[i] \in won)
    OBVIOUS
  <2>1. i \in DOMAIN q /\ s[i] = StateEvent(q[i], q[i] \in won)
    BY <1>7, Zenon
  <2>2. q[i] \in resources /\ q[i] \in TopLevel
    BY <1>2, <1>6, <2>1
  <2>3. /\ StateEvent(q[i], q[i] \in won) \in Message
        /\ Tells(StateEvent(q[i], q[i] \in won), "state", q[i])
        /\ Told(StateEvent(q[i], q[i] \in won)) = OnOff(q[i] \in won)
    BY <2>2, StateTells
  <2> QED
    BY <2>1, <2>2, <2>3, Zenon
<1>9. DOMAIN s = DOMAIN q
  BY <1>7, Zenon
<1>10. s \in Seq(Message)
  <2>1. s = [k \in DOMAIN s |-> s[k]]
    BY <1>7, Zenon
  <2>2. \A k \in DOMAIN s : s[k] \in Message
    BY <1>8
  <2> QED
    BY <1>6, <1>9, <2>1, <2>2, IsASeq
<1>11. Grown(s)
  BY <1>4, <1>7, <1>10 DEF Grown
<1>12. \A i \in DOMAIN s : s[i].ev = "state" /\ s[i].obj = q[i] /\ q[i] \in lost \cup won
  BY <1>6, <1>8 DEF Tells
<1>13. \A i \in DOMAIN s : q[i].win \in open /\ q[i].win \in unsynced'
  BY <1>1, <1>2, <1>8, <1>12 DEF TypesOK, LibTypeOK
<1>14. ASSUME NEW o \in resources, NEW a \in Aspects
       PROVE  /\ \A i, j \in DOMAIN s : Tells(s[i], a, o) /\ Tells(s[j], a, o) => i = j
              /\ \A i \in DOMAIN s : Tells(s[i], a, o) => Told(s[i]) = Actual(a, o)'
              /\ (\A i \in DOMAIN s : ~Tells(s[i], a, o)) => Actual(a, o)' = Actual(a, o)
  <2>1. \A i \in DOMAIN s : Tells(s[i], a, o) => a = "state" /\ q[i] = o
    BY <1>12 DEF Tells
  <2>2. \A i, j \in DOMAIN s : Tells(s[i], a, o) /\ Tells(s[j], a, o) => i = j
    BY <1>5, <1>9, <2>1
  <2>3. ASSUME NEW i \in DOMAIN s, Tells(s[i], a, o) PROVE Told(s[i]) = Actual(a, o)'
    <3>1. q[i] = o /\ a = "state" /\ o \in lost \cup won
      BY <1>12, <2>1, <2>3
    <3>2. q[i] \in won <=> o.win \in focus'
      BY <1>1, <1>2, <3>1
    <3> QED
      BY <1>8, <3>1, <3>2 DEF Actual, OnOff
  <2>4. ASSUME \A i \in DOMAIN s : ~Tells(s[i], a, o) PROVE Actual(a, o)' = Actual(a, o)
    <3>1. CASE a = "title"
      BY <3>1 DEF Actual
    <3>2. CASE a = "state"
      <4>1. o \notin lost \cup won
        BY <1>5, <1>8, <1>9, <2>4, <3>2
      <4>2. o.win \in focus' <=> o.win \in focus
        BY <1>1, <1>2, <4>1
      <4> QED
        BY <3>2, <4>2 DEF Actual, OnOff
    <3> QED
      BY <3>1, <3>2 DEF Aspects
  <2> QED
    BY <2>2, <2>3, <2>4
<1>15. Tidings(s)
  BY <1>8, <1>11, <1>12, <1>13, <1>14 DEF Tidings
<1>16. unsynced' \subseteq open
  BY <1>1 DEF TypesOK, LibTypeOK
<1> QED
  BY <1>1, <1>12, <1>13, <1>15, <1>16 DEF Unfinished, Aspects

\* Nothing is told, and nothing has changed.
LEMMA NothingTold ==
    ASSUME TypesOK, UNCHANGED <<handlers, title, states, events, resources, open, names, focus, unsynced>>
    PROVE  Unfinished(<<>>)
<1>1. events \in Seq(Message)
  BY DEF TypesOK
<1>2. events' = events \o <<>> /\ <<>> \in Seq(Message)
  BY <1>1, ConcatEmptySeq
<1>3. \A a, o : Actual(a, o)' = Actual(a, o)
  BY DEF Actual, OnOff
<1> QED
  BY <1>2, <1>3 DEF Unfinished, Tidings, Grown, TypesOK

LEMMA TidingsStep ==
    ASSUME ToplevelsInv, TypesOK', NEW s, Tidings(s), OneFocus', DOMAIN names' = DOMAIN names,
           bound, UNCHANGED <<bound, windows, raised>>,
           requests' = requests
             \/ (requests # <<>> /\ requests' = Tail(requests) /\ Head(requests).op \notin {"bind", "destroy"})
    PROVE  /\ ToplevelsInv'
           /\ \A o \in TopLevel : Born(o, End)' <=> Born(o, End)
           /\ \A o \in TopLevel : Known(o, End)' <=> Known(o, End)
<1> USE DEF ToplevelsInv
<1>0. UNCHANGED <<resources, handlers>> /\ resources \subseteq TopLevel
  BY DEF Tidings, Grown, TypesOK, LibTypeOK
<1>1. \A o \in resources : DestroyAsked(o) => DestroyAsked(o)'
  <2> SUFFICES ASSUME NEW o \in resources, DestroyAsked(o) PROVE DestroyAsked(o)'
    OBVIOUS
  <2>1. CASE requests' = requests
    BY <2>1 DEF DestroyAsked, Destroys
  <2>2. CASE requests # <<>> /\ requests' = Tail(requests) /\ Head(requests).op \notin {"bind", "destroy"}
    <3>1. ~Destroys(Head(requests), o)
      BY <2>2 DEF Destroys
    <3> QED
      BY <2>2, <3>1, AskedServed
  <2> QED
    BY <2>1, <2>2
<1>2. /\ Announced' /\ EventsFind' /\ TruthFollows' /\ DetailsFollow'
      /\ \A o \in TopLevel : Born(o, End)' <=> Born(o, End)
      /\ \A o \in TopLevel : Known(o, End)' <=> Known(o, End)
  BY <1>1, TidingsKeep
<1>3. Apart' /\ TablesMatch'
  BY <1>0 DEF Apart, TablesMatch
<1>4. DestroysFind' /\ BoundFirst'
  <2>0. \A o \in resources : Born(o, End)' => Born(o, End)
    BY <1>0, <1>2
  <2>1. CASE requests' = requests
    BY <1>0, <2>0, <2>1, RequestsKept DEF BoundFirst
  <2>2. CASE requests # <<>> /\ requests' = Tail(requests) /\ Head(requests).op \notin {"bind", "destroy"}
    <3>1. DestroysFind'
      BY <1>0, <2>0, <2>2, DestroysServed
    <3>2. \A k \in DOMAIN requests' : requests'[k].op # "bind"
      <4> SUFFICES ASSUME NEW k \in DOMAIN requests' PROVE requests'[k].op # "bind"
        OBVIOUS
      <4>1. k + 1 \in DOMAIN requests /\ requests'[k] = requests[k + 1]
        BY <2>2, RequestsPopped
      <4> QED
        BY <4>1 DEF BoundFirst
    <3> QED
      BY <3>1, <3>2 DEF BoundFirst
  <2> QED
    BY <2>1, <2>2
<1> QED
  BY <1>2, <1>3, <1>4

LEMMA ServeCommandKeeps ==
    ASSUME ToplevelsInv, NEW op \in Ops, ServeCommand(op)
    PROVE  /\ ToplevelsInv' /\ bound
           /\ \A o \in TopLevel : Born(o, End)' <=> Born(o, End)
           /\ \A o \in TopLevel : Known(o, End)' <=> Known(o, End)
           /\ \E s : Unfinished(s)
           /\ \A x : CommandsFind(x) => CommandsFind(x)'
<1> USE DEF ToplevelsInv
<1> DEFINE r == Head(requests)
           named == {o \in resources : o.id = r.id}
           on == {o.win : o \in named} \cap open
<1>1. TakeRequest(op) /\ requests # <<>> /\ requests' = Tail(requests) /\ r.op = op /\ op \notin {"bind", "destroy"}
  BY DEF ServeCommand, TakeRequest, Ops
<1>2. bound
  BY <1>1, BoundServed
<1>3. UNCHANGED <<handlers, windows, title, states, raised, bound, resources, open, names, nchanges>>
  BY DEF ServeCommand, libVars
<1>4. /\ rejected' = (named = {})
      /\ served' = served \cup {[op |-> op, meant |-> r.meant, on |-> o.win] : o \in named}
      /\ \/ op = "activate" /\ on # {} /\ Refocus(on)
         \/ op = "set_minimize" /\ Refocus(focus \ on)
         \/ UNCHANGED <<focus, unsynced, events>>
  BY DEF ServeCommand
<1>5. 1 \in DOMAIN requests /\ r = requests[1] /\ r \in Request /\ requests' \in Seq(Request)
  BY <1>1, RequestsPopped
<1>6. r.meant \in TopLevel /\ r.id = r.meant.id
  BY <1>1, <1>5, RequestFields DEF DestroysFind
<1>7. \A v, w \in on : v = w
  BY DEF Apart
<1>8. focus \subseteq open /\ on \subseteq open
  BY DEF TypesOK, LibTypeOK
<1> HIDE DEF r, named, on
<1>9. OneFocus' /\ focus' \subseteq open /\ \E s : Unfinished(s)
  <2>1. CASE op = "activate" /\ on # {} /\ Refocus(on)
    <3>1. focus' = on /\ \E s : Unfinished(s)
      BY <1>3, <1>8, <2>1, RefocusTells
    <3> QED
      BY <1>7, <1>8, <3>1 DEF OneFocus
  <2>2. CASE op = "set_minimize" /\ Refocus(focus \ on)
    <3>1. focus' = focus \ on /\ \E s : Unfinished(s)
      BY <1>3, <1>8, <2>2, RefocusTells
    <3> QED
      BY <1>8, <3>1 DEF OneFocus
  <2>3. CASE UNCHANGED <<focus, unsynced, events>>
    BY <1>3, <1>8, <2>3, NothingTold DEF OneFocus
  <2> QED
    BY <1>4, <2>1, <2>2, <2>3
<1>10. PICK s : Unfinished(s)
  BY <1>9
<1>11. Tidings(s) /\ Grown(s)
  BY <1>10 DEF Unfinished, Tidings
<1>12. TypesOK'
  <2>1. events' \in Seq(Message)
    BY <1>11, EventsGrown
  <2>2. unsynced' \subseteq open
    BY <1>10 DEF Unfinished
  <2>3. LibTypeOK'
    BY <1>3, <1>5, <1>9 DEF TypesOK, LibTypeOK
  <2> QED
    BY <1>3, <2>1, <2>2, <2>3 DEF TypesOK
<1>13. /\ ToplevelsInv'
       /\ \A o \in TopLevel : Born(o, End)' <=> Born(o, End)
       /\ \A o \in TopLevel : Known(o, End)' <=> Known(o, End)
  BY <1>1, <1>2, <1>3, <1>9, <1>11, <1>12, TidingsStep DEF r
<1>14. ASSUME NEW x, CommandsFind(x) PROVE CommandsFind(x)'
  <2>1. CASE r.meant \in x
    <3>1. \A t \in served' : t.on = t.meant.win \/ t.meant \in x
      BY <1>4, <1>14, <2>1 DEF CommandsFind
    <3> QED
      BY <1>1, <1>3, <1>14, <2>1, <3>1, CommandsServed
  <2>2. CASE r.meant \notin x
    <3>1. r.meant \in resources
      BY <1>1, <1>5, <1>14, <2>2 DEF CommandsFind
    <3>2. named = {r.meant}
      BY <1>6, <3>1 DEF named, Apart
    <3>3. \A t \in served' : t.on = t.meant.win \/ t.meant \in x
      BY <1>4, <1>14, <3>2 DEF CommandsFind
    <3>4. ~rejected'
      BY <1>4, <3>2
    <3> QED
      BY <1>1, <1>3, <1>14, <3>3, <3>4, CommandsServed
  <2> QED
    BY <2>1, <2>2
<1> QED
  BY <1>2, <1>9, <1>13, <1>14

\* A destroyed object goes when there is nothing left to say of it.
LEMMA ServeDestroyKeeps ==
    ASSUME ToplevelsInv, ServeDestroy
    PROVE  /\ ToplevelsInv' /\ bound
           /\ UNCHANGED <<libVars, events, open, names, focus, unsynced, served, bound>>
           /\ resources' \subseteq resources
           /\ \A o \in resources : o.win \in open => o \in resources'
           /\ \A x : CommandsFind(x) => CommandsFind(x)'
<1> USE DEF ToplevelsInv
<1> DEFINE r == Head(requests)
           p == r.meant
<1>1. TakeRequest("destroy") /\ requests # <<>> /\ requests' = Tail(requests) /\ r.op = "destroy"
  BY DEF ServeDestroy, TakeRequest
<1>2. bound
  BY <1>1, BoundServed
<1>3. /\ UNCHANGED <<libVars, bound, open, names, focus, unsynced, served, nchanges, events>>
      /\ UNCHANGED <<handlers, windows, title, states, raised>>
  BY DEF ServeDestroy, libVars
<1>4. 1 \in DOMAIN requests /\ r = requests[1] /\ r \in Request /\ requests' \in Seq(Request)
  BY <1>1, RequestsPopped
<1>5. /\ r.id = p.id /\ p \in resources \ handlers /\ ~Born(p, End)
      /\ \A j \in DOMAIN requests : Destroys(requests[j], p) => j = 1
  BY <1>1, <1>4 DEF DestroysFind
<1>6. resources' = resources \ {p} /\ rejected' = FALSE
  <2>1. resources' = {o \in resources : o.id # r.id} /\ rejected' = Free(r.id)
    BY DEF ServeDestroy
  <2>2. \A o \in resources : o.id # r.id <=> o # p
    BY <1>5 DEF Apart
  <2>3. ~Free(r.id)
    BY <1>5 DEF Free
  <2> QED
    BY <2>1, <2>2, <2>3, <1>5
<1>7. Destroys(r, p)
  BY <1>1 DEF Destroys
<1> HIDE DEF r, p
<1>8. /\ \A o, k : /\ Born(o, k)' <=> Born(o, k)
                   /\ Gone(o, k)' <=> Gone(o, k)
                   /\ Known(o, k)' <=> Known(o, k)
      /\ End' = End
      /\ \A a, o : Read(a, o)' = Read(a, o) /\ Actual(a, o)' = Actual(a, o)
  BY <1>3 DEF Born, Gone, Known, Creates, Closes, End, Read, Actual, OnOff
<1>9. \A o : /\ Born(o, End)' <=> Born(o, End)
             /\ Gone(o, End)' <=> Gone(o, End)
             /\ Known(o, End)' <=> Known(o, End)
  BY <1>3 DEF Born, Gone, Known, Creates, Closes, End
<1>10. ~Known(p, End)
  BY <1>5 DEF Known
<1>11. TypesOK'
  <2>1. LibTypeOK'
    BY <1>3, <1>4, <1>6 DEF TypesOK, LibTypeOK
  <2> QED
    BY <1>3, <2>1 DEF TypesOK
<1>12. Apart' /\ OneFocus'
  BY <1>3, <1>6 DEF Apart, OneFocus
<1>13. TablesMatch'
  BY <1>3, <1>5, <1>6 DEF TablesMatch
<1>14. BoundFirst'
  BY <1>1, <1>2, <1>3, BoundServed DEF BoundFirst
<1>15. Announced'
  <2>1. \A k \in DOMAIN events : ~Creates(events[k], p)
    <3> SUFFICES ASSUME NEW k \in DOMAIN events, Creates(events[k], p) PROVE FALSE
      OBVIOUS
    <3>1. k < End
      BY LenProperties DEF TypesOK, End
    <3> QED
      BY <1>5, <3>1 DEF Born
  <2>2. \A k \in DOMAIN events : \A o \in TopLevel : Creates(events[k], o) => o \in resources'
    BY <1>6, <2>1 DEF Announced
  <2> QED
    BY <1>3, <2>2 DEF Announced, Creates, Tells, Completes
<1>16. EventsFind'
  BY <1>3, <1>8 DEF EventsFind, About
<1>17. TruthFollows'
  <2> SUFFICES ASSUME NEW o \in TopLevel
               PROVE  /\ Known(o, End)' <=> o \in resources' /\ o.win \in open'
                      /\ o \in resources' => Known(o, End)' \/ Gone(o, End)' \/ DestroyAsked(o)'
    BY DEF TruthFollows
  <2>1. CASE o = p
    BY <1>6, <1>9, <1>10, <2>1
  <2>2. CASE o # p
    <3>1. DestroyAsked(o) => DestroyAsked(o)'
      <4>1. ~Destroys(r, o)
        BY <1>7, <2>2 DEF Destroys
      <4> QED
        BY <1>1, <4>1, AskedServed DEF r
    <3> QED
      BY <1>3, <1>6, <1>9, <2>2, <3>1 DEF TruthFollows
  <2> QED
    BY <2>1, <2>2
<1>18. DetailsFollow'
  <2>1. \A o, a, v : Heard(a, o, v, End)' <=> Heard(a, o, v, End)
    BY <1>3, <1>8 DEF Heard, Silent, Tells, Told, OnOff, End
  <2> SUFFICES ASSUME NEW o \in resources', o.win \in open', NEW a \in Aspects, NEW v, v = Actual(a, o)'
               PROVE  Heard(a, o, v, End)'
    <3>1. \A o \in resources', a \in Aspects : \A v : o.win \in open' /\ v = Actual(a, o)' => Heard(a, o, v, End)'
      OBVIOUS
    <3>2. \A o \in resources', a \in Aspects : o.win \in open' => Heard(a, o, Actual(a, o), End)'
      BY <3>1 DEF Heard, Silent, Tells, Told, OnOff
    <3> QED
      BY <3>2 DEF DetailsFollow
  <2>2. Heard(a, o, v, End)
    BY <1>3, <1>6, <1>8 DEF DetailsFollow
  <2> QED
    BY <2>1, <2>2
<1>19. \A o \in resources : o \in resources' \/ Destroys(Head(requests), o)
  BY <1>6, <1>7 DEF r
<1>20. DestroysFind'
  BY <1>1, <1>3, <1>9, <1>19, DestroysServed
<1>21. ASSUME NEW x, CommandsFind(x) PROVE CommandsFind(x)'
  <2>1. served' = served /\ rejected' = FALSE
    BY <1>3, <1>6
  <2>2. \A t \in served' : t.on = t.meant.win \/ t.meant \in x
    BY <1>21, <2>1 DEF CommandsFind
  <2> QED
    BY <1>1, <1>19, <1>21, <2>1, <2>2, CommandsServed
<1>22. \A o \in resources : o.win \in open => o \in resources'
  <2>1. p \in TopLevel /\ ~(p \in resources /\ p.win \in open)
    BY <1>5, <1>10 DEF TruthFollows, TypesOK, LibTypeOK
  <2> QED
    BY <1>6, <2>1
<1> QED
  BY <1>2, <1>3, <1>6, <1>11, <1>12, <1>13, <1>14, <1>15, <1>16, <1>17, <1>18, <1>20, <1>21, <1>22

LEMMA FreshStep ==
    ASSUME ToplevelsInv, TypesOK', NEW q, NEW s, Fresh(q, s), Apart', OneFocus',
           UNCHANGED <<windows, raised>>, bound', DOMAIN names \subseteq DOMAIN names',
           \/ requests' = requests /\ bound
           \/ requests # <<>> /\ requests' = Tail(requests) /\ TakeRequest("bind")
    PROVE  /\ ToplevelsInv'
           /\ \A o \in TopLevel : Born(o, End)' <=> Born(o, End) \/ \E i \in DOMAIN q : q[i] = o
           /\ \A o \in TopLevel : Known(o, End)' <=> Known(o, End) \/ \E i \in DOMAIN q : q[i] = o
<1> USE DEF ToplevelsInv
<1>0. handlers' = handlers /\ resources \subseteq TopLevel /\ resources \subseteq resources'
  BY DEF Fresh, Grown, TypesOK, LibTypeOK
<1>1. \A o \in resources : DestroyAsked(o) => DestroyAsked(o)'
  <2> SUFFICES ASSUME NEW o \in resources, DestroyAsked(o) PROVE DestroyAsked(o)'
    OBVIOUS
  <2>1. CASE requests' = requests
    BY <2>1 DEF DestroyAsked, Destroys
  <2>2. CASE requests # <<>> /\ requests' = Tail(requests) /\ TakeRequest("bind")
    <3>1. ~Destroys(Head(requests), o)
      BY <2>2 DEF Destroys, TakeRequest
    <3> QED
      BY <2>2, <3>1, AskedServed
  <2> QED
    BY <2>1, <2>2
<1>2. /\ Announced' /\ EventsFind' /\ TruthFollows' /\ DetailsFollow'
      /\ \A o \in TopLevel : Born(o, End)' <=> Born(o, End) \/ \E i \in DOMAIN q : q[i] = o
      /\ \A o \in TopLevel : Known(o, End)' <=> Known(o, End) \/ \E i \in DOMAIN q : q[i] = o
  BY <1>1, FreshKeeps
<1>3. TablesMatch'
  BY <1>0 DEF TablesMatch
<1>4. \A o \in resources : Born(o, End)' => Born(o, End)
  BY <1>0, <1>2 DEF Fresh
<1>5. DestroysFind' /\ BoundFirst'
  <2>1. CASE requests' = requests /\ bound
    BY <1>0, <1>4, <2>1, RequestsKept DEF BoundFirst
  <2>2. CASE requests # <<>> /\ requests' = Tail(requests) /\ TakeRequest("bind")
    BY <1>0, <1>4, <2>2, DestroysServed, BoundServed DEF BoundFirst
  <2> QED
    BY <2>1, <2>2
<1> QED
  BY <1>2, <1>3, <1>5

LEMMA ServeBindKeeps ==
    ASSUME ToplevelsInv, ServeBind
    PROVE  /\ ToplevelsInv' /\ ~bound /\ resources = {} /\ events = <<>> /\ Complete'
           /\ \E q, s : /\ Fresh(q, s)
                        /\ \A o \in TopLevel : Born(o, End)' <=> Born(o, End) \/ \E i \in DOMAIN q : q[i] = o
           /\ \A x : CommandsFind(x) => CommandsFind(x)'
<1> USE DEF ToplevelsInv
<1>1. TakeRequest("bind") /\ requests # <<>> /\ requests' = Tail(requests)
  BY DEF ServeBind, TakeRequest
<1>2. ~bound /\ resources = {} /\ events = <<>>
  BY <1>1, BoundServed DEF BoundFirst
<1>3. /\ UNCHANGED <<handlers, windows, title, states, raised, open, names, focus, unsynced, served, rejected, nchanges>>
      /\ bound' = TRUE
  BY DEF ServeBind, libVars
<1>4. PICK ids \in [open -> Ids] :
        /\ IsInjective(ids)
        /\ resources' = {[id |-> ids[w], win |-> w] : w \in open}
        /\ \E q \in SetToSeqs(resources') : events' = events \o AllDetails(q)
  BY DEF ServeBind
<1>5. open \subseteq 1..Len(names) /\ open \subseteq Wins /\ Len(names) \in Nat
  <2>1. /\ DOMAIN names = 1..Len(names) /\ Len(names) \in Nat /\ Len(names) <= MaxWindows /\ MaxWindows \in Nat
        /\ open \subseteq DOMAIN names
    BY LenProperties, ToplevelAssumption DEF TypesOK, LibTypeOK
  <2> QED
    BY <2>1 DEF Wins
<1>6. resources' \subseteq TopLevel /\ \A r \in resources' : r.win \in open /\ r.id = ids[r.win]
  BY <1>4, <1>5 DEF TopLevel
<1>7. Apart' /\ OneFocus'
  <2>1. \A v, w \in open : ids[v] = ids[w] => v = w
    BY <1>4 DEF IsInjective
  <2>2. \A r \in resources' : r = [id |-> ids[r.win], win |-> r.win]
    BY <1>4
  <2>3. \A r, s \in resources' : r.id = s.id \/ r.win = s.win => r = s
    BY <1>6, <2>1, <2>2
  <2>4. \A r \in resources' : r.win \in DOMAIN names'
    BY <1>3, <1>6 DEF TypesOK, LibTypeOK
  <2> QED
    BY <1>3, <2>3, <2>4 DEF Apart, OneFocus
<1>8. IsFiniteSet(resources')
  <2>1. PICK T : T = resources'
    OBVIOUS
  <2> DEFINE f == [w \in open |-> [id |-> ids[w], win |-> w]]
  <2>2. \A w \in open : f[w] = [id |-> ids[w], win |-> w] /\ f[w] \in T
    BY <1>4, <2>1
  <2>3. f \in [open -> T]
    BY <2>2
  <2>4. \A r \in T : \E w \in open : f[w] = r
    <3> SUFFICES ASSUME NEW r \in T PROVE \E w \in open : f[w] = r
      OBVIOUS
    <3>1. PICK w \in open : r = [id |-> ids[w], win |-> w]
      BY <1>4, <2>1
    <3> QED
      BY <2>2, <3>1
  <2> HIDE DEF f
  <2>5. f \in Surjection(open, T)
    BY <2>3, <2>4, Fun_IsSurj
  <2>6. IsFiniteSet(open)
    <3>1. IsFiniteSet(1..Len(names))
      BY <1>5, FS_Interval
    <3> QED
      BY <1>5, <3>1, FS_Subset
  <2> QED
    BY <2>1, <2>5, <2>6, FS_Surjection
<1>9. PICK q \in SetToSeqs(resources') : events' = events \o AllDetails(q)
  BY <1>4
<1>10. /\ q \in Seq(resources')
       /\ \A i, j \in DOMAIN q : q[i] = q[j] => i = j
       /\ \A x \in resources' : \E i \in DOMAIN q : q[i] = x
  BY <1>8, ListsAll
<1>11. /\ q \in Seq(TopLevel) /\ \A i \in DOMAIN q : q[i] \in resources'
  BY <1>6, <1>10, ElementOfSeq, LenProperties, IsASeq
<1>12. \A i \in DOMAIN q : names'[q[i].win] \in Titles
  <2> SUFFICES ASSUME NEW i \in DOMAIN q PROVE names'[q[i].win] \in Titles
    OBVIOUS
  <2>1. q[i].win \in DOMAIN names /\ names \in Seq(Titles) /\ names' = names
    BY <1>3, <1>6, <1>11 DEF TypesOK, LibTypeOK
  <2> QED
    BY <2>1, ElementOfSeq, LenProperties
<1>13. AllDetails(q) \in Seq(Message)
  BY <1>11, <1>12, DetailsOf
<1>14. PICK s : s = AllDetails(q)
  OBVIOUS
<1>15. Grown(s)
  BY <1>3, <1>9, <1>13, <1>14 DEF Grown
<1>16. Fresh(q, s)
  BY <1>2, <1>3, <1>6, <1>10, <1>11, <1>14, <1>15 DEF Fresh
<1>17. TypesOK'
  <2>1. events' \in Seq(Message)
    BY <1>15, EventsGrown
  <2>2. requests' \in Seq(Request)
    BY <1>1, RequestsPopped
  <2>3. LibTypeOK'
    BY <1>3, <1>6, <2>2 DEF TypesOK, LibTypeOK
  <2> QED
    BY <1>3, <2>1, <2>3 DEF TypesOK
<1>18. /\ ToplevelsInv'
       /\ \A o \in TopLevel : Born(o, End)' <=> Born(o, End) \/ \E i \in DOMAIN q : q[i] = o
  BY <1>1, <1>3, <1>7, <1>16, <1>17, FreshStep
<1>19. Complete'
  <2>1. \A w \in open : [id |-> ids[w], win |-> w] \in resources'
    BY <1>4
  <2>2. \A w \in open' : \E r \in resources' : r.win = w
    BY <1>3, <2>1
  <2> QED
    BY <2>2 DEF Complete
<1>20. ASSUME NEW x, CommandsFind(x) PROVE CommandsFind(x)'
  <2>1. \A t \in served' : t.on = t.meant.win \/ t.meant \in x
    BY <1>3, <1>20 DEF CommandsFind
  <2>2. rejected' => x # {}
    BY <1>3, <1>20 DEF CommandsFind
  <2> QED
    BY <1>1, <1>2, <1>20, <2>1, <2>2, CommandsServed
<1> QED
  BY <1>2, <1>16, <1>18, <1>19, <1>20

LEMMA OneDetails ==
    ASSUME NEW o
    PROVE  AllDetails(<<o>>) = Details(o)
<1> DEFINE s == AllDetails(<<o>>)
           d == Details(o)
<1>1. d = [k \in 1..4 |-> d[k]]
  BY DEF Details
<1>2. s = [k \in 1..4 |-> LET i == (k + 3) \div 4 IN Details(<<o>>[i])[k - 4 * (i - 1)]]
  BY DEF AllDetails
<1>3. \A k \in 1..4 : s[k] = d[k]
  <2> SUFFICES ASSUME NEW k \in 1..4 PROVE s[k] = d[k]
    OBVIOUS
  <2>1. (k + 3) \div 4 = 1 /\ k - 4 * (1 - 1) = k
    OBVIOUS
  <2>2. s[k] = Details(<<o>>[(k + 3) \div 4])[k - 4 * ((k + 3) \div 4 - 1)]
    BY <1>2
  <2>3. s[k] = Details(<<o>>[1])[k]
    BY <2>1, <2>2
  <2>4. <<o>>[1] = o
    OBVIOUS
  <2> QED
    BY <2>3, <2>4
<1>4. s = [k \in 1..4 |-> s[k]]
  BY <1>2
<1> HIDE DEF s, d
<1>5. s = d
  BY <1>1, <1>3, <1>4
<1> QED
  BY <1>5 DEF s, d

LEMMA OpenKeeps ==
    ASSUME ToplevelsInv, bound, NEW id \in Ids, NEW t \in Titles, Open(id, t)
    PROVE  /\ ToplevelsInv'
           /\ Complete => Complete'
           /\ \E q, s : /\ Fresh(q, s)
                        /\ \A i \in DOMAIN q : q[i].win = Len(names) + 1
                        /\ \A o \in TopLevel : Born(o, End)' <=> Born(o, End) \/ \E i \in DOMAIN q : q[i] = o
           /\ \A x : CommandsFind(x) => CommandsFind(x)'
<1> USE DEF ToplevelsInv
<1> DEFINE w == Len(names) + 1
           o == [id |-> id, win |-> w]
<1>1. /\ w <= MaxWindows
      /\ names' = Append(names, t) /\ open' = open \cup {w} /\ focus' = focus
      /\ Free(id) /\ resources' = resources \cup {o} /\ events' = events \o Details(o)
      /\ UNCHANGED <<handlers, windows, title, states, raised, bound, unsynced, served, rejected, requests>>
  BY DEF Open, libVars
<1>2. /\ Len(names) \in Nat /\ DOMAIN names = 1..Len(names) /\ names' \in Seq(Titles) /\ Len(names') = w
      /\ DOMAIN names' = 1..w /\ names'[w] = t /\ \A v \in DOMAIN names : names'[v] = names[v]
  <2>1. names \in Seq(Titles)
    BY DEF TypesOK, LibTypeOK
  <2> QED
    BY <1>1, <2>1, AppendProperties, LenProperties
<1>3. o \in TopLevel /\ o.win = w /\ o.id = id
  BY <1>1, <1>2, ToplevelAssumption DEF TopLevel, Wins
<1>4. \A r \in resources : r.win # w /\ r.win \in DOMAIN names /\ r.id # id
  BY <1>1, <1>2 DEF Apart, Free
<1>5. names'[o.win] \in Titles
  BY <1>2, <1>3
<1>6. w \notin DOMAIN names /\ w \in DOMAIN names' /\ DOMAIN names \subseteq DOMAIN names'
  BY <1>2
<1> HIDE DEF w, o
<1>7. PICK q : q = <<o>>
  OBVIOUS
<1>8. q \in Seq(TopLevel) /\ DOMAIN q = {1} /\ q[1] = o
  BY <1>3, <1>7
<1>9. PICK s : s = AllDetails(q)
  OBVIOUS
<1>10. s = Details(o)
  BY <1>7, <1>9, OneDetails
<1>11. s \in Seq(Message)
  BY <1>5, <1>8, <1>9, DetailsOf
<1>12. Grown(s)
  BY <1>1, <1>10, <1>11 DEF Grown
<1>13. \A r \in resources, a \in Aspects : Actual(a, r)' = Actual(a, r)
  <2> SUFFICES ASSUME NEW r \in resources, NEW a \in Aspects PROVE Actual(a, r)' = Actual(a, r)
    OBVIOUS
  <2>1. names'[r.win] = names[r.win]
    BY <1>2, <1>4
  <2> QED
    BY <1>1, <2>1 DEF Actual, OnOff
<1>14. Fresh(q, s)
  <2>1. \A i \in DOMAIN q : q[i] \notin resources /\ q[i].win \in open'
    BY <1>1, <1>3, <1>4, <1>8
  <2>2. \A i, j \in DOMAIN q : q[i] = q[j] => i = j
    BY <1>8
  <2>3. \A r : r \in resources' <=> r \in resources \/ \E i \in DOMAIN q : q[i] = r
    BY <1>1, <1>8
  <2>4. \A r \in resources : r.win \in open' <=> r.win \in open
    BY <1>1, <1>4
  <2> QED
    BY <1>8, <1>9, <1>12, <1>13, <2>1, <2>2, <2>3, <2>4 DEF Fresh
<1>15. Apart' /\ OneFocus'
  <2>1. \A r, s1 \in resources' : r.id = s1.id \/ r.win = s1.win => r = s1
    BY <1>1, <1>3, <1>4 DEF Apart
  <2>2. \A r \in resources' : r.win \in DOMAIN names'
    BY <1>1, <1>3, <1>4, <1>6
  <2> QED
    BY <1>1, <2>1, <2>2 DEF Apart, OneFocus
<1>16. TypesOK'
  <2>1. events' \in Seq(Message)
    BY <1>12, EventsGrown
  <2>2. resources' \subseteq TopLevel /\ open' \subseteq DOMAIN names' /\ focus' \subseteq open'
    BY <1>1, <1>3, <1>6 DEF TypesOK, LibTypeOK
  <2>3. LibTypeOK'
    BY <1>1, <1>2, <2>2 DEF TypesOK, LibTypeOK
  <2>4. Len(names') <= MaxWindows /\ unsynced' \subseteq open'
    BY <1>1, <1>2 DEF TypesOK
  <2> QED
    BY <1>1, <2>1, <2>3, <2>4 DEF TypesOK
<1>17. /\ ToplevelsInv'
       /\ \A p \in TopLevel : Born(p, End)' <=> Born(p, End) \/ \E i \in DOMAIN q : q[i] = p
  BY <1>1, <1>6, <1>14, <1>15, <1>16, FreshStep
<1>18. ASSUME Complete PROVE Complete'
  <2>1. \A v \in open' : \E r \in resources' : r.win = v
    BY <1>1, <1>3, <1>18 DEF Complete
  <2> QED
    BY <2>1 DEF Complete
<1>19. ASSUME NEW x, CommandsFind(x) PROVE CommandsFind(x)'
  <2>1. \A r \in resources : Born(r, End)' => Born(r, End)
    BY <1>14, <1>17 DEF Fresh, TypesOK, LibTypeOK
  <2>2. resources \subseteq resources'
    BY <1>1
  <2> QED
    BY <1>1, <1>19, <2>1, <2>2, RequestsKept
<1>20. \A i \in DOMAIN q : q[i].win = Len(names) + 1
  BY <1>3, <1>8 DEF w
<1> QED
  BY <1>14, <1>17, <1>18, <1>19, <1>20

\* One event is sent.
LEMMA OneMore ==
    ASSUME TypesOK, NEW e \in Message, events' = Append(events, e), UNCHANGED <<handlers, title, states>>
    PROVE  /\ Grown(<<e>>) /\ events' \in Seq(Message)
           /\ DOMAIN <<e>> = {1} /\ <<e>>[1] = e /\ Len(<<e>>) = 1
<1>1. events \in Seq(Message)
  BY DEF TypesOK
<1>2. events' = events \o <<e>>
  BY <1>1, AppendIsConcat
<1>3. events' \in Seq(Message)
  BY <1>1, AppendProperties
<1> QED
  BY <1>2, <1>3 DEF Grown

LEMMA RenameKeeps ==
    ASSUME ToplevelsInv, bound, NEW o \in Objects(open), NEW t \in Titles, Rename(o, t)
    PROVE  /\ ToplevelsInv'
           /\ \A r \in TopLevel : Born(r, End)' <=> Born(r, End)
           /\ \A r \in TopLevel : Known(r, End)' <=> Known(r, End)
           /\ \E s : Unfinished(s)
           /\ \A x : CommandsFind(x) => CommandsFind(x)'
<1> USE DEF ToplevelsInv
<1> DEFINE e == TitleEvent(o, t)
<1>1. /\ names' = [names EXCEPT ![o.win] = t]
      /\ unsynced' = unsynced \cup {o.win}
      /\ events' = Append(events, e)
      /\ UNCHANGED <<handlers, windows, title, states, raised, bound, resources, open, focus, served, rejected, requests>>
  BY DEF Rename, libVars
<1>2. o \in resources /\ o.win \in open /\ o \in TopLevel
  BY DEF Objects, TypesOK, LibTypeOK
<1>3. /\ names \in Seq(Titles) /\ o.win \in 1..Len(names) /\ DOMAIN names = 1..Len(names)
      /\ names' \in Seq(Titles) /\ Len(names') = Len(names) /\ DOMAIN names' = DOMAIN names
      /\ names'[o.win] = t /\ \A v \in DOMAIN names : v # o.win => names'[v] = names[v]
  <2>1. names \in Seq(Titles) /\ o.win \in DOMAIN names
    BY <1>2 DEF TypesOK, LibTypeOK
  <2>2. DOMAIN names = 1..Len(names)
    BY <2>1, LenProperties
  <2> QED
    BY <1>1, <2>1, <2>2, ExceptSeq
<1>4. e \in Message /\ e.ev = "title" /\ e.obj = o /\ Told(e) = t
  BY <1>2 DEF TitleEvent, Message, Told
<1> HIDE DEF e
<1>5. PICK s : s = <<e>>
  OBVIOUS
<1>6. Grown(s) /\ events' \in Seq(Message) /\ DOMAIN s = {1} /\ s[1] = e
  BY <1>1, <1>4, <1>5, OneMore
<1>7. ASSUME NEW r \in resources, NEW a \in Aspects
      PROVE  /\ Tells(e, a, r) => Told(e) = Actual(a, r)'
             /\ ~Tells(e, a, r) => Actual(a, r)' = Actual(a, r)
  <2>1. CASE a = "state"
    BY <1>1, <1>4, <2>1 DEF Tells, Actual, OnOff
  <2>2. CASE a = "title"
    <3>1. Tells(e, a, r) <=> r = o
      BY <1>4, <2>2 DEF Tells
    <3>2. r # o => names'[r.win] = names[r.win]
      BY <1>2, <1>3 DEF Apart
    <3> QED
      BY <1>3, <1>4, <2>2, <3>1, <3>2 DEF Actual
  <2> QED
    BY <2>1, <2>2 DEF Aspects
<1>8. Tidings(s)
  BY <1>1, <1>2, <1>4, <1>6, <1>7 DEF Tidings
<1>9. unsynced \subseteq unsynced' /\ unsynced' \subseteq open
  BY <1>1, <1>2 DEF TypesOK
<1>10. Unfinished(s)
  BY <1>1, <1>4, <1>6, <1>8, <1>9 DEF Unfinished, Aspects
<1>11. TypesOK'
  <2>1. LibTypeOK'
    BY <1>1, <1>3 DEF TypesOK, LibTypeOK
  <2> QED
    BY <1>1, <1>3, <1>6, <1>9, <2>1 DEF TypesOK
<1>12. /\ ToplevelsInv'
       /\ \A r \in TopLevel : Born(r, End)' <=> Born(r, End)
       /\ \A r \in TopLevel : Known(r, End)' <=> Known(r, End)
  <2>1. OneFocus'
    BY <1>1 DEF OneFocus
  <2> QED
    BY <1>1, <1>3, <1>8, <1>11, <2>1, TidingsStep
<1>13. \A r \in resources : Born(r, End)' => Born(r, End)
  BY <1>12 DEF TypesOK, LibTypeOK
<1> QED
  BY <1>1, <1>10, <1>12, <1>13, RequestsKept

LEMMA FocusKeeps ==
    ASSUME ToplevelsInv, bound, NEW wins \in {{}} \cup {{w} : w \in open}, Focus(wins)
    PROVE  /\ ToplevelsInv'
           /\ \A r \in TopLevel : Born(r, End)' <=> Born(r, End)
           /\ \A r \in TopLevel : Known(r, End)' <=> Known(r, End)
           /\ \E s : Unfinished(s)
           /\ \A x : CommandsFind(x) => CommandsFind(x)'
<1> USE DEF ToplevelsInv
<1>1. Refocus(wins)
      /\ UNCHANGED <<handlers, windows, title, states, raised, bound, resources, open, names, served, rejected, requests>>
  BY DEF Focus, libVars
<1>2. wins \in SUBSET open /\ \A v, w \in wins : v = w
  OBVIOUS
<1>3. focus' = wins /\ \E s : Unfinished(s)
  BY <1>1, <1>2, RefocusTells
<1>4. PICK s : Unfinished(s)
  BY <1>3
<1>5. Tidings(s) /\ Grown(s) /\ unsynced' \subseteq open
  BY <1>4 DEF Unfinished, Tidings
<1>6. TypesOK'
  <2>1. events' \in Seq(Message)
    BY <1>5, EventsGrown
  <2>2. LibTypeOK'
    BY <1>1, <1>2, <1>3 DEF TypesOK, LibTypeOK
  <2> QED
    BY <1>1, <1>5, <2>1, <2>2 DEF TypesOK
<1>7. /\ ToplevelsInv'
      /\ \A r \in TopLevel : Born(r, End)' <=> Born(r, End)
      /\ \A r \in TopLevel : Known(r, End)' <=> Known(r, End)
  <2>1. OneFocus'
    BY <1>2, <1>3 DEF OneFocus
  <2> QED
    BY <1>1, <1>5, <1>6, <2>1, TidingsStep
<1>8. \A r \in resources : Born(r, End)' => Born(r, End)
  BY <1>7 DEF TypesOK, LibTypeOK
<1> QED
  BY <1>1, <1>3, <1>7, <1>8, RequestsKept

LEMMA SendDoneKeeps ==
    ASSUME ToplevelsInv, bound, NEW o \in Objects(unsynced), SendDone(o)
    PROVE  /\ ToplevelsInv'
           /\ \A r \in TopLevel : Born(r, End)' <=> Born(r, End)
           /\ \A r \in TopLevel : Known(r, End)' <=> Known(r, End)
           /\ Tidings(<<Event("done", o)>>)
           /\ \A x : CommandsFind(x) => CommandsFind(x)'
<1> USE DEF ToplevelsInv
<1> DEFINE e == Event("done", o)
<1>1. /\ unsynced' = unsynced \ {o.win}
      /\ events' = Append(events, e)
      /\ UNCHANGED <<handlers, windows, title, states, raised, bound, resources, open, names, focus, served, rejected, requests>>
  BY DEF SendDone, libVars
<1>2. o \in resources /\ o.win \in open /\ o \in TopLevel
  BY DEF Objects, TypesOK, LibTypeOK
<1>3. e \in Message /\ e.ev = "done" /\ e.obj = o
  BY <1>2 DEF Event, Message
<1> HIDE DEF e
<1>4. PICK s : s = <<e>>
  OBVIOUS
<1>5. Grown(s) /\ events' \in Seq(Message) /\ DOMAIN s = {1} /\ s[1] = e
  BY <1>1, <1>3, <1>4, OneMore
<1>6. \A r, a : Actual(a, r)' = Actual(a, r)
  BY <1>1 DEF Actual, OnOff
<1>7. Tidings(s)
  <2>1. \A r \in resources, a \in Aspects : \A i \in DOMAIN s : ~Tells(s[i], a, r)
    BY <1>3, <1>5 DEF Tells, Aspects
  <2> QED
    BY <1>1, <1>2, <1>3, <1>5, <1>6, <2>1 DEF Tidings
<1>8. TypesOK'
  <2>1. LibTypeOK'
    BY <1>1 DEF TypesOK, LibTypeOK
  <2> QED
    BY <1>1, <1>5, <2>1 DEF TypesOK
<1>9. /\ ToplevelsInv'
      /\ \A r \in TopLevel : Born(r, End)' <=> Born(r, End)
      /\ \A r \in TopLevel : Known(r, End)' <=> Known(r, End)
  <2>1. OneFocus'
    BY <1>1 DEF OneFocus
  <2> QED
    BY <1>1, <1>7, <1>8, <2>1, TidingsStep
<1>10. \A r \in resources : Born(r, End)' => Born(r, End)
  BY <1>9 DEF TypesOK, LibTypeOK
<1>11. Tidings(<<e>>)
  BY <1>4, <1>7
<1> QED
  BY <1>1, <1>9, <1>10, <1>11, RequestsKept DEF e

LEMMA CloseKeeps ==
    ASSUME ToplevelsInv, bound, NEW o \in Objects(open), Close(o)
    PROVE  /\ ToplevelsInv'
           /\ \A r \in TopLevel : Born(r, End)' <=> Born(r, End)
           /\ Grown(<<Event("closed", o)>>) /\ Event("closed", o) \in Message
           /\ Complete => Complete'
           /\ \A x : CommandsFind(x) => CommandsFind(x)'
<1> USE DEF ToplevelsInv
<1> DEFINE e == Event("closed", o)
<1>1. /\ open' = open \ {o.win} /\ focus' = focus \ {o.win} /\ unsynced' = unsynced \ {o.win}
      /\ events' = Append(events, e)
      /\ UNCHANGED <<handlers, windows, title, states, raised, bound, resources, names, served, rejected, requests>>
  BY DEF Close, libVars
<1>2. o \in resources /\ o.win \in open /\ o \in TopLevel
  BY DEF Objects, TypesOK, LibTypeOK
<1>3. e \in Message
  BY <1>2 DEF Event, Message
<1>4. PICK s : s = <<e>>
  OBVIOUS
<1>5. Grown(s) /\ events' \in Seq(Message)
  <2> HIDE DEF e
  <2> QED
    BY <1>1, <1>3, <1>4, OneMore
<1>6. TypesOK'
  <2>1. LibTypeOK'
    BY <1>1 DEF TypesOK, LibTypeOK
  <2> QED
    BY <1>1, <1>5, <2>1 DEF TypesOK
<1>7. \A r \in resources : DestroyAsked(r) => DestroyAsked(r)'
  BY <1>1 DEF DestroyAsked, Destroys
<1>8. /\ Announced' /\ EventsFind' /\ TruthFollows' /\ DetailsFollow'
      /\ \A r \in TopLevel : Born(r, End)' <=> Born(r, End)
  BY <1>1, <1>2, <1>4, <1>5, <1>6, <1>7, ClosedKeeps
<1>9. \A r \in resources : Born(r, End)' => Born(r, End)
  BY <1>8 DEF TypesOK, LibTypeOK
<1>10. DestroysFind' /\ \A x : CommandsFind(x) => CommandsFind(x)'
  BY <1>1, <1>9, RequestsKept
<1>11. Apart' /\ OneFocus' /\ TablesMatch' /\ BoundFirst'
  BY <1>1 DEF Apart, OneFocus, TablesMatch, BoundFirst
<1>12. Complete => Complete'
  BY <1>1 DEF Complete
<1> QED
  BY <1>3, <1>4, <1>5, <1>6, <1>8, <1>10, <1>11, <1>12

LEMMA ServeSyncKeeps ==
    ASSUME ToplevelsInv, ServeSync, NEW e, e = [ev |-> "callback", callback |-> Head(requests).callback]
    PROVE  /\ ToplevelsInv' /\ bound
           /\ Tidings(<<e>>) /\ e \in Message
           /\ \A x : CommandsFind(x) => CommandsFind(x)'
<1> USE DEF ToplevelsInv
<1>1. /\ TakeRequest("sync") /\ requests # <<>> /\ requests' = Tail(requests) /\ Head(requests).op = "sync"
      /\ events' = Append(events, e)
      /\ UNCHANGED <<handlers, windows, title, states, raised, bound, resources, open, names, focus, unsynced, served, rejected>>
  BY DEF ServeSync, TakeRequest, libVars
<1>2. bound
  BY <1>1, BoundServed
<1>3. Head(requests).callback \in {"info_done", "quit"} /\ requests' \in Seq(Request)
  BY <1>1, RequestsPopped, RequestFields
<1>4. e \in Message /\ e.ev = "callback"
  BY <1>3 DEF Message
<1>5. PICK s : s = <<e>>
  OBVIOUS
<1>6. Grown(s) /\ events' \in Seq(Message) /\ DOMAIN s = {1} /\ s[1] = e
  BY <1>1, <1>4, <1>5, OneMore
<1>7. \A r, a : Actual(a, r)' = Actual(a, r)
  BY <1>1 DEF Actual, OnOff
<1>8. Tidings(s)
  <2>1. \A r \in resources, a \in Aspects : \A i \in DOMAIN s : ~Tells(s[i], a, r)
    BY <1>4, <1>6 DEF Tells, Aspects
  <2> QED
    BY <1>1, <1>4, <1>6, <1>7, <2>1 DEF Tidings
<1>9. TypesOK'
  <2>1. LibTypeOK'
    BY <1>1, <1>3 DEF TypesOK, LibTypeOK
  <2> QED
    BY <1>1, <1>6, <2>1 DEF TypesOK
<1>10. ToplevelsInv'
  <2>1. OneFocus'
    BY <1>1 DEF OneFocus
  <2> QED
    BY <1>1, <1>2, <1>8, <1>9, <2>1, TidingsStep
<1>11. ASSUME NEW x, CommandsFind(x) PROVE CommandsFind(x)'
  <2>1. (rejected' => x # {}) /\ \A t \in served' : t.on = t.meant.win \/ t.meant \in x
    BY <1>1, <1>11 DEF CommandsFind
  <2> QED
    BY <1>1, <1>11, <2>1, CommandsServed
<1> QED
  BY <1>2, <1>4, <1>5, <1>8, <1>10, <1>11

-----------------------------------------------------------------------------
\* The panel.  When a done event is read one window at most is active.
OneActive ==
    \A k \in DOMAIN events : events[k].ev = "done" =>
        \E p \in TopLevel : \A o \in TopLevel : Known(o, k) /\ o # p => Heard("state", o, "off", k)

\* The class goes with active_button, unless that is dimmed.
ButtonsMatch ==
    /\ box = handlers
    /\ classed \subseteq {active_button}
    /\ active_button # NoButton =>
         /\ bound
         /\ active_button \in classed \cup dimmed
         /\ active_button.win \in DOMAIN names
         /\ ~Born(active_button, End)

\* The button of a window has what the client has read of it.
Labelled(o) ==
    /\ o \in handlers
    /\ \A a \in Aspects : Silent(a, o, 0, End)
    /\ label[o] = title[o]
    /\ IF o \in states THEN active_button = o ELSE o \notin classed

\* The last done event comes after all else there is to say.
DoneLast(o) ==
    \E j \in DOMAIN events :
        /\ Completes(events[j], o)
        /\ \A a \in Aspects : Silent(a, o, j, End)

\* A window that is synced has its button in order, or the done event for it is on its way.
Synced ==
    \A o \in resources : o.win \in open \ unsynced => Labelled(o) \/ DoneLast(o)

PanelInv ==
    /\ ToplevelsInv
    /\ CommandsFind(late)
    /\ PanelTypeOK /\ raised = {}
    /\ OneActive /\ ButtonsMatch /\ Synced

-----------------------------------------------------------------------------
\* How either program starts.
LEMMA LibStarts ==
    ASSUME LibInit, requests \in Seq(Request), requests # <<>>,
           \A k \in DOMAIN requests : /\ requests[k].op = "bind" <=> k = 1
                                      /\ requests[k].op \notin Ops \cup {"destroy"}
    PROVE  ToplevelsInv /\ Complete /\ \A x : CommandsFind(x)
<1> USE DEF LibInit
<1>1. /\ names \in Seq(Titles) /\ Len(names) <= MaxWindows
  <2>1. PICK n \in 0..MaxWindows : names \in [1..n -> Titles]
    OBVIOUS
  <2>2. n \in Nat /\ n <= MaxWindows
    BY <2>1, ToplevelAssumption
  <2>3. names \in Seq(Titles) /\ Len(names) = n
    BY <2>1, <2>2, IsASeq, LenProperties
  <2> QED
    BY <2>2, <2>3
<1>2. TypesOK
  <2>1. LibTypeOK
    BY <1>1 DEF LibTypeOK
  <2>2. events \in Seq(Message)
    <3>1. events = <<>>
      OBVIOUS
    <3> HIDE DEF LibInit
    <3> QED
      BY <3>1, EmptySeq
  <2>3. bound \in BOOLEAN /\ unsynced \subseteq open
    OBVIOUS
  <2> HIDE DEF LibInit
  <2> QED
    BY <1>1, <2>1, <2>2, <2>3 DEF TypesOK
<1>3. Apart /\ OneFocus /\ TablesMatch
  BY DEF Apart, OneFocus, TablesMatch
<1>4. BoundFirst
  BY DEF BoundFirst
<1>5. Announced /\ EventsFind
  BY DEF Announced, EventsFind
<1>6. TruthFollows /\ DetailsFollow
  BY DEF TruthFollows, DetailsFollow, Known, Born
<1>7. DestroysFind /\ Complete /\ \A x : CommandsFind(x)
  BY DEF DestroysFind, Complete, CommandsFind
<1> QED
  BY <1>2, <1>3, <1>4, <1>5, <1>6, <1>7 DEF ToplevelsInv

LEMMA PanelStarts ==
    ASSUME PanelInit
    PROVE  PanelInv
<1> USE DEF PanelInit
<1>1. requests \in Seq(Request) /\ requests # <<>> /\ DOMAIN requests = {1} /\ requests[1].op = "bind"
  BY DEF Request
<1>2. "bind" \notin Ops \cup {"destroy"}
  BY DEF Ops
<1>3. ToplevelsInv /\ CommandsFind(late)
  BY <1>1, <1>2, LibStarts
<1>4. PanelTypeOK
  BY <1>3 DEF PanelTypeOK, ToplevelsInv, TypesOK
<1>5. raised = {} /\ OneActive /\ ButtonsMatch /\ Synced
  BY DEF LibInit, OneActive, ButtonsMatch, Synced
<1> QED
  BY <1>3, <1>4, <1>5 DEF PanelInv

-----------------------------------------------------------------------------
\* The panel reads an event.
LEMMA OneActiveTaken ==
    ASSUME ToplevelsInv, OneActive, NEW s, Taking(s)
    PROVE  OneActive'
<1> USE DEF ToplevelsInv
<1> SUFFICES ASSUME NEW k \in DOMAIN events', events'[k].ev = "done"
             PROVE  \E p \in TopLevel : \A o \in TopLevel : Known(o, k)' /\ o # p => Heard("state", o, "off", k)'
  BY DEF OneActive
<1>1. Popped
  BY DEF Taking
<1>2. k + 1 \in DOMAIN events /\ events[k + 1].ev = "done" /\ k \in Nat \ {0}
  BY <1>1, EventsPopped
<1>3. PICK p \in TopLevel : \A o \in TopLevel : Known(o, k + 1) /\ o # p => Heard("state", o, "off", k + 1)
  BY <1>2 DEF OneActive
<1>4. ASSUME NEW o \in TopLevel, Known(o, k)', o # p PROVE Heard("state", o, "off", k)'
  <2>1. Heard("state", o, "off", k + 1)
    BY <1>2, <1>3, <1>4, KnownTaken
  <2>2. "state" \in Aspects /\ "done" \notin Aspects
    BY DEF Aspects
  <2>3. Creates(events[1], o) => \E j \in DOMAIN events : j < k + 1 /\ Tells(events[j], "state", o)
    BY <1>1, <1>2, <2>2, DetailsFirst
  <2> QED
    BY <1>2, <2>1, <2>2, <2>3, HeardTaken
<1> QED
  BY <1>4

\* A done event that is still to be read, and what it means that nothing else is.
LEMMA DoneLastTaken ==
    ASSUME TypesOK, Popped, NEW o \in TopLevel
    PROVE  /\ DoneLast(o) /\ ~DoneLast(o)' => Completes(events[1], o) /\ \A a \in Aspects : Silent(a, o, 0, End)'
           /\ \A a \in Aspects : Silent(a, o, 0, End) => Silent(a, o, 0, End)' /\ ~Tells(events[1], a, o)
<1>1. /\ Len(events) \in Nat \ {0} /\ Len(events') = Len(events) - 1 /\ 1 \in DOMAIN events
      /\ DOMAIN events = 1..Len(events)
      /\ \A k \in DOMAIN events : k # 1 => k - 1 \in DOMAIN events' /\ events[k] = events'[k - 1]
  BY EventsPopped
<1>2. PICK n \in Nat : n = Len(events)
  BY <1>1
<1>3. n = End' /\ End = n + 1
  BY <1>1, <1>2 DEF End
<1>4. ASSUME NEW a \in Aspects, NEW i \in Nat, NEW h, h = i + 1, Silent(a, o, h, End) PROVE Silent(a, o, i, End)'
  <2>1. Silent(a, o, i, n)'
    BY <1>3, <1>4, SilentPopped
  <2> QED
    BY <1>3, <2>1 DEF Silent, Tells
<1>5. ASSUME NEW j \in DOMAIN events, Completes(events[j], o), \A a \in Aspects : Silent(a, o, j, End), ~DoneLast(o)'
      PROVE  Completes(events[1], o) /\ \A a \in Aspects : Silent(a, o, 0, End)'
  <2>1. CASE j = 1
    BY <1>4, <1>5, <2>1
  <2>2. CASE j # 1
    <3>1. PICK i \in Nat : i = j - 1
      BY <1>1, <2>2
    <3>2. i \in DOMAIN events' /\ Completes(events'[i], o) /\ j = i + 1
      BY <1>1, <1>5, <2>2, <3>1
    <3>3. \A a \in Aspects : Silent(a, o, i, End)'
      BY <1>4, <1>5, <3>2
    <3> QED
      BY <1>5, <3>2, <3>3 DEF DoneLast, Completes
  <2> QED
    BY <2>1, <2>2
<1>6. ASSUME NEW a \in Aspects, Silent(a, o, 0, End) PROVE Silent(a, o, 0, End)' /\ ~Tells(events[1], a, o)
  <2>1. Silent(a, o, 1, End)
    BY <1>1, <1>6 DEF Silent
  <2>2. 0 < 1 /\ 1 < End
    BY <1>1 DEF End
  <2> QED
    BY <1>1, <1>4, <1>6, <2>1, <2>2 DEF Silent
<1> QED
  BY <1>5, <1>6 DEF DoneLast

\* A button that is in order stays so if nothing is read for its window.
LEMMA LabelKept ==
    ASSUME TypesOK, Popped, NEW o \in TopLevel, Labelled(o), o \in handlers',
           label'[o] = label[o], title'[o] = title[o], o \in states' <=> o \in states,
           IF o \in states THEN active_button' = o ELSE o \notin classed'
    PROVE  Labelled(o)'
<1>1. \A a \in Aspects : Silent(a, o, 0, End)'
  BY DoneLastTaken DEF Labelled
<1> QED
  BY <1>1 DEF Labelled

\* What was born before is not born any more when it is read.
LEMMA BornTaken ==
    ASSUME TypesOK, Popped, NEW o \in TopLevel
    PROVE  Born(o, End) <=> Creates(events[1], o) \/ Born(o, End)'
<1>1. Len(events) \in Nat \ {0} /\ Len(events') = Len(events) - 1
  BY EventsPopped
<1>2. PICK n \in Nat \ {0} : n = Len(events)
  BY <1>1
<1>3. n = End' /\ n + 1 = End
  BY <1>1, <1>2 DEF End
<1>4. Born(o, n + 1) <=> Creates(events[1], o) \/ Born(o, n)'
  BY PastPopped
<1>5. Born(o, n)' <=> Born(o, End)'
  BY <1>3 DEF Born, Creates
<1> QED
  BY <1>3, <1>4, <1>5

\* Reading is done after the bind is served.
LEMMA ReadBound ==
    ASSUME ToplevelsInv, NEW s, Taking(s)
    PROVE  bound
BY DEF ToplevelsInv, BoundFirst, Taking, Popped

\* Every event finds a handler.
LEMMA EventsHandled ==
    ASSUME ToplevelsInv
    PROVE  Handles
<1> USE DEF ToplevelsInv
<1> SUFFICES ASSUME events # <<>>, Head(events).ev \in {"title", "state", "done", "closed"}
             PROVE  Handled(Head(events).obj.id)
  BY DEF TablesMatch, Handles
<1>1. 1 \in DOMAIN events /\ Head(events) = events[1] /\ events[1] \in Message
  <2>1. events \in Seq(Message)
    BY DEF TypesOK
  <2>2. Len(events) \in Nat \ {0} /\ DOMAIN events = 1..Len(events)
    BY <2>1, EmptySeq, LenProperties
  <2> QED
    BY <2>1, <2>2, ElementOfSeq
<1>2. PICK o \in TopLevel : o = events[1].obj
  BY <1>1, MessageFields
<1>3. Known(o, 1)
  BY <1>1, <1>2 DEF EventsFind, About
<1>4. DOMAIN events \subseteq Nat \ {0}
  BY LenProperties DEF TypesOK
<1>5. o \in handlers
  BY <1>3, <1>4 DEF Known, Born
<1> QED
  BY <1>1, <1>2, <1>5 DEF Handled

LEMMA HandledNext ==
    ASSUME ToplevelsInv'
    PROVE  Handles'
<1> USE DEF ToplevelsInv
<1> SUFFICES ASSUME events' # <<>>, Head(events').ev \in {"title", "state", "done", "closed"}
             PROVE  \E h \in handlers' : h.id = Head(events').obj.id
  BY DEF TablesMatch, Handles, Handled
<1>1. 1 \in DOMAIN events' /\ Head(events') = events'[1] /\ events'[1] \in Message
  <2>1. events' \in Seq(Message)
    BY DEF TypesOK
  <2>2. Len(events') \in Nat \ {0} /\ DOMAIN events' = 1..Len(events')
    BY <2>1, EmptySeq, LenProperties
  <2> QED
    BY <2>1, <2>2, ElementOfSeq
<1>2. PICK o \in TopLevel : o = events'[1].obj
  BY <1>1, MessageFields
<1>3. Known(o, 1)'
  BY <1>1, <1>2 DEF EventsFind, About
<1>4. DOMAIN events' \subseteq Nat \ {0}
  BY LenProperties DEF TypesOK
<1>5. o \in handlers'
  BY <1>3, <1>4 DEF Known, Born
<1> QED
  BY <1>1, <1>2, <1>5

LEMMA NewButtonKeeps ==
    ASSUME PanelInv, NEW t \in TopLevel, NewButton(t)
    PROVE  PanelInv'
<1> USE DEF PanelInv
<1>0. OnNewToplevel(t)
  BY DEF NewButton
<1>1. /\ Taking(<<>>) /\ TablesMatch' /\ events[1] = Event("toplevel", t)
      /\ t \notin handlers /\ handlers' = handlers \cup {t} /\ raised' = raised
      /\ title' = [title EXCEPT ![t] = NoTitle] /\ states' = states \ {t}
  BY <1>0, NewTakes
<1>2. /\ box' = box \cup {t} /\ label' = [label EXCEPT ![t] = NoTitle] /\ classed' = classed \ {t}
      /\ UNCHANGED <<active_button, menu, nclicks, late, dimmed>>
  BY DEF NewButton, userVars
<1>3. UNCHANGED serverVars /\ LibTypeOK' /\ Popped
  BY <1>1 DEF Taking
<1>4. UNCHANGED <<bound, resources, open, names, focus, unsynced>>
  BY <1>3 DEF serverVars
<1>5. ToplevelsInv'
  BY <1>1, LibTaken
<1>6. CommandsFind(late)'
  <2>1. PICK x : x = late
    OBVIOUS
  <2>2. DOMAIN <<>> = {}
    OBVIOUS
  <2>3. CommandsFind(x)'
    BY <1>1, <2>1, <2>2, CommandsTaken DEF ToplevelsInv
  <2> QED
    BY <1>2, <2>1, <2>3 DEF CommandsFind, Destroys
<1>7. TypesOK /\ \A o \in handlers : o \in TopLevel /\ o # t
  BY <1>1 DEF ToplevelsInv, TypesOK, LibTypeOK
<1>8. PanelTypeOK' /\ raised' = {}
  BY <1>1, <1>2, <1>3 DEF PanelTypeOK
<1>9. OneActive'
  BY <1>1, OneActiveTaken
<1>10. ButtonsMatch'
  <2>1. PICK p : p = active_button
    OBVIOUS
  <2>2. p # NoButton => p # t /\ ~Born(p, End)'
    <3>1. p # NoButton => p \in TopLevel /\ ~Born(p, End)
      BY <2>1 DEF ButtonsMatch, PanelTypeOK
    <3>2. Creates(events[1], t)
      BY <1>1 DEF Creates, Event
    <3>3. Born(t, End)
      BY <1>3, <1>7, <3>2, BornTaken
    <3> QED
      BY <1>3, <1>7, <3>1, <3>3, BornTaken
  <2>3. box' = handlers' /\ classed' \subseteq {active_button'}
    BY <1>1, <1>2 DEF ButtonsMatch
  <2>4. active_button' # NoButton => ~Born(active_button, End)'
    BY <1>2, <2>1, <2>2 DEF Born, Creates
  <2>5. active_button' # NoButton => active_button' \in classed' \cup dimmed'
    BY <1>2, <2>1, <2>2 DEF ButtonsMatch
  <2> QED
    BY <1>2, <1>4, <2>3, <2>4, <2>5 DEF ButtonsMatch
<1>11. Synced'
  <2> SUFFICES ASSUME NEW o \in resources, o.win \in open \ unsynced PROVE Labelled(o)' \/ DoneLast(o)'
    BY <1>4 DEF Synced
  <2>0. o \in TopLevel
    BY DEF ToplevelsInv, TypesOK, LibTypeOK
  <2>1. CASE Labelled(o)
    <3>1. o \in handlers /\ o # t
      BY <1>7, <2>1 DEF Labelled
    <3>2. /\ o \in handlers' /\ label'[o] = label[o] /\ title'[o] = title[o] /\ (o \in states' <=> o \in states)
          /\ IF o \in states THEN active_button' = o ELSE o \notin classed'
      BY <1>1, <1>2, <2>0, <2>1, <3>1 DEF Labelled, PanelTypeOK, LibTypeOK
    <3> QED
      BY <1>3, <1>7, <2>0, <2>1, <3>2, LabelKept
  <2>2. CASE DoneLast(o)
    <3>1. ~Completes(events[1], o)
      BY <1>1 DEF Completes, Event
    <3> QED
      BY <1>3, <1>7, <2>0, <2>2, <3>1, DoneLastTaken
  <2> QED
    BY <2>1, <2>2 DEF Synced
<1> QED
  BY <1>5, <1>6, <1>8, <1>9, <1>10, <1>11

LEMMA DetailKeeps ==
    ASSUME PanelInv, NEW t \in TopLevel, Detail(t)
    PROVE  PanelInv'
<1> USE DEF PanelInv
<1>0. (OnTitle(t) \/ OnState(t)) /\ UNCHANGED <<box, label, classed, active_button, menu, nclicks, late, dimmed>>
  BY DEF Detail, buttonVars, userVars
<1>1. /\ Taking(<<>>) /\ TablesMatch' /\ t \in handlers /\ UNCHANGED <<handlers, windows, raised>>
      /\ events[1].ev \in {"title", "state"} /\ events[1].obj = t
  BY <1>0, DetailTakes
<1>3. UNCHANGED serverVars /\ LibTypeOK' /\ Popped
  BY <1>1 DEF Taking
<1>4. UNCHANGED <<bound, resources, open, names, focus, unsynced>>
  BY <1>3 DEF serverVars
<1>5. ToplevelsInv'
  BY <1>1, LibTaken
<1>6. CommandsFind(late)'
  <2>1. PICK x : x = late
    OBVIOUS
  <2>2. DOMAIN <<>> = {}
    OBVIOUS
  <2>3. CommandsFind(x)'
    BY <1>1, <2>1, <2>2, CommandsTaken DEF ToplevelsInv
  <2> QED
    BY <1>0, <2>1, <2>3 DEF CommandsFind, Destroys
<1>7. TypesOK /\ \A o \in handlers : o \in TopLevel
  BY <1>1 DEF ToplevelsInv, TypesOK, LibTypeOK
<1>8. PanelTypeOK' /\ raised' = {}
  BY <1>0, <1>1, <1>3 DEF PanelTypeOK
<1>9. OneActive'
  BY <1>1, OneActiveTaken
<1>10. ButtonsMatch'
  <2>1. PICK p : p = active_button
    OBVIOUS
  <2>2. p # NoButton => ~Born(p, End)'
    <3>1. p # NoButton => p \in TopLevel /\ ~Born(p, End)
      BY <2>1 DEF ButtonsMatch, PanelTypeOK
    <3> QED
      BY <1>3, <1>7, <3>1, BornTaken
  <2>3. active_button' # NoButton => ~Born(active_button, End)'
    BY <1>0, <2>1, <2>2 DEF Born, Creates
  <2> QED
    BY <1>0, <1>1, <1>4, <2>3 DEF ButtonsMatch
<1>11. Synced'
  <2> SUFFICES ASSUME NEW o \in resources, o.win \in open \ unsynced PROVE Labelled(o)' \/ DoneLast(o)'
    BY <1>4 DEF Synced
  <2>0. o \in TopLevel
    BY DEF ToplevelsInv, TypesOK, LibTypeOK
  <2>1. CASE Labelled(o)
    <3>1. \A a \in Aspects : ~Tells(events[1], a, o)
      BY <1>3, <1>7, <2>0, <2>1, DoneLastTaken DEF Labelled
    <3>2. ~Creates(events[1], o)
      BY <1>1 DEF Creates
    <3>3. \A a \in Aspects : Read(a, o)' = Read(a, o)
      BY <1>1, <2>0, <3>1, <3>2 DEF Taking
    <3>4. title'[o] = title[o] /\ (o \in states' <=> o \in states)
      BY <3>3 DEF Read, OnOff, Aspects
    <3> QED
      BY <1>0, <1>1, <1>3, <1>7, <2>0, <2>1, <3>4, LabelKept DEF Labelled
  <2>2. CASE DoneLast(o)
    <3>1. ~Completes(events[1], o)
      BY <1>1 DEF Completes
    <3> QED
      BY <1>3, <1>7, <2>0, <2>2, <3>1, DoneLastTaken
  <2> QED
    BY <2>1, <2>2 DEF Synced
<1> QED
  BY <1>5, <1>6, <1>8, <1>9, <1>10, <1>11

LEMMA ToplevelSyncedKeeps ==
    ASSUME PanelInv, NEW t \in TopLevel, OnToplevelSynced(t)
    PROVE  PanelInv'
<1> USE DEF PanelInv
<1>0. OnDone(t)
  BY DEF OnToplevelSynced
<1>1. /\ Taking(<<>>) /\ TablesMatch' /\ t \in handlers /\ UNCHANGED libVars
      /\ events[1].ev = "done" /\ events[1].obj = t
  BY <1>0, DoneTakes
<1>2. /\ label' = [label EXCEPT ![t] = title[t]]
      /\ UNCHANGED <<box, menu, nclicks, late>>
      /\ t \in states => /\ active_button' = t /\ dimmed' = dimmed
                         /\ classed' = IF t = active_button THEN classed
                                       ELSE (classed \ {active_button}) \cup {t}
      /\ t \notin states => /\ active_button' = active_button
                            /\ classed' = IF t = active_button THEN classed \ {t} ELSE classed
                            /\ dimmed' = IF t = active_button THEN dimmed \cup {t} ELSE dimmed
  BY DEF OnToplevelSynced, userVars
<1>3. UNCHANGED serverVars /\ LibTypeOK' /\ Popped
  BY <1>1 DEF Taking
<1>4. UNCHANGED <<bound, resources, open, names, focus, unsynced, handlers, title, states, windows, raised>>
  BY <1>1, <1>3 DEF serverVars, libVars
<1>5. ToplevelsInv'
  BY <1>1, LibTaken
<1>6. CommandsFind(late)'
  <2>1. PICK x : x = late
    OBVIOUS
  <2>2. DOMAIN <<>> = {}
    OBVIOUS
  <2>3. CommandsFind(x)'
    BY <1>1, <2>1, <2>2, CommandsTaken DEF ToplevelsInv
  <2> QED
    BY <1>2, <2>1, <2>3 DEF CommandsFind, Destroys
<1>7. TypesOK /\ \A o \in handlers : o \in TopLevel /\ o \in resources
  BY <1>1 DEF ToplevelsInv, TypesOK, LibTypeOK, TablesMatch
<1>8. PanelTypeOK' /\ raised' = {}
  <2>1. title[t] \in Titles \cup {NoTitle}
    BY DEF PanelTypeOK, LibTypeOK
  <2>2. label' \in [TopLevel -> Titles \cup {NoTitle}]
    BY <1>2, <2>1 DEF PanelTypeOK
  <2> QED
    BY <1>2, <1>3, <1>4, <2>2 DEF PanelTypeOK
<1>9. OneActive'
  BY <1>1, OneActiveTaken
<1>10. ButtonsMatch'
  <2>1. PICK p : p = active_button'
    OBVIOUS
  <2>2. p # NoButton => p \in TopLevel /\ ~Born(p, End) /\ p.win \in DOMAIN names
    <3>1. CASE p = t
      <4>1. About(events[1], t)
        BY <1>1 DEF About
      <4>2. ~Born(t, End)
        BY <1>3, <4>1, FirstFinds DEF ToplevelsInv
      <4>3. t.win \in DOMAIN names
        BY <1>1, <1>7 DEF ToplevelsInv, Apart
      <4> QED
        BY <1>1, <1>7, <3>1, <4>2, <4>3
    <3>2. CASE p = active_button
      BY <3>2 DEF ButtonsMatch, PanelTypeOK
    <3> QED
      BY <1>2, <2>1, <3>1, <3>2
  <2>3. p # NoButton => ~Born(p, End)'
    BY <1>3, <1>7, <2>2, BornTaken
  <2>4. active_button' # NoButton => ~Born(active_button, End)'
    BY <2>1, <2>3 DEF Born, Creates
  <2>5. bound' /\ (active_button' # NoButton => active_button'.win \in DOMAIN names')
    BY <1>1, <1>4, <2>1, <2>2, ReadBound
  <2>6. box' = handlers' /\ classed' \subseteq {active_button'}
    BY <1>2, <1>4 DEF ButtonsMatch
  <2>7. active_button' # NoButton => active_button' \in classed' \cup dimmed'
    BY <1>2 DEF ButtonsMatch
  <2> QED
    BY <2>4, <2>5, <2>6, <2>7 DEF ButtonsMatch
<1>11. ASSUME NEW o \in handlers, o # t, o \in states PROVE t \notin states
  <2>1. 1 \in DOMAIN events /\ DOMAIN events = 1..Len(events)
    BY <1>3, <1>7, EventsPopped
  <2>2. PICK p \in TopLevel : \A x \in TopLevel : Known(x, 1) /\ x # p => Heard("state", x, "off", 1)
    BY <1>1, <2>1 DEF OneActive
  <2>3. \A x : ~Born(x, 1) /\ ~Gone(x, 1)
    BY <2>1 DEF Born, Gone
  <2>4. \A x : Heard("state", x, "off", 1) => Read("state", x) = "off"
    BY <2>1 DEF Heard
  <2>5. \A x \in handlers : x # p => x \notin states
    <3> SUFFICES ASSUME NEW x \in handlers, x # p PROVE x \notin states
      OBVIOUS
    <3>1. Read("state", x) = "off"
      BY <1>7, <2>2, <2>3, <2>4 DEF Known
    <3> QED
      BY <3>1 DEF Read, OnOff
  <2> QED
    BY <1>1, <1>11, <2>5
<1>12. Synced'
  <2> SUFFICES ASSUME NEW o \in resources, o.win \in open \ unsynced PROVE Labelled(o)' \/ DoneLast(o)'
    BY <1>4 DEF Synced
  <2>0. o \in TopLevel
    BY DEF ToplevelsInv, TypesOK, LibTypeOK
  <2>1. CASE o = t
    <3>1. DoneLast(o)' \/ \A a \in Aspects : Silent(a, o, 0, End)'
      <4>1. CASE Labelled(o)
        BY <1>3, <1>7, <2>0, <4>1, DoneLastTaken DEF Labelled
      <4>2. CASE DoneLast(o)
        BY <1>3, <1>7, <2>0, <4>2, DoneLastTaken
      <4> QED
        BY <4>1, <4>2 DEF Synced
    <3>2. label'[t] = title[t]
      BY <1>2 DEF PanelTypeOK
    <3>3. IF t \in states THEN active_button' = t ELSE t \notin classed'
      BY <1>2 DEF ButtonsMatch
    <3> QED
      BY <1>1, <1>4, <2>1, <3>1, <3>2, <3>3 DEF Labelled
  <2>2. CASE o # t
    <3>1. CASE Labelled(o)
      <4>1. o \in handlers /\ label'[o] = label[o]
        BY <1>2, <2>0, <2>2, <3>1 DEF Labelled, PanelTypeOK
      <4>2. IF o \in states THEN active_button' = o ELSE o \notin classed'
        BY <1>2, <1>11, <2>2, <3>1, <4>1 DEF Labelled
      <4> QED
        BY <1>3, <1>4, <1>7, <2>0, <3>1, <4>1, <4>2, LabelKept
    <3>2. CASE DoneLast(o)
      <4>1. ~Completes(events[1], o)
        BY <1>1, <2>2 DEF Completes
      <4> QED
        BY <1>3, <1>7, <2>0, <3>2, <4>1, DoneLastTaken
    <3> QED
      BY <3>1, <3>2 DEF Synced
  <2> QED
    BY <2>1, <2>2
<1> QED
  BY <1>5, <1>6, <1>8, <1>9, <1>10, <1>12

LEMMA ToplevelClosedKeeps ==
    ASSUME PanelInv, NEW t \in TopLevel, OnToplevelClosed(t)
    PROVE  PanelInv'
<1> USE DEF PanelInv
<1>0. OnClosed(t) /\ box' = box \ {t} /\ UNCHANGED <<label, classed, active_button, menu, nclicks, late, dimmed>>
  BY DEF OnToplevelClosed, userVars
<1>1. /\ Taking(<<Command("destroy", t)>>) /\ TablesMatch' /\ t \in handlers /\ events[1] = Event("closed", t)
      /\ handlers' = handlers \ {t} /\ UNCHANGED <<title, states, raised>>
  BY <1>0, ClosedTakes
<1>2. PICK s : s = <<Command("destroy", t)>>
  OBVIOUS
<1>3. Taking(s) /\ UNCHANGED serverVars /\ LibTypeOK' /\ Popped
  BY <1>1, <1>2 DEF Taking
<1>4. UNCHANGED <<bound, resources, open, names, focus, unsynced>>
  BY <1>3 DEF serverVars
<1>5. ToplevelsInv'
  BY <1>1, <1>3, LibTaken
<1>6. CommandsFind(late)'
  <2>1. PICK x : x = late
    OBVIOUS
  <2>2. \A k \in DOMAIN s : s[k].op \notin Ops
    BY <1>2 DEF Command, Ops
  <2>3. CommandsFind(x)'
    BY <1>3, <2>1, <2>2, CommandsTaken DEF ToplevelsInv
  <2> QED
    BY <1>0, <2>1, <2>3 DEF CommandsFind, Destroys
<1>7. TypesOK /\ \A o \in handlers : o \in TopLevel
  BY <1>1 DEF ToplevelsInv, TypesOK, LibTypeOK
<1>8. PanelTypeOK' /\ raised' = {}
  BY <1>0, <1>1, <1>3 DEF PanelTypeOK
<1>9. OneActive'
  BY <1>3, OneActiveTaken
<1>10. ButtonsMatch'
  <2>1. PICK p : p = active_button
    OBVIOUS
  <2>2. p # NoButton => ~Born(p, End)'
    <3>1. p # NoButton => p \in TopLevel /\ ~Born(p, End)
      BY <2>1 DEF ButtonsMatch, PanelTypeOK
    <3> QED
      BY <1>3, <1>7, <3>1, BornTaken
  <2>3. active_button' # NoButton => ~Born(active_button, End)'
    BY <1>0, <2>1, <2>2 DEF Born, Creates
  <2> QED
    BY <1>0, <1>1, <1>4, <2>3 DEF ButtonsMatch
<1>11. Synced'
  <2> SUFFICES ASSUME NEW o \in resources, o.win \in open \ unsynced PROVE Labelled(o)' \/ DoneLast(o)'
    BY <1>4 DEF Synced
  <2>0. o \in TopLevel
    BY DEF ToplevelsInv, TypesOK, LibTypeOK
  <2>1. o # t
    <3>1. Known(o, End)
      BY <2>0 DEF ToplevelsInv, TruthFollows
    <3>2. 1 \in DOMAIN events /\ 1 < End
      BY <1>3, <1>7, EventsPopped DEF End
    <3>3. Gone(t, End)
      BY <1>1, <3>2 DEF Gone, Closes, Event
    <3> QED
      BY <3>1, <3>3 DEF Known
  <2>2. CASE Labelled(o)
    BY <1>0, <1>1, <1>3, <1>7, <2>0, <2>1, <2>2, LabelKept DEF Labelled
  <2>3. CASE DoneLast(o)
    <3>1. ~Completes(events[1], o)
      BY <1>1 DEF Completes, Event
    <3> QED
      BY <1>3, <1>7, <2>0, <2>3, <3>1, DoneLastTaken
  <2> QED
    BY <2>2, <2>3 DEF Synced
<1> QED
  BY <1>5, <1>6, <1>8, <1>9, <1>10, <1>11

-----------------------------------------------------------------------------
\* The compositor sends s, and the panel has yet to read it.  Whoever reads a done
\* event finds one window active at most.
LEMMA OneActiveGrown ==
    ASSUME ToplevelsInv, ToplevelsInv', OneActive, NEW s, Grown(s),
           \A i \in DOMAIN s : s[i].ev = "done" => \A k, v, o :
               k = Len(events) + i /\ o \in TopLevel /\ Known(o, k)' /\ v = Actual("state", o)'
                 => o \in resources' /\ Heard("state", o, v, k)'
    PROVE  OneActive'
<1> SUFFICES ASSUME NEW k \in DOMAIN events', events'[k].ev = "done"
             PROVE  \E p \in TopLevel : \A o \in TopLevel : Known(o, k)' /\ o # p => Heard("state", o, "off", k)'
  BY DEF OneActive
<1>0. TypesOK
  BY DEF ToplevelsInv
<1>1. /\ \A j \in DOMAIN events : events'[j] = events[j] /\ j \in Nat /\ j <= Len(events) + 1
      /\ \A i \in DOMAIN s : events'[Len(events) + i] = s[i] /\ s[i] \in Message
      /\ \A j \in DOMAIN events' : j \in DOMAIN events \/ \E i \in DOMAIN s : j = Len(events) + i
  BY <1>0, EventsGrown
<1>2. CASE k \in DOMAIN events
  <2>1. PICK p \in TopLevel : \A o \in TopLevel : Known(o, k) /\ o # p => Heard("state", o, "off", k)
    BY <1>1, <1>2 DEF OneActive
  <2>2. \A o \in TopLevel : /\ Known(o, k)' <=> Known(o, k)
                            /\ Heard("state", o, "off", k)' <=> Heard("state", o, "off", k)
    BY <1>0, <1>1, <1>2, PastGrown
  <2> QED
    BY <2>1, <2>2
<1>3. CASE k \notin DOMAIN events
  <2>1. PICK i \in DOMAIN s : k = Len(events) + i
    BY <1>1, <1>3
  <2>2. s[i].ev = "done" /\ s[i].obj \in TopLevel
    BY <1>1, <2>1, MessageFields
  <2>3. PICK p \in TopLevel : \A o \in resources' : o.win \in focus' => o = p
    <3>1. \A o, r \in resources' : o.win \in focus' /\ r.win \in focus' => o = r
      BY DEF ToplevelsInv, OneFocus, Apart
    <3>2. resources' \subseteq TopLevel
      BY DEF ToplevelsInv, TypesOK, LibTypeOK
    <3> QED
      BY <2>2, <3>1, <3>2
  <2>4. ASSUME NEW o \in TopLevel, Known(o, k)', o # p PROVE Heard("state", o, "off", k)'
    <3>1. PICK v : v = Actual("state", o)'
      OBVIOUS
    <3>2. o \in resources' /\ Heard("state", o, v, k)'
      BY <2>1, <2>2, <2>4, <3>1
    <3>3. v = "off"
      BY <2>3, <2>4, <3>1, <3>2 DEF Actual, OnOff
    <3> QED
      BY <3>2, <3>3
  <2> QED
    BY <2>4
<1> QED
  BY <1>2, <1>3

\* That is so for a done event that is sent by itself, and for those of new windows.
LEMMA OneActiveDone ==
    ASSUME ToplevelsInv, ToplevelsInv', OneActive, NEW e \in Message, Grown(<<e>>),
           e.ev = "done" => UNCHANGED <<resources, focus>>
    PROVE  OneActive'
<1>1. PICK s : s = <<e>>
  OBVIOUS
<1>2. DOMAIN s = {1} /\ s[1] = e /\ Grown(s)
  BY <1>1
<1>3. ASSUME NEW k, NEW v, NEW o \in TopLevel, e.ev = "done", k = Len(events) + 1, Known(o, k)', v = Actual("state", o)'
      PROVE  o \in resources' /\ Heard("state", o, v, k)'
  <2>1. PICK n \in Nat \ {0} :
             /\ n = End
             /\ \A r : Known(r, n) <=> Known(r, End)
             /\ \A a, r, w : Heard(a, r, w, n) <=> Heard(a, r, w, End)
    BY AtEnd DEF ToplevelsInv
  <2>2. n = k /\ n <= Len(events) + 1
    BY <1>3, <2>1 DEF End, ToplevelsInv, TypesOK
  <2>3. Known(o, End)
    BY <1>2, <1>3, <2>1, <2>2, PastGrown DEF ToplevelsInv
  <2>4. o \in resources /\ o.win \in open
    BY <2>3 DEF ToplevelsInv, TruthFollows
  <2>5. v = Actual("state", o)
    BY <1>3 DEF Actual, OnOff
  <2>6. Heard("state", o, v, End)
    BY <2>4, <2>5 DEF ToplevelsInv, DetailsFollow, Aspects
  <2>7. Heard("state", o, v, n)'
    BY <1>2, <2>1, <2>2, <2>6, PastGrown DEF ToplevelsInv
  <2> QED
    BY <1>3, <2>2, <2>4, <2>7
<1>4. \A i \in DOMAIN s : s[i].ev = "done" => \A k, v, o :
        k = Len(events) + i /\ o \in TopLevel /\ Known(o, k)' /\ v = Actual("state", o)'
          => o \in resources' /\ Heard("state", o, v, k)'
  BY <1>2, <1>3
<1> QED
  BY <1>2, <1>4, OneActiveGrown

LEMMA OneActiveFresh ==
    ASSUME ToplevelsInv, ToplevelsInv', OneActive, NEW q, NEW s, Fresh(q, s)
    PROVE  OneActive'
<1>0. Grown(s) /\ TypesOK /\ TypesOK' /\ handlers' = handlers
  BY DEF Fresh, Grown, ToplevelsInv
<1>1. ASSUME NEW i \in DOMAIN s, NEW k, NEW v, NEW o \in TopLevel,
             s[i].ev = "done", k = Len(events) + i, Known(o, k)', v = Actual("state", o)'
      PROVE  o \in resources' /\ Heard("state", o, v, k)'
  <2>1. i \in 1..(Len(s) + 1) /\ Len(s) \in Nat
    BY <1>0, EventsGrown
  <2>2. /\ Born(o, k)' <=> Born(o, End) \/ \E j \in DOMAIN q : 4 * j - 3 < i /\ q[j] = o
        /\ Gone(o, k)' <=> Gone(o, End)
    BY <1>0, <1>1, <2>1, FreshPast
  <2>3. Known(o, End) \/ \E j \in DOMAIN q : 4 * j - 3 < i /\ q[j] = o
    BY <1>0, <1>1, <2>2 DEF Known
  <2>4. CASE Known(o, End)
    <3>1. o \in resources /\ o.win \in open
      BY <2>4 DEF ToplevelsInv, TruthFollows
    <3>2. v = Actual("state", o) /\ o \in resources'
      BY <1>1, <3>1 DEF Fresh, Aspects
    <3>3. Heard("state", o, v, End)
      BY <3>1, <3>2 DEF ToplevelsInv, DetailsFollow, Aspects
    <3>4. \A h \in DOMAIN s : ~Tells(s[h], "state", o)
      BY <1>0, <3>1, FreshTells DEF Aspects
    <3> QED
      BY <1>0, <1>1, <2>1, <3>2, <3>3, <3>4, HeardKept
  <2>5. ASSUME NEW j \in DOMAIN q, 4 * j - 3 < i, q[j] = o
        PROVE  o \in resources' /\ Heard("state", o, v, k)'
    <3>1. /\ j \in Nat \ {0} /\ o \in resources' /\ 4 * j - 1 \in DOMAIN s
          /\ Tells(s[4 * j - 1], "state", o) /\ Told(s[4 * j - 1]) = OnOff(o.win \in focus')
          /\ \A h \in DOMAIN s : Tells(s[h], "state", o) => h = 4 * j - 1
      BY <1>0, <2>5, FreshTells
    <3>2. PICK l \in DOMAIN q : i = 4 * l - 3 \/ i = 4 * l - 2 \/ i = 4 * l - 1 \/ i = 4 * l
      BY <1>0, FreshTells
    <3>3. /\ l \in Nat \ {0}
          /\ s[4 * l - 3].ev = "toplevel" /\ s[4 * l - 2].ev = "title" /\ s[4 * l - 1].ev = "state"
      BY <1>0, FreshTells DEF Creates, Tells
    <3>4. i = 4 * l
      BY <1>1, <3>2, <3>3
    <3>5. PICK h \in DOMAIN s : h = 4 * j - 1
      BY <3>1
    <3>6. h < i
      BY <2>5, <3>1, <3>3, <3>4, <3>5
    <3>7. v = OnOff(o.win \in focus')
      BY <1>1 DEF Actual, OnOff
    <3>8. \A g \in DOMAIN s : h < g /\ g < i => ~Tells(s[g], "state", o)
      BY <2>1, <3>1, <3>5
    <3> QED
      BY <1>0, <1>1, <2>1, <3>1, <3>5, <3>6, <3>7, <3>8, HeardNew
  <2> QED
    BY <2>3, <2>4, <2>5
<1>2. \A i \in DOMAIN s : s[i].ev = "done" => \A k, v, o :
        k = Len(events) + i /\ o \in TopLevel /\ Known(o, k)' /\ v = Actual("state", o)'
          => o \in resources' /\ Heard("state", o, v, k)'
  BY <1>1
<1> QED
  BY <1>0, <1>2, OneActiveGrown

\* A window of which nothing is told stays in order; one that is told of is done with
\* when a done event follows.
LEMMA SilentEnd ==
    ASSUME TypesOK, NEW s, Grown(s), NEW o, NEW a
    PROVE  /\ \A i \in Nat, h \in Nat :
                h = Len(events) + i /\ (\A j \in DOMAIN s : i < j => ~Tells(s[j], a, o)) => Silent(a, o, h, End)'
           /\ \A i \in Nat : Silent(a, o, i, End) /\ (\A j \in DOMAIN s : ~Tells(s[j], a, o)) => Silent(a, o, i, End)'
<1>1. Len(events) \in Nat /\ Len(s) \in Nat /\ Len(events') = Len(events) + Len(s)
  BY EventsGrown
<1>2. PICK m \in 1..(Len(s) + 1), n \in Nat : m = Len(s) + 1 /\ n = Len(events) + m
  BY <1>1
<1>3. n = End'
  BY <1>1, <1>2 DEF End
<1>4. /\ \A i \in Nat, h \in Nat :
           h = Len(events) + i /\ (\A j \in DOMAIN s : i < j /\ j < m => ~Tells(s[j], a, o)) => Silent(a, o, h, n)'
      /\ \A i \in Nat : Silent(a, o, i, End) /\ (\A j \in DOMAIN s : j < m => ~Tells(s[j], a, o)) => Silent(a, o, i, n)'
  BY <1>2, SilentGrown
<1>5. \A i : Silent(a, o, i, n)' <=> Silent(a, o, i, End)'
  BY <1>3 DEF Silent, Tells
<1> QED
  BY <1>4, <1>5

LEMMA OrderKept ==
    ASSUME TypesOK, NEW s, Grown(s), UNCHANGED buttonVars, NEW o, Labelled(o) \/ DoneLast(o),
           \A j \in DOMAIN s, a \in Aspects : ~Tells(s[j], a, o)
    PROVE  Labelled(o)' \/ DoneLast(o)'
<1>1. UNCHANGED <<label, classed, active_button, handlers, title, states>>
  BY DEF buttonVars, Grown
<1>2. \A i \in Nat, a \in Aspects : Silent(a, o, i, End) => Silent(a, o, i, End)'
  BY SilentEnd
<1>3. CASE Labelled(o)
  BY <1>1, <1>2, <1>3 DEF Labelled
<1>4. CASE DoneLast(o)
  <2>1. PICK j \in DOMAIN events : Completes(events[j], o) /\ \A a \in Aspects : Silent(a, o, j, End)
    BY <1>4 DEF DoneLast
  <2>2. j \in Nat /\ j \in DOMAIN events' /\ events'[j] = events[j]
    BY EventsGrown
  <2>3. Completes(events'[j], o) /\ \A a \in Aspects : Silent(a, o, j, End)'
    BY <1>2, <2>1, <2>2
  <2> QED
    BY <2>2, <2>3 DEF DoneLast, Completes
<1> QED
  BY <1>3, <1>4

LEMMA OrderMade ==
    ASSUME TypesOK, NEW s, Grown(s), NEW o, NEW i \in DOMAIN s, Completes(s[i], o),
           \A j \in DOMAIN s, a \in Aspects : i < j => ~Tells(s[j], a, o)
    PROVE  DoneLast(o)'
<1>1. /\ Len(events) \in Nat /\ i \in Nat /\ Len(events) + i \in DOMAIN events'
      /\ events'[Len(events) + i] = s[i]
  BY EventsGrown
<1>2. PICK h \in Nat : h = Len(events) + i
  BY <1>1
<1>3. \A a \in Aspects : Silent(a, o, h, End)'
  BY <1>1, <1>2, SilentEnd
<1>4. h \in DOMAIN events' /\ Completes(events'[h], o)
  BY <1>1, <1>2
<1> QED
  BY <1>3, <1>4 DEF DoneLast, Completes

-----------------------------------------------------------------------------
\* What the compositor does to the panel.
LEMMA PanelKept ==
    ASSUME PanelInv, ToplevelsInv', UNCHANGED <<buttonVars, userVars, dimmed, handlers, raised>>,
           bound => bound', DOMAIN names \subseteq DOMAIN names',
           \A p \in TopLevel : p = active_button /\ Born(p, End)' => Born(p, End),
           \A x : CommandsFind(x) => CommandsFind(x)',
           OneActive', Synced'
    PROVE  PanelInv'
<1> USE DEF PanelInv
<1>1. UNCHANGED <<box, label, classed, active_button, menu, nclicks, late, dimmed, handlers, raised>>
  BY DEF buttonVars, userVars
<1>2. PanelTypeOK'
  BY <1>1 DEF PanelTypeOK, ToplevelsInv, TypesOK
<1>3. CommandsFind(late)'
  <2>1. PICK x : x = late
    OBVIOUS
  <2>2. CommandsFind(x)'
    BY <2>1
  <2> QED
    BY <1>1, <2>1, <2>2 DEF CommandsFind, Destroys
<1>4. ButtonsMatch'
  <2>1. PICK p : p = active_button
    OBVIOUS
  <2>2. p # NoButton => ~Born(p, End)'
    BY <2>1 DEF ButtonsMatch, PanelTypeOK
  <2>3. active_button' # NoButton => ~Born(active_button, End)'
    BY <1>1, <2>1, <2>2 DEF Born, Creates
  <2> QED
    BY <1>1, <2>3 DEF ButtonsMatch
<1> QED
  BY <1>1, <1>2, <1>3, <1>4

LEMMA ToldKeeps ==
    ASSUME PanelInv, ToplevelsInv', NEW s, Unfinished(s), UNCHANGED buttonVars
    PROVE  OneActive' /\ Synced'
<1> USE DEF PanelInv
<1>1. /\ TypesOK /\ Grown(s) /\ Tidings(s) /\ UNCHANGED <<resources, open>>
      /\ \A i \in DOMAIN s : s[i].ev \in Aspects /\ s[i].obj.win \in unsynced'
      /\ unsynced \subseteq unsynced'
  BY DEF ToplevelsInv, Unfinished, Tidings
<1>2. OneActive'
  <2>1. \A i \in DOMAIN s : s[i].ev # "done"
    BY <1>1 DEF Aspects
  <2> QED
    BY <1>1, <2>1, OneActiveGrown
<1>3. Synced'
  <2> SUFFICES ASSUME NEW o \in resources, o.win \in open \ unsynced' PROVE Labelled(o)' \/ DoneLast(o)'
    BY <1>1 DEF Synced
  <2>1. Labelled(o) \/ DoneLast(o)
    BY <1>1 DEF Synced
  <2>2. \A j \in DOMAIN s, a \in Aspects : ~Tells(s[j], a, o)
    BY <1>1 DEF Tells
  <2> QED
    BY <1>1, <2>1, <2>2, OrderKept
<1> QED
  BY <1>2, <1>3

LEMMA FreshSynced ==
    ASSUME PanelInv, ToplevelsInv', NEW q, NEW s, Fresh(q, s), UNCHANGED <<buttonVars, unsynced>>
    PROVE  Synced'
<1> SUFFICES ASSUME NEW o \in resources', o.win \in open' \ unsynced PROVE Labelled(o)' \/ DoneLast(o)'
  BY DEF Synced
<1>0. TypesOK /\ TypesOK' /\ Grown(s)
  BY DEF PanelInv, ToplevelsInv, Fresh
<1>1. CASE o \in resources
  <2>1. Labelled(o) \/ DoneLast(o)
    BY <1>1 DEF PanelInv, Synced, Fresh
  <2>2. \A j \in DOMAIN s, a \in Aspects : ~Tells(s[j], a, o)
    BY <1>0, <1>1, FreshTells
  <2> QED
    BY <1>0, <2>1, <2>2, OrderKept
<1>2. CASE o \notin resources
  <2>1. PICK i \in DOMAIN q : q[i] = o
    BY <1>2 DEF Fresh
  <2>2. /\ i \in Nat \ {0} /\ 4 * i \in DOMAIN s /\ Completes(s[4 * i], o)
        /\ \A j \in DOMAIN s : /\ Tells(s[j], "title", o) <=> j = 4 * i - 2
                               /\ Tells(s[j], "state", o) <=> j = 4 * i - 1
    BY <1>0, <2>1, FreshTells
  <2>3. PICK h \in DOMAIN s : h = 4 * i
    BY <2>2
  <2>4. \A j \in DOMAIN s, a \in Aspects : h < j => ~Tells(s[j], a, o)
    BY <2>2, <2>3 DEF Aspects
  <2> QED
    BY <1>0, <2>2, <2>3, <2>4, OrderMade
<1> QED
  BY <1>1, <1>2

LEMMA PanelServed ==
    ASSUME PanelInv, ServeWindows, UNCHANGED <<buttonVars, userVars, dimmed>>
    PROVE  PanelInv'
<1> USE DEF PanelInv
<1>1. CASE ServeBind
  <2>1. /\ ToplevelsInv' /\ ~bound
        /\ \E q, s : /\ Fresh(q, s)
                     /\ \A o \in TopLevel : Born(o, End)' <=> Born(o, End) \/ \E i \in DOMAIN q : q[i] = o
        /\ \A x : CommandsFind(x) => CommandsFind(x)'
    BY <1>1, ServeBindKeeps
  <2>2. UNCHANGED <<handlers, raised, names, unsynced>> /\ bound'
    BY <1>1 DEF ServeBind, libVars
  <2>3. active_button \notin TopLevel
    BY <2>1, PanelAssumption DEF ButtonsMatch
  <2>4. OneActive' /\ Synced'
    BY <2>1, <2>2, OneActiveFresh, FreshSynced
  <2> QED
    BY <2>1, <2>2, <2>3, <2>4, PanelKept
<1>2. CASE ServeDestroy
  <2>1. /\ ToplevelsInv'
        /\ UNCHANGED <<libVars, events, open, names, focus, unsynced, served, bound>>
        /\ resources' \subseteq resources
        /\ \A x : CommandsFind(x) => CommandsFind(x)'
    BY <1>2, ServeDestroyKeeps
  <2>2. UNCHANGED <<handlers, raised, title, states, events, label, classed, active_button, open, unsynced, names, bound>>
    BY <2>1 DEF libVars, buttonVars
  <2>3. OneActive'
    BY <2>2 DEF OneActive, Known, Born, Gone, Creates, Closes, Heard, Silent, Tells, Told, Read, OnOff
  <2>4. Synced'
    <3>1. \A o : (Labelled(o) => Labelled(o)') /\ (DoneLast(o) => DoneLast(o)')
      BY <2>2 DEF Labelled, DoneLast, Silent, Tells, Completes, End
    <3> QED
      BY <2>1, <2>2, <3>1 DEF Synced
  <2>5. \A p : Born(p, End)' => Born(p, End)
    BY <2>2 DEF Born, Creates, End
  <2> QED
    BY <2>1, <2>2, <2>3, <2>4, <2>5, PanelKept
<1>3. ASSUME NEW op \in Ops, ServeCommand(op) PROVE PanelInv'
  <2>1. /\ ToplevelsInv' /\ \E s : Unfinished(s)
        /\ \A o \in TopLevel : Born(o, End)' <=> Born(o, End)
        /\ \A x : CommandsFind(x) => CommandsFind(x)'
    BY <1>3, ServeCommandKeeps
  <2>2. UNCHANGED <<handlers, raised, names, bound>>
    BY <1>3 DEF ServeCommand, libVars
  <2>3. OneActive' /\ Synced'
    BY <2>1, ToldKeeps
  <2> QED
    BY <2>1, <2>2, <2>3, PanelKept
<1> QED
  BY <1>1, <1>2, <1>3 DEF ServeWindows

LEMMA PanelChanged ==
    ASSUME PanelInv, NewTitle \/ NewFocus \/ Done, UNCHANGED <<buttonVars, userVars, dimmed>>
    PROVE  PanelInv'
<1> USE DEF PanelInv
<1>1. CASE NewTitle
  <2>1. PICK o \in Objects(open), t \in Titles : bound /\ Rename(o, t)
    BY <1>1 DEF NewTitle
  <2>2. /\ ToplevelsInv' /\ \E s : Unfinished(s)
        /\ \A r \in TopLevel : Born(r, End)' <=> Born(r, End)
        /\ \A x : CommandsFind(x) => CommandsFind(x)'
    BY <2>1, RenameKeeps
  <2>3. UNCHANGED <<handlers, raised, bound>> /\ DOMAIN names \subseteq DOMAIN names'
    BY <2>1 DEF Rename, libVars
  <2>4. OneActive' /\ Synced'
    BY <2>2, ToldKeeps
  <2> QED
    BY <2>2, <2>3, <2>4, PanelKept
<1>2. CASE NewFocus
  <2>1. PICK wins \in {{}} \cup {{w} : w \in open} : bound /\ Focus(wins)
    BY <1>2 DEF NewFocus
  <2>2. /\ ToplevelsInv' /\ \E s : Unfinished(s)
        /\ \A r \in TopLevel : Born(r, End)' <=> Born(r, End)
        /\ \A x : CommandsFind(x) => CommandsFind(x)'
    BY <2>1, FocusKeeps
  <2>3. UNCHANGED <<handlers, raised, bound, names>>
    BY <2>1 DEF Focus, libVars
  <2>4. OneActive' /\ Synced'
    BY <2>2, ToldKeeps
  <2> QED
    BY <2>2, <2>3, <2>4, PanelKept
<1>3. CASE Done
  <2>1. PICK o \in Objects(unsynced) : bound /\ SendDone(o)
    BY <1>3 DEF Done
  <2>2. /\ ToplevelsInv' /\ Tidings(<<Event("done", o)>>)
        /\ \A r \in TopLevel : Born(r, End)' <=> Born(r, End)
        /\ \A x : CommandsFind(x) => CommandsFind(x)'
    BY <2>1, SendDoneKeeps
  <2>3. UNCHANGED <<handlers, raised, bound, names, resources, open, focus>> /\ unsynced' = unsynced \ {o.win}
    BY <2>1 DEF SendDone, libVars
  <2>4. o \in resources /\ o \in TopLevel /\ TypesOK
    BY DEF Objects, ToplevelsInv, TypesOK, LibTypeOK
  <2>5. PICK e : e = Event("done", o)
    OBVIOUS
  <2>6. e \in Message /\ e.ev = "done" /\ e.obj = o
    BY <2>4, <2>5 DEF Event, Message
  <2>7. Grown(<<e>>) /\ DOMAIN <<e>> = {1} /\ <<e>>[1] = e
    BY <2>2, <2>5 DEF Tidings
  <2>8. OneActive'
    BY <2>2, <2>3, <2>6, <2>7, OneActiveDone
  <2>9. \A r : \A j \in DOMAIN <<e>>, a \in Aspects : ~Tells(<<e>>[j], a, r)
    BY <2>6, <2>7 DEF Tells, Aspects
  <2>10. Synced'
    <3> SUFFICES ASSUME NEW r \in resources, r.win \in open \ unsynced' PROVE Labelled(r)' \/ DoneLast(r)'
      BY <2>3 DEF Synced
    <3>1. CASE r = o
      BY <2>4, <2>6, <2>7, <2>9, <3>1, OrderMade DEF Completes
    <3>2. CASE r # o
      <4>1. r.win # o.win
        BY <2>4, <3>2 DEF ToplevelsInv, Apart
      <4>2. Labelled(r) \/ DoneLast(r)
        BY <2>3, <4>1 DEF Synced
      <4> QED
        BY <2>4, <2>7, <2>9, <4>2, OrderKept
    <3> QED
      BY <3>1, <3>2
  <2> QED
    BY <2>2, <2>3, <2>8, <2>10, PanelKept
<1> QED
  BY <1>1, <1>2, <1>3

LEMMA PanelOpened ==
    ASSUME PanelInv, OpenOrClose, UNCHANGED <<buttonVars, userVars, dimmed>>
    PROVE  PanelInv'
<1> USE DEF PanelInv
<1>0. bound /\ TypesOK
  BY DEF OpenOrClose, ToplevelsInv
<1>1. ASSUME NEW id \in Ids, NEW t \in Titles, Open(id, t) PROVE PanelInv'
  <2>1. /\ ToplevelsInv'
        /\ \A x : CommandsFind(x) => CommandsFind(x)'
    BY <1>0, <1>1, OpenKeeps
  <2>2. PICK q, s : /\ Fresh(q, s)
                    /\ \A i \in DOMAIN q : q[i].win = Len(names) + 1
                    /\ \A o \in TopLevel : Born(o, End)' <=> Born(o, End) \/ \E i \in DOMAIN q : q[i] = o
    BY <1>0, <1>1, OpenKeeps
  <2>3. UNCHANGED <<handlers, raised, bound, unsynced>> /\ names' = Append(names, t)
    BY <1>1 DEF Open, libVars
  <2>4. names \in Seq(Titles)
    BY DEF PanelTypeOK, LibTypeOK
  <2>5. /\ DOMAIN names = 1..Len(names) /\ Len(names) \in Nat /\ Len(names') = Len(names) + 1
        /\ DOMAIN names' = 1..Len(names')
    BY <2>3, <2>4, AppendProperties, LenProperties
  <2>6. DOMAIN names \subseteq DOMAIN names' /\ Len(names) + 1 \notin DOMAIN names
    BY <2>5
  <2>7. \A p \in TopLevel : p = active_button => p.win \in DOMAIN names
    BY PanelAssumption DEF ButtonsMatch
  <2>8. \A p \in TopLevel : p = active_button /\ Born(p, End)' => Born(p, End)
    BY <2>2, <2>6, <2>7
  <2>9. OneActive' /\ Synced'
    BY <2>1, <2>2, <2>3, OneActiveFresh, FreshSynced
  <2> QED
    BY <2>1, <2>3, <2>6, <2>8, <2>9, PanelKept
<1>2. ASSUME NEW o \in Objects(open), Close(o) PROVE PanelInv'
  <2>1. /\ ToplevelsInv' /\ Grown(<<Event("closed", o)>>) /\ Event("closed", o) \in Message
        /\ \A r \in TopLevel : Born(r, End)' <=> Born(r, End)
        /\ \A x : CommandsFind(x) => CommandsFind(x)'
    BY <1>0, <1>2, CloseKeeps
  <2>2. /\ UNCHANGED <<handlers, raised, bound, names, resources>> /\ unsynced' = unsynced \ {o.win}
        /\ open' = open \ {o.win}
    BY <1>2 DEF Close, libVars
  <2>3. PICK e : e = Event("closed", o)
    OBVIOUS
  <2>4. e \in Message /\ Grown(<<e>>) /\ DOMAIN <<e>> = {1} /\ <<e>>[1] = e
    BY <2>1, <2>3
  <2>5. e.ev = "closed"
    BY <2>3 DEF Event
  <2>6. OneActive'
    BY <2>1, <2>4, <2>5, OneActiveDone
  <2>7. Synced'
    <3> SUFFICES ASSUME NEW r \in resources, r.win \in open' \ unsynced' PROVE Labelled(r)' \/ DoneLast(r)'
      BY <2>2 DEF Synced
    <3>1. Labelled(r) \/ DoneLast(r)
      BY <2>2 DEF Synced
    <3>2. \A j \in DOMAIN <<e>>, a \in Aspects : ~Tells(<<e>>[j], a, r)
      BY <2>4, <2>5 DEF Tells, Aspects
    <3> QED
      BY <1>0, <2>4, <3>1, <3>2, OrderKept
  <2> QED
    BY <2>1, <2>2, <2>6, <2>7, PanelKept
<1> QED
  BY <1>1, <1>2 DEF OpenOrClose

-----------------------------------------------------------------------------
\* A request on a window is added, by either program.
LEMMA RequestAdded ==
    ASSUME ToplevelsInv, NEW op \in Ops, NEW t \in TopLevel, requests' = Append(requests, Command(op, t)),
           UNCHANGED <<libVars, serverVars, events>>
    PROVE  /\ ToplevelsInv'
           /\ \A x : CommandsFind(x) /\ (t \in handlers \/ t \in x) => CommandsFind(x)'
<1> USE DEF ToplevelsInv
<1> DEFINE r == Command(op, t)
<1>1. UNCHANGED <<handlers, windows, title, states, raised, bound, resources, open, names, focus, unsynced,
                  served, rejected, events>>
  BY DEF libVars, serverVars
<1>2. r \in Request /\ r.op = op /\ r.meant = t /\ r.id = t.id /\ op \notin {"bind", "destroy", "sync"}
  <2>1. t.id \in Ids
    BY ObjectFields
  <2>2. r \in [op : Ops \cup {"destroy"}, id : Ids, meant : TopLevel]
    BY <2>1 DEF Command
  <2> QED
    BY <2>2 DEF Command, Request, Ops
<1> HIDE DEF r
<1>3. requests' = Append(requests, r) /\ requests \in Seq(Request)
  BY DEF TypesOK, LibTypeOK, r
<1>4. /\ requests' \in Seq(Request) /\ Len(requests) \in Nat
      /\ DOMAIN requests = 1..Len(requests) /\ DOMAIN requests' = 1..(Len(requests) + 1)
      /\ \A k \in DOMAIN requests : requests'[k] = requests[k]
      /\ requests'[Len(requests) + 1] = r
  BY <1>2, <1>3, AppendProperties, LenProperties
<1>5. PICK n \in Nat \ {0} : n = Len(requests) + 1
  BY <1>4
<1>6. /\ DOMAIN requests \subseteq Nat /\ DOMAIN requests' = DOMAIN requests \cup {n} /\ n \notin DOMAIN requests
      /\ requests'[n] = r /\ \A k \in DOMAIN requests : requests'[k] = requests[k] /\ k < n
  BY <1>4, <1>5
<1>7. TypesOK'
  <2>1. LibTypeOK'
    BY <1>1, <1>4 DEF TypesOK, LibTypeOK
  <2> QED
    BY <1>1, <2>1 DEF TypesOK
<1>8. Apart' /\ OneFocus' /\ TablesMatch'
  BY <1>1 DEF Apart, OneFocus, TablesMatch
<1>9. BoundFirst'
  <2>1. ~bound => 1 \in DOMAIN requests
    BY <1>3, <1>4, EmptySeq DEF BoundFirst
  <2>2. \A k \in DOMAIN requests' : requests'[k].op = "bind" <=> k = 1 /\ ~bound
    BY <1>2, <1>6, <2>1 DEF BoundFirst
  <2>3. requests' # <<>>
    BY <1>3, <1>2, AppendProperties
  <2> QED
    BY <1>1, <2>2, <2>3 DEF BoundFirst
<1>10. /\ \A o, k : /\ Born(o, k)' <=> Born(o, k)
                    /\ Gone(o, k)' <=> Gone(o, k)
                    /\ Known(o, k)' <=> Known(o, k)
       /\ \A o : /\ Born(o, End)' <=> Born(o, End)
                 /\ Gone(o, End)' <=> Gone(o, End)
                 /\ Known(o, End)' <=> Known(o, End)
       /\ \A a, o, v : Heard(a, o, v, End)' <=> Heard(a, o, v, End)
  <2>1. \A o, k : /\ Born(o, k)' <=> Born(o, k)
                  /\ Gone(o, k)' <=> Gone(o, k)
    BY <1>1 DEF Born, Gone, Creates, Closes
  <2>2. \A o : /\ Born(o, End)' <=> Born(o, End)
               /\ Gone(o, End)' <=> Gone(o, End)
    BY <1>1 DEF Born, Gone, Creates, Closes, End
  <2>3. \A a, o, v : Heard(a, o, v, End)' <=> Heard(a, o, v, End)
    BY <1>1 DEF Heard, Silent, Tells, Told, Read, OnOff, End
  <2> QED
    BY <1>1, <2>1, <2>2, <2>3 DEF Known
<1>11. Announced' /\ EventsFind'
  BY <1>1, <1>10 DEF Announced, EventsFind, Creates, Tells, Completes, About
<1>12. TruthFollows'
  <2>1. \A o : DestroyAsked(o) => DestroyAsked(o)'
    BY <1>6 DEF DestroyAsked, Destroys
  <2> QED
    BY <1>1, <1>10, <2>1 DEF TruthFollows
<1>13. DetailsFollow'
  <2> SUFFICES ASSUME NEW o \in resources', o.win \in open', NEW a \in Aspects, NEW v, v = Actual(a, o)'
               PROVE  Heard(a, o, v, End)'
    <3>1. \A o \in resources', a \in Aspects : \A v : o.win \in open' /\ v = Actual(a, o)' => Heard(a, o, v, End)'
      OBVIOUS
    <3>2. \A o \in resources', a \in Aspects : o.win \in open' => Heard(a, o, Actual(a, o), End)'
      BY <3>1 DEF Heard, Silent, Tells, Told, OnOff
    <3> QED
      BY <3>2 DEF DetailsFollow
  <2>1. v = Actual(a, o)
    BY <1>1 DEF Actual, OnOff
  <2>2. Heard(a, o, v, End)
    BY <1>1, <2>1 DEF DetailsFollow
  <2> QED
    BY <1>10, <2>2
<1>14. DestroysFind'
  <2> SUFFICES ASSUME NEW k \in DOMAIN requests', requests'[k].op \in Ops \cup {"destroy"},
                      NEW o, o = requests'[k].meant
               PROVE  /\ requests'[k].id = o.id
                      /\ requests'[k].op = "destroy" =>
                           /\ o \in resources' \ handlers' /\ ~Born(o, End)'
                           /\ \A j \in DOMAIN requests' : Destroys(requests'[j], o) => j = k
    BY DEF DestroysFind, Destroys
  <2>1. CASE k = n
    BY <1>2, <1>6, <2>1
  <2>2. CASE k \in DOMAIN requests
    <3>1. /\ requests[k].id = o.id
          /\ requests[k].op = "destroy" =>
               /\ o \in resources \ handlers /\ ~Born(o, End)
               /\ \A j \in DOMAIN requests : Destroys(requests[j], o) => j = k
      BY <1>6, <2>2 DEF DestroysFind
    <3>2. ~Destroys(requests'[n], o)
      BY <1>2, <1>6 DEF Destroys
    <3> QED
      BY <1>1, <1>6, <1>10, <2>2, <3>1, <3>2
  <2> QED
    BY <1>6, <2>1, <2>2
<1>15. ASSUME NEW x, CommandsFind(x), t \in handlers \/ t \in x PROVE CommandsFind(x)'
  <2>1. ASSUME NEW k \in DOMAIN requests', requests'[k].op \in Ops, NEW o, o = requests'[k].meant, o \notin x
        PROVE  o \in resources' /\ \A j \in DOMAIN requests' : j < k => ~Destroys(requests'[j], o)
    <3>1. CASE k = n
      <4>1. o = t /\ t \in handlers
        BY <1>2, <1>6, <1>15, <2>1, <3>1
      <4>2. \A j \in DOMAIN requests : ~Destroys(requests[j], t)
        BY <4>1 DEF DestroysFind, Destroys
      <4>3. t \in resources
        BY <4>1 DEF TablesMatch
      <4> QED
        BY <1>1, <1>6, <3>1, <4>1, <4>2, <4>3
    <3>2. CASE k \in DOMAIN requests
      <4>1. o \in resources /\ \A j \in DOMAIN requests : j < k => ~Destroys(requests[j], o)
        BY <1>6, <1>15, <2>1, <3>2 DEF CommandsFind
      <4> QED
        BY <1>1, <1>6, <3>2, <4>1
    <3> QED
      BY <1>6, <2>1, <3>1, <3>2
  <2>2. (rejected' => x # {}) /\ \A s \in served' : s.on = s.meant.win \/ s.meant \in x
    BY <1>1, <1>15 DEF CommandsFind
  <2> QED
    BY <2>1, <2>2 DEF CommandsFind, Destroys
<1> QED
  BY <1>7, <1>8, <1>9, <1>11, <1>12, <1>13, <1>14, <1>15

\* Steps of neither the library nor the compositor.
LEMMA LibStays ==
    ASSUME ToplevelsInv, UNCHANGED toplevelVars
    PROVE  /\ ToplevelsInv'
           /\ Complete => Complete'
           /\ \A x : CommandsFind(x) => CommandsFind(x)'
<1>1. UNCHANGED <<handlers, windows, title, states, raised, bound, resources, open, names, focus, unsynced,
                  served, rejected, requests, events>>
  BY DEF toplevelVars, libVars, serverVars
<1>2. PICK s : s = <<>>
  OBVIOUS
<1>3. Unfinished(s) /\ TypesOK /\ TypesOK'
  BY <1>1, <1>2, NothingTold DEF ToplevelsInv, TypesOK, LibTypeOK
<1>4. Apart' /\ OneFocus' /\ TablesMatch' /\ BoundFirst'
  BY <1>1 DEF ToplevelsInv, Apart, OneFocus, TablesMatch, BoundFirst
<1>5. \A o : DestroyAsked(o) => DestroyAsked(o)'
  BY <1>1 DEF DestroyAsked, Destroys
<1>6. Announced' /\ EventsFind' /\ TruthFollows' /\ DetailsFollow'
  BY <1>3, <1>5, TidingsKeep DEF Unfinished
<1>7. \A o \in resources : Born(o, End)' => Born(o, End)
  BY <1>1 DEF Born, Creates, End
<1>8. DestroysFind' /\ \A x : CommandsFind(x) => CommandsFind(x)'
  BY <1>1, <1>7, RequestsKept DEF ToplevelsInv
<1>9. Complete => Complete'
  BY <1>1 DEF Complete
<1> QED
  BY <1>3, <1>4, <1>6, <1>8, <1>9 DEF ToplevelsInv

\* The user of the panel.
LEMMA OrderStays ==
    ASSUME UNCHANGED <<libVars, serverVars, events, buttonVars, dimmed>>
    PROVE  /\ OneActive => OneActive'
           /\ ButtonsMatch => ButtonsMatch'
           /\ Synced => Synced'
<1>1. UNCHANGED <<handlers, title, states, raised, bound, resources, open, names, focus, unsynced,
                  events, box, label, classed, active_button, dimmed>>
  BY DEF libVars, serverVars, buttonVars
<1>2. OneActive => OneActive'
  BY <1>1 DEF OneActive, Known, Born, Gone, Creates, Closes, Heard, Silent, Tells, Told, Read, OnOff
<1>3. ButtonsMatch => ButtonsMatch'
  <2>1. Born(active_button, End)' => Born(active_button, End)
    BY <1>1 DEF Born, Creates, End
  <2> QED
    BY <1>1, <2>1 DEF ButtonsMatch
<1>4. Synced => Synced'
  <2>1. \A o : (Labelled(o) => Labelled(o)') /\ (DoneLast(o) => DoneLast(o)')
    BY <1>1 DEF Labelled, DoneLast, Silent, Tells, Completes, End
  <2> QED
    BY <1>1, <2>1 DEF Synced
<1> QED
  BY <1>2, <1>3, <1>4

LEMMA PanelStays ==
    ASSUME PanelInv, UNCHANGED <<toplevelVars, buttonVars, dimmed, late>>, menu' \in TopLevel \cup {NoButton}
    PROVE  PanelInv'
<1> USE DEF PanelInv
<1>1. /\ UNCHANGED <<libVars, serverVars, requests, events, buttonVars, dimmed>>
      /\ UNCHANGED <<box, label, classed, active_button, late, raised>>
  BY DEF toplevelVars, libVars, buttonVars
<1>2. ToplevelsInv' /\ \A x : CommandsFind(x) => CommandsFind(x)'
  BY LibStays
<1>3. CommandsFind(late)'
  <2>1. PICK x : x = late
    OBVIOUS
  <2>2. CommandsFind(x)'
    BY <1>2, <2>1
  <2> QED
    BY <1>1, <2>1, <2>2 DEF CommandsFind, Destroys
<1>4. PanelTypeOK'
  BY <1>1, <1>2 DEF PanelTypeOK, ToplevelsInv, TypesOK
<1> QED
  BY <1>1, <1>2, <1>3, <1>4, OrderStays

LEMMA ChoiceKeeps ==
    ASSUME PanelInv, NEW op \in Ops, NEW t \in TopLevel, Choose(op, t),
           menu' \in TopLevel \cup {NoButton}, late \subseteq late', t \in handlers \/ t \in late'
    PROVE  PanelInv'
<1> USE DEF PanelInv
<1>1. requests' = Append(requests, Command(op, t)) /\ UNCHANGED <<libVars, serverVars, events, buttonVars, dimmed>>
  BY DEF Choose
<1>2. /\ ToplevelsInv'
      /\ \A x : CommandsFind(x) /\ (t \in handlers \/ t \in x) => CommandsFind(x)'
  BY <1>1, RequestAdded
<1>3. PICK y : y = late'
  OBVIOUS
<1>4. CommandsFind(y)
  <2>1. late # {} => y # {}
    BY <1>3
  <2> QED
    BY <1>3, <2>1 DEF CommandsFind
<1>5. CommandsFind(y)'
  BY <1>2, <1>3, <1>4
<1>6. CommandsFind(late)'
  BY <1>3, <1>5 DEF CommandsFind, Destroys
<1>7. UNCHANGED <<box, label, classed, active_button, raised>>
  BY <1>1 DEF libVars, buttonVars
<1>8. PanelTypeOK'
  BY <1>2, <1>7 DEF PanelTypeOK, ToplevelsInv, TypesOK
<1> QED
  BY <1>1, <1>2, <1>6, <1>7, <1>8, OrderStays

LEMMA UserKeeps ==
    ASSUME PanelInv, User \/ Menu
    PROVE  PanelInv'
<1> USE DEF PanelInv
<1>1. box = handlers /\ handlers \subseteq TopLevel
  BY DEF ButtonsMatch, PanelTypeOK, LibTypeOK
<1>2. ASSUME NEW t \in TopLevel, Click(t) PROVE PanelInv'
  <2>1. PICK op \in Ops : Choose(op, t)
    BY <1>2 DEF Click, Ops
  <2>2. t \in handlers /\ UNCHANGED <<menu, late>>
    BY <1>1, <1>2 DEF Click
  <2>3. menu' \in TopLevel \cup {NoButton}
    BY <2>2 DEF PanelTypeOK
  <2> QED
    BY <2>1, <2>2, <2>3, ChoiceKeeps
<1>3. ASSUME NEW t \in TopLevel, OpenMenu(t) PROVE PanelInv'
  <2>1. UNCHANGED <<toplevelVars, buttonVars, dimmed, nclicks, late>> /\ menu' = t
    BY <1>3 DEF OpenMenu
  <2>2. menu' \in TopLevel \cup {NoButton}
    BY <2>1
  <2> QED
    BY <2>1, <2>2, PanelStays
<1>4. ASSUME NEW op \in {"set_minimize", "close"}, MenuItem(op) PROVE PanelInv'
  <2>1. /\ menu # NoButton /\ Choose(op, menu) /\ menu' = NoButton
        /\ late' = IF menu \in Range(windows) THEN late ELSE late \cup {menu}
    BY <1>4 DEF MenuItem
  <2>2. menu \in TopLevel /\ op \in Ops
    BY <2>1 DEF PanelTypeOK, Ops
  <2>3. Range(windows) = handlers
    BY RangeNow DEF ToplevelsInv
  <2> QED
    BY <2>1, <2>2, <2>3, ChoiceKeeps
<1> QED
  BY <1>2, <1>3, <1>4 DEF User, Menu

\* What follows for the panel.
LEMMA PanelImplies ==
    ASSUME PanelInv
    PROVE  PanelShows /\ RequestsMeant
<1> USE DEF PanelInv
<1> USE DEF ToplevelsInv
<1>1. Handles
  BY EventsHandled
<1>2. box = Range(windows)
  BY RangeNow DEF ButtonsMatch
<1>3. ASSUME Quiet
      PROVE  /\ box = Objects(open)
             /\ \A t \in box : label[t] = names[t.win] /\ title[t] = names[t.win]
             /\ \A t \in box : \/ (t \in classed) = (t.win \in focus)
                               \/ t \notin classed /\ t = active_button /\ t \in dimmed
  <2>1. events = <<>> /\ unsynced = {} /\ DOMAIN events = {} /\ bound
    BY <1>3 DEF Quiet
  <2>2. \A o : Known(o, End) <=> o \in handlers
    BY <2>1 DEF Known, Born, Gone
  <2>3. \A a, o, v : Heard(a, o, v, End) => Read(a, o) = v
    BY <2>1 DEF Heard
  <2>4. box = Objects(open)
    <3>1. \A o \in TopLevel : o \in handlers <=> o \in resources /\ o.win \in open
      BY <2>2 DEF TruthFollows
    <3> QED
      BY <3>1 DEF Objects, ButtonsMatch, PanelTypeOK, LibTypeOK
  <2>5. ASSUME NEW t \in box
        PROVE  /\ label[t] = names[t.win] /\ title[t] = names[t.win]
               /\ \/ (t \in classed) = (t.win \in focus)
                  \/ t \notin classed /\ t = active_button /\ t \in dimmed
    <3>1. t \in resources /\ t.win \in open
      BY <2>4, <2>5 DEF Objects
    <3>2. \A a \in Aspects : Read(a, t) = Actual(a, t)
      BY <2>3, <3>1 DEF DetailsFollow
    <3>3. title[t] = names[t.win] /\ (t \in states <=> t.win \in focus)
      BY <3>2 DEF Aspects, Read, Actual, OnOff
    <3>4. Labelled(t)
      BY <2>1, <3>1 DEF Synced, DoneLast
    <3>5. CASE t \in states
      <4>1. active_button = t /\ t # NoButton
        BY <3>1, <3>4, <3>5, PanelAssumption DEF Labelled, PanelTypeOK, LibTypeOK
      <4>2. t \in classed \/ t \in dimmed
        BY <4>1 DEF ButtonsMatch
      <4> QED
        BY <3>3, <3>4, <3>5, <4>1, <4>2 DEF Labelled
    <3>6. CASE t \notin states
      BY <3>3, <3>4, <3>6 DEF Labelled
    <3> QED
      BY <3>5, <3>6
  <2> QED
    BY <2>4, <2>5
<1>4. PanelShows
  BY <1>1, <1>2, <1>3 DEF PanelShows
<1>5. RequestsMeant
  BY DEF RequestsMeant, CommandsFind
<1> QED
  BY <1>4, <1>5

\* The panel and the compositor account for all windows between them: each has its
\* button, is on its way to have one or to lose it, and what is to be shown of it has
\* arrived or follows.
THEOREM PanelAccounted == PanelSpec => []PanelInv
<1>1. PanelInit => PanelInv
  BY PanelStarts
<1>2. PanelInv /\ [PanelNext]_panelVars => PanelInv'
  <2> SUFFICES ASSUME PanelInv, [PanelNext]_panelVars PROVE PanelInv'
    OBVIOUS
  <2>1. CASE PanelDispatch
    BY <2>1, NewButtonKeeps, ToplevelSyncedKeeps, ToplevelClosedKeeps, DetailKeeps DEF PanelDispatch
  <2>2. CASE User \/ Menu
    BY <2>2, UserKeeps
  <2>3. CASE Compositor
    BY <2>3, PanelServed, PanelChanged, PanelOpened DEF Compositor
  <2>4. CASE UNCHANGED panelVars
    <3>1. UNCHANGED <<toplevelVars, buttonVars, dimmed, late, menu>>
      BY <2>4 DEF panelVars, userVars
    <3> QED
      BY <3>1, PanelStays DEF PanelInv, PanelTypeOK
  <2> QED
    BY <2>1, <2>2, <2>3, <2>4 DEF PanelNext
<1> QED
  BY <1>1, <1>2, PTL DEF PanelSpec

\* The panel shows the compositor's windows under their titles once all is read, and
\* always finds the handlers of its events.
THEOREM ShowsTheWindows == PanelSpec => []PanelShows
<1>1. PanelInv => PanelShows
  BY PanelImplies
<1> QED
  BY <1>1, PanelAccounted, PTL

\* What the user asks for is done to the window they chose, unless it is chosen from
\* the menu of a window that has closed.
THEOREM RequestsAsMeant == PanelSpec => []RequestsMeant
<1>1. PanelInv => RequestsMeant
  BY PanelImplies
<1> QED
  BY <1>1, PanelAccounted, PTL

-----------------------------------------------------------------------------
\* wlctrl.  Known when the first callback is read: the windows in seen.
AtSync(k) ==
    /\ \A v, w \in seen : v.win = w.win => v = w
    /\ \A w \in seen : \E o \in TopLevel :
         /\ Known(o, k) /\ Heard("title", o, w.title, k)
         /\ w.win = o.win /\ w.ids = {o.id}
    /\ \A o \in TopLevel : Known(o, k) => \E w \in seen : w.win = o.win

OnlySync(k, c) == \A j \in DOMAIN requests : requests[j].op = "sync" => j = k /\ requests[j].callback = c
OnlyCallback(k, c) == \A j \in DOMAIN events : events[j].ev = "callback" => j = k /\ events[j].callback = c
NoSync == \A j \in DOMAIN requests : requests[j].op # "sync"
NoCallback == \A j \in DOMAIN events : events[j].ev # "callback"
NoCommand == \A j \in DOMAIN requests : requests[j].op \notin Ops
Serving(t) == [op |-> action, meant |-> t, on |-> t.win]
Targeted(t) == t \in TopLevel /\ \E w \in seen : Named = {w} /\ w.win = t.win

\* The four steps of a run: the first sync is asked for, its callback is on its way,
\* the request and the second sync are, the second callback is.
Asked ==
    /\ NoCallback /\ NoCommand /\ served = {}
    /\ \E k \in DOMAIN requests : requests[k].op = "sync" /\ OnlySync(k, "info_done")
Informed ==
    /\ NoSync /\ NoCommand /\ served = {}
    /\ \E k \in DOMAIN events :
         /\ events[k].ev = "callback" /\ OnlyCallback(k, "info_done")
         /\ AtSync(k)
Requested ==
    /\ NoCallback
    /\ action # "list"
    /\ \E t \in TopLevel, k \in DOMAIN requests :
         /\ Targeted(t)
         /\ requests[k].op = "sync" /\ OnlySync(k, "quit")
         /\ \/ NoCommand /\ served = {Serving(t)}
            \/ /\ served = {}
               /\ \E j \in DOMAIN requests :
                    /\ j < k /\ requests[j] = Command(action, t)
                    /\ \A i \in DOMAIN requests : requests[i].op \in Ops => i = j
Finishing ==
    /\ NoSync /\ NoCommand
    /\ action # "list"
    /\ \E t \in TopLevel : Targeted(t) /\ served = {Serving(t)}
    /\ \E k \in DOMAIN events : events[k].ev = "callback" /\ OnlyCallback(k, "quit")

Stage == Asked \/ Informed \/ Requested \/ Finishing

WlctrlInv ==
    /\ ToplevelsInv /\ Complete
    /\ CommandsFind({})
    /\ TypeOK
    /\ action \in Actions
    /\ Running => return_code = "OK" /\ Stage
    /\ ~Running => ExitTrue /\ DoneBeforeExit

-----------------------------------------------------------------------------
\* The steps of a run stay what they are as other events are read.
LEMMA SyncTaken ==
    ASSUME ToplevelsInv, NEW s, Taking(s), seen' = seen, NEW k \in Nat \ {0}, NEW h, h = k + 1,
           h \in DOMAIN events, events[h].ev = "callback", AtSync(h)
    PROVE  AtSync(k)'
<1> USE DEF ToplevelsInv
<1>1. Popped /\ "title" \in Aspects /\ events[h].ev \notin Aspects
  BY DEF Taking, Aspects
<1>2. \A o \in TopLevel : Known(o, k)' <=> Known(o, h)
  BY KnownTaken
<1>3. ASSUME NEW o \in TopLevel, NEW v, Heard("title", o, v, h) PROVE Heard("title", o, v, k)'
  <2>1. Creates(events[1], o) => \E j \in DOMAIN events : j < k + 1 /\ Tells(events[j], "title", o)
    BY <1>1, DetailsFirst
  <2> QED
    BY <1>1, <1>3, <2>1, HeardTaken
<1>4. \A v, w \in seen : v.win = w.win => v = w
  BY DEF AtSync
<1>5. ASSUME NEW w \in seen
      PROVE  \E o \in TopLevel : /\ Known(o, k)' /\ Heard("title", o, w.title, k)'
                                 /\ w.win = o.win /\ w.ids = {o.id}
  <2>1. PICK o \in TopLevel : /\ Known(o, h) /\ Heard("title", o, w.title, h)
                              /\ w.win = o.win /\ w.ids = {o.id}
    BY DEF AtSync
  <2> QED
    BY <1>2, <1>3, <2>1
<1>6. \A o \in TopLevel : Known(o, k)' => \E w \in seen : w.win = o.win
  BY <1>2 DEF AtSync
<1> QED
  BY <1>4, <1>5, <1>6 DEF AtSync, Heard, Silent, Tells, Told, Read, OnOff

LEMMA StageTaken ==
    ASSUME ToplevelsInv, Stage, NEW s, Taking(s), events[1].ev # "callback", UNCHANGED <<action, target, seen>>,
           \A i \in DOMAIN s : s[i].op = "destroy"
    PROVE  Stage'
<1>0. TypesOK /\ Popped /\ UNCHANGED serverVars
  BY DEF ToplevelsInv, Taking
<1>1. /\ \A j \in DOMAIN events' : j + 1 \in DOMAIN events /\ events'[j] = events[j + 1] /\ j \in Nat
      /\ \A j \in DOMAIN events : j # 1 => j - 1 \in DOMAIN events' /\ events[j] = events'[j - 1] /\ j - 1 \in Nat \ {0}
                                              /\ j = (j - 1) + 1
  BY <1>0, EventsPopped
<1>2. /\ DOMAIN requests \subseteq DOMAIN requests' /\ \A k \in DOMAIN requests : requests'[k] = requests[k]
      /\ \A k \in DOMAIN requests' \ DOMAIN requests : requests'[k].op = "destroy"
  BY <1>0, RequestsTaken
<1>3. "destroy" \notin Ops
  BY DEF Ops
<1>4. NoCallback => NoCallback'
  BY <1>1 DEF NoCallback
<1>5. /\ NoCommand => NoCommand'
      /\ NoSync => NoSync'
      /\ \A k, c : OnlySync(k, c) => OnlySync(k, c)'
  BY <1>2, <1>3 DEF NoCommand, NoSync, OnlySync
<1>6. served' = served /\ \A t : Serving(t)' = Serving(t) /\ (Targeted(t) => Targeted(t)')
  BY <1>0 DEF serverVars, Serving, Targeted, Named
<1>7. ASSUME NEW k \in DOMAIN events, NEW c, events[k].ev = "callback", OnlyCallback(k, c)
      PROVE  \E h \in DOMAIN events' : /\ events'[h].ev = "callback" /\ OnlyCallback(h, c)'
                                       /\ k = h + 1 /\ h \in Nat \ {0}
  <2>1. k # 1
    BY <1>7
  <2>2. PICK h \in DOMAIN events' : h = k - 1 /\ events'[h] = events[k] /\ h \in Nat \ {0} /\ k = h + 1
    BY <1>1, <2>1
  <2>3. \A j \in DOMAIN events' : events'[j].ev = "callback" => j = h /\ events'[j].callback = c
    BY <1>1, <1>7, <2>2 DEF OnlyCallback
  <2> QED
    BY <1>7, <2>2, <2>3 DEF OnlyCallback
<1>8. CASE Asked
  <2>1. PICK k \in DOMAIN requests : requests[k].op = "sync" /\ OnlySync(k, "info_done")
    BY <1>8 DEF Asked
  <2>2. k \in DOMAIN requests' /\ requests'[k].op = "sync" /\ OnlySync(k, "info_done")'
    BY <1>2, <1>5, <2>1
  <2> QED
    BY <1>4, <1>5, <1>6, <1>8, <2>2 DEF Asked, Stage
<1>9. CASE Informed
  <2>1. PICK k \in DOMAIN events : events[k].ev = "callback" /\ OnlyCallback(k, "info_done") /\ AtSync(k)
    BY <1>9 DEF Informed
  <2>2. PICK h \in DOMAIN events' : /\ events'[h].ev = "callback" /\ OnlyCallback(h, "info_done")'
                                    /\ k = h + 1 /\ h \in Nat \ {0}
    BY <1>7, <2>1
  <2>3. AtSync(h)'
    BY <2>1, <2>2, SyncTaken
  <2> QED
    BY <1>5, <1>6, <1>9, <2>2, <2>3 DEF Informed, Stage
<1>10. CASE Requested
  <2>1. PICK t \in TopLevel, k \in DOMAIN requests :
           /\ Targeted(t)
           /\ requests[k].op = "sync" /\ OnlySync(k, "quit")
           /\ \/ NoCommand /\ served = {Serving(t)}
              \/ /\ served = {}
                 /\ \E j \in DOMAIN requests :
                      /\ j < k /\ requests[j] = Command(action, t)
                      /\ \A i \in DOMAIN requests : requests[i].op \in Ops => i = j
    BY <1>10 DEF Requested
  <2>2. k \in DOMAIN requests' /\ requests'[k].op = "sync" /\ OnlySync(k, "quit")' /\ Targeted(t)'
    BY <1>2, <1>5, <1>6, <2>1
  <2>3. ASSUME NEW j \in DOMAIN requests, j < k, requests[j] = Command(action, t),
               \A i \in DOMAIN requests : requests[i].op \in Ops => i = j
        PROVE  /\ j \in DOMAIN requests' /\ requests'[j] = Command(action', t)
               /\ \A i \in DOMAIN requests' : requests'[i].op \in Ops => i = j
    BY <1>2, <1>3, <2>3
  <2>4. \/ NoCommand' /\ served' = {Serving(t)'}
        \/ /\ served' = {}
           /\ \E j \in DOMAIN requests' :
                /\ j < k /\ requests'[j] = Command(action', t)
                /\ \A i \in DOMAIN requests' : requests'[i].op \in Ops => i = j
    BY <1>5, <1>6, <2>1, <2>3
  <2>5. action' # "list" /\ NoCallback'
    BY <1>4, <1>10 DEF Requested
  <2> QED
    BY <2>2, <2>4, <2>5 DEF Requested, Stage, Command
<1>11. CASE Finishing
  <2>1. PICK k \in DOMAIN events : events[k].ev = "callback" /\ OnlyCallback(k, "quit")
    BY <1>11 DEF Finishing
  <2>2. PICK h \in DOMAIN events' : events'[h].ev = "callback" /\ OnlyCallback(h, "quit")'
    BY <1>7, <2>1
  <2>3. PICK t \in TopLevel : Targeted(t)' /\ served' = {Serving(t)'}
    BY <1>6, <1>11 DEF Finishing
  <2>4. action' # "list" /\ NoSync' /\ NoCommand'
    BY <1>5, <1>11 DEF Finishing
  <2> QED
    BY <2>2, <2>3, <2>4 DEF Finishing, Stage
<1> QED
  BY <1>8, <1>9, <1>10, <1>11 DEF Stage

\* Neither do they change as the compositor sends events that are no callbacks and
\* reads requests that are none of theirs.
LEMMA CallbacksGrown ==
    ASSUME TypesOK, NEW s, Grown(s), seen' = seen, \A i \in DOMAIN s : s[i].ev # "callback"
    PROVE  /\ NoCallback => NoCallback'
           /\ \A c : \A k \in DOMAIN events : events[k].ev = "callback" /\ OnlyCallback(k, c) =>
                k \in DOMAIN events' /\ events'[k].ev = "callback" /\ OnlyCallback(k, c)'
           /\ \A k \in DOMAIN events : AtSync(k) => AtSync(k)'
<1>1. /\ \A k \in DOMAIN events : k \in DOMAIN events' /\ events'[k] = events[k] /\ k \in Nat /\ k <= Len(events) + 1
      /\ \A k \in DOMAIN events' : k \in DOMAIN events \/ events'[k].ev # "callback"
  BY EventsGrown
<1>2. NoCallback => NoCallback'
  BY <1>1 DEF NoCallback
<1>3. ASSUME NEW k \in DOMAIN events, NEW c, events[k].ev = "callback", OnlyCallback(k, c)
      PROVE  k \in DOMAIN events' /\ events'[k].ev = "callback" /\ OnlyCallback(k, c)'
  BY <1>1, <1>3 DEF OnlyCallback
<1>4. ASSUME NEW k \in DOMAIN events, AtSync(k) PROVE AtSync(k)'
  <2>1. \A o : /\ Known(o, k)' <=> Known(o, k)
               /\ \A v : Heard("title", o, v, k)' <=> Heard("title", o, v, k)
    BY <1>1, PastGrown
  <2>2. /\ \A v, w \in seen : v.win = w.win => v = w
        /\ \A w \in seen : \E o \in TopLevel : /\ Known(o, k)' /\ Heard("title", o, w.title, k)'
                                               /\ w.win = o.win /\ w.ids = {o.id}
        /\ \A o \in TopLevel : Known(o, k)' => \E w \in seen : w.win = o.win
    BY <1>4, <2>1 DEF AtSync
  <2> QED
    BY <2>2 DEF AtSync, Heard, Silent, Tells, Told, Read, OnOff
<1> QED
  BY <1>2, <1>3, <1>4

LEMMA RequestsShift ==
    ASSUME TypesOK, NEW O,
           requests' = requests \/ (requests # <<>> /\ requests' = Tail(requests) /\ Head(requests).op \notin O)
    PROVE  \E d \in {0, 1} :
             /\ \A j \in DOMAIN requests' : j + d \in DOMAIN requests /\ requests'[j] = requests[j + d] /\ j \in Nat
             /\ \A j \in DOMAIN requests : requests[j].op \in O =>
                  \E h \in DOMAIN requests' : j = h + d /\ requests'[h] = requests[j]
<1>0. requests \in Seq(Request) /\ DOMAIN requests = 1..Len(requests) /\ Len(requests) \in Nat
  BY LenProperties DEF TypesOK, LibTypeOK
<1>1. CASE requests' = requests
  <2>1. \A j \in DOMAIN requests : j + 0 = j /\ j \in Nat
    BY <1>0
  <2> QED
    BY <1>1, <2>1
<1>2. CASE requests # <<>> /\ requests' = Tail(requests) /\ Head(requests).op \notin O
  <2>1. /\ Head(requests) = requests[1]
        /\ \A k \in DOMAIN requests' : k + 1 \in DOMAIN requests /\ requests'[k] = requests[k + 1] /\ k \in Nat \ {0}
        /\ \A k \in DOMAIN requests : k # 1 => k - 1 \in DOMAIN requests' /\ requests[k] = requests'[k - 1]
    BY <1>2, RequestsPopped
  <2>2. ASSUME NEW j \in DOMAIN requests, requests[j].op \in O
        PROVE  \E h \in DOMAIN requests' : j = h + 1 /\ requests'[h] = requests[j]
    <3>1. j # 1
      BY <1>2, <2>1, <2>2
    <3>2. j = (j - 1) + 1
      BY <1>0
    <3> QED
      BY <2>1, <2>2, <3>1, <3>2
  <2> QED
    BY <2>1, <2>2
<1> QED
  BY <1>1, <1>2

LEMMA StageServed ==
    ASSUME ToplevelsInv, Stage, action \in Actions, NEW s, Grown(s), \A i \in DOMAIN s : s[i].ev # "callback",
           UNCHANGED <<action, target, seen, served>>,
           \/ requests' = requests
           \/ requests # <<>> /\ requests' = Tail(requests) /\ Head(requests).op \notin Ops \cup {"sync"}
    PROVE  Stage'
<1>0. TypesOK
  BY DEF ToplevelsInv
<1>1. PICK d \in {0, 1} :
        /\ \A j \in DOMAIN requests' : j + d \in DOMAIN requests /\ requests'[j] = requests[j + d] /\ j \in Nat
        /\ \A j \in DOMAIN requests : requests[j].op \in Ops \cup {"sync"} =>
             \E h \in DOMAIN requests' : j = h + d /\ requests'[h] = requests[j]
  BY <1>0, RequestsShift
<1>2. /\ NoCommand => NoCommand'
      /\ NoSync => NoSync'
  BY <1>1 DEF NoCommand, NoSync
<1>3. ASSUME NEW k \in DOMAIN requests, NEW c, requests[k].op = "sync", OnlySync(k, c)
      PROVE  \E h \in DOMAIN requests' : k = h + d /\ requests'[h].op = "sync" /\ OnlySync(h, c)'
  <2>1. PICK h \in DOMAIN requests' : k = h + d /\ requests'[h] = requests[k] /\ h \in Nat
    BY <1>1, <1>3
  <2>2. ASSUME NEW j \in DOMAIN requests', requests'[j].op = "sync" PROVE j = h /\ requests'[j].callback = c
    <3>1. j + d \in DOMAIN requests /\ requests'[j] = requests[j + d] /\ j \in Nat
      BY <1>1
    <3>2. j + d = k /\ requests'[j].callback = c
      BY <1>3, <2>2, <3>1 DEF OnlySync
    <3> QED
      BY <2>1, <3>1, <3>2
  <2> QED
    BY <1>3, <2>1, <2>2 DEF OnlySync
<1>4. /\ NoCallback => NoCallback'
      /\ \A c : \A k \in DOMAIN events : events[k].ev = "callback" /\ OnlyCallback(k, c) =>
           k \in DOMAIN events' /\ events'[k].ev = "callback" /\ OnlyCallback(k, c)'
      /\ \A k \in DOMAIN events : AtSync(k) => AtSync(k)'
  BY <1>0, CallbacksGrown
<1>5. served' = served /\ \A t : Serving(t)' = Serving(t) /\ (Targeted(t) => Targeted(t)')
  BY DEF Serving, Targeted, Named
<1>6. CASE Asked
  <2>1. PICK k \in DOMAIN requests : requests[k].op = "sync" /\ OnlySync(k, "info_done")
    BY <1>6 DEF Asked
  <2>2. PICK h \in DOMAIN requests' : requests'[h].op = "sync" /\ OnlySync(h, "info_done")'
    BY <1>3, <2>1
  <2> QED
    BY <1>2, <1>4, <1>5, <1>6, <2>2 DEF Asked, Stage
<1>7. CASE Informed
  <2>1. PICK k \in DOMAIN events : events[k].ev = "callback" /\ OnlyCallback(k, "info_done") /\ AtSync(k)
    BY <1>7 DEF Informed
  <2>2. k \in DOMAIN events' /\ events'[k].ev = "callback" /\ OnlyCallback(k, "info_done")' /\ AtSync(k)'
    BY <1>4, <2>1
  <2> QED
    BY <1>2, <1>5, <1>7, <2>2 DEF Informed, Stage
<1>8. CASE Requested
  <2>1. PICK t \in TopLevel, k \in DOMAIN requests :
           /\ Targeted(t)
           /\ requests[k].op = "sync" /\ OnlySync(k, "quit")
           /\ \/ NoCommand /\ served = {Serving(t)}
              \/ /\ served = {}
                 /\ \E j \in DOMAIN requests :
                      /\ j < k /\ requests[j] = Command(action, t)
                      /\ \A i \in DOMAIN requests : requests[i].op \in Ops => i = j
    BY <1>8 DEF Requested
  <2>2. PICK h \in DOMAIN requests' : k = h + d /\ requests'[h].op = "sync" /\ OnlySync(h, "quit")'
    BY <1>3, <2>1
  <2>3. action' # "list" /\ NoCallback' /\ Targeted(t)'
    BY <1>4, <1>5, <1>8, <2>1 DEF Requested
  <2>4. CASE NoCommand /\ served = {Serving(t)}
    <3>1. NoCommand' /\ served' = {Serving(t)'}
      BY <1>2, <1>5, <2>4
    <3> QED
      BY <2>2, <2>3, <3>1 DEF Requested, Stage
  <2>5. ASSUME served = {}, NEW j \in DOMAIN requests, j < k, requests[j] = Command(action, t),
               \A i \in DOMAIN requests : requests[i].op \in Ops => i = j
        PROVE  Stage'
    <3>1. requests[j].op \in Ops
      BY <1>8, <2>5, ToolAssumption DEF Command, Requested
    <3>2. PICK g \in DOMAIN requests' : j = g + d /\ requests'[g] = requests[j]
      BY <1>1, <3>1
    <3>3. g < h
      BY <1>1, <2>2, <2>5, <3>2
    <3>4. ASSUME NEW i \in DOMAIN requests', requests'[i].op \in Ops PROVE i = g
      BY <1>1, <2>5, <3>2, <3>4
    <3>5. requests'[g] = Command(action', t)
      BY <2>5, <3>2
    <3> QED
      BY <1>5, <2>2, <2>3, <2>5, <3>2, <3>3, <3>4, <3>5 DEF Requested, Stage, Command
  <2> QED
    BY <2>1, <2>4, <2>5
<1>9. CASE Finishing
  <2>1. PICK k \in DOMAIN events : events[k].ev = "callback" /\ OnlyCallback(k, "quit")
    BY <1>9 DEF Finishing
  <2>2. k \in DOMAIN events' /\ events'[k].ev = "callback" /\ OnlyCallback(k, "quit")'
    BY <1>4, <2>1
  <2>3. PICK t \in TopLevel : Targeted(t)' /\ served' = {Serving(t)'}
    BY <1>5, <1>9 DEF Finishing
  <2>4. action' # "list" /\ NoSync' /\ NoCommand'
    BY <1>2, <1>9 DEF Finishing
  <2> QED
    BY <2>2, <2>3, <2>4 DEF Finishing, Stage
<1> QED
  BY <1>6, <1>7, <1>8, <1>9 DEF Stage

-----------------------------------------------------------------------------
\* The steps of wlctrl.
LEMMA WlctrlStarts ==
    ASSUME Init
    PROVE  WlctrlInv
<1> USE DEF Init, Start
<1>1. requests \in Seq(Request) /\ requests # <<>>
  BY DEF Request
<1>2. DOMAIN requests = {1, 2} /\ requests[1].op = "bind" /\ requests[2].op = "sync" /\ requests[2].callback = "info_done"
  OBVIOUS
<1>3. {"bind", "sync"} \cap (Ops \cup {"destroy"}) = {}
  BY DEF Ops
<1>4. ToplevelsInv /\ Complete /\ CommandsFind({})
  BY <1>1, <1>2, <1>3, LibStarts
<1>5. raised = {} /\ events = <<>> /\ served = {}
  BY DEF LibInit
<1>6. TypeOK
  BY <1>4, <1>5 DEF TypeOK, Codes, ToplevelsInv, TypesOK
<1>7. Asked
  BY <1>2, <1>3, <1>5 DEF Asked, NoCallback, NoCommand, OnlySync
<1> QED
  BY <1>4, <1>5, <1>6, <1>7 DEF WlctrlInv, Running, Stage

LEMMA WlctrlGoes ==
    ASSUME WlctrlInv, Running, ToplevelsInv', Complete', CommandsFind({})', Stage',
           UNCHANGED <<raised, return_code, action>>
    PROVE  WlctrlInv'
BY DEF WlctrlInv, Running, TypeOK, ToplevelsInv, TypesOK

LEMMA LibraryTakes ==
    ASSUME ToplevelsInv, Library
    PROVE  /\ TablesMatch' /\ raised' = raised /\ Running
           /\ \E s : Taking(s) /\ events[1].ev # "callback" /\ \A i \in DOMAIN s : s[i].op = "destroy"
<1>1. PICK t \in TopLevel : OnNewToplevel(t) \/ OnTitle(t) \/ OnState(t) \/ OnDone(t) \/ OnClosed(t)
  BY DEF Library
<1>2. Running
  BY <1>1 DEF OnNewToplevel, OnTitle, OnState, OnDone, OnClosed, TakeFor, Take
<1>3. PICK s : s = <<>>
  OBVIOUS
<1>4. DOMAIN s = {}
  BY <1>3
<1>5. CASE OnNewToplevel(t)
  <2>1. Taking(<<>>) /\ TablesMatch' /\ raised' = raised
    BY <1>5, NewTakes
  <2>2. events[1] = Event("toplevel", t)
    BY <1>5, NewTakes
  <2>3. events[1].ev = "toplevel"
    BY <2>2 DEF Event
  <2> QED
    BY <1>2, <1>3, <1>4, <2>1, <2>3
<1>6. CASE OnTitle(t) \/ OnState(t)
  BY <1>2, <1>3, <1>4, <1>6, DetailTakes
<1>7. CASE OnDone(t)
  BY <1>2, <1>3, <1>4, <1>7, DoneTakes DEF libVars
<1>8. CASE OnClosed(t)
  <2>1. PICK c : c = <<Command("destroy", t)>>
    OBVIOUS
  <2>2. \A i \in DOMAIN c : c[i].op = "destroy"
    BY <2>1 DEF Command
  <2>3. events[1] = Event("closed", t)
    BY <1>8, ClosedTakes
  <2>4. events[1].ev = "closed"
    BY <2>3 DEF Event
  <2>5. Taking(c) /\ TablesMatch' /\ raised' = raised
    BY <1>8, <2>1, ClosedTakes
  <2> QED
    BY <1>2, <2>2, <2>4, <2>5
<1> QED
  BY <1>1, <1>5, <1>6, <1>7, <1>8

LEMMA LibraryKeeps ==
    ASSUME WlctrlInv, Library, Others
    PROVE  WlctrlInv'
<1> USE DEF WlctrlInv
<1>1. TablesMatch' /\ raised' = raised /\ Running
  BY LibraryTakes
<1>2. PICK s : Taking(s) /\ events[1].ev # "callback" /\ \A i \in DOMAIN s : s[i].op = "destroy"
  BY LibraryTakes
<1>3. UNCHANGED <<action, target, seen, return_code>>
  BY DEF Others, toolVars
<1>4. ToplevelsInv'
  BY <1>1, <1>2, LibTaken
<1>5. CommandsFind({})'
  <2>1. PICK x : x = {}
    OBVIOUS
  <2>2. \A i \in DOMAIN s : s[i].op \notin Ops
    BY <1>2 DEF Ops
  <2>3. CommandsFind(x)'
    BY <1>2, <2>1, <2>2, CommandsTaken DEF ToplevelsInv
  <2> QED
    BY <2>1, <2>3
<1>6. Complete'
  BY <1>2 DEF Complete, Taking, serverVars
<1>7. Stage'
  BY <1>1, <1>2, <1>3, StageTaken
<1> QED
  BY <1>1, <1>3, <1>4, <1>5, <1>6, <1>7, WlctrlGoes

\* A callback is read, and s is asked for.
LEMMA CallbackTakes ==
    ASSUME ToplevelsInv, Complete, CommandsFind({}), Take("callback"),
           UNCHANGED <<handlers, windows, title, states, serverVars>>,
           raised' \cap {"installed", "not in windows"} = {},
           NEW s \in Seq(Request), requests' = requests \o s,
           \A k \in DOMAIN s : \/ s[k].op = "sync"
                               \/ s[k].op \in Ops /\ s[k].id = s[k].meant.id /\ s[k].meant \in handlers
    PROVE  ToplevelsInv' /\ Complete' /\ CommandsFind({})' /\ Handles'
<1> USE DEF ToplevelsInv
<1>1. Popped /\ events[1].ev = "callback"
  BY TakePops
<1>2. requests' \in Seq(Request)
  <2>1. requests \in Seq(Request)
    BY DEF TypesOK, LibTypeOK
  <2> QED
    BY <2>1, ConcatProperties
<1>3. LibTypeOK'
  BY <1>2 DEF TypesOK, LibTypeOK, serverVars
<1>4. \A o, a : Read(a, o)' = Read(a, o)
  BY DEF Read, OnOff
<1>5. \A k \in DOMAIN s : s[k].op # "bind" /\ (s[k].op # "sync" => s[k].id = s[k].meant.id) /\ s[k].op # "destroy"
  BY DEF Ops
<1>6. Taking(s)
  <2>1. \A o, a : ~Creates(events[1], o) /\ ~Closes(events[1], o) /\ (a \in Aspects => ~Tells(events[1], a, o))
    BY <1>1 DEF Creates, Closes, Tells, Aspects
  <2> QED
    BY <1>1, <1>3, <1>4, <1>5, <2>1 DEF Taking
<1>7. TablesMatch'
  BY DEF TablesMatch, serverVars
<1>8. ToplevelsInv'
  BY <1>6, <1>7, LibTaken
<1>9. CommandsFind({})'
  <2>1. PICK x : x = {}
    OBVIOUS
  <2>2. CommandsFind(x)'
    <3>1. \A k \in DOMAIN s : s[k].op \in Ops => s[k].meant \in handlers /\ events[1].ev # "closed"
      BY <1>1 DEF Ops
    <3> QED
      BY <1>6, <2>1, <3>1, CommandsTaken
  <2> QED
    BY <2>1, <2>2
<1>10. Complete'
  BY DEF Complete, serverVars
<1> QED
  BY <1>8, <1>9, <1>10, HandledNext

\* What is known when the first callback is read says the same as seen.
LEMMA DecisionTrue ==
    ASSUME ToplevelsInv, AtSync(1)
    PROVE  /\ {t.win : t \in handlers} = {w.win : w \in seen}
           /\ \A t \in Found : t \in handlers /\ \E w \in Named : w.win = t.win
           /\ \A w \in Named : w \in seen /\ \E t \in Found : w.win = t.win
           /\ IsFiniteSet(Found) /\ IsFiniteSet(Named) /\ Cardinality(Found) = Cardinality(Named)
<1> USE DEF ToplevelsInv
<1>1. Range(windows) = handlers /\ handlers \subseteq resources /\ handlers \subseteq TopLevel
  BY RangeNow DEF TablesMatch, TypesOK, LibTypeOK
<1>2. DOMAIN events \subseteq Nat \ {0}
  BY LenProperties DEF TypesOK
<1>3. \A o : Known(o, 1) <=> o \in handlers
  BY <1>2 DEF Known, Born, Gone
<1>4. \A o, v : Heard("title", o, v, 1) => title[o] = v
  BY <1>2 DEF Heard, Read
<1>5. /\ \A v, w \in seen : v.win = w.win => v = w
      /\ \A w \in seen : \E o \in handlers : title[o] = w.title /\ w.win = o.win /\ w.ids = {o.id}
      /\ \A o \in handlers : \E w \in seen : w.win = o.win
  BY <1>1, <1>3, <1>4 DEF AtSync
<1>6. \A o, r \in handlers : o.win = r.win => o = r
  BY <1>1 DEF Apart
<1>7. ASSUME NEW t \in handlers, NEW w \in seen, t.win = w.win
      PROVE  t \in Found <=> w \in Named
  <2>1. title[t] = w.title /\ w.ids = {t.id}
    BY <1>5, <1>6, <1>7
  <2> QED
    BY <1>1, <2>1 DEF Found, Named
<1>8. {t.win : t \in handlers} = {w.win : w \in seen}
  BY <1>5
<1>9. Found \subseteq handlers /\ Named \subseteq seen
  BY <1>1 DEF Found, Named
<1>10. \A t \in Found : t \in handlers /\ \E w \in Named : w.win = t.win
  BY <1>5, <1>7, <1>9
<1>11. \A w \in Named : w \in seen /\ \E t \in Found : w.win = t.win
  BY <1>5, <1>7, <1>9
<1>12. IsFiniteSet(Found)
  BY <1>1, <1>9, FinitelyMany, FS_Subset
<1>13. IsFiniteSet(Named) /\ Cardinality(Found) = Cardinality(Named)
  <2> DEFINE f == [t \in Found |-> CHOOSE w \in Named : w.win = t.win]
  <2>1. \A t \in Found : f[t] \in Named /\ f[t].win = t.win
    BY <1>10
  <2>2. f \in [Found -> Named]
    BY <2>1
  <2> HIDE DEF f
  <2>3. \A t, r \in Found : f[t] = f[r] => t = r
    BY <1>6, <1>9, <2>1
  <2>4. \A w \in Named : \E t \in Found : f[t] = w
    BY <1>5, <1>9, <1>11, <2>1
  <2>5. f \in Bijection(Found, Named)
    BY <2>2, <2>3, <2>4, Fun_IsBij
  <2>6. ExistsBijection(Found, Named)
    BY <2>5 DEF ExistsBijection
  <2> QED
    BY <1>12, <2>6, FS_Bijection
<1> QED
  BY <1>8, <1>10, <1>11, <1>12, <1>13

\* The tool has what it needs when the first callback is read, and has asked for nothing.
LEMMA InformedThen ==
    ASSUME WlctrlInv, InfoDone
    PROVE  /\ Take("callback") /\ Running /\ return_code = "OK"
           /\ UNCHANGED <<handlers, windows, title, states, serverVars, action, target, seen>>
           /\ AtSync(1) /\ NoSync /\ NoCommand /\ served = {} /\ NoCallback'
<1> USE DEF WlctrlInv
<1>1. /\ Take("callback") /\ Running /\ Head(events).callback = "info_done"
      /\ UNCHANGED <<handlers, windows, title, states, serverVars, action, target, seen>>
  BY DEF InfoDone, TakeCallback, Take
<1>2. Popped /\ events[1].ev = "callback" /\ events[1].callback = "info_done"
  BY <1>1, TakePops DEF ToplevelsInv
<1>3. /\ 1 \in DOMAIN events
      /\ \A k \in DOMAIN events' : k + 1 \in DOMAIN events /\ events'[k] = events[k + 1] /\ k \in Nat \ {0}
  BY <1>2, EventsPopped DEF ToplevelsInv
<1>4. Informed
  <2>1. ~Asked /\ ~Requested
    BY <1>2, <1>3 DEF Asked, Requested, NoCallback
  <2>2. ~Finishing
    BY <1>2, <1>3 DEF Finishing, OnlyCallback
  <2> QED
    BY <1>1, <2>1, <2>2 DEF Stage
<1>5. PICK k \in DOMAIN events : OnlyCallback(k, "info_done") /\ AtSync(k)
  BY <1>4 DEF Informed
<1>6. k = 1
  BY <1>2, <1>3, <1>5 DEF OnlyCallback
<1>7. AtSync(1)
  BY <1>5, <1>6
<1>8. NoCallback'
  <2>1. \A j \in DOMAIN events' : j + 1 # 1
    BY <1>3
  <2>2. \A j \in DOMAIN events' : events[j + 1].ev # "callback"
    BY <1>3, <1>5, <1>6, <2>1 DEF OnlyCallback
  <2> QED
    BY <1>3, <2>2 DEF NoCallback
<1> QED
  BY <1>1, <1>4, <1>7, <1>8 DEF Informed

\* It leaves at once, having asked for nothing.
LEMMA LeavesUnserved ==
    ASSUME WlctrlInv, Take("callback"), Running, served = {},
           UNCHANGED <<handlers, windows, title, states, serverVars, requests, action, target, seen>>,
           raised' \in {{"disconnected"}, {"not a number"}}, return_code' \in Codes,
           raised' = {"disconnected"} /\ action = "list" =>
             {t.win : t \in listed'} = {w.win : w \in seen} /\ return_code' = "OK",
           raised' = {"disconnected"} /\ action # "list" =>
             \/ Cardinality(Named) = 0 /\ return_code' = "NO_MATCH"
             \/ Cardinality(Named) \notin {0, 1} /\ return_code' = "MULTIPLE_MATCHES"
    PROVE  WlctrlInv'
<1> USE DEF WlctrlInv
<1>1. PICK s : s = <<>>
  OBVIOUS
<1>2. s \in Seq(Request) /\ requests' = requests \o s /\ DOMAIN s = {}
  BY <1>1, NothingAsked DEF ToplevelsInv
<1>3. raised' \cap {"installed", "not in windows"} = {}
  OBVIOUS
<1>4. ToplevelsInv' /\ Complete' /\ CommandsFind({})' /\ Handles'
  BY <1>2, <1>3, CallbackTakes
<1>5. TypeOK'
  BY <1>4 DEF TypeOK, ToplevelsInv, TypesOK
<1>6. Named' = Named /\ served' = {} /\ ~rejected'
  BY DEF Named, serverVars, CommandsFind
<1>7. PICK n : n = Cardinality(Named)
  OBVIOUS
<1>8. ExitTrue'
  <2>1. n = Cardinality(Named')
    BY <1>6, <1>7
  <2>2. ASSUME raised' = {"disconnected"}, action' # "list"
        PROVE  CASE n = 0 -> return_code' = "NO_MATCH"
                 [] n = 1 -> return_code' = "OK"
                 [] OTHER -> return_code' = "MULTIPLE_MATCHES"
    BY <1>7, <2>2
  <2>3. raised' = {"disconnected"} /\ action' = "list" =>
          {t.win : t \in listed'} = {w.win : w \in seen'} /\ return_code' = "OK"
    OBVIOUS
  <2> QED
    BY <1>4, <1>5, <2>1, <2>2, <2>3 DEF ExitTrue, Exited
<1>9. DoneBeforeExit'
  BY <1>6 DEF DoneBeforeExit, Exited
<1>10. ~Running'
  BY DEF Running
<1> QED
  BY <1>4, <1>5, <1>8, <1>9, <1>10

\* It sends its request, and asks for the second sync.
LEMMA AsksOnce ==
    ASSUME WlctrlInv, Take("callback"), Running, served = {}, NoSync, NoCommand, NoCallback',
           UNCHANGED <<handlers, windows, title, states, serverVars, action, target, seen, return_code, raised>>,
           action \in Ops, NEW t \in TopLevel, t \in handlers, Targeted(t),
           requests' = requests \o <<Command(action, t), [op |-> "sync", callback |-> "quit"]>>
    PROVE  WlctrlInv'
<1> USE DEF WlctrlInv
<1>1. PICK c, y : c = Command(action, t) /\ y = [op |-> "sync", callback |-> "quit"]
  OBVIOUS
<1>2. /\ c \in Request /\ c.op = action /\ c.id = t.id /\ c.meant = t /\ c.op \in Ops
      /\ y \in Request /\ y.op = "sync" /\ y.callback = "quit" /\ y.op \notin Ops /\ c.op # "sync"
  <2>1. t.id \in Ids
    BY ObjectFields
  <2>2. c \in [op : Ops \cup {"destroy"}, id : Ids, meant : TopLevel]
    BY <1>1, <2>1 DEF Command
  <2>3. y \in [op : {"sync"}, callback : {"info_done", "quit"}]
    BY <1>1
  <2>4. c \in Request /\ y \in Request
    BY <2>2, <2>3 DEF Request
  <2>5. c.op = action /\ c.id = t.id /\ c.meant = t
    BY <1>1 DEF Command
  <2>6. y.op = "sync" /\ y.callback = "quit"
    BY <1>1
  <2> QED
    BY <2>4, <2>5, <2>6 DEF Ops
<1>3. PICK s : s = <<c, y>>
  OBVIOUS
<1>4. s \in Seq(Request) /\ DOMAIN s = {1, 2} /\ s[1] = c /\ s[2] = y /\ requests' = requests \o s
  <2>1. s \in Seq(Request) /\ DOMAIN s = {1, 2} /\ s[1] = c /\ s[2] = y
    BY <1>2, <1>3
  <2> QED
    BY <1>1, <1>3, <2>1
<1>5. \A k \in DOMAIN s : \/ s[k].op = "sync"
                          \/ s[k].op \in Ops /\ s[k].id = s[k].meant.id /\ s[k].meant \in handlers
  BY <1>2, <1>4
<1>6. raised' \cap {"installed", "not in windows"} = {}
  BY DEF Running
<1>7. ToplevelsInv' /\ Complete' /\ CommandsFind({})'
  BY <1>4, <1>5, <1>6, CallbackTakes
<1>8. requests \in Seq(Request)
  BY DEF ToplevelsInv, TypesOK, LibTypeOK
<1>9. PICK j \in Nat, k \in Nat : j = Len(requests) + 1 /\ k = Len(requests) + 2
  BY <1>8, LenProperties
<1>10. /\ j \in DOMAIN requests' /\ k \in DOMAIN requests' /\ j < k /\ requests'[j] = c /\ requests'[k] = y
       /\ \A i \in DOMAIN requests' : i = j \/ i = k \/ (i \in DOMAIN requests /\ requests'[i] = requests[i])
  BY <1>4, <1>8, <1>9, Joined
<1>11. OnlySync(k, "quit")'
  BY <1>2, <1>10 DEF OnlySync, NoSync
<1>12. \A i \in DOMAIN requests' : requests'[i].op \in Ops => i = j
  BY <1>2, <1>10 DEF NoCommand
<1>13. Targeted(t)' /\ served' = {} /\ action' # "list"
  BY DEF Targeted, Named, serverVars, Ops
<1>14. requests'[j] = Command(action', t) /\ requests'[k].op = "sync"
  BY <1>1, <1>2, <1>10
<1>15. Requested'
  <2>1. /\ j \in DOMAIN requests' /\ j < k /\ requests'[j] = Command(action, t)'
        /\ \A i \in DOMAIN requests' : requests'[i].op \in Ops => i = j
    BY <1>10, <1>12, <1>14 DEF Command
  <2>2. k \in DOMAIN requests' /\ Targeted(t)' /\ requests'[k].op = "sync" /\ OnlySync(k, "quit")'
    BY <1>10, <1>11, <1>13, <1>14
  <2> QED
    BY <1>13, <2>1, <2>2 DEF Requested
<1> QED
  BY <1>7, <1>15, WlctrlGoes DEF Stage

LEMMA InfoDoneKeeps ==
    ASSUME WlctrlInv, InfoDone
    PROVE  WlctrlInv'
<1> USE DEF WlctrlInv
<1>1. /\ Take("callback") /\ Running /\ return_code = "OK"
      /\ UNCHANGED <<handlers, windows, title, states, serverVars, action, target, seen>>
      /\ AtSync(1) /\ NoSync /\ NoCommand /\ served = {} /\ NoCallback'
  BY InformedThen
<1>2. /\ {t.win : t \in handlers} = {w.win : w \in seen}
      /\ \A t \in Found : t \in handlers /\ \E w \in Named : w.win = t.win
      /\ \A w \in Named : w \in seen /\ \E t \in Found : w.win = t.win
      /\ IsFiniteSet(Found) /\ IsFiniteSet(Named) /\ Cardinality(Found) = Cardinality(Named)
  BY <1>1, DecisionTrue
<1>3. Range(windows) = handlers /\ handlers \subseteq TopLevel
  BY RangeNow DEF ToplevelsInv, TypesOK, LibTypeOK
<1>4. action \in {"list"} \cup Ops
  BY ToolAssumption
<1>5. PICK n \in Nat : n = Cardinality(Found) /\ (n = 0 <=> Found = {})
  BY <1>2, FS_CardinalityType, FS_EmptySet
<1>6. \/ action = "list" /\ listed' = Range(windows) /\ Quit("OK")
      \/ action # "list" /\ raised' = {"not a number"} /\ UNCHANGED <<return_code, requests>>
      \/ action # "list" /\ Found = {} /\ Quit("NO_MATCH")
      \/ action # "list" /\ Cardinality(Found) > 1 /\ Quit("MULTIPLE_MATCHES")
      \/ /\ action # "list" /\ Found # {} /\ ~(Cardinality(Found) > 1) /\ UNCHANGED <<return_code, raised>>
         /\ \E t \in Found : requests' = requests \o <<Command(action, t), [op |-> "sync", callback |-> "quit"]>>
  BY DEF InfoDone
<1>7. CASE action = "list" /\ listed' = Range(windows) /\ Quit("OK")
  BY <1>1, <1>2, <1>3, <1>7, LeavesUnserved DEF Quit, Codes
<1>8. CASE action # "list" /\ raised' = {"not a number"} /\ UNCHANGED <<return_code, requests>>
  BY <1>1, <1>8, LeavesUnserved DEF Codes
<1>9. CASE action # "list" /\ Found = {} /\ Quit("NO_MATCH")
  BY <1>1, <1>2, <1>5, <1>9, LeavesUnserved DEF Quit, Codes
<1>10. CASE action # "list" /\ Cardinality(Found) > 1 /\ Quit("MULTIPLE_MATCHES")
  BY <1>1, <1>2, <1>5, <1>10, LeavesUnserved DEF Quit, Codes
<1>11. ASSUME action # "list", Found # {}, ~(Cardinality(Found) > 1), UNCHANGED <<return_code, raised>>,
              NEW t \in Found, requests' = requests \o <<Command(action, t), [op |-> "sync", callback |-> "quit"]>>
       PROVE  WlctrlInv'
  <2>1. n = 1
    BY <1>5, <1>11
  <2>2. PICK v : Named = {v}
    BY <1>2, <1>5, <2>1, FS_Singleton
  <2>3. t \in handlers /\ t \in TopLevel /\ v \in seen /\ v.win = t.win
    BY <1>2, <1>3, <1>11, <2>2
  <2>4. Targeted(t)
    BY <2>2, <2>3 DEF Targeted
  <2> QED
    BY <1>1, <1>4, <1>11, <2>3, <2>4, AsksOnce
<1> QED
  BY <1>6, <1>7, <1>8, <1>9, <1>10, <1>11

\* The second callback: it leaves.
LEMMA OnQuitKeeps ==
    ASSUME WlctrlInv, OnQuit
    PROVE  WlctrlInv'
<1> USE DEF WlctrlInv
<1>1. /\ Take("callback") /\ Running /\ Head(events).callback = "quit"
      /\ UNCHANGED <<handlers, windows, title, states, serverVars, action, target, listed, seen, return_code, requests>>
      /\ raised' = {"disconnected"} /\ return_code = "OK"
  BY DEF OnQuit, Quit, TakeCallback, Take
<1>2. Popped /\ events[1].ev = "callback" /\ events[1].callback = "quit"
  BY <1>1, TakePops DEF ToplevelsInv
<1>3. 1 \in DOMAIN events
  BY <1>2, EventsPopped DEF ToplevelsInv
<1>4. Finishing
  <2>1. ~Asked /\ ~Requested
    BY <1>2, <1>3 DEF Asked, Requested, NoCallback
  <2>2. ~Informed
    BY <1>2, <1>3 DEF Informed, OnlyCallback
  <2> QED
    BY <1>1, <2>1, <2>2 DEF Stage
<1>5. PICK s : s = <<>>
  OBVIOUS
<1>6. s \in Seq(Request) /\ requests' = requests \o s /\ DOMAIN s = {}
  BY <1>1, <1>5, NothingAsked DEF ToplevelsInv
<1>7. ToplevelsInv' /\ Complete' /\ CommandsFind({})' /\ Handles'
  BY <1>1, <1>6, CallbackTakes
<1>8. TypeOK'
  BY <1>1, <1>7 DEF TypeOK, ToplevelsInv, TypesOK
<1>9. PICK t \in TopLevel : Targeted(t) /\ served = {Serving(t)} /\ action # "list"
  BY <1>4 DEF Finishing
<1>10. PICK w : Named = {w} /\ w.win = t.win
  BY <1>9 DEF Targeted
<1>11. Named' = Named /\ served' = served /\ ~rejected'
  BY <1>1 DEF Named, serverVars, CommandsFind
<1>12. PICK n : n = Cardinality(Named') /\ n = 1
  BY <1>10, <1>11, FS_Singleton
<1>13. ExitTrue'
  <2>1. (CASE n = 0 -> return_code' = "NO_MATCH"
           [] n = 1 -> return_code' = "OK"
           [] OTHER -> return_code' = "MULTIPLE_MATCHES")
    BY <1>1, <1>12
  <2> QED
    BY <1>1, <1>7, <1>8, <1>9, <1>12, <2>1 DEF ExitTrue
<1>14. DoneBeforeExit'
  <2>1. Serving(t).on = t.win /\ Serving(t).meant = t /\ Serving(t).op = action'
    BY <1>1 DEF Serving
  <2>2. {x.on : x \in served'} = {x.win : x \in Named'}
    BY <1>9, <1>10, <1>11, <2>1
  <2> QED
    BY <1>1, <1>9, <1>11, <2>1, <2>2 DEF DoneBeforeExit
<1>15. ~Running'
  BY <1>1 DEF Running
<1> QED
  BY <1>1, <1>7, <1>8, <1>13, <1>14, <1>15

-----------------------------------------------------------------------------
\* The compositor has read a sync, when all that it sent before is on its way.
LEMMA SyncServed ==
    ASSUME WlctrlInv, Running, ServeSync
    PROVE  WlctrlInv'
<1> USE DEF WlctrlInv, ToplevelsInv
<1>1. /\ requests # <<>> /\ requests' = Tail(requests) /\ Head(requests).op = "sync"
      /\ seen' = (IF Head(requests).callback = "info_done" THEN OpenWindows ELSE seen)
      /\ UNCHANGED <<raised, bound, resources, open, names, served, action, target, return_code>>
  BY DEF ServeSync, TakeRequest, libVars, toolVars
<1>2. PICK e : e = [ev |-> "callback", callback |-> Head(requests).callback]
  OBVIOUS
<1>3. ToplevelsInv' /\ bound /\ Tidings(<<e>>) /\ e \in Message /\ \A x : CommandsFind(x) => CommandsFind(x)'
  BY <1>2, ServeSyncKeeps
<1>4. CommandsFind({})'
  <2>1. PICK x : x = {}
    OBVIOUS
  <2>2. CommandsFind(x)'
    BY <1>3, <2>1
  <2> QED
    BY <2>1, <2>2
<1>5. Complete'
  BY <1>1 DEF Complete
<1>6. /\ 1 \in DOMAIN requests /\ requests[1].op = "sync" /\ DOMAIN requests \subseteq Nat \ {0}
      /\ e.ev = "callback" /\ e.callback = requests[1].callback
      /\ \A k \in DOMAIN requests' : k + 1 \in DOMAIN requests /\ requests'[k] = requests[k + 1] /\ k + 1 # 1
  BY <1>1, <1>2, RequestsPopped
<1>7. PICK s : s = <<e>>
  OBVIOUS
<1>8. Grown(s) /\ DOMAIN s = {1} /\ s[1] = e
  BY <1>3, <1>7 DEF Tidings
<1>9. PICK n \in Nat \ {0} :
        /\ n = Len(events) + 1
        /\ \A o : Known(o, n) <=> Known(o, End)
        /\ \A a, o, v : Heard(a, o, v, n) <=> Heard(a, o, v, End)
  BY AtEnd DEF End
<1>10. n \in DOMAIN events' /\ events'[n] = e /\ \A k \in DOMAIN events' : k = n \/ (k \in DOMAIN events /\ events'[k] = events[k])
  BY <1>8, <1>9, EventsGrown
<1>11. /\ NoCommand => NoCommand'
       /\ \A c : \A k \in DOMAIN requests : OnlySync(k, c) => k = 1 /\ requests[1].callback = c /\ NoSync'
  <2>1. ASSUME NEW k \in DOMAIN requests, NEW c, OnlySync(k, c) PROVE k = 1 /\ requests[1].callback = c /\ NoSync'
    <3>1. k = 1 /\ requests[1].callback = c
      BY <1>6, <2>1 DEF OnlySync
    <3>2. \A j \in DOMAIN requests' : requests'[j].op # "sync"
      BY <1>6, <2>1, <3>1 DEF OnlySync
    <3> QED
      BY <3>1, <3>2 DEF NoSync
  <2> QED
    BY <1>6, <2>1 DEF NoCommand
<1>12. ~Informed /\ ~Finishing
  BY <1>6 DEF Informed, Finishing, NoSync
<1>13. ASSUME NoCallback, NEW c, e.callback = c PROVE OnlyCallback(n, c)' /\ events'[n].ev = "callback"
  BY <1>6, <1>10, <1>13 DEF NoCallback, OnlyCallback
<1>14. CASE Asked
  <2>1. PICK k \in DOMAIN requests : OnlySync(k, "info_done")
    BY <1>14 DEF Asked
  <2>2. requests[1].callback = "info_done" /\ NoSync'
    BY <1>11, <2>1
  <2>3. seen' = OpenWindows
    BY <1>1, <1>6, <2>2, RequestsPopped
  <2>4. \A o : (Known(o, n)' <=> Known(o, n)) /\ \A a, v : Heard(a, o, v, n)' <=> Heard(a, o, v, n)
    <3>1. n \in Nat /\ n <= Len(events) + 1
      BY <1>8, <1>9, EventsGrown
    <3> QED
      BY <1>8, <3>1, PastGrown
  <2>5. \A o \in TopLevel : Known(o, n)' <=> o \in resources /\ o.win \in open
    BY <1>9, <2>4 DEF TruthFollows
  <2>6. /\ \A w \in seen' : w.win \in open /\ w.title = names[w.win] /\ w.ids = {r.id : r \in Objects({w.win})}
        /\ \A v, w \in seen' : v.win = w.win => v = w
        /\ \A v \in open : \E w \in seen' : w.win = v
    <3> DEFINE idsOf(v) == {r.id : r \in Objects({v})}
               row(v) == [win |-> v, title |-> names[v], ids |-> idsOf(v)]
    <3>1. seen' = {row(v) : v \in open}
      BY <2>3 DEF OpenWindows
    <3> HIDE DEF idsOf
    <3>2. \A v : row(v).win = v /\ row(v).title = names[v] /\ row(v).ids = idsOf(v)
      OBVIOUS
    <3> HIDE DEF row
    <3>3. \A w \in seen' : w.win \in open /\ w = row(w.win)
      BY <3>1, <3>2
    <3>4. \A w \in seen' : w.win \in open /\ w.title = names[w.win] /\ w.ids = idsOf(w.win)
      BY <3>2, <3>3
    <3>5. \A v, w \in seen' : v.win = w.win => v = w
      BY <3>3
    <3>6. \A v \in open : \E w \in seen' : w.win = v
      BY <3>1, <3>2
    <3> QED
      BY <3>4, <3>5, <3>6 DEF idsOf
  <2>7. ASSUME NEW w \in seen'
        PROVE  \E o \in TopLevel : /\ Known(o, n)' /\ Heard("title", o, w.title, n)'
                                   /\ w.win = o.win /\ w.ids = {o.id}
    <3>1. PICK o \in resources : o.win = w.win
      BY <1>3, <2>6 DEF Complete
    <3>2. o \in TopLevel /\ o.win \in open
      BY <2>6, <3>1 DEF TypesOK, LibTypeOK
    <3>3. Heard("title", o, Actual("title", o), End) /\ Actual("title", o) = w.title
      BY <2>6, <3>1, <3>2 DEF DetailsFollow, Aspects, Actual
    <3>4. Heard("title", o, w.title, n)'
      BY <1>9, <2>4, <3>3
    <3>5. Objects({w.win}) = {o}
      BY <2>6, <3>1, <3>2 DEF Objects, Apart
    <3>6. w.ids = {o.id}
      BY <2>6, <3>5
    <3> QED
      BY <2>5, <3>1, <3>2, <3>4, <3>6
  <2>8. \A o \in TopLevel : Known(o, n)' => \E w \in seen' : w.win = o.win
    BY <2>5, <2>6
  <2>9. AtSync(n)'
    BY <2>6, <2>7, <2>8 DEF AtSync, Heard, Silent, Tells, Told, Read, OnOff
  <2>10. OnlyCallback(n, "info_done")' /\ events'[n].ev = "callback"
    BY <1>6, <1>13, <1>14, <2>2 DEF Asked
  <2>11. NoCommand' /\ served' = {}
    BY <1>1, <1>11, <1>14 DEF Asked
  <2>12. Informed'
    BY <1>10, <2>2, <2>9, <2>10, <2>11 DEF Informed
  <2> QED
    BY <1>1, <1>3, <1>4, <1>5, <2>12, WlctrlGoes DEF Stage
<1>15. CASE Requested
  <2>1. PICK t \in TopLevel, k \in DOMAIN requests :
           /\ Targeted(t)
           /\ OnlySync(k, "quit")
           /\ \/ NoCommand /\ served = {Serving(t)}
              \/ \E j \in DOMAIN requests : j < k
    BY <1>15 DEF Requested
  <2>2. k = 1 /\ requests[1].callback = "quit" /\ NoSync'
    BY <1>11, <2>1
  <2>3. ~\E j \in DOMAIN requests : j < k
    BY <1>6, <2>2
  <2>4. seen' = seen
    BY <1>1, <1>2, <1>6, <2>2
  <2>5. NoCommand' /\ served' = {Serving(t)'} /\ Targeted(t)' /\ action' # "list"
    BY <1>1, <1>11, <1>15, <2>1, <2>3, <2>4 DEF Serving, Targeted, Named, Requested
  <2>6. OnlyCallback(n, "quit")' /\ events'[n].ev = "callback"
    BY <1>6, <1>13, <1>15, <2>2 DEF Requested
  <2>7. Finishing'
    BY <1>10, <2>2, <2>5, <2>6 DEF Finishing
  <2> QED
    BY <1>1, <1>3, <1>4, <1>5, <2>7, WlctrlGoes DEF Stage
<1> QED
  BY <1>12, <1>14, <1>15 DEF Stage

\* No callback is among the details of a window.
LEMMA FreshQuiet ==
    ASSUME TypesOK, TypesOK', NEW q, NEW s, Fresh(q, s)
    PROVE  \A i \in DOMAIN s : s[i].ev # "callback"
<1>1. ASSUME NEW k \in DOMAIN s PROVE s[k].ev # "callback"
  <2>1. PICK i \in DOMAIN q : k = 4 * i - 3 \/ k = 4 * i - 2 \/ k = 4 * i - 1 \/ k = 4 * i
    BY <1>1, FreshTells
  <2>2. /\ s[4 * i - 3].ev = "toplevel" /\ s[4 * i - 2].ev = "title"
        /\ s[4 * i - 1].ev = "state" /\ s[4 * i].ev = "done"
    BY FreshTells DEF Creates, Tells, Completes
  <2> QED
    BY <2>1, <2>2
<1> QED
  BY <1>1

LEMMA CommandServed ==
    ASSUME WlctrlInv, Running, NEW op \in Ops, ServeCommand(op), Others
    PROVE  WlctrlInv'
<1> USE DEF WlctrlInv, ToplevelsInv
<1>1. /\ requests # <<>> /\ requests' = Tail(requests) /\ Head(requests).op = op
      /\ served' = served \cup {[op |-> op, meant |-> Head(requests).meant, on |-> o.win] :
                                  o \in {o \in resources : o.id = Head(requests).id}}
      /\ UNCHANGED <<raised, bound, resources, open, action, target, seen, return_code>>
  BY DEF ServeCommand, TakeRequest, libVars, Others, toolVars
<1>2. ToplevelsInv' /\ (\E s : Unfinished(s)) /\ \A x : CommandsFind(x) => CommandsFind(x)'
  BY ServeCommandKeeps
<1>3. CommandsFind({})'
  <2>1. PICK x : x = {}
    OBVIOUS
  <2>2. CommandsFind(x)'
    BY <1>2, <2>1
  <2> QED
    BY <2>1, <2>2
<1>4. Complete'
  BY <1>1 DEF Complete
<1>5. /\ 1 \in DOMAIN requests /\ Head(requests) = requests[1] /\ DOMAIN requests \subseteq Nat \ {0}
      /\ \A k \in DOMAIN requests' : k + 1 \in DOMAIN requests /\ requests'[k] = requests[k + 1] /\ k + 1 # 1 /\ k \in Nat
      /\ \A k \in DOMAIN requests : k # 1 => k - 1 \in DOMAIN requests' /\ requests[k] = requests'[k - 1]
  BY <1>1, RequestsPopped
<1>6. Requested
  BY <1>1, <1>5 DEF Stage, Asked, Informed, Finishing, NoCommand
<1>7. PICK t \in TopLevel, k \in DOMAIN requests :
         /\ Targeted(t)
         /\ requests[k].op = "sync" /\ OnlySync(k, "quit")
         /\ served = {}
         /\ \E j \in DOMAIN requests :
              /\ j < k /\ requests[j] = Command(action, t)
              /\ \A i \in DOMAIN requests : requests[i].op \in Ops => i = j
  BY <1>1, <1>5, <1>6 DEF Requested, NoCommand
<1>8. requests[1] = Command(action, t) /\ (\A i \in DOMAIN requests : requests[i].op \in Ops => i = 1) /\ 1 < k
  BY <1>1, <1>5, <1>7
<1>9. requests[1].op = action /\ requests[1].meant = t /\ requests[1].id = t.id
  BY <1>8 DEF Command
<1>10. t \in resources
  BY <1>1, <1>5, <1>9 DEF CommandsFind
<1>11. {o \in resources : o.id = t.id} = {t}
  BY <1>10 DEF Apart
<1>12. served' = {Serving(t)}
  <2>1. PICK m : m = {o \in resources : o.id = t.id}
    OBVIOUS
  <2>2. m = {t} /\ served' = {[op |-> action, meant |-> t, on |-> o.win] : o \in m}
    BY <1>1, <1>5, <1>7, <1>9, <1>11, <2>1
  <2> QED
    BY <2>2 DEF Serving
<1>13. Serving(t)' = Serving(t) /\ Targeted(t)' /\ action' # "list"
  BY <1>1, <1>6, <1>7 DEF Serving, Targeted, Named, Requested
<1>14. PICK s : Unfinished(s)
  BY <1>2
<1>15. Grown(s) /\ \A i \in DOMAIN s : s[i].ev # "callback"
  BY <1>14 DEF Unfinished, Tidings, Aspects
<1>16. NoCallback'
  BY <1>1, <1>6, <1>15, CallbacksGrown DEF Requested
<1>17. NoCommand'
  BY <1>5, <1>8 DEF NoCommand
<1>18. PICK h \in DOMAIN requests' : h = k - 1 /\ requests'[h] = requests[k]
  BY <1>5, <1>8
<1>19. OnlySync(h, "quit")'
  <2>1. ASSUME NEW j \in DOMAIN requests', requests'[j].op = "sync" PROVE j = h /\ requests'[j].callback = "quit"
    <3>1. j + 1 = k /\ requests'[j].callback = "quit"
      BY <1>5, <1>7, <2>1 DEF OnlySync
    <3> QED
      BY <1>5, <1>18, <3>1
  <2> QED
    BY <2>1 DEF OnlySync
<1>20. requests'[h].op = "sync"
  BY <1>7, <1>18
<1>21. Requested'
  BY <1>12, <1>13, <1>16, <1>17, <1>18, <1>19, <1>20 DEF Requested
<1> QED
  BY <1>1, <1>2, <1>3, <1>4, <1>21, WlctrlGoes DEF Stage
\* What the compositor does besides, as it is asked to or as the user changes windows.
LEMMA WindowsServed ==
    ASSUME WlctrlInv, Running, ServeWindows, Others
    PROVE  WlctrlInv'
<1> USE DEF WlctrlInv
<1>1. UNCHANGED <<action, target, seen, return_code>>
  BY DEF Others, toolVars
<1>2. PICK x : x = {}
  OBVIOUS
<1>3. CommandsFind(x)
  BY <1>2
<1>4. CommandsFind(x)' => CommandsFind({})'
  BY <1>2
<1>5. CASE ServeBind
  <2>1. /\ requests # <<>> /\ requests' = Tail(requests) /\ Head(requests).op = "bind"
        /\ UNCHANGED <<raised, served>>
    BY <1>5 DEF ServeBind, TakeRequest, libVars
  <2>2. /\ ToplevelsInv' /\ Complete' /\ CommandsFind(x)'
        /\ \E q, s : Fresh(q, s)
    BY <1>3, <1>5, ServeBindKeeps
  <2>3. PICK q, s : Fresh(q, s)
    BY <2>2
  <2>4. Grown(s) /\ \A i \in DOMAIN s : s[i].ev # "callback"
    BY <2>2, <2>3, FreshQuiet DEF Fresh, ToplevelsInv
  <2>5. Head(requests).op \notin Ops \cup {"sync"}
    BY <2>1 DEF Ops
  <2>6. Stage'
    BY <1>1, <2>1, <2>4, <2>5, StageServed
  <2> QED
    BY <1>1, <1>4, <2>1, <2>2, <2>6, WlctrlGoes
<1>6. CASE ServeDestroy
  <2>1. /\ requests # <<>> /\ requests' = Tail(requests) /\ Head(requests).op = "destroy"
        /\ UNCHANGED <<raised, served, bound, open, events, handlers, title, states>>
    BY <1>6 DEF ServeDestroy, TakeRequest, libVars
  <2>2. /\ ToplevelsInv' /\ CommandsFind(x)'
        /\ resources' \subseteq resources /\ \A o \in resources : o.win \in open => o \in resources'
    BY <1>3, <1>6, ServeDestroyKeeps
  <2>3. Complete'
    BY <2>1, <2>2 DEF Complete
  <2>4. PICK s : s = <<>>
    OBVIOUS
  <2>5. Grown(s) /\ DOMAIN s = {}
    <3>1. events \in Seq(Message)
      BY DEF ToplevelsInv, TypesOK
    <3> QED
      BY <2>1, <2>4, <3>1, ConcatEmptySeq DEF Grown
  <2>6. Head(requests).op \notin Ops \cup {"sync"}
    BY <2>1 DEF Ops
  <2>7. Stage'
    BY <1>1, <2>1, <2>5, <2>6, StageServed
  <2> QED
    BY <1>1, <1>4, <2>1, <2>2, <2>3, <2>7, WlctrlGoes
<1>7. ASSUME NEW op \in Ops, ServeCommand(op) PROVE WlctrlInv'
  BY <1>7, CommandServed
<1> QED
  BY <1>5, <1>6, <1>7 DEF ServeWindows

LEMMA WindowsChange ==
    ASSUME WlctrlInv, Running, NewTitle \/ OpenOrClose, Others
    PROVE  WlctrlInv'
<1> USE DEF WlctrlInv
<1>1. UNCHANGED <<action, target, seen, return_code>>
  BY DEF Others, toolVars
<1>2. PICK x : x = {}
  OBVIOUS
<1>3. CommandsFind(x)
  BY <1>2
<1>4. CommandsFind(x)' => CommandsFind({})'
  BY <1>2
<1>5. bound
  BY DEF NewTitle, OpenOrClose
<1>6. ASSUME NEW o \in Objects(open), NEW t \in Titles, Rename(o, t) PROVE WlctrlInv'
  <2>1. UNCHANGED <<raised, served, requests, bound, open, resources>>
    BY <1>6 DEF Rename, libVars
  <2>2. ToplevelsInv' /\ CommandsFind(x)' /\ \E s : Unfinished(s)
    BY <1>3, <1>5, <1>6, RenameKeeps
  <2>3. PICK s : Unfinished(s)
    BY <2>2
  <2>4. Grown(s) /\ \A i \in DOMAIN s : s[i].ev # "callback"
    BY <2>3 DEF Unfinished, Tidings, Aspects
  <2>5. Complete'
    BY <2>1 DEF Complete
  <2>6. Stage'
    BY <1>1, <2>1, <2>4, StageServed
  <2> QED
    BY <1>1, <1>4, <2>1, <2>2, <2>5, <2>6, WlctrlGoes
<1>7. ASSUME NEW id \in Ids, NEW t \in Titles, Open(id, t) PROVE WlctrlInv'
  <2>1. UNCHANGED <<raised, served, requests>>
    BY <1>7 DEF Open, libVars
  <2>2. ToplevelsInv' /\ Complete' /\ CommandsFind(x)' /\ \E q, s : Fresh(q, s)
    BY <1>3, <1>5, <1>7, OpenKeeps
  <2>3. PICK q, s : Fresh(q, s)
    BY <2>2
  <2>4. Grown(s) /\ \A i \in DOMAIN s : s[i].ev # "callback"
    BY <2>2, <2>3, FreshQuiet DEF Fresh, ToplevelsInv
  <2>5. Stage'
    BY <1>1, <2>1, <2>4, StageServed
  <2> QED
    BY <1>1, <1>4, <2>1, <2>2, <2>5, WlctrlGoes
<1>8. ASSUME NEW o \in Objects(open), Close(o) PROVE WlctrlInv'
  <2>1. UNCHANGED <<raised, served, requests>>
    BY <1>8 DEF Close, libVars
  <2>2. /\ ToplevelsInv' /\ Complete' /\ CommandsFind(x)'
        /\ Grown(<<Event("closed", o)>>) /\ Event("closed", o) \in Message
    BY <1>3, <1>5, <1>8, CloseKeeps
  <2>3. PICK e : e = Event("closed", o)
    OBVIOUS
  <2>4. PICK s : s = <<e>>
    OBVIOUS
  <2>5. Grown(s) /\ \A i \in DOMAIN s : s[i].ev # "callback"
    <3>1. e.ev = "closed"
      BY <2>3 DEF Event
    <3>2. DOMAIN s = {1} /\ s[1] = e
      BY <2>4
    <3> QED
      BY <2>2, <2>3, <2>4, <3>1, <3>2
  <2>6. Stage'
    BY <1>1, <2>1, <2>5, StageServed
  <2> QED
    BY <1>1, <1>4, <2>1, <2>2, <2>6, WlctrlGoes
<1> QED
  BY <1>6, <1>7, <1>8 DEF NewTitle, OpenOrClose

LEMMA WlctrlStutters ==
    ASSUME WlctrlInv, UNCHANGED vars
    PROVE  WlctrlInv'
<1> USE DEF WlctrlInv
<1>1. UNCHANGED <<toplevelVars, action, target, listed, return_code, seen>>
  BY DEF vars, toolVars
<1>2. PICK x : x = {}
  OBVIOUS
<1>3. ToplevelsInv' /\ Complete' /\ CommandsFind(x)'
  BY <1>1, <1>2, LibStays
<1>4. CommandsFind({})'
  BY <1>2, <1>3
<1>5. TypeOK' /\ (Running' <=> Running)
  BY <1>1, <1>3 DEF TypeOK, Running, toplevelVars, libVars, ToplevelsInv, TypesOK
<1>6. Running => Stage'
  <2>1. PICK s : s = <<>>
    OBVIOUS
  <2>2. events \in Seq(Message)
    BY DEF ToplevelsInv, TypesOK
  <2>3. UNCHANGED <<events, handlers, title, states, served, requests>>
    BY <1>1 DEF toplevelVars, libVars, serverVars
  <2>4. Grown(s) /\ DOMAIN s = {}
    BY <2>1, <2>2, <2>3, ConcatEmptySeq DEF Grown
  <2> QED
    BY <1>1, <2>3, <2>4, StageServed
<1>7. Named' = Named /\ UNCHANGED <<raised, served, rejected>>
  BY <1>1 DEF Named, toplevelVars, libVars, serverVars
<1>8. ExitTrue => ExitTrue'
  <2>1. PICK n : n = Cardinality(Named)
    OBVIOUS
  <2>2. n = Cardinality(Named')
    BY <1>7, <2>1
  <2> QED
    BY <1>1, <1>3, <1>5, <1>7, <2>1, <2>2, HandledNext DEF ExitTrue, Exited
<1>9. DoneBeforeExit => DoneBeforeExit'
  BY <1>1, <1>7 DEF DoneBeforeExit, Exited
<1> QED
  BY <1>1, <1>3, <1>4, <1>5, <1>6, <1>8, <1>9

\* The invariant says that it leaves with the truth, its request carried out.
LEMMA WlctrlImplies ==
    ASSUME WlctrlInv
    PROVE  ExitTrue /\ DoneBeforeExit
<1> USE DEF WlctrlInv
<1>1. CASE Running
  <2>1. ~Exited /\ return_code = "OK"
    BY <1>1 DEF Exited, Running
  <2>2. ExitTrue
    BY <2>1, EventsHandled DEF ExitTrue
  <2>3. \A s \in served : s.on = s.meant.win /\ s.op = action
    <3>1. \A t : Serving(t).op = action /\ Serving(t).meant = t /\ Serving(t).on = t.win
      BY DEF Serving
    <3> QED
      BY <1>1, <3>1 DEF Stage, Asked, Informed, Requested, Finishing
  <2>4. ~rejected
    BY DEF CommandsFind
  <2> QED
    BY <2>1, <2>2, <2>3, <2>4 DEF DoneBeforeExit
<1>2. CASE ~Running
  BY <1>2
<1> QED
  BY <1>1, <1>2

\* The decision and the request of wlctrl: at each of its four steps what it has read,
\* asked for and been granted is what the order of the two streams allows.
THEOREM WlctrlAccounted == Spec => []WlctrlInv
<1>1. Init => WlctrlInv
  BY WlctrlStarts
<1>2. WlctrlInv /\ [Next]_vars => WlctrlInv'
  <2> SUFFICES ASSUME WlctrlInv, [Next]_vars PROVE WlctrlInv'
    OBVIOUS
  <2>1. CASE InfoDone
    BY <2>1, InfoDoneKeeps
  <2>2. CASE OnQuit
    BY <2>2, OnQuitKeeps
  <2>3. CASE Library /\ Others
    BY <2>3, LibraryKeeps
  <2>4. CASE Running /\ ServeSync
    BY <2>4, SyncServed
  <2>5. CASE Running /\ ServeWindows /\ Others
    BY <2>5, WindowsServed
  <2>6. CASE Running /\ (NewTitle \/ OpenOrClose) /\ Others
    BY <2>6, WindowsChange
  <2>7. CASE UNCHANGED vars
    BY <2>7, WlctrlStutters
  <2> QED
    BY <2>1, <2>2, <2>3, <2>4, <2>5, <2>6, <2>7 DEF Next, Dispatch, Serve
<1> QED
  BY <1>1, <1>2, PTL DEF Spec

\* wlctrl lists all windows and counts those its target names as the compositor had
\* them when it served the sync, and every event finds its handler (info_done).
THEOREM ExitIsTrue == Spec => []ExitTrue
<1>1. WlctrlInv => ExitTrue
  BY WlctrlImplies
<1> QED
  BY <1>1, WlctrlAccounted, PTL

\* Its request is carried out before it leaves, on the window that was named and on no
\* other (quit, after the second sync).
THEOREM DoneBeforeLeaving == Spec => []DoneBeforeExit
<1>1. WlctrlInv => DoneBeforeExit
  BY WlctrlImplies
<1> QED
  BY <1>1, WlctrlAccounted, PTL
=============================================================================
