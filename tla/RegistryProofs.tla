--------------------------- MODULE RegistryProofs ---------------------------
(***************************************************************************)
(* The client's tables of globals and outputs against the compositor's,    *)
(* with what is on its way in both directions.  The inductive invariant    *)
(* says what each event in flight will find when it is handled, and what   *)
(* the client will know when all have been: the globals there are, the     *)
(* outputs it has bound, and the outputs each object is on.                *)
(***************************************************************************)
EXTENDS Registry, SequenceTheorems, FiniteSetTheorems, TLAPS

USE DEF Gids, ObjIds

IsGlobal(e, g) == e.ev = "global" /\ e.gid = g
IsRemove(e, g) == e.ev = "global_remove" /\ e.gid = g
Pending(q, g) == \E k \in DOMAIN q : IsGlobal(q[k], g)
Removing(q, g) == \E k \in DOMAIN q : IsRemove(q[k], g)

\* Before the compositor has read get_registry nothing else has happened.
Unasked ==
    /\ ~registered =>
         /\ requests = <<[op |-> "get_registry"], [op |-> "sync"]>>
         /\ events = <<>>
         /\ registry = <<>> /\ interfaces = <<>> /\ outputs = <<>>
         /\ ~initial_sync /\ windows = {} /\ bound = {}
    /\ registered => \A k \in DOMAIN requests : requests[k].op # "get_registry"

\* The client knows of a global or will, unless it has been removed; it is told once.
GlobalsFollow ==
    registered =>
        \A g \in Gids :
            /\ g \in DOMAIN globals <=>
                 (g \in DOMAIN registry \/ Pending(events, g)) /\ ~Removing(events, g)
            /\ g \in DOMAIN registry => ~Pending(events, g)
ToldInOrder ==
    \A j, k \in DOMAIN events : \A g \in Gids :
        /\ IsGlobal(events[j], g) /\ IsGlobal(events[k], g) => j = k
        /\ IsGlobal(events[j], g) /\ IsRemove(events[k], g) => j < k
        /\ IsRemove(events[j], g) => g <= nglobals

\* Wherever a global is named with its interface it is the same one.
Pairs(f) == {<<g, f[g]>> : g \in DOMAIN f}
EventNames(q) == {<<q[k].gid, q[k].name>> : k \in {j \in DOMAIN q : q[j].ev = "global"}}
RequestNames(q) == {<<q[k].gid, q[k].name>> : k \in {j \in DOMAIN q : q[j].op = "bind"}}
Named == Pairs(registry) \cup Pairs(globals) \cup EventNames(events) \cup RequestNames(requests)
NamesFixed ==
    /\ \A a, b \in Named : a[1] = b[1] => a[2] = b[2]
    /\ \A a \in Named : a[1] <= nglobals

\* The tables of the registry are inverses.
InverseTables ==
    /\ DOMAIN interfaces = Range(registry)
    /\ \A n \in DOMAIN interfaces :
         /\ IsInjective(interfaces[n])
         /\ ToSet(interfaces[n]) = {g \in DOMAIN registry : registry[g] = n}

\* The outputs in the list are those in the registry, once each.
OutputsListed ==
    /\ \A j, k \in DOMAIN outputs : outputs[j].global_id = outputs[k].global_id => j = k
    /\ {o.global_id : o \in ToSet(outputs)} = {g \in DOMAIN registry : registry[g] = "wl_output"}

\* An output is bound once, under an id of its own, and stays in the list until the
\* client reads that its global is gone.
Binding(q) ==
    {[obj_id |-> q[k].obj_id, global_id |-> q[k].gid] :
        k \in {j \in DOMAIN q : q[j].op = "bind" /\ q[j].name = "wl_output"}}
AllOutputs == ToSet(outputs) \cup bound \cup Binding(requests)
IdsFixed ==
    /\ \A o, p \in AllOutputs : o.obj_id = p.obj_id \/ o.global_id = p.global_id => o = p
    /\ \A o \in AllOutputs :
         /\ o.obj_id <= nbound
         /\ o.global_id <= nglobals
         /\ ~Pending(events, o.global_id)
BoundKnown ==
    /\ \A o \in bound \cup Binding(requests) :
         o \in ToSet(outputs) \/ o.global_id \notin DOMAIN registry
    /\ \A o \in ToSet(outputs) :
         o \in bound \cup Binding(requests) \/ o.global_id \notin DOMAIN globals
BindsRight ==
    /\ ~rejected
    /\ \A k \in DOMAIN requests :
         requests[k].op = "bind" => requests[k].version <= Offered[requests[k].name]

\* A holder is announced before its other events come and closed after them.
IsHolder(e, h) == e.ev = "holder" /\ e.holder = h
IsClosed(e, h) == e.ev = "closed" /\ e.holder = h
IsEnter(e, h, o) == e.ev = "enter" /\ e.holder = h /\ e.obj_id = o.obj_id
IsLeave(e, h, o) == e.ev = "leave" /\ e.holder = h /\ e.obj_id = o.obj_id
IsOf(e, h) == e.ev \in {"closed", "enter", "leave"} /\ e.holder = h
Known(h, k) == h \in windows \/ \E j \in 1..(k - 1) : IsHolder(events[j], h)
HoldersInOrder ==
    \A h \in Holders :
        /\ \A k \in DOMAIN events :
             /\ IsHolder(events[k], h) => h \notin windows
             /\ \A j \in DOMAIN events : IsHolder(events[j], h) /\ IsHolder(events[k], h) => j = k
             /\ IsOf(events[k], h) =>
                  /\ Known(h, k)
                  /\ \A j \in 1..(k - 1) : ~IsClosed(events[j], h)
        /\ shown[h] # {} =>
             /\ Known(h, Len(events) + 1)
             /\ \A j \in DOMAIN events : ~IsClosed(events[j], h)

\* An event that names an output will find it, unless the output has been removed
\* with the object on it.
Found(o, k) == o \in ToSet(outputs) /\ \A j \in 1..(k - 1) : ~IsRemove(events[j], o.global_id)
MovesFound ==
    /\ \A k \in DOMAIN events :
         /\ events[k].ev = "enter" => \E o \in bound : o.obj_id = events[k].obj_id /\ Found(o, k)
         /\ events[k].ev = "leave" => \E o \in bound : /\ o.obj_id = events[k].obj_id
                                                       /\ Found(o, k) \/ o.global_id \in abrupt
    /\ \A h \in Holders : \A o \in shown[h] : o.global_id \in DOMAIN globals \cup abrupt

\* Whether holder h will be on output o once the events before the k-th are handled.
Off(e, h, o) == IsHolder(e, h) \/ IsClosed(e, h) \/ IsLeave(e, h, o)
On(h, o, k) ==
    \/ \E j \in 1..(k - 1) :
         IsEnter(events[j], h, o) /\ \A i \in (j + 1)..(k - 1) : ~Off(events[i], h, o)
    \/ h \in windows /\ o \in held[h] /\ \A i \in 1..(k - 1) : ~Off(events[i], h, o)
MovesFollow ==
    Running =>
        \A h \in Holders :
            /\ held[h] \subseteq bound
            /\ \A o \in bound :
                 /\ o \in shown[h] <=> On(h, o, Len(events) + 1)
                 /\ \A k \in DOMAIN events : IsLeave(events[k], h, o) => On(h, o, k)

RegistryInv ==
    /\ TypeOK
    /\ Unasked /\ GlobalsFollow /\ ToldInOrder /\ NamesFixed
    /\ InverseTables /\ OutputsListed /\ IdsFixed /\ BoundKnown /\ BindsRight
    /\ HoldersInOrder /\ MovesFound /\ MovesFollow /\ OutputsFound

-----------------------------------------------------------------------------
\* What is taken from the front of a queue, added at its end, or dropped from it.
LEMMA Taking ==
    ASSUME NEW T, NEW q \in Seq(T), q # <<>>
    PROVE  /\ Head(q) \in T /\ Tail(q) \in Seq(T) /\ Head(q) = q[1]
           /\ Len(q) \in Nat \ {0} /\ DOMAIN q = 1..Len(q)
           /\ Len(Tail(q)) = Len(q) - 1 /\ DOMAIN Tail(q) = 1..(Len(q) - 1)
           /\ \A k \in 1..(Len(q) - 1) : Tail(q)[k] = q[k + 1]
           /\ 1 \in DOMAIN q /\ \A k \in 2..Len(q) : k - 1 \in DOMAIN Tail(q) /\ q[k] = Tail(q)[k - 1]
<1>1. Len(q) \in Nat \ {0} /\ DOMAIN q = 1..Len(q)
  BY EmptySeq, LenProperties
<1>2. /\ Head(q) \in T /\ Tail(q) \in Seq(T) /\ Head(q) = q[1]
      /\ Len(Tail(q)) = Len(q) - 1
      /\ \A k \in 1..(Len(q) - 1) : Tail(q)[k] = q[k + 1]
  BY <1>1, HeadTailProperties
<1>3. DOMAIN Tail(q) = 1..(Len(q) - 1)
  BY <1>1, <1>2, LenProperties
<1> QED
  BY <1>1, <1>2, <1>3

LEMMA Adding ==
    ASSUME NEW T, NEW q \in Seq(T), NEW m \in T
    PROVE  /\ Append(q, m) \in Seq(T)
           /\ Len(q) \in Nat /\ DOMAIN q = 1..Len(q)
           /\ Len(Append(q, m)) = Len(q) + 1 /\ DOMAIN Append(q, m) = 1..(Len(q) + 1)
           /\ \A k \in 1..Len(q) : Append(q, m)[k] = q[k]
           /\ Append(q, m)[Len(q) + 1] = m
BY AppendProperties, LenProperties

LEMMA Dropping ==
    ASSUME NEW T, NEW s \in Seq(T), NEW k \in DOMAIN s
    PROVE  /\ RemoveAt(s, k) \in Seq(T)
           /\ Len(RemoveAt(s, k)) = Len(s) - 1 /\ DOMAIN RemoveAt(s, k) = 1..(Len(s) - 1)
           /\ \A i \in 1..(Len(s) - 1) : RemoveAt(s, k)[i] = s[IF i < k THEN i ELSE i + 1]
<1>1. Len(s) \in Nat /\ DOMAIN s = 1..Len(s) /\ k \in 1..Len(s)
  BY LenProperties
<1> DEFINE a == SubSeq(s, 1, k - 1)
           b == SubSeq(s, k + 1, Len(s))
<1>2. a \in Seq(T) /\ Len(a) = k - 1 /\ \A i \in 1..(k - 1) : a[i] = s[i]
  BY <1>1, SubSeqProperties
<1>3. b \in Seq(T) /\ Len(b) = Len(s) - k /\ \A i \in 1..(Len(s) - k) : b[i] = s[k + i]
  BY <1>1, SubSeqProperties
<1>4. /\ a \o b \in Seq(T) /\ Len(a \o b) = Len(a) + Len(b)
      /\ \A i \in 1..Len(a) + Len(b) : (a \o b)[i] = IF i <= Len(a) THEN a[i] ELSE b[i - Len(a)]
  <2> HIDE DEF a, b
  <2> QED
    BY <1>2, <1>3, ConcatProperties
<1>5. /\ Len(a \o b) = Len(s) - 1
      /\ \A i \in 1..(Len(s) - 1) : (a \o b)[i] = s[IF i < k THEN i ELSE i + 1]
  <2> HIDE DEF a, b
  <2>1. Len(a) + Len(b) = Len(s) - 1
    BY <1>1, <1>2, <1>3
  <2>2. ASSUME NEW i \in 1..(Len(s) - 1), i < k PROVE (a \o b)[i] = s[i]
    BY <1>1, <1>2, <1>4, <2>1, <2>2
  <2>3. ASSUME NEW i \in 1..(Len(s) - 1), ~(i < k) PROVE (a \o b)[i] = s[i + 1]
    <3>1. (a \o b)[i] = b[i - Len(a)]
      BY <1>1, <1>2, <1>4, <2>1, <2>3
    <3>2. i - Len(a) \in 1..(Len(s) - k) /\ k + (i - Len(a)) = i + 1
      BY <1>1, <1>2, <2>3
    <3> QED
      BY <1>3, <3>1, <3>2
  <2> QED
    BY <1>4, <2>1, <2>2, <2>3
<1>6. DOMAIN (a \o b) = 1..(Len(s) - 1)
  BY <1>4, <1>5, LenProperties
<1> QED
  BY <1>4, <1>5, <1>6 DEF RemoveAt

\* Without repetitions the first place of x in s is the only one.
LEMMA DroppingOnly ==
    ASSUME NEW T, NEW s \in Seq(T), NEW k \in DOMAIN s,
           \A j \in DOMAIN s : s[j] = s[k] => j = k
    PROVE  ToSet(RemoveAt(s, k)) = ToSet(s) \ {s[k]}
<1>1. Len(s) \in Nat /\ DOMAIN s = 1..Len(s) /\ k \in 1..Len(s)
  BY LenProperties
<1>2. /\ DOMAIN RemoveAt(s, k) = 1..(Len(s) - 1)
      /\ \A i \in 1..(Len(s) - 1) : RemoveAt(s, k)[i] = s[IF i < k THEN i ELSE i + 1]
  BY Dropping
<1>3. ASSUME NEW i \in 1..(Len(s) - 1) PROVE RemoveAt(s, k)[i] \in ToSet(s) \ {s[k]}
  <2>1. CASE i < k
    BY <1>1, <1>2, <2>1 DEF ToSet
  <2>2. CASE ~(i < k)
    <3>1. i + 1 \in DOMAIN s /\ i + 1 # k /\ RemoveAt(s, k)[i] = s[i + 1]
      BY <1>1, <1>2, <2>2
    <3> QED
      BY <3>1 DEF ToSet
  <2> QED
    BY <2>1, <2>2
<1>4. ASSUME NEW j \in DOMAIN s, j # k PROVE s[j] \in ToSet(RemoveAt(s, k))
  <2>1. CASE j < k
    BY <1>1, <1>2, <2>1 DEF ToSet
  <2>2. CASE j > k
    <3>1. j - 1 \in 1..(Len(s) - 1) /\ ~(j - 1 < k) /\ (j - 1) + 1 = j
      BY <1>1, <2>2
    <3>2. RemoveAt(s, k)[j - 1] = s[j]
      BY <1>2, <3>1
    <3> QED
      BY <1>2, <3>1, <3>2 DEF ToSet
  <2> QED
    BY <1>1, <1>4, <2>1, <2>2
<1> QED
  BY <1>2, <1>3, <1>4 DEF ToSet

LEMMA FirstOfOne ==
    ASSUME NEW k \in Int, NEW at, at = {k}
    PROVE  First(at) = k
BY DEF First

-----------------------------------------------------------------------------
LEMMA Initially == Init => RegistryInv
<1> SUFFICES ASSUME Init PROVE RegistryInv
  OBVIOUS
<1> USE NamesAssumption, BoundsAssumption
<1>1. globals \in Seq(Names) /\ nglobals = Len(globals) /\ Len(globals) <= MaxGlobals
  BY DEF Init
<1>2. globals \in [DOMAIN globals -> Names] /\ DOMAIN globals = 1..nglobals /\ nglobals \in 0..MaxGlobals
  BY <1>1, LenProperties, ElementOfSeq
<1>3. TypeOK
  <2>1. [op |-> "get_registry"] \in Request /\ [op |-> "sync"] \in Request
    BY DEF Request
  <2>2. requests \in Seq(Request)
    BY <2>1 DEF Init
  <2>3. /\ registry \in [DOMAIN registry -> Names] /\ DOMAIN registry = {}
        /\ interfaces \in [DOMAIN interfaces -> Seq(Gids)] /\ DOMAIN interfaces = {}
    BY DEF Init
  <2>4. outputs \in Seq(Output) /\ events \in Seq(Event)
    BY DEF Init
  <2>5. /\ initial_sync \in BOOLEAN /\ registered \in BOOLEAN /\ rejected \in BOOLEAN
    BY DEF Init
  <2>7. /\ windows \subseteq Holders /\ raised = {} /\ nbound \in Nat
        /\ nmoves \in 0..MaxMoves /\ abrupt \subseteq Gids /\ bound \subseteq Output
    BY DEF Init
  <2>6. held \in [Holders -> SUBSET Output] /\ shown \in [Holders -> SUBSET bound]
    BY DEF Init
  <2> QED
    BY <1>2, <2>2, <2>3, <2>4, <2>5, <2>6, <2>7 DEF TypeOK
<1>4. Unasked
  BY DEF Init, Unasked
<1>5. GlobalsFollow /\ ToldInOrder
  BY DEF Init, GlobalsFollow, ToldInOrder
<1>6. NamesFixed
  <2>1. Pairs(registry) = {} /\ EventNames(events) = {} /\ RequestNames(requests) = {}
    BY DEF Init, Pairs, EventNames, RequestNames
  <2> QED
    BY <1>2, <2>1 DEF NamesFixed, Named, Pairs
<1>7. InverseTables
  BY DEF Init, InverseTables, Range
<1>8. ToSet(outputs) = {} /\ bound = {} /\ Binding(requests) = {}
  BY DEF Init, ToSet, Binding
<1>9. OutputsListed
  BY <1>8 DEF Init, OutputsListed
<1>10. IdsFixed /\ BoundKnown
  BY <1>8 DEF IdsFixed, BoundKnown, AllOutputs
<1>11. BindsRight
  BY DEF Init, BindsRight
<1>12. HoldersInOrder /\ MovesFound /\ OutputsFound
  BY DEF Init, HoldersInOrder, MovesFound, OutputsFound
<1>13. MovesFollow
  BY DEF Init, MovesFollow
<1> QED
  BY <1>3, <1>4, <1>5, <1>6, <1>7, <1>9, <1>10, <1>11, <1>12, <1>13 DEF RegistryInv

-----------------------------------------------------------------------------
\* What the queues name, when a message is taken or added.
LEMMA Typed ==
    ASSUME TypeOK
    PROVE  /\ nglobals \in 0..MaxGlobals /\ nglobals \in Nat /\ nglobals <= MaxGlobals
           /\ events \in Seq(Event) /\ \A k \in DOMAIN events : events[k] \in Event
           /\ requests \in Seq(Request) /\ \A k \in DOMAIN requests : requests[k] \in Request
           /\ outputs \in Seq(Output) /\ ToSet(outputs) \subseteq Output
<1>1. /\ nglobals \in 0..MaxGlobals /\ events \in Seq(Event) /\ requests \in Seq(Request)
      /\ outputs \in Seq(Output)
  BY DEF TypeOK
<1>2. nglobals \in Nat /\ nglobals <= MaxGlobals
  BY <1>1, BoundsAssumption
<1>3. \A k \in DOMAIN events : events[k] \in Event
  BY <1>1, ElementOfSeq, LenProperties
<1>4. \A k \in DOMAIN requests : requests[k] \in Request
  BY <1>1, ElementOfSeq, LenProperties
<1>5. \A k \in DOMAIN outputs : outputs[k] \in Output
  BY <1>1, ElementOfSeq, LenProperties
<1> QED
  BY <1>1, <1>2, <1>3, <1>4, <1>5 DEF ToSet

LEMMA EventTaken ==
    ASSUME TypeOK, NEW t, Take(t)
    PROVE  /\ Running /\ events # <<>> /\ events' = Tail(events) /\ events' \in Seq(Event)
           /\ Head(events) \in Event /\ Head(events) = events[1] /\ Head(events).ev = t
           /\ t = "global" => Head(events).gid \in Gids /\ Head(events).name \in Names
           /\ t = "global_remove" => Head(events).gid \in Gids
           /\ t \in {"holder", "closed", "enter", "leave"} => Head(events).holder \in Holders
           /\ t \in {"enter", "leave"} => Head(events).obj_id \in ObjIds
<1>1. events \in Seq(Event) /\ events # <<>> /\ events' = Tail(events) /\ Head(events).ev = t /\ Running
  BY DEF TypeOK, Take
<1>2. Head(events) \in Event /\ Head(events) = events[1] /\ Tail(events) \in Seq(Event)
  BY <1>1, Taking
<1> QED
  BY <1>1, <1>2 DEF Event

LEMMA EventsTail ==
    ASSUME NEW q \in Seq(Event), q # <<>>
    PROVE  /\ \A g : Pending(q, g) <=> IsGlobal(Head(q), g) \/ Pending(Tail(q), g)
           /\ \A g : Removing(q, g) <=> IsRemove(Head(q), g) \/ Removing(Tail(q), g)
           /\ EventNames(Tail(q)) \subseteq EventNames(q)
           /\ Head(q).ev = "global" => <<Head(q).gid, Head(q).name>> \in EventNames(q)
<1>1. /\ Head(q) = q[1] /\ 1 \in DOMAIN q
      /\ Len(q) \in Nat \ {0} /\ DOMAIN q = 1..Len(q) /\ DOMAIN Tail(q) = 1..(Len(q) - 1)
      /\ \A k \in 1..(Len(q) - 1) : Tail(q)[k] = q[k + 1]
      /\ \A k \in 2..Len(q) : k - 1 \in DOMAIN Tail(q) /\ q[k] = Tail(q)[k - 1]
  BY Taking
<1>2. \A k \in DOMAIN Tail(q) : k + 1 \in DOMAIN q /\ Tail(q)[k] = q[k + 1]
  BY <1>1
<1>3. \A k \in DOMAIN q : k = 1 \/ (k - 1 \in DOMAIN Tail(q) /\ q[k] = Tail(q)[k - 1])
  BY <1>1
<1>4. ASSUME NEW g PROVE Pending(q, g) <=> IsGlobal(Head(q), g) \/ Pending(Tail(q), g)
  BY <1>1, <1>2, <1>3 DEF Pending
<1>5. ASSUME NEW g PROVE Removing(q, g) <=> IsRemove(Head(q), g) \/ Removing(Tail(q), g)
  BY <1>1, <1>2, <1>3 DEF Removing
<1>6. EventNames(Tail(q)) \subseteq EventNames(q)
  BY <1>2 DEF EventNames
<1>7. Head(q).ev = "global" => <<Head(q).gid, Head(q).name>> \in EventNames(q)
  BY <1>1 DEF EventNames
<1> QED
  BY <1>4, <1>5, <1>6, <1>7

LEMMA EventsAppend ==
    ASSUME NEW q \in Seq(Event), NEW m \in Event
    PROVE  /\ \A g : Pending(Append(q, m), g) <=> IsGlobal(m, g) \/ Pending(q, g)
           /\ \A g : Removing(Append(q, m), g) <=> IsRemove(m, g) \/ Removing(q, g)
           /\ EventNames(Append(q, m)) =
                EventNames(q) \cup (IF m.ev = "global" THEN {<<m.gid, m.name>>} ELSE {})
<1>1. /\ Len(q) \in Nat /\ DOMAIN q = 1..Len(q) /\ DOMAIN Append(q, m) = 1..(Len(q) + 1)
      /\ \A k \in 1..Len(q) : Append(q, m)[k] = q[k]
      /\ Append(q, m)[Len(q) + 1] = m
  BY Adding
<1>2. Len(q) + 1 \in DOMAIN Append(q, m)
      /\ \A k \in DOMAIN q : k \in DOMAIN Append(q, m) /\ Append(q, m)[k] = q[k]
  BY <1>1
<1>3. \A k \in DOMAIN Append(q, m) : k \in DOMAIN q \/ k = Len(q) + 1
  BY <1>1
<1>4. ASSUME NEW g PROVE Pending(Append(q, m), g) <=> IsGlobal(m, g) \/ Pending(q, g)
  BY <1>1, <1>2, <1>3 DEF Pending
<1>5. ASSUME NEW g PROVE Removing(Append(q, m), g) <=> IsRemove(m, g) \/ Removing(q, g)
  BY <1>1, <1>2, <1>3 DEF Removing
<1>6. EventNames(Append(q, m)) =
        EventNames(q) \cup (IF m.ev = "global" THEN {<<m.gid, m.name>>} ELSE {})
  BY <1>1, <1>2, <1>3 DEF EventNames
<1> QED
  BY <1>4, <1>5, <1>6

LEMMA RequestsTail ==
    ASSUME NEW q \in Seq(Request), q # <<>>
    PROVE  /\ Head(q) \in Request
           /\ RequestNames(Tail(q)) \subseteq RequestNames(q)
           /\ Head(q).op = "bind" => <<Head(q).gid, Head(q).name>> \in RequestNames(q)
           /\ Binding(q) = Binding(Tail(q)) \cup
                (IF Head(q).op = "bind" /\ Head(q).name = "wl_output"
                 THEN {[obj_id |-> Head(q).obj_id, global_id |-> Head(q).gid]} ELSE {})
<1>1. /\ Head(q) \in Request /\ Head(q) = q[1] /\ 1 \in DOMAIN q
      /\ Len(q) \in Nat \ {0} /\ DOMAIN q = 1..Len(q) /\ DOMAIN Tail(q) = 1..(Len(q) - 1)
      /\ \A k \in 1..(Len(q) - 1) : Tail(q)[k] = q[k + 1]
      /\ \A k \in 2..Len(q) : k - 1 \in DOMAIN Tail(q) /\ q[k] = Tail(q)[k - 1]
  BY Taking
<1>2. \A k \in DOMAIN Tail(q) : k + 1 \in DOMAIN q /\ Tail(q)[k] = q[k + 1]
  BY <1>1
<1>3. \A k \in DOMAIN q : k = 1 \/ (k - 1 \in DOMAIN Tail(q) /\ q[k] = Tail(q)[k - 1])
  BY <1>1
<1>4. RequestNames(Tail(q)) \subseteq RequestNames(q)
  BY <1>2 DEF RequestNames
<1>5. Head(q).op = "bind" => <<Head(q).gid, Head(q).name>> \in RequestNames(q)
  BY <1>1 DEF RequestNames
<1>6. Binding(Tail(q)) \subseteq Binding(q)
  BY <1>2 DEF Binding
<1>7. Head(q).op = "bind" /\ Head(q).name = "wl_output" =>
          [obj_id |-> Head(q).obj_id, global_id |-> Head(q).gid] \in Binding(q)
  BY <1>1 DEF Binding
<1>8. ASSUME NEW k \in DOMAIN q, q[k].op = "bind", q[k].name = "wl_output", k # 1
      PROVE  [obj_id |-> q[k].obj_id, global_id |-> q[k].gid] \in Binding(Tail(q))
  BY <1>3, <1>8 DEF Binding
<1>9. ASSUME NEW o \in Binding(q)
      PROVE  \/ o \in Binding(Tail(q))
             \/ /\ Head(q).op = "bind" /\ Head(q).name = "wl_output"
                /\ o = [obj_id |-> Head(q).obj_id, global_id |-> Head(q).gid]
  <2>1. PICK k \in DOMAIN q : /\ q[k].op = "bind" /\ q[k].name = "wl_output"
                              /\ o = [obj_id |-> q[k].obj_id, global_id |-> q[k].gid]
    BY DEF Binding
  <2> QED
    BY <1>1, <1>8, <2>1
<1> QED
  BY <1>1, <1>4, <1>5, <1>6, <1>7, <1>9

LEMMA RequestsAppend ==
    ASSUME NEW q \in Seq(Request), NEW m \in Request
    PROVE  /\ RequestNames(Append(q, m)) =
                RequestNames(q) \cup (IF m.op = "bind" THEN {<<m.gid, m.name>>} ELSE {})
           /\ Binding(Append(q, m)) = Binding(q) \cup
                (IF m.op = "bind" /\ m.name = "wl_output"
                 THEN {[obj_id |-> m.obj_id, global_id |-> m.gid]} ELSE {})
<1>1. /\ Len(q) \in Nat /\ DOMAIN q = 1..Len(q) /\ DOMAIN Append(q, m) = 1..(Len(q) + 1)
      /\ \A k \in 1..Len(q) : Append(q, m)[k] = q[k]
      /\ Append(q, m)[Len(q) + 1] = m
  BY Adding
<1>2. Len(q) + 1 \in DOMAIN Append(q, m)
      /\ \A k \in DOMAIN q : k \in DOMAIN Append(q, m) /\ Append(q, m)[k] = q[k]
  BY <1>1
<1>3. \A k \in DOMAIN Append(q, m) : k \in DOMAIN q \/ k = Len(q) + 1
  BY <1>1
<1>4. RequestNames(Append(q, m)) =
        RequestNames(q) \cup (IF m.op = "bind" THEN {<<m.gid, m.name>>} ELSE {})
  BY <1>1, <1>2, <1>3 DEF RequestNames
<1>5. Binding(Append(q, m)) = Binding(q) \cup
        (IF m.op = "bind" /\ m.name = "wl_output"
         THEN {[obj_id |-> m.obj_id, global_id |-> m.gid]} ELSE {})
  BY <1>1, <1>2, <1>3 DEF Binding
<1> QED
  BY <1>4, <1>5

-----------------------------------------------------------------------------
\* The order of announcements, when an event is taken or added.
LEMMA ToldTail ==
    ASSUME TypeOK, ToldInOrder, events # <<>>, events' = Tail(events), UNCHANGED nglobals
    PROVE  ToldInOrder'
<1>1. /\ Len(events) \in Nat \ {0} /\ DOMAIN events = 1..Len(events)
      /\ DOMAIN events' = 1..(Len(events) - 1)
      /\ \A k \in 1..(Len(events) - 1) : events'[k] = events[k + 1]
  BY Taking DEF TypeOK
<1> SUFFICES ASSUME NEW j \in DOMAIN events', NEW k \in DOMAIN events', NEW g \in Gids
             PROVE  /\ IsGlobal(events[j + 1], g) /\ IsGlobal(events[k + 1], g) => j = k
                    /\ IsGlobal(events[j + 1], g) /\ IsRemove(events[k + 1], g) => j < k
                    /\ IsRemove(events[j + 1], g) => g <= nglobals
  BY <1>1 DEF ToldInOrder
<1>2. j + 1 \in DOMAIN events /\ k + 1 \in DOMAIN events /\ j \in Int /\ k \in Int
  BY <1>1
<1>3. /\ IsGlobal(events[j + 1], g) /\ IsGlobal(events[k + 1], g) => j + 1 = k + 1
      /\ IsGlobal(events[j + 1], g) /\ IsRemove(events[k + 1], g) => j + 1 < k + 1
      /\ IsRemove(events[j + 1], g) => g <= nglobals
  BY <1>2 DEF ToldInOrder
<1> QED
  BY <1>2, <1>3

LEMMA ToldAppend ==
    ASSUME TypeOK, ToldInOrder, NEW m \in Event, events' = Append(events, m),
           nglobals' \in Nat, nglobals <= nglobals',
           m.ev = "global" => ~Pending(events, m.gid) /\ ~Removing(events, m.gid),
           m.ev = "global_remove" => m.gid <= nglobals'
    PROVE  ToldInOrder'
<1>1. /\ Len(events) \in Nat /\ DOMAIN events = 1..Len(events)
      /\ DOMAIN events' = 1..(Len(events) + 1)
      /\ \A k \in 1..Len(events) : events'[k] = events[k]
      /\ events'[Len(events) + 1] = m
  <2>1. events \in Seq(Event)
    BY DEF TypeOK
  <2> QED
    BY <2>1, Adding
<1>2. nglobals \in Nat
  <2>1. nglobals \in 0..MaxGlobals
    BY DEF TypeOK
  <2> QED
    BY <2>1, BoundsAssumption
<1> SUFFICES ASSUME NEW j \in DOMAIN events', NEW k \in DOMAIN events', NEW g \in Gids
             PROVE  /\ IsGlobal(events'[j], g) /\ IsGlobal(events'[k], g) => j = k
                    /\ IsGlobal(events'[j], g) /\ IsRemove(events'[k], g) => j < k
                    /\ IsRemove(events'[j], g) => g <= nglobals'
  BY DEF ToldInOrder
<1>3. CASE j \in DOMAIN events /\ k \in DOMAIN events
  <2>1. events'[j] = events[j] /\ events'[k] = events[k]
    BY <1>1, <1>3
  <2>2. /\ IsGlobal(events[j], g) /\ IsGlobal(events[k], g) => j = k
        /\ IsGlobal(events[j], g) /\ IsRemove(events[k], g) => j < k
        /\ IsRemove(events[j], g) => g <= nglobals
    BY <1>3 DEF ToldInOrder
  <2> QED
    BY <1>2, <2>1, <2>2
<1>4. CASE j \in DOMAIN events /\ k = Len(events) + 1
  <2>1. events'[j] = events[j] /\ events'[k] = m /\ j < k
    BY <1>1, <1>4
  <2>2. IsRemove(events[j], g) => g <= nglobals
    BY <1>4 DEF ToldInOrder
  <2>3. IsGlobal(events[j], g) => Pending(events, g)
    BY <1>4 DEF Pending
  <2>4. ~(IsGlobal(events[j], g) /\ IsGlobal(m, g))
    BY <2>3 DEF IsGlobal
  <2> QED
    BY <1>2, <2>1, <2>2, <2>4
<1>5. CASE j = Len(events) + 1
  <2>1. events'[j] = m
    BY <1>1, <1>5
  <2>2. IsRemove(m, g) => g <= nglobals'
    BY DEF IsRemove
  <2>3. CASE k = Len(events) + 1
    BY <1>5, <2>1, <2>2, <2>3 DEF IsGlobal, IsRemove
  <2>4. CASE k \in DOMAIN events
    <3>1. events'[k] = events[k]
      BY <1>1, <2>4
    <3>2. IsGlobal(events[k], g) => Pending(events, g)
      BY <2>4 DEF Pending
    <3>3. IsRemove(events[k], g) => Removing(events, g)
      BY <2>4 DEF Removing
    <3> QED
      BY <2>1, <2>2, <3>1, <3>2, <3>3 DEF IsGlobal
  <2> QED
    BY <1>1, <2>3, <2>4
<1> QED
  BY <1>1, <1>3, <1>4, <1>5

\* The order of a holder's events.
LEMMA HoldersTail ==
    ASSUME TypeOK, HoldersInOrder, events # <<>>, events' = Tail(events), UNCHANGED shown,
           \A h \in Holders :
               h \in windows' <=> IsHolder(Head(events), h) \/ (h \in windows /\ ~IsClosed(Head(events), h))
    PROVE  HoldersInOrder'
<1>1. /\ Head(events) = events[1] /\ 1 \in DOMAIN events
      /\ Len(events) \in Nat \ {0} /\ DOMAIN events = 1..Len(events)
      /\ DOMAIN events' = 1..(Len(events) - 1) /\ Len(events') = Len(events) - 1
      /\ \A k \in 1..(Len(events) - 1) : events'[k] = events[k + 1]
  BY Taking DEF TypeOK
<1>2. \A k \in DOMAIN events' : k + 1 \in DOMAIN events /\ events'[k] = events[k + 1] /\ k \in Nat
  BY <1>1
<1>0. PICK n \in Nat : n = Len(events)
  BY <1>1
<1> SUFFICES ASSUME NEW h \in Holders
             PROVE  /\ \A k \in DOMAIN events' :
                         /\ IsHolder(events'[k], h) => h \notin windows'
                         /\ \A j \in DOMAIN events' :
                              IsHolder(events'[j], h) /\ IsHolder(events'[k], h) => j = k
                         /\ IsOf(events'[k], h) =>
                              /\ Known(h, k)'
                              /\ \A j \in 1..(k - 1) : ~IsClosed(events'[j], h)
                    /\ shown[h] # {} =>
                         /\ Known(h, n)'
                         /\ \A j \in DOMAIN events' : ~IsClosed(events'[j], h)
  <2>1. Len(events') + 1 = n
    BY <1>0, <1>1
  <2> QED
    BY <1>1, <2>1 DEF HoldersInOrder, Known
<1>3. /\ \A k \in DOMAIN events :
           /\ IsHolder(events[k], h) => h \notin windows
           /\ \A j \in DOMAIN events : IsHolder(events[j], h) /\ IsHolder(events[k], h) => j = k
           /\ IsOf(events[k], h) =>
                /\ Known(h, k)
                /\ \A j \in 1..(k - 1) : ~IsClosed(events[j], h)
      /\ shown[h] # {} =>
           /\ Known(h, Len(events) + 1)
           /\ \A j \in DOMAIN events : ~IsClosed(events[j], h)
  BY DEF HoldersInOrder
<1>4. h \in windows' <=> IsHolder(events[1], h) \/ (h \in windows /\ ~IsClosed(events[1], h))
  BY <1>1
<1>5. ASSUME NEW k \in DOMAIN events', IsHolder(events'[k], h) PROVE h \notin windows'
  <2>1. IsHolder(events[k + 1], h) /\ k + 1 \in DOMAIN events /\ k + 1 # 1
    BY <1>1, <1>2, <1>5
  <2> QED
    BY <1>1, <1>3, <1>4, <2>1
<1>6. ASSUME NEW k \in DOMAIN events', NEW j \in DOMAIN events',
             IsHolder(events'[j], h), IsHolder(events'[k], h)
      PROVE  j = k
  <2>1. j + 1 = k + 1
    BY <1>2, <1>3, <1>6
  <2> QED
    BY <1>2, <2>1
<1>7. ASSUME NEW k \in 1..Len(events), Known(h, k + 1), ~IsClosed(events[1], h) PROVE Known(h, k)'
  <2>1. CASE h \in windows
    BY <1>4, <1>7, <2>1 DEF Known
  <2>2. CASE \E j \in 1..k : IsHolder(events[j], h)
    <3>1. PICK j \in 1..k : IsHolder(events[j], h)
      BY <2>2
    <3>2. CASE j = 1
      BY <1>4, <3>1, <3>2 DEF Known
    <3>3. CASE j # 1
      <4>1. j - 1 \in 1..(k - 1) /\ j - 1 \in 1..(Len(events) - 1) /\ (j - 1) + 1 = j
        BY <1>1, <3>3
      <4>2. events'[j - 1] = events[j]
        BY <1>1, <4>1
      <4> QED
        BY <3>1, <4>1, <4>2 DEF Known
    <3> QED
      BY <3>2, <3>3
  <2>3. (k + 1) - 1 = k
    BY <1>1
  <2> QED
    BY <1>7, <2>1, <2>2, <2>3 DEF Known
<1>8. ASSUME NEW k \in DOMAIN events', IsOf(events'[k], h)
      PROVE  Known(h, k)' /\ \A j \in 1..(k - 1) : ~IsClosed(events'[j], h)
  <2>1. /\ k + 1 \in DOMAIN events /\ k \in 1..Len(events) /\ IsOf(events[k + 1], h)
        /\ 1 \in 1..((k + 1) - 1)
    BY <1>1, <1>2, <1>8
  <2>2. Known(h, k + 1) /\ \A j \in 1..((k + 1) - 1) : ~IsClosed(events[j], h)
    BY <1>3, <2>1
  <2>3. ASSUME NEW j \in 1..(k - 1) PROVE ~IsClosed(events'[j], h)
    <3>1. j \in DOMAIN events' /\ j + 1 \in 1..((k + 1) - 1)
      BY <1>1, <2>1
    <3> QED
      BY <1>2, <2>2, <3>1
  <2> QED
    BY <1>7, <2>1, <2>2, <2>3
<1>9. ASSUME shown[h] # {}
      PROVE  Known(h, n)' /\ \A j \in DOMAIN events' : ~IsClosed(events'[j], h)
  BY <1>0, <1>1, <1>2, <1>3, <1>7, <1>9
<1> QED
  BY <1>5, <1>6, <1>8, <1>9

LEMMA HoldersAppend ==
    ASSUME TypeOK, HoldersInOrder, NEW m \in Event, events' = Append(events, m), UNCHANGED windows,
           \A h \in Holders :
               /\ IsHolder(m, h) => h \notin windows /\ \A j \in DOMAIN events : ~IsHolder(events[j], h)
               /\ IsOf(m, h) \/ shown'[h] # {} =>
                    /\ Known(h, Len(events) + 1)
                    /\ \A j \in DOMAIN events : ~IsClosed(events[j], h)
               /\ shown'[h] # {} => ~IsClosed(m, h)
    PROVE  HoldersInOrder'
<1>1. /\ Len(events) \in Nat /\ DOMAIN events = 1..Len(events)
      /\ DOMAIN events' = 1..(Len(events) + 1) /\ Len(events') = Len(events) + 1
      /\ \A k \in 1..Len(events) : events'[k] = events[k]
      /\ events'[Len(events) + 1] = m
  <2>1. events \in Seq(Event)
    BY DEF TypeOK
  <2> QED
    BY <2>1, Adding
<1>0. PICK n \in Nat : n = Len(events) + 2
  BY <1>1
<1> SUFFICES ASSUME NEW h \in Holders
             PROVE  /\ \A k \in DOMAIN events' :
                         /\ IsHolder(events'[k], h) => h \notin windows'
                         /\ \A j \in DOMAIN events' :
                              IsHolder(events'[j], h) /\ IsHolder(events'[k], h) => j = k
                         /\ IsOf(events'[k], h) =>
                              /\ Known(h, k)'
                              /\ \A j \in 1..(k - 1) : ~IsClosed(events'[j], h)
                    /\ shown'[h] # {} =>
                         /\ Known(h, n)'
                         /\ \A j \in DOMAIN events' : ~IsClosed(events'[j], h)
  <2>1. Len(events') + 1 = n
    BY <1>0, <1>1
  <2> QED
    BY <1>1, <2>1 DEF HoldersInOrder, Known
<1>2. /\ \A k \in DOMAIN events :
           /\ IsHolder(events[k], h) => h \notin windows
           /\ \A j \in DOMAIN events : IsHolder(events[j], h) /\ IsHolder(events[k], h) => j = k
           /\ IsOf(events[k], h) =>
                /\ Known(h, k)
                /\ \A j \in 1..(k - 1) : ~IsClosed(events[j], h)
  BY DEF HoldersInOrder
<1>3. ASSUME NEW k \in DOMAIN events', IsHolder(events'[k], h) PROVE h \notin windows'
  BY <1>1, <1>2, <1>3
<1>4. ASSUME NEW k \in DOMAIN events', NEW j \in DOMAIN events',
             IsHolder(events'[j], h), IsHolder(events'[k], h)
      PROVE  j = k
  BY <1>1, <1>2, <1>4
<1>5. ASSUME NEW k \in 1..(Len(events) + 1), NEW l \in Nat, l >= k, Known(h, k) PROVE Known(h, l)'
  <2>1. \A j \in 1..(k - 1) : j \in 1..Len(events) /\ j \in 1..(l - 1)
    BY <1>1, <1>5
  <2> QED
    BY <1>1, <1>5, <2>1 DEF Known
<1>6. ASSUME NEW k \in DOMAIN events', IsOf(events'[k], h)
      PROVE  Known(h, k)' /\ \A j \in 1..(k - 1) : ~IsClosed(events'[j], h)
  <2>1. \A j \in 1..(k - 1) : j \in DOMAIN events /\ events'[j] = events[j]
    BY <1>1
  <2>2. CASE k \in DOMAIN events
    <3>1. events'[k] = events[k]
      BY <1>1, <2>2
    <3>2. Known(h, k) /\ \A j \in 1..(k - 1) : ~IsClosed(events[j], h)
      BY <1>2, <1>6, <2>2, <3>1
    <3>3. Known(h, k)'
      BY <1>1, <1>5, <3>2
    <3> QED
      BY <2>1, <3>2, <3>3
  <2>3. CASE k = Len(events) + 1
    <3>1. Known(h, k) /\ \A j \in DOMAIN events : ~IsClosed(events[j], h)
      BY <1>1, <1>6, <2>3
    <3>2. Known(h, k)'
      BY <1>1, <1>5, <2>3, <3>1
    <3> QED
      BY <2>1, <3>1, <3>2
  <2> QED
    BY <1>1, <2>2, <2>3
<1>7. ASSUME shown'[h] # {}
      PROVE  Known(h, n)' /\ \A j \in DOMAIN events' : ~IsClosed(events'[j], h)
  <2>1. Known(h, Len(events) + 1) /\ \A j \in DOMAIN events : ~IsClosed(events[j], h)
    BY <1>7
  <2>2. Known(h, n)'
    <3>1. Len(events) + 1 \in 1..(Len(events) + 1) /\ n >= Len(events) + 1
      BY <1>0, <1>1
    <3> QED
      BY <1>5, <2>1, <3>1
  <2> QED
    BY <1>1, <1>7, <2>1, <2>2
<1> QED
  BY <1>3, <1>4, <1>6, <1>7

-----------------------------------------------------------------------------
\* What events that name an output find.
LEMMA MovesTail ==
    ASSUME TypeOK, MovesFound, events # <<>>, events' = Tail(events),
           UNCHANGED <<bound, abrupt, shown, globals>>,
           \A o \in bound : o \in ToSet(outputs) =>
               o \in ToSet(outputs') \/ IsRemove(Head(events), o.global_id)
    PROVE  MovesFound'
<1>1. /\ Head(events) = events[1]
      /\ Len(events) \in Nat \ {0} /\ DOMAIN events = 1..Len(events)
      /\ DOMAIN events' = 1..(Len(events) - 1)
      /\ \A k \in 1..(Len(events) - 1) : events'[k] = events[k + 1]
  BY Taking DEF TypeOK
<1>2. ASSUME NEW k \in DOMAIN events', NEW o \in bound, Found(o, k + 1) PROVE Found(o, k)'
  <2>1. \A j \in 1..(k - 1) : j + 1 \in 1..((k + 1) - 1) /\ events'[j] = events[j + 1]
    BY <1>1
  <2>2. \A j \in 1..((k + 1) - 1) : ~IsRemove(events[j], o.global_id)
    BY <1>2 DEF Found
  <2>3. 1 \in 1..((k + 1) - 1)
    BY <1>1
  <2>4. o \in ToSet(outputs')
    BY <1>1, <1>2, <2>2, <2>3 DEF Found
  <2>5. \A j \in 1..(k - 1) : ~IsRemove(events'[j], o.global_id)
    BY <2>1, <2>2
  <2> QED
    BY <2>4, <2>5 DEF Found
<1>3. ASSUME NEW k \in DOMAIN events', events'[k].ev = "enter"
      PROVE  \E o \in bound : o.obj_id = events'[k].obj_id /\ Found(o, k)'
  <2>1. k + 1 \in DOMAIN events /\ events'[k] = events[k + 1]
    BY <1>1
  <2>2. PICK o \in bound : o.obj_id = events[k + 1].obj_id /\ Found(o, k + 1)
    BY <1>3, <2>1 DEF MovesFound
  <2> QED
    BY <1>2, <2>1, <2>2
<1>4. ASSUME NEW k \in DOMAIN events', events'[k].ev = "leave"
      PROVE  \E o \in bound : o.obj_id = events'[k].obj_id /\ (Found(o, k)' \/ o.global_id \in abrupt)
  <2>1. k + 1 \in DOMAIN events /\ events'[k] = events[k + 1]
    BY <1>1
  <2>2. PICK o \in bound : /\ o.obj_id = events[k + 1].obj_id
                           /\ Found(o, k + 1) \/ o.global_id \in abrupt
    BY <1>4, <2>1 DEF MovesFound
  <2> QED
    BY <1>2, <2>1, <2>2
<1>5. \A h \in Holders : \A o \in shown[h] : o.global_id \in DOMAIN globals \cup abrupt
  BY DEF MovesFound
<1> QED
  BY <1>3, <1>4, <1>5 DEF MovesFound, Found

LEMMA MovesAppend ==
    ASSUME TypeOK, MovesFound, NEW m \in Event, events' = Append(events, m), UNCHANGED <<outputs, bound>>,
           abrupt \subseteq abrupt',
           m.ev = "enter" =>
               \E o \in bound : o.obj_id = m.obj_id /\ o \in ToSet(outputs) /\ ~Removing(events, o.global_id),
           m.ev = "leave" =>
               \E o \in bound : /\ o.obj_id = m.obj_id
                                /\ \/ o \in ToSet(outputs) /\ ~Removing(events, o.global_id)
                                   \/ o.global_id \in abrupt,
           \A h \in Holders : \A o \in shown'[h] : o.global_id \in DOMAIN globals' \cup abrupt'
    PROVE  MovesFound'
<1>1. /\ Len(events) \in Nat /\ DOMAIN events = 1..Len(events)
      /\ DOMAIN events' = 1..(Len(events) + 1)
      /\ \A k \in 1..Len(events) : events'[k] = events[k]
      /\ events'[Len(events) + 1] = m
  <2>1. events \in Seq(Event)
    BY DEF TypeOK
  <2> QED
    BY <2>1, Adding
<1>2. ASSUME NEW k \in DOMAIN events, NEW o, Found(o, k) PROVE Found(o, k)'
  <2>1. \A j \in 1..(k - 1) : events'[j] = events[j]
    BY <1>1
  <2> QED
    BY <1>2, <2>1 DEF Found
<1>3. ASSUME NEW o \in ToSet(outputs), ~Removing(events, o.global_id)
      PROVE  \A k \in DOMAIN events' : k = Len(events) + 1 => Found(o, k)'
  <2>1. \A j \in 1..Len(events) : ~IsRemove(events'[j], o.global_id)
    BY <1>1, <1>3 DEF Removing
  <2> QED
    BY <1>1, <2>1 DEF Found
<1>4. ASSUME NEW k \in DOMAIN events', events'[k].ev = "enter"
      PROVE  \E o \in bound : o.obj_id = events'[k].obj_id /\ Found(o, k)'
  <2>1. CASE k \in DOMAIN events
    <3>1. events'[k] = events[k]
      BY <1>1, <2>1
    <3>2. PICK o \in bound : o.obj_id = events[k].obj_id /\ Found(o, k)
      BY <1>4, <2>1, <3>1 DEF MovesFound
    <3> QED
      BY <1>2, <2>1, <3>1, <3>2
  <2>2. CASE k = Len(events) + 1
    BY <1>1, <1>3, <1>4, <2>2
  <2> QED
    BY <1>1, <2>1, <2>2
<1>5. ASSUME NEW k \in DOMAIN events', events'[k].ev = "leave"
      PROVE  \E o \in bound : o.obj_id = events'[k].obj_id /\ (Found(o, k)' \/ o.global_id \in abrupt')
  <2>1. CASE k \in DOMAIN events
    <3>1. events'[k] = events[k]
      BY <1>1, <2>1
    <3>2. PICK o \in bound : /\ o.obj_id = events[k].obj_id
                             /\ Found(o, k) \/ o.global_id \in abrupt
      BY <1>5, <2>1, <3>1 DEF MovesFound
    <3> QED
      BY <1>2, <2>1, <3>1, <3>2
  <2>2. CASE k = Len(events) + 1
    BY <1>1, <1>3, <1>5, <2>2
  <2> QED
    BY <1>1, <2>1, <2>2
<1> QED
  BY <1>4, <1>5 DEF MovesFound, Found

\* The outputs a holder will be on.
LEMMA OnTail ==
    ASSUME TypeOK, events # <<>>, events' = Tail(events), NEW h, NEW o,
           \/ IsEnter(Head(events), h, o)
           \/ h \in windows /\ o \in held[h] /\ ~Off(Head(events), h, o)
           <=> h \in windows' /\ o \in held'[h],
           NEW k \in 1..Len(events)
    PROVE  On(h, o, k)' <=> On(h, o, k + 1)
<1>1. /\ Head(events) = events[1]
      /\ Len(events) \in Nat \ {0} /\ DOMAIN events = 1..Len(events)
      /\ DOMAIN events' = 1..(Len(events) - 1)
      /\ \A i \in 1..(Len(events) - 1) : events'[i] = events[i + 1]
  BY Taking DEF TypeOK
<1>2. k \in Nat \ {0} /\ (k + 1) - 1 = k
  BY <1>1
<1>3. \A i \in 1..(k - 1) : i + 1 \in 2..k /\ events'[i] = events[i + 1]
  BY <1>1
<1>4. \A i \in 2..k : i - 1 \in 1..(k - 1) /\ events[i] = events'[i - 1]
  BY <1>1
<1>5. ASSUME On(h, o, k)' PROVE On(h, o, k + 1)
  <2>1. CASE \E j \in 1..(k - 1) :
               IsEnter(events'[j], h, o) /\ \A i \in (j + 1)..(k - 1) : ~Off(events'[i], h, o)
    <3>1. PICK j \in 1..(k - 1) :
            IsEnter(events'[j], h, o) /\ \A i \in (j + 1)..(k - 1) : ~Off(events'[i], h, o)
      BY <2>1
    <3>2. j + 1 \in 1..k /\ IsEnter(events[j + 1], h, o)
      BY <1>2, <1>3, <3>1
    <3>3. ASSUME NEW i \in (j + 2)..k PROVE ~Off(events[i], h, o)
      <4>1. i \in 2..k /\ i - 1 \in (j + 1)..(k - 1)
        BY <1>2
      <4> QED
        BY <1>4, <3>1, <4>1
    <3>4. (j + 1) + 1 = j + 2
      OBVIOUS
    <3> QED
      BY <1>2, <3>2, <3>3, <3>4 DEF On
  <2>2. CASE h \in windows' /\ o \in held'[h] /\ \A i \in 1..(k - 1) : ~Off(events'[i], h, o)
    <3>1. \A i \in 2..k : ~Off(events[i], h, o)
      BY <1>4, <2>2
    <3>2. CASE IsEnter(events[1], h, o)
      <4>1. 1 \in 1..((k + 1) - 1) /\ (1 + 1)..((k + 1) - 1) = 2..k
        BY <1>2
      <4> QED
        BY <3>1, <3>2, <4>1 DEF On
    <3>3. CASE h \in windows /\ o \in held[h] /\ ~Off(events[1], h, o)
      <4>1. \A i \in 1..k : i = 1 \/ i \in 2..k
        BY <1>2
      <4> QED
        BY <1>2, <3>1, <3>3, <4>1 DEF On
    <3> QED
      BY <1>1, <2>2, <3>2, <3>3
  <2> QED
    BY <1>5, <2>1, <2>2 DEF On
<1>6. ASSUME On(h, o, k + 1) PROVE On(h, o, k)'
  <2>1. CASE \E j \in 1..k : IsEnter(events[j], h, o) /\ \A i \in (j + 1)..k : ~Off(events[i], h, o)
    <3>1. PICK j \in 1..k : IsEnter(events[j], h, o) /\ \A i \in (j + 1)..k : ~Off(events[i], h, o)
      BY <2>1
    <3>2. CASE j = 1
      <4>1. \A i \in 1..(k - 1) : i + 1 \in (j + 1)..k
        BY <1>2, <3>2
      <4>2. h \in windows' /\ o \in held'[h]
        BY <1>1, <3>1, <3>2
      <4> QED
        BY <1>3, <3>1, <4>1, <4>2 DEF On
    <3>3. CASE j # 1
      <4>1. j \in 2..k /\ j - 1 \in 1..(k - 1) /\ (j - 1) + 1 = j
        BY <1>2, <3>3
      <4>2. IsEnter(events'[j - 1], h, o)
        BY <1>4, <3>1, <4>1
      <4>3. ASSUME NEW i \in j..(k - 1) PROVE ~Off(events'[i], h, o)
        <5>1. i \in 1..(k - 1) /\ i + 1 \in (j + 1)..k
          BY <1>2, <4>1
        <5> QED
          BY <1>3, <3>1, <5>1
      <4> QED
        BY <4>1, <4>2, <4>3 DEF On
    <3> QED
      BY <3>2, <3>3
  <2>2. CASE h \in windows /\ o \in held[h] /\ \A i \in 1..k : ~Off(events[i], h, o)
    <3>1. 1 \in 1..k /\ \A i \in 1..(k - 1) : i + 1 \in 1..k
      BY <1>2
    <3>2. h \in windows' /\ o \in held'[h]
      BY <1>1, <2>2, <3>1
    <3> QED
      BY <1>3, <2>2, <3>1, <3>2 DEF On
  <2> QED
    BY <1>2, <1>6, <2>1, <2>2 DEF On
<1> QED
  BY <1>5, <1>6

LEMMA OnAppend ==
    ASSUME TypeOK, NEW m \in Event, events' = Append(events, m), UNCHANGED <<windows, held>>, NEW h, NEW o
    PROVE  /\ \A k \in 1..(Len(events) + 1) : On(h, o, k)' <=> On(h, o, k)
           /\ \A n \in Nat : n = Len(events) + 2 =>
                (On(h, o, n)' <=>
                   IsEnter(m, h, o) \/ (On(h, o, Len(events) + 1) /\ ~Off(m, h, o)))
<1>1. /\ Len(events) \in Nat /\ DOMAIN events = 1..Len(events)
      /\ DOMAIN events' = 1..(Len(events) + 1)
      /\ \A k \in 1..Len(events) : events'[k] = events[k]
      /\ events'[Len(events) + 1] = m
  <2>1. events \in Seq(Event)
    BY DEF TypeOK
  <2> QED
    BY <2>1, Adding
<1>2. ASSUME NEW k \in 1..(Len(events) + 1) PROVE On(h, o, k)' <=> On(h, o, k)
  <2>1. \A i \in 1..(k - 1) : events'[i] = events[i]
    BY <1>1
  <2>2. \A j \in 1..(k - 1) : \A i \in (j + 1)..(k - 1) : events'[i] = events[i]
    BY <1>1
  <2>3. (\E j \in 1..(k - 1) :
           IsEnter(events'[j], h, o) /\ \A i \in (j + 1)..(k - 1) : ~Off(events'[i], h, o))
        <=> (\E j \in 1..(k - 1) :
               IsEnter(events[j], h, o) /\ \A i \in (j + 1)..(k - 1) : ~Off(events[i], h, o))
    BY <2>1, <2>2
  <2> QED
    BY <2>1, <2>3 DEF On
<1>3. ASSUME NEW n \in Nat, n = Len(events) + 2
      PROVE  On(h, o, n)' <=> IsEnter(m, h, o) \/ (On(h, o, Len(events) + 1) /\ ~Off(m, h, o))
  <2>1. /\ n - 1 = Len(events) + 1 /\ (Len(events) + 1) - 1 = Len(events)
        /\ \A i \in 1..(n - 1) : i \in 1..Len(events) \/ i = Len(events) + 1
        /\ \A i \in 1..Len(events) : i \in 1..(n - 1) /\ events'[i] = events[i]
        /\ Len(events) + 1 \in 1..(n - 1)
    BY <1>1, <1>3
  <2>2. ASSUME IsEnter(m, h, o) PROVE On(h, o, n)'
    <3>1. \A i \in ((Len(events) + 1) + 1)..(n - 1) : FALSE
      BY <1>1, <1>3
    <3> QED
      BY <1>1, <2>1, <2>2, <3>1 DEF On
  <2>3. ASSUME On(h, o, Len(events) + 1), ~Off(m, h, o) PROVE On(h, o, n)'
    <3>1. CASE \E j \in 1..Len(events) :
                 IsEnter(events[j], h, o) /\ \A i \in (j + 1)..Len(events) : ~Off(events[i], h, o)
      <4>1. PICK j \in 1..Len(events) :
              IsEnter(events[j], h, o) /\ \A i \in (j + 1)..Len(events) : ~Off(events[i], h, o)
        BY <3>1
      <4>2. \A i \in (j + 1)..(n - 1) : i = Len(events) + 1 \/ (i \in (j + 1)..Len(events) /\ i \in 1..Len(events))
        BY <1>1, <1>3
      <4>3. \A i \in (j + 1)..(n - 1) : ~Off(events'[i], h, o)
        BY <1>1, <2>3, <4>1, <4>2
      <4> QED
        BY <2>1, <4>1, <4>3 DEF On
    <3>2. CASE h \in windows /\ o \in held[h] /\ \A i \in 1..Len(events) : ~Off(events[i], h, o)
      <4>1. \A i \in 1..(n - 1) : ~Off(events'[i], h, o)
        BY <1>1, <2>1, <2>3, <3>2
      <4> QED
        BY <3>2, <4>1 DEF On
    <3> QED
      BY <2>1, <2>3, <3>1, <3>2 DEF On
  <2>4. ASSUME On(h, o, n)', ~IsEnter(m, h, o) PROVE On(h, o, Len(events) + 1) /\ ~Off(m, h, o)
    <3>1. CASE \E j \in 1..(n - 1) :
                 IsEnter(events'[j], h, o) /\ \A i \in (j + 1)..(n - 1) : ~Off(events'[i], h, o)
      <4>1. PICK j \in 1..(n - 1) :
              IsEnter(events'[j], h, o) /\ \A i \in (j + 1)..(n - 1) : ~Off(events'[i], h, o)
        BY <3>1
      <4>2. j \in 1..Len(events) /\ IsEnter(events[j], h, o)
        BY <1>1, <2>1, <2>4, <4>1
      <4>3. Len(events) + 1 \in (j + 1)..(n - 1)
            /\ \A i \in (j + 1)..Len(events) : i \in (j + 1)..(n - 1) /\ events'[i] = events[i]
        BY <1>1, <1>3, <4>2
      <4>4. ~Off(m, h, o) /\ \A i \in (j + 1)..Len(events) : ~Off(events[i], h, o)
        BY <1>1, <4>1, <4>3
      <4> QED
        BY <2>1, <4>2, <4>4 DEF On
    <3>2. CASE h \in windows /\ o \in held[h] /\ \A i \in 1..(n - 1) : ~Off(events'[i], h, o)
      <4>1. ~Off(m, h, o) /\ \A i \in 1..Len(events) : ~Off(events[i], h, o)
        BY <1>1, <2>1, <3>2
      <4> QED
        BY <2>1, <3>2, <4>1 DEF On
    <3> QED
      BY <2>4, <3>1, <3>2 DEF On
  <2> QED
    BY <2>2, <2>3, <2>4
<1> QED
  BY <1>2, <1>3

LEMMA FollowTail ==
    ASSUME TypeOK, MovesFollow, Running, events # <<>>, events' = Tail(events), UNCHANGED <<shown, bound>>,
           Running' =>
               \A h \in Holders :
                   /\ held'[h] \subseteq bound
                   /\ \A o \in bound :
                        (\/ IsEnter(Head(events), h, o)
                         \/ h \in windows /\ o \in held[h] /\ ~Off(Head(events), h, o))
                        <=> h \in windows' /\ o \in held'[h]
    PROVE  MovesFollow'
<1>1. /\ Len(events) \in Nat \ {0} /\ DOMAIN events = 1..Len(events)
      /\ DOMAIN events' = 1..(Len(events) - 1) /\ Len(events') = Len(events) - 1
      /\ \A i \in 1..(Len(events) - 1) : events'[i] = events[i + 1]
  BY Taking DEF TypeOK
<1>0. PICK n \in Nat : n = Len(events)
  BY <1>1
<1> SUFFICES ASSUME Running', NEW h \in Holders, NEW o \in bound
             PROVE  /\ o \in shown[h] <=> On(h, o, n)'
                    /\ \A k \in DOMAIN events' : IsLeave(events'[k], h, o) => On(h, o, k)'
  <2>1. Len(events') + 1 = n
    BY <1>0, <1>1
  <2> QED
    BY <2>1 DEF MovesFollow
<1>2. /\ o \in shown[h] <=> On(h, o, Len(events) + 1)
      /\ \A k \in DOMAIN events : IsLeave(events[k], h, o) => On(h, o, k)
  BY DEF MovesFollow
<1>3. \A k \in 1..Len(events) : On(h, o, k)' <=> On(h, o, k + 1)
  BY OnTail
<1>4. o \in shown[h] <=> On(h, o, n)'
  BY <1>0, <1>1, <1>2, <1>3
<1>5. ASSUME NEW k \in DOMAIN events', IsLeave(events'[k], h, o) PROVE On(h, o, k)'
  <2>1. k \in 1..Len(events) /\ k + 1 \in DOMAIN events /\ events'[k] = events[k + 1]
    BY <1>1
  <2> QED
    BY <1>2, <1>3, <1>5, <2>1
<1> QED
  BY <1>4, <1>5

LEMMA FollowAppend ==
    ASSUME TypeOK, MovesFollow, NEW m \in Event, events' = Append(events, m),
           UNCHANGED <<windows, held, raised, bound>>,
           \A h \in Holders : \A o \in bound :
               /\ o \in shown'[h] <=> IsEnter(m, h, o) \/ (o \in shown[h] /\ ~Off(m, h, o))
               /\ IsLeave(m, h, o) => o \in shown[h]
    PROVE  MovesFollow'
<1>1. /\ Len(events) \in Nat /\ DOMAIN events = 1..Len(events)
      /\ DOMAIN events' = 1..(Len(events) + 1) /\ Len(events') = Len(events) + 1
      /\ \A k \in 1..Len(events) : events'[k] = events[k]
      /\ events'[Len(events) + 1] = m
  <2>1. events \in Seq(Event)
    BY DEF TypeOK
  <2> QED
    BY <2>1, Adding
<1>0. PICK n \in Nat : n = Len(events) + 2
  BY <1>1
<1> SUFFICES ASSUME Running, NEW h \in Holders, NEW o \in bound
             PROVE  /\ o \in shown'[h] <=> On(h, o, n)'
                    /\ \A k \in DOMAIN events' : IsLeave(events'[k], h, o) => On(h, o, k)'
  <2>1. Len(events') + 1 = n
    BY <1>0, <1>1
  <2>2. Running' <=> Running
    BY DEF Running
  <2>3. Running => \A h \in Holders : held[h] \subseteq bound
    BY DEF MovesFollow
  <2> QED
    BY <2>1, <2>2, <2>3 DEF MovesFollow
<1>2. /\ o \in shown[h] <=> On(h, o, Len(events) + 1)
      /\ \A k \in DOMAIN events : IsLeave(events[k], h, o) => On(h, o, k)
  BY DEF MovesFollow
<1>3. /\ \A k \in 1..(Len(events) + 1) : On(h, o, k)' <=> On(h, o, k)
      /\ On(h, o, n)' <=> IsEnter(m, h, o) \/ (On(h, o, Len(events) + 1) /\ ~Off(m, h, o))
  BY <1>0, OnAppend
<1>4. o \in shown'[h] <=> On(h, o, n)'
  BY <1>2, <1>3
<1>5. ASSUME NEW k \in DOMAIN events', IsLeave(events'[k], h, o) PROVE On(h, o, k)'
  <2>1. CASE k \in DOMAIN events
    BY <1>1, <1>2, <1>3, <1>5, <2>1
  <2>2. CASE k = Len(events) + 1
    BY <1>1, <1>2, <1>3, <1>5, <2>2
  <2> QED
    BY <1>1, <2>1, <2>2
<1> QED
  BY <1>4, <1>5

-----------------------------------------------------------------------------
\* Events that are not about globals leave what is known of globals alone.
QuietEvents == {"done", "holder", "closed", "enter", "leave"}

LEMMA QuietTail ==
    ASSUME RegistryInv, NEW t \in QuietEvents, Take(t), UNCHANGED <<registry, globals, nglobals, registered>>
    PROVE  /\ registered /\ GlobalsFollow' /\ ToldInOrder'
           /\ EventNames(events') \subseteq EventNames(events)
           /\ \A g : Pending(events', g) <=> Pending(events, g)
<1>1. TypeOK /\ Unasked /\ GlobalsFollow /\ ToldInOrder
  BY DEF RegistryInv
<1>2. events \in Seq(Event) /\ events # <<>> /\ events' = Tail(events) /\ Head(events).ev = t
  BY <1>1, EventTaken DEF TypeOK
<1>3. /\ \A g : Pending(events, g) <=> IsGlobal(Head(events), g) \/ Pending(events', g)
      /\ \A g : Removing(events, g) <=> IsRemove(Head(events), g) \/ Removing(events', g)
      /\ EventNames(events') \subseteq EventNames(events)
  BY <1>2, EventsTail
<1>4. /\ \A g : Pending(events', g) <=> Pending(events, g)
      /\ \A g : Removing(events', g) <=> Removing(events, g)
  BY <1>2, <1>3 DEF IsGlobal, IsRemove, QuietEvents
<1>5. registered
  BY <1>1, <1>2 DEF Unasked
<1>6. GlobalsFollow'
  BY <1>1, <1>4 DEF GlobalsFollow
<1>7. ToldInOrder'
  BY <1>1, <1>2, ToldTail
<1> QED
  BY <1>3, <1>4, <1>5, <1>6, <1>7

LEMMA QuietAppend ==
    ASSUME RegistryInv, NEW m \in Event, m.ev \in QuietEvents, events' = Append(events, m),
           UNCHANGED <<registry, globals, nglobals, registered>>
    PROVE  /\ GlobalsFollow' /\ ToldInOrder'
           /\ EventNames(events') = EventNames(events)
           /\ \A g : Pending(events', g) <=> Pending(events, g)
<1>1. TypeOK /\ GlobalsFollow /\ ToldInOrder
  BY DEF RegistryInv
<1>2. events \in Seq(Event) /\ nglobals \in 0..MaxGlobals
  BY <1>1 DEF TypeOK
<1>3. /\ \A g : Pending(events', g) <=> IsGlobal(m, g) \/ Pending(events, g)
      /\ \A g : Removing(events', g) <=> IsRemove(m, g) \/ Removing(events, g)
      /\ EventNames(events') =
           EventNames(events) \cup (IF m.ev = "global" THEN {<<m.gid, m.name>>} ELSE {})
  BY <1>2, EventsAppend
<1>4. /\ \A g : Pending(events', g) <=> Pending(events, g)
      /\ \A g : Removing(events', g) <=> Removing(events, g)
      /\ EventNames(events') = EventNames(events)
  BY <1>3 DEF IsGlobal, IsRemove, QuietEvents
<1>5. GlobalsFollow'
  BY <1>1, <1>4 DEF GlobalsFollow
<1>6. nglobals' \in Nat /\ nglobals <= nglobals'
  BY <1>2, BoundsAssumption
<1>7. m.ev # "global" /\ m.ev # "global_remove"
  BY DEF QuietEvents
<1>8. ToldInOrder'
  BY <1>1, <1>6, <1>7, ToldAppend
<1> QED
  BY <1>4, <1>5, <1>8

LEMMA NamesNumbered ==
    ASSUME TypeOK
    PROVE  \A a \in Named : a[1] \in Nat
<1>1. nglobals \in Nat
  BY Typed
<1>2. \A a \in Pairs(registry) \cup Pairs(globals) : a[1] \in Nat
  <2>1. DOMAIN registry \subseteq Gids /\ DOMAIN globals \subseteq 1..nglobals
    BY DEF TypeOK
  <2> QED
    BY <1>1, <2>1, BoundsAssumption DEF Pairs
<1>3. \A a \in EventNames(events) : a[1] \in Nat
  <2>1. \A k \in DOMAIN events : events[k] \in Event
    BY Typed
  <2> QED
    BY <2>1, BoundsAssumption DEF EventNames, Event
<1>4. \A a \in RequestNames(requests) : a[1] \in Nat
  <2>1. \A k \in DOMAIN requests : requests[k] \in Request
    BY Typed
  <2> QED
    BY <2>1, BoundsAssumption DEF RequestNames, Request
<1> QED
  BY <1>2, <1>3, <1>4 DEF Named

LEMMA NamesKept ==
    ASSUME TypeOK, NamesFixed, Named' \subseteq Named, nglobals' \in Nat, nglobals <= nglobals'
    PROVE  NamesFixed'
<1>1. nglobals \in Nat /\ \A a \in Named : a[1] <= nglobals /\ a[1] \in Nat
  BY Typed, NamesNumbered DEF NamesFixed
<1>2. \A a, b \in Named : a[1] = b[1] => a[2] = b[2]
  BY DEF NamesFixed
<1>3. \A a \in Named' : a[1] <= nglobals'
  BY <1>1
<1> QED
  BY <1>2, <1>3 DEF NamesFixed

LEMMA NamesSame ==
    ASSUME TypeOK, NamesFixed, Named' \subseteq Named, UNCHANGED nglobals
    PROVE  NamesFixed'
<1>1. nglobals' \in Nat /\ nglobals <= nglobals'
  BY Typed
<1> QED
  BY <1>1, NamesKept

\* A holder's events change nothing of the tables.
LEMMA HolderEvent ==
    ASSUME RegistryInv, NEW t \in QuietEvents, Take(t),
           UNCHANGED <<registry, interfaces, initial_sync, outputs, nbound, requests>>,
           UNCHANGED serverVars,
           windows' \subseteq Holders, held' \in [Holders -> SUBSET Output],
           raised' \subseteq {"unsupported", "no output", "not held"}
    PROVE  /\ TypeOK' /\ Unasked' /\ GlobalsFollow' /\ ToldInOrder' /\ NamesFixed' /\ InverseTables'
           /\ OutputsListed' /\ IdsFixed' /\ BoundKnown' /\ BindsRight' /\ MovesFound'
<1>1. /\ TypeOK /\ Unasked /\ NamesFixed /\ InverseTables /\ OutputsListed /\ IdsFixed /\ BoundKnown
      /\ BindsRight /\ MovesFound
  BY DEF RegistryInv
<1>2. /\ events # <<>> /\ events' = Tail(events) /\ events' \in Seq(Event)
  BY <1>1, EventTaken
<1>3. /\ registered /\ GlobalsFollow' /\ ToldInOrder'
      /\ EventNames(events') \subseteq EventNames(events)
      /\ \A g : Pending(events', g) <=> Pending(events, g)
  BY QuietTail DEF serverVars
<1>4. TypeOK'
  BY <1>1, <1>2 DEF TypeOK, serverVars
<1>5. Unasked'
  BY <1>1, <1>3 DEF Unasked, serverVars
<1>6. NamesFixed'
  <2>1. Named' \subseteq Named
    BY <1>3 DEF Named, serverVars
  <2>2. UNCHANGED nglobals
    BY DEF serverVars
  <2> QED
    BY <1>1, <2>1, <2>2, NamesSame
<1>7. InverseTables' /\ OutputsListed' /\ BoundKnown' /\ BindsRight'
  BY <1>1 DEF InverseTables, OutputsListed, BoundKnown, BindsRight, serverVars
<1>8. IdsFixed'
  BY <1>1, <1>3 DEF IdsFixed, AllOutputs, serverVars
<1>9. MovesFound'
  BY <1>1, <1>2, MovesTail DEF serverVars
<1> QED
  BY <1>3, <1>4, <1>5, <1>6, <1>7, <1>8, <1>9

LEMMA HolderStep ==
    ASSUME RegistryInv, OnHolder
    PROVE  RegistryInv'
<1> DEFINE e == Head(events)
           h == e.holder
<1>1. TypeOK /\ HoldersInOrder /\ MovesFollow /\ OutputsFound
  BY DEF RegistryInv
<1>2. /\ Take("holder") /\ windows' = windows \cup {h} /\ held' = [held EXCEPT ![h] = {}]
      /\ UNCHANGED <<registry, interfaces, initial_sync, outputs, nbound, requests, raised>>
      /\ UNCHANGED serverVars
  BY DEF OnHolder
<1>3. /\ Running /\ events # <<>> /\ events' = Tail(events) /\ e.ev = "holder" /\ h \in Holders
  BY <1>1, <1>2, EventTaken
<1>4. windows \subseteq Holders /\ held \in [Holders -> SUBSET Output]
      /\ raised \subseteq {"unsupported", "no output", "not held"}
  BY <1>1 DEF TypeOK
<1> HIDE DEF e, h
<1>5. windows' \subseteq Holders /\ held' \in [Holders -> SUBSET Output]
      /\ raised' \subseteq {"unsupported", "no output", "not held"}
  BY <1>2, <1>3, <1>4
<1>6. /\ TypeOK' /\ Unasked' /\ GlobalsFollow' /\ ToldInOrder' /\ NamesFixed' /\ InverseTables'
      /\ OutputsListed' /\ IdsFixed' /\ BoundKnown' /\ BindsRight' /\ MovesFound'
  BY <1>2, <1>5, HolderEvent DEF QuietEvents
<1>7. HoldersInOrder'
  <2>1. \A g \in Holders :
          g \in windows' <=> IsHolder(Head(events), g) \/ (g \in windows /\ ~IsClosed(Head(events), g))
    BY <1>2, <1>3 DEF IsHolder, IsClosed, e, h
  <2> QED
    BY <1>1, <1>2, <1>3, <2>1, HoldersTail DEF serverVars
<1>8. MovesFollow'
  <2>1. ASSUME NEW g \in Holders
        PROVE  /\ held'[g] \subseteq bound
               /\ \A o \in bound :
                    (\/ IsEnter(Head(events), g, o)
                     \/ g \in windows /\ o \in held[g] /\ ~Off(Head(events), g, o))
                    <=> g \in windows' /\ o \in held'[g]
    <3>1. held[g] \subseteq bound
      BY <1>1, <1>3 DEF MovesFollow
    <3>2. CASE g = h
      BY <1>2, <1>3, <1>4, <3>2 DEF IsEnter, Off, IsHolder, e, h
    <3>3. CASE g # h
      BY <1>2, <1>3, <1>4, <3>1, <3>3 DEF IsEnter, Off, IsHolder, IsClosed, IsLeave, e, h
    <3> QED
      BY <3>2, <3>3
  <2> QED
    BY <1>1, <1>2, <1>3, <2>1, FollowTail DEF serverVars
<1>9. OutputsFound'
  BY <1>1, <1>2 DEF OutputsFound, serverVars
<1> QED
  BY <1>6, <1>7, <1>8, <1>9 DEF RegistryInv

LEMMA ClosedStep ==
    ASSUME RegistryInv, OnClosed
    PROVE  RegistryInv'
<1> DEFINE e == Head(events)
           h == e.holder
<1>1. TypeOK /\ HoldersInOrder /\ MovesFollow /\ OutputsFound
  BY DEF RegistryInv
<1>2. /\ Take("closed") /\ windows' = windows \ {h}
      /\ UNCHANGED <<registry, interfaces, initial_sync, outputs, nbound, requests, held, raised>>
      /\ UNCHANGED serverVars
  BY DEF OnClosed
<1>3. /\ Running /\ events # <<>> /\ events' = Tail(events) /\ e.ev = "closed" /\ h \in Holders
  BY <1>1, <1>2, EventTaken
<1>4. windows \subseteq Holders /\ held \in [Holders -> SUBSET Output]
      /\ raised \subseteq {"unsupported", "no output", "not held"}
  BY <1>1 DEF TypeOK
<1> HIDE DEF e, h
<1>5. windows' \subseteq Holders /\ held' \in [Holders -> SUBSET Output]
      /\ raised' \subseteq {"unsupported", "no output", "not held"}
  BY <1>2, <1>4
<1>6. /\ TypeOK' /\ Unasked' /\ GlobalsFollow' /\ ToldInOrder' /\ NamesFixed' /\ InverseTables'
      /\ OutputsListed' /\ IdsFixed' /\ BoundKnown' /\ BindsRight' /\ MovesFound'
  BY <1>2, <1>5, HolderEvent DEF QuietEvents
<1>7. HoldersInOrder'
  <2>1. \A g \in Holders :
          g \in windows' <=> IsHolder(Head(events), g) \/ (g \in windows /\ ~IsClosed(Head(events), g))
    BY <1>2, <1>3 DEF IsHolder, IsClosed, e, h
  <2> QED
    BY <1>1, <1>2, <1>3, <2>1, HoldersTail DEF serverVars
<1>8. MovesFollow'
  <2>1. ASSUME NEW g \in Holders
        PROVE  /\ held'[g] \subseteq bound
               /\ \A o \in bound :
                    (\/ IsEnter(Head(events), g, o)
                     \/ g \in windows /\ o \in held[g] /\ ~Off(Head(events), g, o))
                    <=> g \in windows' /\ o \in held'[g]
    <3>1. held[g] \subseteq bound
      BY <1>1, <1>3 DEF MovesFollow
    <3>2. CASE g = h
      BY <1>2, <1>3, <1>4, <3>1, <3>2 DEF IsEnter, Off, IsClosed, e, h
    <3>3. CASE g # h
      BY <1>2, <1>3, <1>4, <3>1, <3>3 DEF IsEnter, Off, IsHolder, IsClosed, IsLeave, e, h
    <3> QED
      BY <3>2, <3>3
  <2> QED
    BY <1>1, <1>2, <1>3, <2>1, FollowTail DEF serverVars
<1>9. OutputsFound'
  BY <1>1, <1>2 DEF OutputsFound, serverVars
<1> QED
  BY <1>6, <1>7, <1>8, <1>9 DEF RegistryInv

\* An event names one output, if any: ids are not used twice.
LEMMA OutputsByIdOne ==
    ASSUME IdsFixed, NEW o \in AllOutputs, NEW id, o.obj_id = id
    PROVE  OutputsById(id) = {o} \cap ToSet(outputs)
BY DEF OutputsById, IdsFixed, AllOutputs

LEMMA EnterStep ==
    ASSUME RegistryInv, OnEnter
    PROVE  RegistryInv'
<1> DEFINE e == Head(events)
           h == e.holder
<1>1. TypeOK /\ HoldersInOrder /\ MovesFollow /\ MovesFound /\ IdsFixed /\ OutputsFound
  BY DEF RegistryInv
<1>2. /\ Take("enter")
      /\ UNCHANGED <<registry, interfaces, initial_sync, outputs, nbound, requests, windows>>
      /\ UNCHANGED serverVars
  BY DEF OnEnter
<1>3. /\ Running /\ events # <<>> /\ events' = Tail(events) /\ e.ev = "enter" /\ h \in Holders
      /\ e = events[1] /\ 1 \in DOMAIN events
  BY <1>1, <1>2, EventTaken, Taking, Typed
<1>4. windows \subseteq Holders /\ held \in [Holders -> SUBSET Output] /\ bound \subseteq Output
      /\ raised \subseteq {"unsupported", "no output", "not held"}
  BY <1>1 DEF TypeOK
<1>5. PICK p \in bound : p.obj_id = e.obj_id /\ p \in ToSet(outputs)
  <2>1. PICK p \in bound : p.obj_id = events[1].obj_id /\ Found(p, 1)
    BY <1>1, <1>3 DEF MovesFound
  <2> QED
    BY <1>3, <2>1 DEF Found
<1>6. OutputsById(e.obj_id) = {p}
  BY <1>1, <1>5, OutputsByIdOne DEF AllOutputs
<1>7. held' = [held EXCEPT ![h] = held[h] \cup {p}] /\ UNCHANGED raised
  <2>1. OutputsById(e.obj_id) # {}
    BY <1>6
  <2>2. held' = [held EXCEPT ![h] = @ \cup OutputsById(e.obj_id)] /\ UNCHANGED raised
    BY <2>1 DEF OnEnter
  <2> QED
    BY <1>4, <1>6, <2>2
<1>8. h \in windows
  <2>1. IsOf(events[1], h)
    BY <1>3 DEF IsOf
  <2>2. Known(h, 1)
    BY <1>1, <1>3, <2>1 DEF HoldersInOrder
  <2> QED
    BY <2>2 DEF Known
<1> HIDE DEF e, h
<1>9. windows' \subseteq Holders /\ held' \in [Holders -> SUBSET Output]
      /\ raised' \subseteq {"unsupported", "no output", "not held"}
  BY <1>2, <1>3, <1>4, <1>5, <1>7
<1>10. /\ TypeOK' /\ Unasked' /\ GlobalsFollow' /\ ToldInOrder' /\ NamesFixed' /\ InverseTables'
       /\ OutputsListed' /\ IdsFixed' /\ BoundKnown' /\ BindsRight' /\ MovesFound'
  BY <1>2, <1>9, HolderEvent DEF QuietEvents
<1>11. HoldersInOrder'
  <2>1. \A g \in Holders :
          g \in windows' <=> IsHolder(Head(events), g) \/ (g \in windows /\ ~IsClosed(Head(events), g))
    BY <1>2, <1>3 DEF IsHolder, IsClosed, e, h
  <2> QED
    BY <1>1, <1>2, <1>3, <2>1, HoldersTail DEF serverVars
<1>12. MovesFollow'
  <2>1. ASSUME NEW g \in Holders
        PROVE  /\ held'[g] \subseteq bound
               /\ \A o \in bound :
                    (\/ IsEnter(Head(events), g, o)
                     \/ g \in windows /\ o \in held[g] /\ ~Off(Head(events), g, o))
                    <=> g \in windows' /\ o \in held'[g]
    <3>1. held[g] \subseteq bound
      BY <1>1, <1>3 DEF MovesFollow
    <3>2. \A o : ~Off(Head(events), g, o)
      BY <1>3 DEF Off, IsHolder, IsClosed, IsLeave, e
    <3>3. \A o \in bound : IsEnter(Head(events), g, o) <=> g = h /\ o = p
      <4>1. \A o \in bound : o.obj_id = p.obj_id => o = p
        BY <1>1, <1>5 DEF IdsFixed, AllOutputs
      <4> QED
        BY <1>3, <1>5, <4>1 DEF IsEnter, e, h
    <3>4. CASE g = h
      BY <1>2, <1>4, <1>5, <1>7, <1>8, <3>1, <3>2, <3>3, <3>4
    <3>5. CASE g # h
      BY <1>2, <1>4, <1>7, <3>1, <3>2, <3>3, <3>5
    <3> QED
      BY <3>4, <3>5
  <2> QED
    BY <1>1, <1>2, <1>3, <2>1, FollowTail DEF serverVars
<1>13. OutputsFound'
  BY <1>1, <1>2, <1>7 DEF OutputsFound, serverVars
<1> QED
  BY <1>10, <1>11, <1>12, <1>13 DEF RegistryInv

LEMMA LeaveStep ==
    ASSUME RegistryInv, OnLeave
    PROVE  RegistryInv'
<1> DEFINE e == Head(events)
           h == e.holder
<1>1. TypeOK /\ HoldersInOrder /\ MovesFollow /\ MovesFound /\ IdsFixed /\ OutputsFound /\ BoundKnown
  BY DEF RegistryInv
<1>2. /\ Take("leave")
      /\ UNCHANGED <<registry, interfaces, initial_sync, outputs, nbound, requests, windows>>
      /\ UNCHANGED serverVars
  BY DEF OnLeave
<1>3. /\ Running /\ events # <<>> /\ events' = Tail(events) /\ e.ev = "leave" /\ h \in Holders
      /\ e = events[1] /\ 1 \in DOMAIN events
  BY <1>1, <1>2, EventTaken, Taking, Typed
<1>4. windows \subseteq Holders /\ held \in [Holders -> SUBSET Output] /\ bound \subseteq Output
      /\ raised \subseteq {"unsupported", "no output", "not held"}
  BY <1>1 DEF TypeOK
<1>5. PICK p \in bound : p.obj_id = e.obj_id /\ (p \in ToSet(outputs) \/ p.global_id \in abrupt)
  <2>1. PICK p \in bound : p.obj_id = events[1].obj_id /\ (Found(p, 1) \/ p.global_id \in abrupt)
    BY <1>1, <1>3 DEF MovesFound
  <2> QED
    BY <1>3, <2>1 DEF Found
<1>6. OutputsById(e.obj_id) = {p} \cap ToSet(outputs)
  BY <1>1, <1>5, OutputsByIdOne DEF AllOutputs
<1>7. p \in held[h]
  <2>1. IsLeave(events[1], h, p)
    BY <1>3, <1>5 DEF IsLeave
  <2>2. On(h, p, 1)
    BY <1>1, <1>3, <2>1 DEF MovesFollow
  <2> QED
    BY <2>2 DEF On
<1>8. \/ p \in ToSet(outputs) /\ held' = [held EXCEPT ![h] = held[h] \ {p}] /\ UNCHANGED raised
      \/ p \notin ToSet(outputs) /\ UNCHANGED held /\ raised' = {"no output"}
  <2>1. CASE p \in ToSet(outputs)
    <3>1. OutputsById(e.obj_id) = {p}
      BY <1>6, <2>1
    <3>2. held' = [held EXCEPT ![h] = @ \ OutputsById(e.obj_id)] /\ UNCHANGED raised
      BY <1>7, <3>1 DEF OnLeave
    <3> QED
      BY <1>4, <2>1, <3>1, <3>2
  <2>2. CASE p \notin ToSet(outputs)
    <3>1. OutputsById(e.obj_id) = {}
      BY <1>6, <2>2
    <3> QED
      BY <2>2, <3>1 DEF OnLeave
  <2> QED
    BY <2>1, <2>2
<1> HIDE DEF e, h
<1>9. windows' \subseteq Holders /\ held' \in [Holders -> SUBSET Output]
      /\ raised' \subseteq {"unsupported", "no output", "not held"}
  BY <1>2, <1>3, <1>4, <1>8
<1>10. /\ TypeOK' /\ Unasked' /\ GlobalsFollow' /\ ToldInOrder' /\ NamesFixed' /\ InverseTables'
       /\ OutputsListed' /\ IdsFixed' /\ BoundKnown' /\ BindsRight' /\ MovesFound'
  BY <1>2, <1>9, HolderEvent DEF QuietEvents
<1>11. HoldersInOrder'
  <2>1. \A g \in Holders :
          g \in windows' <=> IsHolder(Head(events), g) \/ (g \in windows /\ ~IsClosed(Head(events), g))
    BY <1>2, <1>3 DEF IsHolder, IsClosed, e, h
  <2> QED
    BY <1>1, <1>2, <1>3, <2>1, HoldersTail DEF serverVars
<1>12. MovesFollow'
  <2>1. ASSUME NEW g \in Holders, Running'
        PROVE  /\ held'[g] \subseteq bound
               /\ \A o \in bound :
                    (\/ IsEnter(Head(events), g, o)
                     \/ g \in windows /\ o \in held[g] /\ ~Off(Head(events), g, o))
                    <=> g \in windows' /\ o \in held'[g]
    <3>1. held[g] \subseteq bound
      BY <1>1, <1>3 DEF MovesFollow
    <3>2. \A o : ~IsEnter(Head(events), g, o)
      BY <1>3 DEF IsEnter, e
    <3>3. \A o \in bound : Off(Head(events), g, o) <=> g = h /\ o = p
      <4>1. \A o \in bound : o.obj_id = p.obj_id => o = p
        BY <1>1, <1>5 DEF IdsFixed, AllOutputs
      <4> QED
        BY <1>3, <1>5, <4>1 DEF Off, IsHolder, IsClosed, IsLeave, e, h
    <3>4. held' = [held EXCEPT ![h] = held[h] \ {p}]
      BY <1>8, <2>1 DEF Running
    <3>5. CASE g = h
      BY <1>2, <1>4, <1>5, <3>1, <3>2, <3>3, <3>4, <3>5
    <3>6. CASE g # h
      BY <1>2, <1>4, <3>1, <3>2, <3>3, <3>4, <3>6
    <3> QED
      BY <3>5, <3>6
  <2> QED
    BY <1>1, <1>2, <1>3, <2>1, FollowTail DEF serverVars
<1>13. OutputsFound'
  <2>1. p \notin ToSet(outputs) => p.global_id \notin DOMAIN registry
    BY <1>1, <1>5 DEF BoundKnown
  <2> QED
    BY <1>1, <1>2, <1>5, <1>8, <2>1 DEF OutputsFound, serverVars
<1> QED
  BY <1>10, <1>11, <1>12, <1>13 DEF RegistryInv

-----------------------------------------------------------------------------
\* The other events of the client say nothing about holders.
LEMMA TableEvent ==
    ASSUME RegistryInv, NEW t \in {"global", "global_remove", "done"}, Take(t),
           UNCHANGED <<windows, held>>, UNCHANGED serverVars
    PROVE  HoldersInOrder' /\ MovesFollow'
<1>1. TypeOK /\ HoldersInOrder /\ MovesFollow
  BY DEF RegistryInv
<1>2. Running /\ events # <<>> /\ events' = Tail(events) /\ Head(events).ev = t
  BY <1>1, EventTaken
<1>3. UNCHANGED <<shown, bound>>
  BY DEF serverVars
<1>4. \A h \in Holders : \A o : /\ ~IsHolder(Head(events), h) /\ ~IsClosed(Head(events), h)
                                /\ ~IsEnter(Head(events), h, o) /\ ~Off(Head(events), h, o)
  BY <1>2 DEF IsHolder, IsClosed, IsEnter, IsLeave, Off
<1>5. HoldersInOrder'
  BY <1>1, <1>2, <1>3, <1>4, HoldersTail
<1>6. MovesFollow'
  <2>1. \A h \in Holders : held[h] \subseteq bound
    BY <1>1, <1>2 DEF MovesFollow
  <2>2. \A h \in Holders :
          /\ held'[h] \subseteq bound
          /\ \A o \in bound :
               (\/ IsEnter(Head(events), h, o)
                \/ h \in windows /\ o \in held[h] /\ ~Off(Head(events), h, o))
               <=> h \in windows' /\ o \in held'[h]
    BY <1>4, <2>1
  <2> QED
    BY <1>1, <1>2, <1>3, <2>2, FollowTail
<1> QED
  BY <1>5, <1>6

\* What the application and the display bind is in the registry.
Grown(q) ==
    /\ q \in Seq(Request)
    /\ RequestNames(q) \subseteq RequestNames(requests) \cup Pairs(registry)
    /\ Binding(q) = Binding(requests)
    /\ \A k \in DOMAIN q :
         /\ q[k].op = "bind" => q[k].version <= Offered[q[k].name]
         /\ q[k].op = "get_registry" => ~registered

LEMMA BindTyped ==
    ASSUME NEW g \in Gids, NEW name \in Names, NEW id \in ObjIds
    PROVE  /\ BindRequest(g, name, id) \in Request
           /\ BindRequest(g, name, id).op = "bind"
           /\ BindRequest(g, name, id).gid = g /\ BindRequest(g, name, id).name = name
           /\ BindRequest(g, name, id).obj_id = id
           /\ BindRequest(g, name, id).version <= Offered[name]
<1>1. Version[name] \in Nat /\ Offered[name] \in Nat
  BY NamesAssumption
<1>2. Smaller(Version[name], Offered[name]) \in Nat /\ Smaller(Version[name], Offered[name]) <= Offered[name]
  BY <1>1 DEF Smaller
<1> QED
  BY <1>2 DEF BindRequest, Request

LEMMA FirstListed ==
    ASSUME TypeOK, InverseTables, NEW name, Supported(name)
    PROVE  /\ FirstGlobal(name) \in DOMAIN registry /\ FirstGlobal(name) \in Gids
           /\ registry[FirstGlobal(name)] = name
<1>1. name \in DOMAIN interfaces /\ FirstGlobal(name) \in DOMAIN registry
  BY DEF Supported
<1>2. interfaces[name] \in Seq(Gids) /\ DOMAIN registry \subseteq Gids
  BY <1>1 DEF TypeOK
<1>3. ToSet(interfaces[name]) = {g \in DOMAIN registry : registry[g] = name}
  BY <1>1 DEF InverseTables
<1>4. interfaces[name] # <<>>
  <2>1. name \in Range(registry)
    BY <1>1 DEF InverseTables
  <2>2. PICK g \in DOMAIN registry : registry[g] = name
    BY <2>1 DEF Range
  <2>3. g \in ToSet(interfaces[name])
    BY <1>3, <2>2
  <2> QED
    BY <2>3 DEF ToSet
<1>5. Head(interfaces[name]) \in ToSet(interfaces[name])
  BY <1>2, <1>4, Taking DEF ToSet
<1> QED
  BY <1>1, <1>2, <1>3, <1>5 DEF FirstGlobal

LEMMA GrownMore ==
    ASSUME TypeOK, InverseTables, NEW q, Grown(q), NEW name \in Names \ {"wl_output"}, Supported(name),
           NEW id \in ObjIds
    PROVE  Grown(Append(q, BindRequest(FirstGlobal(name), name, id)))
<1> DEFINE g == FirstGlobal(name)
           m == BindRequest(g, name, id)
<1>1. g \in DOMAIN registry /\ g \in Gids /\ registry[g] = name
  BY FirstListed
<1>2. /\ m \in Request /\ m.op = "bind" /\ m.gid = g /\ m.name = name
      /\ m.version <= Offered[name]
  BY <1>1, BindTyped
<1>3. <<g, name>> \in Pairs(registry)
  BY <1>1 DEF Pairs
<1> HIDE DEF g, m
<1>4. q \in Seq(Request)
  BY DEF Grown
<1>5. /\ Append(q, m) \in Seq(Request)
      /\ DOMAIN q = 1..Len(q) /\ Len(q) \in Nat
      /\ DOMAIN Append(q, m) = 1..(Len(q) + 1)
      /\ \A k \in 1..Len(q) : Append(q, m)[k] = q[k]
      /\ Append(q, m)[Len(q) + 1] = m
  BY <1>2, <1>4, Adding
<1>6. RequestNames(Append(q, m)) = RequestNames(q) \cup {<<g, name>>} /\ Binding(Append(q, m)) = Binding(q)
  BY <1>2, <1>4, RequestsAppend
<1>7. ASSUME NEW k \in DOMAIN Append(q, m)
      PROVE  /\ Append(q, m)[k].op = "bind" =>
                  Append(q, m)[k].version <= Offered[Append(q, m)[k].name]
             /\ Append(q, m)[k].op = "get_registry" => ~registered
  <2>1. CASE k \in 1..Len(q)
    BY <1>5, <2>1 DEF Grown
  <2>2. CASE k = Len(q) + 1
    BY <1>2, <1>5, <2>2
  <2> QED
    BY <1>5, <2>1, <2>2
<1>8. Grown(Append(q, m))
  BY <1>3, <1>5, <1>6, <1>7 DEF Grown
<1> QED
  BY <1>8 DEF g, m

LEMMA OutputsTyped ==
    ASSUME TypeOK
    PROVE  \A o \in AllOutputs : o \in Output /\ o.obj_id \in Nat /\ o.global_id \in Nat /\ o.global_id \in Gids
<1>1. ToSet(outputs) \subseteq Output /\ \A k \in DOMAIN requests : requests[k] \in Request
  BY Typed
<1>2. ASSUME NEW o \in Binding(requests) PROVE o \in Output
  <2>1. PICK k \in {j \in DOMAIN requests : requests[j].op = "bind" /\ requests[j].name = "wl_output"} :
          o = [obj_id |-> requests[k].obj_id, global_id |-> requests[k].gid]
    BY DEF Binding
  <2>2. requests[k].obj_id \in ObjIds /\ requests[k].gid \in Gids
    BY <1>1, <2>1 DEF Request
  <2> QED
    BY <2>1, <2>2 DEF Output
<1>3. bound \subseteq Output
  BY DEF TypeOK
<1>4. \A o \in Output : o.obj_id \in Nat /\ o.global_id \in Nat /\ o.global_id \in Gids
  BY BoundsAssumption DEF Output
<1> QED
  BY <1>1, <1>2, <1>3, <1>4 DEF AllOutputs

LEMMA AtMost == \A i, j, k \in Nat : i <= j /\ j <= k => i <= k
OBVIOUS

LEMMA ManagersBound ==
    ASSUME RegistryInv, registered, Grown(requests'), nbound' \in Nat, nbound <= nbound',
           UNCHANGED <<registry, interfaces, outputs, windows, held>>, UNCHANGED serverVars,
           events' \in Seq(Event), EventNames(events') \subseteq EventNames(events),
           \A g : Pending(events', g) <=> Pending(events, g),
           initial_sync' \in BOOLEAN, raised' \subseteq {"unsupported", "no output", "not held"}
    PROVE  /\ TypeOK' /\ Unasked' /\ NamesFixed' /\ InverseTables'
           /\ OutputsListed' /\ IdsFixed' /\ BoundKnown' /\ BindsRight'
<1>1. /\ TypeOK /\ Unasked /\ NamesFixed /\ InverseTables /\ OutputsListed /\ IdsFixed /\ BoundKnown
      /\ BindsRight
  BY DEF RegistryInv
<1>2. /\ requests' \in Seq(Request)
      /\ RequestNames(requests') \subseteq RequestNames(requests) \cup Pairs(registry)
      /\ Binding(requests') = Binding(requests)
      /\ \A k \in DOMAIN requests' :
           /\ requests'[k].op = "bind" => requests'[k].version <= Offered[requests'[k].name]
           /\ requests'[k].op = "get_registry" => ~registered
  BY DEF Grown
<1>3. TypeOK'
  BY <1>1, <1>2 DEF TypeOK, serverVars
<1>4. Unasked'
  BY <1>2 DEF Unasked, serverVars
<1>5. NamesFixed'
  <2>1. Named' \subseteq Named
    BY <1>2 DEF Named, serverVars
  <2>2. UNCHANGED nglobals
    BY DEF serverVars
  <2> QED
    BY <1>1, <2>1, <2>2, NamesSame
<1>6. InverseTables' /\ OutputsListed'
  BY <1>1 DEF InverseTables, OutputsListed
<1>7. BoundKnown'
  BY <1>1, <1>2 DEF BoundKnown, serverVars
<1>8. BindsRight'
  BY <1>1, <1>2 DEF BindsRight, serverVars
<1>9. IdsFixed'
  <2>1. AllOutputs' = AllOutputs
    BY <1>2 DEF AllOutputs, serverVars
  <2>2. \A o \in AllOutputs : o.obj_id \in Nat
    BY <1>1, OutputsTyped
  <2>3. nbound \in Nat /\ UNCHANGED nglobals
    BY <1>1 DEF TypeOK, serverVars
  <2>4. \A o \in AllOutputs : o.obj_id <= nbound
    BY <1>1 DEF IdsFixed
  <2>5. ASSUME NEW o \in AllOutputs PROVE o.obj_id <= nbound'
    <3>1. o.obj_id \in Nat /\ o.obj_id <= nbound
      BY <2>2, <2>4
    <3>2. nbound \in Nat /\ nbound' \in Nat /\ nbound <= nbound'
      BY <2>3
    <3> QED
      BY <3>1, <3>2, AtMost
  <2> QED
    BY <1>1, <2>1, <2>3, <2>5 DEF IdsFixed
<1> QED
  BY <1>3, <1>4, <1>5, <1>6, <1>7, <1>8, <1>9

\* The requests that there are.
LEMMA GrownNow == RegistryInv => Grown(requests)
BY Typed DEF RegistryInv, Grown, BindsRight, Unasked

LEMMA AddingTwo ==
    ASSUME NEW T, NEW q \in Seq(T), NEW a \in T, NEW b \in T
    PROVE  q \o <<a, b>> = Append(Append(q, a), b)
<1> DEFINE two == <<a, b>>
           l == q \o two
           r == Append(Append(q, a), b)
<1>1. two \in Seq(T) /\ Len(two) = 2 /\ two[1] = a /\ two[2] = b /\ Len(q) \in Nat
  BY LenProperties
<1>2. /\ l \in Seq(T) /\ Len(l) = Len(q) + 2
      /\ \A k \in 1..(Len(q) + 2) : l[k] = IF k <= Len(q) THEN q[k] ELSE two[k - Len(q)]
  <2>1. /\ l \in Seq(T) /\ Len(l) = Len(q) + Len(two)
        /\ \A k \in 1..Len(q) + Len(two) : l[k] = IF k <= Len(q) THEN q[k] ELSE two[k - Len(q)]
    <3> HIDE DEF two
    <3> QED
      BY <1>1, ConcatProperties
  <2> HIDE DEF l, two
  <2> QED
    BY <1>1, <2>1
<1>3. /\ Append(q, a) \in Seq(T) /\ Len(Append(q, a)) = Len(q) + 1
      /\ \A k \in 1..Len(q) : Append(q, a)[k] = q[k]
      /\ Append(q, a)[Len(q) + 1] = a
  BY Adding
<1>4. /\ r \in Seq(T) /\ Len(r) = Len(q) + 2
      /\ \A k \in 1..(Len(q) + 1) : r[k] = Append(q, a)[k]
      /\ r[Len(q) + 2] = b
  BY <1>1, <1>3, Adding
<1>5. ASSUME NEW k \in 1..(Len(q) + 2) PROVE l[k] = r[k]
  <2> HIDE DEF l, r, two
  <2>1. CASE k \in 1..Len(q)
    BY <1>1, <1>2, <1>3, <1>4, <2>1
  <2>2. CASE k = Len(q) + 1
    BY <1>1, <1>2, <1>3, <1>4, <2>2
  <2>3. CASE k = Len(q) + 2
    BY <1>1, <1>2, <1>4, <2>3
  <2> QED
    BY <1>1, <2>1, <2>2, <2>3
<1>6. l = r
  <2> HIDE DEF l, r, two
  <2> QED
    BY <1>1, <1>2, <1>4, <1>5, SeqEqual
<1> QED
  BY <1>6

LEMMA InitialSyncStep ==
    ASSUME RegistryInv, OnInitialSync
    PROVE  RegistryInv'
<1> DEFINE first == BindRequest(FirstGlobal("wl_seat"), "wl_seat", nbound + 1)
           second == BindRequest(FirstGlobal("wl_shm"), "wl_shm", nbound + 2)
<1>1. TypeOK /\ InverseTables /\ MovesFound /\ OutputsFound /\ nbound \in Nat
  BY DEF RegistryInv, TypeOK
<1>2. /\ Take("done") /\ initial_sync' = TRUE /\ raised' \in {{}, {"unsupported"}}
      /\ UNCHANGED <<registry, interfaces, outputs, windows, held>>
      /\ UNCHANGED serverVars
  BY DEF OnInitialSync
<1>3. /\ events # <<>> /\ events' = Tail(events) /\ events' \in Seq(Event)
      /\ Head(events).ev = "done"
  BY <1>1, <1>2, EventTaken
<1>4. /\ registered /\ GlobalsFollow' /\ ToldInOrder'
      /\ EventNames(events') \subseteq EventNames(events)
      /\ \A g : Pending(events', g) <=> Pending(events, g)
  BY <1>2, QuietTail DEF QuietEvents, serverVars
<1>5. /\ "wl_seat" \in Names \ {"wl_output"} /\ "wl_shm" \in Names \ {"wl_output"}
      /\ nbound + 1 \in ObjIds /\ nbound + 2 \in ObjIds /\ nbound <= nbound
      /\ nbound + 1 \in Nat /\ nbound + 2 \in Nat /\ nbound <= nbound + 1 /\ nbound <= nbound + 2
  BY <1>1, NamesAssumption
<1>6. Grown(requests)
  BY GrownNow
<1>7. Grown(requests') /\ nbound' \in Nat /\ nbound <= nbound'
  <2>1. CASE ~Supported("wl_seat")
    BY <1>1, <1>5, <1>6, <2>1 DEF OnInitialSync
  <2>2. CASE Supported("wl_seat") /\ ~Supported("wl_shm")
    <3>1. requests' = Append(requests, first) /\ nbound' = nbound + 1
      BY <2>2 DEF OnInitialSync
    <3>2. Grown(Append(requests, first))
      BY <1>1, <1>5, <1>6, <2>2, GrownMore
    <3> QED
      BY <1>5, <3>1, <3>2
  <2>3. CASE Supported("wl_seat") /\ Supported("wl_shm")
    <3>1. requests' = requests \o <<first, second>> /\ nbound' = nbound + 2
      BY <2>3 DEF OnInitialSync
    <3>2. first \in Request /\ second \in Request
      BY <1>1, <1>5, <2>3, FirstListed, BindTyped, NamesAssumption
    <3>3. Grown(Append(requests, first))
      BY <1>1, <1>5, <1>6, <2>3, GrownMore
    <3>4. Grown(Append(Append(requests, first), second))
      <4> DEFINE q == Append(requests, first)
      <4> HIDE DEF q
      <4> SUFFICES Grown(Append(q, second))
        BY DEF q
      <4>1. Grown(q)
        BY <3>3 DEF q
      <4> QED
        BY <1>1, <1>5, <2>3, <4>1, GrownMore
    <3>5. requests \o <<first, second>> = Append(Append(requests, first), second)
      <4> HIDE DEF first, second
      <4> QED
        BY <1>1, <3>2, Typed, AddingTwo
    <3> QED
      BY <1>5, <3>1, <3>4, <3>5
  <2> QED
    BY <2>1, <2>2, <2>3
<1>8. /\ TypeOK' /\ Unasked' /\ NamesFixed' /\ InverseTables'
      /\ OutputsListed' /\ IdsFixed' /\ BoundKnown' /\ BindsRight'
  <2>1. initial_sync' \in BOOLEAN /\ raised' \subseteq {"unsupported", "no output", "not held"}
    BY <1>2
  <2> QED
    BY <1>2, <1>3, <1>4, <1>7, <2>1, ManagersBound
<1>9. HoldersInOrder' /\ MovesFollow'
  BY <1>2, TableEvent
<1>10. MovesFound'
  BY <1>1, <1>2, <1>3, MovesTail DEF serverVars
<1>11. OutputsFound'
  BY <1>2 DEF OutputsFound
<1> QED
  BY <1>4, <1>8, <1>9, <1>10, <1>11 DEF RegistryInv

LEMMA ManagerStep ==
    ASSUME RegistryInv, NEW name \in Managers, BindManager(name)
    PROVE  RegistryInv'
<1>1. /\ TypeOK /\ Unasked /\ GlobalsFollow /\ ToldInOrder /\ InverseTables /\ HoldersInOrder
      /\ MovesFound /\ MovesFollow /\ OutputsFound /\ nbound \in Nat
  BY DEF RegistryInv, TypeOK
<1>2. /\ initial_sync /\ Supported(name) /\ nbound' = nbound + 1
      /\ requests' = Append(requests, BindRequest(FirstGlobal(name), name, nbound + 1))
      /\ UNCHANGED <<registry, interfaces, outputs, windows, held>>
      /\ UNCHANGED serverVars
      /\ UNCHANGED <<events, raised, initial_sync>>
  BY DEF BindManager
<1>3. registered
  BY <1>1, <1>2 DEF Unasked
<1>4. Grown(requests')
  <2>1. name \in Names \ {"wl_output"} /\ nbound + 1 \in ObjIds /\ Grown(requests)
    BY <1>1, GrownNow, NamesAssumption
  <2> QED
    BY <1>1, <1>2, <2>1, GrownMore
<1>5. /\ TypeOK' /\ Unasked' /\ NamesFixed' /\ InverseTables'
      /\ OutputsListed' /\ IdsFixed' /\ BoundKnown' /\ BindsRight'
  <2>1. nbound' \in Nat /\ nbound <= nbound'
    BY <1>1, <1>2
  <2>2. /\ initial_sync' \in BOOLEAN /\ raised' \subseteq {"unsupported", "no output", "not held"}
        /\ events' \in Seq(Event)
    BY <1>1, <1>2 DEF TypeOK
  <2> QED
    BY <1>2, <1>3, <1>4, <2>1, <2>2, ManagersBound
<1>6. GlobalsFollow' /\ ToldInOrder'
  BY <1>1, <1>2 DEF GlobalsFollow, ToldInOrder, serverVars
<1>7. HoldersInOrder' /\ MovesFollow'
  BY <1>1, <1>2 DEF HoldersInOrder, MovesFollow, Running, Known, On, serverVars
<1>8. MovesFound' /\ OutputsFound'
  BY <1>1, <1>2 DEF MovesFound, OutputsFound, Found, serverVars
<1> QED
  BY <1>5, <1>6, <1>7, <1>8 DEF RegistryInv

LEMMA ServeSyncStep ==
    ASSUME RegistryInv, ServeSync
    PROVE  RegistryInv'
<1> DEFINE m == [ev |-> "done"]
<1>1. /\ TypeOK /\ Unasked /\ NamesFixed /\ InverseTables /\ OutputsListed /\ IdsFixed /\ BoundKnown
      /\ BindsRight /\ HoldersInOrder /\ MovesFound /\ MovesFollow /\ OutputsFound
  BY DEF RegistryInv
<1>2. /\ requests # <<>> /\ Head(requests).op = "sync" /\ requests' = Tail(requests)
      /\ events' = Append(events, m)
      /\ UNCHANGED clientVars /\ UNCHANGED serverVars
  BY DEF ServeSync, TakeRequest
<1>3. m \in Event /\ m.ev = "done"
  BY DEF Event
<1>4. requests \in Seq(Request) /\ events \in Seq(Event)
  BY <1>1, Typed
<1>5. registered
  BY <1>1, <1>2 DEF Unasked
<1> HIDE DEF m
<1>6. /\ GlobalsFollow' /\ ToldInOrder' /\ EventNames(events') = EventNames(events)
      /\ \A g : Pending(events', g) <=> Pending(events, g)
  BY <1>2, <1>3, QuietAppend DEF QuietEvents, clientVars, serverVars
<1>7. /\ requests' \in Seq(Request) /\ \A k \in DOMAIN requests' : k + 1 \in DOMAIN requests
      /\ \A k \in DOMAIN requests' : requests'[k] = requests[k + 1]
  BY <1>2, <1>4, Taking
<1>8. RequestNames(requests') \subseteq RequestNames(requests) /\ Binding(requests') = Binding(requests)
  BY <1>2, <1>4, RequestsTail
<1>9. events' \in Seq(Event)
  BY <1>2, <1>3, <1>4, Adding
<1>10. TypeOK'
  BY <1>1, <1>2, <1>7, <1>9 DEF TypeOK, clientVars, serverVars
<1>11. Unasked'
  BY <1>1, <1>2, <1>5, <1>7 DEF Unasked, serverVars
<1>12. NamesFixed'
  <2>1. Named' \subseteq Named
    BY <1>2, <1>6, <1>8 DEF Named, clientVars, serverVars
  <2>2. UNCHANGED nglobals
    BY <1>2 DEF serverVars
  <2> QED
    BY <1>1, <2>1, <2>2, NamesSame
<1>13. InverseTables' /\ OutputsListed'
  BY <1>1, <1>2 DEF InverseTables, OutputsListed, clientVars
<1>14. IdsFixed' /\ BoundKnown'
  BY <1>1, <1>2, <1>6, <1>8 DEF IdsFixed, BoundKnown, AllOutputs, clientVars, serverVars
<1>15. BindsRight'
  BY <1>1, <1>2, <1>7 DEF BindsRight, serverVars
<1>16. \A h \in Holders : \A o : /\ ~IsHolder(m, h) /\ ~IsClosed(m, h) /\ ~IsOf(m, h)
                                 /\ ~IsEnter(m, h, o) /\ ~IsLeave(m, h, o) /\ ~Off(m, h, o)
  BY <1>3 DEF IsHolder, IsClosed, IsOf, IsEnter, IsLeave, Off
<1>17. HoldersInOrder'
  BY <1>1, <1>2, <1>3, <1>16, HoldersAppend DEF clientVars, serverVars, HoldersInOrder
<1>18. MovesFound'
  BY <1>1, <1>2, <1>3, MovesAppend DEF clientVars, serverVars, MovesFound
<1>19. MovesFollow'
  BY <1>1, <1>2, <1>3, <1>16, FollowAppend DEF clientVars, serverVars
<1>20. OutputsFound'
  BY <1>1, <1>2 DEF OutputsFound, clientVars, serverVars
<1> QED
  BY <1>6, <1>10, <1>11, <1>12, <1>13, <1>14, <1>15, <1>17, <1>18, <1>19, <1>20 DEF RegistryInv

-----------------------------------------------------------------------------
\* The compositor's events for holders.
LEMMA HolderAppended ==
    ASSUME RegistryInv, registered, NEW m \in Event, m.ev \in {"holder", "closed", "enter", "leave"},
           events' = Append(events, m), UNCHANGED clientVars,
           UNCHANGED <<globals, nglobals, registered, bound, abrupt, rejected, requests>>,
           shown' \in [Holders -> SUBSET bound], nmoves' \in 0..MaxMoves
    PROVE  /\ TypeOK' /\ Unasked' /\ GlobalsFollow' /\ ToldInOrder' /\ NamesFixed' /\ InverseTables'
           /\ OutputsListed' /\ IdsFixed' /\ BoundKnown' /\ BindsRight' /\ OutputsFound'
<1>1. /\ TypeOK /\ Unasked /\ NamesFixed /\ InverseTables /\ OutputsListed /\ IdsFixed /\ BoundKnown
      /\ BindsRight /\ OutputsFound
  BY DEF RegistryInv
<1>2. /\ GlobalsFollow' /\ ToldInOrder' /\ EventNames(events') = EventNames(events)
      /\ \A g : Pending(events', g) <=> Pending(events, g)
  BY QuietAppend DEF QuietEvents, clientVars
<1>3. events' \in Seq(Event)
  BY <1>1, Typed, Adding
<1>4. TypeOK'
  BY <1>1, <1>3 DEF TypeOK, clientVars
<1>5. Unasked'
  BY <1>1 DEF Unasked
<1>6. NamesFixed'
  <2>1. Named' \subseteq Named
    BY <1>2 DEF Named, clientVars
  <2> QED
    BY <1>1, <2>1, NamesSame
<1>7. InverseTables' /\ OutputsListed' /\ BindsRight' /\ OutputsFound'
  BY <1>1 DEF InverseTables, OutputsListed, BindsRight, OutputsFound, clientVars
<1>8. IdsFixed' /\ BoundKnown'
  BY <1>1, <1>2 DEF IdsFixed, BoundKnown, AllOutputs, clientVars
<1> QED
  BY <1>2, <1>4, <1>5, <1>6, <1>7, <1>8

LEMMA HolderRecords ==
    ASSUME NEW e \in Event, NEW h \in Holders
    PROVE  /\ IsHolder(e, h) <=> e = [ev |-> "holder", holder |-> h]
           /\ IsClosed(e, h) <=> e = [ev |-> "closed", holder |-> h]
BY DEF Event, IsHolder, IsClosed

LEMMA AnnouncedIs ==
    ASSUME TypeOK, NEW h \in Holders
    PROVE  /\ Announced(h) <=> Known(h, Len(events) + 1)
           /\ Announced(h) <=> h \in windows \/ \E k \in DOMAIN events : IsHolder(events[k], h)
           /\ Closing(h) <=> \E k \in DOMAIN events : IsClosed(events[k], h)
<1>1. \A k \in DOMAIN events : events[k] \in Event
  BY Typed
<1>2. Len(events) \in Nat /\ DOMAIN events = 1..Len(events) /\ (Len(events) + 1) - 1 = Len(events)
  BY Typed, LenProperties
<1>3. \A k \in DOMAIN events :
        /\ IsHolder(events[k], h) <=> events[k] = [ev |-> "holder", holder |-> h]
        /\ IsClosed(events[k], h) <=> events[k] = [ev |-> "closed", holder |-> h]
  BY <1>1, HolderRecords
<1> QED
  BY <1>2, <1>3 DEF Announced, Closing, Known

LEMMA AnnouncedLater ==
    ASSUME RegistryInv, NEW h \in Holders, Announced(h) \/ bound # {}
    PROVE  registered
BY DEF RegistryInv, Unasked, Announced

LEMMA NewHolderStep ==
    ASSUME RegistryInv, NEW h \in Holders, NewHolder(h)
    PROVE  RegistryInv'
<1> DEFINE m == [ev |-> "holder", holder |-> h]
<1>1. TypeOK /\ Unasked /\ HoldersInOrder /\ MovesFound /\ MovesFollow
  BY DEF RegistryInv
<1>2. /\ initial_sync /\ ~Announced(h) /\ shown' = [shown EXCEPT ![h] = {}]
      /\ events' = Append(events, m)
      /\ UNCHANGED clientVars
      /\ UNCHANGED <<globals, nglobals, registered, bound, nmoves, abrupt, rejected, requests>>
  BY DEF NewHolder
<1>3. m \in Event /\ m.ev = "holder" /\ m.holder = h
  BY DEF Event
<1>4. registered
  BY <1>1, <1>2 DEF Unasked
<1>5. shown \in [Holders -> SUBSET bound] /\ nmoves \in 0..MaxMoves
  BY <1>1 DEF TypeOK
<1>6. h \notin windows /\ \A j \in DOMAIN events : ~IsHolder(events[j], h)
  BY <1>1, <1>2, AnnouncedIs
<1> HIDE DEF m
<1>7. /\ TypeOK' /\ Unasked' /\ GlobalsFollow' /\ ToldInOrder' /\ NamesFixed' /\ InverseTables'
      /\ OutputsListed' /\ IdsFixed' /\ BoundKnown' /\ BindsRight' /\ OutputsFound'
  <2>1. shown' \in [Holders -> SUBSET bound] /\ nmoves' \in 0..MaxMoves
    BY <1>2, <1>5
  <2> QED
    BY <1>2, <1>3, <1>4, <2>1, HolderAppended
<1>8. \A g \in Holders : \A o :
        /\ ~IsOf(m, g) /\ ~IsClosed(m, g) /\ ~IsEnter(m, g, o) /\ ~IsLeave(m, g, o)
        /\ (IsHolder(m, g) <=> g = h) /\ (Off(m, g, o) <=> g = h)
  BY <1>3 DEF IsHolder, IsClosed, IsOf, IsEnter, IsLeave, Off
<1>9. \A g \in Holders : shown'[g] = IF g = h THEN {} ELSE shown[g]
  BY <1>2, <1>5
<1>10. HoldersInOrder'
  <2>1. \A g \in Holders :
          shown'[g] # {} => Known(g, Len(events) + 1) /\ \A j \in DOMAIN events : ~IsClosed(events[j], g)
    BY <1>1, <1>9 DEF HoldersInOrder
  <2>2. UNCHANGED windows
    BY <1>2 DEF clientVars
  <2> QED
    BY <1>1, <1>2, <1>3, <1>6, <1>8, <2>1, <2>2, HoldersAppend
<1>11. MovesFound'
  <2>1. \A g \in Holders : \A o \in shown'[g] : o.global_id \in DOMAIN globals' \cup abrupt'
    BY <1>1, <1>2, <1>9 DEF MovesFound
  <2>2. UNCHANGED <<outputs, bound>> /\ abrupt \subseteq abrupt'
    BY <1>2 DEF clientVars
  <2> QED
    BY <1>1, <1>2, <1>3, <2>1, <2>2, MovesAppend
<1>12. MovesFollow'
  <2>1. \A g \in Holders : \A o \in bound :
          /\ o \in shown'[g] <=> IsEnter(m, g, o) \/ (o \in shown[g] /\ ~Off(m, g, o))
          /\ IsLeave(m, g, o) => o \in shown[g]
    BY <1>8, <1>9
  <2>2. UNCHANGED <<windows, held, raised, bound>>
    BY <1>2 DEF clientVars
  <2> QED
    BY <1>1, <1>2, <1>3, <2>1, <2>2, FollowAppend
<1> QED
  BY <1>7, <1>10, <1>11, <1>12 DEF RegistryInv

LEMMA CloseHolderStep ==
    ASSUME RegistryInv, NEW h \in Holders, CloseHolder(h)
    PROVE  RegistryInv'
<1> DEFINE m == [ev |-> "closed", holder |-> h]
<1>1. TypeOK /\ HoldersInOrder /\ MovesFound /\ MovesFollow
  BY DEF RegistryInv
<1>2. /\ Announced(h) /\ ~Closing(h) /\ shown' = [shown EXCEPT ![h] = {}]
      /\ events' = Append(events, m)
      /\ UNCHANGED clientVars
      /\ UNCHANGED <<globals, nglobals, registered, bound, nmoves, abrupt, rejected, requests>>
  BY DEF CloseHolder
<1>3. m \in Event /\ m.ev = "closed" /\ m.holder = h
  BY DEF Event
<1>4. registered
  BY <1>2, AnnouncedLater
<1>5. shown \in [Holders -> SUBSET bound] /\ nmoves \in 0..MaxMoves
  BY <1>1 DEF TypeOK
<1>6. Known(h, Len(events) + 1) /\ \A j \in DOMAIN events : ~IsClosed(events[j], h)
  BY <1>1, <1>2, AnnouncedIs
<1> HIDE DEF m
<1>7. /\ TypeOK' /\ Unasked' /\ GlobalsFollow' /\ ToldInOrder' /\ NamesFixed' /\ InverseTables'
      /\ OutputsListed' /\ IdsFixed' /\ BoundKnown' /\ BindsRight' /\ OutputsFound'
  <2>1. shown' \in [Holders -> SUBSET bound] /\ nmoves' \in 0..MaxMoves
    BY <1>2, <1>5
  <2> QED
    BY <1>2, <1>3, <1>4, <2>1, HolderAppended
<1>8. \A g \in Holders : \A o :
        /\ ~IsHolder(m, g) /\ ~IsEnter(m, g, o) /\ ~IsLeave(m, g, o)
        /\ (IsOf(m, g) <=> g = h) /\ (IsClosed(m, g) <=> g = h) /\ (Off(m, g, o) <=> g = h)
  BY <1>3 DEF IsHolder, IsClosed, IsOf, IsEnter, IsLeave, Off
<1>9. \A g \in Holders : shown'[g] = IF g = h THEN {} ELSE shown[g]
  BY <1>2, <1>5
<1>10. HoldersInOrder'
  <2>1. \A g \in Holders :
          shown'[g] # {} => Known(g, Len(events) + 1) /\ \A j \in DOMAIN events : ~IsClosed(events[j], g)
    BY <1>1, <1>9 DEF HoldersInOrder
  <2>2. UNCHANGED windows
    BY <1>2 DEF clientVars
  <2>3. \A g \in Holders :
          /\ IsHolder(m, g) => g \notin windows /\ \A j \in DOMAIN events : ~IsHolder(events[j], g)
          /\ IsOf(m, g) \/ shown'[g] # {} =>
               Known(g, Len(events) + 1) /\ \A j \in DOMAIN events : ~IsClosed(events[j], g)
          /\ shown'[g] # {} => ~IsClosed(m, g)
    BY <1>6, <1>8, <1>9, <2>1
  <2> QED
    BY <1>1, <1>2, <1>3, <2>2, <2>3, HoldersAppend
<1>11. MovesFound'
  <2>1. \A g \in Holders : \A o \in shown'[g] : o.global_id \in DOMAIN globals' \cup abrupt'
    BY <1>1, <1>2, <1>9 DEF MovesFound
  <2>2. UNCHANGED <<outputs, bound>> /\ abrupt \subseteq abrupt'
    BY <1>2 DEF clientVars
  <2> QED
    BY <1>1, <1>2, <1>3, <2>1, <2>2, MovesAppend
<1>12. MovesFollow'
  <2>1. \A g \in Holders : \A o \in bound :
          /\ o \in shown'[g] <=> IsEnter(m, g, o) \/ (o \in shown[g] /\ ~Off(m, g, o))
          /\ IsLeave(m, g, o) => o \in shown[g]
    BY <1>8, <1>9
  <2>2. UNCHANGED <<windows, held, raised, bound>>
    BY <1>2 DEF clientVars
  <2> QED
    BY <1>1, <1>2, <1>3, <2>1, <2>2, FollowAppend
<1> QED
  BY <1>7, <1>10, <1>11, <1>12 DEF RegistryInv

\* An output that the compositor still has is in the list, with no removal on its way.
LEMMA BoundFound ==
    ASSUME RegistryInv, NEW o \in bound, o.global_id \in DOMAIN globals
    PROVE  o \in ToSet(outputs) /\ ~Removing(events, o.global_id)
<1>1. /\ TypeOK /\ GlobalsFollow /\ IdsFixed /\ BoundKnown
  BY DEF RegistryInv
<1>2. registered
  BY AnnouncedLater DEF RegistryInv, Unasked
<1>3. o.global_id \in Gids
  BY <1>1 DEF TypeOK, Output
<1>4. (o.global_id \in DOMAIN registry \/ Pending(events, o.global_id)) /\ ~Removing(events, o.global_id)
  BY <1>1, <1>2, <1>3 DEF GlobalsFollow
<1>5. ~Pending(events, o.global_id)
  BY <1>1 DEF IdsFixed, AllOutputs
<1> QED
  BY <1>1, <1>4, <1>5 DEF BoundKnown

LEMMA OutputEnterStep ==
    ASSUME RegistryInv, NEW h \in Holders, NEW o \in bound, Enter(h, o)
    PROVE  RegistryInv'
<1> DEFINE m == [ev |-> "enter", holder |-> h, obj_id |-> o.obj_id]
<1>1. TypeOK /\ HoldersInOrder /\ MovesFound /\ MovesFollow /\ IdsFixed
  BY DEF RegistryInv
<1>2. /\ Announced(h) /\ ~Closing(h) /\ shown' = [shown EXCEPT ![h] = shown[h] \cup {o}]
      /\ o.global_id \in DOMAIN globals
      /\ events' = Append(events, m)
      /\ nmoves < MaxMoves /\ nmoves' = nmoves + 1
      /\ UNCHANGED clientVars
      /\ UNCHANGED <<globals, nglobals, registered, bound, abrupt, rejected, requests>>
  BY DEF Enter
<1>3. bound \subseteq Output /\ shown \in [Holders -> SUBSET bound] /\ nmoves \in 0..MaxMoves
  BY <1>1 DEF TypeOK
<1>4. m \in Event /\ m.ev = "enter" /\ m.holder = h /\ m.obj_id = o.obj_id
  <2>1. o.obj_id \in ObjIds
    BY <1>3 DEF Output
  <2> QED
    BY <2>1 DEF Event
<1>5. registered
  BY <1>2, AnnouncedLater
<1>6. Known(h, Len(events) + 1) /\ \A j \in DOMAIN events : ~IsClosed(events[j], h)
  BY <1>1, <1>2, AnnouncedIs
<1> HIDE DEF m
<1>7. /\ TypeOK' /\ Unasked' /\ GlobalsFollow' /\ ToldInOrder' /\ NamesFixed' /\ InverseTables'
      /\ OutputsListed' /\ IdsFixed' /\ BoundKnown' /\ BindsRight' /\ OutputsFound'
  <2>1. shown' \in [Holders -> SUBSET bound]
    BY <1>2, <1>3
  <2>2. nmoves' \in 0..MaxMoves
    BY <1>2, <1>3, BoundsAssumption
  <2> QED
    BY <1>2, <1>4, <1>5, <2>1, <2>2, HolderAppended
<1>8. \A p \in bound : p.obj_id = o.obj_id => p = o
  BY <1>1 DEF IdsFixed, AllOutputs
<1>9. \A g \in Holders : \A p \in bound :
        /\ ~IsHolder(m, g) /\ ~IsClosed(m, g) /\ ~IsLeave(m, g, p) /\ ~Off(m, g, p)
        /\ (IsOf(m, g) <=> g = h) /\ (IsEnter(m, g, p) <=> g = h /\ p = o)
  BY <1>4, <1>8 DEF IsHolder, IsClosed, IsOf, IsEnter, IsLeave, Off
<1>10. \A g \in Holders : shown'[g] = IF g = h THEN shown[h] \cup {o} ELSE shown[g]
  BY <1>2, <1>3
<1>11. HoldersInOrder'
  <2>1. \A g \in Holders :
          shown'[g] # {} => Known(g, Len(events) + 1) /\ \A j \in DOMAIN events : ~IsClosed(events[j], g)
    BY <1>1, <1>6, <1>10 DEF HoldersInOrder
  <2>2. UNCHANGED windows
    BY <1>2 DEF clientVars
  <2> QED
    BY <1>1, <1>2, <1>4, <1>6, <1>9, <2>1, <2>2, HoldersAppend
<1>12. MovesFound'
  <2>1. \A g \in Holders : \A p \in shown'[g] : p.global_id \in DOMAIN globals' \cup abrupt'
    BY <1>1, <1>2, <1>10 DEF MovesFound
  <2>2. UNCHANGED <<outputs, bound>> /\ abrupt \subseteq abrupt'
    BY <1>2 DEF clientVars
  <2>3. o \in ToSet(outputs) /\ ~Removing(events, o.global_id)
    BY <1>2, BoundFound
  <2> QED
    BY <1>1, <1>2, <1>4, <2>1, <2>2, <2>3, MovesAppend
<1>13. MovesFollow'
  <2>1. \A g \in Holders : \A p \in bound :
          /\ p \in shown'[g] <=> IsEnter(m, g, p) \/ (p \in shown[g] /\ ~Off(m, g, p))
          /\ IsLeave(m, g, p) => p \in shown[g]
    BY <1>9, <1>10
  <2>2. UNCHANGED <<windows, held, raised, bound>>
    BY <1>2 DEF clientVars
  <2> QED
    BY <1>1, <1>2, <1>4, <2>1, <2>2, FollowAppend
<1> QED
  BY <1>7, <1>11, <1>12, <1>13 DEF RegistryInv

LEMMA OutputLeaveStep ==
    ASSUME RegistryInv, NEW h \in Holders, NEW o \in bound, Leave(h, o)
    PROVE  RegistryInv'
<1> DEFINE m == [ev |-> "leave", holder |-> h, obj_id |-> o.obj_id]
<1>1. TypeOK /\ HoldersInOrder /\ MovesFound /\ MovesFollow /\ IdsFixed
  BY DEF RegistryInv
<1>2. /\ o \in shown[h] /\ shown' = [shown EXCEPT ![h] = shown[h] \ {o}]
      /\ events' = Append(events, m)
      /\ UNCHANGED clientVars
      /\ UNCHANGED <<globals, nglobals, registered, bound, nmoves, abrupt, rejected, requests>>
  BY DEF Leave
<1>3. bound \subseteq Output /\ shown \in [Holders -> SUBSET bound] /\ nmoves \in 0..MaxMoves
  BY <1>1 DEF TypeOK
<1>4. m \in Event /\ m.ev = "leave" /\ m.holder = h /\ m.obj_id = o.obj_id
  <2>1. o.obj_id \in ObjIds
    BY <1>3 DEF Output
  <2> QED
    BY <2>1 DEF Event
<1>5. registered
  BY AnnouncedLater
<1>6. Known(h, Len(events) + 1) /\ \A j \in DOMAIN events : ~IsClosed(events[j], h)
  BY <1>1, <1>2 DEF HoldersInOrder
<1> HIDE DEF m
<1>7. /\ TypeOK' /\ Unasked' /\ GlobalsFollow' /\ ToldInOrder' /\ NamesFixed' /\ InverseTables'
      /\ OutputsListed' /\ IdsFixed' /\ BoundKnown' /\ BindsRight' /\ OutputsFound'
  <2>1. shown' \in [Holders -> SUBSET bound] /\ nmoves' \in 0..MaxMoves
    BY <1>2, <1>3
  <2> QED
    BY <1>2, <1>4, <1>5, <2>1, HolderAppended
<1>8. \A p \in bound : p.obj_id = o.obj_id => p = o
  BY <1>1 DEF IdsFixed, AllOutputs
<1>9. \A g \in Holders : \A p \in bound :
        /\ ~IsHolder(m, g) /\ ~IsClosed(m, g) /\ ~IsEnter(m, g, p)
        /\ (IsOf(m, g) <=> g = h) /\ (IsLeave(m, g, p) <=> g = h /\ p = o)
        /\ (Off(m, g, p) <=> g = h /\ p = o)
  BY <1>4, <1>8 DEF IsHolder, IsClosed, IsOf, IsEnter, IsLeave, Off
<1>10. \A g \in Holders : shown'[g] = IF g = h THEN shown[h] \ {o} ELSE shown[g]
  BY <1>2, <1>3
<1>11. HoldersInOrder'
  <2>1. \A g \in Holders :
          shown'[g] # {} => Known(g, Len(events) + 1) /\ \A j \in DOMAIN events : ~IsClosed(events[j], g)
    BY <1>1, <1>6, <1>10 DEF HoldersInOrder
  <2>2. UNCHANGED windows
    BY <1>2 DEF clientVars
  <2> QED
    BY <1>1, <1>2, <1>4, <1>6, <1>9, <2>1, <2>2, HoldersAppend
<1>12. MovesFound'
  <2>1. \A g \in Holders : \A p \in shown'[g] : p.global_id \in DOMAIN globals' \cup abrupt'
    BY <1>1, <1>2, <1>10 DEF MovesFound
  <2>2. UNCHANGED <<outputs, bound>> /\ abrupt \subseteq abrupt'
    BY <1>2 DEF clientVars
  <2>3. \/ o \in ToSet(outputs) /\ ~Removing(events, o.global_id)
        \/ o.global_id \in abrupt
    <3>1. o.global_id \in DOMAIN globals \cup abrupt
      BY <1>1, <1>2 DEF MovesFound
    <3> QED
      BY <3>1, BoundFound
  <2> QED
    BY <1>1, <1>2, <1>4, <2>1, <2>2, <2>3, MovesAppend
<1>13. MovesFollow'
  <2>1. \A g \in Holders : \A p \in bound :
          /\ p \in shown'[g] <=> IsEnter(m, g, p) \/ (p \in shown[g] /\ ~Off(m, g, p))
          /\ IsLeave(m, g, p) => p \in shown[g]
    BY <1>2, <1>9, <1>10
  <2>2. UNCHANGED <<windows, held, raised, bound>>
    BY <1>2 DEF clientVars
  <2> QED
    BY <1>1, <1>2, <1>4, <2>1, <2>2, FollowAppend
<1> QED
  BY <1>7, <1>11, <1>12, <1>13 DEF RegistryInv

-----------------------------------------------------------------------------
\* The compositor's globals come and go.
LEMMA TablesAppended ==
    ASSUME RegistryInv, NEW m \in Event, m.ev \in {"global", "global_remove"},
           events' = events \/ events' = Append(events, m), UNCHANGED clientVars,
           UNCHANGED <<shown, bound>>, abrupt \subseteq abrupt',
           \A h \in Holders : \A o \in shown[h] : o.global_id \in DOMAIN globals' \cup abrupt'
    PROVE  HoldersInOrder' /\ MovesFound' /\ MovesFollow'
<1>1. TypeOK /\ HoldersInOrder /\ MovesFound /\ MovesFollow
  BY DEF RegistryInv
<1>2. UNCHANGED <<windows, held, raised, outputs>>
  BY DEF clientVars
<1>3. \A h \in Holders : \A o :
        /\ ~IsHolder(m, h) /\ ~IsClosed(m, h) /\ ~IsOf(m, h)
        /\ ~IsEnter(m, h, o) /\ ~IsLeave(m, h, o) /\ ~Off(m, h, o)
  BY DEF IsHolder, IsClosed, IsOf, IsEnter, IsLeave, Off
<1>4. CASE events' = events
  <2>1. HoldersInOrder' /\ MovesFollow'
    BY <1>1, <1>2, <1>4 DEF HoldersInOrder, MovesFollow, Running, Known, On
  <2>2. MovesFound'
    <3>1. ASSUME NEW k \in DOMAIN events, events[k].ev = "leave"
          PROVE  \E o \in bound : o.obj_id = events[k].obj_id /\ (Found(o, k) \/ o.global_id \in abrupt')
      BY <1>1, <3>1 DEF MovesFound
    <3> QED
      BY <1>1, <1>2, <1>4, <3>1 DEF MovesFound, Found
  <2> QED
    BY <2>1, <2>2
<1>5. CASE events' = Append(events, m)
  <2>1. HoldersInOrder'
    <3>1. \A h \in Holders :
            shown[h] # {} => Known(h, Len(events) + 1) /\ \A j \in DOMAIN events : ~IsClosed(events[j], h)
      BY <1>1 DEF HoldersInOrder
    <3>2. \A h \in Holders :
            /\ IsHolder(m, h) => h \notin windows /\ \A j \in DOMAIN events : ~IsHolder(events[j], h)
            /\ IsOf(m, h) \/ shown'[h] # {} =>
                 Known(h, Len(events) + 1) /\ \A j \in DOMAIN events : ~IsClosed(events[j], h)
            /\ shown'[h] # {} => ~IsClosed(m, h)
      BY <1>3, <3>1
    <3> QED
      BY <1>1, <1>2, <1>5, <3>2, HoldersAppend
  <2>2. MovesFound'
    BY <1>1, <1>2, <1>5, MovesAppend
  <2>3. MovesFollow'
    BY <1>1, <1>2, <1>3, <1>5, FollowAppend
  <2> QED
    BY <2>1, <2>2, <2>3
<1> QED
  BY <1>4, <1>5

\* The number of the next global has not been used.
LEMMA Fresh ==
    ASSUME TypeOK, NamesFixed, ToldInOrder, NEW g \in Nat, g > nglobals
    PROVE  /\ g \notin DOMAIN registry /\ g \notin DOMAIN globals
           /\ ~Pending(events, g) /\ (g \in Gids => ~Removing(events, g))
           /\ \A a \in Named : a[1] # g
<1>1. nglobals \in Nat /\ \A a \in Named : a[1] <= nglobals
  BY Typed DEF NamesFixed
<1>2. \A a \in Named : a[1] # g
  BY <1>1
<1>3. \A i \in DOMAIN registry : <<i, registry[i]>> \in Named
  BY DEF Named, Pairs
<1>4. \A i \in DOMAIN globals : <<i, globals[i]>> \in Named
  BY DEF Named, Pairs
<1>5. ASSUME Pending(events, g) PROVE FALSE
  <2>1. PICK k \in DOMAIN events : events[k].ev = "global" /\ events[k].gid = g
    BY <1>5 DEF Pending, IsGlobal
  <2>2. <<events[k].gid, events[k].name>> \in Named
    BY <2>1 DEF Named, EventNames
  <2> QED
    BY <1>2, <2>1, <2>2
<1>6. ASSUME Removing(events, g), g \in Gids PROVE FALSE
  BY <1>1, <1>6 DEF Removing, ToldInOrder
<1> QED
  BY <1>2, <1>3, <1>4, <1>5, <1>6

LEMMA AddGlobalStep ==
    ASSUME RegistryInv, NEW name \in Hotplug, AddGlobal(name)
    PROVE  RegistryInv'
<1> DEFINE g == nglobals + 1
           m == [ev |-> "global", gid |-> g, name |-> name]
<1>1. /\ TypeOK /\ Unasked /\ GlobalsFollow /\ ToldInOrder /\ NamesFixed /\ InverseTables
      /\ OutputsListed /\ IdsFixed /\ BoundKnown /\ BindsRight /\ MovesFound /\ OutputsFound
  BY DEF RegistryInv
<1>2. /\ nglobals < MaxGlobals /\ nglobals' = g /\ globals' = With(globals, g, name)
      /\ events' = (IF registered THEN Append(events, m) ELSE events)
      /\ UNCHANGED clientVars
      /\ UNCHANGED <<registered, bound, shown, nmoves, abrupt, rejected, requests>>
  BY DEF AddGlobal
<1>3. /\ nglobals \in Nat /\ MaxGlobals \in Nat /\ g \in Nat /\ g > nglobals /\ g \in Gids
      /\ nglobals <= g /\ g \in 0..MaxGlobals /\ 1..nglobals \subseteq 1..g /\ g \in 1..g
      /\ \A i \in Nat : i <= nglobals => i <= g /\ i # g
  BY <1>1, <1>2, Typed, BoundsAssumption
<1>4. name \in Names
  BY NamesAssumption
<1>5. m \in Event /\ m.ev = "global" /\ m.gid = g /\ m.name = name
  BY <1>3, <1>4 DEF Event
<1>6. /\ g \notin DOMAIN registry /\ g \notin DOMAIN globals
      /\ ~Pending(events, g) /\ ~Removing(events, g) /\ \A a \in Named : a[1] # g
  BY <1>1, <1>3, Fresh
<1>7. /\ DOMAIN globals' = DOMAIN globals \cup {g} /\ globals'[g] = name
      /\ \A i \in DOMAIN globals : globals'[i] = globals[i]
      /\ globals' \in [DOMAIN globals' -> Names]
  <2>1. globals \in [DOMAIN globals -> Names]
    BY <1>1 DEF TypeOK
  <2> HIDE DEF g
  <2> QED
    BY <1>2, <1>4, <1>6, <2>1 DEF With
<1> HIDE DEF g, m
<1>8. /\ events' \in Seq(Event)
      /\ registered => \A i : Pending(events', i) <=> i = g \/ Pending(events, i)
      /\ registered => \A i : Removing(events', i) <=> Removing(events, i)
      /\ EventNames(events') \subseteq EventNames(events) \cup {<<g, name>>}
  <2>1. events \in Seq(Event)
    BY <1>1, Typed
  <2>2. Append(events, m) \in Seq(Event)
    BY <1>5, <2>1, Adding
  <2>3. /\ \A i : Pending(Append(events, m), i) <=> IsGlobal(m, i) \/ Pending(events, i)
        /\ \A i : Removing(Append(events, m), i) <=> IsRemove(m, i) \/ Removing(events, i)
        /\ EventNames(Append(events, m)) =
             EventNames(events) \cup (IF m.ev = "global" THEN {<<m.gid, m.name>>} ELSE {})
    BY <1>5, <2>1, EventsAppend
  <2>4. \A i : (IsGlobal(m, i) <=> i = g) /\ ~IsRemove(m, i)
    BY <1>5 DEF IsGlobal, IsRemove
  <2> QED
    BY <1>2, <1>5, <2>1, <2>2, <2>3, <2>4
<1>9. TypeOK'
  <2>1. DOMAIN globals' \subseteq 1..nglobals' /\ nglobals' \in 0..MaxGlobals
    BY <1>1, <1>2, <1>3, <1>7 DEF TypeOK
  <2> QED
    BY <1>1, <1>2, <1>7, <1>8, <2>1 DEF TypeOK, clientVars
<1>10. Unasked'
  BY <1>1, <1>2 DEF Unasked, clientVars
<1>11. GlobalsFollow'
  <2>1. ASSUME registered, NEW i \in Gids
        PROVE  /\ i \in DOMAIN globals' <=>
                    (i \in DOMAIN registry \/ Pending(events', i)) /\ ~Removing(events', i)
               /\ i \in DOMAIN registry => ~Pending(events', i)
    BY <1>1, <1>6, <1>7, <1>8, <2>1 DEF GlobalsFollow
  <2> QED
    BY <1>2, <2>1 DEF GlobalsFollow, clientVars
<1>12. ToldInOrder'
  <2>1. nglobals' \in Nat /\ nglobals <= nglobals'
    BY <1>2, <1>3
  <2>2. CASE registered
    <3>1. events' = Append(events, m)
      BY <1>2, <2>2
    <3>2. m.ev = "global" => ~Pending(events, m.gid) /\ ~Removing(events, m.gid)
      BY <1>5, <1>6
    <3>3. m.ev = "global_remove" => m.gid <= nglobals'
      BY <1>5
    <3> QED
      BY <1>1, <1>5, <2>1, <3>1, <3>2, <3>3, ToldAppend
  <2>3. CASE ~registered
    <3>1. events' = <<>>
      BY <1>1, <1>2, <2>3 DEF Unasked
    <3> QED
      BY <3>1 DEF ToldInOrder
  <2> QED
    BY <2>2, <2>3
<1>13. NamesFixed'
  <2>1. Pairs(globals') \subseteq Pairs(globals) \cup {<<g, name>>}
    BY <1>7 DEF Pairs
  <2>2. Named' \subseteq Named \cup {<<g, name>>}
    BY <1>2, <1>8, <2>1 DEF Named, clientVars
  <2>3. ASSUME NEW a \in Named', NEW b \in Named', a[1] = b[1] PROVE a[2] = b[2]
    <3>1. (a \in Named /\ b \in Named) \/ (a = <<g, name>> /\ b = <<g, name>>)
      BY <1>6, <2>2, <2>3
    <3> QED
      BY <1>1, <2>3, <3>1 DEF NamesFixed
  <2>4. \A a \in Named : a[1] \in Nat
    BY <1>1, NamesNumbered
  <2>5. ASSUME NEW a \in Named' PROVE a[1] <= g
    <3>1. CASE a \in Named
      <4>1. a[1] \in Nat /\ a[1] <= nglobals
        BY <1>1, <2>4, <3>1 DEF NamesFixed
      <4> QED
        BY <1>3, <4>1
    <3>2. CASE a = <<g, name>>
      BY <1>3, <3>2
    <3> QED
      BY <2>2, <3>1, <3>2
  <2> QED
    BY <1>2, <2>3, <2>5 DEF NamesFixed
<1>14. InverseTables' /\ OutputsListed' /\ BindsRight' /\ OutputsFound'
  BY <1>1, <1>2 DEF InverseTables, OutputsListed, BindsRight, OutputsFound, clientVars
<1>15. \A o \in AllOutputs : o.global_id <= g /\ o.global_id # g
  <2>1. ASSUME NEW o \in AllOutputs PROVE o.global_id \in Nat /\ o.global_id <= nglobals
    BY <1>1, OutputsTyped DEF IdsFixed
  <2> QED
    BY <1>3, <2>1
<1>16. IdsFixed'
  <2>1. AllOutputs' = AllOutputs
    BY <1>2 DEF AllOutputs, clientVars
  <2>2. \A o \in AllOutputs : ~Pending(events', o.global_id)
    BY <1>1, <1>2, <1>8, <1>15 DEF IdsFixed
  <2> QED
    BY <1>1, <1>2, <1>15, <2>1, <2>2 DEF IdsFixed, clientVars
<1>17. BoundKnown'
  <2>1. \A o \in ToSet(outputs) : o.global_id \in DOMAIN globals' => o.global_id \in DOMAIN globals
    BY <1>7, <1>15 DEF AllOutputs
  <2> QED
    BY <1>1, <1>2, <2>1 DEF BoundKnown, clientVars
<1>18. HoldersInOrder' /\ MovesFound' /\ MovesFollow'
  <2>1. \A h \in Holders : \A o \in shown[h] : o.global_id \in DOMAIN globals' \cup abrupt'
    BY <1>1, <1>2, <1>7 DEF MovesFound
  <2>2. events' = events \/ events' = Append(events, m)
    BY <1>2
  <2> QED
    BY <1>2, <1>5, <2>1, <2>2, TablesAppended
<1> QED
  BY <1>9, <1>10, <1>11, <1>12, <1>13, <1>14, <1>16, <1>17, <1>18 DEF RegistryInv

LEMMA RemoveGlobalStep ==
    ASSUME RegistryInv, NEW g \in DOMAIN globals, RemoveGlobal(g)
    PROVE  RegistryInv'
<1> DEFINE m == [ev |-> "global_remove", gid |-> g]
<1>1. /\ TypeOK /\ Unasked /\ GlobalsFollow /\ ToldInOrder /\ NamesFixed /\ InverseTables
      /\ OutputsListed /\ IdsFixed /\ BoundKnown /\ BindsRight /\ MovesFound /\ OutputsFound
  BY DEF RegistryInv
<1>2. /\ globals' = Without(globals, g)
      /\ events' = (IF registered THEN Append(events, m) ELSE events)
      /\ abrupt' = abrupt \cup {o.global_id : o \in {p \in UNION Range(shown) : p.global_id = g}}
      /\ UNCHANGED clientVars
      /\ UNCHANGED <<nglobals, registered, bound, shown, nmoves, rejected, requests>>
  BY DEF RemoveGlobal
<1>3. /\ nglobals \in Nat /\ nglobals <= MaxGlobals /\ DOMAIN globals \subseteq 1..nglobals
      /\ globals \in [DOMAIN globals -> Names] /\ abrupt \subseteq Gids
      /\ shown \in [Holders -> SUBSET bound]
  BY <1>1, Typed DEF TypeOK
<1>4. g \in Gids /\ g <= nglobals
  BY <1>3, BoundsAssumption
<1>5. m \in Event /\ m.ev = "global_remove" /\ m.gid = g
  BY <1>4 DEF Event
<1>6. /\ DOMAIN globals' = DOMAIN globals \ {g}
      /\ \A i \in DOMAIN globals' : globals'[i] = globals[i]
      /\ globals' \in [DOMAIN globals' -> Names]
  BY <1>2, <1>3 DEF Without, Restrict
<1>7. /\ abrupt \subseteq abrupt' /\ abrupt' \subseteq abrupt \cup {g}
      /\ \A h \in Holders : \A o \in shown[h] : o.global_id = g => g \in abrupt'
  <2>1. \A h \in Holders : shown[h] \subseteq UNION Range(shown)
    BY <1>3 DEF Range
  <2> QED
    BY <1>2, <2>1
<1> HIDE DEF m
<1>8. /\ events' \in Seq(Event)
      /\ \A i : Pending(events', i) <=> Pending(events, i)
      /\ registered => \A i : Removing(events', i) <=> i = g \/ Removing(events, i)
      /\ EventNames(events') = EventNames(events)
  <2>1. events \in Seq(Event)
    BY <1>1, Typed
  <2>2. Append(events, m) \in Seq(Event)
    BY <1>5, <2>1, Adding
  <2>3. /\ \A i : Pending(Append(events, m), i) <=> IsGlobal(m, i) \/ Pending(events, i)
        /\ \A i : Removing(Append(events, m), i) <=> IsRemove(m, i) \/ Removing(events, i)
        /\ EventNames(Append(events, m)) =
             EventNames(events) \cup (IF m.ev = "global" THEN {<<m.gid, m.name>>} ELSE {})
    BY <1>5, <2>1, EventsAppend
  <2>4. \A i : ~IsGlobal(m, i) /\ (IsRemove(m, i) <=> i = g)
    BY <1>5 DEF IsGlobal, IsRemove
  <2> QED
    BY <1>2, <1>5, <2>1, <2>2, <2>3, <2>4
<1>9. TypeOK'
  <2>1. DOMAIN globals' \subseteq 1..nglobals' /\ abrupt' \subseteq Gids
    BY <1>2, <1>3, <1>4, <1>6, <1>7
  <2> QED
    BY <1>1, <1>2, <1>6, <1>8, <2>1 DEF TypeOK, clientVars
<1>10. Unasked'
  BY <1>1, <1>2 DEF Unasked, clientVars
<1>11. GlobalsFollow'
  <2>1. ASSUME registered, NEW i \in Gids
        PROVE  /\ i \in DOMAIN globals' <=>
                    (i \in DOMAIN registry \/ Pending(events', i)) /\ ~Removing(events', i)
               /\ i \in DOMAIN registry => ~Pending(events', i)
    BY <1>1, <1>6, <1>8, <2>1 DEF GlobalsFollow
  <2> QED
    BY <1>2, <2>1 DEF GlobalsFollow, clientVars
<1>12. ToldInOrder'
  <2>1. nglobals' \in Nat /\ nglobals <= nglobals' /\ m.gid <= nglobals'
    BY <1>2, <1>3, <1>4, <1>5
  <2>2. CASE registered
    <3>1. events' = Append(events, m)
      BY <1>2, <2>2
    <3> QED
      BY <1>1, <1>5, <2>1, <3>1, ToldAppend
  <2>3. CASE ~registered
    <3>1. events' = <<>>
      BY <1>1, <1>2, <2>3 DEF Unasked
    <3> QED
      BY <3>1 DEF ToldInOrder
  <2> QED
    BY <2>2, <2>3
<1>13. NamesFixed'
  <2>1. Pairs(globals') \subseteq Pairs(globals)
    BY <1>6 DEF Pairs
  <2>2. Named' \subseteq Named
    BY <1>2, <1>8, <2>1 DEF Named, clientVars
  <2> QED
    BY <1>1, <1>2, <2>2, NamesSame
<1>14. InverseTables' /\ OutputsListed' /\ BindsRight'
  BY <1>1, <1>2 DEF InverseTables, OutputsListed, BindsRight, clientVars
<1>15. IdsFixed' /\ BoundKnown'
  BY <1>1, <1>2, <1>6, <1>8 DEF IdsFixed, BoundKnown, AllOutputs, clientVars
<1>16. OutputsFound'
  BY <1>1, <1>2, <1>7 DEF OutputsFound, clientVars
<1>17. HoldersInOrder' /\ MovesFound' /\ MovesFollow'
  <2>1. ASSUME NEW h \in Holders, NEW o \in shown[h] PROVE o.global_id \in DOMAIN globals' \cup abrupt'
    <3>1. o.global_id \in DOMAIN globals \cup abrupt
      BY <1>1 DEF MovesFound
    <3> QED
      BY <1>6, <1>7, <3>1
  <2>2. events' = events \/ events' = Append(events, m)
    BY <1>2
  <2> QED
    BY <1>2, <1>5, <1>7, <2>1, <2>2, TablesAppended
<1> QED
  BY <1>9, <1>10, <1>11, <1>12, <1>13, <1>14, <1>15, <1>16, <1>17 DEF RegistryInv

-----------------------------------------------------------------------------
\* The compositor serves get_registry and bind.
LEMMA ServeBindStep ==
    ASSUME RegistryInv, ServeBind
    PROVE  RegistryInv'
<1> DEFINE b == Head(requests)
           new == [obj_id |-> b.obj_id, global_id |-> b.gid]
<1>1. /\ TypeOK /\ Unasked /\ GlobalsFollow /\ ToldInOrder /\ NamesFixed /\ InverseTables
      /\ OutputsListed /\ IdsFixed /\ BoundKnown /\ BindsRight /\ HoldersInOrder
      /\ MovesFound /\ MovesFollow /\ OutputsFound
  BY DEF RegistryInv
<1>2. /\ requests # <<>> /\ b.op = "bind" /\ requests' = Tail(requests)
      /\ rejected' = (\/ rejected
                      \/ b.version > Offered[b.name]
                      \/ b.gid > nglobals
                      \/ b.gid \in DOMAIN globals /\ globals[b.gid] # b.name)
      /\ bound' = (IF b.gid \in DOMAIN globals /\ b.name = "wl_output" THEN bound \cup {new} ELSE bound)
      /\ UNCHANGED clientVars
      /\ UNCHANGED <<globals, nglobals, registered, shown, nmoves, abrupt, events>>
  BY DEF ServeBind, TakeRequest
<1>3. requests \in Seq(Request)
  BY <1>1, Typed
<1>4. /\ b \in Request /\ b = requests[1] /\ 1 \in DOMAIN requests /\ requests' \in Seq(Request)
      /\ \A k \in DOMAIN requests' : k + 1 \in DOMAIN requests
      /\ \A k \in DOMAIN requests' : requests'[k] = requests[k + 1]
  BY <1>2, <1>3, Taking
<1>5. /\ RequestNames(requests') \subseteq RequestNames(requests)
      /\ <<b.gid, b.name>> \in RequestNames(requests)
      /\ Binding(requests) = Binding(requests') \cup (IF b.name = "wl_output" THEN {new} ELSE {})
  BY <1>2, <1>3, RequestsTail
<1>6. b.gid \in Gids /\ b.name \in Names /\ b.version \in Nat /\ b.obj_id \in ObjIds
  BY <1>2, <1>4 DEF Request
<1>7. registered
  BY <1>1, <1>2 DEF Unasked
<1>8. \/ bound' = bound
      \/ b.name = "wl_output" /\ b.gid \in DOMAIN globals /\ bound' = bound \cup {new}
  BY <1>2
<1>9. new \in Output /\ (b.name = "wl_output" => new \in Binding(requests))
  BY <1>5, <1>6 DEF Output
<1>10. new.obj_id = b.obj_id /\ new.global_id = b.gid
  OBVIOUS
<1>11. b.name = "wl_output" /\ b.gid \notin DOMAIN globals => bound' = bound
  BY <1>2
<1> HIDE DEF b, new
<1>12. ~rejected'
  <2>1. ~rejected /\ b.version <= Offered[b.name]
    BY <1>1, <1>2, <1>4 DEF BindsRight
  <2>2. Offered[b.name] \in Nat /\ nglobals \in Nat
    BY <1>1, <1>6, NamesAssumption, Typed
  <2>3. ~(b.version > Offered[b.name])
    BY <1>6, <2>1, <2>2
  <2>4. <<b.gid, b.name>> \in Named
    BY <1>5 DEF Named
  <2>5. b.gid <= nglobals
    BY <1>1, <2>4 DEF NamesFixed
  <2>6. ~(b.gid > nglobals)
    BY <1>6, <2>2, <2>5, BoundsAssumption
  <2>7. ASSUME b.gid \in DOMAIN globals PROVE globals[b.gid] = b.name
    <3>1. <<b.gid, globals[b.gid]>> \in Named
      BY <2>7 DEF Named, Pairs
    <3> QED
      BY <1>1, <2>4, <3>1 DEF NamesFixed
  <2> QED
    BY <1>2, <2>1, <2>3, <2>6, <2>7
<1>13. AllOutputs' \subseteq AllOutputs
  BY <1>2, <1>5, <1>8, <1>9 DEF AllOutputs, clientVars
<1>14. TypeOK'
  <2>1. bound' \subseteq Output /\ bound \subseteq bound' /\ shown' \in [Holders -> SUBSET bound']
    <3>1. bound \subseteq Output /\ shown \in [Holders -> SUBSET bound]
      BY <1>1 DEF TypeOK
    <3> QED
      BY <1>2, <1>8, <1>9, <3>1
  <2> QED
    BY <1>1, <1>2, <1>4, <1>12, <2>1 DEF TypeOK, clientVars
<1>15. Unasked'
  BY <1>1, <1>2, <1>4, <1>7 DEF Unasked
<1>16. GlobalsFollow' /\ ToldInOrder' /\ InverseTables' /\ OutputsListed'
  BY <1>1, <1>2 DEF GlobalsFollow, ToldInOrder, InverseTables, OutputsListed, clientVars
<1>17. NamesFixed'
  <2>1. Named' \subseteq Named
    BY <1>2, <1>5 DEF Named, clientVars
  <2> QED
    BY <1>1, <1>2, <2>1, NamesSame
<1>18. IdsFixed'
  BY <1>1, <1>2, <1>13 DEF IdsFixed, clientVars
<1>19. BoundKnown'
  <2>1. bound' \cup Binding(requests') \subseteq bound \cup Binding(requests)
    BY <1>5, <1>8, <1>9
  <2>2. ASSUME NEW o \in ToSet(outputs), o.global_id \in DOMAIN globals
        PROVE  o \in bound' \cup Binding(requests')
    <3>1. o \in bound \/ o \in Binding(requests)
      BY <1>1, <2>2 DEF BoundKnown
    <3>2. CASE o = new /\ b.name = "wl_output"
      BY <1>2, <1>10, <2>2, <3>2
    <3>3. CASE ~(o = new /\ b.name = "wl_output")
      BY <1>5, <1>8, <3>1, <3>3
    <3> QED
      BY <3>2, <3>3
  <2> QED
    BY <1>1, <1>2, <2>1, <2>2 DEF BoundKnown, clientVars
<1>20. BindsRight'
  BY <1>1, <1>4, <1>12 DEF BindsRight
<1>21. HoldersInOrder'
  BY <1>1, <1>2 DEF HoldersInOrder, Known, clientVars
<1>22. MovesFound' /\ OutputsFound'
  <2>1. bound \subseteq bound'
    BY <1>8
  <2> QED
    BY <1>1, <1>2, <2>1 DEF MovesFound, OutputsFound, Found, clientVars
\* No event in flight is about an output that is being bound.
<1>23. MovesFollow'
  <2>1. \A h \in Holders : \A o : \A k \in Nat : On(h, o, k)' <=> On(h, o, k)
    BY <1>2 DEF On, clientVars
  <2>2. Len(events) + 1 \in Nat /\ DOMAIN events \subseteq Nat
    BY <1>1, Typed, LenProperties
  <2>3. ASSUME Running, NEW h \in Holders, NEW o \in bound', o \notin bound
        PROVE  /\ o \notin shown[h]
               /\ ~On(h, o, Len(events) + 1)
               /\ \A k \in DOMAIN events : ~IsLeave(events[k], h, o)
    <3>1. o = new /\ b.name = "wl_output"
      BY <1>8, <2>3
    <3>2. \A p \in bound : p.obj_id # o.obj_id
      BY <1>1, <1>9, <2>3, <3>1 DEF IdsFixed, AllOutputs
    <3>3. \A k \in DOMAIN events : ~IsEnter(events[k], h, o) /\ ~IsLeave(events[k], h, o)
      BY <1>1, <3>2 DEF MovesFound, IsEnter, IsLeave
    <3>4. o \notin shown[h] /\ o \notin held[h]
      BY <1>1, <2>3 DEF TypeOK, MovesFollow
    <3>5. \A k \in 1..((Len(events) + 1) - 1) : k \in DOMAIN events
      BY <1>1, Typed, LenProperties
    <3> QED
      BY <3>3, <3>4, <3>5 DEF On
  <2>4. ASSUME Running, NEW h \in Holders
        PROVE  /\ held[h] \subseteq bound'
               /\ \A o \in bound' :
                    /\ o \in shown[h] <=> On(h, o, Len(events) + 1)
                    /\ \A k \in DOMAIN events : IsLeave(events[k], h, o) => On(h, o, k)
    <3>1. bound \subseteq bound' /\ held[h] \subseteq bound
      BY <1>1, <1>8, <2>4 DEF MovesFollow
    <3>2. \A o \in bound :
            /\ o \in shown[h] <=> On(h, o, Len(events) + 1)
            /\ \A k \in DOMAIN events : IsLeave(events[k], h, o) => On(h, o, k)
      BY <1>1, <2>4 DEF MovesFollow
    <3> QED
      BY <2>3, <2>4, <3>1, <3>2
  <2> QED
    BY <1>2, <2>1, <2>2, <2>4 DEF MovesFollow, Running, clientVars
<1> QED
  BY <1>14, <1>15, <1>16, <1>17, <1>18, <1>19, <1>20, <1>21, <1>22, <1>23 DEF RegistryInv

LEMMA ServeRegistryStep ==
    ASSUME RegistryInv, ServeRegistry
    PROVE  RegistryInv'
<1>1. /\ TypeOK /\ Unasked /\ NamesFixed /\ InverseTables /\ OutputsListed /\ BindsRight
      /\ MovesFollow /\ OutputsFound
  BY DEF RegistryInv
<1>2. /\ requests # <<>> /\ Head(requests).op = "get_registry" /\ requests' = Tail(requests)
      /\ registered' = TRUE
      /\ UNCHANGED clientVars
      /\ UNCHANGED <<globals, nglobals, bound, shown, nmoves, abrupt, rejected>>
  BY DEF ServeRegistry, TakeRequest
<1>3. ~registered
  <2>1. Head(requests) = requests[1] /\ 1 \in DOMAIN requests
    BY <1>1, <1>2, Typed, Taking
  <2> QED
    BY <1>1, <1>2, <2>1 DEF Unasked
<1>4. /\ requests = <<[op |-> "get_registry"], [op |-> "sync"]>>
      /\ events = <<>> /\ registry = <<>> /\ outputs = <<>> /\ windows = {} /\ bound = {}
  BY <1>1, <1>3 DEF Unasked
<1>5. requests' = <<[op |-> "sync"]>>
  BY <1>2, <1>4
<1>6. /\ nglobals \in Nat /\ nglobals <= MaxGlobals /\ DOMAIN globals \subseteq 1..nglobals
      /\ globals \in [DOMAIN globals -> Names] /\ shown \in [Holders -> SUBSET bound]
  BY <1>1, Typed DEF TypeOK
<1>7. PICK n \in Nat : n = Cardinality(DOMAIN globals)
  BY <1>6, FS_Interval, FS_Subset, FS_CardinalityType
<1>8. PICK order \in [1..n -> DOMAIN globals] :
        /\ Range(order) = DOMAIN globals
        /\ \A j, k \in DOMAIN order : j < k => order[j] < order[k]
        /\ events' = events \o [k \in DOMAIN order |-> GlobalEvent(order[k])]
  BY <1>7 DEF ServeRegistry
<1> DEFINE q == [k \in 1..n |-> GlobalEvent(order[k])]
<1>9. \A k \in 1..n :
        /\ order[k] \in DOMAIN globals /\ order[k] \in 1..nglobals /\ order[k] \in Gids
        /\ GlobalEvent(order[k]) \in Event
        /\ GlobalEvent(order[k]).ev = "global" /\ GlobalEvent(order[k]).gid = order[k]
        /\ GlobalEvent(order[k]).name = globals[order[k]]
  <2>1. \A g \in DOMAIN globals : g \in 1..nglobals /\ g \in Gids /\ globals[g] \in Names
    BY <1>6, BoundsAssumption
  <2> QED
    BY <1>8, <2>1 DEF GlobalEvent, Event
<1>10. events' = q /\ q \in Seq(Event) /\ DOMAIN q = 1..n
  <2>1. q \in Seq(Event)
    BY <1>7, <1>9
  <2>2. events' = <<>> \o q
    BY <1>4, <1>8
  <2> QED
    BY <2>1, <2>2, ConcatEmptySeq
<1>11. \A k \in 1..n :
         /\ q[k].ev = "global" /\ q[k].gid = order[k] /\ q[k].name = globals[order[k]]
         /\ order[k] \in DOMAIN globals
  BY <1>9
<1> HIDE DEF q
<1>12. /\ \A k \in 1..n : \A g : (IsGlobal(q[k], g) <=> g = order[k]) /\ ~IsRemove(q[k], g)
       /\ \A k \in 1..n : \A h : \A o :
            ~IsHolder(q[k], h) /\ ~IsOf(q[k], h) /\ ~IsEnter(q[k], h, o) /\ ~IsLeave(q[k], h, o)
  BY <1>11 DEF IsGlobal, IsRemove, IsHolder, IsOf, IsEnter, IsLeave
<1>13. \A g : (Pending(q, g) <=> g \in DOMAIN globals) /\ ~Removing(q, g)
  <2>1. \A g : g \in DOMAIN globals <=> \E k \in 1..n : order[k] = g
    BY <1>8 DEF Range
  <2> QED
    BY <1>10, <1>12, <2>1 DEF Pending, Removing
<1>14. EventNames(q) \subseteq Pairs(globals)
  BY <1>10, <1>11 DEF EventNames, Pairs
<1>15. RequestNames(requests') = {} /\ Binding(requests') = {}
  BY <1>5 DEF RequestNames, Binding
<1>16. TypeOK'
  <2>1. [op |-> "sync"] \in Request
    BY DEF Request
  <2>2. requests' \in Seq(Request) /\ events' \in Seq(Event)
    BY <1>5, <1>10, <2>1
  <2> QED
    BY <1>1, <1>2, <2>2 DEF TypeOK, clientVars
<1>17. Unasked'
  <2>1. \A k \in DOMAIN <<[op |-> "sync"]>> : <<[op |-> "sync"]>>[k].op = "sync"
    OBVIOUS
  <2>2. \A k \in DOMAIN requests' : requests'[k].op # "get_registry"
    BY <1>5, <2>1
  <2> QED
    BY <1>2, <2>2 DEF Unasked
<1>18. GlobalsFollow'
  BY <1>2, <1>4, <1>10, <1>13 DEF GlobalsFollow, clientVars
<1>19. ToldInOrder'
  <2>1. \A j, k \in 1..n : order[j] = order[k] => j = k
    <3> SUFFICES ASSUME NEW j \in 1..n, NEW k \in 1..n, order[j] = order[k], j # k PROVE FALSE
      OBVIOUS
    <3>1. order[j] \in Nat /\ j \in Nat /\ k \in Nat /\ j \in DOMAIN order /\ k \in DOMAIN order
      BY <1>6, <1>7, <1>8
    <3>2. CASE j < k
      BY <1>8, <3>1, <3>2
    <3>3. CASE k < j
      BY <1>8, <3>1, <3>3
    <3> QED
      BY <3>1, <3>2, <3>3
  <2> QED
    BY <1>10, <1>12, <2>1 DEF ToldInOrder
<1>20. NamesFixed'
  <2>1. Named' \subseteq Named
    BY <1>2, <1>10, <1>14, <1>15 DEF Named, clientVars
  <2> QED
    BY <1>1, <1>2, <2>1, NamesSame
<1>21. InverseTables' /\ OutputsListed'
  BY <1>1, <1>2 DEF InverseTables, OutputsListed, clientVars
<1>22. AllOutputs' = {}
  BY <1>2, <1>4, <1>15 DEF AllOutputs, ToSet, clientVars
<1>23. IdsFixed' /\ BoundKnown'
  BY <1>22 DEF IdsFixed, BoundKnown, AllOutputs
<1>24. BindsRight'
  BY <1>1, <1>2, <1>5 DEF BindsRight
<1>25. \A h \in Holders : shown[h] = {}
  BY <1>4, <1>6
<1>26. HoldersInOrder'
  BY <1>2, <1>10, <1>12, <1>25 DEF HoldersInOrder
<1>27. MovesFound'
  BY <1>2, <1>10, <1>11, <1>25 DEF MovesFound
<1>28. MovesFollow'
  BY <1>1, <1>2, <1>4 DEF MovesFollow, Running, clientVars
<1>29. OutputsFound'
  BY <1>1, <1>2 DEF OutputsFound, clientVars
<1> QED
  BY <1>16, <1>17, <1>18, <1>19, <1>20, <1>21, <1>23, <1>24, <1>26, <1>27, <1>28, <1>29 DEF RegistryInv

-----------------------------------------------------------------------------
\* The client reads of a new global: both tables grow by it.
LEMMA ToSetAppend ==
    ASSUME NEW T, NEW s \in Seq(T), NEW x \in T
    PROVE  Append(s, x) \in Seq(T) /\ ToSet(Append(s, x)) = ToSet(s) \cup {x}
<1> DEFINE r == Append(s, x)
<1>1. /\ r \in Seq(T) /\ Len(s) \in Nat /\ DOMAIN s = 1..Len(s) /\ DOMAIN r = 1..(Len(s) + 1)
      /\ \A k \in 1..Len(s) : r[k] = s[k]
      /\ r[Len(s) + 1] = x
  BY Adding
<1> HIDE DEF r
<1>2. \A k \in DOMAIN r : (k \in DOMAIN s /\ r[k] = s[k]) \/ r[k] = x
  BY <1>1
<1>3. Len(s) + 1 \in DOMAIN r /\ \A k \in DOMAIN s : k \in DOMAIN r /\ r[k] = s[k]
  BY <1>1
<1>4. ToSet(r) = ToSet(s) \cup {x}
  BY <1>1, <1>2, <1>3 DEF ToSet
<1> QED
  BY <1>1, <1>4 DEF r

LEMMA AppendNew ==
    ASSUME NEW s \in Seq(Gids), NEW x \in Gids, x \notin ToSet(s), IsInjective(s)
    PROVE  IsInjective(Append(s, x)) /\ ToSet(Append(s, x)) = ToSet(s) \cup {x}
<1> DEFINE r == Append(s, x)
<1>1. /\ Len(s) \in Nat /\ DOMAIN s = 1..Len(s) /\ DOMAIN r = 1..(Len(s) + 1)
      /\ \A k \in 1..Len(s) : r[k] = s[k]
      /\ r[Len(s) + 1] = x
  BY Adding
<1> HIDE DEF r
<1>2. \A k \in DOMAIN r : (k \in DOMAIN s /\ r[k] = s[k]) \/ (k = Len(s) + 1 /\ r[k] = x)
  BY <1>1
<1>3. \A k \in DOMAIN s : s[k] # x
  BY DEF ToSet
<1>4. ToSet(r) = ToSet(s) \cup {x}
  <2> HIDE DEF Gids
  <2>1. s \in Seq(Gids) /\ x \in Gids
    OBVIOUS
  <2> QED
    BY <2>1, ToSetAppend DEF r
<1>5. IsInjective(r)
  BY <1>2, <1>3 DEF IsInjective
<1> QED
  BY <1>4, <1>5 DEF r

LEMMA TablesLearn ==
    ASSUME TypeOK, InverseTables, NEW g \in Gids \ DOMAIN registry, NEW name \in Names,
           registry' = With(registry, g, name),
           interfaces' = With(interfaces, name, Append(
               IF name \in DOMAIN interfaces THEN interfaces[name] ELSE <<>>, g))
    PROVE  /\ registry' \in [DOMAIN registry' -> Names] /\ DOMAIN registry' = DOMAIN registry \cup {g}
           /\ interfaces' \in [DOMAIN interfaces' -> Seq(Gids)] /\ DOMAIN interfaces' \subseteq Names
           /\ registry'[g] = name /\ \A i \in DOMAIN registry : registry'[i] = registry[i]
           /\ InverseTables'
<1> DEFINE old == IF name \in DOMAIN interfaces THEN interfaces[name] ELSE <<>>
           of(n) == {i \in DOMAIN registry : registry[i] = n}
<1>1. /\ registry \in [DOMAIN registry -> Names]
      /\ interfaces \in [DOMAIN interfaces -> Seq(Gids)] /\ DOMAIN interfaces \subseteq Names
  BY DEF TypeOK
<1>2. /\ DOMAIN interfaces = Range(registry)
      /\ \A n \in DOMAIN interfaces : IsInjective(interfaces[n]) /\ ToSet(interfaces[n]) = of(n)
  BY DEF InverseTables
<1>3. old \in Seq(Gids) /\ IsInjective(old) /\ ToSet(old) = of(name)
  <2>1. CASE name \in DOMAIN interfaces
    BY <1>1, <1>2, <2>1
  <2>2. CASE name \notin DOMAIN interfaces
    <3>1. old = <<>>
      BY <2>2
    <3>2. of(name) = {}
      BY <1>2, <2>2 DEF Range
    <3>3. <<>> \in Seq(Gids) /\ IsInjective(<<>>) /\ ToSet(<<>>) = {}
      BY DEF IsInjective, ToSet
    <3> QED
      BY <3>1, <3>2, <3>3
  <2> QED
    BY <2>1, <2>2
<1>4. interfaces' = With(interfaces, name, Append(old, g))
  OBVIOUS
<1> HIDE DEF old
<1>5. /\ Append(old, g) \in Seq(Gids) /\ IsInjective(Append(old, g))
      /\ ToSet(Append(old, g)) = of(name) \cup {g}
  <2>1. g \notin ToSet(old)
    BY <1>3
  <2>2. g \in Gids
    OBVIOUS
  <2> HIDE DEF of
  <2>3. Append(old, g) \in Seq(Gids)
    BY <1>3, <2>2, Adding
  <2>4. IsInjective(Append(old, g)) /\ ToSet(Append(old, g)) = ToSet(old) \cup {g}
    <3>1. old \in Seq(Gids) /\ IsInjective(old)
      BY <1>3
    <3> QED
      BY <2>1, <2>2, <3>1, AppendNew
  <2> QED
    BY <1>3, <2>3, <2>4
<1>6. /\ DOMAIN registry' = DOMAIN registry \cup {g} /\ registry'[g] = name
      /\ \A i \in DOMAIN registry : registry'[i] = registry[i]
      /\ registry' \in [DOMAIN registry' -> Names]
  BY <1>1 DEF With
<1> HIDE DEF of
<1>7. /\ DOMAIN interfaces' = DOMAIN interfaces \cup {name} /\ interfaces'[name] = Append(old, g)
      /\ \A n \in DOMAIN interfaces \ {name} : interfaces'[n] = interfaces[n]
      /\ interfaces' \in [DOMAIN interfaces' -> Seq(Gids)] /\ DOMAIN interfaces' \subseteq Names
  BY <1>1, <1>4, <1>5 DEF With
<1>8. Range(registry') = Range(registry) \cup {name}
  BY <1>6 DEF Range
<1>9. \A n : {i \in DOMAIN registry' : registry'[i] = n} = IF n = name THEN of(n) \cup {g} ELSE of(n)
  BY <1>6 DEF of
<1>10. InverseTables'
  <2>1. ASSUME NEW n \in DOMAIN interfaces'
        PROVE  /\ IsInjective(interfaces'[n])
               /\ ToSet(interfaces'[n]) = {i \in DOMAIN registry' : registry'[i] = n}
    <3>1. CASE n = name
      BY <1>5, <1>7, <1>9, <3>1
    <3>2. CASE n # name
      BY <1>2, <1>7, <1>9, <3>2
    <3> QED
      BY <3>1, <3>2
  <2> QED
    BY <1>2, <1>7, <1>8, <2>1 DEF InverseTables
<1> QED
  BY <1>6, <1>7, <1>10

LEMMA GlobalStep ==
    ASSUME RegistryInv, OnGlobal
    PROVE  RegistryInv'
<1> DEFINE e == Head(events)
           g == e.gid
           name == e.name
           o == [obj_id |-> nbound + 1, global_id |-> g]
           O == IF name = "wl_output" THEN {o} ELSE {}
<1>1. /\ TypeOK /\ Unasked /\ GlobalsFollow /\ ToldInOrder /\ NamesFixed /\ InverseTables
      /\ OutputsListed /\ IdsFixed /\ BoundKnown /\ BindsRight /\ MovesFound /\ OutputsFound
  BY DEF RegistryInv
<1>2. Take("global") /\ UNCHANGED <<initial_sync, windows, held, raised>> /\ UNCHANGED serverVars
  BY DEF OnGlobal
<1>3. /\ Running /\ events # <<>> /\ events' = Tail(events) /\ events' \in Seq(Event)
      /\ e.ev = "global" /\ g \in Gids /\ name \in Names /\ events \in Seq(Event)
  BY <1>1, <1>2, EventTaken, Typed
<1>4. nglobals' = nglobals /\ globals' = globals /\ registered' = registered /\ bound' = bound
      /\ rejected' = rejected /\ shown' = shown /\ abrupt' = abrupt
  BY <1>2 DEF serverVars
<1>5. registered
  BY <1>1, <1>3 DEF Unasked
<1>6. /\ \A i : Pending(events, i) <=> i = g \/ Pending(events', i)
      /\ \A i : Removing(events, i) <=> Removing(events', i)
      /\ EventNames(events') \subseteq EventNames(events)
      /\ <<g, name>> \in EventNames(events)
  <2>1. \A i : (IsGlobal(e, i) <=> i = g) /\ ~IsRemove(e, i)
    BY <1>3 DEF IsGlobal, IsRemove
  <2> QED
    BY <1>3, <2>1, EventsTail
<1>7. ~Pending(events', g)
  <2> SUFFICES ASSUME Pending(events', g) PROVE FALSE
    OBVIOUS
  <2>1. PICK k \in DOMAIN events' : IsGlobal(events'[k], g)
    BY DEF Pending
  <2>2. /\ k \in Nat /\ k >= 1 /\ k + 1 \in DOMAIN events /\ events'[k] = events[k + 1]
        /\ 1 \in DOMAIN events /\ e = events[1]
    BY <1>3, <2>1, Taking
  <2>3. IsGlobal(events[1], g) /\ IsGlobal(events[k + 1], g)
    BY <1>3, <2>1, <2>2 DEF IsGlobal
  <2>4. 1 = k + 1
    BY <1>1, <1>3, <2>2, <2>3 DEF ToldInOrder
  <2> QED
    BY <2>2, <2>4
<1>8. g \notin DOMAIN registry
  BY <1>1, <1>3, <1>5, <1>6 DEF GlobalsFollow
<1>9. /\ registry' = With(registry, g, name)
      /\ interfaces' = With(interfaces, name, Append(
             IF name \in DOMAIN interfaces THEN interfaces[name] ELSE <<>>, g))
  BY <1>8 DEF OnGlobal
<1>10. /\ name = "wl_output" => /\ nbound' = nbound + 1
                                /\ requests' = Append(requests, BindRequest(g, name, nbound + 1))
                                /\ outputs' = Append(outputs, o)
       /\ name # "wl_output" => UNCHANGED <<nbound, requests, outputs>>
  BY <1>8 DEF OnGlobal
<1>11. o.obj_id = nbound + 1 /\ o.global_id = g
  OBVIOUS
<1>12. /\ nbound \in Nat /\ nbound + 1 \in ObjIds /\ nbound <= nbound + 1 /\ nbound <= nbound
       /\ \A i \in Nat : i <= nbound => i <= nbound + 1 /\ i # nbound + 1
       /\ requests \in Seq(Request) /\ outputs \in Seq(Output)
  <2>1. nbound \in Nat /\ requests \in Seq(Request) /\ outputs \in Seq(Output)
    BY <1>1 DEF TypeOK
  <2> QED
    BY <2>1
<1>13. o \in Output
  BY <1>3, <1>12 DEF Output
<1> HIDE DEF e, g, name, o
<1>14. /\ registry' \in [DOMAIN registry' -> Names] /\ DOMAIN registry' = DOMAIN registry \cup {g}
       /\ interfaces' \in [DOMAIN interfaces' -> Seq(Gids)] /\ DOMAIN interfaces' \subseteq Names
       /\ registry'[g] = name /\ \A i \in DOMAIN registry : registry'[i] = registry[i]
       /\ InverseTables'
  BY <1>1, <1>3, <1>8, <1>9, TablesLearn
\* What becomes of the list of outputs and of the requests.
<1>15. /\ outputs' \in Seq(Output) /\ ToSet(outputs') = ToSet(outputs) \cup O
       /\ requests' \in Seq(Request)
       /\ RequestNames(requests') \subseteq RequestNames(requests) \cup {<<g, name>>}
       /\ Binding(requests') = Binding(requests) \cup O
       /\ nbound' \in Nat /\ \A i \in Nat : i <= nbound => i <= nbound'
       /\ (O # {} => nbound' = nbound + 1)
       /\ \A k \in DOMAIN requests' :
            \/ k \in DOMAIN requests /\ requests'[k] = requests[k]
            \/ requests'[k].op = "bind" /\ requests'[k].version <= Offered[requests'[k].name]
  <2>1. CASE name = "wl_output"
    <3> DEFINE m == BindRequest(g, name, nbound + 1)
    <3>1. /\ m \in Request /\ m.op = "bind" /\ m.gid = g /\ m.name = name /\ m.obj_id = nbound + 1
          /\ m.version <= Offered[m.name]
      BY <1>3, <1>12, BindTyped
    <3>2. requests' = Append(requests, m) /\ outputs' = Append(outputs, o) /\ nbound' = nbound + 1
      BY <1>10, <2>1
    <3>3. [obj_id |-> m.obj_id, global_id |-> m.gid] = o
      BY <3>1 DEF o
    <3> HIDE DEF m
    <3>4. /\ requests' \in Seq(Request) /\ DOMAIN requests = 1..Len(requests) /\ Len(requests) \in Nat
          /\ DOMAIN requests' = 1..(Len(requests) + 1)
          /\ \A k \in 1..Len(requests) : requests'[k] = requests[k]
          /\ requests'[Len(requests) + 1] = m
      BY <1>12, <3>1, <3>2, Adding
    <3>5. \A k \in DOMAIN requests' :
            (k \in DOMAIN requests /\ requests'[k] = requests[k]) \/ requests'[k] = m
      BY <3>4
    <3>6. RequestNames(requests') = RequestNames(requests) \cup {<<g, name>>}
          /\ Binding(requests') = Binding(requests) \cup {o}
      BY <1>12, <2>1, <3>1, <3>2, <3>3, RequestsAppend
    <3>7. outputs' \in Seq(Output) /\ ToSet(outputs') = ToSet(outputs) \cup {o}
      BY <1>12, <1>13, <3>2, ToSetAppend
    <3>8. nbound' \in Nat /\ \A i \in Nat : i <= nbound => i <= nbound'
      BY <1>12, <3>2
    <3> QED
      BY <2>1, <3>1, <3>2, <3>4, <3>5, <3>6, <3>7, <3>8
  <2>2. CASE name # "wl_output"
    BY <1>10, <1>12, <2>2
  <2> QED
    BY <2>1, <2>2
\* No output, bound or being bound, is of this global.
<1>16. \A p \in AllOutputs : p.global_id # g /\ p.obj_id # nbound + 1
  <2>1. ASSUME NEW p \in AllOutputs
        PROVE  ~Pending(events, p.global_id) /\ p.obj_id \in Nat /\ p.obj_id <= nbound
    BY <1>1, OutputsTyped DEF IdsFixed
  <2> QED
    BY <1>6, <1>12, <2>1
<1>17. \A p \in O : p = o
  OBVIOUS
<1> HIDE DEF O
<1>18. TypeOK'
  <2>1. DOMAIN registry' \subseteq Gids
    BY <1>1, <1>3, <1>14 DEF TypeOK
  <2> QED
    BY <1>1, <1>2, <1>3, <1>14, <1>15, <2>1 DEF TypeOK, serverVars
<1>19. Unasked'
  BY <1>1, <1>4, <1>5, <1>15 DEF Unasked
<1>20. GlobalsFollow'
  BY <1>1, <1>4, <1>5, <1>6, <1>7, <1>14 DEF GlobalsFollow
<1>21. ToldInOrder'
  BY <1>1, <1>3, <1>4, ToldTail
<1>22. NamesFixed'
  <2>1. Pairs(registry') \subseteq Pairs(registry) \cup {<<g, name>>}
    BY <1>14 DEF Pairs
  <2>2. Named' \subseteq Named
    BY <1>4, <1>6, <1>15, <2>1 DEF Named
  <2> QED
    BY <1>1, <1>4, <2>2, NamesSame
<1>23. OutputsListed'
  <2>1. {p.global_id : p \in ToSet(outputs')} = {i \in DOMAIN registry' : registry'[i] = "wl_output"}
    <3>1. {p.global_id : p \in ToSet(outputs)} = {i \in DOMAIN registry : registry[i] = "wl_output"}
      BY <1>1 DEF OutputsListed
    <3>2. CASE name = "wl_output"
      <4>1. ToSet(outputs') = ToSet(outputs) \cup {o}
        BY <1>15, <3>2 DEF O
      <4>2. {p.global_id : p \in ToSet(outputs')} = {p.global_id : p \in ToSet(outputs)} \cup {g}
        BY <1>11, <4>1
      <4>3. {i \in DOMAIN registry' : registry'[i] = "wl_output"} =
              {i \in DOMAIN registry : registry[i] = "wl_output"} \cup {g}
        BY <1>14, <3>2
      <4> QED
        BY <3>1, <4>2, <4>3
    <3>3. CASE name # "wl_output"
      BY <1>8, <1>14, <1>15, <3>1, <3>3 DEF O
    <3> QED
      BY <3>2, <3>3
  <2>2. \A j, k \in DOMAIN outputs' : outputs'[j].global_id = outputs'[k].global_id => j = k
    <3>1. \A j, k \in DOMAIN outputs : outputs[j].global_id = outputs[k].global_id => j = k
      BY <1>1 DEF OutputsListed
    <3>2. CASE name = "wl_output"
      <4>1. /\ Len(outputs) \in Nat /\ DOMAIN outputs = 1..Len(outputs)
            /\ DOMAIN outputs' = 1..(Len(outputs) + 1)
            /\ \A k \in 1..Len(outputs) : outputs'[k] = outputs[k]
            /\ outputs'[Len(outputs) + 1] = o
        BY <1>10, <1>12, <1>13, <3>2, Adding
      <4>2. \A k \in DOMAIN outputs' :
              (k \in DOMAIN outputs /\ outputs'[k] = outputs[k]) \/ (k = Len(outputs) + 1 /\ outputs'[k] = o)
        BY <4>1
      <4>3. \A k \in DOMAIN outputs : outputs[k].global_id # o.global_id
        BY <1>11, <1>16 DEF AllOutputs, ToSet
      <4> QED
        BY <3>1, <4>2, <4>3
    <3>3. CASE name # "wl_output"
      BY <1>10, <3>1, <3>3
    <3> QED
      BY <3>2, <3>3
  <2> QED
    BY <2>1, <2>2 DEF OutputsListed
<1>24. AllOutputs' = AllOutputs \cup O
  BY <1>4, <1>15 DEF AllOutputs
<1>25. IdsFixed'
  <2>1. ASSUME NEW p \in AllOutputs', NEW r \in AllOutputs', p.obj_id = r.obj_id \/ p.global_id = r.global_id
        PROVE  p = r
    <3>1. CASE p \in AllOutputs /\ r \in AllOutputs
      BY <1>1, <2>1, <3>1 DEF IdsFixed
    <3>2. CASE ~(p \in AllOutputs /\ r \in AllOutputs)
      BY <1>11, <1>16, <1>17, <1>24, <2>1, <3>2
    <3> QED
      BY <3>1, <3>2
  <2>2. ASSUME NEW p \in AllOutputs
        PROVE  p.obj_id <= nbound' /\ p.global_id <= nglobals /\ ~Pending(events', p.global_id)
    <3>1. p.obj_id \in Nat /\ p.obj_id <= nbound /\ p.global_id <= nglobals /\ ~Pending(events, p.global_id)
      BY <1>1, OutputsTyped DEF IdsFixed
    <3> QED
      BY <1>6, <1>15, <3>1
  <2>3. ASSUME NEW p \in O
        PROVE  p.obj_id <= nbound' /\ p.global_id <= nglobals /\ ~Pending(events', p.global_id)
    <3>1. p.obj_id = nbound' /\ p.global_id = g
      BY <1>11, <1>15, <1>17
    <3>2. <<g, name>> \in Named
      BY <1>6 DEF Named
    <3>3. g <= nglobals
      BY <1>1, <3>2 DEF NamesFixed
    <3> QED
      BY <1>7, <1>15, <3>1, <3>3
  <2> QED
    BY <1>4, <1>24, <2>1, <2>2, <2>3 DEF IdsFixed
<1>26. BoundKnown'
  <2>1. \A p \in bound \cup Binding(requests) : p \in ToSet(outputs) \/ p.global_id \notin DOMAIN registry'
    BY <1>1, <1>14, <1>16 DEF BoundKnown, AllOutputs
  <2> QED
    BY <1>1, <1>4, <1>15, <2>1 DEF BoundKnown
<1>27. BindsRight'
  BY <1>1, <1>4, <1>15 DEF BindsRight
<1>28. HoldersInOrder' /\ MovesFollow'
  BY <1>2, TableEvent
<1>29. MovesFound'
  BY <1>1, <1>3, <1>4, <1>15, MovesTail
<1>30. OutputsFound'
  BY <1>2, <1>3 DEF OutputsFound, Running
<1> QED
  BY <1>14, <1>18, <1>19, <1>20, <1>21, <1>22, <1>23, <1>25, <1>26, <1>27, <1>28, <1>29, <1>30 DEF RegistryInv

-----------------------------------------------------------------------------
\* The client reads that a global is gone: both tables drop it, and the list of outputs.
LEMMA DroppingPlaces ==
    ASSUME NEW T, NEW s \in Seq(T), NEW k \in DOMAIN s
    PROVE  \E p \in [DOMAIN RemoveAt(s, k) -> DOMAIN s] :
               IsInjective(p) /\ \A i \in DOMAIN RemoveAt(s, k) : RemoveAt(s, k)[i] = s[p[i]]
<1> DEFINE r == RemoveAt(s, k)
           p == [i \in DOMAIN r |-> IF i < k THEN i ELSE i + 1]
<1>1. /\ DOMAIN r = 1..(Len(s) - 1) /\ Len(s) \in Nat /\ DOMAIN s = 1..Len(s) /\ k \in 1..Len(s)
      /\ \A i \in 1..(Len(s) - 1) : r[i] = s[IF i < k THEN i ELSE i + 1]
  BY Dropping, LenProperties
<1> HIDE DEF r
<1>2. p \in [DOMAIN r -> DOMAIN s]
  BY <1>1
<1>3. IsInjective(p)
  BY <1>1 DEF IsInjective
<1>4. \A i \in DOMAIN r : r[i] = s[p[i]]
  BY <1>1
<1> HIDE DEF p
<1>5. \E f \in [DOMAIN r -> DOMAIN s] : IsInjective(f) /\ \A i \in DOMAIN r : r[i] = s[f[i]]
  BY <1>2, <1>3, <1>4
<1> QED
  BY <1>5 DEF r

LEMMA TablesForget ==
    ASSUME TypeOK, InverseTables, NEW g \in DOMAIN registry, Forget(g)
    PROVE  /\ registry' \in [DOMAIN registry' -> Names] /\ DOMAIN registry' = DOMAIN registry \ {g}
           /\ interfaces' \in [DOMAIN interfaces' -> Seq(Gids)] /\ DOMAIN interfaces' \subseteq Names
           /\ \A i \in DOMAIN registry' : registry'[i] = registry[i]
           /\ InverseTables'
<1> DEFINE name == registry[g]
           s == interfaces[name]
           of(n) == {i \in DOMAIN registry : registry[i] = n}
<1>1. /\ registry \in [DOMAIN registry -> Names] /\ DOMAIN registry \subseteq Gids
      /\ interfaces \in [DOMAIN interfaces -> Seq(Gids)] /\ DOMAIN interfaces \subseteq Names
  BY DEF TypeOK
<1>2. /\ DOMAIN interfaces = Range(registry)
      /\ \A n \in DOMAIN interfaces : IsInjective(interfaces[n]) /\ ToSet(interfaces[n]) = of(n)
  BY DEF InverseTables
<1>3. name \in DOMAIN interfaces /\ s \in Seq(Gids) /\ IsInjective(s) /\ ToSet(s) = of(name) /\ g \in of(name)
  BY <1>1, <1>2 DEF Range
<1>4. PICK k \in DOMAIN s : s[k] = g
  BY <1>3 DEF ToSet
<1>5. k \in Nat /\ \A j \in DOMAIN s : s[j] = g => j = k
  <2>1. DOMAIN s = 1..Len(s) /\ Len(s) \in Nat
    BY <1>3, LenProperties
  <2>2. k \in Nat
    BY <1>4, <2>1
  <2> QED
    BY <1>3, <1>4, <2>2 DEF IsInjective
<1>6. {j \in DOMAIN s : s[j] = g} = {k} /\ k \in Int
  BY <1>4, <1>5
<1>7. First({j \in DOMAIN s : s[j] = g}) = k
  BY <1>6, FirstOfOne
<1> DEFINE rest == RemoveAt(s, k)
<1>8. /\ registry' = Without(registry, g)
      /\ interfaces' = IF rest = <<>> THEN Without(interfaces, name)
                       ELSE [interfaces EXCEPT ![name] = rest]
  BY <1>7 DEF Forget
<1> HIDE DEF s, of
<1>9. rest \in Seq(Gids) /\ ToSet(rest) = of(name) \ {g} /\ (rest = <<>> <=> ToSet(rest) = {})
  <2> HIDE DEF Gids
  <2>0. s \in Seq(Gids) /\ k \in DOMAIN s /\ \A j \in DOMAIN s : s[j] = s[k] => j = k
    BY <1>3, <1>4, <1>5
  <2>1. rest \in Seq(Gids)
    BY <2>0, Dropping
  <2>2. ToSet(rest) = ToSet(s) \ {s[k]}
    BY <2>0, DroppingOnly
  <2> HIDE DEF rest
  <2>3. rest = <<>> <=> ToSet(rest) = {}
    <3>1. CASE rest = <<>>
      BY <3>1 DEF ToSet
    <3>2. CASE rest # <<>>
      <4>1. 1 \in DOMAIN rest
        BY <2>1, <3>2, Taking
      <4> QED
        BY <3>2, <4>1 DEF ToSet
    <3> QED
      BY <3>1, <3>2
  <2> QED
    BY <1>3, <1>4, <2>1, <2>2, <2>3
<1>10. IsInjective(rest)
  <2> HIDE DEF Gids
  <2>0. s \in Seq(Gids) /\ k \in DOMAIN s
    BY <1>3, <1>4
  <2>1. PICK p \in [DOMAIN rest -> DOMAIN s] :
            IsInjective(p) /\ \A i \in DOMAIN rest : rest[i] = s[p[i]]
    BY <2>0, DroppingPlaces
  <2> HIDE DEF rest
  <2> QED
    BY <1>3, <2>1 DEF IsInjective
<1> HIDE DEF name, rest
<1>11. /\ DOMAIN registry' = DOMAIN registry \ {g}
       /\ \A i \in DOMAIN registry' : registry'[i] = registry[i]
       /\ registry' \in [DOMAIN registry' -> Names]
  BY <1>1, <1>8 DEF Without, Restrict
<1>12. \A n : {i \in DOMAIN registry' : registry'[i] = n} = of(n) \ {g}
  BY <1>11 DEF of
<1>13. /\ DOMAIN interfaces' = (IF rest = <<>> THEN DOMAIN interfaces \ {name} ELSE DOMAIN interfaces)
       /\ rest # <<>> => interfaces'[name] = rest
       /\ \A n \in DOMAIN interfaces \ {name} : interfaces'[n] = interfaces[n]
       /\ interfaces' \in [DOMAIN interfaces' -> Seq(Gids)] /\ DOMAIN interfaces' \subseteq Names
  <2>1. CASE rest = <<>>
    BY <1>1, <1>8, <2>1 DEF Without, Restrict
  <2>2. CASE rest # <<>>
    BY <1>1, <1>3, <1>8, <1>9, <2>2
  <2> QED
    BY <2>1, <2>2
<1>14. Range(registry') = DOMAIN interfaces'
  <2>1. \A n : n \in Range(registry) <=> of(n) # {}
    BY DEF Range, of
  <2>2. \A n : n \in Range(registry') <=> of(n) \ {g} # {}
    BY <1>12 DEF Range
  <2>3. \A n : n # name => g \notin of(n)
    BY DEF of, name
  <2>4. rest = <<>> <=> of(name) \ {g} = {}
    BY <1>9
  <2>5. ASSUME NEW n PROVE n \in DOMAIN interfaces' <=> of(n) \ {g} # {}
    <3>1. CASE n = name
      BY <1>3, <1>13, <2>4, <3>1
    <3>2. CASE n # name
      <4>1. of(n) \ {g} = of(n)
        BY <2>3, <3>2
      <4>2. n \in DOMAIN interfaces' <=> n \in DOMAIN interfaces
        BY <1>13, <3>2
      <4> QED
        BY <1>2, <2>1, <4>1, <4>2
    <3> QED
      BY <3>1, <3>2
  <2> QED
    BY <2>2, <2>5
<1>15. InverseTables'
  <2>1. ASSUME NEW n \in DOMAIN interfaces'
        PROVE  /\ IsInjective(interfaces'[n])
               /\ ToSet(interfaces'[n]) = {i \in DOMAIN registry' : registry'[i] = n}
    <3>1. CASE n = name
      BY <1>9, <1>10, <1>12, <1>13, <3>1
    <3>2. CASE n # name
      <4>1. g \notin of(n)
        BY <3>2 DEF of, name
      <4> QED
        BY <1>2, <1>12, <1>13, <3>2, <4>1
    <3> QED
      BY <3>1, <3>2
  <2> QED
    BY <1>14, <2>1 DEF InverseTables
<1> QED
  BY <1>11, <1>13, <1>15

LEMMA OutputsForget ==
    ASSUME TypeOK, OutputsListed, NEW g \in DOMAIN registry,
           outputs' = IF registry[g] = "wl_output" THEN OutputsWithout(g) ELSE outputs,
           DOMAIN registry' = DOMAIN registry \ {g},
           \A i \in DOMAIN registry' : registry'[i] = registry[i]
    PROVE  /\ outputs' \in Seq(Output) /\ OutputsListed'
           /\ ToSet(outputs') = {o \in ToSet(outputs) : o.global_id # g}
<1>1. outputs \in Seq(Output)
  BY Typed
<1>2. /\ \A j, k \in DOMAIN outputs : outputs[j].global_id = outputs[k].global_id => j = k
      /\ {o.global_id : o \in ToSet(outputs)} = {i \in DOMAIN registry : registry[i] = "wl_output"}
  BY DEF OutputsListed
<1>3. {i \in DOMAIN registry' : registry'[i] = "wl_output"}
        = {i \in DOMAIN registry : registry[i] = "wl_output"} \ {g}
  OBVIOUS
<1>4. CASE registry[g] # "wl_output"
  <2>1. \A o \in ToSet(outputs) : o.global_id # g
    BY <1>2, <1>4
  <2> QED
    BY <1>1, <1>2, <1>3, <1>4, <2>1 DEF OutputsListed
<1>5. CASE registry[g] = "wl_output"
  <2>1. \E o \in ToSet(outputs) : o.global_id = g
    <3>1. g \in {o.global_id : o \in ToSet(outputs)}
      BY <1>2, <1>5
    <3> QED
      BY <3>1
  <2>2. PICK k \in DOMAIN outputs : outputs[k].global_id = g
    BY <2>1 DEF ToSet
  <2>3. {j \in DOMAIN outputs : outputs[j].global_id = g} = {k} /\ k \in Int
    <3>1. DOMAIN outputs = 1..Len(outputs) /\ Len(outputs) \in Nat
      BY <1>1, LenProperties
    <3> QED
      BY <1>2, <2>2, <3>1
  <2>4. outputs' = RemoveAt(outputs, k)
    <3>1. First({j \in DOMAIN outputs : outputs[j].global_id = g}) = k
      BY <2>3, FirstOfOne
    <3> QED
      BY <1>5, <2>3, <3>1 DEF OutputsWithout
  <2>5. outputs' \in Seq(Output)
    BY <1>1, <2>2, <2>4, Dropping
  <2>6. ToSet(outputs') = ToSet(outputs) \ {outputs[k]}
    <3>1. \A j \in DOMAIN outputs : outputs[j] = outputs[k] => j = k
      BY <1>2, <2>2
    <3> QED
      BY <1>1, <2>2, <2>4, <3>1, DroppingOnly
  <2>7. \A o \in ToSet(outputs) : o = outputs[k] <=> o.global_id = g
    BY <1>2, <2>2 DEF ToSet
  <2>8. ToSet(outputs') = {o \in ToSet(outputs) : o.global_id # g}
    BY <2>6, <2>7
  <2>9. \A i, j \in DOMAIN outputs' : outputs'[i].global_id = outputs'[j].global_id => i = j
    <3>1. PICK p \in [DOMAIN outputs' -> DOMAIN outputs] :
              IsInjective(p) /\ \A i \in DOMAIN outputs' : outputs'[i] = outputs[p[i]]
      BY <1>1, <2>2, <2>4, DroppingPlaces
    <3> QED
      BY <1>2, <3>1 DEF IsInjective
  <2>10. {o.global_id : o \in ToSet(outputs')} = {o.global_id : o \in ToSet(outputs)} \ {g}
    BY <2>8
  <2> QED
    BY <1>2, <1>3, <2>5, <2>8, <2>9, <2>10 DEF OutputsListed
<1> QED
  BY <1>4, <1>5

LEMMA GlobalRemoveStep ==
    ASSUME RegistryInv, OnGlobalRemove
    PROVE  RegistryInv'
<1> DEFINE e == Head(events)
           g == e.gid
<1>1. /\ TypeOK /\ Unasked /\ GlobalsFollow /\ ToldInOrder /\ NamesFixed /\ InverseTables
      /\ OutputsListed /\ IdsFixed /\ BoundKnown /\ BindsRight /\ MovesFound /\ OutputsFound
  BY DEF RegistryInv
<1>2. /\ Take("global_remove")
      /\ UNCHANGED <<initial_sync, windows, held, raised, nbound, requests>> /\ UNCHANGED serverVars
  BY DEF OnGlobalRemove
<1>3. /\ Running /\ events # <<>> /\ events' = Tail(events) /\ events' \in Seq(Event)
      /\ e.ev = "global_remove" /\ g \in Gids /\ events \in Seq(Event)
  BY <1>1, <1>2, EventTaken, Typed
<1>4. nglobals' = nglobals /\ globals' = globals /\ registered' = registered /\ bound' = bound
      /\ rejected' = rejected /\ shown' = shown /\ abrupt' = abrupt
  BY <1>2 DEF serverVars
<1>5. registered
  BY <1>1, <1>3 DEF Unasked
<1>6. \A i : ~IsGlobal(e, i) /\ (IsRemove(e, i) <=> i = g)
  BY <1>3 DEF IsGlobal, IsRemove
<1>7. /\ \A i : Pending(events, i) <=> Pending(events', i)
      /\ \A i : Removing(events, i) <=> i = g \/ Removing(events', i)
      /\ EventNames(events') \subseteq EventNames(events)
  BY <1>3, <1>6, EventsTail
\* What the client still has to be told of is not what it is told is gone.
<1>8. ~Pending(events, g)
  <2> SUFFICES ASSUME Pending(events, g) PROVE FALSE
    OBVIOUS
  <2>1. PICK k \in DOMAIN events : IsGlobal(events[k], g)
    BY DEF Pending
  <2>2. 1 \in DOMAIN events /\ e = events[1] /\ k \in Nat /\ k >= 1
    BY <1>3, <2>1, Taking
  <2>3. k < 1
    BY <1>1, <1>3, <1>6, <2>1, <2>2 DEF ToldInOrder
  <2> QED
    BY <2>2, <2>3
<1>10. g \in DOMAIN registry =>
         /\ Forget(g)
         /\ outputs' = IF registry[g] = "wl_output" THEN OutputsWithout(g) ELSE outputs
  BY DEF OnGlobalRemove
<1>11. g \notin DOMAIN registry => UNCHANGED <<registry, interfaces, outputs>>
  BY DEF OnGlobalRemove
<1> HIDE DEF e, g
<1>12. /\ registry' \in [DOMAIN registry' -> Names] /\ DOMAIN registry' = DOMAIN registry \ {g}
       /\ interfaces' \in [DOMAIN interfaces' -> Seq(Gids)] /\ DOMAIN interfaces' \subseteq Names
       /\ \A i \in DOMAIN registry' : registry'[i] = registry[i]
       /\ InverseTables'
  <2>1. CASE g \in DOMAIN registry
    BY <1>1, <1>10, <2>1, TablesForget
  <2>2. CASE g \notin DOMAIN registry
    BY <1>1, <1>11, <2>2 DEF TypeOK, InverseTables
  <2> QED
    BY <2>1, <2>2
<1>13. /\ outputs' \in Seq(Output) /\ OutputsListed'
       /\ ToSet(outputs') = {o \in ToSet(outputs) : o.global_id # g}
  <2>1. CASE g \in DOMAIN registry
    BY <1>1, <1>10, <1>12, <2>1, OutputsForget
  <2>2. CASE g \notin DOMAIN registry
    <3>1. {o.global_id : o \in ToSet(outputs)} = {i \in DOMAIN registry : registry[i] = "wl_output"}
      BY <1>1 DEF OutputsListed
    <3>2. \A o \in ToSet(outputs) : o.global_id # g
      BY <2>2, <3>1
    <3>3. outputs' = outputs /\ registry' = registry
      BY <1>11, <2>2
    <3>4. outputs \in Seq(Output)
      BY <1>1, Typed
    <3> QED
      BY <1>1, <3>2, <3>3, <3>4 DEF OutputsListed
  <2> QED
    BY <2>1, <2>2
<1>14. TypeOK'
  <2>1. DOMAIN registry' \subseteq Gids
    BY <1>1, <1>12 DEF TypeOK
  <2> QED
    BY <1>1, <1>2, <1>3, <1>12, <1>13, <2>1 DEF TypeOK, serverVars
<1>15. Unasked'
  BY <1>1, <1>2, <1>4, <1>5 DEF Unasked
<1>16. GlobalsFollow'
  BY <1>1, <1>4, <1>5, <1>7, <1>8, <1>12 DEF GlobalsFollow
<1>17. ToldInOrder'
  BY <1>1, <1>3, <1>4, ToldTail
<1>18. NamesFixed'
  <2>1. Pairs(registry') \subseteq Pairs(registry)
    BY <1>12 DEF Pairs
  <2>2. Named' \subseteq Named
    BY <1>2, <1>4, <1>7, <2>1 DEF Named
  <2> QED
    BY <1>1, <1>4, <2>2, NamesSame
<1>19. IdsFixed'
  <2>1. AllOutputs' \subseteq AllOutputs
    BY <1>2, <1>4, <1>13 DEF AllOutputs
  <2> QED
    BY <1>1, <1>2, <1>4, <1>7, <2>1 DEF IdsFixed
<1>20. BoundKnown'
  BY <1>1, <1>2, <1>4, <1>12, <1>13 DEF BoundKnown
<1>21. BindsRight'
  BY <1>1, <1>2, <1>4 DEF BindsRight
<1>22. HoldersInOrder' /\ MovesFollow'
  BY <1>2, TableEvent
<1>23. MovesFound'
  <2>1. \A o \in bound : o \in ToSet(outputs) => o \in ToSet(outputs') \/ IsRemove(Head(events), o.global_id)
    BY <1>6, <1>13 DEF e
  <2> QED
    BY <1>1, <1>3, <1>4, <2>1, MovesTail
<1>24. OutputsFound'
  BY <1>2, <1>3 DEF OutputsFound, Running
<1> QED
  BY <1>12, <1>13, <1>14, <1>15, <1>16, <1>17, <1>18, <1>19, <1>20, <1>21, <1>22, <1>23, <1>24
     DEF RegistryInv

-----------------------------------------------------------------------------
LEMMA Step == RegistryInv /\ [Next]_vars => RegistryInv'
<1> SUFFICES ASSUME RegistryInv, [Next]_vars PROVE RegistryInv'
  OBVIOUS
<1>1. CASE UNCHANGED vars
  <2>1. /\ UNCHANGED <<registry, interfaces, initial_sync, outputs, windows, held, raised, nbound>>
        /\ UNCHANGED <<globals, nglobals, registered, bound, shown, nmoves, abrupt, rejected>>
        /\ UNCHANGED <<requests, events>>
    BY <1>1 DEF vars, clientVars, serverVars
  <2>2. TypeOK'
    BY <2>1 DEF RegistryInv, TypeOK
  <2>3. Unasked' /\ GlobalsFollow' /\ ToldInOrder' /\ InverseTables' /\ OutputsListed'
    BY <2>1 DEF RegistryInv, Unasked, GlobalsFollow, ToldInOrder, InverseTables, OutputsListed
  <2>4. NamesFixed'
    BY <2>1 DEF RegistryInv, NamesFixed, Named
  <2>5. IdsFixed' /\ BoundKnown' /\ BindsRight'
    BY <2>1 DEF RegistryInv, IdsFixed, AllOutputs, BoundKnown, BindsRight
  <2>6. HoldersInOrder' /\ MovesFound'
    BY <2>1 DEF RegistryInv, HoldersInOrder, Known, MovesFound, Found
  <2>7. MovesFollow' /\ OutputsFound'
    BY <2>1 DEF RegistryInv, MovesFollow, Running, On, OutputsFound
  <2> QED
    BY <2>2, <2>3, <2>4, <2>5, <2>6, <2>7 DEF RegistryInv
<1>2. CASE Dispatch
  <2>1. CASE OnGlobal
    BY <2>1, GlobalStep
  <2>2. CASE OnGlobalRemove
    BY <2>2, GlobalRemoveStep
  <2>3. CASE OnInitialSync
    BY <2>3, InitialSyncStep
  <2>4. CASE OnHolder
    BY <2>4, HolderStep
  <2>5. CASE OnClosed
    BY <2>5, ClosedStep
  <2>6. CASE OnEnter
    BY <2>6, EnterStep
  <2>7. CASE OnLeave
    BY <2>7, LeaveStep
  <2> QED
    BY <1>2, <2>1, <2>2, <2>3, <2>4, <2>5, <2>6, <2>7 DEF Dispatch
<1>3. CASE Serve
  BY <1>3, ServeRegistryStep, ServeSyncStep, ServeBindStep DEF Serve
<1>4. CASE Change
  <2>1. CASE \E name \in Hotplug : AddGlobal(name)
    BY <2>1, AddGlobalStep
  <2>2. CASE \E g \in {k \in DOMAIN globals : globals[k] \in Hotplug} : RemoveGlobal(g)
    BY <2>2, RemoveGlobalStep
  <2>3. CASE \E h \in Holders : NewHolder(h) \/ CloseHolder(h)
    BY <2>3, NewHolderStep, CloseHolderStep
  <2>4. CASE \E h \in Holders, o \in bound : Enter(h, o) \/ Leave(h, o)
    BY <2>4, OutputEnterStep, OutputLeaveStep
  <2> QED
    BY <1>4, <2>1, <2>2, <2>3, <2>4 DEF Change
<1>5. CASE \E name \in Managers : BindManager(name)
  BY <1>5, ManagerStep
<1> QED
  BY <1>1, <1>2, <1>3, <1>4, <1>5 DEF Next

\* The inductive invariant of the client's tables, the compositor's and the two queues.
THEOREM TablesAccounted == Spec => []RegistryInv
BY Initially, Step, PTL DEF Spec

\* The registry's two tables (on_global, on_global_remove) are inverses in every
\* reachable state: do_bind finds a global under its interface exactly when it is there.
THEOREM TablesAreInverse == Spec => []TablesInverse
<1>1. RegistryInv => TablesInverse
  BY DEF RegistryInv, InverseTables, TablesInverse
<1> QED
  BY <1>1, TablesAccounted, PTL

\* An event for an output that has not been removed under its object always finds the
\* output in Display.outputs, and set.remove is never asked for one that is not held.
THEOREM OutputsAreFound == Spec => []OutputsFound
<1>1. RegistryInv => OutputsFound
  BY DEF RegistryInv
<1> QED
  BY <1>1, TablesAccounted, PTL

\* With nothing in flight, what on_global, on_global_remove and the enter and leave
\* handlers have recorded is what the compositor has.
THEOREM ViewsCatchUp == Spec => []ViewsAgree
<1>1. RegistryInv => ViewsAgree
  <2> SUFFICES ASSUME RegistryInv, Running, registered, requests = <<>>, events = <<>>
               PROVE  /\ registry = globals
                      /\ {o.global_id : o \in ToSet(outputs)} = {g \in DOMAIN globals : globals[g] = "wl_output"}
                      /\ ToSet(outputs) = {o \in bound : o.global_id \in DOMAIN globals}
                      /\ \A h \in windows : held[h] = shown[h]
    BY DEF ViewsAgree
  <2>1. /\ TypeOK /\ GlobalsFollow /\ NamesFixed /\ OutputsListed /\ BoundKnown /\ MovesFollow
    BY DEF RegistryInv
  <2>2. /\ registry \in [DOMAIN registry -> Names] /\ DOMAIN registry \subseteq Gids
        /\ globals \in [DOMAIN globals -> Names] /\ DOMAIN globals \subseteq Gids
    <3>1. DOMAIN globals \subseteq 1..nglobals /\ nglobals \in Nat /\ nglobals <= MaxGlobals
      BY <2>1, Typed DEF TypeOK
    <3>2. DOMAIN globals \subseteq Gids
      BY <3>1, BoundsAssumption
    <3> QED
      BY <2>1, <3>2 DEF TypeOK
  <2>3. \A g : ~Pending(events, g) /\ ~Removing(events, g)
    BY DEF Pending, Removing
  <2>4. DOMAIN registry = DOMAIN globals
    BY <2>1, <2>2, <2>3 DEF GlobalsFollow
  <2>5. \A g \in DOMAIN registry : registry[g] = globals[g]
    <3>1. \A g \in DOMAIN registry : <<g, registry[g]>> \in Named /\ <<g, globals[g]>> \in Named
      BY <2>4 DEF Named, Pairs
    <3> QED
      BY <2>1, <3>1 DEF NamesFixed
  <2>6. registry = globals
    BY <2>2, <2>4, <2>5
  <2>7. {o.global_id : o \in ToSet(outputs)} = {g \in DOMAIN globals : globals[g] = "wl_output"}
    BY <2>1, <2>6 DEF OutputsListed
  <2>8. ToSet(outputs) = {o \in bound : o.global_id \in DOMAIN globals}
    <3>1. Binding(requests) = {}
      BY DEF Binding
    <3>2. \A o \in ToSet(outputs) : o.global_id \in DOMAIN globals
      BY <2>7
    <3> QED
      BY <2>1, <2>4, <3>1, <3>2 DEF BoundKnown
  <2>9. \A h \in windows : held[h] = shown[h]
    <3>1. windows \subseteq Holders /\ shown \in [Holders -> SUBSET bound]
      BY <2>1 DEF TypeOK
    <3>2. PICK n \in Nat : n = Len(events) + 1 /\ n = 1
      OBVIOUS
    <3>3. \A h \in Holders : \A o \in bound : o \in shown[h] <=> On(h, o, n)
      BY <2>1, <3>2 DEF MovesFollow
    <3>4. \A h \in windows : \A o : On(h, o, n) <=> o \in held[h]
      BY <3>2 DEF On
    <3>5. \A h \in Holders : held[h] \subseteq bound
      BY <2>1 DEF MovesFollow
    <3> QED
      BY <3>1, <3>3, <3>4, <3>5
  <2> QED
    BY <2>6, <2>7, <2>8, <2>9
<1> QED
  BY <1>1, TablesAccounted, PTL

-----------------------------------------------------------------------------
\* A request that is added binds a global the client knows, or has just read of.
Sourced(q) ==
    /\ q \in Seq(Request)
    /\ Len(requests) <= Len(q)
    /\ \A k \in DOMAIN q : k > Len(requests) =>
         q[k].gid \in DOMAIN registry \/ Pending(events, q[k].gid)

LEMMA SourcedMore ==
    ASSUME TypeOK, NEW q, Sourced(q), NEW m \in Request,
           m.gid \in DOMAIN registry \/ Pending(events, m.gid)
    PROVE  Sourced(Append(q, m))
<1>1. q \in Seq(Request) /\ Len(requests) <= Len(q) /\ Len(requests) \in Nat
  BY Typed, LenProperties DEF Sourced
<1>2. /\ Append(q, m) \in Seq(Request)
      /\ Len(q) \in Nat /\ DOMAIN q = 1..Len(q)
      /\ Len(Append(q, m)) = Len(q) + 1 /\ DOMAIN Append(q, m) = 1..(Len(q) + 1)
      /\ \A k \in 1..Len(q) : Append(q, m)[k] = q[k]
      /\ Append(q, m)[Len(q) + 1] = m
  BY <1>1, Adding
<1>3. \A k \in DOMAIN Append(q, m) :
        (k \in DOMAIN q /\ Append(q, m)[k] = q[k]) \/ Append(q, m)[k] = m
  BY <1>2
<1>4. Len(requests) <= Len(Append(q, m))
  BY <1>1, <1>2
<1>5. \A k \in DOMAIN q : k > Len(requests) => q[k].gid \in DOMAIN registry \/ Pending(events, q[k].gid)
  BY DEF Sourced
<1> QED
  BY <1>2, <1>3, <1>4, <1>5 DEF Sourced

LEMMA NoneNew ==
    ASSUME NEW T, NEW r \in Seq(T), NEW q \in Seq(T), q = r \/ (r # <<>> /\ q = Tail(r))
    PROVE  \A k \in DOMAIN q : ~(k > Len(r))
<1>1. Len(r) \in Nat /\ DOMAIN r = 1..Len(r)
  BY LenProperties
<1>2. CASE q = r
  BY <1>1, <1>2
<1>3. CASE r # <<>> /\ q = Tail(r)
  <2>1. DOMAIN q = 1..(Len(r) - 1)
    BY <1>3, Taking
  <2> QED
    BY <1>1, <2>1
<1> QED
  BY <1>2, <1>3

LEMMA AllSourced ==
    ASSUME RegistryInv, Next, NEW k \in DOMAIN requests', k > Len(requests)
    PROVE  /\ requests'[k].gid \in DOMAIN registry \/ Pending(events, requests'[k].gid)
           /\ requests' \in Seq(Request)
<1>1. TypeOK /\ InverseTables /\ nbound \in Nat /\ requests \in Seq(Request)
  BY DEF RegistryInv, TypeOK
<1>2. requests' \in Seq(Request)
  BY Step DEF RegistryInv, TypeOK
<1>3. ~(requests' = requests \/ (requests # <<>> /\ requests' = Tail(requests)))
  BY <1>1, <1>2, NoneNew
<1>4. OnGlobal \/ OnInitialSync \/ \E name \in Managers : BindManager(name)
  BY <1>3 DEF Next, Dispatch, Serve, Change, OnGlobalRemove, OnHolder, OnClosed, OnEnter, OnLeave,
     ServeRegistry, ServeSync, ServeBind, TakeRequest, AddGlobal, RemoveGlobal, NewHolder, CloseHolder,
     Enter, Leave
<1>5. Sourced(requests)
  <2>1. Len(requests) \in Nat /\ DOMAIN requests = 1..Len(requests)
    BY <1>1, LenProperties
  <2> QED
    BY <1>1, <2>1 DEF Sourced
<1>6. \A name \in Names : \A id \in ObjIds :
        Supported(name) =>
          /\ BindRequest(FirstGlobal(name), name, id) \in Request
          /\ BindRequest(FirstGlobal(name), name, id).gid \in DOMAIN registry
  BY <1>1, FirstListed, BindTyped
<1>7. Sourced(requests')
  <2>1. CASE OnGlobal
    <3> DEFINE e == Head(events)
               m == BindRequest(e.gid, e.name, nbound + 1)
    <3>1. /\ e.gid \in Gids /\ e.name \in Names /\ e.ev = "global" /\ events # <<>> /\ events \in Seq(Event)
      BY <1>1, <2>1, EventTaken, Typed DEF OnGlobal
    <3>2. requests' = Append(requests, m)
      BY <1>3, <2>1 DEF OnGlobal
    <3>3. m \in Request /\ m.gid = e.gid
      BY <1>1, <3>1, BindTyped
    <3>4. Pending(events, e.gid)
      BY <3>1, EventsTail DEF IsGlobal
    <3> HIDE DEF e, m
    <3> QED
      BY <1>1, <1>5, <3>2, <3>3, <3>4, SourcedMore
  <2>2. CASE OnInitialSync
    <3> DEFINE first == BindRequest(FirstGlobal("wl_seat"), "wl_seat", nbound + 1)
               second == BindRequest(FirstGlobal("wl_shm"), "wl_shm", nbound + 2)
    <3>1. "wl_seat" \in Names /\ "wl_shm" \in Names /\ nbound + 1 \in ObjIds /\ nbound + 2 \in ObjIds
      BY <1>1, NamesAssumption
    <3>2. Supported("wl_seat")
      BY <1>3, <2>2 DEF OnInitialSync
    <3>3. first \in Request /\ first.gid \in DOMAIN registry
      BY <1>6, <3>1, <3>2
    <3>4. Sourced(Append(requests, first))
      <4> HIDE DEF first
      <4> QED
        BY <1>1, <1>5, <3>3, SourcedMore
    <3>5. CASE ~Supported("wl_shm")
      BY <2>2, <3>2, <3>4, <3>5 DEF OnInitialSync
    <3>6. CASE Supported("wl_shm")
      <4>1. second \in Request /\ second.gid \in DOMAIN registry
        BY <1>6, <3>1, <3>6
      <4>2. requests' = requests \o <<first, second>>
        BY <2>2, <3>2, <3>6 DEF OnInitialSync
      <4> DEFINE q == Append(requests, first)
      <4> HIDE DEF first, second
      <4>3. requests' = Append(q, second)
        BY <1>1, <3>3, <4>1, <4>2, AddingTwo
      <4>4. Sourced(q)
        BY <3>4
      <4> HIDE DEF q
      <4>5. Sourced(Append(q, second))
        BY <1>1, <4>1, <4>4, SourcedMore
      <4> QED
        BY <4>3, <4>5
    <3> QED
      BY <3>5, <3>6
  <2>3. CASE \E name \in Managers : BindManager(name)
    <3>1. PICK name \in Managers : BindManager(name)
      BY <2>3
    <3> DEFINE m == BindRequest(FirstGlobal(name), name, nbound + 1)
    <3>2. Supported(name) /\ requests' = Append(requests, m)
      BY <3>1 DEF BindManager
    <3>3. name \in Names /\ nbound + 1 \in ObjIds
      BY <1>1, NamesAssumption
    <3>4. m \in Request /\ m.gid \in DOMAIN registry
      BY <1>6, <3>2, <3>3
    <3> HIDE DEF m
    <3> QED
      BY <1>1, <1>5, <3>2, <3>4, SourcedMore
  <2> QED
    BY <1>4, <2>1, <2>2, <2>3
<1> QED
  BY <1>2, <1>7 DEF Sourced

\* Every bind that do_bind sends names a global there was, with its interface and a
\* version the compositor has, and none is sent for a global the client has read the end of.
THEOREM BindsAreValid == Spec => BindsValid
<1> DEFINE A == \A k \in DOMAIN requests' : k > Len(requests) /\ requests'[k].op = "bind" =>
                    ~RemovalRead(requests'[k].gid)
<1>1. RegistryInv => ~rejected
  BY DEF RegistryInv, BindsRight
<1>2. RegistryInv /\ [Next]_vars => [A]_vars
  <2> SUFFICES ASSUME RegistryInv, Next, NEW k \in DOMAIN requests', k > Len(requests),
                      requests'[k].op = "bind", RemovalRead(requests'[k].gid)
               PROVE  FALSE
    OBVIOUS
  <2> DEFINE g == requests'[k].gid
  <2>1. (g \in DOMAIN registry \/ Pending(events, g)) /\ requests' \in Seq(Request)
    BY AllSourced
  <2>2. g \in Gids
    <3>1. requests'[k] \in Request
      BY <2>1, ElementOfSeq, LenProperties
    <3> QED
      BY <3>1 DEF Request
  <2>3. g \notin DOMAIN globals /\ \A j \in DOMAIN events : events[j] # [ev |-> "global_remove", gid |-> g]
    BY DEF RemovalRead
  <2>4. TypeOK /\ GlobalsFollow /\ Unasked
    BY DEF RegistryInv
  <2>5. registered
    BY <2>1, <2>4 DEF Unasked, Pending
  <2> HIDE DEF g
  <2>6. Removing(events, g)
    BY <2>1, <2>2, <2>3, <2>4, <2>5 DEF GlobalsFollow
  <2>7. PICK j \in DOMAIN events : IsRemove(events[j], g)
    BY <2>6 DEF Removing
  <2>8. events[j] = [ev |-> "global_remove", gid |-> g]
    <3>1. events[j] \in Event
      BY <2>4, Typed
    <3> QED
      BY <2>7, <3>1 DEF IsRemove, Event
  <2> QED
    BY <2>3, <2>8
<1> QED
  BY <1>1, <1>2, TablesAccounted, PTL DEF Spec, BindsValid
=============================================================================
