--------------------------- MODULE SelectionsProofs ---------------------------
(***************************************************************************)
(* The client's offers and sources against the compositor's, with what is  *)
(* on its way in both directions.  The inductive invariant follows an      *)
(* offer from its introduction to its destruction, for any order of the    *)
(* application's, the compositor's and the device's steps, and a source    *)
(* from its creation over its selection and its cancelling to its end.     *)
(***************************************************************************)
EXTENDS Selections, SequenceTheorems, FiniteSetTheorems, TLAPS

USE DEF Kinds, Offer, Source, None

\* Requests and events about an offer, by what they say of it.
Destroys(m, id) == m.op = "destroy_offer" /\ m.id = id
Destroyed(id) == \E k \in DOMAIN requests : Destroys(requests[k], id)
Introduces(e, o) == e.ev = "data_offer" /\ e.offer = o
Introduced(o) == \E k \in DOMAIN events : Introduces(events[k], o)
NamesOffer(e) == e.ev \in Kinds /\ e.offer # NoOffer
Aside(e) == e.ev \in {"cancelled", "send"}

\* The compositor's offers: one per id, each on its way to the client, among its
\* handlers or on its way out, and never in two of these.
OffersAccounted ==
    /\ \A r, s \in resources : r.id = s.id => r = s
    /\ handlers \subseteq resources
    /\ \A r \in resources : r \in handlers \/ Introduced(r) \/ Destroyed(r.id)
    /\ \A o \in Offer : Introduced(o) => o \in resources \ handlers /\ ~Destroyed(o.id)
    /\ \A id \in OfferIds : Destroyed(id) => (\E r \in resources : r.id = id) /\ ~Attached(id)

\* An offer is destroyed once, and introduced once.
DestroyedOnce ==
    /\ \A j, k \in DOMAIN requests : \A id \in OfferIds :
         Destroys(requests[j], id) /\ Destroys(requests[k], id) => j = k
    /\ "offer" \notin rejected
IntroducedOnce ==
    \A j, k \in DOMAIN events : \A o \in Offer :
        Introduces(events[j], o) /\ Introduces(events[k], o) => j = k

\* An offer is introduced right before the event that names it, and nothing about
\* offers follows the end of the device.
EventsPaired ==
    \A k \in DOMAIN events :
        /\ events[k].ev = "data_offer" =>
             /\ k + 1 \in DOMAIN events /\ NamesOffer(events[k + 1])
             /\ events[k + 1].offer = events[k].offer
        /\ NamesOffer(events[k]) => k = 1 \/ Introduces(events[k - 1], events[k].offer)
EndingLast ==
    /\ \A j, k \in DOMAIN events :
         events[k].ev = "finished" => finished /\ (j > k => Aside(events[j]))
    /\ ~device => finished /\ \A k \in DOMAIN events : Aside(events[k])

\* The offer the next event names, if it does.
Waiting == {events[k].offer : k \in {j \in {1} \cap DOMAIN events : NamesOffer(events[j])}}

\* The three places while nothing has upset them.  The offers with handlers are the
\* selections and the one that is about to become one.
TableFinite == IsFiniteSet(DOMAIN offers)
PlacesFollow ==
    Running /\ appgone = {} =>
        IF device
        THEN /\ Range(offers) = handlers
             /\ \A id \in DOMAIN offers : offers[id].id = id
             /\ handlers = (Range(current) \ {NoOffer}) \cup Waiting
             /\ Range(current) \cap Waiting = {}
             /\ current["selection"] = current["primary"] => current["selection"] = NoOffer
        ELSE handlers = {}

\* The last event of a kind names what the compositor has chosen; without one the
\* client knows.
LastOf(kind, k) == events[k].ev = kind /\ \A j \in DOMAIN events : j > k => events[j].ev # kind
ChosenFollows ==
    \A kind \in Kinds :
        /\ \A k \in DOMAIN events : LastOf(kind, k) => events[k].offer = chosen[kind]
        /\ Running /\ appgone = {} /\ device /\ (\A k \in DOMAIN events : events[k].ev # kind) =>
             current[kind] = chosen[kind]
FailuresKnown == raised \ {"no source", "fd"} # {} => appgone # {}

OfferInv ==
    /\ OffersAccounted /\ DestroyedOnce /\ IntroducedOnce /\ EventsPaired /\ EndingLast
    /\ TableFinite /\ PlacesFollow /\ ChosenFollows /\ FailuresKnown

\* Which offer a destroy is for.  Under an id of which the application has destroyed no
\* offer, a destroy on its way is for an offer the compositor has, and the table and the
\* two attributes hold the offer that has the handler; none is both selections, nor a
\* selection before the event that names it has come.
Clean(id) == \A a \in appgone : a.id # id
TableKeyed == \A id \in DOMAIN offers : offers[id].id = id
DestroysMeant ==
    \A k \in DOMAIN requests : requests[k].op = "destroy_offer" =>
        /\ requests[k].meant.id = requests[k].id
        /\ Clean(requests[k].id) => requests[k].meant \in resources
AstrayKnown == \A o \in astray : ~Clean(o.id)
PlacesClean ==
    Running /\ device =>
        /\ \A id \in DOMAIN offers : Clean(id) => offers[id] \in handlers
        /\ \A kind \in Kinds : current[kind] # NoOffer /\ Clean(current[kind].id) =>
             current[kind] \in handlers
        /\ current["selection"] = current["primary"] /\ current["primary"] # NoOffer =>
             ~Clean(current["primary"].id)
        /\ \A o \in Waiting : Clean(o.id) => o \in handlers \ Range(current)
MeantInv == TableKeyed /\ DestroysMeant /\ AstrayKnown /\ PlacesClean

\* Requests and events about a source.
Creates(m, s) == m.op = "create_source" /\ m.source = s
Ends(m, s) == m.op = "destroy_source" /\ m.source = s
Sets(m, s) == m.op \in Kinds /\ m.source = s
IsCancel(e, s) == e.ev = "cancelled" /\ e.source = s
IsSend(e, s) == e.ev = "send" /\ e.source = s

\* A source has a handler from its creation to its destruction, each of which is
\* sent once, and is set in between.
Made == 1..nsources
Opened(s, k) == s \in has_source \/ \E j \in DOMAIN requests : j < k /\ Creates(requests[j], s)
SourcesAccounted ==
    /\ listening \subseteq Made /\ used \subseteq Made /\ has_source \subseteq Made
    /\ \A s \in Made :
         s \in listening <=> /\ s \in has_source \/ \E k \in DOMAIN requests : Creates(requests[k], s)
                             /\ \A k \in DOMAIN requests : ~Ends(requests[k], s)
    /\ \A k \in DOMAIN requests : \A s \in Source :
         /\ Creates(requests[k], s) =>
              /\ s \in Made \ has_source
              /\ \A j \in DOMAIN requests : Creates(requests[j], s) => j = k
         /\ Ends(requests[k], s) =>
              /\ s \in Made /\ Opened(s, k)
              /\ \A j \in DOMAIN requests : Ends(requests[j], s) => j = k
         /\ Sets(requests[k], s) =>
              /\ s \in Made /\ Opened(s, k)
              /\ \A j \in DOMAIN requests : Ends(requests[j], s) => k < j
RejectedKnown ==
    /\ ~has_device => ~device
    /\ \A k \in DOMAIN requests : requests[k].op = "destroy_device" => ~device
    /\ rejected \subseteq (IF version = 1 THEN {"version"} ELSE {})
                       \cup (IF device THEN {} ELSE {"device"})

\* Until the application destroys a source, one that is set is in one place: on its
\* way, a selection, or about to be cancelled.  It has its handler until then.
Used(s) == s \in used /\ s \in listening
NoneMissed == "no source" \notin raised
CancelsFind ==
    srcgone = {} =>
        /\ sources = listening
        /\ \A k \in DOMAIN requests : \A s \in Source :
             Sets(requests[k], s) =>
                /\ Used(s)
                /\ \A j \in DOMAIN requests : Sets(requests[j], s) => j = k
                /\ \A kind \in Kinds : owner[kind] # s
                /\ \A j \in DOMAIN events : ~IsCancel(events[j], s)
        /\ \A kind \in Kinds :
             owner[kind] # None =>
                /\ Used(owner[kind])
                /\ \A other \in Kinds : owner[other] = owner[kind] => other = kind
                /\ \A j \in DOMAIN events : ~IsCancel(events[j], owner[kind])
        /\ \A k \in DOMAIN events : \A s \in Source :
             /\ IsCancel(events[k], s) =>
                  /\ Used(s)
                  /\ \A j \in DOMAIN events : IsCancel(events[j], s) => j = k
             /\ IsSend(events[k], s) =>
                  /\ s \in listening
                  /\ \A j \in DOMAIN events : IsCancel(events[j], s) => k < j
        /\ NoneMissed

SourceInv == SourcesAccounted /\ RejectedKnown /\ CancelsFind

SelectionsInv == TypeOK /\ OfferInv /\ MeantInv /\ SourceInv

-----------------------------------------------------------------------------
\* What is taken from the front of a queue, or added at its end.
LEMMA Taking ==
    ASSUME NEW T, NEW q \in Seq(T), q # <<>>
    PROVE  /\ Head(q) = q[1] /\ Head(q) \in T /\ Tail(q) \in Seq(T)
           /\ Len(q) \in Nat \ {0} /\ DOMAIN q = 1..Len(q) /\ 1 \in DOMAIN q
           /\ DOMAIN Tail(q) = 1..(Len(q) - 1)
           /\ \A k \in DOMAIN Tail(q) : k + 1 \in DOMAIN q /\ Tail(q)[k] = q[k + 1]
           /\ \A k \in DOMAIN q : k = 1 \/ (k - 1 \in DOMAIN Tail(q) /\ Tail(q)[k - 1] = q[k])
<1>1. Len(q) \in Nat \ {0} /\ DOMAIN q = 1..Len(q)
  BY EmptySeq, LenProperties
<1>2. /\ Head(q) = q[1] /\ Head(q) \in T /\ Tail(q) \in Seq(T)
      /\ Len(Tail(q)) = Len(q) - 1 /\ \A k \in 1..(Len(q) - 1) : Tail(q)[k] = q[k + 1]
  BY <1>1, HeadTailProperties
<1>3. DOMAIN Tail(q) = 1..(Len(q) - 1)
  BY <1>1, <1>2, LenProperties
<1> QED
  BY <1>1, <1>2, <1>3

LEMMA Adding ==
    ASSUME NEW T, NEW q \in Seq(T), NEW m \in T
    PROVE  /\ Append(q, m) \in Seq(T)
           /\ Len(q) \in Nat /\ DOMAIN q = 1..Len(q)
           /\ DOMAIN Append(q, m) = 1..(Len(q) + 1)
           /\ \A k \in DOMAIN q : k \in DOMAIN Append(q, m) /\ Append(q, m)[k] = q[k]
           /\ Append(q, m)[Len(q) + 1] = m
BY AppendProperties, LenProperties

LEMMA Joining ==
    ASSUME NEW T, NEW q \in Seq(T), NEW a \in Seq(T)
    PROVE  /\ q \o a \in Seq(T)
           /\ Len(q) \in Nat /\ DOMAIN q = 1..Len(q) /\ Len(a) \in Nat /\ DOMAIN a = 1..Len(a)
           /\ Len(q \o a) = Len(q) + Len(a) /\ DOMAIN (q \o a) = 1..(Len(q) + Len(a))
           /\ \A k \in DOMAIN q : k \in DOMAIN (q \o a) /\ (q \o a)[k] = q[k]
           /\ \A k \in DOMAIN a : (q \o a)[Len(q) + k] = a[k]
<1>1. Len(q) \in Nat /\ DOMAIN q = 1..Len(q) /\ Len(a) \in Nat /\ DOMAIN a = 1..Len(a)
  BY LenProperties
<1>2. /\ q \o a \in Seq(T) /\ Len(q \o a) = Len(q) + Len(a)
      /\ \A k \in 1..(Len(q) + Len(a)) :
           (q \o a)[k] = IF k <= Len(q) THEN q[k] ELSE a[k - Len(q)]
  BY ConcatProperties
<1>3. DOMAIN (q \o a) = 1..(Len(q) + Len(a))
  BY <1>2, LenProperties
<1>4. ASSUME NEW k \in DOMAIN a PROVE (q \o a)[Len(q) + k] = a[k]
  <2>1. k \in Nat /\ Len(q) + k \in 1..(Len(q) + Len(a)) /\ ~(Len(q) + k <= Len(q))
        /\ (Len(q) + k) - Len(q) = k
    BY <1>1
  <2> QED
    BY <1>2, <2>1
<1> QED
  BY <1>1, <1>2, <1>3, <1>4

\* The places before the first that does not qualify are 1 to some m.
LEMMA Prefix ==
    ASSUME NEW n \in Nat, NEW G \in SUBSET (1..n), \A k \in G : 1..k \subseteq G
    PROVE  \E m \in 0..n : G = 1..m
<1>1. IsFiniteSet(1..n) /\ Cardinality(1..n) = n
  BY FS_Interval
<1>2. IsFiniteSet(G) /\ Cardinality(G) <= n /\ Cardinality(G) \in Nat
  BY <1>1, FS_Subset, FS_CardinalityType
<1>3. ASSUME NEW k \in G PROVE k <= Cardinality(G)
  <2>1. k \in 1..n /\ 1..k \in SUBSET G /\ Cardinality(1..k) = k
    BY <1>3, FS_Interval
  <2> QED
    BY <1>2, <2>1, FS_Subset
<1>4. ASSUME NEW k \in 1..Cardinality(G) PROVE k \in G
  <2> SUFFICES ASSUME k \notin G PROVE FALSE
    OBVIOUS
  <2>1. k \in Nat \ {0} /\ G \subseteq 1..(k - 1)
    <3>1. k \in Nat \ {0}
      BY <1>2
    <3>2. ASSUME NEW j \in G PROVE j \in 1..(k - 1)
      <4>1. j \in 1..n /\ ~(k \in 1..j)
        OBVIOUS
      <4> QED
        BY <3>1, <4>1
    <3> QED
      BY <3>1, <3>2
  <2>2. IsFiniteSet(1..(k - 1)) /\ Cardinality(1..(k - 1)) = k - 1
    <3>1. 1 \in Int /\ k - 1 \in Int /\ (IF 1 > k - 1 THEN 0 ELSE (k - 1) - 1 + 1) = k - 1
      BY <2>1
    <3> QED
      BY <3>1, FS_Interval
  <2>3. Cardinality(G) <= Cardinality(1..(k - 1))
    <3>1. G \in SUBSET (1..(k - 1))
      BY <2>1
    <3> QED
      BY <2>2, <3>1, FS_Subset
  <2> QED
    BY <1>2, <1>4, <2>1, <2>2, <2>3
<1>5. Cardinality(G) \in 0..n
  BY <1>2
<1>6. G = 1..Cardinality(G)
  <2>1. ASSUME NEW k \in G PROVE k \in 1..Cardinality(G)
    BY <1>2, <1>3
  <2> QED
    BY <1>4, <2>1
<1> QED
  BY <1>5, <1>6

-----------------------------------------------------------------------------
\* Types, and what the next event and request are.
LEMMA Requesting ==
    /\ \A o \in Offer : DestroyOffer(o) \in Request
    /\ [op |-> "destroy_device"] \in Request
    /\ \A s \in Source : /\ [op |-> "create_source", source |-> s] \in Request
                         /\ [op |-> "destroy_source", source |-> s] \in Request
    /\ \A kind \in Kinds, s \in Source \cup {None} : [op |-> kind, source |-> s] \in Request
BY DEF Request, DestroyOffer

LEMMA Announcing ==
    /\ \A o \in Offer : [ev |-> "data_offer", offer |-> o] \in Event
    /\ \A kind \in Kinds, o \in Offer \cup {NoOffer} : [ev |-> kind, offer |-> o] \in Event
    /\ [ev |-> "finished"] \in Event
    /\ \A s \in Source : /\ [ev |-> "cancelled", source |-> s] \in Event
                         /\ [ev |-> "send", source |-> s] \in Event
BY DEF Event

LEMMA Messages ==
    ASSUME TypeOK
    PROVE  /\ requests \in Seq(Request) /\ events \in Seq(Event)
           /\ Len(requests) \in Nat /\ DOMAIN requests = 1..Len(requests)
           /\ Len(events) \in Nat /\ DOMAIN events = 1..Len(events)
           /\ \A k \in DOMAIN requests : requests[k] \in Request
           /\ \A k \in DOMAIN events : events[k] \in Event
<1>1. requests \in Seq(Request) /\ events \in Seq(Event)
  BY DEF TypeOK
<1>2. /\ Len(requests) \in Nat /\ DOMAIN requests = 1..Len(requests)
      /\ Len(events) \in Nat /\ DOMAIN events = 1..Len(events)
  BY <1>1, LenProperties
<1> QED
  BY <1>1, <1>2, ElementOfSeq

LEMMA EventKinds ==
    ASSUME NEW e \in Event
    PROVE  /\ e.ev \in {"data_offer", "selection", "primary", "finished", "cancelled", "send"}
           /\ e.ev = "data_offer" => e.offer \in Offer
           /\ e.ev \in Kinds => e.offer \in Offer \cup {NoOffer}
           /\ Aside(e) => e.source \in Source
BY DEF Event, Aside

LEMMA RequestKinds ==
    ASSUME NEW m \in Request
    PROVE  /\ m.op \in {"destroy_offer", "destroy_device", "create_source", "destroy_source",
                        "selection", "primary"}
           /\ m.op = "destroy_offer" => m.id \in OfferIds
           /\ m.op \in {"create_source", "destroy_source"} => m.source \in Source
           /\ m.op \in Kinds => m.source \in Source \cup {None}
BY DEF Request

LEMMA EventTaken ==
    ASSUME TypeOK, NEW t, Take(t)
    PROVE  /\ Running /\ events # <<>> /\ 1 \in DOMAIN events
           /\ Head(events) = events[1] /\ events[1] \in Event /\ events[1].ev = t
           /\ events' \in Seq(Event) /\ Len(events) \in Nat \ {0} /\ DOMAIN events = 1..Len(events)
           /\ DOMAIN events' = 1..(Len(events) - 1)
           /\ \A k \in DOMAIN events' : k + 1 \in DOMAIN events /\ events'[k] = events[k + 1]
           /\ \A k \in DOMAIN events : k = 1 \/ (k - 1 \in DOMAIN events' /\ events'[k - 1] = events[k])
<1>1. events \in Seq(Event) /\ events # <<>> /\ events' = Tail(events) /\ Head(events).ev = t /\ Running
  BY DEF TypeOK, Take
<1> QED
  BY <1>1, Taking

LEMMA RequestTaken ==
    ASSUME TypeOK, NEW op, TakeRequest(op)
    PROVE  /\ rejected = {} /\ requests # <<>> /\ 1 \in DOMAIN requests
           /\ Head(requests) = requests[1] /\ requests[1] \in Request /\ requests[1].op = op
           /\ requests' \in Seq(Request)
           /\ Len(requests) \in Nat \ {0} /\ DOMAIN requests = 1..Len(requests)
           /\ DOMAIN requests' = 1..(Len(requests) - 1)
           /\ \A k \in DOMAIN requests' :
                k + 1 \in DOMAIN requests /\ requests'[k] = requests[k + 1]
           /\ \A k \in DOMAIN requests :
                k = 1 \/ (k - 1 \in DOMAIN requests' /\ requests'[k - 1] = requests[k])
<1>1. /\ requests \in Seq(Request) /\ requests # <<>> /\ requests' = Tail(requests)
      /\ Head(requests).op = op /\ rejected = {}
  BY DEF TypeOK, TakeRequest
<1> QED
  BY <1>1, Taking

LEMMA RequestAdded ==
    ASSUME TypeOK, NEW m \in Request, requests' = Append(requests, m)
    PROVE  /\ requests' \in Seq(Request)
           /\ Len(requests) \in Nat /\ DOMAIN requests = 1..Len(requests)
           /\ DOMAIN requests' = 1..(Len(requests) + 1)
           /\ \A k \in DOMAIN requests : k \in DOMAIN requests' /\ requests'[k] = requests[k]
           /\ requests'[Len(requests) + 1] = m
<1>1. requests \in Seq(Request)
  BY DEF TypeOK
<1> QED
  BY <1>1, Adding

LEMMA EventsAdded ==
    ASSUME TypeOK, NEW a \in Seq(Event), events' = events \o a
    PROVE  /\ events' \in Seq(Event)
           /\ Len(events) \in Nat /\ DOMAIN events = 1..Len(events)
           /\ Len(a) \in Nat /\ DOMAIN a = 1..Len(a)
           /\ DOMAIN events' = 1..(Len(events) + Len(a))
           /\ \A k \in DOMAIN events : k \in DOMAIN events' /\ events'[k] = events[k]
           /\ \A k \in DOMAIN a : events'[Len(events) + k] = a[k]
<1>1. events \in Seq(Event)
  BY DEF TypeOK
<1> QED
  BY <1>1, Joining

LEMMA RequestsAdded ==
    ASSUME TypeOK, NEW a \in Seq(Request), requests' = requests \o a
    PROVE  /\ requests' \in Seq(Request)
           /\ Len(requests) \in Nat /\ DOMAIN requests = 1..Len(requests)
           /\ DOMAIN requests' = 1..(Len(requests) + Len(a))
           /\ \A k \in DOMAIN requests : k \in DOMAIN requests' /\ requests'[k] = requests[k]
           /\ \A k \in DOMAIN a : requests'[Len(requests) + k] = a[k]
<1>1. requests \in Seq(Request)
  BY DEF TypeOK
<1> QED
  BY <1>1, Joining

\* What the owner of a selection is told.
LEMMA Cancelling ==
    ASSUME TypeOK, NEW kind \in Kinds
    PROVE  /\ Cancel(kind) \in Seq(Event)
           /\ Len(Cancel(kind)) = IF owner[kind] = None THEN 0 ELSE 1
           /\ owner[kind] # None =>
                owner[kind] \in Source
                /\ Cancel(kind)[1] = [ev |-> "cancelled", source |-> owner[kind]]
<1>1. owner[kind] \in Source \cup {None}
  BY DEF TypeOK
<1>2. CASE owner[kind] = None
  BY <1>2 DEF Cancel
<1>3. CASE owner[kind] # None
  <2>1. [ev |-> "cancelled", source |-> owner[kind]] \in Event
    BY <1>1, <1>3, Announcing
  <2>2. Cancel(kind) = <<[ev |-> "cancelled", source |-> owner[kind]]>>
    BY <1>3 DEF Cancel
  <2> QED
    BY <1>1, <1>3, <2>1, <2>2
<1> QED
  BY <1>2, <1>3

\* What the end of the device does, in the order in which it goes through the table:
\* it destroys the m offers before the first one without a handler.
EndsAfter(n, m, order) ==
    /\ Range(order) = DOMAIN offers
    /\ \A j, k \in 1..n : order[j] = order[k] => j = k
    /\ \A k \in 1..m : Attached(order[k])
    /\ handlers' = WithoutHandlers({order[k] : k \in 1..m})
    /\ requests' \in Seq(Request)
    /\ \A k \in DOMAIN requests : k \in DOMAIN requests' /\ requests'[k] = requests[k]
    /\ \A k \in 1..m : requests'[Len(requests) + k] = DestroyOffer(offers[order[k]])
    /\ \/ /\ m < n /\ ~Attached(order[m + 1])
          /\ raised' = {"not attached"} /\ UNCHANGED <<offers, device>>
          /\ DOMAIN requests' = 1..(Len(requests) + m)
       \/ /\ m = n
          /\ offers' = <<>> /\ device' = FALSE /\ UNCHANGED raised
          /\ DOMAIN requests' = 1..(Len(requests) + m + 1)
          /\ requests'[Len(requests) + m + 1] = [op |-> "destroy_device"]

LEMMA DeviceEnded ==
    ASSUME TypeOK, TableFinite, OnFinished
    PROVE  \E n \in Nat : \E m \in 0..n : \E order \in [1..n -> DOMAIN offers] :
             EndsAfter(n, m, order)
<1> DEFINE n == Cardinality(DOMAIN offers)
<1>1. n \in Nat
  BY FS_CardinalityType DEF TableFinite
<1>2. PICK order \in [1..n -> DOMAIN offers] :
         LET gone == {k \in DOMAIN order : \A j \in 1..k : Attached(order[j])}
         IN /\ Range(order) = DOMAIN offers
            /\ handlers' = WithoutHandlers({order[k] : k \in gone})
            /\ LET destroys == [k \in gone |-> DestroyOffer(offers[order[k]])] IN
               IF gone = DOMAIN order
               THEN /\ offers' = <<>> /\ device' = FALSE /\ UNCHANGED raised
                    /\ requests' = requests \o Append(destroys, [op |-> "destroy_device"])
               ELSE /\ raised' = {"not attached"} /\ UNCHANGED <<offers, device>>
                    /\ requests' = requests \o destroys
  BY DEF OnFinished
<1> DEFINE gone == {k \in 1..n : \A j \in 1..k : Attached(order[j])}
<1>3. PICK m \in 0..n : gone = 1..m
  <2>1. gone \in SUBSET (1..n)
    OBVIOUS
  <2>2. ASSUME NEW k \in gone PROVE 1..k \subseteq gone
    BY <1>1
  <2> HIDE DEF gone, n
  <2> QED
    BY <1>1, <2>1, <2>2, Prefix
<1> DEFINE destroys == [k \in 1..m |-> DestroyOffer(offers[order[k]])]
<1>4. \A j, k \in 1..n : order[j] = order[k] => j = k
  <2>1. IsFiniteSet(1..n) /\ Cardinality(1..n) = n
    BY <1>1, FS_Interval
  <2>2. order \in Surjection(1..n, DOMAIN offers)
    BY <1>2 DEF Surjection, Range
  <2>3. order \in Injection(1..n, DOMAIN offers)
    <3> HIDE DEF n
    <3>1. Cardinality(1..n) = Cardinality(DOMAIN offers)
      BY <2>1 DEF n
    <3> QED
      BY <2>1, <2>2, <3>1, FS_SurjSameCardinalityImpliesInj
  <2> HIDE DEF n
  <2> QED
    BY <2>3 DEF Injection, IsInjective
<1>5. \A k \in 1..m : Attached(order[k])
  <2> SUFFICES ASSUME NEW k \in 1..m PROVE Attached(order[k])
    OBVIOUS
  <2>1. k \in gone /\ k \in 1..k
    BY <1>1, <1>3
  <2> QED
    BY <2>1
<1>6. /\ destroys \in Seq(Request) /\ Len(destroys) = m
      /\ \A k \in 1..m : destroys[k] = DestroyOffer(offers[order[k]])
  <2>1. ASSUME NEW k \in 1..m PROVE DestroyOffer(offers[order[k]]) \in Request
    <3>1. order[k] \in DOMAIN offers
      BY <1>1
    <3>2. offers[order[k]] \in Offer
      BY <3>1 DEF TypeOK
    <3> QED
      BY <3>2, Requesting
  <2>2. m \in Nat
    BY <1>1
  <2>3. destroys \in [1..m -> Request]
    BY <2>1
  <2>4. destroys \in Seq(Request)
    BY <2>2, <2>3
  <2> QED
    BY <2>2, <2>4
<1> HIDE DEF destroys
<1>7. requests \in Seq(Request) /\ Len(requests) \in Nat /\ DOMAIN requests = 1..Len(requests)
  BY Messages
<1>8. \A k \in gone : k \in 1..n
  OBVIOUS
<1>9. DOMAIN order = 1..n /\ gone = {k \in DOMAIN order : \A j \in 1..k : Attached(order[j])}
  OBVIOUS
<1>10. handlers' = WithoutHandlers({order[k] : k \in 1..m})
  <2> HIDE DEF gone, n
  <2> QED
    BY <1>2, <1>3, <1>9
<1>11. [k \in gone |-> DestroyOffer(offers[order[k]])] = destroys
  <2> HIDE DEF gone
  <2> QED
    BY <1>3 DEF destroys
<1>12. CASE m = n
  <2>1. /\ offers' = <<>> /\ device' = FALSE /\ UNCHANGED raised
        /\ requests' = requests \o Append(destroys, [op |-> "destroy_device"])
    <3> HIDE DEF gone, n
    <3> QED
      BY <1>2, <1>3, <1>9, <1>11, <1>12
  <2> DEFINE a == Append(destroys, [op |-> "destroy_device"])
  <2>2. /\ a \in Seq(Request) /\ Len(a) = m + 1 /\ DOMAIN a = 1..(m + 1)
        /\ \A k \in 1..m : k \in DOMAIN a /\ a[k] = DestroyOffer(offers[order[k]])
        /\ a[m + 1] = [op |-> "destroy_device"]
    BY <1>1, <1>6, Requesting, AppendProperties, LenProperties
  <2> HIDE DEF a, n, gone
  <2>3. requests' = requests \o a
    BY <2>1 DEF a
  <2>4. /\ requests' \in Seq(Request) /\ DOMAIN requests' = 1..(Len(requests) + m + 1)
        /\ \A k \in DOMAIN requests : k \in DOMAIN requests' /\ requests'[k] = requests[k]
        /\ \A k \in 1..(m + 1) : requests'[Len(requests) + k] = a[k]
    <3>1. /\ requests' \in Seq(Request) /\ DOMAIN requests' = 1..(Len(requests) + Len(a))
          /\ \A k \in DOMAIN requests : k \in DOMAIN requests' /\ requests'[k] = requests[k]
          /\ \A k \in DOMAIN a : requests'[Len(requests) + k] = a[k]
      BY <2>2, <2>3, RequestsAdded
    <3>2. Len(requests) + Len(a) = Len(requests) + m + 1
      BY <1>1, <1>7, <2>2
    <3> QED
      BY <2>2, <3>1, <3>2
  <2>5. requests'[Len(requests) + m + 1] = [op |-> "destroy_device"]
    <3>1. m + 1 \in 1..(m + 1) /\ Len(requests) + (m + 1) = Len(requests) + m + 1
      BY <1>1, <1>7
    <3> QED
      BY <2>2, <2>3, <2>4, <3>1
  <2>6. \A k \in 1..m : requests'[Len(requests) + k] = DestroyOffer(offers[order[k]])
    BY <1>1, <2>2, <2>3, <2>4
  <2>7. EndsAfter(n, m, order)
    BY <1>2, <1>4, <1>5, <1>10, <1>12, <2>1, <2>3, <2>4, <2>5, <2>6 DEF EndsAfter
  <2> QED
    BY <1>1, <2>7
<1>13. CASE m < n
  <2>1. gone # 1..n
    <3>1. n \in 1..n /\ n \notin 1..m
      BY <1>1, <1>13
    <3> HIDE DEF gone
    <3> QED
      BY <1>3, <3>1
  <2>2. /\ raised' = {"not attached"} /\ UNCHANGED <<offers, device>>
        /\ requests' = requests \o destroys
    <3> HIDE DEF gone, n
    <3> QED
      BY <1>2, <1>9, <1>11, <2>1
  <2>3. ~Attached(order[m + 1])
    <3> SUFFICES ASSUME Attached(order[m + 1]) PROVE FALSE
      OBVIOUS
    <3>1. m + 1 \in 1..n /\ \A j \in 1..(m + 1) : j \in 1..m \/ j = m + 1
      BY <1>1, <1>13
    <3>2. m + 1 \in gone
      BY <1>5, <3>1
    <3>3. m + 1 \notin 1..m
      BY <1>1
    <3> HIDE DEF gone
    <3> QED
      BY <1>3, <3>2, <3>3
  <2> HIDE DEF gone, n
  <2>4. /\ requests' \in Seq(Request) /\ DOMAIN requests' = 1..(Len(requests) + m)
        /\ \A k \in DOMAIN requests : k \in DOMAIN requests' /\ requests'[k] = requests[k]
        /\ \A k \in 1..m : requests'[Len(requests) + k] = destroys[k]
    <3>1. DOMAIN destroys = 1..m
      BY <1>6, LenProperties
    <3> QED
      BY <1>6, <2>2, <3>1, RequestsAdded
  <2>5. EndsAfter(n, m, order)
    BY <1>2, <1>4, <1>5, <1>6, <1>10, <1>13, <2>2, <2>3, <2>4 DEF EndsAfter
  <2> QED
    BY <1>1, <2>5
<1>14. m = n \/ m < n
  BY <1>1
<1> QED
  BY <1>12, <1>13, <1>14

-----------------------------------------------------------------------------
LEMMA TypesKept ==
    ASSUME TypeOK, TableFinite, [Next]_vars
    PROVE  TypeOK'
<1> USE OffersAssumption
<1>1. CASE OnDataOffer
  <2>1. events' \in Seq(Event) /\ events[1] = Head(events) /\ events[1].offer \in Offer
    BY <1>1, EventTaken, EventKinds DEF OnDataOffer
  <2>2. handlers' \subseteq Offer /\ \A id \in DOMAIN offers' : offers'[id] \in Offer
    <3>1. CASE Attached(events[1].offer.id)
      BY <1>1, <2>1, <3>1 DEF OnDataOffer, Fail, TypeOK
    <3>2. CASE ~Attached(events[1].offer.id)
      <4> DEFINE x == events[1].offer
      <4>1. handlers' = handlers \cup {x} /\ offers' = With(offers, x.id, x)
        BY <1>1, <2>1, <3>2 DEF OnDataOffer
      <4>2. handlers \subseteq Offer /\ \A id \in DOMAIN offers : offers[id] \in Offer
        BY DEF TypeOK
      <4>3. x \in Offer
        BY <2>1
      <4> HIDE DEF x
      <4>4. ASSUME NEW id \in DOMAIN With(offers, x.id, x) PROVE With(offers, x.id, x)[id] \in Offer
        BY <4>2, <4>3 DEF With
      <4> QED
        BY <4>1, <4>2, <4>3, <4>4
    <3> QED
      BY <3>1, <3>2
  <2> QED
    BY <1>1, <2>1, <2>2 DEF OnDataOffer, Fail, TypeOK, sourceVars, serverVars, ownerVars
<1>2. ASSUME NEW kind \in Kinds, OnSelection(kind) PROVE TypeOK'
  <2> DEFINE named == Head(events).offer
  <2>1. events' \in Seq(Event) /\ events[1] = Head(events) /\ named \in Offer \cup {NoOffer}
    BY <1>2, EventTaken, EventKinds DEF OnSelection
  <2>2. ASSUME NEW o \in Offer \cup {NoOffer}, SetSelection(kind, o)
        PROVE  /\ handlers' \subseteq Offer /\ device' = device
               /\ \A id \in DOMAIN offers' : offers'[id] \in Offer
               /\ current' \in [Kinds -> Offer \cup {NoOffer}]
               /\ raised' \in {raised, {"not in table"}, {"not attached"}}
               /\ requests' \in Seq(Request)
    <3>1. current[kind] \in Offer \cup {NoOffer} /\ [current EXCEPT ![kind] = o] \in [Kinds -> Offer \cup {NoOffer}]
      BY DEF TypeOK
    <3>2. CASE current[kind] = NoOffer
      BY <2>2, <3>1, <3>2, Messages DEF SetSelection, TypeOK
    <3>3. CASE current[kind] # NoOffer
      <4>1. DestroyOffer(current[kind]) \in Request
        BY <3>1, <3>3, Requesting
      <4>2. Append(requests, DestroyOffer(current[kind])) \in Seq(Request) /\ requests \in Seq(Request)
        BY <4>1, Messages
      <4>3. /\ handlers' \subseteq Offer /\ device' = device
            /\ \A id \in DOMAIN offers' : offers'[id] \in Offer
        <5>1. handlers \subseteq Offer /\ \A id \in DOMAIN offers : offers[id] \in Offer
          BY DEF TypeOK
        <5>2. \A x : \A id \in DOMAIN Without(offers, x) :
                 id \in DOMAIN offers /\ Without(offers, x)[id] = offers[id]
          BY DEF Without, Restrict
        <5>3. handlers' \subseteq handlers
          BY <2>2, <3>3 DEF SetSelection, Fail, WithoutHandlers
        <5>4. device' = device /\ (offers' = offers \/ \E x : offers' = Without(offers, x))
          BY <2>2, <3>3 DEF SetSelection, Fail
        <5> QED
          BY <5>1, <5>2, <5>3, <5>4
      <4> QED
        BY <2>2, <3>1, <3>3, <4>2, <4>3 DEF SetSelection, Fail, TypeOK
    <3> QED
      BY <3>2, <3>3
  <2>3. CASE Fail("invalid")
    BY <1>2, <2>1, <2>3 DEF OnSelection, Fail, TypeOK, sourceVars, serverVars, ownerVars
  <2>4. CASE ~Fail("invalid")
    <3>1. \E o \in Offer \cup {NoOffer} : SetSelection(kind, o)
      BY <1>2, <2>1, <2>4 DEF OnSelection, TypeOK
    <3>2. UNCHANGED <<appgone, sourceVars, serverVars>>
      BY <1>2 DEF OnSelection
    <3> QED
      BY <2>1, <2>2, <3>1, <3>2 DEF TypeOK, sourceVars, serverVars, ownerVars
  <2> QED
    BY <2>3, <2>4
<1>3. CASE OnFinished
  <2>1. \E n, m, order : EndsAfter(n, m, order)
    BY <1>3, DeviceEnded
  <2>2. events' \in Seq(Event)
    BY <1>3, EventTaken DEF OnFinished
  <2>3. requests' \in Seq(Request) /\ handlers' \subseteq handlers
    BY <2>1 DEF EndsAfter, WithoutHandlers
  <2>4. /\ offers' = offers \/ DOMAIN offers' = {}
        /\ device' \in BOOLEAN
        /\ raised' \in {raised, {"not attached"}}
    <3>1. device \in BOOLEAN
      BY DEF TypeOK
    <3>2. \/ raised' = {"not attached"} /\ UNCHANGED <<offers, device>>
          \/ offers' = <<>> /\ device' = FALSE /\ UNCHANGED raised
      BY <2>1, Zenon DEF EndsAfter
    <3>3. device' \in BOOLEAN
      BY <3>1, <3>2, Zenon
    <3>4. (offers' = offers \/ offers' = <<>>) /\ raised' \in {raised, {"not attached"}}
      BY <3>2
    <3>5. DOMAIN <<>> = {}
      OBVIOUS
    <3> QED
      BY <3>3, <3>4, <3>5
  <2> QED
    BY <1>3, <2>2, <2>3, <2>4 DEF OnFinished, TypeOK, sourceVars, serverVars, ownerVars
<1>4. CASE OnCancelled
  <2>1. events' \in Seq(Event) /\ Head(events).source \in Source
    BY <1>4, EventTaken, EventKinds DEF OnCancelled, Aside
  <2>2. Append(requests, [op |-> "destroy_source", source |-> Head(events).source]) \in Seq(Request)
        /\ requests \in Seq(Request)
    <3>1. [op |-> "destroy_source", source |-> Head(events).source] \in Request
      BY <2>1, Requesting
    <3> QED
      BY <3>1, Messages, Adding
  <2> QED
    BY <1>4, <2>1, <2>2 DEF OnCancelled, TypeOK, offerVars, serverVars, ownerVars
<1>5. CASE OnSend
  <2>1. events' \in Seq(Event)
    BY <1>5, EventTaken DEF OnSend
  <2> QED
    BY <1>5, <2>1 DEF OnSend, TypeOK, offerVars, sourceVars, serverVars, ownerVars
<1>6. ASSUME NEW o \in Offer, AppDestroy(o) PROVE TypeOK'
  <2>1. requests' \in Seq(Request)
    BY <1>6, Messages, Requesting DEF AppDestroy
  <2> QED
    BY <1>6, <2>1 DEF AppDestroy, TypeOK, WithoutHandlers, sourceVars, serverVars, ownerVars
<1>7. ASSUME NEW s \in Source, CreateSource(s) PROVE TypeOK'
  <2>1. requests' \in Seq(Request)
    <3>1. [op |-> "create_source", source |-> s] \in Request
      BY Requesting
    <3> QED
      BY <1>7, <3>1, Messages, Adding DEF CreateSource
  <2>2. nsources' \in Nat /\ gens + nsources' <= MaxMade
    <3>1. gens \in Nat /\ nsources \in Nat
      BY DEF TypeOK
    <3> QED
      BY <1>7, <3>1 DEF CreateSource
  <2> QED
    BY <1>7, <2>1, <2>2 DEF CreateSource, TypeOK, offerVars, serverVars, ownerVars
<1>8. ASSUME NEW s \in Source, DestroySource(s) PROVE TypeOK'
  <2>1. requests' \in Seq(Request)
    <3>1. [op |-> "destroy_source", source |-> s] \in Request
      BY Requesting
    <3> QED
      BY <1>8, <3>1, Messages, Adding DEF DestroySource
  <2> QED
    BY <1>8, <2>1 DEF DestroySource, TypeOK, offerVars, serverVars, ownerVars
<1>9. ASSUME NEW kind \in Kinds, NEW s \in Source \cup {None}, SetOwn(kind, s) PROVE TypeOK'
  <2>1. requests' \in Seq(Request)
    BY <1>9, Messages, Requesting DEF SetOwn
  <2>2. used' \subseteq Source
    BY <1>9 DEF SetOwn, TypeOK
  <2> QED
    BY <1>9, <2>1, <2>2 DEF SetOwn, TypeOK, offerVars, serverVars, ownerVars
<1>10. CASE ServeDestroyOffer
  <2>1. requests' \in Seq(Request)
    BY <1>10, RequestTaken DEF ServeDestroyOffer
  <2> QED
    BY <1>10, <2>1 DEF ServeDestroyOffer, TypeOK, clientVars, offerVars, sourceVars, ownerVars
<1>11. CASE ServeDestroyDevice
  <2>1. requests' \in Seq(Request)
    BY <1>11, RequestTaken DEF ServeDestroyDevice
  <2> QED
    BY <1>11, <2>1 DEF ServeDestroyDevice, TypeOK, clientVars, offerVars, sourceVars
<1>12. CASE ServeCreateSource
  <2>1. requests' \in Seq(Request) /\ Head(requests).source \in Source
    BY <1>12, RequestTaken, RequestKinds DEF ServeCreateSource
  <2> QED
    BY <1>12, <2>1 DEF ServeCreateSource, TypeOK, clientVars, offerVars, sourceVars
<1>13. CASE ServeDestroySource
  <2>1. requests' \in Seq(Request)
    BY <1>13, RequestTaken DEF ServeDestroySource
  <2>2. owner' \in [Kinds -> Source \cup {None}]
    BY <1>13 DEF ServeDestroySource, TypeOK
  <2> QED
    BY <1>13, <2>1, <2>2 DEF ServeDestroySource, TypeOK, clientVars, offerVars, sourceVars
<1>14. ASSUME NEW kind \in Kinds, ServeSet(kind) PROVE TypeOK'
  <2>1. requests' \in Seq(Request) /\ Head(requests).source \in Source \cup {None}
    BY <1>14, RequestTaken, RequestKinds DEF ServeSet
  <2>2. events' \in Seq(Event)
    BY <1>14, Cancelling, EventsAdded, Messages DEF ServeSet
  <2>3. owner' \in [Kinds -> Source \cup {None}]
    BY <1>14, <2>1 DEF ServeSet, TypeOK
  <2>4. rejected' \subseteq {"offer", "device", "version", "source"}
    BY <1>14 DEF ServeSet
  <2> QED
    BY <1>14, <2>1, <2>2, <2>3, <2>4 DEF ServeSet, TypeOK, clientVars, offerVars, sourceVars
<1>15. ASSUME NEW kind \in Kinds, NEW id \in OfferIds, Choose(kind, id) PROVE TypeOK'
  <2> DEFINE o == [id |-> id, gen |-> gens + 1]
  <2>1. o \in Offer /\ gens' \in Nat /\ gens' + nsources <= MaxMade
    <3>1. gens \in Nat /\ nsources \in Nat
      BY DEF TypeOK
    <3>2. gens + nsources < MaxMade /\ gens' = gens + 1
      BY <1>15 DEF Choose
    <3>3. gens + 1 \in 1..MaxMade
      BY <3>1, <3>2
    <3> QED
      BY <3>1, <3>2, <3>3
  <2>2. \E a \in Seq(Event) : events' = events \o a
    <3>1. <<[ev |-> "data_offer", offer |-> o], [ev |-> kind, offer |-> o]>> \in Seq(Event)
      BY <2>1, Announcing
    <3>2. PICK own \in BOOLEAN :
             events' = events \o (IF own THEN <<>> ELSE Cancel(kind)) \o
                 <<[ev |-> "data_offer", offer |-> o], [ev |-> kind, offer |-> o]>>
      BY <1>15 DEF Choose
    <3>3. (IF own THEN <<>> ELSE Cancel(kind)) \in Seq(Event)
      BY Cancelling
    <3> DEFINE b == IF own THEN <<>> ELSE Cancel(kind)
               c == <<[ev |-> "data_offer", offer |-> o], [ev |-> kind, offer |-> o]>>
    <3>4. b \in Seq(Event) /\ c \in Seq(Event) /\ events' = (events \o b) \o c
      BY <3>1, <3>2, <3>3
    <3> HIDE DEF b, c
    <3>5. b \o c \in Seq(Event)
      BY <3>4, Joining
    <3>6. (events \o b) \o c = events \o (b \o c)
      BY <3>4, Messages, ConcatAssociative
    <3> QED
      BY <3>4, <3>5, <3>6
  <2>3. events' \in Seq(Event)
    BY <2>2, EventsAdded
  <2>4. owner' \in [Kinds -> Source \cup {None}]
    BY <1>15 DEF Choose, TypeOK
  <2>5. resources' \subseteq Offer /\ chosen' \in [Kinds -> Offer \cup {NoOffer}]
    BY <1>15, <2>1 DEF Choose, TypeOK
  <2>6. gens' \in Nat /\ gens' + nsources' <= MaxMade /\ UNCHANGED <<clientVars, finished, version, has_device, has_source, rejected, astray, requests>>
    BY <1>15, <2>1 DEF Choose, clientVars, sourceVars
  <2> QED
    BY <2>3, <2>4, <2>5, <2>6 DEF TypeOK, clientVars, offerVars, sourceVars
<1>16. ASSUME NEW kind \in Kinds, Clear(kind) PROVE TypeOK'
  <2>1. /\ Cancel(kind) \in Seq(Event) /\ <<[ev |-> kind, offer |-> NoOffer]>> \in Seq(Event)
        /\ events \in Seq(Event)
    BY Cancelling, Announcing, Messages
  <2>2. events' = (events \o Cancel(kind)) \o <<[ev |-> kind, offer |-> NoOffer]>>
    BY <1>16 DEF Clear
  <2>3. events' \in Seq(Event)
    BY <2>1, <2>2, Joining
  <2>4. owner' \in [Kinds -> Source \cup {None}] /\ chosen' \in [Kinds -> Offer \cup {NoOffer}]
    BY <1>16 DEF Clear, TypeOK
  <2> QED
    BY <1>16, <2>3, <2>4 DEF Clear, TypeOK, clientVars, offerVars, sourceVars
<1>17. CASE Finish
  <2>1. events' \in Seq(Event)
    BY <1>17, Messages, Announcing, Adding DEF Finish
  <2> QED
    BY <1>17, <2>1 DEF Finish, TypeOK, clientVars, offerVars, sourceVars, ownerVars
<1>18. ASSUME NEW kind \in Kinds, Paste(kind) PROVE TypeOK'
  <2>1. owner[kind] \in Source
    BY <1>18 DEF Paste, TypeOK
  <2>2. events' \in Seq(Event)
    BY <1>18, <2>1, Messages, Announcing, Adding DEF Paste
  <2> QED
    BY <1>18, <2>2 DEF Paste, TypeOK, clientVars, offerVars, sourceVars, serverVars, ownerVars
<1>19. CASE UNCHANGED vars
  BY <1>19 DEF TypeOK, vars, clientVars, offerVars, sourceVars, serverVars, ownerVars
<1> QED
  BY <1>1, <1>2, <1>3, <1>4, <1>5, <1>6, <1>7, <1>8, <1>9, <1>10, <1>11, <1>12, <1>13,
     <1>14, <1>15, <1>16, <1>17, <1>18, <1>19
  DEF Next, Dispatch, Application, Serve, Compositor

-----------------------------------------------------------------------------
\* Requests that are not about offers, when one is taken or added.
LEMMA RequestsAside ==
    ASSUME TypeOK, DestroyedOnce, "offer" \notin rejected',
           \/ requests' = requests
           \/ \E m \in Request : m.op # "destroy_offer" /\ requests' = Append(requests, m)
           \/ \E op : op # "destroy_offer" /\ TakeRequest(op)
    PROVE  /\ \A id \in OfferIds : Destroyed(id)' <=> Destroyed(id)
           /\ DestroyedOnce'
<1>1. CASE requests' = requests
  BY <1>1 DEF Destroyed, DestroyedOnce, Destroys
<1>2. ASSUME NEW m \in Request, m.op # "destroy_offer", requests' = Append(requests, m)
      PROVE  /\ \A id \in OfferIds : Destroyed(id)' <=> Destroyed(id)
             /\ DestroyedOnce'
  <2>1. /\ Len(requests) \in Nat /\ DOMAIN requests = 1..Len(requests)
        /\ DOMAIN requests' = 1..(Len(requests) + 1)
        /\ \A k \in DOMAIN requests : k \in DOMAIN requests' /\ requests'[k] = requests[k]
        /\ requests'[Len(requests) + 1] = m
    BY <1>2, RequestAdded
  <2>2. \A k \in DOMAIN requests' : k \in DOMAIN requests \/ requests'[k] = m
    BY <2>1
  <2>3. \A k \in DOMAIN requests' : \A id : Destroys(requests'[k], id) => k \in DOMAIN requests
    BY <1>2, <2>2 DEF Destroys
  <2> QED
    BY <2>1, <2>3 DEF Destroyed, DestroyedOnce, Destroys
<1>3. ASSUME NEW op, op # "destroy_offer", TakeRequest(op)
      PROVE  /\ \A id \in OfferIds : Destroyed(id)' <=> Destroyed(id)
             /\ DestroyedOnce'
  <2>1. /\ requests[1].op = op /\ DOMAIN requests = 1..Len(requests) /\ Len(requests) \in Nat
        /\ \A k \in DOMAIN requests' : k + 1 \in DOMAIN requests /\ requests'[k] = requests[k + 1]
        /\ \A k \in DOMAIN requests :
             k = 1 \/ (k - 1 \in DOMAIN requests' /\ requests'[k - 1] = requests[k])
    BY <1>3, RequestTaken
  <2>2. \A id \in OfferIds : Destroyed(id)' <=> Destroyed(id)
    BY <1>3, <2>1 DEF Destroyed, Destroys
  <2>3. ASSUME NEW j \in DOMAIN requests', NEW k \in DOMAIN requests', NEW id \in OfferIds,
               Destroys(requests'[j], id), Destroys(requests'[k], id)
        PROVE  j = k
    <3>1. j + 1 = k + 1
      BY <2>1, <2>3 DEF DestroyedOnce
    <3>2. j \in Int /\ k \in Int
      BY <1>3, RequestTaken
    <3> QED
      BY <3>1, <3>2
  <2> QED
    BY <2>2, <2>3 DEF DestroyedOnce, Destroys
<1> QED
  BY <1>1, <1>2, <1>3

\* What is known of the events about offers when the first event is taken.
LEMMA EventsTail ==
    ASSUME TypeOK, IntroducedOnce, EventsPaired, EndingLast, NEW t, Take(t),
           finished' = finished, device' = device \/ t = "finished"
    PROVE  /\ IntroducedOnce' /\ EventsPaired' /\ EndingLast'
           /\ \A o \in Offer :
                Introduced(o)' <=> Introduced(o) /\ ~(t = "data_offer" /\ o = events[1].offer)
           /\ Waiting = IF NamesOffer(events[1]) THEN {events[1].offer} ELSE {}
           /\ Waiting' = IF t = "data_offer" THEN {events[1].offer} ELSE {}
           /\ \A kind \in Kinds : \A k \in DOMAIN events' : LastOf(kind, k)' => LastOf(kind, k + 1)
           /\ \A kind \in Kinds :
                (\A k \in DOMAIN events' : events'[k].ev # kind) =>
                    \/ \A k \in DOMAIN events : events[k].ev # kind
                    \/ t = kind /\ LastOf(kind, 1)
<1>1. /\ 1 \in DOMAIN events /\ events[1] \in Event /\ events[1].ev = t
      /\ Len(events) \in Nat \ {0} /\ DOMAIN events = 1..Len(events)
      /\ DOMAIN events' = 1..(Len(events) - 1)
      /\ \A k \in DOMAIN events' : k + 1 \in DOMAIN events /\ events'[k] = events[k + 1]
      /\ \A k \in DOMAIN events : k = 1 \/ (k - 1 \in DOMAIN events' /\ events'[k - 1] = events[k])
  BY EventTaken
<1>2. IntroducedOnce'
  <2> SUFFICES ASSUME NEW j \in DOMAIN events', NEW k \in DOMAIN events', NEW o \in Offer,
                      Introduces(events'[j], o), Introduces(events'[k], o)
               PROVE  j = k
    BY DEF IntroducedOnce, Introduces
  <2>1. j + 1 = k + 1
    BY <1>1 DEF IntroducedOnce
  <2> QED
    BY <1>1, <2>1
<1>3. EventsPaired'
  <2> SUFFICES ASSUME NEW k \in DOMAIN events'
               PROVE  /\ events'[k].ev = "data_offer" =>
                           /\ k + 1 \in DOMAIN events' /\ NamesOffer(events'[k + 1])
                           /\ events'[k + 1].offer = events'[k].offer
                      /\ NamesOffer(events'[k]) => k = 1 \/ Introduces(events'[k - 1], events'[k].offer)
    BY DEF EventsPaired, NamesOffer, Introduces
  <2>1. k \in Nat \ {0} /\ k + 1 \in DOMAIN events /\ events'[k] = events[k + 1]
    BY <1>1
  <2>2. ASSUME events'[k].ev = "data_offer"
        PROVE  /\ k + 1 \in DOMAIN events' /\ NamesOffer(events'[k + 1])
               /\ events'[k + 1].offer = events'[k].offer
    <3>1. /\ (k + 1) + 1 \in DOMAIN events /\ NamesOffer(events[(k + 1) + 1])
          /\ events[(k + 1) + 1].offer = events[k + 1].offer
      BY <2>1, <2>2 DEF EventsPaired
    <3>2. k + 1 \in DOMAIN events'
      BY <1>1, <2>1, <3>1
    <3> QED
      BY <1>1, <2>1, <3>1, <3>2
  <2>3. ASSUME NamesOffer(events'[k]), k # 1
        PROVE  Introduces(events'[k - 1], events'[k].offer)
    <3>1. Introduces(events[(k + 1) - 1], events[k + 1].offer)
      BY <2>1, <2>3 DEF EventsPaired
    <3>2. k - 1 \in DOMAIN events' /\ (k + 1) - 1 = (k - 1) + 1
      BY <1>1, <2>3
    <3> QED
      BY <1>1, <2>1, <3>1, <3>2
  <2> QED
    BY <2>2, <2>3
<1>4. EndingLast'
  <2>1. ASSUME NEW j \in DOMAIN events', NEW k \in DOMAIN events', events'[k].ev = "finished"
        PROVE  finished /\ (j > k => Aside(events'[j]))
    BY <1>1, <2>1 DEF EndingLast
  <2>2. CASE t = "finished"
    <3>1. finished /\ \A j \in DOMAIN events : j > 1 => Aside(events[j])
      BY <1>1, <2>2 DEF EndingLast
    <3>2. \A k \in DOMAIN events' : Aside(events'[k])
      BY <1>1, <3>1
    <3> QED
      BY <2>1, <3>1, <3>2 DEF EndingLast, Aside
  <2>3. CASE device' = device
    BY <1>1, <2>1, <2>3 DEF EndingLast, Aside
  <2> QED
    BY <2>2, <2>3
<1>5. ASSUME NEW o \in Offer
      PROVE  Introduced(o)' <=> Introduced(o) /\ ~(t = "data_offer" /\ o = events[1].offer)
  <2>1. ASSUME NEW k \in DOMAIN events', Introduces(events'[k], o)
        PROVE  Introduced(o) /\ ~(t = "data_offer" /\ o = events[1].offer)
    <3>1. k + 1 \in DOMAIN events /\ Introduces(events[k + 1], o) /\ k + 1 # 1
      BY <1>1, <2>1
    <3> QED
      BY <1>1, <3>1 DEF Introduced, IntroducedOnce, Introduces
  <2>2. ASSUME NEW k \in DOMAIN events, Introduces(events[k], o), ~(t = "data_offer" /\ o = events[1].offer)
        PROVE  Introduced(o)'
    <3>1. k # 1
      BY <1>1, <2>2 DEF Introduces
    <3>2. k - 1 \in DOMAIN events' /\ Introduces(events'[k - 1], o)
      BY <1>1, <2>2, <3>1
    <3> QED
      BY <3>2 DEF Introduced, Introduces
  <2>3. Introduced(o)' => \E k \in DOMAIN events' : Introduces(events'[k], o)
    BY DEF Introduced, Introduces
  <2> QED
    BY <2>1, <2>2, <2>3 DEF Introduced
<1>6. Waiting = IF NamesOffer(events[1]) THEN {events[1].offer} ELSE {}
  BY <1>1 DEF Waiting
<1>7. Waiting' = IF t = "data_offer" THEN {events[1].offer} ELSE {}
  <2>1. Waiting' = {events'[k].offer : k \in {j \in {1} \cap DOMAIN events' : NamesOffer(events'[j])}}
    BY DEF Waiting, NamesOffer
  <2>2. CASE t = "data_offer"
    <3>1. /\ 1 + 1 \in DOMAIN events /\ NamesOffer(events[1 + 1])
          /\ events[1 + 1].offer = events[1].offer
      BY <1>1, <2>2 DEF EventsPaired
    <3>2. 1 \in DOMAIN events' /\ events'[1] = events[1 + 1]
      BY <1>1, <3>1
    <3> QED
      BY <2>1, <2>2, <3>1, <3>2
  <2>3. CASE t # "data_offer"
    <3>1. ASSUME 1 \in DOMAIN events', NamesOffer(events'[1]) PROVE FALSE
      <4>1. 1 + 1 \in DOMAIN events /\ events'[1] = events[1 + 1]
        BY <1>1, <3>1
      <4>2. Introduces(events[(1 + 1) - 1], events[1 + 1].offer)
        BY <3>1, <4>1 DEF EventsPaired
      <4> QED
        BY <1>1, <2>3, <4>2 DEF Introduces
    <3> QED
      BY <2>1, <2>3, <3>1
  <2> QED
    BY <2>2, <2>3
<1>8. ASSUME NEW kind \in Kinds, NEW k \in DOMAIN events', LastOf(kind, k)'
      PROVE  LastOf(kind, k + 1)
  <2>1. /\ events'[k].ev = kind
        /\ \A j \in DOMAIN events' : j > k => events'[j].ev # kind
    BY <1>8 DEF LastOf
  <2>2. k \in Nat \ {0} /\ k + 1 \in DOMAIN events /\ events'[k] = events[k + 1]
    BY <1>1
  <2>3. ASSUME NEW j \in DOMAIN events, j > k + 1 PROVE events[j].ev # kind
    <3>1. j # 1 /\ j - 1 > k
      BY <1>1, <2>2, <2>3
    <3> QED
      BY <1>1, <2>1, <3>1
  <2> QED
    BY <2>1, <2>2, <2>3 DEF LastOf
<1>9. ASSUME NEW kind \in Kinds, \A k \in DOMAIN events' : events'[k].ev # kind
      PROVE  \/ \A k \in DOMAIN events : events[k].ev # kind
             \/ t = kind /\ LastOf(kind, 1)
  <2>1. \A k \in DOMAIN events : k # 1 => events[k].ev # kind
    BY <1>1, <1>9
  <2> QED
    BY <1>1, <2>1 DEF LastOf
<1> QED
  BY <1>2, <1>3, <1>4, <1>5, <1>6, <1>7, <1>8, <1>9

\* The same when events that are not about offers are sent.
LEMMA EventsMore ==
    ASSUME TypeOK, IntroducedOnce, EventsPaired, EndingLast,
           NEW a \in Seq(Event), \A k \in DOMAIN a : Aside(a[k]), events' = events \o a,
           finished' = finished, device' = device
    PROVE  /\ IntroducedOnce' /\ EventsPaired' /\ EndingLast'
           /\ \A o \in Offer : Introduced(o)' <=> Introduced(o)
           /\ Waiting' = Waiting
           /\ \A kind \in Kinds : \A k \in DOMAIN events' :
                LastOf(kind, k)' => k \in DOMAIN events /\ events'[k] = events[k] /\ LastOf(kind, k)
           /\ \A k \in DOMAIN events : k \in DOMAIN events' /\ events'[k] = events[k]
<1>1. /\ Len(events) \in Nat /\ DOMAIN events = 1..Len(events)
      /\ Len(a) \in Nat /\ DOMAIN a = 1..Len(a)
      /\ DOMAIN events' = 1..(Len(events) + Len(a))
      /\ \A k \in DOMAIN events : k \in DOMAIN events' /\ events'[k] = events[k]
      /\ \A k \in DOMAIN a : events'[Len(events) + k] = a[k]
  BY EventsAdded
<1>2. \A k \in DOMAIN events' : k \in DOMAIN events \/ (k > Len(events) /\ Aside(events'[k]))
  <2> SUFFICES ASSUME NEW k \in DOMAIN events', k \notin DOMAIN events
               PROVE  k > Len(events) /\ Aside(events'[k])
    OBVIOUS
  <2>1. k > Len(events) /\ k - Len(events) \in DOMAIN a /\ Len(events) + (k - Len(events)) = k
    BY <1>1
  <2> QED
    BY <1>1, <2>1
<1>3. \A k \in DOMAIN events' :
         k \notin DOMAIN events => /\ events'[k].ev \notin {"data_offer", "finished", "selection", "primary"}
                                   /\ \A o : ~Introduces(events'[k], o)
                                   /\ ~NamesOffer(events'[k])
  BY <1>2 DEF Aside, Introduces, NamesOffer
<1>4. IntroducedOnce' /\ \A o \in Offer : Introduced(o)' <=> Introduced(o)
  <2>1. \A k \in DOMAIN events' : \A o \in Offer :
           Introduces(events'[k], o) => k \in DOMAIN events /\ Introduces(events[k], o)
    BY <1>1, <1>3
  <2>2. IntroducedOnce'
    <3> SUFFICES ASSUME NEW j \in DOMAIN events', NEW k \in DOMAIN events', NEW o \in Offer,
                        Introduces(events'[j], o), Introduces(events'[k], o)
                 PROVE  j = k
      BY DEF IntroducedOnce, Introduces
    <3> QED
      BY <2>1 DEF IntroducedOnce
  <2>3. ASSUME NEW o \in Offer PROVE Introduced(o)' <=> Introduced(o)
    BY <1>1, <2>1 DEF Introduced, Introduces
  <2> QED
    BY <2>2, <2>3
<1>5. EventsPaired'
  <2> SUFFICES ASSUME NEW k \in DOMAIN events, events'[k] = events[k]
               PROVE  /\ events[k].ev = "data_offer" =>
                           /\ k + 1 \in DOMAIN events' /\ NamesOffer(events'[k + 1])
                           /\ events'[k + 1].offer = events[k].offer
                      /\ NamesOffer(events[k]) => k = 1 \/ Introduces(events'[k - 1], events[k].offer)
    BY <1>1, <1>3 DEF EventsPaired, NamesOffer, Introduces
  <2>1. k = 1 \/ k - 1 \in DOMAIN events
    BY <1>1
  <2> QED
    BY <1>1, <2>1 DEF EventsPaired
<1>6. EndingLast'
  <2>1. \A j, k \in DOMAIN events' : events'[k].ev = "finished" => finished /\ (j > k => Aside(events'[j]))
    BY <1>1, <1>2, <1>3 DEF EndingLast
  <2>2. ~device => finished /\ \A k \in DOMAIN events' : Aside(events'[k])
    BY <1>1, <1>2 DEF EndingLast
  <2> QED
    BY <2>1, <2>2 DEF EndingLast, Aside
<1>7. Waiting' = Waiting
  <2>1. Waiting' = {events'[k].offer : k \in {j \in {1} \cap DOMAIN events' : NamesOffer(events'[j])}}
    BY DEF Waiting, NamesOffer
  <2> QED
    BY <1>1, <1>3, <2>1 DEF Waiting
<1>8. ASSUME NEW kind \in Kinds, NEW k \in DOMAIN events', LastOf(kind, k)'
      PROVE  k \in DOMAIN events /\ events'[k] = events[k] /\ LastOf(kind, k)
  BY <1>1, <1>3, <1>8 DEF LastOf
<1> QED
  BY <1>1, <1>4, <1>5, <1>6, <1>7, <1>8

\* Steps that are not about offers.
LEMMA OffersAside ==
    ASSUME TypeOK, OfferInv, "offer" \notin rejected',
           UNCHANGED <<handlers, device, offers, current, appgone, resources, chosen, finished>>,
           raised' \ {"no source", "fd"} = raised \ {"no source", "fd"}, Running' => Running,
           \/ requests' = requests
           \/ \E m \in Request : m.op # "destroy_offer" /\ requests' = Append(requests, m)
           \/ \E op : op # "destroy_offer" /\ TakeRequest(op),
           \/ events' = events
           \/ \E t \in {"cancelled", "send"} : Take(t)
           \/ \E a \in Seq(Event) : (\A k \in DOMAIN a : Aside(a[k])) /\ events' = events \o a
    PROVE  OfferInv'
<1>1. (\A id \in OfferIds : Destroyed(id)' <=> Destroyed(id)) /\ DestroyedOnce'
  BY RequestsAside DEF OfferInv
<1> DEFINE Told ==
      /\ IntroducedOnce' /\ EventsPaired' /\ EndingLast'
      /\ \A o \in Offer : Introduced(o)' <=> Introduced(o)
      /\ Waiting' = Waiting
      /\ \A kind \in Kinds : \A k \in DOMAIN events' :
           LastOf(kind, k)' => \E j \in DOMAIN events : events[j] = events'[k] /\ LastOf(kind, j)
      /\ \A kind \in Kinds :
           (\A k \in DOMAIN events' : events'[k].ev # kind) => \A k \in DOMAIN events : events[k].ev # kind
<1>2. Told
  <2>1. CASE events' = events
    <3>1. IntroducedOnce'
      BY <2>1 DEF OfferInv, IntroducedOnce, Introduces
    <3>2. EventsPaired'
      BY <2>1 DEF OfferInv, EventsPaired, Introduces, NamesOffer
    <3>3. EndingLast'
      BY <2>1 DEF OfferInv, EndingLast, Aside
    <3>4. Waiting' = Waiting /\ \A o \in Offer : Introduced(o)' <=> Introduced(o)
      BY <2>1 DEF Waiting, Introduced, Introduces, NamesOffer
    <3>5. \A kind, k : LastOf(kind, k)' <=> LastOf(kind, k)
      BY <2>1 DEF LastOf
    <3> QED
      BY <2>1, <3>1, <3>2, <3>3, <3>4, <3>5
  <2>2. ASSUME NEW t \in {"cancelled", "send"}, Take(t) PROVE  Told
    <3>1. ~NamesOffer(events[1]) /\ \A k \in DOMAIN events' : k + 1 \in DOMAIN events /\ events'[k] = events[k + 1]
      BY <2>2, EventTaken DEF NamesOffer
    <3> QED
      BY <2>2, <3>1, EventsTail DEF OfferInv
  <2>3. ASSUME NEW a \in Seq(Event), \A k \in DOMAIN a : Aside(a[k]), events' = events \o a
        PROVE  Told
    BY <2>3, EventsMore DEF OfferInv
  <2> QED
    BY <2>1, <2>2, <2>3
<1>3. OffersAccounted'
  <2>1. \A r \in resources : r \in Offer /\ r.id \in OfferIds
    BY DEF TypeOK
  <2>2. \A o \in Offer : o.id \in OfferIds
    OBVIOUS
  <2> QED
    BY <1>1, <1>2, <2>1, <2>2 DEF OfferInv, OffersAccounted, Attached
<1>4. TableFinite' /\ PlacesFollow'
  <2>1. TableFinite'
    BY DEF OfferInv, TableFinite
  <2>2. Waiting' = Waiting
    BY <1>2
  <2>3. PlacesFollow
    BY DEF OfferInv
  <2>4. PlacesFollow'
    <3> SUFFICES ASSUME Running', appgone' = {}
                 PROVE  IF device'
                        THEN /\ Range(offers)' = handlers'
                             /\ \A id \in DOMAIN offers' : offers'[id].id = id
                             /\ handlers' = (Range(current)' \ {NoOffer}) \cup Waiting'
                             /\ Range(current)' \cap Waiting' = {}
                             /\ current'["selection"] = current'["primary"] =>
                                  current'["selection"] = NoOffer
                        ELSE handlers' = {}
      BY DEF PlacesFollow
    <3>1. Range(offers)' = Range(offers) /\ Range(current)' = Range(current)
      BY DEF Range
    <3> QED
      BY <2>2, <2>3, <3>1 DEF PlacesFollow
  <2> QED
    BY <2>1, <2>4
<1>5. ChosenFollows'
  <2> SUFFICES ASSUME NEW kind \in Kinds
               PROVE  /\ \A k \in DOMAIN events' : LastOf(kind, k)' => events'[k].offer = chosen[kind]
                      /\ Running' /\ appgone = {} /\ device /\ (\A k \in DOMAIN events' : events'[k].ev # kind) =>
                           current[kind] = chosen[kind]
    BY DEF ChosenFollows, LastOf
  <2>1. /\ \A k \in DOMAIN events : LastOf(kind, k) => events[k].offer = chosen[kind]
        /\ Running /\ appgone = {} /\ device /\ (\A k \in DOMAIN events : events[k].ev # kind) =>
             current[kind] = chosen[kind]
    BY DEF OfferInv, ChosenFollows
  <2>2. ASSUME NEW k \in DOMAIN events', LastOf(kind, k)'
        PROVE  events'[k].offer = chosen[kind]
    <3>1. PICK j \in DOMAIN events : events[j] = events'[k] /\ LastOf(kind, j)
      BY ONLY <1>2, <2>2, kind \in Kinds
    <3>2. events[j].offer = chosen[kind]
      BY ONLY <2>1, <3>1
    <3> QED
      BY ONLY <3>1, <3>2
  <2>3. (\A k \in DOMAIN events' : events'[k].ev # kind) => \A k \in DOMAIN events : events[k].ev # kind
    BY ONLY <1>2, kind \in Kinds
  <2>4. Running' => Running
    BY DEF Running
  <2> QED
    BY ONLY <2>1, <2>2, <2>3, <2>4
<1>6. FailuresKnown'
  BY DEF OfferInv, FailuresKnown
<1> QED
  BY <1>1, <1>2, <1>3, <1>4, <1>5, <1>6 DEF OfferInv

-----------------------------------------------------------------------------
\* The client destroys the offers with the ids in D, each of which has its handler.
LEMMA OffersDestroyed ==
    ASSUME TypeOK, OffersAccounted, DestroyedOnce,
           NEW D, \A id \in D : Attached(id), handlers' = WithoutHandlers(D),
           UNCHANGED <<resources, rejected>>, \A o \in Offer : Introduced(o)' <=> Introduced(o),
           \A k \in DOMAIN requests : k \in DOMAIN requests' /\ requests'[k] = requests[k],
           \A k \in DOMAIN requests' :
              \/ k \in DOMAIN requests
              \/ requests'[k].op # "destroy_offer"
              \/ requests'[k].id \in D,
           \A id \in D : \E k \in DOMAIN requests' : Destroys(requests'[k], id),
           \A j, k \in DOMAIN requests' \ DOMAIN requests : \A id \in OfferIds :
              Destroys(requests'[j], id) /\ Destroys(requests'[k], id) => j = k
    PROVE  OffersAccounted' /\ DestroyedOnce'
<1>1. \A id : Destroyed(id)' <=> Destroyed(id) \/ id \in D
  <2>1. ASSUME NEW id PROVE Destroyed(id)' => Destroyed(id) \/ id \in D
    BY DEF Destroyed, Destroys
  <2>2. ASSUME NEW id PROVE Destroyed(id) => Destroyed(id)'
    BY DEF Destroyed, Destroys
  <2>3. ASSUME NEW id \in D PROVE Destroyed(id)'
    BY DEF Destroyed, Destroys
  <2> QED
    BY <2>1, <2>2, <2>3
<1>2. /\ \A h \in handlers : h \in resources /\ h \in Offer /\ h.id \in OfferIds
      /\ \A r \in resources : r \in Offer /\ r.id \in OfferIds
      /\ \A o \in Offer : o.id \in OfferIds
  BY DEF OffersAccounted, TypeOK
<1>3. \A h : h \in handlers' <=> h \in handlers /\ h.id \notin D
  BY DEF WithoutHandlers
<1>4. \A id \in D : \E h \in handlers : h.id = id
  BY DEF Attached
<1>5. OffersAccounted'
  <2>1. \A r, s \in resources : r.id = s.id => r = s
    BY DEF OffersAccounted
  <2>2. ASSUME NEW r \in resources PROVE r \in handlers' \/ Introduced(r)' \/ Destroyed(r.id)'
    BY <1>1, <1>2, <1>3 DEF OffersAccounted
  <2>3. ASSUME NEW o \in Offer, Introduced(o)' PROVE o \in resources \ handlers' /\ ~Destroyed(o.id)'
    <3>1. o \in resources \ handlers /\ ~Destroyed(o.id)
      BY <2>3 DEF OffersAccounted
    <3>2. o.id \notin D
      BY <1>2, <1>4, <2>1, <3>1
    <3> QED
      BY <1>1, <1>3, <3>1, <3>2
  <2>4. ASSUME NEW id \in OfferIds, Destroyed(id)' PROVE (\E r \in resources : r.id = id) /\ ~Attached(id)'
    <3>1. CASE id \in D
      BY <1>2, <1>3, <1>4, <3>1 DEF Attached
    <3>2. CASE id \notin D
      BY <1>1, <1>3, <2>4, <3>2 DEF OffersAccounted, Attached
    <3> QED
      BY <3>1, <3>2
  <2>5. handlers' \subseteq resources
    BY <1>2, <1>3
  <2> QED
    BY <2>1, <2>2, <2>3, <2>4, <2>5 DEF OffersAccounted
<1>6. DestroyedOnce'
  <2> SUFFICES ASSUME NEW j \in DOMAIN requests', NEW k \in DOMAIN requests', NEW id \in OfferIds,
                      Destroys(requests'[j], id), Destroys(requests'[k], id)
               PROVE  j = k
    BY DEF DestroyedOnce, Destroys
  <2>1. ASSUME NEW i \in DOMAIN requests' \ DOMAIN requests, Destroys(requests'[i], id) PROVE ~Destroyed(id)
    <3>1. id \in D
      BY <2>1 DEF Destroys
    <3> QED
      BY <3>1 DEF OffersAccounted
  <2>2. CASE j \in DOMAIN requests /\ k \in DOMAIN requests
    BY <2>2 DEF DestroyedOnce
  <2>3. CASE j \notin DOMAIN requests /\ k \notin DOMAIN requests
    BY <2>3
  <2>4. CASE ~(j \in DOMAIN requests <=> k \in DOMAIN requests)
    BY <2>1, <2>4 DEF Destroyed
  <2> QED
    BY <2>2, <2>3, <2>4
<1> QED
  BY <1>5, <1>6

LEMMA DataOfferStep ==
    ASSUME TypeOK, OfferInv, OnDataOffer
    PROVE  OfferInv'
<1> DEFINE o == events[1].offer
<1>1. Take("data_offer") /\ Head(events) = events[1] /\ Running /\ 1 \in DOMAIN events /\ events[1].ev = "data_offer"
      /\ o \in Offer /\ o.id \in OfferIds
  BY EventTaken, EventKinds DEF OnDataOffer
<1>2. Introduced(o)
  BY <1>1 DEF Introduced, Introduces
<1>3. o \in resources /\ o \notin handlers /\ ~Destroyed(o.id)
  BY <1>1, <1>2 DEF OfferInv, OffersAccounted
<1>4. ~Attached(o.id)
  BY <1>3 DEF OfferInv, OffersAccounted, Attached
<1>5. /\ handlers' = handlers \cup {o} /\ offers' = With(offers, o.id, o)
      /\ UNCHANGED <<device, current, raised, requests, appgone, resources, chosen, finished, rejected>>
  BY <1>1, <1>4 DEF OnDataOffer, serverVars
<1>6. /\ IntroducedOnce' /\ EventsPaired' /\ EndingLast'
      /\ \A p \in Offer : Introduced(p)' <=> Introduced(p) /\ p # o
      /\ Waiting = {} /\ Waiting' = {o}
      /\ \A kind \in Kinds : \A k \in DOMAIN events' :
           LastOf(kind, k)' => k + 1 \in DOMAIN events /\ events'[k] = events[k + 1] /\ LastOf(kind, k + 1)
      /\ \A kind \in Kinds :
           (\A k \in DOMAIN events' : events'[k].ev # kind) => \A k \in DOMAIN events : events[k].ev # kind
  <2>1. ~NamesOffer(events[1]) /\ \A k \in DOMAIN events' : k + 1 \in DOMAIN events /\ events'[k] = events[k + 1]
    BY <1>1, EventTaken DEF NamesOffer
  <2> QED
    BY <1>1, <1>5, <2>1, EventsTail DEF OfferInv
<1> HIDE DEF o
<1>7. OffersAccounted'
  <2>1. \A id : Destroyed(id)' <=> Destroyed(id)
    BY <1>5 DEF Destroyed, Destroys
  <2>2. \A id : Attached(id)' <=> Attached(id) \/ id = o.id
    BY <1>5 DEF Attached
  <2>3. \A r \in resources : r \in Offer
    BY DEF TypeOK
  <2> QED
    BY <1>3, <1>5, <1>6, <2>1, <2>2, <2>3 DEF OfferInv, OffersAccounted
<1>8. DestroyedOnce'
  BY <1>5 DEF OfferInv, DestroyedOnce, Destroys
<1>9. TableFinite'
  <2>1. DOMAIN offers' = DOMAIN offers \cup {o.id}
    BY <1>5 DEF With
  <2> QED
    BY <2>1, FS_AddElement DEF OfferInv, TableFinite
<1>10. PlacesFollow'
  <2> SUFFICES ASSUME appgone = {}
               PROVE  /\ device /\ Range(offers)' = handlers'
                      /\ \A id \in DOMAIN offers' : offers'[id].id = id
                      /\ handlers' = (Range(current)' \ {NoOffer}) \cup Waiting'
                      /\ Range(current)' \cap Waiting' = {}
                      /\ current["selection"] = current["primary"] => current["selection"] = NoOffer
    BY <1>5 DEF PlacesFollow
  <2>1. device
    BY <1>1 DEF OfferInv, EndingLast, Aside
  <2>2. /\ Range(offers) = handlers
        /\ \A id \in DOMAIN offers : offers[id].id = id
        /\ handlers = Range(current) \ {NoOffer}
        /\ current["selection"] = current["primary"] => current["selection"] = NoOffer
    BY <1>1, <1>6, <2>1 DEF OfferInv, PlacesFollow
  <2>3. \A id \in DOMAIN offers : offers[id] \in handlers
    BY <2>2 DEF Range
  <2>4. o.id \notin DOMAIN offers
    BY <1>4, <2>2, <2>3 DEF Attached
  <2>5. /\ DOMAIN offers' = DOMAIN offers \cup {o.id} /\ offers'[o.id] = o
        /\ \A id \in DOMAIN offers : offers'[id] = offers[id]
    BY <1>5, <2>4 DEF With
  <2>6. Range(offers)' = Range(offers) \cup {o}
    BY <2>5 DEF Range
  <2>7. Range(current)' = Range(current)
    BY <1>5 DEF Range
  <2>8. o # NoOffer
    BY <1>1, OffersAssumption
  <2>9. o \notin Range(current)
    BY <1>3, <2>2, <2>8
  <2>10. \A id \in DOMAIN offers' : offers'[id].id = id
    BY <2>2, <2>5
  <2> QED
    BY <1>5, <1>6, <2>1, <2>2, <2>6, <2>7, <2>8, <2>9, <2>10
<1>11. ChosenFollows'
  <2> SUFFICES ASSUME NEW kind \in Kinds
               PROVE  /\ \A k \in DOMAIN events' : LastOf(kind, k)' => events'[k].offer = chosen[kind]
                      /\ Running' /\ appgone = {} /\ device /\ (\A k \in DOMAIN events' : events'[k].ev # kind) =>
                           current[kind] = chosen[kind]
    BY <1>5 DEF ChosenFollows, LastOf
  <2>1. /\ \A k \in DOMAIN events : LastOf(kind, k) => events[k].offer = chosen[kind]
        /\ appgone = {} /\ device /\ (\A k \in DOMAIN events : events[k].ev # kind) =>
             current[kind] = chosen[kind]
    BY <1>1 DEF OfferInv, ChosenFollows
  <2> QED
    BY <1>6, <2>1
<1>12. FailuresKnown'
  BY <1>5 DEF OfferInv, FailuresKnown
<1> QED
  BY <1>6, <1>7, <1>8, <1>9, <1>10, <1>11, <1>12 DEF OfferInv

\* An offer becomes a selection, or none does; the one before it is destroyed.
LEMMA SelectionStep ==
    ASSUME TypeOK, OfferInv, NEW kind \in Kinds, OnSelection(kind)
    PROVE  OfferInv'
<1> DEFINE o == events[1].offer
           old == current[kind]
<1>1. /\ Take(kind) /\ Head(events) = events[1] /\ Running /\ 1 \in DOMAIN events /\ events[1].ev = kind
      /\ o \in Offer \cup {NoOffer}
      /\ UNCHANGED <<appgone, resources, chosen, finished, rejected>>
  BY EventTaken, EventKinds DEF OnSelection, serverVars
<1>2. old \in Offer \cup {NoOffer} /\ \A p \in Offer : p.id \in OfferIds
  BY DEF TypeOK
<1>3. \/ Fail("invalid") /\ (o # NoOffer /\ o.id \notin DOMAIN offers)
      \/ o = NoOffer /\ SetSelection(kind, NoOffer)
      \/ o # NoOffer /\ o.id \in DOMAIN offers /\ SetSelection(kind, offers[o.id])
  BY <1>1 DEF OnSelection
<1>4. device' = device
  BY <1>3 DEF Fail, SetSelection
<1>5. device
  BY <1>1 DEF OfferInv, EndingLast, Aside
<1>6. /\ IntroducedOnce' /\ EventsPaired' /\ EndingLast'
      /\ \A p \in Offer : Introduced(p)' <=> Introduced(p)
      /\ Waiting = (IF o = NoOffer THEN {} ELSE {o}) /\ Waiting' = {}
      /\ \A x \in Kinds : \A k \in DOMAIN events' :
           LastOf(x, k)' => k + 1 \in DOMAIN events /\ events'[k] = events[k + 1] /\ LastOf(x, k + 1)
      /\ \A x \in Kinds :
           (\A k \in DOMAIN events' : events'[k].ev # x) =>
               (\A k \in DOMAIN events : events[k].ev # x) \/ (kind = x /\ LastOf(x, 1))
  <2>1. \A k \in DOMAIN events' : k + 1 \in DOMAIN events /\ events'[k] = events[k + 1]
    BY <1>1, EventTaken
  <2>2. NamesOffer(events[1]) <=> o # NoOffer
    BY <1>1 DEF NamesOffer
  <2> QED
    BY <1>1, <1>4, <2>1, <2>2, EventsTail DEF OfferInv
<1> HIDE DEF o, old
<1>7. OffersAccounted' /\ DestroyedOnce'
  <2>1. \/ handlers' = handlers /\ requests' = requests
        \/ /\ old # NoOffer /\ Attached(old.id)
           /\ handlers' = WithoutHandlers({old.id})
           /\ requests' = Append(requests, DestroyOffer(old))
    BY <1>3 DEF Fail, SetSelection, old
  <2>2. CASE handlers' = handlers /\ requests' = requests
    <3>1. \A id : (Destroyed(id)' <=> Destroyed(id)) /\ (Attached(id)' <=> Attached(id))
      BY <2>2 DEF Destroyed, Destroys, Attached
    <3>2. \A r \in resources : r \in Offer
      BY DEF TypeOK
    <3> QED
      BY <1>1, <1>6, <2>2, <3>1, <3>2 DEF OfferInv, OffersAccounted, DestroyedOnce, Destroys
  <2>3. CASE /\ old # NoOffer /\ Attached(old.id)
             /\ handlers' = WithoutHandlers({old.id})
             /\ requests' = Append(requests, DestroyOffer(old))
    <3>1. DestroyOffer(old) \in Request
      BY <1>2, <2>3, Requesting
    <3>2. /\ DOMAIN requests = 1..Len(requests) /\ Len(requests) \in Nat
          /\ DOMAIN requests' = 1..(Len(requests) + 1)
          /\ \A k \in DOMAIN requests : k \in DOMAIN requests' /\ requests'[k] = requests[k]
          /\ requests'[Len(requests) + 1] = DestroyOffer(old)
      BY <2>3, <3>1, RequestAdded
    <3>3. \A k \in DOMAIN requests' : k \in DOMAIN requests \/ k = Len(requests) + 1
      BY <3>2
    <3>4. Destroys(requests'[Len(requests) + 1], old.id) /\ Len(requests) + 1 \in DOMAIN requests'
      BY <3>2 DEF Destroys, DestroyOffer
    <3>5. requests'[Len(requests) + 1].id = old.id
      BY <3>4 DEF Destroys
    <3> QED
      BY <1>1, <1>6, <2>3, <3>2, <3>3, <3>4, <3>5, OffersDestroyed DEF OfferInv
  <2> QED
    BY <2>1, <2>2, <2>3
<1>8. TableFinite'
  <2>1. DOMAIN offers' \in SUBSET DOMAIN offers
    BY <1>3 DEF Fail, SetSelection, Without, Restrict
  <2> QED
    BY <2>1, FS_Subset DEF OfferInv, TableFinite
<1>9. CASE appgone # {}
  <2>1. PlacesFollow' /\ FailuresKnown'
    BY <1>1, <1>9 DEF PlacesFollow, FailuresKnown
  <2>2. ChosenFollows'
    <3>1. \A x \in Kinds : \A k \in DOMAIN events : LastOf(x, k) => events[k].offer = chosen[x]
      BY DEF OfferInv, ChosenFollows
    <3> QED
      BY <1>1, <1>6, <1>9, <3>1 DEF ChosenFollows
  <2> QED
    BY <1>6, <1>7, <1>8, <2>1, <2>2 DEF OfferInv
<1>10. CASE appgone = {}
  <2> DEFINE other == IF kind = "selection" THEN "primary" ELSE "selection"
  <2>1. /\ Range(offers) = handlers
        /\ \A id \in DOMAIN offers : offers[id].id = id
        /\ handlers = (Range(current) \ {NoOffer}) \cup Waiting
        /\ Range(current) \cap Waiting = {}
        /\ current["selection"] = current["primary"] => current["selection"] = NoOffer
    BY <1>1, <1>5, <1>10 DEF OfferInv, PlacesFollow
  <2>2. /\ other \in Kinds /\ other # kind /\ Kinds = {kind, other}
        /\ current \in [Kinds -> Offer \cup {NoOffer}]
    BY DEF TypeOK
  <2> HIDE DEF other
  <2>3. Range(current) = {old, current[other]} /\ (old = current[other] => old = NoOffer)
    BY <2>1, <2>2 DEF Range, old
  <2>4. \A h \in handlers : /\ h \in Offer /\ h # NoOffer
                            /\ h.id \in DOMAIN offers /\ offers[h.id] = h /\ Attached(h.id)
                            /\ \A g \in handlers : g.id = h.id => g = h
    <3>1. \A h \in handlers : h \in Offer /\ h # NoOffer /\ Attached(h.id)
      BY OffersAssumption DEF TypeOK, Attached
    <3>2. \A h \in handlers : h.id \in DOMAIN offers /\ offers[h.id] = h
      <4> SUFFICES ASSUME NEW h \in handlers PROVE h.id \in DOMAIN offers /\ offers[h.id] = h
        OBVIOUS
      <4>1. PICK id \in DOMAIN offers : offers[id] = h
        BY <2>1 DEF Range
      <4> QED
        BY <2>1, <4>1
    <3>3. \A h, g \in handlers : g.id = h.id => g = h
      BY DEF OfferInv, OffersAccounted
    <3> QED
      BY <3>1, <3>2, <3>3
  <2>5. o # NoOffer => o \in handlers /\ o # old /\ o # current[other]
    BY <1>6, <2>1, <2>3
  <2>6. old # NoOffer => old \in handlers
    BY <2>1, <2>3
  <2>7. SetSelection(kind, o)
    BY <1>3, <2>4, <2>5
  <2>8. /\ current' = [current EXCEPT ![kind] = o] /\ raised' = raised /\ device' = device
        /\ old = NoOffer => handlers' = handlers /\ offers' = offers
        /\ old # NoOffer => handlers' = WithoutHandlers({old.id}) /\ offers' = Without(offers, old.id)
    BY <2>4, <2>6, <2>7 DEF SetSelection, old
  <2>9. current'[kind] = o /\ current'[other] = current[other] /\ Range(current)' = {o, current[other]}
    BY <2>2, <2>8 DEF Range
  <2>10. handlers' = handlers \ {old} /\ Range(offers)' = handlers'
         /\ \A id \in DOMAIN offers' : offers'[id].id = id
    <3>1. CASE old = NoOffer
      BY <2>1, <2>4, <2>8, <3>1 DEF Range
    <3>2. CASE old # NoOffer
      <4>1. handlers' = handlers \ {old}
        BY <2>4, <2>6, <2>8, <3>2 DEF WithoutHandlers
      <4>2. /\ DOMAIN offers' = DOMAIN offers \ {old.id}
            /\ \A id \in DOMAIN offers' : offers'[id] = offers[id]
        BY <2>8, <3>2 DEF Without, Restrict
      <4>3. \A id \in DOMAIN offers : offers[id] \in handlers
        BY <2>1 DEF Range
      <4>4. ASSUME NEW id \in DOMAIN offers' PROVE offers'[id] \in handlers \ {old} /\ offers'[id].id = id
        BY <2>1, <4>2, <4>3
      <4>5. ASSUME NEW h \in handlers \ {old} PROVE \E id \in DOMAIN offers' : offers'[id] = h
        BY <2>4, <2>6, <3>2, <4>2
      <4> QED
        BY <4>1, <4>4, <4>5 DEF Range
    <3> QED
      BY <3>1, <3>2
  <2>11. PlacesFollow'
    <3>1. handlers' = Range(current)' \ {NoOffer}
      <4>1. handlers = ({old, current[other]} \ {NoOffer}) \cup (IF o = NoOffer THEN {} ELSE {o})
        BY <1>6, <2>1, <2>3
      <4> QED
        BY <2>3, <2>5, <2>9, <2>10, <4>1
    <3>2. current'["selection"] = current'["primary"] => current'["selection"] = NoOffer
      BY <2>2, <2>5, <2>9
    <3> QED
      BY <1>5, <1>6, <2>8, <2>10, <3>1, <3>2 DEF PlacesFollow
  <2>12. ChosenFollows'
    <3>1. \A x \in Kinds : \A k \in DOMAIN events : LastOf(x, k) => events[k].offer = chosen[x]
      BY DEF OfferInv, ChosenFollows
    <3>2. \A x \in Kinds : (\A k \in DOMAIN events : events[k].ev # x) => current[x] = chosen[x]
      BY <1>1, <1>5, <1>10 DEF OfferInv, ChosenFollows
    <3>3. ASSUME NEW x \in Kinds, \A k \in DOMAIN events' : events'[k].ev # x PROVE current'[x] = chosen[x]
      <4>1. CASE x = kind
        <5>1. LastOf(x, 1)
          BY <1>1, <1>6, <3>3, <4>1
        <5> QED
          BY <1>1, <2>9, <3>1, <4>1, <5>1 DEF o
      <4>2. CASE x # kind
        BY <1>6, <2>2, <2>9, <3>2, <3>3, <4>2
      <4> QED
        BY <4>1, <4>2
    <3>4. ASSUME NEW x \in Kinds, NEW k \in DOMAIN events', LastOf(x, k)' PROVE events'[k].offer = chosen[x]
      BY <1>6, <3>1, <3>4
    <3> QED
      BY <1>1, <3>3, <3>4 DEF ChosenFollows
  <2>13. FailuresKnown'
    BY <1>1, <2>8 DEF OfferInv, FailuresKnown
  <2> QED
    BY <1>6, <1>7, <1>8, <2>11, <2>12, <2>13 DEF OfferInv
<1> QED
  BY <1>9, <1>10

\* The device ends.  While the three places agree every offer of the table is destroyed.
LEMMA FinishedStep ==
    ASSUME TypeOK, OfferInv, TableKeyed, OnFinished
    PROVE  OfferInv'
<1>1. /\ Take("finished") /\ Head(events) = events[1] /\ Running /\ 1 \in DOMAIN events
      /\ events[1].ev = "finished"
      /\ UNCHANGED <<current, appgone, resources, chosen, finished, rejected>>
  BY EventTaken DEF OnFinished, serverVars
<1>2. PICK n \in Nat : \E m \in 0..n : \E order \in [1..n -> DOMAIN offers] : EndsAfter(n, m, order)
  BY DeviceEnded DEF OfferInv
<1>3. PICK m \in 0..n, order \in [1..n -> DOMAIN offers] : EndsAfter(n, m, order)
  BY <1>2
<1> DEFINE D == {order[k] : k \in 1..m}
<1>4. /\ IntroducedOnce' /\ EventsPaired' /\ EndingLast'
      /\ \A p \in Offer : Introduced(p)' <=> Introduced(p)
      /\ Waiting = {} /\ Waiting' = {}
      /\ \A x \in Kinds : \A k \in DOMAIN events' :
           LastOf(x, k)' => k + 1 \in DOMAIN events /\ events'[k] = events[k + 1] /\ LastOf(x, k + 1)
      /\ \A x \in Kinds :
           (\A k \in DOMAIN events' : events'[k].ev # x) => \A k \in DOMAIN events : events[k].ev # x
  <2>1. \A k \in DOMAIN events' : k + 1 \in DOMAIN events /\ events'[k] = events[k + 1]
    BY <1>1, EventTaken
  <2>2. ~NamesOffer(events[1])
    BY <1>1 DEF NamesOffer
  <2> QED
    BY <1>1, <2>1, <2>2, EventsTail DEF OfferInv
<1>5. OffersAccounted' /\ DestroyedOnce'
  <2>1. Len(requests) \in Nat /\ DOMAIN requests = 1..Len(requests)
    BY Messages
  <2>2. \/ DOMAIN requests' = 1..(Len(requests) + m)
        \/ /\ DOMAIN requests' = 1..(Len(requests) + m + 1)
           /\ requests'[Len(requests) + m + 1] = [op |-> "destroy_device"]
    BY <1>3, Zenon DEF EndsAfter
  <2>3. \A k \in DOMAIN requests' :
           \/ k \in DOMAIN requests
           \/ k - Len(requests) \in 1..m /\ requests'[k] = DestroyOffer(offers[order[k - Len(requests)]])
           \/ requests'[k].op = "destroy_device"
    <3> SUFFICES ASSUME NEW k \in DOMAIN requests', k \notin DOMAIN requests
                 PROVE  \/ k - Len(requests) \in 1..m /\ requests'[k] = DestroyOffer(offers[order[k - Len(requests)]])
                        \/ requests'[k].op = "destroy_device"
      OBVIOUS
    <3>1. DOMAIN requests' = 1..(Len(requests) + m)
          \/ /\ DOMAIN requests' = 1..(Len(requests) + m + 1)
             /\ requests'[Len(requests) + m + 1].op = "destroy_device"
      BY <2>2
    <3>2. k \in Nat /\ (k - Len(requests) \in 1..m \/ requests'[k].op = "destroy_device")
          /\ k = Len(requests) + (k - Len(requests))
      BY <2>1, <3>1
    <3>3. \A i \in 1..m : requests'[Len(requests) + i] = DestroyOffer(offers[order[i]])
      BY <1>3 DEF EndsAfter
    <3> QED
      BY <3>2, <3>3
  <2>4. /\ \A id \in D : Attached(id)
        /\ handlers' = WithoutHandlers(D)
        /\ \A k \in DOMAIN requests : k \in DOMAIN requests' /\ requests'[k] = requests[k]
        /\ \A j, k \in 1..n : order[j] = order[k] => j = k
        /\ \A k \in 1..m : requests'[Len(requests) + k] = DestroyOffer(offers[order[k]])
    BY <1>3 DEF EndsAfter
  <2>5. \A i \in 1..m : /\ DestroyOffer(offers[order[i]]).id = order[i]
                        /\ DestroyOffer(offers[order[i]]).op = "destroy_offer"
    <3>1. \A i \in 1..m : i \in 1..n /\ order[i] \in DOMAIN offers
      BY <1>2
    <3> QED
      BY <3>1 DEF TableKeyed, DestroyOffer
  <2>6. \A k \in DOMAIN requests' :
           k \in DOMAIN requests \/ requests'[k].op # "destroy_offer" \/ requests'[k].id \in D
    BY <2>3, <2>5
  <2>7. ASSUME NEW id \in D PROVE \E k \in DOMAIN requests' : Destroys(requests'[k], id)
    <3>1. PICK i \in 1..m : id = order[i]
      OBVIOUS
    <3>2. Len(requests) + i \in DOMAIN requests'
      BY <2>1, <2>2
    <3>3. requests'[Len(requests) + i] = DestroyOffer(offers[order[i]])
      BY <2>4
    <3> QED
      BY <2>5, <3>1, <3>2, <3>3 DEF Destroys
  <2>8. ASSUME NEW j \in DOMAIN requests' \ DOMAIN requests, NEW k \in DOMAIN requests' \ DOMAIN requests,
               NEW id \in OfferIds, Destroys(requests'[j], id), Destroys(requests'[k], id)
        PROVE  j = k
    <3>1. /\ j - Len(requests) \in 1..m /\ requests'[j] = DestroyOffer(offers[order[j - Len(requests)]])
          /\ k - Len(requests) \in 1..m /\ requests'[k] = DestroyOffer(offers[order[k - Len(requests)]])
      BY <2>3, <2>8 DEF Destroys
    <3>2. order[j - Len(requests)] = order[k - Len(requests)]
      BY <2>8, <2>5, <3>1 DEF Destroys
    <3>3. j - Len(requests) \in 1..n /\ k - Len(requests) \in 1..n
      BY <3>1
    <3>4. j - Len(requests) = k - Len(requests)
      BY <2>4, <3>2, <3>3
    <3>5. j \in Int /\ k \in Int
      BY <2>1, <2>2
    <3> QED
      BY <2>1, <3>4, <3>5
  <2> HIDE DEF D
  <2> QED
    BY <1>1, <1>4, <2>4, <2>6, <2>7, <2>8, OffersDestroyed DEF OfferInv
<1>6. TableFinite'
  <2>1. offers' = offers \/ offers' = <<>>
    BY <1>3 DEF EndsAfter
  <2>2. DOMAIN <<>> = {}
    OBVIOUS
  <2> QED
    BY <2>1, <2>2, FS_EmptySet DEF OfferInv, TableFinite
<1>7. device
  BY <1>1 DEF OfferInv, EndingLast, Aside
<1>8. appgone = {} => device' = FALSE /\ raised' = raised /\ handlers' = {}
  <2> SUFFICES ASSUME appgone = {} PROVE device' = FALSE /\ raised' = raised /\ handlers' = {}
    OBVIOUS
  <2>1. Range(offers) = handlers /\ \A id \in DOMAIN offers : offers[id].id = id
    BY <1>1, <1>7 DEF OfferInv, PlacesFollow
  <2>2. \A id \in DOMAIN offers : Attached(id)
    BY <2>1 DEF Range, Attached
  <2>3. ~(m < n /\ ~Attached(order[m + 1]))
    <3> SUFFICES ASSUME m < n PROVE Attached(order[m + 1])
      OBVIOUS
    <3>1. m + 1 \in 1..n
      OBVIOUS
    <3> QED
      BY <2>2, <3>1
  <2>4. m = n /\ device' = FALSE /\ raised' = raised
    BY <1>3, <2>3 DEF EndsAfter
  <2>5. D = DOMAIN offers
    BY <1>3, <2>4 DEF EndsAfter, Range
  <2>6. \A h \in handlers : h.id \in DOMAIN offers
    BY <2>1 DEF Range
  <2> QED
    BY <1>3, <2>4, <2>5, <2>6 DEF EndsAfter, WithoutHandlers
<1>9. PlacesFollow'
  BY <1>1, <1>8 DEF PlacesFollow
<1>10. ChosenFollows'
  <2>1. \A x \in Kinds : \A k \in DOMAIN events : LastOf(x, k) => events[k].offer = chosen[x]
    BY DEF OfferInv, ChosenFollows
  <2> QED
    BY <1>1, <1>4, <1>8, <2>1 DEF ChosenFollows
<1>11. FailuresKnown'
  BY <1>1, <1>8 DEF OfferInv, FailuresKnown
<1> QED
  BY <1>4, <1>5, <1>6, <1>9, <1>10, <1>11 DEF OfferInv

LEMMA AppDestroyStep ==
    ASSUME TypeOK, OfferInv, NEW o \in Offer, AppDestroy(o)
    PROVE  OfferInv'
<1>1. /\ Attached(o.id) /\ handlers' = WithoutHandlers({o.id})
      /\ requests' = Append(requests, DestroyOffer(o)) /\ appgone' # {}
      /\ UNCHANGED <<device, offers, current, raised, resources, chosen, finished, rejected, events>>
  BY DEF AppDestroy, serverVars
<1>2. /\ DOMAIN requests = 1..Len(requests) /\ Len(requests) \in Nat
      /\ DOMAIN requests' = 1..(Len(requests) + 1)
      /\ \A k \in DOMAIN requests : k \in DOMAIN requests' /\ requests'[k] = requests[k]
      /\ requests'[Len(requests) + 1] = DestroyOffer(o)
  BY <1>1, Requesting, RequestAdded
<1>3. \A p \in Offer : Introduced(p)' <=> Introduced(p)
  BY <1>1 DEF Introduced, Introduces
<1>4. OffersAccounted' /\ DestroyedOnce'
  <2>1. \A k \in DOMAIN requests' : k \in DOMAIN requests \/ k = Len(requests) + 1
    BY <1>2
  <2>2. Destroys(requests'[Len(requests) + 1], o.id) /\ Len(requests) + 1 \in DOMAIN requests'
    BY <1>2 DEF Destroys, DestroyOffer
  <2>3. requests'[Len(requests) + 1].id = o.id
    BY <2>2 DEF Destroys
  <2> QED
    BY <1>1, <1>2, <1>3, <2>1, <2>2, <2>3, OffersDestroyed DEF OfferInv
<1>5. IntroducedOnce' /\ EventsPaired' /\ EndingLast' /\ TableFinite'
  <2>1. IntroducedOnce'
    BY <1>1 DEF OfferInv, IntroducedOnce, Introduces
  <2>2. EventsPaired'
    BY <1>1 DEF OfferInv, EventsPaired, Introduces, NamesOffer
  <2>3. EndingLast' /\ TableFinite'
    BY <1>1 DEF OfferInv, EndingLast, Aside, TableFinite
  <2> QED
    BY <2>1, <2>2, <2>3
<1>6. PlacesFollow' /\ FailuresKnown'
  BY <1>1 DEF PlacesFollow, FailuresKnown
<1>7. ChosenFollows'
  BY <1>1 DEF OfferInv, ChosenFollows, LastOf
<1> QED
  BY <1>4, <1>5, <1>6, <1>7 DEF OfferInv

-----------------------------------------------------------------------------
\* The compositor carries out the destruction of an offer, which is there.
LEMMA ServeDestroyStep ==
    ASSUME TypeOK, OfferInv, ServeDestroyOffer
    PROVE  OfferInv'
<1> DEFINE id == requests[1].id
<1>1. /\ TakeRequest("destroy_offer") /\ Head(requests) = requests[1]
      /\ 1 \in DOMAIN requests /\ Destroys(requests[1], id) /\ id \in OfferIds
      /\ resources' = {r \in resources : r.id # id}
      /\ rejected' = IF \A r \in resources : r.id # id THEN {"offer"} ELSE {}
      /\ UNCHANGED <<handlers, device, offers, current, appgone, raised, chosen, finished, events>>
  BY RequestTaken, RequestKinds DEF ServeDestroyOffer, Destroys, clientVars, offerVars
<1>2. /\ DOMAIN requests = 1..Len(requests) /\ Len(requests) \in Nat
      /\ DOMAIN requests' = 1..(Len(requests) - 1)
      /\ \A k \in DOMAIN requests' : k + 1 \in DOMAIN requests /\ requests'[k] = requests[k + 1]
      /\ \A k \in DOMAIN requests :
           k = 1 \/ (k - 1 \in DOMAIN requests' /\ requests'[k - 1] = requests[k])
  BY <1>1, RequestTaken
<1> HIDE DEF id
<1>3. Destroyed(id) /\ (\E r \in resources : r.id = id) /\ ~Attached(id)
  BY <1>1 DEF OfferInv, OffersAccounted, Destroyed
<1>4. DestroyedOnce'
  <2>1. ASSUME NEW j \in DOMAIN requests', NEW k \in DOMAIN requests', NEW x \in OfferIds,
               Destroys(requests'[j], x), Destroys(requests'[k], x)
        PROVE  j = k
    <3>1. j + 1 = k + 1
      BY <1>2, <2>1 DEF OfferInv, DestroyedOnce
    <3> QED
      BY <1>2, <3>1
  <2>2. "offer" \notin rejected'
    BY <1>1, <1>3
  <2> QED
    BY <2>1, <2>2 DEF DestroyedOnce, Destroys
<1>5. ASSUME NEW x \in OfferIds PROVE Destroyed(x)' <=> Destroyed(x) /\ x # id
  <2>1. ASSUME NEW k \in DOMAIN requests', Destroys(requests'[k], x) PROVE Destroyed(x) /\ x # id
    <3>1. k + 1 \in DOMAIN requests /\ Destroys(requests[k + 1], x) /\ k + 1 # 1
      BY <1>2, <2>1
    <3> QED
      BY <1>1, <3>1 DEF OfferInv, DestroyedOnce, Destroyed
  <2>2. ASSUME NEW k \in DOMAIN requests, Destroys(requests[k], x), x # id PROVE Destroyed(x)'
    <3>1. k # 1
      BY <1>1, <2>2 DEF Destroys
    <3> QED
      BY <1>2, <2>2, <3>1 DEF Destroyed, Destroys
  <2>3. Destroyed(x)' => \E k \in DOMAIN requests' : Destroys(requests'[k], x)
    BY DEF Destroyed, Destroys
  <2> QED
    BY <2>1, <2>2, <2>3 DEF Destroyed
<1>6. \A p \in Offer : Introduced(p)' <=> Introduced(p)
  BY <1>1 DEF Introduced, Introduces
<1>7. OffersAccounted'
  <2>1. \A x : Attached(x)' <=> Attached(x)
    BY <1>1 DEF Attached
  <2>2. /\ \A r \in resources : r \in Offer /\ r.id \in OfferIds
        /\ \A o \in Offer : o.id \in OfferIds
    BY DEF TypeOK
  <2>3. \A h \in handlers' : h \in resources'
    BY <1>1, <1>3 DEF OfferInv, OffersAccounted, Attached
  <2>4. \A r \in resources' : r \in handlers' \/ Introduced(r)' \/ Destroyed(r.id)'
    BY <1>1, <1>5, <1>6, <2>2 DEF OfferInv, OffersAccounted
  <2>5. \A o \in Offer : Introduced(o)' => o \in resources' \ handlers' /\ ~Destroyed(o.id)'
    BY <1>1, <1>3, <1>5, <1>6, <2>2 DEF OfferInv, OffersAccounted
  <2>6. \A x \in OfferIds : Destroyed(x)' => (\E r \in resources' : r.id = x) /\ ~Attached(x)'
    BY <1>1, <1>5, <2>1 DEF OfferInv, OffersAccounted
  <2>7. \A r, s \in resources' : r.id = s.id => r = s
    BY <1>1 DEF OfferInv, OffersAccounted
  <2> QED
    BY <2>3, <2>4, <2>5, <2>6, <2>7 DEF OffersAccounted
<1>8. IntroducedOnce' /\ EventsPaired' /\ EndingLast' /\ TableFinite'
  <2>1. IntroducedOnce'
    BY <1>1 DEF OfferInv, IntroducedOnce, Introduces
  <2>2. EventsPaired'
    BY <1>1 DEF OfferInv, EventsPaired, Introduces, NamesOffer
  <2>3. EndingLast' /\ TableFinite'
    BY <1>1 DEF OfferInv, EndingLast, Aside, TableFinite
  <2> QED
    BY <2>1, <2>2, <2>3
<1>9. PlacesFollow' /\ FailuresKnown'
  <2>1. Waiting' = Waiting /\ Range(offers)' = Range(offers) /\ Range(current)' = Range(current)
    BY <1>1 DEF Waiting, NamesOffer, Range
  <2>2. Running' <=> Running
    BY <1>1 DEF Running
  <2> QED
    BY <1>1, <2>1, <2>2 DEF OfferInv, PlacesFollow, FailuresKnown
<1>10. ChosenFollows'
  <2>1. Running' <=> Running
    BY <1>1 DEF Running
  <2> QED
    BY <1>1, <2>1 DEF OfferInv, ChosenFollows, LastOf
<1> QED
  BY <1>4, <1>7, <1>8, <1>9, <1>10 DEF OfferInv

-----------------------------------------------------------------------------
\* What a new selection sends after the c events that cancel the one before it, and
\* who owns it then.
LEMMA ChooseSends ==
    ASSUME TypeOK, NEW kind \in Kinds, NEW id \in OfferIds, Choose(kind, id),
           NEW o, o = [id |-> id, gen |-> gens + 1]
    PROVE  \E c \in {0, 1} :
             /\ DOMAIN events' = 1..(Len(events) + c + 2)
             /\ \A k \in DOMAIN events : k \in DOMAIN events' /\ events'[k] = events[k]
             /\ c = 1 => owner[kind] # None /\ IsCancel(events'[Len(events) + 1], owner[kind])
             /\ events'[Len(events) + c + 1] = [ev |-> "data_offer", offer |-> o]
             /\ events'[Len(events) + c + 2] = [ev |-> kind, offer |-> o]
             /\ \/ c = 0 /\ owner' = owner
                \/ owner' = [owner EXCEPT ![kind] = None] /\ (c = 0 => owner[kind] = None)
<1>1. o \in Offer /\ events \in Seq(Event)
  <2>1. gens \in Nat /\ nsources \in Nat /\ events \in Seq(Event)
    BY DEF TypeOK
  <2>2. gens + nsources < MaxMade
    BY DEF Choose
  <2>3. gens + 1 \in 1..MaxMade
    BY <2>1, <2>2, OffersAssumption
  <2> QED
    BY <2>1, <2>3
<1> DEFINE d == [ev |-> "data_offer", offer |-> o]
           s == [ev |-> kind, offer |-> o]
<1>2. PICK own \in BOOLEAN :
         /\ own => owner[kind] # None
         /\ owner' = IF own THEN owner ELSE [owner EXCEPT ![kind] = None]
         /\ events' = events \o (IF own THEN <<>> ELSE Cancel(kind)) \o <<d, s>>
  BY DEF Choose
<1> DEFINE b == IF own THEN <<>> ELSE Cancel(kind)
<1>3. /\ b \in Seq(Event) /\ Len(b) \in {0, 1}
      /\ Len(b) = 1 => owner[kind] # None /\ IsCancel(b[1], owner[kind])
      /\ Len(b) = 0 => own \/ owner[kind] = None
      /\ Len(b) = 1 => ~own
  <2>1. CASE own
    BY <2>1
  <2>2. CASE ~own
    <3>1. b = Cancel(kind)
      BY <2>2
    <3> HIDE DEF b
    <3> QED
      BY <2>2, <3>1, Cancelling DEF IsCancel
  <2> QED
    BY <2>1, <2>2
<1>4. d \in Event /\ s \in Event
  BY <1>1, Announcing
<1>5. events' = (events \o b) \o <<d, s>>
  BY <1>2
<1> HIDE DEF b, d, s
<1>6. /\ events \o b \in Seq(Event)
      /\ Len(events) \in Nat /\ DOMAIN events = 1..Len(events) /\ DOMAIN b = 1..Len(b)
      /\ Len(events \o b) = Len(events) + Len(b) /\ DOMAIN (events \o b) = 1..(Len(events) + Len(b))
      /\ \A k \in DOMAIN events : k \in DOMAIN (events \o b) /\ (events \o b)[k] = events[k]
      /\ \A k \in DOMAIN b : (events \o b)[Len(events) + k] = b[k]
  BY <1>1, <1>3, Joining
<1>7. /\ <<d, s>> \in Seq(Event) /\ Len(<<d, s>>) = 2 /\ <<d, s>>[1] = d /\ <<d, s>>[2] = s
      /\ DOMAIN <<d, s>> = 1..2
  BY <1>4
<1> DEFINE q == events \o b
           z == <<d, s>>
<1>8. /\ events' = q \o z /\ q \in Seq(Event) /\ z \in Seq(Event)
      /\ Len(q) = Len(events) + Len(b) /\ DOMAIN q = 1..(Len(events) + Len(b))
      /\ Len(z) = 2 /\ z[1] = d /\ z[2] = s /\ DOMAIN z = 1..2
      /\ \A k \in DOMAIN events : k \in DOMAIN q /\ q[k] = events[k]
      /\ \A k \in DOMAIN b : q[Len(events) + k] = b[k]
  BY <1>5, <1>6, <1>7
<1> HIDE DEF q, z
<1>9. /\ DOMAIN events' = 1..(Len(q) + 2)
      /\ \A k \in DOMAIN q : k \in DOMAIN events' /\ events'[k] = q[k]
      /\ \A k \in 1..2 : events'[Len(q) + k] = z[k]
  <2>1. /\ DOMAIN (q \o z) = 1..(Len(q) + Len(z))
        /\ \A k \in DOMAIN q : k \in DOMAIN (q \o z) /\ (q \o z)[k] = q[k]
        /\ \A k \in DOMAIN z : (q \o z)[Len(q) + k] = z[k]
    <3>1. q \in Seq(Event) /\ z \in Seq(Event)
      BY <1>8
    <3> QED
      BY ONLY <3>1, Joining
  <2> QED
    BY <1>8, <2>1
<1>10. /\ DOMAIN events' = 1..(Len(events) + Len(b) + 2)
       /\ events'[Len(events) + Len(b) + 1] = d
       /\ events'[Len(events) + Len(b) + 2] = s
       /\ \A k \in DOMAIN events : k \in DOMAIN events' /\ events'[k] = events[k]
  BY <1>3, <1>6, <1>8, <1>9
<1>11. Len(b) = 1 => owner[kind] # None /\ IsCancel(events'[Len(events) + 1], owner[kind])
  <2> SUFFICES ASSUME Len(b) = 1
               PROVE  owner[kind] # None /\ IsCancel(events'[Len(events) + 1], owner[kind])
    OBVIOUS
  <2>1. 1 \in DOMAIN b /\ Len(events) + 1 \in DOMAIN q
    BY <1>6, <1>8
  <2> QED
    BY <1>3, <1>8, <1>9, <2>1
<1>12. \/ Len(b) = 0 /\ owner' = owner
       \/ owner' = [owner EXCEPT ![kind] = None] /\ (Len(b) = 0 => owner[kind] = None)
  <2>1. CASE own
    BY <1>2, <1>3, <2>1
  <2>2. CASE ~own
    BY <1>2, <1>3, <2>2
  <2> QED
    BY <2>1, <2>2
<1> QED
  BY <1>3, <1>10, <1>11, <1>12 DEF d, s

LEMMA ClearSends ==
    ASSUME TypeOK, NEW kind \in Kinds, Clear(kind)
    PROVE  \E c \in {0, 1} :
             /\ DOMAIN events' = 1..(Len(events) + c + 1)
             /\ \A k \in DOMAIN events : k \in DOMAIN events' /\ events'[k] = events[k]
             /\ c = 1 => owner[kind] # None /\ IsCancel(events'[Len(events) + 1], owner[kind])
             /\ events'[Len(events) + c + 1] = [ev |-> kind, offer |-> NoOffer]
             /\ c = 0 => owner[kind] = None
<1> DEFINE s == [ev |-> kind, offer |-> NoOffer]
           b == Cancel(kind)
           q == events \o b
<1>1. /\ b \in Seq(Event) /\ events \in Seq(Event) /\ Len(b) \in {0, 1}
      /\ Len(b) = 1 => owner[kind] # None /\ IsCancel(b[1], owner[kind])
      /\ Len(b) = 0 => owner[kind] = None
  BY Cancelling, Messages DEF IsCancel
<1>2. s \in Event /\ events' = q \o <<s>>
  BY Announcing DEF Clear
<1> HIDE DEF b, s
<1>3. /\ q \in Seq(Event)
      /\ Len(events) \in Nat /\ DOMAIN events = 1..Len(events) /\ DOMAIN b = 1..Len(b)
      /\ Len(q) = Len(events) + Len(b) /\ DOMAIN q = 1..(Len(events) + Len(b))
      /\ \A k \in DOMAIN events : k \in DOMAIN q /\ q[k] = events[k]
      /\ \A k \in DOMAIN b : q[Len(events) + k] = b[k]
  BY <1>1, Joining
<1> DEFINE z == <<s>>
<1>4. z \in Seq(Event) /\ Len(z) = 1 /\ DOMAIN z = 1..1 /\ z[1] = s
  BY <1>2
<1> HIDE DEF q, z
<1>5. /\ DOMAIN events' = 1..(Len(q) + 1)
      /\ \A k \in DOMAIN q : k \in DOMAIN events' /\ events'[k] = q[k]
      /\ \A k \in 1..1 : events'[Len(q) + k] = z[k]
  <2>1. /\ DOMAIN (q \o z) = 1..(Len(q) + Len(z))
        /\ \A k \in DOMAIN q : k \in DOMAIN (q \o z) /\ (q \o z)[k] = q[k]
        /\ \A k \in DOMAIN z : (q \o z)[Len(q) + k] = z[k]
    <3>1. q \in Seq(Event) /\ z \in Seq(Event)
      BY <1>3, <1>4
    <3> QED
      BY ONLY <3>1, Joining
  <2> QED
    BY <1>2, <1>4, <2>1 DEF z
<1>6. Len(b) = 1 => IsCancel(events'[Len(events) + 1], owner[kind])
  <2> SUFFICES ASSUME Len(b) = 1 PROVE IsCancel(events'[Len(events) + 1], owner[kind])
    OBVIOUS
  <2>1. 1 \in DOMAIN b /\ Len(events) + 1 \in DOMAIN q
    BY <1>3
  <2> QED
    BY <1>1, <1>3, <1>5, <2>1
<1>7. /\ DOMAIN events' = 1..(Len(events) + Len(b) + 1)
      /\ \A k \in DOMAIN events : k \in DOMAIN events' /\ events'[k] = events[k]
      /\ events'[Len(events) + Len(b) + 1] = s
  BY <1>1, <1>3, <1>4, <1>5
<1> QED
  BY <1>1, <1>6, <1>7 DEF s

\* The compositor introduces an offer under a free id and chooses it.
LEMMA ChooseStep ==
    ASSUME TypeOK, OfferInv, NEW kind \in Kinds, NEW id \in OfferIds, Choose(kind, id)
    PROVE  OfferInv'
<1> DEFINE o == [id |-> id, gen |-> gens + 1]
           n == Len(events)
<1>1. /\ ~finished /\ (\A r \in resources : r.id # id)
      /\ resources' = resources \cup {o} /\ chosen' = [chosen EXCEPT ![kind] = o]
      /\ UNCHANGED <<handlers, device, offers, current, appgone, raised, finished, rejected, requests>>
  BY DEF Choose, clientVars, offerVars
<1>2. o \in Offer /\ o.id = id /\ o # NoOffer
  <2>1. gens \in Nat /\ nsources \in Nat
    BY DEF TypeOK
  <2>2. gens + nsources < MaxMade
    BY DEF Choose
  <2>3. gens + 1 \in 1..MaxMade
    BY <2>1, <2>2, OffersAssumption
  <2> QED
    BY <2>1, <2>3, OffersAssumption
<1>3. PICK c \in {0, 1} :
         /\ DOMAIN events' = 1..(Len(events) + c + 2)
         /\ \A k \in DOMAIN events : k \in DOMAIN events' /\ events'[k] = events[k]
         /\ c = 1 => owner[kind] # None /\ IsCancel(events'[Len(events) + 1], owner[kind])
         /\ events'[Len(events) + c + 1] = [ev |-> "data_offer", offer |-> o]
         /\ events'[Len(events) + c + 2] = [ev |-> kind, offer |-> o]
  BY ChooseSends
<1> HIDE DEF o
<1>4. n \in Nat /\ DOMAIN events = 1..n
  BY Messages
<1> DEFINE d == n + c + 1
           s == n + c + 2
<1>5. /\ d \in DOMAIN events' /\ s \in DOMAIN events' /\ d + 1 = s /\ d \in Nat /\ d # 1 - 1
      /\ d \notin DOMAIN events /\ s \notin DOMAIN events /\ n < d
      /\ \A k \in DOMAIN events' : k \in DOMAIN events \/ k = d \/ k = s \/ (c = 1 /\ k = n + 1)
      /\ \A k \in DOMAIN events : k < d /\ k < s
      /\ \A k \in DOMAIN events' : k <= s
  BY <1>3, <1>4
<1>6. /\ events'[d].ev = "data_offer" /\ events'[d].offer = o
      /\ events'[s].ev = kind /\ events'[s].offer = o
      /\ c = 1 => events'[n + 1].ev = "cancelled"
  BY <1>3 DEF IsCancel
<1> HIDE DEF n, d, s
<1>7. \A k \in DOMAIN events' :
         \/ k \in DOMAIN events /\ events'[k] = events[k]
         \/ k = d \/ k = s
         \/ events'[k].ev = "cancelled"
  BY <1>3, <1>5, <1>6
<1>8. ~Introduced(o) /\ ~Destroyed(id) /\ o \notin resources /\ ~Attached(id)
  BY <1>1, <1>2 DEF OfferInv, OffersAccounted, Attached
<1>9. \A p \in Offer : Introduced(p)' <=> Introduced(p) \/ p = o
  <2>1. ASSUME NEW p \in Offer, NEW k \in DOMAIN events', Introduces(events'[k], p)
        PROVE  Introduced(p) \/ p = o
    BY <1>6, <1>7, <2>1 DEF Introduced, Introduces
  <2>2. ASSUME NEW p \in Offer, Introduced(p) PROVE Introduced(p)'
    BY <1>3, <2>2 DEF Introduced, Introduces
  <2>3. ASSUME NEW p \in Offer, p = o PROVE Introduced(p)'
    BY <1>5, <1>6, <2>3 DEF Introduced, Introduces
  <2>4. \A p \in Offer : Introduced(p)' => \E k \in DOMAIN events' : Introduces(events'[k], p)
    BY DEF Introduced, Introduces
  <2> QED
    BY <2>1, <2>2, <2>3, <2>4
<1>10. OffersAccounted' /\ DestroyedOnce'
  <2>1. \A x : (Destroyed(x)' <=> Destroyed(x)) /\ (Attached(x)' <=> Attached(x))
    BY <1>1 DEF Destroyed, Destroys, Attached
  <2>2. DestroyedOnce'
    BY <1>1 DEF OfferInv, DestroyedOnce, Destroys
  <2>3. \A r \in resources : r \in Offer
    BY DEF TypeOK
  <2>4. \A r, t \in resources' : r.id = t.id => r = t
    BY <1>1, <1>2 DEF OfferInv, OffersAccounted
  <2>5. handlers' \subseteq resources'
    BY <1>1 DEF OfferInv, OffersAccounted
  <2>6. \A r \in resources' : r \in handlers' \/ Introduced(r)' \/ Destroyed(r.id)'
    BY <1>1, <1>2, <1>9, <2>1, <2>3 DEF OfferInv, OffersAccounted
  <2>7. \A p \in Offer : Introduced(p)' => p \in resources' \ handlers' /\ ~Destroyed(p.id)'
    BY <1>1, <1>2, <1>8, <1>9, <2>1 DEF OfferInv, OffersAccounted
  <2>8. \A x \in OfferIds : Destroyed(x)' => (\E r \in resources' : r.id = x) /\ ~Attached(x)'
    BY <1>1, <2>1 DEF OfferInv, OffersAccounted
  <2> QED
    BY <2>2, <2>4, <2>5, <2>6, <2>7, <2>8 DEF OffersAccounted
<1>11. IntroducedOnce'
  <2> SUFFICES ASSUME NEW j \in DOMAIN events', NEW k \in DOMAIN events', NEW p \in Offer,
                      Introduces(events'[j], p), Introduces(events'[k], p)
               PROVE  j = k
    BY DEF IntroducedOnce, Introduces
  <2>1. \A i \in DOMAIN events' : Introduces(events'[i], p) => i = d \/ (i \in DOMAIN events /\ Introduces(events[i], p))
    BY <1>6, <1>7 DEF Introduces
  <2>2. CASE p = o
    BY <1>8, <2>1, <2>2 DEF Introduced
  <2>3. CASE p # o
    <3>1. ~Introduces(events'[d], p)
      BY <1>6, <2>3 DEF Introduces
    <3> QED
      BY <2>1, <3>1 DEF OfferInv, IntroducedOnce
  <2> QED
    BY <2>2, <2>3
<1>12. EventsPaired'
  <2> SUFFICES ASSUME NEW k \in DOMAIN events'
               PROVE  /\ events'[k].ev = "data_offer" =>
                           /\ k + 1 \in DOMAIN events' /\ NamesOffer(events'[k + 1])
                           /\ events'[k + 1].offer = events'[k].offer
                      /\ NamesOffer(events'[k]) => k = 1 \/ Introduces(events'[k - 1], events'[k].offer)
    BY DEF EventsPaired, NamesOffer, Introduces
  <2>1. CASE k \in DOMAIN events
    <3>1. /\ events[k].ev = "data_offer" =>
               /\ k + 1 \in DOMAIN events /\ NamesOffer(events[k + 1])
               /\ events[k + 1].offer = events[k].offer
          /\ NamesOffer(events[k]) => k = 1 \/ Introduces(events[k - 1], events[k].offer)
      BY <2>1 DEF OfferInv, EventsPaired
    <3>2. k = 1 \/ k - 1 \in DOMAIN events
      BY <1>4, <2>1
    <3> QED
      BY <1>3, <2>1, <3>1, <3>2
  <2>2. CASE k = d
    BY <1>2, <1>5, <1>6, <2>2 DEF NamesOffer
  <2>3. CASE k = s
    <3>1. k - 1 = d
      BY <1>5, <2>3
    <3> QED
      BY <1>5, <1>6, <2>3, <3>1 DEF Introduces
  <2>4. CASE events'[k].ev = "cancelled"
    BY <2>4 DEF NamesOffer
  <2> QED
    BY <1>7, <2>1, <2>2, <2>3, <2>4
<1>13. EndingLast' /\ TableFinite'
  <2>1. \A k \in DOMAIN events' : events'[k].ev # "finished"
    BY <1>1, <1>6, <1>7 DEF OfferInv, EndingLast
  <2>2. device
    BY <1>1 DEF OfferInv, EndingLast
  <2> QED
    BY <1>1, <2>1, <2>2 DEF OfferInv, EndingLast, TableFinite
<1>14. Waiting' = Waiting
  <2>1. Waiting' = {events'[k].offer : k \in {j \in {1} \cap DOMAIN events' : NamesOffer(events'[j])}}
    BY DEF Waiting, NamesOffer
  <2>2. CASE 1 \in DOMAIN events
    BY <1>3, <2>1, <2>2 DEF Waiting
  <2>3. CASE 1 \notin DOMAIN events
    <3>1. ~NamesOffer(events'[1]) \/ 1 \notin DOMAIN events'
      <4>1. s # 1
        BY <1>4, <1>5
      <4> QED
        BY <1>6, <1>7, <2>3, <4>1 DEF NamesOffer
    <3> QED
      BY <2>1, <2>3, <3>1 DEF Waiting
  <2> QED
    BY <2>2, <2>3
<1>15. PlacesFollow' /\ FailuresKnown'
  <2>1. Range(offers)' = Range(offers) /\ Range(current)' = Range(current) /\ (Running' <=> Running)
    BY <1>1 DEF Range, Running
  <2> QED
    BY <1>1, <1>14, <2>1 DEF OfferInv, PlacesFollow, FailuresKnown
<1>16. ChosenFollows'
  <2> SUFFICES ASSUME NEW x \in Kinds
               PROVE  /\ \A k \in DOMAIN events' : LastOf(x, k)' => events'[k].offer = chosen'[x]
                      /\ Running' /\ appgone' = {} /\ device' /\ (\A k \in DOMAIN events' : events'[k].ev # x) =>
                           current'[x] = chosen'[x]
    BY DEF ChosenFollows, LastOf
  <2>1. /\ \A k \in DOMAIN events : LastOf(x, k) => events[k].offer = chosen[x]
        /\ Running /\ appgone = {} /\ device /\ (\A k \in DOMAIN events : events[k].ev # x) =>
             current[x] = chosen[x]
    BY DEF OfferInv, ChosenFollows
  <2>2. /\ chosen'[x] = IF x = kind THEN o ELSE chosen[x]
        /\ Running' <=> Running
    BY <1>1 DEF TypeOK, Running
  <2>3. CASE x = kind
    <3>1. ASSUME NEW k \in DOMAIN events', LastOf(x, k)' PROVE k = s
      <4>1. ~(s > k)
        BY <1>5, <1>6, <2>3, <3>1 DEF LastOf
      <4> QED
        BY <1>3, <1>4, <1>5, <4>1
    <3> QED
      BY <1>5, <1>6, <2>2, <2>3, <3>1
  <2>4. CASE x # kind
    <3>1. \A k \in DOMAIN events' : events'[k].ev = x => k \in DOMAIN events /\ events'[k] = events[k]
      BY <1>6, <1>7, <2>4
    <3>2. \A k \in DOMAIN events' : LastOf(x, k)' => k \in DOMAIN events /\ events'[k] = events[k] /\ LastOf(x, k)
      BY <1>3, <3>1 DEF LastOf
    <3> QED
      BY <1>1, <1>3, <2>1, <2>2, <2>4, <3>2
  <2> QED
    BY <2>3, <2>4
<1> QED
  BY <1>10, <1>11, <1>12, <1>13, <1>15, <1>16 DEF OfferInv

\* Other events that are sent: a selection that is cleared, the end of the device.
LEMMA SentStep ==
    ASSUME TypeOK, OfferInv, ~finished,
           UNCHANGED <<handlers, device, offers, current, appgone, raised, rejected, requests, resources>>,
           events' \in Seq(Event), NEW s \in DOMAIN events' \ DOMAIN events,
           \A k \in DOMAIN events : k \in DOMAIN events' /\ events'[k] = events[k],
           \A k \in DOMAIN events' : k <= s /\ (k \in DOMAIN events \/ k = s \/ events'[k].ev = "cancelled"),
           \/ /\ events'[s].ev = "finished"
              /\ finished' /\ chosen' = chosen
           \/ \E kind \in Kinds :
                /\ events'[s].ev = kind /\ events'[s].offer = NoOffer
                /\ UNCHANGED finished /\ chosen' = [chosen EXCEPT ![kind] = NoOffer]
    PROVE  OfferInv'
<1>1. /\ Len(events) \in Nat /\ DOMAIN events = 1..Len(events)
      /\ \A k \in DOMAIN events' : k \in Nat
      /\ events'[s].ev \in Kinds \cup {"finished"} /\ ~NamesOffer(events'[s])
  BY Messages, LenProperties DEF NamesOffer
<1>2. \A k \in DOMAIN events' :
         /\ events'[k].ev = "data_offer" => k \in DOMAIN events
         /\ NamesOffer(events'[k]) => k \in DOMAIN events
         /\ \A p : Introduces(events'[k], p) => k \in DOMAIN events
  BY <1>1 DEF NamesOffer, Introduces
<1>3. \A p \in Offer : Introduced(p)' <=> Introduced(p)
  <2>1. ASSUME NEW p \in Offer, NEW k \in DOMAIN events', Introduces(events'[k], p)
        PROVE  Introduced(p)
    BY <1>2, <2>1 DEF Introduced
  <2>2. ASSUME NEW p \in Offer, Introduced(p) PROVE Introduced(p)'
    BY <2>2 DEF Introduced, Introduces
  <2>3. \A p \in Offer : Introduced(p)' => \E k \in DOMAIN events' : Introduces(events'[k], p)
    BY DEF Introduced, Introduces
  <2> QED
    BY <2>1, <2>2, <2>3
<1>4. OffersAccounted' /\ DestroyedOnce'
  <2>1. \A x : (Destroyed(x)' <=> Destroyed(x)) /\ (Attached(x)' <=> Attached(x))
    BY DEF Destroyed, Destroys, Attached
  <2>2. DestroyedOnce'
    BY DEF OfferInv, DestroyedOnce, Destroys
  <2>3. \A r \in resources : r \in Offer
    BY DEF TypeOK
  <2> QED
    BY <1>3, <2>1, <2>2, <2>3 DEF OfferInv, OffersAccounted
<1>5. IntroducedOnce'
  <2> SUFFICES ASSUME NEW j \in DOMAIN events', NEW k \in DOMAIN events', NEW p \in Offer,
                      Introduces(events'[j], p), Introduces(events'[k], p)
               PROVE  j = k
    BY DEF IntroducedOnce, Introduces
  <2> QED
    BY <1>2 DEF OfferInv, IntroducedOnce
<1>6. EventsPaired'
  <2> SUFFICES ASSUME NEW k \in DOMAIN events
               PROVE  /\ events[k].ev = "data_offer" =>
                           /\ k + 1 \in DOMAIN events' /\ NamesOffer(events'[k + 1])
                           /\ events'[k + 1].offer = events[k].offer
                      /\ NamesOffer(events[k]) => k = 1 \/ Introduces(events'[k - 1], events[k].offer)
    BY <1>2 DEF EventsPaired, NamesOffer, Introduces
  <2>1. k = 1 \/ k - 1 \in DOMAIN events
    BY <1>1
  <2> QED
    BY <2>1 DEF OfferInv, EventsPaired
<1>7. EndingLast' /\ TableFinite'
  <2>1. \A k \in DOMAIN events' : events'[k].ev = "finished" => k = s /\ finished'
    BY DEF OfferInv, EndingLast
  <2>2. device
    BY DEF OfferInv, EndingLast
  <2>3. \A j \in DOMAIN events' : ~(j > s)
    BY <1>1
  <2> QED
    BY <2>1, <2>2, <2>3 DEF OfferInv, EndingLast, TableFinite
<1>8. Waiting' = Waiting
  <2>1. Waiting' = {events'[k].offer : k \in {j \in {1} \cap DOMAIN events' : NamesOffer(events'[j])}}
    BY DEF Waiting, NamesOffer
  <2> QED
    BY <1>2, <2>1 DEF Waiting
<1>9. PlacesFollow' /\ FailuresKnown'
  <2>1. Range(offers)' = Range(offers) /\ Range(current)' = Range(current) /\ (Running' <=> Running)
    BY DEF Range, Running
  <2> QED
    BY <1>8, <2>1 DEF OfferInv, PlacesFollow, FailuresKnown
<1>10. ChosenFollows'
  <2> SUFFICES ASSUME NEW x \in Kinds
               PROVE  /\ \A k \in DOMAIN events' : LastOf(x, k)' => events'[k].offer = chosen'[x]
                      /\ Running' /\ appgone' = {} /\ device' /\ (\A k \in DOMAIN events' : events'[k].ev # x) =>
                           current'[x] = chosen'[x]
    BY DEF ChosenFollows, LastOf
  <2>1. /\ \A k \in DOMAIN events : LastOf(x, k) => events[k].offer = chosen[x]
        /\ Running /\ appgone = {} /\ device /\ (\A k \in DOMAIN events : events[k].ev # x) =>
             current[x] = chosen[x]
    BY DEF OfferInv, ChosenFollows
  <2>2. Running' <=> Running
    BY DEF Running
  <2>3. CASE events'[s].ev = x
    <3>1. ASSUME NEW k \in DOMAIN events', LastOf(x, k)' PROVE k = s
      <4>1. ~(s > k)
        BY <2>3, <3>1 DEF LastOf
      <4> QED
        BY <1>1, <4>1
    <3>2. chosen'[x] = NoOffer /\ events'[s].offer = NoOffer
      BY <2>3 DEF TypeOK
    <3> QED
      BY <2>3, <3>1, <3>2
  <2>4. CASE events'[s].ev # x
    <3>1. \A k \in DOMAIN events' : events'[k].ev = x => k \in DOMAIN events /\ events'[k] = events[k]
      BY <2>4
    <3>2. \A k \in DOMAIN events' : LastOf(x, k)' => k \in DOMAIN events /\ events'[k] = events[k] /\ LastOf(x, k)
      BY <3>1 DEF LastOf
    <3>3. chosen'[x] = chosen[x]
      BY <2>4 DEF TypeOK
    <3> QED
      BY <2>1, <2>2, <3>2, <3>3
  <2> QED
    BY <2>3, <2>4
<1> QED
  BY <1>4, <1>5, <1>6, <1>7, <1>9, <1>10 DEF OfferInv

LEMMA ClearStep ==
    ASSUME TypeOK, OfferInv, NEW kind \in Kinds, Clear(kind), events' \in Seq(Event)
    PROVE  OfferInv'
<1>1. PICK c \in {0, 1} :
         /\ DOMAIN events' = 1..(Len(events) + c + 1)
         /\ \A k \in DOMAIN events : k \in DOMAIN events' /\ events'[k] = events[k]
         /\ c = 1 => owner[kind] # None /\ IsCancel(events'[Len(events) + 1], owner[kind])
         /\ events'[Len(events) + c + 1] = [ev |-> kind, offer |-> NoOffer]
         /\ c = 0 => owner[kind] = None
  BY ClearSends
<1> DEFINE s == Len(events) + c + 1
<1>2. Len(events) \in Nat /\ DOMAIN events = 1..Len(events)
  BY Messages
<1>3. s \in DOMAIN events' \ DOMAIN events
  BY <1>1, <1>2
<1>4. \A k \in DOMAIN events' :
         k <= s /\ (k \in DOMAIN events \/ k = s \/ events'[k].ev = "cancelled")
  <2>1. \A k \in DOMAIN events' : k <= s /\ (k \in DOMAIN events \/ k = s \/ (c = 1 /\ k = Len(events) + 1))
    BY <1>1, <1>2
  <2> QED
    BY <1>1, <2>1 DEF IsCancel
<1>5. events'[s].ev = kind /\ events'[s].offer = NoOffer
  BY <1>1
<1> HIDE DEF s
<1>6. /\ ~finished /\ UNCHANGED finished /\ chosen' = [chosen EXCEPT ![kind] = NoOffer]
      /\ UNCHANGED <<handlers, device, offers, current, appgone, raised, rejected, requests, resources>>
  BY DEF Clear, clientVars, offerVars
<1> QED
  BY <1>1, <1>3, <1>4, <1>5, <1>6, SentStep

LEMMA FinishStep ==
    ASSUME TypeOK, OfferInv, Finish, events' \in Seq(Event)
    PROVE  OfferInv'
<1> DEFINE s == Len(events) + 1
<1>1. /\ ~finished /\ finished' /\ events' = Append(events, [ev |-> "finished"])
      /\ UNCHANGED <<handlers, device, offers, current, appgone, raised, rejected, requests, resources, chosen>>
  BY DEF Finish, clientVars, offerVars
<1>2. /\ Len(events) \in Nat /\ DOMAIN events = 1..Len(events)
      /\ DOMAIN events' = 1..s /\ events'[s] = [ev |-> "finished"]
      /\ \A k \in DOMAIN events : k \in DOMAIN events' /\ events'[k] = events[k]
  <2>1. events \in Seq(Event) /\ [ev |-> "finished"] \in Event
    BY Messages, Announcing
  <2> QED
    BY <1>1, <2>1, Adding
<1>3. s \in DOMAIN events' \ DOMAIN events /\ \A k \in DOMAIN events' : k <= s /\ (k \in DOMAIN events \/ k = s)
  BY <1>2
<1>4. events'[s].ev = "finished"
  BY <1>2
<1> HIDE DEF s
<1> QED
  BY <1>1, <1>2, <1>3, <1>4, SentStep

LEMMA OffersKept ==
    ASSUME TypeOK, TypeOK', OfferInv, TableKeyed, [Next]_vars
    PROVE  OfferInv'
<1> USE DEF clientVars, offerVars, serverVars, ownerVars
<1>1. CASE OnDataOffer
  BY <1>1, DataOfferStep
<1>2. ASSUME NEW kind \in Kinds, OnSelection(kind) PROVE OfferInv'
  BY <1>2, SelectionStep
<1>3. CASE OnFinished
  BY <1>3, FinishedStep
<1>4. CASE OnCancelled
  <2>1. Take("cancelled") /\ Head(events).source \in Source
    BY <1>4, EventTaken, EventKinds DEF OnCancelled, Aside
  <2>2. /\ [op |-> "destroy_source", source |-> Head(events).source] \in Request
        /\ [op |-> "destroy_source", source |-> Head(events).source].op # "destroy_offer"
    BY <2>1, Requesting
  <2>3. \/ requests' = requests
        \/ \E m \in Request : m.op # "destroy_offer" /\ requests' = Append(requests, m)
    BY <1>4, <2>2 DEF OnCancelled
  <2>4. /\ UNCHANGED <<handlers, device, offers, current, appgone, resources, chosen, finished, rejected>>
        /\ Running
        /\ raised' \ {"no source", "fd"} = raised \ {"no source", "fd"}
    BY <1>4 DEF OnCancelled, Take, Running
  <2> QED
    BY <2>1, <2>3, <2>4, OffersAside DEF OfferInv, DestroyedOnce
<1>5. CASE OnSend
  <2>1. /\ Take("send") /\ requests' = requests /\ Running
        /\ UNCHANGED <<handlers, device, offers, current, appgone, resources, chosen, finished, rejected>>
        /\ raised' \ {"no source", "fd"} = raised \ {"no source", "fd"}
    BY <1>5 DEF OnSend, Take, Running
  <2> QED
    BY <2>1, OffersAside DEF OfferInv, DestroyedOnce
<1>6. ASSUME NEW o \in Offer, AppDestroy(o) PROVE OfferInv'
  BY <1>6, AppDestroyStep
<1>7. ASSUME NEW m \in Request, m.op # "destroy_offer", requests' = Append(requests, m),
             UNCHANGED <<handlers, device, offers, current, appgone, resources, chosen, finished,
                         rejected, raised, events>>
      PROVE  OfferInv'
  <2>1. Running' => Running
    BY <1>7 DEF Running
  <2> QED
    BY <1>7, <2>1, OffersAside DEF OfferInv, DestroyedOnce
<1>8. ASSUME NEW s \in Source, CreateSource(s) \/ DestroySource(s) PROVE OfferInv'
  <2>1. PICK m \in Request : m.op # "destroy_offer" /\ requests' = Append(requests, m)
    <3>1. /\ [op |-> "create_source", source |-> s] \in Request
          /\ [op |-> "create_source", source |-> s].op # "destroy_offer"
          /\ [op |-> "destroy_source", source |-> s] \in Request
          /\ [op |-> "destroy_source", source |-> s].op # "destroy_offer"
      BY Requesting
    <3> QED
      BY <1>8, <3>1 DEF CreateSource, DestroySource
  <2> QED
    BY <1>7, <1>8, <2>1 DEF CreateSource, DestroySource
<1>9. ASSUME NEW kind \in Kinds, NEW s \in Source \cup {None}, SetOwn(kind, s) PROVE OfferInv'
  <2>1. PICK m \in Request : m.op # "destroy_offer" /\ requests' = Append(requests, m)
    <3>1. /\ [op |-> kind, source |-> s] \in Request
          /\ [op |-> kind, source |-> s].op # "destroy_offer"
      BY Requesting
    <3> QED
      BY <1>9, <3>1 DEF SetOwn
  <2> QED
    BY <1>7, <1>9, <2>1 DEF SetOwn
<1>10. CASE ServeDestroyOffer
  BY <1>10, ServeDestroyStep
<1>11. ASSUME NEW op, op # "destroy_offer", TakeRequest(op), "offer" \notin rejected',
              UNCHANGED <<handlers, device, offers, current, appgone, resources, chosen, finished, raised>>,
              events' = events \/
                  \E a \in Seq(Event) : (\A k \in DOMAIN a : Aside(a[k])) /\ events' = events \o a
       PROVE  OfferInv'
  <2>1. Running' => Running
    BY <1>11 DEF Running
  <2> QED
    BY <1>11, <2>1, OffersAside
<1>12. CASE ServeDestroyDevice
  BY <1>11, <1>12 DEF ServeDestroyDevice, OfferInv, DestroyedOnce
<1>13. CASE ServeCreateSource
  BY <1>11, <1>13 DEF ServeCreateSource, OfferInv, DestroyedOnce
<1>14. CASE ServeDestroySource
  <2>1. TakeRequest("destroy_source") /\ "offer" \notin rejected'
    BY <1>14 DEF ServeDestroySource
  <2> QED
    BY <1>11, <1>14, <2>1 DEF ServeDestroySource
<1>15. ASSUME NEW kind \in Kinds, ServeSet(kind) PROVE OfferInv'
  <2>1. TakeRequest(kind) /\ "offer" \notin rejected' /\ kind # "destroy_offer"
    BY <1>15 DEF ServeSet
  <2>2. \/ events' = events
        \/ \E a \in Seq(Event) : (\A k \in DOMAIN a : Aside(a[k])) /\ events' = events \o a
    <3>1. Cancel(kind) \in Seq(Event) /\ \A k \in DOMAIN Cancel(kind) : Aside(Cancel(kind)[k])
      BY Cancelling, LenProperties DEF Aside, Cancel
    <3> QED
      BY <1>15, <3>1 DEF ServeSet
  <2> QED
    BY <1>11, <1>15, <2>1, <2>2 DEF ServeSet
<1>16. ASSUME NEW kind \in Kinds, NEW id \in OfferIds, Choose(kind, id) PROVE OfferInv'
  BY <1>16, ChooseStep
<1>17. ASSUME NEW kind \in Kinds, Clear(kind) PROVE OfferInv'
  <2>1. events' \in Seq(Event)
    BY DEF TypeOK
  <2> QED
    BY <1>17, <2>1, ClearStep
<1>18. CASE Finish
  <2>1. events' \in Seq(Event)
    BY DEF TypeOK
  <2> QED
    BY <1>18, <2>1, FinishStep
<1>19. ASSUME NEW kind \in Kinds, Paste(kind) PROVE OfferInv'
  <2> DEFINE e == [ev |-> "send", source |-> owner[kind]]
  <2>1. owner[kind] \in Source
    BY <1>19 DEF Paste, TypeOK
  <2>2. e \in Event /\ e.ev = "send"
    BY <2>1, Announcing
  <2>3. events' = Append(events, e) /\ events \in Seq(Event)
    BY <1>19, Messages DEF Paste
  <2> HIDE DEF e
  <2>4. <<e>> \in Seq(Event) /\ (\A k \in DOMAIN <<e>> : Aside(<<e>>[k])) /\ events' = events \o <<e>>
    BY <2>2, <2>3 DEF Aside
  <2>5. \E a \in Seq(Event) : (\A k \in DOMAIN a : Aside(a[k])) /\ events' = events \o a
    BY <2>4
  <2>6. /\ UNCHANGED <<handlers, device, offers, current, appgone, resources, chosen, finished, raised,
                       requests, rejected>>
        /\ (Running' => Running)
    BY <1>19 DEF Paste, Running
  <2> QED
    BY <2>5, <2>6, OffersAside DEF OfferInv, DestroyedOnce
<1>20. CASE UNCHANGED vars
  <2>1. /\ UNCHANGED <<handlers, device, offers, current, appgone, resources, chosen, finished, raised,
                       requests, rejected, events>>
        /\ (Running' => Running)
    BY <1>20 DEF vars, Running
  <2> QED
    BY <2>1, OffersAside DEF OfferInv, DestroyedOnce
<1> QED
  BY <1>1, <1>2, <1>3, <1>4, <1>5, <1>6, <1>8, <1>9, <1>10, <1>12, <1>13, <1>14, <1>15, <1>16,
     <1>17, <1>18, <1>19, <1>20
  DEF Next, Dispatch, Application, Serve, Compositor

LEMMA OffersInitially == Init => OfferInv
<1> SUFFICES ASSUME Init PROVE OfferInv
  OBVIOUS
<1>1. requests = <<>> /\ events = <<>> /\ DOMAIN requests = {} /\ DOMAIN events = {}
  BY DEF Init
<1>2. OffersAccounted /\ DestroyedOnce
  BY <1>1 DEF Init, OffersAccounted, DestroyedOnce, Introduced, Destroyed
<1>3. IntroducedOnce /\ EventsPaired /\ EndingLast
  BY <1>1 DEF Init, IntroducedOnce, EventsPaired, EndingLast
<1>4. TableFinite
  <2>1. DOMAIN offers = {}
    BY DEF Init
  <2> QED
    BY <2>1, FS_EmptySet DEF TableFinite
<1>5. PlacesFollow
  <2>1. Waiting = {}
    BY <1>1 DEF Waiting
  <2>2. Range(offers) = {} /\ Range(current) = {NoOffer}
    BY DEF Init, Range
  <2> QED
    BY <2>1, <2>2 DEF Init, PlacesFollow
<1>6. ChosenFollows /\ FailuresKnown
  BY <1>1 DEF Init, ChosenFollows, FailuresKnown
<1> QED
  BY <1>2, <1>3, <1>4, <1>5, <1>6 DEF OfferInv

-----------------------------------------------------------------------------
\* A step that leaves the client's offers alone and destroys none changes none of this.
LEMMA MeantStands ==
    ASSUME MeantInv, UNCHANGED <<handlers, device, offers, current, appgone, astray>>,
           Running' => Running, Waiting' \subseteq Waiting, resources \subseteq resources',
           \A k \in DOMAIN requests' : requests'[k].op = "destroy_offer" =>
               \E j \in DOMAIN requests : requests[j] = requests'[k]
    PROVE  MeantInv'
<1>1. TableKeyed' /\ AstrayKnown' /\ \A id : Clean(id)' <=> Clean(id)
  BY DEF MeantInv, TableKeyed, AstrayKnown, Clean
<1>2. DestroysMeant'
  <2> SUFFICES ASSUME NEW k \in DOMAIN requests', NEW d, d = requests'[k], d.op = "destroy_offer"
               PROVE  d.meant.id = d.id /\ (Clean(d.id)' => d.meant \in resources')
    BY DEF DestroysMeant, Clean
  <2>1. PICK j \in DOMAIN requests : requests[j] = requests'[k]
    OBVIOUS
  <2>2. /\ requests[j].meant.id = requests[j].id
        /\ Clean(requests[j].id) => requests[j].meant \in resources
    BY <2>1 DEF MeantInv, DestroysMeant
  <2> QED
    BY <1>1, <2>1, <2>2
<1>3. PlacesClean'
  <2>1. Range(current)' = Range(current)
    BY DEF Range
  <2> QED
    BY <1>1, <2>1 DEF MeantInv, PlacesClean
<1> QED
  BY <1>1, <1>2, <1>3 DEF MeantInv

\* Requests the client adds: each is for an offer the compositor has, if the application
\* has destroyed none of its id.
LEMMA MeantAdded ==
    ASSUME DestroysMeant, AstrayKnown, UNCHANGED <<resources, astray>>, appgone \subseteq appgone',
           \A k \in DOMAIN requests' :
              \/ k \in DOMAIN requests /\ requests'[k] = requests[k]
              \/ requests'[k].op # "destroy_offer"
              \/ \E o : requests'[k] = DestroyOffer(o) /\ (Clean(o.id)' => o \in resources)
    PROVE  DestroysMeant' /\ AstrayKnown'
<1>1. \A id : Clean(id)' => Clean(id)
  BY DEF Clean
<1>2. AstrayKnown'
  BY <1>1 DEF AstrayKnown, Clean
<1>3. DestroysMeant'
  <2> SUFFICES ASSUME NEW k \in DOMAIN requests', NEW d, d = requests'[k], d.op = "destroy_offer"
               PROVE  d.meant.id = d.id /\ (Clean(d.id)' => d.meant \in resources')
    BY DEF DestroysMeant, Clean
  <2>1. CASE k \in DOMAIN requests /\ requests'[k] = requests[k]
    BY <1>1, <2>1 DEF DestroysMeant
  <2>2. CASE \E o : requests'[k] = DestroyOffer(o) /\ (Clean(o.id)' => o \in resources)
    <3>1. PICK o : requests'[k] = DestroyOffer(o) /\ (Clean(o.id)' => o \in resources)
      BY <2>2
    <3>2. d.meant = o /\ d.id = o.id
      BY <3>1 DEF DestroyOffer
    <3> QED
      BY <3>1, <3>2
  <2> QED
    BY <2>1, <2>2
<1> QED
  BY <1>2, <1>3

LEMMA DataOfferMeant ==
    ASSUME TypeOK, OfferInv, MeantInv, OnDataOffer
    PROVE  MeantInv'
<1> DEFINE o == events[1].offer
<1>1. /\ Take("data_offer") /\ Head(events) = events[1] /\ Running /\ 1 \in DOMAIN events
      /\ events[1].ev = "data_offer" /\ o \in Offer
  BY EventTaken, EventKinds DEF OnDataOffer
<1>2. device
  BY <1>1 DEF OfferInv, EndingLast, Aside
<1>3. Introduced(o)
  BY <1>1 DEF Introduced, Introduces
<1>4. o \notin handlers /\ ~Attached(o.id)
  BY <1>1, <1>3 DEF OfferInv, OffersAccounted, Attached
<1>5. /\ handlers' = handlers \cup {o} /\ offers' = With(offers, o.id, o)
      /\ UNCHANGED <<device, current, raised, requests, appgone, resources, astray, finished>>
  BY <1>1, <1>4 DEF OnDataOffer, serverVars
<1>6. Waiting' = {o}
  BY <1>1, <1>5, EventsTail DEF OfferInv
<1> HIDE DEF o
<1>7. /\ DOMAIN offers' = DOMAIN offers \cup {o.id} /\ offers'[o.id] = o
      /\ \A id \in DOMAIN offers : id # o.id => offers'[id] = offers[id]
  BY <1>5 DEF With
<1>8. TableKeyed'
  BY <1>7 DEF MeantInv, TableKeyed
<1>9. \A id : Clean(id)' <=> Clean(id)
  BY <1>5 DEF Clean
<1>10. DestroysMeant' /\ AstrayKnown'
  BY <1>5, <1>9 DEF MeantInv, DestroysMeant, AstrayKnown, Clean
<1>11. PlacesClean'
  <2>1. Range(current)' = Range(current)
    BY <1>5 DEF Range
  <2>2. /\ \A id \in DOMAIN offers : Clean(id) => offers[id] \in handlers
        /\ \A kind \in Kinds : current[kind] # NoOffer /\ Clean(current[kind].id) =>
             current[kind] \in handlers
        /\ current["selection"] = current["primary"] /\ current["primary"] # NoOffer =>
             ~Clean(current["primary"].id)
    BY <1>1, <1>2 DEF MeantInv, PlacesClean
  <2>3. Clean(o.id) => o \notin Range(current)
    <3> SUFFICES ASSUME Clean(o.id), o \in Range(current) PROVE FALSE
      OBVIOUS
    <3>1. PICK kind \in Kinds : current[kind] = o
      BY DEF Range, TypeOK
    <3>2. o # NoOffer
      BY <1>1, OffersAssumption DEF o
    <3> QED
      BY <1>4, <2>2, <3>1, <3>2
  <2>4. \A id \in DOMAIN offers' : Clean(id) => offers'[id] \in handlers'
    BY <1>5, <1>7, <2>2
  <2> QED
    BY <1>5, <1>6, <1>9, <2>1, <2>2, <2>3, <2>4 DEF PlacesClean
<1> QED
  BY <1>8, <1>10, <1>11 DEF MeantInv

\* A selection that is replaced is destroyed where the client has its handler.
LEMMA SelectionMeant ==
    ASSUME TypeOK, OfferInv, MeantInv, NEW kind \in Kinds, OnSelection(kind)
    PROVE  MeantInv'
<1> DEFINE o == events[1].offer
           old == current[kind]
           other == IF kind = "selection" THEN "primary" ELSE "selection"
<1>1. /\ Take(kind) /\ Head(events) = events[1] /\ Running /\ 1 \in DOMAIN events /\ events[1].ev = kind
      /\ o \in Offer \cup {NoOffer}
      /\ UNCHANGED <<appgone, resources, finished, astray>>
  BY EventTaken, EventKinds DEF OnSelection, serverVars
<1>2. /\ old \in Offer \cup {NoOffer} /\ Kinds = {kind, other} /\ other # kind
      /\ current \in [Kinds -> Offer \cup {NoOffer}]
  BY DEF TypeOK
<1>3. \/ Fail("invalid")
      \/ o = NoOffer /\ SetSelection(kind, NoOffer)
      \/ o # NoOffer /\ o.id \in DOMAIN offers /\ SetSelection(kind, offers[o.id])
  BY <1>1 DEF OnSelection
<1>4. device' = device /\ device
  BY <1>1, <1>3 DEF OfferInv, EndingLast, Aside, Fail, SetSelection
<1>5. Waiting = (IF o = NoOffer THEN {} ELSE {o}) /\ Waiting' = {}
  <2>1. NamesOffer(events[1]) <=> o # NoOffer
    BY <1>1 DEF NamesOffer
  <2> QED
    BY <1>1, <1>4, <2>1, EventsTail DEF OfferInv
<1> HIDE DEF o, other, old
<1>6. /\ \A id \in DOMAIN offers : Clean(id) => offers[id] \in handlers
      /\ \A x \in Kinds : current[x] # NoOffer /\ Clean(current[x].id) => current[x] \in handlers
      /\ current["selection"] = current["primary"] /\ current["primary"] # NoOffer =>
           ~Clean(current["primary"].id)
      /\ o # NoOffer /\ Clean(o.id) => o \in handlers \ Range(current)
  BY <1>1, <1>4, <1>5 DEF MeantInv, PlacesClean
<1>7. \A id : Clean(id)' <=> Clean(id)
  BY <1>1 DEF Clean
<1>8. TableKeyed'
  BY <1>3 DEF Fail, SetSelection, Without, Restrict, MeantInv, TableKeyed
<1>9. handlers \subseteq resources /\ \A g, h \in handlers : g.id = h.id => g = h
  BY DEF OfferInv, OffersAccounted
<1>10. DestroysMeant' /\ AstrayKnown'
  <2>1. \/ requests' = requests
        \/ old # NoOffer /\ requests' = Append(requests, DestroyOffer(old))
    BY <1>3 DEF Fail, SetSelection, old
  <2>2. CASE requests' = requests
    BY <1>1, <1>7, <2>2 DEF MeantInv, DestroysMeant, AstrayKnown, Clean
  <2>3. CASE old # NoOffer /\ requests' = Append(requests, DestroyOffer(old))
    <3>1. /\ DOMAIN requests' = 1..(Len(requests) + 1) /\ Len(requests) \in Nat
          /\ DOMAIN requests = 1..Len(requests)
          /\ \A k \in DOMAIN requests : requests'[k] = requests[k]
          /\ requests'[Len(requests) + 1] = DestroyOffer(old)
      BY <1>2, <2>3, Requesting, RequestAdded
    <3>2. \A k \in DOMAIN requests' : k \in DOMAIN requests \/ k = Len(requests) + 1
      BY <3>1
    <3>3. Clean(old.id) => old \in resources
      BY <1>6, <1>9, <2>3 DEF old
    <3>4. PICK d : d = old
      OBVIOUS
    <3>5. requests'[Len(requests) + 1] = DestroyOffer(d) /\ (Clean(d.id)' => d \in resources)
      BY <1>7, <3>1, <3>3, <3>4
    <3>6. DestroysMeant /\ AstrayKnown
      BY DEF MeantInv
    <3> QED
      BY <1>1, <3>1, <3>2, <3>5, <3>6, MeantAdded
  <2> QED
    BY <2>1, <2>2, <2>3
<1>11. CASE Running'
  <2>1. PICK p \in Offer \cup {NoOffer} :
           /\ SetSelection(kind, p)
           /\ p # NoOffer => o # NoOffer /\ o.id \in DOMAIN offers /\ p = offers[o.id]
    <3>1. Running /\ (Fail("invalid") => ~Running')
      BY <1>1 DEF Fail, Running
    <3>2. o # NoOffer /\ o.id \in DOMAIN offers => offers[o.id] \in Offer
      BY DEF TypeOK
    <3> QED
      BY <1>3, <1>11, <3>1, <3>2
  <2>2. p # NoOffer => p.id = o.id
    BY <2>1 DEF MeantInv, TableKeyed
  <2>3. p # NoOffer /\ Clean(p.id) => p \in handlers \ Range(current)
    BY <1>6, <1>9, <2>1, <2>2
  <2>4. /\ current' = [current EXCEPT ![kind] = p]
        /\ old = NoOffer => handlers' = handlers /\ offers' = offers
        /\ old # NoOffer => handlers' = WithoutHandlers({old.id}) /\ offers' = Without(offers, old.id)
    BY <1>11, <2>1 DEF SetSelection, Fail, Running, old
  <2>5. current'[kind] = p /\ current'[other] = current[other]
    BY <1>2, <2>4
  <2>6. \A h \in handlers : old = NoOffer \/ h.id # old.id => h \in handlers'
    BY <2>4 DEF WithoutHandlers
  <2>7. old \in Range(current) /\ current[other] \in Range(current)
    BY <1>2 DEF Range, old
  <2>8. old # NoOffer /\ Clean(old.id) => old \in handlers
    BY <1>6 DEF old
  <2>9. ASSUME NEW id \in DOMAIN offers', Clean(id) PROVE offers'[id] \in handlers'
    <3>1. id \in DOMAIN offers /\ offers'[id] = offers[id] /\ (old = NoOffer \/ id # old.id)
      BY <2>4 DEF Without, Restrict
    <3>2. offers[id] \in handlers /\ offers[id].id = id
      BY <1>6, <2>9, <3>1 DEF MeantInv, TableKeyed
    <3> QED
      BY <2>6, <3>1, <3>2
  <2>10. p # NoOffer /\ Clean(p.id) => p \in handlers' /\ p # current[other]
    <3> SUFFICES ASSUME p # NoOffer, Clean(p.id) PROVE p \in handlers' /\ p # current[other]
      OBVIOUS
    <3>1. p \in handlers /\ p # old /\ p # current[other]
      BY <2>3, <2>7
    <3>2. old # NoOffer => p.id # old.id
      BY <1>9, <2>8, <3>1
    <3> QED
      BY <2>6, <3>1, <3>2
  <2>11. current[other] # NoOffer /\ Clean(current[other].id) => current[other] \in handlers'
    <3> SUFFICES ASSUME current[other] # NoOffer, Clean(current[other].id)
                 PROVE  current[other] \in handlers'
      OBVIOUS
    <3>1. current[other] \in handlers
      BY <1>2, <1>6
    <3>2. old # current[other]
      BY <1>2, <1>6 DEF old
    <3>3. old # NoOffer => current[other].id # old.id
      BY <1>9, <2>8, <3>1, <3>2
    <3> QED
      BY <2>6, <3>1, <3>3
  <2>12. \A x \in Kinds : current'[x] # NoOffer /\ Clean(current'[x].id) => current'[x] \in handlers'
    BY <1>2, <2>5, <2>10, <2>11
  <2>13. current'["selection"] = current'["primary"] /\ current'["primary"] # NoOffer =>
            ~Clean(current'["primary"].id)
    BY <1>2, <2>5, <2>10
  <2>14. PlacesClean'
    BY <1>5, <1>7, <2>9, <2>12, <2>13 DEF PlacesClean
  <2> QED
    BY <1>8, <1>10, <2>14 DEF MeantInv
<1>12. CASE ~Running'
  BY <1>8, <1>10, <1>12 DEF MeantInv, PlacesClean
<1> QED
  BY <1>11, <1>12

LEMMA FinishedMeant ==
    ASSUME TypeOK, OfferInv, MeantInv, OnFinished
    PROVE  MeantInv'
<1>1. /\ Running /\ events[1].ev = "finished" /\ 1 \in DOMAIN events
      /\ UNCHANGED <<current, appgone, resources, astray>>
  BY EventTaken DEF OnFinished, serverVars
<1>2. PICK n \in Nat : \E m \in 0..n : \E order \in [1..n -> DOMAIN offers] : EndsAfter(n, m, order)
  BY DeviceEnded DEF OfferInv
<1>3. PICK m \in 0..n, order \in [1..n -> DOMAIN offers] : EndsAfter(n, m, order)
  BY <1>2
<1>4. /\ \A k \in DOMAIN requests : requests'[k] = requests[k]
      /\ \A k \in 1..m : requests'[Len(requests) + k] = DestroyOffer(offers[order[k]])
      /\ \/ DOMAIN requests' = 1..(Len(requests) + m)
         \/ /\ DOMAIN requests' = 1..(Len(requests) + m + 1)
            /\ requests'[Len(requests) + m + 1] = [op |-> "destroy_device"]
      /\ \/ raised' = {"not attached"} /\ offers' = offers
         \/ offers' = <<>> /\ device' = FALSE
  BY <1>3, Zenon DEF EndsAfter
<1>5. device
  BY <1>1 DEF OfferInv, EndingLast, Aside
<1>6. \A k \in 1..m : order[k] \in DOMAIN offers /\ offers[order[k]].id = order[k]
  <2>1. \A k \in 1..m : k \in 1..n
    BY <1>2
  <2> QED
    BY <2>1 DEF MeantInv, TableKeyed
<1>7. \A k \in 1..m : Clean(order[k])' => offers[order[k]] \in resources
  <2>1. \A id \in DOMAIN offers : Clean(id) => offers[id] \in handlers
    BY <1>1, <1>5 DEF MeantInv, PlacesClean
  <2>2. handlers \subseteq resources /\ \A id : Clean(id)' <=> Clean(id)
    BY <1>1 DEF OfferInv, OffersAccounted, Clean
  <2> QED
    BY <1>6, <2>1, <2>2
<1>8. DestroysMeant' /\ AstrayKnown'
  <2>1. Len(requests) \in Nat /\ DOMAIN requests = 1..Len(requests)
    BY Messages
  <2>2. ASSUME NEW k \in DOMAIN requests', k \notin DOMAIN requests, requests'[k].op = "destroy_offer"
        PROVE  \E o : requests'[k] = DestroyOffer(o) /\ (Clean(o.id)' => o \in resources)
    <3>1. DOMAIN requests' = 1..(Len(requests) + m)
          \/ /\ DOMAIN requests' = 1..(Len(requests) + m + 1)
             /\ requests'[Len(requests) + m + 1].op = "destroy_device"
      <4>1. [op |-> "destroy_device"].op = "destroy_device"
        OBVIOUS
      <4>2. \/ DOMAIN requests' = 1..(Len(requests) + m)
            \/ /\ DOMAIN requests' = 1..(Len(requests) + m + 1)
               /\ requests'[Len(requests) + m + 1] = [op |-> "destroy_device"]
        BY <1>4, Zenon
      <4> QED
        BY <4>1, <4>2
    <3>2. \/ DOMAIN requests' = 1..(Len(requests) + m)
          \/ DOMAIN requests' = 1..(Len(requests) + m + 1) /\ k # Len(requests) + m + 1
      BY <2>2, <3>1
    <3>3. k - Len(requests) \in 1..m /\ k = Len(requests) + (k - Len(requests))
      <4>1. m \in Nat /\ k \in Nat
        BY <1>2, <2>1, <3>2
      <4> QED
        BY <2>1, <2>2, <3>2, <4>1
    <3>4. PICK i \in 1..m : k = Len(requests) + i
      BY <3>3
    <3> QED
      BY <1>4, <1>6, <1>7, <3>4
  <2>3. DestroysMeant /\ AstrayKnown
    BY DEF MeantInv
  <2>4. \A k \in DOMAIN requests' :
           \/ k \in DOMAIN requests /\ requests'[k] = requests[k]
           \/ requests'[k].op # "destroy_offer"
           \/ \E o : requests'[k] = DestroyOffer(o) /\ (Clean(o.id)' => o \in resources)
    BY <1>4, <2>2
  <2> QED
    BY <1>1, <2>3, <2>4, MeantAdded
<1>9. TableKeyed'
  <2>1. DOMAIN <<>> = {}
    OBVIOUS
  <2> QED
    BY <1>4, <2>1 DEF MeantInv, TableKeyed
<1>10. PlacesClean'
  BY <1>4 DEF PlacesClean, Running
<1> QED
  BY <1>8, <1>9, <1>10 DEF MeantInv

LEMMA AppDestroyMeant ==
    ASSUME TypeOK, OfferInv, MeantInv, NEW o \in Offer, AppDestroy(o)
    PROVE  MeantInv'
<1>1. /\ Running /\ handlers' = WithoutHandlers({o.id}) /\ appgone' = appgone \cup {o}
      /\ requests' = Append(requests, DestroyOffer(o))
      /\ UNCHANGED <<device, offers, current, resources, astray, events>>
  BY DEF AppDestroy, serverVars
<1>2. /\ DOMAIN requests = 1..Len(requests) /\ Len(requests) \in Nat
      /\ DOMAIN requests' = 1..(Len(requests) + 1)
      /\ \A k \in DOMAIN requests : requests'[k] = requests[k]
      /\ requests'[Len(requests) + 1] = DestroyOffer(o)
  BY <1>1, Requesting, RequestAdded
<1>3. \A id : Clean(id)' <=> Clean(id) /\ id # o.id
  BY <1>1 DEF Clean
<1>4. DestroysMeant' /\ AstrayKnown'
  <2>1. \A k \in DOMAIN requests' : k \in DOMAIN requests \/ k = Len(requests) + 1
    BY <1>2
  <2>2. DestroysMeant /\ AstrayKnown
    BY DEF MeantInv
  <2> QED
    BY <1>1, <1>2, <1>3, <2>1, <2>2, MeantAdded
<1>5. TableKeyed'
  BY <1>1 DEF MeantInv, TableKeyed
<1>6. PlacesClean'
  <2> SUFFICES ASSUME device
               PROVE  /\ \A id \in DOMAIN offers : Clean(id)' => offers[id] \in handlers'
                      /\ \A kind \in Kinds : current[kind] # NoOffer /\ Clean(current[kind].id)' =>
                           current[kind] \in handlers'
                      /\ current["selection"] = current["primary"] /\ current["primary"] # NoOffer =>
                           ~Clean(current["primary"].id)'
                      /\ \A p \in Waiting' : Clean(p.id)' => p \in handlers' \ Range(current)'
    BY <1>1 DEF PlacesClean, Clean
  <2>1. /\ \A id \in DOMAIN offers : Clean(id) => offers[id] \in handlers
        /\ \A kind \in Kinds : current[kind] # NoOffer /\ Clean(current[kind].id) =>
             current[kind] \in handlers
        /\ current["selection"] = current["primary"] /\ current["primary"] # NoOffer =>
             ~Clean(current["primary"].id)
        /\ \A p \in Waiting : Clean(p.id) => p \in handlers \ Range(current)
    BY <1>1 DEF MeantInv, PlacesClean
  <2>2. \A h \in handlers : h.id # o.id => h \in handlers'
    BY <1>1 DEF WithoutHandlers
  <2>3. Waiting' = Waiting /\ Range(current)' = Range(current)
    BY <1>1 DEF Waiting, NamesOffer, Range
  <2>4. \A id \in DOMAIN offers : offers[id].id = id
    BY DEF MeantInv, TableKeyed
  <2> QED
    BY <1>1, <1>3, <2>1, <2>2, <2>3, <2>4
<1> QED
  BY <1>4, <1>5, <1>6 DEF MeantInv

\* The compositor ends the offer that was meant, if the application destroyed none of
\* its id: there is one offer of an id.
LEMMA ServeDestroyMeant ==
    ASSUME TypeOK, OfferInv, MeantInv, ServeDestroyOffer
    PROVE  MeantInv'
<1> DEFINE m == requests[1]
<1>1. /\ TakeRequest("destroy_offer") /\ Head(requests) = m /\ 1 \in DOMAIN requests
      /\ m.op = "destroy_offer" /\ m.id \in OfferIds
      /\ resources' = {r \in resources : r.id # m.id}
      /\ astray' = astray \cup {r \in resources : r.id = m.id /\ r # m.meant}
      /\ UNCHANGED <<handlers, device, offers, current, appgone, raised, events>>
  BY RequestTaken, RequestKinds DEF ServeDestroyOffer, clientVars, offerVars
<1>2. \A k \in DOMAIN requests' : /\ k + 1 \in DOMAIN requests /\ k + 1 # 1
                                  /\ requests'[k] = requests[k + 1] /\ requests[k + 1] \in Request
  <2>1. /\ DOMAIN requests' = 1..(Len(requests) - 1) /\ Len(requests) \in Nat
        /\ \A k \in DOMAIN requests' : k + 1 \in DOMAIN requests /\ requests'[k] = requests[k + 1]
    BY <1>1, RequestTaken
  <2>2. \A k \in DOMAIN requests' : k + 1 # 1
    BY <2>1
  <2> QED
    BY <2>1, <2>2, Messages
<1> HIDE DEF m
<1>3. \A id : Clean(id)' <=> Clean(id)
  BY <1>1 DEF Clean
<1>4. DestroysMeant'
  <2> SUFFICES ASSUME NEW k \in DOMAIN requests', NEW d, d = requests'[k], d.op = "destroy_offer"
               PROVE  d.meant.id = d.id /\ (Clean(d.id)' => d.meant \in resources')
    BY DEF DestroysMeant, Clean
  <2>1. /\ requests[k + 1].meant.id = requests[k + 1].id
        /\ Clean(requests[k + 1].id) => requests[k + 1].meant \in resources
    BY <1>2 DEF MeantInv, DestroysMeant
  <2>2. requests[k + 1].id # m.id
    BY <1>1, <1>2, RequestKinds DEF OfferInv, DestroyedOnce, Destroys, m
  <2> QED
    BY <1>1, <1>2, <1>3, <2>1, <2>2
<1>5. AstrayKnown'
  <2>1. ASSUME NEW r \in resources, r.id = m.id, r # m.meant PROVE ~Clean(r.id)
    <3>1. m.meant.id = m.id /\ (Clean(m.id) => m.meant \in resources)
      BY <1>1 DEF MeantInv, DestroysMeant, m
    <3> QED
      BY <2>1, <3>1 DEF OfferInv, OffersAccounted
  <2> QED
    BY <1>1, <1>3, <2>1 DEF MeantInv, AstrayKnown
<1>6. TableKeyed' /\ PlacesClean'
  <2>1. Waiting' = Waiting /\ Range(current)' = Range(current) /\ (Running' <=> Running)
    BY <1>1 DEF Waiting, NamesOffer, Range, Running
  <2> QED
    BY <1>1, <1>3, <2>1 DEF MeantInv, TableKeyed, PlacesClean
<1> QED
  BY <1>4, <1>5, <1>6 DEF MeantInv

\* The steps that destroy and introduce no offer on the client's side.
LEMMA DestroysStand ==
    ASSUME TypeOK,
           \/ requests' = requests
           \/ \E m \in Request : m.op # "destroy_offer" /\ requests' = Append(requests, m)
           \/ \E op : TakeRequest(op)
    PROVE  \A k \in DOMAIN requests' : requests'[k].op = "destroy_offer" =>
               \E j \in DOMAIN requests : requests[j] = requests'[k]
<1>1. CASE requests' = requests
  BY <1>1
<1>2. ASSUME NEW m \in Request, m.op # "destroy_offer", requests' = Append(requests, m),
             NEW k \in DOMAIN requests', requests'[k].op = "destroy_offer"
      PROVE  \E j \in DOMAIN requests : requests[j] = requests'[k]
  <2>1. /\ Len(requests) \in Nat /\ DOMAIN requests = 1..Len(requests)
        /\ DOMAIN requests' = 1..(Len(requests) + 1)
        /\ \A j \in DOMAIN requests : requests'[j] = requests[j]
        /\ requests'[Len(requests) + 1] = m
    BY <1>2, RequestAdded
  <2>2. k \in DOMAIN requests \/ k = Len(requests) + 1
    BY <2>1
  <2> QED
    BY <1>2, <2>1, <2>2
<1>3. ASSUME NEW op, TakeRequest(op), NEW k \in DOMAIN requests'
      PROVE  \E j \in DOMAIN requests : requests[j] = requests'[k]
  BY <1>3, RequestTaken
<1> QED
  BY <1>1, <1>2, <1>3

\* The offer named by the next event stays the same while events are added that do not
\* name one at once.
LEMMA WaitingStands ==
    ASSUME TypeOK, \A k \in DOMAIN events : k \in DOMAIN events' /\ events'[k] = events[k],
           1 \in DOMAIN events' /\ 1 \notin DOMAIN events => ~NamesOffer(events'[1])
    PROVE  Waiting' \subseteq Waiting
BY DEF Waiting, NamesOffer

LEMMA MeantKept ==
    ASSUME TypeOK, OfferInv, MeantInv, [Next]_vars
    PROVE  MeantInv'
<1> USE DEF clientVars, offerVars, serverVars, ownerVars
<1>1. CASE OnDataOffer
  BY <1>1, DataOfferMeant
<1>2. ASSUME NEW kind \in Kinds, OnSelection(kind) PROVE MeantInv'
  BY <1>2, SelectionMeant
<1>3. CASE OnFinished
  BY <1>3, FinishedMeant
<1>4. ASSUME NEW t \in {"cancelled", "send"}, Take(t), UNCHANGED <<device, finished>>
      PROVE  Waiting' \subseteq Waiting
  BY <1>4, EventsTail DEF OfferInv
<1>5. ASSUME events' = events PROVE Waiting' \subseteq Waiting
  BY <1>5 DEF Waiting, NamesOffer
<1>6. CASE OnCancelled
  <2>1. Take("cancelled") /\ Head(events).source \in Source
    BY <1>6, EventTaken, EventKinds DEF OnCancelled, Aside
  <2>2. /\ [op |-> "destroy_source", source |-> Head(events).source] \in Request
        /\ [op |-> "destroy_source", source |-> Head(events).source].op # "destroy_offer"
    BY <2>1, Requesting
  <2>3. \/ requests' = requests
        \/ \E m \in Request : m.op # "destroy_offer" /\ requests' = Append(requests, m)
    BY <1>6, <2>2 DEF OnCancelled
  <2>4. UNCHANGED <<handlers, device, offers, current, appgone, resources, astray, finished>> /\ Running
    BY <1>6 DEF OnCancelled, Take
  <2> QED
    BY <1>4, <2>1, <2>3, <2>4, DestroysStand, MeantStands
<1>7. CASE OnSend
  <2>1. /\ Take("send") /\ requests' = requests /\ Running
        /\ UNCHANGED <<handlers, device, offers, current, appgone, resources, astray, finished>>
    BY <1>7 DEF OnSend, Take
  <2> QED
    BY <1>4, <2>1, DestroysStand, MeantStands
<1>8. ASSUME NEW o \in Offer, AppDestroy(o) PROVE MeantInv'
  BY <1>8, AppDestroyMeant
<1>9. ASSUME NEW m \in Request, m.op # "destroy_offer", requests' = Append(requests, m),
             UNCHANGED <<handlers, device, offers, current, appgone, resources, astray, raised, events>>
      PROVE  MeantInv'
  BY <1>5, <1>9, DestroysStand, MeantStands DEF Running
<1>10. ASSUME NEW s \in Source, CreateSource(s) \/ DestroySource(s) PROVE MeantInv'
  <2>1. PICK m \in Request : m.op # "destroy_offer" /\ requests' = Append(requests, m)
    <3>1. /\ [op |-> "create_source", source |-> s] \in Request
          /\ [op |-> "create_source", source |-> s].op # "destroy_offer"
          /\ [op |-> "destroy_source", source |-> s] \in Request
          /\ [op |-> "destroy_source", source |-> s].op # "destroy_offer"
      BY Requesting
    <3> QED
      BY <1>10, <3>1 DEF CreateSource, DestroySource
  <2> QED
    BY <1>9, <1>10, <2>1 DEF CreateSource, DestroySource
<1>11. ASSUME NEW kind \in Kinds, NEW s \in Source \cup {None}, SetOwn(kind, s) PROVE MeantInv'
  <2>1. PICK m \in Request : m.op # "destroy_offer" /\ requests' = Append(requests, m)
    <3>1. /\ [op |-> kind, source |-> s] \in Request
          /\ [op |-> kind, source |-> s].op # "destroy_offer"
      BY Requesting
    <3> QED
      BY <1>11, <3>1 DEF SetOwn
  <2> QED
    BY <1>9, <1>11, <2>1 DEF SetOwn
<1>12. CASE ServeDestroyOffer
  BY <1>12, ServeDestroyMeant
<1>13. ASSUME NEW op, TakeRequest(op), Waiting' \subseteq Waiting,
              UNCHANGED <<handlers, device, offers, current, appgone, resources, astray, raised>>
       PROVE  MeantInv'
  BY <1>13, DestroysStand, MeantStands DEF Running
<1>14. CASE ServeDestroyDevice
  BY <1>5, <1>13, <1>14 DEF ServeDestroyDevice
<1>15. CASE ServeCreateSource
  BY <1>5, <1>13, <1>15 DEF ServeCreateSource
<1>16. CASE ServeDestroySource
  BY <1>5, <1>13, <1>16 DEF ServeDestroySource
<1>17. ASSUME NEW kind \in Kinds, ServeSet(kind) PROVE MeantInv'
  <2>1. Cancel(kind) \in Seq(Event) /\ \A k \in DOMAIN Cancel(kind) : Aside(Cancel(kind)[k])
    BY Cancelling, LenProperties DEF Aside, Cancel
  <2>2. /\ events' = events \/ events' = events \o Cancel(kind)
        /\ UNCHANGED <<device, finished>>
    BY <1>17 DEF ServeSet
  <2>3. Waiting' \subseteq Waiting
    BY <1>5, <2>1, <2>2, EventsMore DEF OfferInv
  <2> QED
    BY <1>13, <1>17, <2>3 DEF ServeSet
<1>18. ASSUME Waiting' \subseteq Waiting, resources \subseteq resources',
              UNCHANGED <<handlers, device, offers, current, appgone, astray, raised, requests>>
       PROVE  MeantInv'
  BY <1>18, DestroysStand, MeantStands DEF Running
<1>19. ASSUME NEW kind \in Kinds, NEW id \in OfferIds, Choose(kind, id) PROVE MeantInv'
  <2>1. PICK o : o = [id |-> id, gen |-> gens + 1]
    OBVIOUS
  <2>2. PICK c \in {0, 1} :
           /\ DOMAIN events' = 1..(Len(events) + c + 2)
           /\ \A k \in DOMAIN events : k \in DOMAIN events' /\ events'[k] = events[k]
           /\ c = 1 => owner[kind] # None /\ IsCancel(events'[Len(events) + 1], owner[kind])
           /\ events'[Len(events) + c + 1] = [ev |-> "data_offer", offer |-> o]
           /\ events'[Len(events) + c + 2] = [ev |-> kind, offer |-> o]
           /\ \/ c = 0 /\ owner' = owner
              \/ owner' = [owner EXCEPT ![kind] = None] /\ (c = 0 => owner[kind] = None)
    BY <1>19, <2>1, ChooseSends
  <2>3. Len(events) \in Nat /\ DOMAIN events = 1..Len(events)
    BY Messages
  <2>4. 1 \notin DOMAIN events => ~NamesOffer(events'[1])
    <3> SUFFICES ASSUME 1 \notin DOMAIN events PROVE ~NamesOffer(events'[1])
      OBVIOUS
    <3>1. Len(events) = 0
      BY <2>3
    <3>2. events'[1].ev \in {"cancelled", "data_offer"}
      BY <2>2, <3>1 DEF IsCancel
    <3> QED
      BY <3>2 DEF NamesOffer
  <2>5. /\ resources \subseteq resources'
        /\ UNCHANGED <<handlers, device, offers, current, appgone, astray, raised, requests>>
    BY <1>19 DEF Choose
  <2> QED
    BY <1>18, <2>2, <2>4, <2>5, WaitingStands
<1>20. ASSUME NEW kind \in Kinds, Clear(kind) PROVE MeantInv'
  <2>1. PICK c \in {0, 1} :
           /\ \A k \in DOMAIN events : k \in DOMAIN events' /\ events'[k] = events[k]
           /\ c = 1 => IsCancel(events'[Len(events) + 1], owner[kind])
           /\ events'[Len(events) + c + 1] = [ev |-> kind, offer |-> NoOffer]
    BY <1>20, ClearSends
  <2>2. Len(events) \in Nat /\ DOMAIN events = 1..Len(events)
    BY Messages
  <2>3. 1 \notin DOMAIN events => ~NamesOffer(events'[1])
    <3> SUFFICES ASSUME 1 \notin DOMAIN events PROVE ~NamesOffer(events'[1])
      OBVIOUS
    <3>1. Len(events) = 0
      BY <2>2
    <3>2. events'[1].ev = "cancelled" \/ events'[1].offer = NoOffer
      BY <2>1, <3>1 DEF IsCancel
    <3> QED
      BY <3>2 DEF NamesOffer
  <2>4. UNCHANGED <<handlers, device, offers, current, appgone, resources, astray, raised, requests>>
    BY <1>20 DEF Clear
  <2> QED
    BY <1>18, <2>1, <2>3, <2>4, WaitingStands
<1>21. ASSUME NEW e \in Event, e.ev \in {"finished", "send"}, events' = Append(events, e),
              UNCHANGED <<handlers, device, offers, current, appgone, resources, astray, raised, requests>>
       PROVE  MeantInv'
  <2>1. events \in Seq(Event)
    BY Messages
  <2>2. /\ Len(events) \in Nat /\ DOMAIN events = 1..Len(events)
        /\ \A k \in DOMAIN events : k \in DOMAIN events' /\ events'[k] = events[k]
        /\ events'[Len(events) + 1] = e
    BY <1>21, <2>1, Adding
  <2>3. 1 \notin DOMAIN events => ~NamesOffer(events'[1])
    <3> SUFFICES ASSUME 1 \notin DOMAIN events PROVE ~NamesOffer(events'[1])
      OBVIOUS
    <3>1. events'[1] = e
      BY <2>2
    <3> QED
      BY <1>21, <3>1 DEF NamesOffer
  <2> QED
    BY <1>18, <1>21, <2>2, <2>3, WaitingStands
<1>22. CASE Finish
  <2>1. [ev |-> "finished"] \in Event
    BY Announcing
  <2> QED
    BY <1>21, <1>22, <2>1 DEF Finish
<1>23. ASSUME NEW kind \in Kinds, Paste(kind) PROVE MeantInv'
  <2>1. owner[kind] \in Source
    BY <1>23 DEF Paste, TypeOK
  <2>2. [ev |-> "send", source |-> owner[kind]] \in Event
    BY <2>1, Announcing
  <2> QED
    BY <1>21, <1>23, <2>2 DEF Paste
<1>24. CASE UNCHANGED vars
  BY <1>5, <1>18, <1>24 DEF vars
<1> QED
  BY <1>1, <1>2, <1>3, <1>6, <1>7, <1>8, <1>10, <1>11, <1>12, <1>14, <1>15, <1>16, <1>17,
     <1>19, <1>20, <1>22, <1>23, <1>24
  DEF Next, Dispatch, Application, Serve, Compositor

LEMMA MeantInitially == Init => MeantInv
<1> SUFFICES ASSUME Init PROVE MeantInv
  OBVIOUS
<1>1. DOMAIN requests = {} /\ DOMAIN events = {} /\ DOMAIN offers = {}
  BY DEF Init
<1>2. Waiting = {}
  BY <1>1 DEF Waiting
<1> QED
  BY <1>1, <1>2 DEF Init, MeantInv, TableKeyed, DestroysMeant, AstrayKnown, PlacesClean

-----------------------------------------------------------------------------
\* Whatever does not concern sources keeps the requests about them in their order, at
\* places that move by at most one.
AboutSource(m) == m.op \in {"create_source", "destroy_source"} \cup Kinds

LEMMA SourcesStand ==
    ASSUME TypeOK, TypeOK', SourcesAccounted,
           UNCHANGED <<listening, used, nsources, has_source>>, NEW i \in {0, 1},
           \A k \in DOMAIN requests' : AboutSource(requests'[k]) =>
              k + i \in DOMAIN requests /\ requests'[k] = requests[k + i],
           \A k \in DOMAIN requests : requests[k].op \in {"create_source", "destroy_source"} =>
              k - i \in DOMAIN requests' /\ requests'[k - i] = requests[k]
    PROVE  SourcesAccounted'
<1>1. \A s : \A k \in DOMAIN requests' :
        /\ Creates(requests'[k], s) => k + i \in DOMAIN requests /\ Creates(requests[k + i], s)
        /\ Ends(requests'[k], s) => k + i \in DOMAIN requests /\ Ends(requests[k + i], s)
        /\ Sets(requests'[k], s) => k + i \in DOMAIN requests /\ Sets(requests[k + i], s)
  BY DEF AboutSource, Creates, Ends, Sets
<1>2. \A s : \A k \in DOMAIN requests :
        /\ Creates(requests[k], s) => k - i \in DOMAIN requests' /\ Creates(requests'[k - i], s)
        /\ Ends(requests[k], s) => k - i \in DOMAIN requests' /\ Ends(requests'[k - i], s)
  BY DEF AboutSource, Creates, Ends
<1>3. /\ \A k \in DOMAIN requests : k \in Nat
      /\ \A k \in DOMAIN requests' : k \in Nat
  <2>1. requests \in Seq(Request) /\ requests' \in Seq(Request)
    BY DEF TypeOK
  <2> QED
    BY <2>1, LenProperties
<1>4. ASSUME NEW s, NEW k \in DOMAIN requests', k + i \in DOMAIN requests, Opened(s, k + i)
      PROVE  Opened(s, k)'
  <2>1. CASE s \in has_source
    BY <2>1 DEF Opened
  <2>2. CASE s \notin has_source
    <3>1. PICK j \in DOMAIN requests : j < k + i /\ Creates(requests[j], s)
      BY <1>4, <2>2 DEF Opened
    <3>2. j - i \in DOMAIN requests' /\ Creates(requests'[j - i], s) /\ j - i < k
      BY <1>2, <1>3, <3>1
    <3> QED
      BY <3>2 DEF Opened, Creates
  <2> QED
    BY <2>1, <2>2
<1>5. /\ listening' \subseteq Made' /\ used' \subseteq Made' /\ has_source' \subseteq Made'
      /\ Made' = Made
  BY DEF SourcesAccounted, Made
<1>6. ASSUME NEW s \in Made
      PROVE  s \in listening' <=>
                /\ s \in has_source' \/ \E k \in DOMAIN requests' : Creates(requests'[k], s)
                /\ \A k \in DOMAIN requests' : ~Ends(requests'[k], s)
  <2>1. (\E k \in DOMAIN requests' : Creates(requests'[k], s)) <=> \E k \in DOMAIN requests : Creates(requests[k], s)
    BY <1>1, <1>2
  <2>2. (\A k \in DOMAIN requests' : ~Ends(requests'[k], s)) <=> \A k \in DOMAIN requests : ~Ends(requests[k], s)
    BY <1>1, <1>2
  <2> QED
    BY <2>1, <2>2 DEF SourcesAccounted
<1>7. ASSUME NEW k \in DOMAIN requests', NEW s \in Source
      PROVE  /\ Creates(requests'[k], s) =>
                  /\ s \in Made \ has_source
                  /\ \A j \in DOMAIN requests' : Creates(requests'[j], s) => j = k
             /\ Ends(requests'[k], s) =>
                  /\ s \in Made /\ Opened(s, k)'
                  /\ \A j \in DOMAIN requests' : Ends(requests'[j], s) => j = k
             /\ Sets(requests'[k], s) =>
                  /\ s \in Made /\ Opened(s, k)'
                  /\ \A j \in DOMAIN requests' : Ends(requests'[j], s) => k < j
  <2>1. ASSUME Creates(requests'[k], s), NEW j \in DOMAIN requests', Creates(requests'[j], s)
        PROVE  s \in Made \ has_source /\ j = k
    <3>1. j + i = k + i /\ s \in Made \ has_source
      BY <1>1, <2>1 DEF SourcesAccounted
    <3> QED
      BY <1>3, <3>1
  <2>2. ASSUME Ends(requests'[k], s), NEW j \in DOMAIN requests', Ends(requests'[j], s)
        PROVE  s \in Made /\ Opened(s, k)' /\ j = k
    <3>1. j + i = k + i /\ s \in Made /\ Opened(s, k + i) /\ k + i \in DOMAIN requests
      BY <1>1, <2>2 DEF SourcesAccounted
    <3> QED
      BY <1>3, <1>4, <3>1
  <2>3. ASSUME Sets(requests'[k], s)
        PROVE  s \in Made /\ Opened(s, k)' /\ \A j \in DOMAIN requests' : Ends(requests'[j], s) => k < j
    <3>1. /\ s \in Made /\ Opened(s, k + i) /\ k + i \in DOMAIN requests
          /\ \A j \in DOMAIN requests : Ends(requests[j], s) => k + i < j
      BY <1>1, <2>3 DEF SourcesAccounted
    <3>2. ASSUME NEW j \in DOMAIN requests', Ends(requests'[j], s) PROVE k < j
      <4>1. k + i < j + i
        BY <1>1, <3>1, <3>2
      <4> QED
        BY <1>3, <4>1
    <3> QED
      BY <1>4, <3>1, <3>2
  <2> QED
    BY <2>1, <2>2, <2>3
<1>8. \A s : \A k \in DOMAIN requests' :
        /\ Creates(requests[k], s)' <=> Creates(requests'[k], s)
        /\ Ends(requests[k], s)' <=> Ends(requests'[k], s)
        /\ Sets(requests[k], s)' <=> Sets(requests'[k], s)
  BY DEF Creates, Ends, Sets
<1> QED
  BY <1>5, <1>6, <1>7, <1>8 DEF SourcesAccounted

\* A request is added at the end, or the first is taken.
LEMMA SourceAdded ==
    ASSUME TypeOK, NEW m \in Request, requests' = Append(requests, m)
    PROVE  /\ Len(requests) + 1 \in DOMAIN requests' /\ requests'[Len(requests) + 1] = m
           /\ \A k \in DOMAIN requests :
                k \in DOMAIN requests' /\ requests'[k] = requests[k] /\ k < Len(requests) + 1
           /\ \A k \in DOMAIN requests' : k \in DOMAIN requests \/ k = Len(requests) + 1
           /\ \A k \in DOMAIN requests : k \in Nat
BY RequestAdded

LEMMA SourcesStandAdded ==
    ASSUME TypeOK, TypeOK', SourcesAccounted,
           UNCHANGED <<listening, used, nsources, has_source>>,
           \/ requests' = requests
           \/ \E m \in Request : ~AboutSource(m) /\ requests' = Append(requests, m)
           \/ \E op : op \notin ({"create_source", "destroy_source"} \cup Kinds) /\ TakeRequest(op)
    PROVE  SourcesAccounted'
<1>1. /\ Len(requests) \in Nat /\ DOMAIN requests = 1..Len(requests)
      /\ \A k \in DOMAIN requests : k \in Nat /\ k + 0 = k /\ k - 0 = k
  BY Messages
<1>2. CASE requests' = requests
  BY <1>1, <1>2, SourcesStand
<1>3. ASSUME NEW m \in Request, ~AboutSource(m), requests' = Append(requests, m) PROVE SourcesAccounted'
  <2>1. /\ \A k \in DOMAIN requests' : AboutSource(requests'[k]) =>
              k + 0 \in DOMAIN requests /\ requests'[k] = requests[k + 0]
        /\ \A k \in DOMAIN requests : AboutSource(requests[k]) =>
              k - 0 \in DOMAIN requests' /\ requests'[k - 0] = requests[k]
    BY <1>1, <1>3, SourceAdded
  <2> QED
    BY <2>1, SourcesStand DEF AboutSource
<1>4. ASSUME NEW op, op \notin ({"create_source", "destroy_source"} \cup Kinds), TakeRequest(op)
      PROVE  SourcesAccounted'
  <2>1. ~AboutSource(requests[1])
    BY <1>4, RequestTaken DEF AboutSource
  <2>2. /\ \A k \in DOMAIN requests' : k + 1 \in DOMAIN requests /\ requests'[k] = requests[k + 1]
        /\ \A k \in DOMAIN requests : k = 1 \/ (k - 1 \in DOMAIN requests' /\ requests'[k - 1] = requests[k])
    BY <1>4, RequestTaken
  <2> QED
    BY <2>1, <2>2, SourcesStand DEF AboutSource
<1> QED
  BY <1>2, <1>3, <1>4

LEMMA PrimedSources ==
    \A s : \A k \in DOMAIN requests' :
        /\ Creates(requests[k], s)' <=> Creates(requests'[k], s)
        /\ Ends(requests[k], s)' <=> Ends(requests'[k], s)
        /\ Sets(requests[k], s)' <=> Sets(requests'[k], s)
BY DEF Creates, Ends, Sets

\* A request about a source is added: it is created, set or destroyed.
LEMMA SourceCreated ==
    ASSUME TypeOK, TypeOK', SourcesAccounted, NEW s \in Source, CreateSource(s)
    PROVE  SourcesAccounted'
<1> DEFINE m == [op |-> "create_source", source |-> s]
<1>0. PICK n : n = Len(requests) + 1
  OBVIOUS
<1>1. m \in Request /\ requests' = Append(requests, m)
  BY Requesting DEF CreateSource
<1>2. \A x : /\ Creates(m, x) <=> x = s
             /\ ~Ends(m, x) /\ ~Sets(m, x)
  BY DEF Creates, Ends, Sets
<1> HIDE DEF m
<1>3. /\ n \in DOMAIN requests' /\ requests'[n] = m
      /\ \A k \in DOMAIN requests : k \in DOMAIN requests' /\ requests'[k] = requests[k] /\ k < n
      /\ \A k \in DOMAIN requests' : k \in DOMAIN requests \/ k = n
  BY <1>0, <1>1, SourceAdded
<1>4. /\ listening' = listening \cup {s} /\ UNCHANGED <<used, has_source>>
      /\ Made' = Made \cup {s} /\ s \notin Made
  <2>1. nsources \in Nat /\ s = nsources + 1 /\ nsources' = s
    BY DEF TypeOK, CreateSource
  <2>2. 1..(nsources + 1) = (1..nsources) \cup {nsources + 1} /\ nsources + 1 \notin 1..nsources
    BY <2>1
  <2> QED
    BY <2>1, <2>2 DEF CreateSource, Made, serverVars, ownerVars
<1>5. \A x : \A k \in DOMAIN requests : Opened(x, k) => Opened(x, k)'
  BY <1>3, <1>4 DEF Opened, Creates
<1>6. /\ listening \subseteq Made /\ used \subseteq Made /\ has_source \subseteq Made
      /\ \A k \in DOMAIN requests : ~Creates(requests[k], s) /\ ~Ends(requests[k], s) /\ ~Sets(requests[k], s)
  BY <1>4 DEF SourcesAccounted
<1>7. ASSUME NEW x \in Made'
      PROVE  x \in listening' <=>
                /\ x \in has_source' \/ \E k \in DOMAIN requests' : Creates(requests'[k], x)
                /\ \A k \in DOMAIN requests' : ~Ends(requests'[k], x)
  <2>1. (\A k \in DOMAIN requests' : ~Ends(requests'[k], x)) <=> \A k \in DOMAIN requests : ~Ends(requests[k], x)
    BY <1>2, <1>3
  <2>2. (\E k \in DOMAIN requests' : Creates(requests'[k], x))
            <=> x = s \/ \E k \in DOMAIN requests : Creates(requests[k], x)
    BY <1>2, <1>3
  <2>3. CASE x = s
    BY <1>4, <1>6, <2>1, <2>2, <2>3
  <2>4. CASE x # s
    <3>1. x \in Made
      BY <1>4, <2>4
    <3> QED
      BY <1>4, <2>1, <2>2, <2>4, <3>1 DEF SourcesAccounted
  <2> QED
    BY <2>3, <2>4
<1>8. ASSUME NEW k \in DOMAIN requests', NEW x \in Source
      PROVE  /\ Creates(requests'[k], x) =>
                  /\ x \in Made' \ has_source'
                  /\ \A j \in DOMAIN requests' : Creates(requests'[j], x) => j = k
             /\ Ends(requests'[k], x) =>
                  /\ x \in Made' /\ Opened(x, k)'
                  /\ \A j \in DOMAIN requests' : Ends(requests'[j], x) => j = k
             /\ Sets(requests'[k], x) =>
                  /\ x \in Made' /\ Opened(x, k)'
                  /\ \A j \in DOMAIN requests' : Ends(requests'[j], x) => k < j
  <2>1. CASE k = n
    BY <1>2, <1>3, <1>4, <1>6, <2>1
  <2>2. CASE k \in DOMAIN requests
    <3>1. requests'[k] = requests[k]
      BY <1>3, <2>2
    <3>2. ASSUME Creates(requests[k], x), NEW j \in DOMAIN requests', Creates(requests'[j], x)
          PROVE  x \in Made' \ has_source' /\ j = k
      BY <1>2, <1>3, <1>4, <1>6, <2>2, <3>2 DEF SourcesAccounted
    <3>3. ASSUME Ends(requests[k], x), NEW j \in DOMAIN requests', Ends(requests'[j], x)
          PROVE  x \in Made' /\ j = k
      BY <1>2, <1>3, <1>4, <2>2, <3>3 DEF SourcesAccounted
    <3>4. ASSUME Sets(requests[k], x), NEW j \in DOMAIN requests', Ends(requests'[j], x)
          PROVE  x \in Made' /\ k < j
      BY <1>2, <1>3, <1>4, <2>2, <3>4 DEF SourcesAccounted
    <3>5. Ends(requests[k], x) \/ Sets(requests[k], x) => x \in Made' /\ Opened(x, k)'
      BY <1>4, <1>5, <2>2 DEF SourcesAccounted
    <3> QED
      BY <3>1, <3>2, <3>3, <3>4, <3>5
  <2> QED
    BY <1>3, <2>1, <2>2
<1>9. listening' \subseteq Made' /\ used' \subseteq Made' /\ has_source' \subseteq Made'
  BY <1>4, <1>6
<1> QED
  BY <1>7, <1>8, <1>9, PrimedSources DEF SourcesAccounted

LEMMA SourceEnded ==
    ASSUME TypeOK, TypeOK', SourcesAccounted, NEW s \in listening, listening' = listening \ {s},
           UNCHANGED <<used, nsources, has_source>>,
           requests' = Append(requests, [op |-> "destroy_source", source |-> s])
    PROVE  SourcesAccounted'
<1> DEFINE m == [op |-> "destroy_source", source |-> s]
<1>0. PICK n : n = Len(requests) + 1
  OBVIOUS
<1>1. m \in Request /\ requests' = Append(requests, m)
  BY Requesting DEF TypeOK
<1>2. \A x : /\ Ends(m, x) <=> x = s
             /\ ~Creates(m, x) /\ ~Sets(m, x)
  BY DEF Creates, Ends, Sets
<1> HIDE DEF m
<1>3. /\ n \in DOMAIN requests' /\ requests'[n] = m
      /\ \A k \in DOMAIN requests : k \in DOMAIN requests' /\ requests'[k] = requests[k] /\ k < n
      /\ \A k \in DOMAIN requests' : k \in DOMAIN requests \/ k = n
  BY <1>0, <1>1, SourceAdded
<1>4. Made' = Made
  BY DEF Made
<1>5. \A x : \A k \in DOMAIN requests : Opened(x, k) => Opened(x, k)'
  BY <1>3 DEF Opened, Creates
<1>6. /\ listening \subseteq Made /\ used \subseteq Made /\ has_source \subseteq Made
      /\ s \in has_source \/ \E k \in DOMAIN requests : Creates(requests[k], s)
      /\ \A k \in DOMAIN requests : ~Ends(requests[k], s)
  BY DEF SourcesAccounted
<1>7. s \in Made /\ Opened(s, n)'
  BY <1>3, <1>6 DEF Opened, Creates
<1>8. ASSUME NEW x \in Made
      PROVE  x \in listening' <=>
                /\ x \in has_source' \/ \E k \in DOMAIN requests' : Creates(requests'[k], x)
                /\ \A k \in DOMAIN requests' : ~Ends(requests'[k], x)
  <2>1. (\A k \in DOMAIN requests' : ~Ends(requests'[k], x))
            <=> x # s /\ \A k \in DOMAIN requests : ~Ends(requests[k], x)
    BY <1>2, <1>3
  <2>2. (\E k \in DOMAIN requests' : Creates(requests'[k], x)) <=> \E k \in DOMAIN requests : Creates(requests[k], x)
    BY <1>2, <1>3
  <2> QED
    BY <2>1, <2>2 DEF SourcesAccounted
<1>9. ASSUME NEW k \in DOMAIN requests', NEW x \in Source
      PROVE  /\ Creates(requests'[k], x) =>
                  /\ x \in Made \ has_source
                  /\ \A j \in DOMAIN requests' : Creates(requests'[j], x) => j = k
             /\ Ends(requests'[k], x) =>
                  /\ x \in Made /\ Opened(x, k)'
                  /\ \A j \in DOMAIN requests' : Ends(requests'[j], x) => j = k
             /\ Sets(requests'[k], x) =>
                  /\ x \in Made /\ Opened(x, k)'
                  /\ \A j \in DOMAIN requests' : Ends(requests'[j], x) => k < j
  <2>1. CASE k = n
    BY <1>2, <1>3, <1>6, <1>7, <2>1
  <2>2. CASE k \in DOMAIN requests
    <3>1. requests'[k] = requests[k] /\ k < n
      BY <1>3, <2>2
    <3>2. ASSUME Creates(requests[k], x), NEW j \in DOMAIN requests', Creates(requests'[j], x)
          PROVE  x \in Made \ has_source /\ j = k
      BY <1>2, <1>3, <2>2, <3>2 DEF SourcesAccounted
    <3>3. ASSUME Ends(requests[k], x), NEW j \in DOMAIN requests', Ends(requests'[j], x)
          PROVE  x \in Made /\ j = k
      BY <1>2, <1>3, <1>6, <2>2, <3>3 DEF SourcesAccounted
    <3>4. ASSUME Sets(requests[k], x), NEW j \in DOMAIN requests', Ends(requests'[j], x)
          PROVE  x \in Made /\ k < j
      BY <1>2, <1>3, <2>2, <3>1, <3>4 DEF SourcesAccounted
    <3>5. /\ Ends(requests[k], x) \/ Sets(requests[k], x) => x \in Made /\ Opened(x, k)'
          /\ Creates(requests[k], x) => x \in Made \ has_source
      BY <1>5, <2>2 DEF SourcesAccounted
    <3> QED
      BY <3>1, <3>2, <3>3, <3>4, <3>5
  <2> QED
    BY <1>3, <2>1, <2>2
<1>10. listening' \subseteq Made' /\ used' \subseteq Made' /\ has_source' \subseteq Made'
  BY <1>4, <1>6
<1> QED
  BY <1>4, <1>8, <1>9, <1>10, PrimedSources DEF SourcesAccounted

LEMMA SourceSet ==
    ASSUME TypeOK, TypeOK', SourcesAccounted, NEW kind \in Kinds, NEW s \in Source \cup {None},
           SetOwn(kind, s)
    PROVE  SourcesAccounted'
<1> DEFINE m == [op |-> kind, source |-> s]
<1>0. PICK n : n = Len(requests) + 1
  OBVIOUS
<1>1. m \in Request /\ requests' = Append(requests, m)
  BY Requesting DEF SetOwn
<1>2. \A x : /\ Sets(m, x) <=> x = s
             /\ ~Creates(m, x) /\ ~Ends(m, x)
  BY DEF Creates, Ends, Sets
<1> HIDE DEF m
<1>3. /\ n \in DOMAIN requests' /\ requests'[n] = m
      /\ \A k \in DOMAIN requests : k \in DOMAIN requests' /\ requests'[k] = requests[k] /\ k < n
      /\ \A k \in DOMAIN requests' : k \in DOMAIN requests \/ k = n
  BY <1>0, <1>1, SourceAdded
<1>4. /\ Made' = Made /\ UNCHANGED <<listening, has_source>>
      /\ s = None \/ s \in listening
      /\ used' \subseteq used \cup listening
  BY DEF SetOwn, Made, serverVars, ownerVars
<1>5. \A x : \A k \in DOMAIN requests : Opened(x, k) => Opened(x, k)'
  BY <1>3, <1>4 DEF Opened, Creates
<1>6. /\ listening \subseteq Made /\ used \subseteq Made /\ has_source \subseteq Made
      /\ s \in Source => /\ s \in Made
                         /\ s \in has_source \/ \E k \in DOMAIN requests : Creates(requests[k], s)
                         /\ \A k \in DOMAIN requests : ~Ends(requests[k], s)
  BY <1>4 DEF SourcesAccounted
<1>7. s \in Source => Opened(s, n)'
  BY <1>3, <1>4, <1>6 DEF Opened, Creates
<1>8. ASSUME NEW x \in Made
      PROVE  x \in listening' <=>
                /\ x \in has_source' \/ \E k \in DOMAIN requests' : Creates(requests'[k], x)
                /\ \A k \in DOMAIN requests' : ~Ends(requests'[k], x)
  <2>1. (\A k \in DOMAIN requests' : ~Ends(requests'[k], x)) <=> \A k \in DOMAIN requests : ~Ends(requests[k], x)
    BY <1>2, <1>3
  <2>2. (\E k \in DOMAIN requests' : Creates(requests'[k], x)) <=> \E k \in DOMAIN requests : Creates(requests[k], x)
    BY <1>2, <1>3
  <2> QED
    BY <1>4, <2>1, <2>2 DEF SourcesAccounted
<1>9. ASSUME NEW k \in DOMAIN requests', NEW x \in Source
      PROVE  /\ Creates(requests'[k], x) =>
                  /\ x \in Made \ has_source
                  /\ \A j \in DOMAIN requests' : Creates(requests'[j], x) => j = k
             /\ Ends(requests'[k], x) =>
                  /\ x \in Made /\ Opened(x, k)'
                  /\ \A j \in DOMAIN requests' : Ends(requests'[j], x) => j = k
             /\ Sets(requests'[k], x) =>
                  /\ x \in Made /\ Opened(x, k)'
                  /\ \A j \in DOMAIN requests' : Ends(requests'[j], x) => k < j
  <2>1. CASE k = n
    <3>1. \A j \in DOMAIN requests' : Ends(requests'[j], s) => s \notin Source
      BY <1>2, <1>3, <1>6
    <3> QED
      BY <1>2, <1>3, <1>6, <1>7, <2>1, <3>1
  <2>2. CASE k \in DOMAIN requests
    <3>1. requests'[k] = requests[k]
      BY <1>3, <2>2
    <3>2. ASSUME Creates(requests[k], x), NEW j \in DOMAIN requests', Creates(requests'[j], x)
          PROVE  x \in Made \ has_source /\ j = k
      BY <1>2, <1>3, <2>2, <3>2 DEF SourcesAccounted
    <3>3. ASSUME Ends(requests[k], x), NEW j \in DOMAIN requests', Ends(requests'[j], x)
          PROVE  x \in Made /\ j = k
      BY <1>2, <1>3, <2>2, <3>3 DEF SourcesAccounted
    <3>4. ASSUME Sets(requests[k], x), NEW j \in DOMAIN requests', Ends(requests'[j], x)
          PROVE  x \in Made /\ k < j
      BY <1>2, <1>3, <2>2, <3>4 DEF SourcesAccounted
    <3>5. /\ Ends(requests[k], x) \/ Sets(requests[k], x) => x \in Made /\ Opened(x, k)'
          /\ Creates(requests[k], x) => x \in Made \ has_source
      BY <1>5, <2>2 DEF SourcesAccounted
    <3> QED
      BY <3>1, <3>2, <3>3, <3>4, <3>5
  <2> QED
    BY <1>3, <2>1, <2>2
<1>10. listening' \subseteq Made' /\ used' \subseteq Made' /\ has_source' \subseteq Made'
  BY <1>4, <1>6
<1> QED
  BY <1>4, <1>8, <1>9, <1>10, PrimedSources DEF SourcesAccounted

\* The compositor takes the first request, which is about a source.
LEMMA SourceServed ==
    ASSUME TypeOK, NEW op, TakeRequest(op)
    PROVE  /\ 1 \in DOMAIN requests /\ Head(requests) = requests[1] /\ requests[1].op = op
           /\ rejected = {}
           /\ \A k \in DOMAIN requests' :
                k \in Nat /\ k > 0 /\ k + 1 \in DOMAIN requests /\ requests'[k] = requests[k + 1]
           /\ \A k \in DOMAIN requests :
                /\ k \in Nat /\ k > 0
                /\ k = 1 \/ (k - 1 \in DOMAIN requests' /\ requests'[k - 1] = requests[k])
BY RequestTaken

LEMMA ServeCreateStep ==
    ASSUME TypeOK, TypeOK', SourcesAccounted, ServeCreateSource
    PROVE  SourcesAccounted'
<1>0. PICK s : s = requests[1].source
  OBVIOUS
<1>1. /\ requests[1].op = "create_source" /\ s \in Source /\ Creates(requests[1], s)
      /\ 1 \in DOMAIN requests /\ has_source' = has_source \cup {s}
      /\ UNCHANGED <<listening, used, nsources>>
  BY <1>0, RequestTaken, RequestKinds DEF ServeCreateSource, Creates, clientVars, sourceVars
<1>2. /\ \A k \in DOMAIN requests' :
            k \in Nat /\ k > 0 /\ k + 1 \in DOMAIN requests /\ requests'[k] = requests[k + 1]
      /\ \A k \in DOMAIN requests :
            /\ k \in Nat /\ k > 0
            /\ k = 1 \/ (k - 1 \in DOMAIN requests' /\ requests'[k - 1] = requests[k])
  BY SourceServed DEF ServeCreateSource
<1>3. Made' = Made
  BY <1>1 DEF Made
<1>4. /\ listening \subseteq Made /\ used \subseteq Made /\ has_source \subseteq Made
      /\ s \in Made \ has_source
      /\ \A j \in DOMAIN requests : Creates(requests[j], s) => j = 1
  BY <1>1 DEF SourcesAccounted
<1>5. \A x : ~Ends(requests[1], x) /\ ~Sets(requests[1], x) /\ (Creates(requests[1], x) <=> x = s)
  BY <1>1 DEF Ends, Sets, Creates
<1>6. ASSUME NEW x, NEW k \in DOMAIN requests', Opened(x, k + 1) PROVE Opened(x, k)'
  <2>1. CASE x = s
    BY <1>1, <2>1 DEF Opened
  <2>2. CASE x # s /\ x \in has_source
    BY <1>1, <2>2 DEF Opened
  <2>3. CASE x # s /\ x \notin has_source
    <3>1. PICK j \in DOMAIN requests : j < k + 1 /\ Creates(requests[j], x)
      BY <1>6, <2>3 DEF Opened
    <3>2. j - 1 \in DOMAIN requests' /\ Creates(requests'[j - 1], x) /\ j - 1 < k
      BY <1>2, <1>5, <2>3, <3>1
    <3> QED
      BY <3>2 DEF Opened, Creates
  <2> QED
    BY <2>1, <2>2, <2>3
<1>7. ASSUME NEW x \in Made
      PROVE  x \in listening' <=>
                /\ x \in has_source' \/ \E k \in DOMAIN requests' : Creates(requests'[k], x)
                /\ \A k \in DOMAIN requests' : ~Ends(requests'[k], x)
  <2>1. (\A k \in DOMAIN requests' : ~Ends(requests'[k], x)) <=> \A k \in DOMAIN requests : ~Ends(requests[k], x)
    BY <1>2, <1>5
  <2>2. x = s \/ (\E k \in DOMAIN requests' : Creates(requests'[k], x))
            <=> \E k \in DOMAIN requests : Creates(requests[k], x)
    <3>1. ASSUME NEW k \in DOMAIN requests', Creates(requests'[k], x)
          PROVE  \E j \in DOMAIN requests : Creates(requests[j], x)
      BY <1>2, <3>1
    <3>2. ASSUME NEW k \in DOMAIN requests, Creates(requests[k], x), x # s
          PROVE  \E j \in DOMAIN requests' : Creates(requests'[j], x)
      <4>1. k - 1 \in DOMAIN requests' /\ Creates(requests'[k - 1], x)
        BY <1>2, <1>5, <3>2
      <4> QED
        BY <4>1
    <3> QED
      BY <1>1, <3>1, <3>2
  <2>3. x \in listening <=> /\ x \in has_source \/ \E k \in DOMAIN requests : Creates(requests[k], x)
                            /\ \A k \in DOMAIN requests : ~Ends(requests[k], x)
    BY DEF SourcesAccounted
  <2> QED
    BY <1>1, <2>1, <2>2, <2>3
<1>8. ASSUME NEW k \in DOMAIN requests', NEW x \in Source
      PROVE  /\ Creates(requests'[k], x) =>
                  /\ x \in Made \ has_source'
                  /\ \A j \in DOMAIN requests' : Creates(requests'[j], x) => j = k
             /\ Ends(requests'[k], x) =>
                  /\ x \in Made /\ Opened(x, k)'
                  /\ \A j \in DOMAIN requests' : Ends(requests'[j], x) => j = k
             /\ Sets(requests'[k], x) =>
                  /\ x \in Made /\ Opened(x, k)'
                  /\ \A j \in DOMAIN requests' : Ends(requests'[j], x) => k < j
  <2>1. ASSUME Creates(requests'[k], x), NEW j \in DOMAIN requests', Creates(requests'[j], x)
        PROVE  x \in Made \ has_source' /\ j = k
    <3>1. j + 1 = k + 1 /\ x \in Made \ has_source
      BY <1>2, <2>1 DEF SourcesAccounted
    <3>2. x # s
      <4>1. k + 1 # 1
        BY <1>2
      <4> QED
        BY <1>2, <1>4, <2>1, <4>1
    <3> QED
      BY <1>1, <1>2, <3>1, <3>2
  <2>2. ASSUME Ends(requests'[k], x), NEW j \in DOMAIN requests', Ends(requests'[j], x)
        PROVE  x \in Made /\ Opened(x, k)' /\ j = k
    <3>1. j + 1 = k + 1 /\ x \in Made /\ Opened(x, k + 1)
      BY <1>2, <2>2 DEF SourcesAccounted
    <3> QED
      BY <1>2, <1>6, <3>1
  <2>3. ASSUME Sets(requests'[k], x)
        PROVE  x \in Made /\ Opened(x, k)' /\ \A j \in DOMAIN requests' : Ends(requests'[j], x) => k < j
    <3>1. /\ x \in Made /\ Opened(x, k + 1)
          /\ \A j \in DOMAIN requests : Ends(requests[j], x) => k + 1 < j
      BY <1>2, <2>3 DEF SourcesAccounted
    <3>2. ASSUME NEW j \in DOMAIN requests', Ends(requests'[j], x) PROVE k < j
      <4>1. k + 1 < j + 1
        BY <1>2, <3>1, <3>2
      <4> QED
        BY <1>2, <4>1
    <3> QED
      BY <1>6, <3>1, <3>2
  <2> QED
    BY <2>1, <2>2, <2>3
<1>9. listening' \subseteq Made' /\ used' \subseteq Made' /\ has_source' \subseteq Made'
  BY <1>1, <1>3, <1>4
<1> QED
  BY <1>3, <1>7, <1>8, <1>9, PrimedSources DEF SourcesAccounted

\* A source that is destroyed is one the compositor has.
LEMMA ServeEndStep ==
    ASSUME TypeOK, TypeOK', SourcesAccounted, ServeDestroySource
    PROVE  SourcesAccounted' /\ rejected' = {}
<1>0. PICK s : s = requests[1].source
  OBVIOUS
<1>1. /\ requests[1].op = "destroy_source" /\ s \in Source /\ Ends(requests[1], s)
      /\ 1 \in DOMAIN requests /\ has_source' = has_source \ {s}
      /\ UNCHANGED <<listening, used, nsources>>
      /\ s \in has_source => rejected' = {}
  BY <1>0, RequestTaken, RequestKinds DEF ServeDestroySource, Ends, clientVars, sourceVars
<1>2. /\ \A k \in DOMAIN requests' :
            k \in Nat /\ k > 0 /\ k + 1 \in DOMAIN requests /\ requests'[k] = requests[k + 1]
      /\ \A k \in DOMAIN requests :
            /\ k \in Nat /\ k > 0
            /\ k = 1 \/ (k - 1 \in DOMAIN requests' /\ requests'[k - 1] = requests[k])
  BY SourceServed DEF ServeDestroySource
<1>3. Made' = Made
  BY <1>1 DEF Made
<1>4. /\ listening \subseteq Made /\ used \subseteq Made /\ has_source \subseteq Made
      /\ s \in Made /\ Opened(s, 1) /\ s \notin listening
      /\ \A j \in DOMAIN requests : Ends(requests[j], s) => j = 1
      /\ \A j \in DOMAIN requests : Sets(requests[j], s) => j < 1
  BY <1>1 DEF SourcesAccounted
<1>5. \A x : ~Creates(requests[1], x) /\ ~Sets(requests[1], x) /\ (Ends(requests[1], x) <=> x = s)
  BY <1>1 DEF Ends, Sets, Creates
<1>6. s \in has_source
  BY <1>2, <1>4 DEF Opened
<1>7. \A j \in DOMAIN requests : ~Creates(requests[j], s) /\ ~Sets(requests[j], s)
  <2>1. ASSUME NEW j \in DOMAIN requests PROVE ~Creates(requests[j], s)
    BY <1>1, <1>6 DEF SourcesAccounted
  <2>2. ASSUME NEW j \in DOMAIN requests PROVE ~Sets(requests[j], s)
    <3>1. j \in Nat /\ j > 0
      BY <1>2
    <3>2. ~(j < 1)
      BY <3>1
    <3> QED
      BY <1>4, <3>2
  <2> QED
    BY <2>1, <2>2
<1>8. ASSUME NEW x, x # s, NEW k \in DOMAIN requests', Opened(x, k + 1) PROVE Opened(x, k)'
  <2>1. CASE x \in has_source
    BY <1>1, <1>8, <2>1 DEF Opened
  <2>2. CASE x \notin has_source
    <3>1. PICK j \in DOMAIN requests : j < k + 1 /\ Creates(requests[j], x)
      BY <1>8, <2>2 DEF Opened
    <3>2. j - 1 \in DOMAIN requests' /\ Creates(requests'[j - 1], x) /\ j - 1 < k
      BY <1>2, <1>5, <3>1
    <3> QED
      BY <3>2 DEF Opened, Creates
  <2> QED
    BY <2>1, <2>2
<1>9. ASSUME NEW x \in Made
      PROVE  x \in listening' <=>
                /\ x \in has_source' \/ \E k \in DOMAIN requests' : Creates(requests'[k], x)
                /\ \A k \in DOMAIN requests' : ~Ends(requests'[k], x)
  <2>1. CASE x = s
    <3>1. \A k \in DOMAIN requests' : ~Creates(requests'[k], x)
      BY <1>2, <1>7, <2>1
    <3> QED
      BY <1>1, <1>4, <2>1, <3>1
  <2>2. CASE x # s
    <3>1. (\A k \in DOMAIN requests' : ~Ends(requests'[k], x)) <=> \A k \in DOMAIN requests : ~Ends(requests[k], x)
      BY <1>2, <1>5, <2>2
    <3>2. (\E k \in DOMAIN requests' : Creates(requests'[k], x)) <=> \E k \in DOMAIN requests : Creates(requests[k], x)
      <4>1. ASSUME NEW k \in DOMAIN requests, Creates(requests[k], x)
            PROVE  k - 1 \in DOMAIN requests' /\ Creates(requests'[k - 1], x)
        BY <1>2, <1>5, <4>1
      <4> QED
        BY <1>2, <4>1
    <3>3. x \in listening <=> /\ x \in has_source \/ \E k \in DOMAIN requests : Creates(requests[k], x)
                              /\ \A k \in DOMAIN requests : ~Ends(requests[k], x)
      BY DEF SourcesAccounted
    <3> QED
      BY <1>1, <2>2, <3>1, <3>2, <3>3
  <2> QED
    BY <2>1, <2>2
<1>10. ASSUME NEW k \in DOMAIN requests', NEW x \in Source
       PROVE  /\ Creates(requests'[k], x) =>
                   /\ x \in Made \ has_source'
                   /\ \A j \in DOMAIN requests' : Creates(requests'[j], x) => j = k
              /\ Ends(requests'[k], x) =>
                   /\ x \in Made /\ Opened(x, k)'
                   /\ \A j \in DOMAIN requests' : Ends(requests'[j], x) => j = k
              /\ Sets(requests'[k], x) =>
                   /\ x \in Made /\ Opened(x, k)'
                   /\ \A j \in DOMAIN requests' : Ends(requests'[j], x) => k < j
  <2>1. ASSUME Creates(requests'[k], x), NEW j \in DOMAIN requests', Creates(requests'[j], x)
        PROVE  x \in Made \ has_source' /\ j = k
    <3>1. j + 1 = k + 1 /\ x \in Made \ has_source
      BY <1>2, <2>1 DEF SourcesAccounted
    <3> QED
      BY <1>1, <1>2, <3>1
  <2>2. ASSUME Ends(requests'[k], x), NEW j \in DOMAIN requests', Ends(requests'[j], x)
        PROVE  x \in Made /\ Opened(x, k)' /\ j = k
    <3>1. j + 1 = k + 1 /\ x \in Made /\ Opened(x, k + 1)
      BY <1>2, <2>2 DEF SourcesAccounted
    <3>2. x # s
      <4>1. k + 1 # 1
        BY <1>2
      <4> QED
        BY <1>2, <1>4, <2>2, <4>1
    <3> QED
      BY <1>2, <1>8, <3>1, <3>2
  <2>3. ASSUME Sets(requests'[k], x)
        PROVE  x \in Made /\ Opened(x, k)' /\ \A j \in DOMAIN requests' : Ends(requests'[j], x) => k < j
    <3>1. /\ x \in Made /\ Opened(x, k + 1) /\ x # s
          /\ \A j \in DOMAIN requests : Ends(requests[j], x) => k + 1 < j
      BY <1>2, <1>7, <2>3 DEF SourcesAccounted
    <3>2. ASSUME NEW j \in DOMAIN requests', Ends(requests'[j], x) PROVE k < j
      <4>1. k + 1 < j + 1
        BY <1>2, <3>1, <3>2
      <4> QED
        BY <1>2, <4>1
    <3> QED
      BY <1>8, <3>1, <3>2
  <2> QED
    BY <2>1, <2>2, <2>3
<1>11. listening' \subseteq Made' /\ used' \subseteq Made' /\ has_source' \subseteq Made'
  BY <1>1, <1>3, <1>4
<1> QED
  BY <1>1, <1>3, <1>6, <1>9, <1>10, <1>11, PrimedSources DEF SourcesAccounted

\* A source that is set is one the compositor has.
LEMMA ServeSetStep ==
    ASSUME TypeOK, TypeOK', SourcesAccounted, NEW kind \in Kinds, ServeSet(kind)
    PROVE  SourcesAccounted' /\ "source" \notin rejected'
<1>0. PICK s : s = requests[1].source
  OBVIOUS
<1>1. /\ requests[1].op = kind /\ s \in Source \cup {None} /\ Sets(requests[1], s)
      /\ 1 \in DOMAIN requests /\ Head(requests) = requests[1]
      /\ UNCHANGED <<listening, used, nsources, has_source>>
  BY <1>0, RequestTaken, RequestKinds DEF ServeSet, Sets, clientVars, sourceVars
<1>2. /\ \A k \in DOMAIN requests' :
            k \in Nat /\ k > 0 /\ k + 1 \in DOMAIN requests /\ requests'[k] = requests[k + 1]
      /\ \A k \in DOMAIN requests :
            /\ k \in Nat /\ k > 0
            /\ k = 1 \/ (k - 1 \in DOMAIN requests' /\ requests'[k - 1] = requests[k])
  BY SourceServed DEF ServeSet
<1>3. SourcesAccounted'
  <2>1. requests[1].op \notin {"create_source", "destroy_source"}
    BY <1>1
  <2>2. /\ \A k \in DOMAIN requests' : AboutSource(requests'[k]) =>
              k + 1 \in DOMAIN requests /\ requests'[k] = requests[k + 1]
        /\ \A k \in DOMAIN requests : requests[k].op \in {"create_source", "destroy_source"} =>
              k - 1 \in DOMAIN requests' /\ requests'[k - 1] = requests[k]
    BY <1>2, <2>1
  <2> QED
    BY <1>1, <2>2, SourcesStand
<1>4. s \in has_source \cup {None}
  <2> SUFFICES ASSUME s \in Source PROVE s \in has_source
    BY <1>1
  <2>1. Opened(s, 1)
    BY <1>1 DEF SourcesAccounted
  <2>2. \A k \in DOMAIN requests : ~(k < 1)
    BY <1>2
  <2> QED
    BY <2>1, <2>2 DEF Opened
<1>5. "source" \notin rejected'
  BY <1>0, <1>1, <1>4, SourceServed DEF ServeSet
<1> QED
  BY <1>3, <1>5

LEMMA SourcesAccountedKept ==
    ASSUME TypeOK, TypeOK', TableFinite, SourcesAccounted, [Next]_vars
    PROVE  SourcesAccounted'
<1> USE DEF clientVars, offerVars, sourceVars, serverVars, ownerVars
<1>1. CASE OnDataOffer
  <2>1. UNCHANGED <<requests, listening, used, nsources, has_source>>
    BY <1>1 DEF OnDataOffer, Fail
  <2> QED
    BY <2>1, SourcesStandAdded
<1>2. ASSUME NEW kind \in Kinds, OnSelection(kind) PROVE SourcesAccounted'
  <2>1. UNCHANGED <<listening, used, nsources, has_source>>
    BY <1>2 DEF OnSelection
  <2>2. requests' = requests \/ \E m \in Request : ~AboutSource(m) /\ requests' = Append(requests, m)
    <3>1. current[kind] \in Offer \cup {NoOffer}
      BY DEF TypeOK
    <3>2. current[kind] # NoOffer =>
             DestroyOffer(current[kind]) \in Request /\ ~AboutSource(DestroyOffer(current[kind]))
      BY <3>1, Requesting DEF AboutSource, DestroyOffer
    <3>3. \/ requests' = requests
          \/ current[kind] # NoOffer /\ requests' = Append(requests, DestroyOffer(current[kind]))
      BY <1>2 DEF OnSelection, Fail, SetSelection
    <3> QED
      BY <3>2, <3>3
  <2> QED
    BY <2>1, <2>2, SourcesStandAdded
<1>3. CASE OnFinished
  <2>1. PICK n \in Nat : \E m \in 0..n : \E order \in [1..n -> DOMAIN offers] : EndsAfter(n, m, order)
    BY <1>3, DeviceEnded
  <2>2. PICK m \in 0..n : \E order \in [1..n -> DOMAIN offers] : EndsAfter(n, m, order)
    BY <2>1
  <2>3. PICK order \in [1..n -> DOMAIN offers] : EndsAfter(n, m, order)
    BY <2>2
  <2>4. UNCHANGED <<listening, used, nsources, has_source>>
    BY <1>3 DEF OnFinished
  <2>5. Len(requests) \in Nat /\ DOMAIN requests = 1..Len(requests)
    BY Messages
  <2>6. \A k \in DOMAIN requests : k \in DOMAIN requests' /\ requests'[k] = requests[k]
    BY <2>3 DEF EndsAfter
  <2>7. /\ \/ DOMAIN requests' = 1..(Len(requests) + m)
           \/ /\ DOMAIN requests' = 1..(Len(requests) + m + 1)
              /\ requests'[Len(requests) + m + 1] = [op |-> "destroy_device"]
        /\ \A k \in 1..m : requests'[Len(requests) + k] = DestroyOffer(offers[order[k]])
    BY <2>3, Zenon DEF EndsAfter
  <2>8. ASSUME NEW k \in DOMAIN requests', k \notin DOMAIN requests PROVE ~AboutSource(requests'[k])
    <3>1. k \in Int /\ (k - Len(requests) \in 1..m \/ requests'[k] = [op |-> "destroy_device"])
      BY <2>5, <2>7, <2>8
    <3>2. CASE k - Len(requests) \in 1..m
      <4>1. /\ requests'[Len(requests) + (k - Len(requests))] = DestroyOffer(offers[order[k - Len(requests)]])
            /\ Len(requests) + (k - Len(requests)) = k
        BY <2>5, <2>7, <3>1, <3>2
      <4> QED
        BY <4>1 DEF AboutSource, DestroyOffer
    <3> QED
      BY <3>1, <3>2 DEF AboutSource
  <2>9. /\ \A k \in DOMAIN requests' : AboutSource(requests'[k]) =>
              k + 0 \in DOMAIN requests /\ requests'[k] = requests[k + 0]
        /\ \A k \in DOMAIN requests : AboutSource(requests[k]) =>
              k - 0 \in DOMAIN requests' /\ requests'[k - 0] = requests[k]
    BY <2>5, <2>6, <2>8
  <2> QED
    BY <2>4, <2>9, SourcesStand DEF AboutSource
<1>4. CASE OnCancelled
  <2>1. CASE Head(events).source \in listening
    BY <1>4, <2>1, SourceEnded DEF OnCancelled
  <2>2. CASE Head(events).source \notin listening
    BY <1>4, <2>2, SourcesStandAdded DEF OnCancelled
  <2> QED
    BY <2>1, <2>2
<1>5. CASE OnSend
  BY <1>5, SourcesStandAdded DEF OnSend
<1>6. ASSUME NEW o \in Offer, AppDestroy(o) PROVE SourcesAccounted'
  <2>1. /\ DestroyOffer(o) \in Request /\ ~AboutSource(DestroyOffer(o))
        /\ requests' = Append(requests, DestroyOffer(o))
        /\ UNCHANGED <<listening, used, nsources, has_source>>
    BY <1>6, Requesting DEF AppDestroy, AboutSource, DestroyOffer
  <2> QED
    BY <2>1, SourcesStandAdded
<1>7. ASSUME NEW s \in Source, CreateSource(s) PROVE SourcesAccounted'
  BY <1>7, SourceCreated
<1>8. ASSUME NEW s \in Source, DestroySource(s) PROVE SourcesAccounted'
  BY <1>8, SourceEnded DEF DestroySource
<1>9. ASSUME NEW kind \in Kinds, NEW s \in Source \cup {None}, SetOwn(kind, s) PROVE SourcesAccounted'
  BY <1>9, SourceSet
<1>10. CASE ServeDestroyOffer
  <2>1. TakeRequest("destroy_offer") /\ UNCHANGED <<listening, used, nsources, has_source>>
    BY <1>10 DEF ServeDestroyOffer
  <2> QED
    BY <2>1, SourcesStandAdded
<1>11. CASE ServeDestroyDevice
  <2>1. TakeRequest("destroy_device") /\ UNCHANGED <<listening, used, nsources, has_source>>
    BY <1>11 DEF ServeDestroyDevice
  <2> QED
    BY <2>1, SourcesStandAdded
<1>12. CASE ServeCreateSource
  BY <1>12, ServeCreateStep
<1>13. CASE ServeDestroySource
  BY <1>13, ServeEndStep
<1>14. ASSUME NEW kind \in Kinds, ServeSet(kind) PROVE SourcesAccounted'
  BY <1>14, ServeSetStep
<1>15. ASSUME NEW kind \in Kinds,
              (\E id \in OfferIds : Choose(kind, id)) \/ Clear(kind) \/ Paste(kind) \/ Finish \/ UNCHANGED vars
       PROVE  SourcesAccounted'
  <2>1. UNCHANGED <<requests, listening, used, nsources, has_source>>
    BY <1>15 DEF Choose, Clear, Paste, Finish, vars
  <2> QED
    BY <2>1, SourcesStandAdded
<1> QED
  BY <1>1, <1>2, <1>3, <1>4, <1>5, <1>6, <1>7, <1>8, <1>9, <1>10, <1>11, <1>12, <1>13, <1>14, <1>15
  DEF Next, Dispatch, Application, Serve, Compositor

-----------------------------------------------------------------------------
\* The compositor ends the device on the client's request, which it sends when it has
\* ended it itself.
LEMMA RejectedStands ==
    ASSUME TypeOK, RejectedKnown, device' => device, UNCHANGED <<version, has_device>>,
           rejected' \subseteq rejected,
           \A k \in DOMAIN requests' : requests'[k].op = "destroy_device" /\ device' =>
              \E j \in DOMAIN requests : requests[j].op = "destroy_device"
    PROVE  RejectedKnown'
<1>1. ~has_device' => ~device'
  BY Zenon DEF RejectedKnown
<1>2. \A k \in DOMAIN requests' : requests'[k].op = "destroy_device" => ~device'
  BY Zenon DEF RejectedKnown
<1>3. rejected' \subseteq (IF version' = 1 THEN {"version"} ELSE {}) \cup (IF device' THEN {} ELSE {"device"})
  <2>1. rejected \subseteq (IF version = 1 THEN {"version"} ELSE {}) \cup (IF device THEN {} ELSE {"device"})
    BY DEF RejectedKnown
  <2>2. (IF device THEN {} ELSE {"device"}) \subseteq (IF device' THEN {} ELSE {"device"})
    OBVIOUS
  <2> QED
    BY <2>1, <2>2
<1> QED
  BY <1>1, <1>2, <1>3 DEF RejectedKnown

LEMMA RejectedStandsAdded ==
    ASSUME TypeOK, RejectedKnown, UNCHANGED <<device, version, has_device>>, rejected' \subseteq rejected,
           \/ requests' = requests
           \/ \E m \in Request : m.op # "destroy_device" /\ requests' = Append(requests, m)
           \/ \E op : TakeRequest(op)
    PROVE  RejectedKnown'
<1>1. \A k \in DOMAIN requests' : requests'[k].op = "destroy_device" =>
         \E j \in DOMAIN requests : requests[j].op = "destroy_device"
  <2>1. ASSUME NEW m \in Request, m.op # "destroy_device", requests' = Append(requests, m),
               NEW k \in DOMAIN requests', requests'[k].op = "destroy_device"
        PROVE  \E j \in DOMAIN requests : requests[j].op = "destroy_device"
    <3>1. k \in DOMAIN requests /\ requests'[k] = requests[k]
      BY <2>1, SourceAdded
    <3> QED
      BY <2>1, <3>1
  <2>2. ASSUME NEW op, TakeRequest(op),
               NEW k \in DOMAIN requests', requests'[k].op = "destroy_device"
        PROVE  \E j \in DOMAIN requests : requests[j].op = "destroy_device"
    <3>1. k + 1 \in DOMAIN requests /\ requests'[k] = requests[k + 1]
      BY <2>2, SourceServed
    <3> QED
      BY <2>2, <3>1
  <2> QED
    BY <2>1, <2>2
<1> QED
  BY <1>1, RejectedStands

LEMMA RejectedKept ==
    ASSUME TypeOK, TypeOK', TableFinite, SourcesAccounted, RejectedKnown, "offer" \notin rejected',
           [Next]_vars
    PROVE  RejectedKnown'
<1> USE DEF clientVars, offerVars, sourceVars, serverVars, ownerVars
<1>1. CASE OnDataOffer
  <2>1. UNCHANGED <<requests, device, version, has_device, rejected>>
    BY <1>1 DEF OnDataOffer, Fail
  <2> QED
    BY <2>1, RejectedStandsAdded
<1>2. ASSUME NEW kind \in Kinds, OnSelection(kind) PROVE RejectedKnown'
  <2>1. UNCHANGED <<device, version, has_device, rejected>>
    BY <1>2 DEF OnSelection, Fail, SetSelection
  <2>2. requests' = requests \/ \E m \in Request : m.op # "destroy_device" /\ requests' = Append(requests, m)
    <3>1. current[kind] \in Offer \cup {NoOffer}
      BY DEF TypeOK
    <3>2. current[kind] # NoOffer =>
             /\ DestroyOffer(current[kind]) \in Request
             /\ DestroyOffer(current[kind]).op # "destroy_device"
      BY <3>1, Requesting DEF DestroyOffer
    <3>3. \/ requests' = requests
          \/ current[kind] # NoOffer /\ requests' = Append(requests, DestroyOffer(current[kind]))
      BY <1>2 DEF OnSelection, Fail, SetSelection
    <3> QED
      BY <3>2, <3>3
  <2> QED
    BY <2>1, <2>2, RejectedStandsAdded
<1>3. CASE OnFinished
  <2>1. PICK n \in Nat : \E m \in 0..n : \E order \in [1..n -> DOMAIN offers] : EndsAfter(n, m, order)
    BY <1>3, DeviceEnded
  <2>2. PICK m \in 0..n : \E order \in [1..n -> DOMAIN offers] : EndsAfter(n, m, order)
    BY <2>1
  <2>3. PICK order \in [1..n -> DOMAIN offers] : EndsAfter(n, m, order)
    BY <2>2
  <2>4. UNCHANGED <<version, has_device, rejected>>
    BY <1>3 DEF OnFinished
  <2>5. Len(requests) \in Nat /\ DOMAIN requests = 1..Len(requests)
    BY Messages
  <2>6. \A k \in DOMAIN requests : k \in DOMAIN requests' /\ requests'[k] = requests[k]
    BY <2>3 DEF EndsAfter
  <2>7. /\ ~device' \/ (device' = device /\ DOMAIN requests' = 1..(Len(requests) + m))
        /\ \A k \in 1..m : requests'[Len(requests) + k] = DestroyOffer(offers[order[k]])
    BY <2>3, Zenon DEF EndsAfter
  <2>8. ASSUME NEW k \in DOMAIN requests', requests'[k].op = "destroy_device", device'
        PROVE  k \in DOMAIN requests
    <3> SUFFICES ASSUME k \notin DOMAIN requests PROVE FALSE
      OBVIOUS
    <3>1. DOMAIN requests' = 1..(Len(requests) + m)
      BY <2>7, <2>8, Zenon
    <3>2. k \in Int /\ k - Len(requests) \in 1..m /\ Len(requests) + (k - Len(requests)) = k
      BY <2>5, <2>8, <3>1
    <3>3. requests'[k] = DestroyOffer(offers[order[k - Len(requests)]])
      BY <2>7, <3>2
    <3> QED
      BY <2>8, <3>3 DEF DestroyOffer
  <2>9. \A k \in DOMAIN requests' : requests'[k].op = "destroy_device" /\ device' =>
              \E j \in DOMAIN requests : requests[j].op = "destroy_device"
    BY <2>6, <2>8
  <2>10. device' => device
    BY <2>7, Zenon
  <2> QED
    BY <2>4, <2>9, <2>10, RejectedStands
<1>4. CASE OnCancelled
  <2>1. Head(events).source \in Source
    BY <1>4, EventTaken, EventKinds DEF OnCancelled, Aside
  <2>2. /\ [op |-> "destroy_source", source |-> Head(events).source] \in Request
        /\ [op |-> "destroy_source", source |-> Head(events).source].op # "destroy_device"
    BY <2>1, Requesting
  <2>3. requests' = requests \/ \E m \in Request : m.op # "destroy_device" /\ requests' = Append(requests, m)
    BY <1>4, <2>2 DEF OnCancelled
  <2> QED
    BY <1>4, <2>3, RejectedStandsAdded DEF OnCancelled
<1>5. CASE OnSend
  BY <1>5, RejectedStandsAdded DEF OnSend
<1>6. ASSUME NEW o \in Offer, AppDestroy(o) PROVE RejectedKnown'
  <2>1. /\ DestroyOffer(o) \in Request /\ DestroyOffer(o).op # "destroy_device"
        /\ requests' = Append(requests, DestroyOffer(o))
        /\ UNCHANGED <<device, version, has_device, rejected>>
    BY <1>6, Requesting DEF AppDestroy, DestroyOffer
  <2> QED
    BY <2>1, RejectedStandsAdded
<1>7. ASSUME NEW s \in Source, CreateSource(s) \/ DestroySource(s) PROVE RejectedKnown'
  <2>1. /\ [op |-> "create_source", source |-> s] \in Request
        /\ [op |-> "create_source", source |-> s].op # "destroy_device"
        /\ [op |-> "destroy_source", source |-> s] \in Request
        /\ [op |-> "destroy_source", source |-> s].op # "destroy_device"
    BY Requesting
  <2> QED
    BY <1>7, <2>1, RejectedStandsAdded DEF CreateSource, DestroySource
<1>8. ASSUME NEW kind \in Kinds, NEW s \in Source \cup {None}, SetOwn(kind, s) PROVE RejectedKnown'
  <2>1. [op |-> kind, source |-> s] \in Request /\ [op |-> kind, source |-> s].op # "destroy_device"
    BY Requesting
  <2> QED
    BY <1>8, <2>1, RejectedStandsAdded DEF SetOwn
<1>9. CASE ServeDestroyOffer
  <2>1. TakeRequest("destroy_offer") /\ rejected' = {} /\ UNCHANGED <<device, version, has_device>>
    BY <1>9 DEF ServeDestroyOffer
  <2> QED
    BY <2>1, RejectedStandsAdded
<1>10. CASE ServeDestroyDevice
  <2>1. /\ TakeRequest("destroy_device") /\ requests[1].op = "destroy_device" /\ 1 \in DOMAIN requests
        /\ \A k \in DOMAIN requests' : k + 1 \in DOMAIN requests /\ requests'[k] = requests[k + 1]
        /\ UNCHANGED <<device, version, rejected>> /\ rejected = {}
    BY <1>10, SourceServed DEF ServeDestroyDevice
  <2>2. ~device
    BY <2>1, Zenon DEF RejectedKnown
  <2> QED
    BY <2>1, <2>2 DEF RejectedKnown
<1>11. CASE ServeCreateSource
  <2>1. TakeRequest("create_source") /\ UNCHANGED <<device, version, has_device, rejected>>
    BY <1>11 DEF ServeCreateSource
  <2> QED
    BY <2>1, RejectedStandsAdded
<1>12. CASE ServeDestroySource
  <2>1. TakeRequest("destroy_source") /\ UNCHANGED <<device, version, has_device>>
    BY <1>12 DEF ServeDestroySource
  <2>2. rejected' = {}
    BY <1>12, ServeEndStep
  <2> QED
    BY <2>1, <2>2, RejectedStandsAdded
<1>13. ASSUME NEW kind \in Kinds, ServeSet(kind) PROVE RejectedKnown'
  <2>1. /\ UNCHANGED <<device, version, has_device>> /\ TakeRequest(kind)
        /\ \A k \in DOMAIN requests' : k + 1 \in DOMAIN requests /\ requests'[k] = requests[k + 1]
    BY <1>13, SourceServed DEF ServeSet
  <2>2. \/ rejected' = {"device"} /\ ~has_device
        \/ rejected' = {"version"} /\ version = 1
        \/ rejected' = {}
    <3>1. "source" \notin rejected'
      BY <1>13, ServeSetStep
    <3>2. version \in {1, 2}
      BY DEF TypeOK
    <3> QED
      BY <1>13, <3>1, <3>2 DEF ServeSet
  <2>3. ~has_device => ~device
    BY Zenon DEF RejectedKnown
  <2>4. rejected' \subseteq (IF version' = 1 THEN {"version"} ELSE {}) \cup (IF device' THEN {} ELSE {"device"})
    <3>1. device' = device /\ version' = version
      BY <2>1
    <3>2. CASE rejected' = {"device"} /\ ~has_device
      BY <2>3, <3>1, <3>2
    <3>3. CASE rejected' = {"version"} /\ version = 1
      BY <3>1, <3>3
    <3> QED
      BY <2>2, <3>2, <3>3
  <2>5. ~has_device' => ~device'
    BY <2>1, <2>3
  <2>6. \A k \in DOMAIN requests' : requests'[k].op = "destroy_device" => ~device'
    BY <2>1 DEF RejectedKnown
  <2> QED
    BY <2>4, <2>5, <2>6 DEF RejectedKnown
<1>14. ASSUME NEW kind \in Kinds,
              (\E id \in OfferIds : Choose(kind, id)) \/ Clear(kind) \/ Paste(kind) \/ Finish \/ UNCHANGED vars
       PROVE  RejectedKnown'
  <2>1. UNCHANGED <<requests, device, version, has_device, rejected>>
    BY <1>14 DEF Choose, Clear, Paste, Finish, vars
  <2> QED
    BY <2>1, RejectedStandsAdded
<1> QED
  BY <1>1, <1>2, <1>3, <1>4, <1>5, <1>6, <1>7, <1>8, <1>9, <1>10, <1>11, <1>12, <1>13, <1>14
  DEF Next, Dispatch, Application, Serve, Compositor

-----------------------------------------------------------------------------
\* What tells nobody of a source keeps where each of them is.
LEMMA PrimedCancels ==
    \A s : /\ \A k \in DOMAIN requests' : Sets(requests[k], s)' <=> Sets(requests'[k], s)
           /\ \A k \in DOMAIN events' : /\ IsCancel(events[k], s)' <=> IsCancel(events'[k], s)
                                        /\ IsSend(events[k], s)' <=> IsSend(events'[k], s)
           /\ Used(s)' <=> s \in used' /\ s \in listening'
BY DEF Sets, IsCancel, IsSend, Used

\* The requests to set a source, and the events about one, were in flight before, at
\* most one place further back.
SetsFrom(i) ==
    \A s : \A k \in DOMAIN requests' :
        Sets(requests'[k], s) => k + i \in DOMAIN requests /\ Sets(requests[k + i], s)
AsidesFrom(n) ==
    \A s : \A k \in DOMAIN events' :
        /\ IsCancel(events'[k], s) => k + n \in DOMAIN events /\ IsCancel(events[k + n], s)
        /\ IsSend(events'[k], s) => k + n \in DOMAIN events /\ IsSend(events[k + n], s)

LEMMA CancelsStand ==
    ASSUME TypeOK, TypeOK', CancelsFind, NEW i \in {0, 1}, NEW n \in {0, 1}, srcgone' = srcgone,
           listening \subseteq listening', used \subseteq used',
           sources = listening => sources' = listening',
           srcgone = {} => NoneMissed',
           \A kind \in Kinds : owner'[kind] \in {owner[kind], None},
           SetsFrom(i), AsidesFrom(n)
    PROVE  CancelsFind'
<1> SUFFICES ASSUME srcgone = {}
             PROVE  CancelsFind'
  BY DEF CancelsFind
<1>1. /\ \A s : \A k \in DOMAIN requests' : Sets(requests'[k], s) =>
            k + i \in DOMAIN requests /\ Sets(requests[k + i], s)
      /\ \A s : \A k \in DOMAIN events' :
            /\ IsCancel(events'[k], s) => k + n \in DOMAIN events /\ IsCancel(events[k + n], s)
            /\ IsSend(events'[k], s) => k + n \in DOMAIN events /\ IsSend(events[k + n], s)
  BY DEF SetsFrom, AsidesFrom
<1>2. /\ \A k \in DOMAIN requests' : k \in Nat
      /\ \A k \in DOMAIN events' : k \in Nat
  <2>1. requests' \in Seq(Request) /\ events' \in Seq(Event)
    BY DEF TypeOK
  <2> QED
    BY <2>1, LenProperties
<1>3. \A s : Used(s) => s \in used' /\ s \in listening'
  BY DEF Used
<1>4. ASSUME NEW k \in DOMAIN requests', NEW s \in Source, Sets(requests'[k], s)
      PROVE  /\ s \in used' /\ s \in listening'
             /\ \A j \in DOMAIN requests' : Sets(requests'[j], s) => j = k
             /\ \A kind \in Kinds : owner'[kind] # s
             /\ \A j \in DOMAIN events' : ~IsCancel(events'[j], s)
  <2>1. /\ k + i \in DOMAIN requests /\ Used(s)
        /\ \A j \in DOMAIN requests : Sets(requests[j], s) => j = k + i
        /\ \A kind \in Kinds : owner[kind] # s
        /\ \A j \in DOMAIN events : ~IsCancel(events[j], s)
    BY <1>1, <1>4 DEF CancelsFind
  <2>2. ASSUME NEW j \in DOMAIN requests', Sets(requests'[j], s) PROVE j = k
    <3>1. j + i = k + i
      BY <1>1, <2>1, <2>2
    <3> QED
      BY <1>2, <3>1
  <2>3. s # None
    OBVIOUS
  <2> QED
    BY <1>1, <1>3, <2>1, <2>2, <2>3
<1>5. ASSUME NEW kind \in Kinds, owner'[kind] # None
      PROVE  /\ owner'[kind] \in used' /\ owner'[kind] \in listening'
             /\ \A other \in Kinds : owner'[other] = owner'[kind] => other = kind
             /\ \A j \in DOMAIN events' : ~IsCancel(events'[j], owner'[kind])
  <2>1. owner'[kind] = owner[kind] /\ \A other \in Kinds : owner'[other] \in {owner[other], None}
    BY <1>5
  <2>2. /\ Used(owner[kind])
        /\ \A other \in Kinds : owner[other] = owner[kind] => other = kind
        /\ \A j \in DOMAIN events : ~IsCancel(events[j], owner[kind])
    BY <1>5, <2>1 DEF CancelsFind
  <2> QED
    BY <1>1, <1>3, <1>5, <2>1, <2>2
<1>6. ASSUME NEW k \in DOMAIN events', NEW s \in Source
      PROVE  /\ IsCancel(events'[k], s) =>
                  /\ s \in used' /\ s \in listening'
                  /\ \A j \in DOMAIN events' : IsCancel(events'[j], s) => j = k
             /\ IsSend(events'[k], s) =>
                  /\ s \in listening'
                  /\ \A j \in DOMAIN events' : IsCancel(events'[j], s) => k < j
  <2>1. ASSUME IsCancel(events'[k], s), NEW j \in DOMAIN events', IsCancel(events'[j], s)
        PROVE  s \in used' /\ s \in listening' /\ j = k
    <3>1. j + n = k + n /\ Used(s)
      BY <1>1, <2>1 DEF CancelsFind
    <3> QED
      BY <1>2, <1>3, <3>1
  <2>2. ASSUME IsSend(events'[k], s)
        PROVE  s \in listening' /\ \A j \in DOMAIN events' : IsCancel(events'[j], s) => k < j
    <3>1. s \in listening /\ \A j \in DOMAIN events : IsCancel(events[j], s) => k + n < j
      BY <1>1, <2>2 DEF CancelsFind
    <3>2. ASSUME NEW j \in DOMAIN events', IsCancel(events'[j], s) PROVE k < j
      <4>1. k + n < j + n
        BY <1>1, <3>1, <3>2
      <4> QED
        BY <1>2, <4>1
    <3> QED
      BY <3>1, <3>2
  <2> QED
    BY <2>1, <2>2
<1>7. sources' = listening' /\ NoneMissed'
  BY DEF CancelsFind
<1> QED
  BY <1>4, <1>5, <1>6, <1>7, PrimedCancels DEF CancelsFind

\* Another source, or none, becomes the selection of a kind, and the one before it is
\* cancelled.
LEMMA OwnerReplaced ==
    ASSUME TypeOK, TypeOK', CancelsFind, NEW i \in {0, 1}, NEW kind \in Kinds, NEW v \in Source \cup {None},
           UNCHANGED <<listening, sources, used, srcgone, raised>>, owner' = [owner EXCEPT ![kind] = v],
           SetsFrom(i),
           \A k \in DOMAIN events : k \in DOMAIN events' /\ events'[k] = events[k],
           \A k \in DOMAIN events' : Aside(events'[k]) =>
              \/ k \in DOMAIN events
              \/ k = Len(events) + 1 /\ owner[kind] # None /\ IsCancel(events'[k], owner[kind]),
           srcgone = {} /\ v # None =>
              /\ Used(v) /\ \A x \in Kinds : owner[x] # v
              /\ \A j \in DOMAIN events : ~IsCancel(events[j], v)
              /\ \A k \in DOMAIN requests' : ~Sets(requests'[k], v)
    PROVE  CancelsFind'
<1> SUFFICES ASSUME srcgone = {}
             PROVE  CancelsFind'
  BY DEF CancelsFind
<1>0. PICK old : old = owner[kind]
  OBVIOUS
<1>1. \A s : \A k \in DOMAIN requests' : Sets(requests'[k], s) =>
            k + i \in DOMAIN requests /\ Sets(requests[k + i], s)
  BY DEF SetsFrom
<1>2. /\ \A k \in DOMAIN requests' : k \in Nat
      /\ Len(events) \in Nat /\ DOMAIN events = 1..Len(events)
  <2>1. requests' \in Seq(Request)
    BY DEF TypeOK
  <2> QED
    BY <2>1, LenProperties, Messages
<1>3. \A s : \A k \in DOMAIN events' :
        /\ IsCancel(events'[k], s) =>
             \/ k \in DOMAIN events /\ IsCancel(events[k], s)
             \/ k = Len(events) + 1 /\ s = old /\ old # None
        /\ IsSend(events'[k], s) => k \in DOMAIN events /\ IsSend(events[k], s)
  <2>1. ASSUME NEW s, NEW k \in DOMAIN events', IsCancel(events'[k], s)
        PROVE  \/ k \in DOMAIN events /\ IsCancel(events[k], s)
               \/ k = Len(events) + 1 /\ s = old /\ old # None
    <3>1. Aside(events'[k])
      BY <2>1 DEF Aside, IsCancel
    <3> QED
      BY <1>0, <2>1, <3>1 DEF IsCancel
  <2>2. ASSUME NEW s, NEW k \in DOMAIN events', IsSend(events'[k], s)
        PROVE  k \in DOMAIN events /\ IsSend(events[k], s)
    <3>1. Aside(events'[k]) /\ \A x : ~IsCancel(events'[k], x)
      BY <2>2 DEF Aside, IsSend, IsCancel
    <3> QED
      BY <2>2, <3>1
  <2> QED
    BY <2>1, <2>2
<1>4. /\ owner \in [Kinds -> Source \cup {None}]
      /\ owner'[kind] = v /\ \A x \in Kinds \ {kind} : owner'[x] = owner[x]
  BY DEF TypeOK
<1>5. old # None =>
        /\ old \in Source /\ Used(old)
        /\ \A x \in Kinds : owner[x] = old => x = kind
        /\ \A j \in DOMAIN events : ~IsCancel(events[j], old)
        /\ \A k \in DOMAIN requests' : ~Sets(requests'[k], old)
  <2> SUFFICES ASSUME old # None
               PROVE  /\ old \in Source /\ Used(old)
                      /\ \A x \in Kinds : owner[x] = old => x = kind
                      /\ \A j \in DOMAIN events : ~IsCancel(events[j], old)
                      /\ \A k \in DOMAIN requests' : ~Sets(requests'[k], old)
    OBVIOUS
  <2>1. old \in Source
    BY <1>0, <1>4
  <2>2. /\ Used(old)
        /\ \A x \in Kinds : owner[x] = old => x = kind
        /\ \A j \in DOMAIN events : ~IsCancel(events[j], old)
    BY <1>0 DEF CancelsFind
  <2>3. ASSUME NEW k \in DOMAIN requests', Sets(requests'[k], old) PROVE FALSE
    <3>1. \A x \in Kinds : owner[x] # old
      BY <1>1, <2>1, <2>3 DEF CancelsFind
    <3> QED
      BY <1>0, <3>1
  <2> QED
    BY <2>1, <2>2, <2>3
<1>6. v # None => v # old
  BY <1>0
<1>7. ASSUME NEW k \in DOMAIN requests', NEW s \in Source, Sets(requests'[k], s)
      PROVE  /\ s \in used' /\ s \in listening'
             /\ \A j \in DOMAIN requests' : Sets(requests'[j], s) => j = k
             /\ \A x \in Kinds : owner'[x] # s
             /\ \A j \in DOMAIN events' : ~IsCancel(events'[j], s)
  <2>1. /\ k + i \in DOMAIN requests /\ Used(s)
        /\ \A j \in DOMAIN requests : Sets(requests[j], s) => j = k + i
        /\ \A x \in Kinds : owner[x] # s
        /\ \A j \in DOMAIN events : ~IsCancel(events[j], s)
    BY <1>1, <1>7 DEF CancelsFind
  <2>2. ASSUME NEW j \in DOMAIN requests', Sets(requests'[j], s) PROVE j = k
    <3>1. j + i = k + i
      BY <1>1, <2>1, <2>2
    <3> QED
      BY <1>2, <3>1
  <2>3. s # None /\ s # old /\ (v # None => s # v)
    BY <1>0, <1>7, <2>1
  <2> QED
    BY <1>3, <1>4, <2>1, <2>2, <2>3 DEF Used
<1>8. ASSUME NEW x \in Kinds, owner'[x] # None
      PROVE  /\ owner'[x] \in used' /\ owner'[x] \in listening'
             /\ \A other \in Kinds : owner'[other] = owner'[x] => other = x
             /\ \A j \in DOMAIN events' : ~IsCancel(events'[j], owner'[x])
  <2>1. CASE x = kind
    <3>1. v # None /\ owner'[x] = v
      BY <1>4, <1>8, <2>1
    <3>2. \A other \in Kinds : owner'[other] = v => other = x
      BY <1>4, <2>1, <3>1
    <3>3. \A j \in DOMAIN events' : ~IsCancel(events'[j], v)
      BY <1>3, <1>6, <3>1
    <3> QED
      BY <3>1, <3>2, <3>3 DEF Used
  <2>2. CASE x # kind
    <3>1. owner'[x] = owner[x] /\ owner[x] # None
      BY <1>4, <1>8, <2>2
    <3>2. /\ Used(owner[x])
          /\ \A other \in Kinds : owner[other] = owner[x] => other = x
          /\ \A j \in DOMAIN events : ~IsCancel(events[j], owner[x])
      BY <3>1 DEF CancelsFind
    <3>3. owner[x] # old /\ (v # None => owner[x] # v)
      BY <1>0, <2>2, <3>2
    <3>4. ASSUME NEW other \in Kinds, owner'[other] = owner[x] PROVE other = x
      <4>1. CASE other = kind
        BY <1>4, <3>1, <3>3, <3>4, <4>1
      <4>2. CASE other # kind
        BY <1>4, <3>2, <3>4, <4>2
      <4> QED
        BY <4>1, <4>2
    <3> QED
      BY <1>3, <3>1, <3>2, <3>3, <3>4 DEF Used
  <2> QED
    BY <2>1, <2>2
<1>9. ASSUME NEW k \in DOMAIN events', NEW s \in Source
      PROVE  /\ IsCancel(events'[k], s) =>
                  /\ s \in used' /\ s \in listening'
                  /\ \A j \in DOMAIN events' : IsCancel(events'[j], s) => j = k
             /\ IsSend(events'[k], s) =>
                  /\ s \in listening'
                  /\ \A j \in DOMAIN events' : IsCancel(events'[j], s) => k < j
  <2>1. ASSUME IsCancel(events'[k], s), NEW j \in DOMAIN events', IsCancel(events'[j], s)
        PROVE  s \in used' /\ s \in listening' /\ j = k
    <3>1. CASE s = old
      <4>1. old # None /\ j = Len(events) + 1 /\ k = Len(events) + 1
        BY <1>3, <1>5, <2>1, <3>1
      <4> QED
        BY <1>5, <3>1, <4>1 DEF Used
    <3>2. CASE s # old
      <4>1. j \in DOMAIN events /\ k \in DOMAIN events /\ IsCancel(events[j], s) /\ IsCancel(events[k], s)
        BY <1>3, <2>1, <3>2
      <4> QED
        BY <4>1 DEF CancelsFind, Used
    <3> QED
      BY <3>1, <3>2
  <2>2. ASSUME IsSend(events'[k], s)
        PROVE  s \in listening' /\ \A j \in DOMAIN events' : IsCancel(events'[j], s) => k < j
    <3>1. k \in DOMAIN events /\ s \in listening /\ \A j \in DOMAIN events : IsCancel(events[j], s) => k < j
      BY <1>3, <2>2 DEF CancelsFind
    <3>2. ASSUME NEW j \in DOMAIN events', IsCancel(events'[j], s) PROVE k < j
      <4>1. (j \in DOMAIN events /\ IsCancel(events[j], s)) \/ j = Len(events) + 1
        BY <1>3, <3>2
      <4> QED
        BY <1>2, <3>1, <4>1
    <3> QED
      BY <3>1, <3>2
  <2> QED
    BY <2>1, <2>2
<1>10. sources' = listening' /\ NoneMissed'
  BY DEF CancelsFind, NoneMissed
<1> QED
  BY <1>7, <1>8, <1>9, <1>10, PrimedCancels DEF CancelsFind

LEMMA SetsStay ==
    ASSUME TypeOK,
           \/ \A k \in DOMAIN requests' : requests'[k].op \in Kinds =>
                 k \in DOMAIN requests /\ requests'[k] = requests[k]
           \/ \E op : TakeRequest(op)
    PROVE  \E i \in {0, 1} : SetsFrom(i)
<1>1. ASSUME \A k \in DOMAIN requests' : requests'[k].op \in Kinds =>
                 k \in DOMAIN requests /\ requests'[k] = requests[k]
      PROVE  SetsFrom(0)
  <2>1. \A k \in DOMAIN requests : k + 0 = k
    BY Messages
  <2> QED
    BY <1>1, <2>1 DEF SetsFrom, Sets
<1>2. ASSUME NEW op, TakeRequest(op) PROVE SetsFrom(1)
  <2>1. \A k \in DOMAIN requests' : k + 1 \in DOMAIN requests /\ requests'[k] = requests[k + 1]
    BY <1>2, SourceServed
  <2> QED
    BY <2>1 DEF SetsFrom, Sets
<1> QED
  BY <1>1, <1>2

LEMMA AsidesStay ==
    ASSUME TypeOK,
           \/ \A k \in DOMAIN events' : Aside(events'[k]) =>
                 k \in DOMAIN events /\ events'[k] = events[k]
           \/ \E t : Take(t)
    PROVE  \E n \in {0, 1} : AsidesFrom(n)
<1>1. ASSUME \A k \in DOMAIN events' : Aside(events'[k]) =>
                 k \in DOMAIN events /\ events'[k] = events[k]
      PROVE  AsidesFrom(0)
  <2>1. \A k \in DOMAIN events : k + 0 = k
    BY Messages
  <2> QED
    BY <1>1, <2>1 DEF AsidesFrom, IsCancel, IsSend, Aside
<1>2. ASSUME NEW t, Take(t) PROVE AsidesFrom(1)
  <2>1. \A k \in DOMAIN events' : k + 1 \in DOMAIN events /\ events'[k] = events[k + 1]
    BY <1>2, EventTaken
  <2> QED
    BY <2>1 DEF AsidesFrom, IsCancel, IsSend
<1> QED
  BY <1>1, <1>2

\* The client's and the compositor's steps that cancel nothing and set nothing.
LEMMA CancelsStay ==
    ASSUME TypeOK, TypeOK', CancelsFind, UNCHANGED <<sources, listening, used, srcgone>>,
           \A kind \in Kinds : owner'[kind] \in {owner[kind], None},
           NoneMissed => NoneMissed',
           \/ \A k \in DOMAIN requests' : requests'[k].op \in Kinds =>
                 k \in DOMAIN requests /\ requests'[k] = requests[k]
           \/ \E op : TakeRequest(op),
           \/ \A k \in DOMAIN events' : Aside(events'[k]) =>
                 k \in DOMAIN events /\ events'[k] = events[k]
           \/ \E t : Take(t)
    PROVE  CancelsFind'
<1>1. PICK i \in {0, 1} : SetsFrom(i)
  BY SetsStay
<1>2. PICK n \in {0, 1} : AsidesFrom(n)
  BY AsidesStay
<1>3. srcgone = {} => NoneMissed'
  BY DEF CancelsFind
<1>4. /\ listening \subseteq listening' /\ used \subseteq used' /\ srcgone' = srcgone
      /\ sources = listening => sources' = listening'
  OBVIOUS
<1> QED
  BY <1>1, <1>2, <1>3, <1>4, CancelsStand

\* A source that was cancelled is destroyed: nothing about it is in flight.
LEMMA CancelledStep ==
    ASSUME TypeOK, TypeOK', CancelsFind, OnCancelled
    PROVE  CancelsFind'
<1> SUFFICES ASSUME srcgone = {}
             PROVE  CancelsFind'
  BY DEF CancelsFind, OnCancelled
<1>0. PICK s : s = Head(events).source
  OBVIOUS
<1>1. /\ s \in Source /\ 1 \in DOMAIN events /\ IsCancel(events[1], s) /\ Take("cancelled")
      /\ \A k \in DOMAIN events' :
           k \in Nat /\ k > 0 /\ k + 1 \in DOMAIN events /\ events'[k] = events[k + 1]
  <2>1. Take("cancelled")
    BY DEF OnCancelled
  <2> QED
    BY <1>0, <2>1, EventTaken, EventKinds DEF IsCancel, Aside
<1>2. /\ Used(s) /\ s \in listening /\ sources = listening /\ NoneMissed
      /\ \A j \in DOMAIN events : IsCancel(events[j], s) => j = 1
  BY <1>1 DEF CancelsFind, Used
<1>3. /\ sources' = sources \ {s} /\ listening' = listening \ {s} /\ UNCHANGED <<used, srcgone, raised, owner>>
      /\ requests' = Append(requests, [op |-> "destroy_source", source |-> s])
  BY <1>0, <1>2 DEF OnCancelled, serverVars, ownerVars
<1>4. \A x : x # s /\ Used(x) => x \in used' /\ x \in listening'
  BY <1>3 DEF Used
<1>5. \A x : /\ \A k \in DOMAIN requests' : Sets(requests'[k], x) => k \in DOMAIN requests /\ Sets(requests[k], x)
             /\ \A k \in DOMAIN events' :
                  /\ IsCancel(events'[k], x) => k + 1 \in DOMAIN events /\ IsCancel(events[k + 1], x)
                  /\ IsSend(events'[k], x) => k + 1 \in DOMAIN events /\ IsSend(events[k + 1], x)
  <2>1. [op |-> "destroy_source", source |-> s] \in Request
    BY <1>1, Requesting
  <2>2. \A k \in DOMAIN requests' : \/ k \in DOMAIN requests /\ requests'[k] = requests[k]
                                    \/ requests'[k] = [op |-> "destroy_source", source |-> s]
    BY <1>3, <2>1, SourceAdded
  <2>3. \A x : ~Sets([op |-> "destroy_source", source |-> s], x)
    BY DEF Sets
  <2>4. \A x : \A k \in DOMAIN requests' : Sets(requests'[k], x) => k \in DOMAIN requests /\ Sets(requests[k], x)
    BY <2>2, <2>3 DEF Sets
  <2> QED
    BY <1>1, <2>4
<1>6. /\ \A k \in DOMAIN requests : ~Sets(requests[k], s)
      /\ \A kind \in Kinds : owner[kind] # s
      /\ \A k \in DOMAIN events' : ~IsCancel(events'[k], s) /\ ~IsSend(events'[k], s)
  <2>1. ASSUME NEW k \in DOMAIN requests PROVE ~Sets(requests[k], s)
    BY <1>1 DEF CancelsFind
  <2>2. ASSUME NEW kind \in Kinds PROVE owner[kind] # s
    <3>1. s # None
      BY <1>1
    <3> QED
      BY <1>1, <3>1 DEF CancelsFind
  <2>3. ASSUME NEW k \in DOMAIN events', IsCancel(events'[k], s) PROVE FALSE
    <3>1. k + 1 = 1
      BY <1>2, <1>5, <2>3
    <3> QED
      BY <1>1, <3>1
  <2>4. ASSUME NEW k \in DOMAIN events', IsSend(events'[k], s) PROVE FALSE
    <3>1. k + 1 < 1
      BY <1>1, <1>5, <2>4 DEF CancelsFind
    <3> QED
      BY <1>1, <3>1
  <2> QED
    BY <2>1, <2>2, <2>3, <2>4
<1>7. ASSUME NEW k \in DOMAIN requests', NEW x \in Source, Sets(requests'[k], x)
      PROVE  /\ x \in used' /\ x \in listening'
             /\ \A j \in DOMAIN requests' : Sets(requests'[j], x) => j = k
             /\ \A kind \in Kinds : owner'[kind] # x
             /\ \A j \in DOMAIN events' : ~IsCancel(events'[j], x)
  <2>1. k \in DOMAIN requests /\ Sets(requests[k], x) /\ x # s
    BY <1>5, <1>6, <1>7
  <2>2. /\ Used(x) /\ \A j \in DOMAIN requests : Sets(requests[j], x) => j = k
        /\ \A kind \in Kinds : owner[kind] # x
        /\ \A j \in DOMAIN events : ~IsCancel(events[j], x)
    BY <2>1 DEF CancelsFind
  <2> QED
    BY <1>3, <1>4, <1>5, <2>1, <2>2
<1>8. ASSUME NEW kind \in Kinds, owner'[kind] # None
      PROVE  /\ owner'[kind] \in used' /\ owner'[kind] \in listening'
             /\ \A other \in Kinds : owner'[other] = owner'[kind] => other = kind
             /\ \A j \in DOMAIN events' : ~IsCancel(events'[j], owner'[kind])
  <2>1. /\ Used(owner[kind]) /\ \A other \in Kinds : owner[other] = owner[kind] => other = kind
        /\ \A j \in DOMAIN events : ~IsCancel(events[j], owner[kind])
    BY <1>3, <1>8 DEF CancelsFind
  <2> QED
    BY <1>3, <1>4, <1>5, <1>6, <2>1
<1>9. ASSUME NEW k \in DOMAIN events', NEW x \in Source
      PROVE  /\ IsCancel(events'[k], x) =>
                  /\ x \in used' /\ x \in listening'
                  /\ \A j \in DOMAIN events' : IsCancel(events'[j], x) => j = k
             /\ IsSend(events'[k], x) =>
                  /\ x \in listening'
                  /\ \A j \in DOMAIN events' : IsCancel(events'[j], x) => k < j
  <2>1. ASSUME IsCancel(events'[k], x), NEW j \in DOMAIN events', IsCancel(events'[j], x)
        PROVE  x \in used' /\ x \in listening' /\ j = k
    <3>1. j + 1 = k + 1 /\ Used(x) /\ x # s
      BY <1>5, <1>6, <2>1 DEF CancelsFind
    <3> QED
      BY <1>1, <1>4, <3>1
  <2>2. ASSUME IsSend(events'[k], x)
        PROVE  x \in listening' /\ \A j \in DOMAIN events' : IsCancel(events'[j], x) => k < j
    <3>1. x # s /\ x \in listening /\ \A j \in DOMAIN events : IsCancel(events[j], x) => k + 1 < j
      BY <1>5, <1>6, <2>2 DEF CancelsFind
    <3>2. ASSUME NEW j \in DOMAIN events', IsCancel(events'[j], x) PROVE k < j
      <4>1. k + 1 < j + 1
        BY <1>5, <3>1, <3>2
      <4> QED
        BY <1>1, <4>1
    <3> QED
      BY <1>3, <3>1, <3>2
  <2> QED
    BY <2>1, <2>2
<1>10. sources' = listening' /\ NoneMissed'
  BY <1>2, <1>3 DEF NoneMissed
<1> QED
  BY <1>7, <1>8, <1>9, <1>10, PrimedCancels DEF CancelsFind

\* The application sets a source that was not set before.
LEMMA SetStep ==
    ASSUME TypeOK, TypeOK', CancelsFind, NEW kind \in Kinds, NEW s \in Source \cup {None}, SetOwn(kind, s)
    PROVE  CancelsFind'
<1> SUFFICES ASSUME srcgone = {}
             PROVE  CancelsFind'
  BY DEF CancelsFind, SetOwn
<1>0. PICK n : n = Len(requests) + 1
  OBVIOUS
<1>1. /\ UNCHANGED <<listening, sources, srcgone, raised, owner, events>>
      /\ s = None \/ (s \in listening /\ s \notin used)
      /\ used' = used \cup ({s} \ {None}) /\ requests' = Append(requests, [op |-> kind, source |-> s])
  BY DEF SetOwn, serverVars, ownerVars
<1>2. /\ \A k \in DOMAIN requests' : \/ k \in DOMAIN requests /\ requests'[k] = requests[k] /\ k # n
                                     \/ k = n
      /\ requests'[n] = [op |-> kind, source |-> s]
  <2>1. [op |-> kind, source |-> s] \in Request
    BY Requesting
  <2>2. \A k \in DOMAIN requests : k < n => k # n
    BY <1>0, Messages
  <2> QED
    BY <1>0, <1>1, <2>1, <2>2, SourceAdded
<1>3. \A x : Sets(requests'[n], x) <=> x = s
  BY <1>2 DEF Sets
<1>4. \A x : \A k \in DOMAIN requests' :
         Sets(requests'[k], x) => \/ k \in DOMAIN requests /\ Sets(requests[k], x)
                                  \/ k = n /\ x = s
  BY <1>2, <1>3
<1>5. \A x : Used(x) => x \in used' /\ x \in listening'
  BY <1>1 DEF Used
<1>6. s \in Source => /\ ~Used(s) /\ s \in used' /\ s \in listening'
                      /\ \A x \in Kinds : owner[x] # s
                      /\ \A j \in DOMAIN events : ~IsCancel(events[j], s)
                      /\ \A k \in DOMAIN requests : ~Sets(requests[k], s)
  <2> SUFFICES ASSUME s \in Source
               PROVE  /\ ~Used(s) /\ s \in used' /\ s \in listening'
                      /\ \A x \in Kinds : owner[x] # s
                      /\ \A j \in DOMAIN events : ~IsCancel(events[j], s)
                      /\ \A k \in DOMAIN requests : ~Sets(requests[k], s)
    OBVIOUS
  <2>1. s # None
    OBVIOUS
  <2>2. ~Used(s) /\ s \in used' /\ s \in listening'
    BY <1>1, <2>1 DEF Used
  <2> QED
    BY <2>1, <2>2 DEF CancelsFind
<1>7. ASSUME NEW k \in DOMAIN requests', NEW x \in Source, Sets(requests'[k], x)
      PROVE  /\ x \in used' /\ x \in listening'
             /\ \A j \in DOMAIN requests' : Sets(requests'[j], x) => j = k
             /\ \A y \in Kinds : owner'[y] # x
             /\ \A j \in DOMAIN events' : ~IsCancel(events'[j], x)
  <2>1. CASE k \in DOMAIN requests /\ Sets(requests[k], x)
    <3>1. /\ Used(x) /\ \A j \in DOMAIN requests : Sets(requests[j], x) => j = k
          /\ \A y \in Kinds : owner[y] # x
          /\ \A j \in DOMAIN events : ~IsCancel(events[j], x)
      BY <2>1 DEF CancelsFind
    <3>2. x # s
      BY <1>6, <3>1
    <3> QED
      BY <1>1, <1>4, <1>5, <3>1, <3>2
  <2>2. CASE k = n /\ x = s
    BY <1>1, <1>4, <1>6, <2>2
  <2> QED
    BY <1>4, <1>7, <2>1, <2>2
<1>8. ASSUME NEW y \in Kinds, owner'[y] # None
      PROVE  /\ owner'[y] \in used' /\ owner'[y] \in listening'
             /\ \A other \in Kinds : owner'[other] = owner'[y] => other = y
             /\ \A j \in DOMAIN events' : ~IsCancel(events'[j], owner'[y])
  <2>1. /\ Used(owner[y]) /\ \A other \in Kinds : owner[other] = owner[y] => other = y
        /\ \A j \in DOMAIN events : ~IsCancel(events[j], owner[y])
    BY <1>1, <1>8 DEF CancelsFind
  <2> QED
    BY <1>1, <1>5, <2>1
<1>9. ASSUME NEW k \in DOMAIN events', NEW x \in Source
      PROVE  /\ IsCancel(events'[k], x) =>
                  /\ x \in used' /\ x \in listening'
                  /\ \A j \in DOMAIN events' : IsCancel(events'[j], x) => j = k
             /\ IsSend(events'[k], x) =>
                  /\ x \in listening'
                  /\ \A j \in DOMAIN events' : IsCancel(events'[j], x) => k < j
  <2>1. events' = events /\ listening' = listening
    BY <1>1
  <2>2. /\ IsCancel(events[k], x) => Used(x) /\ \A j \in DOMAIN events : IsCancel(events[j], x) => j = k
        /\ IsSend(events[k], x) =>
             x \in listening /\ \A j \in DOMAIN events : IsCancel(events[j], x) => k < j
    BY <2>1 DEF CancelsFind
  <2> QED
    BY <1>5, <2>1, <2>2
<1>10. sources' = listening' /\ NoneMissed'
  BY <1>1 DEF NoneMissed, CancelsFind
<1> QED
  BY <1>7, <1>8, <1>9, <1>10, PrimedCancels DEF CancelsFind

LEMMA PasteStep ==
    ASSUME TypeOK, TypeOK', CancelsFind, NEW kind \in Kinds, Paste(kind)
    PROVE  CancelsFind'
<1> SUFFICES ASSUME srcgone = {}
             PROVE  CancelsFind'
  BY DEF CancelsFind, Paste, clientVars, sourceVars
<1>0. PICK s, n : s = owner[kind] /\ n = Len(events) + 1
  OBVIOUS
<1>1. /\ s \in Source /\ owner[kind] # None
      /\ UNCHANGED <<sources, listening, used, srcgone, raised, requests, owner>>
      /\ events' = Append(events, [ev |-> "send", source |-> s])
  BY <1>0 DEF Paste, TypeOK, clientVars, sourceVars, serverVars, ownerVars
<1>2. /\ \A k \in DOMAIN events' : \/ k \in DOMAIN events /\ events'[k] = events[k]
                                   \/ k = n
      /\ events'[n] = [ev |-> "send", source |-> s] /\ n \in Nat
  <2>1. [ev |-> "send", source |-> s] \in Event /\ events \in Seq(Event)
    BY <1>1, Announcing, Messages
  <2>2. /\ Len(events) \in Nat /\ DOMAIN events = 1..Len(events)
        /\ DOMAIN events' = 1..(Len(events) + 1)
        /\ \A k \in DOMAIN events : events'[k] = events[k]
        /\ events'[Len(events) + 1] = [ev |-> "send", source |-> s]
    BY <1>1, <2>1, Adding
  <2> QED
    BY <1>0, <2>2
<1>3. /\ Used(s) /\ s \in listening /\ \A j \in DOMAIN events : ~IsCancel(events[j], s)
      /\ NoneMissed /\ sources = listening
  BY <1>0, <1>1 DEF CancelsFind, Used
<1>4. \A x : ~IsCancel(events'[n], x) /\ (IsSend(events'[n], x) <=> x = s)
  BY <1>2 DEF IsCancel, IsSend
<1>5. \A x : \A k \in DOMAIN events' :
         /\ IsCancel(events'[k], x) => k \in DOMAIN events /\ IsCancel(events[k], x)
         /\ IsSend(events'[k], x) => \/ k \in DOMAIN events /\ IsSend(events[k], x)
                                     \/ x = s
  BY <1>2, <1>4
<1>6. \A x : Used(x) => x \in used' /\ x \in listening'
  BY <1>1 DEF Used
<1>7. ASSUME NEW k \in DOMAIN requests', NEW x \in Source, Sets(requests'[k], x)
      PROVE  /\ x \in used' /\ x \in listening'
             /\ \A j \in DOMAIN requests' : Sets(requests'[j], x) => j = k
             /\ \A y \in Kinds : owner'[y] # x
             /\ \A j \in DOMAIN events' : ~IsCancel(events'[j], x)
  <2>1. requests' = requests /\ owner' = owner
    BY <1>1
  <2>2. /\ Used(x) /\ \A j \in DOMAIN requests : Sets(requests[j], x) => j = k
        /\ \A y \in Kinds : owner[y] # x
        /\ \A j \in DOMAIN events : ~IsCancel(events[j], x)
    BY <1>7, <2>1 DEF CancelsFind
  <2> QED
    BY <1>5, <1>6, <2>1, <2>2
<1>8. ASSUME NEW y \in Kinds, owner'[y] # None
      PROVE  /\ owner'[y] \in used' /\ owner'[y] \in listening'
             /\ \A other \in Kinds : owner'[other] = owner'[y] => other = y
             /\ \A j \in DOMAIN events' : ~IsCancel(events'[j], owner'[y])
  <2>1. /\ Used(owner[y]) /\ \A other \in Kinds : owner[other] = owner[y] => other = y
        /\ \A j \in DOMAIN events : ~IsCancel(events[j], owner[y])
    BY <1>1, <1>8 DEF CancelsFind
  <2> QED
    BY <1>1, <1>5, <1>6, <2>1
<1>9. ASSUME NEW k \in DOMAIN events', NEW x \in Source
      PROVE  /\ IsCancel(events'[k], x) =>
                  /\ x \in used' /\ x \in listening'
                  /\ \A j \in DOMAIN events' : IsCancel(events'[j], x) => j = k
             /\ IsSend(events'[k], x) =>
                  /\ x \in listening'
                  /\ \A j \in DOMAIN events' : IsCancel(events'[j], x) => k < j
  <2>1. ASSUME IsCancel(events'[k], x), NEW j \in DOMAIN events', IsCancel(events'[j], x)
        PROVE  x \in used' /\ x \in listening' /\ j = k
    BY <1>5, <1>6, <2>1 DEF CancelsFind
  <2>2. ASSUME IsSend(events'[k], x)
        PROVE  x \in listening' /\ \A j \in DOMAIN events' : IsCancel(events'[j], x) => k < j
    <3>1. CASE x = s
      BY <1>1, <1>3, <1>5, <3>1
    <3>2. CASE k \in DOMAIN events /\ IsSend(events[k], x)
      BY <1>1, <1>5, <3>2 DEF CancelsFind
    <3> QED
      BY <1>5, <2>2, <3>1, <3>2
  <2> QED
    BY <2>1, <2>2
<1>10. sources' = listening' /\ NoneMissed'
  BY <1>1, <1>3 DEF NoneMissed
<1> QED
  BY <1>7, <1>8, <1>9, <1>10, PrimedCancels DEF CancelsFind

\* A source becomes a selection, unless the compositor rejects that.
LEMMA OwnStep ==
    ASSUME TypeOK, TypeOK', CancelsFind, NEW kind \in Kinds, ServeSet(kind)
    PROVE  CancelsFind'
<1>0. PICK s : s = requests[1].source
  OBVIOUS
<1>1. /\ TakeRequest(kind) /\ Head(requests) = requests[1] /\ 1 \in DOMAIN requests
      /\ s \in Source \cup {None} /\ Sets(requests[1], s)
      /\ UNCHANGED <<sources, listening, used, srcgone, raised>>
      /\ \A k \in DOMAIN requests' :
           k \in Nat /\ k > 0 /\ k + 1 \in DOMAIN requests /\ requests'[k] = requests[k + 1]
  BY <1>0, RequestTaken, RequestKinds DEF ServeSet, Sets, clientVars, sourceVars
<1>2. CASE UNCHANGED <<owner, events>>
  <2>1. /\ \A x \in Kinds : owner'[x] \in {owner[x], None}
        /\ \A k \in DOMAIN events' : Aside(events'[k]) => k \in DOMAIN events /\ events'[k] = events[k]
    BY <1>2
  <2> QED
    BY <1>1, <2>1, CancelsStay DEF NoneMissed
<1>3. CASE owner' = [owner EXCEPT ![kind] = s] /\ events' = events \o Cancel(kind)
  <2>1. PICK i \in {0, 1} : SetsFrom(i)
    BY <1>1, SetsStay
  <2>2. /\ \A k \in DOMAIN events : k \in DOMAIN events' /\ events'[k] = events[k]
        /\ \A k \in DOMAIN events' : Aside(events'[k]) =>
              \/ k \in DOMAIN events
              \/ k = Len(events) + 1 /\ owner[kind] # None /\ IsCancel(events'[k], owner[kind])
    <3> DEFINE a == Cancel(kind)
    <3>1. /\ a \in Seq(Event) /\ Len(a) = (IF owner[kind] = None THEN 0 ELSE 1)
          /\ owner[kind] # None => IsCancel(a[1], owner[kind])
      BY Cancelling DEF IsCancel
    <3>2. events' = events \o a
      BY <1>3
    <3> HIDE DEF a
    <3>3. /\ Len(events) \in Nat /\ DOMAIN events = 1..Len(events)
          /\ Len(a) \in Nat /\ DOMAIN a = 1..Len(a)
          /\ DOMAIN events' = 1..(Len(events) + Len(a))
          /\ \A k \in DOMAIN events : k \in DOMAIN events' /\ events'[k] = events[k]
          /\ \A k \in DOMAIN a : events'[Len(events) + k] = a[k]
      BY <3>1, <3>2, EventsAdded
    <3>4. ASSUME NEW k \in DOMAIN events', k \notin DOMAIN events
          PROVE  k = Len(events) + 1 /\ owner[kind] # None /\ IsCancel(events'[k], owner[kind])
      <4>1. owner[kind] # None /\ k = Len(events) + 1 /\ 1 \in DOMAIN a
        BY <3>1, <3>3, <3>4
      <4> QED
        BY <3>1, <3>3, <4>1
    <3> QED
      BY <3>3, <3>4
  <2>3. srcgone = {} /\ s # None =>
              /\ Used(s) /\ \A x \in Kinds : owner[x] # s
              /\ \A j \in DOMAIN events : ~IsCancel(events[j], s)
              /\ \A k \in DOMAIN requests' : ~Sets(requests'[k], s)
    <3> SUFFICES ASSUME srcgone = {}, s # None
                 PROVE  /\ Used(s) /\ \A x \in Kinds : owner[x] # s
                        /\ \A j \in DOMAIN events : ~IsCancel(events[j], s)
                        /\ \A k \in DOMAIN requests' : ~Sets(requests'[k], s)
      OBVIOUS
    <3>1. /\ Used(s) /\ \A x \in Kinds : owner[x] # s
          /\ \A j \in DOMAIN events : ~IsCancel(events[j], s)
          /\ \A j \in DOMAIN requests : Sets(requests[j], s) => j = 1
      BY <1>1 DEF CancelsFind
    <3>2. ASSUME NEW k \in DOMAIN requests', Sets(requests'[k], s) PROVE FALSE
      <4>1. k + 1 = 1 /\ k \in Nat /\ k > 0
        BY <1>1, <3>1, <3>2
      <4> QED
        BY <4>1
    <3> QED
      BY <3>1, <3>2
  <2> QED
    BY <1>1, <1>3, <2>1, <2>2, <2>3, OwnerReplaced
<1> QED
  BY <1>0, <1>1, <1>2, <1>3 DEF ServeSet

\* A selection of another client, or none, cancels the source that was it.
LEMMA OwnerTold ==
    ASSUME TypeOK, TypeOK', CancelsFind, NEW kind \in Kinds, NEW c \in {0, 1},
           UNCHANGED <<sources, listening, used, srcgone, raised, requests>>,
           \A k \in DOMAIN events : k \in DOMAIN events' /\ events'[k] = events[k],
           \A k \in DOMAIN events' : Aside(events'[k]) =>
              k \in DOMAIN events \/ (c = 1 /\ k = Len(events) + 1),
           c = 1 => owner[kind] # None /\ IsCancel(events'[Len(events) + 1], owner[kind]),
           \/ c = 0 /\ owner' = owner
           \/ owner' = [owner EXCEPT ![kind] = None]
    PROVE  CancelsFind'
<1>1. PICK i \in {0, 1} : SetsFrom(i)
  BY SetsStay
<1>2. CASE owner' = [owner EXCEPT ![kind] = None]
  BY <1>1, <1>2, OwnerReplaced
<1>3. CASE c = 0 /\ owner' = owner
  <2>1. NoneMissed => NoneMissed'
    BY DEF NoneMissed
  <2> QED
    BY <1>3, <2>1, CancelsStay
<1> QED
  BY <1>2, <1>3

LEMMA CancelsKept ==
    ASSUME TypeOK, TypeOK', TableFinite, SourcesAccounted, CancelsFind, [Next]_vars
    PROVE  CancelsFind'
<1> USE DEF clientVars, offerVars, sourceVars, serverVars, ownerVars
<1> DEFINE SetsKeep == \A k \in DOMAIN requests' : requests'[k].op \in Kinds =>
                          k \in DOMAIN requests /\ requests'[k] = requests[k]
           AsidesKeep == \A k \in DOMAIN events' : Aside(events'[k]) =>
                          k \in DOMAIN events /\ events'[k] = events[k]
<1>1. ASSUME NEW m \in Request, m.op \notin Kinds, requests' = Append(requests, m)
      PROVE  SetsKeep
  BY <1>1, SourceAdded
<1>2. requests' = requests => SetsKeep
  OBVIOUS
<1>3. events' = events => AsidesKeep
  OBVIOUS
<1>4. owner' = owner => \A kind \in Kinds : owner'[kind] \in {owner[kind], None}
  OBVIOUS
<1>5. CASE OnDataOffer
  <2>1. Take("data_offer") /\ requests' = requests /\ UNCHANGED <<sources, listening, used, srcgone, owner>>
    BY <1>5 DEF OnDataOffer, Fail
  <2>2. raised' \subseteq raised \cup {"installed"}
    BY <1>5 DEF OnDataOffer, Fail
  <2>3. NoneMissed => NoneMissed'
    BY <2>2 DEF NoneMissed
  <2> QED
    BY <1>2, <1>4, <2>1, <2>3, CancelsStay
<1>6. ASSUME NEW kind \in Kinds, OnSelection(kind) PROVE CancelsFind'
  <2>1. Take(kind) /\ UNCHANGED <<sources, listening, used, srcgone, owner>>
    BY <1>6 DEF OnSelection
  <2>2. SetsKeep
    <3>1. current[kind] \in Offer \cup {NoOffer}
      BY DEF TypeOK
    <3>2. current[kind] # NoOffer =>
             DestroyOffer(current[kind]) \in Request /\ DestroyOffer(current[kind]).op \notin Kinds
      BY <3>1, Requesting DEF DestroyOffer
    <3>3. \/ requests' = requests
          \/ current[kind] # NoOffer /\ requests' = Append(requests, DestroyOffer(current[kind]))
      BY <1>6 DEF OnSelection, Fail, SetSelection
    <3> HIDE DEF SetsKeep
    <3> QED
      BY <1>1, <1>2, <3>2, <3>3
  <2>3. raised' = raised \/ raised' \subseteq {"invalid", "not in table", "not attached"}
    BY <1>6, Zenon DEF OnSelection, Fail, SetSelection
  <2>4. NoneMissed => NoneMissed'
    BY <2>3 DEF NoneMissed
  <2> QED
    BY <1>4, <2>1, <2>2, <2>4, CancelsStay
<1>7. CASE OnFinished
  <2>1. PICK n \in Nat : \E m \in 0..n : \E order \in [1..n -> DOMAIN offers] : EndsAfter(n, m, order)
    BY <1>7, DeviceEnded
  <2>2. PICK m \in 0..n : \E order \in [1..n -> DOMAIN offers] : EndsAfter(n, m, order)
    BY <2>1
  <2>3. PICK order \in [1..n -> DOMAIN offers] : EndsAfter(n, m, order)
    BY <2>2
  <2>4. Take("finished") /\ UNCHANGED <<sources, listening, used, srcgone, owner>>
    BY <1>7 DEF OnFinished
  <2>5. Len(requests) \in Nat /\ DOMAIN requests = 1..Len(requests)
    BY Messages
  <2>6. \A k \in DOMAIN requests : k \in DOMAIN requests' /\ requests'[k] = requests[k]
    BY <2>3 DEF EndsAfter
  <2>7. /\ \/ DOMAIN requests' = 1..(Len(requests) + m)
           \/ /\ DOMAIN requests' = 1..(Len(requests) + m + 1)
              /\ requests'[Len(requests) + m + 1] = [op |-> "destroy_device"]
        /\ \A k \in 1..m : requests'[Len(requests) + k] = DestroyOffer(offers[order[k]])
    BY <2>3, Zenon DEF EndsAfter
  <2>8. ASSUME NEW k \in DOMAIN requests', requests'[k].op \in Kinds PROVE k \in DOMAIN requests
    <3> SUFFICES ASSUME k \notin DOMAIN requests PROVE FALSE
      OBVIOUS
    <3>1. k \in Int /\ (k - Len(requests) \in 1..m \/ requests'[k] = [op |-> "destroy_device"])
      BY <2>5, <2>7, <2>8
    <3>2. CASE k - Len(requests) \in 1..m
      <4>1. /\ requests'[Len(requests) + (k - Len(requests))] = DestroyOffer(offers[order[k - Len(requests)]])
            /\ Len(requests) + (k - Len(requests)) = k
        BY <2>5, <2>7, <3>1, <3>2
      <4> QED
        BY <2>8, <4>1 DEF DestroyOffer
    <3> QED
      BY <2>8, <3>1, <3>2
  <2>9. SetsKeep
    BY <2>6, <2>8
  <2>10. NoneMissed => NoneMissed'
    <3>1. raised' = raised \/ raised' = {"not attached"}
      BY <2>3, Zenon DEF EndsAfter
    <3>2. raised' \subseteq raised \cup {"not attached"}
      BY <3>1
    <3> QED
      BY <3>2 DEF NoneMissed
  <2> QED
    BY <1>4, <2>4, <2>9, <2>10, CancelsStay
<1>8. CASE OnCancelled
  BY <1>8, CancelledStep
<1>9. CASE OnSend
  <2>1. Take("send") /\ requests' = requests /\ UNCHANGED <<sources, listening, used, srcgone, owner>>
    BY <1>9 DEF OnSend
  <2>2. PICK i \in {0, 1} : SetsFrom(i)
    BY <1>2, <2>1, SetsStay
  <2>3. PICK n \in {0, 1} : AsidesFrom(n)
    BY <2>1, AsidesStay
  <2>4. srcgone = {} => NoneMissed'
    <3> SUFFICES ASSUME srcgone = {} PROVE NoneMissed'
      OBVIOUS
    <3>1. 1 \in DOMAIN events /\ IsSend(events[1], Head(events).source) /\ Head(events).source \in Source
      BY <2>1, EventTaken, EventKinds DEF IsSend, Aside
    <3>2. Head(events).source \in listening
      BY <3>1 DEF CancelsFind
    <3>3. raised' = {"fd"}
      BY <1>9, <3>2, Zenon DEF OnSend
    <3> QED
      BY <3>3 DEF NoneMissed
  <2> QED
    BY <1>4, <2>1, <2>2, <2>3, <2>4, CancelsStand
<1>10. ASSUME NEW o \in Offer, AppDestroy(o) PROVE CancelsFind'
  <2>1. /\ DestroyOffer(o) \in Request /\ DestroyOffer(o).op \notin Kinds
        /\ requests' = Append(requests, DestroyOffer(o))
        /\ UNCHANGED <<sources, listening, used, srcgone, owner, raised, events>>
    BY <1>10, Requesting DEF AppDestroy, DestroyOffer
  <2> QED
    BY <1>1, <1>3, <1>4, <2>1, CancelsStay DEF NoneMissed
<1>11. ASSUME NEW s \in Source, CreateSource(s) PROVE CancelsFind'
  <2>1. /\ [op |-> "create_source", source |-> s] \in Request
        /\ [op |-> "create_source", source |-> s].op \notin Kinds
        /\ requests' = Append(requests, [op |-> "create_source", source |-> s])
        /\ UNCHANGED <<used, srcgone, owner, raised, events>>
        /\ listening' = listening \cup {s} /\ sources' = sources \cup {s}
    BY <1>11, Requesting DEF CreateSource
  <2>2. PICK i \in {0, 1} : SetsFrom(i)
    BY <1>1, <2>1, SetsStay
  <2>3. PICK n \in {0, 1} : AsidesFrom(n)
    BY <1>3, <2>1, AsidesStay
  <2>4. srcgone = {} => NoneMissed'
    BY <2>1 DEF NoneMissed, CancelsFind
  <2>5. listening \subseteq listening' /\ (sources = listening => sources' = listening')
    BY <2>1
  <2> QED
    BY <1>4, <2>1, <2>2, <2>3, <2>4, <2>5, CancelsStand
<1>12. ASSUME NEW s \in Source, DestroySource(s) PROVE CancelsFind'
  <2>1. srcgone' # {}
    BY <1>12 DEF DestroySource
  <2> QED
    BY <2>1 DEF CancelsFind
<1>13. ASSUME NEW kind \in Kinds, NEW s \in Source \cup {None}, SetOwn(kind, s) PROVE CancelsFind'
  BY <1>13, SetStep
<1>14. CASE ServeDestroyOffer \/ ServeDestroyDevice \/ ServeCreateSource
  <2>1. /\ \E op : TakeRequest(op)
        /\ UNCHANGED <<sources, listening, used, srcgone, owner, raised, events>>
    BY <1>14 DEF ServeDestroyOffer, ServeDestroyDevice, ServeCreateSource
  <2> QED
    BY <1>3, <1>4, <2>1, CancelsStay DEF NoneMissed
<1>15. CASE ServeDestroySource
  <2>1. /\ TakeRequest("destroy_source")
        /\ UNCHANGED <<sources, listening, used, srcgone, raised, events>>
        /\ owner' = [k \in Kinds |-> IF owner[k] = Head(requests).source THEN None ELSE owner[k]]
    BY <1>15 DEF ServeDestroySource
  <2>2. \A kind \in Kinds : owner'[kind] \in {owner[kind], None}
    BY <2>1
  <2> QED
    BY <1>3, <2>1, <2>2, CancelsStay DEF NoneMissed
<1>16. ASSUME NEW kind \in Kinds, ServeSet(kind) PROVE CancelsFind'
  BY <1>16, OwnStep
<1>17. ASSUME NEW kind \in Kinds, NEW id \in OfferIds, Choose(kind, id) PROVE CancelsFind'
  <2>0. PICK o : o = [id |-> id, gen |-> gens + 1]
    OBVIOUS
  <2>1. PICK c \in {0, 1} :
             /\ DOMAIN events' = 1..(Len(events) + c + 2)
             /\ \A k \in DOMAIN events : k \in DOMAIN events' /\ events'[k] = events[k]
             /\ c = 1 => owner[kind] # None /\ IsCancel(events'[Len(events) + 1], owner[kind])
             /\ events'[Len(events) + c + 1] = [ev |-> "data_offer", offer |-> o]
             /\ events'[Len(events) + c + 2] = [ev |-> kind, offer |-> o]
             /\ \/ c = 0 /\ owner' = owner
                \/ owner' = [owner EXCEPT ![kind] = None] /\ (c = 0 => owner[kind] = None)
    BY <1>17, <2>0, ChooseSends
  <2>2. UNCHANGED <<sources, listening, used, srcgone, raised, requests>>
    BY <1>17 DEF Choose
  <2>3. \A k \in DOMAIN events' : Aside(events'[k]) =>
              k \in DOMAIN events \/ (c = 1 /\ k = Len(events) + 1)
    <3>1. Len(events) \in Nat /\ DOMAIN events = 1..Len(events)
      BY Messages
    <3>2. \A k \in DOMAIN events' : \/ k \in DOMAIN events
                                    \/ c = 1 /\ k = Len(events) + 1
                                    \/ k = Len(events) + c + 1
                                    \/ k = Len(events) + c + 2
      BY <2>1, <3>1
    <3>3. ~Aside([ev |-> "data_offer", offer |-> o]) /\ ~Aside([ev |-> kind, offer |-> o])
      BY DEF Aside
    <3> QED
      BY <2>1, <3>2, <3>3
  <2> QED
    BY <2>1, <2>2, <2>3, OwnerTold
<1>18. ASSUME NEW kind \in Kinds, Clear(kind) PROVE CancelsFind'
  <2>1. PICK c \in {0, 1} :
             /\ DOMAIN events' = 1..(Len(events) + c + 1)
             /\ \A k \in DOMAIN events : k \in DOMAIN events' /\ events'[k] = events[k]
             /\ c = 1 => owner[kind] # None /\ IsCancel(events'[Len(events) + 1], owner[kind])
             /\ events'[Len(events) + c + 1] = [ev |-> kind, offer |-> NoOffer]
             /\ c = 0 => owner[kind] = None
    BY <1>18, ClearSends
  <2>2. /\ UNCHANGED <<sources, listening, used, srcgone, raised, requests>>
        /\ owner' = [owner EXCEPT ![kind] = None]
    BY <1>18 DEF Clear
  <2>3. \A k \in DOMAIN events' : Aside(events'[k]) =>
              k \in DOMAIN events \/ (c = 1 /\ k = Len(events) + 1)
    <3>1. Len(events) \in Nat /\ DOMAIN events = 1..Len(events)
      BY Messages
    <3>2. \A k \in DOMAIN events' : \/ k \in DOMAIN events
                                    \/ c = 1 /\ k = Len(events) + 1
                                    \/ k = Len(events) + c + 1
      BY <2>1, <3>1
    <3>3. ~Aside([ev |-> kind, offer |-> NoOffer])
      BY DEF Aside
    <3> QED
      BY <2>1, <3>2, <3>3
  <2> QED
    BY <2>1, <2>2, <2>3, OwnerTold
<1>19. CASE Finish
  <2>1. /\ UNCHANGED <<sources, listening, used, srcgone, raised, requests, owner>>
        /\ events' = Append(events, [ev |-> "finished"])
    BY <1>19 DEF Finish
  <2>2. AsidesKeep
    <3>1. [ev |-> "finished"] \in Event /\ events \in Seq(Event) /\ ~Aside([ev |-> "finished"])
      BY Announcing, Messages DEF Aside
    <3>2. \A k \in DOMAIN events' : \/ k \in DOMAIN events /\ events'[k] = events[k]
                                    \/ events'[k] = [ev |-> "finished"]
      BY <2>1, <3>1, Adding
    <3> QED
      BY <3>1, <3>2
  <2> QED
    BY <1>2, <1>4, <2>1, <2>2, CancelsStay DEF NoneMissed
<1>20. ASSUME NEW kind \in Kinds, Paste(kind) PROVE CancelsFind'
  BY <1>20, PasteStep
<1>21. CASE UNCHANGED vars
  <2>1. UNCHANGED <<sources, listening, used, srcgone, raised, requests, owner, events>>
    BY <1>21 DEF vars
  <2> QED
    BY <1>2, <1>3, <1>4, <2>1, CancelsStay DEF NoneMissed
<1> QED
  BY <1>5, <1>6, <1>7, <1>8, <1>9, <1>10, <1>11, <1>12, <1>13, <1>14, <1>15, <1>16, <1>17, <1>18,
     <1>19, <1>20, <1>21
  DEF Next, Dispatch, Application, Serve, Compositor

LEMMA SourcesInitially == Init => SourceInv
<1> SUFFICES ASSUME Init PROVE SourceInv
  OBVIOUS
<1>1. requests = <<>> /\ events = <<>> /\ DOMAIN requests = {} /\ DOMAIN events = {}
  BY DEF Init
<1>2. SourcesAccounted
  <2>1. Made = {}
    BY DEF Init, Made
  <2> QED
    BY <1>1, <2>1 DEF Init, SourcesAccounted
<1>3. RejectedKnown
  <2>1. has_device /\ rejected = {}
    BY DEF Init
  <2> QED
    BY <1>1, <2>1 DEF RejectedKnown
<1>4. CancelsFind
  <2>1. \A kind \in Kinds : owner[kind] = None
    BY DEF Init
  <2>2. sources = listening /\ NoneMissed
    BY DEF Init, NoneMissed
  <2> QED
    BY <1>1, <2>1, <2>2 DEF CancelsFind
<1> QED
  BY <1>2, <1>3, <1>4 DEF SourceInv

LEMMA TypesInitially == Init => TypeOK
<1> SUFFICES ASSUME Init PROVE TypeOK
  OBVIOUS
<1>1. requests \in Seq(Request) /\ events \in Seq(Event)
  BY DEF Init
<1>2. /\ \A id \in DOMAIN offers : offers[id] \in Offer
      /\ current \in [Kinds -> Offer \cup {NoOffer}] /\ chosen \in [Kinds -> Offer \cup {NoOffer}]
      /\ owner \in [Kinds -> Source \cup {None}]
  BY DEF Init
<1>3. gens \in Nat /\ nsources \in Nat /\ gens + nsources <= MaxMade
  BY OffersAssumption DEF Init
<1> QED
  BY <1>1, <1>2, <1>3 DEF Init, TypeOK

\* Every reachable state: offers and sources are all accounted for, on both sides and
\* on their way between them.
THEOREM SelectionsAccounted == Spec => []SelectionsInv
<1>1. Init => SelectionsInv
  BY TypesInitially, OffersInitially, MeantInitially, SourcesInitially DEF SelectionsInv
<1>2. SelectionsInv /\ [Next]_vars => SelectionsInv'
  <2> SUFFICES ASSUME SelectionsInv, [Next]_vars
               PROVE  SelectionsInv'
    OBVIOUS
  <2>1. TypeOK /\ OfferInv /\ MeantInv /\ SourcesAccounted /\ RejectedKnown /\ CancelsFind /\ TableFinite
    BY DEF SelectionsInv, SourceInv, OfferInv
  <2>2. TableKeyed /\ MeantInv'
    BY <2>1, MeantKept DEF MeantInv
  <2>3. TypeOK'
    BY <2>1, TypesKept
  <2>4. OfferInv'
    BY <2>1, <2>3, <2>2, OffersKept
  <2>5. SourcesAccounted'
    BY <2>1, <2>3, SourcesAccountedKept
  <2>6. RejectedKnown'
    <3>1. "offer" \notin rejected'
      BY <2>4 DEF OfferInv, DestroyedOnce
    <3> QED
      BY <2>1, <2>3, <3>1, RejectedKept
  <2>7. CancelsFind'
    BY <2>1, <2>3, CancelsKept
  <2> QED
    BY <2>3, <2>4, <2>5, <2>6, <2>7, <2>2 DEF SelectionsInv, SourceInv
<1> QED
  BY <1>1, <1>2, PTL DEF Spec

\* While the application destroys no offer itself, the connection's handlers, the table
\* of the device and its two attributes agree (on_data_offer, _set_selection).
THEOREM PlacesAlwaysAgree == Spec => []PlacesAgree
<1>1. SelectionsInv => PlacesAgree
  <2> SUFFICES ASSUME TypeOK, PlacesFollow
               PROVE  PlacesAgree
    BY DEF SelectionsInv, OfferInv
  <2>1. ASSUME Running, device, appgone = {}
        PROVE  /\ Range(offers) = handlers
               /\ \A id \in DOMAIN offers : offers[id].id = id
               /\ Range(current) \subseteq handlers \cup {NoOffer}
               /\ current["selection"] = current["primary"] => current["selection"] = NoOffer
    BY <2>1 DEF PlacesFollow
  <2> QED
    BY <2>1 DEF PlacesAgree
<1> QED
  BY <1>1, SelectionsAccounted, PTL

\* Once everything has arrived the client has the compositor's selections, and no other
\* offer is left on either side.
THEOREM SelectionsArrive == Spec => []SelectionsAgree
<1>1. SelectionsInv => SelectionsAgree
  <2> SUFFICES ASSUME SelectionsInv, Running, requests = <<>>, events = <<>>, appgone = {}
               PROVE  IF device
                      THEN current = chosen /\ handlers = resources /\ resources = Range(chosen) \ {NoOffer}
                      ELSE handlers = {} /\ resources = {}
    BY DEF SelectionsAgree
  <2>1. DOMAIN requests = {} /\ DOMAIN events = {}
    OBVIOUS
  <2>2. handlers = resources
    BY <2>1 DEF SelectionsInv, OfferInv, OffersAccounted, Introduced, Destroyed
  <2>3. CASE device
    <3>1. \A kind \in Kinds : current[kind] = chosen[kind]
      BY <2>1, <2>3 DEF SelectionsInv, OfferInv, ChosenFollows
    <3>2. current \in [Kinds -> Offer \cup {NoOffer}] /\ chosen \in [Kinds -> Offer \cup {NoOffer}]
      BY DEF SelectionsInv, TypeOK
    <3>3. current = chosen
      BY <3>1, <3>2
    <3>4. Waiting = {}
      BY <2>1 DEF Waiting
    <3>5. handlers = Range(current) \ {NoOffer}
      BY <2>3, <3>4 DEF SelectionsInv, OfferInv, PlacesFollow
    <3> QED
      BY <2>2, <2>3, <3>3, <3>5
  <2>4. CASE ~device
    <3>1. handlers = {}
      BY <2>4 DEF SelectionsInv, OfferInv, PlacesFollow
    <3> QED
      BY <2>2, <2>4, <3>1
  <2> QED
    BY <2>3, <2>4
<1> QED
  BY <1>1, SelectionsAccounted, PTL

\* Every destroy() of an offer reaches the compositor while that has one of its id, and
\* ends the offer it was called on, unless the application has destroyed one of that id
\* itself (destroy, _set_selection, on_finished).  The device finds its tables in
\* disagreement only after the application has destroyed an offer that was a selection.
THEOREM FailuresAreTheApplications == Spec => []FailsOnlyAfterAppDestroy
<1>1. SelectionsInv => FailsOnlyAfterAppDestroy
  <2> SUFFICES ASSUME SelectionsInv
               PROVE  FailsOnlyAfterAppDestroy
    OBVIOUS
  <2>1. \A o \in astray : \E a \in appgone : a.id = o.id
    BY DEF SelectionsInv, MeantInv, AstrayKnown, Clean
  <2> QED
    BY <2>1 DEF SelectionsInv, OfferInv, DestroyedOnce, FailuresKnown, FailsOnlyAfterAppDestroy
<1> QED
  BY <1>1, SelectionsAccounted, PTL

\* The manager's table, the handlers and the compositor have the same sources, requests
\* are rejected for the two reasons named only, and an event misses its source only if
\* the application has destroyed that (create_data_source, on_cancelled).
THEOREM SourcesMatch == Spec => []SourcesAgree
<1>1. SelectionsInv => SourcesAgree
  <2> SUFFICES ASSUME SelectionsInv
               PROVE  SourcesAgree
    OBVIOUS
  <2>1. srcgone = {} => sources = listening /\ NoneMissed
    BY DEF SelectionsInv, SourceInv, CancelsFind
  <2>2. requests = <<>> => listening = has_source
    <3> SUFFICES ASSUME DOMAIN requests = {} PROVE listening = has_source
      OBVIOUS
    <3>1. /\ listening \subseteq Made /\ has_source \subseteq Made
          /\ \A s \in Made : s \in listening <=> s \in has_source
      BY DEF SelectionsInv, SourceInv, SourcesAccounted
    <3> QED
      BY <3>1
  <2>3. rejected \subseteq (IF version = 1 THEN {"version"} ELSE {}) \cup (IF device THEN {} ELSE {"device"})
    BY DEF SelectionsInv, SourceInv, RejectedKnown
  <2> QED
    BY <2>1, <2>2, <2>3 DEF SourcesAgree, NoneMissed
<1> QED
  BY <1>1, SelectionsAccounted, PTL
=============================================================================
