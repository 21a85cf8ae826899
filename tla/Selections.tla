------------------------------ MODULE Selections ------------------------------
(***************************************************************************)
(* The selections of a DataControlDevice.  The compositor introduces an    *)
(* offer and then makes it the selection or the primary selection; the     *)
(* device destroys the offer that was there before.  An offer is known by  *)
(* its id in three places, the connection's handlers, the table of offers  *)
(* and the two attributes, and the compositor uses an id again as soon as  *)
(* it has read that its object is destroyed.  As in Connection an offer is *)
(* [id, gen], where gen tells it from others that had its id, and a        *)
(* request to destroy one keeps, beside the id it sends, the offer that    *)
(* destroy() was called on.                                                *)
(*                                                                         *)
(* The other way round the application makes sources and sets them as      *)
(* selections; the compositor cancels the one that is replaced.  A source  *)
(* is its number: that the ids of the client's objects are no others' is   *)
(* shown in Connection.                                                    *)
(***************************************************************************)
EXTENDS Naturals, Sequences, FiniteSets, Functions

CONSTANTS
    OfferIds,   \* the ids the compositor creates offers with
    NoOffer,    \* no selection
    MaxMade,    \* bound: offers and sources made in a run
    MaxSets     \* bound: selections the application sets

Kinds == {"selection", "primary"}

ASSUME OffersAssumption ==
    /\ NoOffer \notin [id : OfferIds, gen : 1..MaxMade]
    /\ MaxMade \in Nat /\ MaxSets \in Nat

Offer == [id : OfferIds, gen : 1..MaxMade]
Source == 1..MaxMade
None == 0
Event == [ev : {"data_offer"}, offer : Offer]
             \cup [ev : Kinds, offer : Offer \cup {NoOffer}]
             \cup [ev : {"finished"}]
             \cup [ev : {"cancelled", "send"}, source : Source]
Request == [op : {"destroy_offer"}, id : OfferIds, meant : Offer]
             \cup [op : {"destroy_device"}]
             \cup [op : {"create_source", "destroy_source"}, source : Source]
             \cup [op : Kinds, source : Source \cup {None}]

VARIABLES
    handlers,   \* the offers among the connection's event handlers
    device,     \* whether the device has its handler
    offers,     \* _offers: id -> offer
    current,    \* _selection and _primary_selection
    appgone,    \* history: offers the application has destroyed
    listening,  \* the sources among the connection's event handlers
    sources,    \* _sources of the manager
    used,       \* the sources the application has set
    nsources,   \* sources made so far
    nsets,      \* selections set so far
    srcgone,    \* history: sources the application has destroyed
    raised,     \* the exception that ended the event loop, if any
    requests,   \* in flight to the compositor
    events,     \* in flight to the client
    resources,  \* the offers the compositor has
    chosen,     \* the compositor's selections
    finished,   \* whether it has ended the device
    version,    \* the version the manager was bound with
    has_device, \* whether the compositor has the device
    has_source, \* the sources it has
    owner,      \* the source that is its selection, if it is one of the client's
    gens,       \* offers made so far
    rejected,   \* what the compositor had to reject a request for
    astray      \* history: offers ended by a destroy() called on another

offerVars == <<handlers, device, offers, current, appgone>>
sourceVars == <<listening, sources, used, nsources, nsets, srcgone>>
clientVars == <<offerVars, sourceVars, raised>>
ownerVars == <<version, has_device, has_source, owner>>
serverVars == <<resources, chosen, finished, gens, rejected, astray, ownerVars>>
vars == <<clientVars, serverVars, requests, events>>

TypeOK ==
    /\ handlers \subseteq Offer
    /\ device \in BOOLEAN
    /\ \A id \in DOMAIN offers : offers[id] \in Offer
    /\ current \in [Kinds -> Offer \cup {NoOffer}]
    /\ raised \subseteq {"installed", "invalid", "not in table", "not attached", "no source", "fd"}
    /\ listening \subseteq Source /\ sources \subseteq Source
    /\ requests \in Seq(Request)
    /\ events \in Seq(Event)
    /\ resources \subseteq Offer
    /\ chosen \in [Kinds -> Offer \cup {NoOffer}]
    /\ has_source \subseteq Source /\ owner \in [Kinds -> Source \cup {None}]
    /\ rejected \subseteq {"offer", "device", "version", "source"} /\ astray \subseteq Offer
    /\ version \in {1, 2} /\ has_device \in BOOLEAN /\ finished \in BOOLEAN
    /\ used \subseteq Source /\ srcgone \subseteq Source
    /\ gens \in Nat /\ nsources \in Nat /\ gens + nsources <= MaxMade

Init ==
    /\ handlers = {} /\ device = TRUE
    /\ offers = <<>>
    /\ current = [k \in Kinds |-> NoOffer]
    /\ appgone = {} /\ raised = {}
    /\ listening = {} /\ sources = {} /\ used = {} /\ nsources = 0 /\ nsets = 0 /\ srcgone = {}
    /\ requests = <<>> /\ events = <<>>
    /\ resources = {} /\ chosen = [k \in Kinds |-> NoOffer]
    /\ finished = FALSE /\ gens = 0 /\ rejected = {} /\ astray = {}
    /\ version \in {1, 2} /\ has_device = TRUE
    /\ has_source = {} /\ owner = [k \in Kinds |-> None]

-----------------------------------------------------------------------------
Running == raised = {}
Attached(id) == \E h \in handlers : h.id = id
WithoutHandlers(ids) == {h \in handlers : h.id \notin ids}
Without(f, x) == Restrict(f, DOMAIN f \ {x})
With(f, x, v) == [y \in DOMAIN f \cup {x} |-> IF y = x THEN v ELSE f[y]]
DestroyOffer(o) == [op |-> "destroy_offer", id |-> o.id, meant |-> o]
Fail(why) == raised' = {why} /\ UNCHANGED <<handlers, device, offers, current, requests>>

Take(t) ==
    /\ Running
    /\ events # <<>>
    /\ Head(events).ev = t
    /\ events' = Tail(events)

\* on_data_offer: the handler first, which raises when the id has one.
OnDataOffer ==
    LET o == Head(events).offer IN
    /\ Take("data_offer")
    /\ IF Attached(o.id) THEN Fail("installed")
       ELSE /\ handlers' = handlers \cup {o}
            /\ offers' = With(offers, o.id, o)
            /\ UNCHANGED <<device, current, raised, requests>>
    /\ UNCHANGED <<appgone, sourceVars, serverVars>>

\* Mutants of SetSelection: the offer before stays in the table; its destroy is sent
\* twice.
SetSelectionTable(kind, offer) ==
    LET old == current[kind] IN
    /\ current' = [current EXCEPT ![kind] = offer]
    /\ handlers' = IF old = NoOffer THEN handlers ELSE WithoutHandlers({old.id})
    /\ requests' = IF old = NoOffer THEN requests ELSE Append(requests, DestroyOffer(old))
    /\ UNCHANGED <<offers, device, raised>>

SetSelectionTwice(kind, offer) ==
    LET old == current[kind] IN
    /\ current' = [current EXCEPT ![kind] = offer]
    /\ handlers' = IF old = NoOffer THEN handlers ELSE WithoutHandlers({old.id})
    /\ offers' = IF old = NoOffer THEN offers ELSE Without(offers, old.id)
    /\ requests' = IF old = NoOffer THEN requests ELSE requests \o <<DestroyOffer(old), DestroyOffer(old)>>
    /\ UNCHANGED <<device, raised>>

\* _set_selection, once the offer is known: the offer before it leaves the
\* table and is destroyed, by its id both times.
SetSelection(kind, offer) ==
    LET old == current[kind] IN
    IF old = NoOffer
    THEN /\ current' = [current EXCEPT ![kind] = offer]
         /\ UNCHANGED <<handlers, device, offers, raised, requests>>
    ELSE IF old.id \notin DOMAIN offers THEN Fail("not in table")
    ELSE /\ offers' = Without(offers, old.id)
         /\ UNCHANGED device
         /\ IF ~Attached(old.id)
            THEN raised' = {"not attached"} /\ UNCHANGED <<handlers, current, requests>>
            ELSE /\ handlers' = WithoutHandlers({old.id})
                 /\ requests' = Append(requests, DestroyOffer(old))
                 /\ current' = [current EXCEPT ![kind] = offer]
                 /\ UNCHANGED raised

\* on_selection, on_primary_selection: the event names an offer by its id.
OnSelection(kind) ==
    LET named == Head(events).offer IN
    /\ Take(kind)
    /\ IF named = NoOffer THEN SetSelection(kind, NoOffer)
       ELSE IF named.id \in DOMAIN offers THEN SetSelection(kind, offers[named.id])
       ELSE Fail("invalid")
    /\ UNCHANGED <<appgone, sourceVars, serverVars>>

\* Mutant of OnFinished: the table is emptied and its offers are not destroyed.
OnFinishedDevice ==
    /\ Take("finished")
    /\ device' = FALSE
    /\ offers' = <<>>
    /\ UNCHANGED <<handlers, current, appgone, sourceVars, raised, requests, serverVars>>

\* on_finished: every offer of the table is destroyed, then the device.  An offer
\* without a handler raises, after those before it have been destroyed.
OnFinished ==
    /\ Take("finished")
    /\ \E order \in [1..Cardinality(DOMAIN offers) -> DOMAIN offers] :
         LET gone == {k \in DOMAIN order : \A j \in 1..k : Attached(order[j])}
         IN /\ Range(order) = DOMAIN offers
            /\ handlers' = WithoutHandlers({order[k] : k \in gone})
            /\ LET destroys == [k \in gone |-> DestroyOffer(offers[order[k]])] IN
               IF gone = DOMAIN order
               THEN /\ offers' = <<>> /\ device' = FALSE /\ UNCHANGED raised
                    /\ requests' = requests \o Append(destroys, [op |-> "destroy_device"])
               ELSE /\ raised' = {"not attached"} /\ UNCHANGED <<offers, device>>
                    /\ requests' = requests \o destroys
    /\ UNCHANGED <<current, appgone, sourceVars, serverVars>>

\* The application destroys an offer it was given: the handler goes and the
\* request is sent, the table and the attribute keep the offer.
AppDestroy(o) ==
    /\ Running
    /\ o \in Range(current) \ (appgone \cup {NoOffer})
    /\ Attached(o.id)
    /\ handlers' = WithoutHandlers({o.id})
    /\ requests' = Append(requests, DestroyOffer(o))
    /\ appgone' = appgone \cup {o}
    /\ UNCHANGED <<device, offers, current, sourceVars, raised, serverVars, events>>

\* Mutant of OnCancelled: the object is not destroyed.
OnCancelledOnly ==
    LET s == Head(events).source IN
    /\ Take("cancelled")
    /\ sources' = sources \ {s}
    /\ listening' = listening \ {s}
    /\ UNCHANGED <<offerVars, used, nsources, nsets, srcgone, raised, requests, serverVars>>

\* on_cancelled: the manager forgets the source, which is then destroyed.
OnCancelled ==
    LET s == Head(events).source IN
    /\ Take("cancelled")
    /\ IF s \in listening
       THEN /\ sources' = sources \ {s}
            /\ listening' = listening \ {s}
            /\ requests' = Append(requests, [op |-> "destroy_source", source |-> s])
            /\ UNCHANGED raised
       ELSE raised' = {"no source"} /\ UNCHANGED <<sources, listening, requests>>
    /\ UNCHANGED <<offerVars, used, nsources, nsets, srcgone, serverVars>>

\* on_send logs a name that is not defined.
OnSend ==
    /\ Take("send")
    /\ raised' = IF Head(events).source \in listening THEN {"fd"} ELSE {"no source"}
    /\ UNCHANGED <<offerVars, sourceVars, requests, serverVars>>

Dispatch ==
    \/ OnDataOffer \/ OnFinished \/ OnCancelled \/ OnSend
    \/ \E kind \in Kinds : OnSelection(kind)

\* create_data_source
CreateSource(s) ==
    /\ Running
    /\ gens + nsources < MaxMade
    /\ s = nsources + 1
    /\ nsources' = s
    /\ listening' = listening \cup {s}
    /\ sources' = sources \cup {s}
    /\ requests' = Append(requests, [op |-> "create_source", source |-> s])
    /\ UNCHANGED <<offerVars, used, nsets, srcgone, raised, serverVars, events>>

\* set_selection, set_primary_selection, with a source that is new, as the protocol
\* demands, or with none.  The device's own version is always 2.
SetOwn(kind, s) ==
    /\ Running
    /\ nsets < MaxSets
    /\ nsets' = nsets + 1
    /\ s \in {None} \cup (listening \ used)
    /\ used' = used \cup ({s} \ {None})
    /\ requests' = Append(requests, [op |-> kind, source |-> s])
    /\ UNCHANGED <<offerVars, listening, sources, nsources, srcgone, raised, serverVars, events>>

\* The application destroys a source; the manager's table keeps it.
DestroySource(s) ==
    /\ Running
    /\ s \in listening
    /\ listening' = listening \ {s}
    /\ srcgone' = srcgone \cup {s}
    /\ requests' = Append(requests, [op |-> "destroy_source", source |-> s])
    /\ UNCHANGED <<offerVars, sources, used, nsources, nsets, raised, serverVars, events>>

Application ==
    \/ \E o \in Offer : AppDestroy(o)
    \/ \E s \in Source : CreateSource(s) \/ DestroySource(s)
    \/ \E kind \in Kinds, s \in Source \cup {None} : SetOwn(kind, s)

-----------------------------------------------------------------------------
\* The compositor.
TakeRequest(op) ==
    /\ requests # <<>> /\ rejected = {}
    /\ Head(requests).op = op
    /\ requests' = Tail(requests)

ServeDestroyOffer ==
    LET id == Head(requests).id IN
    /\ TakeRequest("destroy_offer")
    /\ resources' = {r \in resources : r.id # id}
    /\ rejected' = IF \A r \in resources : r.id # id THEN {"offer"} ELSE {}
    /\ astray' = astray \cup {r \in resources : r.id = id /\ r # Head(requests).meant}
    /\ UNCHANGED <<clientVars, chosen, finished, ownerVars, gens, events>>

ServeDestroyDevice ==
    /\ TakeRequest("destroy_device")
    /\ has_device' = FALSE
    /\ UNCHANGED <<clientVars, resources, chosen, finished, version, has_source, owner, gens,
                   rejected, astray, events>>

ServeCreateSource ==
    /\ TakeRequest("create_source")
    /\ has_source' = has_source \cup {Head(requests).source}
    /\ UNCHANGED <<clientVars, resources, chosen, finished, version, has_device, owner, gens,
                   rejected, astray, events>>

ServeDestroySource ==
    LET s == Head(requests).source IN
    /\ TakeRequest("destroy_source")
    /\ rejected' = IF s \in has_source THEN {} ELSE {"source"}
    /\ has_source' = has_source \ {s}
    /\ owner' = [k \in Kinds |-> IF owner[k] = s THEN None ELSE owner[k]]
    /\ UNCHANGED <<clientVars, resources, chosen, finished, version, has_device, gens, astray,
                   events>>

\* The owner of a selection is told when it is no longer that.
Cancel(kind) ==
    IF owner[kind] = None THEN <<>> ELSE <<[ev |-> "cancelled", source |-> owner[kind]]>>

\* A source becomes the selection, which Choose tells the device some time.
ServeSet(kind) ==
    LET s == Head(requests).source IN
    /\ TakeRequest(kind)
    /\ rejected' = IF ~has_device THEN {"device"}
                   ELSE IF kind = "primary" /\ version < 2 THEN {"version"}
                   ELSE IF s \notin has_source \cup {None} THEN {"source"} ELSE {}
    /\ IF rejected' = {}
       THEN owner' = [owner EXCEPT ![kind] = s] /\ events' = events \o Cancel(kind)
       ELSE UNCHANGED <<owner, events>>
    /\ UNCHANGED <<clientVars, resources, chosen, finished, version, has_device, has_source, gens,
                   astray>>

Serve ==
    \/ ServeDestroyOffer \/ ServeDestroyDevice \/ ServeCreateSource \/ ServeDestroySource
    \/ \E kind \in Kinds : ServeSet(kind)

\* A selection: its offer is introduced with an id that is free, then chosen.  It is
\* another client's, or that of the source that owns it.
Choose(kind, id) ==
    LET o == [id |-> id, gen |-> gens + 1] IN
    /\ ~finished /\ gens + nsources < MaxMade
    /\ kind = "primary" => version = 2
    /\ \A r \in resources : r.id # id
    /\ gens' = gens + 1
    /\ resources' = resources \cup {o}
    /\ chosen' = [chosen EXCEPT ![kind] = o]
    /\ \E own \in BOOLEAN :
         /\ own => owner[kind] # None
         /\ owner' = IF own THEN owner ELSE [owner EXCEPT ![kind] = None]
         /\ events' = events \o (IF own THEN <<>> ELSE Cancel(kind)) \o
                <<[ev |-> "data_offer", offer |-> o], [ev |-> kind, offer |-> o]>>
    /\ UNCHANGED <<clientVars, finished, version, has_device, has_source, rejected, astray, requests>>

Clear(kind) ==
    /\ ~finished /\ chosen[kind] # NoOffer
    /\ chosen' = [chosen EXCEPT ![kind] = NoOffer]
    /\ owner' = [owner EXCEPT ![kind] = None]
    /\ events' = events \o Cancel(kind) \o <<[ev |-> kind, offer |-> NoOffer]>>
    /\ UNCHANGED <<clientVars, resources, finished, version, has_device, has_source, gens,
                   rejected, astray, requests>>

Finish ==
    /\ ~finished
    /\ finished' = TRUE
    /\ events' = Append(events, [ev |-> "finished"])
    /\ UNCHANGED <<clientVars, resources, chosen, gens, ownerVars, rejected, astray, requests>>

\* Another client pastes what the source has.
Paste(kind) ==
    /\ owner[kind] # None
    /\ ~\E k \in DOMAIN events : events[k].ev = "send"
    /\ events' = Append(events, [ev |-> "send", source |-> owner[kind]])
    /\ UNCHANGED <<clientVars, serverVars, requests>>

Compositor ==
    \/ \E kind \in Kinds : Clear(kind) \/ Paste(kind) \/ \E id \in OfferIds : Choose(kind, id)
    \/ Finish

Next == Dispatch \/ Application \/ Serve \/ (rejected = {} /\ Compositor)

Spec == Init /\ [][Next]_vars

-----------------------------------------------------------------------------
\* While the application destroys no offer itself the three places agree: the
\* table has the offers that have handlers, under their own ids, and each
\* selection is one of them and not the other's.
PlacesAgree ==
    /\ TypeOK
    /\ Running /\ device /\ appgone = {} =>
         /\ Range(offers) = handlers
         /\ \A id \in DOMAIN offers : offers[id].id = id
         /\ Range(current) \subseteq handlers \cup {NoOffer}
         /\ current["selection"] = current["primary"] => current["selection"] = NoOffer

\* Once everything in flight has arrived, the client then has the compositor's
\* selections and no other offer is left on either side.
SelectionsAgree ==
    Running /\ requests = <<>> /\ events = <<>> /\ appgone = {} =>
        IF device
        THEN current = chosen /\ handlers = resources /\ resources = Range(chosen) \ {NoOffer}
        ELSE handlers = {} /\ resources = {}

\* Every destroy() reaches the compositor while it has an offer of that id.  It ends
\* the offer it was called on, and so none is destroyed a second time nor one made since
\* in its place, except under the id of an offer that the application destroyed itself:
\* that one is still in the table and a selection, and what destroys it again ends
\* whatever has its id by then.  The device finds its tables in disagreement only after
\* the application has destroyed an offer that was still a selection.
FailsOnlyAfterAppDestroy ==
    /\ "offer" \notin rejected
    /\ \A o \in astray : \E a \in appgone : a.id = o.id
    /\ raised \ {"no source", "fd"} # {} => appgone # {}

\* The manager's table has the sources that have handlers, and once everything has
\* arrived the compositor has the same.  The compositor rejects a request only when a
\* primary selection is set though the manager was bound with version 1, which the
\* check of set_primary_selection is to prevent, or when a selection is set though the
\* device has ended, of which the application is not told; and an event finds no source
\* only if the application has destroyed it.
SourcesAgree ==
    /\ srcgone = {} => sources = listening
    /\ Running /\ requests = <<>> /\ events = <<>> => listening = has_source
    /\ rejected \subseteq (IF version = 1 THEN {"version"} ELSE {})
                       \cup (IF device THEN {} ELSE {"device"})
    /\ "no source" \in raised => srcgone # {}
=============================================================================
