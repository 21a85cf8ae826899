---------------------------- MODULE ObjectLease ----------------------------
(***************************************************************************)
(* What the client's object ids promise, seen from neither side: an id is  *)
(* leased to one object at a time.  The lease is asked for by the client   *)
(* (opening), known to both sides (open), given up by the server but not   *)
(* yet known to be given up by the client (closing), and only then over.   *)
(* An object is any record with a field id.                                *)
(***************************************************************************)
EXTENDS Naturals

CONSTANT Objects, First   \* all objects; those leased from the start, as
                          \* [opening |-> ..., open |-> ...]

VARIABLES opening, open, closing

leaseVars == <<opening, open, closing>>

Leased == opening \cup open \cup closing

Init ==
    /\ opening = First.opening
    /\ open = First.open
    /\ closing = {}

\* The client hands out an id: nobody may hold it.
Open(o) ==
    /\ \A p \in Leased : p.id # o.id
    /\ opening' = opening \cup {o}
    /\ UNCHANGED <<open, closing>>

\* The server learns of the object.
Accept(o) ==
    /\ o \in opening
    /\ opening' = opening \ {o}
    /\ open' = open \cup {o}
    /\ UNCHANGED closing

\* The server answers and gives the object up at once (wl_callback).
Answer(o) ==
    /\ o \in opening
    /\ opening' = opening \ {o}
    /\ closing' = closing \cup {o}
    /\ UNCHANGED open

\* The server gives the object up.
Close(o) ==
    /\ o \in open
    /\ open' = open \ {o}
    /\ closing' = closing \cup {o}
    /\ UNCHANGED opening

\* The client learns that the id is its own again.
Return(o) ==
    /\ o \in closing
    /\ closing' = closing \ {o}
    /\ UNCHANGED <<opening, open>>

Next ==
    \E o \in Objects :
        Open(o) \/ Accept(o) \/ Answer(o) \/ Close(o) \/ Return(o)

Spec == Init /\ [][Next]_leaseVars

\* An id is leased to one object, in one phase.
Exclusive ==
    /\ \A o, p \in Leased : o.id = p.id => o = p
    /\ opening \cap open = {} /\ opening \cap closing = {} /\ open \cap closing = {}
=============================================================================
