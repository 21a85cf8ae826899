-------------------------- MODULE OrderedDelivery --------------------------
(***************************************************************************)
(* What reading a Wayland socket promises: the messages 1, 2, ... of the   *)
(* stream are handled one at a time, in order, none skipped or repeated,   *)
(* each only after its last byte has arrived, until reading stops.         *)
(***************************************************************************)
EXTENDS Naturals, Sequences

CONSTANT Limit            \* number of messages in the stream

VARIABLES arrived,        \* the messages whose bytes are all here
          dispatched,     \* messages handled, in order
          stopped

deliveryVars == <<arrived, dispatched, stopped>>

Init == arrived = {} /\ dispatched = <<>> /\ stopped = FALSE

Arrive ==
    /\ arrived \subseteq arrived' /\ arrived' \subseteq 1..Limit
    /\ UNCHANGED <<dispatched, stopped>>

Deliver ==
    /\ ~stopped
    /\ Len(dispatched) + 1 \in arrived
    /\ dispatched' = Append(dispatched, Len(dispatched) + 1)
    /\ stopped' \in BOOLEAN
    /\ UNCHANGED arrived

Stop == ~stopped /\ stopped' = TRUE /\ UNCHANGED <<arrived, dispatched>>

Next == Arrive \/ Deliver \/ Stop

Spec == Init /\ [][Next]_deliveryVars
=============================================================================
