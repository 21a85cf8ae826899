---------------------------- MODULE TimerService ----------------------------
(***************************************************************************)
(* What add_timer and remove_timer promise, under every event loop: only a *)
(* timer that has been added and not removed runs, a one-shot timer runs   *)
(* once, and callbacks run one at a time.                                  *)
(***************************************************************************)
EXTENDS Integers

CONSTANT Ids

VARIABLES
    used,     \* ids given out
    live,     \* timers that may run (again)
    repeats,  \* the timers that were added without oneshot
    running   \* the timer whose callback runs, -1 if there is none

serviceVars == <<used, live, repeats, running>>

Init == used = {} /\ live = {} /\ repeats = {} /\ running = -1

Add(id) ==
    /\ id \notin used
    /\ used' = used \cup {id}
    /\ live' = live \cup {id}
    /\ repeats' \in {repeats, repeats \cup {id}}
    /\ UNCHANGED running

Remove(id) ==
    /\ live' = live \ {id}
    /\ UNCHANGED <<used, repeats, running>>

Start(id) ==
    /\ running = -1 /\ id \in live
    /\ running' = id
    /\ live' = IF id \in repeats THEN live ELSE live \ {id}
    /\ UNCHANGED <<used, repeats>>

Finish ==
    /\ running # -1
    /\ running' = -1
    /\ UNCHANGED <<used, live, repeats>>

Next == Finish \/ \E id \in Ids : Add(id) \/ Remove(id) \/ Start(id)

Spec == Init /\ [][Next]_serviceVars
=============================================================================
