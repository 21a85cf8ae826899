-------------------------- MODULE EventLoopTimers --------------------------
(***************************************************************************)
(* Timers under AsyncIOIntegration and GLibIntegration.  The event loop    *)
(* itself is not part of the program: it holds what is scheduled (the      *)
(* TimerHandles of call_at, the sources of timeout_add) and calls          *)
(* _timer_cb.  The two differ in who keeps a repeating timer going: under  *)
(* asyncio _timer_cb schedules the next call after the callback, under     *)
(* GLib the source stays until the callback returns False or raises.       *)
(* Both loops survive an exception in a callback.                          *)
(***************************************************************************)
EXTENDS Integers, Functions

CONSTANT MaxTimers   \* bound: timers added

ASSUME BoundAssumption == MaxTimers \in Nat

TimerIds == 0..(MaxTimers - 1)
Nobody == [id |-> -1, oneshot |-> FALSE]

VARIABLES
    integration,      \* "asyncio" or "glib"
    next_timer,       \* the integration's timer ids
    timer_callbacks,  \* connection: timer id -> oneshot
    timer_ids,        \* integration: the ids it has a handle or source for
    scheduled,        \* event loop: timer id -> oneshot, as passed to _timer_cb
    timer,            \* the timer whose callback runs
    removed,          \* history: timers remove_timer was called for
    own,              \* history: those of them removed by their own callback
    repeats,          \* history: timers added without oneshot
    ran,              \* history: timers whose callback has run
    raised            \* history: timers whose callback, or what follows it, raised

timerVars == <<integration, next_timer, timer_callbacks, timer_ids, scheduled, timer,
          removed, own, repeats, ran, raised>>

TimersTypeOK ==
    /\ integration \in {"asyncio", "glib"}
    /\ next_timer \in 0..MaxTimers
    /\ \A table \in {timer_callbacks, scheduled} :
         /\ DOMAIN table \subseteq TimerIds
         /\ \A id \in DOMAIN table : table[id] \in BOOLEAN
    /\ timer \in [id : TimerIds \cup {-1}, oneshot : BOOLEAN]
    /\ {timer_ids, removed, own, repeats, ran, raised} \subseteq SUBSET TimerIds

TimersInit ==
    /\ integration \in {"asyncio", "glib"}
    /\ next_timer = 0
    /\ timer_callbacks = <<>> /\ timer_ids = {} /\ scheduled = <<>>
    /\ timer = Nobody
    /\ removed = {} /\ own = {} /\ repeats = {} /\ ran = {} /\ raised = {}

Without(table, id) == Restrict(table, DOMAIN table \ {id})
With(table, id, oneshot) ==
    [other \in DOMAIN table \cup {id} |-> IF other = id THEN oneshot ELSE table[other]]

-----------------------------------------------------------------------------
\* The application, in a callback or between two.
\* _get_timerid counts up; an id is never used again.
NewTimerId == next_timer' = next_timer + 1

\* create_timer of both: the loop is told, its handle or source kept.
CreateTimer(id, oneshot) ==
    /\ timer_ids' = timer_ids \cup {id}
    /\ scheduled' = With(scheduled, id, oneshot)

AddTimer(oneshot) ==
    /\ next_timer < MaxTimers
    /\ NewTimerId
    /\ CreateTimer(next_timer, oneshot)
    /\ timer_callbacks' = With(timer_callbacks, next_timer, oneshot)
    /\ repeats' = IF oneshot THEN repeats ELSE repeats \cup {next_timer}
    /\ UNCHANGED <<integration, timer, removed, own, ran, raised>>

\* remove_timer of both: obj.cancel() and source_remove take it off the schedule.
CancelTimer(id) ==
    /\ timer_ids' = timer_ids \ {id}
    /\ scheduled' = Without(scheduled, id)

\* Mutant of RemoveTimer: the connection keeps its entry.
RemoveFromLoopOnly(id) ==
    /\ id \in DOMAIN timer_callbacks
    /\ CancelTimer(id)
    /\ removed' = removed \cup {id}
    /\ own' = own \cup ({id} \cap {timer.id})
    /\ UNCHANGED <<integration, next_timer, timer_callbacks, timer, repeats, ran, raised>>

\* A timer the connection does not know is only logged.
RemoveTimer(id) ==
    /\ id \in DOMAIN timer_callbacks
    /\ CancelTimer(id)
    /\ timer_callbacks' = Without(timer_callbacks, id)
    /\ removed' = removed \cup {id}
    /\ own' = own \cup ({id} \cap {timer.id})
    /\ UNCHANGED <<integration, next_timer, timer, repeats, ran, raised>>

-----------------------------------------------------------------------------
\* The event loop calls _timer_cb.  A TimerHandle is used up by that, a source
\* stays until _timer_cb has returned.
Called(id) == IF integration = "asyncio" THEN Without(scheduled, id) ELSE scheduled

StartTimer(id) ==
    /\ timer = Nobody
    /\ id \in DOMAIN scheduled /\ id \in DOMAIN timer_callbacks
    /\ timer' = [id |-> id, oneshot |-> scheduled[id]]
    /\ scheduled' = Called(id)
    /\ ran' = ran \cup {id}
    /\ UNCHANGED <<integration, next_timer, timer_callbacks, timer_ids, removed, own, repeats, raised>>

\* Mutant of AfterCallback: the asyncio integration takes every timer for a
\* one-shot timer.
AfterOneCall(t, schedule) ==
    IF integration = "asyncio"
    THEN scheduled' = schedule /\ timer_ids' = timer_ids \ {t.id}
    ELSE scheduled' = Without(schedule, t.id) /\ UNCHANGED timer_ids

\* After the callback.  asyncio: _timer_cb calls create_timer with the same id,
\* or deletes the id.  GLib: the source goes when _timer_cb returns False.
AfterCallback(t, schedule) ==
    IF integration = "asyncio"
    THEN IF t.oneshot
         THEN scheduled' = schedule /\ timer_ids' = timer_ids \ {t.id}
         ELSE scheduled' = With(schedule, t.id, FALSE) /\ timer_ids' = timer_ids \cup {t.id}
    ELSE /\ scheduled' = IF t.oneshot THEN Without(schedule, t.id) ELSE schedule
         /\ UNCHANGED timer_ids

\* _notify_timer_cb does not know the timer.
IgnoreTimer(id) ==
    /\ timer = Nobody
    /\ id \in DOMAIN scheduled /\ id \notin DOMAIN timer_callbacks
    /\ AfterCallback([id |-> id, oneshot |-> scheduled[id]], Called(id))
    /\ UNCHANGED <<integration, next_timer, timer_callbacks, timer, removed, own, repeats, ran, raised>>

ReturnTimer ==
    /\ timer # Nobody
    /\ ~timer.oneshot \/ timer.id \in DOMAIN timer_callbacks
    /\ timer' = Nobody
    /\ timer_callbacks' = IF timer.oneshot THEN Without(timer_callbacks, timer.id)
                          ELSE timer_callbacks
    /\ AfterCallback(timer, scheduled)
    /\ UNCHANGED <<integration, next_timer, removed, own, repeats, ran, raised>>

\* The callback raises, at any point, or _notify_timer_cb does: it deletes the entry of a
\* one-shot timer that has removed itself.  asyncio logs the exception, PyGObject
\* prints it and ends the source.
RaiseInTimer ==
    /\ timer # Nobody
    /\ timer' = Nobody
    /\ scheduled' = Without(scheduled, timer.id)
    /\ raised' = raised \cup {timer.id}
    /\ UNCHANGED <<integration, next_timer, timer_callbacks, timer_ids, removed, own, repeats, ran>>

-----------------------------------------------------------------------------
TimersNext ==
    \/ \E oneshot \in BOOLEAN : AddTimer(oneshot)
    \/ \E id \in TimerIds : RemoveTimer(id) \/ StartTimer(id) \/ IgnoreTimer(id)
    \/ ReturnTimer
    \/ RaiseInTimer

TimersSpec == TimersInit /\ [][TimersNext]_timerVars

-----------------------------------------------------------------------------
Service == INSTANCE TimerService WITH
    Ids <- TimerIds,
    used <- 0..(next_timer - 1),
    live <- (0..(next_timer - 1)) \ (removed \cup (ran \ repeats)),
    running <- timer.id

\* Whatever callbacks do, remove their own timer or raise, a removed timer's
\* callback does not run again, and a one-shot timer's runs once.
ServiceSpec == Service!Spec

\* Between callbacks a timer the connection knows is scheduled, and as what it
\* was added, unless its callback has raised: that ends the timer, under both
\* loops, and leaves its entries behind.  Nothing else is scheduled but, under
\* asyncio, repeating timers that were removed by their own callback.
ScheduleAgrees ==
    /\ TimersTypeOK
    /\ timer = Nobody =>
         /\ \A id \in DOMAIN timer_callbacks \ raised :
              /\ id \in timer_ids /\ id \in DOMAIN scheduled
              /\ scheduled[id] = timer_callbacks[id]
         /\ DOMAIN scheduled \ DOMAIN timer_callbacks \subseteq
              IF integration = "glib" THEN {} ELSE own \cap repeats
=============================================================================
