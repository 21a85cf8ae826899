------------------------------ MODULE PollLoop ------------------------------
(***************************************************************************)
(* Readers and timers under PollIntegration.run(): the connection keeps    *)
(* one table of each (_read_callbacks, _timer_callbacks) above the tables  *)
(* of the loop (_callbacks and the poll object, _timers).  run() handles   *)
(* the batch of events poll() returned, one after the other, then sweeps   *)
(* a snapshot of the timers.  Callbacks may add and remove readers and     *)
(* timers, their own included, so both loops see their tables change.      *)
(*                                                                         *)
(* The snapshot is visited in any order; the code's is that of the dict.   *)
(***************************************************************************)
EXTENDS Integers, Functions

CONSTANTS
    Fds,          \* file descriptors that can be read
    Intervals,    \* the intervals timers are added with
    PollTimeout,  \* how long poll() waits for an event, in ticks
    MaxTimers,    \* bound: timers added
    MaxTime,      \* bound: the clock
    MaxBusy,      \* bound: ticks spent in callbacks from one sweep to the next
    MaxReady      \* bound: times data arrives

ASSUME TimingAssumption ==
    /\ Intervals \subseteq Nat /\ Intervals # {}
    /\ PollTimeout \in Nat \ {0}
ASSUME BoundAssumption == {MaxTimers, MaxTime, MaxBusy, MaxReady} \subseteq Nat

TimerIds == 0..(MaxTimers - 1)
NoTimer == [id |-> -1, oneshot |-> FALSE, interval |-> 0]

VARIABLES
    now,              \* time.monotonic()
    busy,             \* ticks spent in callbacks since the clock was last read
    ready,            \* the descriptors with data to read
    arrivals,         \* how often data has arrived
    read_callbacks,   \* connection: the descriptors with a reader
    callbacks,        \* loop: the same
    registered,       \* the descriptors the poll object watches
    timer_callbacks,  \* connection: timer id -> oneshot
    timers,           \* loop: timer id -> [run_at, oneshot, interval]
    next_timer,       \* the loop's timer ids
    pc,               \* where run() is
    batch,            \* events of this poll() still to be handled
    snapshot,         \* timers of this sweep still to be visited
    sweep,            \* the clock as the sweep read it
    deadline,         \* when poll() gives up waiting
    timer,            \* the timer whose callback runs, as the sweep read it
    error,            \* the KeyError that left run(), if any
    removed,          \* history: timers remove_timer was called for
    own,              \* history: those of them removed by their own callback
    dropped,          \* history: readers removed while their event was in the batch
    repeats,          \* history: timers added without oneshot
    ran,              \* history: timers whose callback has run
    last              \* history: when each timer was added or last swept up

readerVars == <<read_callbacks, callbacks, registered, dropped>>
timerVars == <<timer_callbacks, timers, next_timer, removed, own, repeats, last>>
worldVars == <<ready, arrivals>>
loopVars == <<pc, batch, snapshot, sweep, deadline, timer, error, ran>>
vars == <<now, busy, worldVars, readerVars, timerVars, loopVars>>

TypeOK ==
    /\ now \in 0..MaxTime /\ busy \in 0..MaxBusy
    /\ ready \subseteq Fds /\ arrivals \in 0..MaxReady
    /\ read_callbacks \subseteq Fds /\ callbacks \subseteq Fds /\ registered \subseteq Fds
    /\ DOMAIN timer_callbacks \subseteq TimerIds
    /\ \A id \in DOMAIN timer_callbacks : timer_callbacks[id] \in BOOLEAN
    /\ DOMAIN timers \subseteq TimerIds
    /\ \A id \in DOMAIN timers :
         timers[id] \in [run_at : Nat, oneshot : BOOLEAN, interval : Intervals]
    /\ next_timer \in 0..MaxTimers
    /\ pc \in {"setup", "poll", "events", "reader", "timers", "timer", "left"}
    /\ batch \subseteq Fds
    /\ snapshot \subseteq TimerIds
    /\ sweep \in 0..now /\ deadline \in Nat
    /\ timer \in [id : TimerIds \cup {-1}, oneshot : BOOLEAN, interval : Intervals \cup {0}]
    /\ error \in {"none", "fd", "timer"}
    /\ {removed, own, repeats, ran} \subseteq SUBSET TimerIds /\ dropped \subseteq Fds
    /\ DOMAIN last \subseteq TimerIds /\ \A id \in DOMAIN last : last[id] \in 0..now

Init ==
    /\ now = 0 /\ busy = 0 /\ ready = {} /\ arrivals = 0
    /\ read_callbacks = {} /\ callbacks = {} /\ registered = {} /\ dropped = {}
    /\ timer_callbacks = <<>> /\ timers = <<>> /\ next_timer = 0
    /\ removed = {} /\ own = {} /\ repeats = {} /\ last = <<>>
    /\ pc = "setup" /\ batch = {} /\ snapshot = {} /\ sweep = 0 /\ deadline = 0
    /\ timer = NoTimer /\ error = "none" /\ ran = {}

-----------------------------------------------------------------------------
\* The world: time passes while poll() waits for data, or in a callback.
Readable == ready \cap registered

Wait ==
    /\ pc = "poll" /\ Readable = {}
    /\ now < deadline /\ now < MaxTime
    /\ now' = now + 1
    /\ UNCHANGED <<busy, worldVars, readerVars, timerVars, loopVars>>

Work ==
    /\ pc \in {"reader", "timer"}
    /\ now < MaxTime /\ busy < MaxBusy
    /\ now' = now + 1 /\ busy' = busy + 1
    /\ UNCHANGED <<worldVars, readerVars, timerVars, loopVars>>

Arrive(fd) ==
    /\ arrivals < MaxReady /\ fd \notin ready
    /\ ready' = ready \cup {fd}
    /\ arrivals' = arrivals + 1
    /\ UNCHANGED <<now, busy, readerVars, timerVars, loopVars>>

-----------------------------------------------------------------------------
\* The application, before run() and in its callbacks.
InApplication == pc \in {"setup", "reader", "timer"}

\* The loop's side: create_reader and remove_reader.
Register(fd) == registered' = registered \cup {fd} /\ callbacks' = callbacks \cup {fd}
Unregister(fd) == registered' = registered \ {fd} /\ callbacks' = callbacks \ {fd}

AddReader(fd) ==
    /\ InApplication
    /\ fd \notin read_callbacks
    /\ Register(fd)
    /\ read_callbacks' = read_callbacks \cup {fd}
    /\ UNCHANGED <<dropped, now, busy, worldVars, timerVars, loopVars>>

\* Mutant of RemoveReader: the poll object keeps the descriptor.
UnregisterNothing(fd) ==
    /\ InApplication
    /\ fd \in read_callbacks
    /\ callbacks' = callbacks \ {fd}
    /\ read_callbacks' = read_callbacks \ {fd}
    /\ dropped' = dropped \cup ({fd} \cap batch)
    /\ UNCHANGED <<registered, now, busy, worldVars, timerVars, loopVars>>

\* A descriptor without a reader is only logged.
RemoveReader(fd) ==
    /\ InApplication
    /\ fd \in read_callbacks
    /\ Unregister(fd)
    /\ read_callbacks' = read_callbacks \ {fd}
    /\ dropped' = dropped \cup ({fd} \cap batch)
    /\ UNCHANGED <<now, busy, worldVars, timerVars, loopVars>>

\* The new entry of _timers.
Entry(run_at, oneshot, interval) ==
    [run_at |-> run_at, oneshot |-> oneshot, interval |-> interval]

With(table, id, entry) ==
    [other \in DOMAIN table \cup {id} |-> IF other = id THEN entry ELSE table[other]]
Without(table, id) == Restrict(table, DOMAIN table \ {id})

AddTimer(interval, oneshot) ==
    /\ InApplication
    /\ next_timer < MaxTimers
    /\ next_timer' = next_timer + 1
    /\ timers' = With(timers, next_timer, Entry(now + interval, oneshot, interval))
    /\ timer_callbacks' = With(timer_callbacks, next_timer, oneshot)
    /\ last' = With(last, next_timer, now)
    /\ repeats' = IF oneshot THEN repeats ELSE repeats \cup {next_timer}
    /\ UNCHANGED <<removed, own, now, busy, worldVars, readerVars, loopVars>>

\* Mutant of RemoveTimer: the connection keeps its entry.
RemoveFromLoopOnly(id) ==
    /\ InApplication
    /\ id \in DOMAIN timer_callbacks
    /\ timers' = Without(timers, id)
    /\ removed' = removed \cup {id}
    /\ own' = own \cup ({id} \cap {timer.id})
    /\ UNCHANGED <<timer_callbacks, next_timer, last, repeats, now, busy, worldVars,
                   readerVars, loopVars>>

\* A timer the connection does not know is only logged.
RemoveTimer(id) ==
    /\ InApplication
    /\ id \in DOMAIN timer_callbacks
    /\ timers' = Without(timers, id)
    /\ timer_callbacks' = Without(timer_callbacks, id)
    /\ removed' = removed \cup {id}
    /\ own' = own \cup ({id} \cap {timer.id})
    /\ UNCHANGED <<next_timer, last, repeats, now, busy, worldVars, readerVars, loopVars>>

Application ==
    \/ \E fd \in Fds : AddReader(fd) \/ RemoveReader(fd)
    \/ \E interval \in Intervals, oneshot \in BOOLEAN : AddTimer(interval, oneshot)
    \/ \E id \in TimerIds : RemoveTimer(id)

-----------------------------------------------------------------------------
\* run(): poll() with its timeout, then the batch.
EnterPoll ==
    /\ pc' = "poll"
    /\ deadline' = now + PollTimeout

Run ==
    /\ pc = "setup"
    /\ EnterPoll
    /\ UNCHANGED <<now, busy, worldVars, readerVars, timerVars,
                   batch, snapshot, sweep, timer, error, ran>>

Poll ==
    /\ pc = "poll"
    /\ Readable # {} \/ now >= deadline
    /\ batch' = Readable
    /\ pc' = "events"
    /\ deadline' = 0
    /\ UNCHANGED <<now, busy, worldVars, readerVars, timerVars,
                   snapshot, sweep, timer, error, ran>>

\* handle_event looks the callback up; the reader reads what there is.
HandleEvent(fd) ==
    /\ pc = "events" /\ fd \in batch
    /\ batch' = batch \ {fd}
    /\ IF fd \in callbacks
       THEN /\ pc' = "reader" /\ ready' = ready \ {fd} /\ UNCHANGED error
       ELSE /\ pc' = "left" /\ error' = "fd" /\ UNCHANGED ready
    /\ UNCHANGED <<arrivals, now, busy, readerVars, timerVars,
                   snapshot, sweep, deadline, timer, ran>>

ReturnReader ==
    /\ pc = "reader"
    /\ pc' = "events"
    /\ UNCHANGED <<now, busy, worldVars, readerVars, timerVars,
                   batch, snapshot, sweep, deadline, timer, error, ran>>

\* check_timers: the clock is read once, the keys are copied.
StartSweep ==
    /\ pc = "events" /\ batch = {}
    /\ sweep' = now
    /\ busy' = 0
    /\ snapshot' = DOMAIN timers
    /\ pc' = "timers"
    /\ UNCHANGED <<now, worldVars, readerVars, timerVars,
                   batch, deadline, timer, error, ran>>

Due(id) == id \in DOMAIN timers /\ sweep >= timers[id].run_at

\* A timer that has gone in the meantime, or is not due.
SkipTimer(id) ==
    /\ pc = "timers" /\ id \in snapshot
    /\ ~Due(id)
    /\ snapshot' = snapshot \ {id}
    /\ UNCHANGED <<now, busy, worldVars, readerVars, timerVars,
                   pc, batch, sweep, deadline, timer, error, ran>>

\* Mutants of Rearm: the next run is counted from when this one was due; the
\* entry is written with run_at and interval exchanged.
RearmFromDue(t) ==
    IF t.oneshot
    THEN timers' = Without(timers, t.id)
    ELSE timers' = [timers EXCEPT ![t.id].run_at = @ + t.interval]

\* What check_timers does after the callback.
Rearm(t) ==
    IF t.oneshot
    THEN timers' = Without(timers, t.id)
    ELSE timers' = With(timers, t.id, Entry(sweep + t.interval, FALSE, t.interval))

\* _notify_timer_cb runs the callback of a timer it knows.
RunTimer(id) ==
    /\ pc = "timers" /\ id \in snapshot
    /\ Due(id) /\ id \in DOMAIN timer_callbacks
    /\ snapshot' = snapshot \ {id}
    /\ timer' = [id |-> id, oneshot |-> timers[id].oneshot, interval |-> timers[id].interval]
    /\ pc' = "timer"
    /\ ran' = ran \cup {id}
    /\ last' = [last EXCEPT ![id] = sweep]
    /\ UNCHANGED <<now, busy, worldVars, readerVars, timer_callbacks, timers, next_timer,
                   removed, own, repeats, batch, sweep, deadline, error>>

\* The connection does not know the timer: nothing but a line in the log.
IgnoreTimer(id) ==
    /\ pc = "timers" /\ id \in snapshot
    /\ Due(id) /\ id \notin DOMAIN timer_callbacks
    /\ snapshot' = snapshot \ {id}
    /\ Rearm([id |-> id, oneshot |-> timers[id].oneshot, interval |-> timers[id].interval])
    /\ UNCHANGED <<now, busy, worldVars, readerVars, timer_callbacks, next_timer, removed, own, repeats, last,
                   pc, batch, sweep, deadline, timer, error, ran>>

\* The callback returns.  A one-shot timer's entries are deleted, in the
\* connection first; deleting an entry that is not there is a KeyError.
ReturnTimer ==
    /\ pc = "timer"
    /\ timer' = NoTimer
    /\ IF timer.oneshot /\ timer.id \notin DOMAIN timer_callbacks
       THEN /\ pc' = "left" /\ error' = "timer"
            /\ UNCHANGED <<timer_callbacks, timers>>
       ELSE /\ pc' = "timers" /\ UNCHANGED error
            /\ timer_callbacks' = IF timer.oneshot THEN Without(timer_callbacks, timer.id)
                                  ELSE timer_callbacks
            /\ Rearm(timer)
    /\ UNCHANGED <<now, busy, worldVars, readerVars, next_timer, removed, own, repeats, last,
                   batch, snapshot, sweep, deadline, ran>>

EndSweep ==
    /\ pc = "timers" /\ snapshot = {}
    /\ EnterPoll
    /\ sweep' = 0
    /\ UNCHANGED <<now, busy, worldVars, readerVars, timerVars,
                   batch, snapshot, timer, error, ran>>

Loop ==
    \/ Run
    \/ Poll
    \/ \E fd \in Fds : HandleEvent(fd)
    \/ ReturnReader
    \/ StartSweep
    \/ \E id \in TimerIds : SkipTimer(id) \/ RunTimer(id) \/ IgnoreTimer(id)
    \/ ReturnTimer
    \/ EndSweep

-----------------------------------------------------------------------------
Next ==
    \/ Wait \/ Work
    \/ \E fd \in Fds : Arrive(fd)
    \/ Application
    \/ Loop

Spec == Init /\ [][Next]_vars

\* run() goes on, callbacks return, and time passes.
FairSpec == Spec /\ WF_vars(Loop) /\ WF_vars(Wait)

-----------------------------------------------------------------------------
\* While run() waits, the tables of the connection and of the loop hold the same
\* timers and readers, and the poll object watches what has a reader.  Only
\* timers removed by their own callback may be left in the loop's.
TablesAgree ==
    /\ TypeOK
    /\ pc = "poll" =>
         /\ DOMAIN timers \ own = DOMAIN timer_callbacks
         /\ \A id \in DOMAIN timer_callbacks : timers[id].oneshot = timer_callbacks[id]
         /\ read_callbacks = callbacks /\ callbacks = registered

\* run() is left by an exception of its own in two cases only: a one-shot timer's
\* callback has removed that timer, or a callback has removed the reader of a
\* descriptor that was ready in the same batch.
FailuresExplained ==
    /\ error = "timer" => own \ repeats # {}
    /\ error = "fd" => dropped \ callbacks # {}

\* While run() waits no timer is late by more than poll()'s timeout and the time
\* spent in callbacks since the timers were looked at.
OnTime ==
    pc = "poll" =>
        \A id \in DOMAIN timers : now <= timers[id].run_at + PollTimeout + busy

Starts(id) == pc = "timers" /\ pc' = "timer" /\ timer'.id = id

\* A callback never runs before its interval has passed since the timer was
\* added, or since the sweep that ran it the last time.
NeverEarly ==
    \A id \in TimerIds : Starts(id) => sweep - last[id] >= timer'.interval

\* Every timer runs, unless it is removed or an exception leaves run().
TimersRun ==
    \A id \in TimerIds :
        (id \in DOMAIN timers /\ timers[id].run_at + PollTimeout + MaxBusy <= MaxTime)
            ~> (id \in ran \/ id \in removed \/ pc = "left")

\* Timers run, not before their interval, and not later than the poll timeout and
\* the callbacks of others explain.
Timing == [][NeverEarly /\ OnTime']_vars
Punctual == TimersRun /\ Timing

Service == INSTANCE TimerService WITH
    Ids <- TimerIds,
    used <- 0..(next_timer - 1),
    live <- (0..(next_timer - 1)) \ (removed \cup (ran \ repeats)),
    running <- timer.id

\* Whatever callbacks do to the tables during a sweep, a removed timer's callback
\* does not run again, and a one-shot timer's runs once.
ServiceSpec == Service!Spec
=============================================================================
