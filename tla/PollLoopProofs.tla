--------------------------- MODULE PollLoopProofs ---------------------------
(***************************************************************************)
(* PollIntegration.run(): the tables of the connection and of the loop     *)
(* agree, what leaves run() is explained, timers are what TimerService     *)
(* promises and punctual, for all descriptors, timers and intervals.       *)
(***************************************************************************)
EXTENDS PollLoop, TLAPS

Used == 0..(next_timer - 1)

\* Every table and every history is about timers that have been added.
OnlyUsed ==
    /\ DOMAIN timer_callbacks \subseteq Used /\ DOMAIN timers \subseteq Used
    /\ removed \subseteq Used /\ own \subseteq removed
    /\ repeats \subseteq Used /\ ran \subseteq Used
    /\ DOMAIN last = Used

\* A timer is known everywhere as what it was added as.
AsAdded ==
    /\ \A id \in DOMAIN timer_callbacks : timer_callbacks[id] = (id \notin repeats)
    /\ \A id \in DOMAIN timers : timers[id].oneshot = (id \notin repeats)
    /\ timer.id # -1 => timer.oneshot = (timer.id \notin repeats)

\* There is a timer whose callback runs at just one place in run().
Running ==
    IF pc = "timer" THEN timer.id \in Used /\ timer.interval \in Intervals ELSE timer = NoTimer

\* The loop has what the connection knows, and besides only repeating timers that
\* were removed by their own callback.
LoopKnows ==
    /\ DOMAIN timer_callbacks \subseteq DOMAIN timers
    /\ DOMAIN timers \ DOMAIN timer_callbacks \subseteq own \cap repeats
    /\ pc = "timer" => timer.id \in DOMAIN timer_callbacks \cup own

\* A timer that was removed, or was a one-shot timer and has run, cannot start.
OverIsOver ==
    /\ DOMAIN timer_callbacks \cap removed = {}
    /\ \A id \in DOMAIN timers \ {timer.id} : id \in repeats \/ id \notin ran

\* The connection's table of readers, the loop's and the poll object are one, and
\* an event of the batch has lost its reader only to an earlier callback.
ReadersAgree ==
    /\ read_callbacks = callbacks /\ callbacks = registered
    /\ batch \subseteq callbacks \cup dropped

\* An exception ends it all, and has its reason.
Explained ==
    /\ error # "none" => pc = "left"
    /\ FailuresExplained

\* A timer the connection knows runs next when its interval has passed since the
\* sweep it ran in, or since it was added.
Rearmed ==
    /\ \A id \in DOMAIN timer_callbacks \ {timer.id} :
         timers[id].run_at = last[id] + timers[id].interval
    /\ pc = "timer" => last[timer.id] = sweep

\* No timer that the sweep has passed over, and none that waits for poll() to give
\* up, was due when the sweep read the clock.
Swept ==
    /\ pc = "setup" => \A id \in DOMAIN timers : timers[id].run_at >= now
    /\ pc \in {"timers", "timer"} =>
         /\ now = sweep + busy
         /\ \A id \in DOMAIN timers \ (snapshot \cup {timer.id}) : timers[id].run_at >= sweep
    /\ pc = "poll" =>
         /\ now <= deadline
         /\ \A id \in DOMAIN timers : deadline <= timers[id].run_at + PollTimeout + busy

PollInv ==
    /\ TypeOK
    /\ OnlyUsed
    /\ AsAdded
    /\ Running
    /\ LoopKnows
    /\ OverIsOver
    /\ ReadersAgree
    /\ Explained
    /\ Rearmed
    /\ Swept

-----------------------------------------------------------------------------
LEMMA TableWith ==
    ASSUME NEW table, NEW id, NEW entry
    PROVE  /\ DOMAIN With(table, id, entry) = DOMAIN table \cup {id}
           /\ With(table, id, entry)[id] = entry
           /\ \A other \in DOMAIN table : other # id => With(table, id, entry)[other] = table[other]
BY DEF With

LEMMA TableWithout ==
    ASSUME NEW table, NEW id
    PROVE  /\ DOMAIN Without(table, id) = DOMAIN table \ {id}
           /\ \A other \in DOMAIN table \ {id} : Without(table, id)[other] = table[other]
BY DEF Without, Restrict

\* What follows from the types where it is needed most.
LEMMA Facts ==
    ASSUME PollInv
    PROVE  /\ now \in Nat /\ busy \in Nat /\ sweep \in Nat /\ deadline \in Nat
           /\ next_timer \in Nat /\ -1 \notin Used /\ Used \subseteq TimerIds
           /\ \A id \in DOMAIN timers : timers[id].run_at \in Nat /\ timers[id].interval \in Nat
           /\ timer.id = -1 => timer = NoTimer
           /\ timer # NoTimer => timer.id \in Used /\ pc = "timer"
           /\ PollTimeout \in Nat \ {0} /\ Intervals \subseteq Nat
<1>1. /\ now \in Nat /\ busy \in Nat /\ sweep \in Nat /\ deadline \in Nat /\ next_timer \in Nat
      /\ next_timer <= MaxTimers
  BY BoundAssumption DEF PollInv, TypeOK
<1>2. -1 \notin Used /\ Used \subseteq TimerIds
  BY <1>1, BoundAssumption DEF Used, TimerIds
<1>3. \A id \in DOMAIN timers : timers[id].run_at \in Nat /\ timers[id].interval \in Nat
  BY TimingAssumption DEF PollInv, TypeOK
<1>4. /\ timer.id = -1 => timer = NoTimer
      /\ timer # NoTimer => timer.id \in Used /\ pc = "timer"
  BY <1>2 DEF PollInv, Running
<1> QED
  BY <1>1, <1>2, <1>3, <1>4, TimingAssumption

LEMMA InvInit == Init => PollInv
<1> SUFFICES ASSUME Init PROVE PollInv
  OBVIOUS
<1>1. DOMAIN <<>> = {} /\ Used = {}
  BY DEF Init, Used
<1>2. TypeOK
  BY <1>1, BoundAssumption DEF Init, TypeOK, NoTimer
<1>3. OnlyUsed /\ AsAdded /\ Running /\ LoopKnows /\ OverIsOver
  BY <1>1 DEF Init, OnlyUsed, AsAdded, Running, LoopKnows, OverIsOver, NoTimer
<1>4. ReadersAgree /\ Explained /\ Rearmed /\ Swept
  BY <1>1 DEF Init, ReadersAgree, Explained, FailuresExplained, Rearmed, Swept
<1> QED
  BY <1>2, <1>3, <1>4 DEF PollInv

-----------------------------------------------------------------------------
\* Time passes in poll() up to the deadline, and in callbacks on busy's account.
LEMMA InvWorld ==
    ASSUME PollInv, Wait \/ Work \/ \E fd \in Fds : Arrive(fd)
    PROVE  PollInv'
<1> USE Facts
<1>1. /\ UNCHANGED <<readerVars, timerVars, loopVars>>
      /\ now' \in {now, now + 1} /\ busy' \in {busy, busy + 1}
  BY DEF PollInv, TypeOK, Wait, Work, Arrive
<1>2. TypeOK'
  <2>1. now' \in 0..MaxTime /\ busy' \in 0..MaxBusy
    BY BoundAssumption DEF PollInv, TypeOK, Wait, Work, Arrive
  <2>2. ready' \subseteq Fds /\ arrivals' \in 0..MaxReady
    BY BoundAssumption DEF PollInv, TypeOK, Wait, Work, Arrive, worldVars
  <2> QED
    BY <1>1, <2>1, <2>2 DEF PollInv, TypeOK, readerVars, timerVars, loopVars
<1>3. OnlyUsed' /\ AsAdded' /\ Running' /\ LoopKnows' /\ OverIsOver'
  BY <1>1 DEF PollInv, OnlyUsed, Used, AsAdded, Running, LoopKnows, OverIsOver, timerVars, loopVars
<1>4. ReadersAgree' /\ Explained' /\ Rearmed'
  BY <1>1 DEF PollInv, ReadersAgree, Explained, FailuresExplained, Rearmed, readerVars,
     timerVars, loopVars
<1>5. Swept'
  <2>1. CASE pc = "poll"
    BY <1>1, <2>1 DEF PollInv, Swept, Wait, Work, Arrive, timerVars, loopVars
  <2>2. CASE pc # "poll"
    <3>1. \/ now' = now /\ busy' = busy
          \/ pc \in {"reader", "timer"} /\ now' = now + 1 /\ busy' = busy + 1
      BY <2>2 DEF Wait, Work, Arrive
    <3> QED
      BY <1>1, <2>2, <3>1 DEF PollInv, Swept, timerVars, loopVars
  <2> QED
    BY <2>1, <2>2
<1> QED
  BY <1>2, <1>3, <1>4, <1>5 DEF PollInv

\* Readers come and go in the three tables at once; one that goes while its event
\* is in the batch is remembered.
LEMMA InvReaders ==
    ASSUME PollInv, NEW fd \in Fds, AddReader(fd) \/ RemoveReader(fd)
    PROVE  PollInv'
<1>1. /\ UNCHANGED <<now, busy, worldVars, timerVars, loopVars>>
      /\ pc # "left"
  BY DEF AddReader, RemoveReader, InApplication
<1>2. ReadersAgree' /\ read_callbacks' \subseteq Fds /\ dropped' \subseteq Fds
  BY <1>1 DEF PollInv, TypeOK, ReadersAgree, AddReader, RemoveReader, Register, Unregister, loopVars
<1>3. TypeOK'
  BY <1>1, <1>2 DEF PollInv, TypeOK, ReadersAgree, worldVars, timerVars, loopVars
<1>4. OnlyUsed' /\ AsAdded' /\ Running' /\ LoopKnows' /\ OverIsOver'
  BY <1>1 DEF PollInv, OnlyUsed, Used, AsAdded, Running, LoopKnows, OverIsOver, timerVars, loopVars
<1>5. Explained'
  BY <1>1 DEF PollInv, Explained, FailuresExplained, loopVars, timerVars
<1>6. Rearmed' /\ Swept'
  BY <1>1 DEF PollInv, Rearmed, Swept, timerVars, loopVars
<1> QED
  BY <1>2, <1>3, <1>4, <1>5, <1>6 DEF PollInv

\* A new timer's id is in no table and no history, and it is due no sooner than now.
LEMMA InvAddTimer ==
    ASSUME PollInv, NEW interval \in Intervals, NEW oneshot \in BOOLEAN,
           AddTimer(interval, oneshot)
    PROVE  PollInv'
<1> USE Facts
<1> DEFINE new == next_timer
           entry == Entry(now + interval, oneshot, interval)
<1>1. /\ new \in TimerIds /\ new \notin Used /\ new # -1 /\ Used' = Used \cup {new}
      /\ next_timer' \in 0..MaxTimers
      /\ interval \in Nat
  BY BoundAssumption, TimingAssumption DEF PollInv, TypeOK, AddTimer, Used, TimerIds
<1>2. /\ pc \in {"setup", "reader", "timer"}
      /\ timers' = With(timers, new, entry)
      /\ timer_callbacks' = With(timer_callbacks, new, oneshot)
      /\ last' = With(last, new, now)
      /\ repeats' = IF oneshot THEN repeats ELSE repeats \cup {new}
      /\ UNCHANGED <<removed, own, now, busy, worldVars, readerVars, loopVars>>
  BY DEF AddTimer, InApplication
<1>3. /\ DOMAIN timers' = DOMAIN timers \cup {new}
      /\ DOMAIN timer_callbacks' = DOMAIN timer_callbacks \cup {new}
      /\ DOMAIN last' = DOMAIN last \cup {new}
      /\ timers'[new] = entry /\ timer_callbacks'[new] = oneshot /\ last'[new] = now
      /\ \A id \in DOMAIN timers : id # new => timers'[id] = timers[id]
      /\ \A id \in DOMAIN timer_callbacks : id # new => timer_callbacks'[id] = timer_callbacks[id]
      /\ \A id \in DOMAIN last : id # new => last'[id] = last[id]
  BY <1>2 DEF With
<1>4. /\ entry.run_at = now + interval /\ entry.oneshot = oneshot /\ entry.interval = interval
      /\ entry \in [run_at : Nat, oneshot : BOOLEAN, interval : Intervals]
  BY <1>1 DEF Entry
<1>5. DOMAIN timers \subseteq Used /\ DOMAIN timer_callbacks \subseteq Used /\ DOMAIN last = Used
      /\ timer.id # new /\ new \notin repeats
  BY <1>1 DEF PollInv, OnlyUsed, Running, NoTimer
<1>6. TypeOK'
  <2>1. \A id \in DOMAIN timers' :
          timers'[id] \in [run_at : Nat, oneshot : BOOLEAN, interval : Intervals]
    BY <1>3, <1>4, <1>5 DEF PollInv, TypeOK
  <2>2. \A id \in DOMAIN timer_callbacks' : timer_callbacks'[id] \in BOOLEAN
    BY <1>3 DEF PollInv, TypeOK
  <2>3. \A id \in DOMAIN last' : last'[id] \in 0..now
    BY <1>3 DEF PollInv, TypeOK
  <2> QED
    BY <1>1, <1>2, <1>3, <2>1, <2>2, <2>3 DEF PollInv, TypeOK, worldVars, readerVars, loopVars
<1>7. OnlyUsed'
  BY <1>1, <1>2, <1>3 DEF PollInv, OnlyUsed, loopVars
<1>8. AsAdded'
  <2>1. \A id \in DOMAIN timer_callbacks' : timer_callbacks'[id] = (id \notin repeats')
    BY <1>1, <1>2, <1>3, <1>5 DEF PollInv, AsAdded
  <2>2. \A id \in DOMAIN timers' : timers'[id].oneshot = (id \notin repeats')
    BY <1>1, <1>2, <1>3, <1>4, <1>5 DEF PollInv, AsAdded
  <2> QED
    BY <1>2, <1>5, <2>1, <2>2 DEF PollInv, AsAdded, loopVars
<1>9. Running' /\ LoopKnows'
  BY <1>1, <1>2, <1>3, <1>5 DEF PollInv, Running, LoopKnows, loopVars
<1>10. OverIsOver'
  BY <1>1, <1>2, <1>3, <1>5 DEF PollInv, OnlyUsed, OverIsOver, loopVars
<1>11. ReadersAgree' /\ Explained'
  <2>1. error = "none"
    BY <1>2 DEF PollInv, Explained
  <2> QED
    BY <1>2, <2>1 DEF PollInv, ReadersAgree, Explained, FailuresExplained, readerVars, loopVars
<1>12. Rearmed'
  BY <1>1, <1>2, <1>3, <1>4, <1>5 DEF PollInv, LoopKnows, Rearmed, Running, loopVars
<1>13. Swept'
  BY <1>1, <1>2, <1>3, <1>4, <1>5 DEF PollInv, Swept, loopVars
<1> QED
  BY <1>6, <1>7, <1>8, <1>9, <1>10, <1>11, <1>12, <1>13 DEF PollInv

LEMMA InvRemoveTimer ==
    ASSUME PollInv, NEW id \in TimerIds, RemoveTimer(id)
    PROVE  PollInv'
<1> USE Facts
<1>1. /\ pc \in {"setup", "reader", "timer"}
      /\ id \in DOMAIN timer_callbacks /\ id \in Used /\ Used' = Used
      /\ timers' = Without(timers, id)
      /\ timer_callbacks' = Without(timer_callbacks, id)
      /\ removed' = removed \cup {id}
      /\ own' = own \cup ({id} \cap {timer.id})
      /\ UNCHANGED <<next_timer, last, repeats, now, busy, worldVars, readerVars, loopVars>>
  BY DEF RemoveTimer, InApplication, PollInv, OnlyUsed, Used
<1>2. /\ DOMAIN timers' = DOMAIN timers \ {id}
      /\ DOMAIN timer_callbacks' = DOMAIN timer_callbacks \ {id}
      /\ \A other \in DOMAIN timers \ {id} : timers'[other] = timers[other]
      /\ \A other \in DOMAIN timer_callbacks \ {id} :
           timer_callbacks'[other] = timer_callbacks[other]
  BY <1>1, TableWithout
<1>3. TypeOK'
  <2>1. \A other \in DOMAIN timers' :
          timers'[other] \in [run_at : Nat, oneshot : BOOLEAN, interval : Intervals]
    BY <1>2 DEF PollInv, TypeOK
  <2>2. \A other \in DOMAIN timer_callbacks' : timer_callbacks'[other] \in BOOLEAN
    BY <1>2 DEF PollInv, TypeOK
  <2> QED
    BY <1>1, <1>2, <2>1, <2>2 DEF PollInv, TypeOK, worldVars, readerVars, loopVars
<1>4. OnlyUsed' /\ AsAdded'
  BY <1>1, <1>2 DEF PollInv, OnlyUsed, AsAdded, loopVars
<1>5. Running' /\ LoopKnows'
  BY <1>1, <1>2 DEF PollInv, Running, LoopKnows, loopVars
<1>6. OverIsOver'
  BY <1>1, <1>2 DEF PollInv, OverIsOver, loopVars
<1>7. ReadersAgree' /\ Explained'
  BY <1>1 DEF PollInv, ReadersAgree, Explained, FailuresExplained, readerVars, loopVars
<1>8. Rearmed' /\ Swept'
  BY <1>1, <1>2 DEF PollInv, LoopKnows, Rearmed, Swept, loopVars
<1> QED
  BY <1>3, <1>4, <1>5, <1>6, <1>7, <1>8 DEF PollInv

-----------------------------------------------------------------------------
\* What run() does between callbacks leaves the timers' tables alone.
LEMMA TablesKept ==
    ASSUME PollInv, UNCHANGED <<timerVars, timer, ran>>, pc # "timer", pc' # "timer"
    PROVE  OnlyUsed' /\ AsAdded' /\ Running' /\ LoopKnows' /\ OverIsOver'
BY DEF PollInv, OnlyUsed, Used, AsAdded, Running, LoopKnows, OverIsOver, timerVars

\* run() starts to wait: whatever poll() does, it gives up in time for every timer,
\* because none was due when the clock was read, and what has passed since is busy.
LEMMA InvEnterPoll ==
    ASSUME PollInv, Run \/ EndSweep
    PROVE  PollInv'
<1> USE Facts
<1>1. /\ UNCHANGED <<now, busy, worldVars, readerVars, timerVars, batch, snapshot, timer, error, ran>>
      /\ pc' = "poll" /\ deadline' = now + PollTimeout
      /\ sweep' \in {sweep, 0}
  BY DEF Run, EndSweep, EnterPoll
<1>2. /\ pc = "setup" \/ (pc = "timers" /\ snapshot = {})
      /\ timer.id = -1 /\ error = "none"
  <2>1. pc = "setup" \/ (pc = "timers" /\ snapshot = {})
    BY DEF Run, EndSweep
  <2> QED
    BY <2>1 DEF PollInv, Running, Explained, NoTimer
<1>3. TypeOK'
  BY <1>1 DEF PollInv, TypeOK, worldVars, readerVars, timerVars
<1>4. OnlyUsed' /\ AsAdded' /\ Running' /\ LoopKnows' /\ OverIsOver'
  BY <1>1, <1>2, TablesKept
<1>5. ReadersAgree' /\ Explained'
  BY <1>1, <1>2 DEF PollInv, ReadersAgree, Explained, FailuresExplained, readerVars, timerVars
<1>6. Rearmed'
  BY <1>1 DEF PollInv, Rearmed, timerVars
<1>7. Swept'
  <2> SUFFICES ASSUME NEW id \in DOMAIN timers
               PROVE  deadline' <= timers[id].run_at + PollTimeout + busy
    BY <1>1 DEF Swept, timerVars
  <2>1. now <= timers[id].run_at + busy
    <3>1. -1 \notin DOMAIN timers
      BY DEF PollInv, OnlyUsed
    <3> QED
      BY <1>2, <3>1 DEF PollInv, Swept
  <2> QED
    BY <1>1, <2>1
<1> QED
  BY <1>3, <1>4, <1>5, <1>6, <1>7 DEF PollInv

\* The batch holds descriptors that are watched, so that each has a reader.
LEMMA InvBatch ==
    ASSUME PollInv, Poll \/ (\E fd \in Fds : HandleEvent(fd)) \/ ReturnReader
    PROVE  PollInv'
<1> USE Facts
<1>1. /\ UNCHANGED <<now, busy, readerVars, timerVars, snapshot, sweep, timer, ran>>
      /\ pc \in {"poll", "events", "reader"} /\ pc' \in {"events", "reader", "left"}
      /\ deadline' \in {deadline, 0}
  BY DEF Poll, HandleEvent, ReturnReader, worldVars
<1>2. /\ error = "none"
      /\ error' \in {"none", "fd"}
  BY <1>1 DEF PollInv, Explained, Poll, HandleEvent, ReturnReader
<1>3. ReadersAgree' /\ batch' \subseteq Fds /\ ready' \subseteq Fds /\ arrivals' = arrivals
  BY <1>1 DEF PollInv, TypeOK, ReadersAgree, Readable, Poll, HandleEvent, ReturnReader,
     readerVars, worldVars
<1>4. TypeOK'
  BY <1>1, <1>2, <1>3 DEF PollInv, TypeOK, readerVars, timerVars
<1>5. OnlyUsed' /\ AsAdded' /\ Running' /\ LoopKnows' /\ OverIsOver'
  BY <1>1, TablesKept
<1>6. Explained'
  <2>1. CASE error' = "none"
    BY <2>1 DEF Explained, FailuresExplained
  <2>2. CASE error' = "fd"
    <3>1. PICK fd \in batch : fd \notin callbacks /\ pc' = "left"
      BY <1>2, <2>2 DEF Poll, HandleEvent, ReturnReader
    <3>2. fd \in dropped' \ callbacks'
      BY <1>1, <3>1 DEF PollInv, ReadersAgree, readerVars
    <3> QED
      BY <2>2, <3>1, <3>2 DEF Explained, FailuresExplained
  <2> QED
    BY <1>2, <2>1, <2>2
<1>7. Rearmed' /\ Swept'
  BY <1>1 DEF PollInv, Rearmed, Swept, timerVars
<1> QED
  BY <1>3, <1>4, <1>5, <1>6, <1>7 DEF PollInv

\* The sweep reads the clock once; nothing has been passed over yet.
LEMMA InvSweep ==
    ASSUME PollInv, StartSweep \/ \E id \in TimerIds : SkipTimer(id)
    PROVE  PollInv'
<1> USE Facts
<1>1. /\ UNCHANGED <<now, worldVars, readerVars, timerVars, batch, deadline, timer, error, ran>>
      /\ pc \in {"events", "timers"} /\ pc' = "timers"
  BY DEF StartSweep, SkipTimer
<1>2. /\ busy' \in 0..MaxBusy /\ sweep' \in 0..now /\ now = sweep' + busy'
      /\ timer = NoTimer /\ timer.id = -1
  <2>1. timer = NoTimer /\ timer.id = -1
    BY <1>1 DEF PollInv, Running, NoTimer
  <2>2. CASE StartSweep
    BY <2>1, <2>2, BoundAssumption DEF StartSweep
  <2>3. CASE \E id \in TimerIds : SkipTimer(id)
    BY <2>1, <2>3 DEF PollInv, TypeOK, Swept, SkipTimer
  <2> QED
    BY <2>1, <2>2, <2>3
<1>3. /\ snapshot' \subseteq TimerIds
      /\ \A id \in DOMAIN timers \ (snapshot' \cup {timer.id}) : timers[id].run_at >= sweep'
  <2>1. CASE StartSweep
    BY <2>1 DEF PollInv, TypeOK, StartSweep
  <2>2. CASE \E id \in TimerIds : SkipTimer(id)
    BY <1>1, <2>2 DEF PollInv, TypeOK, Swept, SkipTimer, Due
  <2> QED
    BY <2>1, <2>2
<1>4. TypeOK'
  BY <1>1, <1>2, <1>3 DEF PollInv, TypeOK, readerVars, timerVars, worldVars
<1>5. OnlyUsed' /\ AsAdded' /\ Running' /\ LoopKnows' /\ OverIsOver'
  BY <1>1, TablesKept
<1>6. ReadersAgree' /\ Explained'
  BY <1>1 DEF PollInv, ReadersAgree, Explained, FailuresExplained, readerVars, timerVars
<1>7. Rearmed' /\ Swept'
  BY <1>1, <1>2, <1>3 DEF PollInv, Rearmed, Swept, timerVars
<1> QED
  BY <1>4, <1>5, <1>6, <1>7 DEF PollInv

\* A timer that is due and known starts; until its callback returns its entry is
\* the old one.
LEMMA InvRunTimer ==
    ASSUME PollInv, NEW id \in TimerIds, RunTimer(id)
    PROVE  PollInv'
<1> USE Facts
<1>1. /\ UNCHANGED <<now, busy, worldVars, readerVars, timer_callbacks, timers, next_timer,
                     removed, own, repeats, batch, sweep, deadline, error>>
      /\ pc = "timers" /\ pc' = "timer"
      /\ id \in DOMAIN timers /\ id \in DOMAIN timer_callbacks /\ id \in Used
      /\ snapshot' = snapshot \ {id}
      /\ ran' = ran \cup {id}
      /\ timer'.id = id /\ timer'.oneshot = timers[id].oneshot /\ timer'.interval \in Intervals
  BY DEF RunTimer, Due, PollInv, TypeOK, OnlyUsed
<1>2. /\ DOMAIN last' = DOMAIN last /\ last'[id] = sweep
      /\ \A other \in DOMAIN last \ {id} : last'[other] = last[other]
  BY <1>1 DEF RunTimer, PollInv, OnlyUsed
<1>3. timer = NoTimer /\ timer.id = -1
  BY <1>1 DEF PollInv, Running, NoTimer
<1>4. TypeOK'
  <2>1. timer' \in [id : TimerIds \cup {-1}, oneshot : BOOLEAN, interval : Intervals \cup {0}]
    BY <1>1 DEF RunTimer, PollInv, TypeOK
  <2>2. \A other \in DOMAIN last' : last'[other] \in 0..now
    BY <1>2 DEF PollInv, TypeOK
  <2> QED
    BY <1>1, <1>2, <2>1, <2>2 DEF PollInv, TypeOK, readerVars, worldVars
<1>5. OnlyUsed' /\ AsAdded' /\ Running'
  BY <1>1, <1>2 DEF PollInv, OnlyUsed, Used, AsAdded, Running
<1>6. LoopKnows' /\ OverIsOver'
  BY <1>1, <1>3 DEF PollInv, OnlyUsed, LoopKnows, OverIsOver
<1>7. ReadersAgree' /\ Explained'
  BY <1>1 DEF PollInv, ReadersAgree, Explained, FailuresExplained, readerVars
<1>8. Rearmed'
  BY <1>1, <1>2, <1>3 DEF PollInv, OnlyUsed, Rearmed
<1>9. Swept'
  BY <1>1, <1>3 DEF PollInv, OnlyUsed, Swept
<1> QED
  BY <1>4, <1>5, <1>6, <1>7, <1>8, <1>9 DEF PollInv

\* What Rearm leaves behind.
LEMMA RearmKeeps ==
    ASSUME PollInv, NEW t, t.id \in TimerIds, t.interval \in Intervals, t.oneshot \in BOOLEAN, Rearm(t)
    PROVE  /\ DOMAIN timers' = IF t.oneshot THEN DOMAIN timers \ {t.id} ELSE DOMAIN timers \cup {t.id}
           /\ \A id \in DOMAIN timers \ {t.id} : timers'[id] = timers[id]
           /\ ~t.oneshot => /\ timers'[t.id].run_at = sweep + t.interval
                            /\ timers'[t.id].oneshot = FALSE
                            /\ timers'[t.id].interval = t.interval
           /\ \A id \in DOMAIN timers' :
                timers'[id] \in [run_at : Nat, oneshot : BOOLEAN, interval : Intervals]
<1>1. /\ DOMAIN timers' = IF t.oneshot THEN DOMAIN timers \ {t.id} ELSE DOMAIN timers \cup {t.id}
      /\ \A id \in DOMAIN timers \ {t.id} : timers'[id] = timers[id]
      /\ ~t.oneshot => timers'[t.id] = Entry(sweep + t.interval, FALSE, t.interval)
  BY DEF Rearm, With, Without, Restrict
<1>2. sweep + t.interval \in Nat
  BY Facts
<1>3. \A id \in DOMAIN timers :
        timers[id] \in [run_at : Nat, oneshot : BOOLEAN, interval : Intervals]
  BY DEF PollInv, TypeOK
<1>4. Entry(sweep + t.interval, FALSE, t.interval)
        \in [run_at : Nat, oneshot : BOOLEAN, interval : Intervals]
  BY <1>2 DEF Entry
<1>5. /\ Entry(sweep + t.interval, FALSE, t.interval).run_at = sweep + t.interval
      /\ Entry(sweep + t.interval, FALSE, t.interval).oneshot = FALSE
      /\ Entry(sweep + t.interval, FALSE, t.interval).interval = t.interval
  BY DEF Entry
<1> QED
  BY <1>1, <1>3, <1>4, <1>5

\* A timer only the loop knows is a repeating one: it is stored again.
LEMMA InvIgnoreTimer ==
    ASSUME PollInv, NEW id \in TimerIds, IgnoreTimer(id)
    PROVE  PollInv'
<1> USE Facts
<1> DEFINE t == [id |-> id, oneshot |-> timers[id].oneshot, interval |-> timers[id].interval]
<1>1. /\ UNCHANGED <<now, busy, worldVars, readerVars, timer_callbacks, next_timer, removed, own,
                     repeats, last, pc, batch, sweep, deadline, timer, error, ran>>
      /\ pc = "timers"
      /\ id \in DOMAIN timers /\ id \notin DOMAIN timer_callbacks /\ id \in Used
      /\ snapshot' = snapshot \ {id}
      /\ Rearm(t)
  BY DEF IgnoreTimer, Due, PollInv, OnlyUsed
<1>2. id \in own \cap repeats /\ t.oneshot = FALSE
  BY <1>1 DEF PollInv, LoopKnows, AsAdded
<1>3. /\ DOMAIN timers' = DOMAIN timers
      /\ \A other \in DOMAIN timers \ {id} : timers'[other] = timers[other]
      /\ timers'[id].run_at = sweep + t.interval /\ timers'[id].oneshot = FALSE
      /\ \A other \in DOMAIN timers' :
           timers'[other] \in [run_at : Nat, oneshot : BOOLEAN, interval : Intervals]
      /\ t.interval \in Nat
  <2>1. t.id = id /\ t.interval \in Intervals /\ t.oneshot \in BOOLEAN
    BY <1>1 DEF PollInv, TypeOK
  <2> HIDE DEF t
  <2>2. ~t.oneshot
    BY <1>2
  <2>3. /\ DOMAIN timers' = DOMAIN timers \cup {t.id}
        /\ \A other \in DOMAIN timers \ {t.id} : timers'[other] = timers[other]
        /\ timers'[t.id].run_at = sweep + t.interval /\ timers'[t.id].oneshot = FALSE
        /\ \A other \in DOMAIN timers' :
             timers'[other] \in [run_at : Nat, oneshot : BOOLEAN, interval : Intervals]
    BY <1>1, <2>1, <2>2, RearmKeeps
  <2> QED
    BY <1>1, <2>1, <2>3
<1> HIDE DEF t
<1>4. TypeOK'
  BY <1>1, <1>3 DEF PollInv, TypeOK, readerVars, worldVars
<1>5. OnlyUsed' /\ AsAdded' /\ Running'
  BY <1>1, <1>2, <1>3 DEF PollInv, OnlyUsed, Used, AsAdded, Running
<1>6. LoopKnows' /\ OverIsOver'
  BY <1>1, <1>3 DEF PollInv, LoopKnows, OverIsOver
<1>7. ReadersAgree' /\ Explained'
  BY <1>1 DEF PollInv, ReadersAgree, Explained, FailuresExplained, readerVars
<1>8. Rearmed'
  BY <1>1, <1>3 DEF PollInv, LoopKnows, Rearmed
<1>9. Swept'
  BY <1>1, <1>3 DEF PollInv, Swept
<1> QED
  BY <1>4, <1>5, <1>6, <1>7, <1>8, <1>9 DEF PollInv

\* The callback has returned.  A one-shot timer that removed itself leaves run();
\* any other timer is rearmed or deleted everywhere.
LEMMA InvReturnTimer ==
    ASSUME PollInv, ReturnTimer
    PROVE  PollInv'
<1> USE Facts
<1> DEFINE id == timer.id
<1>1. /\ UNCHANGED <<now, busy, worldVars, readerVars, next_timer, removed, own, repeats, last,
                     batch, snapshot, sweep, deadline, ran>>
      /\ pc = "timer" /\ timer' = NoTimer /\ timer'.id = -1
      /\ timer.oneshot \in BOOLEAN /\ timer.oneshot = (id \notin repeats)
      /\ id \in Used /\ id # -1 /\ error = "none"
  BY DEF ReturnTimer, NoTimer, PollInv, TypeOK, AsAdded, Running, Explained
<1>2. ReadersAgree'
  BY <1>1 DEF PollInv, ReadersAgree, readerVars
<1>3. -1 \notin DOMAIN timers /\ -1 \notin DOMAIN timer_callbacks
  BY DEF PollInv, OnlyUsed
<1>4. NoTimer \in [id : TimerIds \cup {-1}, oneshot : BOOLEAN, interval : Intervals \cup {0}]
  BY DEF NoTimer
<1>5. CASE timer.oneshot /\ id \notin DOMAIN timer_callbacks
  <2>1. pc' = "left" /\ error' = "timer" /\ UNCHANGED <<timer_callbacks, timers>>
    BY <1>5 DEF ReturnTimer
  <2>2. id \in own \ repeats /\ id \notin DOMAIN timers
    BY <1>1, <1>5 DEF PollInv, LoopKnows
  <2>3. TypeOK'
    BY <1>1, <1>4, <2>1 DEF PollInv, TypeOK, readerVars, worldVars
  <2>4. OnlyUsed' /\ AsAdded' /\ Running'
    BY <1>1, <2>1 DEF PollInv, OnlyUsed, Used, AsAdded, Running
  <2>5. LoopKnows' /\ OverIsOver'
    BY <1>1, <2>1, <2>2 DEF PollInv, LoopKnows, OverIsOver
  <2>6. Explained'
    BY <1>1, <2>1, <2>2 DEF Explained, FailuresExplained
  <2>7. Rearmed' /\ Swept'
    BY <1>1, <1>5, <2>1 DEF PollInv, Rearmed, Swept
  <2> QED
    BY <1>2, <2>3, <2>4, <2>5, <2>6, <2>7 DEF PollInv
<1>6. CASE ~(timer.oneshot /\ id \notin DOMAIN timer_callbacks)
  <2>1. /\ pc' = "timers" /\ error' = "none"
        /\ timer_callbacks' = IF timer.oneshot THEN Without(timer_callbacks, id) ELSE timer_callbacks
        /\ Rearm(timer)
    BY <1>1, <1>6 DEF ReturnTimer
  <2>2. timer.interval \in Intervals /\ timer.interval \in Nat
    BY <1>1 DEF PollInv, Running
  <2>3. /\ DOMAIN timers' = IF timer.oneshot THEN DOMAIN timers \ {id} ELSE DOMAIN timers \cup {id}
        /\ \A other \in DOMAIN timers \ {id} : timers'[other] = timers[other]
        /\ ~timer.oneshot => timers'[id].run_at = sweep + timer.interval
                             /\ timers'[id].oneshot = FALSE
                             /\ timers'[id].interval = timer.interval
        /\ \A other \in DOMAIN timers' :
             timers'[other] \in [run_at : Nat, oneshot : BOOLEAN, interval : Intervals]
    BY <1>1, <2>1, <2>2, RearmKeeps
  <2>4. /\ DOMAIN timer_callbacks' = IF timer.oneshot THEN DOMAIN timer_callbacks \ {id}
                                     ELSE DOMAIN timer_callbacks
        /\ \A other \in DOMAIN timer_callbacks' : timer_callbacks'[other] = timer_callbacks[other]
    BY <1>1, <2>1 DEF Without, Restrict
  <2>5. TypeOK'
    BY <1>1, <1>4, <2>1, <2>3, <2>4 DEF PollInv, TypeOK, readerVars, worldVars
  <2>6. OnlyUsed' /\ Running'
    BY <1>1, <2>1, <2>3, <2>4 DEF PollInv, OnlyUsed, Used, Running
  <2>7. AsAdded'
    <3>1. \A other \in DOMAIN timers' : timers'[other].oneshot = (other \notin repeats)
      <4>1. \A other \in DOMAIN timers' \ {id} : timers'[other].oneshot = (other \notin repeats)
        BY <2>3 DEF PollInv, AsAdded
      <4>2. id \in DOMAIN timers' => ~timer.oneshot /\ timers'[id].oneshot = (id \notin repeats)
        BY <1>1, <2>3
      <4> QED
        BY <4>1, <4>2
    <3> QED
      BY <1>1, <2>4, <3>1 DEF PollInv, AsAdded
  <2>8. LoopKnows'
    <3>1. CASE timer.oneshot
      BY <1>1, <2>1, <2>3, <2>4, <3>1 DEF PollInv, LoopKnows
    <3>2. CASE ~timer.oneshot
      <4>1. id \in repeats /\ id \in DOMAIN timer_callbacks \cup own
        BY <1>1, <3>2 DEF PollInv, LoopKnows
      <4>2. DOMAIN timers' = DOMAIN timers \cup {id} /\ DOMAIN timer_callbacks' = DOMAIN timer_callbacks
        BY <2>3, <2>4, <3>2
      <4> QED
        BY <1>1, <2>1, <4>1, <4>2 DEF PollInv, LoopKnows
    <3> QED
      BY <3>1, <3>2
  <2>9. OverIsOver'
    BY <1>1, <2>3, <2>4 DEF PollInv, OverIsOver
  <2>10. Explained'
    BY <2>1 DEF Explained, FailuresExplained
  <2>11. Rearmed'
    BY <1>1, <1>3, <2>1, <2>3, <2>4 DEF PollInv, LoopKnows, Rearmed
  <2>12. Swept'
    BY <1>1, <2>1, <2>2, <2>3 DEF PollInv, Swept
  <2> QED
    BY <1>2, <2>5, <2>6, <2>7, <2>8, <2>9, <2>10, <2>11, <2>12 DEF PollInv
<1> QED
  BY <1>5, <1>6

LEMMA InvStep == PollInv /\ [Next]_vars => PollInv'
<1> SUFFICES ASSUME PollInv, [Next]_vars PROVE PollInv'
  OBVIOUS
<1>1. CASE Wait \/ Work \/ \E fd \in Fds : Arrive(fd)
  BY <1>1, InvWorld
<1>2. CASE \E fd \in Fds : AddReader(fd) \/ RemoveReader(fd)
  BY <1>2, InvReaders
<1>3. CASE \E interval \in Intervals, oneshot \in BOOLEAN : AddTimer(interval, oneshot)
  BY <1>3, InvAddTimer
<1>4. CASE \E id \in TimerIds : RemoveTimer(id)
  BY <1>4, InvRemoveTimer
<1>5. CASE Run \/ EndSweep
  BY <1>5, InvEnterPoll
<1>6. CASE Poll \/ (\E fd \in Fds : HandleEvent(fd)) \/ ReturnReader
  BY <1>6, InvBatch
<1>7. CASE StartSweep \/ \E id \in TimerIds : SkipTimer(id)
  BY <1>7, InvSweep
<1>8. CASE \E id \in TimerIds : RunTimer(id)
  BY <1>8, InvRunTimer
<1>9. CASE \E id \in TimerIds : IgnoreTimer(id)
  BY <1>9, InvIgnoreTimer
<1>10. CASE ReturnTimer
  BY <1>10, InvReturnTimer
<1>11. CASE UNCHANGED vars
  BY <1>11 DEF vars, worldVars, readerVars, timerVars, loopVars, PollInv, TypeOK, OnlyUsed, Used, AsAdded,
     Running, LoopKnows, OverIsOver, ReadersAgree, Explained, FailuresExplained, Rearmed, Swept
<1> QED
  BY <1>1, <1>2, <1>3, <1>4, <1>5, <1>6, <1>7, <1>8, <1>9, <1>10, <1>11 DEF Next, Application, Loop

\* Readers and timers are accounted for wherever run() is, also inside callbacks
\* that add and remove them (add_reader, remove_reader, add_timer, remove_timer).
THEOREM PollAccounted == Spec => []PollInv
BY InvInit, InvStep, PTL DEF Spec

\* While run() waits, the connection's tables and the loop's hold the same readers
\* and timers; what is left over was removed by its own callback (check_timers).
THEOREM TablesMatch == Spec => []TablesAgree
<1>1. PollInv => TablesAgree
  <2> SUFFICES ASSUME PollInv PROVE TablesAgree
    OBVIOUS
  <2>1. DOMAIN timers \ own = DOMAIN timer_callbacks
    BY DEF PollInv, OnlyUsed, LoopKnows, OverIsOver
  <2>2. \A id \in DOMAIN timer_callbacks : timers[id].oneshot = timer_callbacks[id]
    BY DEF PollInv, LoopKnows, AsAdded
  <2> QED
    BY <2>1, <2>2 DEF PollInv, ReadersAgree, TablesAgree
<1> QED
  BY <1>1, PollAccounted, PTL

\* run() is left by KeyError for two reasons only (_notify_timer_cb's and
\* check_timers' deletion of a one-shot timer, handle_event's lookup).
THEOREM FailuresHaveReasons == Spec => []FailuresExplained
<1>1. PollInv => FailuresExplained
  BY DEF PollInv, Explained
<1> QED
  BY <1>1, PollAccounted, PTL

\* check_timers never runs a callback before its interval has passed, and no timer
\* waits longer than poll()'s timeout and the callbacks before it explain.
THEOREM TimersPunctual == Spec => Timing
<1>1. PollInv => OnTime
  <2> SUFFICES ASSUME PollInv, pc = "poll", NEW id \in DOMAIN timers
               PROVE  now <= timers[id].run_at + PollTimeout + busy
    BY DEF OnTime
  <2> QED
    BY Facts DEF PollInv, Swept
<1>2. PollInv /\ [Next]_vars => [NeverEarly]_vars
  <2> SUFFICES ASSUME PollInv, [Next]_vars, NEW id \in TimerIds, Starts(id)
               PROVE  sweep - last[id] >= timer'.interval
    BY DEF NeverEarly
  <2>1. RunTimer(id)
    BY DEF Starts, Next, vars, loopVars, Application, Loop, Wait, Work, Arrive, AddReader, RemoveReader,
       AddTimer, RemoveTimer, Run, EnterPoll, Poll, HandleEvent, ReturnReader, StartSweep, SkipTimer,
       RunTimer, IgnoreTimer, ReturnTimer, EndSweep
  <2>2. /\ id \in DOMAIN timers /\ id \in DOMAIN timer_callbacks /\ id \in DOMAIN last /\ id # timer.id
        /\ sweep >= timers[id].run_at /\ timer'.interval = timers[id].interval
    BY <2>1 DEF RunTimer, Due, PollInv, OnlyUsed, Used, Running, NoTimer
  <2>3. timers[id].run_at = last[id] + timers[id].interval
    BY <2>2 DEF PollInv, Rearmed
  <2>4. last[id] \in Nat
    BY <2>2 DEF PollInv, TypeOK
  <2> QED
    BY <2>2, <2>3, <2>4, Facts
<1> QED
  BY <1>1, <1>2, PollAccounted, PTL DEF Spec, Timing

-----------------------------------------------------------------------------
\* The refinement of TimerService: what the abstract specification calls live.
Over == removed \cup (ran \ repeats)
Live == Used \ Over

LEMMA AddServes ==
    ASSUME PollInv, NEW interval \in Intervals, NEW oneshot \in BOOLEAN, AddTimer(interval, oneshot)
    PROVE  Service!Next
<1> DEFINE new == next_timer
<1>1. /\ new \in TimerIds /\ new \notin Used /\ Used' = Used \cup {new}
      /\ new \notin Over
  <2>1. new \in TimerIds /\ new \notin Used /\ Used' = Used \cup {new}
    BY BoundAssumption DEF PollInv, TypeOK, AddTimer, Used, TimerIds
  <2> QED
    BY <2>1 DEF PollInv, OnlyUsed, Over
<1>2. /\ repeats' = IF oneshot THEN repeats ELSE repeats \cup {new}
      /\ UNCHANGED <<timer, removed, ran>>
  BY DEF AddTimer, loopVars
<1>3. Live' = Live \cup {new}
  BY <1>1, <1>2 DEF PollInv, OnlyUsed, Live, Over
<1>4. Service!Add(new)
  BY <1>1, <1>2, <1>3 DEF Service!Add, Used, Live, Over
<1> QED
  BY <1>1, <1>4 DEF Service!Next

LEMMA RemoveServes ==
    ASSUME PollInv, NEW id \in TimerIds, RemoveTimer(id)
    PROVE  Service!Next
<1>1. /\ removed' = removed \cup {id}
      /\ UNCHANGED <<next_timer, timer, repeats, ran>>
  BY DEF RemoveTimer, loopVars
<1>2. Live' = Live \ {id}
  BY <1>1 DEF Live, Over, Used
<1>3. Service!Remove(id)
  BY <1>1, <1>2 DEF Service!Remove, Used, Live, Over
<1> QED
  BY <1>3 DEF Service!Next

\* A timer that both tables know is live: it was not removed, and if it is a
\* one-shot timer it has not run.
LEMMA RunServes ==
    ASSUME PollInv, NEW id \in TimerIds, RunTimer(id)
    PROVE  Service!Next
<1>1. /\ id \in DOMAIN timers /\ id \in DOMAIN timer_callbacks
      /\ timer'.id = id
      /\ ran' = ran \cup {id}
      /\ UNCHANGED <<next_timer, removed, repeats>>
  BY DEF RunTimer, Due
<1>2. timer.id = -1 /\ id # -1
  BY DEF RunTimer, PollInv, Running, NoTimer, TimerIds
<1>3. id \in Live
  BY <1>1, <1>2 DEF PollInv, OnlyUsed, OverIsOver, Live, Over
<1>4. Live' = IF id \in repeats THEN Live ELSE Live \ {id}
  BY <1>1 DEF Live, Over, Used
<1>5. Service!Start(id)
  BY <1>1, <1>2, <1>3, <1>4 DEF Service!Start, Used, Live, Over
<1> QED
  BY <1>5 DEF Service!Next

\* Timers under run() implement TimerService: a removed timer's callback does not
\* run again and a one-shot timer's runs once, whatever callbacks do to the tables
\* that check_timers walks.
THEOREM PollTimersImplemented == Spec => ServiceSpec
<1>1. Init => Service!Init
  BY DEF Init, Service!Init, NoTimer
<1>2. PollInv /\ [Next]_vars => [Service!Next]_(Service!serviceVars)
  <2> SUFFICES ASSUME PollInv, [Next]_vars PROVE [Service!Next]_(Service!serviceVars)
    OBVIOUS
  <2>1. CASE \E interval \in Intervals, oneshot \in BOOLEAN : AddTimer(interval, oneshot)
    BY <2>1, AddServes
  <2>2. CASE \E id \in TimerIds : RemoveTimer(id)
    BY <2>2, RemoveServes
  <2>3. CASE \E id \in TimerIds : RunTimer(id)
    BY <2>3, RunServes
  <2>4. CASE ReturnTimer
    <3>1. /\ timer.id # -1 /\ timer'.id = -1
          /\ UNCHANGED <<next_timer, removed, repeats, ran>>
      BY <2>4, Facts DEF ReturnTimer, NoTimer, PollInv, Running
    <3> QED
      BY <3>1 DEF Service!Next, Service!Finish
  <2>5. CASE \/ Wait \/ Work \/ (\E fd \in Fds : Arrive(fd) \/ AddReader(fd) \/ RemoveReader(fd))
             \/ Run \/ Poll \/ (\E fd \in Fds : HandleEvent(fd)) \/ ReturnReader \/ StartSweep
             \/ (\E id \in TimerIds : SkipTimer(id) \/ IgnoreTimer(id)) \/ EndSweep
             \/ UNCHANGED vars
    <3>1. UNCHANGED <<next_timer, removed, repeats, ran, timer>>
      BY <2>5 DEF Wait, Work, Arrive, AddReader, RemoveReader, Run, EnterPoll, Poll, HandleEvent,
         ReturnReader, StartSweep, SkipTimer, IgnoreTimer, EndSweep, vars, timerVars, loopVars
    <3> QED
      BY <3>1 DEF Service!serviceVars
  <2> QED
    BY <2>1, <2>2, <2>3, <2>4, <2>5 DEF Next, Application, Loop
<1> QED
  BY <1>1, <1>2, PollAccounted, PTL DEF Spec, ServiceSpec, Service!Spec
=============================================================================
