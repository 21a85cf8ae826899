---------------------------- MODULE DataTransfer ----------------------------
(***************************************************************************)
(* DataControlOffer.receive: the content of a selection comes through a    *)
(* pipe.  receive() installs a reader for the read end and a one-shot      *)
(* timer against peers that keep the pipe open and say nothing; _read_cb   *)
(* collects the data until the peer closes its end and then runs the       *)
(* callback; _read_idle gives up.                                          *)
(*                                                                         *)
(* A receive() and its pipe are numbered from 1, a chunk of data is the    *)
(* number of its pipe.  Descriptors are numbers too: the kernel gives a    *)
(* new pipe the lowest that is free, and the write end, closed at once, is *)
(* left out.  The loops differ in what they do about a closed descriptor:  *)
(* poll() and GLib report it (POLLNVAL) as long as it is watched; epoll    *)
(* forgets it while asyncio's selector keeps it in its map, and does not   *)
(* tell epoll when a reader for a descriptor in the map is added.          *)
(***************************************************************************)
EXTENDS Integers, Sequences, Functions

CONSTANTS
    Mimes,        \* the types the offer has
    MaxReceives,  \* bound: calls of receive()
    Sizes         \* bound: how many chunks of data the peers may write

ASSUME BoundAssumption ==
    /\ MaxReceives \in Nat
    /\ Sizes \subseteq [1..MaxReceives -> Nat]

Integrations == {"poll", "asyncio", "glib"}
Pipes == 1..MaxReceives
Descriptors == 1..MaxReceives
None == <<0>>      \* no content: a pipe's chunks are never 0

VARIABLES
    integration, \* the event loop in use
    transfers,   \* _transfers: type -> chunks so far, or None
    fd_timers,   \* _fd_timers: descriptor -> timer
    timers,      \* the connection's timers, as the arguments of _read_idle
    readers,     \* the connection's readers: descriptor -> [mime, pipe]
    known,       \* asyncio: the descriptors in the selector's map
    watched,     \* how many watches the kernel or GLib has on a descriptor
    open,        \* the process's open read ends: descriptor -> pipe
    received,    \* receive() calls so far
    todo,        \* pipe -> chunks its peer has still to write
    inpipe,      \* pipe -> chunks written and not read
    hungup,      \* the pipes whose peer has closed its end
    size,        \* history: pipe -> chunks its peer writes altogether
    gave_up,     \* history: pipes _read_idle has given up
    shared,      \* history: types received while they were being received
    done,        \* history: the callbacks run, as [pipe, content]
    stopped      \* an exception has left run()

offerVars == <<transfers, fd_timers>>
loopVars == <<timers, readers, known, watched>>
peerVars == <<todo, inpipe, hungup, size>>
vars == <<integration, offerVars, loopVars, open, received, peerVars, gave_up, shared,
          done, stopped>>

Content == Seq(0..MaxReceives)
Timer == [fd : Descriptors, mime : Mimes, pipe : Pipes]

TypeOK ==
    /\ integration \in Integrations
    /\ transfers \in [DOMAIN transfers -> Content] /\ DOMAIN transfers \subseteq Mimes
    /\ fd_timers \in [DOMAIN fd_timers -> Timer] /\ DOMAIN fd_timers \subseteq Descriptors
    /\ timers \subseteq Timer
    /\ readers \in [DOMAIN readers -> [mime : Mimes, pipe : 1..received]]
    /\ DOMAIN readers \subseteq Descriptors
    /\ known \subseteq Descriptors
    /\ received \in 0..MaxReceives
    /\ watched \in [Descriptors -> 0..received]
    /\ open \in [DOMAIN open -> 1..received] /\ DOMAIN open \subseteq Descriptors
    /\ todo \in [Pipes -> Nat] /\ inpipe \in [Pipes -> Nat]
    /\ hungup \subseteq 1..received /\ size \in Sizes
    /\ gave_up \subseteq 1..received
    /\ shared \subseteq Mimes /\ stopped \in BOOLEAN
    /\ done \in Seq([pipe : 1..received, content : Content])

Init ==
    /\ integration \in Integrations
    /\ transfers = <<>> /\ fd_timers = <<>>
    /\ timers = {} /\ readers = <<>> /\ known = {}
    /\ watched = [fd \in Descriptors |-> 0]
    /\ open = <<>> /\ received = 0
    /\ size \in Sizes /\ todo = size /\ inpipe = [p \in Pipes |-> 0]
    /\ hungup = {} /\ gave_up = {} /\ shared = {} /\ done = <<>> /\ stopped = FALSE

-----------------------------------------------------------------------------
Without(table, x) == Restrict(table, DOMAIN table \ {x})
With(table, x, y) == [k \in DOMAIN table \cup {x} |-> IF k = x THEN y ELSE table[k]]

\* What the loops make of add_reader, remove_reader and os.close.
AddWatch(fd) == watched[fd] + 1     \* io_add_watch: one more source
Watch(fd) ==
    [watched EXCEPT ![fd] = CASE integration = "glib" -> AddWatch(fd)
                              [] integration = "poll" -> 1
                              [] integration = "asyncio" -> IF fd \in known THEN @ ELSE 1]
Unwatch(fd) ==
    [watched EXCEPT ![fd] = IF integration = "glib" THEN @ - 1 ELSE 0]
Forget(fd) ==
    [watched EXCEPT ![fd] = IF integration = "asyncio" THEN 0 ELSE @]

StillKnown(fd) == known            \* mutant: the loop's reader is not removed
Unknown(fd) == known \ {fd}

\* The exception leaves the callback: run() of PollIntegration is left.
Raise == stopped' = (integration = "poll")

\* _idle_timer_add and _idle_timer_remove.
IdleTimer(fd, mime, pipe) == [fd |-> fd, mime |-> mime, pipe |-> pipe]

TimersWith(fd) == timers           \* mutant: the connection's timer stays
TimersWithout(fd) ==
    IF fd \in DOMAIN fd_timers THEN timers \ {fd_timers[fd]} ELSE timers

-----------------------------------------------------------------------------
\* The descriptor that the kernel gives to the read end.
LowestFree(fd) == fd \notin DOMAIN open /\ 1..(fd - 1) \subseteq DOMAIN open

Receive(fd, mime) ==
    LET pipe == received + 1
        timer == IdleTimer(fd, mime, pipe)
    IN
    /\ ~stopped /\ received < MaxReceives
    /\ LowestFree(fd)
    /\ received' = pipe
    /\ open' = With(open, fd, pipe)
    /\ watched' = Watch(fd)
    /\ known' = known \cup {fd}
    /\ readers' = With(readers, fd, [mime |-> mime, pipe |-> pipe])
    /\ IF fd \in DOMAIN fd_timers
       THEN UNCHANGED <<timers, fd_timers>>
       ELSE timers' = timers \cup {timer} /\ fd_timers' = With(fd_timers, fd, timer)
    /\ transfers' = With(transfers, mime, <<>>)
    /\ shared' = shared \cup ({mime} \cap DOMAIN transfers)
    /\ UNCHANGED <<integration, peerVars, gave_up, done, stopped>>

\* The loop finds a descriptor readable and the connection has a reader for it.
Ready(fd) ==
    /\ ~stopped /\ watched[fd] > 0 /\ fd \in DOMAIN readers
AtHangup(fd) ==                    \* mutant: data is still in the pipe
    fd \in DOMAIN open => open[fd] \in hungup
AtEnd(fd) ==
    fd \in DOMAIN open => open[fd] \in hungup /\ inpipe[open[fd]] = 0

\* _read_cb gets data.  The timer starts anew.
ReadChunks(fd, n) ==
    LET mime == readers[fd].mime
        pipe == open[fd]
        timer == IdleTimer(fd, mime, readers[fd].pipe)
    IN
    /\ Ready(fd) /\ fd \in DOMAIN open
    /\ n \in 1..inpipe[pipe]
    /\ inpipe' = [inpipe EXCEPT ![pipe] = @ - n]
    /\ IF mime \in DOMAIN transfers /\ transfers[mime] # None
       THEN /\ transfers' = [transfers EXCEPT ![mime] = @ \o [i \in 1..n |-> pipe]]
            /\ timers' = TimersWithout(fd) \cup {timer}
            /\ fd_timers' = With(fd_timers, fd, timer)
            /\ UNCHANGED stopped
       ELSE /\ timers' = TimersWithout(fd)
            /\ fd_timers' = Without(fd_timers, fd)
            /\ Raise
            /\ UNCHANGED transfers
    /\ UNCHANGED <<integration, readers, known, watched, open, received, todo, hungup, size,
                   gave_up, shared, done>>

\* _read_cb gets nothing, the peer having closed its end, or EBADF.
ReadEnd(fd) ==
    LET mime == readers[fd].mime IN
    /\ Ready(fd) /\ AtEnd(fd)
    /\ timers' = TimersWithout(fd)
    /\ fd_timers' = Without(fd_timers, fd)
    /\ IF mime \in DOMAIN transfers
       THEN /\ transfers' = Without(transfers, mime)
            /\ readers' = Without(readers, fd)
            /\ watched' = Unwatch(fd)
            /\ known' = Unknown(fd)
            /\ open' = Without(open, fd)
            /\ done' = Append(done, [pipe |-> readers[fd].pipe, content |-> transfers[mime]])
            /\ UNCHANGED stopped
       ELSE /\ Raise
            /\ UNCHANGED <<transfers, readers, watched, known, open, done>>
    /\ UNCHANGED <<integration, received, peerVars, gave_up, shared>>

\* The timer fires.  _read_idle closes the descriptor and calls _read_cb without
\* the callback it wants as its third argument: a TypeError.
ReadIdle(timer) ==
    LET fd == timer.fd IN
    /\ ~stopped
    /\ timer \in timers
    /\ timers' = timers \ {timer}
    /\ IF fd \in DOMAIN fd_timers
       THEN /\ fd_timers' = Without(fd_timers, fd)
            /\ transfers' = With(transfers, timer.mime, None)
            /\ open' = Without(open, fd)
            /\ watched' = Forget(fd)
            /\ gave_up' = gave_up \cup {timer.pipe}
            /\ Raise
       ELSE UNCHANGED <<fd_timers, transfers, open, watched, gave_up, stopped>>
    /\ UNCHANGED <<integration, readers, known, received, peerVars, shared, done>>

Reader ==
    \E fd \in Descriptors :
        \/ fd \in DOMAIN open /\ \E n \in 1..inpipe[open[fd]] : ReadChunks(fd, n)
        \/ ReadEnd(fd)

-----------------------------------------------------------------------------
\* The peer has the write end of the pipes.
Write(pipe) ==
    /\ pipe <= received /\ pipe \notin hungup
    /\ todo[pipe] > 0
    /\ todo' = [todo EXCEPT ![pipe] = @ - 1]
    /\ inpipe' = [inpipe EXCEPT ![pipe] = @ + 1]
    /\ UNCHANGED <<integration, offerVars, loopVars, open, received, hungup, size, gave_up,
                   shared, done, stopped>>

Hangup(pipe) ==
    /\ pipe <= received /\ pipe \notin hungup
    /\ todo[pipe] = 0
    /\ hungup' = hungup \cup {pipe}
    /\ UNCHANGED <<integration, offerVars, loopVars, open, received, todo, inpipe, size, gave_up,
                   shared, done, stopped>>

Peer == \E pipe \in Pipes : Write(pipe) \/ Hangup(pipe)

Next ==
    \/ \E fd \in Descriptors, mime \in Mimes : Receive(fd, mime)
    \/ Reader
    \/ \E timer \in timers : ReadIdle(timer)
    \/ Peer

Spec == Init /\ [][Next]_vars

\* The event loop reads what is readable; a peer writes what it has, however
\* late, and closes.
FairSpec == Spec /\ WF_vars(Reader) /\ WF_vars(Peer)

-----------------------------------------------------------------------------
\* A callback gets all of its own pipe's data and nothing else, or no content if
\* its transfer has been given up; unless a type has been received twice at a time.
Whole(content, pipe) ==
    /\ \A i \in 1..Len(content) : content[i] = pipe
    /\ Len(content) = size[pipe]
GivenUp(content, pipe) == content = None /\ pipe \in gave_up
Intact ==
    /\ TypeOK
    /\ shared = {} =>
         \A k \in 1..Len(done) :
             \/ Whole(done[k].content, done[k].pipe)
             \/ GivenUp(done[k].content, done[k].pipe)

\* Until a transfer is given up every open read end is being read and guarded by
\* one timer, and nothing else is: no descriptor, reader or timer is left behind.
Tidy ==
    gave_up = {} =>
        /\ DOMAIN open = DOMAIN readers /\ known = DOMAIN open
        /\ \A fd \in DOMAIN open : readers[fd].pipe = open[fd] /\ watched[fd] = 1
        /\ shared = {} => DOMAIN fd_timers = DOMAIN open
        /\ timers = {fd_timers[fd] : fd \in DOMAIN fd_timers}
        /\ \A fd \in DOMAIN fd_timers : fd_timers[fd].fd = fd /\ fd_timers[fd].pipe = open[fd]

Answered(pipe) == \E k \in DOMAIN done : done[k].pipe = pipe

\* Every receive() gets its callback, unless one has been given up by its idle
\* timer or a type has been received twice at a time.
ReceiveAnswered ==
    \A pipe \in Pipes :
        received >= pipe ~> Answered(pipe) \/ gave_up # {} \/ shared # {}
=============================================================================
