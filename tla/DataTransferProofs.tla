------------------------- MODULE DataTransferProofs -------------------------
(***************************************************************************)
(* DataControlOffer.receive, for any types, any number of transfers and    *)
(* any amount of data: content is whole, and nothing is left behind.       *)
(***************************************************************************)
EXTENDS DataTransfer, SequenceTheorems, TLAPS

\* An open read end has its reader, and no two have the same pipe.
ReadersKnowPipes ==
    /\ \A fd \in DOMAIN open : fd \in DOMAIN readers /\ readers[fd].pipe = open[fd]
    /\ \A fd, other \in DOMAIN open : open[fd] = open[other] => fd = other

\* Both tables of timers have the same ones, and a timer belongs to an open read end.
TimersKnowPipes ==
    /\ timers = {fd_timers[fd] : fd \in DOMAIN fd_timers}
    /\ \A fd \in DOMAIN fd_timers :
         fd \in DOMAIN open /\ fd_timers[fd] = IdleTimer(fd, readers[fd].mime, readers[fd].pipe)

\* Until a transfer is given up, exactly the open read ends are read.
AllWatched ==
    gave_up = {} =>
        /\ DOMAIN readers = DOMAIN open /\ known = DOMAIN open
        /\ \A fd \in Descriptors : watched[fd] = IF fd \in DOMAIN open THEN 1 ELSE 0
        /\ shared = {} => DOMAIN fd_timers = DOMAIN open

\* What a pipe's peer has to write is still to be written, in the pipe or read.
\* A peer that has closed its end has written it all.
Flow ==
    /\ \A p \in Pipes : todo[p] + inpipe[p] <= size[p]
    /\ \A p \in Pipes : p > received => todo[p] = size[p] /\ inpipe[p] = 0
    /\ \A p \in hungup : todo[p] = 0

\* What has been read of a transfer that goes on is what its peer has written.
Collected(content, pipe) ==
    /\ \A i \in 1..Len(content) : content[i] = pipe
    /\ Len(content) + inpipe[pipe] + todo[pipe] = size[pipe]

\* While no type is received twice at a time, each reader has a type of its own.
OwnContent ==
    shared = {} =>
        /\ \A fd \in DOMAIN readers : readers[fd].mime \in DOMAIN transfers
        /\ \A fd, other \in DOMAIN readers : readers[fd].mime = readers[other].mime => fd = other
        /\ \A fd \in DOMAIN readers :
             LET content == transfers[readers[fd].mime]
             IN  IF fd \in DOMAIN open THEN Collected(content, open[fd])
                 ELSE GivenUp(content, readers[fd].pipe)

TransferInv ==
    /\ ReadersKnowPipes
    /\ TimersKnowPipes
    /\ AllWatched
    /\ Flow
    /\ OwnContent
    /\ Intact

-----------------------------------------------------------------------------
\* Tables with an entry more and an entry less.
LEMMA EntryAdded ==
    ASSUME NEW table, NEW S, table \in [DOMAIN table -> S], NEW x, NEW y \in S
    PROVE  /\ With(table, x, y) \in [DOMAIN table \cup {x} -> S]
           /\ DOMAIN With(table, x, y) = DOMAIN table \cup {x}
           /\ With(table, x, y)[x] = y
           /\ \A k \in DOMAIN table : k # x => With(table, x, y)[k] = table[k]
BY DEF With

LEMMA EntryTaken ==
    ASSUME NEW table, NEW S, table \in [DOMAIN table -> S], NEW x
    PROVE  /\ Without(table, x) \in [DOMAIN table \ {x} -> S]
           /\ DOMAIN Without(table, x) = DOMAIN table \ {x}
           /\ \A k \in DOMAIN table \ {x} : Without(table, x)[k] = table[k]
BY DEF Without, Restrict

\* What the types say, in the form the steps need.
LEMMA Types ==
    ASSUME TransferInv
    PROVE  /\ transfers \in [DOMAIN transfers -> Content]
           /\ fd_timers \in [DOMAIN fd_timers -> Timer]
           /\ readers \in [DOMAIN readers -> [mime : Mimes, pipe : 1..received]]
           /\ open \in [DOMAIN open -> 1..received]
           /\ DOMAIN open \subseteq Descriptors /\ DOMAIN readers \subseteq Descriptors
           /\ \A fd \in DOMAIN readers : readers[fd].mime \in Mimes /\ readers[fd].pipe \in 1..received
           /\ \A fd \in DOMAIN open : open[fd] \in 1..received /\ open[fd] \in Pipes
           /\ received \in Nat /\ MaxReceives \in Nat /\ received <= MaxReceives
           /\ watched \in [Descriptors -> 0..received] /\ \A fd \in Descriptors : watched[fd] \in Nat
           /\ \A p \in Pipes : todo[p] \in Nat /\ inpipe[p] \in Nat /\ size[p] \in Nat
<1>1. MaxReceives \in Nat /\ Sizes \subseteq [1..MaxReceives -> Nat]
  BY BoundAssumption
<1> QED
  BY <1>1 DEF TransferInv, Intact, TypeOK, Pipes, Descriptors

\* A timer that the connection has is the one _fd_timers has for its descriptor.
LEMMA TimerIsKnown ==
    ASSUME TransferInv, NEW timer \in timers
    PROVE  /\ timer.fd \in DOMAIN fd_timers /\ timer.fd \in DOMAIN open /\ timer.fd \in DOMAIN readers
           /\ timer = fd_timers[timer.fd]
           /\ timer.mime = readers[timer.fd].mime /\ timer.pipe = readers[timer.fd].pipe
BY DEF TransferInv, TimersKnowPipes, ReadersKnowPipes, IdleTimer

\* _idle_timer_remove leaves the timers of the other descriptors.
LEMMA TimersLeft ==
    ASSUME TransferInv, NEW fd
    PROVE  TimersWithout(fd) = {fd_timers[k] : k \in DOMAIN fd_timers \ {fd}}
<1>1. \A k \in DOMAIN fd_timers : fd_timers[k].fd = k
  BY DEF TransferInv, TimersKnowPipes, IdleTimer
<1>2. timers = {fd_timers[k] : k \in DOMAIN fd_timers}
  BY DEF TransferInv, TimersKnowPipes
<1> QED
  BY <1>1, <1>2 DEF TimersWithout

\* The content of a transfer that goes on is never mistaken for a given up one.
LEMMA CollectedIsSome ==
    ASSUME NEW content \in Content, NEW pipe \in Pipes, Collected(content, pipe)
    PROVE  content # None
<1>1. pipe \in Nat /\ pipe # 0
  BY BoundAssumption DEF Pipes
<1>2. Len(None) = 1 /\ None[1] = 0
  BY DEF None
<1> QED
  BY <1>1, <1>2 DEF Collected

LEMMA InvInit == Init => TransferInv
<1> SUFFICES ASSUME Init PROVE TransferInv
  OBVIOUS
<1>1. MaxReceives \in Nat /\ size \in [Pipes -> Nat]
  BY BoundAssumption DEF Init, Pipes
<1>2. /\ DOMAIN <<>> = {} /\ Len(<<>>) = 0
      /\ \A S : <<>> \in [{} -> S]
      /\ \A S : <<>> \in Seq(S)
  BY EmptySeq
<1>3. TypeOK
  <2>1. /\ integration \in Integrations /\ size \in Sizes /\ timers = {} /\ known = {}
        /\ hungup = {} /\ gave_up = {} /\ shared = {}
        /\ stopped \in BOOLEAN /\ received = 0
    BY DEF Init
  <2>2. /\ transfers \in [DOMAIN transfers -> Content] /\ DOMAIN transfers = {}
        /\ fd_timers \in [DOMAIN fd_timers -> Timer] /\ DOMAIN fd_timers = {}
        /\ readers \in [DOMAIN readers -> [mime : Mimes, pipe : 1..received]] /\ DOMAIN readers = {}
        /\ open \in [DOMAIN open -> 1..received] /\ DOMAIN open = {}
    BY <1>2 DEF Init
  <2>3. /\ watched \in [Descriptors -> 0..received]
        /\ todo \in [Pipes -> Nat] /\ inpipe \in [Pipes -> Nat]
    BY <1>1 DEF Init
  <2>4. done \in Seq([pipe : 1..received, content : Content])
    BY <1>2 DEF Init
  <2> QED
    BY <1>1, <2>1, <2>2, <2>3, <2>4 DEF TypeOK
<1> QED
  BY <1>1, <1>2, <1>3 DEF Init, TransferInv, Intact, ReadersKnowPipes, TimersKnowPipes, AllWatched, Flow, OwnContent

LEMMA InvPeer ==
    ASSUME TransferInv, NEW pipe \in Pipes, Write(pipe) \/ Hangup(pipe)
    PROVE  TransferInv'
<1>1. /\ UNCHANGED <<integration, transfers, fd_timers, timers, readers, known, watched, open, received,
                     size, gave_up, shared, done, stopped>>
      /\ todo' \in [Pipes -> Nat] /\ inpipe' \in [Pipes -> Nat] /\ hungup' \subseteq 1..received
      /\ \A p \in Pipes : todo'[p] + inpipe'[p] = todo[p] + inpipe[p]
      /\ \A p \in Pipes : p > received => todo'[p] = todo[p] /\ inpipe'[p] = inpipe[p]
      /\ \A p \in hungup' : todo'[p] = 0
  <2>1. /\ todo \in [Pipes -> Nat] /\ inpipe \in [Pipes -> Nat] /\ hungup \subseteq 1..received
        /\ pipe \in 1..received
        /\ \A p \in hungup : todo[p] = 0
    <3>1. /\ todo \in [Pipes -> Nat] /\ inpipe \in [Pipes -> Nat] /\ hungup \subseteq 1..received
          /\ \A p \in hungup : todo[p] = 0
      BY DEF TransferInv, Intact, TypeOK, Flow
    <3>2. pipe <= received /\ pipe \in 1..MaxReceives /\ received \in Nat
      BY Types DEF Write, Hangup, Pipes
    <3> QED
      BY <3>1, <3>2
  <2>2. CASE Write(pipe)
    <3>1. /\ todo[pipe] \in Nat /\ todo[pipe] > 0 /\ inpipe[pipe] \in Nat /\ pipe \notin hungup
          /\ todo' = [todo EXCEPT ![pipe] = @ - 1] /\ inpipe' = [inpipe EXCEPT ![pipe] = @ + 1]
          /\ UNCHANGED <<integration, transfers, fd_timers, timers, readers, known, watched, open, received,
                         hungup, size, gave_up, shared, done, stopped>>
      BY <2>1, <2>2 DEF Write, offerVars, loopVars
    <3>2. /\ todo[pipe] - 1 \in Nat /\ inpipe[pipe] + 1 \in Nat
          /\ (todo[pipe] - 1) + (inpipe[pipe] + 1) = todo[pipe] + inpipe[pipe]
      BY <3>1
    <3>3. todo' \in [Pipes -> Nat] /\ inpipe' \in [Pipes -> Nat]
      BY <2>1, <3>1, <3>2
    <3>4. \A p \in Pipes : p # pipe => todo'[p] = todo[p] /\ inpipe'[p] = inpipe[p]
      BY <2>1, <3>1
    <3>5. \A p \in Pipes : todo'[p] + inpipe'[p] = todo[p] + inpipe[p]
      BY <2>1, <3>1, <3>2, <3>4
    <3>6. \A p \in Pipes : p > received => p # pipe
      BY Types, <2>1
    <3>7. \A p \in hungup : p \in Pipes /\ p # pipe
      BY Types, <2>1, <3>1 DEF Pipes
    <3> QED
      BY <2>1, <3>1, <3>3, <3>4, <3>5, <3>6, <3>7
  <2>3. CASE Hangup(pipe)
    BY <2>1, <2>3 DEF Hangup, offerVars, loopVars
  <2> QED
    BY <2>2, <2>3
<1>2. TypeOK'
  BY <1>1 DEF TransferInv, Intact, TypeOK, Content, Timer
<1>3. ReadersKnowPipes' /\ TimersKnowPipes' /\ AllWatched'
  BY <1>1 DEF TransferInv, ReadersKnowPipes, TimersKnowPipes, AllWatched, IdleTimer
<1>4. Flow'
  BY <1>1, Types DEF TransferInv, Flow
<1>5. OwnContent'
  <2>1. ASSUME NEW content \in Content, NEW p \in Pipes
        PROVE  Collected(content, p)' <=> Collected(content, p)
    <3>1. Len(content) \in Nat
      BY LenProperties DEF Content
    <3>2. /\ todo[p] \in Nat /\ inpipe[p] \in Nat /\ todo'[p] \in Nat /\ inpipe'[p] \in Nat
          /\ todo'[p] + inpipe'[p] = todo[p] + inpipe[p] /\ size'[p] = size[p]
      BY <1>1, Types
    <3>3. Len(content) + inpipe[p] + todo[p] = size[p] <=> Len(content) + inpipe'[p] + todo'[p] = size'[p]
      BY <3>1, <3>2
    <3> QED
      BY <3>3 DEF Collected
  <2>2. ASSUME shared = {}, NEW fd \in DOMAIN readers
        PROVE  transfers[readers[fd].mime] \in Content /\ (fd \in DOMAIN open => open[fd] \in Pipes)
    BY <2>2, Types DEF TransferInv, OwnContent
  <2>3. ASSUME shared = {}, NEW fd \in DOMAIN readers
        PROVE  fd \in DOMAIN open =>
                 (Collected(transfers[readers[fd].mime], open[fd])' <=>
                  Collected(transfers[readers[fd].mime], open[fd]))
    BY <1>1, <2>1, <2>2, <2>3 DEF Collected
  <2> QED
    BY <1>1, <2>3 DEF TransferInv, OwnContent, GivenUp
<1>6. Intact'
  BY <1>1, <1>2 DEF TransferInv, Intact, Whole, GivenUp
<1> QED
  BY <1>3, <1>4, <1>5, <1>6 DEF TransferInv

\* receive(): a free descriptor has no timer, and its reader is replaced if it has one.
LEMMA InvReceive ==
    ASSUME TransferInv, NEW fd \in Descriptors, NEW mime \in Mimes, Receive(fd, mime)
    PROVE  TransferInv'
<1> DEFINE pipe == received + 1
           timer == IdleTimer(fd, mime, pipe)
           reader == [mime |-> mime, pipe |-> pipe]
<1>1. /\ fd \notin DOMAIN open /\ received < MaxReceives
      /\ received' = pipe
      /\ open' = With(open, fd, pipe) /\ watched' = Watch(fd) /\ known' = known \cup {fd}
      /\ readers' = With(readers, fd, reader)
      /\ transfers' = With(transfers, mime, <<>>)
      /\ shared' = shared \cup ({mime} \cap DOMAIN transfers)
      /\ UNCHANGED <<integration, todo, inpipe, hungup, size, gave_up, done, stopped>>
  BY DEF Receive, LowestFree, peerVars
<1>2. /\ received \in Nat /\ MaxReceives \in Nat /\ pipe \in Pipes /\ pipe \in 1..pipe
      /\ \A n \in 1..received : n \in 1..pipe /\ n # pipe
      /\ \A n \in 0..received : n \in 0..pipe
      /\ received' \in 0..MaxReceives /\ 1..received \subseteq 1..pipe
  BY <1>1, Types DEF Pipes
<1>3. fd \notin DOMAIN fd_timers
  BY <1>1 DEF TransferInv, TimersKnowPipes
<1>4. timers' = timers \cup {timer} /\ fd_timers' = With(fd_timers, fd, timer)
  BY <1>3 DEF Receive
<1>5. /\ timer \in Timer /\ reader \in [mime : Mimes, pipe : 1..pipe] /\ <<>> \in Content
      /\ timer = IdleTimer(fd, reader.mime, reader.pipe) /\ reader.mime = mime /\ reader.pipe = pipe
  BY <1>2, EmptySeq DEF Timer, IdleTimer, Content
<1> HIDE DEF timer, reader, pipe
<1>6. /\ DOMAIN open' = DOMAIN open \cup {fd} /\ open'[fd] = pipe
      /\ \A k \in DOMAIN open : open'[k] = open[k]
      /\ open' \in [DOMAIN open' -> 1..pipe]
  BY <1>1, <1>2, Types DEF With
<1>7. /\ DOMAIN readers' = DOMAIN readers \cup {fd} /\ readers'[fd] = reader
      /\ \A k \in DOMAIN readers \ {fd} : readers'[k] = readers[k]
      /\ readers' \in [DOMAIN readers' -> [mime : Mimes, pipe : 1..pipe]]
  BY <1>1, <1>2, <1>5, Types DEF With
<1>8. /\ DOMAIN fd_timers' = DOMAIN fd_timers \cup {fd} /\ fd_timers'[fd] = timer
      /\ \A k \in DOMAIN fd_timers : fd_timers'[k] = fd_timers[k]
      /\ fd_timers' \in [DOMAIN fd_timers' -> Timer]
  BY <1>3, <1>4, <1>5, Types DEF With
<1>9. /\ DOMAIN transfers' = DOMAIN transfers \cup {mime} /\ transfers'[mime] = <<>>
      /\ \A m \in DOMAIN transfers : m # mime => transfers'[m] = transfers[m]
      /\ transfers' \in [DOMAIN transfers' -> Content]
  BY <1>1, <1>5, Types DEF With
<1>10. /\ watched' \in [Descriptors -> 0..pipe]
       /\ \A k \in Descriptors : k # fd => watched'[k] = watched[k]
       /\ watched[fd] = 0 /\ (integration = "asyncio" => fd \notin known) => watched'[fd] = 1
  <2>1. /\ watched \in [Descriptors -> 0..received] /\ watched[fd] + 1 \in 0..pipe
        /\ integration \in {"poll", "asyncio", "glib"}
        /\ watched[fd] \in Nat /\ watched[fd] \in 0..pipe /\ 1 \in 0..pipe
    BY <1>2, Types DEF TransferInv, Intact, TypeOK, Integrations, pipe
  <2> DEFINE w == CASE integration = "glib" -> watched[fd] + 1
                    [] integration = "poll" -> 1
                    [] integration = "asyncio" -> IF fd \in known THEN watched[fd] ELSE 1
  <2>2. watched' = [watched EXCEPT ![fd] = w]
    BY <1>1 DEF Watch, AddWatch
  <2>3. w \in 0..pipe /\ (watched[fd] = 0 /\ (integration = "asyncio" => fd \notin known) => w = 1)
    BY <2>1
  <2> HIDE DEF w
  <2> QED
    BY <1>2, <2>1, <2>2, <2>3
<1>11. TypeOK'
  <2>1. hungup' \subseteq 1..received' /\ gave_up' \subseteq 1..received' /\ known' \subseteq Descriptors
        /\ shared' \subseteq Mimes /\ timers' \subseteq Timer
    BY <1>1, <1>2, <1>4, <1>5 DEF TransferInv, Intact, TypeOK
  <2>2. done' \in Seq([pipe : 1..received', content : Content'])
    <3>1. [pipe : 1..received, content : Content] \subseteq [pipe : 1..received', content : Content]
      BY <1>1, <1>2
    <3>2. done \in Seq([pipe : 1..received', content : Content])
      <4>1. done \in Seq([pipe : 1..received, content : Content])
        BY DEF TransferInv, Intact, TypeOK
      <4> QED
        BY <3>1, <4>1, SeqMonotonic
    <3> QED
      BY <1>1, <3>2 DEF Content
  <2>3. /\ DOMAIN transfers' \subseteq Mimes /\ DOMAIN fd_timers' \subseteq Descriptors
        /\ DOMAIN readers' \subseteq Descriptors /\ DOMAIN open' \subseteq Descriptors
    BY <1>6, <1>7, <1>8, <1>9 DEF TransferInv, Intact, TypeOK
  <2>4. /\ todo' \in [Pipes -> Nat] /\ inpipe' \in [Pipes -> Nat] /\ size' \in Sizes
        /\ integration' \in Integrations /\ stopped' \in BOOLEAN
    BY <1>1 DEF TransferInv, Intact, TypeOK
  <2> QED
    BY <1>1, <1>2, <1>6, <1>7, <1>8, <1>9, <1>10, <2>1, <2>2, <2>3, <2>4 DEF TypeOK, Content, Timer
<1>12. ReadersKnowPipes'
  <2>1. \A k \in DOMAIN open : open[k] # pipe /\ k # fd /\ k \in DOMAIN readers /\ readers[k].pipe = open[k]
    BY <1>1, <1>2, Types DEF TransferInv, ReadersKnowPipes
  <2> QED
    BY <1>5, <1>6, <1>7, <2>1 DEF TransferInv, ReadersKnowPipes
<1>13. TimersKnowPipes'
  <2>1. timers' = {fd_timers'[k] : k \in DOMAIN fd_timers'}
    BY <1>3, <1>4, <1>8 DEF TransferInv, TimersKnowPipes
  <2>2. \A k \in DOMAIN fd_timers : /\ k \in DOMAIN open /\ k # fd /\ k \in DOMAIN readers
                                    /\ fd_timers[k] = IdleTimer(k, readers[k].mime, readers[k].pipe)
    BY <1>1 DEF TransferInv, TimersKnowPipes, ReadersKnowPipes
  <2> QED
    BY <1>5, <1>6, <1>7, <1>8, <2>1, <2>2 DEF TimersKnowPipes, IdleTimer
<1>14. AllWatched'
  <2> SUFFICES ASSUME gave_up = {}
               PROVE  /\ DOMAIN readers' = DOMAIN open' /\ known' = DOMAIN open'
                      /\ \A k \in Descriptors : watched'[k] = IF k \in DOMAIN open' THEN 1 ELSE 0
                      /\ shared' = {} => DOMAIN fd_timers' = DOMAIN open'
    BY <1>1 DEF AllWatched
  <2>1. /\ DOMAIN readers = DOMAIN open /\ known = DOMAIN open
        /\ \A k \in Descriptors : watched[k] = IF k \in DOMAIN open THEN 1 ELSE 0
        /\ shared = {} => DOMAIN fd_timers = DOMAIN open
    BY DEF TransferInv, AllWatched
  <2>2. watched'[fd] = 1
    BY <1>1, <1>10, <2>1
  <2>3. \A k \in Descriptors : watched'[k] = IF k \in DOMAIN open' THEN 1 ELSE 0
    BY <1>6, <1>10, <2>1, <2>2
  <2> QED
    BY <1>1, <1>6, <1>7, <1>8, <2>1, <2>3
<1>15. Flow'
  <2>1. \A p \in Pipes : p > pipe => p > received
    BY <1>2 DEF pipe, Pipes
  <2> QED
    BY <1>1, <2>1 DEF TransferInv, Flow
<1>16. OwnContent'
  <2> SUFFICES ASSUME shared = {}, mime \notin DOMAIN transfers
               PROVE  OwnContent'
    BY <1>1 DEF OwnContent
  <2>1. /\ \A k \in DOMAIN readers : readers[k].mime \in DOMAIN transfers /\ readers[k].mime # mime
        /\ \A k, other \in DOMAIN readers : readers[k].mime = readers[other].mime => k = other
        /\ \A k \in DOMAIN readers :
             IF k \in DOMAIN open THEN Collected(transfers[readers[k].mime], open[k])
             ELSE GivenUp(transfers[readers[k].mime], readers[k].pipe)
    BY DEF TransferInv, OwnContent
  <2>2. \A k \in DOMAIN readers' : k = fd \/ k \in DOMAIN readers \ {fd}
    BY <1>7
  <2>3. \A k \in DOMAIN readers' : readers'[k].mime \in DOMAIN transfers'
    BY <1>5, <1>7, <1>9, <2>1, <2>2
  <2>4. \A k, other \in DOMAIN readers' : readers'[k].mime = readers'[other].mime => k = other
    BY <1>5, <1>7, <2>1, <2>2
  <2>5. Collected(<<>>, pipe)
    <3>1. received < pipe /\ pipe \in Pipes /\ \A p \in Pipes : size[p] \in Nat
      BY <1>2, Types DEF pipe
    <3>2. todo[pipe] = size[pipe] /\ inpipe[pipe] = 0 /\ size[pipe] \in Nat
      BY <1>2, <3>1 DEF TransferInv, Flow
    <3> QED
      BY <3>2 DEF Collected
  <2>6. ASSUME NEW k \in DOMAIN readers'
        PROVE  IF k \in DOMAIN open' THEN Collected(transfers'[readers'[k].mime], open'[k])
               ELSE GivenUp(transfers'[readers'[k].mime], readers'[k].pipe)
    <3>1. CASE k = fd
      BY <1>5, <1>6, <1>7, <1>9, <2>5, <3>1
    <3>2. CASE k \in DOMAIN readers \ {fd}
      BY <1>6, <1>7, <1>9, <2>1, <3>2
    <3> QED
      BY <2>2, <3>1, <3>2
  <2> QED
    BY <1>1, <2>3, <2>4, <2>6 DEF OwnContent, Collected, GivenUp
<1>17. Intact'
  BY <1>1, <1>11 DEF TransferInv, Intact, Whole, GivenUp
<1> QED
  BY <1>12, <1>13, <1>14, <1>15, <1>16, <1>17 DEF TransferInv

\* _read_cb gets data: what is taken from the pipe is added to the content, and no
\* other transfer has this pipe or this type.
LEMMA InvReadChunks ==
    ASSUME TransferInv, NEW fd \in Descriptors, fd \in DOMAIN open, NEW n \in 1..inpipe[open[fd]], ReadChunks(fd, n)
    PROVE  TransferInv'
<1> DEFINE mime == readers[fd].mime
           pipe == open[fd]
           timer == IdleTimer(fd, mime, readers[fd].pipe)
           more == [i \in 1..n |-> pipe]
           GoesOn == mime \in DOMAIN transfers /\ transfers[mime] # None
<1>1. /\ inpipe' = [inpipe EXCEPT ![pipe] = @ - n]
      /\ UNCHANGED <<integration, readers, known, watched, open, received, todo, hungup, size,
                     gave_up, shared, done>>
      /\ GoesOn => /\ transfers' = [transfers EXCEPT ![mime] = @ \o more]
                   /\ timers' = TimersWithout(fd) \cup {timer}
                   /\ fd_timers' = With(fd_timers, fd, timer)
                   /\ stopped' = stopped
      /\ ~GoesOn => /\ timers' = TimersWithout(fd)
                    /\ fd_timers' = Without(fd_timers, fd)
                    /\ transfers' = transfers
                    /\ stopped' = (integration = "poll")
  BY DEF ReadChunks, Raise
<1>2. /\ fd \in DOMAIN readers /\ mime \in Mimes /\ readers[fd].pipe = pipe /\ pipe \in Pipes /\ pipe \in 1..received
      /\ \A k \in DOMAIN open : k # fd => open[k] # pipe
  BY Types DEF TransferInv, ReadersKnowPipes
<1>3. /\ n \in Nat /\ inpipe[pipe] \in Nat /\ inpipe[pipe] - n \in Nat /\ n \in 1..inpipe[pipe]
      /\ inpipe \in [Pipes -> Nat] /\ received \in Nat
  BY <1>2, Types DEF TransferInv, Intact, TypeOK
<1>4. /\ inpipe' \in [Pipes -> Nat] /\ inpipe'[pipe] = inpipe[pipe] - n
      /\ \A p \in Pipes : p # pipe => inpipe'[p] = inpipe[p]
  BY <1>1, <1>2, <1>3
<1>5. shared = {} => GoesOn
  <2> SUFFICES ASSUME shared = {} PROVE GoesOn
    OBVIOUS
  <2>1. mime \in DOMAIN transfers /\ Collected(transfers[mime], pipe)
    BY <1>2 DEF TransferInv, OwnContent
  <2>2. transfers[mime] \in Content
    BY <2>1, Types
  <2> QED
    BY <1>2, <2>1, <2>2, CollectedIsSome
<1>6. /\ fd_timers' \in [DOMAIN fd_timers' -> Timer]
      /\ DOMAIN fd_timers' = IF GoesOn THEN DOMAIN fd_timers \cup {fd} ELSE DOMAIN fd_timers \ {fd}
      /\ GoesOn => fd_timers'[fd] = timer
      /\ \A k \in DOMAIN fd_timers \ {fd} : fd_timers'[k] = fd_timers[k]
  <2>1. timer \in Timer /\ received <= MaxReceives /\ MaxReceives \in Nat
    BY <1>2, Types DEF Timer, IdleTimer
  <2>2. fd_timers \in [DOMAIN fd_timers -> Timer]
    BY Types
  <2> HIDE DEF timer, GoesOn
  <2>3. CASE GoesOn
    BY <1>1, <2>1, <2>2, <2>3 DEF With
  <2>4. CASE ~GoesOn
    BY <1>1, <2>1, <2>2, <2>4 DEF Without, Restrict
  <2> QED
    BY <2>3, <2>4
<1>7. timers' = {fd_timers'[k] : k \in DOMAIN fd_timers'}
  <2>1. TimersWithout(fd) = {fd_timers[k] : k \in DOMAIN fd_timers \ {fd}}
    BY TimersLeft
  <2> HIDE DEF timer, GoesOn
  <2> QED
    BY <1>1, <1>6, <2>1
<1>8. ASSUME GoesOn
      PROVE  /\ transfers'[mime] \in Content /\ transfers[mime] \in Content
             /\ Len(transfers'[mime]) = Len(transfers[mime]) + n
             /\ (\A i \in 1..Len(transfers[mime]) : transfers[mime][i] = pipe) =>
                  \A i \in 1..Len(transfers'[mime]) : transfers'[mime][i] = pipe
  <2> DEFINE c == transfers[mime]
             d == c \o more
  <2>1. c \in Seq(0..MaxReceives)
    BY <1>8, Types DEF Content
  <2>2. more \in Seq(0..MaxReceives) /\ Len(more) = n /\ \A i \in 1..n : more[i] = pipe
    <3>1. pipe \in 0..MaxReceives
      BY <1>2 DEF Pipes
    <3> QED
      BY <1>3, <3>1
  <2>3. transfers'[mime] = d
    BY <1>1, <1>8
  <2> HIDE DEF c, more
  <2>4. /\ d \in Seq(0..MaxReceives) /\ Len(d) = Len(c) + n /\ Len(c) \in Nat
        /\ \A i \in 1..(Len(c) + n) : d[i] = IF i <= Len(c) THEN c[i] ELSE more[i - Len(c)]
    <3>1. /\ d \in Seq(0..MaxReceives) /\ Len(d) = Len(c) + Len(more)
          /\ \A i \in 1..(Len(c) + Len(more)) : d[i] = IF i <= Len(c) THEN c[i] ELSE more[i - Len(c)]
      BY <2>1, <2>2, ConcatProperties
    <3>2. Len(c) \in Nat
      BY <2>1, LenProperties
    <3> QED
      BY <2>2, <3>1, <3>2
  <2> HIDE DEF d
  <2>5. ASSUME \A i \in 1..Len(c) : c[i] = pipe, NEW i \in 1..(Len(c) + n)
        PROVE  d[i] = pipe
    <3>1. CASE i <= Len(c)
      BY <2>4, <2>5, <3>1
    <3>2. CASE i > Len(c)
      <4>1. i - Len(c) \in 1..n
        BY <1>3, <2>4, <3>2
      <4> QED
        BY <2>2, <2>4, <3>2, <4>1
    <3> QED
      BY <2>4, <3>1, <3>2
  <2>6. d \in Content /\ c \in Content
    BY <2>1, <2>4 DEF Content
  <2> QED
    BY <2>3, <2>4, <2>5, <2>6 DEF c
<1>9. /\ transfers' \in [DOMAIN transfers -> Content] /\ DOMAIN transfers' = DOMAIN transfers
      /\ \A m \in DOMAIN transfers : m # mime => transfers'[m] = transfers[m]
  <2>1. transfers \in [DOMAIN transfers -> Content]
    BY Types
  <2>2. CASE GoesOn
    <3>1. /\ DOMAIN transfers' = DOMAIN transfers
          /\ \A m \in DOMAIN transfers : m # mime => transfers'[m] = transfers[m]
          /\ transfers' = [m \in DOMAIN transfers |-> transfers'[m]]
      BY <1>1, <2>1, <2>2
    <3> QED
      BY <1>8, <2>1, <2>2, <3>1
  <2>3. CASE ~GoesOn
    BY <1>1, <2>1, <2>3
  <2> QED
    BY <2>2, <2>3
<1>10. TypeOK'
  <2>1. DOMAIN transfers' \subseteq Mimes /\ DOMAIN fd_timers' \subseteq Descriptors /\ timers' \subseteq Timer
    BY <1>6, <1>7, <1>9 DEF TransferInv, Intact, TypeOK
  <2>2. stopped' \in BOOLEAN
    BY <1>1 DEF TransferInv, Intact, TypeOK
  <2> QED
    BY <1>1, <1>4, <1>6, <1>9, <2>1, <2>2 DEF TransferInv, Intact, TypeOK, Content, Timer
<1>11. ReadersKnowPipes'
  BY <1>1 DEF TransferInv, ReadersKnowPipes
<1>12. TimersKnowPipes'
  <2>1. \A k \in DOMAIN fd_timers' : k \in DOMAIN open /\ fd_timers'[k] = IdleTimer(k, readers[k].mime, readers[k].pipe)
    BY <1>6 DEF TransferInv, TimersKnowPipes
  <2> QED
    BY <1>1, <1>7, <2>1 DEF TimersKnowPipes, IdleTimer
<1>13. AllWatched'
  BY <1>1, <1>5, <1>6 DEF TransferInv, AllWatched
<1>14. Flow'
  <2>1. ASSUME NEW p \in Pipes PROVE todo[p] + inpipe'[p] <= size[p] /\ (p > received => inpipe'[p] = 0)
    <3>1. todo[p] \in Nat /\ inpipe[p] \in Nat /\ size[p] \in Nat /\ todo[p] + inpipe[p] <= size[p]
          /\ (p > received => inpipe[p] = 0)
      BY Types DEF TransferInv, Flow
    <3>2. CASE p = pipe
      BY <1>2, <1>3, <1>4, <3>1, <3>2
    <3>3. CASE p # pipe
      BY <1>4, <3>1, <3>3
    <3> QED
      BY <3>2, <3>3
  <2> QED
    BY <1>1, <2>1 DEF TransferInv, Flow
<1>15. OwnContent'
  <2> SUFFICES ASSUME shared = {} PROVE OwnContent'
    BY <1>1 DEF OwnContent
  <2>1. GoesOn
    BY <1>5
  <2>2. /\ \A k \in DOMAIN readers : readers[k].mime \in DOMAIN transfers
        /\ \A k, other \in DOMAIN readers : readers[k].mime = readers[other].mime => k = other
        /\ \A k \in DOMAIN readers :
             IF k \in DOMAIN open THEN Collected(transfers[readers[k].mime], open[k])
             ELSE GivenUp(transfers[readers[k].mime], readers[k].pipe)
    BY DEF TransferInv, OwnContent
  <2>3. ASSUME NEW k \in DOMAIN readers, k \in DOMAIN open
        PROVE  /\ \A i \in 1..Len(transfers'[readers[k].mime]) : transfers'[readers[k].mime][i] = open[k]
               /\ Len(transfers'[readers[k].mime]) + inpipe'[open[k]] + todo[open[k]] = size[open[k]]
    <3>1. CASE k = fd
      <4>1. Collected(transfers[mime], pipe)
        BY <1>2, <2>2
      <4>2. Len(transfers[mime]) \in Nat /\ todo[pipe] \in Nat
        BY <1>2, <1>8, <2>1, Types, LenProperties DEF Content
      <4>3. Len(transfers[mime]) + inpipe[pipe] + todo[pipe] = size[pipe]
        BY <4>1 DEF Collected
      <4>4. (Len(transfers[mime]) + n) + (inpipe[pipe] - n) + todo[pipe] = size[pipe]
        BY <1>3, <4>2, <4>3
      <4>5. \A i \in 1..Len(transfers'[mime]) : transfers'[mime][i] = pipe
        BY <1>8, <2>1, <4>1 DEF Collected
      <4> QED
        BY <1>4, <1>8, <2>1, <3>1, <4>4, <4>5
    <3>2. CASE k # fd
      <4>1. transfers'[readers[k].mime] = transfers[readers[k].mime]
        BY <1>2, <1>9, <2>2, <3>2
      <4>2. inpipe'[open[k]] = inpipe[open[k]]
        BY <1>2, <1>4, <2>3, <3>2, Types
      <4> QED
        BY <2>2, <2>3, <4>1, <4>2 DEF Collected
    <3> QED
      BY <3>1, <3>2
  <2>4. ASSUME NEW k \in DOMAIN readers, k \notin DOMAIN open
        PROVE  GivenUp(transfers'[readers[k].mime], readers[k].pipe)
    <3>1. transfers'[readers[k].mime] = transfers[readers[k].mime]
      BY <1>2, <1>9, <2>2, <2>4
    <3> QED
      BY <2>2, <2>4, <3>1
  <2> QED
    BY <1>1, <1>9, <2>2, <2>3, <2>4 DEF OwnContent, Collected, GivenUp
<1>16. Intact'
  BY <1>1, <1>10 DEF TransferInv, Intact, Whole, GivenUp
<1> QED
  BY <1>11, <1>12, <1>13, <1>14, <1>15, <1>16 DEF TransferInv

\* _read_cb at the end: all the data has been read, or the transfer was given up.
LEMMA InvReadEnd ==
    ASSUME TransferInv, NEW fd \in Descriptors, ReadEnd(fd)
    PROVE  TransferInv'
<1> DEFINE mime == readers[fd].mime
           result == [pipe |-> readers[fd].pipe, content |-> transfers[mime]]
           Known == mime \in DOMAIN transfers
<1>1. /\ fd \in DOMAIN readers /\ watched[fd] > 0 /\ AtEnd(fd)
      /\ timers' = TimersWithout(fd)
      /\ fd_timers' = Without(fd_timers, fd)
      /\ UNCHANGED <<integration, received, todo, inpipe, hungup, size, gave_up, shared>>
      /\ Known => /\ transfers' = Without(transfers, mime) /\ readers' = Without(readers, fd)
                  /\ watched' = Unwatch(fd) /\ known' = known \ {fd}
                  /\ open' = Without(open, fd)
                  /\ done' = Append(done, result)
                  /\ stopped' = stopped
      /\ ~Known => /\ UNCHANGED <<transfers, readers, watched, known, open, done>>
                   /\ stopped' = (integration = "poll")
  BY DEF ReadEnd, Ready, Raise, Unknown, peerVars
<1>2. /\ mime \in Mimes /\ readers[fd].pipe \in 1..received
      /\ fd \in DOMAIN open => readers[fd].pipe = open[fd] /\ open[fd] \in Pipes
      /\ received \in Nat
  BY <1>1, Types DEF TransferInv, ReadersKnowPipes
<1>3. shared = {} => Known
  BY <1>1 DEF TransferInv, OwnContent
<1>4. /\ fd_timers' \in [DOMAIN fd_timers' -> Timer]
      /\ DOMAIN fd_timers' = DOMAIN fd_timers \ {fd}
      /\ \A k \in DOMAIN fd_timers \ {fd} : fd_timers'[k] = fd_timers[k]
  BY <1>1, Types DEF Without, Restrict
<1>5. /\ transfers' \in [DOMAIN transfers' -> Content]
      /\ DOMAIN transfers' = DOMAIN transfers \ {mime}
      /\ \A m \in DOMAIN transfers \ {mime} : transfers'[m] = transfers[m]
  BY <1>1, Types DEF Without, Restrict
<1>6. /\ readers' \in [DOMAIN readers' -> [mime : Mimes, pipe : 1..received]]
      /\ DOMAIN readers' = IF Known THEN DOMAIN readers \ {fd} ELSE DOMAIN readers
      /\ \A k \in DOMAIN readers' : readers'[k] = readers[k]
  <2> HIDE DEF Known
  <2> QED
    BY <1>1, Types DEF Without, Restrict
<1>7. /\ open' \in [DOMAIN open' -> 1..received]
      /\ DOMAIN open' = IF Known THEN DOMAIN open \ {fd} ELSE DOMAIN open
      /\ \A k \in DOMAIN open' : open'[k] = open[k]
  <2> HIDE DEF Known
  <2> QED
    BY <1>1, Types DEF Without, Restrict
<1>8. timers' = {fd_timers'[k] : k \in DOMAIN fd_timers'}
  BY <1>1, <1>4, TimersLeft
<1>9. /\ watched' \in [Descriptors -> 0..received]
      /\ \A k \in Descriptors : k # fd => watched'[k] = watched[k]
      /\ Known /\ watched[fd] = 1 => watched'[fd] = 0
      /\ ~Known => watched' = watched
  <2>1. /\ watched \in [Descriptors -> 0..received] /\ watched[fd] - 1 \in 0..received /\ 0 \in 0..received
        /\ watched[fd] \in Nat
    BY <1>1, <1>2, Types
  <2> DEFINE w == IF integration = "glib" THEN watched[fd] - 1 ELSE 0
  <2>2. Known => watched' = [watched EXCEPT ![fd] = w]
    BY <1>1 DEF Unwatch
  <2>3. w \in 0..received /\ (watched[fd] = 1 => w = 0)
    BY <2>1
  <2> HIDE DEF w, Known
  <2> QED
    BY <1>1, <2>1, <2>2, <2>3
<1>10. /\ done \in Seq([pipe : 1..received, content : Content])
       /\ Known => /\ result \in [pipe : 1..received, content : Content]
                   /\ done' \in Seq([pipe : 1..received, content : Content])
                   /\ Len(done') = Len(done) + 1 /\ done'[Len(done) + 1] = result
                   /\ \A k \in 1..Len(done) : done'[k] = done[k]
       /\ Len(done) \in Nat
  <2>1. done \in Seq([pipe : 1..received, content : Content])
    BY DEF TransferInv, Intact, TypeOK
  <2>2. Known => result \in [pipe : 1..received, content : Content]
    BY <1>2, Types
  <2>3. Len(done) \in Nat
    BY <2>1, LenProperties
  <2> HIDE DEF result, Known
  <2>4. CASE Known
    <3>1. result \in [pipe : 1..received, content : Content] /\ done' = Append(done, result)
      BY <1>1, <2>2, <2>4
    <3>2. /\ done' \in Seq([pipe : 1..received, content : Content])
          /\ Len(done') = Len(done) + 1 /\ done'[Len(done) + 1] = result
          /\ \A k \in 1..Len(done) : done'[k] = done[k]
      BY <2>1, <3>1, AppendProperties
    <3> QED
      BY <2>1, <2>3, <3>1, <3>2
  <2> QED
    BY <2>1, <2>3, <2>4
<1>11. TypeOK'
  <2>1. /\ DOMAIN transfers' \subseteq Mimes /\ DOMAIN fd_timers' \subseteq Descriptors
        /\ DOMAIN readers' \subseteq Descriptors /\ DOMAIN open' \subseteq Descriptors
        /\ timers' \subseteq Timer /\ known' \subseteq Descriptors
    <3> HIDE DEF Known
    <3> QED
      BY <1>1, <1>4, <1>5, <1>6, <1>7, <1>8 DEF TransferInv, Intact, TypeOK
  <2>2. stopped' \in BOOLEAN /\ done' \in Seq([pipe : 1..received, content : Content])
    <3> HIDE DEF Known
    <3> QED
      BY <1>1, <1>10 DEF TransferInv, Intact, TypeOK
  <2> QED
    BY <1>1, <1>4, <1>5, <1>6, <1>7, <1>9, <2>1, <2>2 DEF TransferInv, Intact, TypeOK, Content, Timer
<1>12. ReadersKnowPipes'
  <2> HIDE DEF Known
  <2> QED
    BY <1>6, <1>7 DEF TransferInv, ReadersKnowPipes
<1>13. TimersKnowPipes'
  <2>1. \A k \in DOMAIN fd_timers' : k \in DOMAIN open' /\ k \in DOMAIN readers'
                                       /\ fd_timers'[k] = IdleTimer(k, readers'[k].mime, readers'[k].pipe)
    <3> HIDE DEF Known
    <3> QED
      BY <1>4, <1>6, <1>7 DEF TransferInv, TimersKnowPipes, ReadersKnowPipes
  <2> QED
    BY <1>8, <2>1 DEF TimersKnowPipes, IdleTimer
<1>14. AllWatched'
  <2> SUFFICES ASSUME gave_up = {}
               PROVE  /\ DOMAIN readers' = DOMAIN open' /\ known' = DOMAIN open'
                      /\ \A k \in Descriptors : watched'[k] = IF k \in DOMAIN open' THEN 1 ELSE 0
                      /\ shared = {} => DOMAIN fd_timers' = DOMAIN open'
    BY <1>1 DEF AllWatched
  <2>1. /\ DOMAIN readers = DOMAIN open /\ known = DOMAIN open
        /\ \A k \in Descriptors : watched[k] = IF k \in DOMAIN open THEN 1 ELSE 0
        /\ shared = {} => DOMAIN fd_timers = DOMAIN open
    BY DEF TransferInv, AllWatched
  <2> HIDE DEF Known
  <2>2. CASE Known
    <3>1. watched'[fd] = 0
      BY <1>1, <1>9, <2>1, <2>2
    <3> QED
      BY <1>1, <1>4, <1>6, <1>7, <1>9, <2>1, <2>2, <3>1
  <2>3. CASE ~Known
    BY <1>1, <1>3, <2>1, <2>3
  <2> QED
    BY <2>2, <2>3
<1>15. Flow'
  BY <1>1 DEF TransferInv, Flow
<1>16. OwnContent'
  <2> SUFFICES ASSUME shared = {} PROVE OwnContent'
    BY <1>1 DEF OwnContent
  <2>1. /\ \A k \in DOMAIN readers : readers[k].mime \in DOMAIN transfers
        /\ \A k, other \in DOMAIN readers : readers[k].mime = readers[other].mime => k = other
        /\ \A k \in DOMAIN readers :
             IF k \in DOMAIN open THEN Collected(transfers[readers[k].mime], open[k])
             ELSE GivenUp(transfers[readers[k].mime], readers[k].pipe)
    BY DEF TransferInv, OwnContent
  <2>2. /\ DOMAIN readers' = DOMAIN readers \ {fd} /\ DOMAIN open' = DOMAIN open \ {fd}
    BY <1>3, <1>6, <1>7
  <2>3. ASSUME NEW k \in DOMAIN readers'
        PROVE  /\ readers'[k] = readers[k] /\ readers[k].mime \in DOMAIN transfers'
               /\ transfers'[readers[k].mime] = transfers[readers[k].mime]
    BY <1>1, <1>5, <1>6, <2>1, <2>2
  <2> QED
    BY <1>1, <1>7, <2>1, <2>2, <2>3 DEF OwnContent, Collected, GivenUp
<1>17. Intact'
  <2>1. ASSUME shared = {}
        PROVE  Whole(result.content, result.pipe) \/ GivenUp(result.content, result.pipe)
    <3>1. IF fd \in DOMAIN open THEN Collected(transfers[mime], open[fd])
          ELSE GivenUp(transfers[mime], readers[fd].pipe)
      BY <1>1, <2>1 DEF TransferInv, OwnContent
    <3>2. CASE fd \in DOMAIN open
      <4>1. inpipe[open[fd]] = 0 /\ todo[open[fd]] = 0
        BY <1>1, <3>2 DEF AtEnd, TransferInv, Flow
      <4>2. Len(transfers[mime]) \in Nat
        BY <1>3, <2>1, Types, LenProperties DEF Content
      <4>3. Len(transfers[mime]) = size[open[fd]]
        BY <3>1, <3>2, <4>1, <4>2 DEF Collected
      <4> QED
        BY <1>2, <3>1, <3>2, <4>3 DEF Whole, Collected
    <3>3. CASE fd \notin DOMAIN open
      BY <3>1, <3>3
    <3> QED
      BY <3>2, <3>3
  <2> HIDE DEF result, Known
  <2>2. ASSUME shared = {}, NEW k \in 1..Len(done')
        PROVE  Whole(done'[k].content, done'[k].pipe) \/ GivenUp(done'[k].content, done'[k].pipe)
    <3>1. CASE k \in 1..Len(done)
      BY <1>3, <1>10, <2>2, <3>1 DEF TransferInv, Intact
    <3>2. CASE k = Len(done) + 1
      BY <1>3, <1>10, <2>1, <2>2, <3>2
    <3>3. k \in 1..Len(done) \/ k = Len(done) + 1
      BY <1>3, <1>10, <2>2
    <3> QED
      BY <3>1, <3>2, <3>3
  <2> QED
    BY <1>1, <1>11, <2>2 DEF Intact, Whole, GivenUp
<1> QED
  BY <1>12, <1>13, <1>14, <1>15, <1>16, <1>17 DEF TransferInv

\* The idle timer closes the read end and leaves its reader without content.
LEMMA InvReadIdle ==
    ASSUME TransferInv, NEW timer \in timers, ReadIdle(timer)
    PROVE  TransferInv'
<1> DEFINE fd == timer.fd
           mime == timer.mime
           pipe == timer.pipe
<1>1. /\ fd \in DOMAIN fd_timers /\ fd \in DOMAIN open /\ fd \in DOMAIN readers
      /\ timer = fd_timers[fd] /\ mime = readers[fd].mime /\ pipe = readers[fd].pipe
  BY TimerIsKnown
<1>2. /\ timers' = timers \ {timer}
      /\ fd_timers' = Without(fd_timers, fd)
      /\ transfers' = With(transfers, mime, None)
      /\ open' = Without(open, fd)
      /\ watched' = Forget(fd)
      /\ gave_up' = gave_up \cup {pipe}
      /\ stopped' = (integration = "poll")
      /\ UNCHANGED <<integration, readers, known, received, todo, inpipe, hungup, size, shared, done>>
  BY <1>1 DEF ReadIdle, Raise, peerVars
<1>3. fd \in Descriptors /\ mime \in Mimes /\ pipe \in 1..received /\ received \in Nat
  BY <1>1, Types
<1>4. \A k \in DOMAIN fd_timers : fd_timers[k].fd = k
  BY DEF TransferInv, TimersKnowPipes, IdleTimer
<1> HIDE DEF fd, mime, pipe
<1>5. /\ fd_timers' \in [DOMAIN fd_timers' -> Timer]
      /\ DOMAIN fd_timers' = DOMAIN fd_timers \ {fd}
      /\ \A k \in DOMAIN fd_timers \ {fd} : fd_timers'[k] = fd_timers[k]
  BY <1>2, Types DEF Without, Restrict
<1>6. /\ transfers' \in [DOMAIN transfers' -> Content]
      /\ DOMAIN transfers' = DOMAIN transfers \cup {mime} /\ transfers'[mime] = None
      /\ \A m \in DOMAIN transfers : m # mime => transfers'[m] = transfers[m]
  <2>1. None \in Content
    <3>1. 0 \in 0..MaxReceives
      BY Types
    <3> QED
      BY <3>1 DEF None, Content
  <2> QED
    BY <1>2, <2>1, Types DEF With
<1>7. /\ open' \in [DOMAIN open' -> 1..received]
      /\ DOMAIN open' = DOMAIN open \ {fd}
      /\ \A k \in DOMAIN open' : open'[k] = open[k]
  BY <1>2, Types DEF Without, Restrict
<1>8. timers' = {fd_timers'[k] : k \in DOMAIN fd_timers'}
  BY <1>1, <1>2, <1>4, <1>5 DEF TransferInv, TimersKnowPipes
<1>9. watched' \in [Descriptors -> 0..received]
  BY <1>2, <1>3, Types DEF Forget
<1>10. TypeOK'
  <2>1. /\ DOMAIN transfers' \subseteq Mimes /\ DOMAIN fd_timers' \subseteq Descriptors
        /\ DOMAIN open' \subseteq Descriptors /\ timers' \subseteq Timer /\ gave_up' \subseteq 1..received
        /\ stopped' \in BOOLEAN
    BY <1>2, <1>3, <1>5, <1>6, <1>7, <1>8 DEF TransferInv, Intact, TypeOK
  <2> QED
    BY <1>2, <1>5, <1>6, <1>7, <1>9, <2>1 DEF TransferInv, Intact, TypeOK, Content, Timer
<1>11. ReadersKnowPipes'
  BY <1>2, <1>7 DEF TransferInv, ReadersKnowPipes
<1>12. TimersKnowPipes'
  <2>1. \A k \in DOMAIN fd_timers' : k \in DOMAIN open' /\ fd_timers'[k] = IdleTimer(k, readers[k].mime, readers[k].pipe)
    BY <1>5, <1>7 DEF TransferInv, TimersKnowPipes
  <2> QED
    BY <1>2, <1>8, <2>1 DEF TimersKnowPipes, IdleTimer
<1>13. AllWatched'
  BY <1>2 DEF AllWatched
<1>14. Flow'
  BY <1>2 DEF TransferInv, Flow
<1>15. OwnContent'
  <2> SUFFICES ASSUME shared = {} PROVE OwnContent'
    BY <1>2 DEF OwnContent
  <2>1. /\ \A k \in DOMAIN readers : readers[k].mime \in DOMAIN transfers
        /\ \A k, other \in DOMAIN readers : readers[k].mime = readers[other].mime => k = other
        /\ \A k \in DOMAIN readers :
             IF k \in DOMAIN open THEN Collected(transfers[readers[k].mime], open[k])
             ELSE GivenUp(transfers[readers[k].mime], readers[k].pipe)
    BY DEF TransferInv, OwnContent
  <2>2. ASSUME NEW k \in DOMAIN readers
        PROVE  IF k \in DOMAIN open' THEN Collected(transfers'[readers[k].mime], open'[k])
               ELSE transfers'[readers[k].mime] = None /\ readers[k].pipe \in gave_up'
    <3>1. CASE k = fd
      BY <1>1, <1>2, <1>6, <1>7, <3>1
    <3>2. CASE k # fd
      <4>1. transfers'[readers[k].mime] = transfers[readers[k].mime]
        BY <1>1, <1>6, <2>1, <3>2
      <4> QED
        BY <1>2, <1>7, <2>1, <3>2, <4>1 DEF GivenUp
    <3> QED
      BY <3>1, <3>2
  <2>3. \A k \in DOMAIN readers : readers[k].mime \in DOMAIN transfers'
    BY <1>6, <2>1
  <2> QED
    BY <1>2, <2>1, <2>2, <2>3 DEF OwnContent, Collected, GivenUp
<1>16. Intact'
  BY <1>2, <1>10 DEF TransferInv, Intact, Whole, GivenUp
<1> QED
  BY <1>11, <1>12, <1>13, <1>14, <1>15, <1>16 DEF TransferInv

LEMMA InvStep == TransferInv /\ [Next]_vars => TransferInv'
<1> SUFFICES ASSUME TransferInv, [Next]_vars PROVE TransferInv'
  OBVIOUS
<1>1. CASE \E fd \in Descriptors, mime \in Mimes : Receive(fd, mime)
  BY <1>1, InvReceive
<1>2. CASE Reader
  BY <1>2, InvReadChunks, InvReadEnd DEF Reader
<1>3. CASE \E timer \in timers : ReadIdle(timer)
  BY <1>3, InvReadIdle
<1>4. CASE Peer
  BY <1>4, InvPeer DEF Peer
<1>5. CASE UNCHANGED vars
  <2>1. UNCHANGED <<integration, transfers, fd_timers, timers, readers, known, watched, open, received,
                    todo, inpipe, hungup, size, gave_up, shared, done, stopped>>
    BY <1>5 DEF vars, offerVars, loopVars, peerVars
  <2>2. TypeOK' /\ Flow' /\ AllWatched' /\ ReadersKnowPipes'
    BY <2>1 DEF TransferInv, Intact, TypeOK, Content, Timer, Flow, AllWatched, ReadersKnowPipes
  <2>3. TimersKnowPipes' /\ OwnContent'
    BY <2>1 DEF TransferInv, TimersKnowPipes, IdleTimer, OwnContent, Collected, GivenUp
  <2>4. Intact'
    BY <2>1, <2>2 DEF TransferInv, Intact, Whole, GivenUp
  <2> QED
    BY <2>2, <2>3, <2>4 DEF TransferInv
<1> QED
  BY <1>1, <1>2, <1>3, <1>4, <1>5 DEF Next

\* Every reachable state of an offer's transfers is accounted for: its descriptors,
\* readers and timers belong together, under each of the three event loops.
THEOREM TransfersAccounted == Spec => []TransferInv
<1> QED
  BY InvInit, InvStep, PTL DEF Spec

\* A callback is called with exactly what the peer of its own pipe has written, or
\* with no content if its idle timer has fired; unless a type is received twice at
\* a time.
THEOREM ContentIsWhole == Spec => []Intact
<1>1. TransferInv => Intact
  BY DEF TransferInv
<1> QED
  BY <1>1, TransfersAccounted, PTL

\* Until a transfer is given up, the open read ends, the readers, the watches of the
\* event loop and the idle timers are the same ones: nothing is left behind.
THEOREM NothingIsLeft == Spec => []Tidy
<1>1. ASSUME TransferInv PROVE Tidy
  <2> SUFFICES ASSUME gave_up = {} PROVE Tidy
    BY DEF Tidy
  <2>1. /\ DOMAIN open = DOMAIN readers /\ known = DOMAIN open
        /\ \A fd \in DOMAIN open : readers[fd].pipe = open[fd] /\ watched[fd] = 1
        /\ shared = {} => DOMAIN fd_timers = DOMAIN open
    BY <1>1, Types DEF TransferInv, AllWatched, ReadersKnowPipes
  <2>2. /\ timers = {fd_timers[fd] : fd \in DOMAIN fd_timers}
        /\ \A fd \in DOMAIN fd_timers : fd_timers[fd].fd = fd /\ fd_timers[fd].pipe = open[fd]
    BY <1>1 DEF TransferInv, TimersKnowPipes, ReadersKnowPipes, IdleTimer
  <2> QED
    BY <2>1, <2>2 DEF Tidy
<1> QED
  BY <1>1, TransfersAccounted, PTL
=============================================================================
