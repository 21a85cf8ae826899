----------------------------- MODULE SocketRead -----------------------------
(***************************************************************************)
(* WaylandConnection.do_read: bytes arrive in chunks of any size, whole    *)
(* messages are cut from them and handled one after the other, and the     *)
(* rest is kept in _leftover for the next readable notification.  File     *)
(* descriptors travel beside the bytes and wait in _incoming_fds.          *)
(*                                                                         *)
(* Byte p of the stream is the number p, and message m is the bytes from   *)
(* Start[m] up to Start[m+1]: what do_read cuts out is right when it is    *)
(* such a run of numbers.  A step of the loop in do_read is an action, so  *)
(* that an exception can leave it at any message.                          *)
(***************************************************************************)
EXTENDS Naturals, Sequences, FiniteSets

CONSTANTS
    NumMsgs,   \* messages in the stream
    Start,     \* where each begins, and where the last one ends
    Carriers,  \* the messages that carry a file descriptor, in order
    FdPaths,   \* the ways the descriptors can travel: which byte each rides on
    Faults,    \* the messages whose handler may raise
    ReadMax    \* what one recvmsg takes at most (4096 in the code)

HeaderSize == 8

ASSUME StreamAssumption ==
    /\ NumMsgs \in Nat
    /\ Start \in [1..(NumMsgs + 1) -> Nat]
    /\ Start[1] = 0
    /\ \A m, n \in 1..(NumMsgs + 1) : m < n => Start[n] >= Start[m] + HeaderSize
ASSUME FdAssumption ==
    /\ Carriers \in Seq(1..NumMsgs)
    /\ \A j, k \in 1..Len(Carriers) : j < k => Carriers[j] < Carriers[k]
    /\ FdPaths \subseteq [1..Len(Carriers) -> Nat]
    \* libwayland queues a descriptor before the message that names it
    /\ \A path \in FdPaths : \A j, k \in 1..Len(Carriers) :
         path[j] <= Start[Carriers[j]] /\ (j < k => path[j] <= path[k])
ASSUME ReadAssumption ==
    /\ Faults \subseteq 1..NumMsgs
    /\ ReadMax \in Nat \ {0}

StreamEnd == Start[NumMsgs + 1]
FdMsgs == {Carriers[k] : k \in 1..Len(Carriers)}

VARIABLES
    written,        \* bytes the compositor has written
    eof,            \* the compositor has closed its end
    fd_at,          \* the byte each descriptor rides on
    survives,       \* whether the event loop goes on after an exception: asyncio
                    \* logs it, run() of PollIntegration is left
    received,       \* bytes recvmsg has returned
    incoming_fds,   \* descriptors received and not popped
    leftover,       \* _leftover
    reading,        \* do_read is in its loop
    data,           \* its local data
    reader,         \* the socket is registered with the event loop
    stopped,        \* the event loop has been left
    disconnected,   \* WaylandDisconnected has been raised
    dispatched,     \* history: the messages handled, in order
    fds_taken,      \* history: <<message, descriptor>> for each one popped
    raised_at,      \* history: how many had been when a handler first raised, 0 if none has
    misframed       \* bytes were taken for a message that are none

serverVars == <<written, eof, fd_at, survives>>
historyVars == <<dispatched, fds_taken, raised_at, misframed>>
loopVars == <<reader, stopped, disconnected>>
vars == <<serverVars, received, incoming_fds, leftover, reading, data, loopVars, historyVars>>

TypeOK ==
    /\ written \in 0..StreamEnd
    /\ eof \in BOOLEAN
    /\ fd_at \in FdPaths
    /\ received \in 0..written
    /\ incoming_fds \in Seq(FdMsgs)
    /\ leftover \in Seq(Nat)
    /\ data \in Seq(Nat)
    /\ {survives, reading, reader, stopped, disconnected, misframed} \subseteq BOOLEAN
    /\ dispatched \in Seq(1..NumMsgs)
    /\ fds_taken \in Seq(FdMsgs \X FdMsgs)
    /\ raised_at \in 0..Len(dispatched)

Init ==
    /\ written = 0 /\ eof = FALSE /\ received = 0
    /\ fd_at \in FdPaths
    /\ survives \in BOOLEAN
    /\ incoming_fds = <<>>
    /\ leftover = <<>>
    /\ reading = FALSE /\ data = <<>>
    /\ reader = TRUE /\ stopped = FALSE /\ disconnected = FALSE
    /\ dispatched = <<>> /\ fds_taken = <<>> /\ raised_at = 0 /\ misframed = FALSE

-----------------------------------------------------------------------------
\* The compositor writes its buffer whenever it likes, and may go away.
Write ==
    /\ ~eof
    /\ written' \in (written + 1)..StreamEnd
    /\ UNCHANGED <<eof, fd_at, survives, received, incoming_fds, leftover, reading, data,
                   loopVars, historyVars>>

Hangup ==
    /\ ~eof /\ eof' = TRUE
    /\ UNCHANGED <<written, fd_at, survives, received, incoming_fds, leftover, reading, data,
                   loopVars, historyVars>>

-----------------------------------------------------------------------------
\* n bytes of the stream from byte p on, and the descriptors that come with them.
Bytes(p, n) == [i \in 1..n |-> p + i - 1]
FdsBefore(p) == Cardinality({k \in 1..Len(Carriers) : fd_at[k] < p})
FdsWith(p, n) == SubSeq(Carriers, FdsBefore(p) + 1, FdsBefore(p + n))

\* The message whose bytes s begins with, if its header is one.
HasHeaderOffByOne(s) == Len(s) > HeaderSize   \* mutant: while len(data) > 8
HasHeader(s) == Len(s) >= HeaderSize
IsHeaderOf(s, m) == HasHeader(s) /\ SubSeq(s, 1, HeaderSize) = Bytes(Start[m], HeaderSize)
Size(m) == Start[m + 1] - Start[m]

\* An exception leaves do_read: its local data is lost, _leftover stays as it
\* was before the call, and what happens to the loop depends on the loop.
LeaveDoRead ==
    /\ reading' = FALSE
    /\ data' = <<>>
    /\ stopped' = ~survives
    /\ UNCHANGED leftover

\* Mutant of Receive: the descriptors of an earlier read are forgotten.
ReceiveForgettingFds(n) ==
    /\ reader /\ ~stopped /\ ~reading
    /\ n <= written - received
    /\ received' = received + n
    /\ incoming_fds' = FdsWith(received, n)
    /\ data' = leftover \o Bytes(received, n)
    /\ reading' = TRUE
    /\ UNCHANGED <<serverVars, leftover, loopVars, historyVars>>

\* recvmsg returns n bytes.
Receive(n) ==
    /\ reader /\ ~stopped /\ ~reading
    /\ n <= written - received
    /\ received' = received + n
    /\ incoming_fds' = incoming_fds \o FdsWith(received, n)
    /\ data' = leftover \o Bytes(received, n)
    /\ reading' = TRUE
    /\ UNCHANGED <<serverVars, leftover, loopVars, historyVars>>

\* recvmsg returns nothing: the compositor is gone.
ReceiveNothing ==
    /\ reader /\ ~stopped /\ ~reading
    /\ eof /\ received = written
    /\ disconnected' = TRUE
    /\ LeaveDoRead
    /\ UNCHANGED <<serverVars, received, incoming_fds, reader, historyVars>>

\* The next message is complete: it is taken off the data before it is handled.
Complete(m) == reading /\ IsHeaderOf(data, m) /\ Len(data) >= Size(m)
Intact(m) == SubSeq(data, 1, Size(m)) = Bytes(Start[m], Size(m))

\* The handler of a message that carries a descriptor pops it.
PopFd(m) ==
    IF m \in FdMsgs /\ incoming_fds # <<>>
    THEN /\ incoming_fds' = Tail(incoming_fds)
         /\ fds_taken' = Append(fds_taken, <<m, Head(incoming_fds)>>)
    ELSE UNCHANGED <<incoming_fds, fds_taken>>

\* Mutant of HandleMessage: the message is not taken off the data.
HandleAndKeep(m) ==
    /\ Complete(m) /\ Intact(m)
    /\ ~(m \in FdMsgs /\ incoming_fds = <<>>)
    /\ dispatched' = Append(dispatched, m)
    /\ PopFd(m)
    /\ UNCHANGED <<serverVars, received, leftover, reading, data, loopVars, raised_at, misframed>>

HandleMessage(m) ==
    /\ Complete(m) /\ Intact(m)
    /\ ~(m \in FdMsgs /\ incoming_fds = <<>>)
    /\ data' = SubSeq(data, Size(m) + 1, Len(data))
    /\ dispatched' = Append(dispatched, m)
    /\ PopFd(m)
    /\ UNCHANGED <<serverVars, received, leftover, reading, loopVars, raised_at, misframed>>

\* The handler raises.  It has popped its descriptor.
RaiseInMessage(m) ==
    /\ Complete(m) /\ Intact(m)
    /\ m \in Faults
    /\ dispatched' = Append(dispatched, m)
    /\ raised_at' = IF raised_at = 0 THEN Len(dispatched) + 1 ELSE raised_at
    /\ PopFd(m)
    /\ LeaveDoRead
    /\ UNCHANGED <<serverVars, received, reader, disconnected, misframed>>

\* The handler calls shutdown(): the reader is removed, the socket closed.
ShutdownInMessage(m) ==
    /\ Complete(m) /\ Intact(m)
    /\ ~(m \in FdMsgs)
    /\ dispatched' = Append(dispatched, m)
    /\ reader' = FALSE
    /\ disconnected' = TRUE
    /\ LeaveDoRead
    /\ UNCHANGED <<serverVars, received, incoming_fds, fds_taken, raised_at, misframed>>

\* Less than a message is left.
NoMessage(s) ==
    \/ ~HasHeader(s)
    \/ \E m \in 1..NumMsgs : IsHeaderOf(s, m) /\ Len(s) < Size(m)

\* Mutant of EndRead: the rest is dropped.
EndReadDropping ==
    /\ reading
    /\ NoMessage(data)
    /\ leftover' = <<>>
    /\ reading' = FALSE
    /\ data' = <<>>
    /\ UNCHANGED <<serverVars, received, incoming_fds, loopVars, historyVars>>

EndRead ==
    /\ reading
    /\ NoMessage(data)
    /\ leftover' = data
    /\ reading' = FALSE
    /\ data' = <<>>
    /\ UNCHANGED <<serverVars, received, incoming_fds, loopVars, historyVars>>

\* Bytes that begin no message are read as a header, or a header is followed by
\* bytes that are not its message's.  What happens next depends on their values:
\* the model ends here.
Misread ==
    /\ reading /\ HasHeader(data)
    /\ \A m \in 1..NumMsgs : IsHeaderOf(data, m) => Complete(m) /\ ~Intact(m)
    /\ misframed' = TRUE
    /\ stopped' = TRUE
    /\ reading' = FALSE
    /\ data' = <<>>
    /\ UNCHANGED <<serverVars, received, incoming_fds, leftover, reader, disconnected,
                   dispatched, fds_taken, raised_at>>

DoRead ==
    \/ \E n \in 1..ReadMax : Receive(n)
    \/ ReceiveNothing
    \/ \E m \in 1..NumMsgs : HandleMessage(m)
    \/ EndRead
    \/ Misread

Raise ==
    \E m \in 1..NumMsgs : RaiseInMessage(m) \/ ShutdownInMessage(m)

Next == Write \/ Hangup \/ DoRead \/ Raise

Spec == Init /\ [][Next]_vars

\* The loop calls do_read while the socket is readable, and do_read returns.
FairSpec == Spec /\ WF_vars(DoRead)

-----------------------------------------------------------------------------
\* The messages handled up to the first whose handler raised.
UntilRaise == IF raised_at = 0 THEN dispatched ELSE SubSeq(dispatched, 1, raised_at)

Delivery == INSTANCE OrderedDelivery WITH
                Limit <- NumMsgs,
                arrived <- {m \in 1..NumMsgs : Start[m + 1] <= received},
                dispatched <- UntilRaise,
                stopped <- stopped \/ ~reader \/ raised_at # 0

\* However the stream is cut into reads, its messages are handled in order,
\* none skipped, none twice, each when it is complete, until a handler raises.
DeliverySpec == Delivery!Spec

\* What is not handled is kept: between two reads _leftover is exactly the bytes
\* received since the end of the last message, inside do_read data is.  This holds
\* until a handler raises, which leaves the _leftover of the read before: only
\* then can the stream be misread, where the loop goes on after an exception.
\* Until it is, what is handled is never a message again or an earlier one.
Buffer == IF reading THEN data ELSE leftover
Unhandled == Bytes(Start[Len(dispatched) + 1], received - Start[Len(dispatched) + 1])
Increasing(s) == \A j, k \in 1..Len(s) : j < k => s[j] < s[k]
NothingLost ==
    /\ TypeOK
    /\ ~stopped /\ reader /\ raised_at = 0 => Buffer = Unhandled
    /\ misframed => raised_at # 0
    /\ Increasing(dispatched)

\* A handler that needs a descriptor finds one at the head of _incoming_fds, and it
\* is its own unless a handler has raised, which leaves the descriptors of messages
\* that are dropped.
FdsMatch ==
    /\ raised_at = 0 => \A k \in DOMAIN fds_taken : fds_taken[k][1] = fds_taken[k][2]
    /\ \A m \in FdMsgs : Complete(m) /\ Intact(m) => incoming_fds # <<>>

\* Whatever has been written is handled, and the application learns that the
\* compositor has gone, unless the loop ends or a handler raises first.
Handled ==
    /\ \A m \in 1..NumMsgs :
         written >= Start[m + 1] ~>
             \/ stopped \/ ~reader \/ raised_at # 0
             \/ \E k \in DOMAIN dispatched : dispatched[k] = m
    /\ eof ~> disconnected \/ stopped
=============================================================================
