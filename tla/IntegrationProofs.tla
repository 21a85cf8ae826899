-------------------------- MODULE IntegrationProofs --------------------------
(***************************************************************************)
(* What runs under the handlers of events.  do_read on any stream, cut     *)
(* into any reads: nothing is lost or handled twice, descriptors reach     *)
(* their messages, and OrderedDelivery is implemented.  Then timers under  *)
(* asyncio and GLib, for any number of timers: the tables of the           *)
(* connection, of the integration and of the event loop agree, and what    *)
(* they do together is what TimerService promises.                         *)
(***************************************************************************)
EXTENDS SocketRead, EventLoopTimers, SequenceTheorems, FiniteSetTheorems, TLAPS


Taken == Len(fds_taken)
New(m) == \A k \in 1..Len(dispatched) : dispatched[k] < m

\* s is the bytes of m from the first on, as far as it goes.
Begins(s, m) ==
    /\ s # <<>>
    /\ \A i \in 1..Len(s) : i <= Size(m) => s[i] = Start[m] + i - 1

\* do_read runs only while it is called, and has no data otherwise.
Orderly ==
    /\ reading => reader /\ ~stopped
    /\ ~reading => data = <<>>

InOrder == \A k \in 1..Len(UntilRaise) : UntilRaise[k] = k

Clean == ~stopped /\ reader /\ raised_at = 0
Framed ==
    Clean => /\ Len(dispatched) <= NumMsgs
             /\ Start[Len(dispatched) + 1] <= received
             /\ Buffer = Unhandled

\* Bytes keep their order whatever is dropped between them, and have been received;
\* inside do_read those of _leftover before the read that it was called for.
BytesInOrder ==
    /\ Increasing(leftover) /\ \A i \in 1..Len(leftover) : leftover[i] < received
    /\ Increasing(data) /\ \A i \in 1..Len(data) : data[i] < received
    /\ reading => \A i \in 1..Len(leftover) : leftover[i] + 1 < received

\* What a message is cut from next is not a message that has been handled: either
\* data begins with a new one, or _leftover does not go on where the socket does.
NeverAgain ==
    /\ Increasing(dispatched)
    /\ \A k \in 1..Len(dispatched) : Start[dispatched[k] + 1] <= received
    /\ \A m \in 1..NumMsgs : Begins(data, m) => New(m)
    /\ \A m \in 1..NumMsgs : Begins(leftover, m) =>
         /\ Len(leftover) < Size(m)
         /\ leftover[Len(leftover)] + 1 = received => New(m)

\* Descriptors are popped in the order of the messages that carry them.  No more
\* are popped than messages have been handled that carry one, and exactly as many
\* until a handler raises.
FdsInOrder ==
    /\ Taken <= FdsBefore(received)
    /\ incoming_fds = SubSeq(Carriers, Taken + 1, FdsBefore(received))
    /\ \A k \in 1..Len(Carriers) : New(Carriers[k]) => Taken < k
    /\ raised_at = 0 =>
         /\ \A k \in 1..Len(Carriers) : k <= Taken <=> Carriers[k] <= Len(dispatched)
         /\ \A k \in 1..Taken : fds_taken[k][1] = fds_taken[k][2]

ReadInv ==
    /\ TypeOK
    /\ Orderly
    /\ InOrder
    /\ Framed
    /\ misframed => raised_at # 0
    /\ BytesInOrder
    /\ NeverAgain
    /\ FdsInOrder

-----------------------------------------------------------------------------
\* Messages lie one after the other.
LEMMA Layout ==
    /\ NumMsgs \in Nat
    /\ \A m \in 1..(NumMsgs + 1) : Start[m] \in Nat
    /\ \A m, n \in 1..(NumMsgs + 1) : m < n => Start[m] + 8 <= Start[n]
    /\ \A m, n \in 1..(NumMsgs + 1) : Start[m] <= Start[n] => m <= n
    /\ \A m \in 1..NumMsgs : Size(m) \in Nat /\ Size(m) >= 8 /\ Start[m] + Size(m) = Start[m + 1]
    /\ StreamEnd \in Nat /\ Start[1] = 0
<1>1. /\ NumMsgs \in Nat /\ Start[1] = 0
      /\ \A m \in 1..(NumMsgs + 1) : Start[m] \in Nat
      /\ \A m, n \in 1..(NumMsgs + 1) : m < n => Start[m] + 8 <= Start[n]
  BY StreamAssumption DEF HeaderSize
<1>2. \A m, n \in 1..(NumMsgs + 1) : Start[m] <= Start[n] => m <= n
  BY <1>1
<1>3. ASSUME NEW m \in 1..NumMsgs
      PROVE  Size(m) \in Nat /\ Size(m) >= 8 /\ Start[m] + Size(m) = Start[m + 1]
  <2>1. m \in 1..(NumMsgs + 1) /\ m + 1 \in 1..(NumMsgs + 1) /\ m < m + 1
    BY <1>1
  <2> QED
    BY <1>1, <2>1 DEF Size
<1>4. StreamEnd \in Nat
  BY <1>1 DEF StreamEnd
<1> QED
  BY <1>1, <1>2, <1>3, <1>4

\* A run of bytes, and what is cut from it and added to it.
LEMMA BytesRun ==
    ASSUME NEW p \in Nat, NEW n \in Nat
    PROVE  /\ Bytes(p, n) \in Seq(Nat)
           /\ Len(Bytes(p, n)) = n
           /\ \A i \in 1..n : Bytes(p, n)[i] = p + i - 1
BY DEF Bytes

LEMMA BytesEqual ==
    ASSUME NEW s \in Seq(Nat), NEW p \in Nat, NEW n \in Nat, Len(s) = n,
           \A i \in 1..n : s[i] = p + i - 1
    PROVE  s = Bytes(p, n)
<1>1. /\ Bytes(p, n) \in Seq(Nat) /\ Len(Bytes(p, n)) = n
      /\ \A i \in 1..n : Bytes(p, n)[i] = p + i - 1
  BY BytesRun
<1> QED
  BY <1>1, SeqEqual

LEMMA RunsJoin ==
    ASSUME NEW s \in Seq(Nat), NEW t \in Seq(Nat), NEW p \in Nat,
           \A i \in 1..Len(s) : s[i] = p + i - 1,
           \A i \in 1..Len(t) : t[i] = p + Len(s) + i - 1
    PROVE  s \o t = Bytes(p, Len(s) + Len(t))
<1> DEFINE st == s \o t
<1>1. /\ st \in Seq(Nat) /\ Len(st) = Len(s) + Len(t)
      /\ \A i \in 1..(Len(s) + Len(t)) : st[i] = IF i <= Len(s) THEN s[i] ELSE t[i - Len(s)]
      /\ Len(s) \in Nat /\ Len(t) \in Nat
  BY ConcatProperties, LenProperties
<1> HIDE DEF st
<1>2. ASSUME NEW i \in 1..(Len(s) + Len(t)) PROVE st[i] = p + i - 1
  <2>1. CASE i <= Len(s)
    BY <1>1, <2>1
  <2>2. CASE i > Len(s)
    <3>1. i - Len(s) \in 1..Len(t)
      BY <1>1, <2>2
    <3>2. t[i - Len(s)] = p + Len(s) + (i - Len(s)) - 1
      BY <3>1
    <3>3. st[i] = t[i - Len(s)]
      BY <1>1, <2>2
    <3> QED
      BY <1>1, <3>2, <3>3
  <2> QED
    BY <1>1, <2>1, <2>2
<1>3. st = Bytes(p, Len(s) + Len(t))
  <2>1. Len(s) + Len(t) \in Nat
    BY <1>1
  <2> HIDE DEF Bytes
  <2> QED
    BY <1>1, <1>2, <2>1, BytesEqual
<1> QED
  BY <1>3 DEF st

LEMMA BytesMore ==
    ASSUME NEW p \in Nat, NEW n \in Nat, NEW k \in Nat
    PROVE  Bytes(p, n) \o Bytes(p + n, k) = Bytes(p, n + k)
<1>1. /\ Bytes(p, n) \in Seq(Nat) /\ Len(Bytes(p, n)) = n
      /\ \A i \in 1..n : Bytes(p, n)[i] = p + i - 1
  BY BytesRun
<1>2. /\ Bytes(p + n, k) \in Seq(Nat) /\ Len(Bytes(p + n, k)) = k
      /\ \A i \in 1..k : Bytes(p + n, k)[i] = p + n + i - 1
  <2>1. p + n \in Nat
    OBVIOUS
  <2> QED
    BY <2>1, BytesRun
<1> QED
  BY <1>1, <1>2, RunsJoin

\* The rest after the first k elements.
LEMMA RestOf ==
    ASSUME NEW s \in Seq(Nat), NEW k \in 0..Len(s)
    PROVE  /\ SubSeq(s, k + 1, Len(s)) \in Seq(Nat)
           /\ Len(SubSeq(s, k + 1, Len(s))) = Len(s) - k
           /\ \A i \in 1..(Len(s) - k) : SubSeq(s, k + 1, Len(s))[i] = s[k + i]
<1>1. Len(s) \in Nat /\ \A i \in 1..Len(s) : s[i] \in Nat
  BY LenProperties, ElementOfSeq
<1>2. k + 1 \in Int /\ Len(s) \in Int /\ \A i \in (k + 1)..Len(s) : s[i] \in Nat
  BY <1>1
<1>3. /\ SubSeq(s, k + 1, Len(s)) \in Seq(Nat)
      /\ Len(SubSeq(s, k + 1, Len(s))) = IF k + 1 <= Len(s) THEN Len(s) - (k + 1) + 1 ELSE 0
      /\ \A i \in 1..(Len(s) - (k + 1) + 1) : SubSeq(s, k + 1, Len(s))[i] = s[k + 1 + i - 1]
  BY <1>2, SubSeqProperties
<1> QED
  BY <1>1, <1>3

LEMMA FirstOf ==
    ASSUME NEW s \in Seq(Nat), NEW k \in 0..Len(s)
    PROVE  /\ SubSeq(s, 1, k) \in Seq(Nat)
           /\ Len(SubSeq(s, 1, k)) = k
           /\ \A i \in 1..k : SubSeq(s, 1, k)[i] = s[i]
<1>1. Len(s) \in Nat /\ \A i \in 1..Len(s) : s[i] \in Nat
  BY LenProperties, ElementOfSeq
<1>2. 1 \in Int /\ k \in Int /\ \A i \in 1..k : s[i] \in Nat
  BY <1>1
<1>3. /\ SubSeq(s, 1, k) \in Seq(Nat)
      /\ Len(SubSeq(s, 1, k)) = IF 1 <= k THEN k - 1 + 1 ELSE 0
      /\ \A i \in 1..(k - 1 + 1) : SubSeq(s, 1, k)[i] = s[1 + i - 1]
  BY <1>2, SubSeqProperties
<1> QED
  BY <1>1, <1>3

\* The descriptors that ride before a byte are the first so many.
LEMMA FdsBeforeIs ==
    ASSUME fd_at \in FdPaths, NEW p \in Nat
    PROVE  /\ FdsBefore(p) \in 0..Len(Carriers)
           /\ \A k \in 1..Len(Carriers) : k <= FdsBefore(p) <=> fd_at[k] < p
<1> DEFINE n == Len(Carriers)
           Early == {k \in 1..n : fd_at[k] < p}
<1>1. /\ n \in Nat
      /\ \A k \in 1..n : fd_at[k] \in Nat
      /\ \A j, k \in 1..n : j < k => fd_at[j] <= fd_at[k]
  BY FdAssumption, LenProperties
<1>2. /\ \A k \in 0..n : IsFiniteSet(1..k) /\ Cardinality(1..k) = k
      /\ IsFiniteSet(Early) /\ Cardinality(Early) \in 0..n
  <2>1. \A k \in 0..n : IsFiniteSet(1..k) /\ Cardinality(1..k) = k
    <3> TAKE k \in 0..n
    <3>1. 1 \in Int /\ k \in Int /\ k >= 0
      BY <1>1
    <3> QED
      BY <3>1, FS_Interval
  <2>2. IsFiniteSet(1..n) /\ Cardinality(1..n) = n /\ Early \in SUBSET (1..n)
    BY <1>1, <2>1
  <2>3. IsFiniteSet(Early) /\ Cardinality(Early) <= n
    BY <2>2, FS_Subset
  <2>4. Cardinality(Early) \in Nat
    BY <2>3, FS_CardinalityType
  <2> QED
    BY <1>1, <2>1, <2>3, <2>4
<1>3. ASSUME NEW k \in 1..n, fd_at[k] < p PROVE k <= Cardinality(Early)
  <2>1. 1..k \in SUBSET Early
    BY <1>1, <1>3
  <2>2. Cardinality(1..k) <= Cardinality(Early)
    BY <1>2, <2>1, FS_Subset
  <2>3. k \in 0..n
    BY <1>1
  <2> QED
    BY <1>2, <2>2, <2>3
<1>4. ASSUME NEW k \in 1..n, ~(fd_at[k] < p) PROVE Cardinality(Early) < k
  <2>1. Early \in SUBSET (1..(k - 1))
    BY <1>1, <1>4
  <2>2. k - 1 \in 0..n
    BY <1>1
  <2>3. Cardinality(Early) <= k - 1
    BY <1>2, <2>1, <2>2, FS_Subset
  <2> QED
    BY <1>1, <1>2, <2>3
<1>5. FdsBefore(p) = Cardinality(Early)
  BY DEF FdsBefore
<1> HIDE DEF Early
<1> QED
  BY <1>1, <1>2, <1>3, <1>4, <1>5

-----------------------------------------------------------------------------
\* What is received is added at the end of what is kept, and messages are taken
\* off its front.
LEMMA AddBytes ==
    ASSUME NEW s \in Seq(Nat), NEW r \in Nat, NEW n \in Nat,
           Increasing(s), \A i \in 1..Len(s) : s[i] < r
    PROVE  LET t == s \o Bytes(r, n)
           IN  /\ t \in Seq(Nat) /\ Len(t) = Len(s) + n
               /\ \A i \in 1..Len(s) : t[i] = s[i]
               /\ \A i \in 1..n : t[Len(s) + i] = r + i - 1
               /\ Increasing(t) /\ \A i \in 1..Len(t) : t[i] < r + n
<1> DEFINE b == Bytes(r, n)
           t == s \o b
<1>1. b \in Seq(Nat) /\ Len(b) = n /\ \A i \in 1..n : b[i] = r + i - 1
  BY BytesRun
<1>2. Len(s) \in Nat /\ \A i \in 1..Len(s) : s[i] \in Nat
  BY LenProperties, ElementOfSeq
<1> HIDE DEF b
<1>3. /\ t \in Seq(Nat) /\ Len(t) = Len(s) + n
      /\ \A i \in 1..(Len(s) + n) : t[i] = IF i <= Len(s) THEN s[i] ELSE b[i - Len(s)]
  BY <1>1, ConcatProperties
<1> HIDE DEF t
<1>4. \A i \in 1..Len(s) : t[i] = s[i]
  BY <1>2, <1>3
<1>5. ASSUME NEW i \in 1..n PROVE t[Len(s) + i] = r + i - 1
  <2>1. Len(s) + i \in 1..(Len(s) + n) /\ ~(Len(s) + i <= Len(s)) /\ (Len(s) + i) - Len(s) = i
    BY <1>2
  <2>2. t[Len(s) + i] = b[(Len(s) + i) - Len(s)]
    BY <1>3, <2>1
  <2> QED
    BY <1>1, <2>1, <2>2
<1>6. ASSUME NEW i \in 1..(Len(s) + n), i > Len(s) PROVE t[i] = r + (i - Len(s)) - 1
  <2>1. i - Len(s) \in 1..n /\ Len(s) + (i - Len(s)) = i
    BY <1>2, <1>6
  <2>2. t[Len(s) + (i - Len(s))] = r + (i - Len(s)) - 1
    BY <1>5, <2>1
  <2> QED
    BY <2>1, <2>2
<1>7. Increasing(t)
  <2> SUFFICES ASSUME NEW j \in 1..(Len(s) + n), NEW k \in 1..(Len(s) + n), j < k PROVE t[j] < t[k]
    BY <1>3 DEF Increasing
  <2>1. CASE k <= Len(s)
    BY <1>2, <1>4, <2>1 DEF Increasing
  <2>2. CASE k > Len(s) /\ j <= Len(s)
    <3>1. t[j] = s[j] /\ s[j] < r /\ s[j] \in Nat
      BY <1>2, <1>4, <2>2
    <3> QED
      BY <1>2, <1>6, <2>2, <3>1
  <2>3. CASE j > Len(s)
    BY <1>2, <1>6, <2>3
  <2> QED
    BY <1>2, <2>1, <2>2, <2>3
<1>8. ASSUME NEW i \in 1..(Len(s) + n) PROVE t[i] < r + n
  <2>1. CASE i <= Len(s)
    <3>1. t[i] = s[i] /\ s[i] < r /\ s[i] \in Nat
      BY <1>2, <1>4, <2>1
    <3> QED
      BY <3>1
  <2>2. CASE i > Len(s)
    BY <1>2, <1>6, <2>2
  <2> QED
    BY <1>2, <2>1, <2>2
<1>9. /\ t \in Seq(Nat) /\ Len(t) = Len(s) + n
      /\ \A i \in 1..Len(s) : t[i] = s[i]
      /\ \A i \in 1..n : t[Len(s) + i] = r + i - 1
      /\ Increasing(t) /\ \A i \in 1..Len(t) : t[i] < r + n
  BY <1>3, <1>4, <1>5, <1>7, <1>8
<1> QED
  BY <1>9 DEF t, b

LEMMA CutBytes ==
    ASSUME NEW s \in Seq(Nat), NEW k \in 0..Len(s), NEW r, Increasing(s), \A i \in 1..Len(s) : s[i] < r
    PROVE  LET t == SubSeq(s, k + 1, Len(s))
           IN  /\ t \in Seq(Nat) /\ Len(t) = Len(s) - k
               /\ \A i \in 1..Len(t) : t[i] = s[k + i]
               /\ Increasing(t) /\ \A i \in 1..Len(t) : t[i] < r
<1> DEFINE t == SubSeq(s, k + 1, Len(s))
<1>1. t \in Seq(Nat) /\ Len(t) = Len(s) - k /\ \A i \in 1..(Len(s) - k) : t[i] = s[k + i]
  BY RestOf
<1>2. Len(s) \in Nat /\ k \in Nat /\ Len(s) - k \in Nat
  BY LenProperties
<1> HIDE DEF t
<1>3. \A i \in 1..(Len(s) - k) : k + i \in 1..Len(s)
  BY <1>2
<1>4. ASSUME NEW i \in 1..Len(t), NEW j \in 1..Len(t), i < j PROVE t[i] < t[j]
  <2>1. i \in 1..(Len(s) - k) /\ j \in 1..(Len(s) - k)
    BY <1>1
  <2>2. k + i \in 1..Len(s) /\ k + j \in 1..Len(s) /\ k + i < k + j
    BY <1>2, <1>4, <2>1
  <2>3. s[k + i] < s[k + j]
    BY <2>2 DEF Increasing
  <2> QED
    BY <1>1, <2>1, <2>3
<1>5. \A i \in 1..Len(t) : t[i] < r
  BY <1>1, <1>2, <1>3
<1> QED
  BY <1>1, <1>4, <1>5 DEF t, Increasing

\* A complete message that is what it should be, at the front of the data.
LEMMA FrontIs ==
    ASSUME data \in Seq(Nat), NEW m \in 1..NumMsgs, Complete(m), Intact(m)
    PROVE  /\ Size(m) \in 8..Len(data) /\ Size(m) \in 0..Len(data)
           /\ \A i \in 1..Size(m) : data[i] = Start[m] + i - 1
           /\ Begins(data, m)
<1>1. Size(m) \in Nat /\ Size(m) >= 8 /\ Start[m] \in Nat /\ Len(data) \in Nat /\ Len(data) >= Size(m)
  <2>1. m \in 1..(NumMsgs + 1) /\ Len(data) \in Nat
    BY Layout, LenProperties
  <2> QED
    BY <2>1, Layout DEF Complete
<1>2. SubSeq(data, 1, Size(m)) = Bytes(Start[m], Size(m))
  BY DEF Intact
<1>3. \A i \in 1..Size(m) : SubSeq(data, 1, Size(m))[i] = data[i]
  <2>1. Size(m) \in 0..Len(data)
    BY <1>1
  <2> QED
    BY <2>1, FirstOf
<1>4. \A i \in 1..Size(m) : Bytes(Start[m], Size(m))[i] = Start[m] + i - 1
  BY <1>1, BytesRun
<1>5. \A i \in 1..Size(m) : data[i] = Start[m] + i - 1
  BY <1>2, <1>3, <1>4
<1>6. data # <<>>
  BY <1>1, EmptySeq
<1> QED
  BY <1>1, <1>5, <1>6 DEF Begins

-----------------------------------------------------------------------------
\* What the types say, in the form the steps need.
LEMMA Types ==
    ASSUME ReadInv
    PROVE  /\ received \in Nat /\ written \in Nat /\ received <= written /\ written <= StreamEnd
           /\ leftover \in Seq(Nat) /\ data \in Seq(Nat)
           /\ Len(leftover) \in Nat /\ Len(data) \in Nat
           /\ \A i \in 1..Len(leftover) : leftover[i] \in Nat
           /\ \A i \in 1..Len(data) : data[i] \in Nat
           /\ dispatched \in Seq(1..NumMsgs) /\ Len(dispatched) \in Nat
           /\ \A k \in 1..Len(dispatched) : dispatched[k] \in 1..NumMsgs
           /\ raised_at \in 0..Len(dispatched)
           /\ fds_taken \in Seq(FdMsgs \X FdMsgs) /\ Taken \in Nat
           /\ Carriers \in Seq(1..NumMsgs) /\ Len(Carriers) \in Nat /\ FdMsgs \subseteq 1..NumMsgs
           /\ \A k \in 1..Len(Carriers) : Carriers[k] \in FdMsgs
           /\ FdsBefore(received) \in 0..Len(Carriers)
<1>1. /\ received \in Nat /\ written \in Nat /\ received <= written /\ written <= StreamEnd
      /\ leftover \in Seq(Nat) /\ data \in Seq(Nat)
      /\ dispatched \in Seq(1..NumMsgs) /\ raised_at \in 0..Len(dispatched)
      /\ fds_taken \in Seq(FdMsgs \X FdMsgs) /\ fd_at \in FdPaths
  BY Layout DEF ReadInv, TypeOK
<1>2. Carriers \in Seq(1..NumMsgs)
  BY FdAssumption
<1>3. /\ Len(leftover) \in Nat /\ Len(data) \in Nat /\ Len(dispatched) \in Nat /\ Len(Carriers) \in Nat
      /\ Taken \in Nat
  BY <1>1, <1>2, LenProperties DEF Taken
<1>4. /\ \A i \in 1..Len(leftover) : leftover[i] \in Nat
      /\ \A i \in 1..Len(data) : data[i] \in Nat
      /\ \A k \in 1..Len(dispatched) : dispatched[k] \in 1..NumMsgs
      /\ \A k \in 1..Len(Carriers) : Carriers[k] \in 1..NumMsgs
  BY <1>1, <1>2, ElementOfSeq
<1>5. FdsBefore(received) \in 0..Len(Carriers)
  BY <1>1, FdsBeforeIs
<1>6. FdMsgs \subseteq 1..NumMsgs /\ \A k \in 1..Len(Carriers) : Carriers[k] \in FdMsgs
  BY <1>4 DEF FdMsgs
<1> QED
  BY <1>1, <1>2, <1>3, <1>4, <1>5, <1>6

LEMMA HandledAre ==
    ASSUME ReadInv, NEW k \in 1..Len(dispatched)
    PROVE  /\ dispatched[k] \in 1..NumMsgs /\ dispatched[k] + 1 \in 1..(NumMsgs + 1)
           /\ Start[dispatched[k] + 1] \in Nat /\ Start[dispatched[k] + 1] <= received
<1>1. dispatched[k] \in 1..NumMsgs
  BY Types
<1>2. dispatched[k] + 1 \in 1..(NumMsgs + 1)
  <2>1. NumMsgs \in Nat
    BY Layout
  <2> QED
    BY <1>1, <2>1
<1>3. Start[dispatched[k] + 1] <= received
  BY DEF ReadInv, NeverAgain
<1> QED
  BY <1>1, <1>2, <1>3, Layout

LEMMA InvInit == Init => ReadInv
<1> SUFFICES ASSUME Init PROVE ReadInv
  OBVIOUS
<1>1. /\ <<>> \in Seq(Nat) /\ Len(<<>>) = 0 /\ <<>> \in Seq(FdMsgs) /\ <<>> \in Seq(1..NumMsgs)
      /\ <<>> \in Seq(FdMsgs \X FdMsgs)
  BY EmptySeq
<1>2. TypeOK
  <2>1. /\ written = 0 /\ received = 0 /\ raised_at = 0 /\ Len(dispatched) = 0
        /\ 0 \in 0..StreamEnd /\ 0 \in 0..0
    BY <1>1, Layout DEF Init
  <2>2. {survives, reading, reader, stopped, disconnected, misframed} \subseteq BOOLEAN
    BY DEF Init
  <2>3. /\ eof \in BOOLEAN /\ fd_at \in FdPaths
        /\ incoming_fds \in Seq(FdMsgs) /\ leftover \in Seq(Nat) /\ data \in Seq(Nat)
        /\ dispatched \in Seq(1..NumMsgs) /\ fds_taken \in Seq(FdMsgs \X FdMsgs)
    BY <1>1 DEF Init
  <2> QED
    BY <2>1, <2>2, <2>3 DEF TypeOK
<1>3. Orderly /\ InOrder /\ BytesInOrder /\ (misframed => raised_at # 0)
  BY <1>1 DEF Init, Orderly, InOrder, UntilRaise, BytesInOrder, Increasing
<1>4. Framed
  <2>1. <<>> = Bytes(0, 0)
    <3>1. Bytes(0, 0) \in Seq(Nat) /\ Len(Bytes(0, 0)) = 0
      BY BytesRun
    <3> QED
      BY <3>1, EmptySeq
  <2> QED
    BY <1>1, <2>1, Layout DEF Init, Framed, Buffer, Unhandled
<1>5. NeverAgain
  BY <1>1 DEF Init, NeverAgain, Increasing, Begins
<1>6. FdsInOrder
  <2>1. \A k \in 1..Len(Carriers) : fd_at[k] \in Nat /\ Carriers[k] \in 1..NumMsgs /\ Len(Carriers) \in Nat
    BY FdAssumption, LenProperties, ElementOfSeq DEF Init
  <2>2. Len(Carriers) \in Nat
    BY FdAssumption, LenProperties
  <2>3. FdsBefore(0) = 0
    <3>1. /\ FdsBefore(0) \in 0..Len(Carriers)
          /\ \A k \in 1..Len(Carriers) : k <= FdsBefore(0) <=> fd_at[k] < 0
      BY FdsBeforeIs DEF Init
    <3>2. FdsBefore(0) \in 1..Len(Carriers) => fd_at[FdsBefore(0)] < 0
      BY <2>2, <3>1
    <3> QED
      BY <2>1, <2>2, <3>1, <3>2
  <2>4. SubSeq(Carriers, 1, 0) = <<>>
    BY SubSeqEmpty
  <2> QED
    BY <1>1, <2>1, <2>3, <2>4 DEF Init, FdsInOrder, Taken
<1> QED
  BY <1>2, <1>3, <1>4, <1>5, <1>6 DEF ReadInv

LEMMA InvCompositor ==
    ASSUME ReadInv, Write \/ Hangup
    PROVE  ReadInv'
<1>1. /\ UNCHANGED <<fd_at, survives, received, incoming_fds, leftover, reading, data,
                     loopVars, historyVars>>
      /\ written' \in 0..StreamEnd /\ written <= written' /\ eof' \in BOOLEAN
  <2>1. CASE Write
    BY <2>1, Types, Layout DEF Write, ReadInv, TypeOK
  <2>2. CASE Hangup
    BY <2>2, Types, Layout DEF Hangup
  <2> QED
    BY <2>1, <2>2
<1>2. TypeOK'
  BY <1>1, Types, Layout DEF ReadInv, TypeOK, loopVars, historyVars
<1>3. Orderly' /\ InOrder' /\ (misframed => raised_at # 0)'
  BY <1>1 DEF ReadInv, Orderly, InOrder, UntilRaise, loopVars, historyVars
<1>4. Framed' /\ BytesInOrder'
  BY <1>1 DEF ReadInv, Framed, Clean, Buffer, Unhandled, BytesInOrder, loopVars, historyVars
<1>5. NeverAgain'
  BY <1>1 DEF ReadInv, NeverAgain, New, loopVars, historyVars
<1>6. FdsInOrder'
  <2>1. FdsBefore(received)' = FdsBefore(received)
    BY <1>1 DEF FdsBefore
  <2> QED
    BY <1>1, <2>1 DEF ReadInv, FdsInOrder, Taken, New, historyVars
<1> QED
  BY <1>2, <1>3, <1>4, <1>5, <1>6 DEF ReadInv

\* recvmsg: the bytes go on where those before ended, and so do the descriptors.
LEMMA InvReceive ==
    ASSUME ReadInv, NEW n \in 1..ReadMax, Receive(n)
    PROVE  ReadInv'
<1> DEFINE s == leftover
           t == leftover \o Bytes(received, n)
<1>1. /\ n \in Nat /\ n >= 1 /\ n <= written - received
      /\ reader /\ ~stopped /\ ~reading
      /\ received' = received + n /\ data' = t /\ reading' = TRUE
      /\ incoming_fds' = incoming_fds \o FdsWith(received, n)
      /\ UNCHANGED <<serverVars, leftover, loopVars, historyVars>>
  BY ReadAssumption DEF Receive
<1>2. /\ s \in Seq(Nat) /\ received \in Nat /\ Increasing(s) /\ \A i \in 1..Len(s) : s[i] < received
      /\ Len(s) \in Nat /\ \A i \in 1..Len(s) : s[i] \in Nat
  BY Types DEF ReadInv, BytesInOrder
<1>3. /\ t \in Seq(Nat) /\ Len(t) = Len(s) + n
      /\ \A i \in 1..Len(s) : t[i] = s[i]
      /\ \A i \in 1..n : t[Len(s) + i] = received + i - 1
      /\ Increasing(t) /\ \A i \in 1..Len(t) : t[i] < received + n
  BY <1>1, <1>2, AddBytes
<1> HIDE DEF t
<1>4. FdsInOrder' /\ incoming_fds' \in Seq(FdMsgs)
  <2> DEFINE B == FdsBefore(received)
             C == FdsBefore(received + n)
  <2>1. /\ B \in 0..Len(Carriers) /\ C \in 0..Len(Carriers)
        /\ \A k \in 1..Len(Carriers) : k <= B <=> fd_at[k] < received
        /\ \A k \in 1..Len(Carriers) : k <= C <=> fd_at[k] < received + n
        /\ \A k \in 1..Len(Carriers) : fd_at[k] \in Nat
    <3>1. received + n \in Nat /\ fd_at \in FdPaths
      BY <1>1, <1>2 DEF ReadInv, TypeOK
    <3> QED
      BY <1>2, <3>1, FdsBeforeIs, FdAssumption
  <2>2. B <= C
    <3>1. B \in 1..Len(Carriers) => B <= C
      BY <1>1, <1>2, <2>1
    <3> QED
      BY <2>1, <3>1
  <2>3. FdsBefore(received)' = C
    BY <1>1 DEF FdsBefore, serverVars
  <2> HIDE DEF B, C
  <2>4. /\ Taken \in Nat /\ Taken <= B /\ Len(Carriers) \in Nat
        /\ incoming_fds = SubSeq(Carriers, Taken + 1, B)
    BY Types DEF ReadInv, FdsInOrder, B
  <2>5. incoming_fds' = SubSeq(Carriers, Taken + 1, C)
    <3>1. /\ Taken + 1 \in 1..(Len(Carriers) + 1)
          /\ B \in ((Taken + 1) - 1)..Len(Carriers) /\ C \in B..Len(Carriers)
      BY <2>1, <2>2, <2>4
    <3>2. SubSeq(Carriers, Taken + 1, B) \o SubSeq(Carriers, B + 1, C) = SubSeq(Carriers, Taken + 1, C)
      BY <3>1, Types, ConcatAdjacentSubSeq
    <3> QED
      BY <1>1, <2>4, <3>2 DEF FdsWith, B, C
  <2>6. SubSeq(Carriers, Taken + 1, C) \in Seq(FdMsgs)
    <3>1. \A i \in (Taken + 1)..C : Carriers[i] \in FdMsgs
      BY <2>1, <2>4, Types
    <3> QED
      BY <2>1, <2>4, <3>1, SubSeqProperties
  <2> QED
    <3>1. Taken' = Taken /\ (\A m : New(m)' <=> New(m)) /\ UNCHANGED <<dispatched, fds_taken, raised_at>>
      BY <1>1 DEF New, Taken, historyVars
    <3>2. Taken <= C
      BY <2>1, <2>2, <2>4 DEF B, C
    <3>3. /\ \A k \in 1..Len(Carriers) : New(Carriers[k]) => Taken < k
          /\ raised_at = 0 =>
               /\ \A k \in 1..Len(Carriers) : k <= Taken <=> Carriers[k] <= Len(dispatched)
               /\ \A k \in 1..Taken : fds_taken[k][1] = fds_taken[k][2]
      BY DEF ReadInv, FdsInOrder
    <3>4. FdsInOrder'
      BY <2>3, <2>5, <3>1, <3>2, <3>3 DEF FdsInOrder
    <3> QED
      BY <2>5, <2>6, <3>4
<1>5. TypeOK'
  <2>1. received' \in 0..written'
    BY <1>1, <1>2, Types DEF serverVars
  <2> QED
    BY <1>1, <1>3, <1>4, <2>1 DEF ReadInv, TypeOK, serverVars, loopVars, historyVars
<1>6. Orderly' /\ InOrder' /\ (misframed => raised_at # 0)'
  BY <1>1 DEF ReadInv, Orderly, InOrder, UntilRaise, loopVars, historyVars
<1>7. Framed'
  <2> SUFFICES ASSUME Clean
               PROVE  /\ Len(dispatched) <= NumMsgs
                      /\ Start[Len(dispatched) + 1] <= received + n
                      /\ data' = Bytes(Start[Len(dispatched) + 1], (received + n) - Start[Len(dispatched) + 1])
    <3>1. /\ Clean' = Clean /\ dispatched' = dispatched
          /\ Buffer' = data'
          /\ Unhandled' = Bytes(Start[Len(dispatched) + 1], (received + n) - Start[Len(dispatched) + 1])
      <4>1. UNCHANGED <<dispatched, stopped, reader, raised_at>> /\ received' = received + n /\ reading'
        BY <1>1 DEF loopVars, historyVars
      <4>2. Clean' = Clean
        BY <4>1 DEF Clean
      <4>3. Buffer' = data'
        BY <4>1 DEF Buffer
      <4>4. Unhandled' = Bytes(Start[Len(dispatched) + 1], (received + n) - Start[Len(dispatched) + 1])
        <5>1. Unhandled' = Bytes(Start[Len(dispatched') + 1], received' - Start[Len(dispatched') + 1])
          BY DEF Unhandled, Bytes
        <5>2. dispatched' = dispatched /\ received' = received + n
          BY <4>1
        <5>3. Unhandled' = Bytes(Start[Len(dispatched) + 1], received' - Start[Len(dispatched) + 1])
          BY <5>1, <5>2, Zenon
        <5> QED
          BY <5>2, <5>3, Zenon
      <4> HIDE DEF Clean, Buffer, Unhandled, Bytes
      <4> QED
        BY <4>1, <4>2, <4>3, <4>4
    <3> QED
      BY <1>1, <3>1 DEF Framed
  <2> DEFINE p == Start[Len(dispatched) + 1]
  <2>1. Len(dispatched) <= NumMsgs /\ p <= received /\ leftover = Bytes(p, received - p)
    BY <1>1 DEF ReadInv, Framed, Buffer, Unhandled
  <2>2. p \in Nat /\ received - p \in Nat
    BY <1>2, <2>1, Types, Layout
  <2> HIDE DEF p
  <2>3. p + (received - p) = received /\ (received - p) + n = (received + n) - p
    BY <1>1, <1>2, <2>2
  <2>4. Bytes(p, received - p) \o Bytes(p + (received - p), n) = Bytes(p, (received - p) + n)
    BY <1>1, <2>2, BytesMore
  <2>5. data' = Bytes(p, (received + n) - p)
    BY <1>1, <2>1, <2>3, <2>4 DEF t
  <2> QED
    BY <1>1, <1>2, <2>1, <2>2, <2>5 DEF p
<1>8. BytesInOrder'
  <2>1. \A i \in 1..Len(leftover) : leftover[i] < received + n /\ leftover[i] + 1 < received + n
    BY <1>1, <1>2
  <2> QED
    BY <1>1, <1>2, <1>3, <2>1 DEF BytesInOrder
<1>9. NeverAgain'
  <2>1. ASSUME NEW m \in 1..NumMsgs, Begins(t, m) PROVE New(m)
    <3>1. Start[m] \in Nat /\ Size(m) \in Nat /\ Size(m) >= 8 /\ m \in 1..(NumMsgs + 1)
      BY Layout
    <3>2. CASE leftover = <<>>
      <4>1. Start[m] = received
        <5>1. Len(s) = 0
          BY <3>2
        <5>2. t[1] = received
          BY <1>1, <1>2, <1>3, <5>1
        <5>3. 1 \in 1..Len(t) /\ 1 <= Size(m)
          BY <1>1, <1>3, <3>1, <5>1
        <5>4. t[1] = Start[m] + 1 - 1
          BY <2>1, <5>3 DEF Begins
        <5> QED
          BY <3>1, <5>2, <5>4
      <4>2. ASSUME NEW k \in 1..Len(dispatched) PROVE dispatched[k] < m
        <5>1. /\ dispatched[k] \in 1..NumMsgs /\ dispatched[k] + 1 \in 1..(NumMsgs + 1)
              /\ Start[dispatched[k] + 1] <= received
          BY HandledAre
        <5>2. Start[dispatched[k] + 1] <= Start[m]
          BY <4>1, <5>1
        <5>3. dispatched[k] + 1 <= m
          BY <3>1, <5>1, <5>2, Layout
        <5> QED
          BY <5>1, <5>3
      <4> QED
        BY <4>2 DEF New
    <3>3. CASE leftover # <<>>
      <4>1. Len(s) >= 1
        BY <1>2, <3>3, EmptySeq
      <4>2. Begins(leftover, m)
        <5>1. \A i \in 1..Len(s) : i \in 1..Len(t)
          BY <1>1, <1>2, <1>3
        <5> QED
          BY <1>3, <2>1, <3>3, <5>1 DEF Begins
      <4>3. Len(s) < Size(m)
        BY <4>2 DEF ReadInv, NeverAgain
      <4>4. /\ t[Len(s) + 1] = received /\ t[Len(s) + 1] = Start[m] + Len(s)
            /\ s[Len(s)] = Start[m] + Len(s) - 1
        <5>1. /\ Len(s) + 1 \in 1..Len(t) /\ Len(s) + 1 <= Size(m)
              /\ Len(s) \in 1..Len(s) /\ Len(s) <= Size(m) /\ 1 \in 1..n
          <6>1. n \in Nat /\ n >= 1 /\ Len(s) \in Nat /\ Len(t) = Len(s) + n /\ Size(m) \in Nat
            BY <1>1, <1>2, <1>3, <3>1
          <6> QED
            BY <4>1, <4>3, <6>1
        <5>2. t[Len(s) + 1] = Start[m] + (Len(s) + 1) - 1
          BY <2>1, <5>1 DEF Begins
        <5>3. t[Len(s) + 1] = received + 1 - 1
          BY <1>3, <5>1
        <5>4. s[Len(s)] = Start[m] + Len(s) - 1
          BY <4>2, <5>1 DEF Begins
        <5> QED
          BY <1>2, <3>1, <5>2, <5>3, <5>4
      <4>5. leftover[Len(leftover)] + 1 = received
        BY <1>2, <3>1, <4>4
      <4> QED
        BY <4>2, <4>5 DEF ReadInv, NeverAgain
    <3> QED
      BY <3>2, <3>3
  <2>2. ASSUME NEW m \in 1..NumMsgs, Begins(leftover, m)
        PROVE  Len(leftover) < Size(m) /\ leftover[Len(leftover)] + 1 # received + n
    <3>1. Len(leftover) \in 1..Len(leftover)
      BY <1>2, <2>2, EmptySeq DEF Begins
    <3>2. leftover[Len(leftover)] < received /\ leftover[Len(leftover)] \in Nat
      BY <1>2, <3>1
    <3> QED
      BY <1>1, <1>2, <2>2, <3>2 DEF ReadInv, NeverAgain
  <2>3. \A k \in 1..Len(dispatched) : Start[dispatched[k] + 1] <= received + n
    <3> TAKE k \in 1..Len(dispatched)
    <3>1. Start[dispatched[k] + 1] \in Nat /\ Start[dispatched[k] + 1] <= received
      BY HandledAre
    <3> QED
      BY <1>1, <1>2, <3>1
  <2> QED
    BY <1>1, <2>1, <2>2, <2>3 DEF ReadInv, NeverAgain, New, historyVars
<1> QED
  BY <1>4, <1>5, <1>6, <1>7, <1>8, <1>9 DEF ReadInv

-----------------------------------------------------------------------------
LEMMA CarriersAre ==
    /\ Len(Carriers) \in Nat
    /\ \A k \in 1..Len(Carriers) : Carriers[k] \in 1..NumMsgs /\ Carriers[k] \in Nat
    /\ \A j, k \in 1..Len(Carriers) : j < k <=> Carriers[j] < Carriers[k]
<1>1. /\ Len(Carriers) \in Nat
      /\ \A k \in 1..Len(Carriers) : Carriers[k] \in 1..NumMsgs
      /\ \A j, k \in 1..Len(Carriers) : j < k => Carriers[j] < Carriers[k]
  BY FdAssumption, LenProperties, ElementOfSeq
<1>2. ASSUME NEW j \in 1..Len(Carriers), NEW k \in 1..Len(Carriers), Carriers[j] < Carriers[k]
      PROVE  j < k
  <2>1. CASE k = j
    BY <1>1, <1>2, <2>1
  <2>2. CASE k < j
    <3>1. Carriers[k] < Carriers[j]
      BY <1>1, <2>2
    <3> QED
      BY <1>1, <1>2, <3>1
  <2> QED
    BY <1>1, <2>1, <2>2
<1> QED
  BY <1>1, <1>2

\* The message cut from the data is a new one, all of it has been received, and
\* until a handler raises it is the next one.  Its descriptor is there.
LEMMA NextMessage ==
    ASSUME ReadInv, NEW m \in 1..NumMsgs, Complete(m), Intact(m)
    PROVE  /\ reading /\ reader /\ ~stopped
           /\ New(m)
           /\ Start[m + 1] <= received
           /\ raised_at = 0 => m = Len(dispatched) + 1
           /\ \A c \in 1..Len(Carriers) :
                Carriers[c] = m => Taken < c /\ c <= FdsBefore(received)
<1>1. reading /\ reader /\ ~stopped
  BY DEF ReadInv, Orderly, Complete
<1>2. /\ Size(m) \in 8..Len(data)
      /\ \A i \in 1..Size(m) : data[i] = Start[m] + i - 1
      /\ Begins(data, m)
  BY FrontIs, Types
<1>3. New(m)
  BY <1>2 DEF ReadInv, NeverAgain
<1>4. /\ Start[m] \in Nat /\ Size(m) \in Nat /\ Size(m) >= 8 /\ Start[m] + Size(m) = Start[m + 1]
      /\ m \in 1..(NumMsgs + 1) /\ NumMsgs \in Nat
  BY Layout
<1>5. Len(data) \in Nat /\ received \in Nat /\ Len(dispatched) \in Nat
  BY Types
<1>6. Start[m + 1] <= received
  <2>1. Size(m) \in 1..Size(m) /\ Size(m) \in 1..Len(data)
    BY <1>2, <1>4, <1>5
  <2>2. data[Size(m)] < received /\ data[Size(m)] = Start[m] + Size(m) - 1
    BY <1>2, <2>1 DEF ReadInv, BytesInOrder
  <2> QED
    BY <1>4, <1>5, <2>2
<1>7. ASSUME raised_at = 0 PROVE m = Len(dispatched) + 1
  <2> DEFINE p == Start[Len(dispatched) + 1]
  <2>1. Len(dispatched) <= NumMsgs /\ p <= received /\ data = Bytes(p, received - p)
    BY <1>1, <1>7 DEF ReadInv, Framed, Clean, Buffer, Unhandled
  <2>2. Len(dispatched) + 1 \in 1..(NumMsgs + 1) /\ p \in Nat
    BY <1>4, <1>5, <2>1, Layout
  <2>3. received - p \in Nat
    BY <1>5, <2>1, <2>2
  <2> HIDE DEF p
  <2>4. /\ Len(Bytes(p, received - p)) = received - p
        /\ \A i \in 1..(received - p) : Bytes(p, received - p)[i] = p + i - 1
    BY <2>2, <2>3, BytesRun
  <2>5. 1 \in 1..(received - p) /\ 1 \in 1..Size(m)
    BY <1>2, <1>4, <1>5, <2>1, <2>3, <2>4
  <2>6. data[1] = p + 1 - 1 /\ data[1] = Start[m] + 1 - 1
    BY <1>2, <2>1, <2>4, <2>5
  <2>7. p = Start[m]
    BY <1>4, <2>2, <2>6
  <2>8. Start[Len(dispatched) + 1] <= Start[m] /\ Start[m] <= Start[Len(dispatched) + 1]
    BY <1>4, <2>7 DEF p
  <2>9. Len(dispatched) + 1 <= m /\ m <= Len(dispatched) + 1
    BY <1>4, <2>2, <2>8, Layout
  <2> QED
    BY <1>4, <1>5, <2>9
<1>8. ASSUME NEW c \in 1..Len(Carriers), Carriers[c] = m
      PROVE  Taken < c /\ c <= FdsBefore(received)
  <2>1. Taken < c
    BY <1>3, <1>8 DEF ReadInv, FdsInOrder
  <2>2. fd_at \in FdPaths
    BY DEF ReadInv, TypeOK
  <2>3. fd_at[c] <= Start[m] /\ fd_at[c] \in Nat
    BY <1>8, <2>2, FdAssumption
  <2>4. fd_at[c] < received
    <3>1. Start[m] < received
      BY <1>4, <1>5, <1>6
    <3> QED
      BY <1>4, <1>5, <2>3, <3>1
  <2> QED
    BY <1>5, <2>1, <2>2, <2>4, FdsBeforeIs
<1> QED
  BY <1>1, <1>3, <1>6, <1>7, <1>8

\* A message handled is added at the end of the history.
LEMMA AddMessage ==
    ASSUME ReadInv, NEW m \in 1..NumMsgs, Complete(m), Intact(m),
           dispatched' = Append(dispatched, m), received' = received,
           raised_at' \in {raised_at, IF raised_at = 0 THEN Len(dispatched) + 1 ELSE raised_at}
    PROVE  /\ dispatched' \in Seq(1..NumMsgs) /\ raised_at' \in 0..Len(dispatched')
           /\ Len(dispatched') = Len(dispatched) + 1
           /\ \A x \in Nat : New(x)' <=> New(x) /\ m < x
           /\ Increasing(dispatched)'
           /\ \A k \in 1..Len(dispatched') : Start[dispatched'[k] + 1] <= received'
           /\ UntilRaise' = IF raised_at = 0 THEN dispatched' ELSE UntilRaise
           /\ InOrder'
<1> DEFINE D == Len(dispatched)
           d == Append(dispatched, m)
<1>1. /\ dispatched \in Seq(1..NumMsgs) /\ D \in Nat /\ raised_at \in 0..D
      /\ NumMsgs \in Nat /\ received \in Nat
  BY Types, Layout
<1>2. /\ d \in Seq(1..NumMsgs) /\ Len(d) = D + 1 /\ d[D + 1] = m
      /\ \A k \in 1..D : d[k] = dispatched[k]
  BY <1>1, AppendProperties
<1>3. /\ New(m) /\ Start[m + 1] <= received
      /\ raised_at = 0 => m = D + 1
  BY NextMessage
<1>4. dispatched' = d
  OBVIOUS
<1> HIDE DEF d
<1>5. dispatched' \in Seq(1..NumMsgs) /\ raised_at' \in 0..Len(dispatched') /\ Len(dispatched') = D + 1
  BY <1>1, <1>2, <1>4
<1>6. \A k \in 1..(D + 1) : k \in 1..D \/ k = D + 1
  BY <1>1
<1>7. ASSUME NEW x \in Nat PROVE New(x)' <=> New(x) /\ m < x
  <2>1. New(x)' <=> \A k \in 1..(D + 1) : d[k] < x
    BY <1>2, <1>4 DEF New
  <2>2. D + 1 \in 1..(D + 1) /\ \A k \in 1..D : k \in 1..(D + 1)
    BY <1>1
  <2> QED
    BY <1>2, <1>6, <2>1, <2>2 DEF New
<1>8. Increasing(dispatched)'
  <2> SUFFICES ASSUME NEW j \in 1..(D + 1), NEW k \in 1..(D + 1), j < k PROVE d[j] < d[k]
    BY <1>2, <1>4 DEF Increasing
  <2>1. j \in 1..D
    BY <1>1
  <2>2. CASE k \in 1..D
    BY <1>2, <2>1, <2>2 DEF ReadInv, NeverAgain, Increasing
  <2>3. CASE k = D + 1
    BY <1>2, <1>3, <2>1, <2>3 DEF New
  <2> QED
    BY <1>6, <2>2, <2>3
<1>9. \A k \in 1..(D + 1) : Start[d[k] + 1] <= received
  <2> TAKE k \in 1..(D + 1)
  <2>1. CASE k \in 1..D
    BY <1>2, <2>1, HandledAre
  <2>2. CASE k = D + 1
    BY <1>2, <1>3, <2>2
  <2> QED
    BY <1>6, <2>1, <2>2
<1>10. UntilRaise' = IF raised_at = 0 THEN dispatched' ELSE UntilRaise
  <2>1. CASE raised_at = 0 /\ raised_at' = 0
    BY <2>1 DEF UntilRaise
  <2>2. CASE raised_at = 0 /\ raised_at' = D + 1
    <3>1. SubSeq(d, 1, D + 1) = d
      BY <1>1, <1>2, SubSeqFull
    <3>2. raised_at' # 0
      BY <1>1, <2>2
    <3> QED
      BY <1>4, <2>2, <3>1, <3>2 DEF UntilRaise
  <2>3. CASE raised_at # 0
    <3>1. raised_at' = raised_at
      BY <2>3
    <3>2. SubSeq(d, 1, raised_at) = SubSeq(dispatched, 1, raised_at)
      <4>1. raised_at \in 1..D /\ \A i \in 1..raised_at : i \in 1..D
        BY <1>1, <2>3
      <4>2. \A i \in 1..raised_at : d[i] = dispatched[i]
        BY <1>2, <4>1
      <4>3. SubSeq(d, 1, raised_at) = [i \in 1..raised_at |-> d[i]]
        BY <1>2, <4>1
      <4>4. SubSeq(dispatched, 1, raised_at) = [i \in 1..raised_at |-> dispatched[i]]
        BY <1>1, <4>1
      <4> QED
        BY <4>2, <4>3, <4>4
    <3> QED
      BY <1>4, <2>3, <3>1, <3>2 DEF UntilRaise
  <2> QED
    BY <2>1, <2>2, <2>3
<1>11. InOrder'
  <2>1. CASE raised_at = 0
    <3>1. ASSUME NEW k \in 1..(D + 1) PROVE d[k] = k
      <4>1. CASE k \in 1..D
        BY <1>2, <2>1, <4>1 DEF ReadInv, InOrder, UntilRaise
      <4>2. CASE k = D + 1
        BY <1>2, <1>3, <2>1, <4>2
      <4> QED
        BY <1>6, <4>1, <4>2
    <3>2. UntilRaise' = d
      BY <1>4, <1>10, <2>1
    <3> QED
      BY <1>2, <3>1, <3>2 DEF InOrder
  <2>2. CASE raised_at # 0
    BY <1>10, <2>2 DEF ReadInv, InOrder
  <2> QED
    BY <2>1, <2>2
<1> QED
  BY <1>2, <1>4, <1>5, <1>7, <1>8, <1>9, <1>10, <1>11

\* The handler of a message that carries a descriptor finds one at the head of
\* _incoming_fds, and until a handler raises it is its own.
LEMMA FdTaken ==
    ASSUME ReadInv, NEW m \in 1..NumMsgs, Complete(m), Intact(m), PopFd(m),
           dispatched' = Append(dispatched, m), received' = received, fd_at' = fd_at,
           raised_at' \in {raised_at, IF raised_at = 0 THEN Len(dispatched) + 1 ELSE raised_at}
    PROVE  /\ FdsInOrder'
           /\ incoming_fds' \in Seq(FdMsgs) /\ fds_taken' \in Seq(FdMsgs \X FdMsgs)
<1> DEFINE N == Len(Carriers)
           F == FdsBefore(received)
           D == Len(dispatched)
<1>1. /\ N \in Nat /\ F \in 0..N /\ Taken \in Nat /\ D \in Nat
      /\ fds_taken \in Seq(FdMsgs \X FdMsgs) /\ incoming_fds \in Seq(FdMsgs)
  BY Types DEF ReadInv, TypeOK
<1>2. /\ Taken <= F /\ incoming_fds = SubSeq(Carriers, Taken + 1, F)
      /\ \A k \in 1..N : New(Carriers[k]) => Taken < k
      /\ raised_at = 0 =>
           /\ \A k \in 1..N : k <= Taken <=> Carriers[k] <= D
           /\ \A k \in 1..Taken : fds_taken[k][1] = fds_taken[k][2]
  BY DEF ReadInv, FdsInOrder
<1>3. F' = F
  BY DEF FdsBefore
<1> HIDE DEF F
<1>4. /\ raised_at = 0 => m = D + 1
      /\ \A c \in 1..N : Carriers[c] = m => Taken < c /\ c <= F
  BY NextMessage DEF F
<1>5. /\ Len(dispatched') = D + 1
      /\ \A k \in 1..N : New(Carriers[k])' <=> New(Carriers[k]) /\ m < Carriers[k]
  BY AddMessage, CarriersAre
<1>6. raised_at' = 0 => raised_at = 0
  BY <1>1
<1>7. CASE m \notin FdMsgs
  <2>1. UNCHANGED <<incoming_fds, fds_taken>> /\ Taken' = Taken
    BY <1>7 DEF PopFd, Taken
  <2>2. \A k \in 1..N : New(Carriers[k])' => Taken < k
    BY <1>2, <1>5
  <2>3. ASSUME raised_at' = 0, NEW k \in 1..N PROVE k <= Taken <=> Carriers[k] <= D + 1
    <3>1. Carriers[k] \in Nat /\ Carriers[k] # D + 1
      BY <1>4, <1>6, <1>7, <2>3, CarriersAre, Types
    <3>2. k <= Taken <=> Carriers[k] <= D
      BY <1>2, <1>6, <2>3
    <3> QED
      BY <1>1, <3>1, <3>2
  <2> QED
    BY <1>1, <1>2, <1>3, <1>5, <1>6, <2>1, <2>2, <2>3 DEF FdsInOrder, F
<1>8. CASE m \in FdMsgs
  <2>1. PICK c \in 1..N : Carriers[c] = m
    BY <1>8 DEF FdMsgs
  <2>2. Taken < c /\ c <= F
    BY <1>4, <2>1
  <2>3. Taken + 1 \in 1..N /\ F \in (Taken + 1)..N
    BY <1>1, <2>2
  <2>4. /\ incoming_fds # <<>>
        /\ Head(incoming_fds) = Carriers[Taken + 1]
        /\ Tail(incoming_fds) = SubSeq(Carriers, Taken + 2, F)
    <3>1. Carriers \in Seq(1..NumMsgs) /\ \A i \in (Taken + 1)..F : Carriers[i] \in 1..NumMsgs
      BY <1>1, <2>3, Types, CarriersAre
    <3>2. Len(incoming_fds) = F - (Taken + 1) + 1
      BY <1>1, <1>2, <2>3, <3>1, SubSeqProperties
    <3>3. Len(incoming_fds) # 0
      BY <1>1, <2>3, <3>2
    <3>4. incoming_fds # <<>>
      BY <3>3
    <3>5. (Taken + 1) + 1 = Taken + 2
      BY <1>1
    <3> QED
      BY <1>2, <2>3, <3>1, <3>4, <3>5, HeadTailOfSubSeq
  <2>5. /\ incoming_fds' = SubSeq(Carriers, Taken + 2, F)
        /\ fds_taken' = Append(fds_taken, <<m, Carriers[Taken + 1]>>)
    BY <1>8, <2>4 DEF PopFd
  <2>6. Tail(incoming_fds) \in Seq(FdMsgs) /\ Carriers[Taken + 1] \in FdMsgs
    BY <1>1, <2>3, <2>4, Types, HeadTailProperties
  <2>7. /\ fds_taken' \in Seq(FdMsgs \X FdMsgs) /\ Taken' = Taken + 1
        /\ fds_taken'[Taken + 1] = <<m, Carriers[Taken + 1]>>
        /\ \A k \in 1..Taken : fds_taken'[k] = fds_taken[k]
    <3>1. <<m, Carriers[Taken + 1]>> \in FdMsgs \X FdMsgs
      BY <1>8, <2>6
    <3> QED
      BY <1>1, <2>5, <3>1, AppendProperties DEF Taken
  <2>8. ASSUME NEW k \in 1..N, New(Carriers[k])' PROVE Taken + 1 < k
    <3>1. Carriers[c] < Carriers[k]
      BY <1>5, <2>1, <2>8
    <3>2. c < k
      BY <3>1, CarriersAre
    <3> QED
      BY <1>1, <2>2, <3>2
  <2>9. ASSUME raised_at = 0
        PROVE  /\ c = Taken + 1
               /\ \A k \in 1..N : k <= Taken + 1 <=> Carriers[k] <= D + 1
    <3>1. c = Taken + 1
      <4>1. CASE c = 1
        BY <1>1, <2>2, <4>1
      <4>2. CASE c # 1
        <5>1. c - 1 \in 1..N /\ c - 1 < c
          BY <1>1, <4>2
        <5>2. Carriers[c - 1] < D + 1 /\ Carriers[c - 1] \in Nat
          BY <1>4, <2>1, <2>9, <5>1, CarriersAre
        <5>3. c - 1 <= Taken
          BY <1>1, <1>2, <2>9, <5>1, <5>2
        <5> QED
          BY <1>1, <2>2, <5>3
      <4> QED
        BY <4>1, <4>2
    <3>2. ASSUME NEW k \in 1..N PROVE k <= c <=> Carriers[k] <= D + 1
      <4>1. Carriers[c] = D + 1 /\ Carriers[k] \in Nat
        BY <1>4, <2>1, <2>9, CarriersAre
      <4>2. c < k <=> Carriers[c] < Carriers[k]
        BY CarriersAre
      <4> QED
        BY <1>1, <4>1, <4>2
    <3> QED
      BY <3>1, <3>2
  <2>10. ASSUME raised_at' = 0, NEW k \in 1..(Taken + 1) PROVE fds_taken'[k][1] = fds_taken'[k][2]
    <3>1. CASE k = Taken + 1
      BY <1>6, <2>1, <2>7, <2>9, <2>10, <3>1
    <3>2. CASE k \in 1..Taken
      BY <1>2, <1>6, <2>7, <2>10, <3>2
    <3> QED
      BY <1>1, <3>1, <3>2
  <2>11. FdsInOrder'
    <3>1. Taken' <= F /\ Taken' + 1 = Taken + 2
      BY <1>1, <2>2, <2>7
    <3> QED
      BY <1>3, <1>5, <1>6, <2>5, <2>7, <2>8, <2>9, <2>10, <3>1 DEF FdsInOrder, F
  <2> QED
    BY <2>4, <2>5, <2>6, <2>7, <2>11
<1> QED
  BY <1>7, <1>8

\* While do_read is called, what _leftover held before does not go on where the
\* socket does.
LEMMA KeptBefore ==
    ASSUME ReadInv, reading, NEW m \in 1..NumMsgs, Begins(leftover, m)
    PROVE  Len(leftover) < Size(m) /\ leftover[Len(leftover)] + 1 # received
<1>1. leftover \in Seq(Nat) /\ Len(leftover) \in Nat /\ leftover # <<>> /\ received \in Nat
  BY Types DEF Begins
<1>2. Len(leftover) \in 1..Len(leftover)
  BY <1>1, EmptySeq
<1>3. leftover[Len(leftover)] + 1 < received /\ leftover[Len(leftover)] \in Nat
  BY <1>2, Types DEF ReadInv, BytesInOrder
<1> QED
  BY <1>1, <1>3 DEF ReadInv, NeverAgain

\* A message is taken off the data: what follows it is a later message.
LEMMA InvHandle ==
    ASSUME ReadInv, NEW m \in 1..NumMsgs, HandleMessage(m)
    PROVE  ReadInv'
<1> DEFINE k == Size(m)
           t == SubSeq(data, k + 1, Len(data))
<1>1. /\ Complete(m) /\ Intact(m) /\ PopFd(m)
      /\ data' = t /\ dispatched' = Append(dispatched, m)
      /\ UNCHANGED <<written, eof, fd_at, survives, received, leftover, reading, reader, stopped,
                     disconnected, raised_at, misframed>>
  BY DEF HandleMessage, serverVars, loopVars
<1>2. /\ k \in 8..Len(data) /\ k \in 0..Len(data)
      /\ \A i \in 1..k : data[i] = Start[m] + i - 1
  BY <1>1, FrontIs, Types
<1>3. /\ data \in Seq(Nat) /\ Len(data) \in Nat /\ received \in Nat /\ Len(dispatched) \in Nat
      /\ Increasing(data) /\ \A i \in 1..Len(data) : data[i] < received
      /\ \A i \in 1..Len(data) : data[i] \in Nat
  BY Types DEF ReadInv, BytesInOrder
<1>4. /\ Start[m] \in Nat /\ k \in Nat /\ k >= 8 /\ Start[m] + k = Start[m + 1]
      /\ m \in 1..(NumMsgs + 1) /\ m + 1 \in 1..(NumMsgs + 1) /\ Start[m + 1] \in Nat
  <2>1. m \in 1..(NumMsgs + 1) /\ m + 1 \in 1..(NumMsgs + 1)
    BY Layout
  <2> QED
    BY <2>1, Layout
<1> HIDE DEF k
<1>5. /\ t \in Seq(Nat) /\ Len(t) = Len(data) - k
      /\ \A i \in 1..Len(t) : t[i] = data[k + i]
      /\ Increasing(t) /\ \A i \in 1..Len(t) : t[i] < received
  BY <1>2, <1>3, CutBytes
<1> HIDE DEF t
<1>6. /\ reading /\ reader /\ ~stopped
      /\ New(m) /\ (raised_at = 0 => m = Len(dispatched) + 1)
  BY <1>1, NextMessage
<1>7. /\ dispatched' \in Seq(1..NumMsgs) /\ raised_at' \in 0..Len(dispatched')
      /\ Len(dispatched') = Len(dispatched) + 1
      /\ \A x \in Nat : New(x)' <=> New(x) /\ m < x
      /\ Increasing(dispatched)'
      /\ \A j \in 1..Len(dispatched') : Start[dispatched'[j] + 1] <= received'
      /\ InOrder'
  BY <1>1, AddMessage
<1>8. FdsInOrder' /\ incoming_fds' \in Seq(FdMsgs) /\ fds_taken' \in Seq(FdMsgs \X FdMsgs)
  BY <1>1, FdTaken
<1>9. TypeOK'
  BY <1>1, <1>5, <1>7, <1>8 DEF ReadInv, TypeOK
<1>10. Orderly' /\ (misframed => raised_at # 0)'
  BY <1>1, <1>6 DEF ReadInv, Orderly
<1>11. Framed'
  <2> SUFFICES ASSUME Clean
               PROVE  /\ m <= NumMsgs /\ Start[m + 1] <= received
                      /\ t = Bytes(Start[m + 1], received - Start[m + 1])
    <3>1. Clean' = Clean
      BY <1>1 DEF Clean
    <3>2. Buffer' = t
      BY <1>1, <1>6 DEF Buffer
    <3>3. Unhandled' = Bytes(Start[Len(dispatched') + 1], received' - Start[Len(dispatched') + 1])
      BY DEF Unhandled, Bytes
    <3>4. Clean => Len(dispatched') = m
      BY <1>3, <1>6, <1>7 DEF Clean
    <3>5. Unhandled' = Bytes(Start[Len(dispatched') + 1], received - Start[Len(dispatched') + 1])
      BY <1>1, <3>3, Zenon
    <3> HIDE DEF Clean, Bytes, Unhandled, Buffer
    <3> QED
      BY <1>1, <3>1, <3>2, <3>4, <3>5 DEF Framed
  <2>1. m = Len(dispatched) + 1 /\ data = Bytes(Start[m], received - Start[m]) /\ Start[m] <= received
    BY <1>6 DEF ReadInv, Framed, Clean, Buffer, Unhandled
  <2>2. received - Start[m] \in Nat
    BY <1>3, <1>4, <2>1
  <2>3. /\ Len(data) = received - Start[m]
        /\ \A i \in 1..Len(data) : data[i] = Start[m] + i - 1
    <3>1. /\ Len(Bytes(Start[m], received - Start[m])) = received - Start[m]
          /\ \A i \in 1..(received - Start[m]) : Bytes(Start[m], received - Start[m])[i] = Start[m] + i - 1
      BY <1>4, <2>2, BytesRun
    <3> QED
      BY <2>1, <3>1, Zenon
  <2>4. Len(t) = received - Start[m + 1] /\ Start[m + 1] <= received /\ received - Start[m + 1] \in Nat
    <3>1. /\ k \in Nat /\ k <= Len(data) /\ Len(data) = received - Start[m] /\ received \in Nat
          /\ Start[m] \in Nat /\ Start[m + 1] \in Nat /\ Start[m] + k = Start[m + 1] /\ Len(t) = Len(data) - k
      BY <1>2, <1>3, <1>4, <1>5, <2>3
    <3> QED
      BY <3>1
  <2>5. ASSUME NEW i \in 1..Len(t) PROVE t[i] = Start[m + 1] + i - 1
    <3>1. k + i \in 1..Len(data)
      BY <1>2, <1>3, <1>4, <1>5
    <3>2. t[i] = data[k + i] /\ data[k + i] = Start[m] + (k + i) - 1
      BY <1>5, <2>3, <3>1
    <3> QED
      BY <1>4, <3>2
  <2>6. t = Bytes(Start[m + 1], received - Start[m + 1])
    BY <1>4, <1>5, <2>4, <2>5, BytesEqual
  <2>7. m <= NumMsgs
    BY Layout
  <2> QED
    BY <2>4, <2>6, <2>7
<1>12. BytesInOrder'
  BY <1>1, <1>5 DEF ReadInv, BytesInOrder
<1>13. NeverAgain'
  <2>1. ASSUME NEW n \in 1..NumMsgs, Begins(t, n) PROVE New(n)'
    <3>1. Start[n] \in Nat /\ Size(n) \in Nat /\ Size(n) >= 8 /\ n \in 1..(NumMsgs + 1) /\ n \in Nat
      BY Layout
    <3>2. Len(t) >= 1 /\ 1 \in 1..Len(t) /\ 1 <= Size(n)
      <4>1. Len(t) # 0 /\ Len(t) \in Nat
        BY <1>5, <2>1, EmptySeq, LenProperties DEF Begins
      <4> QED
        BY <3>1, <4>1
    <3>3. t[1] = Start[n] + 1 - 1
      BY <2>1, <3>2 DEF Begins
    <3>4. t[1] = data[k + 1]
      BY <1>5, <3>2
    <3>5. /\ k \in 1..Len(data) /\ k + 1 \in 1..Len(data) /\ k < k + 1 /\ k \in 1..k
      BY <1>2, <1>3, <1>4, <1>5, <3>2
    <3>6. data[k] < data[k + 1] /\ data[k] = Start[m] + k - 1
      BY <1>2, <1>3, <3>5 DEF Increasing
    <3>7. Start[m + 1] <= Start[n]
      BY <1>4, <3>1, <3>3, <3>4, <3>6
    <3>8. m + 1 <= n
      BY <1>4, <3>1, <3>7, Layout
    <3>9. m < n
      BY <3>1, <3>8
    <3>10. New(n)
      BY <1>3, <1>6, <3>1, <3>9, Types DEF New
    <3> QED
      BY <1>7, <3>1, <3>9, <3>10
  <2>2. ASSUME NEW n \in 1..NumMsgs, Begins(leftover, n)
        PROVE  Len(leftover) < Size(n) /\ leftover[Len(leftover)] + 1 # received
    BY <1>6, <2>2, KeptBefore
  <2> QED
    BY <1>1, <1>7, <2>1, <2>2 DEF NeverAgain
<1> QED
  BY <1>8, <1>9, <1>10, <1>11, <1>12, <1>13, <1>7 DEF ReadInv

\* A handler that raises or shuts the connection down leaves do_read.
LEMMA InvHandlerLeaves ==
    ASSUME ReadInv, NEW m \in 1..NumMsgs, RaiseInMessage(m) \/ ShutdownInMessage(m)
    PROVE  ReadInv'
<1>1. /\ Complete(m) /\ Intact(m) /\ PopFd(m)
      /\ data' = <<>> /\ reading' = FALSE /\ stopped' = ~survives
      /\ dispatched' = Append(dispatched, m)
      /\ UNCHANGED <<written, eof, fd_at, survives, received, leftover, misframed>>
      /\ {reader', disconnected'} \subseteq {reader, disconnected, TRUE, FALSE}
      /\ raised_at' \in {raised_at, IF raised_at = 0 THEN Len(dispatched) + 1 ELSE raised_at}
      /\ raised_at' # 0 \/ (reader' = FALSE /\ raised_at' = raised_at)
  <2>1. Len(dispatched) + 1 # 0
    BY Types
  <2>2. CASE RaiseInMessage(m)
    BY <2>1, <2>2 DEF RaiseInMessage, LeaveDoRead, serverVars
  <2>3. CASE ShutdownInMessage(m)
    BY <2>3 DEF ShutdownInMessage, LeaveDoRead, serverVars, PopFd
  <2> QED
    BY <2>2, <2>3
<1>2. /\ reading /\ reader /\ ~stopped
  BY <1>1, NextMessage
<1>3. /\ dispatched' \in Seq(1..NumMsgs) /\ raised_at' \in 0..Len(dispatched')
      /\ Increasing(dispatched)'
      /\ \A j \in 1..Len(dispatched') : Start[dispatched'[j] + 1] <= received'
      /\ InOrder'
  BY <1>1, AddMessage
<1>4. FdsInOrder' /\ incoming_fds' \in Seq(FdMsgs) /\ fds_taken' \in Seq(FdMsgs \X FdMsgs)
  BY <1>1, FdTaken
<1>5. TypeOK'
  <2>1. {survives, reading, reader, stopped, disconnected, misframed}' \subseteq BOOLEAN
    BY <1>1 DEF ReadInv, TypeOK
  <2>2. <<>> \in Seq(Nat)
    BY EmptySeq
  <2> QED
    BY <1>1, <1>3, <1>4, <2>1, <2>2 DEF ReadInv, TypeOK
<1>6. Orderly' /\ (misframed => raised_at # 0)'
  BY <1>1, <1>2 DEF ReadInv, Orderly
<1>7. Framed'
  BY <1>1 DEF Framed, Clean
<1>8. BytesInOrder'
  BY <1>1, EmptySeq DEF ReadInv, BytesInOrder, Increasing
<1>9. NeverAgain'
  <2>1. ASSUME NEW n \in 1..NumMsgs, Begins(leftover, n)
        PROVE  Len(leftover) < Size(n) /\ leftover[Len(leftover)] + 1 # received
    BY <1>2, <2>1, KeptBefore
  <2> QED
    BY <1>1, <1>3, <2>1 DEF NeverAgain, Begins
<1> QED
  BY <1>3, <1>4, <1>5, <1>6, <1>7, <1>8, <1>9 DEF ReadInv

\* The rest is less than a message, so that it is kept as the start of one.
LEMMA InvEndRead ==
    ASSUME ReadInv, EndRead
    PROVE  ReadInv'
<1>1. /\ reading /\ NoMessage(data) /\ leftover' = data /\ reading' = FALSE /\ data' = <<>>
      /\ UNCHANGED <<written, eof, fd_at, survives, received, incoming_fds, reader, stopped,
                     disconnected, dispatched, fds_taken, raised_at, misframed>>
  BY DEF EndRead, serverVars, loopVars, historyVars
<1>2. TypeOK'
  <2>1. <<>> \in Seq(Nat)
    BY EmptySeq
  <2> QED
    BY <1>1, <2>1 DEF ReadInv, TypeOK
<1>3. Orderly' /\ InOrder' /\ (misframed => raised_at # 0)'
  BY <1>1 DEF ReadInv, Orderly, InOrder, UntilRaise
<1>4. Framed' /\ BytesInOrder'
  BY <1>1, EmptySeq DEF ReadInv, Framed, Clean, Buffer, Unhandled, BytesInOrder, Increasing
<1>5. NeverAgain'
  <2>1. ASSUME NEW m \in 1..NumMsgs, Begins(data, m) PROVE Len(data) < Size(m) /\ New(m)
    <3>1. data \in Seq(Nat) /\ Len(data) \in Nat /\ Size(m) \in Nat /\ Size(m) >= 8
      BY Types, Layout
    <3>2. New(m)
      BY <2>1 DEF ReadInv, NeverAgain
    <3>3. CASE ~HasHeader(data)
      BY <3>1, <3>3, <3>2 DEF HasHeader, HeaderSize
    <3>4. CASE \E n \in 1..NumMsgs : IsHeaderOf(data, n) /\ Len(data) < Size(n)
      <4>1. PICK n \in 1..NumMsgs : IsHeaderOf(data, n) /\ Len(data) < Size(n)
        BY <3>4
      <4>2. Len(data) >= 8 /\ SubSeq(data, 1, 8) = Bytes(Start[n], 8)
        BY <4>1 DEF IsHeaderOf, HasHeader, HeaderSize
      <4>3. SubSeq(data, 1, 8)[1] = data[1]
        <5>1. 8 \in 0..Len(data) /\ 1 \in 1..8
          BY <3>1, <4>2
        <5> QED
          BY <3>1, <5>1, FirstOf
      <4>4. /\ Start[m] \in Nat /\ m \in 1..(NumMsgs + 1) /\ m \in Nat
            /\ Start[n] \in Nat /\ n \in 1..(NumMsgs + 1) /\ n \in Nat
        BY Layout
      <4>5. Bytes(Start[n], 8)[1] = Start[n] + 1 - 1
        <5>1. 8 \in Nat /\ 1 \in 1..8
          OBVIOUS
        <5> QED
          BY <4>4, <5>1, BytesRun
      <4>6. data[1] = Start[m] + 1 - 1
        <5>1. 1 \in 1..Len(data) /\ 1 <= Size(m)
          <6>1. Len(data) >= 8
            BY <4>2
          <6> QED
            BY <3>1, <6>1
        <5> QED
          BY <2>1, <5>1 DEF Begins
      <4>7. Start[m] = Start[n]
        <5>1. data[1] = Start[n] + 1 - 1
          BY <4>2, <4>3, <4>5
        <5> HIDE DEF Bytes
        <5> QED
          BY <4>4, <4>6, <5>1
      <4>8. m <= n /\ n <= m
        <5>1. Start[m] <= Start[n] /\ Start[n] <= Start[m]
          BY <4>4, <4>7
        <5> QED
          BY <4>4, <5>1, Layout
      <4>9. m = n
        BY <4>4, <4>8
      <4> QED
        BY <3>2, <4>1, <4>9
    <3> QED
      BY <1>1, <3>3, <3>4 DEF NoMessage
  <2> QED
    BY <1>1, <2>1 DEF ReadInv, NeverAgain, New, Begins
<1>6. FdsInOrder'
  BY <1>1 DEF ReadInv, FdsInOrder, Taken, New, FdsBefore
<1> QED
  BY <1>2, <1>3, <1>4, <1>5, <1>6 DEF ReadInv

LEMMA InvReceiveNothing ==
    ASSUME ReadInv, ReceiveNothing
    PROVE  ReadInv'
<1>1. /\ ~reading /\ ~stopped /\ reading' = FALSE /\ data' = <<>> /\ stopped' = ~survives /\ disconnected' = TRUE
      /\ UNCHANGED <<written, eof, fd_at, survives, received, incoming_fds, leftover, reader,
                     dispatched, fds_taken, raised_at, misframed>>
  BY DEF ReceiveNothing, LeaveDoRead, serverVars, historyVars
<1>2. data = <<>>
  BY <1>1 DEF ReadInv, Orderly
<1>3. TypeOK'
  <2>1. {survives, reading, reader, stopped, disconnected, misframed}' \subseteq BOOLEAN
    BY <1>1 DEF ReadInv, TypeOK
  <2> QED
    BY <1>1, <1>2, <2>1 DEF ReadInv, TypeOK
<1>4. Orderly' /\ InOrder' /\ (misframed => raised_at # 0)'
  BY <1>1 DEF ReadInv, Orderly, InOrder, UntilRaise
<1>5. Framed' /\ BytesInOrder'
  BY <1>1, <1>2 DEF ReadInv, Framed, Clean, Buffer, Unhandled, BytesInOrder
<1>6. NeverAgain'
  BY <1>1, <1>2 DEF ReadInv, NeverAgain, New
<1>7. FdsInOrder'
  BY <1>1 DEF ReadInv, FdsInOrder, Taken, New, FdsBefore
<1> QED
  BY <1>3, <1>4, <1>5, <1>6, <1>7 DEF ReadInv

\* Until a handler raises, a header is one and is followed by its message.
LEMMA MisreadAfterRaise ==
    ASSUME ReadInv, Misread
    PROVE  raised_at # 0
<1> SUFFICES ASSUME raised_at = 0 PROVE FALSE
  OBVIOUS
<1> DEFINE D == Len(dispatched)
           m == D + 1
           p == Start[m]
<1>1. reading /\ Len(data) >= 8 /\ \A n \in 1..NumMsgs : IsHeaderOf(data, n) => Complete(n) /\ ~Intact(n)
  BY DEF Misread, HasHeader, HeaderSize
<1>2. D <= NumMsgs /\ p <= received /\ data = Bytes(p, received - p)
  BY <1>1 DEF ReadInv, Orderly, Framed, Clean, Buffer, Unhandled
<1>3. D \in Nat /\ NumMsgs \in Nat /\ received \in Nat /\ received <= StreamEnd /\ StreamEnd \in Nat
      /\ data \in Seq(Nat) /\ Len(data) \in Nat
  BY Types, Layout
<1>4. m \in 1..(NumMsgs + 1) /\ p \in Nat
  BY <1>2, <1>3, Layout
<1>5. received - p \in Nat
  BY <1>2, <1>3, <1>4
<1> HIDE DEF p
<1>6. Len(data) = received - p /\ \A i \in 1..Len(data) : data[i] = p + i - 1
  BY <1>2, <1>4, <1>5, BytesRun
<1>7. m \in 1..NumMsgs
  <2>1. m # NumMsgs + 1
    BY <1>1, <1>3, <1>4, <1>6 DEF StreamEnd, p
  <2> QED
    BY <1>3, <1>4, <2>1
<1> HIDE DEF m
<1>8. ASSUME NEW n \in 0..Len(data) PROVE SubSeq(data, 1, n) = Bytes(p, n)
  <2> DEFINE u == SubSeq(data, 1, n)
  <2>1. u \in Seq(Nat) /\ Len(u) = n /\ \A i \in 1..n : u[i] = data[i]
    BY <1>3, FirstOf
  <2>2. n \in Nat /\ \A i \in 1..n : i \in 1..Len(data)
    BY <1>3
  <2> HIDE DEF u
  <2>3. \A i \in 1..n : u[i] = p + i - 1
    BY <1>6, <2>1, <2>2
  <2>4. u = Bytes(p, n)
    BY <1>4, <2>1, <2>2, <2>3, BytesEqual
  <2> QED
    BY <2>4 DEF u
<1>9. IsHeaderOf(data, m)
  <2>1. 8 \in 0..Len(data)
    BY <1>1, <1>3
  <2>2. SubSeq(data, 1, 8) = Bytes(p, 8)
    BY <1>8, <2>1
  <2> QED
    BY <1>1, <2>2 DEF IsHeaderOf, HasHeader, HeaderSize, p
<1>10. Complete(m) /\ ~Intact(m)
  BY <1>1, <1>7, <1>9
<1>11. Size(m) \in 0..Len(data)
  BY <1>3, <1>7, <1>10, Layout DEF Complete
<1>12. SubSeq(data, 1, Size(m)) = Bytes(p, Size(m))
  BY <1>8, <1>11
<1> QED
  BY <1>10, <1>12 DEF Intact, p

LEMMA InvMisread ==
    ASSUME ReadInv, Misread
    PROVE  ReadInv'
<1>1. /\ reading' = FALSE /\ data' = <<>> /\ stopped' = TRUE /\ misframed' = TRUE /\ reading
      /\ UNCHANGED <<written, eof, fd_at, survives, received, incoming_fds, leftover, reader,
                     disconnected, dispatched, fds_taken, raised_at>>
  BY DEF Misread, serverVars
<1>2. <<>> \in Seq(Nat) /\ Len(<<>>) = 0
  BY EmptySeq
<1>3. TypeOK'
  <2>1. {survives, reading, reader, stopped, disconnected, misframed}' \subseteq BOOLEAN
    BY <1>1 DEF ReadInv, TypeOK
  <2> QED
    BY <1>1, <1>2, <2>1 DEF ReadInv, TypeOK
<1>4. Orderly' /\ InOrder' /\ (misframed => raised_at # 0)'
  BY <1>1, MisreadAfterRaise DEF ReadInv, Orderly, InOrder, UntilRaise
<1>5. Framed' /\ BytesInOrder'
  BY <1>1, <1>2 DEF ReadInv, Framed, Clean, BytesInOrder, Increasing
<1>6. NeverAgain'
  BY <1>1 DEF ReadInv, NeverAgain, New, Begins
<1>7. FdsInOrder'
  BY <1>1 DEF ReadInv, FdsInOrder, Taken, New, FdsBefore
<1> QED
  BY <1>3, <1>4, <1>5, <1>6, <1>7 DEF ReadInv

LEMMA InvStep == ReadInv /\ [Next]_vars => ReadInv'
<1> SUFFICES ASSUME ReadInv, [Next]_vars PROVE ReadInv'
  OBVIOUS
<1>1. CASE Write \/ Hangup
  BY <1>1, InvCompositor
<1>2. CASE DoRead
  <2>1. CASE \E n \in 1..ReadMax : Receive(n)
    BY <2>1, InvReceive
  <2>2. CASE \E m \in 1..NumMsgs : HandleMessage(m)
    BY <2>2, InvHandle
  <2> QED
    BY <1>2, <2>1, <2>2, InvReceiveNothing, InvEndRead, InvMisread DEF DoRead
<1>3. CASE Raise
  BY <1>3, InvHandlerLeaves DEF Raise
<1>4. CASE UNCHANGED vars
  <2>1. UNCHANGED <<written, eof, fd_at, survives, received, incoming_fds, leftover, reading, data,
                    reader, stopped, disconnected, dispatched, fds_taken, raised_at, misframed>>
    BY <1>4 DEF vars, serverVars, loopVars, historyVars
  <2>2. (misframed => raised_at # 0)' /\ TypeOK' /\ Orderly' /\ InOrder' /\ BytesInOrder'
    BY <2>1 DEF ReadInv, TypeOK, Orderly, InOrder, UntilRaise, BytesInOrder
  <2>3. Framed' /\ NeverAgain'
    BY <2>1 DEF ReadInv, Framed, Clean, Buffer, Unhandled, NeverAgain, New
  <2>4. FdsInOrder'
    BY <2>1 DEF ReadInv, FdsInOrder, Taken, New, FdsBefore
  <2> QED
    BY <2>2, <2>3, <2>4 DEF ReadInv
<1> QED
  BY <1>1, <1>2, <1>3, <1>4 DEF Next

-----------------------------------------------------------------------------
\* Every reachable state is accounted for: what each buffer holds, which messages
\* have been handled and which descriptors wait, before and after an exception.
THEOREM ReadingAccounted == Spec => []ReadInv
<1> QED
  BY InvInit, InvStep, PTL DEF Spec

\* However the socket's bytes are cut into reads, _leftover and data hold exactly the
\* bytes not handled yet until a handler raises, bytes that are no header are read as
\* one only after that, and no message is ever handled twice or out of order.
THEOREM NothingIsLost == Spec => []NothingLost
<1>1. ReadInv => NothingLost
  BY DEF ReadInv, Framed, Clean, NeverAgain, NothingLost
<1> QED
  BY <1>1, ReadingAccounted, PTL

\* A handler that needs a descriptor never finds _incoming_fds empty, and until a
\* handler raises the one it pops is its own.
THEOREM DescriptorsMatch == Spec => []FdsMatch
<1>1. ASSUME ReadInv PROVE FdsMatch
  <2>1. ASSUME raised_at = 0, NEW k \in DOMAIN fds_taken
        PROVE  fds_taken[k][1] = fds_taken[k][2]
    <3>1. k \in 1..Taken
      BY <1>1, <2>1, Types DEF Taken
    <3> QED
      BY <1>1, <2>1, <3>1 DEF ReadInv, FdsInOrder
  <2>2. ASSUME NEW m \in FdMsgs, Complete(m), Intact(m)
        PROVE  incoming_fds # <<>>
    <3>1. PICK c \in 1..Len(Carriers) : Carriers[c] = m
      BY DEF FdMsgs
    <3>2. m \in 1..NumMsgs
      BY <1>1, Types
    <3>3. Taken < c /\ c <= FdsBefore(received)
      BY <1>1, <2>2, <3>1, <3>2, NextMessage
    <3>4. /\ Taken \in Nat /\ FdsBefore(received) \in 0..Len(Carriers) /\ Len(Carriers) \in Nat
          /\ \A i \in 1..Len(Carriers) : Carriers[i] \in 1..NumMsgs
      BY <1>1, Types, CarriersAre
    <3>5. incoming_fds = SubSeq(Carriers, Taken + 1, FdsBefore(received))
      BY <1>1 DEF ReadInv, FdsInOrder
    <3> HIDE DEF Taken
    <3>6. Len(incoming_fds) = FdsBefore(received) - (Taken + 1) + 1
      <4>1. \A i \in (Taken + 1)..FdsBefore(received) : Carriers[i] \in 1..NumMsgs
        BY <3>4
      <4> QED
        BY <3>3, <3>4, <3>5, <4>1, SubSeqProperties
    <3> QED
      BY <3>3, <3>4, <3>6
  <2> QED
    BY <2>1, <2>2 DEF FdsMatch
<1> QED
  BY <1>1, ReadingAccounted, PTL

-----------------------------------------------------------------------------
LEMMA DeliveryInit == Init => Delivery!Init
<1> SUFFICES ASSUME Init PROVE Delivery!Init
  OBVIOUS
<1>1. received = 0 /\ dispatched = <<>> /\ raised_at = 0 /\ ~stopped /\ reader
  BY DEF Init
<1>2. ASSUME NEW m \in 1..NumMsgs PROVE ~(Start[m + 1] <= 0)
  <2>1. m \in 1..(NumMsgs + 1) /\ m + 1 \in 1..(NumMsgs + 1) /\ m < m + 1
    BY Layout
  <2>2. Start[m] \in Nat /\ Start[m + 1] \in Nat /\ Start[m] + 8 <= Start[m + 1]
    BY <2>1, Layout
  <2> QED
    BY <2>2
<1> QED
  BY <1>1, <1>2 DEF Delivery!Init, UntilRaise

\* The bytes of more messages may have arrived.
LEMMA ReceiveDelivers ==
    ASSUME ReadInv, NEW n \in 1..ReadMax, Receive(n)
    PROVE  Delivery!Next
<1>1. /\ received' = received + n /\ n \in Nat
      /\ UNCHANGED <<dispatched, raised_at, stopped, reader>>
  BY ReadAssumption DEF Receive, loopVars, historyVars
<1>2. ASSUME NEW m \in 1..NumMsgs, Start[m + 1] <= received PROVE Start[m + 1] <= received'
  <2>1. m + 1 \in 1..(NumMsgs + 1) /\ received \in Nat
    BY Layout, Types
  <2> QED
    BY <1>1, <1>2, <2>1, Layout
<1>3. UntilRaise' = UntilRaise
  BY <1>1 DEF UntilRaise
<1> QED
  BY <1>1, <1>2, <1>3 DEF Delivery!Next, Delivery!Arrive

\* Until a handler raises, the message handled is the next one, and it has arrived;
\* from then on what is handled is no promise.
LEMMA MessageDelivers ==
    ASSUME ReadInv, NEW m \in 1..NumMsgs,
           HandleMessage(m) \/ RaiseInMessage(m) \/ ShutdownInMessage(m)
    PROVE  [Delivery!Next]_(Delivery!deliveryVars)
<1>1. /\ Complete(m) /\ Intact(m)
      /\ dispatched' = Append(dispatched, m) /\ received' = received
      /\ raised_at' \in {raised_at, IF raised_at = 0 THEN Len(dispatched) + 1 ELSE raised_at}
  BY DEF HandleMessage, RaiseInMessage, ShutdownInMessage, serverVars
<1>2. /\ reading /\ reader /\ ~stopped /\ Start[m + 1] <= received
      /\ raised_at = 0 => m = Len(dispatched) + 1
  BY <1>1, NextMessage
<1>3. UntilRaise' = IF raised_at = 0 THEN dispatched' ELSE UntilRaise
  BY <1>1, AddMessage
<1>4. CASE raised_at = 0
  <2>1. UntilRaise = dispatched /\ UntilRaise' = Append(dispatched, Len(dispatched) + 1)
    BY <1>1, <1>2, <1>3, <1>4 DEF UntilRaise
  <2>2. Len(dispatched) + 1 \in {n \in 1..NumMsgs : Start[n + 1] <= received}
    BY <1>2, <1>4
  <2>3. ~(stopped \/ ~reader \/ raised_at # 0)
    BY <1>2, <1>4
  <2> QED
    BY <1>1, <2>1, <2>2, <2>3 DEF Delivery!Next, Delivery!Deliver
<1>5. CASE raised_at # 0
  <2>1. raised_at' # 0 /\ UntilRaise' = UntilRaise
    BY <1>1, <1>3, <1>5
  <2> QED
    BY <1>1, <1>5, <2>1 DEF Delivery!deliveryVars
<1> QED
  BY <1>4, <1>5

LEMMA NothingDelivers ==
    ASSUME ReadInv, ReceiveNothing
    PROVE  [Delivery!Next]_(Delivery!deliveryVars)
<1>1. /\ reader /\ ~stopped /\ stopped' = ~survives
      /\ UNCHANGED <<received, dispatched, raised_at, reader>>
  BY DEF ReceiveNothing, LeaveDoRead, historyVars
<1>2. UntilRaise' = UntilRaise
  BY <1>1 DEF UntilRaise
<1>3. CASE raised_at = 0 /\ ~survives
  BY <1>1, <1>2, <1>3 DEF Delivery!Next, Delivery!Stop
<1>4. CASE raised_at # 0 \/ survives
  BY <1>1, <1>2, <1>4 DEF Delivery!deliveryVars
<1> QED
  BY <1>3, <1>4

LEMMA QuietDelivers ==
    ASSUME ReadInv, Write \/ Hangup \/ EndRead \/ Misread \/ UNCHANGED vars
    PROVE  UNCHANGED Delivery!deliveryVars
<1>1. UNCHANGED <<received, dispatched, raised_at, reader>> /\ (stopped' = stopped \/ raised_at # 0)
  <2>1. CASE Misread
    BY <2>1, MisreadAfterRaise DEF Misread
  <2>2. CASE Write \/ Hangup \/ EndRead \/ UNCHANGED vars
    BY <2>2 DEF Write, Hangup, EndRead, vars, loopVars, historyVars
  <2> QED
    BY <2>1, <2>2
<1>2. UntilRaise' = UntilRaise
  BY <1>1 DEF UntilRaise
<1> QED
  BY <1>1, <1>2 DEF Delivery!deliveryVars

\* do_read implements OrderedDelivery: the stream's messages are handled in order,
\* none skipped, none twice, each only when it is complete, until a handler raises.
THEOREM DeliveryImplemented == Spec => DeliverySpec
<1>1. ReadInv /\ [Next]_vars => [Delivery!Next]_(Delivery!deliveryVars)
  <2> SUFFICES ASSUME ReadInv, [Next]_vars PROVE [Delivery!Next]_(Delivery!deliveryVars)
    OBVIOUS
  <2>1. CASE \E n \in 1..ReadMax : Receive(n)
    BY <2>1, ReceiveDelivers
  <2>2. CASE \E m \in 1..NumMsgs : HandleMessage(m) \/ RaiseInMessage(m) \/ ShutdownInMessage(m)
    BY <2>2, MessageDelivers
  <2>3. CASE ReceiveNothing
    BY <2>3, NothingDelivers
  <2>4. CASE Write \/ Hangup \/ EndRead \/ Misread \/ UNCHANGED vars
    BY <2>4, QuietDelivers
  <2> QED
    BY <2>1, <2>2, <2>3, <2>4 DEF Next, DoRead, Raise
<1> QED
  BY <1>1, DeliveryInit, ReadingAccounted, PTL DEF Spec, DeliverySpec, Delivery!Spec

-----------------------------------------------------------------------------
\* Timers under asyncio and GLib.
Used == 0..(next_timer - 1)

\* Every table and every history is about timers that have been added.
OnlyUsed ==
    /\ DOMAIN timer_callbacks \subseteq Used /\ DOMAIN scheduled \subseteq Used
    /\ timer_ids \subseteq Used /\ timer.id \in Used \cup {-1}
    /\ removed \subseteq Used /\ own \subseteq removed
    /\ repeats \subseteq Used /\ ran \subseteq Used /\ raised \subseteq Used

\* A timer is known everywhere as what it was added as.
AsAdded ==
    /\ \A id \in DOMAIN timer_callbacks : timer_callbacks[id] = (id \notin repeats)
    /\ \A id \in DOMAIN scheduled : scheduled[id] = (id \notin repeats)
    /\ timer # Nobody => timer.id # -1 /\ timer.oneshot = (timer.id \notin repeats)

\* The loop has what the connection knows, except the timer whose callback runs,
\* which asyncio has used up and GLib keeps.
LoopKnows ==
    /\ \A id \in DOMAIN timer_callbacks \ (raised \cup {timer.id}) :
         id \in timer_ids /\ id \in DOMAIN scheduled
    /\ integration = "glib" /\ timer.id \in DOMAIN timer_callbacks =>
         timer.id \in timer_ids /\ timer.id \in DOMAIN scheduled
    /\ integration = "asyncio" => timer.id \notin DOMAIN scheduled

\* What it has besides will be ignored: timers removed by their own callback.
OnlyOwnLeft ==
    /\ DOMAIN scheduled \ DOMAIN timer_callbacks \subseteq
         IF integration = "glib" THEN {} ELSE own \cap repeats
    /\ timer # Nobody => timer.id \in DOMAIN timer_callbacks \cup own

\* A timer that is over cannot start again: it was removed, its callback has
\* raised, or it was a one-shot timer and has run.
OverIsOver ==
    /\ DOMAIN timer_callbacks \cap removed = {}
    /\ raised \cap (DOMAIN scheduled \cup {timer.id}) = {}
    /\ \A id \in DOMAIN scheduled \ {timer.id} : id \in repeats \/ id \notin ran

TimerInv ==
    /\ TimersTypeOK
    /\ OnlyUsed
    /\ AsAdded
    /\ LoopKnows
    /\ OnlyOwnLeft
    /\ OverIsOver

-----------------------------------------------------------------------------
LEMMA TableWith ==
    ASSUME NEW table, NEW id, NEW oneshot
    PROVE  /\ DOMAIN With(table, id, oneshot) = DOMAIN table \cup {id}
           /\ With(table, id, oneshot)[id] = oneshot
           /\ \A other \in DOMAIN table \ {id} : With(table, id, oneshot)[other] = table[other]
BY DEF With

LEMMA TableWithout ==
    ASSUME NEW table, NEW id
    PROVE  /\ DOMAIN Without(table, id) = DOMAIN table \ {id}
           /\ \A other \in DOMAIN table \ {id} : Without(table, id)[other] = table[other]
BY DEF Without, Restrict

-----------------------------------------------------------------------------
LEMMA TimersInvInit == TimersInit => TimerInv
<1> DEFINE empty == [n \in {} |-> FALSE]
<1>1. DOMAIN <<>> = {}
  OBVIOUS
<1> QED
  BY <1>1, BoundAssumption DEF TimersInit, TimerInv, TimersTypeOK, OnlyUsed, AsAdded, LoopKnows, OnlyOwnLeft,
     OverIsOver, Used, Nobody, TimerIds

\* A new id is in no table and no history.
LEMMA InvAdd ==
    ASSUME TimerInv, NEW oneshot \in BOOLEAN, AddTimer(oneshot)
    PROVE  TimerInv'
<1> DEFINE new == next_timer
<1>1. /\ new \in Nat /\ new \in TimerIds /\ new \notin Used /\ new # -1
      /\ Used' = Used \cup {new}
  BY BoundAssumption DEF TimerInv, TimersTypeOK, AddTimer, NewTimerId, Used, TimerIds
<1>2. /\ scheduled' = With(scheduled, new, oneshot)
      /\ timer_callbacks' = With(timer_callbacks, new, oneshot)
      /\ timer_ids' = timer_ids \cup {new}
      /\ repeats' = IF oneshot THEN repeats ELSE repeats \cup {new}
      /\ UNCHANGED <<integration, timer, removed, own, ran, raised>>
  BY DEF AddTimer, CreateTimer
<1>3. /\ DOMAIN scheduled' = DOMAIN scheduled \cup {new}
      /\ DOMAIN timer_callbacks' = DOMAIN timer_callbacks \cup {new}
      /\ scheduled'[new] = oneshot /\ timer_callbacks'[new] = oneshot
      /\ \A id \in DOMAIN scheduled \ {new} : scheduled'[id] = scheduled[id]
      /\ \A id \in DOMAIN timer_callbacks \ {new} : timer_callbacks'[id] = timer_callbacks[id]
  BY <1>2 DEF With
<1>4. TimersTypeOK'
  <2>1. next_timer' \in 0..MaxTimers
    BY BoundAssumption DEF TimerInv, TimersTypeOK, AddTimer, NewTimerId
  <2> QED
    BY <1>1, <1>2, <1>3, <2>1 DEF TimerInv, TimersTypeOK
<1>5. OnlyUsed'
  BY <1>1, <1>2, <1>3 DEF TimerInv, OnlyUsed
<1>6. AsAdded'
  BY <1>1, <1>2, <1>3 DEF TimerInv, OnlyUsed, AsAdded
<1>7. LoopKnows' /\ OnlyOwnLeft' /\ OverIsOver'
  BY <1>1, <1>2, <1>3 DEF TimerInv, OnlyUsed, LoopKnows, OnlyOwnLeft, OverIsOver
<1> QED
  BY <1>4, <1>5, <1>6, <1>7 DEF TimerInv

LEMMA InvRemove ==
    ASSUME TimerInv, NEW id \in TimerIds, RemoveTimer(id)
    PROVE  TimerInv'
<1>1. /\ id \in DOMAIN timer_callbacks /\ id \in Used /\ id # -1
      /\ Used' = Used
  BY DEF TimerInv, OnlyUsed, RemoveTimer, Used, TimerIds
<1>2. /\ scheduled' = Without(scheduled, id)
      /\ timer_callbacks' = Without(timer_callbacks, id)
      /\ timer_ids' = timer_ids \ {id}
      /\ removed' = removed \cup {id}
      /\ own' = own \cup ({id} \cap {timer.id})
      /\ UNCHANGED <<integration, next_timer, timer, repeats, ran, raised>>
  BY DEF RemoveTimer, CancelTimer
<1>3. /\ DOMAIN scheduled' = DOMAIN scheduled \ {id}
      /\ DOMAIN timer_callbacks' = DOMAIN timer_callbacks \ {id}
      /\ \A other \in DOMAIN scheduled \ {id} : scheduled'[other] = scheduled[other]
      /\ \A other \in DOMAIN timer_callbacks \ {id} :
           timer_callbacks'[other] = timer_callbacks[other]
  BY <1>2, TableWithout
<1>4. TimersTypeOK'
  BY <1>1, <1>2, <1>3 DEF TimerInv, TimersTypeOK
<1>5. OnlyUsed' /\ AsAdded'
  BY <1>1, <1>2, <1>3 DEF TimerInv, OnlyUsed, AsAdded
<1>6. LoopKnows' /\ OnlyOwnLeft' /\ OverIsOver'
  BY <1>1, <1>2, <1>3 DEF TimerInv, LoopKnows, OnlyOwnLeft, OverIsOver
<1> QED
  BY <1>4, <1>5, <1>6 DEF TimerInv

\* Only a timer that is not over starts.
LEMMA InvStart ==
    ASSUME TimerInv, NEW id \in TimerIds, StartTimer(id)
    PROVE  TimerInv'
<1>1. /\ timer = Nobody /\ timer.id = -1 /\ id # -1
      /\ id \in DOMAIN scheduled /\ id \in DOMAIN timer_callbacks /\ id \in Used
      /\ -1 \notin DOMAIN scheduled /\ -1 \notin DOMAIN timer_callbacks
      /\ Used' = Used
  BY DEF TimerInv, OnlyUsed, StartTimer, Used, TimerIds, Nobody
<1>2. /\ timer' = [id |-> id, oneshot |-> scheduled[id]]
      /\ timer'.id = id /\ timer'.oneshot = scheduled[id]
      /\ ran' = ran \cup {id}
      /\ UNCHANGED <<integration, next_timer, timer_callbacks, timer_ids, removed, own, repeats, raised>>
  BY DEF StartTimer
<1>3. /\ integration = "asyncio" => DOMAIN scheduled' = DOMAIN scheduled \ {id}
      /\ integration = "glib" => DOMAIN scheduled' = DOMAIN scheduled
      /\ integration \in {"asyncio", "glib"}
      /\ \A other \in DOMAIN scheduled' : scheduled'[other] = scheduled[other]
  BY DEF Without, Restrict, StartTimer, Called, TimerInv, TimersTypeOK
<1>4. TimersTypeOK'
  <2>1. timer' \in [id : TimerIds \cup {-1}, oneshot : BOOLEAN]
    BY <1>1, <1>2 DEF TimerInv, TimersTypeOK
  <2> QED
    BY <1>1, <1>2, <1>3, <2>1 DEF TimerInv, TimersTypeOK
<1>5. OnlyUsed'
  BY <1>1, <1>2, <1>3 DEF TimerInv, OnlyUsed
<1>6. AsAdded'
  BY <1>1, <1>2, <1>3 DEF TimerInv, AsAdded
<1>7. LoopKnows'
  BY <1>1, <1>2, <1>3 DEF TimerInv, LoopKnows, OverIsOver
<1>8. OnlyOwnLeft' /\ OverIsOver'
  BY <1>1, <1>2, <1>3 DEF TimerInv, OnlyOwnLeft, OverIsOver
<1> QED
  BY <1>4, <1>5, <1>6, <1>7, <1>8 DEF TimerInv

\* A timer the connection does not know: under asyncio only, and it is one that
\* its own callback removed, so it is scheduled as before.
LEMMA InvIgnore ==
    ASSUME TimerInv, NEW id \in TimerIds, IgnoreTimer(id)
    PROVE  TimerInv'
<1>1. /\ timer = Nobody /\ timer.id = -1 /\ id # -1
      /\ id \in DOMAIN scheduled /\ id \notin DOMAIN timer_callbacks /\ id \in Used
      /\ Used' = Used
  BY DEF TimerInv, OnlyUsed, IgnoreTimer, Used, TimerIds, Nobody
<1>2. integration = "asyncio" /\ id \in own \cap repeats /\ scheduled[id] = FALSE
  BY <1>1 DEF TimerInv, TimersTypeOK, OnlyOwnLeft, AsAdded
<1>3. /\ scheduled' = With(Without(scheduled, id), id, FALSE)
      /\ timer_ids' = timer_ids \cup {id}
      /\ UNCHANGED <<integration, next_timer, timer_callbacks, timer, removed, own, repeats, ran, raised>>
  BY <1>2 DEF IgnoreTimer, AfterCallback, Called
<1>4. /\ DOMAIN scheduled' = DOMAIN scheduled
      /\ \A other \in DOMAIN scheduled : scheduled'[other] = scheduled[other]
  BY <1>1, <1>2, <1>3 DEF With, Without, Restrict, TimerInv, AsAdded
<1>5. TimersTypeOK'
  BY <1>1, <1>3, <1>4 DEF TimerInv, TimersTypeOK
<1>6. OnlyUsed' /\ AsAdded'
  BY <1>1, <1>3, <1>4 DEF TimerInv, OnlyUsed, AsAdded
<1>7. LoopKnows' /\ OnlyOwnLeft' /\ OverIsOver'
  BY <1>1, <1>2, <1>3, <1>4 DEF TimerInv, LoopKnows, OnlyOwnLeft, OverIsOver
<1> QED
  BY <1>5, <1>6, <1>7 DEF TimerInv

\* The callback has returned: a repeating timer is scheduled, again or still, and
\* a one-shot timer is nowhere left.
LEMMA InvReturn ==
    ASSUME TimerInv, ReturnTimer
    PROVE  TimerInv'
<1> DEFINE id == timer.id
<1>1. /\ timer # Nobody /\ id \in Used /\ id \in TimerIds /\ id # -1
      /\ timer.oneshot = (id \notin repeats) /\ timer.oneshot \in BOOLEAN
      /\ timer.oneshot => id \in DOMAIN timer_callbacks
      /\ integration \in {"asyncio", "glib"}
  BY DEF TimerInv, TimersTypeOK, OnlyUsed, AsAdded, ReturnTimer
<1>2. /\ timer' = Nobody /\ timer'.id = -1 /\ Used' = Used
      /\ UNCHANGED <<integration, next_timer, removed, own, repeats, ran, raised>>
  BY DEF ReturnTimer, Nobody, Used
<1>3. -1 \notin DOMAIN scheduled /\ -1 \notin DOMAIN timer_callbacks /\ -1 \notin raised
  BY DEF TimerInv, OnlyUsed, Used
<1>4. CASE timer.oneshot
  <2>1. /\ DOMAIN scheduled' = DOMAIN scheduled \ {id}
        /\ DOMAIN timer_callbacks' = DOMAIN timer_callbacks \ {id}
        /\ \A other \in DOMAIN scheduled \ {id} : scheduled'[other] = scheduled[other]
        /\ \A other \in DOMAIN timer_callbacks \ {id} :
             timer_callbacks'[other] = timer_callbacks[other]
    BY <1>1, <1>4 DEF ReturnTimer, AfterCallback, Without, Restrict, TimerInv, LoopKnows
  <2>2. timer_ids' \subseteq timer_ids /\ timer_ids \ {id} \subseteq timer_ids'
    BY <1>1, <1>4 DEF ReturnTimer, AfterCallback
  <2>3. TimersTypeOK'
    BY <1>1, <1>2, <2>1, <2>2 DEF TimerInv, TimersTypeOK, Nobody
  <2>4. OnlyUsed' /\ AsAdded'
    BY <1>1, <1>2, <2>1, <2>2 DEF TimerInv, OnlyUsed, AsAdded
  <2>5. LoopKnows' /\ OnlyOwnLeft' /\ OverIsOver'
    BY <1>1, <1>2, <1>3, <2>1, <2>2 DEF TimerInv, LoopKnows, OnlyOwnLeft, OverIsOver
  <2> QED
    BY <2>3, <2>4, <2>5 DEF TimerInv
<1>5. CASE ~timer.oneshot
  <2>1. /\ timer_callbacks' = timer_callbacks
        /\ DOMAIN scheduled' = IF integration = "asyncio" THEN DOMAIN scheduled \cup {id}
                               ELSE DOMAIN scheduled
        /\ \A other \in DOMAIN scheduled \ {id} : scheduled'[other] = scheduled[other]
        /\ id \in DOMAIN scheduled' => scheduled'[id] = FALSE
    BY <1>1, <1>5 DEF ReturnTimer, AfterCallback, With, TimerInv, AsAdded
  <2>2. timer_ids' = IF integration = "asyncio" THEN timer_ids \cup {id} ELSE timer_ids
    BY <1>1, <1>5 DEF ReturnTimer, AfterCallback
  <2>3. TimersTypeOK'
    <3>1. DOMAIN scheduled' \subseteq TimerIds
      BY <1>1, <2>1 DEF TimerInv, TimersTypeOK
    <3>2. \A other \in DOMAIN scheduled' : scheduled'[other] \in BOOLEAN
      BY <1>1, <2>1 DEF TimerInv, TimersTypeOK
    <3> QED
      BY <1>1, <1>2, <2>1, <2>2, <3>1, <3>2 DEF TimerInv, TimersTypeOK, Nobody
  <2>4. OnlyUsed' /\ AsAdded'
    BY <1>1, <1>2, <1>5, <2>1, <2>2 DEF TimerInv, OnlyUsed, AsAdded
  <2>5. LoopKnows'
    BY <1>1, <1>2, <1>3, <1>5, <2>1, <2>2 DEF TimerInv, LoopKnows
  <2>6. OnlyOwnLeft' /\ OverIsOver'
    BY <1>1, <1>2, <1>3, <1>5, <2>1, <2>2 DEF TimerInv, OnlyOwnLeft, OverIsOver
  <2> QED
    BY <2>3, <2>4, <2>5, <2>6 DEF TimerInv
<1> QED
  BY <1>1, <1>4, <1>5

LEMMA InvRaise ==
    ASSUME TimerInv, RaiseInTimer
    PROVE  TimerInv'
<1> DEFINE id == timer.id
<1>1. timer # Nobody /\ id \in Used /\ id \in TimerIds /\ id # -1
  BY DEF TimerInv, TimersTypeOK, OnlyUsed, AsAdded, RaiseInTimer
<1>2. /\ timer' = Nobody /\ timer'.id = -1 /\ Used' = Used
      /\ raised' = raised \cup {id}
      /\ UNCHANGED <<integration, next_timer, timer_callbacks, timer_ids, removed, own, repeats, ran>>
  BY DEF RaiseInTimer, Nobody, Used
<1>3. /\ DOMAIN scheduled' = DOMAIN scheduled \ {id}
      /\ \A other \in DOMAIN scheduled \ {id} : scheduled'[other] = scheduled[other]
  BY DEF RaiseInTimer, Without, Restrict
<1>4. /\ -1 \notin DOMAIN scheduled /\ -1 \notin DOMAIN timer_callbacks
      /\ -1 \notin raised
  BY DEF TimerInv, OnlyUsed, Used
<1>5. TimersTypeOK'
  BY <1>1, <1>2, <1>3 DEF TimerInv, TimersTypeOK, Nobody
<1>6. OnlyUsed' /\ AsAdded'
  BY <1>1, <1>2, <1>3 DEF TimerInv, OnlyUsed, AsAdded
<1>7. LoopKnows' /\ OnlyOwnLeft' /\ OverIsOver'
  BY <1>1, <1>2, <1>3, <1>4 DEF TimerInv, LoopKnows, OnlyOwnLeft, OverIsOver
<1> QED
  BY <1>5, <1>6, <1>7 DEF TimerInv

LEMMA TimersInvStep == TimerInv /\ [TimersNext]_timerVars => TimerInv'
<1> SUFFICES ASSUME TimerInv, [TimersNext]_timerVars PROVE TimerInv'
  OBVIOUS
<1>1. CASE \E oneshot \in BOOLEAN : AddTimer(oneshot)
  BY <1>1, InvAdd
<1>2. CASE \E id \in TimerIds : RemoveTimer(id)
  BY <1>2, InvRemove
<1>3. CASE \E id \in TimerIds : StartTimer(id)
  BY <1>3, InvStart
<1>4. CASE \E id \in TimerIds : IgnoreTimer(id)
  BY <1>4, InvIgnore
<1>5. CASE ReturnTimer
  BY <1>5, InvReturn
<1>6. CASE RaiseInTimer
  BY <1>6, InvRaise
<1>7. CASE UNCHANGED timerVars
  BY <1>7 DEF timerVars, TimerInv, TimersTypeOK, OnlyUsed, Used, AsAdded, LoopKnows, OnlyOwnLeft, OverIsOver
<1> QED
  BY <1>1, <1>2, <1>3, <1>4, <1>5, <1>6, <1>7 DEF TimersNext

\* The tables agree with each other and with what timers were added as, also
\* while a callback runs (add_timer, remove_timer, both integrations' _timer_cb).
THEOREM TimersAccounted == TimersSpec => []TimerInv
BY TimersInvInit, TimersInvStep, PTL DEF TimersSpec

\* Between callbacks every timer the connection knows is scheduled as what it was
\* added, unless its callback raised, and only asyncio schedules any other
\* (AsyncIOIntegration._timer_cb creates the timer again that its callback removed).
THEOREM ScheduleFollowsTables == TimersSpec => []ScheduleAgrees
<1>1. TimerInv => ScheduleAgrees
  <2> SUFFICES ASSUME TimerInv PROVE ScheduleAgrees
    OBVIOUS
  <2>1. timer = Nobody => timer.id = -1 /\ -1 \notin DOMAIN timer_callbacks
    BY DEF Nobody, TimerInv, OnlyUsed, Used
  <2> QED
    BY <2>1 DEF TimerInv, ScheduleAgrees, AsAdded, LoopKnows, OnlyOwnLeft
<1> QED
  BY <1>1, TimersAccounted, PTL

-----------------------------------------------------------------------------
\* The refinement of TimerService: what the abstract specification calls live.
Over == removed \cup (ran \ repeats)
Live == Used \ Over

LEMMA AddServes ==
    ASSUME TimerInv, NEW oneshot \in BOOLEAN, AddTimer(oneshot)
    PROVE  Service!Next
<1> DEFINE new == next_timer
<1>1. /\ new \in TimerIds /\ new \notin Used /\ Used' = Used \cup {new}
      /\ new \notin Over
  BY BoundAssumption DEF TimerInv, TimersTypeOK, OnlyUsed, AddTimer, NewTimerId, Used, TimerIds, Over
<1>2. /\ repeats' = IF oneshot THEN repeats ELSE repeats \cup {new}
      /\ UNCHANGED <<timer, removed, ran>>
  BY DEF AddTimer
<1>3. Live' = Live \cup {new}
  BY <1>1, <1>2 DEF TimerInv, OnlyUsed, Live, Over
<1>4. Service!Add(new)
  BY <1>1, <1>2, <1>3 DEF Service!Add, Used, Live, Over
<1> QED
  BY <1>1, <1>4 DEF Service!Next

LEMMA RemoveServes ==
    ASSUME TimerInv, NEW id \in TimerIds, RemoveTimer(id)
    PROVE  Service!Next
<1>1. /\ removed' = removed \cup {id}
      /\ UNCHANGED <<next_timer, timer, repeats, ran>>
  BY DEF RemoveTimer
<1>2. Live' = Live \ {id}
  BY <1>1 DEF Live, Over, Used
<1>3. Service!Remove(id)
  BY <1>1, <1>2 DEF Service!Remove, Used, Live, Over
<1> QED
  BY <1>3 DEF Service!Next

\* A timer that is scheduled and known is live: it was not removed, and if it is a
\* one-shot timer it has not run.
LEMMA StartServes ==
    ASSUME TimerInv, NEW id \in TimerIds, StartTimer(id)
    PROVE  Service!Next
<1>1. /\ timer.id = -1 /\ id # -1 /\ id \in DOMAIN scheduled /\ id \in DOMAIN timer_callbacks
      /\ timer'.id = id
      /\ ran' = ran \cup {id}
      /\ UNCHANGED <<next_timer, removed, repeats>>
  BY DEF StartTimer, Nobody, TimerIds
<1>2. id \in Live
  BY <1>1 DEF TimerInv, OnlyUsed, OverIsOver, Live, Over
<1>3. Live' = IF id \in repeats THEN Live ELSE Live \ {id}
  BY <1>1 DEF Live, Over, Used
<1>4. Service!Start(id)
  BY <1>1, <1>2, <1>3 DEF Service!Start, Used, Live, Over
<1> QED
  BY <1>4 DEF Service!Next

LEMMA EndServes ==
    ASSUME TimerInv, ReturnTimer \/ RaiseInTimer
    PROVE  Service!Next
<1>1. /\ timer.id # -1 /\ timer'.id = -1
      /\ UNCHANGED <<next_timer, removed, repeats, ran>>
  BY DEF TimerInv, AsAdded, ReturnTimer, RaiseInTimer, Nobody
<1> QED
  BY <1>1 DEF Service!Next, Service!Finish

\* Timers under asyncio and GLib implement TimerService: a removed timer's callback
\* does not run again and a one-shot timer's runs once, whatever callbacks do and
\* whichever of them raise.
THEOREM TimersImplemented == TimersSpec => ServiceSpec
<1>1. TimersInit => Service!Init
  BY DEF TimersInit, Service!Init, Nobody
<1>2. TimerInv /\ [TimersNext]_timerVars => [Service!Next]_(Service!serviceVars)
  <2> SUFFICES ASSUME TimerInv, [TimersNext]_timerVars PROVE [Service!Next]_(Service!serviceVars)
    OBVIOUS
  <2>1. CASE \E oneshot \in BOOLEAN : AddTimer(oneshot)
    BY <2>1, AddServes
  <2>2. CASE \E id \in TimerIds : RemoveTimer(id)
    BY <2>2, RemoveServes
  <2>3. CASE \E id \in TimerIds : StartTimer(id)
    BY <2>3, StartServes
  <2>4. CASE \E id \in TimerIds : IgnoreTimer(id)
    BY <2>4 DEF IgnoreTimer, Service!serviceVars
  <2>5. CASE ReturnTimer \/ RaiseInTimer
    BY <2>5, EndServes
  <2>6. CASE UNCHANGED timerVars
    BY <2>6 DEF timerVars, Service!serviceVars
  <2> QED
    BY <2>1, <2>2, <2>3, <2>4, <2>5, <2>6 DEF TimersNext
<1> QED
  BY <1>1, <1>2, TimersAccounted, PTL DEF TimersSpec, ServiceSpec, Service!Spec
==============================================================================
