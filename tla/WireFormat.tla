----------------------------- MODULE WireFormat -----------------------------
(***************************************************************************)
(* The bytes of messages.  A request is put together from its arguments    *)
(* and sent in as many pieces as the socket takes; an event is taken apart *)
(* by the types its handler expects.  Both are compared with the layout    *)
(* the protocol gives a message, the operator Message, which the           *)
(* compositor uses.  A byte has Base values, so that the sizes at which a  *)
(* number is cut off are within reach; a word has four bytes.              *)
(***************************************************************************)
EXTENDS Integers, Sequences, SequencesExt

CONSTANTS
    Base,      \* values of a byte
    Requests,  \* messages of the client, [from, obj, op, args, fd]
    Events,    \* messages of the compositor
    NumStates  \* names in a table of states (CAPS, STATES)

ASSUME BaseAssumption == Base \in Nat /\ Base >= 4 /\ Base % 2 = 0
ASSUME MessagesAssumption ==
    /\ \A m \in Requests : m.from = "client"
    /\ \A m \in Events : m.from = "server"
    /\ \A m \in Requests \cup Events : m.op \in 0..(Base ^ 2 - 1)
ASSUME StatesAssumption == NumStates \in Nat

VARIABLES
    message,  \* the message under way
    stage,    \* "idle", "sending", "sent", "raised" or "handled"
    data,     \* the request's bytes in send_opcode
    sent,     \* how many of them are sent
    wire,     \* the bytes on the socket
    fds,      \* descriptors on the socket, by the byte they go with
    got       \* what the event's handler made of it

vars == <<message, stage, data, sent, wire, fds, got>>

TypeOK ==
    /\ message \in Requests \cup Events
    /\ stage \in {"idle", "sending", "sent", "raised", "handled"}
    /\ data \in Seq(0..(Base - 1)) /\ wire \in Seq(0..(Base - 1))
    /\ sent \in 0..Len(data)
    /\ fds \in Seq(Nat)
    /\ \A k \in DOMAIN got :
         IF got[k].t \in {"uint", "int"} THEN got[k].v \in Int ELSE got[k].v \in Seq(Nat)

-----------------------------------------------------------------------------
\* The protocol: words in the byte order of the machine, a string with its length
\* and a zero at its end, everything filled up to whole words.
Zeros(n) == [k \in 1..n |-> 0]


Word(n) == [k \in 1..4 |-> (n \div Base ^ (k - 1)) % Base]
Padded(b) == b \o Zeros((-Len(b)) % 4)

Layout(arg) ==
    CASE arg.t \in {"uint", "int"} -> Word(arg.v % Base ^ 4)
      [] arg.t = "string" -> Word(Len(arg.v) + 1) \o Padded(Append(arg.v, 0))
      [] arg.t = "states" -> Word(4 * Len(arg.v))
                               \o FlattenSeq([k \in DOMAIN arg.v |-> Word(arg.v[k])])

Arguments(m) == FlattenSeq([k \in DOMAIN m.args |-> Layout(m.args[k])])
Size(m) == 8 + Len(Arguments(m))
Message(m) == Word(m.obj) \o Word(Size(m) * Base ^ 2 + m.op) \o Arguments(m)

\* The compositor keeps to the longest message there is.
ASSUME EventsAssumption == \A m \in Events : Size(m) < Base ^ 2

-----------------------------------------------------------------------------
\* The client's side: struct.unpack, and a slice as Python takes it.
Number(b) == b[1] + Base * b[2] + Base ^ 2 * b[3] + Base ^ 3 * b[4]
Signed(n) == IF 2 * n >= Base ^ 4 THEN n - Base ^ 4 ELSE n
Slice(b, from, to) == SubSeq(b, from + 1, IF to < Len(b) THEN to ELSE Len(b))
Drop(b, n) == Slice(b, n, Len(b))

\* Mutant of CreateString: the zero is left out when the text fills its words.
CreateStringTight(s) == Word(Len(s) + 1) \o s \o Zeros((4 - (Len(s) % 4)) % 4)

\* ArgString.create
CreateString(s) == Word(Len(s) + 1) \o s \o Zeros(4 - (Len(s) % 4))

Create(arg) ==
    CASE arg.t = "uint" -> Word(arg.v)
      [] arg.t = "int" -> Word(arg.v % Base ^ 4)
      [] arg.t = "string" -> CreateString(arg.v)

\* Mutant of ParseString: the text's own length decides what is consumed.
ParseStringTight(b) ==
    [consumed |-> 4 + Number(b), value |-> Slice(b, 4, 4 + Number(b) - 1)]

\* ArgString.parse
ParseString(b) ==
    [consumed |-> 4 + Number(b) + ((4 - (Number(b) % 4)) % 4),
     value |-> Slice(b, 4, 4 + Number(b) - 1)]

\* ArgArray.parse and _parse_array: a state without a name is left out.
ParseStates(b) ==
    LET array == Slice(b, 4, 4 + Number(b))
        values == [k \in 1..(Len(array) \div 4) |-> Number(Slice(array, 4 * (k - 1), 4 * k))]
    IN [consumed |-> 4 + Number(b), value |-> SelectSeq(values, LAMBDA v : v < NumStates)]

Parse(t, b) ==
    CASE t = "uint" -> [consumed |-> 4, value |-> Number(b)]
      [] t = "int" -> [consumed |-> 4, value |-> Signed(Number(b))]
      [] t = "string" -> ParseString(b)
      [] t = "states" -> ParseStates(b)

\* A handler parses one argument after the other and drops what it consumed.
ParseAll(types, b) ==
    FoldLeft(LAMBDA acc, t :
                 LET r == Parse(t, acc.rest)
                 IN [rest |-> Drop(acc.rest, r.consumed),
                     args |-> Append(acc.args, [t |-> t, v |-> r.value])],
             [rest |-> b, args |-> <<>>], types).args

-----------------------------------------------------------------------------
Init ==
    /\ message \in Requests \cup Events
    /\ stage = "idle"
    /\ data = <<>> /\ sent = 0
    /\ wire = IF message \in Events THEN Message(message) ELSE <<>>
    /\ fds = <<>> /\ got = <<>>

\* send_opcode: struct.pack raises when the size does not fit its half word.
SendOpcode ==
    LET body == FlattenSeq([k \in DOMAIN message.args |-> Create(message.args[k])])
        sizeop == (8 + Len(body)) * Base ^ 2 + message.op
    IN
    /\ stage = "idle" /\ message \in Requests
    /\ IF sizeop < Base ^ 4
       THEN stage' = "sending" /\ data' = Word(message.obj) \o Word(sizeop) \o body
       ELSE stage' = "raised" /\ UNCHANGED data
    /\ UNCHANGED <<message, sent, wire, fds, got>>

\* The socket takes some of the bytes; the descriptor goes with the first.
Sendmsg ==
    \E n \in 1..(Len(data) - sent) :
        /\ stage = "sending"
        /\ wire' = wire \o Slice(data, sent, sent + n)
        /\ sent' = sent + n
        /\ fds' = IF message.fd /\ sent = 0 THEN Append(fds, Len(wire) + 1) ELSE fds
        /\ stage' = IF sent' = Len(data) THEN "sent" ELSE "sending"
        /\ UNCHANGED <<message, data, got>>

\* do_read takes the header apart, the handler the arguments.
HandleEvent ==
    LET size == Number(Slice(wire, 4, 8)) \div Base ^ 2 IN
    /\ stage = "idle" /\ message \in Events
    /\ stage' = "handled"
    /\ got' = ParseAll([k \in DOMAIN message.args |-> message.args[k].t], Slice(wire, 8, size))
    /\ UNCHANGED <<message, data, sent, wire, fds>>

Next == SendOpcode \/ Sendmsg \/ HandleEvent

Spec == Init /\ [][Next]_vars

-----------------------------------------------------------------------------
\* Requests reach the compositor in the protocol's layout, whole and in order,
\* however the socket takes their bytes, and a descriptor once, with the first
\* byte.  Nothing is sent of a message too long for its header, and only of that.
RequestsWellFormed ==
    /\ TypeOK
    /\ message \in Requests =>
         /\ IsPrefix(wire, Message(message))
         /\ fds = IF message.fd /\ wire # <<>> THEN <<1>> ELSE <<>>
         /\ stage = "sent" => wire = Message(message)
         /\ stage = "raised" <=> Size(message) >= Base ^ 2 /\ stage # "idle"
         /\ stage = "raised" => wire = <<>>

\* A handler gets the arguments the compositor sent, less the states that have no
\* name.
EventsUnderstood ==
    stage = "handled" =>
        got = [k \in DOMAIN message.args |->
                  IF message.args[k].t = "states"
                  THEN [message.args[k] EXCEPT !.v = SelectSeq(@, LAMBDA v : v < NumStates)]
                  ELSE message.args[k]]
=============================================================================
