---------------------------- MODULE MCWireFormat ----------------------------
\* WireFormat for TLC: the argument lists of the code's messages, with texts of
\* every length around a whole word and around the longest message.
EXTENDS WireFormat

Text(n) == [k \in 1..n |-> 1 + (k % 2)]
Uint(n) == [t |-> "uint", v |-> n]
Sint(n) == [t |-> "int", v |-> n]
Str(n) == [t |-> "string", v |-> Text(n)]
States(vs) == [t |-> "states", v |-> vs]

Top == Base ^ 4 - 1
Uints == {Uint(n) : n \in {0, 1, Base, Top}}
Sints == {Sint(n) : n \in {0, -1, 2, Top \div 2, -(Top \div 2) - 1}}
ShortTexts == {Str(n) : n \in 0..5}

Of(from, argLists, fd) ==
    {[from |-> from, obj |-> o, op |-> p, args |-> a, fd |-> fd] :
         o \in {1, Base}, p \in {0, Base + 1}, a \in argLists}

\* sync, bind, offer, create_buffer, and keymap and receive with a descriptor
MCRequests ==
    Of("client", {<<>>} \cup {<<u>> : u \in Uints}
       \cup {<<Uint(3), s, u, Uint(7)>> : s \in ShortTexts, u \in Uints}
       \cup {<<u, i, Uint(2)>> : u \in Uints, i \in Sints}
       \cup {<<Str(n)>> : n \in 45..53}, FALSE)
    \cup Of("client", {<<Uint(1), Uint(Base)>>} \cup {<<s>> : s \in ShortTexts}, TRUE)

\* delete_id, global, error, geometry, state
MCEvents ==
    Of("server", {<<u>> : u \in Uints}
       \cup {<<u, s, Uint(4)>> : u \in Uints, s \in ShortTexts}
       \cup {<<Uint(3), u, s>> : u \in Uints, s \in ShortTexts}
       \cup {<<i, Str(2), s, Sint(1)>> : i \in Sints, s \in {Str(3), Str(4)}}
       \cup {<<States(vs)>> : vs \in {<<>>, <<0>>, <<2, 1>>, <<9, 2, Top, 0>>}}, FALSE)
=============================================================================
