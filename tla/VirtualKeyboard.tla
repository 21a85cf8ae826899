--------------------------- MODULE VirtualKeyboard ---------------------------
(***************************************************************************)
(* A VirtualKeyboard with its KeyMap.  A key is sent by its number in the  *)
(* key map the compositor was given last, under the modifiers it was told  *)
(* last; a new key map resets the modifiers.  The key map grows with what  *)
(* is typed and is sent again when it has changed.  Requests are carried   *)
(* out in order and nothing comes back, so the compositor's side is what   *)
(* the requests sent so far have made of it.                               *)
(***************************************************************************)
EXTENDS Naturals, Sequences, FiniteSets, SequencesExt

CONSTANTS
    Chars,     \* the characters of texts
    KeyNames,  \* the names of keys, longer than a character
    Lower,     \* str.lower on the names
    Symbol,    \* the symbol of a name, "none" if it has none
    Texts,     \* the texts the application writes
    Combos,    \* the sets of modifiers it opens blocks with
    MaxDepth   \* bound: blocks open at a time

Names == Chars \cup KeyNames
Mods == UNION Combos

ASSUME NamesAssumption ==
    /\ Lower \in [KeyNames -> KeyNames]
    /\ DOMAIN Symbol = Names
    /\ Texts \subseteq Seq(Chars)
ASSUME BlocksAssumption == MaxDepth \in Nat

VARIABLES
    map,        \* KeyMap._map: name -> number of the key
    changed,    \* KeyMap.changed
    modifiers,  \* _modifiers
    blocks,     \* the open with blocks, innermost last
    broken,     \* history: modifiers of blocks that an exception has left
    overlapped, \* history: modifiers of a block that another around it had
    asked,      \* history: the names of the last write or send_key
    typed,      \* history: what the compositor made of each
    srv_map,    \* the key map the compositor has
    srv_mods,   \* the modifiers it has
    refused     \* whether it got a key or modifiers before a key map

ownVars == <<map, changed, modifiers, blocks>>
keyboardVars == <<ownVars, broken, overlapped, asked, typed, srv_map, srv_mods, refused>>

NoKeymap == [maximum |-> 0, symbols |-> <<>>]
NoMods == [depressed |-> {}, latched |-> {}, locked |-> {}]

KeyboardTypeOK ==
    /\ DOMAIN map \subseteq Names /\ \A n \in DOMAIN map : map[n] \in 1..Cardinality(DOMAIN map)
    /\ changed \in BOOLEAN
    /\ modifiers \subseteq Mods
    /\ blocks \in Seq(Combos)
    /\ broken \subseteq Mods /\ overlapped \subseteq Mods
    /\ asked \in Seq(Names)
    /\ srv_mods \in [{"depressed", "latched", "locked"} -> SUBSET Mods]
    /\ refused \in BOOLEAN

KeyboardInit ==
    /\ map = <<>> /\ changed = TRUE
    /\ modifiers = {} /\ blocks = <<>>
    /\ broken = {} /\ overlapped = {}
    /\ asked = <<>> /\ typed = <<>>
    /\ srv_map = NoKeymap /\ srv_mods = NoMods
    /\ refused = FALSE

-----------------------------------------------------------------------------

\* get_key: the k-th name of a text is to be entered, if it has a symbol.
IsNew(m, text, k) ==
    /\ text[k] \notin DOMAIN m
    /\ Symbol[text[k]] # "none"
    /\ \A j \in 1..(k - 1) : text[j] # text[k]

\* get_keys: each under the next number, in the order of the text.
LearnAll(m, text) ==
    LET new == {k \in DOMAIN text : IsNew(m, text, k)}
        \* the places of new names, up to that of n
        UpTo(n) == {j \in new : \E k \in new : text[k] = n /\ j <= k}
    IN [n \in DOMAIN m \cup {text[k] : k \in new} |->
           IF n \in DOMAIN m THEN m[n] ELSE Cardinality(DOMAIN m) + Cardinality(UpTo(n))]

\* The number of the key for each character; none, 0, for one without a symbol.
KeysOf(m, text) == [k \in DOMAIN text |-> IF text[k] \in DOMAIN m THEN m[text[k]] ELSE 0]

\* serialize: key number k gets the key code k + 8 and its symbol.
Serialize(m) ==
    [maximum |-> 8 + Cardinality(DOMAIN m),
     symbols |-> [code \in {m[n] + 8 : n \in DOMAIN m} |->
                     Symbol[CHOOSE n \in DOMAIN m : m[n] + 8 = code]]]

\* What the compositor makes of a key: it looks up the code above the number.
Lookup(keymap, key) ==
    IF key + 8 \in DOMAIN keymap.symbols /\ key + 8 <= keymap.maximum
    THEN keymap.symbols[key + 8] ELSE "nothing"

\* _update_modifiers
ModifiersOf(mods) ==
    [depressed |-> mods \ {"capslock"}, latched |-> {}, locked |-> mods \cap {"capslock"}]

\* Mutant of UpdateKeymap: the modifiers are not told again.
UpdateKeymapOnly(m, must, fails) ==
    IF must /\ fails
    THEN changed' = TRUE /\ UNCHANGED <<srv_map, srv_mods>>
    ELSE /\ changed' = FALSE
         /\ srv_map' = IF must THEN Serialize(m) ELSE srv_map
         /\ srv_mods' = IF must THEN NoMods ELSE srv_mods

\* _update_keymap and keymap, with key map m, if it must be sent.  Making the
\* file and sending its descriptor may fail, which leaves changed set.  A key
\* map resets the modifiers; the keyboard's are then told again.
UpdateKeymap(m, must, fails) ==
    IF must /\ fails
    THEN changed' = TRUE /\ UNCHANGED <<srv_map, srv_mods>>
    ELSE /\ changed' = FALSE
         /\ srv_map' = IF must THEN Serialize(m) ELSE srv_map
         /\ srv_mods' = IF ~must THEN srv_mods
                        ELSE IF modifiers = {} THEN NoMods ELSE ModifiersOf(modifiers)

\* The keys of a text, under the key map the compositor has then.
Press(m, text) ==
    LET keys == KeysOf(m, text) IN
    /\ asked' = text
    /\ typed' = [k \in DOMAIN keys |-> IF keys[k] = 0 THEN "none" ELSE Lookup(srv_map', keys[k])]
    /\ refused' = (refused \/ (srv_map' = NoKeymap /\ \E k \in DOMAIN keys : keys[k] # 0))

NothingTyped == asked' = <<>> /\ typed' = <<>> /\ UNCHANGED refused

\* Mutant of Type: whether the map has changed is forgotten with each text.
TypeUnchanged(text, fails) ==
    LET m == LearnAll(map, text) IN
    /\ map' = m
    /\ UpdateKeymap(m, changed /\ m = map, fails)
    /\ IF changed /\ m = map /\ fails THEN NothingTyped ELSE Press(m, text)
    /\ UNCHANGED <<modifiers, blocks, broken, overlapped>>

Type(text, fails) ==
    LET m == LearnAll(map, text)
        must == changed \/ m # map
    IN
    /\ map' = m
    /\ UpdateKeymap(m, must, fails)
    /\ IF must /\ fails THEN NothingTyped ELSE Press(m, text)
    /\ UNCHANGED <<modifiers, blocks, broken, overlapped>>

Write == \E text \in Texts, fails \in BOOLEAN : Type(text, fails)

\* send_key logs what goes wrong: for a name without a symbol nothing is sent.
SendKey ==
    \E name \in Names, fails \in BOOLEAN :
        LET key == IF name \in KeyNames THEN Lower[name] ELSE name IN
        IF Symbol[key] # "none" THEN Type(<<key>>, fails)
        ELSE NothingTyped /\ UNCHANGED <<ownVars, broken, overlapped, srv_map, srv_mods>>

\* modifier, up to the yield: the key map first, then the modifiers.
EnterBlock(ms, fails) ==
    /\ Len(blocks) < MaxDepth
    /\ IF changed /\ fails
       THEN UNCHANGED <<ownVars, overlapped, srv_map, srv_mods, refused>>
       ELSE /\ modifiers' = modifiers \cup ms
            /\ blocks' = Append(blocks, ms)
            /\ overlapped' = overlapped \cup (ms \cap UNION ToSet(blocks))
            /\ changed' = FALSE
            /\ srv_map' = IF changed THEN Serialize(map) ELSE srv_map
            /\ srv_mods' = ModifiersOf(modifiers \cup ms)
            /\ refused' = (refused \/ srv_map' = NoKeymap)
            /\ UNCHANGED map
    /\ UNCHANGED <<broken, asked, typed>>

\* Mutant of LeaveBlock: all modifiers are released.
LeaveBlockAll ==
    /\ blocks # <<>>
    /\ blocks' = Front(blocks)
    /\ modifiers' = {}
    /\ srv_mods' = ModifiersOf({})
    /\ UNCHANGED <<map, changed, broken, overlapped, asked, typed, srv_map, refused>>

\* modifier, after the yield: the block's modifiers are released.
LeaveBlock ==
    /\ blocks # <<>>
    /\ blocks' = Front(blocks)
    /\ modifiers' = modifiers \ Last(blocks)
    /\ srv_mods' = ModifiersOf(modifiers \ Last(blocks))
    /\ UNCHANGED <<map, changed, broken, overlapped, asked, typed, srv_map, refused>>

\* An exception leaves the innermost block: it is raised at the yield, and the
\* rest of modifier() does not run.
RaiseFromBlock ==
    /\ blocks # <<>>
    /\ blocks' = Front(blocks)
    /\ broken' = broken \cup Last(blocks)
    /\ UNCHANGED <<map, changed, modifiers, overlapped, asked, typed, srv_map, srv_mods,
                   refused>>

KeyboardNext ==
    \/ Write
    \/ SendKey
    \/ \E ms \in Combos, fails \in BOOLEAN : EnterBlock(ms, fails)
    \/ LeaveBlock
    \/ RaiseFromBlock

KeyboardSpec == KeyboardInit /\ [][KeyboardNext]_keyboardVars

-----------------------------------------------------------------------------
\* The compositor types what was asked for, in order, without the characters
\* that have no symbol.
TypedAsAsked ==
    /\ KeyboardTypeOK
    /\ typed = [k \in DOMAIN asked |-> Symbol[asked[k]]]

\* The compositor has the modifiers the keyboard holds, also after a new key map
\* has reset them, and only caps lock is locked.  Neither they nor a key reach it
\* before the first key map.
ModifiersCurrent ==
    /\ ~refused
    /\ srv_mods.depressed \cup srv_mods.latched \cup srv_mods.locked = modifiers
    /\ srv_mods.depressed \cap srv_mods.locked = {}

\* A block keeps its modifiers until it ends, however the blocks inside it end,
\* but for those that a block inside it has too.  A modifier is held only for a
\* block that is open, or was left by an exception.
ModifiersHeld ==
    /\ (UNION ToSet(blocks)) \ overlapped \subseteq modifiers
    /\ modifiers \subseteq (UNION ToSet(blocks)) \cup broken
=============================================================================
