-------------------------- MODULE MCVirtualKeyboard --------------------------
\* VirtualKeyboard for TLC: two letters, a character without a symbol and one
\* with the symbol of a named key; a name in two spellings and a name unknown.
EXTENDS VirtualKeyboard

MCChars == {"a", "b", "emoji", "newline"}
MCKeyNames == {"return", "Return", "bogus"}
MCLower == [n \in MCKeyNames |-> IF n = "Return" THEN "return" ELSE n]
MCSymbol == [n \in MCChars \cup MCKeyNames |->
                CASE n \in {"newline", "return", "Return"} -> "Return"
                  [] n \in {"emoji", "bogus"} -> "none"
                  [] OTHER -> n]
MCTexts == {<<>>, <<"b", "a">>, <<"a", "emoji", "newline">>}
MCCombos == {{"shift"}, {"capslock", "shift"}}
=============================================================================
