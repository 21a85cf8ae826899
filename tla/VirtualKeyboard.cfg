SPECIFICATION KeyboardSpec
CONSTANTS
    Chars <- MCChars
    KeyNames <- MCKeyNames
    Lower <- MCLower
    Symbol <- MCSymbol
    Texts <- MCTexts
    Combos <- MCCombos
    MaxDepth = 3
INVARIANTS TypedAsAsked ModifiersCurrent ModifiersHeld
CHECK_DEADLOCK FALSE
