SPECIFICATION PanelSpec
CONSTANTS
    Ids = {i1, i2}
    Titles = {a, b}
    NoTitle = NoTitle
    NoButton = NoButton
    MaxWindows = 2
    MaxChanges = 1
    MaxClicks = 1
SYMMETRY Symmetry
INVARIANTS PanelShows RequestsMeant
CHECK_DEADLOCK FALSE
