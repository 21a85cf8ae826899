SPECIFICATION Spec
CONSTANTS
    Names <- MCNames
    AtStart <- MCStart
    Hotplug = {"wl_output", "wl_seat"}
    Managers = {"wl_seat"}
    Offered <- MCOffered
    Version <- MCVersion
    Holders = {"t1"}
    MaxGlobals = 4
    MaxBinds = 4
    MaxMoves = 2
INVARIANTS TablesInverse ViewsAgree OutputsFound
PROPERTY BindsValid
CHECK_DEADLOCK FALSE
