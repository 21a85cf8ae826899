SPECIFICATION Spec
CONSTANTS
    Base = 8
    Requests <- MCRequests
    Events <- MCEvents
    NumStates = 3
INVARIANTS RequestsWellFormed EventsUnderstood
CHECK_DEADLOCK FALSE
