SPECIFICATION Spec
CONSTANTS
    Ids = {i1, i2, i3}
    MaxObjects = 3
    MaxChanges = 2
    MaxCalls = 2
SYMMETRY Symmetry
INVARIANTS SyncedView FailsOnlyAfterDestroy
CHECK_DEADLOCK FALSE
