SPECIFICATION FairSpec
CONSTANTS
    MaxId = 5
    RemoteIds = {r1}
    Kinds = {"keep", "silent", "forget", "remote", "group"}
    MaxObjects = 4
    MaxEvents = 1
INVARIANTS TypeOK NeverRejected NoMisrouting RaisesExplained TablesAgree
PROPERTIES LeaseSpec RepliesCome
CHECK_DEADLOCK FALSE
