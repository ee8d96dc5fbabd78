\* Every header of MCRequests.
SPECIFICATION HttpSpec
CONSTANTS
    MaxBody = 4
    SizeTMax = 6
    Requests <- MCRequests
INVARIANTS StatusNamesADefect TransformationsSucceed KeepAliveLogic
PROPERTIES PersistenceAsAnnounced MessagesStayInSync
