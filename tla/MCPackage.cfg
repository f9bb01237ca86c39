CONSTANTS
    Heaps <- Models
    Root <- ModelRoot
    MaxStream = 60
    ClassOrders <- Orders
    Versions <- OtherVersions
    Layout <- ModelLayout
SPECIFICATION Spec
INVARIANTS TypeOK WrittenInReadOrder LoadedIsSaved UnfinishedIsRefused
PROPERTY CallsEnd
CHECK_DEADLOCK FALSE
