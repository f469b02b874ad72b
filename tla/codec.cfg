CONSTANTS
    Ids <- AllIds
    Cdaps <- AllCdaps
    NeighborLists <- AllNeighborLists
    Enrollments <- AllEnrollments
    Flows <- AllFlows
    Unknowns <- AllUnknowns
    Numbers <- AllNumbers
    Lengths = {0, 19, 20, 39, 40, 512, 513}
    MaxEdits = 1
    SerValSize = 16
    CdapSize = 1088
    FlowSize = 2640
SPECIFICATION Spec
CHECK_DEADLOCK FALSE
INVARIANTS RoundTrip OrderIrrelevant TextsEnd VarintsAgree EncodedFits
