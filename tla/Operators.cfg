\* The walk stops at its end, or where it is abandoned.
SPECIFICATION Spec
CHECK_DEADLOCK FALSE
CONSTANTS
    File <- MCFile
    Object <- MCObject
    ByName <- MCByName
    Under <- MCUnder
    Selections <- MCSelections
INVARIANTS
    TreeRestored
    SlotsOnce
    DistinctPrograms
    MeansWhatItSays
