SPECIFICATION Spec
CONSTANTS
    None = None
    SdKinds = {"multi", "write", "io"}
    Parts = {"hcd", "periodic", "bus", "sources", "store", "sd", "disk", "download", "tree",
             "fingers", "buttons", "keyboard", "console"}
INVARIANTS
    ReportsAreTrue
    ResourcesAreLeftClean
    InputArrivesWhereItWasMeant
PROPERTIES
    StepsKeepTheirPromises
CHECK_DEADLOCK FALSE
