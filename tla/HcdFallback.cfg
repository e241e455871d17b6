SPECIFICATION Spec
CONSTANTS
    None = None
    SdKinds = {"multi"}
    Parts = {"periodic"}
INVARIANT FallbackPidAgrees
CHECK_DEADLOCK FALSE
