SPECIFICATION Spec
CONSTANTS
    None = None
    SdKinds = {"single"}
    Parts = {"sd"}
INVARIANT TransferIsItsOwn
CHECK_DEADLOCK FALSE
