SPECIFICATION Spec
CONSTANTS
    None = None
    NavLinks = {"p"}
    Parts = {"nav"}
PROPERTY GoingBackLeavesTheResult
CHECK_DEADLOCK FALSE
