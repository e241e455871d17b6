SPECIFICATION MCSpec
CONSTANTS
    Networks = {n1, n2}
    Good = {n1}
    None = None
    Empty = Empty
    OffMarker = OffMarker
    MaxEvents = 1
    Actors = {"panel", "console"}
    n1 = n1
    n2 = n2
INVARIANTS
    TypeOK
    OnlyAcceptedPasswordsAreSaved
    StackNeedsItsLink
    OffMeansQuiet
    RefusedPasswordIsDropped
    EveryTokenIsAnswered
    StartupGivesUp
PROPERTIES
    SettlesAtTheConsole
