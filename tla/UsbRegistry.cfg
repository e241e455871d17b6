SPECIFICATION Spec
CONSTANTS
  PortCount = 2
  IdLimit = 4
  GiveUp = 1
  Drives = {stick, twin}
  Hids = {keys}
  HubDevice = hubDevice
  Nothing = nothing
  MaxMoves = 4
INVARIANTS TypeOK NumbersDistinct
PROPERTIES AutomountMissesNothing UntouchedDriveKeepsItsNumber ImplementsNumbers
VIEW Seen
