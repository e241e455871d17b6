SPECIFICATION Spec
CONSTANTS
  ram = ram
  usb = usb
  memory = memory
  stick = stick
  twin = twin
  tmp = tmp
  vol = vol
  note = note
  left = left
  right = right
  Volumes = {ram, usb}
  RamVolume = ram
  Devices = {ram, usb}
  Ram = ram
  UsbIds = {usb}
  DeviceOf <- MCDeviceOf
  Partitions = {1}
  PartitionOf <- MCPartitionOf
  Media = {memory, stick, twin}
  RamMedium = memory
  NoMedium = NoMedium
  BlockCount <- MCBlockCount
  FormatOf <- MCFormatOf
  Sources = {"pages"}
  Ports = {left, right}
  NoPort = NoPort
  Tmp = tmp
  Vol = vol
  FoldOf <- MCFoldOf
  Paths <- MCPaths
  Tree <- MCTree
  Tree0 <- MCTree0
  MaxMounts = 2
  MaxOpenFiles = 1
  MaxSize = 1
  MaxGeneration = 4
  MaxEpoch = 1
INVARIANTS TypeOK ReadableMeansUninterrupted
PROPERTIES StaleStaysStale 
SYMMETRY MCSymmetry
CHECK_DEADLOCK FALSE
