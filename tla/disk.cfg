CONSTANTS
  NULL = NULL
  Commands <- MCCommands
  Disks <- MCDisks
  Dirs <- MCDirs
  Names <- MCNames
  Buf = 2
  Units <- MCUnits
  Rooms = {2, 20}
  Breaks = 1
  Contents <- MCContents
  Valuable <- MCValuable
  ReadOnly <- MCReadOnly
CHECK_DEADLOCK FALSE
SPECIFICATION DiskSpec
INVARIANTS
  EnvAlive
  NoPartialTarget
  NothingHeld
  DoneAsTold
  ListsRight
  DescriptionsKept
  FindsAll
PROPERTIES
  SafeTransfer
