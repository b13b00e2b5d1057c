CONSTANTS
  m1 = m1
  Medium = {m1}
  NoMedium = NoMedium
  NoDisk = NoDisk
  Letter <- MCLetter
  Label <- MCLabel
  DiskName = {"sd0"}
  CdName = {}
  MaxCds = 1
  Caller = {"p", "q"}
  MaxTicks = 1
SPECIFICATION SystemSpec
INVARIANTS
  SystemTypeOK
  RecordOfEveryBlock
  CallsHaveAnObject
  CallInv
PROPERTIES
  UnknownIsGone
  EveryCallAnswered
  ImplementsDiskThread
