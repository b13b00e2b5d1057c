CONSTANTS
  m1 = m1
  m2 = m2
  Medium = {m1, m2}
  NoMedium = NoMedium
  NoDisk = NoDisk
  Letter <- MCLetter
  Label <- MCLabel
  DiskName = {"sd0", "sd1"}
  CdName = {}
  MaxCds = 1
SPECIFICATION RestSpec
INVARIANTS
  BothFieldsPresent
