CONSTANTS
  m1 = m1
  m2 = m2
  Medium = {m1, m2}
  NoMedium = NoMedium
  NoDisk = NoDisk
  Letter <- MCLetter
  Label <- MCLabel
  DiskName = {"cd0"}
  CdName = {"rcd0"}
  MaxCds = 2
  FdLimit = 2
  Optical = {"cd0"}
SPECIFICATION FdSpec
INVARIANTS
  IInv
  CdsArePublished
PROPERTY
  ConvergesOrExhausted
