CONSTANTS
  Dev = {"sd0a", "sd1a", "sd1d"}
  Id <- MCId
  filesystem <- MCfilesystem
  Elsewhere <- MCElsewhere
  NoDir <- MCNoDir
  Env = {"crash"}
SPECIFICATION Spec
INVARIANTS
  AloneInv
  DirsInv
  NoLeftoverDirs
  RecordIsKernel
  NoStackedMounts
PROPERTIES
  UnmountsOwn
  ImplementsMountService
