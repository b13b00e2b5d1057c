CONSTANTS
  Dev = {"sd0a", "sd1a"}
  Id <- MCId
  filesystem <- MCfilesystem
  Elsewhere <- MCElsewhere
  NoDir <- MCNoDir
  Env = {"umount"}
SPECIFICATION Spec
PROPERTIES
  BypassIsCleanedUp
