CONSTANTS
  Dev = {"sd0a", "sd1a"}
  Id <- MCId
  filesystem <- MCfilesystem
  Elsewhere <- MCElsewhere
  NoDir <- MCNoDir
  Env = {"options"}
SPECIFICATION Spec
INVARIANTS
  EmptyWhenUnmounted
