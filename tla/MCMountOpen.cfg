CONSTANTS
  Dev = {"sd0a"}
  Id <- MCId
  filesystem <- MCfilesystem
  Elsewhere <- MCElsewhere
  NoDir <- MCNoDir
  Env = {"crash", "orphan", "fork", "getmntinfo", "options", "umount", "mount", "files"}
SPECIFICATION Spec
INVARIANTS
  OpenInv
  AtMostOneMountPoint
  SeenCoversRecord
PROPERTIES
  EveryCallEnds
