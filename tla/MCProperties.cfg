CONSTANTS
  m1 = m1
  m2 = m2
  Disk = {"sd0"}
  Cd = {"rcd0"}
  Optical = {}
  Medium = {m1, m2}
  Label <- MCLabel
  blockName <- MCBlockName
  Dir = {"/media/x"}
  MaxWire = 2
SPECIFICATION Spec
INVARIANTS
  TypeOK
  AnswersAreTyped
  GetAllMatchesSignals
  ManagedMatchesSignals
  MountKnownBeforeAnswer
  ObjectsInv
  SignalsInv
