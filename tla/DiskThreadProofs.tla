-------------------------- MODULE DiskThreadProofs --------------------------
(* Proofs about DiskThread, for every set of disks, media and labels.      *)
EXTENDS DiskThread, FiniteSetTheorems, TLAPS

(* A label's blocks carry partition letters; without a label there are none*)
(* (the loop of DiskLabel::analyseDev).                                    *)
LEMMA PartitionsType ==
  /\ \A m : Partitions(m) \subseteq Letter
  /\ Partitions(NoMedium) = {}
BY DEF Partitions

(* registerObject and unregisterObject keep the type of an object tree.    *)
LEMMA TreeType ==
  ASSUME NEW S, NEW tree \in [S -> MaybeMedium], NEW n \in S, NEW m \in MaybeMedium
  PROVE  /\ registerObject(tree, n, m) \in [S -> MaybeMedium]
         /\ unregisterObject(tree, n) \in [S -> MaybeMedium]
BY DEF registerObject, unregisterObject, MaybeMedium

(* The steps of ObjectManager's methods keep its types.                    *)
LEMMA DriveStepsType ==
  ASSUME OmTypeOK, NEW n \in DriveName, NEW m \in MaybeMedium,
         addDrive(n, m) \/ driveInterfacesAdded(n, m)
           \/ driveInterfacesRemoved(n) \/ unregisterDrive(n)
  PROVE  OmTypeOK'
<1>1. CASE addDrive(n, m)
  BY <1>1, TreeType DEF OmTypeOK, addDrive, newBlocks
<1>2. CASE driveInterfacesAdded(n, m)
  BY <1>2 DEF OmTypeOK, driveInterfacesAdded
<1>3. CASE driveInterfacesRemoved(n)
  BY <1>3 DEF OmTypeOK, driveInterfacesRemoved, MaybeMedium
<1>4. CASE unregisterDrive(n)
  BY <1>4, TreeType DEF OmTypeOK, unregisterDrive
<1> QED
  BY <1>1, <1>2, <1>3, <1>4

(* Adding and removing blocks keeps the types (addBlock, removeBlock).     *)
LEMMA BlockStepsType ==
  ASSUME OmTypeOK, NEW b \in BlockName, NEW m \in MaybeMedium,
         addBlock(b, m) \/ registerBlock(b, m)
           \/ blockInterfacesRemoved(b) \/ unregisterBlock(b)
  PROVE  OmTypeOK'
<1>1. CASE addBlock(b, m)
  BY <1>1 DEF OmTypeOK, addBlock, insertBlock
<1>2. CASE registerBlock(b, m)
  BY <1>2, TreeType DEF OmTypeOK, registerBlock
<1>3. CASE blockInterfacesRemoved(b)
  BY <1>3 DEF OmTypeOK, blockInterfacesRemoved, MaybeMedium
<1>4. CASE unregisterBlock(b)
  BY <1>4, TreeType DEF OmTypeOK, unregisterBlock
<1> QED
  BY <1>1, <1>2, <1>3, <1>4

(* So does the end of the process, which takes all objects with it.        *)
LEMMA ExitType == omExit => OmTypeOK'
BY DEF omExit, OmTypeOK, NoDrives, NoBlocks, MaybeMedium

(* The variables have their types at start-up (main).                      *)
LEMMA InitTypeOK == Init => TypeOK
BY DEF Init, Fresh, OmInit, TypeOK, OmTypeOK, NoDrives, NoBlocks, MaybeMedium, DriveName

(* A step of check() that leaves the objects alone keeps the types of the  *)
(* hashes, the tree and the client's view.                                 *)
LEMMA OmUnchangedType == OmTypeOK /\ UNCHANGED omVars => OmTypeOK'
BY DEF OmTypeOK, omVars

(* The list of disk names is finite, so its length is a number.            *)
LEMMA DisknamesLengthType == attached \in SUBSET DiskName => DisknamesLength \in Nat
<1> SUFFICES ASSUME attached \in SUBSET DiskName PROVE DisknamesLength \in Nat
  OBVIOUS
<1>1. \A S \in SUBSET DiskName : IsFiniteSet(S) /\ Cardinality(S) \in Nat
  BY FS_Subset, FS_CardinalityType, DiskThreadAssumption
<1> QED
  BY <1>1 DEF DisknamesLength

(* Every step keeps the types; the control part of the invariant is needed *)
(* to know that a disk is being worked on.                                 *)
LEMMA NextTypeOK == TypeOK /\ ControlInv /\ [Next]_vars => TypeOK'
<1> SUFFICES ASSUME TypeOK, ControlInv, [Next]_vars PROVE TypeOK'
  OBVIOUS
<1> USE DEF hardware
<1>1. CASE Timeout
  BY <1>1, OmUnchangedType DEF TypeOK, Timeout, DriveName
<1>2. ASSUME NEW c \in CdName, CdHandler(c) PROVE TypeOK'
  <2>1. medium[c] \in MaybeMedium /\ c \in DriveName
    BY DEF TypeOK, DriveName
  <2>2. OmTypeOK'
    BY <1>2, <2>1, DriveStepsType, OmUnchangedType DEF TypeOK, CdHandler, push_back
  <2> QED
    BY <1>2, <2>1, <2>2 DEF TypeOK, CdHandler, push_back
<1>3. ASSUME NEW c \in CdName, CdInterfacesAdded(c) PROVE TypeOK'
  <2>1. cur \in DriveName /\ m_driveObjects[cur] \in MaybeMedium
    BY <1>3 DEF CdInterfacesAdded, ControlInv, TypeOK, OmTypeOK, DriveName
  <2>2. OmTypeOK'
    BY <1>3, <2>1, DriveStepsType DEF CdInterfacesAdded, TypeOK
  <2> QED
    BY <1>3, <2>2 DEF TypeOK, CdInterfacesAdded
<1>4. CASE SysctlLength
  <2>1. DisknamesLength \in Nat
    BY DisknamesLengthType DEF TypeOK
  <2> QED
    BY <1>4, <2>1, OmUnchangedType DEF TypeOK, SysctlLength
<1>5. CASE SysctlNames \/ SysctlFails \/ GetCurrentDev \/ ReadPastEnd \/ Restart \/ AddDone
             \/ CompareNames
  BY <1>5, OmUnchangedType
     DEF TypeOK, SysctlNames, SysctlFails, GetCurrentDev, ReadPastEnd, Restart, AddDone,
         CompareNames, none_of,
         Labels, DriveName
<1>6. CASE Abort
  BY <1>6, ExitType DEF TypeOK, Abort, MaybeMedium
<1>7. ASSUME NEW d \in DiskName, AddNewDevices(d) PROVE TypeOK'
  <2>1. medium[d] \in MaybeMedium /\ d \in DriveName /\ Partitions(medium[d]) \subseteq Letter
    BY PartitionsType DEF TypeOK, DriveName
  <2>2. OmTypeOK'
    BY <1>7, <2>1, DriveStepsType, OmUnchangedType DEF TypeOK, AddNewDevices, find_if
  <2> QED
    BY <1>7, <2>1, <2>2 DEF TypeOK, AddNewDevices, find_if
<1>8. CASE DriveInterfacesAdded \/ DriveInterfacesRemoved \/ UnregisterDrive
  <2>1. cur \in DiskName /\ cur \in DriveName /\ diskLabels[cur] \in MaybeMedium
    BY <1>8 DEF DriveInterfacesAdded, DriveInterfacesRemoved, UnregisterDrive,
                ControlInv, adding, removing, TypeOK, DriveName
  <2>2. OmTypeOK'
    BY <1>8, <2>1, DriveStepsType
       DEF TypeOK, DriveInterfacesAdded, DriveInterfacesRemoved, UnregisterDrive
  <2> QED
    BY <1>8, <2>2 DEF TypeOK, DriveInterfacesAdded, DriveInterfacesRemoved, UnregisterDrive
<1>9. ASSUME NEW p \in Letter, AddBlock(p) \/ RemoveBlock(p) PROVE TypeOK'
  <2>1. <<cur, p>> \in BlockName /\ diskLabels[cur] \in MaybeMedium
    BY <1>9 DEF AddBlock, RemoveBlock, ControlInv, adding, removing, TypeOK, BlockName
  <2>2. OmTypeOK'
    BY <1>9, <2>1, BlockStepsType DEF TypeOK, AddBlock, RemoveBlock
  <2> QED
    BY <1>9, <2>2 DEF TypeOK, AddBlock, RemoveBlock
<1>10. CASE RegisterBlock \/ UnregisterBlock
  <2>1. <<cur, blk>> \in BlockName /\ diskLabels[cur] \in MaybeMedium
    BY <1>10, PartitionsType
       DEF RegisterBlock, UnregisterBlock, ControlInv, adding, removing, TypeOK, BlockName
  <2>2. OmTypeOK'
    BY <1>10, <2>1, BlockStepsType DEF TypeOK, RegisterBlock, UnregisterBlock
  <2> QED
    BY <1>10, <2>2 DEF TypeOK, RegisterBlock, UnregisterBlock
<1>11. ASSUME NEW d \in DiskName, RemoveDrive(d) PROVE TypeOK'
  BY <1>11, OmUnchangedType, PartitionsType DEF TypeOK, RemoveDrive, getBlocks, DriveName
<1>12. CASE RemoveDevices
  BY <1>12, OmUnchangedType DEF TypeOK, RemoveDevices, erase, MaybeMedium
<1>13. CASE Hardware
  BY <1>13, OmUnchangedType
     DEF TypeOK, Hardware, Attach, Detach, InsertMedium, RemoveMedium, Unused, MaybeMedium,
         checkVars, DriveName
<1>14. CASE UNCHANGED vars
  BY <1>14, OmUnchangedType DEF TypeOK, vars, checkVars
<1> QED
  BY <1>1, <1>2, <1>3, <1>4, <1>5, <1>6, <1>7, <1>8, <1>9, <1>10, <1>11, <1>12, <1>13, <1>14
     DEF Next, Check, ReadLabel, Proceed

-----------------------------------------------------------------------------
(* The inductive invariant.                                                *)

(* The invariant holds at start-up: no labels, no objects (main).          *)
LEMMA InitIInv == Init => IInv
<1> SUFFICES ASSUME Init PROVE IInv
  OBVIOUS
<1>1. ControlInv
  BY DiskThreadAssumption DEF Init, Fresh, ControlInv, adding, removing, DriveName
<1>2. DrivesInv
  BY DEF Init, Fresh, OmInit, NoDrives, DrivesInv, DriveObject, DriveName
<1>3. BlocksInv /\ RegisteredInv
  BY PartitionsType, DiskThreadAssumption
     DEF Init, Fresh, OmInit, NoBlocks, BlocksInv, RegisteredInv, Announced, Callable,
         DriveObject, DriveName, BlockName, adding
<1> QED
  BY <1>1, <1>2, <1>3, InitTypeOK DEF IInv

(* The position in the loops and what it says of the variables.            *)
LEMMA NextControlInv == TypeOK /\ ControlInv /\ [Next]_vars => ControlInv'
<1> SUFFICES ASSUME TypeOK, ControlInv, [Next]_vars PROVE ControlInv'
  OBVIOUS
<1> USE NameAssumption, DiskThreadAssumption
    DEF adding, removing, Labels, none_of, DriveName, hardware
<1>1. CASE Timeout \/ SysctlLength \/ SysctlNames \/ SysctlFails \/ GetCurrentDev
             \/ ReadPastEnd \/ Restart
  BY <1>1 DEF TypeOK, ControlInv, Timeout, SysctlLength, SysctlNames, SysctlFails, GetCurrentDev,
              ReadPastEnd, Restart
<1>2. ASSUME NEW c \in CdName, CdHandler(c) PROVE ControlInv'
  BY <1>2, DiskThreadAssumption DEF TypeOK, ControlInv, CdHandler, push_back
<1>3. ASSUME NEW c \in CdName, CdInterfacesAdded(c) PROVE ControlInv'
  BY <1>3 DEF TypeOK, ControlInv, CdInterfacesAdded
<1>4. CASE Abort
  BY <1>4 DEF TypeOK, ControlInv, Abort
<1>5. ASSUME NEW d \in DiskName, AddNewDevices(d) PROVE ControlInv'
  BY <1>5 DEF TypeOK, ControlInv, AddNewDevices, find_if
<1>6. CASE DriveInterfacesAdded \/ RegisterBlock \/ AddDone
  BY <1>6 DEF TypeOK, ControlInv, DriveInterfacesAdded, RegisterBlock, AddDone
<1>7. ASSUME NEW p \in Letter, AddBlock(p) PROVE ControlInv'
  BY <1>7 DEF TypeOK, ControlInv, AddBlock
<1>8. CASE CompareNames
  BY <1>8 DEF TypeOK, ControlInv, CompareNames
<1>9. ASSUME NEW d \in DiskName, RemoveDrive(d) PROVE ControlInv'
  BY <1>9 DEF TypeOK, ControlInv, RemoveDrive, getBlocks
<1>10. ASSUME NEW p \in Letter, RemoveBlock(p) PROVE ControlInv'
  BY <1>10 DEF TypeOK, ControlInv, RemoveBlock
<1>11. CASE UnregisterBlock \/ DriveInterfacesRemoved \/ UnregisterDrive
  BY <1>11 DEF TypeOK, ControlInv, UnregisterBlock, DriveInterfacesRemoved, UnregisterDrive
<1>12. CASE RemoveDevices
  BY <1>12 DEF TypeOK, ControlInv, RemoveDevices, erase
<1>13. CASE Hardware \/ UNCHANGED vars
  BY <1>13 DEF TypeOK, ControlInv, Hardware, vars, checkVars
<1> QED
  BY <1>1, <1>2, <1>3, <1>4, <1>5, <1>6, <1>7, <1>8, <1>9, <1>10, <1>11, <1>12, <1>13
     DEF Next, Check, ReadLabel, Proceed

(* The drives: driveTree, a client's view and the hash.                    *)
LEMMA NextDrivesInv == TypeOK /\ ControlInv /\ DrivesInv /\ [Next]_vars => DrivesInv'
<1> SUFFICES ASSUME TypeOK, ControlInv, DrivesInv, [Next]_vars PROVE DrivesInv'
  OBVIOUS
<1> USE NameAssumption, DiskThreadAssumption
    DEF TypeOK, OmTypeOK, adding, removing, Labels, DriveName, DriveObject, hardware
<1>1. CASE Timeout \/ SysctlLength \/ SysctlNames \/ SysctlFails \/ GetCurrentDev
             \/ ReadPastEnd \/ Restart
             \/ AddDone \/ CompareNames
  BY <1>1 DEF ControlInv, DrivesInv, omVars, Timeout, SysctlLength, SysctlNames, SysctlFails,
              GetCurrentDev,
              ReadPastEnd, Restart, AddDone, CompareNames, none_of
<1>2. ASSUME NEW c \in CdName, CdHandler(c) PROVE DrivesInv'
  <2>1. CASE medium[c] # NoMedium
    <3>1. \A d \in DiskName : /\ driveTree'[d] = driveTree[d]
                             /\ busDrives'[d] = busDrives[d]
                             /\ m_driveObjects'[d] = m_driveObjects[d]
      BY <1>2, <2>1 DEF CdHandler, push_back, addDrive, newBlocks, registerObject
    <3> QED
      BY <1>2, <2>1, <3>1 DEF ControlInv, DrivesInv, CdHandler, push_back
  <2>2. CASE medium[c] = NoMedium
    BY <1>2, <2>2 DEF DrivesInv, CdHandler, push_back, omVars
  <2> QED
    BY <2>1, <2>2
<1>3. ASSUME NEW c \in CdName, CdInterfacesAdded(c) PROVE DrivesInv'
  BY <1>3 DEF ControlInv, DrivesInv, CdInterfacesAdded, driveInterfacesAdded
<1>4. CASE Abort
  BY <1>4 DEF ControlInv, DrivesInv, Abort, omExit, NoDrives
<1>5. ASSUME NEW d \in DiskName, AddNewDevices(d) PROVE DrivesInv'
  <2>1. CASE diskLabels[d] = NoMedium /\ medium[d] # NoMedium
    <3>1. cur = NoDisk /\ toDelete = {} /\ driveTree[d] = NoMedium /\ busDrives[d] = NoMedium
      BY <1>5, <2>1 DEF ControlInv, DrivesInv, AddNewDevices, find_if
    <3>2. /\ driveTree' = [driveTree EXCEPT ![d] = medium[d]]
          /\ m_driveObjects' = [m_driveObjects EXCEPT ![d] = medium[d]]
          /\ busDrives' = busDrives
      BY <1>5, <2>1, <3>1 DEF AddNewDevices, find_if, addDrive, newBlocks, registerObject
    <3> QED
      BY <1>5, <2>1, <3>1, <3>2 DEF DrivesInv, AddNewDevices, find_if
  <2>2. CASE ~(diskLabels[d] = NoMedium /\ medium[d] # NoMedium)
    BY <1>5, <2>2 DEF DrivesInv, AddNewDevices, find_if, omVars
  <2> QED
    BY <2>1, <2>2
<1>6. CASE DriveInterfacesAdded
  BY <1>6 DEF ControlInv, DrivesInv, DriveInterfacesAdded, driveInterfacesAdded
<1>7. CASE RegisterBlock
  BY <1>7 DEF ControlInv, DrivesInv, RegisterBlock, registerBlock
<1>8. ASSUME NEW p \in Letter, AddBlock(p) PROVE DrivesInv'
  BY <1>8 DEF ControlInv, DrivesInv, AddBlock, addBlock, insertBlock
<1>9. ASSUME NEW d \in DiskName, RemoveDrive(d) PROVE DrivesInv'
  BY <1>9 DEF ControlInv, DrivesInv, RemoveDrive, getBlocks, omVars
<1>10. ASSUME NEW p \in Letter, RemoveBlock(p) PROVE DrivesInv'
  BY <1>10 DEF ControlInv, DrivesInv, RemoveBlock, blockInterfacesRemoved
<1>11. CASE UnregisterBlock
  BY <1>11 DEF ControlInv, DrivesInv, UnregisterBlock, unregisterBlock
<1>12. CASE DriveInterfacesRemoved
  BY <1>12 DEF ControlInv, DrivesInv, DriveInterfacesRemoved, driveInterfacesRemoved
<1>13. CASE UnregisterDrive
  BY <1>13 DEF ControlInv, DrivesInv, UnregisterDrive, unregisterDrive, unregisterObject
<1>14. CASE RemoveDevices
  BY <1>14 DEF ControlInv, DrivesInv, RemoveDevices, erase, omVars
<1>15. CASE Hardware \/ UNCHANGED vars
  BY <1>15 DEF DrivesInv, Hardware, vars, checkVars, omVars
<1> QED
  BY <1>1, <1>2, <1>3, <1>4, <1>5, <1>6, <1>7, <1>8, <1>9, <1>10, <1>11, <1>12, <1>13, <1>14,
     <1>15 DEF Next, Check, ReadLabel, Proceed

(* The blocks: blockTree, a client's view and the hash.                    *)
LEMMA NextBlocksInv ==
  TypeOK /\ ControlInv /\ BlocksInv /\ RegisteredInv /\ [Next]_vars => BlocksInv' /\ RegisteredInv'
<1> SUFFICES ASSUME TypeOK, ControlInv, BlocksInv, RegisteredInv, [Next]_vars
             PROVE  BlocksInv' /\ RegisteredInv'
  OBVIOUS
<1> USE NameAssumption, DiskThreadAssumption, PartitionsType
    DEF TypeOK, OmTypeOK, adding, removing, Labels, DriveName, DriveObject, Announced, Callable,
        BlockName, hardware
<1>1. CASE Timeout \/ SysctlLength \/ SysctlNames \/ SysctlFails \/ GetCurrentDev
             \/ ReadPastEnd \/ Restart
             \/ AddDone \/ CompareNames
  BY <1>1
     DEF ControlInv, BlocksInv, RegisteredInv, omVars, Timeout, SysctlLength, SysctlNames,
         SysctlFails,
         GetCurrentDev,
              ReadPastEnd, Restart, AddDone, CompareNames, none_of
<1>2. ASSUME NEW c \in CdName, CdHandler(c) PROVE BlocksInv' /\ RegisteredInv'
  <2>1. CASE medium[c] # NoMedium
    BY <1>2, <2>1
       DEF ControlInv, BlocksInv, RegisteredInv, CdHandler, push_back, addDrive, newBlocks
  <2>2. CASE medium[c] = NoMedium
    BY <1>2, <2>2 DEF BlocksInv, RegisteredInv, CdHandler, push_back, omVars
  <2> QED
    BY <2>1, <2>2
<1>3. ASSUME NEW c \in CdName, CdInterfacesAdded(c) PROVE BlocksInv' /\ RegisteredInv'
  BY <1>3 DEF ControlInv, BlocksInv, RegisteredInv, CdInterfacesAdded, driveInterfacesAdded
<1>4. CASE Abort
  BY <1>4 DEF ControlInv, BlocksInv, RegisteredInv, Abort, omExit, NoBlocks
<1>5. ASSUME NEW d \in DiskName, AddNewDevices(d) PROVE BlocksInv' /\ RegisteredInv'
  <2>1. CASE diskLabels[d] = NoMedium /\ medium[d] # NoMedium
    <3>1. cur = NoDisk /\ toDelete = {}
      BY <1>5, <2>1 DEF ControlInv, AddNewDevices, find_if
    <3>2. /\ \A p \in Letter : ~m_Registered'[<<d, p>>]
          /\ UNCHANGED <<m_blockObjects, blockTree, busBlocks>>
      BY <1>5, <2>1 DEF AddNewDevices, find_if, addDrive, newBlocks
    <3>3. /\ cur' = d /\ pc' = "driveAdded" /\ left' = Partitions(medium[d]) /\ toDelete' = {}
          /\ diskLabels' = [diskLabels EXCEPT ![d] = medium[d]]
      BY <1>5, <2>1, <3>1 DEF AddNewDevices, find_if
    <3>4. RegisteredInv'
      BY <3>2, <3>3 DEF RegisteredInv
    <3>5. \A p \in Letter : p \notin Announced(d)' /\ p \notin Callable(d)'
      BY <3>3
    <3>6. \A p \in Letter : p \notin Announced(d) /\ p \notin Callable(d)
      BY <2>1, <3>1
    <3>7. \A e \in DiskName \ {d} : /\ diskLabels'[e] = diskLabels[e]
                                   /\ Announced(e)' = Announced(e)
                                   /\ Callable(e)' = Callable(e)
      BY <3>1, <3>3
    <3>8. ASSUME NEW e \in DiskName, NEW p \in Letter
          PROVE  /\ busBlocks'[<<e, p>>] = IF p \in Announced(e)' THEN diskLabels'[e] ELSE NoMedium
                 /\ blockTree'[<<e, p>>] = IF p \in Callable(e)' THEN diskLabels'[e] ELSE NoMedium
                 /\ p \in Announced(e)' => m_blockObjects'[<<e, p>>] = diskLabels'[e]
      <4> HIDE DEF Announced, Callable
      <4>1. CASE e = d
        BY <3>2, <3>5, <3>6, <4>1 DEF BlocksInv
      <4>2. CASE e # d
        BY <3>2, <3>7, <4>2 DEF BlocksInv
      <4> QED
        BY <4>1, <4>2
    <3> QED
      BY <3>4, <3>8 DEF BlocksInv
  <2>2. CASE ~(diskLabels[d] = NoMedium /\ medium[d] # NoMedium)
    BY <1>5, <2>2 DEF BlocksInv, RegisteredInv, AddNewDevices, find_if, omVars
  <2> QED
    BY <2>1, <2>2
<1>6. CASE DriveInterfacesAdded
  BY <1>6 DEF ControlInv, BlocksInv, RegisteredInv, DriveInterfacesAdded, driveInterfacesAdded
<1>7. CASE RegisterBlock
  BY <1>7 DEF ControlInv, BlocksInv, RegisteredInv, RegisterBlock, registerBlock, registerObject
<1>8. ASSUME NEW p \in Letter, AddBlock(p) PROVE BlocksInv' /\ RegisteredInv'
  BY <1>8 DEF ControlInv, BlocksInv, RegisteredInv, AddBlock, addBlock, insertBlock
<1>9. ASSUME NEW d \in DiskName, RemoveDrive(d) PROVE BlocksInv' /\ RegisteredInv'
  BY <1>9 DEF ControlInv, BlocksInv, RegisteredInv, RemoveDrive, getBlocks, omVars
<1>10. ASSUME NEW p \in Letter, RemoveBlock(p) PROVE BlocksInv' /\ RegisteredInv'
  BY <1>10 DEF ControlInv, BlocksInv, RegisteredInv, RemoveBlock, blockInterfacesRemoved
<1>11. CASE UnregisterBlock
  BY <1>11
     DEF ControlInv, BlocksInv, RegisteredInv, UnregisterBlock, unregisterBlock, unregisterObject
<1>12. CASE DriveInterfacesRemoved
  BY <1>12 DEF ControlInv, BlocksInv, RegisteredInv, DriveInterfacesRemoved, driveInterfacesRemoved
<1>13. CASE UnregisterDrive
  BY <1>13 DEF ControlInv, BlocksInv, RegisteredInv, UnregisterDrive, unregisterDrive
<1>14. CASE RemoveDevices
  BY <1>14 DEF ControlInv, BlocksInv, RegisteredInv, RemoveDevices, erase, omVars
<1>15. CASE Hardware \/ UNCHANGED vars
  BY <1>15 DEF BlocksInv, RegisteredInv, Hardware, vars, checkVars, omVars
<1> QED
  BY <1>1, <1>2, <1>3, <1>4, <1>5, <1>6, <1>7, <1>8, <1>9, <1>10, <1>11, <1>12, <1>13, <1>14,
     <1>15 DEF Next, Check, ReadLabel, Proceed

(* At every step of check(), whatever the hardware does meanwhile, the     *)
(* labels and the position in the loops determine what is published.       *)
THEOREM Invariance == Spec => []IInv
<1>1. IInv /\ [Next]_vars => IInv'
  BY NextTypeOK, NextControlInv, NextDrivesInv, NextBlocksInv DEF IInv
<1> QED
  BY InitIInv, <1>1, PTL DEF Spec

(* All variables keep their types.                                         *)
THEOREM TypeCorrect == Spec => []TypeOK
<1>1. IInv => TypeOK
  BY DEF IInv
<1> QED
  BY Invariance, <1>1, PTL

-----------------------------------------------------------------------------
(* The safety properties follow from the invariant.                        *)

(* What the labels and the position in the loops say of the bus, the tree  *)
(* and the hashes contains what clients rely on (addDrive, addBlock,       *)
(* removeBlock, removeDrive).                                              *)
LEMMA InvariantImplies ==
  ASSUME IInv
  PROVE  QuiescentConsistency /\ AnnouncedIsCallable /\ ManagedCoversBus /\ BlockUnderDrive
<1>1. QuiescentConsistency
  <2> SUFFICES ASSUME pc = "idle" PROVE QuiescentConsistency
    BY DEF QuiescentConsistency
  <2>1. cur \notin DiskName /\ toDelete = {}
    BY DEF IInv, ControlInv, adding, removing
  <2>2. \A d \in DiskName : /\ DriveObject(d) = diskLabels[d]
                           /\ Announced(d) = Partitions(diskLabels[d])
                           /\ Callable(d) = Partitions(diskLabels[d])
    BY <2>1 DEF DriveObject, Announced, Callable
  <2>3. \A d \in DiskName : busDrives[d] = diskLabels[d] /\ driveTree[d] = diskLabels[d]
    BY <2>1, <2>2 DEF IInv, DrivesInv
  <2> QED
    BY <2>2, <2>3 DEF QuiescentConsistency, IInv, BlocksInv
<1>2. AnnouncedIsCallable
  BY DEF IInv, ControlInv, DrivesInv, BlocksInv, Announced, Callable, adding, removing,
         AnnouncedIsCallable
<1>3. ManagedCoversBus
  BY DEF IInv, DrivesInv, BlocksInv, DriveObject, BlockName, ManagedCoversBus
<1>4. BlockUnderDrive
  <2> SUFFICES ASSUME NEW d \in DiskName, NEW p \in Letter
               PROVE  /\ busBlocks[<<d, p>>] # NoMedium => busDrives[d] = busBlocks[<<d, p>>]
                      /\ blockTree[<<d, p>>] # NoMedium => driveTree[d] = blockTree[<<d, p>>]
    BY DEF BlockUnderDrive
  <2> QED
    BY PartitionsType
       DEF IInv, ControlInv, DrivesInv, BlocksInv, DriveObject, Announced, Callable,
           adding, removing
<1> QED
  BY <1>1, <1>2, <1>3, <1>4

(* Between two checks labels, object tree and bus agree (addNewDevices,    *)
(* removeDrive, removeDevices).                                            *)
THEOREM QuiescentlyConsistent == Spec => []QuiescentConsistency
BY Invariance, InvariantImplies, PTL

(* An announced object can be called, but for the one block between its    *)
(* signal and its registerObject (registerDrive, registerBlock).           *)
THEOREM AnnouncedCanBeCalled == Spec => []AnnouncedIsCallable
BY Invariance, InvariantImplies, PTL

(* GetManagedObjects misses nothing that a client was told of.             *)
THEOREM ManagedObjectsCoverBus == Spec => []ManagedCoversBus
BY Invariance, InvariantImplies, PTL

(* A block lies under a drive of the same label, on the bus and in the     *)
(* object tree (addNewDevices, removeDrive).                               *)
THEOREM BlocksUnderDrives == Spec => []BlockUnderDrive
BY Invariance, InvariantImplies, PTL

(* Where check() goes: the end of the loop over diskLabels ends it, and it *)
(* leaves the announcement of a CD drive by making it.                     *)
LEMMA NextPc ==
  ASSUME [Next]_vars
  PROVE  /\ pc = "remove" /\ pc' = "idle" => RemoveDevices
         /\ pc = "cdAdded" => \/ pc' = "cdAdded" /\ cur' = cur
                             \/ \E c \in CdName : CdInterfacesAdded(c)
<1>1. CASE pc = "remove" /\ pc' = "idle"
  <2>1. ~RemoveDevices => pc' # "idle" \/ pc # "remove"
    BY DEF Next, Check, ReadLabel, Proceed, Timeout, CdHandler, CdInterfacesAdded, SysctlLength,
       SysctlNames, SysctlFails, GetCurrentDev, Abort, ReadPastEnd, Restart, AddNewDevices,
       DriveInterfacesAdded, AddBlock, RegisterBlock, AddDone, CompareNames, RemoveDrive,
       RemoveBlock, UnregisterBlock, DriveInterfacesRemoved, UnregisterDrive, Hardware, vars,
       checkVars
  <2> QED
    BY <1>1, <2>1
<1>2. CASE pc = "cdAdded"
  <2>1. (\E c \in CdName : CdInterfacesAdded(c)) \/ Hardware \/ UNCHANGED vars
    BY <1>2 DEF Next, Check, ReadLabel, Proceed, Timeout, CdHandler, SysctlLength,
       SysctlNames, SysctlFails, GetCurrentDev, Abort, ReadPastEnd, Restart, AddNewDevices,
       DriveInterfacesAdded, AddBlock, RegisterBlock, AddDone, CompareNames, RemoveDrive,
       RemoveBlock, UnregisterBlock, DriveInterfacesRemoved, UnregisterDrive, RemoveDevices
  <2> QED
    BY <1>2, <2>1 DEF Hardware, vars, checkVars
<1> QED
  BY <1>1, <1>2

(* Only two steps take a disk's drive from the bus.                        *)
LEMMA NextRetracts ==
  ASSUME IInv, [Next]_vars, NEW d \in DiskName, busDrives[d] # NoMedium, busDrives'[d] = NoMedium
  PROVE  (DriveInterfacesRemoved /\ cur = d) \/ Abort
<1> USE NameAssumption, DiskThreadAssumption
    DEF IInv, TypeOK, OmTypeOK, adding, removing, DriveName
<1>1. CASE Timeout \/ SysctlLength \/ SysctlNames \/ SysctlFails \/ GetCurrentDev
             \/ ReadPastEnd \/ Restart
             \/ AddDone \/ CompareNames \/ RemoveDevices
  BY <1>1 DEF omVars, Timeout, SysctlLength, SysctlNames, SysctlFails, GetCurrentDev,
              ReadPastEnd, Restart, AddDone, CompareNames, RemoveDevices
<1>2. ASSUME NEW n \in DriveName, CdHandler(n) \/ AddNewDevices(n) \/ RemoveDrive(n)
      PROVE  busDrives' = busDrives
  BY <1>2 DEF CdHandler, AddNewDevices, RemoveDrive, addDrive, omVars
<1>3. ASSUME NEW c \in CdName, CdInterfacesAdded(c) PROVE busDrives'[d] = busDrives[d]
  BY <1>3 DEF CdInterfacesAdded, driveInterfacesAdded
<1>4. ASSUME NEW p \in Letter, AddBlock(p) \/ RemoveBlock(p) PROVE busDrives' = busDrives
  BY <1>4 DEF AddBlock, addBlock, RemoveBlock, blockInterfacesRemoved
<1>5. CASE RegisterBlock \/ UnregisterBlock \/ UnregisterDrive
  BY <1>5 DEF RegisterBlock, registerBlock, UnregisterBlock, unregisterBlock, UnregisterDrive,
     unregisterDrive
<1>6. CASE DriveInterfacesAdded
  BY <1>6 DEF DriveInterfacesAdded, driveInterfacesAdded, ControlInv, Labels
<1>7. CASE DriveInterfacesRemoved
  BY <1>7 DEF DriveInterfacesRemoved, driveInterfacesRemoved
<1>8. CASE Hardware \/ UNCHANGED vars
  BY <1>8 DEF Hardware, vars, omVars
<1> QED
  BY <1>1, <1>2, <1>3, <1>4, <1>5, <1>6, <1>7, <1>8 DEF Next, Check, ReadLabel, Proceed

(* The end of the loop over diskLabels leaves nothing published that the   *)
(* list does not name; a drive is retracted in the loop, which visits no   *)
(* other names, or at the end of the process.                              *)
LEMMA NextFollows ==
  ASSUME IInv, [Next]_vars
  PROVE  /\ pc = "remove" /\ pc' = "idle" => Published' \subseteq names
         /\ \A d \in DiskName :
              busDrives[d] # NoMedium /\ busDrives'[d] = NoMedium =>
                d \notin names \/ pc' = "dead"
<1>1. ASSUME pc = "remove", pc' = "idle" PROVE Published' \subseteq names
  <2>1. RemoveDevices
    BY <1>1, NextPc
  <2>2. todo = {} /\ cur \notin DiskName /\ busDrives' = busDrives
    BY <1>1, <2>1 DEF RemoveDevices, omVars, IInv, ControlInv, adding, removing
  <2>3. \A d \in DiskName : busDrives[d] # NoMedium => d \in Labels \ toDelete
    BY <2>2, DiskThreadAssumption DEF IInv, DrivesInv, DriveObject, Labels
  <2> QED
    BY <1>1, <2>2, <2>3 DEF Published, IInv, ControlInv, none_of
<1>2. ASSUME NEW d \in DiskName, busDrives[d] # NoMedium, busDrives'[d] = NoMedium
      PROVE  d \notin names \/ pc' = "dead"
  <2>1. (DriveInterfacesRemoved /\ cur = d) \/ Abort
    BY <1>2, NextRetracts
  <2>2. CASE DriveInterfacesRemoved /\ cur = d
    BY <2>2 DEF DriveInterfacesRemoved, IInv, ControlInv, removing, none_of
  <2>3. CASE Abort
    BY <2>3 DEF Abort
  <2> QED
    BY <2>1, <2>2, <2>3
<1> QED
  BY <1>1, <1>2

(* One check retracts what its list does not name, all of it, and nothing  *)
(* else (none_of, removeDrive, removeDevices).                             *)
THEOREM ChecksFollow == Spec => ChecksFollowTheList
BY Invariance, NextFollows, PTL DEF Spec, ChecksFollowTheList

-----------------------------------------------------------------------------
(* The CD drives.                                                          *)

(* Nothing but the loop over the CD names and the end of the process       *)
(* changes what is known and published of a CD drive.                      *)
LEMMA CdsUntouched ==
  ASSUME IInv, [Next]_vars, ~Abort,
         \A c \in CdName : ~CdHandler(c) /\ ~CdInterfacesAdded(c)
  PROVE  \A c \in CdName : /\ driveTree'[c] = driveTree[c]
                           /\ busDrives'[c] = busDrives[c]
                           /\ m_driveObjects'[c] = m_driveObjects[c]
                           /\ m_cds'[c] = m_cds[c]
<1> USE NameAssumption, DiskThreadAssumption
    DEF IInv, TypeOK, OmTypeOK, adding, removing, DriveName, hardware
<1>1. CASE Timeout \/ SysctlLength \/ SysctlNames \/ SysctlFails \/ GetCurrentDev
             \/ ReadPastEnd \/ Restart
             \/ AddDone \/ CompareNames \/ RemoveDevices
  BY <1>1 DEF omVars, Timeout, SysctlLength, SysctlNames, SysctlFails, GetCurrentDev,
              ReadPastEnd, Restart, AddDone, CompareNames, RemoveDevices
<1>2. ASSUME NEW d \in DiskName, AddNewDevices(d) \/ RemoveDrive(d)
      PROVE  \A c \in CdName : /\ driveTree'[c] = driveTree[c]
                               /\ busDrives'[c] = busDrives[c]
                               /\ m_driveObjects'[c] = m_driveObjects[c]
                               /\ m_cds'[c] = m_cds[c]
  BY <1>2 DEF AddNewDevices, RemoveDrive, addDrive, registerObject, omVars
<1>3. ASSUME NEW p \in Letter, AddBlock(p) \/ RemoveBlock(p)
      PROVE  /\ UNCHANGED <<driveTree, busDrives, m_driveObjects, m_cds>>
  BY <1>3 DEF AddBlock, addBlock, RemoveBlock, blockInterfacesRemoved
<1>4. CASE RegisterBlock \/ UnregisterBlock
  BY <1>4 DEF RegisterBlock, registerBlock, UnregisterBlock, unregisterBlock
<1>5. CASE DriveInterfacesAdded \/ DriveInterfacesRemoved \/ UnregisterDrive
  <2>1. cur \in DiskName
    BY <1>5 DEF ControlInv, DriveInterfacesAdded, DriveInterfacesRemoved, UnregisterDrive
  <2> QED
    BY <1>5, <2>1 DEF DriveInterfacesAdded, driveInterfacesAdded, DriveInterfacesRemoved,
       driveInterfacesRemoved, UnregisterDrive, unregisterDrive, unregisterObject
<1>6. CASE Hardware \/ UNCHANGED vars
  BY <1>6 DEF Hardware, vars, checkVars, omVars
<1> QED
  BY <1>1, <1>2, <1>3, <1>4, <1>5, <1>6 DEF Next, Check, ReadLabel, Proceed

(* A CD drive's step of check() leaves the other CD drives alone.          *)
LEMMA NextCds == IInv /\ CdsArePublished /\ [Next]_vars => CdsArePublished'
<1> SUFFICES ASSUME IInv, CdsArePublished, [Next]_vars, NEW c \in CdName
             PROVE  /\ m_cds'[c] > 0 <=> driveTree'[c] # NoMedium
                    /\ busDrives'[c] # NoMedium => m_cds'[c] > 0
                    /\ busDrives'[c] # m_driveObjects'[c] => pc' = "cdAdded" /\ cur' = c
  BY DEF CdsArePublished
<1>0. c \in DriveName /\ c # NoDisk /\ m_cds[c] \in Nat
  BY DiskThreadAssumption DEF IInv, TypeOK, DriveName
<1>1. ASSUME NEW e \in CdName, CdHandler(e)
      PROVE  /\ m_cds'[c] > 0 <=> driveTree'[c] # NoMedium
             /\ busDrives'[c] # NoMedium => m_cds'[c] > 0
             /\ busDrives'[c] # m_driveObjects'[c] => pc' = "cdAdded" /\ cur' = c
  <2>1. CASE medium[e] # NoMedium
    <3>1. /\ m_cds' = push_back(e) /\ pc = "cds" /\ pc' = "cdAdded" /\ cur' = e
          /\ driveTree' = registerObject(driveTree, e, medium[e])
          /\ m_driveObjects' = [m_driveObjects EXCEPT ![e] = medium[e]]
          /\ busDrives' = busDrives
      BY <1>1, <2>1 DEF CdHandler, addDrive
    <3>2. m_cds'[c] = IF c = e /\ m_cds[c] < MaxCds THEN m_cds[c] + 1 ELSE m_cds[c]
      BY <1>0, <3>1 DEF push_back, IInv, TypeOK
    <3>3. c = e => m_cds'[c] > 0
      BY <1>0, <3>2, DiskThreadAssumption
    <3>4. c = e => driveTree'[c] # NoMedium
      BY <1>0, <2>1, <3>1 DEF registerObject, IInv, TypeOK, OmTypeOK
    <3>5. c # e => /\ driveTree'[c] = driveTree[c] /\ m_cds'[c] = m_cds[c]
                   /\ m_driveObjects'[c] = m_driveObjects[c]
      BY <1>0, <3>1, <3>2 DEF registerObject, IInv, TypeOK, OmTypeOK
    <3> QED
      BY <3>1, <3>3, <3>4, <3>5 DEF CdsArePublished
  <2>2. CASE medium[e] = NoMedium
    BY <1>1, <2>2 DEF CdHandler, omVars, CdsArePublished
  <2> QED
    BY <2>1, <2>2
<1>2. ASSUME NEW e \in CdName, CdInterfacesAdded(e)
      PROVE  /\ m_cds'[c] > 0 <=> driveTree'[c] # NoMedium
             /\ busDrives'[c] # NoMedium => m_cds'[c] > 0
             /\ busDrives'[c] # m_driveObjects'[c] => pc' = "cdAdded" /\ cur' = c
  BY <1>0, <1>2 DEF CdInterfacesAdded, driveInterfacesAdded, CdsArePublished, IInv, ControlInv,
     TypeOK, OmTypeOK
<1>3. CASE Abort
  BY <1>0, <1>3 DEF Abort, omExit, NoDrives
<1>4. CASE ~Abort /\ \A e \in CdName : ~CdHandler(e) /\ ~CdInterfacesAdded(e)
  <2>1. pc = "cdAdded" /\ cur = c => pc' = "cdAdded" /\ cur' = c
    BY <1>4, NextPc
  <2> QED
    BY <1>4, <2>1, CdsUntouched DEF CdsArePublished
<1> QED
  BY <1>1, <1>2, <1>3, <1>4

(* What was announced of a CD drive is held, in the hash with the medium   *)
(* last announced, and callable, however often check() adds the drive      *)
(* (CdHandler, addDrive).                                                  *)
THEOREM CdsPublished == Spec => []CdsArePublished
<1>1. Init => CdsArePublished
  BY DEF Init, Fresh, OmInit, NoDrives, DriveName, CdsArePublished
<1> QED
  BY Invariance, NextCds, <1>1, PTL DEF Spec
=============================================================================
