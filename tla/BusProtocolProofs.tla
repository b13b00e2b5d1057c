------------------------- MODULE BusProtocolProofs -------------------------
(* DiskThread implements BusProtocol.                                      *)
EXTENDS DiskThreadProofs

(* The state of BusProtocol that a state of DiskThread stands for.         *)
drives == [d \in DiskName |-> busDrives[d]]
leaving == IF pc \in {"removeBlocks", "blockRemoved"} THEN {cur} ELSE {}

busState == <<drives, busBlocks, leaving>>

(* At start-up nothing has been announced (main).                          *)
LEMMA InitBus == Init => Bus!BusInit
BY DEF Init, OmInit, NoDrives, NoBlocks, Fresh, BlockName, DriveName, Bus!BusInit, Bus!BlockOf

(* BusProtocol and DiskThread mean the same blocks by a label.             *)
LEMMA SamePartitions == \A m : Bus!Partitions(m) = Partitions(m)
BY DEF Bus!Partitions, Partitions, Bus!isValidFileSysetem, isValidFileSysetem

(* A step that changes neither the client's view nor the removal at work.  *)
LEMMA Stutters ==
  ASSUME UNCHANGED <<busDrives, busBlocks>>, leaving' = leaving
  PROVE  UNCHANGED Bus!busVars
BY DEF Bus!busVars, leaving

(* Every step of check() sends what BusProtocol allows, or nothing.        *)
LEMMA NextBus == IInv /\ [Next]_vars => [Bus!BusNext]_Bus!busVars
<1> SUFFICES ASSUME IInv, [Next]_vars PROVE Bus!BusNext \/ UNCHANGED Bus!busVars
  OBVIOUS
<1> USE NameAssumption, DiskThreadAssumption, PartitionsType, SamePartitions
<1> USE DEF IInv, adding, removing
<1>1. CASE Timeout \/ SysctlLength \/ SysctlNames \/ SysctlFails \/ GetCurrentDev
             \/ ReadPastEnd \/ Restart
             \/ AddDone \/ CompareNames \/ RegisterBlock \/ UnregisterBlock \/ UnregisterDrive
             \/ RemoveDevices
  BY <1>1, Stutters
     DEF leaving, omVars, Timeout, SysctlLength, SysctlNames, SysctlFails, GetCurrentDev,
         ReadPastEnd, Restart, AddDone, CompareNames, none_of, RegisterBlock, UnregisterBlock,
         UnregisterDrive, RemoveDevices, erase, registerBlock, unregisterBlock, unregisterDrive
<1>2. ASSUME NEW c \in CdName, CdHandler(c) PROVE UNCHANGED Bus!busVars
  BY <1>2, Stutters DEF leaving, CdHandler, push_back, addDrive, newBlocks, omVars
<1>3. ASSUME NEW c \in CdName, CdInterfacesAdded(c) PROVE UNCHANGED Bus!busVars
  BY <1>3 DEF Bus!busVars, CdInterfacesAdded, driveInterfacesAdded, ControlInv, TypeOK, OmTypeOK
<1>4. CASE Abort
  <2>1. Bus!Vanish
    BY <1>4 DEF Bus!Vanish, Bus!BlockOf, Abort, omExit, NoDrives, NoBlocks, BlockName, DriveName
  <2> QED
    BY <2>1 DEF Bus!BusNext
<1>5. ASSUME NEW d \in DiskName, AddNewDevices(d) PROVE UNCHANGED Bus!busVars
  BY <1>5, Stutters DEF leaving, AddNewDevices, find_if, addDrive, newBlocks, omVars
<1>6. CASE DriveInterfacesAdded
  <2>1. /\ cur \in DiskName /\ diskLabels[cur] \in Medium
        /\ left = Partitions(diskLabels[cur])
    BY <1>6 DEF DriveInterfacesAdded, ControlInv, TypeOK, Labels, MaybeMedium
  <2>2. busDrives[cur] = NoMedium /\ \A p \in Letter : busBlocks[<<cur, p>>] = NoMedium
    BY <1>6, <2>1 DEF DriveInterfacesAdded, DrivesInv, BlocksInv, Announced
  <2>3. drives' = [drives EXCEPT ![cur] = diskLabels[cur]] /\ busBlocks' = busBlocks
    BY <1>6, <2>1
       DEF DriveInterfacesAdded, driveInterfacesAdded, drives, TypeOK, OmTypeOK, DriveName
  <2>4. PICK d \in DiskName : d = cur
    BY <2>1
  <2>5. Bus!AnnounceDrive(d)
    BY <1>6, <2>1, <2>2, <2>3, <2>4 DEF Bus!AnnounceDrive, DriveInterfacesAdded, drives
  <2> QED
    BY <2>5 DEF Bus!BusNext
<1>7. ASSUME NEW p \in Letter, AddBlock(p) PROVE Bus!BusNext
  <2>1. cur \in DiskName /\ p \in Partitions(diskLabels[cur])
    BY <1>7 DEF AddBlock, ControlInv
  <2>2. busDrives[cur] = diskLabels[cur] /\ busBlocks[<<cur, p>>] = NoMedium
    BY <1>7, <2>1 DEF AddBlock, DrivesInv, DriveObject, BlocksInv, Announced
  <2>3. /\ busBlocks' = [busBlocks EXCEPT ![<<cur, p>>] = diskLabels[cur]]
        /\ busDrives' = busDrives
        /\ pc' \in {"addBlocks", "blockAdded"}
    BY <1>7, <2>1 DEF AddBlock, addBlock, insertBlock, RegisteredInv
  <2>4. drives[cur] = diskLabels[cur] /\ p \in Partitions(drives[cur])
    BY <2>1, <2>2 DEF drives
  <2>5. Bus!AnnounceBlock(cur, p)
    BY <1>7, <2>1, <2>2, <2>3, <2>4 DEF Bus!AnnounceBlock, AddBlock, drives
  <2> QED
    BY <2>1, <2>5 DEF Bus!BusNext
<1>8. ASSUME NEW d \in DiskName, RemoveDrive(d) PROVE Bus!BusNext
  <2>1. diskLabels[d] # NoMedium /\ d \notin toDelete /\ d # cur
    <3>1. pc = "remove" /\ d \in todo
      BY <1>8 DEF RemoveDrive
    <3>2. ~adding /\ ~removing
      BY <3>1 DEF adding, removing
    <3>3. cur \notin DiskName
      BY <3>2 DEF ControlInv
    <3>4. d \in Labels /\ d \notin toDelete
      BY <3>1 DEF ControlInv, none_of, Labels
    <3> QED
      BY <3>3, <3>4 DEF Labels
  <2>2. busDrives[d] = diskLabels[d]
    BY <2>1 DEF DrivesInv, DriveObject
  <2>3. \A p \in Partitions(diskLabels[d]) : busBlocks[<<d, p>>] = diskLabels[d]
    BY <2>1 DEF BlocksInv, DriveObject, Announced
  <2>4. drives[d] # NoMedium /\ \A p \in Partitions(drives[d]) : busBlocks[<<d, p>>] = drives[d]
    BY <2>1, <2>2, <2>3 DEF drives
  <2>5. drives' = drives /\ busBlocks' = busBlocks
    BY <1>8 DEF RemoveDrive, getBlocks, omVars, drives
  <2>6. Bus!StartLeaving(d)
    BY <1>8, <2>4, <2>5 DEF Bus!StartLeaving, RemoveDrive, getBlocks, drives
  <2> QED
    BY <2>6 DEF Bus!BusNext
<1>9. ASSUME NEW p \in Letter, RemoveBlock(p) PROVE Bus!BusNext
  <2>1. cur \in DiskName /\ Bus!RetractBlock(cur, p)
    BY <1>9 DEF Bus!RetractBlock, RemoveBlock, blockInterfacesRemoved, ControlInv,
       BlocksInv, Announced, Labels
  <2> QED
    BY <2>1 DEF Bus!BusNext
<1>10. CASE DriveInterfacesRemoved
  <2>1. PICK d \in DiskName : d = cur
    BY <1>10 DEF DriveInterfacesRemoved, ControlInv
  <2>2. Bus!RetractDrive(d)
    BY <1>10, <2>1 DEF Bus!RetractDrive, DriveInterfacesRemoved, driveInterfacesRemoved,
       ControlInv, BlocksInv, Announced, Labels, TypeOK, OmTypeOK, DriveName
  <2> QED
    BY <2>2 DEF Bus!BusNext
<1>11. CASE Hardware \/ UNCHANGED vars
  BY <1>11, Stutters DEF leaving, Hardware, vars, checkVars, omVars
<1> QED
  BY <1>1, <1>2, <1>3, <1>4, <1>5, <1>6, <1>7, <1>8, <1>9, <1>10, <1>11
     DEF Next, Check, ReadLabel, Proceed

(* Every behaviour of the daemon is one the protocol allows: order of the  *)
(* signals, one label per drive and its blocks, retraction as a whole      *)
(* (addDrive, addBlock, removeDrive, removeBlock).                         *)
THEOREM ImplementsBusProtocol == Spec => BusProtocolHolds
BY InitBus, NextBus, Invariance, PTL DEF Spec, BusProtocolHolds, Bus!BusSpec
=============================================================================
