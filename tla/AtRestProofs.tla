---------------------------- MODULE AtRestProofs ----------------------------
(* Proofs about AtRest, for every set of disks, CDs, media and labels.     *)
EXTENDS AtRest, DiskThreadProofs

(* A step that is watched is a step of the daemon or of the hardware.      *)
LEMMA RestSteps == [RestNext]_restVars => [Next]_vars
BY DEF RestNext, restVars

(* Keeping the history does not change what the daemon does.               *)
LEMMA WatchingIsHarmless == RestSpec => Spec
<1>1. RestInit => Init
  BY DEF RestInit
<1> QED
  BY <1>1, RestSteps, PTL DEF RestSpec, Spec

(* The daemon's invariant holds whether or not the kernel keeps still.     *)
LEMMA RestIInv == RestSpec => []IInv
BY WatchingIsHarmless, Invariance, PTL

(* While the kernel keeps still and answers, a step is one of check() in   *)
(* which no sysctl fails, and but for the timer's tick the check had begun *)
(* before it.                                                              *)
LEMMA StillSteps ==
  ASSUME IInv, [RestNext]_restVars, still'
  PROVE  /\ attached' = attached /\ medium' = medium
         /\ Readable' = Readable /\ DisknamesLength' = DisknamesLength
         /\ pc' # "dead" \/ UNCHANGED <<vars, still>>
         /\ ~SysctlFails
         /\ still \/ Timeout
<1>1. CASE UNCHANGED restVars
  BY <1>1 DEF restVars, vars, checkVars, hardware, Readable, DisknamesLength, SysctlFails
<1>2. CASE RestNext
  <2>1. UNCHANGED hardware /\ ~SysctlFails /\ pc' # "dead" /\ (still
  \/ (pc = "idle" /\ pc' = "cds"))
    BY <1>2 DEF RestNext, Watch
  <2>2. pc = "idle" /\ pc' = "cds" => Timeout
    BY <1>2 DEF RestNext, Next, Check, ReadLabel, Proceed, CdHandler, CdInterfacesAdded,
       SysctlLength, SysctlNames, SysctlFails, GetCurrentDev, Abort, ReadPastEnd, Restart,
       AddNewDevices,
       DriveInterfacesAdded, AddBlock, RegisterBlock, AddDone, CompareNames, RemoveDrive,
       RemoveBlock, UnregisterBlock, DriveInterfacesRemoved, UnregisterDrive, RemoveDevices,
       Hardware, checkVars
  <2>3. Readable' = Readable /\ DisknamesLength' = DisknamesLength
    BY <2>1 DEF hardware, Readable, DisknamesLength
  <2> QED
    BY <2>1, <2>2, <2>3 DEF hardware
<1> QED
  BY <1>1, <1>2

(* Both calls of sysctl see the same list, and the check works with it     *)
(* (readDisknames, getCurrentDev).                                         *)
LEMMA NextListInv ==
  ASSUME IInv, still => ListInv, [RestNext]_restVars, still'
  PROVE  ListInv'
<1> USE DEF adding, removing
<1>0. /\ attached' = attached /\ DisknamesLength' = DisknamesLength
      /\ pc' # "dead" \/ UNCHANGED <<vars, still>>
      /\ ~SysctlFails
      /\ still \/ Timeout
  BY StillSteps
<1>1. CASE Timeout
  BY <1>1 DEF Timeout, ListInv
<1>2. CASE ListInv
  <2> USE <1>0, <1>2
  <2>1. CASE SysctlLength \/ Restart
    BY <2>1 DEF SysctlLength, Restart, ListInv
  <2>2. CASE SysctlNames
    <3>1. len = DisknamesLength /\ DisknamesLength \in Nat
      BY <2>2, DisknamesLengthType DEF SysctlNames, ListInv, IInv, TypeOK
    <3> QED
      BY <2>2, <3>1 DEF SysctlNames, ListInv
  <2>3. CASE GetCurrentDev \/ ReadPastEnd \/ AddDone \/ CompareNames
    BY <2>3 DEF GetCurrentDev, ReadPastEnd, AddDone, CompareNames, ListInv
  <2>4. ASSUME NEW c \in CdName, CdHandler(c) \/ CdInterfacesAdded(c) PROVE ListInv'
    BY <2>4 DEF CdHandler, CdInterfacesAdded, ListInv
  <2>5. ASSUME NEW d \in DiskName, AddNewDevices(d) \/ RemoveDrive(d) PROVE ListInv'
    BY <2>5 DEF AddNewDevices, RemoveDrive, ListInv
  <2>6. ASSUME NEW p \in Letter, AddBlock(p) \/ RemoveBlock(p) PROVE ListInv'
    BY <2>6 DEF AddBlock, RemoveBlock, ListInv
  <2>7. CASE DriveInterfacesAdded \/ RegisterBlock \/ UnregisterBlock \/ DriveInterfacesRemoved
               \/ UnregisterDrive \/ RemoveDevices
    BY <2>7 DEF DriveInterfacesAdded, RegisterBlock, UnregisterBlock, DriveInterfacesRemoved,
       UnregisterDrive, RemoveDevices, ListInv
  <2>8. CASE Abort
    BY <2>8 DEF Abort, vars, checkVars
  <2>9. CASE Hardware \/ UNCHANGED vars
    BY <2>9 DEF Hardware, vars, checkVars, ListInv
  <2> QED
    BY <1>1, <2>1, <2>2, <2>3, <2>4, <2>5, <2>6, <2>7, <2>8, <2>9, RestSteps
       DEF Next, Check, ReadLabel, Proceed
<1> QED
  BY <1>0, <1>1, <1>2

(* The first loop reads what the list names, the second drops what it does *)
(* not name (addNewDevices, none_of, removeDevices).                       *)
LEMMA NextDisksInv ==
  ASSUME IInv, still => ListInv /\ DisksInv, [RestNext]_restVars, still'
  PROVE  DisksInv'
<1> USE NameAssumption, DiskThreadAssumption DEF adding, removing, Labels, IInv, TypeOK
<1>0. /\ attached' = attached /\ medium' = medium /\ Readable' = Readable
      /\ ~SysctlFails
      /\ still \/ Timeout
  BY StillSteps
<1>1. CASE Timeout
  BY <1>1 DEF Timeout, DisksInv
<1>2. CASE ListInv /\ DisksInv
  <2> USE <1>0, <1>2
  <2>1. CASE SysctlLength \/ SysctlNames \/ ReadPastEnd \/ Restart \/ Abort
    BY <2>1 DEF SysctlLength, SysctlNames, ReadPastEnd, Restart, Abort, DisksInv, ListInv,
       ControlInv, Readable
  <2>2. CASE GetCurrentDev
    BY <2>2 DEF GetCurrentDev, DisksInv, ListInv, Readable
  <2>3. ASSUME NEW c \in CdName, CdHandler(c) \/ CdInterfacesAdded(c) PROVE DisksInv'
    BY <2>3 DEF CdHandler, CdInterfacesAdded, DisksInv
  <2>4. ASSUME NEW d \in DiskName, AddNewDevices(d) PROVE DisksInv'
    BY <2>4 DEF AddNewDevices, find_if, DisksInv, Readable
  <2>5. ASSUME NEW p \in Letter, AddBlock(p) \/ RemoveBlock(p) PROVE DisksInv'
    BY <2>5 DEF AddBlock, RemoveBlock, DisksInv
  <2>6. CASE DriveInterfacesAdded \/ RegisterBlock \/ AddDone
    BY <2>6 DEF DriveInterfacesAdded, RegisterBlock, AddDone, DisksInv
  <2>7. CASE CompareNames
    BY <2>7 DEF CompareNames, DisksInv
  <2>8. ASSUME NEW d \in DiskName, RemoveDrive(d) PROVE DisksInv'
    BY <2>8 DEF RemoveDrive, DisksInv
  <2>9. CASE UnregisterBlock \/ DriveInterfacesRemoved \/ UnregisterDrive
    BY <2>9 DEF UnregisterBlock, DriveInterfacesRemoved, UnregisterDrive, DisksInv
  <2>10. CASE RemoveDevices
    BY <2>10 DEF RemoveDevices, erase, none_of, DisksInv, ListInv, ControlInv, Readable
  <2>11. CASE Hardware \/ UNCHANGED vars
    BY <2>11 DEF Hardware, vars, checkVars, DisksInv
  <2> QED
    BY <1>1, <2>1, <2>2, <2>3, <2>4, <2>5, <2>6, <2>7, <2>8, <2>9, <2>10, <2>11, RestSteps
       DEF Next, Check, ReadLabel, Proceed
<1> QED
  BY <1>0, <1>1, <1>2

(* A CD that is read is in the hash and then on the bus (CdHandler,        *)
(* addDrive, registerDrive).                                               *)
LEMMA NextCdsInv ==
  ASSUME IInv, still => CdsInv, [RestNext]_restVars, still'
  PROVE  CdsInv'
<1> USE DiskThreadAssumption DEF IInv, TypeOK, OmTypeOK, DriveName
<1>0. /\ medium' = medium
      /\ pc' # "dead" \/ UNCHANGED <<vars, still>>
      /\ still \/ Timeout
  BY StillSteps
<1>1. CASE Timeout
  BY <1>1 DEF Timeout, CdsInv
<1>2. CASE CdsInv
  <2> SUFFICES ASSUME NEW c \in CdName, medium[c] # NoMedium
               PROVE  \/ pc' \in {"cds", "cdAdded"} /\ c \in todo'
                      \/ IF pc' = "cdAdded" /\ cur' = c THEN m_driveObjects'[c] = medium[c]
                                                        ELSE busDrives'[c] = medium[c]
    BY <1>0 DEF CdsInv
  <2> DEFINE Goal == \/ pc' \in {"cds", "cdAdded"} /\ c \in todo'
                     \/ IF pc' = "cdAdded" /\ cur' = c THEN m_driveObjects'[c] = medium[c]
                                                       ELSE busDrives'[c] = medium[c]
  <2>1. ASSUME NEW e \in CdName, CdHandler(e) PROVE Goal
    <3>1. pc = "cds" /\ (c = e \/ c \notin todo => c \notin todo') /\ todo' = todo \ {e}
      BY <2>1 DEF CdHandler
    <3>2. CASE medium[e] # NoMedium
      BY <1>2, <2>1, <3>1, <3>2 DEF CdHandler, addDrive, CdsInv
    <3>3. CASE medium[e] = NoMedium
      BY <1>2, <2>1, <3>1, <3>3 DEF CdHandler, omVars, CdsInv
    <3> QED
      BY <3>2, <3>3
  <2>2. ASSUME NEW e \in CdName, CdInterfacesAdded(e) PROVE Goal
    BY <1>2, <2>2 DEF CdInterfacesAdded, driveInterfacesAdded, CdsInv
  <2>3. CASE Abort
    BY <1>0, <2>3, <1>2 DEF Abort, vars, checkVars
  <2>4. CASE ~Abort /\ \A e \in CdName : ~CdHandler(e) /\ ~CdInterfacesAdded(e)
    <3>1. busDrives'[c] = busDrives[c] /\ m_driveObjects'[c] = m_driveObjects[c]
      BY <2>4, CdsUntouched, RestSteps
    <3>2. pc = "cdAdded" => pc' = "cdAdded" /\ cur' = cur /\ todo' = todo
      <4>1. pc = "cdAdded" => Hardware \/ UNCHANGED vars
        BY <2>4, RestSteps DEF Next, Check, ReadLabel, Proceed, Timeout, SysctlLength,
           SysctlNames, SysctlFails, GetCurrentDev, ReadPastEnd, Restart, AddNewDevices,
           DriveInterfacesAdded, AddBlock, RegisterBlock, AddDone, CompareNames, RemoveDrive,
           RemoveBlock, UnregisterBlock, DriveInterfacesRemoved, UnregisterDrive, RemoveDevices
      <4> QED
        BY <4>1 DEF Hardware, vars, checkVars
    <3>3. pc # "cdAdded" => pc' # "cdAdded"
      BY <2>4, RestSteps DEF Next, Check, ReadLabel, Proceed, Timeout, SysctlLength,
         SysctlNames, SysctlFails, GetCurrentDev, ReadPastEnd, Restart, AddNewDevices, Abort,
         DriveInterfacesAdded, AddBlock, RegisterBlock, AddDone, CompareNames, RemoveDrive,
         RemoveBlock, UnregisterBlock, DriveInterfacesRemoved, UnregisterDrive, RemoveDevices,
         Hardware, vars, checkVars
    <3>4. pc = "cds" => (pc' = "cds" /\ todo' = todo) \/ todo = {}
      BY <2>4, RestSteps DEF Next, Check, ReadLabel, Proceed, Timeout, SysctlLength,
         SysctlNames, SysctlFails, GetCurrentDev, ReadPastEnd, Restart, AddNewDevices, Abort,
         DriveInterfacesAdded, AddBlock, RegisterBlock, AddDone, CompareNames, RemoveDrive,
         RemoveBlock, UnregisterBlock, DriveInterfacesRemoved, UnregisterDrive, RemoveDevices,
         Hardware, vars, checkVars
    <3> QED
      BY <1>2, <3>1, <3>2, <3>3, <3>4 DEF CdsInv
  <2> QED
    BY <2>1, <2>2, <2>3, <2>4
<1> QED
  BY <1>0, <1>1, <1>2

(* How far the check of a kernel at rest has come is what its position in  *)
(* the loops says.                                                         *)
THEOREM RestInvariance == RestSpec => []RestInv
<1>1. RestInit => RestInv
  BY DEF RestInit, RestInv
<1>2. IInv /\ RestInv /\ [RestNext]_restVars => RestInv'
  <2> SUFFICES ASSUME IInv, RestInv, [RestNext]_restVars PROVE RestInv'
    OBVIOUS
  <2>1. still' \in BOOLEAN
    BY DEF RestInv, RestNext, Watch, restVars
  <2>2. still' => ListInv' /\ DisksInv' /\ CdsInv'
    BY NextListInv, NextDisksInv, NextCdsInv DEF RestInv
  <2> QED
    BY <2>1, <2>2 DEF RestInv
<1> QED
  BY RestIInv, <1>1, <1>2, PTL DEF RestSpec

(* One whole check of a kernel that keeps still publishes what the kernel  *)
(* has, whatever was published before (addNewDevices, removeDrive,         *)
(* addDrive).                                                              *)
THEOREM OneCheckSuffices == RestSpec => []OneCheckIsEnough
<1>1. IInv /\ RestInv => OneCheckIsEnough
  <2> SUFFICES ASSUME IInv, RestInv, still, pc = "idle" PROVE OneCheckIsEnough
    BY DEF OneCheckIsEnough
  <2>1. Published = Labels
    BY InvariantImplies DEF QuiescentConsistency, Published, Labels
  <2>2. Readable \subseteq Labels /\ Labels \subseteq attached
    BY DEF RestInv, DisksInv
  <2>3. \A c \in CdName : medium[c] # NoMedium => busDrives[c] = medium[c]
    BY DEF RestInv, CdsInv
  <2> QED
    BY <2>1, <2>2, <2>3 DEF OneCheckIsEnough
<1> QED
  BY RestIInv, RestInvariance, <1>1, PTL

(* Nothing but the two signals of a disk's drive and the end of the process *)
(* changes what a client was told of the disks.                            *)
LEMMA DisksUntouched ==
  ASSUME IInv, [Next]_vars, ~Abort, ~DriveInterfacesAdded, ~DriveInterfacesRemoved,
         NEW d \in DiskName
  PROVE  busDrives'[d] = busDrives[d]
<1> USE NameAssumption DEF IInv, TypeOK, OmTypeOK, DriveName
<1>1. CASE Timeout \/ SysctlLength \/ SysctlNames \/ SysctlFails \/ GetCurrentDev
             \/ ReadPastEnd \/ Restart
             \/ AddDone \/ CompareNames \/ RemoveDevices
  BY <1>1 DEF omVars, Timeout, SysctlLength, SysctlNames, SysctlFails, GetCurrentDev,
              ReadPastEnd, Restart, AddDone, CompareNames, RemoveDevices
<1>2. ASSUME NEW n \in DriveName, CdHandler(n) \/ AddNewDevices(n) \/ RemoveDrive(n)
      PROVE  busDrives' = busDrives
  BY <1>2 DEF CdHandler, AddNewDevices, RemoveDrive, addDrive, omVars
<1>3. ASSUME NEW c \in CdName, CdInterfacesAdded(c) PROVE busDrives'[d] = busDrives[d]
  BY <1>3 DEF CdInterfacesAdded, driveInterfacesAdded
<1>4. ASSUME NEW p \in Letter, AddBlock(p) \/ RemoveBlock(p) PROVE busDrives' = busDrives
  BY <1>4 DEF AddBlock, addBlock, RemoveBlock, blockInterfacesRemoved
<1>5. CASE RegisterBlock \/ UnregisterBlock \/ UnregisterDrive
  BY <1>5 DEF RegisterBlock, registerBlock, UnregisterBlock, unregisterBlock, UnregisterDrive,
     unregisterDrive
<1>6. CASE Hardware \/ UNCHANGED vars
  BY <1>6 DEF Hardware, vars, omVars
<1> QED
  BY <1>1, <1>2, <1>3, <1>4, <1>5, <1>6 DEF Next, Check, ReadLabel, Proceed

(* While the kernel keeps still only a disk it has is announced, with the  *)
(* medium it holds, and only a disk it has not is retracted (the two       *)
(* comparisons of check()).                                                *)
THEOREM NoDetoursAtRest == RestSpec => NoDetours
<1>1. ASSUME IInv, RestInv, [RestNext]_restVars, still', NEW d \in DiskName
      PROVE  \/ busDrives'[d] = busDrives[d]
             \/ busDrives[d] = NoMedium /\ d \in attached /\ busDrives'[d] = medium[d]
             \/ busDrives'[d] = NoMedium /\ d \notin attached
  <2>1. still \/ Timeout
    BY <1>1, StillSteps
  <2>2. CASE DriveInterfacesAdded
    <3>1. still /\ cur \in DiskName
      BY <1>1, <2>1, <2>2
         DEF DriveInterfacesAdded, Timeout, IInv, ControlInv, adding
    <3>2. cur \in attached /\ diskLabels[cur] = medium[cur]
      BY <1>1, <2>2, <3>1 DEF RestInv, ListInv, DisksInv, DriveInterfacesAdded, adding
    <3>3. busDrives[cur] = NoMedium
      BY <1>1, <2>2, <3>1 DEF IInv, DrivesInv, DriveInterfacesAdded
    <3>4. busDrives' = [busDrives EXCEPT ![cur] = diskLabels[cur]]
      BY <2>2 DEF DriveInterfacesAdded, driveInterfacesAdded
    <3> QED
      BY <1>1, <3>2, <3>3, <3>4 DEF IInv, TypeOK, OmTypeOK, DriveName
  <2>3. CASE DriveInterfacesRemoved
    <3>1. still
      BY <2>1, <2>3 DEF DriveInterfacesRemoved, Timeout
    <3>2. cur \notin attached
      BY <1>1, <2>3, <3>1
         DEF DriveInterfacesRemoved, RestInv, ListInv, IInv, ControlInv, removing, none_of
    <3>3. busDrives' = [busDrives EXCEPT ![cur] = NoMedium]
      BY <2>3 DEF DriveInterfacesRemoved, driveInterfacesRemoved
    <3> QED
      BY <1>1, <3>2, <3>3 DEF IInv, TypeOK, OmTypeOK, DriveName
  <2>4. CASE ~DriveInterfacesAdded /\ ~DriveInterfacesRemoved
    <3>1. ~Abort
      BY <1>1, StillSteps DEF Abort, vars, checkVars
    <3> QED
      BY <1>1, <2>4, <3>1, DisksUntouched, RestSteps
  <2> QED
    BY <2>2, <2>3, <2>4
<1>2. IInv /\ RestInv /\ [RestNext]_restVars =>
        (still' =>
           \A d \in DiskName :
             \/ busDrives'[d] = busDrives[d]
             \/ busDrives[d] = NoMedium /\ d \in attached /\ busDrives'[d] = medium[d]
             \/ busDrives'[d] = NoMedium /\ d \notin attached)
  BY <1>1
<1> QED
  BY RestIInv, RestInvariance, <1>2, PTL DEF RestSpec, NoDetours
=============================================================================
