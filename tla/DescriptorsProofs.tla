------------------------- MODULE DescriptorsProofs -------------------------
(* Proofs about Descriptors: a daemon that leaks descriptors, and may have *)
(* none left, keeps every safety promise of DiskThread.                    *)
EXTENDS Descriptors, BusProtocolProofs

(* Eject opens the drive and may take its medium, which hardware may do at *)
(* any time; only a label that cannot be opened is a step of its own.      *)
LEMMA FdSteps ==
  ASSUME TypeOK, [FdNext]_fdVars
  PROVE  [Next]_vars \/ ReadLabelFails
<1>1. ASSUME NEW n \in DriveName, Eject(n) PROVE [Next]_vars
  <2>1. CASE medium' = medium
    BY <1>1, <2>1 DEF Eject, vars, hardware
  <2>2. CASE medium' # medium
    <3>1. medium[n] # NoMedium /\ medium' = [medium EXCEPT ![n] = NoMedium]
      BY <1>1, <2>2 DEF Eject, open
    <3>2. Hardware
      BY <1>1, <3>1 DEF Eject, Hardware, RemoveMedium
    <3> QED
      BY <3>2 DEF Next
  <2> QED
    BY <2>1, <2>2
<1> QED
  BY <1>1 DEF FdNext, FdCheck, Next, Check, fdVars

(* A label that cannot be opened is passed over: the loop has one name     *)
(* less to visit and nothing else has changed.                             *)
LEMMA FailedStep ==
  ASSUME IInv, ReadLabelFails
  PROVE  /\ IInv'
         /\ UNCHANGED <<omVars, hardware, diskLabels, m_cds, names, pc, cur, toDelete>>
<1>1. /\ UNCHANGED <<omVars, hardware, diskLabels, m_cds, len, names, pc, cur, toDelete, left, blk>>
      /\ pc \in {"cds", "add"} /\ todo' \subseteq todo
  BY DEF ReadLabelFails, goOn
<1>2. TypeOK'
  BY <1>1, OmUnchangedType DEF IInv, TypeOK, hardware
<1>3. ControlInv'
  BY <1>1 DEF IInv, ControlInv, adding, removing, Labels, none_of
<1>4. DrivesInv' /\ BlocksInv' /\ RegisteredInv'
  BY <1>1 DEF IInv, DrivesInv, BlocksInv, RegisteredInv, DriveObject, Announced, Callable,
         adding, omVars
<1> QED
  BY <1>1, <1>2, <1>3, <1>4 DEF IInv

(* With however few descriptors left, labels and position in the loops     *)
(* determine what is published (opendev, DiskLabel).                       *)
THEOREM FdInvariance == FdSpec => []IInv
<1>1. FdInit => IInv
  BY InitIInv DEF FdInit
<1>2. IInv /\ [FdNext]_fdVars => IInv'
  <2>1. IInv /\ [Next]_vars => IInv'
    BY NextTypeOK, NextControlInv, NextDrivesInv, NextBlocksInv DEF IInv
  <2> QED
    BY <2>1, FdSteps, FailedStep DEF IInv
<1> QED
  BY <1>1, <1>2, PTL DEF FdSpec

(* What DiskThread promises of labels, tree, hashes and bus holds without  *)
(* descriptors, too: nothing half announced stays behind when reading      *)
(* labels fails in the middle of a check (addNewDevices).                  *)
THEOREM PromisesWithoutDescriptors ==
  FdSpec => [](QuiescentConsistency /\ AnnouncedIsCallable /\ ManagedCoversBus /\ BlockUnderDrive)
BY FdInvariance, InvariantImplies, PTL

(* CD drives that were announced stay held, in the hash and callable when  *)
(* their label can no longer be opened (CdHandler).                        *)
THEOREM FdCdsPublished == FdSpec => []CdsArePublished
<1>1. FdInit => CdsArePublished
  BY DEF FdInit, Init, Fresh, OmInit, NoDrives, DriveName, CdsArePublished
<1>2. IInv /\ CdsArePublished /\ [FdNext]_fdVars => CdsArePublished'
  <2>1. IInv /\ CdsArePublished /\ ReadLabelFails => CdsArePublished'
    BY FailedStep DEF CdsArePublished, omVars
  <2> QED
    BY <2>1, FdSteps, NextCds DEF IInv
<1> QED
  BY FdInvariance, <1>1, <1>2, PTL DEF FdSpec

(* A descriptor is lost only while there is one, and a process that has    *)
(* died has given them all back (Eject).                                   *)
LEMMA FdTypeCorrect == FdSpec => []FdTypeOK
<1> USE DescriptorsAssumption
<1> DEFINE FdInv == fds \in 0 .. FdLimit /\ (pc = "dead" => fds = 0)
<1>1. FdInit => FdInv
  BY DEF FdInit, Init, Fresh
<1>2. IInv /\ FdInv /\ [FdNext]_fdVars => FdInv'
  <2> SUFFICES ASSUME IInv, FdInv, [FdNext]_fdVars PROVE FdInv'
    OBVIOUS
  <2>1. ASSUME NEW n \in DriveName, Eject(n) PROVE FdInv'
    BY <2>1 DEF Eject, open, checkVars
  <2>2. CASE Abort /\ fds' = 0
    BY <2>2
  <2>3. CASE ReadLabelFails
    BY <2>3 DEF ReadLabelFails, goOn
  <2>4. CASE UNCHANGED fdVars
    BY <2>4 DEF fdVars, vars, checkVars
  <2>5. CASE /\ UNCHANGED fds
             /\ \/ Timeout \/ Proceed \/ ReadLabel \/ Restart \/ Hardware
                \/ \E p \in Letter : AddBlock(p)
    <3>1. pc' = "dead" => pc = "dead"
      BY <2>5 DEF Timeout, Proceed, ReadLabel, Restart, Hardware, AddBlock, CdHandler,
         CdInterfacesAdded, SysctlLength, SysctlNames, SysctlFails, GetCurrentDev, ReadPastEnd,
         AddNewDevices,
         DriveInterfacesAdded, RegisterBlock, AddDone, CompareNames, RemoveDrive, RemoveBlock,
         UnregisterBlock, DriveInterfacesRemoved, UnregisterDrive, RemoveDevices, checkVars
    <3> QED
      BY <2>5, <3>1
  <2> QED
    BY <2>1, <2>2, <2>3, <2>4, <2>5 DEF FdNext, FdCheck
<1>3. IInv /\ FdInv => FdTypeOK
  BY DEF IInv, FdTypeOK
<1> QED
  BY FdInvariance, <1>1, <1>2, <1>3, PTL DEF FdSpec

(* The poll follows its list also when it can read no label: it publishes  *)
(* nothing new, and retracts what the list does not name, no more and no   *)
(* less (none_of, removeDrive).                                            *)
THEOREM FdChecksFollow == FdSpec => ChecksFollowTheList
<1> DEFINE Follow == /\ pc = "remove" /\ pc' = "idle" => Published' \subseteq names
                     /\ \A d \in DiskName :
                          busDrives[d] # NoMedium /\ busDrives'[d] = NoMedium =>
                            d \notin names \/ pc' = "dead"
<1>1. IInv /\ ReadLabelFails => Follow
  <2> SUFFICES ASSUME IInv, ReadLabelFails PROVE Follow
    OBVIOUS
  <2>1. pc' = pc /\ busDrives' = busDrives
    BY FailedStep DEF omVars
  <2> QED
    BY <2>1
<1>2. IInv /\ [FdNext]_fdVars => [Follow]_vars
  BY <1>1, FdSteps, NextFollows DEF IInv
<1> QED
  BY FdInvariance, <1>2, PTL DEF FdSpec, ChecksFollowTheList

(* The order of the signals does not depend on descriptors (addDrive,      *)
(* addBlock, removeDrive, removeBlock).                                    *)
THEOREM FdImplementsBusProtocol == FdSpec => BusProtocolHolds
<1>1. FdInit => Bus!BusInit
  BY InitBus DEF FdInit
<1>2. IInv /\ [FdNext]_fdVars => [Bus!BusNext]_Bus!busVars
  <2>1. IInv /\ ReadLabelFails => UNCHANGED Bus!busVars
    BY FailedStep, Stutters DEF leaving, omVars
  <2> QED
    BY <2>1, FdSteps, NextBus DEF IInv
<1> QED
  BY FdInvariance, <1>1, <1>2, PTL DEF FdSpec, BusProtocolHolds, Bus!BusSpec
=============================================================================
