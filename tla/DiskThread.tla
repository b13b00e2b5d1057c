----------------------------- MODULE DiskThread -----------------------------
(***************************************************************************)
(* DiskThread::check (disk_thread.cpp): once a second the daemon compares  *)
(* the kernel's list of disks with the labels it holds, and has the object *)
(* manager publish what is new and retract what is gone.                   *)
(*                                                                         *)
(* check() runs in the main thread (the timer fires in the disk thread,    *)
(* its receiver lives in the main thread), and its signals are direct      *)
(* calls of ObjectManager.  The hardware does not wait: drives and media   *)
(* come and go between any two steps.  One action is one step of check()   *)
(* that reads the kernel or that the bus can see.                          *)
(***************************************************************************)
EXTENDS ObjectManager, FiniteSets

CONSTANTS NoDisk,   \* no disk is being worked on
          MaxCds    \* bound of the model: m_cds is counted no further

ASSUME DiskThreadAssumption ==
  /\ NoDisk \notin DriveName
  /\ IsFiniteSet(DiskName)
  /\ MaxCds \in Nat \ {0}

VARIABLES
  attached,    \* kernel: the disks of hw.disknames
  medium,      \* kernel: what a drive's label reads as, NoMedium if it cannot be read
  diskLabels,  \* the DiskLabel of each disk the daemon holds, NoMedium if none
  m_cds,       \* how many CdHandlers of each name the daemon holds
  pc,          \* where check() is
  len,         \* the length of the list, from the first sysctl
  names,       \* devNameUuids: the names of the list that was read
  todo,        \* names the current loop has still to visit
  toDelete,    \* the disks whose removal has begun in this check
  cur,         \* the disk being published or retracted
  left,        \* its blocks that are still to be announced or retracted
  blk          \* the block between its signal and its change of the tree

hardware == <<attached, medium>>
checkVars == <<diskLabels, m_cds, pc, len, names, todo, toDelete, cur, left, blk>>
vars == <<omVars, hardware, checkVars>>

Labels == {d \in DiskName : diskLabels[d] # NoMedium}

TypeOK ==
  /\ OmTypeOK
  /\ attached \in SUBSET DiskName
  /\ medium \in [DriveName -> MaybeMedium]
  /\ diskLabels \in [DiskName -> MaybeMedium]
  /\ m_cds \in [CdName -> Nat]
  /\ pc \in {"idle", "cds", "cdAdded", "sysctl", "parse", "overrun", "add", "driveAdded",
             "addBlocks", "blockAdded", "remove", "removeBlocks", "blockRemoved",
             "driveRemoved", "dead"}
  /\ len \in Nat
  /\ names \in SUBSET DiskName
  /\ todo \in SUBSET DriveName
  /\ toDelete \in SUBSET DiskName
  /\ cur \in DriveName \cup {NoDisk}
  /\ left \in SUBSET Letter
  /\ blk \in Letter \cup {"none"}

Fresh ==
  /\ diskLabels = [d \in DiskName |-> NoMedium]
  /\ m_cds = [c \in CdName |-> 0]
  /\ pc = "idle"
  /\ len = 0
  /\ names = {}
  /\ todo = {}
  /\ toDelete = {}
  /\ cur = NoDisk
  /\ left = {}
  /\ blk = "none"

Init ==
  /\ attached \in SUBSET DiskName
  /\ medium \in [DriveName -> MaybeMedium]
  /\ \A d \in DiskName \ attached : medium[d] = NoMedium
  /\ \A m \in Medium : Cardinality({d \in DiskName : medium[d] = m}) <= 1
  /\ Fresh
  /\ OmInit

-----------------------------------------------------------------------------
(* The hardware.  A medium is in one drive at a time, but a CD drive is    *)
(* read under two names, cd0 of hw.disknames and rcd0.  What is read under *)
(* the second is not tied to the first, which allows more than hardware.   *)

Unused == {m \in Medium : \A d \in DiskName : medium[d] # m}

Attach(d) ==
  /\ d \notin attached
  /\ attached' = attached \cup {d}
  /\ \E m \in Unused \cup {NoMedium} : medium' = [medium EXCEPT ![d] = m]

Detach(d) ==
  /\ d \in attached
  /\ attached' = attached \ {d}
  /\ medium' = [medium EXCEPT ![d] = NoMedium]

InsertMedium(n) ==
  /\ n \in attached \cup CdName
  /\ medium[n] = NoMedium
  /\ \E m \in IF n \in CdName THEN Medium ELSE Unused : medium' = [medium EXCEPT ![n] = m]
  /\ UNCHANGED attached

RemoveMedium(n) ==
  /\ medium[n] # NoMedium
  /\ medium' = [medium EXCEPT ![n] = NoMedium]
  /\ UNCHANGED attached

Hardware ==
  /\ \/ \E d \in DiskName : Attach(d) \/ Detach(d)
     \/ \E n \in DriveName : InsertMedium(n) \/ RemoveMedium(n)
  /\ UNCHANGED <<omVars, checkVars>>

-----------------------------------------------------------------------------
(* The steps of check().                                                   *)

(* The timer's tick is delivered to the main thread.                       *)
Timeout ==
  /\ pc = "idle"
  /\ pc' = "cds"
  /\ todo' = CdName
  /\ UNCHANGED <<diskLabels, m_cds, len, names, toDelete, cur, left, blk, omVars, hardware>>

(* Mutant: the CdHandler is not kept.                                      *)
push_backNot(c) == m_cds

push_back(c) == [m_cds EXCEPT ![c] = IF @ < MaxCds THEN @ + 1 ELSE @]

(* One turn of the loop over the CD names, up to registerObject.  The      *)
(* constructor reads the label twice and keeps the last that was readable, *)
(* which is what one read at either moment gives.  The drive is added      *)
(* whether or not an earlier check has added it.                           *)
CdHandler(c) ==
  /\ pc = "cds"
  /\ c \in todo
  /\ todo' = todo \ {c}
  /\ IF medium[c] # NoMedium
     THEN /\ m_cds' = push_back(c)
          /\ addDrive(c, medium[c])
          /\ cur' = c
          /\ pc' = "cdAdded"
     ELSE UNCHANGED <<m_cds, cur, pc, omVars>>
  /\ UNCHANGED <<diskLabels, len, names, toDelete, left, blk, hardware>>

(* Blocks of a CD drive are not announced.                                 *)
CdInterfacesAdded(c) ==
  /\ pc = "cdAdded"
  /\ cur = c
  /\ driveInterfacesAdded(c, m_driveObjects[c])
  /\ pc' = "cds"
  /\ cur' = NoDisk
  /\ UNCHANGED <<diskLabels, m_cds, len, names, todo, toDelete, left, blk, hardware>>

(* hw.disknames names every disk and gives the DUID of those with a label. *)
(* A list that is longer than the buffer makes the second sysctl fail.     *)
DisknamesLength == Cardinality(attached) + Cardinality({d \in attached : medium[d] # NoMedium})

(* readDisknames: the first sysctl, for the length, ...                    *)
SysctlLength ==
  /\ pc = "cds"
  /\ todo = {}
  /\ len' = DisknamesLength
  /\ pc' = "sysctl"
  /\ UNCHANGED <<diskLabels, m_cds, names, todo, toDelete, cur, left, blk, omVars, hardware>>

(* ... and the second, for the list.  It fails when the list has grown     *)
(* since; {} is the empty string, returned then and when there is no disk. *)
SysctlNames ==
  /\ pc = "sysctl"
  /\ names' = IF DisknamesLength <= len THEN attached ELSE {}
  /\ pc' = "parse"
  /\ UNCHANGED <<diskLabels, m_cds, len, todo, toDelete, cur, left, blk, omVars, hardware>>

(* Either call may fail for a reason of the kernel's, the second also for  *)
(* want of memory, and the check goes on with the empty string.  (Without  *)
(* disks a failure of the second is not to be told from its success.)      *)
SysctlFails ==
  /\ \/ pc = "cds" /\ todo = {}
     \/ pc = "sysctl" /\ attached # {}
  /\ names' = {}
  /\ pc' = "parse"
  /\ UNCHANGED <<diskLabels, m_cds, len, todo, toDelete, cur, left, blk, omVars, hardware>>

(* getCurrentDev.  The empty string splits into one entry of one field, of *)
(* which the loop reads field 1.                                           *)
GetCurrentDev ==
  /\ pc = "parse"
  /\ IF names = {}
     THEN /\ pc' = "overrun"
          /\ UNCHANGED todo
     ELSE /\ pc' = "add"
          /\ todo' = names
  /\ len' = 0
  /\ UNCHANGED <<diskLabels, m_cds, names, toDelete, cur, left, blk, omVars, hardware>>

(* QStringList::at(1) past the end is undefined.  An assertion or a bad    *)
(* pointer kills the process ...                                           *)
Abort ==
  /\ pc = "overrun"
  /\ diskLabels' = [d \in DiskName |-> NoMedium]
  /\ m_cds' = [c \in CdName |-> 0]
  /\ pc' = "dead"
  /\ omExit
  /\ UNCHANGED <<len, names, todo, toDelete, cur, left, blk, hardware>>

(* ... or some string is read, and the one entry has the name "", which is *)
(* no disk: addNewDevices("") finds no label.                              *)
ReadPastEnd ==
  /\ pc = "overrun"
  /\ pc' = "add"
  /\ UNCHANGED <<diskLabels, m_cds, len, names, todo, toDelete, cur, left, blk, omVars, hardware>>

(* The bus starts the service again (org.freedesktop.UDisks2.service.in).  *)
Restart ==
  /\ pc = "dead"
  /\ pc' = "idle"
  /\ UNCHANGED <<diskLabels, m_cds, len, names, todo, toDelete, cur, left, blk, omVars, hardware>>

(* Mutant: a disk that is known already is read and published again.       *)
find_ifNone(d) == FALSE

(* A DiskLabel of this name is held.                                       *)
find_if(d) == diskLabels[d] # NoMedium

(* addNewDevices up to registerObject: a disk without a DiskLabel is read. *)
AddNewDevices(d) ==
  /\ pc = "add"
  /\ d \in todo
  /\ todo' = todo \ {d}
  /\ IF ~find_if(d) /\ medium[d] # NoMedium
     THEN /\ diskLabels' = [diskLabels EXCEPT ![d] = medium[d]]
          /\ addDrive(d, medium[d])
          /\ cur' = d
          /\ left' = Partitions(medium[d])
          /\ pc' = "driveAdded"
     ELSE UNCHANGED <<diskLabels, cur, left, pc, omVars>>
  /\ UNCHANGED <<m_cds, len, names, toDelete, blk, hardware>>

DriveInterfacesAdded ==
  /\ pc = "driveAdded"
  /\ driveInterfacesAdded(cur, diskLabels[cur])
  /\ pc' = "addBlocks"
  /\ UNCHANGED <<diskLabels, m_cds, len, names, todo, toDelete, cur, left, blk, hardware>>

AddBlock(p) ==
  /\ pc = "addBlocks"
  /\ p \in left
  /\ addBlock(<<cur, p>>, diskLabels[cur])
  /\ left' = left \ {p}
  /\ IF m_Registered[<<cur, p>>]
     THEN UNCHANGED <<pc, blk>>
     ELSE pc' = "blockAdded" /\ blk' = p
  /\ UNCHANGED <<diskLabels, m_cds, len, names, todo, toDelete, cur, hardware>>

RegisterBlock ==
  /\ pc = "blockAdded"
  /\ registerBlock(<<cur, blk>>, diskLabels[cur])
  /\ blk' = "none"
  /\ pc' = "addBlocks"
  /\ UNCHANGED <<diskLabels, m_cds, len, names, todo, toDelete, cur, left, hardware>>

AddDone ==
  /\ pc = "addBlocks"
  /\ left = {}
  /\ cur' = NoDisk
  /\ pc' = "add"
  /\ UNCHANGED <<diskLabels, m_cds, len, names, todo, toDelete, left, blk, omVars, hardware>>

(* Mutant: the two lists are compared the wrong way round.                 *)
none_ofSwapped == names \ Labels

(* The labels none of whose names is in the list.                          *)
none_of == Labels \ names

(* The loop over diskLabels.                                               *)
CompareNames ==
  /\ pc = "add"
  /\ todo = {}
  /\ todo' = none_of
  /\ pc' = "remove"
  /\ UNCHANGED <<diskLabels, m_cds, len, names, toDelete, cur, left, blk, omVars, hardware>>

(* Mutant: the drive is removed without its blocks.                        *)
getBlocksNone(d) == {}

getBlocks(d) == Partitions(diskLabels[d])

RemoveDrive(d) ==
  /\ pc = "remove"
  /\ d \in todo
  /\ todo' = todo \ {d}
  /\ toDelete' = toDelete \cup {d}
  /\ cur' = d
  /\ left' = getBlocks(d)
  /\ pc' = "removeBlocks"
  /\ UNCHANGED <<diskLabels, m_cds, len, names, blk, omVars, hardware>>

RemoveBlock(p) ==
  /\ pc = "removeBlocks"
  /\ p \in left
  /\ blockInterfacesRemoved(<<cur, p>>)
  /\ left' = left \ {p}
  /\ blk' = p
  /\ pc' = "blockRemoved"
  /\ UNCHANGED <<diskLabels, m_cds, len, names, todo, toDelete, cur, hardware>>

UnregisterBlock ==
  /\ pc = "blockRemoved"
  /\ unregisterBlock(<<cur, blk>>)
  /\ blk' = "none"
  /\ pc' = "removeBlocks"
  /\ UNCHANGED <<diskLabels, m_cds, len, names, todo, toDelete, cur, left, hardware>>

DriveInterfacesRemoved ==
  /\ pc = "removeBlocks"
  /\ left = {}
  /\ driveInterfacesRemoved(cur)
  /\ pc' = "driveRemoved"
  /\ UNCHANGED <<diskLabels, m_cds, len, names, todo, toDelete, cur, left, blk, hardware>>

UnregisterDrive ==
  /\ pc = "driveRemoved"
  /\ unregisterDrive(cur)
  /\ cur' = NoDisk
  /\ pc' = "remove"
  /\ UNCHANGED <<diskLabels, m_cds, len, names, todo, toDelete, left, blk, hardware>>

(* Mutant: the labels are not erased.                                      *)
eraseNot == diskLabels

erase == [d \in DiskName |-> IF d \in toDelete THEN NoMedium ELSE diskLabels[d]]

(* removeDevices for every name collected, and the end of check().         *)
RemoveDevices ==
  /\ pc = "remove"
  /\ todo = {}
  /\ diskLabels' = erase
  /\ toDelete' = {}
  /\ names' = {}
  /\ pc' = "idle"
  /\ UNCHANGED <<m_cds, len, todo, cur, left, blk, omVars, hardware>>

(* The steps that read a label, and those that only go on with what is     *)
(* known: modules that extend this one give these conditions of their own. *)
ReadLabel ==
  \/ \E c \in CdName : CdHandler(c)
  \/ \E d \in DiskName : AddNewDevices(d)

Proceed ==
  \/ \E c \in CdName : CdInterfacesAdded(c)
  \/ SysctlLength \/ SysctlNames \/ SysctlFails \/ GetCurrentDev \/ ReadPastEnd
  \/ DriveInterfacesAdded
  \/ RegisterBlock \/ AddDone
  \/ CompareNames
  \/ \E d \in DiskName : RemoveDrive(d)
  \/ \E p \in Letter : RemoveBlock(p)
  \/ UnregisterBlock \/ DriveInterfacesRemoved \/ UnregisterDrive
  \/ RemoveDevices

Check ==
  \/ Timeout
  \/ ReadLabel
  \/ \E p \in Letter : AddBlock(p)
  \/ Proceed
  \/ Abort

Next == Check \/ Restart \/ Hardware

(* The main thread goes on with what it has begun and the timer fires      *)
(* again; a client's next call starts a service that has died.             *)
Fairness == WF_vars(Check) /\ WF_vars(Restart)

Spec == Init /\ [][Next]_vars /\ Fairness
-----------------------------------------------------------------------------
(* The properties.                                                         *)

adding == pc \in {"driveAdded", "addBlocks", "blockAdded"}
removing == pc \in {"removeBlocks", "blockRemoved", "driveRemoved"}

(* Between two checks (addNewDevices, removeDrive, removeDevices) the      *)
(* daemon's labels, the object tree and a client's view of the bus agree,  *)
(* disk by disk and block by block, and no published object describes      *)
(* another medium than the label does.                                     *)
QuiescentConsistency ==
  pc = "idle" =>
    /\ \A d \in DiskName : busDrives[d] = diskLabels[d] /\ driveTree[d] = diskLabels[d]
    /\ \A d \in DiskName, p \in Letter :
         LET m == IF p \in Partitions(diskLabels[d]) THEN diskLabels[d] ELSE NoMedium
         IN  busBlocks[<<d, p>>] = m /\ blockTree[<<d, p>>] = m

(* A call on a path that a client was told of reaches the object it was    *)
(* told of (registerDrive, registerBlock, removeBlock, removeDrive), except *)
(* on the one block whose InterfacesAdded is out and whose registerObject  *)
(* is the next step: registerBlock sends the signal first.                 *)
AnnouncedIsCallable ==
  /\ \A d \in DiskName : busDrives[d] # NoMedium => driveTree[d] = busDrives[d]
  /\ \A d \in DiskName, p \in Letter :
       busBlocks[<<d, p>>] # NoMedium =>
         \/ blockTree[<<d, p>>] = busBlocks[<<d, p>>]
         \/ pc = "blockAdded" /\ cur = d /\ blk = p

(* GetManagedObjects, asked at any moment, holds every object a client was *)
(* told of, with the same medium: the hashes may hold more (nothing is     *)
(* taken out of them), never less.                                         *)
ManagedCoversBus ==
  /\ \A d \in DiskName : busDrives[d] # NoMedium => m_driveObjects[d] = busDrives[d]
  /\ \A b \in BlockName : busBlocks[b] # NoMedium => m_blockObjects[b] = busBlocks[b]

(* A block that can be called lies under a drive that can be called, read  *)
(* from the same label; the same holds of what the bus was told, also      *)
(* while a medium is swapped during the check (removeDrive takes blocks    *)
(* first, addNewDevices gives the drive first).                            *)
BlockUnderDrive ==
  \A d \in DiskName, p \in Letter :
    /\ busBlocks[<<d, p>>] # NoMedium => busDrives[d] = busBlocks[<<d, p>>]
    /\ blockTree[<<d, p>>] # NoMedium => driveTree[d] = blockTree[<<d, p>>]

(* CD drives: whatever was announced is held by m_cds, in the hash with    *)
(* the medium last announced, and is callable, however often it is added.  *)
CdsArePublished ==
  \A c \in CdName :
    /\ m_cds[c] > 0 <=> driveTree[c] # NoMedium
    /\ busDrives[c] # NoMedium => m_cds[c] > 0
    /\ busDrives[c] # m_driveObjects[c] => pc = "cdAdded" /\ cur = c

(* The daemon implements the protocol a client relies on.                  *)
Bus == INSTANCE BusProtocol WITH
         drives <- [d \in DiskName |-> busDrives[d]],
         blocks <- busBlocks,
         leaving <- IF pc \in {"removeBlocks", "blockRemoved"} THEN {cur} ELSE {}

BusProtocolHolds == Bus!BusSpec

(* When drives and media have come to rest and the kernel answers, what is *)
(* published comes to rest too: every readable disk of the kernel's list   *)
(* and no other disk, whatever failed calls of sysctl did before.          *)
(* Which medium it was read from is not promised: a disk that is swapped   *)
(* between two polls keeps its label (addNewDevices compares names only).  *)
Published == {d \in DiskName : busDrives[d] # NoMedium}
Readable == {d \in attached : medium[d] # NoMedium}

Converges ==
  <>[][FALSE]_hardware /\ <>[][~SysctlFails]_vars =>
    <>[](pc # "dead" => Readable \subseteq Published /\ Published \subseteq attached)

(* One check does what its list says (none_of, removeDrive): a disk that    *)
(* the list names keeps its drive, also one whose medium was swapped or    *)
(* cannot be read any more, and when the check is over no disk that the    *)
(* list does not name is published.  The death of the process takes all.   *)
ChecksFollowTheList ==
  [][/\ pc = "remove" /\ pc' = "idle" => Published' \subseteq names
     /\ \A d \in DiskName :
          busDrives[d] # NoMedium /\ busDrives'[d] = NoMedium => d \notin names \/ pc' = "dead"]_vars

(* getCurrentDev: "We want both name2Uuid und uuid to verify valid         *)
(* devices": no entry of one field is taken.                               *)
BothFieldsPresent == pc # "overrun"

-----------------------------------------------------------------------------
(* The inductive invariant: what is published at every step of check().    *)

(* Where check() is, and what its variables mean there.                    *)
ControlInv ==
  /\ pc # "cdAdded" => cur \in DiskName \cup {NoDisk}
  /\ pc = "cdAdded" => cur \in CdName /\ m_cds[cur] > 0
  /\ cur \in DiskName <=> adding \/ removing
  /\ cur \in DiskName => cur \in Labels /\ left \subseteq Partitions(diskLabels[cur])
  /\ pc = "driveAdded" => left = Partitions(diskLabels[cur])
  /\ pc \in {"blockAdded", "blockRemoved"} => blk \in Partitions(diskLabels[cur]) \ left
  /\ pc = "driveRemoved" => left = {}
  /\ pc \in {"sysctl", "parse", "overrun"} => todo = {}
  /\ pc = "add" \/ pc = "remove" \/ adding \/ removing => todo \subseteq DiskName
  /\ pc # "remove" /\ ~removing => toDelete = {}
  /\ removing => cur \in toDelete
  /\ pc = "remove" \/ removing => todo \cup toDelete = none_of /\ todo \cap toDelete = {}

(* The drive object of a disk, before the erasing of its label.            *)
DriveObject(d) == IF d \in toDelete \ {cur} THEN NoMedium ELSE diskLabels[d]

(* The letters of a disk whose blocks are announced, and callable.         *)
Announced(d) ==
  IF d = cur THEN IF adding THEN Partitions(diskLabels[d]) \ left ELSE left
             ELSE Partitions(DriveObject(d))

Callable(d) ==
  IF d # cur THEN Announced(d)
  ELSE IF pc = "blockAdded" THEN Announced(d) \ {blk}
  ELSE IF pc = "blockRemoved" THEN Announced(d) \cup {blk}
  ELSE Announced(d)

DrivesInv ==
  \A d \in DiskName :
    /\ driveTree[d] = DriveObject(d)
    /\ busDrives[d] = IF d = cur /\ pc \in {"driveAdded", "driveRemoved"}
                      THEN NoMedium ELSE DriveObject(d)
    /\ diskLabels[d] # NoMedium => m_driveObjects[d] = diskLabels[d]

BlocksInv ==
  \A d \in DiskName, p \in Letter :
    /\ busBlocks[<<d, p>>] = IF p \in Announced(d) THEN diskLabels[d] ELSE NoMedium
    /\ blockTree[<<d, p>>] = IF p \in Callable(d) THEN diskLabels[d] ELSE NoMedium
    /\ p \in Announced(d) => m_blockObjects[<<d, p>>] = diskLabels[d]

RegisteredInv ==
  adding => \A p \in left \cup (IF pc = "blockAdded" THEN {blk} ELSE {}) : ~m_Registered[<<cur, p>>]

(* check() between any two of its steps (DiskThread::check): the labels    *)
(* and the position in the loops determine the bus, the tree and what the  *)
(* hashes must hold.                                                       *)
IInv == TypeOK /\ ControlInv /\ DrivesInv /\ BlocksInv /\ RegisteredInv
=============================================================================
