--------------------------- MODULE ObjectManager ---------------------------
(***************************************************************************)
(* ObjectManager (objectmanager.cpp): the objects the daemon offers on the *)
(* D-Bus system bus.  It keeps two hashes, from which GetManagedObjects()  *)
(* answers; the QtDBus object tree, which decides whether a call on a path *)
(* reaches an object; and it sends InterfacesAdded / InterfacesRemoved.    *)
(*                                                                         *)
(* A Drive or Block object is represented by the medium whose label it was *)
(* made from, NoMedium standing for "no object".  A block is named by its  *)
(* disk and its partition letter.                                          *)
(*                                                                         *)
(* Every method runs to its end in the main thread, but what it does shows *)
(* outside one call at a time (the bus, the QtDBus thread that looks paths *)
(* up), so a method is given here as the operators of its visible steps.   *)
(***************************************************************************)
EXTENDS DiskLabel

CONSTANTS DiskName,  \* names of hw.disknames: sd0, sd1, cd0, ...
          CdName     \* names of CdHandler::getBlockCDROMdevices: rcd0 ...

ASSUME NameAssumption == DiskName \cap CdName = {}

VARIABLES
  m_driveObjects,  \* QHash name -> Drive
  m_blockObjects,  \* QHash name -> Block
  m_Registered,    \* Block::m_Registered of the newest Block of each name
  driveTree,       \* paths under .../drives/ registered with QtDBus
  blockTree,       \* paths under .../block_devices/ registered with QtDBus
  busDrives,       \* drives a client that follows the signals knows of
  busBlocks        \* blocks a client that follows the signals knows of

omVars == <<m_driveObjects, m_blockObjects, m_Registered,
            driveTree, blockTree, busDrives, busBlocks>>

DriveName == DiskName \cup CdName
BlockName == DiskName \X Letter

NoDrives == [n \in DriveName |-> NoMedium]
NoBlocks == [b \in BlockName |-> NoMedium]

OmTypeOK ==
  /\ m_driveObjects \in [DriveName -> MaybeMedium]
  /\ driveTree \in [DriveName -> MaybeMedium]
  /\ busDrives \in [DriveName -> MaybeMedium]
  /\ m_blockObjects \in [BlockName -> MaybeMedium]
  /\ blockTree \in [BlockName -> MaybeMedium]
  /\ busBlocks \in [BlockName -> MaybeMedium]
  /\ m_Registered \in [BlockName -> BOOLEAN]

OmInit ==
  /\ m_driveObjects = NoDrives
  /\ driveTree = NoDrives
  /\ busDrives = NoDrives
  /\ m_blockObjects = NoBlocks
  /\ blockTree = NoBlocks
  /\ busBlocks = NoBlocks
  /\ m_Registered = [b \in BlockName |-> FALSE]

(* QDBusConnection::registerObject refuses a path that is in use; nobody   *)
(* looks at its result.                                                    *)
registerObject(tree, n, m) ==
  IF tree[n] = NoMedium THEN [tree EXCEPT ![n] = m] ELSE tree

unregisterObject(tree, n) == [tree EXCEPT ![n] = NoMedium]

(* Mutant: the Block objects of an earlier label are used again.           *)
newBlocksOld(n) == m_Registered

(* The blocks of a drive read afresh are new objects, none registered.     *)
newBlocks(n) == [b \in BlockName |-> IF b[1] = n THEN FALSE ELSE m_Registered[b]]

(* addDrive up to registerObject.                                          *)
addDrive(n, m) ==
  /\ m_driveObjects' = [m_driveObjects EXCEPT ![n] = m]
  /\ driveTree' = registerObject(driveTree, n, m)
  /\ m_Registered' = newBlocks(n)
  /\ UNCHANGED <<m_blockObjects, blockTree, busDrives, busBlocks>>

(* addInterfaces at the end of registerDrive: the signal InterfacesAdded.  *)
driveInterfacesAdded(n, m) ==
  /\ busDrives' = [busDrives EXCEPT ![n] = m]
  /\ UNCHANGED <<m_driveObjects, m_blockObjects, m_Registered,
                 driveTree, blockTree, busBlocks>>

(* Mutant: the block is not put into the hash.                             *)
insertBlockNot(b, m) == m_blockObjects

insertBlock(b, m) == [m_blockObjects EXCEPT ![b] = m]

(* addBlock and registerBlock up to addInterfaces; a block that is already *)
(* registered is only put into the hash.                                   *)
addBlock(b, m) ==
  /\ m_blockObjects' = insertBlock(b, m)
  /\ busBlocks' = IF m_Registered[b] THEN busBlocks ELSE [busBlocks EXCEPT ![b] = m]
  /\ UNCHANGED <<m_driveObjects, m_Registered, driveTree, blockTree, busDrives>>

(* The end of registerBlock, after the signal.                             *)
registerBlock(b, m) ==
  /\ m_Registered' = [m_Registered EXCEPT ![b] = TRUE]
  /\ blockTree' = registerObject(blockTree, b, m)
  /\ UNCHANGED <<m_driveObjects, m_blockObjects, driveTree, busDrives, busBlocks>>

(* removeBlock and removeDrive: first the signal, then the object tree.    *)
(* Neither touches the hashes.                                             *)
blockInterfacesRemoved(b) ==
  /\ busBlocks' = [busBlocks EXCEPT ![b] = NoMedium]
  /\ UNCHANGED <<m_driveObjects, m_blockObjects, m_Registered,
                 driveTree, blockTree, busDrives>>

unregisterBlock(b) ==
  /\ blockTree' = unregisterObject(blockTree, b)
  /\ UNCHANGED <<m_driveObjects, m_blockObjects, m_Registered,
                 driveTree, busDrives, busBlocks>>

(* Mutant: the object is unregistered before the signal.                   *)
driveUnregisteredFirst(n) ==
  /\ driveTree' = unregisterObject(driveTree, n)
  /\ UNCHANGED <<m_driveObjects, m_blockObjects, m_Registered,
                 blockTree, busDrives, busBlocks>>

driveInterfacesRemoved(n) ==
  /\ busDrives' = [busDrives EXCEPT ![n] = NoMedium]
  /\ UNCHANGED <<m_driveObjects, m_blockObjects, m_Registered,
                 driveTree, blockTree, busBlocks>>

unregisterDrive(n) ==
  /\ driveTree' = unregisterObject(driveTree, n)
  /\ UNCHANGED <<m_driveObjects, m_blockObjects, m_Registered,
                 blockTree, busDrives, busBlocks>>

(* The process ends: its objects vanish, and the bus tells every client    *)
(* that the name org.freedesktop.UDisks2 has lost its owner.               *)
omExit ==
  /\ m_driveObjects' = NoDrives
  /\ driveTree' = NoDrives
  /\ busDrives' = NoDrives
  /\ m_blockObjects' = NoBlocks
  /\ blockTree' = NoBlocks
  /\ busBlocks' = NoBlocks
  /\ m_Registered' = [b \in BlockName |-> FALSE]
=============================================================================
