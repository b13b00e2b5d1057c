----------------------------- MODULE Properties -----------------------------
(***************************************************************************)
(* What a client learns of drives and blocks: the properties in the signal *)
(* that announces an object (objectmanager.cpp, addInterfaces), in the     *)
(* answers to GetAll and GetManagedObjects, and in PropertiesChanged.      *)
(* Signals and answers are sent by the main thread and reach a client in   *)
(* the order they were sent in, some time later.                           *)
(*                                                                         *)
(* A call is posted to the object that the QtDBus thread finds, and is     *)
(* delivered later, perhaps when that object is not registered any more.   *)
(* A step is one handler or the part of check() that works on one disk;    *)
(* their inner steps are the subject of DiskThread and BlockFilesystem.    *)
(***************************************************************************)
EXTENDS Adaptors, Sequences, SequencesExt, FiniteSets

CONSTANTS
  Disk,      \* names of hw.disknames
  Cd,        \* names of CdHandler::getBlockCDROMdevices: rcd0 ...
  Optical,   \* the names that begin with "cd"
  Medium,
  Label,     \* Label[m] = [uid, packname, size, fstype], a label with one partition "a"
  blockName, \* blockName[d]: the name of a disk with the letter of its partition
  Dir,       \* directories to mount on
  MaxWire    \* bound of the model: messages on their way to the client

DriveName == Disk \cup Cd
BlockName == Range(blockName)
Path == DriveName \cup BlockName

ASSUME PropertiesAssumption ==
  /\ Disk \cap Cd = {}
  /\ Optical \subseteq DriveName
  /\ DOMAIN blockName = Disk
  /\ BlockName \cap DriveName = {}
  /\ IsInjective(blockName)
  /\ MaxWire \in Nat

(* No object, and no properties: a record that neither has.                *)
None == [none |-> TRUE]

VARIABLES
  m_objects,  \* m_driveObjects and m_blockObjects
  tree,       \* the objects registered with QtDBus
  posted,     \* the paths to whose objects calls are posted that wait for the main thread
  wire,       \* signals and answers on their way to the client
  known       \* the properties the signals have told the client, None if retracted

vars == <<m_objects, tree, posted, wire, known>>

-----------------------------------------------------------------------------
(* The parents: their members as the setters leave them, their getters.    *)

(* Block::setIdUsage sets the type; m_IdUsage stays empty.                 *)
setIdUsage(block, usage) == [block EXCEPT !.m_IdType = usage]
setIdType(block, fstype) == [block EXCEPT !.m_IdType = fstype]

Block(b) ==
  [m_Name |-> b, m_Size |-> 0, m_IdType |-> "", m_IdUsage |-> "", m_Id |-> <<>>,
   m_IdLabel |-> "", mountPoints |-> <<>>]

(* The lists of mount points a block may have.                             *)
MountLists == {<<>>} \cup {<<x>> : x \in Dir}

(* analyseDev: the size is that of the disk, for each of its partitions.   *)
(* The mount points are those createFilesystem finds, dirs.                *)
createBlock(b, m, dirs) ==
  LET block == setIdType(setIdUsage(Block(b), "filesystem"), Label[m].fstype)
  IN  [block EXCEPT !.m_Size = Label[m].size, !.m_Id = <<Label[m].uid, "a">>,
                    !.m_IdLabel = Label[m].packname, !.mountPoints = dirs]

createDrive(n, m) ==
  [m_deviceName |-> n, m_Id |-> n, m_Duid |-> Label[m].uid, m_Vendor |-> Label[m].packname,
   size |-> Label[m].size, isRemovable |-> n \in Cd]

string(s) == IF s = "" THEN <<>> ELSE <<s>>
bool(x) == IF x THEN <<TRUE>> ELSE <<>>

blockValues(o) ==
  [Device |-> <<"/dev/", o.m_Name>>, PreferredDevice |-> <<"/dev/", o.m_Name>>,
   Symlinks |-> <<>>, DeviceNumber |-> <<"rdev of", o.m_Name>>, Size |-> <<o.m_Size>>,
   Id |-> <<"by-uuid-", o.m_Id>>, IdType |-> string(o.m_IdType),
   IdUsage |-> string(o.m_IdUsage),
   IdLabel |-> IF o.m_IdLabel # "" THEN <<o.m_Name, " - ", o.m_IdLabel>>
                                   ELSE <<o.m_Name, " - ", o.m_Id>>,
   HintIgnore |-> <<>>, HintName |-> <<o.m_Name>>, CryptoBackingDevice |-> <<"/">>,
   Drive |-> <<"drives/", o.m_Name>>, MDRaid |-> <<"/">>, MDRaidMember |-> <<"/">>,
   MountPoints |-> o.mountPoints]

driveValues(o) ==
  LET optical == o.m_deviceName \in Optical
      removable == optical \/ o.isRemovable
  IN  [Vendor |-> string(o.m_Vendor), Size |-> <<o.size>>, Id |-> <<o.m_Id>>,
       Serial |-> <<o.m_Duid>>, ConnectionBus |-> <<>>, Configuration |-> <<>>,
       MediaCompatibility |-> IF optical THEN <<"optical_cd">> ELSE <<>>,
       Optical |-> bool(optical), Ejectable |-> bool(removable),
       Removable |-> bool(removable), MediaRemovable |-> bool(removable)]

(* The loop over an object's adaptors: all their properties.               *)
interfaces(o) ==
  IF "m_Name" \in DOMAIN o
  THEN [Block |-> blockAdaptor(blockValues(o)), Filesystem |-> filesystemAdaptor(blockValues(o))]
  ELSE [Drive |-> driveAdaptor(driveValues(o))]

-----------------------------------------------------------------------------
(* The signals.                                                            *)

addInterfaces(p, o) == [kind |-> "InterfacesAdded", path |-> p, values |-> interfaces(o)]

removeInterfaces(p) == [kind |-> "InterfacesRemoved", path |-> p]

(* MountPoints, joined to one string.                                      *)
signalMountPointsChanged(b, dirs) ==
  [kind |-> "PropertiesChanged", path |-> b,
   values |-> [MountPoints |-> onBus("QString", dirs)]]

Nothing == [p \in Path |-> None]

Init ==
  /\ m_objects = Nothing
  /\ tree = Nothing
  /\ posted = {}
  /\ wire = <<>>
  /\ known = Nothing

send(messages) ==
  /\ Len(wire) + Len(messages) <= MaxWire
  /\ wire' = wire \o messages
  /\ UNCHANGED known

(* Mutant: an object that is in the hash already stays there.              *)
insertOnce(objects) ==
  [p \in Path |-> IF p \in DOMAIN objects /\ m_objects[p] = None THEN objects[p] ELSE m_objects[p]]

insert(objects) == [p \in Path |-> IF p \in DOMAIN objects THEN objects[p] ELSE m_objects[p]]

(* Objects already registered stay: the path serves the old one.           *)
registerObjects(objects) ==
  [p \in Path |-> IF p \in DOMAIN objects /\ tree[p] = None THEN objects[p] ELSE tree[p]]

(* addNewDevices: a disk that was not known (its drive is not registered), *)
(* with its drive and block.  Objects they replace in the hashes are       *)
(* destroyed, and with them the calls that wait for them.                  *)
AddDisk(d, m) ==
  /\ tree[d] = None
  /\ \E dirs \in MountLists :
       LET b == blockName[d]
           objects == [p \in {d, b} |-> IF p = d THEN createDrive(d, m)
                                                 ELSE createBlock(b, m, dirs)]
       IN  /\ m_objects' = insert(objects)
           /\ tree' = registerObjects(objects)
           /\ posted' = posted \ {d, b}
           /\ send(<<addInterfaces(d, objects[d]), addInterfaces(b, objects[b])>>)

(* The CD loop of check(): a drive that is readable is added every time.   *)
(* m_cds keeps those that are replaced in the hash.                        *)
AddCd(c, m) ==
  LET objects == [p \in {c} |-> createDrive(p, m)]
  IN  /\ m_objects' = insert(objects)
      /\ tree' = registerObjects(objects)
      /\ send(<<addInterfaces(c, objects[c])>>)
      /\ UNCHANGED posted

(* Mutant: the objects stay registered.                                    *)
unregisterObjectsNot(paths) == tree

unregisterObjects(paths) == [p \in Path |-> IF p \in paths THEN None ELSE tree[p]]

(* removeDevices.  The hashes keep the objects.                            *)
RemoveDisk(d) ==
  /\ tree[d] # None
  /\ tree' = unregisterObjects({d, blockName[d]})
  /\ send(<<removeInterfaces(blockName[d]), removeInterfaces(d)>>)
  /\ UNCHANGED <<m_objects, posted>>

-----------------------------------------------------------------------------
(* Calls.                                                                  *)

(* The QtDBus thread posts a call to the object it finds.                  *)
Post(p) ==
  /\ tree[p] # None
  /\ posted' = posted \cup {p}
  /\ UNCHANGED <<m_objects, tree, wire, known>>

(* The main thread takes one of the calls that wait for the object; others *)
(* may be left.                                                            *)
deliver(p) ==
  /\ p \in posted
  /\ posted' \in {posted, posted \ {p}}

(* The object a call was posted to: the one that was served then.  A disk  *)
(* that is removed meanwhile leaves its objects in the hashes.             *)
target(p) == IF p \in Cd THEN tree[p] ELSE m_objects[p]

setMountPoints(b, dirs) ==
  /\ m_objects' = [m_objects EXCEPT ![b].mountPoints = dirs]
  /\ tree' = IF tree[b] = None THEN tree ELSE [tree EXCEPT ![b].mountPoints = dirs]

(* Mutant: a mounted block is not refused.                                 *)
refusesMountNot(b) == FALSE

refusesMount(b) == target(b).mountPoints # <<>>

(* Mutant: the answer is sent before the signal.                           *)
mountedAnswerFirst(b, dirs) ==
  <<[kind |-> "Mount", path |-> b, dir |-> Last(dirs)], signalMountPointsChanged(b, dirs)>>

mounted(b, dirs) ==
  <<signalMountPointsChanged(b, dirs), [kind |-> "Mount", path |-> b, dir |-> Last(dirs)]>>

Mount(b) ==
  /\ deliver(b)
  /\ ~refusesMount(b)
  /\ \E dir \in Dir :
       LET dirs == Append(target(b).mountPoints, dir)
       IN  setMountPoints(b, dirs) /\ send(mounted(b, dirs))

(* Success is not signalled, failure is.                                   *)
Unmount(b) ==
  /\ deliver(b)
  /\ target(b).mountPoints # <<>>
  /\ \/ setMountPoints(b, <<>>) /\ UNCHANGED <<wire, known>>
     \/ /\ send(<<signalMountPointsChanged(b, target(b).mountPoints)>>)
        /\ UNCHANGED <<m_objects, tree>>

(* Refusals, and failures of Mount, change and signal nothing.             *)
Refuse(b) ==
  /\ deliver(b)
  /\ UNCHANGED <<m_objects, tree, wire, known>>

(* org.freedesktop.DBus.Properties.GetAll.                                 *)
GetAll(p) ==
  /\ deliver(p)
  /\ send(<<[kind |-> "GetAll", path |-> p, values |-> interfaces(target(p))]>>)
  /\ UNCHANGED <<m_objects, tree>>

(* The object manager itself is always registered: a call that waits finds *)
(* the hashes as a call that comes later does.                             *)
GetManagedObjects ==
  /\ send(<<[kind |-> "GetManagedObjects",
             objects |-> [p \in {x \in Path : m_objects[x] # None} |-> interfaces(m_objects[p])]]>>)
  /\ UNCHANGED <<m_objects, tree, posted>>

(* The other methods; Eject is the subject of Descriptors.                 *)
Call(p) ==
  /\ deliver(p)
  /\ \E iface \in DOMAIN interfaces(target(p)) :
       \E m \in DOMAIN MethodsOf[iface] \ {"Mount", "Unmount", "Eject"} :
         /\ outcome(iface, m) # "lost"
         /\ send(<<[kind |-> "Return", method |-> m,
                    done |-> outcome(iface, m) = "slot"]>>)
  /\ UNCHANGED <<m_objects, tree>>

(* The process dies (getCurrentDev may abort) and is started again by the  *)
(* next call.  The bus tells the client that the name has lost its owner.  *)
Exit ==
  /\ m_objects' = Nothing
  /\ tree' = Nothing
  /\ posted' = {}
  /\ send(<<[kind |-> "NameOwnerChanged"]>>)

(* The client takes the next message and learns what a signal tells.       *)
learn(k, msg) ==
  CASE msg.kind = "InterfacesAdded"   -> [k EXCEPT ![msg.path] = msg.values]
    [] msg.kind = "InterfacesRemoved" -> [k EXCEPT ![msg.path] = None]
    [] msg.kind = "PropertiesChanged" ->
         IF k[msg.path] = None THEN k
         ELSE [k EXCEPT ![msg.path].Filesystem.MountPoints = msg.values.MountPoints]
    [] msg.kind = "NameOwnerChanged" -> Nothing
    [] OTHER -> k

Receive ==
  /\ wire # <<>>
  /\ wire' = Tail(wire)
  /\ known' = learn(known, Head(wire))
  /\ UNCHANGED <<m_objects, tree, posted>>

Next ==
  \/ \E d \in Disk : RemoveDisk(d) \/ \E m \in Medium : AddDisk(d, m)
  \/ \E c \in Cd, m \in Medium : AddCd(c, m)
  \/ \E b \in BlockName : Mount(b) \/ Unmount(b) \/ Refuse(b)
  \/ \E p \in Path : Post(p) \/ GetAll(p) \/ Call(p)
  \/ GetManagedObjects
  \/ Exit
  \/ Receive

Spec == Init /\ [][Next]_vars
-----------------------------------------------------------------------------
(* The properties.                                                         *)

(* A path that is served is in a hash; a block has one mount point at most *)
(* (addBlock, removeDrive, Mount).                                         *)
TypeOK ==
  /\ DOMAIN m_objects = Path /\ DOMAIN tree = Path /\ DOMAIN known = Path
  /\ posted \subseteq Path
  /\ \A p \in Path : tree[p] # None => m_objects[p] # None
  /\ \A b \in BlockName :
       m_objects[b] # None => m_objects[b].mountPoints \in MountLists
  /\ Len(wire) <= MaxWire

Typed(values, iface) ==
  /\ DOMAIN values = DOMAIN Introspected[iface]
  /\ \A p \in DOMAIN values : values[p].type = Introspected[iface][p]

(* What a message tells of objects, one record of interfaces for each.     *)
told(msg) ==
  CASE msg.kind \in {"InterfacesAdded", "GetAll"} -> {msg.values}
    [] msg.kind = "GetManagedObjects" -> Range(msg.objects)
    [] OTHER -> {}

(* InterfacesAdded, GetAll and GetManagedObjects tell every property that  *)
(* the introspection data of the interface declares, with the type it      *)
(* declares, also those that a Block or a Drive has not or has with        *)
(* another type (the getters of the adaptors).                             *)
AnswersAreTyped ==
  \A i \in DOMAIN wire :
    \A values \in told(wire[i]) : \A iface \in DOMAIN values : Typed(values[iface], iface)

(* The signals have told a client everything that v says now; but a mount  *)
(* point that Unmount has taken off stays known.                           *)
Agrees(k, v) ==
  /\ DOMAIN k = DOMAIN v
  /\ \A iface \in DOMAIN v \ {"Filesystem"} : k[iface] = v[iface]
  /\ "Filesystem" \in DOMAIN v =>
       /\ DOMAIN k.Filesystem = DOMAIN v.Filesystem
       /\ ToSet(v.Filesystem.MountPoints.val) \subseteq ToSet(k.Filesystem.MountPoints.val)

(* An answer msg to GetAll, GetManagedObjects or Mount says no other than  *)
(* the signals that were sent before it, which have told a client k.       *)
GetAllAgrees(k, msg) ==
  msg.kind = "GetAll" /\ msg.path \notin Cd /\ k[msg.path] # None =>
    Agrees(k[msg.path], msg.values)

ManagedAgrees(k, msg) ==
  msg.kind = "GetManagedObjects" =>
    \A p \in Path : k[p] # None => p \in DOMAIN msg.objects /\ Agrees(k[p], msg.objects[p])

MountAgrees(k, msg) ==
  msg.kind = "Mount" /\ k[msg.path] # None =>
    msg.dir \in ToSet(k[msg.path].Filesystem.MountPoints.val)

(* When the answer to GetAll arrives and the client has not been told that *)
(* the object is gone, the signals that have arrived before it have told   *)
(* the same: no property but MountPoints changes while an object is        *)
(* published, a disk that comes back with another medium is served from    *)
(* its new label, and a call that has waited while the disk was away and   *)
(* came back does not speak for the old object (addBlock, removeDrive,     *)
(* registerBlock).  It may for an object that is gone for good, and CD     *)
(* drives are served from the first medium that was read.                  *)
GetAllMatchesSignals == wire # <<>> => GetAllAgrees(known, Head(wire))

(* When the answer to GetManagedObjects arrives, it holds all the client   *)
(* was told of and has not been told to forget, with the same properties,  *)
(* CD drives included (addDrive and addBlock replace what is in the hash). *)
ManagedMatchesSignals == wire # <<>> => ManagedAgrees(known, Head(wire))

(* When Mount's answer arrives, the client knows the mount point already:  *)
(* PropertiesChanged is sent from inside the handler.                      *)
MountKnownBeforeAnswer == wire # <<>> => MountAgrees(known, Head(wire))

(* The objects that may be published at a path.                            *)
Objects(p) ==
  IF p \in DriveName THEN {createDrive(p, m) : m \in Medium}
                     ELSE {createBlock(p, m, dirs) : m \in Medium, dirs \in MountLists}

(* The object tree serves what the hashes hold, but for CD drives, a drive *)
(* is served with its block or neither is (addNewDevices, removeDrive),    *)
(* and a call waits for no object that the hashes have let go of.          *)
ObjectsInv ==
  /\ \A p \in Path : {m_objects[p], tree[p]} \subseteq Objects(p) \cup {None}
  /\ \A p \in Path \ Cd : tree[p] \in {m_objects[p], None}
  /\ \A c \in Cd : m_objects[c] = None <=> tree[c] = None
  /\ \A d \in Disk : tree[d] = None <=> tree[blockName[d]] = None
  /\ \A p \in posted : m_objects[p] # None

(* A client that has been told k is up to date: it knows what is served,   *)
(* of CD drives what the hash holds.                                       *)
UpToDate(k) ==
  /\ DOMAIN k = Path
  /\ \A p \in Path \ Cd :
       IF tree[p] = None THEN k[p] = None
       ELSE k[p] # None /\ Agrees(k[p], interfaces(tree[p]))
  /\ \A c \in Cd : k[c] = IF m_objects[c] = None THEN None ELSE interfaces(m_objects[c])

(* view[i] is what the client knows after the first i messages: when it    *)
(* has them all it is up to date, and no answer contradicts the signals    *)
(* before it.                                                              *)
Foretold(view) ==
  /\ view[0] = known
  /\ \A i \in DOMAIN wire :
       /\ view[i] = learn(view[i - 1], wire[i])
       /\ GetAllAgrees(view[i - 1], wire[i])
       /\ ManagedAgrees(view[i - 1], wire[i])
       /\ MountAgrees(view[i - 1], wire[i])
  /\ UpToDate(view[Len(wire)])

(* Whatever is on its way, every later state of the client is foretold by  *)
(* the messages already sent: signals and answers leave the daemon in an   *)
(* order that agrees with its state (objectmanager.cpp, Mount, Unmount).   *)
SignalsInv ==
  LET view[i \in 0 .. Len(wire)] == IF i = 0 THEN known ELSE learn(view[i - 1], wire[i])
  IN  Foretold(view)

(* PropertiesChanged gives MountPoints with the declared type, "aay".      *)
SignalsAreTyped ==
  \A i \in DOMAIN wire :
    wire[i].kind = "PropertiesChanged" =>
      wire[i].values.MountPoints.type = Introspected["Filesystem"]["MountPoints"]

(* A call that is answered with success has been carried out: SetLabel     *)
(* "sets the filesystem label".                                            *)
SuccessMeansDone == \A i \in DOMAIN wire : wire[i].kind = "Return" => wire[i].done
=============================================================================
