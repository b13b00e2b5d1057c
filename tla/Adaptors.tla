------------------------------ MODULE Adaptors ------------------------------
(***************************************************************************)
(* The adaptors that are attached to published objects (adaptors.h and     *)
(* adaptors.cpp, generated by qdbusxml2cpp): BlockAdaptor,                 *)
(* FilesystemAdaptor and DriveAdaptor.  An adaptor says with one table what *)
(* it offers (the introspection data), has the properties and slots of     *)
(* that table in C++, and gets every value and passes every call on to its *)
(* parent, a Block or a Drive, which need not have them.                   *)
(*                                                                         *)
(* A value on the bus is its D-Bus signature, without brackets (a(sa{sv})  *)
(* is "asasv"), with its contents, a sequence in which FALSE, 0 and the    *)
(* empty string are <<>>.                                                  *)
(***************************************************************************)
(* A table in rows: a type, and the names that have it.                    *)
table(rows) ==
  [p \in UNION {row[2] : row \in rows} |-> (CHOOSE row \in rows : p \in row[2])[1]]

-----------------------------------------------------------------------------
(* The introspection data: the signature of every property, and that of    *)
(* what every method returns, "" for nothing.                              *)

BlockDeviceProperties ==
  {<<"ay", {"Device", "PreferredDevice"}>>, <<"aay", {"Symlinks"}>>,
   <<"t", {"DeviceNumber", "Size"}>>, <<"s", {"Id"}>>, <<"b", {"ReadOnly"}>>,
   <<"o", {"Drive", "MDRaid", "MDRaidMember"}>>}

BlockIdProperties ==
  {<<"s", {"IdUsage", "IdType", "IdVersion", "IdLabel", "IdUUID"}>>}

BlockConfigurationProperties ==
  {<<"asasv", {"Configuration"}>>, <<"o", {"CryptoBackingDevice"}>>}

BlockHintProperties ==
  {<<"b", {"HintPartitionable", "HintSystem", "HintIgnore", "HintAuto"}>>,
   <<"s", {"HintName", "HintIconName", "HintSymbolicIconName"}>>}

BlockConfigurationMethods ==
  {<<"", {"AddConfigurationItem", "RemoveConfigurationItem",
          "UpdateConfigurationItem"}>>,
   <<"asasv", {"GetSecretConfiguration"}>>}

BlockFormatMethods == {<<"", {"Format"}>>}

BlockOpenMethods ==
  {<<"h", {"OpenForBackup", "OpenForRestore", "OpenForBenchmark"}>>,
   <<"", {"Rescan"}>>}

DriveIdProperties ==
  {<<"s", {"Vendor", "Model", "Revision", "Serial", "WWN", "Id"}>>,
   <<"asv", {"Configuration"}>>}

DriveMediaProperties ==
  {<<"s", {"Media"}>>, <<"as", {"MediaCompatibility"}>>,
   <<"b", {"MediaRemovable"}>>}

DriveStateProperties ==
  {<<"b", {"MediaAvailable", "MediaChangeDetected", "Optical",
           "OpticalBlank"}>>,
   <<"t", {"Size", "TimeDetected", "TimeMediaDetected"}>>,
   <<"u", {"OpticalNumTracks", "OpticalNumAudioTracks",
           "OpticalNumDataTracks", "OpticalNumSessions"}>>}

DriveConnectionProperties ==
  {<<"i", {"RotationRate"}>>, <<"b", {"Removable", "Ejectable"}>>,
   <<"s", {"ConnectionBus", "Seat", "SortKey"}>>}

DriveMethods == table({<<"", {"Eject", "SetConfiguration", "PowerOff"}>>})

DrivePowerProperties == {<<"b", {"CanPowerOff"}>>, <<"s", {"SiblingId"}>>}

FilesystemProperties == table({<<"aay", {"MountPoints"}>>})

FilesystemMethods ==
  table({<<"s", {"Mount"}>>, <<"", {"Unmount", "SetLabel"}>>})

BlockProperties ==
  table(BlockDeviceProperties \cup BlockIdProperties \cup BlockConfigurationProperties \cup
        BlockHintProperties)

DriveProperties ==
  table(DriveIdProperties \cup DriveMediaProperties \cup DriveStateProperties \cup
        DriveConnectionProperties \cup DrivePowerProperties)

BlockMethods ==
  table(BlockConfigurationMethods \cup BlockFormatMethods \cup BlockOpenMethods)

Introspected ==
  [Block |-> BlockProperties, Drive |-> DriveProperties, Filesystem |-> FilesystemProperties]

MethodsOf ==
  [Block |-> BlockMethods, Drive |-> DriveMethods, Filesystem |-> FilesystemMethods]

-----------------------------------------------------------------------------
(* The C++ properties of the adaptors (Q_PROPERTY).                        *)

BlockQProperty ==
  {<<"ConfigurationList", {"Configuration"}>>,
   <<"QDBusObjectPath", {"CryptoBackingDevice", "Drive", "MDRaid",
                         "MDRaidMember"}>>,
   <<"QByteArray", {"Device", "PreferredDevice"}>>,
   <<"QByteArrayList", {"Symlinks"}>>,
   <<"qulonglong", {"DeviceNumber", "Size"}>>,
   <<"bool", {"HintAuto", "HintIgnore", "HintPartitionable",
              "HintSystem", "ReadOnly"}>>,
   <<"QString", {"HintIconName", "HintName", "HintSymbolicIconName",
                 "Id", "IdLabel", "IdType", "IdUUID", "IdUsage",
                 "IdVersion"}>>}

BlockAdaptorProperties == table(BlockQProperty)

DriveQProperty ==
  {<<"QVariantMap", {"Configuration"}>>,
   <<"QStringList", {"MediaCompatibility"}>>,
   <<"bool", {"CanPowerOff", "Ejectable", "MediaAvailable",
              "MediaChangeDetected", "MediaRemovable", "Optical",
              "OpticalBlank", "Removable"}>>,
   <<"uint", {"OpticalNumAudioTracks", "OpticalNumDataTracks",
              "OpticalNumSessions", "OpticalNumTracks"}>>,
   <<"int", {"RotationRate"}>>,
   <<"qulonglong", {"Size", "TimeDetected", "TimeMediaDetected"}>>,
   <<"QString", {"ConnectionBus", "Id", "Media", "Model", "Revision",
                 "Seat", "Serial", "SiblingId", "SortKey", "Vendor",
                 "WWN"}>>}

DriveAdaptorProperties == table(DriveQProperty)

FilesystemQProperty == {<<"QByteArrayList", {"MountPoints"}>>}

FilesystemAdaptorProperties == table(FilesystemQProperty)

(* The C++ properties of the parents.  Those of a Block that belong to the *)
(* Partition and PartitionTable interfaces are read by no adaptor.         *)
BlockQtProperties ==
  table({<<"QByteArray", {"Device", "PreferredDevice"}>>,
         <<"QByteArrayList", {"Symlinks", "MountPoints"}>>,
         <<"qulonglong", {"DeviceNumber", "Size"}>>,
         <<"bool", {"HintIgnore"}>>,
         <<"QString", {"IdLabel", "Id", "IdType", "IdUsage", "HintName"}>>,
         <<"QDBusObjectPath", {"CryptoBackingDevice", "Drive", "MDRaid",
                               "MDRaidMember"}>>})

DriveQtProperties ==
  table({<<"Configuration", {"Configuration"}>>,
         <<"QString", {"Vendor", "Id", "Serial", "ConnectionBus"}>>,
         <<"qulonglong", {"Size"}>>,
         <<"QStringList", {"MediaCompatibility"}>>,
         <<"bool", {"Optical", "Ejectable", "Removable", "MediaRemovable"}>>})

(* How QtDBus marshals the C++ types, those included that main registers.  *)
signature ==
  [QString |-> "s", bool |-> "b", int |-> "i", uint |-> "u", qulonglong |-> "t",
   QByteArray |-> "ay", QByteArrayList |-> "aay", QStringList |-> "as",
   QDBusObjectPath |-> "o", QVariantMap |-> "asv",
   Configuration |-> "sasv", ConfigurationList |-> "asasv"]

onBus(t, contents) == [type |-> signature[t], val |-> contents]

(* Mutant: the parent's value is passed on as it is.                       *)
qvariant_castNot(t, qt, values, p) ==
  IF p \in DOMAIN qt THEN onBus(qt[p], values[p]) ELSE onBus(t, <<>>)

(* qvariant_cast<t>(parent()->property(p)): a property the parent does not *)
(* have, or has with a type that is not converted, gives t().              *)
qvariant_cast(t, qt, values, p) ==
  IF p \in DOMAIN qt /\ qt[p] = t THEN onBus(t, values[p]) ELSE onBus(t, <<>>)

(* The getters of the adaptors, given the values of the parent's.          *)
blockAdaptor(values) ==
  [p \in DOMAIN BlockAdaptorProperties |->
     qvariant_cast(BlockAdaptorProperties[p], BlockQtProperties, values, p)]

driveAdaptor(values) ==
  [p \in DOMAIN DriveAdaptorProperties |->
     qvariant_cast(DriveAdaptorProperties[p], DriveQtProperties, values, p)]

filesystemAdaptor(values) ==
  [p \in DOMAIN FilesystemAdaptorProperties |->
     qvariant_cast(FilesystemAdaptorProperties[p], BlockQtProperties, values, p)]

-----------------------------------------------------------------------------
(* The methods.  invokeMethod() returns false for a slot the parent does   *)
(* not have, which no adaptor looks at: the call is "ignored", and answered *)
(* with the initial value of a local variable.                             *)

BlockSlots == {"Mount", "Unmount"}
DriveSlots == {"Eject"}

(* The initial value of a QDBusUnixFileDescriptor holds no descriptor and  *)
(* cannot be marshalled: there is no answer.                               *)
blockMethod(m) ==
  IF m \in BlockSlots THEN "slot" ELSE IF BlockMethods[m] = "h" THEN "lost" ELSE "ignored"

driveMethod(m) == IF m \in DriveSlots THEN "slot" ELSE "ignored"

filesystemMethod(m) == IF m \in BlockSlots THEN "slot" ELSE "ignored"

outcome(iface, m) ==
  CASE iface = "Block"      -> blockMethod(m)
    [] iface = "Drive"      -> driveMethod(m)
    [] iface = "Filesystem" -> filesystemMethod(m)
=============================================================================
