--------------------------- MODULE AdaptorsProofs ---------------------------
(***************************************************************************)
(* What an adaptor offers on the bus is what its introspection data        *)
(* declares, whatever its parent has (adaptors.h, adaptors.cpp).           *)
(***************************************************************************)
EXTENDS Adaptors, TLAPS

(* How QtDBus marshals the C++ types, one by one.                          *)
LEMMA Signatures ==
  /\ signature["QString"] = "s" /\ signature["bool"] = "b" /\ signature["int"] = "i"
  /\ signature["uint"] = "u" /\ signature["qulonglong"] = "t"
  /\ signature["QByteArray"] = "ay" /\ signature["QByteArrayList"] = "aay"
  /\ signature["QStringList"] = "as" /\ signature["QDBusObjectPath"] = "o"
  /\ signature["QVariantMap"] = "asv" /\ signature["ConfigurationList"] = "asasv"
BY DEF signature

(* The rows A, of types in C++, and B, of types on the bus, fit: they have *)
(* the same names, and rows that share a name have the same type.          *)
Fit(A, B) ==
  /\ UNION {r[2] : r \in A} = UNION {s[2] : s \in B}
  /\ \A r \in A, s \in B : \A p \in r[2] \cap s[2] : signature[r[1]] = s[1]

(* Tables whose rows fit match in every entry.                             *)
LEMMA TablesMatch ==
  ASSUME NEW A, NEW B, Fit(A, B)
  PROVE  /\ DOMAIN table(A) = DOMAIN table(B)
         /\ \A p \in DOMAIN table(B) : signature[table(A)[p]] = table(B)[p]
<1>1. DOMAIN table(A) = DOMAIN table(B)
  BY DEF table, Fit
<1>2. ASSUME NEW p \in DOMAIN table(B) PROVE signature[table(A)[p]] = table(B)[p]
  <2> DEFINE r == CHOOSE row \in A : p \in row[2]
             s == CHOOSE row \in B : p \in row[2]
  <2>1. r \in A /\ p \in r[2]
    BY DEF table, Fit
  <2>2. s \in B /\ p \in s[2]
    BY DEF table
  <2>3. p \in DOMAIN table(A)
    BY <1>1
  <2>4. table(A)[p] = r[1]
    BY <2>3 DEF table
  <2>5. table(B)[p] = s[1]
    BY DEF table
  <2> QED
    BY <2>1, <2>2, <2>4, <2>5 DEF Fit
<1> QED
  BY <1>1, <1>2

(* The tables of BlockAdaptor (Q_PROPERTY and the introspection data).     *)
LEMMA BlockTables ==
  /\ DOMAIN BlockAdaptorProperties = DOMAIN BlockProperties
  /\ \A p \in DOMAIN BlockProperties :
       signature[BlockAdaptorProperties[p]] = BlockProperties[p]
<1> DEFINE declared == BlockDeviceProperties \cup BlockIdProperties \cup
                       BlockConfigurationProperties \cup
                       BlockHintProperties
<1>1. UNION {r[2] : r \in BlockQProperty} = UNION {s[2] : s \in declared}
  BY DEF BlockQProperty, BlockDeviceProperties, BlockIdProperties,
      BlockConfigurationProperties, BlockHintProperties
<1>2. \A r \in BlockQProperty, s \in declared : \A p \in r[2] \cap s[2] : signature[r[1]] = s[1]
  <2>1. \A r \in BlockQProperty, s \in BlockDeviceProperties :
          \A p \in r[2] \cap s[2] : signature[r[1]] = s[1]
    BY Signatures DEF BlockQProperty, BlockDeviceProperties
  <2>2. \A r \in BlockQProperty, s \in BlockIdProperties :
          \A p \in r[2] \cap s[2] : signature[r[1]] = s[1]
    BY Signatures DEF BlockQProperty, BlockIdProperties
  <2>3. \A r \in BlockQProperty, s \in BlockConfigurationProperties :
          \A p \in r[2] \cap s[2] : signature[r[1]] = s[1]
    BY Signatures DEF BlockQProperty, BlockConfigurationProperties
  <2>4. \A r \in BlockQProperty, s \in BlockHintProperties :
          \A p \in r[2] \cap s[2] : signature[r[1]] = s[1]
    BY Signatures DEF BlockQProperty, BlockHintProperties
  <2> QED
    BY <2>1, <2>2, <2>3, <2>4
<1>3. /\ BlockAdaptorProperties = table(BlockQProperty)
      /\ BlockProperties = table(declared)
  BY DEF BlockAdaptorProperties, BlockProperties
<1> HIDE DEF declared
<1>4. Fit(BlockQProperty, declared)
  BY <1>1, <1>2 DEF Fit
<1> QED
  BY <1>3, <1>4, TablesMatch

(* The tables of DriveAdaptor.                                             *)
LEMMA DriveTables ==
  /\ DOMAIN DriveAdaptorProperties = DOMAIN DriveProperties
  /\ \A p \in DOMAIN DriveProperties :
       signature[DriveAdaptorProperties[p]] = DriveProperties[p]
<1> DEFINE declared == DriveIdProperties \cup DriveMediaProperties \cup
                       DriveStateProperties \cup
                       DriveConnectionProperties \cup
                       DrivePowerProperties
<1>1. UNION {r[2] : r \in DriveQProperty} = UNION {s[2] : s \in declared}
  BY DEF DriveQProperty, DriveIdProperties, DriveMediaProperties, DriveStateProperties,
      DriveConnectionProperties, DrivePowerProperties
<1>2. \A r \in DriveQProperty, s \in declared : \A p \in r[2] \cap s[2] : signature[r[1]] = s[1]
  BY Signatures
     DEF DriveQProperty, DriveIdProperties, DriveMediaProperties, DriveStateProperties,
         DriveConnectionProperties, DrivePowerProperties
<1>3. /\ DriveAdaptorProperties = table(DriveQProperty)
      /\ DriveProperties = table(declared)
  BY DEF DriveAdaptorProperties, DriveProperties
<1> HIDE DEF declared
<1>4. Fit(DriveQProperty, declared)
  BY <1>1, <1>2 DEF Fit
<1> QED
  BY <1>3, <1>4, TablesMatch

(* The tables of FilesystemAdaptor, and the property of a Block it reads.   *)
LEMMA FilesystemTables ==
  /\ DOMAIN FilesystemAdaptorProperties = DOMAIN FilesystemProperties
  /\ \A p \in DOMAIN FilesystemProperties :
       signature[FilesystemAdaptorProperties[p]] = FilesystemProperties[p]
  /\ DOMAIN FilesystemAdaptorProperties = {"MountPoints"}
  /\ FilesystemAdaptorProperties["MountPoints"] = "QByteArrayList"
  /\ "MountPoints" \in DOMAIN BlockQtProperties
  /\ BlockQtProperties["MountPoints"] = "QByteArrayList"
BY Signatures
   DEF FilesystemAdaptorProperties, FilesystemQProperty, FilesystemProperties,
       BlockQtProperties, table

(* qvariant_cast gives the type it is asked for, whatever the parent has.  *)
LEMMA CastIsTyped ==
  ASSUME NEW t, NEW qt, NEW values, NEW p
  PROVE  qvariant_cast(t, qt, values, p).type = signature[t]
BY DEF qvariant_cast, onBus

(* What the adaptors' getters return is what the introspection data        *)
(* declares, in its names and its types, for any values of the parent.     *)
THEOREM AdaptorsAreTyped ==
  ASSUME NEW values
  PROVE  /\ DOMAIN blockAdaptor(values) = DOMAIN BlockProperties
         /\ \A p \in DOMAIN BlockProperties : blockAdaptor(values)[p].type = BlockProperties[p]
         /\ DOMAIN driveAdaptor(values) = DOMAIN DriveProperties
         /\ \A p \in DOMAIN DriveProperties : driveAdaptor(values)[p].type = DriveProperties[p]
         /\ DOMAIN filesystemAdaptor(values) = DOMAIN FilesystemProperties
         /\ \A p \in DOMAIN FilesystemProperties :
              filesystemAdaptor(values)[p].type = FilesystemProperties[p]
<1>1. /\ DOMAIN blockAdaptor(values) = DOMAIN BlockProperties
      /\ \A p \in DOMAIN BlockProperties : blockAdaptor(values)[p].type = BlockProperties[p]
  BY BlockTables, CastIsTyped DEF blockAdaptor
<1>2. /\ DOMAIN driveAdaptor(values) = DOMAIN DriveProperties
      /\ \A p \in DOMAIN DriveProperties : driveAdaptor(values)[p].type = DriveProperties[p]
  BY DriveTables, CastIsTyped DEF driveAdaptor
<1>3. /\ DOMAIN filesystemAdaptor(values) = DOMAIN FilesystemProperties
      /\ \A p \in DOMAIN FilesystemProperties :
           filesystemAdaptor(values)[p].type = FilesystemProperties[p]
  BY FilesystemTables, CastIsTyped DEF filesystemAdaptor
<1> QED
  BY <1>1, <1>2, <1>3

(* FilesystemAdaptor tells the mount points of the Block, no others.       *)
LEMMA FilesystemTellsMountPoints ==
  ASSUME NEW values
  PROVE  /\ DOMAIN filesystemAdaptor(values) = {"MountPoints"}
         /\ filesystemAdaptor(values).MountPoints.val = values["MountPoints"]
BY FilesystemTables DEF filesystemAdaptor, qvariant_cast, onBus
=============================================================================
