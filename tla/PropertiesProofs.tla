-------------------------- MODULE PropertiesProofs --------------------------
(***************************************************************************)
(* What a client learns from the signals and what it is answered agree,    *)
(* whatever is on its way to the client, for any disks, media, labels and  *)
(* directories (objectmanager.cpp, disk_thread.cpp, blockfilesystem.cpp).  *)
(***************************************************************************)
EXTENDS Properties, AdaptorsProofs, SequenceTheorems, WellFoundedInduction

-----------------------------------------------------------------------------
(* Objects and what their adaptors tell.                                   *)

(* The Block that analyseDev makes, member by member.                      *)
LEMMA BlockIs ==
  ASSUME NEW b, NEW m, NEW dirs
  PROVE  createBlock(b, m, dirs) =
           [m_Name |-> b, m_Size |-> Label[m].size, m_IdType |-> Label[m].fstype,
            m_IdUsage |-> "", m_Id |-> <<Label[m].uid, "a">>, m_IdLabel |-> Label[m].packname,
            mountPoints |-> dirs]
<1> DEFINE q == createBlock(b, m, dirs)
<1>1. q = [[[[m_Name |-> b, m_Size |-> 0, m_IdType |-> "", m_IdUsage |-> "", m_Id |-> <<>>,
              m_IdLabel |-> "", mountPoints |-> <<>>]
             EXCEPT !.m_IdType = "filesystem"]
            EXCEPT !.m_IdType = Label[m].fstype]
           EXCEPT !.m_Size = Label[m].size, !.m_Id = <<Label[m].uid, "a">>,
                  !.m_IdLabel = Label[m].packname, !.mountPoints = dirs]
  BY DEF createBlock, Block, setIdUsage, setIdType
<1> HIDE DEF q
<1>2. q = [m_Name |-> b, m_Size |-> Label[m].size, m_IdType |-> Label[m].fstype,
           m_IdUsage |-> "", m_Id |-> <<Label[m].uid, "a">>, m_IdLabel |-> Label[m].packname,
           mountPoints |-> dirs]
  BY <1>1
<1> QED
  BY <1>2 DEF q

(* Setting its mount points gives a Block of the same label.               *)
LEMMA BlockRemounted ==
  ASSUME NEW b, NEW m, NEW dirs, NEW new, NEW o, o = createBlock(b, m, dirs)
  PROVE  [o EXCEPT !.mountPoints = new] = createBlock(b, m, new)
<1> DEFINE q == [o EXCEPT !.mountPoints = new]
<1>1. q = [o EXCEPT !.mountPoints = new]
  OBVIOUS
<1> HIDE DEF q
<1>2. q = createBlock(b, m, new)
  BY <1>1, BlockIs
<1> QED
  BY <1>2 DEF q

(* A path is one of a disk's drive, a CD drive and a disk's block.         *)
LEMMA Paths ==
  /\ \A b \in BlockName : b \in Path /\ b \notin DriveName /\ b \notin Cd /\ b \notin Disk
  /\ \A b \in BlockName : \E d \in Disk : blockName[d] = b
  /\ \A d \in Disk : d \in Path /\ d \in DriveName /\ d \notin Cd /\ blockName[d] \in BlockName
  /\ \A d, e \in Disk : blockName[d] = blockName[e] => d = e
  /\ \A c \in Cd : c \in Path /\ c \in DriveName /\ c \notin Disk
  /\ \A p \in Path : p \in Disk \/ p \in Cd \/ p \in BlockName
BY PropertiesAssumption DEF Path, DriveName, BlockName, Range, IsInjective

(* Blocks have two interfaces, drives one; no object is None, nor is what  *)
(* it tells.                                                               *)
LEMMA DriveTells ==
  ASSUME NEW n \in DriveName, NEW o \in Objects(n)
  PROVE  /\ o # None
         /\ interfaces(o) # None
         /\ DOMAIN interfaces(o) = {"Drive"}
<1>1. PICK m \in Medium : o = createDrive(n, m)
  BY DEF Objects
<1>2. DOMAIN o = {"m_deviceName", "m_Id", "m_Duid", "m_Vendor", "size", "isRemovable"}
  BY <1>1 DEF createDrive
<1>3. interfaces(o) = [Drive |-> driveAdaptor(driveValues(o))]
  BY <1>2 DEF interfaces
<1>4. DOMAIN interfaces(o) = {"Drive"}
  BY <1>3
<1>5. DOMAIN None = {"none"}
  BY DEF None
<1> QED
  BY <1>2, <1>4, <1>5

(* A block tells its mount points as they are (the adaptors' getters).     *)
LEMMA BlockTells ==
  ASSUME NEW b \in BlockName, NEW o \in Objects(b)
  PROVE  /\ o # None
         /\ interfaces(o) # None
         /\ DOMAIN interfaces(o) = {"Block", "Filesystem"}
         /\ interfaces(o).Block = blockAdaptor(blockValues(o))
         /\ DOMAIN interfaces(o).Filesystem = {"MountPoints"}
         /\ interfaces(o).Filesystem.MountPoints.val = o.mountPoints
<1>1. PICK m \in Medium, dirs \in MountLists : o = createBlock(b, m, dirs)
  BY Paths DEF Objects
<1>2. DOMAIN o = {"m_Name", "m_Size", "m_IdType", "m_IdUsage", "m_Id", "m_IdLabel", "mountPoints"}
  BY <1>1, BlockIs
<1>3. interfaces(o) = [Block |-> blockAdaptor(blockValues(o)),
                       Filesystem |-> filesystemAdaptor(blockValues(o))]
  BY <1>2 DEF interfaces
<1>4. /\ DOMAIN interfaces(o) = {"Block", "Filesystem"}
      /\ interfaces(o).Block = blockAdaptor(blockValues(o))
      /\ interfaces(o).Filesystem = filesystemAdaptor(blockValues(o))
  BY <1>3
<1>5. blockValues(o)["MountPoints"] = o.mountPoints
  BY DEF blockValues
<1>6. DOMAIN None = {"none"}
  BY DEF None
<1> QED
  BY <1>2, <1>4, <1>5, <1>6, FilesystemTellsMountPoints

(* What the Block interface tells does not depend on the mount points.     *)
LEMMA BlockTellsTheSame ==
  ASSUME NEW b, NEW m, NEW dirs, NEW new
  PROVE  blockAdaptor(blockValues(createBlock(b, m, dirs))) =
         blockAdaptor(blockValues(createBlock(b, m, new)))
<1> DEFINE v == blockValues(createBlock(b, m, dirs))
           w == blockValues(createBlock(b, m, new))
<1>1. "MountPoints" \notin DOMAIN BlockAdaptorProperties
  BY DEF BlockAdaptorProperties, BlockQProperty, table
<1>2. DOMAIN BlockQtProperties =
        {"Device", "PreferredDevice", "Symlinks", "MountPoints", "DeviceNumber", "Size",
         "HintIgnore", "IdLabel", "Id", "IdType", "IdUsage", "HintName", "CryptoBackingDevice",
         "Drive", "MDRaid", "MDRaidMember"}
  BY DEF BlockQtProperties, table
<1>3. \A p \in DOMAIN BlockQtProperties \ {"MountPoints"} : v[p] = w[p]
  <2> DEFINE o == createBlock(b, m, dirs)
             q == createBlock(b, m, new)
  <2>1. /\ o.m_Name = q.m_Name /\ o.m_Size = q.m_Size /\ o.m_IdType = q.m_IdType
        /\ o.m_IdUsage = q.m_IdUsage /\ o.m_Id = q.m_Id /\ o.m_IdLabel = q.m_IdLabel
    BY BlockIs
  <2> HIDE DEF o, q
  <2>2. DOMAIN BlockQtProperties \ {"MountPoints"} =
          {"Device", "PreferredDevice", "Symlinks", "DeviceNumber", "Size", "HintIgnore",
           "IdLabel", "Id", "IdType", "IdUsage", "HintName", "CryptoBackingDevice", "Drive",
           "MDRaid", "MDRaidMember"}
    BY <1>2
  <2>3. /\ blockValues(o).Device = blockValues(q).Device
        /\ blockValues(o).PreferredDevice = blockValues(q).PreferredDevice
        /\ blockValues(o).Symlinks = blockValues(q).Symlinks
        /\ blockValues(o).DeviceNumber = blockValues(q).DeviceNumber
        /\ blockValues(o).Size = blockValues(q).Size
        /\ blockValues(o).Id = blockValues(q).Id
        /\ blockValues(o).IdType = blockValues(q).IdType
        /\ blockValues(o).IdUsage = blockValues(q).IdUsage
        /\ blockValues(o).IdLabel = blockValues(q).IdLabel
        /\ blockValues(o).HintIgnore = blockValues(q).HintIgnore
        /\ blockValues(o).HintName = blockValues(q).HintName
        /\ blockValues(o).CryptoBackingDevice = blockValues(q).CryptoBackingDevice
        /\ blockValues(o).Drive = blockValues(q).Drive
        /\ blockValues(o).MDRaid = blockValues(q).MDRaid
        /\ blockValues(o).MDRaidMember = blockValues(q).MDRaidMember
    BY <2>1 DEF blockValues
  <2>4. \A p \in DOMAIN BlockQtProperties \ {"MountPoints"} :
          blockValues(o)[p] = blockValues(q)[p]
    BY <2>2, <2>3
  <2> QED
    BY <2>4 DEF o, q
<1> HIDE DEF v, w
<1>4. \A p \in DOMAIN BlockAdaptorProperties :
        qvariant_cast(BlockAdaptorProperties[p], BlockQtProperties, v, p) =
        qvariant_cast(BlockAdaptorProperties[p], BlockQtProperties, w, p)
  BY <1>1, <1>3 DEF qvariant_cast
<1>5. blockAdaptor(v) = blockAdaptor(w)
  BY <1>4 DEF blockAdaptor
<1> QED
  BY <1>5 DEF v, w

(* Every property that an object tells has its declared type.              *)
LEMMA InterfacesAreTyped ==
  ASSUME NEW o
  PROVE  \A iface \in DOMAIN interfaces(o) : Typed(interfaces(o)[iface], iface)
<1>1. /\ Introspected["Block"] = BlockProperties
      /\ Introspected["Drive"] = DriveProperties
      /\ Introspected["Filesystem"] = FilesystemProperties
  BY DEF Introspected
<1>2. CASE "m_Name" \in DOMAIN o
  <2>1. /\ DOMAIN interfaces(o) = {"Block", "Filesystem"}
        /\ interfaces(o)["Block"] = blockAdaptor(blockValues(o))
        /\ interfaces(o)["Filesystem"] = filesystemAdaptor(blockValues(o))
    BY <1>2 DEF interfaces
  <2>2. Typed(blockAdaptor(blockValues(o)), "Block")
    BY <1>1, AdaptorsAreTyped DEF Typed
  <2>3. Typed(filesystemAdaptor(blockValues(o)), "Filesystem")
    BY <1>1, AdaptorsAreTyped DEF Typed
  <2> QED
    BY <2>1, <2>2, <2>3
<1>3. CASE "m_Name" \notin DOMAIN o
  <2>1. /\ DOMAIN interfaces(o) = {"Drive"}
        /\ interfaces(o)["Drive"] = driveAdaptor(driveValues(o))
    BY <1>3 DEF interfaces
  <2>2. Typed(driveAdaptor(driveValues(o)), "Drive")
    BY <1>1, AdaptorsAreTyped DEF Typed
  <2> QED
    BY <2>1, <2>2
<1> QED
  BY <1>2, <1>3

-----------------------------------------------------------------------------
(* Messages on their way.                                                  *)

Queued == \E S : wire \in Seq(S)

(* What a message tells is typed.                                          *)
IsTyped(msg) == \A values \in told(msg) : \A iface \in DOMAIN values : Typed(values[iface], iface)

(* A message that arrives when a client knows k is typed, and no answer    *)
(* contradicts k.                                                          *)
Agree(k, msg) ==
  IsTyped(msg) /\ GetAllAgrees(k, msg) /\ ManagedAgrees(k, msg) /\ MountAgrees(k, msg)

(* view[i] is what a client that knows k knows after i messages of w.      *)
Shown(view, k, w) ==
  /\ view[0] = k
  /\ \A i \in DOMAIN w : view[i] = learn(view[i - 1], w[i]) /\ Agree(view[i - 1], w[i])

(* The views with one more added.                                          *)
Longer(view, n, k) == [i \in 0 .. n + 1 |-> IF i = n + 1 THEN k ELSE view[i]]

(* A message that agrees with the last view extends the views by one.      *)
LEMMA OneMoreShown ==
  ASSUME NEW S, NEW w \in Seq(S), NEW msg, NEW k, NEW view,
         Shown(view, k, w) /\ Agree(view[Len(w)], msg)
  PROVE  /\ Append(w, msg) \in Seq(S \cup {msg})
         /\ Len(Append(w, msg)) = Len(w) + 1
         /\ Shown(Longer(view, Len(w), learn(view[Len(w)], msg)), k, Append(w, msg))
<1> DEFINE n == Len(w)
           v == Append(w, msg)
           longer == Longer(view, Len(w), learn(view[Len(w)], msg))
<1>1. n \in Nat /\ DOMAIN w = 1 .. n
  BY LenProperties
<1>2. w \in Seq(S \cup {msg})
  BY SeqDef
<1>3. /\ v \in Seq(S \cup {msg}) /\ Len(v) = n + 1 /\ DOMAIN v = 1 .. n + 1
      /\ \A i \in 1 .. n : v[i] = w[i]
      /\ v[n + 1] = msg
  BY <1>1, <1>2, AppendProperties, LenProperties
<1>4. \A i \in 0 .. n : longer[i] = view[i]
  BY <1>1 DEF Longer
<1>5. longer[n + 1] = learn(view[n], msg)
  BY <1>1 DEF Longer
<1> HIDE DEF v, n, longer
<1>6. longer[0] = k
  BY <1>1, <1>4 DEF Shown
<1>7. ASSUME NEW i \in 1 .. n + 1
      PROVE  longer[i] = learn(longer[i - 1], v[i]) /\ Agree(longer[i - 1], v[i])
  <2>1. longer[i - 1] = view[i - 1]
    BY <1>1, <1>4
  <2>2. CASE i = n + 1
    <3>1. i - 1 = n /\ v[i] = msg
      BY <1>1, <1>3, <2>2
    <3>2. Agree(view[n], msg)
      BY DEF n
    <3> QED
      BY <1>5, <2>1, <2>2, <3>1, <3>2
  <2>3. CASE i # n + 1
    <3>1. i \in 1 .. n /\ i \in 0 .. n
      BY <1>1, <2>3
    <3>2. longer[i] = view[i] /\ v[i] = w[i]
      BY <1>3, <1>4, <3>1
    <3> QED
      BY <1>1, <2>1, <3>1, <3>2 DEF Shown
  <2> QED
    BY <2>2, <2>3
<1>8. Shown(longer, k, v)
  BY <1>3, <1>6, <1>7 DEF Shown
<1> QED
  BY <1>3, <1>5, <1>8 DEF n, v, longer

(* The messages on their way, to the last, leave a client up to date.      *)
WireInv ==
  /\ Queued
  /\ Len(wire) <= MaxWire
  /\ \E view : Shown(view, known, wire) /\ UpToDate(view[Len(wire)])

(* Sending one message, when the client will know k.                       *)
LEMMA SendOne ==
  ASSUME NEW msg, send(<<msg>>), Queued, NEW view, NEW k, k = view[Len(wire)],
         Shown(view, known, wire), Agree(k, msg), UpToDate(learn(k, msg))'
  PROVE  WireInv'
<1>1. PICK S : wire \in Seq(S)
  BY DEF Queued
<1>2. wire' = wire \o <<msg>> /\ known' = known /\ Len(wire) + Len(<<msg>>) <= MaxWire
  BY DEF send
<1>3. wire' = Append(wire, msg)
  BY <1>1, <1>2, AppendIsConcat
<1> DEFINE longer == Longer(view, Len(wire), learn(view[Len(wire)], msg))
<1>4. /\ Append(wire, msg) \in Seq(S \cup {msg})
      /\ Len(Append(wire, msg)) = Len(wire) + 1
      /\ Shown(longer, known, Append(wire, msg))
  BY <1>1, OneMoreShown
<1>5. Queued'
  BY <1>3, <1>4 DEF Queued
<1>6. Shown(longer, known', wire')
  BY <1>2, <1>3, <1>4
<1>7. longer[Len(wire) + 1] = learn(k, msg)
  BY <1>1, LenProperties DEF Longer
<1>8. Len(wire') = Len(wire) + 1
  BY <1>3, <1>4
<1>9. longer[Len(wire')] = learn(k, msg)
  BY <1>7, <1>8
<1>10. Len(wire') <= MaxWire
  BY <1>2, <1>8
<1>11. PICK v : v = longer
  OBVIOUS
<1>12. Shown(v, known', wire') /\ v[Len(wire')] = learn(k, msg)
  BY <1>6, <1>9, <1>11
<1>13. UpToDate(v[Len(wire)])'
  BY <1>12
<1> HIDE DEF longer
<1> QED
  BY <1>5, <1>10, <1>12, <1>13 DEF WireInv

(* Sending two messages in a row.                                          *)
LEMMA SendTwo ==
  ASSUME NEW msg, NEW next, send(<<msg, next>>), Queued, NEW view, NEW k, k = view[Len(wire)],
         Shown(view, known, wire), Agree(k, msg), Agree(learn(k, msg), next),
         UpToDate(learn(learn(k, msg), next))'
  PROVE  WireInv'
<1>1. PICK S : wire \in Seq(S)
  BY DEF Queued
<1>2. wire' = wire \o <<msg, next>> /\ known' = known /\ Len(wire) + Len(<<msg, next>>) <= MaxWire
  BY DEF send
<1> DEFINE w == Append(wire, msg)
           longer == Longer(view, Len(wire), learn(view[Len(wire)], msg))
           longest == Longer(longer, Len(w), learn(longer[Len(w)], next))
<1>3. wire' = Append(w, next)
  <2> DEFINE T == S \cup {msg, next}
             s == wire \o <<msg, next>>
             t == Append(w, next)
             n == Len(wire)
  <2>1. wire \in Seq(T) /\ <<msg, next>> \in Seq(T) /\ Len(<<msg, next>>) = 2
    BY <1>1, SeqMonotonic
  <2>2. /\ s \in Seq(T) /\ Len(s) = n + 2
        /\ \A i \in 1 .. n + 2 : s[i] = IF i <= n THEN wire[i] ELSE <<msg, next>>[i - n]
    BY <2>1, ConcatProperties
  <2>3. /\ w \in Seq(T) /\ Len(w) = n + 1
        /\ \A i \in 1 .. n : w[i] = wire[i]
        /\ w[n + 1] = msg
    BY <2>1, AppendProperties
  <2>4. /\ t \in Seq(T) /\ Len(t) = n + 2
        /\ \A i \in 1 .. n + 1 : t[i] = w[i]
        /\ t[n + 2] = next
    <3> HIDE DEF w
    <3>1. Len(w) + 1 = n + 2
      BY <2>1, <2>3, LenProperties
    <3> QED
      BY <2>3, <3>1, AppendProperties
  <2>5. n \in Nat
    BY <2>1, LenProperties
  <2> HIDE DEF w, s, t, n
  <2>6. s[n + 1] = msg /\ s[n + 2] = next
    BY <2>2, <2>5
  <2>7. \A i \in 1 .. n : s[i] = t[i]
    BY <2>2, <2>3, <2>4, <2>5
  <2>8. t[n + 1] = msg
    BY <2>3, <2>4, <2>5
  <2>9. \A i \in 1 .. n + 2 : i \in 1 .. n \/ i = n + 1 \/ i = n + 2
    BY <2>5
  <2>10. \A i \in 1 .. n + 2 : s[i] = t[i]
    BY <2>4, <2>6, <2>7, <2>8, <2>9
  <2>11. s = t
    BY <2>2, <2>4, <2>10, SeqEqual
  <2> QED
    BY <1>2, <2>11 DEF s, t
<1>4. /\ w \in Seq(S \cup {msg})
      /\ Len(w) = Len(wire) + 1
      /\ Shown(longer, known, w)
  BY <1>1, OneMoreShown
<1>5. longer[Len(w)] = learn(k, msg)
  <2>1. longer[Len(wire) + 1] = learn(k, msg)
    BY <1>1, LenProperties DEF Longer
  <2> QED
    BY <1>4, <2>1
<1>6. /\ Append(w, next) \in Seq((S \cup {msg}) \cup {next})
      /\ Len(Append(w, next)) = Len(w) + 1
      /\ Shown(longest, known, Append(w, next))
  <2>1. Shown(longer, known, w) /\ Agree(longer[Len(w)], next)
    BY <1>4, <1>5
  <2> HIDE DEF w, longer
  <2> QED
    BY <1>4, <2>1, OneMoreShown
<1>7. Queued'
  BY <1>3, <1>6 DEF Queued
<1>8. Shown(longest, known', wire')
  BY <1>2, <1>3, <1>6
<1>9. longest[Len(wire')] = learn(learn(k, msg), next)
  <2>1. longest[Len(w) + 1] = learn(longer[Len(w)], next)
    BY <1>4, LenProperties DEF Longer
  <2> QED
    BY <1>3, <1>5, <1>6, <2>1
<1>10. Len(wire') <= MaxWire
  BY <1>1, <1>2, <1>3, <1>4, <1>6, LenProperties
<1>11. PICK v : v = longest
  OBVIOUS
<1>12. Shown(v, known', wire') /\ v[Len(wire')] = learn(learn(k, msg), next)
  BY <1>8, <1>9, <1>11
<1>13. UpToDate(v[Len(wire)])'
  BY <1>12
<1> HIDE DEF longest
<1> QED
  BY <1>7, <1>10, <1>12, <1>13 DEF WireInv

(* Sending nothing, when what the client will know is up to date still.    *)
LEMMA SendNothing ==
  ASSUME UNCHANGED <<wire, known>>, Queued, Len(wire) <= MaxWire, NEW view, NEW k,
         k = view[Len(wire)], Shown(view, known, wire), UpToDate(k)'
  PROVE  WireInv'
<1>1. wire' = wire /\ known' = known
  OBVIOUS
<1>2. Shown(view, known', wire') /\ k = view[Len(wire')]
  BY <1>1
<1>3. UpToDate(view[Len(wire)])'
  BY <1>2
<1>4. Queued' /\ Len(wire') <= MaxWire
  BY <1>1 DEF Queued
<1> QED
  BY <1>2, <1>3, <1>4 DEF WireInv

(* Delivering the next message.                                            *)
LEMMA ReceiveNext ==
  ASSUME WireInv, Receive
  PROVE  WireInv'
<1>1. PICK S : wire \in Seq(S)
  BY DEF WireInv, Queued
<1>2. PICK view : Shown(view, known, wire) /\ UpToDate(view[Len(wire)])
  BY DEF WireInv
<1> DEFINE n == Len(wire)
           later == [i \in 0 .. n - 1 |-> view[i + 1]]
<1>3. wire # <<>> /\ wire' = Tail(wire) /\ known' = learn(known, Head(wire))
  BY DEF Receive
<1>4. n \in Nat \ {0} /\ DOMAIN wire = 1 .. n
  BY <1>1, <1>3, LenProperties, EmptySeq
<1>5. /\ wire' \in Seq(S) /\ Len(wire') = n - 1
      /\ \A i \in 1 .. n - 1 : wire'[i] = wire[i + 1]
  BY <1>1, <1>3, HeadTailProperties
<1>6. DOMAIN wire' = 1 .. n - 1
  BY <1>5, LenProperties
<1>7. Head(wire) = wire[1]
  BY <1>1, <1>3
<1>8. \A i \in 0 .. n - 1 : later[i] = view[i + 1]
  OBVIOUS
<1> HIDE DEF n, later
<1>9. later[0] = known'
  <2>1. view[1] = learn(view[1 - 1], wire[1]) /\ view[0] = known
    BY <1>2, <1>4 DEF Shown
  <2>2. 1 - 1 = 0 /\ 0 + 1 = 1 /\ 0 \in 0 .. n - 1
    BY <1>4
  <2> QED
    BY <1>3, <1>7, <1>8, <2>1, <2>2
<1>10. ASSUME NEW i \in 1 .. n - 1
       PROVE  later[i] = learn(later[i - 1], wire'[i]) /\ Agree(later[i - 1], wire'[i])
  <2>1. i + 1 \in 1 .. n /\ i \in 0 .. n - 1 /\ i - 1 \in 0 .. n - 1
        /\ (i + 1) - 1 = i /\ (i - 1) + 1 = i
    BY <1>4
  <2>2. later[i] = view[i + 1] /\ later[i - 1] = view[i]
    BY <1>8, <2>1
  <2>3. view[i + 1] = learn(view[i], wire[i + 1]) /\ Agree(view[i], wire[i + 1])
    BY <1>2, <1>4, <2>1 DEF Shown
  <2>4. wire'[i] = wire[i + 1]
    BY <1>5
  <2> QED
    BY <2>2, <2>3, <2>4
<1>11. Shown(later, known', wire')
  BY <1>6, <1>9, <1>10 DEF Shown
<1>12. later[Len(wire')] = view[n]
  <2>1. n - 1 \in 0 .. n - 1 /\ (n - 1) + 1 = n
    BY <1>4
  <2> QED
    BY <1>5, <1>8, <2>1
<1>13. PICK k : k = view[n]
  OBVIOUS
<1>14. UpToDate(k)'
  <2>1. UNCHANGED <<m_objects, tree>> /\ UpToDate(k)
    BY <1>2, <1>13 DEF Receive, n
  <2> QED
    BY <2>1 DEF UpToDate
<1>15. PICK v : v = later
  OBVIOUS
<1>16. Shown(v, known', wire') /\ k = v[Len(wire')]
  BY <1>11, <1>12, <1>13, <1>15
<1>17. UpToDate(v[Len(wire)])'
  BY <1>16, <1>14
<1>18. Queued' /\ Len(wire') <= MaxWire
  <2>1. Len(wire) <= MaxWire
    BY DEF WireInv
  <2>2. Len(wire') <= MaxWire
    BY <1>4, <1>5, <2>1, PropertiesAssumption DEF n
  <2> QED
    BY <1>5, <2>2 DEF Queued
<1> QED
  BY <1>16, <1>18, <1>17 DEF WireInv

-----------------------------------------------------------------------------
(* What the messages tell.                                                 *)

(* What is known, with v known of the path p.                              *)
Told(k, p, v) == [k EXCEPT ![p] = v]

(* What is known, with the mount points of the block b known as dirs.      *)
Remounted(k, b, dirs) == [k EXCEPT ![b].Filesystem.MountPoints = onBus("QString", dirs)]

(* The signals for an object tell what its interfaces say, or that it is   *)
(* gone (addInterfaces, removeInterfaces).                                 *)
LEMMA LearnSignals ==
  /\ \A k, p, o : learn(k, addInterfaces(p, o)) = Told(k, p, interfaces(o))
  /\ \A k, p : learn(k, removeInterfaces(p)) = Told(k, p, None)
  /\ \A k, p, dirs : learn(k, signalMountPointsChanged(p, dirs)) =
                       IF k[p] = None THEN k ELSE Remounted(k, p, dirs)
  /\ \A k : learn(k, [kind |-> "NameOwnerChanged"]) = Nothing
<1>1. \A k, p, o : learn(k, addInterfaces(p, o)) = Told(k, p, interfaces(o))
  BY DEF learn, addInterfaces, Told
<1>2. \A k, p : learn(k, removeInterfaces(p)) = Told(k, p, None)
  BY DEF learn, removeInterfaces, Told
<1>3. \A k, p, dirs : learn(k, signalMountPointsChanged(p, dirs)) =
                       IF k[p] = None THEN k ELSE Remounted(k, p, dirs)
  <2> SUFFICES ASSUME NEW k, NEW p, NEW dirs
               PROVE  learn(k, signalMountPointsChanged(p, dirs)) =
                        IF k[p] = None THEN k ELSE Remounted(k, p, dirs)
    OBVIOUS
  <2> DEFINE signal == signalMountPointsChanged(p, dirs)
  <2>1. /\ signal.kind = "PropertiesChanged" /\ signal.path = p
        /\ signal.values.MountPoints = onBus("QString", dirs)
    BY DEF signalMountPointsChanged
  <2> HIDE DEF signal
  <2>2. learn(k, signal) =
          IF k[p] = None THEN k
          ELSE [k EXCEPT ![p].Filesystem.MountPoints = onBus("QString", dirs)]
    BY <2>1 DEF learn
  <2> QED
    BY <2>2 DEF signal, Remounted
<1>4. \A k : learn(k, [kind |-> "NameOwnerChanged"]) = Nothing
  BY DEF learn
<1> QED
  BY <1>1, <1>2, <1>3, <1>4

(* Answers change nothing of what is known.                                *)
LEMMA LearnAnswers ==
  ASSUME NEW k, NEW msg, msg.kind \in {"GetAll", "GetManagedObjects", "Mount", "Return"}
  PROVE  learn(k, msg) = k
BY DEF learn

(* Signals contradict nothing.                                             *)
LEMMA SignalsAgree ==
  ASSUME NEW k, NEW msg,
         msg.kind \in {"InterfacesRemoved", "PropertiesChanged", "NameOwnerChanged", "Return"}
  PROVE  Agree(k, msg)
BY DEF Agree, IsTyped, told, GetAllAgrees, ManagedAgrees, MountAgrees

(* InterfacesAdded tells typed properties, and contradicts nothing.        *)
LEMMA AddedAgrees ==
  ASSUME NEW k, NEW p, NEW o
  PROVE  Agree(k, addInterfaces(p, o))
BY InterfacesAreTyped
   DEF Agree, IsTyped, told, GetAllAgrees, ManagedAgrees, MountAgrees, addInterfaces

-----------------------------------------------------------------------------
(* The objects.                                                            *)

StateInv ==
  /\ DOMAIN m_objects = Path /\ DOMAIN tree = Path /\ DOMAIN known = Path
  /\ posted \subseteq Path
  /\ ObjectsInv

(* What is served at the path of a disk or block is what the hash holds.   *)
LEMMA ServedIsHeld ==
  ASSUME StateInv, NEW p \in Path, tree[p] # None
  PROVE  /\ tree[p] \in Objects(p)
         /\ m_objects[p] \in Objects(p)
         /\ m_objects[p] # None
         /\ p \notin Cd => tree[p] = m_objects[p]
<1>1. {m_objects[p], tree[p]} \subseteq Objects(p) \cup {None}
  BY DEF StateInv, ObjectsInv
<1>2. p \notin Cd => tree[p] = m_objects[p]
  BY DEF StateInv, ObjectsInv
<1>3. p \in Cd => m_objects[p] # None
  BY DEF StateInv, ObjectsInv
<1> QED
  BY <1>1, <1>2, <1>3

(* A call finds the object it was posted to; for a disk it is the one in   *)
(* the hash, which is served as long as any is (addBlock, addDrive).       *)
LEMMA WaitedFor ==
  ASSUME StateInv, NEW p \in posted
  PROVE  /\ p \in Path /\ target(p) # None /\ target(p) \in Objects(p)
         /\ p \notin Cd => target(p) = m_objects[p] /\ tree[p] \in {m_objects[p], None}
<1>1. p \in Path /\ m_objects[p] # None
  BY DEF StateInv, ObjectsInv
<1>2. {m_objects[p], tree[p]} \subseteq Objects(p) \cup {None}
  BY <1>1 DEF StateInv, ObjectsInv
<1>3. CASE p \in Cd
  BY <1>1, <1>2, <1>3 DEF target, StateInv, ObjectsInv
<1>4. CASE p \notin Cd
  BY <1>1, <1>2, <1>4 DEF target, StateInv, ObjectsInv
<1> QED
  BY <1>1, <1>3, <1>4

(* A Block that a call waits for has the label of a medium and mount       *)
(* points, also when it is served no more (analyseDev, removeBlock).       *)
LEMMA WaitedBlock ==
  ASSUME StateInv, NEW b \in BlockName, b \in posted
  PROVE  \E m \in Medium, old \in MountLists :
           /\ target(b) = createBlock(b, m, old) /\ target(b).mountPoints = old
           /\ m_objects[b] = createBlock(b, m, old)
           /\ tree[b] \in {createBlock(b, m, old), None}
<1>1. /\ target(b) \in Objects(b) /\ target(b) = m_objects[b]
      /\ tree[b] \in {m_objects[b], None}
  BY WaitedFor, Paths
<1>2. PICK m \in Medium, old \in MountLists : target(b) = createBlock(b, m, old)
  BY <1>1, Paths DEF Objects
<1>3. createBlock(b, m, old).mountPoints = old
  BY BlockIs
<1> QED
  BY <1>1, <1>2, <1>3

(* A hash or tree with the object o at the path q.                         *)
With(f, q, o) == [p \in Path |-> IF p = q THEN o ELSE f[p]]

(* The same, if there was none at q.                                       *)
WithNew(f, q, o) == [p \in Path |-> IF p = q /\ f[p] = None THEN o ELSE f[p]]

(* addNewDevices: both objects are new in the hash and in the tree.        *)
LEMMA AddDiskEffect ==
  ASSUME StateInv, NEW d \in Disk, NEW m \in Medium, AddDisk(d, m)
  PROVE  \E dirs \in MountLists :
           LET b == blockName[d]
               drive == createDrive(d, m)
               block == createBlock(b, m, dirs)
           IN  /\ m_objects' = With(With(m_objects, b, block), d, drive)
               /\ tree' = With(With(tree, b, block), d, drive)
               /\ send(<<addInterfaces(d, drive), addInterfaces(b, block)>>)
<1> DEFINE b == blockName[d]
           objects(dirs) == [p \in {d, b} |-> IF p = d THEN createDrive(d, m)
                                                       ELSE createBlock(b, m, dirs)]
<1>1. PICK dirs \in MountLists :
        /\ m_objects' = insert(objects(dirs))
        /\ tree' = registerObjects(objects(dirs))
        /\ send(<<addInterfaces(d, objects(dirs)[d]), addInterfaces(b, objects(dirs)[b])>>)
  BY DEF AddDisk
<1>2. d # b /\ d \in Path /\ b \in Path
  BY Paths
<1>3. tree[d] = None /\ tree[b] = None
  BY DEF AddDisk, StateInv, ObjectsInv
<1>4. /\ DOMAIN objects(dirs) = {d, b}
      /\ objects(dirs)[d] = createDrive(d, m)
      /\ objects(dirs)[b] = createBlock(b, m, dirs)
  BY <1>2
<1> HIDE DEF objects
<1>5. m_objects' = With(With(m_objects, b, createBlock(b, m, dirs)), d, createDrive(d, m))
  BY <1>1, <1>4 DEF insert, With
<1>6. tree' = With(With(tree, b, createBlock(b, m, dirs)), d, createDrive(d, m))
  BY <1>1, <1>3, <1>4 DEF registerObjects, With
<1>7. send(<<addInterfaces(d, createDrive(d, m)), addInterfaces(b, createBlock(b, m, dirs))>>)
  BY <1>1, <1>4
<1> QED
  BY <1>5, <1>6, <1>7

(* The CD loop: a new object in the hash, in the tree only the first.      *)
LEMMA AddCdEffect ==
  ASSUME NEW c \in Cd, NEW m \in Medium, AddCd(c, m)
  PROVE  LET drive == createDrive(c, m)
         IN  /\ m_objects' = With(m_objects, c, drive)
             /\ tree' = WithNew(tree, c, drive)
             /\ send(<<addInterfaces(c, drive)>>)
<1> DEFINE objects == [p \in {c} |-> createDrive(p, m)]
<1>1. /\ m_objects' = insert(objects)
      /\ tree' = registerObjects(objects)
      /\ send(<<addInterfaces(c, objects[c])>>)
  BY DEF AddCd
<1>2. DOMAIN objects = {c} /\ objects[c] = createDrive(c, m)
  OBVIOUS
<1> HIDE DEF objects
<1>3. m_objects' = With(m_objects, c, createDrive(c, m))
  BY <1>1, <1>2 DEF insert, With
<1>4. tree' = WithNew(tree, c, createDrive(c, m))
  BY <1>1, <1>2 DEF registerObjects, WithNew
<1> QED
  BY <1>1, <1>2, <1>3, <1>4

(* addMountPoint and the end of Unmount: the one Block that is in the hash *)
(* and, if it is served still, in the tree has new mount points, and the   *)
(* same label.                                                             *)
LEMMA SetMountPointsEffect ==
  ASSUME StateInv, NEW b \in BlockName, b \in posted, NEW dirs \in MountLists,
         setMountPoints(b, dirs)
  PROVE  \E m \in Medium, old \in MountLists :
           /\ tree[b] \in {createBlock(b, m, old), None}
           /\ m_objects' = With(m_objects, b, createBlock(b, m, dirs))
           /\ tree' = IF tree[b] = None THEN tree ELSE With(tree, b, createBlock(b, m, dirs))
<1>1. PICK m \in Medium, old \in MountLists :
        /\ m_objects[b] = createBlock(b, m, old)
        /\ tree[b] \in {createBlock(b, m, old), None}
  BY WaitedBlock
<1>2. b \in Path /\ \A o : o = createBlock(b, m, old) =>
                         [o EXCEPT !.mountPoints = dirs] = createBlock(b, m, dirs)
  BY Paths, BlockRemounted
<1>3. ASSUME tree[b] # None PROVE tree' = With(tree, b, createBlock(b, m, dirs))
  <2>1. tree' = [tree EXCEPT ![b].mountPoints = dirs] /\ DOMAIN tree = Path
    BY <1>3 DEF setMountPoints, StateInv
  <2>2. tree' = [p \in Path |-> IF p = b THEN [tree[b] EXCEPT !.mountPoints = dirs] ELSE tree[p]]
    BY <2>1
  <2>3. [tree[b] EXCEPT !.mountPoints = dirs] = createBlock(b, m, dirs)
    BY <1>1, <1>2, <1>3
  <2> QED
    BY <2>2, <2>3 DEF With
<1>4. m_objects' = With(m_objects, b, createBlock(b, m, dirs))
  <2>1. m_objects' = [m_objects EXCEPT ![b].mountPoints = dirs] /\ DOMAIN m_objects = Path
    BY DEF setMountPoints, StateInv
  <2>2. m_objects' = [p \in Path |-> IF p = b THEN [m_objects[b] EXCEPT !.mountPoints = dirs]
                                     ELSE m_objects[p]]
    BY <2>1
  <2>3. [m_objects[b] EXCEPT !.mountPoints = dirs] = createBlock(b, m, dirs)
    BY <1>1, <1>2
  <2> QED
    BY <2>2, <2>3 DEF With
<1>5. tree[b] = None => tree' = tree
  BY DEF setMountPoints
<1> QED
  BY <1>1, <1>3, <1>4, <1>5

(* Mount records one directory, signals it and answers with it.            *)
LEMMA MountEffect ==
  ASSUME StateInv, NEW b \in BlockName, Mount(b)
  PROVE  \E dir \in Dir :
           /\ <<dir>> \in MountLists
           /\ setMountPoints(b, <<dir>>)
           /\ send(<<signalMountPointsChanged(b, <<dir>>),
                     [kind |-> "Mount", path |-> b, dir |-> dir]>>)
<1>1. PICK dir \in Dir : LET dirs == Append(target(b).mountPoints, dir)
                         IN  setMountPoints(b, dirs) /\ send(mounted(b, dirs))
  BY DEF Mount
<1>2. target(b).mountPoints = <<>>
  BY DEF Mount, refusesMount
<1>3. Append(<<>>, dir) = <<dir>>
  OBVIOUS
<1>4. mounted(b, <<dir>>) = <<signalMountPointsChanged(b, <<dir>>),
                              [kind |-> "Mount", path |-> b, dir |-> dir]>>
  BY DEF mounted, Last
<1> QED
  BY <1>1, <1>2, <1>3, <1>4 DEF MountLists

(* The objects of a path that has none are those of no other path.         *)
LEMMA Made ==
  ASSUME NEW m \in Medium
  PROVE  /\ \A n \in DriveName : createDrive(n, m) \in Objects(n) /\ createDrive(n, m) # None
         /\ \A b \in BlockName : \A dirs \in MountLists :
              createBlock(b, m, dirs) \in Objects(b) /\ createBlock(b, m, dirs) # None
<1>1. \A n \in DriveName : createDrive(n, m) \in Objects(n)
  BY DEF Objects
<1>2. \A b \in BlockName : \A dirs \in MountLists : createBlock(b, m, dirs) \in Objects(b)
  BY Paths DEF Objects
<1> QED
  BY <1>1, <1>2, DriveTells, BlockTells

(* Calls wait for objects that the hashes hold, whether they are served    *)
(* still or not (addBlock, removeBlock).                                   *)
LEMMA NextPosted ==
  ASSUME StateInv, [Next]_vars
  PROVE  posted' \subseteq Path /\ \A p \in posted' : m_objects'[p] # None
<1>0. /\ posted \subseteq Path /\ DOMAIN m_objects = Path
      /\ \A p \in posted : m_objects[p] # None
  BY DEF StateInv, ObjectsInv
<1>1. ASSUME posted' \subseteq posted,
             \A p \in Path : m_objects[p] # None => m_objects'[p] # None
      PROVE  posted' \subseteq Path /\ \A p \in posted' : m_objects'[p] # None
  BY <1>0, <1>1
<1>2. CASE UNCHANGED <<m_objects, posted>>
  BY <1>1, <1>2
<1>3. ASSUME NEW p \in Path, deliver(p) PROVE posted' \subseteq posted /\ p \in posted
  BY <1>3 DEF deliver
<1>4. ASSUME NEW d \in Disk, NEW m \in Medium, AddDisk(d, m)
      PROVE  posted' \subseteq Path /\ \A p \in posted' : m_objects'[p] # None
  <2>1. PICK dirs \in MountLists :
          m_objects' = With(With(m_objects, blockName[d], createBlock(blockName[d], m, dirs)),
                            d, createDrive(d, m))
    BY <1>4, AddDiskEffect
  <2>2. createDrive(d, m) # None /\ createBlock(blockName[d], m, dirs) # None
    BY Made, Paths
  <2>3. posted' \subseteq posted
    BY <1>4 DEF AddDisk
  <2> QED
    BY <1>1, <2>1, <2>2, <2>3 DEF With
<1>5. ASSUME NEW c \in Cd, NEW m \in Medium, AddCd(c, m)
      PROVE  posted' \subseteq Path /\ \A p \in posted' : m_objects'[p] # None
  <2>1. m_objects' = With(m_objects, c, createDrive(c, m)) /\ createDrive(c, m) # None
    BY <1>5, AddCdEffect, Made, Paths
  <2>2. posted' = posted
    BY <1>5 DEF AddCd
  <2> QED
    BY <1>1, <2>1, <2>2 DEF With
<1>6. ASSUME NEW b \in BlockName, deliver(b), NEW dirs \in MountLists, setMountPoints(b, dirs)
      PROVE  posted' \subseteq Path /\ \A p \in posted' : m_objects'[p] # None
  <2>1. posted' \subseteq posted /\ b \in posted
    BY <1>3, <1>6, Paths
  <2>2. PICK m \in Medium : m_objects' = With(m_objects, b, createBlock(b, m, dirs))
    BY <1>6, <2>1, SetMountPointsEffect
  <2>3. createBlock(b, m, dirs) # None
    BY Made
  <2> QED
    BY <1>1, <2>1, <2>2, <2>3 DEF With
<1>7. ASSUME NEW b \in BlockName, Mount(b)
      PROVE  posted' \subseteq Path /\ \A p \in posted' : m_objects'[p] # None
  <2>1. deliver(b)
    BY <1>7 DEF Mount
  <2> QED
    BY <1>6, <1>7, <2>1, MountEffect
<1>8. ASSUME NEW b \in BlockName, Unmount(b)
      PROVE  posted' \subseteq Path /\ \A p \in posted' : m_objects'[p] # None
  <2>1. deliver(b) /\ <<>> \in MountLists
    BY <1>8 DEF Unmount, MountLists
  <2>2. CASE setMountPoints(b, <<>>)
    BY <1>6, <2>1, <2>2
  <2>3. CASE m_objects' = m_objects
    BY <1>1, <1>3, <2>1, <2>3, Paths
  <2> QED
    BY <1>8, <2>2, <2>3 DEF Unmount
<1>9. ASSUME NEW p \in Path, deliver(p), m_objects' = m_objects
      PROVE  posted' \subseteq Path /\ \A q \in posted' : m_objects'[q] # None
  BY <1>1, <1>3, <1>9
<1>10. ASSUME NEW p \in Path, GetAll(p) \/ Call(p) \/ Refuse(p)
       PROVE  posted' \subseteq Path /\ \A q \in posted' : m_objects'[q] # None
  BY <1>9, <1>10 DEF GetAll, Call, Refuse
<1>11. ASSUME NEW p \in Path, Post(p)
       PROVE  posted' \subseteq Path /\ \A q \in posted' : m_objects'[q] # None
  <2>1. posted' = posted \cup {p} /\ m_objects' = m_objects /\ m_objects[p] # None
    BY <1>11, ServedIsHeld DEF Post
  <2> QED
    BY <1>0, <2>1
<1>12. CASE Exit
  BY <1>12 DEF Exit
<1>13. CASE (\E d \in Disk : RemoveDisk(d)) \/ GetManagedObjects \/ Receive \/ UNCHANGED vars
  BY <1>2, <1>13 DEF RemoveDisk, GetManagedObjects, Receive, vars
<1> QED
  BY <1>4, <1>5, <1>7, <1>8, <1>10, <1>11, <1>12, <1>13, Paths DEF Next

(* Every step keeps hashes and tree consistent.                            *)
LEMMA NextStateInv ==
  ASSUME StateInv, [Next]_vars
  PROVE  StateInv'
<1>k. DOMAIN known' = Path
  <2>1. ASSUME UNCHANGED known PROVE DOMAIN known' = Path
    BY <2>1 DEF StateInv
  <2>2. \A messages : send(messages) => UNCHANGED known
    BY DEF send
  <2>3. CASE Receive
    <3>1. known' = learn(known, Head(wire)) /\ DOMAIN known = Path
      BY <2>3 DEF Receive, StateInv
    <3>2. \A k, msg : DOMAIN k = Path => DOMAIN learn(k, msg) = Path
      BY DEF learn, Nothing
    <3> QED
      BY <3>1, <3>2
  <2>4. CASE UNCHANGED vars
    BY <2>1, <2>4 DEF vars
  <2>5. CASE Next /\ ~Receive
    <3>1. UNCHANGED known
      BY <2>2, <2>5 DEF Next, AddDisk, AddCd, RemoveDisk, Mount, Unmount, Refuse, Post, GetAll,
                        Call, GetManagedObjects, Exit
    <3> QED
      BY <2>1, <3>1
  <2> QED
    BY <2>3, <2>4, <2>5
<1>1. /\ DOMAIN known' = Path
      /\ posted' \subseteq Path /\ \A p \in posted' : m_objects'[p] # None
  BY <1>k, NextPosted
<1>2. ASSUME UNCHANGED <<m_objects, tree>> PROVE StateInv'
  BY <1>1, <1>2 DEF StateInv, ObjectsInv
<1>3. ASSUME NEW d \in Disk, NEW m \in Medium, AddDisk(d, m) PROVE StateInv'
  <2> DEFINE b == blockName[d]
  <2>1. PICK dirs \in MountLists :
          /\ m_objects' = With(With(m_objects, b, createBlock(b, m, dirs)), d, createDrive(d, m))
          /\ tree' = With(With(tree, b, createBlock(b, m, dirs)), d, createDrive(d, m))
    BY <1>3, AddDiskEffect
  <2>2. /\ createDrive(d, m) \in Objects(d) /\ createDrive(d, m) # None
        /\ createBlock(b, m, dirs) \in Objects(b) /\ createBlock(b, m, dirs) # None
    BY Made, Paths
  <2> USE DEF With
  <2>3. DOMAIN m_objects' = Path /\ DOMAIN tree' = Path
    BY <2>1
  <2>4. \A p \in Path : {m_objects'[p], tree'[p]} \subseteq Objects(p) \cup {None}
    BY <2>1, <2>2 DEF StateInv, ObjectsInv
  <2>5. \A p \in Path \ Cd : tree'[p] \in {m_objects'[p], None}
    BY <2>1 DEF StateInv, ObjectsInv
  <2>6. \A c \in Cd : m_objects'[c] = None <=> tree'[c] = None
    BY <2>1, Paths DEF StateInv, ObjectsInv
  <2>7. \A e \in Disk : tree'[e] = None <=> tree'[blockName[e]] = None
    <3> SUFFICES ASSUME NEW e \in Disk
                 PROVE  tree'[e] = None <=> tree'[blockName[e]] = None
      OBVIOUS
    <3>1. e \in Path /\ blockName[e] \in Path /\ e # b /\ blockName[e] # d
      BY Paths
    <3>2. blockName[e] = b => e = d
      BY Paths
    <3> HIDE DEF b
    <3>3. CASE e = d
      BY <2>1, <2>2, <3>1, <3>3, Paths DEF b
    <3>4. CASE e # d
      <4>1. tree'[e] = tree[e] /\ tree'[blockName[e]] = tree[blockName[e]]
        BY <2>1, <3>1, <3>2, <3>4
      <4> QED
        BY <4>1 DEF StateInv, ObjectsInv
    <3> QED
      BY <3>3, <3>4
  <2> QED
    BY <1>1, <2>3, <2>4, <2>5, <2>6, <2>7 DEF StateInv, ObjectsInv
<1>4. ASSUME NEW c \in Cd, NEW m \in Medium, AddCd(c, m) PROVE StateInv'
  <2>1. /\ m_objects' = [p \in Path |-> IF p = c THEN createDrive(c, m) ELSE m_objects[p]]
        /\ tree' = [p \in Path |-> IF p = c /\ tree[p] = None THEN createDrive(c, m) ELSE tree[p]]
    <3>1. /\ m_objects' = With(m_objects, c, createDrive(c, m))
          /\ tree' = WithNew(tree, c, createDrive(c, m))
      BY <1>4, AddCdEffect
    <3> QED
      BY <3>1 DEF With, WithNew
  <2>2. createDrive(c, m) \in Objects(c) /\ createDrive(c, m) # None
    BY Made, Paths
  <2>3. DOMAIN m_objects' = Path /\ DOMAIN tree' = Path
    BY <2>1
  <2>4. \A p \in Path : {m_objects'[p], tree'[p]} \subseteq Objects(p) \cup {None}
    BY <2>1, <2>2 DEF StateInv, ObjectsInv
  <2>5. \A p \in Path \ Cd : tree'[p] \in {m_objects'[p], None}
    BY <2>1 DEF StateInv, ObjectsInv
  <2>6. \A x \in Cd : m_objects'[x] = None <=> tree'[x] = None
    BY <2>1, <2>2, Paths DEF StateInv, ObjectsInv
  <2>7. \A e \in Disk : tree'[e] = None <=> tree'[blockName[e]] = None
    <3>1. \A e \in Disk : tree'[e] = tree[e] /\ tree'[blockName[e]] = tree[blockName[e]]
      BY <2>1, Paths
    <3> QED
      BY <3>1 DEF StateInv, ObjectsInv
  <2> QED
    BY <1>1, <2>3, <2>4, <2>5, <2>6, <2>7 DEF StateInv, ObjectsInv
<1>5. ASSUME NEW d \in Disk, RemoveDisk(d) PROVE StateInv'
  <2>1. /\ m_objects' = m_objects
        /\ tree' = [p \in Path |-> IF p \in {d, blockName[d]} THEN None ELSE tree[p]]
    BY <1>5 DEF RemoveDisk, unregisterObjects
  <2>2. \A c \in Cd : tree'[c] = tree[c]
    BY <2>1, Paths
  <2>3. \A e \in Disk : tree'[e] = None <=> tree'[blockName[e]] = None
    <3> SUFFICES ASSUME NEW e \in Disk
                 PROVE  tree'[e] = None <=> tree'[blockName[e]] = None
      OBVIOUS
    <3>1. e \in Path /\ blockName[e] \in Path /\ e # blockName[d] /\ blockName[e] # d
      BY Paths
    <3>2. blockName[e] = blockName[d] => e = d
      BY Paths
    <3>3. CASE e = d
      BY <2>1, <3>1, <3>3
    <3>4. CASE e # d
      <4>1. tree'[e] = tree[e] /\ tree'[blockName[e]] = tree[blockName[e]]
        BY <2>1, <3>1, <3>2, <3>4
      <4> QED
        BY <4>1 DEF StateInv, ObjectsInv
    <3> QED
      BY <3>3, <3>4
  <2>4. \A p \in Path : tree'[p] \in {tree[p], None}
    BY <2>1
  <2>5. DOMAIN m_objects' = Path /\ DOMAIN tree' = Path
    BY <2>1 DEF StateInv
  <2>6. \A p \in Path : {m_objects'[p], tree'[p]} \subseteq Objects(p) \cup {None}
    BY <2>1, <2>4 DEF StateInv, ObjectsInv
  <2>7. \A p \in Path \ Cd : tree'[p] \in {m_objects'[p], None}
    BY <2>1, <2>4 DEF StateInv, ObjectsInv
  <2>8. \A c \in Cd : m_objects'[c] = None <=> tree'[c] = None
    BY <2>1, <2>2 DEF StateInv, ObjectsInv
  <2> QED
    BY <1>1, <2>3, <2>5, <2>6, <2>7, <2>8 DEF StateInv, ObjectsInv
<1>6. ASSUME NEW b \in BlockName, b \in posted, NEW dirs \in MountLists,
             setMountPoints(b, dirs)
      PROVE  StateInv'
  <2>0. PICK m \in Medium :
          /\ m_objects' = With(m_objects, b, createBlock(b, m, dirs))
          /\ tree' = IF tree[b] = None THEN tree ELSE With(tree, b, createBlock(b, m, dirs))
    BY <1>6, SetMountPointsEffect
  <2>1. /\ DOMAIN m_objects' = Path /\ DOMAIN tree' = Path
        /\ \A p \in Path : m_objects'[p] = IF p = b THEN createBlock(b, m, dirs) ELSE m_objects[p]
        /\ \A p \in Path : tree'[p] = IF p = b /\ tree[b] # None THEN createBlock(b, m, dirs)
                                                                ELSE tree[p]
    BY <2>0 DEF With, StateInv
  <2>2. createBlock(b, m, dirs) \in Objects(b) /\ createBlock(b, m, dirs) # None
    BY Made
  <2>4. \A p \in Path : {m_objects'[p], tree'[p]} \subseteq Objects(p) \cup {None}
    BY <2>1, <2>2 DEF StateInv, ObjectsInv
  <2>5. \A p \in Path \ Cd : tree'[p] \in {m_objects'[p], None}
    BY <2>1 DEF StateInv, ObjectsInv
  <2>6. \A c \in Cd : m_objects'[c] = None <=> tree'[c] = None
    BY <2>1, Paths DEF StateInv, ObjectsInv
  <2>7. \A p \in Path : tree'[p] = None <=> tree[p] = None
    BY <2>1, <2>2
  <2>8. \A e \in Disk : tree'[e] = None <=> tree'[blockName[e]] = None
    BY <2>7, Paths DEF StateInv, ObjectsInv
  <2> QED
    BY <1>1, <2>1, <2>4, <2>5, <2>6, <2>8 DEF StateInv, ObjectsInv
<1>7. ASSUME NEW b \in BlockName, Mount(b) PROVE StateInv'
  <2>1. b \in posted
    BY <1>7 DEF Mount, deliver
  <2> QED
    BY <1>6, <1>7, <2>1, MountEffect
<1>8. ASSUME NEW b \in BlockName, Unmount(b) PROVE StateInv'
  <2>1. b \in posted /\ <<>> \in MountLists
    BY <1>8 DEF Unmount, deliver, MountLists
  <2>2. CASE setMountPoints(b, <<>>)
    BY <1>6, <2>1, <2>2
  <2>3. CASE UNCHANGED <<m_objects, tree>>
    BY <1>2, <2>3
  <2> QED
    BY <1>8, <2>2, <2>3 DEF Unmount
<1>9. ASSUME Exit PROVE StateInv'
  <2>1. m_objects' = Nothing /\ tree' = Nothing
    BY <1>9 DEF Exit
  <2>2. DOMAIN Nothing = Path /\ \A p \in Path : Nothing[p] = None
    BY DEF Nothing
  <2> HIDE DEF Nothing
  <2>3. \A d \in Disk : tree'[d] = None /\ tree'[blockName[d]] = None
    BY <2>1, <2>2, Paths
  <2>4. \A c \in Cd : m_objects'[c] = None /\ tree'[c] = None
    BY <2>1, <2>2, Paths
  <2> QED
    BY <1>1, <2>1, <2>2, <2>3, <2>4 DEF StateInv, ObjectsInv
<1>10. CASE UNCHANGED <<m_objects, tree>>
  BY <1>2, <1>10
<1>11. CASE Next /\ ~UNCHANGED <<m_objects, tree>>
  BY <1>3, <1>4, <1>5, <1>7, <1>8, <1>9, <1>11
     DEF Next, Post, Refuse, GetAll, GetManagedObjects, Call, Receive
<1> QED
  BY <1>10, <1>11 DEF vars

-----------------------------------------------------------------------------
(* What a client knows of a block, when its mount points change.           *)

(* What is told and what is served do not differ if they are the same.     *)
LEMMA AgreesWithItself == \A v : Agrees(v, v)
BY DEF Agrees

(* Nothing of an unmounted block disagrees with what was known before.     *)
LEMMA KnownUnmounted ==
  ASSUME NEW b \in BlockName, NEW m \in Medium, NEW old \in MountLists, NEW x,
         Agrees(x, interfaces(createBlock(b, m, old)))
  PROVE  Agrees(x, interfaces(createBlock(b, m, <<>>)))
<1> DEFINE v == interfaces(createBlock(b, m, old))
           w == interfaces(createBlock(b, m, <<>>))
<1>1. /\ createBlock(b, m, old) \in Objects(b)
      /\ createBlock(b, m, <<>>) \in Objects(b)
      /\ createBlock(b, m, <<>>).mountPoints = <<>>
  BY Made, BlockIs DEF MountLists
<1>2. /\ DOMAIN v = {"Block", "Filesystem"} /\ DOMAIN w = {"Block", "Filesystem"}
      /\ DOMAIN v.Filesystem = {"MountPoints"} /\ DOMAIN w.Filesystem = {"MountPoints"}
      /\ w.Filesystem.MountPoints.val = <<>>
      /\ v.Block = w.Block
  BY <1>1, BlockTells, BlockTellsTheSame
<1>3. Agrees(x, v)
  OBVIOUS
<1> HIDE DEF v, w
<1>4. Agrees(x, w)
  BY <1>2, <1>3 DEF Agrees, ToSet
<1> QED
  BY <1>4 DEF w

(* PropertiesChanged tells the mount points of the block, old or new.      *)
LEMMA KnownRemounted ==
  ASSUME NEW b \in BlockName, NEW m \in Medium, NEW old \in MountLists, NEW new \in MountLists,
         NEW k, b \in DOMAIN k, Agrees(k[b], interfaces(createBlock(b, m, old)))
  PROVE  LET y == Remounted(k, b, new)
         IN  /\ DOMAIN y = DOMAIN k
             /\ \A p \in DOMAIN k \ {b} : y[p] = k[p]
             /\ y[b] # None
             /\ Agrees(y[b], interfaces(createBlock(b, m, new)))
             /\ y[b].Filesystem.MountPoints.val = new
<1> DEFINE v == interfaces(createBlock(b, m, old))
           w == interfaces(createBlock(b, m, new))
           y == Remounted(k, b, new)
<1>1. /\ createBlock(b, m, old) \in Objects(b)
      /\ createBlock(b, m, new) \in Objects(b)
      /\ createBlock(b, m, new).mountPoints = new
  BY Made, BlockIs
<1>2. /\ DOMAIN v = {"Block", "Filesystem"} /\ DOMAIN w = {"Block", "Filesystem"}
      /\ DOMAIN v.Filesystem = {"MountPoints"} /\ DOMAIN w.Filesystem = {"MountPoints"}
      /\ w.Filesystem.MountPoints.val = new
      /\ v.Block = w.Block
  BY <1>1, BlockTells, BlockTellsTheSame
<1>3. Agrees(k[b], v)
  OBVIOUS
<1> HIDE DEF v, w
<1>4. /\ DOMAIN k[b] = {"Block", "Filesystem"} /\ k[b].Block = v.Block
      /\ DOMAIN k[b].Filesystem = {"MountPoints"}
  BY <1>2, <1>3 DEF Agrees
<1>5. /\ DOMAIN y = DOMAIN k
      /\ \A p \in DOMAIN k \ {b} : y[p] = k[p]
  BY DEF Remounted
<1>6. y[b] = [k[b] EXCEPT !.Filesystem.MountPoints = onBus("QString", new)]
  BY DEF Remounted
<1> HIDE DEF y
<1>7. /\ DOMAIN y[b] = {"Block", "Filesystem"} /\ y[b].Block = k[b].Block
      /\ y[b].Filesystem = [k[b].Filesystem EXCEPT !.MountPoints = onBus("QString", new)]
  BY <1>4, <1>6
<1>8. /\ DOMAIN y[b].Filesystem = {"MountPoints"}
      /\ y[b].Filesystem.MountPoints = onBus("QString", new)
  BY <1>4, <1>7
<1>9. y[b].Filesystem.MountPoints.val = new
  BY <1>8 DEF onBus
<1>10. y[b] # None
  <2>1. DOMAIN None = {"none"}
    BY DEF None
  <2> QED
    BY <1>7, <2>1
<1>11. Agrees(y[b], w)
  <2>1. \A iface \in DOMAIN w \ {"Filesystem"} : iface = "Block"
    BY <1>2
  <2>2. y[b].Block = w.Block
    BY <1>2, <1>4, <1>7
  <2> QED
    BY <1>2, <1>7, <1>8, <1>9, <2>1, <2>2 DEF Agrees
<1> QED
  BY <1>5, <1>9, <1>10, <1>11 DEF y, w

-----------------------------------------------------------------------------
(* Every step leaves a client that will be up to date, and sends it no     *)
(* answer that contradicts what it will know by then.  In each lemma k is  *)
(* what the client knows when it has all that is on its way.               *)

(* addNewDevices tells of the drive and of the block that it adds.         *)
LEMMA AddDiskTells ==
  ASSUME StateInv, NEW d \in Disk, NEW m \in Medium, AddDisk(d, m),
         Queued, NEW view, NEW k, k = view[Len(wire)], Shown(view, known, wire), UpToDate(k)
  PROVE  WireInv'
<1> DEFINE b == blockName[d]
           drive == createDrive(d, m)
<1>1. PICK dirs \in MountLists :
        /\ m_objects' = With(With(m_objects, b, createBlock(b, m, dirs)), d, drive)
        /\ tree' = With(With(tree, b, createBlock(b, m, dirs)), d, drive)
        /\ send(<<addInterfaces(d, drive), addInterfaces(b, createBlock(b, m, dirs))>>)
  BY AddDiskEffect
<1> DEFINE block == createBlock(b, m, dirs)
           k1 == Told(k, d, interfaces(drive))
           k2 == Told(k1, b, interfaces(block))
<1>2. /\ learn(k, addInterfaces(d, drive)) = k1
      /\ learn(k1, addInterfaces(b, block)) = k2
  BY LearnSignals
<1>3. d \in Path /\ b \in Path /\ b # d /\ d \notin Cd /\ b \notin Cd
  BY Paths
<1>4. /\ drive # None /\ block # None
      /\ interfaces(drive) # None /\ interfaces(block) # None
  BY Made, Paths, DriveTells, BlockTells
<1>5. DOMAIN k = Path
  BY DEF UpToDate
<1>6. /\ DOMAIN k2 = Path
      /\ k2[d] = interfaces(drive) /\ k2[b] = interfaces(block)
      /\ \A p \in Path \ {d, b} : k2[p] = k[p]
  BY <1>3, <1>5 DEF Told
<1> HIDE DEF drive, block, k2
<1>7. /\ tree'[d] = drive /\ tree'[b] = block
      /\ \A p \in Path \ {d, b} : tree'[p] = tree[p] /\ m_objects'[p] = m_objects[p]
  BY <1>1, <1>3 DEF With, drive, block
<1>8. \A p \in Path \ Cd : IF tree'[p] = None THEN k2[p] = None
                           ELSE k2[p] # None /\ Agrees(k2[p], interfaces(tree'[p]))
  <2> SUFFICES ASSUME NEW p \in Path \ Cd
               PROVE  IF tree'[p] = None THEN k2[p] = None
                      ELSE k2[p] # None /\ Agrees(k2[p], interfaces(tree'[p]))
    OBVIOUS
  <2>1. CASE p \in {d, b}
    BY <1>4, <1>6, <1>7, <2>1, AgreesWithItself
  <2>2. CASE p \notin {d, b}
    BY <1>6, <1>7, <2>2 DEF UpToDate
  <2> QED
    BY <2>1, <2>2
<1>9. \A c \in Cd : k2[c] = IF m_objects'[c] = None THEN None ELSE interfaces(m_objects'[c])
  BY <1>3, <1>6, <1>7, Paths DEF UpToDate
<1>10. UpToDate(k2)'
  BY <1>6, <1>8, <1>9 DEF UpToDate
<1>11. Agree(k, addInterfaces(d, drive)) /\ Agree(k1, addInterfaces(b, block))
  BY AddedAgrees
<1>12. UpToDate(learn(learn(k, addInterfaces(d, drive)), addInterfaces(b, block)))'
  BY <1>2, <1>10
<1>13. send(<<addInterfaces(d, drive), addInterfaces(b, block)>>)
  BY <1>1 DEF drive, block
<1> QED
  BY <1>2, <1>11, <1>12, <1>13, SendTwo

(* check() tells of the newest drive for a CD, which the hash now has.     *)
LEMMA AddCdTells ==
  ASSUME StateInv, NEW c \in Cd, NEW m \in Medium, AddCd(c, m),
         Queued, NEW view, NEW k, k = view[Len(wire)], Shown(view, known, wire), UpToDate(k)
  PROVE  WireInv'
<1> DEFINE drive == createDrive(c, m)
           k1 == Told(k, c, interfaces(drive))
<1>1. /\ m_objects' = With(m_objects, c, drive)
      /\ tree' = WithNew(tree, c, drive)
      /\ send(<<addInterfaces(c, drive)>>)
  BY AddCdEffect
<1>2. learn(k, addInterfaces(c, drive)) = k1
  BY LearnSignals
<1>3. drive # None /\ interfaces(drive) # None
  BY Made, Paths, DriveTells
<1>4. DOMAIN k = Path /\ c \in Path
  BY Paths DEF UpToDate
<1>5. DOMAIN k1 = Path /\ k1[c] = interfaces(drive) /\ \A p \in Path \ {c} : k1[p] = k[p]
  BY <1>4 DEF Told
<1>6. /\ m_objects'[c] = drive
      /\ \A p \in Path \ {c} : tree'[p] = tree[p] /\ m_objects'[p] = m_objects[p]
  BY <1>1, <1>4 DEF With, WithNew
<1> HIDE DEF drive, k1
<1>7. \A p \in Path \ Cd : IF tree'[p] = None THEN k1[p] = None
                           ELSE k1[p] # None /\ Agrees(k1[p], interfaces(tree'[p]))
  BY <1>5, <1>6 DEF UpToDate
<1>8. \A x \in Cd : k1[x] = IF m_objects'[x] = None THEN None ELSE interfaces(m_objects'[x])
  BY <1>3, <1>5, <1>6, Paths DEF UpToDate
<1>9. UpToDate(k1)'
  BY <1>5, <1>7, <1>8 DEF UpToDate
<1>10. UpToDate(learn(k, addInterfaces(c, drive)))'
  BY <1>2, <1>9
<1>11. send(<<addInterfaces(c, drive)>>) /\ Agree(k, addInterfaces(c, drive))
  BY <1>1, AddedAgrees DEF drive
<1> QED
  BY <1>10, <1>11, SendOne

(* removeDevices tells that the block is gone, then the drive.             *)
LEMMA RemoveDiskTells ==
  ASSUME StateInv, NEW d \in Disk, RemoveDisk(d),
         Queued, NEW view, NEW k, k = view[Len(wire)], Shown(view, known, wire), UpToDate(k)
  PROVE  WireInv'
<1> DEFINE b == blockName[d]
           k1 == Told(k, b, None)
           k2 == Told(k1, d, None)
<1>1. /\ m_objects' = m_objects
      /\ tree' = [p \in Path |-> IF p \in {d, b} THEN None ELSE tree[p]]
      /\ send(<<removeInterfaces(b), removeInterfaces(d)>>)
  BY DEF RemoveDisk, unregisterObjects
<1>2. learn(k, removeInterfaces(b)) = k1 /\ learn(k1, removeInterfaces(d)) = k2
  BY LearnSignals
<1>3. d \in Path /\ b \in Path /\ b # d /\ d \notin Cd /\ b \notin Cd /\ DOMAIN k = Path
  BY Paths DEF UpToDate
<1>4. /\ DOMAIN k2 = Path /\ k2[d] = None /\ k2[b] = None
      /\ \A p \in Path \ {d, b} : k2[p] = k[p]
  BY <1>3 DEF Told
<1>5. /\ tree'[d] = None /\ tree'[b] = None
      /\ \A p \in Path \ {d, b} : tree'[p] = tree[p]
  BY <1>1, <1>3
<1> HIDE DEF k2
<1>6. \A p \in Path \ Cd : IF tree'[p] = None THEN k2[p] = None
                           ELSE k2[p] # None /\ Agrees(k2[p], interfaces(tree'[p]))
  <2> SUFFICES ASSUME NEW p \in Path \ Cd
               PROVE  IF tree'[p] = None THEN k2[p] = None
                      ELSE k2[p] # None /\ Agrees(k2[p], interfaces(tree'[p]))
    OBVIOUS
  <2>1. CASE p \in {d, b}
    BY <1>4, <1>5, <2>1
  <2>2. CASE p \notin {d, b}
    BY <1>4, <1>5, <2>2 DEF UpToDate
  <2> QED
    BY <2>1, <2>2
<1>7. \A c \in Cd : k2[c] = IF m_objects'[c] = None THEN None ELSE interfaces(m_objects'[c])
  BY <1>1, <1>3, <1>4, Paths DEF UpToDate
<1>8. UpToDate(k2)'
  BY <1>4, <1>6, <1>7 DEF UpToDate
<1>9. UpToDate(learn(learn(k, removeInterfaces(b)), removeInterfaces(d)))'
  BY <1>2, <1>8
<1>10. Agree(k, removeInterfaces(b)) /\ Agree(k1, removeInterfaces(d))
  <2>1. \A p : removeInterfaces(p).kind = "InterfacesRemoved"
    BY DEF removeInterfaces
  <2> QED
    BY <2>1, SignalsAgree
<1> QED
  BY <1>1, <1>2, <1>9, <1>10, SendTwo

(* What becomes of a Block that is served no more, no client has to be     *)
(* told.                                                                   *)
LEMMA UnservedUpToDate ==
  ASSUME NEW k, UpToDate(k), NEW b \in BlockName, tree' = tree,
         \A p \in Path \ {b} : m_objects'[p] = m_objects[p]
  PROVE  UpToDate(k)'
<1>1. \A c \in Cd : k[c] = IF m_objects'[c] = None THEN None ELSE interfaces(m_objects'[c])
  BY Paths DEF UpToDate
<1> QED
  BY <1>1 DEF UpToDate

(* A client that knows of one block's new mount points, and of all else    *)
(* what it did, is up to date when that block has them.                    *)
LEMMA RemountedUpToDate ==
  ASSUME NEW k, UpToDate(k), NEW b \in BlockName, NEW block, block # None,
         tree'[b] = block,
         \A p \in Path \ {b} : tree'[p] = tree[p] /\ m_objects'[p] = m_objects[p],
         NEW k1, DOMAIN k1 = Path, \A p \in Path \ {b} : k1[p] = k[p],
         k1[b] # None, Agrees(k1[b], interfaces(block))
  PROVE  UpToDate(k1)'
<1>1. \A p \in Path \ Cd : IF tree'[p] = None THEN k1[p] = None
                           ELSE k1[p] # None /\ Agrees(k1[p], interfaces(tree'[p]))
  <2> SUFFICES ASSUME NEW p \in Path \ Cd
               PROVE  IF tree'[p] = None THEN k1[p] = None
                      ELSE k1[p] # None /\ Agrees(k1[p], interfaces(tree'[p]))
    OBVIOUS
  <2>1. CASE p = b
    BY <2>1
  <2>2. CASE p # b
    BY <2>2 DEF UpToDate
  <2> QED
    BY <2>1, <2>2
<1>2. \A c \in Cd : k1[c] = IF m_objects'[c] = None THEN None ELSE interfaces(m_objects'[c])
  BY Paths DEF UpToDate
<1> QED
  BY <1>1, <1>2 DEF UpToDate

(* Mount tells the mount point it records, and answers with it after; of a *)
(* block that is served no more the client takes no notice.                *)
LEMMA MountTells ==
  ASSUME StateInv, NEW b \in BlockName, Mount(b),
         Queued, NEW view, NEW k, k = view[Len(wire)], Shown(view, known, wire), UpToDate(k)
  PROVE  WireInv'
<1>1. b \in posted
  BY DEF Mount, deliver
<1>2. PICK dir \in Dir :
        /\ <<dir>> \in MountLists
        /\ setMountPoints(b, <<dir>>)
        /\ send(<<signalMountPointsChanged(b, <<dir>>),
                  [kind |-> "Mount", path |-> b, dir |-> dir]>>)
  BY MountEffect
<1>3. PICK m \in Medium, old \in MountLists :
        /\ tree[b] \in {createBlock(b, m, old), None}
        /\ m_objects' = With(m_objects, b, createBlock(b, m, <<dir>>))
        /\ tree' = IF tree[b] = None THEN tree ELSE With(tree, b, createBlock(b, m, <<dir>>))
  BY <1>1, <1>2, SetMountPointsEffect
<1> DEFINE signal == signalMountPointsChanged(b, <<dir>>)
           answer == [kind |-> "Mount", path |-> b, dir |-> dir]
           block == createBlock(b, m, <<dir>>)
           k1 == IF k[b] = None THEN k ELSE Remounted(k, b, <<dir>>)
<1>4. b \in Path /\ b \notin Cd /\ DOMAIN k = Path
  BY Paths DEF UpToDate
<1>5. learn(k, signal) = k1
  BY LearnSignals
<1>6. answer.kind = "Mount" /\ answer.path = b /\ answer.dir = dir
  OBVIOUS
<1>7. send(<<signal, answer>>)
  BY <1>2
<1>8. Agree(k, signal)
  <2>1. signal.kind = "PropertiesChanged"
    BY DEF signalMountPointsChanged
  <2> QED
    BY <2>1, SignalsAgree
<1>9. UpToDate(k1)' /\ (k1[b] # None => k1[b].Filesystem.MountPoints.val = <<dir>>)
  <2>1. CASE tree[b] = None
    <3>1. k[b] = None /\ k1 = k
      BY <1>4, <2>1 DEF UpToDate
    <3>2. tree' = tree /\ \A p \in Path \ {b} : m_objects'[p] = m_objects[p]
      BY <1>3, <2>1 DEF With
    <3> HIDE DEF k1
    <3> QED
      BY <3>1, <3>2, UnservedUpToDate
  <2>2. CASE tree[b] # None
    <3>1. k[b] # None /\ Agrees(k[b], interfaces(createBlock(b, m, old)))
      BY <1>3, <1>4, <2>2 DEF UpToDate
    <3>2. /\ DOMAIN k1 = Path
          /\ \A p \in Path \ {b} : k1[p] = k[p]
          /\ k1[b] # None
          /\ Agrees(k1[b], interfaces(block))
          /\ k1[b].Filesystem.MountPoints.val = <<dir>>
      BY <1>2, <1>4, <3>1, KnownRemounted
    <3>3. block # None
      BY <1>2, Made
    <3> HIDE DEF k1, block
    <3>4. /\ tree'[b] = block
          /\ \A p \in Path \ {b} : tree'[p] = tree[p] /\ m_objects'[p] = m_objects[p]
      BY <1>3, <1>4, <2>2 DEF With, block
    <3> QED
      BY <3>2, <3>3, <3>4, RemountedUpToDate
  <2> QED
    BY <2>1, <2>2
<1> HIDE DEF signal, answer, block, k1
<1>10. learn(k1, answer) = k1
  BY <1>6, LearnAnswers
<1>11. UpToDate(learn(learn(k, signal), answer))'
  BY <1>5, <1>9, <1>10
<1>12. Agree(k1, answer)
  <2>1. dir \in ToSet(<<dir>>)
    BY DEF ToSet
  <2> QED
    BY <1>6, <1>9, <2>1 DEF Agree, IsTyped, told, GetAllAgrees, ManagedAgrees, MountAgrees
<1> QED
  BY <1>5, <1>7, <1>8, <1>11, <1>12, SendTwo

(* Unmount tells a mount point that stays, and nothing if it is gone:      *)
(* then the client knows more than is served, which Agrees allows.         *)
LEMMA UnmountTells ==
  ASSUME StateInv, NEW b \in BlockName, Unmount(b), Len(wire) <= MaxWire,
         Queued, NEW view, NEW k, k = view[Len(wire)], Shown(view, known, wire), UpToDate(k)
  PROVE  WireInv'
<1>1. b \in posted /\ b \in Path /\ b \notin Cd /\ DOMAIN k = Path
  BY Paths DEF Unmount, deliver, UpToDate
<1>2. CASE setMountPoints(b, <<>>) /\ UNCHANGED <<wire, known>>
  <2>1. <<>> \in MountLists
    BY DEF MountLists
  <2>2. PICK m \in Medium, old \in MountLists :
          /\ tree[b] \in {createBlock(b, m, old), None}
          /\ m_objects' = With(m_objects, b, createBlock(b, m, <<>>))
          /\ tree' = IF tree[b] = None THEN tree ELSE With(tree, b, createBlock(b, m, <<>>))
    BY <1>1, <1>2, <2>1, SetMountPointsEffect
  <2> DEFINE block == createBlock(b, m, <<>>)
  <2>3. block # None
    BY <2>1, Made
  <2>4. UpToDate(k)'
    <3>1. CASE tree[b] = None
      <4>1. tree' = tree /\ \A p \in Path \ {b} : m_objects'[p] = m_objects[p]
        BY <2>2, <3>1 DEF With
      <4> QED
        BY <4>1, UnservedUpToDate
    <3>2. CASE tree[b] # None
      <4>1. k[b] # None /\ Agrees(k[b], interfaces(createBlock(b, m, old)))
        BY <1>1, <2>2, <3>2 DEF UpToDate
      <4>2. Agrees(k[b], interfaces(block))
        BY <4>1, KnownUnmounted
      <4> HIDE DEF block
      <4>3. /\ tree'[b] = block
            /\ \A p \in Path \ {b} : tree'[p] = tree[p] /\ m_objects'[p] = m_objects[p]
        BY <1>1, <2>2, <3>2 DEF With, block
      <4> QED
        BY <1>1, <2>3, <4>1, <4>2, <4>3, RemountedUpToDate
    <3> QED
      BY <3>1, <3>2
  <2> QED
    BY <1>2, <2>4, SendNothing
<1>3. CASE /\ send(<<signalMountPointsChanged(b, target(b).mountPoints)>>)
           /\ UNCHANGED <<m_objects, tree>>
  <2>1. PICK m \in Medium, old \in MountLists :
          /\ target(b).mountPoints = old
          /\ tree[b] \in {createBlock(b, m, old), None}
    BY <1>1, WaitedBlock
  <2> DEFINE signal == signalMountPointsChanged(b, old)
             block == createBlock(b, m, old)
             k1 == IF k[b] = None THEN k ELSE Remounted(k, b, old)
  <2>2. learn(k, signal) = k1
    BY LearnSignals
  <2>3. block # None
    BY Made
  <2>4. UpToDate(k1)'
    <3>1. CASE tree[b] = None
      <4>1. k1 = k
        BY <1>1, <3>1 DEF UpToDate
      <4> HIDE DEF k1
      <4> QED
        BY <1>3, <4>1, UnservedUpToDate
    <3>2. CASE tree[b] # None
      <4>1. k[b] # None /\ Agrees(k[b], interfaces(block))
        BY <1>1, <2>1, <3>2 DEF UpToDate
      <4>2. /\ DOMAIN k1 = Path
            /\ \A p \in Path \ {b} : k1[p] = k[p]
            /\ k1[b] # None
            /\ Agrees(k1[b], interfaces(block))
        BY <1>1, <4>1, KnownRemounted
      <4> HIDE DEF k1, block
      <4>3. /\ tree'[b] = block
            /\ \A p \in Path \ {b} : tree'[p] = tree[p] /\ m_objects'[p] = m_objects[p]
        BY <1>3, <2>1, <3>2 DEF block
      <4> QED
        BY <2>3, <4>2, <4>3, RemountedUpToDate
    <3> QED
      BY <3>1, <3>2
  <2>5. signal.kind = "PropertiesChanged"
    BY DEF signalMountPointsChanged
  <2>6. Agree(k, signal)
    BY <2>5, SignalsAgree
  <2>7. send(<<signal>>)
    BY <1>3, <2>1
  <2> HIDE DEF signal, block, k1
  <2>8. UpToDate(learn(k, signal))'
    BY <2>2, <2>4
  <2> QED
    BY <2>6, <2>7, <2>8, SendOne
<1> QED
  BY <1>2, <1>3 DEF Unmount

(* An answer changes nothing, and what it tells has just been checked      *)
(* against what is known (GetAll, GetManagedObjects, Call).                *)
LEMMA AnswerTells ==
  ASSUME NEW msg, send(<<msg>>), UNCHANGED <<m_objects, tree>>,
         msg.kind \in {"GetAll", "GetManagedObjects", "Mount", "Return"},
         Queued, NEW view, NEW k, k = view[Len(wire)], Shown(view, known, wire), UpToDate(k),
         Agree(k, msg)
  PROVE  WireInv'
<1>1. UpToDate(k)'
  BY DEF UpToDate
<1>2. UpToDate(learn(k, msg))'
  BY <1>1, LearnAnswers
<1> QED
  BY <1>2, SendOne

(* GetAll answers with what the object holds that it was posted to: what   *)
(* the client knows of its path, unless it knows that nothing is served    *)
(* there any more.                                                         *)
LEMMA GetAllTells ==
  ASSUME StateInv, NEW p \in Path, GetAll(p),
         Queued, NEW view, NEW k, k = view[Len(wire)], Shown(view, known, wire), UpToDate(k)
  PROVE  WireInv'
<1> DEFINE msg == [kind |-> "GetAll", path |-> p, values |-> interfaces(target(p))]
<1>1. p \in posted /\ send(<<msg>>) /\ UNCHANGED <<m_objects, tree>>
  BY DEF GetAll, deliver
<1>2. msg.kind = "GetAll" /\ msg.path = p /\ msg.values = interfaces(target(p))
  OBVIOUS
<1> HIDE DEF msg
<1>3. IsTyped(msg)
  BY <1>2, InterfacesAreTyped DEF IsTyped, told
<1>4. GetAllAgrees(k, msg)
  <2> SUFFICES ASSUME p \notin Cd, k[p] # None PROVE Agrees(k[p], interfaces(target(p)))
    BY <1>2 DEF GetAllAgrees
  <2>1. tree[p] # None /\ Agrees(k[p], interfaces(tree[p]))
    BY DEF UpToDate
  <2>2. target(p) = tree[p]
    BY <1>1, <2>1, WaitedFor
  <2> QED
    BY <2>1, <2>2
<1>5. Agree(k, msg)
  BY <1>2, <1>3, <1>4 DEF Agree, ManagedAgrees, MountAgrees
<1> QED
  BY <1>1, <1>2, <1>5, AnswerTells

(* GetManagedObjects answers with the hashes, which have all that has      *)
(* been announced.                                                         *)
LEMMA ManagedTells ==
  ASSUME StateInv, GetManagedObjects,
         Queued, NEW view, NEW k, k = view[Len(wire)], Shown(view, known, wire), UpToDate(k)
  PROVE  WireInv'
<1> DEFINE held == [p \in {x \in Path : m_objects[x] # None} |-> interfaces(m_objects[p])]
           msg == [kind |-> "GetManagedObjects", objects |-> held]
<1>1. send(<<msg>>) /\ UNCHANGED <<m_objects, tree>>
  BY DEF GetManagedObjects
<1>2. msg.kind = "GetManagedObjects" /\ msg.objects = held
  OBVIOUS
<1>3. \A p \in Path : m_objects[p] # None =>
                     p \in DOMAIN held /\ held[p] = interfaces(m_objects[p])
  OBVIOUS
<1>4. \A values \in Range(held) : \E o : values = interfaces(o)
  BY DEF Range
<1> HIDE DEF msg, held
<1>5. IsTyped(msg)
  BY <1>2, <1>4, InterfacesAreTyped DEF IsTyped, told
<1>6. ASSUME NEW p \in Path, k[p] # None
      PROVE  p \in DOMAIN held /\ Agrees(k[p], held[p])
  <2>1. CASE p \in Cd
    <3>1. m_objects[p] # None /\ k[p] = interfaces(m_objects[p])
      BY <1>6, <2>1 DEF UpToDate
    <3> QED
      BY <1>3, <3>1, AgreesWithItself
  <2>2. CASE p \notin Cd
    <3>1. tree[p] # None /\ Agrees(k[p], interfaces(tree[p]))
      BY <1>6, <2>2 DEF UpToDate
    <3>2. m_objects[p] = tree[p]
      BY <2>2, <3>1, ServedIsHeld
    <3> QED
      BY <1>3, <3>1, <3>2
  <2> QED
    BY <2>1, <2>2
<1>7. ManagedAgrees(k, msg)
  BY <1>2, <1>6 DEF ManagedAgrees
<1>8. Agree(k, msg)
  BY <1>2, <1>5, <1>7 DEF Agree, GetAllAgrees, MountAgrees
<1> QED
  BY <1>1, <1>2, <1>8, AnswerTells

(* The other methods answer and tell nothing of objects.                   *)
LEMMA CallTells ==
  ASSUME StateInv, NEW p \in Path, Call(p),
         Queued, NEW view, NEW k, k = view[Len(wire)], Shown(view, known, wire), UpToDate(k)
  PROVE  WireInv'
<1>1. /\ UNCHANGED <<m_objects, tree>>
      /\ \E msg : msg.kind = "Return" /\ send(<<msg>>)
  BY DEF Call
<1>2. PICK msg : msg.kind = "Return" /\ send(<<msg>>)
  BY <1>1
<1>3. Agree(k, msg)
  BY <1>2, SignalsAgree
<1> QED
  BY <1>1, <1>2, <1>3, AnswerTells

(* Without objects, a client that knows nothing is up to date.             *)
LEMMA NothingIsUpToDate ==
  ASSUME m_objects = Nothing, tree = Nothing
  PROVE  UpToDate(Nothing)
BY Paths DEF UpToDate, Nothing

(* When the process dies the bus tells the client to forget everything.    *)
LEMMA ExitTells ==
  ASSUME Exit,
         Queued, NEW view, NEW k, k = view[Len(wire)], Shown(view, known, wire), UpToDate(k)
  PROVE  WireInv'
<1> DEFINE msg == [kind |-> "NameOwnerChanged"]
<1>1. m_objects' = Nothing /\ tree' = Nothing /\ send(<<msg>>)
  BY DEF Exit
<1>2. UpToDate(Nothing)'
  BY <1>1, Paths DEF UpToDate, Nothing
<1>3. UpToDate(learn(k, msg))'
  BY <1>2, LearnSignals
<1>4. Agree(k, msg)
  BY SignalsAgree
<1> QED
  BY <1>1, <1>3, <1>4, SendOne

-----------------------------------------------------------------------------
(* The invariant.                                                          *)

(* The client has been told nothing when the process starts.               *)
LEMMA InitInv == Init => StateInv /\ WireInv
<1> SUFFICES ASSUME Init PROVE StateInv /\ WireInv
  OBVIOUS
<1>1. m_objects = Nothing /\ tree = Nothing /\ posted = {} /\ wire = <<>> /\ known = Nothing
  BY DEF Init
<1>2. DOMAIN Nothing = Path /\ \A p \in Path : Nothing[p] = None
  BY DEF Nothing
<1>3. UpToDate(Nothing)
  BY <1>1, NothingIsUpToDate
<1> HIDE DEF Nothing
<1>4. StateInv
  BY <1>1, <1>2, Paths DEF StateInv, ObjectsInv
<1>5. wire \in Seq({}) /\ Len(wire) = 0 /\ DOMAIN wire = 1 .. 0
  BY <1>1, EmptySeq, LenProperties
<1> DEFINE view == [i \in 0 .. 0 |-> Nothing]
<1>6. view[0] = Nothing
  OBVIOUS
<1> HIDE DEF view
<1>7. Shown(view, known, wire) /\ UpToDate(view[Len(wire)])
  BY <1>1, <1>3, <1>5, <1>6 DEF Shown
<1>8. Queued /\ Len(wire) <= MaxWire
  BY <1>5, PropertiesAssumption DEF Queued
<1> QED
  BY <1>4, <1>7, <1>8 DEF WireInv

(* Every step of the daemon or the client keeps what is on its way true.   *)
LEMMA NextWireInv ==
  ASSUME StateInv, WireInv, [Next]_vars
  PROVE  WireInv'
<1>1. PICK view : Shown(view, known, wire) /\ UpToDate(view[Len(wire)])
  BY DEF WireInv
<1>2. PICK k : k = view[Len(wire)]
  OBVIOUS
<1>3. UpToDate(k) /\ Queued /\ Len(wire) <= MaxWire
  BY <1>1, <1>2 DEF WireInv
<1>4. ASSUME NEW d \in Disk, RemoveDisk(d) PROVE WireInv'
  BY <1>1, <1>2, <1>3, <1>4, RemoveDiskTells
<1>5. ASSUME NEW d \in Disk, NEW m \in Medium, AddDisk(d, m) PROVE WireInv'
  BY <1>1, <1>2, <1>3, <1>5, AddDiskTells
<1>6. ASSUME NEW c \in Cd, NEW m \in Medium, AddCd(c, m) PROVE WireInv'
  BY <1>1, <1>2, <1>3, <1>6, AddCdTells
<1>7. ASSUME NEW b \in BlockName, Mount(b) PROVE WireInv'
  BY <1>1, <1>2, <1>3, <1>7, MountTells
<1>8. ASSUME NEW b \in BlockName, Unmount(b) PROVE WireInv'
  BY <1>1, <1>2, <1>3, <1>8, UnmountTells
<1>9. ASSUME NEW p \in Path, GetAll(p) PROVE WireInv'
  BY <1>1, <1>2, <1>3, <1>9, GetAllTells
<1>10. ASSUME NEW p \in Path, Call(p) PROVE WireInv'
  BY <1>1, <1>2, <1>3, <1>10, CallTells
<1>11. CASE GetManagedObjects
  BY <1>1, <1>2, <1>3, <1>11, ManagedTells
<1>12. CASE Exit
  BY <1>1, <1>2, <1>3, <1>12, ExitTells
<1>13. CASE Receive
  BY <1>13, ReceiveNext
<1>14. CASE (\E p \in Path : Post(p)) \/ (\E b \in BlockName : Refuse(b)) \/ UNCHANGED vars
  <2>1. UNCHANGED <<wire, known>> /\ UNCHANGED <<m_objects, tree>>
    BY <1>14 DEF Post, Refuse, vars
  <2>2. UpToDate(k)'
    BY <1>3, <2>1 DEF UpToDate
  <2> QED
    BY <1>1, <1>2, <1>3, <2>1, <2>2, SendNothing
<1> QED
  BY <1>4, <1>5, <1>6, <1>7, <1>8, <1>9, <1>10, <1>11, <1>12, <1>13, <1>14 DEF Next

IInv == StateInv /\ WireInv

(* Hashes and tree agree, and the messages on their way tell the client    *)
(* all that has happened, in an order in which no answer contradicts what  *)
(* it knows by then.                                                       *)
THEOREM PropertiesInvariance == Spec => []IInv
<1>1. Init => IInv
  BY InitInv DEF IInv
<1>2. IInv /\ [Next]_vars => IInv'
  BY NextStateInv, NextWireInv DEF IInv
<1> QED
  BY <1>1, <1>2, PTL DEF Spec

(* A path that is served has an object in the hashes, a block one mount    *)
(* point at most, and the signals on their way stay below their bound.     *)
THEOREM PropertiesTypeCorrect == Spec => []TypeOK
<1>1. IInv => TypeOK
  <2> SUFFICES ASSUME IInv PROVE TypeOK
    OBVIOUS
  <2>1. \A p \in Path : tree[p] # None => m_objects[p] # None
    BY ServedIsHeld DEF IInv
  <2>2. ASSUME NEW b \in BlockName, m_objects[b] # None
        PROVE  m_objects[b].mountPoints \in MountLists
    <3>1. m_objects[b] \in Objects(b) /\ b \notin DriveName
      BY <2>2, Paths DEF IInv, StateInv, ObjectsInv
    <3>2. PICK m \in Medium, dirs \in MountLists : m_objects[b] = createBlock(b, m, dirs)
      BY <3>1 DEF Objects
    <3>3. createBlock(b, m, dirs).mountPoints = dirs
      BY BlockIs
    <3> QED
      BY <3>2, <3>3
  <2> QED
    BY <2>1, <2>2 DEF TypeOK, IInv, StateInv, WireInv
<1> QED
  BY <1>1, PropertiesInvariance, PTL

(* The object tree serves what the hashes hold, but for CD drives, a drive *)
(* with its block or neither, and calls wait for objects that the hashes   *)
(* still hold.                                                             *)
THEOREM ObjectsAgree == Spec => []ObjectsInv
<1>1. IInv => ObjectsInv
  BY DEF IInv, StateInv
<1> QED
  BY <1>1, PropertiesInvariance, PTL

(* Every property in InterfacesAdded, GetAll and GetManagedObjects is      *)
(* told, with the type its introspection data declares.                    *)
THEOREM AnswersTyped == Spec => []AnswersAreTyped
<1>1. IInv => AnswersAreTyped
  <2> SUFFICES ASSUME IInv, NEW i \in DOMAIN wire PROVE IsTyped(wire[i])
    BY DEF AnswersAreTyped, IsTyped
  <2>1. PICK view : Shown(view, known, wire)
    BY DEF IInv, WireInv
  <2> QED
    BY <2>1 DEF Shown, Agree
<1> QED
  BY <1>1, PropertiesInvariance, PTL

(* The message that arrives next agrees with what the client knows.        *)
LEMMA NextAgrees ==
  ASSUME IInv, wire # <<>>
  PROVE  Agree(known, Head(wire))
<1>1. PICK S : wire \in Seq(S)
  BY DEF IInv, WireInv, Queued
<1>2. PICK view : Shown(view, known, wire)
  BY DEF IInv, WireInv
<1>3. 1 \in DOMAIN wire /\ Head(wire) = wire[1]
  BY <1>1, LenProperties, EmptySeq
<1>4. view[0] = known /\ Agree(view[1 - 1], wire[1]) /\ 1 - 1 = 0
  BY <1>2, <1>3 DEF Shown
<1> QED
  BY <1>3, <1>4

(* What GetAll answers of a disk or a partition, the signals before it     *)
(* have told already, unless they have also told that it is gone: a call   *)
(* may wait while its object is retracted, but not until another object    *)
(* has taken its place (addBlock, addDrive, removeBlock, removeDrive).     *)
THEOREM GetAllMatches == Spec => []GetAllMatchesSignals
<1>1. IInv => GetAllMatchesSignals
  BY NextAgrees DEF GetAllMatchesSignals, Agree
<1> QED
  BY <1>1, PropertiesInvariance, PTL

(* What the signals have told, GetManagedObjects answers.                  *)
THEOREM ManagedMatches == Spec => []ManagedMatchesSignals
<1>1. IInv => ManagedMatchesSignals
  BY NextAgrees DEF ManagedMatchesSignals, Agree
<1> QED
  BY <1>1, PropertiesInvariance, PTL

(* The client knows the mount point when Mount answers.                    *)
THEOREM MountKnown == Spec => []MountKnownBeforeAnswer
<1>1. IInv => MountKnownBeforeAnswer
  BY NextAgrees DEF MountKnownBeforeAnswer, Agree
<1> QED
  BY <1>1, PropertiesInvariance, PTL

-----------------------------------------------------------------------------
(* The views that SignalsInv computes are those of the invariant.          *)

(* f[i] is what a client that knows k knows after i of n messages w.       *)
Follows(f, k, w, n) ==
  f[0] = k /\ \A i \in 1 .. n : f[i] = learn(f[i - 1], w[i])

(* What a client knows after each message is determined by the messages.   *)
LEMMA ViewsAreEqual ==
  ASSUME NEW n \in Nat, NEW k, NEW w, NEW f, NEW g, Follows(f, k, w, n), Follows(g, k, w, n)
  PROVE  \A i \in 0 .. n : f[i] = g[i]
<1> DEFINE C == {i \in 0 .. n : f[i] # g[i]}
<1>1. SUFFICES ASSUME C # {} PROVE FALSE
  OBVIOUS
<1>2. C \in SUBSET Nat
  OBVIOUS
<1>3. PICK i \in C : \A j \in C : ~(<<j, i>> \in OpToRel(<, Nat))
  <2> HIDE DEF C
  <2> QED
    BY <1>1, <1>2, WFMin, NatLessThanWellFounded
<1>4. \A j \in C : ~(j < i)
  BY <1>2, <1>3 DEF OpToRel
<1>5. i \in 1 .. n /\ f[i] # g[i]
  BY DEF Follows
<1>6. i - 1 \in 0 .. n /\ i - 1 < i
  BY <1>5
<1>7. f[i - 1] = g[i - 1]
  BY <1>4, <1>6
<1> QED
  BY <1>5, <1>7 DEF Follows

(* Whatever is on its way, every later state of the client is foretold by  *)
(* the messages already sent: once it has them all it knows what is        *)
(* served, and no answer contradicts what it knows when it arrives.        *)
THEOREM SignalsForetell == Spec => []SignalsInv
<1>1. IInv => SignalsInv
  <2> SUFFICES ASSUME IInv PROVE SignalsInv
    OBVIOUS
  <2>1. PICK v : Shown(v, known, wire) /\ UpToDate(v[Len(wire)])
    BY DEF IInv, WireInv
  <2>2. PICK S : wire \in Seq(S)
    BY DEF IInv, WireInv, Queued
  <2> DEFINE n == Len(wire)
             next(f, i) == IF i = 0 THEN known ELSE learn(f[i - 1], wire[i])
             view[i \in 0 .. n] == IF i = 0 THEN known ELSE learn(view[i - 1], wire[i])
             short == [i \in 0 .. n |-> v[i]]
  <2>3. n \in Nat /\ DOMAIN wire = 1 .. n
    BY <2>2, LenProperties
  <2>4. \A i \in 0 .. n : short[i] = next(short, i)
    <3> HIDE DEF n
    <3> SUFFICES ASSUME NEW i \in 0 .. n PROVE short[i] = next(short, i)
      OBVIOUS
    <3>1. CASE i = 0
      BY <2>1, <3>1 DEF Shown
    <3>2. CASE i # 0
      <4>1. i \in 1 .. n /\ i - 1 \in 0 .. n
        BY <2>3, <3>2
      <4>2. v[i] = learn(v[i - 1], wire[i])
        BY <2>1, <2>3, <4>1 DEF Shown
      <4> QED
        BY <3>2, <4>1, <4>2
    <3> QED
      BY <3>1, <3>2
  <2>5. short = [i \in 0 .. n |-> IF i = 0 THEN known ELSE learn(short[i - 1], wire[i])]
    BY <2>4
  <2>6. view = [i \in 0 .. n |-> IF i = 0 THEN known ELSE learn(view[i - 1], wire[i])]
    <3> HIDE DEF short, n
    <3> QED
      BY <2>5
  <2> HIDE DEF n, view, short
  <2>7. \A i \in 0 .. n : view[i] = IF i = 0 THEN known ELSE learn(view[i - 1], wire[i])
    BY <2>6
  <2>8. view[0] = known
    BY <2>3, <2>7
  <2>9. \A i \in 1 .. n : view[i] = learn(view[i - 1], wire[i])
    BY <2>3, <2>7
  <2>10. \A i \in 0 .. n : view[i] = v[i]
    <3>1. Follows(view, known, wire, n)
      BY <2>8, <2>9 DEF Follows
    <3>2. Follows(v, known, wire, n)
      BY <2>1, <2>3 DEF Shown, Follows
    <3> QED
      BY <2>3, <3>1, <3>2, ViewsAreEqual
  <2>11. ASSUME NEW i \in DOMAIN wire
         PROVE  /\ view[i] = learn(view[i - 1], wire[i])
                /\ Agree(view[i - 1], wire[i])
    <3>1. i \in 1 .. n /\ i - 1 \in 0 .. n
      BY <2>3
    <3> QED
      BY <2>1, <2>9, <2>10, <3>1 DEF Shown
  <2>12. UpToDate(view[n])
    BY <2>1, <2>3, <2>10 DEF n
  <2>13. Foretold(view)
    BY <2>8, <2>11, <2>12 DEF Foretold, Agree, n
  <2> QED
    BY <2>13 DEF SignalsInv, view, n
<1> QED
  BY <1>1, PropertiesInvariance, PTL
=============================================================================
