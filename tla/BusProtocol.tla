---------------------------- MODULE BusProtocol ----------------------------
(***************************************************************************)
(* What a client that follows InterfacesAdded and InterfacesRemoved is     *)
(* promised about disks.  A drive is announced before its blocks and       *)
(* retracted after them; its blocks are those of the label the drive was   *)
(* read from, so drive and blocks never describe two different media; once *)
(* one block is retracted the drive goes as a whole; and all of it may     *)
(* vanish at once, when the service loses its name.                        *)
(***************************************************************************)
EXTENDS DiskLabel

CONSTANT DiskName

VARIABLES drives,   \* the announced drives
          blocks,   \* the announced blocks
          leaving   \* the drive that is being retracted, in a set

busVars == <<drives, blocks, leaving>>

BlockOf == DiskName \X Letter

BusTypeOK ==
  /\ drives \in [DiskName -> MaybeMedium]
  /\ blocks \in [BlockOf -> MaybeMedium]
  /\ leaving \in SUBSET DiskName

BusInit ==
  /\ drives = [d \in DiskName |-> NoMedium]
  /\ blocks = [b \in BlockOf |-> NoMedium]
  /\ leaving = {}

AnnounceDrive(d) ==
  /\ leaving = {}
  /\ drives[d] = NoMedium
  /\ \A p \in Letter : blocks[<<d, p>>] = NoMedium
  /\ \E m \in Medium : drives' = [drives EXCEPT ![d] = m]
  /\ UNCHANGED <<blocks, leaving>>

AnnounceBlock(d, p) ==
  /\ leaving = {}
  /\ p \in Partitions(drives[d])
  /\ blocks[<<d, p>>] = NoMedium
  /\ blocks' = [blocks EXCEPT ![<<d, p>>] = drives[d]]
  /\ UNCHANGED <<drives, leaving>>

(* Only a drive all of whose blocks have been announced is retracted.      *)
StartLeaving(d) ==
  /\ leaving = {}
  /\ drives[d] # NoMedium
  /\ \A p \in Partitions(drives[d]) : blocks[<<d, p>>] = drives[d]
  /\ leaving' = {d}
  /\ UNCHANGED <<drives, blocks>>

RetractBlock(d, p) ==
  /\ d \in leaving
  /\ blocks[<<d, p>>] # NoMedium
  /\ blocks' = [blocks EXCEPT ![<<d, p>>] = NoMedium]
  /\ UNCHANGED <<drives, leaving>>

RetractDrive(d) ==
  /\ d \in leaving
  /\ \A p \in Letter : blocks[<<d, p>>] = NoMedium
  /\ drives' = [drives EXCEPT ![d] = NoMedium]
  /\ leaving' = {}
  /\ UNCHANGED blocks

Vanish ==
  /\ leaving = {}
  /\ drives' = [d \in DiskName |-> NoMedium]
  /\ blocks' = [b \in BlockOf |-> NoMedium]
  /\ UNCHANGED leaving

BusNext ==
  \/ \E d \in DiskName : AnnounceDrive(d) \/ StartLeaving(d) \/ RetractDrive(d)
  \/ \E d \in DiskName, p \in Letter : AnnounceBlock(d, p) \/ RetractBlock(d, p)
  \/ Vanish

BusSpec == BusInit /\ [][BusNext]_busVars
=============================================================================
