----------------------------- MODULE DiskLabel -----------------------------
(***************************************************************************)
(* DiskLabel::analyseDev (disk_label.cpp): what the daemon makes of the    *)
(* disklabel(8) of one medium.  A medium is a disk pack: a disk, a card or *)
(* a disc; Label is what ioctl(DIOCGDINFO) returns for it.                 *)
(***************************************************************************)
EXTENDS Naturals

CONSTANTS Medium,    \* the media that may be put into a drive
          NoMedium,  \* no medium: opendev() or DIOCGDINFO fails
          Letter,    \* partition letters, 'a' + i for i < d_npartitions
          Label      \* Label[m][p] = [size |-> DL_GETPSIZE, fstype |-> p_fstype]

(* The p_fstype values of sys/disklabel.h that isValidFileSysetem names.   *)
FsType == {"FS_UNUSED", "FS_SWAP", "FS_V6", "FS_V7", "FS_SYSV", "FS_V71K",
           "FS_V8", "FS_BSDFFS", "FS_MSDOS", "FS_BSDLFS", "FS_OTHER",
           "FS_HPFS", "FS_ISO9660", "FS_BOOT", "FS_ADOS", "FS_HFS",
           "FS_ADFS", "FS_EXT2FS", "FS_CCD", "FS_RAID", "FS_NTFS", "FS_UDF"}

ASSUME LabelAssumption ==
  /\ NoMedium \notin Medium
  /\ Label \in [Medium -> [Letter -> [size : Nat, fstype : FsType]]]

MaybeMedium == Medium \cup {NoMedium}

isValidFileSysetem(fstype) ==
  fstype \in {"FS_BSDFFS", "FS_MSDOS", "FS_ISO9660", "FS_EXT2FS", "FS_NTFS"}

(* The loop of analyseDev: the partitions that become Block objects, none  *)
(* when the label could not be read.  "c" is the whole disk.               *)
Partitions(m) ==
  {p \in Letter : /\ m # NoMedium
                  /\ Label[m][p].size > 0
                  /\ p # "c"
                  /\ isValidFileSysetem(Label[m][p].fstype)}
=============================================================================
