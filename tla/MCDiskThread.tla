---------------------------- MODULE MCDiskThread ----------------------------
(* Instances of DiskThread, watched by AtRest, for TLC.                    *)
EXTENDS AtRest, TLC

CONSTANTS m1, m2   \* two media

(* m1: two file systems, a swap partition and the whole disk.  m2: one     *)
(* file system, on a letter of m1; its other partition is empty.           *)
MCLetter == {"a", "b", "c", "d"}

MCPart(size, fstype) == [size |-> size, fstype |-> fstype]

MCLabel ==
  m1 :> ("a" :> MCPart(2, "FS_BSDFFS") @@ "b" :> MCPart(1, "FS_SWAP") @@
         "c" :> MCPart(9, "FS_MSDOS") @@ "d" :> MCPart(1, "FS_MSDOS")) @@
  m2 :> ("a" :> MCPart(0, "FS_BSDFFS") @@ "b" :> MCPart(0, "FS_UNUSED") @@
         "c" :> MCPart(9, "FS_UNUSED") @@ "d" :> MCPart(3, "FS_ISO9660"))
=============================================================================
