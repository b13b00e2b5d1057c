------------------------- MODULE MCBlockFilesystem -------------------------
(* Instances of BlockFilesystem for TLC.                                   *)
EXTENDS BlockFilesystem, TLC

(* sd0 and sd1 have no DUID (all zero): their "a" partitions share an Id.  *)
MCId == "sd0a" :> "by-uuid-0a" @@ "sd1a" :> "by-uuid-0a" @@ "sd1d" :> "by-uuid-0d"

MCfilesystem == "sd0a" :> "ffs" @@ "sd1a" :> "msdos" @@ "sd1d" :> "cd9660"

MCElsewhere == <<"mnt", 0>>

MCNoDir == <<"", 0>>
=============================================================================
