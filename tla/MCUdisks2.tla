----------------------------- MODULE MCUdisks2 -----------------------------
(* Instances of Udisks2 for TLC.                                           *)
EXTENDS Udisks2, TLC

CONSTANT m1   \* a medium with one file system

MCLetter == {"a"}

MCLabel == m1 :> ("a" :> [size |-> 2, fstype |-> "FS_BSDFFS"])
=============================================================================
