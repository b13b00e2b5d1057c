--------------------------- MODULE MCDescriptors ---------------------------
(* Instances of Descriptors for TLC.                                       *)
EXTENDS Descriptors, TLC

CONSTANTS m1, m2   \* a disc and a stick

MCLetter == {"a"}

MCLabel ==
  m1 :> ("a" :> [size |-> 2, fstype |-> "FS_ISO9660"]) @@
  m2 :> ("a" :> [size |-> 1, fstype |-> "FS_UNUSED"])
=============================================================================
