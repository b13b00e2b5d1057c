---------------------------- MODULE MCProperties ----------------------------
(* Instances of Properties for TLC.                                        *)
EXTENDS Properties

CONSTANTS m1, m2

MCBlockName == "sd0" :> "sd0a"

MCLabel ==
  m1 :> [uid |-> "1", packname |-> "", size |-> 8, fstype |-> "ffs"] @@
  m2 :> [uid |-> "2", packname |-> "stick", size |-> 9, fstype |-> "msdos"]
=============================================================================
