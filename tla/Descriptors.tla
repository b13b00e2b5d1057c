---------------------------- MODULE Descriptors ----------------------------
(***************************************************************************)
(* Drive::Eject (drive.cpp) and what it does to check().  Eject opens the  *)
(* drive and never closes it, so every call that gets as far as the        *)
(* ioctls costs the daemon a descriptor.  Without descriptors no label can *)
(* be read: DiskLabel takes every disk for one without a label.            *)
(*                                                                         *)
(* Eject runs in the main thread, between two checks.                      *)
(***************************************************************************)
EXTENDS DiskThread

CONSTANTS FdLimit,  \* descriptors the process may open besides those it starts with
          Optical   \* the drives whose names begin with "cd"

ASSUME DescriptorsAssumption == FdLimit \in Nat \ {0} /\ Optical \subseteq DriveName

VARIABLE fds  \* descriptors that Eject has left open

fdVars == <<vars, fds>>

(* The type invariant: no more descriptors are in use than there are, and  *)
(* a process that has died has none.                                       *)
FdTypeOK ==
  /\ TypeOK
  /\ fds \in 0 .. FdLimit
  /\ pc = "dead" => fds = 0

FdInit == Init /\ fds = 0

(* open(2) of the drive.  It fails with ENXIO when there is no medium,     *)
(* after which the ioctls fail, too, on descriptor -1.                     *)
open(n) == fds < FdLimit /\ medium[n] # NoMedium

(* The drive ejects the medium, or the second ioctl fails.  Where open     *)
(* fails nothing happens but an error reply, and a drive of another name   *)
(* (rcd0) answers that all is well.                                        *)
Eject(n) ==
  /\ pc = "idle"
  /\ driveTree[n] # NoMedium
  /\ n \in Optical
  /\ open(n)
  /\ fds' = fds + 1
  /\ medium' \in {medium, [medium EXCEPT ![n] = NoMedium]}
  /\ UNCHANGED <<attached, checkVars, omVars>>

(* Mutant: check() gives up.                                               *)
goOnNot(n) == pc' = "idle" /\ todo' = {}

goOn(n) == UNCHANGED pc /\ todo' = todo \ {n}

(* A turn of one of the two loops that read labels, when opendev fails for *)
(* want of a descriptor: DIOCGDINFO on descriptor -1 fails, too, and the   *)
(* name is passed over like a disk without a label.                        *)
ReadLabelFails ==
  /\ fds = FdLimit
  /\ pc \in {"cds", "add"}
  /\ \E n \in todo : goOn(n)
  /\ UNCHANGED <<diskLabels, m_cds, len, names, toDelete, cur, left, blk, omVars, hardware, fds>>

FdCheck ==
  \/ (Timeout \/ Proceed \/ \E p \in Letter : AddBlock(p)) /\ UNCHANGED fds
  \/ fds < FdLimit /\ ReadLabel /\ UNCHANGED fds
  \/ ReadLabelFails
  \/ Abort /\ fds' = 0

FdNext ==
  \/ FdCheck
  \/ \E n \in DriveName : Eject(n)
  \/ (Restart \/ Hardware) /\ UNCHANGED fds

FdSpec == FdInit /\ [][FdNext]_fdVars /\ WF_fdVars(FdCheck) /\ WF_fdVars(Restart /\ UNCHANGED fds)
-----------------------------------------------------------------------------
(* The properties.                                                         *)

(* A daemon that has run out of descriptors publishes nothing new, but it  *)
(* still retracts what is gone; one that has not publishes what is there   *)
(* (addNewDevices, removeDevices).                                         *)
ConvergesOrExhausted ==
  <>[][FALSE]_hardware /\ <>[][~SysctlFails]_vars =>
    <>[](pc # "dead" => /\ Published \subseteq attached
                        /\ fds = FdLimit \/ Readable \subseteq Published)
=============================================================================
