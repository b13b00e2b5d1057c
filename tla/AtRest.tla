------------------------------- MODULE AtRest -------------------------------
(***************************************************************************)
(* What one check is worth (DiskThread::check, disk_thread.cpp).  The      *)
(* daemon polls, so its promise to a client is about a kernel that keeps   *)
(* still for the time of a check, and answers: where a call of sysctl      *)
(* fails, every disk is retracted.  `still` is a history variable: it says *)
(* that since the timer's last tick was delivered no drive or medium has   *)
(* come or gone, no sysctl has failed and the process has not died.        *)
(***************************************************************************)
EXTENDS DiskThread

VARIABLE still

restVars == <<vars, still>>

RestInit == Init /\ still = FALSE

Watch ==
  still' = /\ UNCHANGED hardware
           /\ ~SysctlFails
           /\ pc' # "dead"
           /\ still \/ (pc = "idle" /\ pc' = "cds")

RestNext == Next /\ Watch

(* DiskThread with the history of the hardware, the same fairness.         *)
RestSpec == RestInit /\ [][RestNext]_restVars /\ Fairness
-----------------------------------------------------------------------------
(* The properties.                                                         *)

(* One whole check of a kernel that keeps still and answers is enough,     *)
(* whatever was published before: every disk the kernel can read is        *)
(* published, no disk it does not have is, and a CD is published as it     *)
(* reads (addNewDevices, removeDrive, addDrive).                           *)
OneCheckIsEnough ==
  still /\ pc = "idle" =>
    /\ Readable \subseteq Published
    /\ Published \subseteq attached
    /\ \A c \in CdName : medium[c] # NoMedium => busDrives[c] = medium[c]

(* While the kernel keeps still and answers, a check makes no detours: it  *)
(* announces only a disk that was not published, with the medium it holds  *)
(* now, and retracts only a disk the kernel does not have.  So a second    *)
(* check has nothing to say of the disks (the comparison with diskLabels   *)
(* in addNewDevices and the one with the list in check()).                 *)
NoDetours ==
  [][still' =>
       \A d \in DiskName :
         \/ busDrives'[d] = busDrives[d]
         \/ busDrives[d] = NoMedium /\ d \in attached /\ busDrives'[d] = medium[d]
         \/ busDrives'[d] = NoMedium /\ d \notin attached]_restVars

-----------------------------------------------------------------------------
(* The inductive invariant: how far the check has come.                    *)

(* readDisknames: both calls of sysctl give the same list.                 *)
ListInv ==
  /\ pc # "dead"
  /\ pc = "overrun" => names = {}
  /\ pc = "sysctl" => len = DisknamesLength
  /\ pc \in {"parse", "overrun", "add", "remove"} \/ adding \/ removing => names = attached

(* The two loops over the disks.                                           *)
DisksInv ==
  /\ pc = "add" \/ adding => todo \subseteq names /\ Readable \ todo \subseteq Labels
  /\ pc = "driveAdded" => cur \in names /\ diskLabels[cur] = medium[cur]
  /\ pc = "remove" \/ removing => Readable \subseteq Labels
  /\ pc = "idle" => Readable \subseteq Labels /\ Labels \subseteq attached

(* The loop over the CD names.                                             *)
CdsInv ==
  \A c \in CdName :
    medium[c] # NoMedium =>
      \/ pc \in {"cds", "cdAdded"} /\ c \in todo
      \/ IF pc = "cdAdded" /\ cur = c THEN m_driveObjects[c] = medium[c]
                                      ELSE busDrives[c] = medium[c]

RestInv ==
  /\ still \in BOOLEAN
  /\ still => ListInv /\ DisksInv /\ CdsInv
=============================================================================
