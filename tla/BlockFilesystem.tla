-------------------------- MODULE BlockFilesystem --------------------------
(***************************************************************************)
(* BlockFilesystem (blockfilesystem.cpp): Mount and Unmount of the file    *)
(* systems the daemon publishes.  The daemon's list of mount points is a   *)
(* record of what its mount programs were told to do; the truth is the     *)
(* kernel's mount table and the directories under /media.  A handler runs  *)
(* in the main thread and blocks it (waitForFinished(-1)), so handlers do  *)
(* not interleave with each other; they do interleave with other programs  *)
(* that mount, unmount and write, and with the end of the process.         *)
(*                                                                         *)
(* The kernel mounts a device at most once, so its table is a function of  *)
(* the device; the order of mounts on one directory is left out, and       *)
(* umount(8), which takes the last one, takes any of them.                 *)
(* The daemon's list of mount points is a set: only Mount adds to it, and  *)
(* only when it is empty.                                                  *)
(*                                                                         *)
(* /media/<id>, /media/<id>1, /media/<id>2 ... are <<id, 0>>, <<id, 1>>,   *)
(* <<id, 2>> ...                                                           *)
(***************************************************************************)
EXTENDS Naturals, FiniteSets

CONSTANTS Dev,         \* the partitions published with a Filesystem interface
          Id,          \* Id[b]: Block::id(); partitions of unlabelled disks may share one
          filesystem,  \* filesystem[b]: the name from fstypesnames
          Elsewhere,   \* a directory outside /media, such as one of fstab(5)
          NoDir,       \* the empty QString; not mounted, in the kernel's table
          Env          \* what may go wrong around the daemon, see EnvKinds

(* "crash": the process ends at any step, and the program it waited for    *)
(* goes on; "orphan": it may go on until after the restart.  "fork": a     *)
(* program cannot be started.  "getmntinfo": the mount table cannot be     *)
(* read.  "options": callers pass options to Unmount.  "umount", "mount",  *)
(* "files": other programs do these.                                       *)
EnvKinds == {"crash", "orphan", "fork", "getmntinfo", "options", "umount", "mount", "files"}

(* A device is mounted at most once, so this many names are never all in   *)
(* use.                                                                    *)
MaxSuffix == Cardinality(Dev)

MediaDir == {Id[b] : b \in Dev} \X (0 .. MaxSuffix)
Dir == MediaDir \cup {Elsewhere}

ASSUME BlockFilesystemAssumption ==
  /\ IsFiniteSet(Dev)
  /\ Env \subseteq EnvKinds
  /\ Elsewhere \notin MediaDir
  /\ NoDir \notin Dir

VARIABLES
  mountPoints,  \* BlockFilesystem::mountPoints of each partition
  seen,         \* MountPoints as a client that follows the signals knows it
  mtab,         \* kernel: where each partition is mounted, NoDir if it is not
  dirs,         \* kernel: what lies in a directory, below any mount
  pc,           \* where the main thread is
  cur,          \* the partition of the call that is being handled
  rest,         \* mount points Unmount has still to visit
  opts,         \* the call passed options
  dir,          \* the mount point the handler works on
  exitCode,     \* of the program that ran
  orphan,       \* the program left over from a crash, in a set
  reply,        \* the first reply to the last call, which is the one that counts
  litter        \* history: directories of the calls that a crash cut short

daemonVars == <<mountPoints, seen, pc, cur, rest, opts, dir, exitCode, reply>>
kernelVars == <<mtab, dirs, orphan>>
vars == <<daemonVars, kernelVars, litter>>

Mounted(d) == \E b \in Dev : mtab[b] = d
MountedDev(b) == mtab[b] # NoDir

TypeOK ==
  /\ mountPoints \in [Dev -> SUBSET (Dir \cup {NoDir})]
  /\ seen \in [Dev -> SUBSET (Dir \cup {NoDir})]
  /\ mtab \in [Dev -> Dir \cup {NoDir}]
  /\ dirs \in [Dir -> {"absent", "empty", "full"}]
  /\ pc \in {"idle", "createMountPoint", "mount", "mountDone", "umount", "umountDone", "dead"}
  /\ cur \in Dev
  /\ rest \in SUBSET (Dir \cup {NoDir})
  /\ opts \in BOOLEAN
  /\ dir \in Dir \cup {NoDir}
  /\ exitCode \in {0, 1}
  /\ orphan \subseteq [prog : {"mount", "umount"}, dev : Dev, dir : Dir \cup {NoDir}]
  /\ Cardinality(orphan) <= 1
  /\ reply \in {"none", "ok", "Failed", "AlreadyMounted", "NotMounted"}
  /\ litter \in SUBSET MediaDir

-----------------------------------------------------------------------------
(* The tables.                                                             *)

isFilesystemSupportedToMount(fs) == fs \in {"ffs", "ext2fs", "ntfs", "msdos", "cd9660"}

(* The program run for a file system; "none" is the empty QString.         *)
getMountCommand(fs) ==
  CASE fs = "ffs"    -> "mount_ffs"
    [] fs = "ext2fs" -> "mount_ext2fs"
    [] fs = "ntfs"   -> "mount_ntfs"
    [] fs = "msdos"  -> "mount_msdos"
    [] fs = "cd9660" -> "mount_cd9660"
    [] OTHER         -> "none"

(* The programs that can still be run after setup_unvail().                *)
unveiled == {"umount", "mount_ffs", "mount_ext2fs", "mount_ntfs", "mount_msdos", "mount_cd9660"}

(* Mutant: the device is not compared.                                     *)
createFilesystemAny(b) == {mtab[x] : x \in Dev} \ {NoDir}

(* createFilesystem: where the device is mounted when its label is read.   *)
createFilesystem(b) == {mtab[b]} \ {NoDir}

(* mountedVolumes() of QStorageInfo has nothing to go over when the mount  *)
(* table cannot be read.                                                   *)
readings(b) == {createFilesystem(b)} \cup (IF "getmntinfo" \in Env THEN {{}} ELSE {})

(* Mutant: no other name is tried.                                         *)
createMountPointFirst(b) == <<Id[b], 0>>

(* createMountPoint: the first name that is no mount point.  The tests     *)
(* of one name are several system calls; what other programs do between    *)
(* them leads to no result that one look at a single moment does not give. *)
createMountPoint(b) ==
  <<Id[b], CHOOSE n \in 0 .. MaxSuffix : /\ ~Mounted(<<Id[b], n>>)
                                         /\ \A k \in 0 .. n - 1 : Mounted(<<Id[b], k>>)>>

(* alreadyMounted answers FALSE when the mount table cannot be read, and   *)
(* then a name is taken although something is mounted there.               *)
takenForFree(b) ==
  IF "getmntinfo" \in Env
  THEN {<<Id[b], n>> : n \in {n \in 0 .. MaxSuffix : \A k \in 0 .. n : Mounted(<<Id[b], k>>)}}
  ELSE {}

(* Mutant: the directory is left behind.                                   *)
removeMountPointNot(d) == dirs

(* removeMountPoint: rmdir(2) refuses a mount point and a directory that   *)
(* holds files, so checkIfEmpty makes no difference to what is removed.    *)
removeMountPoint(d) ==
  IF d # NoDir /\ dirs[d] = "empty" /\ ~Mounted(d)
  THEN [dirs EXCEPT ![d] = "absent"]
  ELSE dirs

(* Mutant: no signal is sent.                                              *)
signalMountPointsChangedNot(b) == UNCHANGED seen

signalMountPointsChanged(b) == seen' = [seen EXCEPT ![b] = mountPoints'[b]]

-----------------------------------------------------------------------------
Init ==
  /\ mountPoints = [b \in Dev |-> {}]
  /\ seen = [b \in Dev |-> {}]
  /\ mtab = [b \in Dev |-> NoDir]
  /\ dirs = [d \in Dir |-> IF d = Elsewhere THEN "empty" ELSE "absent"]
  /\ pc = "idle"
  /\ cur \in Dev
  /\ rest = {}
  /\ opts = FALSE
  /\ dir = NoDir
  /\ exitCode = 0
  /\ orphan = {}
  /\ reply = "none"
  /\ litter = {}

(* Mutant: a mounted partition is not refused.                             *)
refusalNotMounted(b, uidValid) ==
  IF isFilesystemSupportedToMount(filesystem[b]) /\ uidValid THEN "none" ELSE "Failed"

(* The refusals of Mount, in the order of the code.                        *)
refusal(b, uidValid) ==
  IF ~isFilesystemSupportedToMount(filesystem[b]) THEN "Failed"
  ELSE IF mountPoints[b] # {} THEN "AlreadyMounted"
  ELSE IF ~uidValid THEN "Failed"
  ELSE "none"

(* Mount up to createMountPoint.  serviceUid fails when the caller has     *)
(* left the bus.                                                           *)
Mount(b) ==
  /\ pc = "idle"
  /\ \E uidValid \in BOOLEAN : reply' = refusal(b, uidValid)
  /\ IF reply' = "none"
     THEN pc' = "createMountPoint" /\ cur' = b
     ELSE UNCHANGED <<pc, cur>>
  /\ UNCHANGED <<mountPoints, seen, rest, opts, dir, exitCode, kernelVars, litter>>

(* A failed mkpath leaves the empty string, with which the program runs.   *)
CreateMountPoint ==
  /\ pc = "createMountPoint"
  /\ \E d \in {createMountPoint(cur)} \cup takenForFree(cur) :
       \/ /\ dir' = d
          /\ dirs' = [dirs EXCEPT ![d] = IF @ = "absent" THEN "empty" ELSE @]
       \/ /\ dirs[d] = "absent"
          /\ dir' = NoDir
          /\ UNCHANGED dirs
  /\ IF getMountCommand(filesystem[cur]) = "none"
     THEN pc' = "idle" /\ reply' = "ok"
     ELSE pc' = "mount" /\ UNCHANGED reply
  /\ UNCHANGED <<mountPoints, seen, cur, rest, opts, exitCode, mtab, orphan, litter>>

(* mount(2) takes a device once, and a directory that is there.            *)
mountProgram(b, d) ==
  /\ d # NoDir
  /\ dirs[d] # "absent"
  /\ ~MountedDev(b)
  /\ mtab' = [mtab EXCEPT ![b] = d]

(* umount(8) takes a mount off the directory.                              *)
umountProgram(d) ==
  /\ d # NoDir
  /\ \E b \in Dev : mtab[b] = d /\ mtab' = [mtab EXCEPT ![b] = NoDir]

(* The mount program ends; whatever is wrong with the device makes it fail.*)
MountSucceeds ==
  /\ pc = "mount"
  /\ getMountCommand(filesystem[cur]) \in unveiled
  /\ mountProgram(cur, dir)
  /\ exitCode' = 0
  /\ pc' = "mountDone"
  /\ UNCHANGED <<mountPoints, seen, cur, rest, opts, dir, reply, dirs, orphan, litter>>

MountFails ==
  /\ pc = "mount"
  /\ exitCode' = 1
  /\ pc' = "mountDone"
  /\ UNCHANGED <<mountPoints, seen, cur, rest, opts, dir, reply, kernelVars, litter>>

(* QProcess::exitCode() of a process that never started is 0.              *)
ProgramNotStarted ==
  /\ "fork" \in Env
  /\ \/ pc = "mount" /\ pc' = "mountDone"
     \/ pc = "umount" /\ pc' = "umountDone"
  /\ exitCode' = 0
  /\ UNCHANGED <<mountPoints, seen, cur, rest, opts, dir, reply, kernelVars, litter>>

(* History: what is left over is no longer once the directory is removed.  *)
sweep == litter' = {d \in litter : dirs'[d] # "absent"}

(* The end of Mount.                                                       *)
MountDone ==
  /\ pc = "mountDone"
  /\ IF exitCode # 0
     THEN /\ dirs' = removeMountPoint(dir)
          /\ reply' = "Failed"
          /\ UNCHANGED <<mountPoints, seen>>
     ELSE /\ mountPoints' = [mountPoints EXCEPT ![cur] = @ \cup {dir}]
          /\ signalMountPointsChanged(cur)
          /\ reply' = "ok"
          /\ UNCHANGED dirs
  /\ sweep
  /\ pc' = "idle"
  /\ dir' = NoDir
  /\ exitCode' = 0
  /\ UNCHANGED <<cur, rest, opts, mtab, orphan>>

(* Unmount: the loop goes over a copy of the list.                         *)
Unmount(b) ==
  /\ pc = "idle"
  /\ IF mountPoints[b] = {}
     THEN /\ reply' = "NotMounted"
          /\ UNCHANGED <<pc, cur, rest, opts, dir>>
     ELSE /\ reply' = "none"
          /\ opts' \in IF "options" \in Env THEN BOOLEAN ELSE {FALSE}
          /\ pc' = "umount"
          /\ cur' = b
          /\ dir' \in mountPoints[b]
          /\ rest' = mountPoints[b] \ {dir'}
  /\ UNCHANGED <<mountPoints, seen, exitCode, kernelVars, litter>>

(* Option values are put before the mount point on the command line of     *)
(* umount(8): it takes them for mount points too, fails on them, and says  *)
(* so with its exit status at the end.                                     *)
UmountSucceeds ==
  /\ pc = "umount"
  /\ "umount" \in unveiled
  /\ umountProgram(dir)
  /\ exitCode' = IF opts THEN 1 ELSE 0
  /\ pc' = "umountDone"
  /\ UNCHANGED <<mountPoints, seen, cur, rest, opts, dir, reply, dirs, orphan, litter>>

UmountFails ==
  /\ pc = "umount"
  /\ exitCode' = 1
  /\ pc' = "umountDone"
  /\ UNCHANGED <<mountPoints, seen, cur, rest, opts, dir, reply, kernelVars, litter>>

(* Mutant: the mount point stays on record.                                *)
removeAllNot(b, d) == mountPoints

removeAll(b, d) == [mountPoints EXCEPT ![b] = @ \ {d}]

(* Mutant: a mount point is tried until it is off.                         *)
mountItRetry ==
  IF exitCode = 0 THEN pc' = "idle" /\ dir' = NoDir /\ opts' = FALSE /\ UNCHANGED rest
                  ELSE pc' = "umount" /\ UNCHANGED <<rest, dir, opts>>

(* The loop goes on with the next mount point, or ends.                    *)
mountIt ==
  IF rest = {}
  THEN pc' = "idle" /\ dir' = NoDir /\ opts' = FALSE /\ UNCHANGED rest
  ELSE pc' = "umount" /\ dir' \in rest /\ rest' = rest \ {dir'} /\ UNCHANGED opts

(* The rest of the loop's body.  Only a failure is signalled; the first    *)
(* reply, an error if there was one, is the caller's answer.               *)
UmountDone ==
  /\ pc = "umountDone"
  /\ dirs' = removeMountPoint(dir)
  /\ IF exitCode # 0
     THEN /\ UNCHANGED mountPoints
          /\ signalMountPointsChanged(cur)
     ELSE /\ mountPoints' = removeAll(cur, dir)
          /\ UNCHANGED seen
  /\ mountIt
  /\ reply' = IF reply = "none" /\ exitCode # 0 THEN "Failed"
              ELSE IF reply = "none" /\ rest = {} THEN "ok"
              ELSE reply
  /\ sweep
  /\ exitCode' = 0
  /\ UNCHANGED <<cur, mtab, orphan>>

(* check() finds the disk gone and later back (pc = "idle": it runs in the *)
(* main thread too): new Block objects, announced with their properties.   *)
Replug(b) ==
  /\ pc = "idle"
  /\ \E r \in readings(b) : mountPoints' = [mountPoints EXCEPT ![b] = r]
  /\ seen' = [seen EXCEPT ![b] = mountPoints'[b]]
  /\ UNCHANGED <<pc, cur, rest, opts, dir, exitCode, reply, kernelVars, litter>>

Crash ==
  /\ "crash" \in Env
  /\ pc # "dead"
  /\ pc' = "dead"
  /\ orphan = {}
  /\ orphan' = IF pc \in {"mount", "umount"} THEN {[prog |-> pc, dev |-> cur, dir |-> dir]} ELSE {}
  /\ litter' = IF pc \in {"mount", "mountDone", "umount", "umountDone"}
               THEN litter \cup ({dir} \cap MediaDir) ELSE litter
  /\ rest' = {}
  /\ opts' = FALSE
  /\ dir' = NoDir
  /\ exitCode' = 0
  /\ UNCHANGED <<mountPoints, seen, cur, reply, mtab, dirs>>

(* The program nobody waits for any more ends.                             *)
OrphanEnds ==
  /\ \E o \in orphan :
       \/ o.prog = "mount" /\ mountProgram(o.dev, o.dir)
       \/ o.prog = "umount" /\ umountProgram(o.dir)
       \/ UNCHANGED mtab
  /\ orphan' = {}
  /\ UNCHANGED <<daemonVars, dirs, litter>>

(* A new process reads every label; clients see its objects anew.          *)
Restart ==
  /\ pc = "dead"
  /\ "orphan" \in Env \/ orphan = {}
  /\ pc' = "idle"
  /\ mountPoints' \in [Dev -> UNION {readings(b) : b \in Dev}]
  /\ \A b \in Dev : mountPoints'[b] \in readings(b)
  /\ seen' = mountPoints'
  /\ reply' = "none"
  /\ UNCHANGED <<cur, rest, opts, dir, exitCode, kernelVars, litter>>

(* Other programs.                                                         *)
OthersUmount ==
  /\ "umount" \in Env
  /\ \E b \in Dev : MountedDev(b) /\ mtab' = [mtab EXCEPT ![b] = NoDir]
  /\ UNCHANGED <<daemonVars, dirs, orphan, litter>>

OthersMount ==
  /\ "mount" \in Env
  /\ \E b \in Dev, d \in Dir :
       /\ ~MountedDev(b)
       /\ dirs[d] # "absent"
       /\ mtab' = [mtab EXCEPT ![b] = d]
  /\ UNCHANGED <<daemonVars, dirs, orphan, litter>>

OthersWrite ==
  /\ "files" \in Env
  /\ \E d \in Dir :
       /\ dirs[d] # "absent"
       /\ ~Mounted(d)
       /\ dirs' = [dirs EXCEPT ![d] = IF @ = "empty" THEN "full" ELSE "empty"]
  /\ UNCHANGED <<daemonVars, mtab, orphan, litter>>

Program == MountSucceeds \/ MountFails \/ UmountSucceeds \/ UmountFails \/ ProgramNotStarted
Handler == CreateMountPoint \/ MountDone \/ UmountDone

Next ==
  \/ \E b \in Dev : Mount(b) \/ Unmount(b) \/ Replug(b)
  \/ Handler \/ Program
  \/ Crash \/ Restart \/ OrphanEnds
  \/ OthersUmount \/ OthersMount \/ OthersWrite

(* A handler goes on; mount and umount programs end (the daemon waits for  *)
(* them without a limit); a client's next call starts a dead service.      *)
Fairness == WF_vars(Handler) /\ WF_vars(Program) /\ WF_vars(OrphanEnds) /\ WF_vars(Restart)

Spec == Init /\ [][Next]_vars /\ Fairness
-----------------------------------------------------------------------------
(* The properties.                                                         *)

(* However calls, failures, replugging and restarts follow each other, the *)
(* daemon records at most one mount point for a partition (the guard of    *)
(* Mount, the break in createFilesystem), so Unmount's loop over the list  *)
(* never has to go on after a failure.                                     *)
AtMostOneMountPoint == \A b \in Dev : Cardinality(mountPoints[b]) <= 1

(* A client that follows the signals never takes a partition for unmounted *)
(* that the daemon has on record as mounted (Mount, createFilesystem).     *)
(* The converse does not hold: a successful Unmount is not signalled.      *)
SeenCoversRecord == \A b \in Dev : mountPoints[b] # {} => seen[b] = mountPoints[b]

(* Between calls the record is the kernel's truth, also after failed calls *)
(* and across a crash (createFilesystem reads it back), as long as only    *)
(* the daemon mounts and unmounts, its programs can be started and         *)
(* getmntinfo answers.                                                     *)
RecordIsKernel == pc = "idle" => \A b \in Dev : mountPoints[b] = createFilesystem(b)

(* createMountPoint keeps partitions with the same Id apart: the daemon    *)
(* never mounts one file system over another as long as getmntinfo tells   *)
(* it what is mounted (takenForFree is what happens when it does not).     *)
NoStackedMounts ==
  \A b, c \in Dev : MountedDev(b) /\ mtab[b] = mtab[c] => b = c

(* Unmount takes its own file system off and no other, although it names a *)
(* directory and not a device (Unmount, umount(8)), as long as the daemon  *)
(* alone mounts and unmounts and getmntinfo answers.                       *)
UnmountsOwn ==
  [][\A b \in Dev : MountedDev(b) /\ ~MountedDev(b)' =>
       \/ pc = "umount" /\ cur = b
       \/ \E o \in orphan : o.prog = "umount" /\ o.dev = b]_vars

(* Between calls there is no directory under /media that nothing is        *)
(* mounted on, other than those of calls which a crash cut short: failed   *)
(* and successful calls take theirs away again (removeMountPoint), and     *)
(* what a crash left over goes with the next call that uses it.            *)
NoLeftoverDirs ==
  pc = "idle" => \A d \in MediaDir : dirs[d] # "absent" => Mounted(d) \/ d \in litter

(* Every handler comes to its end and the daemon takes the next call.      *)
EveryCallEnds == pc # "idle" ~> pc = "idle"

(* Mount, Unmount and a restart implement MountService as long as only the *)
(* daemon mounts, its programs can be started and getmntinfo answers: an   *)
(* answer of success means that the effect is there, an error that it is   *)
(* not, and every call ends.                                               *)
mounting == pc \in {"createMountPoint", "mount", "mountDone"}

servicePhase ==
  IF pc = "idle" THEN "ready"
  ELSE IF pc = "dead" THEN "gone"
  ELSE IF pc \in {"mountDone", "umountDone"} /\ exitCode = 0 THEN "done"
  ELSE "working"

serviceCall ==
  IF pc = "idle" THEN {}
  ELSE IF pc = "dead"
  THEN {[op |-> IF o.prog = "mount" THEN "Mount" ELSE "Unmount", dev |-> o.dev] : o \in orphan}
  ELSE {[op |-> IF mounting THEN "Mount" ELSE "Unmount", dev |-> cur]}

serviceAnswer == IF reply \in {"none", "ok"} THEN reply ELSE "error"

Service == INSTANCE MountService WITH
  at <- mtab,
  record <- mountPoints,
  phase <- servicePhase,
  call <- serviceCall,
  answer <- serviceAnswer

ImplementsMountService == Service!MountSpec

(* org.freedesktop.UDisks2.xml, MountPoints: "If the device is not         *)
(* mounted, this array is empty."                                          *)
EmptyWhenUnmounted ==
  pc = "idle" => \A b \in Dev : ~MountedDev(b) => mountPoints[b] = {}

(* org.freedesktop.UDisks2.xml, Mount: "@mount_path: The filesystem path   *)
(* where the device was mounted."                                          *)
MountPathIsMounted ==
  [][pc = "mountDone" /\ reply' = "ok" => dir # NoDir /\ mtab[cur] = dir]_vars

(* org.freedesktop.UDisks2.xml, Mount: if the device is "unmounted in a    *)
(* way that bypasses the org.freedesktop.UDisks2.Filesystem.Unmount()      *)
(* method ... the mount point will be cleaned up."                         *)
BypassIsCleanedUp ==
  \A b \in Dev : ~MountedDev(b) ~> mountPoints[b] = {} \/ MountedDev(b)
-----------------------------------------------------------------------------
(* The inductive invariants.                                               *)

(* A record has one mount point at most, and the handler that runs knows   *)
(* which: Mount works on a partition without, Unmount on the only one.  It *)
(* replies at its end.                                                     *)
HandlerInv ==
  /\ \A b \in Dev : \A d, e \in mountPoints[b] : d = e
  /\ mounting => mountPoints[cur] = {}
  /\ pc \in {"umount", "umountDone"} => mountPoints[cur] = {dir} /\ rest = {}
  /\ pc \notin {"idle", "dead"} => reply = "none"

(* The record and what clients know of it, at every step of a handler      *)
(* (Mount, Unmount, createFilesystem), whatever happens around the daemon. *)
OpenInv == TypeOK /\ HandlerInv /\ SeenCoversRecord

(* What the program that runs, or has just ended, finds in the kernel.     *)
ProgramInv ==
  /\ pc \in {"createMountPoint", "mount"} => mtab[cur] = NoDir
  /\ pc = "mount" => ~Mounted(dir) \/ dir = NoDir
  /\ pc = "mountDone" => IF exitCode = 0 THEN dir # NoDir /\ mtab[cur] = dir ELSE mtab[cur] = NoDir
  /\ pc \in {"umount", "umountDone"} => dir # NoDir
  /\ pc = "umount" => mtab[cur] = dir
  /\ pc = "umountDone" => mtab[cur] = IF exitCode = 0 THEN NoDir ELSE dir

(* The same of a program that a crash left over.                           *)
OrphanInv ==
  /\ pc # "dead" => orphan = {}
  /\ \A o \in orphan :
       \/ o.prog = "mount" /\ mtab[o.dev] = NoDir /\ (~Mounted(o.dir) \/ o.dir = NoDir)
       \/ o.prog = "umount" /\ mtab[o.dev] = o.dir /\ o.dir # NoDir

(* As long as only the daemon mounts and unmounts, its programs start and  *)
(* getmntinfo answers: the record of every partition but the one the       *)
(* handler works on is the kernel's truth (Mount, Unmount,                 *)
(* createFilesystem), and no two partitions share a directory              *)
(* (createMountPoint).                                                     *)
AloneInv ==
  /\ OpenInv
  /\ ~opts
  /\ \A b \in Dev : pc # "dead" /\ (pc = "idle" \/ b # cur) => mountPoints[b] = createFilesystem(b)
  /\ NoStackedMounts
  /\ ProgramInv
  /\ OrphanInv

(* A directory under /media is there for a mount or for the handler that   *)
(* runs, or a crash left it over.  Mount makes one only if it will run a   *)
(* program; other programs write no files into it; a program that a crash  *)
(* left over may uncover a directory that counts as left over.             *)
DirsInv ==
  /\ \A d \in MediaDir :
       dirs[d] # "absent" =>
         \/ Mounted(d) \/ d \in litter
         \/ d = dir /\ pc \in {"mount", "mountDone", "umount", "umountDone"}
  /\ \A d \in Dir : dirs[d] # "full"
  /\ pc = "createMountPoint" => isFilesystemSupportedToMount(filesystem[cur])
  /\ \A o \in orphan : o.dir \in MediaDir => o.dir \in litter
=============================================================================
