----------------------- MODULE BlockFilesystemProofs -----------------------
(* Proofs about BlockFilesystem, for every set of partitions and Ids.      *)
EXTENDS BlockFilesystem, FiniteSetTheorems, WellFoundedInduction, TLAPS

-----------------------------------------------------------------------------
(* The names under /media.                                                 *)

(* There is a number of names to try (createMountPoint).                   *)
LEMMA MaxSuffixType == MaxSuffix \in Nat
BY BlockFilesystemAssumption, FS_CardinalityType DEF MaxSuffix

(* A device is mounted at most once, so one of the names is free: the loop *)
(* of createMountPoint ends.                                               *)
LEMMA SomeNameIsFree ==
  ASSUME mtab \in [Dev -> Dir \cup {NoDir}], NEW b \in Dev
  PROVE  \E n \in 0 .. MaxSuffix : ~Mounted(<<Id[b], n>>)
<1> SUFFICES ASSUME \A n \in 0 .. MaxSuffix : Mounted(<<Id[b], n>>)
             PROVE  FALSE
  OBVIOUS
<1> DEFINE N == 0 .. MaxSuffix
           f == [n \in N |-> CHOOSE x \in Dev : mtab[x] = <<Id[b], n>>]
<1>1. \A n \in N : f[n] \in Dev /\ mtab[f[n]] = <<Id[b], n>>
  BY DEF Mounted
<1>2. f \in [N -> Dev]
  BY <1>1
<1>3. IsFiniteSet(N) /\ Cardinality(N) = MaxSuffix + 1
  BY FS_Interval, MaxSuffixType
<1> HIDE DEF N, f
<1>4. Cardinality(Dev) < Cardinality(N)
  BY <1>3, MaxSuffixType DEF MaxSuffix
<1>5. PICK m, n \in N : m # n /\ f[m] = f[n]
  BY <1>2, <1>3, <1>4, FS_PigeonHole, BlockFilesystemAssumption
<1> QED
  BY <1>1, <1>5

(* createMountPoint finds the first of them.                               *)
LEMMA FreeName ==
  ASSUME mtab \in [Dev -> Dir \cup {NoDir}], NEW b \in Dev
  PROVE  createMountPoint(b) \in MediaDir /\ ~Mounted(createMountPoint(b))
<1> DEFINE Free == {n \in 0 .. MaxSuffix : ~Mounted(<<Id[b], n>>)}
           First(n) == /\ ~Mounted(<<Id[b], n>>)
                       /\ \A k \in 0 .. n - 1 : Mounted(<<Id[b], k>>)
<1>1. Free \subseteq Nat /\ Free # {}
  <2>1. \E n \in 0 .. MaxSuffix : ~Mounted(<<Id[b], n>>)
    BY SomeNameIsFree
  <2> QED BY <2>1, MaxSuffixType
<1>2. PICK n \in Free : \A k \in Free : ~(<<k, n>> \in OpToRel(<, Nat))
  BY <1>1, WFMin, NatLessThanWellFounded
<1>3. \A k \in Free : ~(k < n)
  BY <1>1, <1>2 DEF OpToRel
<1>4. n \in 0 .. MaxSuffix /\ First(n)
  BY <1>3, MaxSuffixType
<1> DEFINE c == CHOOSE n_1 \in 0 .. MaxSuffix : First(n_1)
<1>5. c \in 0 .. MaxSuffix /\ First(c)
  <2> HIDE DEF First
  <2> QED BY <1>4
<1>6. createMountPoint(b) = <<Id[b], c>>
  BY DEF createMountPoint
<1> QED
  BY <1>5, <1>6 DEF MediaDir

-----------------------------------------------------------------------------
(* Type correctness.                                                       *)

(* What the helpers return.                                                *)
LEMMA HelperTypes ==
  ASSUME TypeOK
  PROVE  /\ \A b \in Dev : readings(b) \subseteq SUBSET (Dir \cup {NoDir})
         /\ \A b \in Dev : createMountPoint(b) \in Dir /\ takenForFree(b) \subseteq Dir
         /\ \A d \in Dir \cup {NoDir} : removeMountPoint(d) \in [Dir -> {"absent", "empty", "full"}]
         /\ \A b \in Dev, d \in Dir \cup {NoDir} :
              removeAll(b, d) \in [Dev -> SUBSET (Dir \cup {NoDir})]
<1>1. \A b \in Dev : readings(b) \subseteq SUBSET (Dir \cup {NoDir})
  BY DEF TypeOK, createFilesystem, readings
<1>2. \A b \in Dev : createMountPoint(b) \in Dir /\ takenForFree(b) \subseteq Dir
  BY FreeName DEF TypeOK, Dir, MediaDir, takenForFree
<1>3. \A d \in Dir \cup {NoDir} : removeMountPoint(d) \in [Dir -> {"absent", "empty", "full"}]
  BY DEF TypeOK, removeMountPoint
<1>4. \A b \in Dev, d \in Dir \cup {NoDir} : removeAll(b, d) \in [Dev -> SUBSET (Dir \cup {NoDir})]
  BY DEF TypeOK, removeAll
<1> QED
  BY <1>1, <1>2, <1>3, <1>4

(* At most one program is left over from a crash.                          *)
LEMMA OrphanType ==
  /\ Cardinality({}) <= 1
  /\ \A o : Cardinality({o}) <= 1
BY FS_EmptySet, FS_Singleton

(* A new daemon's state is well-typed (Init).                              *)
LEMMA InitType == Init => TypeOK
<1> SUFFICES ASSUME Init PROVE TypeOK
  OBVIOUS
<1> USE DEF Init
<1>1. dirs \in [Dir -> {"absent", "empty", "full"}]
  OBVIOUS
<1>2. Cardinality(orphan) <= 1
  BY OrphanType
<1> QED
  BY <1>1, <1>2 DEF TypeOK

(* Every step keeps the types.                                             *)
LEMMA StepType == TypeOK /\ [Next]_vars => TypeOK'
<1> SUFFICES ASSUME TypeOK, [Next]_vars
             PROVE  TypeOK'
  OBVIOUS
<1> USE DEF TypeOK, kernelVars, daemonVars
<1>1. ASSUME NEW b \in Dev, Mount(b) PROVE TypeOK'
  BY <1>1 DEF Mount, refusal
<1>2. ASSUME NEW b \in Dev, Unmount(b) PROVE TypeOK'
  BY <1>2 DEF Unmount
<1>3. ASSUME NEW b \in Dev, Replug(b) PROVE TypeOK'
  BY <1>3, HelperTypes DEF Replug
<1>4. CASE CreateMountPoint
  <2>1. createMountPoint(cur) \in Dir /\ takenForFree(cur) \subseteq Dir
    BY HelperTypes
  <2>2. /\ dir' \in Dir \cup {NoDir}
        /\ dirs' \in [Dir -> {"absent", "empty", "full"}]
    BY <1>4, <2>1 DEF CreateMountPoint
  <2>3. /\ pc' \in {"idle", "mount"}
        /\ reply' \in {reply, "ok"}
        /\ UNCHANGED <<mountPoints, seen, cur, rest, opts, exitCode, mtab, orphan, litter>>
    BY <1>4 DEF CreateMountPoint
  <2> QED
    BY <2>2, <2>3
<1>5. CASE MountDone
  <2>1. dirs' \in [Dir -> {"absent", "empty", "full"}]
    BY <1>5, HelperTypes DEF MountDone
  <2>2. mountPoints' \in [Dev -> SUBSET (Dir \cup {NoDir})]
    BY <1>5 DEF MountDone
  <2>3. seen' \in [Dev -> SUBSET (Dir \cup {NoDir})]
    BY <1>5, <2>2 DEF MountDone, signalMountPointsChanged
  <2>4. /\ litter' \subseteq litter
        /\ pc' = "idle" /\ dir' = NoDir /\ exitCode' = 0 /\ reply' \in {"ok", "Failed"}
        /\ UNCHANGED <<cur, rest, opts, mtab, orphan>>
    BY <1>5 DEF MountDone, sweep
  <2> QED
    BY <2>1, <2>2, <2>3, <2>4
<1>6. CASE UmountDone
  <2>1. dirs' \in [Dir -> {"absent", "empty", "full"}]
    BY <1>6, HelperTypes DEF UmountDone
  <2>2. mountPoints' \in [Dev -> SUBSET (Dir \cup {NoDir})]
    BY <1>6, HelperTypes DEF UmountDone
  <2>3. seen' \in [Dev -> SUBSET (Dir \cup {NoDir})]
    BY <1>6, <2>2 DEF UmountDone, signalMountPointsChanged
  <2>4. /\ pc' \in {"idle", "umount"}
        /\ dir' \in rest \cup {NoDir}
        /\ rest' \subseteq rest
        /\ opts' \in BOOLEAN
    BY <1>6 DEF UmountDone, mountIt
  <2>5. /\ litter' \subseteq litter
        /\ exitCode' = 0 /\ reply' \in {reply, "ok", "Failed"}
        /\ UNCHANGED <<cur, mtab, orphan>>
    BY <1>6 DEF UmountDone, sweep
  <2> QED
    BY <2>1, <2>2, <2>3, <2>4, <2>5
<1>7. CASE MountSucceeds
  BY <1>7 DEF MountSucceeds, mountProgram
<1>8. CASE MountFails
  BY <1>8 DEF MountFails
<1>9. CASE UmountSucceeds
  BY <1>9 DEF UmountSucceeds, umountProgram
<1>10. CASE UmountFails
  BY <1>10 DEF UmountFails
<1>11. CASE ProgramNotStarted
  BY <1>11 DEF ProgramNotStarted
<1>12. CASE Crash
  <2>1. Cardinality(orphan') <= 1
    BY <1>12, OrphanType DEF Crash
  <2>2. orphan' \subseteq [prog : {"mount", "umount"}, dev : Dev, dir : Dir \cup {NoDir}]
    BY <1>12 DEF Crash
  <2>3. litter' \subseteq MediaDir
    BY <1>12 DEF Crash
  <2> QED
    BY <1>12, <2>1, <2>2, <2>3 DEF Crash
<1>13. CASE Restart
  <2>1. UNION {readings(b) : b \in Dev} \subseteq SUBSET (Dir \cup {NoDir})
    BY HelperTypes
  <2> QED
    BY <1>13, <2>1 DEF Restart
<1>14. CASE OrphanEnds
  BY <1>14, OrphanType DEF OrphanEnds, mountProgram, umountProgram
<1>15. CASE OthersUmount
  BY <1>15 DEF OthersUmount
<1>16. CASE OthersMount
  BY <1>16 DEF OthersMount
<1>17. CASE OthersWrite
  BY <1>17 DEF OthersWrite
<1>18. CASE UNCHANGED vars
  BY <1>18 DEF vars
<1> QED
  BY <1>1, <1>2, <1>3, <1>4, <1>5, <1>6, <1>7, <1>8, <1>9, <1>10, <1>11, <1>12,
     <1>13, <1>14, <1>15, <1>16, <1>17, <1>18 DEF Next, Handler, Program

-----------------------------------------------------------------------------
(* The record, whatever happens around the daemon.                         *)

(* Only the end of a handler, Replug and Restart write the record.         *)
LEMMA RecordSteps ==
  ASSUME TypeOK, [Next]_vars
  PROVE  \/ UNCHANGED <<mountPoints, seen>>
         \/ \E b \in Dev : Replug(b)
         \/ MountDone \/ UmountDone \/ Restart
BY DEF Next, Handler, Program, Mount, Unmount, CreateMountPoint, MountSucceeds, MountFails,
       ProgramNotStarted, UmountSucceeds, UmountFails, Crash, OrphanEnds, OthersUmount,
       OthersMount, OthersWrite, vars, daemonVars

(* Every step keeps to one mount point a partition (Mount, Unmount).       *)
LEMMA StepHandler == TypeOK /\ HandlerInv /\ [Next]_vars => HandlerInv'
<1> SUFFICES ASSUME TypeOK, HandlerInv, [Next]_vars
             PROVE  HandlerInv'
  OBVIOUS
<1> USE DEF HandlerInv, mounting
<1>1. ASSUME NEW b \in Dev, Mount(b) PROVE HandlerInv'
  BY <1>1 DEF Mount, refusal
<1>2. ASSUME NEW b \in Dev, Unmount(b) PROVE HandlerInv'
  <2>1. CASE mountPoints[b] = {}
    BY <1>2, <2>1 DEF Unmount
  <2>2. CASE mountPoints[b] # {}
    <3>1. PICK d : mountPoints[b] = {d}
      BY <2>2
    <3>2. /\ cur' = b /\ pc' = "umount" /\ dir' = d /\ rest' = {}
          /\ reply' = "none" /\ mountPoints' = mountPoints
      BY <1>2, <2>2, <3>1 DEF Unmount
    <3> QED
      BY <3>1, <3>2
  <2> QED
    BY <2>1, <2>2
<1>3. ASSUME NEW b \in Dev, Replug(b) PROVE HandlerInv'
  BY <1>3 DEF Replug, readings, createFilesystem, TypeOK
<1>4. CASE CreateMountPoint
  BY <1>4 DEF CreateMountPoint
<1>5. CASE MountDone
  BY <1>5 DEF MountDone, TypeOK
<1>6. CASE UmountDone
  BY <1>6 DEF UmountDone, mountIt, removeAll, TypeOK
<1>7. CASE MountSucceeds \/ MountFails \/ UmountSucceeds \/ UmountFails \/ ProgramNotStarted
  BY <1>7 DEF MountSucceeds, MountFails, UmountSucceeds, UmountFails, ProgramNotStarted
<1>8. CASE Crash
  BY <1>8 DEF Crash
<1>9. CASE Restart
  BY <1>9 DEF Restart, readings, createFilesystem
<1>10. CASE OrphanEnds \/ OthersUmount \/ OthersMount \/ OthersWrite \/ UNCHANGED vars
  BY <1>10 DEF OrphanEnds, OthersUmount, OthersMount, OthersWrite, vars, daemonVars
<1> QED
  BY <1>1, <1>2, <1>3, <1>4, <1>5, <1>6, <1>7, <1>8, <1>9, <1>10 DEF Next, Handler, Program

(* Every new mount point on record is signalled (signalMountPointsChanged).*)
LEMMA StepSeen == OpenInv /\ [Next]_vars => SeenCoversRecord'
<1> SUFFICES ASSUME TypeOK, HandlerInv, SeenCoversRecord, [Next]_vars
             PROVE  SeenCoversRecord'
  BY DEF OpenInv
<1> USE DEF SeenCoversRecord
<1>1. CASE UNCHANGED <<mountPoints, seen>>
  BY <1>1
<1>2. ASSUME NEW b \in Dev, Replug(b) PROVE SeenCoversRecord'
  BY <1>2 DEF Replug, TypeOK
<1>3. CASE MountDone
  BY <1>3 DEF MountDone, signalMountPointsChanged, TypeOK
<1>4. CASE UmountDone
  <2>1. CASE exitCode # 0
    BY <1>4, <2>1 DEF UmountDone, signalMountPointsChanged, TypeOK
  <2>2. CASE exitCode = 0
    <3>1. mountPoints' = [mountPoints EXCEPT ![cur] = {}] /\ seen' = seen
      BY <1>4, <2>2 DEF UmountDone, removeAll, HandlerInv
    <3> QED
      BY <3>1 DEF TypeOK
  <2> QED
    BY <2>1, <2>2
<1>5. CASE Restart
  BY <1>5 DEF Restart
<1> QED
  BY <1>1, <1>2, <1>3, <1>4, <1>5, RecordSteps

(* A new daemon has no mount point on record.                              *)
LEMMA InitOpen == Init => OpenInv
BY InitType DEF Init, OpenInv, HandlerInv, SeenCoversRecord, mounting

(* The record and what clients know of it.                                 *)
THEOREM OpenInvariance == Spec => []OpenInv
<1>1. OpenInv /\ [Next]_vars => OpenInv'
  BY StepType, StepHandler, StepSeen DEF OpenInv
<1> QED
  BY InitOpen, <1>1, PTL DEF Spec

(* However the programs around the daemon behave, and whatever else mounts *)
(* and unmounts, its state has the types it should have; program results   *)
(* are exit codes, mount points directories (BlockFilesystem, QProcess).   *)
THEOREM MountTypeCorrect == Spec => []TypeOK
<1>1. OpenInv => TypeOK
  BY DEF OpenInv
<1> QED
  BY OpenInvariance, <1>1, PTL

(* A partition never has two mount points on record (Mount).               *)
THEOREM OneMountPoint == Spec => []AtMostOneMountPoint
<1>1. OpenInv => AtMostOneMountPoint
  <2> SUFFICES ASSUME OpenInv, NEW b \in Dev
               PROVE  Cardinality(mountPoints[b]) <= 1
    BY DEF AtMostOneMountPoint
  <2>1. CASE mountPoints[b] = {}
    BY <2>1, FS_EmptySet
  <2>2. CASE mountPoints[b] # {}
    <3>1. \A d, e \in mountPoints[b] : d = e
      BY DEF OpenInv, HandlerInv
    <3>2. PICK d : mountPoints[b] = {d}
      BY <2>2, <3>1
    <3> QED
      BY <3>2, FS_Singleton
  <2> QED
    BY <2>1, <2>2
<1> QED
  BY OpenInvariance, <1>1, PTL

(* Clients know every mount point on record (signalMountPointsChanged).    *)
THEOREM ClientsKnowTheRecord == Spec => []SeenCoversRecord
<1>1. OpenInv => SeenCoversRecord
  BY DEF OpenInv
<1> QED
  BY OpenInvariance, <1>1, PTL

-----------------------------------------------------------------------------
(* The record and the kernel, while only the daemon mounts and unmounts.   *)

(* Nothing but a crash can go wrong around the daemon: nobody else mounts, *)
(* unmounts or writes, programs start, and getmntinfo answers.             *)
Alone == Env \subseteq {"crash"}

(* So the mount table can be read, by createMountPoint and by              *)
(* createFilesystem.                                                       *)
LEMMA TableIsRead ==
  ASSUME Alone
  PROVE  \A b : takenForFree(b) = {} /\ readings(b) = {createFilesystem(b)}
BY DEF Alone, takenForFree, readings

(* The kernel's table changes by the programs of the daemon only, each of  *)
(* which works on the partition it was started for.                        *)
LEMMA KernelSteps ==
  ASSUME Alone, AloneInv, [Next]_vars
  PROVE  \/ mtab' = mtab /\ ~MountSucceeds /\ ~UmountSucceeds
         \/ /\ MountSucceeds
            /\ dir # NoDir /\ ~Mounted(dir)
            /\ mtab' = [mtab EXCEPT ![cur] = dir]
         \/ /\ UmountSucceeds
            /\ mtab' = [mtab EXCEPT ![cur] = NoDir]
         \/ /\ OrphanEnds /\ pc = "dead"
            /\ \E o \in orphan :
                 \/ /\ o.prog = "mount" /\ o.dir # NoDir /\ ~Mounted(o.dir)
                    /\ mtab' = [mtab EXCEPT ![o.dev] = o.dir]
                 \/ /\ o.prog = "umount"
                    /\ mtab' = [mtab EXCEPT ![o.dev] = NoDir]
<1>1. CASE MountSucceeds
  BY <1>1 DEF MountSucceeds, mountProgram, AloneInv, ProgramInv
<1>2. CASE UmountSucceeds
  <2>1. PICK b \in Dev : mtab[b] = dir /\ mtab' = [mtab EXCEPT ![b] = NoDir]
    BY <1>2 DEF UmountSucceeds, umountProgram
  <2>2. b = cur
    BY <1>2, <2>1
       DEF UmountSucceeds, AloneInv, OpenInv, ProgramInv, NoStackedMounts, MountedDev, TypeOK
  <2> QED
    BY <1>2, <2>1, <2>2
<1>3. CASE OrphanEnds
  <2>1. PICK o \in orphan :
          \/ o.prog = "mount" /\ mountProgram(o.dev, o.dir)
          \/ o.prog = "umount" /\ umountProgram(o.dir)
          \/ UNCHANGED mtab
    BY <1>3 DEF OrphanEnds
  <2>2. pc = "dead" /\ o.dev \in Dev /\ ~MountSucceeds /\ ~UmountSucceeds
    BY DEF AloneInv, OrphanInv, OpenInv, TypeOK, MountSucceeds, UmountSucceeds
  <2>3. CASE o.prog = "mount" /\ mountProgram(o.dev, o.dir)
    BY <1>3, <2>2, <2>3 DEF mountProgram, AloneInv, OrphanInv
  <2>4. CASE o.prog = "umount" /\ umountProgram(o.dir)
    <3>1. PICK b \in Dev : mtab[b] = o.dir /\ mtab' = [mtab EXCEPT ![b] = NoDir]
      BY <2>4 DEF umountProgram
    <3>2. mtab[o.dev] = o.dir /\ o.dir # NoDir
      BY <2>4 DEF AloneInv, OrphanInv
    <3>3. b = o.dev
      BY <2>2, <3>1, <3>2 DEF AloneInv, NoStackedMounts, MountedDev
    <3> QED
      BY <1>3, <2>2, <2>4, <3>1, <3>3
  <2> QED
    BY <1>3, <2>1, <2>2, <2>3, <2>4
<1>4. CASE ~MountSucceeds /\ ~UmountSucceeds /\ ~OrphanEnds
  BY <1>4 DEF Next, Handler, Program, Mount, Unmount, Replug, CreateMountPoint, MountDone,
     UmountDone, MountFails, UmountFails, ProgramNotStarted, Crash, Restart, OthersUmount,
     OthersMount, OthersWrite, vars, daemonVars, kernelVars, Alone
<1> QED
  BY <1>1, <1>2, <1>3, <1>4

(* A directory stays with one partition (createMountPoint).                *)
LEMMA StepStacked == Alone /\ AloneInv /\ [Next]_vars => NoStackedMounts'
<1> SUFFICES ASSUME Alone, AloneInv, [Next]_vars
             PROVE  NoStackedMounts'
  OBVIOUS
<1>1. mtab \in [Dev -> Dir \cup {NoDir}] /\ NoStackedMounts /\ cur \in Dev
  BY DEF AloneInv, OpenInv, TypeOK
<1>2. \A o \in orphan : o.dev \in Dev
  BY DEF AloneInv, OpenInv, TypeOK
<1> QED
  BY <1>1, <1>2, KernelSteps DEF NoStackedMounts, MountedDev, Mounted

(* Without options there are none later.                                   *)
LEMMA StepOpts == Alone /\ AloneInv /\ [Next]_vars => ~opts'
<1> SUFFICES ASSUME Alone, ~opts, [Next]_vars
             PROVE  ~opts'
  BY DEF AloneInv
<1>1. ASSUME NEW b \in Dev, Unmount(b) PROVE ~opts'
  BY <1>1 DEF Unmount, Alone
<1>2. CASE UmountDone
  BY <1>2 DEF UmountDone, mountIt
<1>3. CASE Crash
  BY <1>3 DEF Crash
<1>4. CASE UNCHANGED opts
  BY <1>4
<1> QED
  BY <1>1, <1>2, <1>3, <1>4 DEF Next, Handler, Program, Mount, Replug, CreateMountPoint,
     MountDone, MountSucceeds, UmountSucceeds, MountFails, UmountFails, ProgramNotStarted,
     Restart, OrphanEnds, OthersUmount, OthersMount, OthersWrite, vars, daemonVars

(* Mount and Unmount start their program with what it needs to find.       *)
LEMMA StepProgram == Alone /\ AloneInv /\ [Next]_vars => ProgramInv'
<1> SUFFICES ASSUME Alone, AloneInv, [Next]_vars
             PROVE  ProgramInv'
  OBVIOUS
<1> USE DEF ProgramInv
<1>0. TypeOK /\ HandlerInv /\ ProgramInv
  BY DEF AloneInv, OpenInv
<1>1. ASSUME NEW b \in Dev, Mount(b) PROVE ProgramInv'
  <2>1. pc = "idle" /\ UNCHANGED <<mtab, mountPoints>>
    BY <1>1 DEF Mount, kernelVars
  <2>2. CASE reply' = "none"
    <3>1. pc' = "createMountPoint" /\ cur' = b /\ mountPoints[b] = {}
      BY <1>1, <2>2 DEF Mount, refusal
    <3>2. mtab[b] = NoDir
      BY <2>1, <3>1 DEF AloneInv, createFilesystem
    <3> QED
      BY <2>1, <3>1, <3>2
  <2>3. CASE reply' # "none"
    BY <1>1, <2>1, <2>3 DEF Mount
  <2> QED
    BY <2>2, <2>3
<1>2. ASSUME NEW b \in Dev, Unmount(b) PROVE ProgramInv'
  <2>1. CASE mountPoints[b] = {}
    BY <1>2, <2>1 DEF Unmount
  <2>2. CASE mountPoints[b] # {}
    <3>1. cur' = b /\ pc' = "umount" /\ dir' \in mountPoints[b] /\ mtab' = mtab
      BY <1>2, <2>2 DEF Unmount, kernelVars
    <3>2. mountPoints[b] = {mtab[b]} \ {NoDir}
      BY <1>2 DEF Unmount, AloneInv, createFilesystem
    <3> QED
      BY <3>1, <3>2
  <2> QED
    BY <2>1, <2>2
<1>3. ASSUME NEW b \in Dev, Replug(b) PROVE ProgramInv'
  BY <1>3 DEF Replug
<1>4. CASE CreateMountPoint
  <2>1. ~Mounted(createMountPoint(cur)) /\ mtab[cur] = NoDir
    BY <1>0, <1>4, FreeName DEF TypeOK, CreateMountPoint
  <2>2. /\ dir' \in {createMountPoint(cur), NoDir} /\ pc' \in {"idle", "mount"}
        /\ UNCHANGED <<cur, mtab>>
    BY <1>4, TableIsRead DEF CreateMountPoint
  <2> QED
    BY <2>1, <2>2 DEF Mounted
<1>5. CASE MountDone
  BY <1>5 DEF MountDone
<1>6. CASE UmountDone
  BY <1>0, <1>6 DEF UmountDone, mountIt, HandlerInv
<1>7. CASE MountSucceeds
  BY <1>0, <1>7 DEF MountSucceeds, mountProgram, TypeOK
<1>8. CASE MountFails
  BY <1>0, <1>8 DEF MountFails, kernelVars
<1>9. CASE UmountSucceeds
  <2>1. mtab' = [mtab EXCEPT ![cur] = NoDir]
    BY <1>9, KernelSteps DEF UmountSucceeds, MountSucceeds
  <2>2. exitCode' = 0 /\ pc' = "umountDone" /\ UNCHANGED <<cur, dir>>
    BY <1>9 DEF UmountSucceeds, AloneInv
  <2> QED
    BY <1>0, <1>9, <2>1, <2>2 DEF UmountSucceeds, TypeOK
<1>10. CASE UmountFails
  BY <1>0, <1>10 DEF UmountFails, kernelVars
<1>11. CASE Crash
  BY <1>11 DEF Crash
<1>12. CASE Restart
  BY <1>12 DEF Restart
<1>13. CASE OrphanEnds
  BY <1>13, KernelSteps DEF OrphanEnds, daemonVars, AloneInv, OrphanInv
<1>14. CASE UNCHANGED vars
  BY <1>0, <1>14 DEF vars, daemonVars, kernelVars, Mounted
<1>15. ~ProgramNotStarted /\ ~OthersUmount /\ ~OthersMount /\ ~OthersWrite
  BY DEF Alone, ProgramNotStarted, OthersUmount, OthersMount, OthersWrite
<1> QED
  BY <1>1, <1>2, <1>3, <1>4, <1>5, <1>6, <1>7, <1>8, <1>9, <1>10, <1>11, <1>12,
     <1>13, <1>14, <1>15 DEF Next, Handler, Program

(* A program that outlives the daemon still finds it.                      *)
LEMMA StepOrphan == Alone /\ AloneInv /\ [Next]_vars => OrphanInv'
<1> SUFFICES ASSUME Alone, AloneInv, [Next]_vars
             PROVE  OrphanInv'
  OBVIOUS
<1> USE DEF OrphanInv
<1>1. CASE Crash
  <2>1. pc' = "dead" /\ UNCHANGED mtab
    BY <1>1 DEF Crash
  <2>2. ASSUME NEW o \in orphan'
        PROVE  \/ o.prog = "mount" /\ mtab[o.dev] = NoDir /\ (~Mounted(o.dir) \/ o.dir = NoDir)
               \/ o.prog = "umount" /\ mtab[o.dev] = o.dir /\ o.dir # NoDir
    <3>1. pc \in {"mount", "umount"} /\ o.prog = pc /\ o.dev = cur /\ o.dir = dir
      BY <1>1, <2>2 DEF Crash
    <3> QED
      BY <3>1 DEF AloneInv, ProgramInv
  <2> QED
    BY <2>1, <2>2 DEF Mounted
<1>2. CASE Restart
  BY <1>2 DEF Restart, Alone, kernelVars
<1>3. CASE OrphanEnds
  BY <1>3 DEF OrphanEnds
<1>4. CASE pc # "dead" /\ pc' # "dead" /\ UNCHANGED orphan
  BY <1>4 DEF AloneInv
<1>5. CASE UNCHANGED vars
  BY <1>5 DEF vars, kernelVars, daemonVars, AloneInv, Mounted
<1>6. ~OthersUmount /\ ~OthersMount /\ ~OthersWrite
  BY DEF Alone, OthersUmount, OthersMount, OthersWrite
<1> QED
  BY <1>1, <1>2, <1>3, <1>4, <1>5, <1>6 DEF Next, Handler, Program, Mount, Unmount, Replug,
     CreateMountPoint, MountDone, UmountDone, mountIt, MountSucceeds, UmountSucceeds,
     MountFails, UmountFails, ProgramNotStarted, kernelVars

(* The record of a partition that no handler works on.                     *)
Recorded(b) == pc # "dead" /\ (pc = "idle" \/ b # cur) => mountPoints[b] = createFilesystem(b)

(* The end of a handler makes the record true again (Mount, Unmount).      *)
LEMMA StepRecord ==
  ASSUME Alone, AloneInv, [Next]_vars, NEW b \in Dev
  PROVE  Recorded(b)'
<1> USE DEF Recorded, createFilesystem
<1>0. TypeOK /\ HandlerInv /\ ProgramInv /\ Recorded(b)
  BY DEF AloneInv, OpenInv
<1>1. ASSUME NEW c \in Dev, Mount(c) PROVE Recorded(b)'
  BY <1>0, <1>1 DEF Mount, kernelVars
<1>2. ASSUME NEW c \in Dev, Unmount(c) PROVE Recorded(b)'
  BY <1>0, <1>2 DEF Unmount, kernelVars
<1>3. ASSUME NEW c \in Dev, Replug(c) PROVE Recorded(b)'
  BY <1>0, <1>3, TableIsRead DEF Replug, kernelVars, TypeOK
<1>4. CASE CreateMountPoint
  BY <1>0, <1>4 DEF CreateMountPoint, AloneInv, HandlerInv, ProgramInv, mounting
<1>5. CASE MountDone
  <2>1. pc = "mountDone" /\ UNCHANGED <<cur, mtab>>
    BY <1>5 DEF MountDone
  <2>2. CASE b = cur
    BY <1>0, <1>5, <2>1, <2>2 DEF MountDone, HandlerInv, ProgramInv, mounting, TypeOK
  <2>3. CASE b # cur
    BY <1>0, <1>5, <2>1, <2>3 DEF MountDone, TypeOK
  <2> QED
    BY <2>2, <2>3
<1>6. CASE UmountDone
  <2>1. pc = "umountDone" /\ UNCHANGED <<cur, mtab>> /\ pc' = "idle"
    BY <1>0, <1>6 DEF UmountDone, mountIt, HandlerInv
  <2>2. CASE b = cur
    BY <1>0, <1>6, <2>1, <2>2 DEF UmountDone, removeAll, HandlerInv, ProgramInv, TypeOK
  <2>3. CASE b # cur
    BY <1>0, <1>6, <2>1, <2>3 DEF UmountDone, removeAll, TypeOK
  <2> QED
    BY <2>2, <2>3
<1>7. CASE MountSucceeds \/ UmountSucceeds
  <2>1. \E d : mtab' = [mtab EXCEPT ![cur] = d]
    BY <1>7, KernelSteps DEF MountSucceeds, UmountSucceeds, AloneInv
  <2>2. pc \notin {"idle", "dead"} /\ pc' \notin {"idle", "dead"} /\ UNCHANGED <<cur, mountPoints>>
    BY <1>7 DEF MountSucceeds, UmountSucceeds
  <2> QED
    BY <1>0, <2>1, <2>2 DEF TypeOK
<1>8. CASE MountFails \/ UmountFails
  BY <1>0, <1>8 DEF MountFails, UmountFails, kernelVars
<1>9. CASE Crash
  BY <1>9 DEF Crash
<1>10. CASE Restart
  BY <1>10, TableIsRead DEF Restart, kernelVars
<1>11. CASE OrphanEnds
  BY <1>11, KernelSteps DEF OrphanEnds, daemonVars, AloneInv, OrphanInv
<1>12. CASE UNCHANGED vars
  BY <1>0, <1>12 DEF vars, daemonVars, kernelVars
<1>13. ~ProgramNotStarted /\ ~OthersUmount /\ ~OthersMount /\ ~OthersWrite
  BY DEF Alone, ProgramNotStarted, OthersUmount, OthersMount, OthersWrite
<1> QED
  BY <1>1, <1>2, <1>3, <1>4, <1>5, <1>6, <1>7, <1>8, <1>9, <1>10, <1>11, <1>12, <1>13
     DEF Next, Handler, Program

(* At first nothing is mounted and nothing on record.                      *)
LEMMA InitAlone == Init => AloneInv
<1> SUFFICES ASSUME Init PROVE AloneInv
  OBVIOUS
<1>1. OpenInv
  BY InitOpen
<1>2. ~opts /\ NoStackedMounts /\ ProgramInv /\ OrphanInv
  BY DEF Init, NoStackedMounts, MountedDev, ProgramInv, OrphanInv
<1>3. \A b \in Dev : mountPoints[b] = createFilesystem(b)
  BY DEF Init, createFilesystem
<1> QED
  BY <1>1, <1>2, <1>3 DEF AloneInv

(* Every step keeps record, kernel and programs in agreement.              *)
LEMMA StepAlone == Alone /\ AloneInv /\ [Next]_vars => AloneInv'
<1> SUFFICES ASSUME Alone, AloneInv, [Next]_vars
             PROVE  AloneInv'
  OBVIOUS
<1>1. OpenInv'
  BY StepType, StepHandler, StepSeen DEF AloneInv, OpenInv
<1>2. \A b \in Dev : Recorded(b)'
  BY StepRecord
<1> QED
  BY <1>1, <1>2, StepOpts, StepStacked, StepProgram, StepOrphan DEF AloneInv, Recorded

(* Record, kernel and programs at every step of every handler (Mount,      *)
(* Unmount, createFilesystem), a crash included, as long as nobody else    *)
(* mounts, programs start and getmntinfo answers.                          *)
THEOREM AloneInvariance ==
  ASSUME Alone
  PROVE  Spec => []AloneInv
<1>1. AloneInv /\ [Next]_vars => AloneInv'
  BY StepAlone
<1> QED
  BY InitAlone, <1>1, PTL DEF Spec

(* Between calls, the record is the kernel's truth (Mount, Unmount,        *)
(* createFilesystem), as long as nobody else mounts, programs start and    *)
(* getmntinfo answers.                                                     *)
THEOREM RecordIsTrue ==
  ASSUME Alone
  PROVE  Spec => []RecordIsKernel
<1>1. AloneInv => RecordIsKernel
  BY DEF AloneInv, RecordIsKernel
<1> QED
  BY AloneInvariance, <1>1, PTL

(* The daemon never mounts one file system over another, however many      *)
(* partitions share an Id (createMountPoint), as long as getmntinfo tells  *)
(* it what is mounted: Alone excludes that alreadyMounted fails.           *)
THEOREM MountsAreApart ==
  ASSUME Alone
  PROVE  Spec => []NoStackedMounts
<1>1. AloneInv => NoStackedMounts
  BY DEF AloneInv
<1> QED
  BY AloneInvariance, <1>1, PTL

(* umount(8), told a directory, takes off the partition Unmount was called *)
(* on (Unmount), also when it outlives the daemon, as long as getmntinfo   *)
(* answers and so no two partitions share a directory.                     *)
THEOREM UnmountTakesItsOwn ==
  ASSUME Alone
  PROVE  Spec => UnmountsOwn
<1>1. ASSUME AloneInv, [Next]_vars, NEW b \in Dev, MountedDev(b), ~MountedDev(b)'
      PROVE  \/ pc = "umount" /\ cur = b
             \/ \E o \in orphan : o.prog = "umount" /\ o.dev = b
  <2> USE DEF MountedDev
  <2>1. mtab \in [Dev -> Dir \cup {NoDir}] /\ cur \in Dev
    BY <1>1 DEF AloneInv, OpenInv, TypeOK
  <2>2. \A o \in orphan : o.dev \in Dev
    BY <1>1 DEF AloneInv, OpenInv, TypeOK
  <2> QED
    BY <1>1, <2>1, <2>2, KernelSteps DEF UmountSucceeds
<1>2. AloneInv /\ [Next]_vars =>
        [\A b \in Dev : MountedDev(b) /\ ~MountedDev(b)' =>
           \/ pc = "umount" /\ cur = b
           \/ \E o \in orphan : o.prog = "umount" /\ o.dev = b]_vars
  BY <1>1
<1> QED
  BY AloneInvariance, <1>2, PTL DEF Spec, UnmountsOwn

-----------------------------------------------------------------------------
(* The directories under /media.                                           *)

(* Every handler takes its directory away (removeMountPoint).              *)
LEMMA StepDirs == Alone /\ AloneInv /\ DirsInv /\ [Next]_vars => DirsInv'
<1> SUFFICES ASSUME Alone, AloneInv, DirsInv, [Next]_vars
             PROVE  DirsInv'
  OBVIOUS
<1>0. /\ TypeOK /\ HandlerInv /\ ProgramInv /\ OrphanInv
      /\ MediaDir \subseteq Dir /\ NoDir \notin MediaDir
  BY BlockFilesystemAssumption DEF AloneInv, OpenInv, Dir
<1>1. ASSUME NEW b \in Dev, Mount(b) PROVE DirsInv'
  BY <1>1 DEF Mount, refusal, DirsInv, kernelVars, Mounted
<1>2. ASSUME NEW b \in Dev, Unmount(b) PROVE DirsInv'
  BY <1>2 DEF Unmount, DirsInv, kernelVars, Mounted
<1>3. ASSUME NEW b \in Dev, Replug(b) PROVE DirsInv'
  BY <1>3 DEF Replug, DirsInv, kernelVars, Mounted
<1>4. CASE CreateMountPoint
  <2>1. pc = "createMountPoint" /\ pc' = "mount"
    BY <1>4 DEF CreateMountPoint, DirsInv, isFilesystemSupportedToMount, getMountCommand
  <2>2. createMountPoint(cur) \in Dir
    BY <1>0, HelperTypes DEF TypeOK
  <2>3. /\ \A d \in Dir : dirs'[d] # dirs[d] => d = dir' /\ dirs'[d] = "empty"
        /\ UNCHANGED <<mtab, litter, orphan>>
    BY <1>0, <1>4, <2>2, TableIsRead DEF CreateMountPoint, TypeOK
  <2> QED
    BY <1>0, <2>1, <2>3 DEF DirsInv, Mounted
<1>5. CASE MountDone \/ UmountDone
  <2>1. /\ dirs' \in {dirs, removeMountPoint(dir)}
        /\ dirs' = dirs => (pc = "mountDone" /\ exitCode = 0) \/ dirs = removeMountPoint(dir)
        /\ litter' = {d \in litter : dirs'[d] # "absent"}
        /\ pc' = "idle" /\ UNCHANGED <<mtab, orphan>>
    BY <1>0, <1>5 DEF MountDone, UmountDone, mountIt, HandlerInv, sweep
  <2>2. \A d \in Dir : /\ dirs'[d] \in {dirs[d], "absent"}
                       /\ d = dir /\ dirs'[d] # "absent" => Mounted(d)
    <3>1. ASSUME NEW d \in Dir PROVE dirs'[d] \in {dirs[d], "absent"}
      BY <1>0, <2>1 DEF removeMountPoint, TypeOK
    <3>2. CASE dirs' = removeMountPoint(dir)
      BY <1>0, <3>1, <3>2, BlockFilesystemAssumption DEF removeMountPoint, TypeOK, DirsInv
    <3>3. CASE pc = "mountDone" /\ exitCode = 0
      BY <1>0, <3>1, <3>3 DEF ProgramInv, Mounted, TypeOK
    <3> QED
      BY <2>1, <3>1, <3>2, <3>3
  <2>3. pc # "dead" /\ orphan = {}
    BY <1>0, <1>5 DEF OrphanInv, MountDone, UmountDone
  <2> QED
    BY <1>0, <2>1, <2>2, <2>3 DEF DirsInv, Mounted
<1>6. CASE MountSucceeds
  <2>1. mtab' = [mtab EXCEPT ![cur] = dir] /\ mtab[cur] = NoDir
    BY <1>0, <1>6 DEF MountSucceeds, mountProgram, ProgramInv
  <2>2. \A d \in MediaDir : Mounted(d) => Mounted(d)'
    BY <1>0, <2>1 DEF Mounted, TypeOK
  <2> QED
    BY <1>6, <2>2 DEF MountSucceeds, DirsInv
<1>7. CASE UmountSucceeds
  <2>1. mtab' = [mtab EXCEPT ![cur] = NoDir] /\ mtab[cur] = dir
    BY <1>0, <1>7, KernelSteps DEF UmountSucceeds, MountSucceeds, ProgramInv, OrphanInv
  <2>2. \A d \in MediaDir : Mounted(d) => Mounted(d)' \/ d = dir
    BY <1>0, <2>1 DEF Mounted, TypeOK
  <2> QED
    BY <1>7, <2>2 DEF UmountSucceeds, DirsInv
<1>8. CASE MountFails \/ UmountFails
  BY <1>8 DEF MountFails, UmountFails, DirsInv, kernelVars, Mounted
<1>9. CASE Crash
  BY <1>0, <1>9 DEF Crash, DirsInv, Mounted
<1>10. CASE Restart
  BY <1>10 DEF Restart, DirsInv, kernelVars, Mounted
<1>11. CASE OrphanEnds
  <2>1. /\ orphan' = {} /\ pc' = pc /\ pc = "dead"
        /\ UNCHANGED <<dirs, litter>>
    BY <1>11, KernelSteps DEF OrphanEnds, daemonVars, OrphanInv, AloneInv
  <2>2. ASSUME NEW d \in MediaDir, Mounted(d) PROVE Mounted(d)' \/ d \in litter
    <3>1. \A o \in orphan : /\ o.dev \in Dev
                            /\ o.prog = "mount" => mtab[o.dev] = NoDir
                            /\ o.prog = "umount" => mtab[o.dev] = o.dir
                            /\ o.dir \in MediaDir => o.dir \in litter
      BY <1>0 DEF TypeOK, OrphanInv, DirsInv
    <3>2. PICK b \in Dev : mtab[b] = d
      BY <2>2 DEF Mounted
    <3>3. CASE mtab' = mtab
      BY <3>2, <3>3 DEF Mounted
    <3>4. CASE \E o \in orphan : o.prog = "mount" /\ mtab' = [mtab EXCEPT ![o.dev] = o.dir]
      BY <1>0, <3>1, <3>2, <3>4 DEF Mounted, TypeOK
    <3>5. CASE \E o \in orphan : o.prog = "umount" /\ mtab' = [mtab EXCEPT ![o.dev] = NoDir]
      BY <1>0, <3>1, <3>2, <3>5 DEF Mounted, TypeOK
    <3> QED
      BY <2>1, <3>3, <3>4, <3>5, KernelSteps DEF MountSucceeds, UmountSucceeds
  <2> QED
    BY <2>1, <2>2 DEF DirsInv
<1>12. CASE UNCHANGED vars
  BY <1>12 DEF vars, daemonVars, kernelVars, DirsInv, Mounted
<1>13. ~ProgramNotStarted /\ ~OthersUmount /\ ~OthersMount /\ ~OthersWrite
  BY DEF Alone, ProgramNotStarted, OthersUmount, OthersMount, OthersWrite
<1> QED
  BY <1>1, <1>2, <1>3, <1>4, <1>5, <1>6, <1>7, <1>8, <1>9, <1>10, <1>11, <1>12, <1>13
     DEF Next, Handler, Program

(* Where the directories under /media are at every step of a handler and   *)
(* across a crash: under a mount, in the hands of the handler, or left over *)
(* by a crash (createMountPoint, removeMountPoint).                        *)
THEOREM DirsInvariance ==
  ASSUME Alone
  PROVE  Spec => []DirsInv
<1>1. Init => DirsInv
  BY BlockFilesystemAssumption DEF Init, DirsInv, Dir
<1>2. AloneInv /\ DirsInv /\ [Next]_vars => DirsInv'
  BY StepDirs
<1> QED
  BY AloneInvariance, <1>1, <1>2, PTL DEF Spec

(* Failed and successful calls take their directories away again; what a   *)
(* crash left over is all that ever lies about (removeMountPoint).         *)
THEOREM NothingLeftOver ==
  ASSUME Alone
  PROVE  Spec => []NoLeftoverDirs
<1>1. DirsInv => NoLeftoverDirs
  BY DEF DirsInv, NoLeftoverDirs
<1> QED
  BY DirsInvariance, <1>1, PTL

-----------------------------------------------------------------------------
(* BlockFilesystem implements MountService.                                *)

ServiceInv == AloneInv /\ DirsInv

(* Steps inside a handler are none of MountService's.                      *)
LEMMA ServiceStutters ==
  ASSUME UNCHANGED <<mtab, mountPoints, servicePhase, serviceCall, serviceAnswer>>
  PROVE  UNCHANGED Service!vars
BY DEF Service!vars

(* A new daemon is a new service.                                          *)
LEMMA InitService == Init => Service!Init
<1> SUFFICES ASSUME Init PROVE Service!Init
  OBVIOUS
<1>1. mountPoints = Service!Actual
  BY DEF Init, Service!Actual
<1> QED
  BY <1>1 DEF Init, Service!Init, servicePhase, serviceCall, serviceAnswer

(* The record of all partitions is the truth again at the end of a handler.*)
LEMMA RecordIsActual ==
  ASSUME TypeOK', \A b \in Dev : mountPoints'[b] = createFilesystem(b)', mtab' = mtab
  PROVE  mountPoints' = Service!Actual
BY DEF TypeOK, createFilesystem, Service!Actual

(* Every step is one of MountService or a stutter.                         *)
LEMMA NextService == Alone /\ ServiceInv /\ [Next]_vars => [Service!Next]_Service!vars
<1> SUFFICES ASSUME Alone, ServiceInv, [Next]_vars
             PROVE  Service!Next \/ UNCHANGED Service!vars
  OBVIOUS
<1>0. /\ AloneInv /\ TypeOK /\ HandlerInv /\ ProgramInv /\ OrphanInv /\ DirsInv
      /\ AloneInv' /\ TypeOK'
      /\ \A b \in Dev : Recorded(b)'
  BY StepAlone, StepRecord DEF ServiceInv, AloneInv, OpenInv
<1> USE DEF servicePhase, serviceCall, serviceAnswer
<1>1. ASSUME NEW b \in Dev, Mount(b) PROVE Service!Next
  <2>1. CASE reply' = "none"
    <3> DEFINE c == [op |-> "Mount", dev |-> b]
    <3>1. c \in Service!Calls
      BY DEF Service!Calls
    <3>2. mountPoints[b] = {} /\ pc = "idle" /\ pc' = "createMountPoint" /\ cur' = b
          /\ UNCHANGED <<mtab, mountPoints>>
      BY <1>1, <2>1 DEF Mount, refusal, kernelVars
    <3>3. serviceCall' = {c}
      BY <3>2 DEF mounting
    <3>4. Service!Accept(c)
      BY <2>1, <3>2, <3>3 DEF Service!Accept
    <3> QED
      BY <3>1, <3>4 DEF Service!Next
  <2>2. CASE reply' # "none"
    <3>1. reply' \in {"Failed", "AlreadyMounted"} /\ pc = "idle"
          /\ UNCHANGED <<pc, cur, exitCode, orphan, mtab, mountPoints>>
      BY <1>1, <2>2 DEF Mount, refusal, kernelVars
    <3> QED
      BY <3>1 DEF Service!Next, Service!Refuse
  <2> QED
    BY <2>1, <2>2
<1>2. ASSUME NEW b \in Dev, Unmount(b) PROVE Service!Next
  <2>1. CASE mountPoints[b] # {}
    <3> DEFINE c == [op |-> "Unmount", dev |-> b]
    <3>1. c \in Service!Calls
      BY DEF Service!Calls
    <3>2. pc = "idle" /\ pc' = "umount" /\ cur' = b /\ reply' = "none"
          /\ UNCHANGED <<mtab, mountPoints>>
      BY <1>2, <2>1 DEF Unmount, kernelVars
    <3>3. serviceCall' = {c}
      BY <3>2 DEF mounting
    <3>4. Service!Accept(c)
      BY <2>1, <3>2, <3>3 DEF Service!Accept
    <3> QED
      BY <3>1, <3>4 DEF Service!Next
  <2>2. CASE mountPoints[b] = {}
    <3>1. reply' = "NotMounted" /\ pc = "idle"
          /\ UNCHANGED <<pc, cur, exitCode, orphan, mtab, mountPoints>>
      BY <1>2, <2>2 DEF Unmount, kernelVars
    <3> QED
      BY <3>1 DEF Service!Next, Service!Refuse
  <2> QED
    BY <2>1, <2>2
<1>3. ASSUME NEW b \in Dev, Replug(b) PROVE UNCHANGED Service!vars
  <2>1. pc = "idle" /\ UNCHANGED <<pc, cur, exitCode, reply, orphan, mtab>>
    BY <1>3 DEF Replug, kernelVars
  <2>2. mountPoints' = mountPoints
    BY <1>0, <1>3, <2>1, TableIsRead DEF Replug, AloneInv, TypeOK
  <2> QED
    BY <2>1, <2>2, ServiceStutters
<1>4. CASE CreateMountPoint
  <2>1. /\ pc = "createMountPoint" /\ pc' = "mount"
        /\ UNCHANGED <<cur, reply, mtab, mountPoints>>
    BY <1>0, <1>4 DEF CreateMountPoint, DirsInv, isFilesystemSupportedToMount, getMountCommand
  <2> QED
    BY <2>1, ServiceStutters DEF mounting
<1>5. CASE MountDone
  <2>1. pc = "mountDone" /\ pc' = "idle" /\ UNCHANGED mtab
    BY <1>5 DEF MountDone
  <2>2. CASE exitCode = 0
    <3>1. mountPoints' = Service!Actual
      BY <1>0, <2>1, RecordIsActual DEF Recorded
    <3>2. reply' = "ok"
      BY <1>5, <2>2 DEF MountDone
    <3> QED
      BY <2>1, <2>2, <3>1, <3>2 DEF Service!Next, Service!Succeed
  <2>3. CASE exitCode # 0
    <3>1. reply' = "Failed" /\ mountPoints' = mountPoints
      BY <1>5, <2>3 DEF MountDone
    <3> QED
      BY <2>1, <2>3, <3>1 DEF Service!Next, Service!Fail
  <2> QED
    BY <2>2, <2>3
<1>6. CASE UmountDone
  <2>1. /\ pc = "umountDone" /\ pc' = "idle" /\ UNCHANGED mtab
        /\ rest = {} /\ reply = "none"
    BY <1>0, <1>6 DEF UmountDone, mountIt, HandlerInv
  <2>2. CASE exitCode = 0
    <3>1. mountPoints' = Service!Actual
      BY <1>0, <2>1, RecordIsActual DEF Recorded
    <3>2. reply' = "ok"
      BY <1>6, <2>1, <2>2 DEF UmountDone
    <3> QED
      BY <2>1, <2>2, <3>1, <3>2 DEF Service!Next, Service!Succeed
  <2>3. CASE exitCode # 0
    <3>1. reply' = "Failed" /\ mountPoints' = mountPoints
      BY <1>6, <2>1, <2>3 DEF UmountDone
    <3> QED
      BY <2>1, <2>3, <3>1 DEF Service!Next, Service!Fail
  <2> QED
    BY <2>2, <2>3
<1>7. CASE MountSucceeds
  <2> DEFINE c == [op |-> "Mount", dev |-> cur]
  <2>1. /\ pc = "mount" /\ pc' = "mountDone" /\ exitCode' = 0
        /\ UNCHANGED <<cur, mountPoints, reply>>
        /\ mtab' = [mtab EXCEPT ![cur] = dir] /\ dir # NoDir
    BY <1>7 DEF MountSucceeds, mountProgram
  <2>2. mtab[cur] = NoDir /\ dir \in Dir /\ \A b \in Dev : mtab[b] # dir
    BY <1>0, <2>1 DEF ProgramInv, TypeOK, Mounted
  <2>3. serviceCall = {c} /\ serviceCall' = {c}
    BY <2>1 DEF mounting
  <2>4. Service!Effect(c)
    BY <2>1, <2>2 DEF Service!Effect
  <2>5. Service!Work
    BY <2>1, <2>3, <2>4 DEF Service!Work
  <2> QED
    BY <2>5 DEF Service!Next
<1>8. CASE UmountSucceeds
  <2> DEFINE c == [op |-> "Unmount", dev |-> cur]
  <2>1. /\ pc = "umount" /\ pc' = "umountDone" /\ exitCode' = 0
        /\ UNCHANGED <<cur, mountPoints, reply>>
    BY <1>0, <1>8 DEF UmountSucceeds, AloneInv
  <2>2. mtab' = [mtab EXCEPT ![cur] = NoDir] /\ mtab[cur] # NoDir
    BY <1>0, <1>8, <2>1, KernelSteps DEF MountSucceeds, ProgramInv
  <2>3. serviceCall = {c} /\ serviceCall' = {c}
    BY <2>1 DEF mounting
  <2>4. Service!Effect(c)
    BY <2>2 DEF Service!Effect
  <2>5. Service!Work
    BY <2>1, <2>3, <2>4 DEF Service!Work
  <2> QED
    BY <2>5 DEF Service!Next
<1>9. CASE MountFails \/ UmountFails
  <2>1. /\ \/ pc = "mount" /\ pc' = "mountDone"
           \/ pc = "umount" /\ pc' = "umountDone"
        /\ exitCode' = 1 /\ UNCHANGED <<cur, mountPoints, reply, mtab>>
    BY <1>9 DEF MountFails, UmountFails, kernelVars
  <2>2. servicePhase = "working" /\ servicePhase' = "working"
    BY <2>1
  <2>3. mounting' = mounting
    BY <2>1 DEF mounting
  <2>4. serviceCall' = serviceCall
    BY <2>1, <2>3
  <2>5. serviceAnswer' = serviceAnswer
    BY <2>1
  <2> QED
    BY <2>1, <2>2, <2>4, <2>5, ServiceStutters
<1>10. CASE Crash
  <2>1. pc # "dead" /\ pc' = "dead" /\ UNCHANGED <<mountPoints, reply, mtab>>
    BY <1>10 DEF Crash
  <2>2. CASE pc \in {"mount", "umount"}
    <3>1. orphan' = {[prog |-> pc, dev |-> cur, dir |-> dir]}
      BY <1>10, <2>2 DEF Crash
    <3>2. serviceCall' = {[op |-> IF pc = "mount" THEN "Mount" ELSE "Unmount", dev |-> cur]}
      BY <2>1, <3>1
    <3>3. serviceCall' = serviceCall
      BY <2>2, <3>2 DEF mounting
    <3> QED
      BY <2>1, <2>2, <3>3 DEF Service!Next, Service!Vanish
  <2>3. CASE pc \notin {"mount", "umount"}
    <3>1. serviceCall' = {}
      BY <1>10, <2>1, <2>3 DEF Crash
    <3> QED
      BY <2>1, <3>1 DEF Service!Next, Service!Vanish
  <2> QED
    BY <2>2, <2>3
<1>11. CASE Restart
  <2>1. /\ pc = "dead" /\ pc' = "idle" /\ orphan = {} /\ reply' = "none"
        /\ UNCHANGED mtab
    BY <1>11 DEF Restart, Alone, kernelVars
  <2>2. mountPoints' = Service!Actual
    BY <1>0, <2>1, RecordIsActual DEF Recorded
  <2> QED
    BY <2>1, <2>2 DEF Service!Next, Service!Return
<1>12. CASE OrphanEnds
  <2>1. /\ pc = "dead" /\ pc' = "dead" /\ orphan' = {}
        /\ UNCHANGED <<mountPoints, reply>>
    BY <1>0, <1>12 DEF OrphanEnds, daemonVars, OrphanInv
  <2>2. \E c \in serviceCall : Service!Effect(c) \/ UNCHANGED mtab
    <3>1. CASE mtab' = mtab
      <4>1. PICK o \in orphan : TRUE
        BY <1>12 DEF OrphanEnds
      <4> QED
        BY <2>1, <3>1, <4>1
    <3>2. CASE mtab' # mtab
      <4>1. PICK o \in orphan :
               \/ /\ o.prog = "mount" /\ o.dir # NoDir /\ ~Mounted(o.dir)
                  /\ mtab' = [mtab EXCEPT ![o.dev] = o.dir]
               \/ /\ o.prog = "umount"
                  /\ mtab' = [mtab EXCEPT ![o.dev] = NoDir]
        BY <1>0, <2>1, <3>2, KernelSteps DEF MountSucceeds, UmountSucceeds
      <4> DEFINE c == [op |-> IF o.prog = "mount" THEN "Mount" ELSE "Unmount", dev |-> o.dev]
      <4>2. c \in serviceCall
        BY <2>1
      <4>3. o.dir \in Dir \/ o.dir = NoDir
        BY <1>0 DEF TypeOK
      <4>4. Service!Effect(c)
        BY <1>0, <4>1, <4>3 DEF Service!Effect, OrphanInv, Mounted
      <4> QED
        BY <4>2, <4>4
    <3> QED
      BY <3>1, <3>2
  <2> QED
    BY <2>1, <2>2 DEF Service!Next, Service!Late
<1>13. CASE UNCHANGED vars
  BY <1>13, ServiceStutters DEF vars, daemonVars, kernelVars, mounting
<1>14. ~ProgramNotStarted /\ ~OthersUmount /\ ~OthersMount /\ ~OthersWrite
  BY DEF Alone, ProgramNotStarted, OthersUmount, OthersMount, OthersWrite
<1> QED
  BY <1>1, <1>2, <1>3, <1>4, <1>5, <1>6, <1>7, <1>8, <1>9, <1>10, <1>11, <1>12, <1>13,
     <1>14 DEF Next, Handler, Program

(* What callers may rely on: an answer of success means that the effect is *)
(* there, an error that it is not, partitions have directories of their    *)
(* own, and a restart reads the truth back (Mount, Unmount,                *)
(* createMountPoint, createFilesystem), as long as nobody else mounts,     *)
(* programs start and getmntinfo answers.                                  *)
THEOREM ImplementsServiceSafety ==
  ASSUME Alone
  PROVE  Spec => Service!MountSafety
<1>1. Init => ServiceInv
  BY InitAlone, BlockFilesystemAssumption DEF Init, DirsInv, Dir, ServiceInv
<1>2. ServiceInv /\ [Next]_vars => ServiceInv'
  BY StepAlone, StepDirs DEF ServiceInv
<1>3. ServiceInv /\ [Next]_vars => [Service!Next]_Service!vars
  BY NextService
<1> QED
  BY InitService, <1>1, <1>2, <1>3, PTL DEF Spec, Service!MountSafety
=============================================================================
