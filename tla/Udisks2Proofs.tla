--------------------------- MODULE Udisks2Proofs ---------------------------
(* Proofs about Udisks2, for every set of callers and disks.               *)
EXTENDS Udisks2, BusProtocolProofs, SequenceTheorems, WellFoundedInduction

-----------------------------------------------------------------------------
(* Taking calls off the queue.                                             *)

(* The calls of the first n events that are left when those of S are taken *)
(* out (QCoreApplication::removePostedEvents).                             *)
KeptOf(S, keep, n) ==
  /\ keep \in [0 .. n -> Seq(Caller \cup {"tick"})]
  /\ keep[0] = <<>>
  /\ \A i \in 1 .. n :
       keep[i] = IF queue[i] \in S THEN keep[i - 1] ELSE Append(keep[i - 1], queue[i])

(* A set of numbers has a smallest.                                        *)
LEMMA Smallest ==
  ASSUME NEW C \in SUBSET Nat, C # {}
  PROVE  \E n \in C : \A k \in C : n <= k
<1>1. PICK n \in C : \A k \in C : ~(<<k, n>> \in OpToRel(<, Nat))
  BY WFMin, NatLessThanWellFounded
<1>2. \A k \in C : ~(k < n)
  BY <1>1 DEF OpToRel
<1> QED
  BY <1>2

(* The events can be gone through one by one, from the first to the last.  *)
LEMMA KeptExists ==
  ASSUME queue \in Seq(Caller \cup {"tick"}), NEW S
  PROVE  \E keep : KeptOf(S, keep, Len(queue))
<1> DEFINE C == {n \in 0 .. Len(queue) : ~\E keep : KeptOf(S, keep, n)}
<1>1. SUFFICES C = {}
  BY <1>1, LenProperties
<1>2. SUFFICES ASSUME C # {} PROVE FALSE
  OBVIOUS
<1>3. C \in SUBSET Nat
  BY LenProperties
<1>4. PICK n \in C : \A k \in C : n <= k
  BY <1>2, <1>3, Smallest
<1>5. KeptOf(S, [i \in 0 .. 0 |-> <<>>], 0)
  BY EmptySeq DEF KeptOf
<1>6. n \in 1 .. Len(queue)
  BY <1>4, <1>5, LenProperties
<1>7. n - 1 \in 0 .. Len(queue) /\ n - 1 \notin C
  BY <1>4, <1>6, LenProperties
<1>8. PICK keep : KeptOf(S, keep, n - 1)
  BY <1>7
<1> DEFINE last == IF queue[n] \in S THEN keep[n - 1] ELSE Append(keep[n - 1], queue[n])
           more == [i \in 0 .. n |-> IF i = n THEN last ELSE keep[i]]
<1>9. last \in Seq(Caller \cup {"tick"})
  BY <1>6, <1>8, ElementOfSeq, AppendProperties DEF KeptOf
<1>10. KeptOf(S, more, n)
  <2>1. n \in Nat \ {0} /\ n - 1 \in Nat /\ 0 \in 0 .. n - 1
    BY <1>6
  <2>2. /\ keep \in [0 .. n - 1 -> Seq(Caller \cup {"tick"})]
        /\ keep[0] = <<>>
        /\ \A i \in 1 .. n - 1 :
             keep[i] = IF queue[i] \in S THEN keep[i - 1] ELSE Append(keep[i - 1], queue[i])
    BY <1>8 DEF KeptOf
  <2> HIDE DEF last
  <2>3. more \in [0 .. n -> Seq(Caller \cup {"tick"})]
    BY <1>9, <2>1, <2>2
  <2>4. \A i \in 0 .. n - 1 : more[i] = keep[i]
    BY <2>1
  <2>5. more[n] = last
    BY <2>1
  <2> HIDE DEF more
  <2>6. \A i \in 1 .. n :
          more[i] = IF queue[i] \in S THEN more[i - 1] ELSE Append(more[i - 1], queue[i])
    <3> SUFFICES ASSUME NEW i \in 1 .. n
                 PROVE  more[i] = IF queue[i] \in S THEN more[i - 1]
                                  ELSE Append(more[i - 1], queue[i])
      OBVIOUS
    <3>1. more[i - 1] = keep[i - 1]
      BY <2>1, <2>4
    <3>2. CASE i = n
      BY <2>5, <3>1, <3>2 DEF last
    <3>3. CASE i # n
      <4>1. i \in 1 .. n - 1 /\ i \in 0 .. n - 1
        BY <2>1, <3>3
      <4> QED
        BY <2>2, <2>4, <3>1, <4>1
    <3> QED
      BY <3>2, <3>3
  <2> QED
    BY <2>1, <2>2, <2>3, <2>4, <2>6 DEF KeptOf
<1> QED
  BY <1>4, <1>10

(* What removePosted leaves.                                               *)
LEMMA RemovePostedKeeps ==
  ASSUME queue \in Seq(Caller \cup {"tick"}), NEW S
  PROVE  \E keep : KeptOf(S, keep, Len(queue)) /\ removePosted(S) = keep[Len(queue)]
<1> DEFINE n == Len(queue)
           step(k) == [i \in 0 .. n |-> IF i = 0 THEN <<>>
                                        ELSE IF queue[i] \in S THEN k[i - 1]
                                        ELSE Append(k[i - 1], queue[i])]
           kept == CHOOSE k : k = step(k)
<1>1. n \in Nat
  BY LenProperties
<1>2. \E k : k = step(k)
  <2>1. PICK k : KeptOf(S, k, n)
    BY KeptExists
  <2> HIDE DEF n
  <2>2. k = [i \in 0 .. n |-> k[i]]
    BY <2>1 DEF KeptOf
  <2>3. \A i \in 0 .. n : k[i] = step(k)[i]
    <3> SUFFICES ASSUME NEW i \in 0 .. n PROVE k[i] = step(k)[i]
      OBVIOUS
    <3>1. CASE i = 0
      BY <1>1, <2>1, <3>1 DEF KeptOf
    <3>2. CASE i # 0
      <4>1. i \in 1 .. n
        BY <1>1, <3>2
      <4> QED
        BY <2>1, <3>2, <4>1 DEF KeptOf
    <3> QED
      BY <3>1, <3>2
  <2>4. k = step(k)
    BY <2>2, <2>3
  <2> QED
    BY <2>4
<1>3. kept = step(kept)
  BY <1>2
<1>4. removePosted(S) = kept[n]
  BY DEF removePosted
<1>5. KeptOf(S, kept, n)
  <2>1. /\ DOMAIN kept = 0 .. n
        /\ kept[0] = <<>>
        /\ \A i \in 1 .. n :
             kept[i] = IF queue[i] \in S THEN kept[i - 1] ELSE Append(kept[i - 1], queue[i])
    <3> HIDE DEF kept, n
    <3>1. DOMAIN kept = 0 .. n
      BY <1>3
    <3>2. \A i \in 0 .. n :
            kept[i] = IF i = 0 THEN <<>>
                      ELSE IF queue[i] \in S THEN kept[i - 1] ELSE Append(kept[i - 1], queue[i])
      BY <1>3, Zenon
    <3>3. kept[0] = <<>>
      BY <1>1, <3>2
    <3>4. \A i \in 1 .. n : i \in 0 .. n /\ i # 0
      BY <1>1
    <3> QED
      BY <3>1, <3>2, <3>3, <3>4
  <2> HIDE DEF kept
  <2> DEFINE C == {i \in 0 .. n : kept[i] \notin Seq(Caller \cup {"tick"})}
  <2>0. \A i \in 1 .. n : queue[i] \in Caller \cup {"tick"}
    BY ElementOfSeq
  <2>2. C = {}
    <3> HIDE DEF n
    <3> SUFFICES ASSUME C # {} PROVE FALSE
      OBVIOUS
    <3>0. C \in SUBSET Nat
      BY <1>1
    <3>1. PICK i \in C : \A k \in C : i <= k
      <4> HIDE DEF C
      <4> QED
        BY <3>0, Smallest
    <3>2. i \in 1 .. n
      <4>1. 0 \notin C
        BY <2>1, EmptySeq
      <4> QED
        BY <1>1, <3>1, <4>1
    <3>3. i - 1 \in 0 .. n /\ i - 1 \notin C
      BY <1>1, <3>1, <3>2
    <3>4. kept[i - 1] \in Seq(Caller \cup {"tick"})
      BY <3>3
    <3> QED
      <4>1. kept[i] \in Seq(Caller \cup {"tick"})
        <5>1. CASE queue[i] \in S
          BY <2>1, <3>2, <3>4, <5>1
        <5>2. CASE queue[i] \notin S
          <6>1. queue[i] \in Caller \cup {"tick"}
            BY <2>0, <3>2
          <6>2. Append(kept[i - 1], queue[i]) \in Seq(Caller \cup {"tick"})
            BY <3>4, <6>1, AppendProperties
          <6>3. kept[i] = Append(kept[i - 1], queue[i])
            BY <2>1, <3>2, <5>2
          <6> QED
            BY <6>2, <6>3
        <5> QED
          BY <5>1, <5>2
      <4> QED
        BY <3>1, <4>1
  <2>3. kept = [i \in 0 .. n |-> kept[i]]
    BY <1>3
  <2>4. kept \in [0 .. n -> Seq(Caller \cup {"tick"})]
    BY <2>2, <2>3
  <2> QED
    BY <2>1, <2>4 DEF KeptOf
<1> HIDE DEF kept
<1> QED
  BY <1>4, <1>5

(* Posting an event, and delivering the first (QCoreApplication).          *)
LEMMA AppendRange ==
  ASSUME NEW E, NEW q \in Seq(E), NEW e \in E
  PROVE  /\ Append(q, e) \in Seq(E)
         /\ Range(Append(q, e)) = Range(q) \cup {e}
         /\ Once(q) /\ (e \in Caller => e \notin Range(q)) => Once(Append(q, e))
<1> DEFINE r == Append(q, e)
<1>1. /\ r \in Seq(E) /\ Len(q) \in Nat /\ Len(r) = Len(q) + 1
      /\ DOMAIN q = 1 .. Len(q) /\ DOMAIN r = 1 .. Len(q) + 1
      /\ \A i \in 1 .. Len(q) : r[i] = q[i]
      /\ r[Len(q) + 1] = e
  BY AppendProperties, LenProperties
<1> HIDE DEF r
<1>2. Range(r) = Range(q) \cup {e}
  BY <1>1 DEF Range
<1>3. ASSUME Once(q), e \in Caller => e \notin Range(q) PROVE Once(r)
  BY <1>1, <1>3 DEF Once, Range
<1> QED
  BY <1>1, <1>2, <1>3 DEF r

(* The first event, which occurs once, leaves the queue with its tail.     *)
LEMMA TailRange ==
  ASSUME NEW E, NEW q \in Seq(E), q # <<>>
  PROVE  /\ Tail(q) \in Seq(E) /\ Head(q) \in E
         /\ Range(q) = Range(Tail(q)) \cup {Head(q)}
         /\ Once(q) => Once(Tail(q)) /\ (Head(q) \in Caller => Head(q) \notin Range(Tail(q)))
<1> DEFINE r == Tail(q)
<1>1. /\ r \in Seq(E) /\ Head(q) \in E /\ Len(q) \in Nat \ {0} /\ Len(r) = Len(q) - 1
      /\ DOMAIN q = 1 .. Len(q) /\ DOMAIN r = 1 .. Len(q) - 1
      /\ \A i \in 1 .. Len(q) - 1 : r[i] = q[i + 1]
      /\ Head(q) = q[1]
  BY HeadTailProperties, LenProperties, EmptySeq
<1> HIDE DEF r
<1>2. \A i \in 2 .. Len(q) : i - 1 \in 1 .. Len(q) - 1 /\ r[i - 1] = q[i]
  BY <1>1
<1>3. Range(q) = Range(r) \cup {Head(q)}
  <2>1. Range(q) \subseteq Range(r) \cup {Head(q)}
    <3> SUFFICES ASSUME NEW i \in 1 .. Len(q) PROVE q[i] \in Range(r) \cup {Head(q)}
      BY <1>1 DEF Range
    <3>1. CASE i = 1
      BY <1>1, <3>1
    <3>2. CASE i # 1
      <4>1. i \in 2 .. Len(q)
        BY <1>1, <3>2
      <4> QED
        BY <1>1, <1>2, <4>1 DEF Range
    <3> QED
      BY <3>1, <3>2
  <2>2. Range(r) \subseteq Range(q)
    <3>1. \A i \in 1 .. Len(q) - 1 : i + 1 \in DOMAIN q /\ r[i] = q[i + 1]
      BY <1>1
    <3>2. \A i \in DOMAIN r : r[i] \in Range(q)
      BY <1>1, <3>1 DEF Range
    <3> QED
      BY <3>2 DEF Range
  <2>3. Head(q) \in Range(q)
    <3>1. 1 \in DOMAIN q
      BY <1>1
    <3> QED
      BY <1>1, <3>1 DEF Range
  <2> QED
    BY <2>1, <2>2, <2>3
<1>4. ASSUME Once(q) PROVE Once(r) /\ (Head(q) \in Caller => Head(q) \notin Range(r))
  <2>1. \A i \in 1 .. Len(q) - 1 : i + 1 \in DOMAIN q /\ i + 1 # 1 /\ r[i] = q[i + 1]
    BY <1>1
  <2>2. 1 \in DOMAIN q /\ Head(q) = q[1]
    BY <1>1
  <2>3. Head(q) \in Caller => Head(q) \notin Range(r)
    BY <1>1, <1>4, <2>1, <2>2 DEF Once, Range
  <2>4. ASSUME NEW i \in DOMAIN r, NEW j \in DOMAIN r, r[i] \in Caller, r[i] = r[j]
        PROVE  i = j
    <3>1. i + 1 = j + 1
      BY <1>1, <1>4, <2>1, <2>4 DEF Once
    <3> QED
      BY <1>1, <3>1
  <2> QED
    BY <2>3, <2>4 DEF Once
<1> QED
  BY <1>1, <1>3, <1>4 DEF r

(* Taking posted calls out leaves the others, each as often as it was.     *)
LEMMA RemovePosted ==
  ASSUME queue \in Seq(Caller \cup {"tick"}), NEW S
  PROVE  /\ removePosted(S) \in Seq(Caller \cup {"tick"})
         /\ Range(removePosted(S)) = Range(queue) \ S
         /\ Once(queue) => Once(removePosted(S))
<1> DEFINE n == Len(queue)
           E == Caller \cup {"tick"}
<1>1. n \in Nat /\ DOMAIN queue = 1 .. n /\ \A i \in 1 .. n : queue[i] \in E
  BY LenProperties, ElementOfSeq
<1>2. PICK keep : KeptOf(S, keep, n) /\ removePosted(S) = keep[n]
  BY RemovePostedKeeps
<1> HIDE DEF n, E
<1>3. /\ \A i \in 0 .. n : keep[i] \in Seq(E)
      /\ keep[0] = <<>>
      /\ \A i \in 1 .. n :
           keep[i] = IF queue[i] \in S THEN keep[i - 1] ELSE Append(keep[i - 1], queue[i])
  BY <1>2 DEF KeptOf, E
<1> DEFINE Good(i) == /\ Range(keep[i]) = {queue[j] : j \in 1 .. i} \ S
                      /\ Once(queue) => Once(keep[i])
           C == {i \in 0 .. n : ~Good(i)}
<1>4. Good(0)
  BY <1>3, EmptySeq, LenProperties DEF Range, Once
<1>5. ASSUME NEW i \in 1 .. n, Good(i - 1) PROVE Good(i)
  <2>1. i - 1 \in 0 .. n /\ keep[i - 1] \in Seq(E) /\ queue[i] \in E
    BY <1>1, <1>3
  <2>2. {queue[j] : j \in 1 .. i} = {queue[j] : j \in 1 .. i - 1} \cup {queue[i]}
    <3>1. 1 .. i = (1 .. i - 1) \cup {i}
      BY <1>1
    <3> QED
      BY <3>1
  <2>3. CASE queue[i] \in S
    BY <1>3, <1>5, <2>2, <2>3
  <2>4. CASE queue[i] \notin S
    <3>1. keep[i] = Append(keep[i - 1], queue[i])
      BY <1>3, <2>4
    <3>2. Range(keep[i]) = Range(keep[i - 1]) \cup {queue[i]}
      BY <2>1, <3>1, AppendRange
    <3>3. ASSUME Once(queue), queue[i] \in Caller PROVE queue[i] \notin Range(keep[i - 1])
      <4>1. \A j \in 1 .. i - 1 : queue[j] # queue[i]
        BY <1>1, <3>3 DEF Once
      <4> QED
        BY <1>5, <4>1
    <3>4. Once(queue) => Once(keep[i])
      BY <1>5, <2>1, <3>1, <3>3, AppendRange
    <3> QED
      BY <1>5, <2>2, <2>4, <3>2, <3>4
  <2> QED
    BY <2>3, <2>4
<1>6. C = {}
  <2> SUFFICES ASSUME C # {} PROVE FALSE
    OBVIOUS
  <2>1. C \in SUBSET Nat
    BY <1>1
  <2>2. PICK i \in C : \A k \in C : i <= k
    <3> HIDE DEF C
    <3> QED
      BY <2>1, Smallest
  <2>3. i \in 0 .. n /\ ~Good(i)
    BY <2>2
  <2> HIDE DEF Good
  <2>4. i \in 1 .. n
    BY <1>1, <1>4, <2>3
  <2>5. i - 1 \in 0 .. n /\ i - 1 \notin C
    BY <1>1, <2>2, <2>4
  <2>6. Good(i - 1)
    BY <2>5
  <2> QED
    BY <1>5, <2>3, <2>4, <2>6
<1>7. Good(n)
  <2> HIDE DEF Good
  <2> QED
    BY <1>1, <1>6
<1>8. Range(queue) = {queue[j] : j \in 1 .. n}
  BY <1>1 DEF Range
<1>9. removePosted(S) \in Seq(E)
  BY <1>1, <1>2, <1>3
<1> QED
  BY <1>2, <1>7, <1>8, <1>9 DEF E

-----------------------------------------------------------------------------
(* The daemon behind its queue is DiskThread.                              *)

(* Handlers, callers and the other threads leave check() alone, and the    *)
(* queue only delays it (app.exec()).                                      *)
LEMMA SystemSteps == [SystemNext]_systemVars => [Next]_vars
BY DEF SystemNext, systemVars, MainThread, TickDelivered, CheckGoesOn, ReplaceBlock, Die, Dispatch,
       ProgramEnds, Finish, PostTick, Send, Lookup, Others, Environment, Next, Check

(* The safety part of ImplementsDiskThread: every step of the daemon is a  *)
(* step of DiskThread or leaves it alone (run, app.exec()).                *)
THEOREM ImplementsDiskThreadSafety == SystemSpec => Init /\ [][Next]_vars
<1>1. SystemInit => Init
  BY DEF SystemInit
<1> QED
  BY <1>1, SystemSteps, PTL DEF SystemSpec

(* So labels, position in the loops, bus, tree and hashes go together, and *)
(* everything DiskThread promises holds among callers and handlers.        *)
THEOREM SystemInvariance == SystemSpec => []IInv
<1>1. IInv /\ [Next]_vars => IInv'
  BY NextTypeOK, NextControlInv, NextDrivesInv, NextBlocksInv DEF IInv
<1> QED
  BY ImplementsDiskThreadSafety, InitIInv, <1>1, PTL

(* The clients of the whole daemon see the order of signals that           *)
(* BusProtocol describes (addDrive, addBlock, removeDrive, removeBlock).   *)
THEOREM SystemImplementsBusProtocol == SystemSpec => BusProtocolHolds
BY ImplementsDiskThreadSafety, SystemInvariance, InitBus, NextBus, PTL
   DEF BusProtocolHolds, Bus!BusSpec

(* Nor do calls and handlers disturb what check() promises of labels,      *)
(* tree, hashes, CD drives and its list (DiskThread::check).               *)
THEOREM SystemPromises ==
  SystemSpec => /\ [](QuiescentConsistency /\ AnnouncedIsCallable /\ ManagedCoversBus)
                /\ [](BlockUnderDrive /\ CdsArePublished)
                /\ ChecksFollowTheList
<1>1. Init => CdsArePublished
  BY DEF Init, Fresh, OmInit, NoDrives, DriveName, CdsArePublished
<1> QED
  BY ImplementsDiskThreadSafety, SystemInvariance, InvariantImplies, NextCds, NextFollows,
     <1>1, PTL
  DEF ChecksFollowTheList

-----------------------------------------------------------------------------
(* Calls: types and the inductive invariant.                               *)

Answers == {"none", "ok", "error", "UnknownObject", "NoReply"}

(* Answers keep the types, and end the calls of S and no others.           *)
LEMMA ReplyType ==
  ASSUME CallTypeOK, NEW S \in SUBSET Caller, NEW a \in Answers, reply(S, a)
  PROVE  /\ stage' \in [Caller -> {"none", "sent", "queued", "running", "ended"}]
         /\ op' \in [Caller -> {"Mount", "Unmount"}]
         /\ path' \in [Caller -> BlockName]
         /\ answer' \in Answers
         /\ \A c \in S : stage'[c] = "none" /\ answer' = a
         /\ \A c \in Caller \ S : stage'[c] = stage[c] /\ path'[c] = path[c] /\ op'[c] = op[c]
<1>1. NoPath \in BlockName
  BY Udisks2Assumption DEF NoPath
<1> QED
  BY <1>1 DEF CallTypeOK, reply, Answers

(* The steps that change what can be called or what the hash holds.        *)
LEMMA BlockSteps ==
  ASSUME [Next]_vars
  PROVE  \/ UNCHANGED <<blockTree, m_blockObjects>>
         \/ RegisterBlock \/ UnregisterBlock
         \/ \E p \in Letter : AddBlock(p)
         \/ Abort
<1>1. CASE Timeout \/ SysctlLength \/ SysctlNames \/ SysctlFails \/ GetCurrentDev
             \/ ReadPastEnd \/ Restart
             \/ AddDone \/ CompareNames \/ RemoveDevices \/ Hardware \/ UNCHANGED vars
  BY <1>1 DEF vars, omVars, Timeout, SysctlLength, SysctlNames, SysctlFails, GetCurrentDev,
              ReadPastEnd, Restart, AddDone, CompareNames, RemoveDevices, Hardware
<1>2. ASSUME NEW n, CdHandler(n) \/ CdInterfacesAdded(n) \/ AddNewDevices(n) \/ RemoveDrive(n)
      PROVE  UNCHANGED <<blockTree, m_blockObjects>>
  BY <1>2 DEF omVars, CdHandler, CdInterfacesAdded, AddNewDevices, RemoveDrive, addDrive,
              driveInterfacesAdded
<1>3. ASSUME NEW p, RemoveBlock(p) PROVE UNCHANGED <<blockTree, m_blockObjects>>
  BY <1>3 DEF RemoveBlock, blockInterfacesRemoved
<1>4. CASE DriveInterfacesAdded \/ DriveInterfacesRemoved \/ UnregisterDrive
  BY <1>4 DEF DriveInterfacesAdded, driveInterfacesAdded, DriveInterfacesRemoved,
              driveInterfacesRemoved, UnregisterDrive, unregisterDrive
<1> QED
  BY <1>1, <1>2, <1>3, <1>4 DEF Next, Check, ReadLabel, Proceed

TreeInHash == \A b \in BlockName : blockTree[b] # NoMedium => m_blockObjects[b] # NoMedium

(* A block is put into the hash before it can be called, and the hash lets *)
(* go of nothing while the process lives (registerBlock, addBlock).        *)
LEMMA NextHash ==
  ASSUME IInv, TreeInHash, [Next]_vars
  PROVE  /\ TreeInHash'
         /\ \/ \A b \in BlockName : m_blockObjects[b] # NoMedium => m_blockObjects'[b] # NoMedium
            \/ Abort
<1> USE DEF TreeInHash, IInv, TypeOK, OmTypeOK
<1>1. CASE UNCHANGED <<blockTree, m_blockObjects>>
  BY <1>1
<1>2. CASE RegisterBlock
  <2>1. /\ cur \in DiskName /\ blk \in Letter /\ diskLabels[cur] # NoMedium
        /\ m_blockObjects[<<cur, blk>>] = diskLabels[cur]
    BY <1>2, PartitionsType
       DEF RegisterBlock, ControlInv, BlocksInv, Announced, adding, Labels
  <2>2. /\ m_blockObjects' = m_blockObjects
        /\ \A b \in BlockName : b # <<cur, blk>> => blockTree'[b] = blockTree[b]
    BY <1>2 DEF RegisterBlock, registerBlock, registerObject
  <2> QED
    BY <2>1, <2>2
<1>3. CASE UnregisterBlock
  BY <1>3 DEF UnregisterBlock, unregisterBlock, unregisterObject
<1>4. ASSUME NEW p \in Letter, AddBlock(p)
      PROVE  /\ blockTree' = blockTree
             /\ \A b \in BlockName : m_blockObjects[b] # NoMedium => m_blockObjects'[b] # NoMedium
  BY <1>4 DEF AddBlock, addBlock, insertBlock, ControlInv, adding, Labels
<1>5. CASE Abort
  BY <1>5 DEF Abort, omExit, NoBlocks
<1> QED
  BY <1>1, <1>2, <1>3, <1>4, <1>5, BlockSteps

(* check() is at work in its steps.                                        *)
LEMMA CheckAtWork ==
  ASSUME ReadLabel \/ Proceed \/ (\E p \in Letter : AddBlock(p)) \/ Abort
  PROVE  pc # "idle"
BY DEF ReadLabel, Proceed, AddBlock, Abort, CdHandler,
       CdInterfacesAdded, SysctlLength, SysctlNames, SysctlFails, GetCurrentDev, ReadPastEnd,
       AddNewDevices,
       DriveInterfacesAdded, RegisterBlock, AddDone, CompareNames, RemoveDrive, RemoveBlock,
       UnregisterBlock, DriveInterfacesRemoved, UnregisterDrive, RemoveDevices

(* Every step of callers, handlers, timer and check() keeps the types.     *)
LEMMA NextCallTypeOK == IInv /\ CallTypeOK /\ [SystemNext]_systemVars => CallTypeOK'
<1> SUFFICES ASSUME IInv, CallTypeOK, [SystemNext]_systemVars PROVE CallTypeOK'
  OBVIOUS
<1> USE DEF Answers
<1>1. CASE PostTick
  <2>1. queue' \in Seq(Caller \cup {"tick"})
    BY <1>1, AppendRange DEF PostTick, CallTypeOK
  <2> QED
    BY <1>1, <2>1 DEF PostTick, CallTypeOK, mountVars
<1>2. ASSUME NEW c \in Caller, Send(c) PROVE CallTypeOK'
  BY <1>2 DEF Send, CallTypeOK, mountVars
<1>3. ASSUME NEW c \in Caller, Lookup(c) PROVE CallTypeOK'
  <2>1. CASE blockTree[path[c]] # NoMedium
    <3>1. /\ queue' = Append(queue, c) /\ stage' = [stage EXCEPT ![c] = "queued"]
          /\ UNCHANGED <<op, path, answer, dangling, mountVars>>
      BY <1>3, <2>1 DEF Lookup
    <3>2. queue' \in Seq(Caller \cup {"tick"})
      BY <3>1, AppendRange DEF CallTypeOK
    <3> QED
      BY <3>1, <3>2 DEF CallTypeOK, mountVars
  <2>2. CASE blockTree[path[c]] = NoMedium
    <3>1. reply({c}, "UnknownObject") /\ UNCHANGED <<queue, dangling, mountVars>>
      BY <1>3, <2>2 DEF Lookup
    <3> QED
      BY <3>1, ReplyType DEF CallTypeOK, mountVars
  <2> QED
    BY <2>1, <2>2
<1>4. ASSUME NEW c \in Caller, Dispatch(c) PROVE CallTypeOK'
  <2>1. queue' \in Seq(Caller \cup {"tick"}) /\ UNCHANGED <<dangling, mountVars>>
    BY <1>4, TailRange DEF Dispatch, take, CallTypeOK
  <2>2. CASE refused(c)
    <3>1. reply({c}, "error")
      BY <1>4, <2>2 DEF Dispatch
    <3> QED
      BY <2>1, <3>1, ReplyType DEF CallTypeOK, mountVars
  <2>3. CASE ~refused(c)
    BY <1>4, <2>1, <2>3 DEF Dispatch, CallTypeOK, mountVars
  <2> QED
    BY <2>2, <2>3
<1>5. ASSUME NEW c \in Caller, Finish(c) PROVE CallTypeOK'
  <2>1. PICK a \in {"ok", "error"} : reply({c}, a)
    BY <1>5 DEF Finish
  <2>2. /\ mountPoints' \in [BlockName -> BOOLEAN] /\ exitCode' = 0
        /\ UNCHANGED <<queue, dangling, mtab, disturbed>>
    BY <1>5 DEF Finish, CallTypeOK
  <2> QED
    BY <2>1, <2>2, ReplyType DEF CallTypeOK
<1>6. CASE TickDelivered
  <2>1. queue' \in Seq(Caller \cup {"tick"})
    BY <1>6, TailRange DEF TickDelivered, take, CallTypeOK
  <2> QED
    BY <1>6, <2>1 DEF TickDelivered, CallTypeOK, mountVars
<1>7. CASE CheckGoesOn \/ Environment \/ UNCHANGED systemVars
  BY <1>7 DEF CheckGoesOn, Environment, systemVars, callVars, mountVars, CallTypeOK
<1>8. ASSUME NEW p \in Letter, ReplaceBlock(p) PROVE CallTypeOK'
  <2> DEFINE dropped == {c \in Caller : stage[c] = "queued" /\ path[c] = <<cur, p>>}
  <2>1. /\ queue' = removePosted(dropped) /\ reply(dropped, "UnknownObject")
        /\ UNCHANGED <<exitCode, mtab>> /\ dangling' \subseteq dangling \cup Caller
        /\ AddBlock(p)
    BY <1>8 DEF ReplaceBlock
  <2>2. queue' \in Seq(Caller \cup {"tick"})
    BY <2>1, RemovePosted DEF CallTypeOK
  <2>3. cur \in DiskName
    BY <2>1 DEF AddBlock, IInv, ControlInv, adding
  <2>4. <<cur, p>> \in BlockName
    BY <2>3 DEF BlockName
  <2>5. PICK readable \in BOOLEAN :
          /\ mountPoints' = [mountPoints EXCEPT ![<<cur, p>>] = readable /\ mtab[<<cur, p>>]]
          /\ disturbed' = IF readable THEN disturbed \ {<<cur, p>>}
                                      ELSE disturbed \cup {<<cur, p>>}
    BY <1>8 DEF ReplaceBlock, createFilesystem
  <2>6. mountPoints' \in [BlockName -> BOOLEAN] /\ disturbed' \subseteq BlockName
    BY <2>4, <2>5 DEF CallTypeOK
  <2> QED
    BY <2>1, <2>2, <2>6, ReplyType DEF CallTypeOK
<1>9. CASE Die
  <2>1. PICK lost \in SUBSET {c \in Caller : stage[c] = "sent"} :
          reply(lost \cup {c \in Caller : stage[c] = "queued"}, "NoReply")
    BY <1>9 DEF Die
  <2>2. /\ queue' \in Seq(Caller \cup {"tick"}) /\ UNCHANGED <<exitCode, mtab>>
        /\ mountPoints' \in [BlockName -> BOOLEAN] /\ dangling' = {} /\ disturbed' = {}
    BY <1>9, EmptySeq DEF Die
  <2> QED
    BY <2>1, <2>2, ReplyType DEF CallTypeOK
<1>10. ASSUME NEW c \in Caller, ProgramEnds(c) PROVE CallTypeOK'
  <2>1. /\ stage' \in [Caller -> {"none", "sent", "queued", "running", "ended"}]
        /\ exitCode' \in {0, 1} /\ mtab' \in [BlockName -> BOOLEAN]
        /\ disturbed' \subseteq BlockName
    BY <1>10 DEF ProgramEnds, CallTypeOK
  <2> QED
    BY <1>10, <2>1 DEF ProgramEnds, CallTypeOK
<1>11. ASSUME NEW b \in BlockName, Others(b) PROVE CallTypeOK'
  BY <1>11 DEF Others, CallTypeOK, callVars
<1> QED
  BY <1>1, <1>2, <1>3, <1>4, <1>5, <1>6, <1>7, <1>8, <1>9, <1>10, <1>11 DEF SystemNext, MainThread

(* One handler at a time and never during a check; a call waits in the     *)
(* queue while it is queued and has its object (app.exec(), addBlock).     *)
LEMMA NextCallInv ==
  IInv /\ CallTypeOK /\ CallInv /\ [SystemNext]_systemVars => CallInv'
<1> SUFFICES ASSUME IInv, CallTypeOK, CallInv, [SystemNext]_systemVars PROVE CallInv'
  OBVIOUS
<1>0. /\ TreeInHash'
      /\ \/ \A b \in BlockName : m_blockObjects[b] # NoMedium => m_blockObjects'[b] # NoMedium
         \/ Abort
  <2>1. TreeInHash
    BY DEF CallInv, TreeInHash
  <2> QED
    BY <2>1, SystemSteps, NextHash
<1>t. /\ queue \in Seq(Caller \cup {"tick"}) /\ "tick" \notin Caller
      /\ \A c \in Caller : path[c] \in BlockName
      /\ stage \in [Caller -> {"none", "sent", "queued", "running", "ended"}]
      /\ dangling \subseteq Caller
  BY Udisks2Assumption DEF CallTypeOK
<1> USE DEF Answers
<1>1. CASE PostTick
  <2>1. /\ Range(queue') = Range(queue) \cup {"tick"} /\ Once(queue')
        /\ UNCHANGED <<stage, path, dangling, pc, m_blockObjects>>
    BY <1>1, <1>t, AppendRange DEF PostTick, CallInv, vars, omVars, checkVars
  <2> QED
    BY <1>0, <1>t, <2>1 DEF CallInv, TreeInHash
<1>2. ASSUME NEW c \in Caller, Send(c) PROVE CallInv'
  BY <1>0, <1>t, <1>2
     DEF Send, CallInv, TreeInHash, vars, omVars, checkVars, Once
<1>3. ASSUME NEW c \in Caller, Lookup(c) PROVE CallInv'
  <2>0. /\ UNCHANGED <<pc, m_blockObjects, blockTree, dangling>>
        /\ stage[c] = "sent" /\ c \notin Range(queue) /\ c \notin dangling
    BY <1>3 DEF Lookup, vars, omVars, checkVars, CallInv
  <2>1. CASE blockTree[path[c]] # NoMedium
    <3>0. /\ queue' = Append(queue, c)
          /\ stage' = [stage EXCEPT ![c] = "queued"] /\ path' = path
      BY <1>3, <2>1 DEF Lookup
    <3>1. Range(queue') = Range(queue) \cup {c} /\ Once(queue')
      BY <1>t, <2>0, <3>0, AppendRange DEF CallInv
    <3>2. m_blockObjects[path[c]] # NoMedium
      BY <1>t, <2>1 DEF CallInv
    <3> QED
      BY <1>0, <1>t, <2>0, <3>0, <3>1, <3>2 DEF CallInv, TreeInHash
  <2>2. CASE blockTree[path[c]] = NoMedium
    <3>1. reply({c}, "UnknownObject") /\ queue' = queue
      BY <1>3, <2>2 DEF Lookup
    <3>2. /\ stage'[c] = "none"
          /\ \A d \in Caller \ {c} : stage'[d] = stage[d] /\ path'[d] = path[d]
      BY <3>1, ReplyType
    <3> QED
      BY <1>0, <1>t, <2>0, <3>1, <3>2 DEF CallInv, TreeInHash
  <2> QED
    BY <2>1, <2>2
<1>4. ASSUME NEW c \in Caller, Dispatch(c) PROVE CallInv'
  <2>1. /\ UNCHANGED <<pc, m_blockObjects, dangling>> /\ pc = "idle"
        /\ \A d \in Caller : stage[d] \notin {"running", "ended"}
    BY <1>4 DEF Dispatch, vars, omVars, checkVars, busy
  <2>2. /\ Once(queue') /\ c \notin Range(queue') /\ Range(queue) = Range(queue') \cup {c}
    BY <1>4, <1>t, TailRange DEF Dispatch, take, CallInv
  <2>3. stage[c] = "queued"
    BY <2>2 DEF CallInv
  <2>4. CASE refused(c)
    <3>1. reply({c}, "error")
      BY <1>4, <2>4 DEF Dispatch
    <3>2. /\ stage'[c] = "none"
          /\ \A d \in Caller \ {c} : stage'[d] = stage[d] /\ path'[d] = path[d]
      BY <3>1, ReplyType
    <3> QED
      BY <1>0, <1>t, <2>1, <2>2, <2>3, <3>2 DEF CallInv, TreeInHash
  <2>5. CASE ~refused(c)
    <3>1. stage' = [stage EXCEPT ![c] = "running"] /\ path' = path
      BY <1>4, <2>5 DEF Dispatch
    <3>2. \A d \in Caller : /\ path'[d] = path[d]
                             /\ stage'[d] = IF d = c THEN "running" ELSE stage[d]
      BY <1>t, <3>1
    <3> QED
      BY <1>0, <1>t, <2>1, <2>2, <2>3, <3>2 DEF CallInv, TreeInHash
  <2> QED
    BY <2>4, <2>5
<1>5. ASSUME NEW c \in Caller, Finish(c) PROVE CallInv'
  <2>1. PICK a \in {"ok", "error"} : reply({c}, a)
    BY <1>5 DEF Finish
  <2>2. UNCHANGED <<queue, pc, m_blockObjects, dangling>> /\ stage[c] = "ended"
    BY <1>5 DEF Finish, vars, omVars, checkVars
  <2>3. /\ stage'[c] = "none"
        /\ \A d \in Caller \ {c} : stage'[d] = stage[d] /\ path'[d] = path[d]
    BY <2>1, ReplyType
  <2> QED
    BY <1>0, <1>t, <2>2, <2>3 DEF CallInv, TreeInHash
<1>6. CASE TickDelivered
  <2>1. /\ Range(queue) = Range(queue') \cup {"tick"} /\ Once(queue')
        /\ UNCHANGED <<stage, path, m_blockObjects, dangling>>
        /\ \A d \in Caller : stage[d] \notin {"running", "ended"}
    BY <1>6, <1>t, TailRange DEF TickDelivered, take, busy, Timeout, omVars, CallInv
  <2> QED
    BY <1>0, <1>t, <2>1 DEF CallInv, TreeInHash
<1>7. CASE CheckGoesOn
  <2>1. \A c \in Caller : stage[c] \notin {"running", "ended"}
    BY <1>7, CheckAtWork DEF CheckGoesOn, CallInv
  <2>2. ~Abort
    BY <1>7 DEF CheckGoesOn, Abort, ReadLabel, Proceed, CdHandler,
       CdInterfacesAdded, SysctlLength, SysctlNames, SysctlFails, GetCurrentDev, ReadPastEnd,
       AddNewDevices,
       DriveInterfacesAdded, RegisterBlock, AddDone, CompareNames, RemoveDrive, RemoveBlock,
       UnregisterBlock, DriveInterfacesRemoved, UnregisterDrive, RemoveDevices
  <2> QED
    BY <1>0, <1>7, <1>t, <2>1, <2>2
       DEF CheckGoesOn, CallInv, TreeInHash
<1>8. ASSUME NEW p \in Letter, ReplaceBlock(p) PROVE CallInv'
  <2> DEFINE dropped == {c \in Caller : stage[c] = "queued" /\ path[c] = <<cur, p>>}
  <2>1. /\ queue' = removePosted(dropped) /\ reply(dropped, "UnknownObject") /\ AddBlock(p)
    BY <1>8 DEF ReplaceBlock
  <2>2. Range(queue') = Range(queue) \ dropped /\ Once(queue')
    BY <1>t, <2>1, RemovePosted DEF CallInv
  <2>3. \A c \in Caller : stage[c] \notin {"running", "ended"}
    BY <2>1, CheckAtWork DEF CallInv
  <2>4. ~Abort
    BY <2>1 DEF AddBlock, Abort
  <2>5. /\ \A c \in dropped : stage'[c] = "none"
        /\ \A c \in Caller \ dropped : stage'[c] = stage[c] /\ path'[c] = path[c]
    BY <2>1, ReplyType
  <2>6. dangling' = dangling \cup dropped
    BY <1>8, <1>t, <2>3 DEF ReplaceBlock
  <2> QED
    BY <1>0, <1>t, <2>2, <2>3, <2>4, <2>5, <2>6 DEF CallInv, TreeInHash
<1>9. CASE Die
  <2>1. PICK lost \in SUBSET {c \in Caller : stage[c] = "sent"} :
          reply(lost \cup {c \in Caller : stage[c] = "queued"}, "NoReply")
    BY <1>9 DEF Die
  <2>2. \A c \in Caller : stage[c] \notin {"running", "ended"}
    BY <1>9, CheckAtWork DEF Die, CallInv
  <2>3. \A c \in Caller : stage'[c] \in {"none", "sent"}
    BY <1>t, <2>1, <2>2, ReplyType
  <2>4. Range(queue') = {} /\ Once(queue') /\ dangling' = {}
    BY <1>9 DEF Die, Range, Once
  <2> QED
    BY <1>0, <2>3, <2>4 DEF CallInv, TreeInHash
<1>10. CASE Environment \/ UNCHANGED systemVars
  <2>1. /\ UNCHANGED <<queue, stage, path, m_blockObjects, dangling>>
        /\ pc = "idle" => pc' = "idle"
    BY <1>10 DEF Environment, Hardware, Restart, systemVars, callVars, vars, omVars, checkVars
  <2> QED
    BY <1>0, <2>1 DEF CallInv, TreeInHash
<1>11. ASSUME NEW c \in Caller, ProgramEnds(c) PROVE CallInv'
  <2>1. /\ stage[c] = "running"
        /\ \A d \in Caller : stage'[d] = IF d = c THEN "ended" ELSE stage[d]
        /\ UNCHANGED <<queue, path, pc, m_blockObjects, dangling>>
    BY <1>t, <1>11 DEF ProgramEnds, vars, omVars, checkVars
  <2> QED
    BY <1>0, <1>t, <2>1 DEF CallInv, TreeInHash
<1>12. ASSUME NEW b \in BlockName, Others(b) PROVE CallInv'
  <2>1. UNCHANGED <<queue, stage, path, pc, m_blockObjects, dangling>>
    BY <1>12 DEF Others, callVars, vars, omVars, checkVars
  <2> QED
    BY <1>0, <2>1 DEF CallInv, TreeInHash
<1> QED
  BY <1>1, <1>2, <1>3, <1>4, <1>5, <1>6, <1>7, <1>8, <1>9, <1>10, <1>11, <1>12
     DEF SystemNext, MainThread

SystemInv == IInv /\ CallTypeOK /\ CallInv

(* At start-up nobody calls, and no Block has been made (main).            *)
LEMMA InitCallInv == SystemInit => SystemInv
<1> SUFFICES ASSUME SystemInit PROVE SystemInv
  OBVIOUS
<1>1. NoPath \in BlockName
  BY Udisks2Assumption DEF NoPath
<1>2. queue \in Seq(Caller \cup {"tick"}) /\ DOMAIN queue = {}
  BY EmptySeq, LenProperties DEF SystemInit
<1>3. CallTypeOK
  BY <1>1, <1>2 DEF SystemInit, CallTypeOK
<1>4. CallInv
  BY <1>2 DEF SystemInit, Init, OmInit, NoBlocks, CallInv, Once, Range
<1> QED
  BY <1>3, <1>4, InitIInv DEF SystemInv, SystemInit

(* Calls and check() share the main thread and the hash without harm.      *)
LEMMA SystemInvariants == SystemSpec => []SystemInv
<1>1. SystemInv /\ [SystemNext]_systemVars => SystemInv'
  <2>1. IInv /\ [Next]_vars => IInv'
    BY NextTypeOK, NextControlInv, NextDrivesInv, NextBlocksInv DEF IInv
  <2> QED
    BY <2>1, SystemSteps, NextCallTypeOK, NextCallInv DEF SystemInv
<1> QED
  BY InitCallInv, <1>1, PTL DEF SystemSpec

-----------------------------------------------------------------------------
(* The properties.                                                         *)

(* The main thread runs one handler, or check(), or neither; a posted call *)
(* waits in the event queue once; what can be called is in the hash        *)
(* (Dispatch, Lookup, removePosted, Finish, Die).                          *)
THEOREM CallsInvariance == SystemSpec => []CallInv
<1>1. SystemInv => CallInv
  BY DEF SystemInv
<1> QED
  BY SystemInvariants, <1>1, PTL

(* All variables keep their types, and a call is in the event queue once   *)
(* from the moment it is posted until it is delivered or its object goes   *)
(* (removePosted, Die).                                                    *)
THEOREM SystemTypeCorrect == SystemSpec => []SystemTypeOK
<1>1. SystemInv => SystemTypeOK
  <2> SUFFICES ASSUME SystemInv, NEW c \in Caller
               PROVE  Cardinality({i \in DOMAIN queue : queue[i] = c})
                        = IF stage[c] = "queued" THEN 1 ELSE 0
    BY DEF SystemInv, SystemTypeOK
  <2> DEFINE at == {i \in DOMAIN queue : queue[i] = c}
  <2>1. CASE stage[c] = "queued"
    <3>1. PICK i \in DOMAIN queue : queue[i] = c
      BY <2>1 DEF SystemInv, CallInv, Range
    <3>2. at = {i}
      BY <3>1 DEF SystemInv, CallInv, Once
    <3> QED
      BY <2>1, <3>2, FS_Singleton
  <2>2. CASE stage[c] # "queued"
    <3>1. at = {}
      BY <2>2 DEF SystemInv, CallInv, Range
    <3> QED
      BY <2>2, <3>1, FS_EmptySet
  <2> QED
    BY <2>1, <2>2
<1> QED
  BY SystemInvariants, <1>1, PTL

(* No call is delivered to a Block that was destroyed, nor to the one that *)
(* took its place, and none is destroyed while its handler is at work      *)
(* (addBlock, QCoreApplication::removePostedEvents).                       *)
THEOREM CallsFindTheirObject == SystemSpec => []CallsHaveAnObject
<1>1. SystemInv => CallsHaveAnObject
  BY DEF SystemInv, CallInv, CallTypeOK, CallsHaveAnObject
<1> QED
  BY SystemInvariants, <1>1, PTL

(* Steps that leave records, kernel and programs alone (Send, Lookup).     *)
LEMMA RecordsStay ==
  ASSUME RecordOfEveryBlock, UNCHANGED mountVars,
         \A b \in BlockName : m_blockObjects[b] = NoMedium => m_blockObjects'[b] = NoMedium,
         \A c \in Caller : /\ stage[c] = "ended" <=> stage'[c] = "ended"
                           /\ stage[c] = "ended" => path'[c] = path[c] /\ op'[c] = op[c]
  PROVE  RecordOfEveryBlock'
BY DEF RecordOfEveryBlock, mountVars

(* A program's end and that of its handler concern the block that was      *)
(* called, and a Block object that is new reads the mount table (Mount,    *)
(* Unmount, createFilesystem).                                             *)
LEMMA NextRecordOfEveryBlock ==
  SystemInv /\ RecordOfEveryBlock /\ [SystemNext]_systemVars => RecordOfEveryBlock'
<1> SUFFICES ASSUME SystemInv, RecordOfEveryBlock, [SystemNext]_systemVars
             PROVE  RecordOfEveryBlock'
  OBVIOUS
<1>t. /\ mountPoints \in [BlockName -> BOOLEAN] /\ mtab \in [BlockName -> BOOLEAN]
      /\ stage \in [Caller -> {"none", "sent", "queued", "running", "ended"}]
      /\ path \in [Caller -> BlockName]
  BY DEF SystemInv, CallTypeOK
<1> USE DEF Answers
<1>1. CASE UNCHANGED <<m_blockObjects, stage, path, op, mountVars>>
  BY <1>1, RecordsStay
<1>2. ASSUME NEW c \in Caller, Finish(c) PROVE RecordOfEveryBlock'
  <2>1. stage[c] = "ended" /\ UNCHANGED <<m_blockObjects, mtab, disturbed>>
    BY <1>2 DEF Finish, vars, omVars
  <2>2. PICK a \in {"ok", "error"} : reply({c}, a)
    BY <1>2 DEF Finish
  <2>3. \A d \in Caller : stage'[d] # "ended"
    BY <2>1, <2>2, ReplyType DEF SystemInv, CallInv
  <2>4. \A d \in Caller : stage[d] = "ended" => d = c
    BY <2>1 DEF SystemInv, CallInv
  <2>5. CASE exitCode = 0
    <3>1. mountPoints' = [mountPoints EXCEPT ![path[c]] = (op[c] = "Mount")]
      BY <1>2, <2>5 DEF Finish
    <3>2. path[c] \in BlockName
      BY <1>t
    <3>3. ASSUME NEW b \in BlockName \ disturbed, m_blockObjects[b] # NoMedium
          PROVE  mountPoints'[b] = mtab[b]
      <4>1. CASE b = path[c]
        <5>1. mtab[b] = (op[c] = "Mount")
          BY <2>1, <2>5, <3>3, <4>1 DEF RecordOfEveryBlock
        <5> QED
          BY <1>t, <3>1, <3>2, <4>1, <5>1
      <4>2. CASE b # path[c]
        <5>1. mountPoints[b] = mtab[b]
          BY <2>4, <3>3, <4>2 DEF RecordOfEveryBlock
        <5> QED
          BY <1>t, <3>1, <3>2, <4>2, <5>1
      <4> QED
        BY <4>1, <4>2
    <3> QED
      BY <2>1, <2>3, <3>3 DEF RecordOfEveryBlock
  <2>6. CASE exitCode # 0
    <3>1. mountPoints' = mountPoints
      BY <1>2, <2>6 DEF Finish
    <3> QED
      BY <2>1, <2>3, <2>6, <3>1 DEF RecordOfEveryBlock
  <2> QED
    BY <2>5, <2>6
<1>3. ASSUME NEW p \in Letter, ReplaceBlock(p) PROVE RecordOfEveryBlock'
  <2> DEFINE b == <<cur, p>>
             dropped == {c \in Caller : stage[c] = "queued" /\ path[c] = b}
  <2>1. AddBlock(p) /\ reply(dropped, "UnknownObject") /\ UNCHANGED mtab
    BY <1>3 DEF ReplaceBlock
  <2>2. PICK readable \in BOOLEAN :
          /\ mountPoints' = [mountPoints EXCEPT ![b] = readable /\ mtab[b]]
          /\ disturbed' = IF readable THEN disturbed \ {b} ELSE disturbed \cup {b}
    BY <1>3 DEF ReplaceBlock, createFilesystem
  <2>3. cur \in DiskName /\ b \in BlockName
    BY <2>1 DEF AddBlock, BlockName, SystemInv, IInv, ControlInv, adding
  <2>4. \A c \in Caller : stage[c] # "ended" /\ stage'[c] # "ended"
    BY <2>1, CheckAtWork, ReplyType DEF SystemInv, CallInv
  <2>5. \A d \in BlockName : d # b => m_blockObjects'[d] = m_blockObjects[d]
    BY <2>1, <2>3 DEF AddBlock, addBlock, insertBlock, SystemInv, IInv, TypeOK, OmTypeOK
  <2>6. ASSUME NEW d \in BlockName, d \notin disturbed', m_blockObjects'[d] # NoMedium
        PROVE  mountPoints'[d] = mtab[d]
    <3>1. CASE d = b
      BY <1>t, <2>2, <2>3, <2>6, <3>1
    <3>2. CASE d # b
      <4>1. d \notin disturbed /\ m_blockObjects[d] # NoMedium
        BY <2>2, <2>5, <2>6, <3>2
      <4>2. mountPoints[d] = mtab[d]
        BY <2>4, <4>1 DEF RecordOfEveryBlock
      <4> QED
        BY <1>t, <2>2, <2>3, <3>2, <4>2
    <3> QED
      BY <3>1, <3>2
  <2> QED
    BY <2>1, <2>4, <2>6 DEF RecordOfEveryBlock
<1>4. CASE Die
  <2>1. \A b \in BlockName : m_blockObjects'[b] = NoMedium
    BY <1>4 DEF Die, Abort, omExit, NoBlocks
  <2>2. PICK lost \in SUBSET {c \in Caller : stage[c] = "sent"} :
          reply(lost \cup {c \in Caller : stage[c] = "queued"}, "NoReply")
    BY <1>4 DEF Die
  <2>3. \A c \in Caller : stage[c] # "ended"
    BY <1>4, CheckAtWork DEF Die, SystemInv, CallInv
  <2>4. \A c \in Caller : stage'[c] # "ended"
    BY <1>t, <2>2, <2>3, ReplyType DEF SystemInv
  <2> QED
    BY <2>1, <2>4 DEF RecordOfEveryBlock
<1>5. CASE CheckGoesOn
  <2>1. ~Abort /\ \A p \in Letter : ~AddBlock(p)
    BY <1>5 DEF CheckGoesOn, Abort, AddBlock, ReadLabel, Proceed, CdHandler,
       CdInterfacesAdded, SysctlLength, SysctlNames, SysctlFails, GetCurrentDev, ReadPastEnd,
       AddNewDevices, DriveInterfacesAdded, RegisterBlock, AddDone, CompareNames, RemoveDrive,
       RemoveBlock, UnregisterBlock, DriveInterfacesRemoved, UnregisterDrive, RemoveDevices
  <2>2. m_blockObjects' = m_blockObjects
    BY <2>1, SystemSteps, BlockSteps
       DEF RegisterBlock, registerBlock, UnregisterBlock, unregisterBlock
  <2> QED
    BY <1>1, <1>5, <2>2 DEF CheckGoesOn
<1>6. CASE TickDelivered \/ PostTick \/ Environment \/ UNCHANGED systemVars
  BY <1>1, <1>6
     DEF TickDelivered, Timeout, PostTick, Environment, Hardware, Restart, systemVars, vars,
         omVars, callVars
<1>7. ASSUME NEW c \in Caller, Send(c) PROVE RecordOfEveryBlock'
  BY <1>t, <1>7, RecordsStay DEF Send, vars, omVars
<1>8. ASSUME NEW c \in Caller, Lookup(c) PROVE RecordOfEveryBlock'
  <2>1. stage[c] = "sent" /\ UNCHANGED <<m_blockObjects, mountVars>>
    BY <1>8 DEF Lookup, vars, omVars
  <2>2. CASE blockTree[path[c]] # NoMedium
    BY <1>t, <1>8, <2>1, <2>2, RecordsStay DEF Lookup
  <2>3. CASE blockTree[path[c]] = NoMedium
    <3>1. reply({c}, "UnknownObject")
      BY <1>8, <2>3 DEF Lookup
    <3> QED
      BY <2>1, <3>1, ReplyType, RecordsStay DEF SystemInv
  <2> QED
    BY <2>2, <2>3
<1>9. ASSUME NEW c \in Caller, Dispatch(c) PROVE RecordOfEveryBlock'
  <2>1. /\ UNCHANGED <<m_blockObjects, mountVars>>
        /\ \A d \in Caller : stage[d] # "ended"
    BY <1>9 DEF Dispatch, vars, omVars, busy
  <2>2. \A d \in Caller : stage'[d] # "ended"
    BY <1>9, <1>t, <2>1, ReplyType DEF Dispatch, SystemInv
  <2> QED
    BY <2>1, <2>2, RecordsStay
<1>10. ASSUME NEW c \in Caller, ProgramEnds(c) PROVE RecordOfEveryBlock'
  <2> DEFINE b == path[c]
  <2>1. /\ stage[c] = "running" /\ b \in BlockName
        /\ \A d \in Caller : stage'[d] = IF d = c THEN "ended" ELSE stage[d]
        /\ UNCHANGED <<path, op, mountPoints, m_blockObjects>>
    BY <1>10, <1>t DEF ProgramEnds, vars, omVars
  <2>2. \A d \in Caller : stage[d] # "ended"
    BY <2>1 DEF SystemInv, CallInv
  <2>3. PICK effect \in BOOLEAN, code \in {0, 1} :
          /\ exitCode' = code
          /\ mtab' = IF effect THEN [mtab EXCEPT ![b] = (op[c] = "Mount")] ELSE mtab
          /\ disturbed' = IF effect = (code = 0) THEN disturbed ELSE disturbed \cup {b}
    BY <1>10 DEF ProgramEnds
  <2>4. ASSUME NEW d \in BlockName, d \notin disturbed'
        PROVE  /\ m_blockObjects[d] # NoMedium =>
                    mountPoints[d] = mtab'[d] \/ (code = 0 /\ d = b)
               /\ code = 0 /\ d = b => mtab'[d] = (op[c] = "Mount")
    <3>1. d \notin disturbed
      BY <2>3, <2>4
    <3>2. m_blockObjects[d] # NoMedium => mountPoints[d] = mtab[d]
      BY <2>2, <3>1 DEF RecordOfEveryBlock
    <3>3. CASE d # b
      BY <1>t, <2>1, <2>3, <3>2, <3>3
    <3>4. CASE d = b
      <4>1. effect = (code = 0)
        BY <2>3, <2>4, <3>4
      <4> QED
        BY <1>t, <2>1, <2>3, <3>2, <3>4, <4>1
    <3> QED
      BY <3>3, <3>4
  <2> QED
    BY <2>1, <2>2, <2>3, <2>4 DEF RecordOfEveryBlock
<1>11. ASSUME NEW b \in BlockName, Others(b) PROVE RecordOfEveryBlock'
  <2>1. /\ UNCHANGED <<m_blockObjects, stage, path, op, exitCode, mountPoints>>
        /\ mtab' = [mtab EXCEPT ![b] = ~mtab[b]] /\ disturbed' = disturbed \cup {b}
    BY <1>11 DEF Others, vars, omVars, callVars
  <2>2. \A d \in BlockName \ disturbed' : d \notin disturbed /\ mtab'[d] = mtab[d]
    BY <1>t, <2>1
  <2> QED
    BY <2>1, <2>2 DEF RecordOfEveryBlock
<1> QED
  BY <1>2, <1>3, <1>4, <1>5, <1>6, <1>7, <1>8, <1>9, <1>10, <1>11 DEF SystemNext, MainThread

(* The daemon gets no record wrong by itself: the record of every Block    *)
(* that can still be reached, however late a call runs on it, is the       *)
(* kernel's, if since the Block was made nobody else has mounted or        *)
(* unmounted its partition, no program's exit code has belied its effect   *)
(* and the mount table could be read (Mount, Unmount, createFilesystem).   *)
THEOREM RecordsAreTrue == SystemSpec => []RecordOfEveryBlock
<1>1. SystemInit => RecordOfEveryBlock
  BY DEF SystemInit, RecordOfEveryBlock
<1> QED
  BY SystemInvariants, NextRecordOfEveryBlock, <1>1, PTL DEF SystemSpec

(* Who is told UnknownObject: the QtDBus thread tells callers of a block   *)
(* that is not in the tree, addBlock those of a block it puts there anew.  *)
LEMMA NextUnknownIsGone ==
  ASSUME SystemInv, [SystemNext]_systemVars, NEW c \in Caller,
         stage[c] # "none", stage'[c] = "none", answer' = "UnknownObject"
  PROVE  blockTree'[path[c]] = NoMedium
<1> USE DEF SystemInv, Answers
<1>1. CASE PostTick \/ TickDelivered \/ CheckGoesOn \/ Environment \/ UNCHANGED systemVars
  BY <1>1 DEF PostTick, TickDelivered, CheckGoesOn, Environment, systemVars, callVars
<1>7. ASSUME NEW e \in Caller, ProgramEnds(e) PROVE FALSE
  BY <1>7 DEF ProgramEnds, CallTypeOK
<1>8. ASSUME NEW b \in BlockName, Others(b) PROVE FALSE
  BY <1>8 DEF Others, callVars
<1>2. ASSUME NEW e \in Caller, Send(e) PROVE FALSE
  BY <1>2 DEF Send, CallTypeOK
<1>3. ASSUME NEW e \in Caller, Lookup(e) PROVE blockTree'[path[c]] = NoMedium
  <2>1. CASE blockTree[path[e]] # NoMedium
    BY <1>3, <2>1 DEF Lookup, CallTypeOK
  <2>2. CASE blockTree[path[e]] = NoMedium
    <3>1. reply({e}, "UnknownObject") /\ UNCHANGED vars
      BY <1>3, <2>2 DEF Lookup
    <3>2. c = e
      BY <3>1, ReplyType
    <3> QED
      BY <2>2, <3>1, <3>2 DEF vars, omVars
  <2> QED
    BY <2>1, <2>2
<1>4. ASSUME NEW e \in Caller, Dispatch(e) \/ Finish(e) PROVE FALSE
  <2>1. CASE \E a \in {"ok", "error"} : reply({e}, a)
    <3>1. PICK a \in {"ok", "error"} : reply({e}, a)
      BY <2>1
    <3>2. c = e /\ answer' = a
      BY <3>1, ReplyType
    <3> QED
      BY <3>2
  <2>2. CASE stage' = [stage EXCEPT ![e] = "running"]
    BY <2>2 DEF CallTypeOK
  <2> QED
    BY <1>4, <2>1, <2>2 DEF Dispatch, Finish
<1>5. ASSUME NEW p \in Letter, ReplaceBlock(p) PROVE blockTree'[path[c]] = NoMedium
  <2> DEFINE dropped == {d \in Caller : stage[d] = "queued" /\ path[d] = <<cur, p>>}
  <2>1. reply(dropped, "UnknownObject") /\ AddBlock(p)
    BY <1>5 DEF ReplaceBlock
  <2>2. path[c] = <<cur, p>>
    BY <2>1, ReplyType
  <2>3. cur \in DiskName /\ p \in left /\ p \notin Callable(cur) /\ blockTree' = blockTree
    BY <2>1, DiskThreadAssumption
       DEF AddBlock, addBlock, IInv, ControlInv, adding, Callable, Announced
  <2> QED
    BY <2>2, <2>3 DEF IInv, BlocksInv
<1>6. CASE Die
  <2>1. PICK lost \in SUBSET {d \in Caller : stage[d] = "sent"} :
          reply(lost \cup {d \in Caller : stage[d] = "queued"}, "NoReply")
    BY <1>6 DEF Die
  <2>2. answer' = "NoReply"
    BY <2>1, ReplyType
  <2> QED
    BY <2>2
<1> QED
  BY <1>1, <1>2, <1>3, <1>4, <1>5, <1>6, <1>7, <1>8 DEF SystemNext, MainThread

(* Nobody is told UnknownObject of a block that can be called at that      *)
(* moment (addNewDevices, addBlock, registerBlock).                        *)
THEOREM UnknownObjectIsTrue == SystemSpec => UnknownIsGone
<1> DEFINE Told(c) == stage[c] # "none" /\ stage'[c] = "none" /\ answer' = "UnknownObject"
           Gone == \A c \in Caller : Told(c) => blockTree'[path[c]] = NoMedium
<1>1. SystemInv /\ [SystemNext]_systemVars => [Gone]_systemVars
  BY NextUnknownIsGone
<1> QED
  BY SystemInvariants, <1>1, PTL DEF SystemSpec, UnknownIsGone
=============================================================================
