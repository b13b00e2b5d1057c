------------------------------ MODULE Udisks2 ------------------------------
(***************************************************************************)
(* The daemon as a whole (main.cpp): DiskThread composed with its callers. *)
(* Three threads take part.  The disk thread posts a tick to the main      *)
(* thread once a second, whether or not the last one has been worked off.  *)
(* The QtDBus thread looks up the object of a call in the object tree and  *)
(* posts the call to it.  The main thread takes ticks and calls off its    *)
(* event queue, one at a time: check() and a handler never overlap, but    *)
(* disks are retracted and come back while calls wait.                     *)
(*                                                                         *)
(* Calls are Mount and Unmount of blocks; what a handler does in detail is *)
(* BlockFilesystem; here its program ends, with an effect and an exit code *)
(* that need not agree, and the handler goes by the exit code.             *)
(***************************************************************************)
EXTENDS DiskThread, Sequences, SequencesExt

CONSTANTS Caller,   \* each has one call under way at most
          MaxTicks  \* bound of the model: ticks that wait at the same time

ASSUME Udisks2Assumption ==
  /\ "tick" \notin Caller
  /\ BlockName # {}
  /\ MaxTicks \in Nat \ {0}

VARIABLES
  queue,        \* events posted to the main thread: "tick", or the caller of a call
  stage,        \* where the call of each caller is
  op,           \* the method called
  path,         \* the block called
  answer,       \* the last answer, forgotten when check() goes on
  exitCode,     \* of the program that the handler at work has run
  mountPoints,  \* does the Block object in the hash have a mount point on record?
  mtab,         \* kernel: is the partition of that name mounted?
  dangling,     \* history: callers whose Block was destroyed after the call was posted to it
  disturbed     \* history: blocks whose record the daemon has been given cause to get wrong

callVars == <<queue, stage, op, path, answer, dangling>>
mountVars == <<exitCode, mountPoints, mtab, disturbed>>
systemVars == <<vars, callVars, mountVars>>

CallTypeOK ==
  /\ queue \in Seq(Caller \cup {"tick"})
  /\ stage \in [Caller -> {"none", "sent", "queued", "running", "ended"}]
  /\ op \in [Caller -> {"Mount", "Unmount"}]
  /\ path \in [Caller -> BlockName]
  /\ answer \in {"none", "ok", "error", "UnknownObject", "NoReply"}
  /\ exitCode \in {0, 1}
  /\ mountPoints \in [BlockName -> BOOLEAN]
  /\ mtab \in [BlockName -> BOOLEAN]
  /\ dangling \subseteq Caller
  /\ disturbed \subseteq BlockName

(* Types; and a call waits in the queue exactly once while it is queued.   *)
SystemTypeOK ==
  /\ CallTypeOK
  /\ \A c \in Caller :
       Cardinality({i \in DOMAIN queue : queue[i] = c}) = IF stage[c] = "queued" THEN 1 ELSE 0

NoPath == CHOOSE b \in BlockName : TRUE

SystemInit ==
  /\ Init
  /\ queue = <<>>
  /\ stage = [c \in Caller |-> "none"]
  /\ op = [c \in Caller |-> "Mount"]
  /\ path = [c \in Caller |-> NoPath]
  /\ answer = "none"
  /\ exitCode = 0
  /\ mountPoints = [b \in BlockName |-> FALSE]
  /\ mtab = [b \in BlockName |-> FALSE]
  /\ dangling = {}
  /\ disturbed = {}

(* Mutant: the event loop runs inside a handler, too.                      *)
busyNever == FALSE

busy == \E c \in Caller : stage[c] \in {"running", "ended"}

(* The calls of the callers in S end with answer a; what was known of them *)
(* is forgotten.                                                           *)
reply(S, a) ==
  LET end(f, v) == [c \in Caller |-> IF c \in S THEN v ELSE f[c]]
  IN  /\ stage' = end(stage, "none")
      /\ answer' = IF S = {} THEN answer ELSE a
      /\ op' = end(op, "Mount")
      /\ path' = end(path, NoPath)

-----------------------------------------------------------------------------
(* The threads other than the main thread, and the callers.                *)

(* run(): timeout() is emitted in the disk thread, for a receiver that     *)
(* lives in the main thread.                                               *)
PostTick ==
  /\ pc # "dead"
  /\ Cardinality({i \in DOMAIN queue : queue[i] = "tick"}) < MaxTicks
  /\ queue' = Append(queue, "tick")
  /\ UNCHANGED <<stage, op, path, answer, dangling, vars, mountVars>>

(* A call to any path: a client has it from a signal, from                 *)
(* GetManagedObjects, which also lists what was removed, or remembers it   *)
(* from before a restart.  The bus keeps the call while the service is not *)
(* running.                                                                *)
Send(c) ==
  /\ stage[c] = "none"
  /\ \E b \in BlockName, o \in {"Mount", "Unmount"} :
       /\ path' = [path EXCEPT ![c] = b]
       /\ op' = [op EXCEPT ![c] = o]
  /\ stage' = [stage EXCEPT ![c] = "sent"]
  /\ answer' = "none"
  /\ dangling' = dangling \ {c}
  /\ UNCHANGED <<queue, vars, mountVars>>

(* The QtDBus thread finds the object, or answers by itself.               *)
Lookup(c) ==
  /\ pc # "dead"
  /\ stage[c] = "sent"
  /\ UNCHANGED <<dangling, vars, mountVars>>
  /\ IF blockTree[path[c]] # NoMedium
     THEN /\ queue' = Append(queue, c)
          /\ stage' = [stage EXCEPT ![c] = "queued"]
          /\ UNCHANGED <<op, path, answer>>
     ELSE reply({c}, "UnknownObject") /\ UNCHANGED queue

(* Other programs mount and unmount, umount takes off another's file       *)
(* system, the kernel unmounts what is left of a device that is detached.  *)
Others(b) ==
  /\ mtab' = [mtab EXCEPT ![b] = ~mtab[b]]
  /\ disturbed' = disturbed \cup {b}
  /\ UNCHANGED <<vars, callVars, exitCode, mountPoints>>

-----------------------------------------------------------------------------
(* The main thread: handlers.                                              *)

(* Mutant: a tick overtakes the calls that wait.                           *)
takeTickFirst(e) ==
  /\ Contains(queue, e)
  /\ e = "tick" \/ ~Contains(queue, "tick")
  /\ queue' = Remove(queue, e)

(* Mutant: a call overtakes the ticks that wait.                           *)
takeCallFirst(e) ==
  /\ Contains(queue, e)
  /\ e # "tick" \/ \A c \in Caller : ~Contains(queue, c)
  /\ queue' = Remove(queue, e)

(* The event loop delivers what was posted first (app.exec()).             *)
take(e) ==
  /\ queue # <<>>
  /\ Head(queue) = e
  /\ queue' = Tail(queue)

(* Mount of what is on record, Unmount of what is not.                     *)
refused(c) == mountPoints[path[c]] = (op[c] = "Mount")

Dispatch(c) ==
  /\ pc = "idle"
  /\ ~busy
  /\ take(c)
  /\ UNCHANGED <<dangling, vars, mountVars>>
  /\ IF refused(c)
     THEN reply({c}, "error")
     ELSE /\ stage' = [stage EXCEPT ![c] = "running"]
          /\ UNCHANGED <<op, path, answer>>

(* mount(2) finds a file system under the device's name, whichever medium  *)
(* that is by now.                                                         *)
programSucceeds(c) ==
  LET b == path[c]
  IN  IF op[c] = "Mount" THEN b[2] \in Partitions(medium[b[1]]) /\ ~mtab[b] ELSE mtab[b]

(* The program ends.  One that could not be started has no effect and the  *)
(* exit code 0; umount given an option it takes for a directory fails for  *)
(* that one and unmounts the other.                                        *)
ProgramEnds(c) ==
  /\ stage[c] = "running"
  /\ stage' = [stage EXCEPT ![c] = "ended"]
  /\ \E effect \in BOOLEAN, code \in {0, 1} :
       /\ effect => programSucceeds(c) /\ (op[c] = "Unmount" \/ code = 0)
       /\ exitCode' = code
       /\ mtab' = IF effect THEN [mtab EXCEPT ![path[c]] = (op[c] = "Mount")] ELSE mtab
       /\ disturbed' = IF effect = (code = 0) THEN disturbed ELSE disturbed \cup {path[c]}
  /\ UNCHANGED <<queue, op, path, answer, dangling, vars, mountPoints>>

(* The rest of the handler believes the exit code.                         *)
Finish(c) ==
  /\ stage[c] = "ended"
  /\ exitCode' = 0
  /\ IF exitCode = 0
     THEN /\ mountPoints' = [mountPoints EXCEPT ![path[c]] = (op[c] = "Mount")]
          /\ reply({c}, "ok")
     ELSE reply({c}, "error") /\ UNCHANGED mountPoints
  /\ UNCHANGED <<queue, dangling, vars, mtab, disturbed>>

-----------------------------------------------------------------------------
(* The main thread: check().                                               *)

TickDelivered ==
  /\ ~busy
  /\ take("tick")
  /\ Timeout
  /\ answer' = "none"
  /\ UNCHANGED <<stage, op, path, dangling, mountVars>>

CheckGoesOn ==
  /\ ReadLabel \/ Proceed
  /\ answer' = "none"
  /\ UNCHANGED <<queue, stage, op, path, dangling, mountVars>>

(* Mutant: a new Block object starts without mount points.                 *)
createFilesystemEmpty(b) == FALSE

(* What createFilesystem finds in the mount table.  It looks when the      *)
(* label is read; here, when the Block is put into the hash, as no handler *)
(* runs in between and Others may as well come later.                      *)
createFilesystem(b) == mtab[b]

(* Mutant: the calls posted to the old object stay posted.                 *)
removePostedNot(S) == queue

removePosted(S) ==
  LET keep[i \in 0 .. Len(queue)] ==
        IF i = 0 THEN <<>>
        ELSE IF queue[i] \in S THEN keep[i - 1]
        ELSE Append(keep[i - 1], queue[i])
  IN  keep[Len(queue)]

(* A Block that replaces another in the hash: that was the last reference  *)
(* to the old one, and QtDBus answers the calls posted to an object that   *)
(* is destroyed before they are delivered.  If the mount table cannot be   *)
(* read, the new one has no mount point on record.                         *)
ReplaceBlock(p) ==
  LET b == <<cur, p>>
      dropped == {c \in Caller : stage[c] = "queued" /\ path[c] = b}
  IN  /\ AddBlock(p)
      /\ \E readable \in BOOLEAN :
           /\ mountPoints' = [mountPoints EXCEPT ![b] = readable /\ createFilesystem(b)]
           /\ disturbed' = IF readable THEN disturbed \ {b} ELSE disturbed \cup {b}
      /\ queue' = removePosted(dropped)
      /\ reply(dropped, "UnknownObject")
      /\ dangling' =
           dangling \cup {c \in Caller : stage[c] \notin {"none", "sent"} /\ path[c] = b}
      /\ UNCHANGED <<exitCode, mtab>>

(* The process dies.  The bus answers the calls it has delivered; those    *)
(* still on their way wait for the next process.                           *)
Die ==
  /\ Abort
  /\ queue' = <<>>
  /\ \E lost \in SUBSET {c \in Caller : stage[c] = "sent"} :
       reply(lost \cup {c \in Caller : stage[c] = "queued"}, "NoReply")
  /\ dangling' = {}
  /\ mountPoints' = [b \in BlockName |-> FALSE]
  /\ disturbed' = {}
  /\ UNCHANGED <<exitCode, mtab>>

MainThread ==
  \/ TickDelivered
  \/ CheckGoesOn
  \/ \E p \in Letter : ReplaceBlock(p)
  \/ Die
  \/ \E c \in Caller : Dispatch(c) \/ ProgramEnds(c) \/ Finish(c)

Environment == (Hardware \/ Restart) /\ UNCHANGED <<callVars, mountVars>>

SystemNext ==
  \/ MainThread
  \/ PostTick
  \/ \E c \in Caller : Send(c) \/ Lookup(c)
  \/ \E b \in BlockName : Others(b)
  \/ Environment

(* Every thread goes on; mount and umount programs end; a service that has *)
(* died is started by the bus.  Callers need not call.  A process lives    *)
(* for a second before its first check, so the QtDBus thread gets to a     *)
(* call that waits for it, even if check() kills one process after another *)
(* (strong fairness).                                                      *)
SystemFairness ==
  /\ WF_systemVars(MainThread)
  /\ WF_systemVars(PostTick)
  /\ \A c \in Caller : SF_systemVars(Lookup(c))
  /\ WF_systemVars(Restart /\ UNCHANGED <<callVars, mountVars>>)

SystemSpec == SystemInit /\ [][SystemNext]_systemVars /\ SystemFairness
-----------------------------------------------------------------------------
(* The properties.                                                         *)

(* A caller is told UnknownObject only at a moment when its block cannot   *)
(* be called: check() does not publish a block again that is published, so *)
(* nothing replaces the object under a waiting call, and a block that      *)
(* stays published answers (addNewDevices, addBlock).                      *)
UnknownIsGone ==
  [][\A c \in Caller :
       stage[c] # "none" /\ stage'[c] = "none" /\ answer' = "UnknownObject" =>
         blockTree'[path[c]] = NoMedium]_systemVars

(* A Block that is destroyed takes its calls along: a call that was posted *)
(* to it neither waits any longer, for its own delivery or that to the     *)
(* Block now at its path, nor has a handler at work (addBlock).            *)
CallsHaveAnObject ==
  \A c \in dangling : c \notin Range(queue) /\ stage[c] \notin {"running", "ended"}

(* The daemon gets no record wrong by itself: every Block object that a    *)
(* call can still reach or GetManagedObjects lists, also one of a disk     *)
(* that was removed or replaced, has on record what the kernel has mounted *)
(* under its name, however stale the calls that ran on it (addBlock,       *)
(* createFilesystem, Mount, Unmount).  A record goes wrong only by what is *)
(* named in disturbed, and stays so no longer than its Block: others       *)
(* mount or unmount, the mount table cannot be read, a program's exit code *)
(* does not tell its effect.  Between the end of a program and that of its *)
(* handler the kernel has what the record will be.                         *)
RecordOfEveryBlock ==
  LET succeeded(c) == stage[c] = "ended" /\ exitCode = 0
  IN  \A b \in BlockName \ disturbed :
        /\ m_blockObjects[b] # NoMedium =>
             mountPoints[b] = mtab[b] \/ \E c \in Caller : succeeded(c) /\ path[c] = b
        /\ \A c \in Caller : succeeded(c) /\ path[c] = b => mtab[b] = (op[c] = "Mount")

(* Every call gets an answer: from the QtDBus thread, from the handler, on *)
(* the death of the object or on that of the process.                      *)
EveryCallAnswered == \A c \in Caller : stage[c] # "none" ~> stage[c] = "none"

(* Behind its event queue and among its callers the daemon still behaves   *)
(* as DiskThread says, the fairness of check() included: handlers delay    *)
(* the checks but do not keep them from happening.                         *)
ImplementsDiskThread == Spec

-----------------------------------------------------------------------------
(* The inductive invariant.                                                *)

(* No caller is in the queue twice.                                        *)
Once(q) == \A i, j \in DOMAIN q : q[i] \in Caller /\ q[i] = q[j] => i = j

(* The main thread runs one handler, or check(), or neither (app.exec());  *)
(* what it has been posted and what the callers wait for is the same; what *)
(* can be called, or has been, is in the hash.                             *)
CallInv ==
  /\ \A c \in Caller : stage[c] = "queued" <=> c \in Range(queue)
  /\ Once(queue)
  /\ \A c \in Caller : stage[c] \in {"running", "ended"} => pc = "idle"
  /\ \A c, d \in Caller :
       stage[c] \in {"running", "ended"} /\ stage[d] \in {"running", "ended"} => c = d
  /\ \A b \in BlockName : blockTree[b] # NoMedium => m_blockObjects[b] # NoMedium
  /\ \A c \in Caller : stage[c] \notin {"none", "sent"} => m_blockObjects[path[c]] # NoMedium
  /\ \A c \in dangling : stage[c] = "none"
=============================================================================
