---------------------------- MODULE MountService ----------------------------
(***************************************************************************)
(* What a caller of org.freedesktop.UDisks2.Filesystem may rely on while   *)
(* nobody else mounts or unmounts and the kernel tells it what is mounted: *)
(* one call at a time; a call answered with success has had its effect,    *)
(* one answered with an error has had none; file systems lie in different  *)
(* directories; and the service's record is the truth, which a new process *)
(* reads back.  How: the mount points, directories and programs are those  *)
(* of BlockFilesystem.                                                     *)
(***************************************************************************)
EXTENDS Naturals

CONSTANTS Dev, Dir,
          NoDir  \* not a directory

VARIABLES
  at,      \* where each partition is mounted, NoDir if it is not
  record,  \* the mount points the service has on record
  phase,   \* "ready", "working", "done" (the effect is there) or "gone"
  call,    \* the call that is being handled, in a set
  answer   \* the answer to the last call

vars == <<at, record, phase, call, answer>>

Calls == [op : {"Mount", "Unmount"}, dev : Dev]

TypeOK ==
  /\ at \in [Dev -> Dir \cup {NoDir}]
  /\ record \in [Dev -> SUBSET (Dir \cup {NoDir})]
  /\ phase \in {"ready", "working", "done", "gone"}
  /\ call \subseteq Calls
  /\ answer \in {"none", "ok", "error"}

Actual == [b \in Dev |-> {at[b]} \ {NoDir}]

Init ==
  /\ at = [b \in Dev |-> NoDir]
  /\ record = Actual
  /\ phase = "ready"
  /\ call = {}
  /\ answer = "none"

(* A mounted partition cannot be mounted, an unmounted one not unmounted.  *)
Accept(c) ==
  /\ phase = "ready"
  /\ c.op = "Mount" <=> record[c.dev] = {}
  /\ phase' = "working"
  /\ call' = {c}
  /\ answer' = "none"
  /\ UNCHANGED <<at, record>>

Refuse ==
  /\ phase = "ready"
  /\ answer' = "error"
  /\ UNCHANGED <<at, record, phase, call>>

Effect(c) ==
  \/ /\ c.op = "Mount"
     /\ at[c.dev] = NoDir
     /\ \E d \in Dir : /\ \A b \in Dev : at[b] # d
                       /\ at' = [at EXCEPT ![c.dev] = d]
  \/ /\ c.op = "Unmount"
     /\ at[c.dev] # NoDir
     /\ at' = [at EXCEPT ![c.dev] = NoDir]

Work ==
  /\ phase = "working"
  /\ \E c \in call : Effect(c)
  /\ phase' = "done"
  /\ UNCHANGED <<record, call, answer>>

Succeed ==
  /\ phase = "done"
  /\ record' = Actual
  /\ answer' = "ok"
  /\ phase' = "ready"
  /\ call' = {}
  /\ UNCHANGED at

Fail ==
  /\ phase = "working"
  /\ answer' = "error"
  /\ phase' = "ready"
  /\ call' = {}
  /\ UNCHANGED <<at, record>>

(* The process ends; a program that was at work may or may not go on.      *)
Vanish ==
  /\ phase # "gone"
  /\ phase' = "gone"
  /\ call' \in IF phase = "working" THEN {call, {}} ELSE {{}}
  /\ UNCHANGED <<at, record, answer>>

Late ==
  /\ phase = "gone"
  /\ \E c \in call : Effect(c) \/ UNCHANGED at
  /\ call' = {}
  /\ UNCHANGED <<record, phase, answer>>

Return ==
  /\ phase = "gone"
  /\ call = {}
  /\ record' = Actual
  /\ phase' = "ready"
  /\ answer' = "none"
  /\ UNCHANGED <<at, call>>

Next ==
  \/ \E c \in Calls : Accept(c)
  \/ Refuse \/ Work \/ Succeed \/ Fail
  \/ Vanish \/ Late \/ Return

(* A call comes to its end, and a service that is gone comes back.         *)
Fairness == WF_vars(Succeed \/ Fail) /\ WF_vars(Late \/ Return)

MountSafety == Init /\ [][Next]_vars
MountSpec == MountSafety /\ Fairness
=============================================================================
