# openbsdisks2 in TLA+

A verification project for openbsdisks2, the UDisks2 service of OpenBSD: a daemon
that watches the kernel's list of disks, offers drives and partitions as objects on
the D-Bus system bus, and mounts and unmounts file systems for desktop clients.
The modules are TLA+, checked with TLC on small instances; every safety property that
holds is proved with TLAPS for every instance. Paths below are relative to the
repository; `src/` is its source directory.

## 1. The system

### Threads and events

The daemon is a Qt event loop (`main.cpp`). Three things run:

- the **main thread**: `ObjectManager`, every D-Bus method call on a registered
  object, and `DiskThread::check()`. A `DiskThread` is a `QThread` object that lives
  in the main thread, so the connection `timeout -> check` is queued into it;
- the **disk thread** (`DiskThread::run`): owns the one-second `QTimer` and does
  nothing but post its ticks;
- the **QtDBus thread**: receives messages and looks paths up in the tree of
  registered objects.

Consequences: `check()` and the method handlers never overlap, and a handler that
waits for `mount(8)` or `umount(8)` (`waitForFinished(-1)`) stops everything else, while
ticks and calls pile up in the event queue. What does overlap with every step of them is
the world: drives attach and detach, media are swapped, other programs mount and unmount,
the process may end. The QtDBus thread delivers nothing before the event loop of `main`
runs, so the order of the registrations at start-up cannot be seen from outside.

### Components

| Component | State | Operations | Talks to | What makes it correct |
|---|---|---|---|---|
| `DiskThread` (`disk_thread.cpp`) | `diskLabels`, `m_cds` | `check()` once a second: CD loop, `readDisknames`, `getCurrentDev`, `addNewDevices`, `removeDevices` | `hw.disknames`, `DiskLabel`; direct signals to `ObjectManager` | what is published follows the hardware, drive and blocks belong together, nothing is published twice |
| `ObjectManager` (`objectmanager.cpp`) | `m_driveObjects`, `m_blockObjects`, QtDBus object tree, `Block::m_Registered` | `addDrive`, `addBlock`, `removeDrive`, `removeBlock`, `GetManagedObjects` | QtDBus, bus | signals, object tree and managed objects agree |
| `DiskLabel` (`disk_label.cpp`) | one `Drive` with its `Block`s | `analyseDev`, `createFilesystem` | `opendev(3)`, `DIOCGDINFO`, mount table | the right partitions, ids, and mount point |
| `CdHandler` (`cd_handler.cpp`) | a `DiskLabel` | list of names, constructor | `DiskThread` | a CD drive is published |
| `BlockFilesystem` (`blockfilesystem.cpp`) | `mountPoints`, `filesystem` | `Mount`, `Unmount` | `mount_*(8)`, `umount(8)`, `/media`, mount table | the record is the truth, no file system over another, right file system unmounted |
| `Block` (`block.cpp`) | properties, `m_Registered` | getters, forwards `Mount`/`Unmount` | adaptors | what signals and answers say of it agrees |
| `Drive` (`drive.cpp`) | properties, blocks | getters, `Eject` | `CDIOCEJECT` | polling survives what an eject costs |
| `BlockPartition`, `BlockPartTable` | plain data | none | | |
| adaptors (`adaptors.*`, `manageradaptor.*`) | none | forward properties and methods | | values have the declared types, success means done |
| `main` (`main.cpp`) | logging flags | start-up, `unveil` | bus name, event loop | every call is answered |

### What is hard about it

- `check()` reads the list, then the labels, then publishes step by step; the
  hardware changes in between. The list itself is read with two `sysctl(2)` calls.
- Publishing is three effects that are not one: a hash, the object tree, a signal;
  their order differs between drives and blocks and between adding and removing.
- The daemon's knowledge of mounts is a record; the kernel has the truth; programs
  can fail, fail to start, outlive a crash, or be run by somebody else.
- Partitions of disks without an OpenBSD label share an `Id`, hence a directory name.
- Ticks pile up while a handler blocks; calls wait while disks go, and may find their
  object destroyed or run on one that is no longer published.
- A client puts its view together from signals, `GetAll` and `GetManagedObjects`, which
  come from three places in the code and are on their way at the same time.
- `Eject` uses up descriptors, which every read of a label needs.

`PROJECT.json` lists these as hazards, each at its line and with the properties that
speak of it.

## 2. The modules

```
DiskLabel <- ObjectManager <- DiskThread <- Udisks2 <- MCUdisks2
    ^                           |  ^   ^--- Descriptors <- MCDescriptors
    |                           |  |-------- AtRest <- MCDiskThread
    '------- BusProtocol <- - - '  '-------- DiskThreadProofs <- BusProtocolProofs
                 (INSTANCE Bus)                  ^                     ^  ^
                                   AtRestProofs -'                     |  |
                                             DescriptorsProofs --------'  |
                                             Udisks2Proofs ---------------'

MountService <- - - BlockFilesystem <- MCBlockFilesystem
      (INSTANCE Service)    ^--- BlockFilesystemProofs

Adaptors <- Properties <- MCProperties
    ^            ^
AdaptorsProofs <- PropertiesProofs
```

(`A <- B`: B extends A.)

**DiskLabel** is `DiskLabel::analyseDev` as operators: `Partitions(m)` are the letters
of the label of medium `m` that become blocks. A *medium*
(disk, card, disc) stands for the whole of its label; `NoMedium` is a label that cannot
be read. Sizes and names beyond that are data no property looks at.

**ObjectManager** has the two hashes, `m_Registered`, the object tree
(`driveTree`, `blockTree`) and what a client that follows the signals believes
(`busDrives`, `busBlocks`). An object is represented by the medium it was read from, so
"the client sees an old object" is expressible. Each method is given as operators, one
per effect that can be seen from outside, in the code's order: `addDrive` (hash, then
`registerObject`) and `driveInterfacesAdded`; `addBlock` (hash, then signal) and
`registerBlock`; `blockInterfacesRemoved`, `unregisterBlock`, `driveInterfacesRemoved`,
`unregisterDrive`. `registerObject` keeps an object that is there, as QtDBus does, and
removal leaves the hashes alone, as the code does.

**DiskThread** is `check()`. `pc` says where it is; the actions are its steps that read
the kernel or that the bus can see:

| `pc` | code |
|---|---|
| `idle` -> `cds` | `Timeout`: the tick arrives |
| `cds`, `cdAdded` | loop over the CD names, `disk_thread.cpp:76-82` |
| `cds` -> `sysctl` -> `parse` | `readDisknames`, its two `sysctl` calls (`SysctlLength`, `SysctlNames`) |
| `cds` or `sysctl` -> `parse` | `SysctlFails`: either call fails, `disk_thread.cpp:46-49` and `:54-57`; the list is the empty string |
| `parse` -> `add` or `overrun` | `getCurrentDev` |
| `overrun` -> `dead` or `add` | the read of field 1 of an entry with one field: undefined, so both outcomes |
| `add`, `driveAdded`, `addBlocks`, `blockAdded` | loop over the names, `addNewDevices`, `addDrive`, `addBlock` |
| `remove`, `removeBlocks`, `blockRemoved`, `driveRemoved` | loop over the labels, `removeDrive`, `removeBlock` |
| `remove` -> `idle` | `removeDevices` |

`Hardware` (attach, detach, insert, remove) may happen between any two of them. Loops
visit their names in any order; the kernel's order is one of those. The CD constructor
reads the label twice in a row and keeps the last readable one, which is one read.
Whether `opendev(3)` opens a name such as `rcd0` is the library's business: a CD drive
whose medium is `NoMedium` for ever is one behaviour of the model.

**AtRest** adds to `DiskThread` one history variable, `still`: since the last tick arrived
no drive or medium has come or gone, no call of `sysctl` has failed, and the process lives.
A daemon that polls can promise something of the present only under that condition: one
failed call gives an empty list, for which the code retracts every disk. What it then promises is the content
of `Converges` without its liveness: `Converges` says that some check will do, `AtRest`
that any one will, and which signals a client hears of it.

**BusProtocol** is the abstract specification: what a client of the signals may rely on,
without `check()`, the hashes or the tree. Drive before blocks, blocks before drive on
the way out, blocks of the label the drive came from, a drive retracted only when all
its blocks had been announced and then as a whole, or everything gone at once.
`DiskThread` implements it under the mapping drives = `busDrives`,
blocks = `busBlocks`, leaving = the drive `check()` is retracting.

**BlockFilesystem** is `Mount` and `Unmount`. State of the daemon: `mountPoints` (the
record), `seen` (what clients were told by `InterfacesAdded` and `PropertiesChanged`),
and the locals of the handler that runs. State of the kernel: `mtab`, where each device is
mounted, and `dirs`, what lies under each directory. Which programs can be run at all is
`unveiled`, from `setup_unvail`. `Mount` is `Mount` (the
refusals), `CreateMountPoint`, the program (`MountSucceeds`, `MountFails`,
`ProgramNotStarted`) and `MountDone`; `Unmount` is `Unmount`, the program, and
`UmountDone` per turn of its loop. `Replug` is what a removal and return of the disk
does to a block: a new object with the mount point `createFilesystem` finds. `Crash` and
`Restart` end and start the process; a program it waited for lives on in `orphan`.
`Env` selects what else may go wrong: `crash`, `orphan`, `fork`, `getmntinfo`, `options`,
`umount`, `mount`, `files`. When `getmntinfo(3)` fails, `alreadyMounted` answers that a
directory is free (`blockfilesystem.cpp:53-57`), and `createMountPoint` may return one that
something is mounted on (`takenForFree`); `createFilesystem`, which asks the same table
through `QStorageInfo`, then finds no mount point (`readings`). Time, owner and options of
`mount_*` are data.

**MountService** is the abstract specification of `org.freedesktop.UDisks2.Filesystem`
while nobody else mounts, programs start and the mount table can be read: one call at a time, which has its effect and is answered with
success, or has none and is answered with an error; a record that is the truth between
calls; different directories for different partitions; a service that vanishes, with a
program that may go on, and comes back with a true record. `BlockFilesystem` implements
it: `at` = `mtab`, `record` = `mountPoints`, a call is `done` when its program has ended
with exit code 0 and the handler has not yet looked.

**Udisks2** is the composition of the three threads. It extends `DiskThread` (its
variables and actions are used as they are) with the event queue of the main thread, the
callers, and per block the record and the kernel's mount. `PostTick` is the disk thread,
`Lookup` the QtDBus thread, `TickDelivered`, `CheckGoesOn`, `ReplaceBlock`, `Dispatch`,
`ProgramEnds`, `Finish` and `Die` the main thread. A `Block` that returns replaces the one
in the hash (`objectmanager.cpp:53`), whose last reference that was: the calls posted to it
are dropped and answered by QtDBus. A handler is here three steps: `Dispatch` refuses or
starts the program, `ProgramEnds` gives it an effect and an exit code that need not agree (a
program that was not started, `umount` with an option), `Finish` goes by the exit code, as
the code does. `Others` mounts and unmounts under the daemon's hands: other programs, and
the kernel when a mounted device is detached. Two history variables let properties speak of
what has been: `dangling`, the callers whose `Block` was destroyed since the call was posted
to it (the identity of an object, which its path does not give), and `disturbed`, the blocks
whose record others, a misleading exit code or an unreadable mount table may have made wrong,
until a new `Block` is made from a table that can be read.

**Adaptors** holds the tables of `adaptors.h`, as operators: what each published adaptor
declares in its introspection data, its C++ properties, those of its parent, the
signatures QtDBus gives the types, and the conversion `qvariant_cast` in between; and, for
each method, whether the parent has a slot (`slot`), the call is dropped and answered with
success (`ignored`), or it cannot be answered (`lost`: a `QDBusUnixFileDescriptor`
without a descriptor cannot be marshalled). **Properties** puts them to use: objects with
the members their setters leave, signals, `GetAll`, `GetManagedObjects`, `Mount`,
`Unmount` and the other methods, a wire to one client, and what that client knows. A call
takes two steps: the QtDBus thread looks up the object and posts the call to it (`Post`),
the main thread delivers it later (`GetAll`, `Mount`, `Unmount`, `Refuse`, `Call`), to the
object it was posted to (`target`), which `check()` may have unregistered meanwhile; calls
that wait for an object that is replaced in its hash are dropped. `posted` is the set of
paths with calls that wait, so any number of them may. A step is one handler or the part of
`check()` for one disk. What of a value no property tells
apart (the text around a name) is left out; the getters that compute something
(`idLabel`, `optical`, `removable`, ...) are there.

**Descriptors** extends `DiskThread` with `Drive::Eject` and the number of descriptors it
has left open. When there is none left `opendev(3)` fails, and every name is passed over.

The type invariants of `DiskThread` and `BlockFilesystem` are the first conjuncts of `IInv`
and `OpenInv`, and checked with them.

**MCDiskThread**, **MCBlockFilesystem**, **MCUdisks2**, **MCProperties** and
**MCDescriptors** define the instances. The modules whose names end in **Proofs** hold the
proofs. Operators marked "Mutant" stand beside the definition they alter; no
specification uses them, they document what each property would catch.

## 3. The runs

Passing runs:

| Run | Instance | Shows |
|---|---|---|
| `disks` | disks `sd0`, `sd1`; two media | at every step of `check()`: the inductive invariant, `QuiescentConsistency`, `AnnouncedIsCallable`, `ManagedCoversBus`, `BlockUnderDrive`, that `BusProtocol` is implemented, and that a check leaves nothing published that its list does not name and retracts nothing that it does (`ChecksFollowTheList`); a check during which drives and media stay as they are ends with every readable disk published and no detached one (`OneCheckIsEnough`, from the inductive `RestInv`) and announces and retracts only what that takes (`NoDetours`), provided `sysctl` answers; when the hardware rests and `sysctl` answers, every readable disk is published for good and no detached one, whatever aborts, restarts and failed reads of the list came before (`Converges`); 61,392 states |
| `descriptors` | one drive under the names `cd0` and `rcd0`; two media, `FdLimit = 2`, `MaxCds = 2` | a CD drive announced again and again with changing discs leaves hash, tree and announcements consistent and disturbs no disk; ejecting until the descriptors are used up stops publishing and nothing else (`ConvergesOrExhausted`); 33,156 states |
| `mount_alone` | three partitions, two of one `Id`; crashes | while only the daemon mounts and `getmntinfo` answers: the inductive invariants `AloneInv` and `DirsInv`, record = kernel between calls, nothing stacked, `Unmount` takes off its own, no directory left over except by a crash, and `MountService` is implemented, its liveness included; 11,126 states |
| `mount_open` | one partition, everything in `Env` | the inductive invariant `OpenInv`, at most one mount point on record, clients miss none, every call ends; 172,829 states |
| `service` | `sd0` with one partition, two callers, one waiting tick at a time | every call is answered (`EveryCallAnswered`), `UnknownObject` is answered only of a block that is not registered at that moment (`UnknownIsGone`), no call outlives the `Block` it was posted to, to run on it or on its replacement (`CallsHaveAnObject`, from the inductive `CallInv`), every `Block` in the hash that is not `disturbed` has a true record however late the calls on it ran (`RecordOfEveryBlock`), and behind queue and callers `DiskThread` is implemented, fairness included; 92,832 states |
| `properties` | `sd0` with one partition, `rcd0`; two media, two messages on the wire | every answer has the declared types; `GetManagedObjects`, and `GetAll` of an object the client has not been told is gone, do not contradict the signals that arrived before them, however long the call has waited; `Mount`'s answer comes after its signal; tree and hashes agree (`ObjectsInv`), and so do all messages on the wire with what the client will know when it reads them (`SignalsInv`); 164,554 states |

Runs that end in a counterexample, each a statement of the repository that the code
does not keep (the full text is under `findings`):

| Run | Statement | What happens |
|---|---|---|
| `overrun` | "We want both name2Uuid und uuid" (`disk_thread.cpp:138`) | an empty or failed list splits into one entry with one field; `at(1)` is out of range |
| `mount_options` | not mounted means empty `MountPoints` (`:1849`) | option values become arguments of `umount(8)`, whose status then says failure |
| `mount_fork` | the returned path is where the device is mounted (`:1857`) | a program that did not start has exit code 0 |
| `mount_bypass` | an unmount behind the daemon's back is cleaned up (`:1897`) | the record stays for ever |
| `property_types` | `MountPoints` has type `aay` (`:1852`) | `PropertiesChanged` gives it as one string |
| `methods` | `SetLabel` "Sets the filesystem label." (`:1842`) | there is no slot; the caller is told that it succeeded |

### Bounds, and why they are enough

- Two disks, so that one is published while the other is retracted and a medium moves
  between them; two media, so that a swap shows. `check()` treats names one by one and
  never relates more than two. `disks` has no CD drive, which would make it ten times as
  large; so what `OneCheckIsEnough` says of discs is shown by its proof alone.
- Label `m1` has two file systems, a swap partition and a `c` that would be one; label
  `m2` shares a letter with it and has an empty partition. Every reason of
  `analyseDev` to skip a partition occurs, and a swap changes the set of blocks.
- `MaxCds` bounds how often `m_cds` takes one drive (the code has no bound, one a
  second). 2 is the first number at which "again" happens. With `CdName = {}` it
  restricts nothing.
- Three partitions, two with the same `Id`, one with another on the same disk; directory
  names up to `MaxSuffix = |Dev|`, more than can be mount points at once since a device
  is mounted at most once.
- `mount_open` has a single partition because all eight kinds of disturbance together
  already give some 170 000 states; what it checks is said of one partition at a time.
  Sharing of names is checked in `mount_alone`.
- At most one program is left over from a crash; a second crash waits for its end.
- `service`: two callers, so that one call waits behind another and both behind a tick;
  one disk with one partition that comes and goes, since calls on different blocks meet
  only in the queue. `MaxTicks = 1` lets a tick wait behind a handler while calls queue up
  behind it; more of them only repeat the check. A second medium changes nothing a call
  can see and would triple the states; media that change are in `disks`.
- `descriptors`: with `FdLimit = 2` the daemon goes through "some left", "one left" and
  "none". Its label `m1` is a disc with a file system, `m2` one without.
- `properties`: `MaxWire = 2` holds the two signals of one step, and an answer behind or
  ahead of a signal, which is the overtaking the properties are about; the client reads in
  between, so longer histories arise from shorter wires, and the proofs are for every
  length. Two media with different labels, so that a stale value shows. The two runs for
  the findings have `MaxWire = 3`.

### Fairness

- `DiskThread`: `WF(Check)`, the main thread goes on with what it has begun and the
  timer fires again; `WF(Restart)`, D-Bus activation starts a dead service at a client's
  next call (`org.freedesktop.UDisks2.service.in`). The hardware has none, and `SysctlFails` is a step among
  others: `Converges` is conditional on the rest of the one and the end of the other.
- `BlockFilesystem`: `WF(Handler)`, as above; `WF(Program)`, `WF(OrphanEnds)`, mount and
  umount programs end (the daemon itself waits for them without a limit, so it assumes the
  same); `WF(Restart)`. Clients, other programs and crashes have none.

- `Udisks2`: `WF(MainThread)`, as above, with handlers that end; `WF(PostTick)`, the timer
  of the disk thread fires as long as the process lives; `SF(Lookup)`: the QtDBus thread
  gets to a waiting message while a process lives, even if `check()` kills one process
  after the other, since each lives for a second before its first check (`m_t->start(1000)`);
  `WF(Restart)`. Callers have none.
- `Descriptors`: `WF(FdCheck)`, `WF(Restart)` as for `DiskThread`; `Eject` has none.
- `Properties` checks safety only and has none.

Deadlock is checked in all runs.

## 4. What is proved

### The disk watcher

`DiskThreadProofs` and `BusProtocolProofs`, for every set of disks, CD names, media,
letters and labels that satisfies the three assumptions of the modules
(`LabelAssumption`: a label gives each letter a size and a type, `NoMedium` is no medium;
`NameAssumption`: disk and CD names differ; `DiskThreadAssumption`: `NoDisk` is no name,
finitely many disks, `MaxCds` a positive number). TLC evaluates them in every run.

| Theorem | Statement |
|---|---|
| `Invariance` | `Spec => []IInv` |
| `TypeCorrect` | `Spec => []TypeOK` |
| `QuiescentlyConsistent` | between two checks labels, object tree and client agree |
| `AnnouncedCanBeCalled` | what is announced can be called, but for the one block between its signal and `registerObject` |
| `ManagedObjectsCoverBus` | `GetManagedObjects` misses nothing that was announced |
| `BlocksUnderDrives` | a block is published only under a drive of its own label |
| `CdsPublished` | a CD drive that was ever read stays in hash and tree |
| `ChecksFollow` | a check ends with nothing published that its list does not name; a drive is retracted only if the list does not name it or the process dies |
| `ImplementsBusProtocol` | every step of `DiskThread` is a step of `BusProtocol` or a stutter |

None of the safety properties is inductive: that blocks and drives agree between checks
says nothing about the middle of one. `IInv` adds the middle. `ControlInv` relates `pc`
to the locals (the disk being worked on holds a label, the letters left are letters of
that label, a name under removal is removed once). `DrivesInv` and `BlocksInv` then say
that the labels and the position in the loops *determine* the bus, the tree and the
relevant part of the hashes, through four operators: `DriveObject(d)` is the drive
before its label is erased, `Announced(d)` the letters whose signal is out,
`Callable(d)` those in the tree; they differ by at most one block, `blk`.
`RegisteredInv` says that a block still to be added is not registered, which is why
`registerBlock` never skips one: labels read afresh make new `Block` objects although
`m_Registered` is never reset. Each part is preserved by every action (one lemma per
part, one step per action); the safety properties follow from `IInv` without the
transition relation. For the refinement, `IInv` turns each guard of `check()` into
the guard of the corresponding protocol step: `AddNewDevices` meets an announced
nothing because an unlabelled disk has no object, `RemoveDrive` starts leaving a drive
whose blocks are all announced, and so on.

`ChecksFollow` is an action property: `ControlInv` says that the disks still to be removed
and those removed already are together those labels that the list does not name, so that
the one whose signal goes out next is not named. `CdsPublished` needs no more than that
`check()` never removes a CD and that a dying process forgets `m_cds` with the objects.

### Running out of descriptors

`DescriptorsProofs`, for any limit (`DescriptorsAssumption` besides the assumptions above):

| Theorem | Statement |
|---|---|
| `FdInvariance` | `FdSpec => []IInv` |
| `FdCdsPublished`, `FdChecksFollow` | CD drives stay published; only what the list does not name is retracted |
| `PromisesWithoutDescriptors` | the other safety properties of `DiskThread` |
| `FdImplementsBusProtocol` | a client sees the same protocol |

`FdSpec` is no refinement of `DiskThread`: a disk that could be read is passed over. But
each of its steps is one of `DiskThread` or such a passing over, which leaves labels and
objects alone; the invariant is preserved by both, and everything else is derived from it
as before.

### A check of a kernel at rest

`AtRestProofs`, for any disks, CD names, media and labels:

| Theorem | Statement |
|---|---|
| `RestInvariance` | while `still` holds (a kernel at rest whose `sysctl` answers), the position of `check()` says how much of the kernel is published already |
| `OneCheckSuffices` | at the end of such a check every readable disk and disc is published and no detached disk |
| `NoDetoursAtRest` | in between only a missing disk is announced, with the medium it holds, and only a detached one retracted |

That the history variable changes nothing (`RestSpec => Spec`) is the lemma by which these
inherit `IInv`. `RestInv` follows the check: both calls of `sysctl` see the same list (`ListInv`), after
the first loop every readable disk has a label, and after the second no disk that is
gone (`DisksInv`); a disc is in the hash and then on the bus (`CdsInv`). It has to exclude
the death of the process, after which nothing is published, and it says that `getCurrentDev`
reads past the end of an entry only when there is no disk at all: the list that fails
because it has grown needs a change during the check. `IInv` turns what it says of the labels
into what a client sees.

### Calls and checks together

`Udisks2Proofs`, for any number of callers and of ticks that may wait
(`Udisks2Assumption`: `"tick"` is no caller, there is a block name, at least one tick can
wait).

| Theorem | Statement |
|---|---|
| `ImplementsDiskThreadSafety` | every step of the daemon is a step of `DiskThread` or a stutter |
| `SystemInvariance`, `SystemPromises`, `SystemImplementsBusProtocol` | hence its invariant, its safety properties and its protocol |
| `CallsInvariance`, `SystemTypeCorrect` | event queue, callers and main thread agree; a posted call is in the queue exactly once |
| `CallsFindTheirObject` | a call posted to a `Block` that is destroyed neither waits any longer nor has a handler at work |
| `RecordsAreTrue` | the record of every `Block` in the hash is the kernel's, unless `disturbed` |
| `UnknownObjectIsTrue` | `UnknownObject` is answered only while the block is not registered |

`CallInv` is what makes them inductive. Destroying a `Block` takes its calls out of the
middle of the queue (`removePosted`, a recursive function over its positions); the lemmas on it
(`KeptExists` and those after it) show by the smallest counterexample that what is left
has every other call once and none of the destroyed object's. That a call which waits still has its object then
follows, since the hash gives up a `Block` only for a new one of the same path or with the
process. `UnknownObjectIsTrue` rests on `IInv` of `DiskThread`: `addBlock` finds the path
unregistered, because a disk is added only when it has no label and a disk without a label
has no block in the tree; so the calls that lose their object are those of a block that
cannot be called. `RecordsAreTrue` has the two ways in which a record arises: the end of
a handler, which believes the exit code, and `createFilesystem`, which reads the mount table.
Between the end of the program and that of the handler the kernel is ahead of the record,
which is why the property speaks of a handler whose program has `succeeded`; that no two
handlers are at work (`CallInv`) makes that handler the only one. What the invariant cannot
repair it names: each step that may part record and kernel puts the block into `disturbed`.

### What a client learns

`AdaptorsProofs` and `PropertiesProofs`, for any disks, CDs, media, labels, directories
and length of the wire (`PropertiesAssumption`: disk, CD and block names differ, each disk
has its own block name). The tables of the adaptors are not parameters: they are those of
the code.

| Theorem | Statement |
|---|---|
| `AdaptorsAreTyped` | every getter gives the declared properties with the declared types, whatever the parent has |
| `AnswersTyped` | so do `InterfacesAdded`, `GetAll` and `GetManagedObjects` |
| `PropertiesInvariance`, `ObjectsAgree`, `PropertiesTypeCorrect` | the inductive invariant; tree and hashes agree; blocks have one mount point at most |
| `SignalsForetell` | having read all that is on the wire, the client knows what is served, and nothing on it contradicts what precedes it |
| `GetAllMatches`, `ManagedMatches`, `MountKnown` | the same of the message that comes next, as the runs check it; of `GetAll`, if the client has not been told that the object is gone |

That the *next* message agrees with what the client knows is not inductive: the message
was right when it was sent, and has others before it. The invariant `WireInv` therefore
speaks of all of them: there are *views*, one after each message, that begin with what is
known, follow from each other by `learn`, agree each with the message that is read then,
and end in one that is `UpToDate` with the objects. A step of the daemon needs only the last
view: it sends signals that turn it into one that is up to date with the changed
objects, or an answer that an up-to-date client does not find wrong (the lemmas named
`...Tells`, one per action, with `SendOne`, `SendTwo` and `SendNothing` for the wire). A
step of the client drops the first view (`ReceiveNext`). `UpToDate` is where the code's
asymmetries show: of a disk the client knows what the *tree* serves, of a CD drive what
the *hash* holds, and of mount points possibly more than there are. `ObjectsInv` is needed
for `GetManagedObjects`, which answers from the hashes: for disks they hold what the tree
serves. It is needed as well for calls that have waited: the object they were posted to is
still the one in the hash (`WaitedFor`, `WaitedBlock`), so that what a `GetAll` says is either
what is served, or of an object whose removal the client reads first. `SignalsInv`, which TLC evaluates, computes the views with a recursive function;
that they are those of `WireInv` is shown by the smallest index at which they differ
(`ViewsAreEqual`).

### Mounting

`BlockFilesystemProofs`, for every finite set of partitions, with any Ids and file
systems (`BlockFilesystemAssumption`: `Env` names known kinds of disturbance, `Elsewhere`
is not under `/media`, `NoDir` is no directory). "At most crashes" is the assumption
`Env \subseteq {"crash"}`: only the daemon mounts and unmounts, its programs start and end
before the restart, no options are passed, and `getmntinfo` answers.

| Theorem | `Env` | Statement |
|---|---|---|
| `OpenInvariance`, `MountTypeCorrect` | any | `Spec => []OpenInv`, `Spec => []TypeOK` |
| `OneMountPoint` | any | at most one mount point on record |
| `ClientsKnowTheRecord` | any | clients know every mount point on record |
| `AloneInvariance` | at most crashes | `Spec => []AloneInv` |
| `RecordIsTrue` | at most crashes | between calls record = mount table |
| `MountsAreApart` | at most crashes | no file system over another |
| `UnmountTakesItsOwn` | at most crashes | `Unmount` takes off its own partition |
| `DirsInvariance`, `NothingLeftOver` | at most crashes | `Spec => []DirsInv`; no unused directory but those a crash left |
| `ImplementsServiceSafety` | at most crashes | every step of `BlockFilesystem` is a step of `MountService` or a stutter |

`OneMountPoint` and `ClientsKnowTheRecord` are not inductive: that `Mount` adds the only
mount point needs the record to be empty still when its program has ended, and that a
silent success of `Unmount` leaves nothing on record needs the mount point it removes to
be the only one. `HandlerInv` says both. The truth of the record needs more, what the
program that runs finds in the kernel (`ProgramInv`): `Unmount` names a directory, so
that it takes off its own partition follows from the record being the truth and no two
partitions sharing a directory, and neither holds without the other. `OrphanInv` says the
same of a program that outlived the daemon, `AloneInv` puts the parts together.
`DirsInv` is inductive beside it; it needs `AloneInv` to know which directory a program
uncovers, and the guard of `Mount` to know that a directory is made only for a program
that runs. That `createMountPoint` finds a name at all is a pigeonhole argument
(`SomeNameIsFree`): each partition is mounted once, so `|Dev| + 1` names are never all
in use; that it is the first free one takes the well-foundedness of the numbers
(`FreeName`). For the refinement, `AloneInv` turns every guard into that of the step of
`MountService`: the partition a mount program works on is not mounted, the directory is
nobody's, the record at the end of a handler is `Actual`.

## 5. What is only model-checked

- `Converges` (its safety part is `OneCheckIsEnough`), `ConvergesOrExhausted`, `EveryCallEnds`, `EveryCallAnswered` and the
  fairness parts of `ImplementsMountService` and `ImplementsDiskThread`: liveness under
  fairness is beyond the prover.
- The counterexamples.

## 6. What is not promised

Some things one might expect do not hold, and no property claims them. The properties are
worded so as to state what does hold next to them.

- The published label need not be that of the medium now in the drive: disks are compared
  by name (`README.md` lists device updates as not done).
- `GetManagedObjects` does not forget what was removed. A CD path serves the first disc
  read, while signals and `GetManagedObjects` follow the newest.
- A failed `sysctl` retracts every disk, though all are there; the next check that reads the
  list publishes them again. A failed `getmntinfo` lets `Mount` put a file system over one of
  the daemon's own; `Unmount` then takes off whichever is on top.
- `GetAll` may answer for an object after the signal of its removal, if the call waited.
- When a mounted device is detached the kernel unmounts it; the `Block` in the hash keeps the
  mount point on record until the disk returns.
- A program that a crash left over, and that mounts after the restart has read the labels,
  mounts off the record. `m_cds` grows with every check while a CD is readable.
- A successful `Unmount` is not signalled. The daemon may remove an empty directory that
  somebody else made.
- Two media without a DUID publish blocks with the same `Id` (`disk_label.cpp:92`). The
  `Drive` property of a block names `drives/sd0a`, which is never registered
  (`block.cpp:143`).
- `IdUsage` is always empty, because `setIdUsage` sets the type (`block.cpp:72`), which
  `setIdType` then replaces. The `Size` of a block is the sector count of its whole disk
  (`disk_label.cpp:53,91`).
- `Optical` and `Eject` look for names that begin with `cd`; a drive published from the
  list of CD names begins with `rcd` and is neither optical nor ever ejected.
- `OpenForBackup`, `OpenForRestore` and `OpenForBenchmark` are never answered.
- A mount made by a call on a block that is no longer published is on record only in the
  hash, until the disk returns.

## 7. What is not modelled

- The adaptors that are never instantiated (Ata, Encrypted, Job, Loop, MDRaid, Manager,
  Partition, PartitionTable, Swapspace), which are most of `adaptors.h` and half of
  `adaptors.cpp`: no object has them. `BlockPartition`, `BlockPartTable`: data, and their
  interfaces are commented out in `registerBlock`.
- The introspection XML (the adaptors carry a copy), the D-Bus policy, logging. The polkit
  policy is installed but nothing consults it.
- `deviceNumber` reads `st` also when `stat(2)` fails; the number is data here, and the
  same each time.
- Several file systems on one disk appear in `DiskThread` and `BlockFilesystem`, not in
  `Properties` and `Udisks2`, where a second block would repeat the first.
- `Descriptors` assumes that the device node `Eject` opens exists; where it does not, `open`
  fails and nothing is left open.
- `mountedVolumes()` is taken to list the device of every mount. For a mount hidden by a
  later one on the same directory the library may differ; no run's properties look at the
  record of a hidden mount: while `getmntinfo` answers the daemon never stacks
  (`NoStackedMounts`), and the run in which it may fail has one partition.

## 8. Plan

All components of the core are modelled, checked, and their safety properties proved.
To come:

1. `Udisks2`: liveness with more than one waiting tick (the safety proofs hold for any
   number of them).
2. Safety forms of the other liveness properties, as `AtRest` is one of `Converges`: that a
   queued call moves forward with every step of the main thread, and that a handler of
   `BlockFilesystem` never returns to a place it has left.
