# Verification of FsRover

FsRover browses, extracts and mounts file systems that Windows or Linux cannot
read. It links GRUB's disk, partition and file system drivers into one process
behind a small C API (`grub/rover/rover.h`). GRUB keeps global state and is not
thread safe; almost everything that is hard in FsRover follows from that. This
directory holds TLA+ specifications of the parts that carry the program's own
logic, TLC configurations that check them on small instances, and TLAPS proofs.

## The system

| Part | State | Operations | Interacts with |
|---|---|---|---|
| Backend thread (`FsRover/backend.cpp`) | task queue, request queue, `g_state`, `g_stop`, `g_cancel`, `g_latest_list_seq`, `g_seq`, the thread handle | start, stop, post, cancel, call; the loop with its chunked tasks | owns every grub call; answers the GUI by window messages, adapter threads by events |
| Main window (`mainnav.cpp`, `mainlist.cpp`, `main.cpp`, `maintree.cpp`) | path shown, entries and their sizes, the batch of sizes under way, history and its cursor | navigate, Back, Forward, Up, refresh, scroll, change of encoding, unmounting | posts tasks, matches results by sequence number |
| Mounted volume core (`common/fusefs.cpp`) | per mount an LRU of metadata, open file handles | getattr, readlink, readdir, read, release, invalidate | called by Dokan, WinFsp and FUSE threads; dispatches misses to the backend; cleared by the GUI |
| Adapters (`dokanfs.cpp`, `winfspfs.cpp`, `LinuxRover/main.cpp`) | mount table, drive-letter mask, per-open context | mount, unmount, callbacks | the two above |
| Virtual disks (`grub-core/disk/loopdisk.c`, `lostdisk.c`, `winfile.c`, `posixfile.c`) | lists of devices, reference counts | add, delete, open, close, read, finalise | opened by files, by each other, by arrays and encrypted volumes |
| Arrays and encrypted volumes (`diskfilter.c`, `cryptodisk.c`) | volume groups with open members; opened volumes | scan, read, close | keep virtual disks open |
| grub disk layer (`kern/disk.c`) | cache of units with chains of evicted keys, recursion depth, `grub_errno` | open, read, close, invalidate | every driver; reads of stacked devices recurse |
| Jobs (`mainjob.cpp`, `propsdlg.cpp`) | the job under way and its progress | extract, hash, export, cancel | backend |
| Extraction and export (`extract_core.cpp`, `run_export_image()`) | the walk, the temporary output | extract, skip, rename, commit | grub files, host files |
| Lost-partition scan (`grub/rover/lost*.c`, `lostdlg.cpp`) | scan position, findings | slice, probe, abandon | backend, lostdisk |
| Path resolution (`walk()`, `loops_back()` in `fusefs.cpp`) | none | resolve | metadata cache |
| Viewers, dialogs, tray, command line | presentation | | backend |

What is hard, and what makes each part correct:

* **Backend.** Three kinds of threads share two queues, two atomics and a thread
  that can be stopped and started again. A call that was accepted must run
  exactly while its caller is blocked, whoever stops the backend; grub must only
  be used between `rover_init()` and `rover_fini()`; results come back in order;
  long tasks must not starve the mounts; a stop must be heard.
* **Main window.** Results arrive long after the user has gone elsewhere. Sizes
  must land on the rows they were read for, the history cursor must be on what
  is shown, a departed device or an old decoding must leave the screen, and
  every row in sight must get its size.
* **Mounted volume.** The lookup side and the inserting side run on different
  threads, and the change of decoding that empties the cache runs on a third.
  What the cache says must be what grub would say.
  A client that enters every directory it is shown must not be led in circles
  by links, and every link must resolve as POSIX says or fail. A file opened by
  a callback must be closed by exactly one later callback, whichever threads of
  the host make them.
* **Mounts.** A mount may end behind the GUI's back, by a thread that only knows
  an address; its report must not be lost nor hit a later mount at that address.
  The backend thread serves all callbacks, so it must never wait for one.
* **Virtual disks.** Devices stack on devices. None may be freed while something
  reads from it, none may be kept by a reference nobody holds, and teardown must
  close children before parents.
* **Disk reads.** Reads of stacked devices recurse through one cache and one
  error variable. What is cached must be what the device holds, one bad sector
  must not spoil its neighbours, and failures must leave the counters balanced.
* **Jobs.** One flag without an owner cancels whatever task looks at it. A cancel
  must reach its job and no other; an export must leave the old destination or
  the whole new one; an extraction overwrites nothing and accounts for
  everything, on volumes that may hold directories inside themselves.

The complete list of hazards, with the properties that cover each and the ones
that nothing covers yet, is `hazards` in `PROJECT.json`.

## Modules

| Module | Models |
|---|---|
| `TaskQueue` | abstract: what the backend promises the GUI, a queue answered in order |
| `Backend` | `backend_main()`, `service_requests()`, `backend_start/post/cancel/stop/call()`; implements `TaskQueue` |
| `BackendProof` | inductive invariants and theorems about `Backend`, the refinement |
| `NavView` | navigation, history, the listing shown and the batches of sizes |
| `NavViewProof` | inductive invariant and theorems about `NavView` |
| `FuseCache` | the LRU, getattr/readlink/readdir, the dispatch, the change of decoding |
| `FuseCacheProof` | inductive invariant and theorems about `FuseCache` |
| `PathWalk` | `walk()`, `loops_back()` and what a listing shows of links |
| `OpenFiles` | the file handles of Dokan, WinFsp and Linux FUSE mounts |
| `FusefsProof` | inductive invariants and theorems about `PathWalk` and `OpenFiles` |
| `Mounts` | mount table, letter mask, ends of mounts, unmount menus, the backend's own-drive test |
| `MountsProof` | inductive invariant and theorems about `Mounts` |
| `JobSlot` | the one long job, the hash of the properties dialog and `g_cancel` |
| `ExportImage`, `Extract` | the two jobs, each on `JobSlot` |
| `LongJobs` | composition of `JobSlot`, `ExportImage` and `Extract` |
| `LongJobsProof` | inductive invariant and theorems about the composition |
| `Devices` | loop, lost and host-file devices, array members, `rover_fini()` |
| `DevicesProof` | inductive invariant and theorems about `Devices` |
| `DiskCache` | `grub_disk_read()` over stacked devices, its cache and the ids it is keyed by |
| `DiskCacheProof` | inductive invariant and theorems about `DiskCache` |
| `MC...` | constants for TLC; `MCPathWalk` also holds the reference definition of path resolution |

`NavView` and `JobSlot` use the backend as the in-order queue that `Backend` is
shown to implement. `FuseCache`, `OpenFiles` and `Mounts` use `backend_call()` as
one step at a time on one thread, which `Backend`'s `AcceptedCallsSucceed` gives.

A definition marked *Faulty* in its comment is
not part of any specification. It is a plausible mistake in the definition that
follows it, kept to show that a property notices it (`mutants` in
`PROJECT.json`).

### Backend

One step is one critical section of `g_lock`, one access to an atomic, or code
that touches no shared state. `bpc` is the place in `backend_main()`; `ret` is
where `service_requests()` returns to, since it is called from the loop, from
inside long tasks and once more before `rover_fini()`. Tasks are abstracted to
the way they run: `short` and `list` have no checkpoint, `sizes` gives up when a
newer listing was posted, `long` (extraction, export, hashing, chunked reads)
gives up when `g_cancel` is set and serves requests between chunks. A
`backend_call()` is three steps: queue (or refusal), wait, and, when the thread
handle or a failed wait woke it, withdrawal. `generation` tells threads of
successive starts apart, since a caller waits on a duplicate of the handle it
saw. `mailbox`, `dropped`, `outcome` and `bypassed` record history.

### NavView

The backend is the queue `Backend` shows it to be: tasks answered in the order
they were posted. A GUI step handles one window message. `ask` collects
`g_seq_sizes`, `g_size_rows`, `g_size_pending` and the wanted neighbourhood. The size a row
shows is the path and row it was read from, so that a size in the wrong row is
visible. Every entry is a file of unknown size, the worst case for the batches.

### FuseCache

One step is one critical section of the cache's lock. A grub call is merged with
the insertion that follows it. `walk()` is a machine that looks one physical path
up after the other (`Asks`) and goes on by what it finds (`Onward`); how it splits
paths and replaces links is `PathWalk`'s. `Listing` gives what `rover_dir_list()`
returns under each decoding, with duplicate names possible. `Truth` is what
`rover_stat()` would say without a failure, and `Reported` adds the one it does not
tell: the size of a file that its driver does not list is asked of the opened
file, and stays unknown when that fails. A listing reads the target of each link,
which may fail for each, copies sizes from the cache or asks for them, and inserts
every entry twice, backwards; a link that leads to a directory also makes it look
the ancestors up (`ancestry()`), again through the cache. The model is of a mount
that follows links (`fusefs_links::follow`).

`straddled` records that `fusefs_invalidate()` hit a running operation, `misled`
that a link that failed was not inserted and so left the entry of its namesake.

### PathWalk

One step of a walk handles one component: `todo` are the components still to
come, `cur` the physical path reached, `links` the links followed so far. `mount`
and `trail` follow a client that enters, one level at a time, whatever a listing
shows it as a directory; the trail holds the physical directories it is in. The
mode in which links are shown as links is covered too (`links_shown`). A volume
is a function from physical paths to objects, and does not change.

### OpenFiles

An opening owns one word. A callback copies it (`ReadBegin`), is served on the
backend thread (`ReadServe`), and with Dokan writes the copy back (`ReadEnd`);
Cleanup and Close release. `rover_file` objects are numbered; `freed` are those
closed. `raced` marks openings on which Dokan's callbacks overlapped while the
word was zero or being released, `lost` those whose release found no backend.

### Mounts

`mount[a]` is the `dokan_mount` at address `a`, with an incarnation number;
`table` is `g_table`, `mask` is `g_mount_mask`, `queue` the window messages with
an address in them. The GUI thread (`gui`) makes and removes mounts in several
steps, blocking in the middle, while hosts eject drives, callbacks run on the
backend and the backend thread tests the mask before it opens a host file. The
unmount menu keeps indices into `g_table` as they were when it was opened; `menu`
holds what it shows, and `picked` what was shown and there when an item was chosen,
and what is unmounted for it.

### JobSlot, ExportImage, Extract, LongJobs

`queue`, `running` and `done` are the backend's queue, the task it works on and
the results under way to the GUI. `g_cancel` is cleared when a task begins.
`pressed` records how the Cancel button met the job: before it ran, while it
looked at the flag, or after its last look. `ExportImage` has one step per host
call of `run_export_image()`, each of which may fail; every state is one that a
crash may leave, so its invariants are about crashes as well. The temporary file is
one of several names, some of which others use, and `DeleteFileW()` may be refused,
which the code does not look at (`refused`). `Extract` first walks the sources into
a work list, then copies it. The destination is a set of entries that know the item
they were made for; names are compared as the host does. A name that is taken is
tried with a number, one creating call after the other (`MakeTaken`), and a name
with a number is a name like others: what `numbered_component()` makes of `a` may be
the name of a source, or of something that others make meanwhile (`OtherMakes`). Of
a file that failed something may stay (`"stuck"`), since nobody looks at the result
of the removal.

### Devices

All steps run on the backend thread. Devices are numbered in order of creation;
`Host` stands for disks and files of the host, which need no counting. An
addition is a step that opens the backing file or disk and a step that succeeds
or fails, because the failure path must undo the first. `pvs` are the members of
arrays: once found on a device, they keep it open until `rover_fini()`, or move to
something smaller that carries the same volume, another device (`ScanSmaller`) or a
partition of their own (`ScanWithin`), or fail to (`ScanLost`), each time losing the
handle they had (`dropped`). `misclosed` records closes of a freed parent during teardown.

### DiskCache

A read is a frame of `stack`; a device that lies on another pushes a frame for
its parent. A frame remembers what its outstanding device read is for: a whole
unit around a few sectors, only the sectors asked for, or a run of units. `ret`
is what that device read returned. `grub_errno` and `read_recursion_depth` are
shared by all frames, as in the code: a read refused for its depth reports
success with an untouched buffer and the error in `grub_errno` alone. A bucket is
a slot and the chain of keys evicted from it. Allocations may fail, and so may the
decryption of sectors that were read (`DecryptFails`). Contents are
tokens that name device and sector, so data of the wrong place is visible.

## Runs

| Run | Shows | Bounds |
|---|---|---|
| `backend_safety` | accepted calls succeed while their captures live; no request of a returned call stays queued; grub confined to init..fini; a request sees at most one unit of work finish before it; `TaskQueue` is implemented, so results come in order and none is lost | 2 callers with 2 calls each, the waits of one may fail; 2 tasks of 2 chunks, 2 starts |
| `backend_liveness` | calls return, `backend_stop()` joins, tasks end | 2 callers, 1 call each, 2 tasks, 2 starts |
| `backend_lost_cancel` | *violation:* the cancel of `backend_stop()` is overwritten | |
| `nav_view` | cursor on the path shown, sizes in their own rows, one accounted batch, departed devices and old decodings gone | 3 directories on 2 devices, 3 rows, batches of 2, history of 2, 4 navigations, 1 change of encoding |
| `nav_sizes_fill` | every row in sight gets its size | 1 directory, 4 rows, batches of 2, window of 3 |
| `fuse_cache` | raw entries current, or a namesake's where `rover_stat()` finds a link; all entries and answers current, up to a size whose query failed, unless the clearing hit a running operation or a failing link left its namesake's entry | 2 threads with 2 operations, cache of 3, 1 change, 2 links per walk; duplicate names, a link to the root, one file of listed and two of unlisted size (3.7 million states) |
| `path_walk` | walks end, agree with POSIX resolution by recursion, give link-free paths; no directory is met twice on one path | 1764 volumes of 4 to 7 objects, 3 links per walk, two modes |
| `open_files` | no handle used after it was closed, none forgotten, unless Dokan's callbacks raced; a closed volume holds nothing | 3 threads, 2 openings, 4 reads, 4 objects, both kinds of host |
| `mounts` | reports of ended mounts neither lost nor misdirected; the backend enters no drive it could know of; a menu item unmounts what it shows, or one further down once that or one above has left; ended drives are removed, closing ends | 2 addresses, 2 letters, 3 mounts (508,000 states) |
| `long_jobs` | destination whole and tidy, nothing of others overwritten or taken for ours, all accounted for, work list complete, cancels heard by their job only, the slot becomes free | 5 volumes of 1 to 5 objects (equal names, a name that looks numbered, links, nothing but links, a directory in itself with and without inodes), 2 destinations, at most 2 entries of others, 2 chunks, 1 hash (807,000 states) |
| `devices` | references exact, nothing freed in use, lists freed children first | 3 devices, 2 files open on each (7.4 million states) |
| `disk_cache` | results are what the device holds; only needed bad sectors fail a read; buckets well formed and bounded; depth balanced | 5 devices on up to 3 levels, with an encrypted volume on another, 3 of them open to reads of every range; units of 2 sectors, 1 bucket, 1 evicted key, depth limit 3, an id space of 1 for encrypted volumes (2.6 million states) |

Why the bounds are enough to be of use: every race found needs at most two
actors of the same kind; two starts let a caller of the old thread meet the new
one; two calls per caller let a stale request meet its successor; a history of
two is full after two navigations and four navigations shift it and move the
cursor both ways; a cache of three evicts during every listing of a directory
with a link; two names `a` and one `a (1)`, of which others may take one, are the
fewest for a number to meet a name; three devices are the shortest chain with a middle one; three
mounts at two addresses use an address twice; three links per walk are enough to
follow a cycle once round and be refused; with one bucket every unit collides
with every other; a depth limit of three and a single id are reached by the
smallest stack and the second volume, so that the exceptions happen. The runs
switch deadlock checking off because an idle program, and one that used up its
bounds, really does stop; that nobody waits for ever is what the
liveness properties say.

Each module's `TypeOK` (`FilesTypeOK` in `OpenFiles`) says what values its variables
take. It is proved for every module with a state, and the runs are spent on the
properties above. `ResultsInOrder` is proved, and follows from the
refinement that `backend_safety` checks.

Symmetry (of the adapter threads, openings and encodings) is used in safety runs only.

**Fairness.** `Backend!FairSpec` lets the backend thread take its steps, the GUI
thread finish a `backend_stop()` it began, and a caller that has been signalled
return: all three are threads that the operating system schedules. Nothing is owed by the
user: no post, call, start or stop need happen. `NavView!FairSpec` and `LongJobs`
likewise let the backend work and the message loop handle messages, `PathWalk!FairSpec` lets a walk
that began go on, and `Mounts!FairSpec` lets the GUI thread, the worker of a WinFsp
mount, the driver's answer to an eject and the backend thread go on. No drive need end and no menu
be used.

## Where the code does not do what it says

The run `backend_lost_cancel` refutes a promise of the code: `backend_main()` clears
`g_cancel` after it has released the lock under which it took the task, so a
`backend_stop()` or `backend_cancel()` in between is lost, and the task runs to
its end.

Elsewhere the property that holds names the exception, and dropping the exception
from it gives TLC's counterexample:

* `DecodedUnlessSurvived`: `set_fs_encoding()` relies on `refresh()` to supersede
  listings under way, but `refresh()` posts nothing while no directory is shown;
  such a listing is shown in the old decoding.
* `CurrentUnlessStraddled`, `RawCurrent`: a link of a listing whose target cannot be
  read is not inserted, rightly, but then the entry of a later namesake stays under
  the key, although the order of insertion is meant to leave "the one rover_stat()
  finds" (`fusefs.cpp:566`).
* `CurrentUnlessStraddled`: when the open for a file's size fails, `rover_stat()`
  and `fusefs_readdir()` go on without an error, and the unknown size, shown as 0,
  is cached, although "I/O and allocation failures may succeed on a later attempt"
  (`fusefs.cpp:95`).
* `CurrentUnlessStraddled`: `fusefs_invalidate()` clears the cache while a dispatched
  operation may hold entries it read before; what it derives from them goes into the
  cleared cache, although `fusefs.cpp:40` argues that inserts are ordered with the
  change.
* `HandlesExactUnlessRaced`: Dokan may call `fs_read()` on two threads for one
  opening (`dokan.h:334`). Both find a zero Context, both open the file, and one
  handle is never closed.
* `FiniNewestFirst`: `rover_fini()` finalises modules in the order of
  initialisation, so loop devices are freed before the lost devices and array
  members that still have them open.
* `EntersNoKnownDrive`: a drive that ended may have its letter used again before
  its report is handled, and then the late report clears the mask bit of the new one.
* `MenuUnmountsShown`: when the mount shown, or one shown above it, leaves `g_table`
  while the menu is open, the items are numbers into a shorter table and unmount one
  shown further down.
* `ExportTidy`, `AllAccounted`: the results of `DeleteFileW()` in `run_export_image()`
  (`backend.cpp:469`) and of the removal in `extract_file()` (`extract_core.cpp:284`)
  are ignored, so a failed export may leave its temporary file and a failed item its
  first half, under the name the whole file would have.
* `RefsExact`: a volume of an array that is found again on something smaller loses
  the handle it had, even if the new open fails (`diskfilter.c:1418`), and the device it
  was on can never be unmounted.
* `CancelHitsItsJob`: a Cancel pressed while the job still waits behind a hash stops
  the hash and is forgotten by the job.
* `ReadsRight`: a read nested too deeply returns success with its
  buffer unfilled, and the device above caches that buffer; and the 257th encrypted
  volume shares its id, and with it the cache, with the first.
* `BucketsSound`: a bucket keeps one evicted key more than
  `GRUB_CACHE_EVICTED_MAX`, because the new one is not counted; and once the ids of
  encrypted volumes have wrapped, a volume that lies on another one with its id
  reads that one's units under its own keys, and leaves a key twice in one bucket.

Such a property says exactly what goes wrong and catches everything else; it does
not catch the hazard it excepts. In `PROJECT.json` this is noted for the failed wait
of a caller (`WaitCanFail` in `Backend`), the namesake of a failing link, the
cached size, the teardown of lost devices and arrays, the handle of a volume that
moves, Dokan's overlapping callbacks, an early Cancel, reads refused for their depth,
ids used up, the items of a menu after a leave, and two cases of `EntersNoKnownDrive`:
letters shared with a drive that ended, and the window after `DokanCreateFileSystem()`
in which a drive is there and neither in `g_table` nor in the mask
(`dokanfs.cpp:612-622`).

## What is proved

`BackendProof` proves, for any set of callers and any bounds (the assumptions
are `BackendAssumption`, which only gives the bounds their types, and
`NoneAssumption`, which keeps the two "none" values apart from real ones):

* `TypeCorrect`: `TypeOK`;
* `CallsSafe`: a call whose own wait does not fail never comes back false once
  accepted, and its function runs only while the call is blocked, even when the
  waits of other callers fail;
* `QueueSafe`: nothing is queued whose call has returned, waits failing or not;
* `GrubSafe`: grub is used between init and fini only, and no request is left
  when it goes;
* `OvertakingBounded`: a request is overtaken by at most one unit of task work.

None of these is inductive. The invariant `IInv` adds how `g_state`, `g_stop`,
the thread and `backend_stop()` go together (`ThreadInv`), where the request of a
blocked call can be (`CallInv`: queued, claimed or done, and on which
generation of the thread), that queued requests are fresh and distinct
(`QueueInv`), that the claimed one is in neither place (`ClaimInv`), and that a
unit of work can only finish before a request when the thread has passed its
last service point (`BypassInv`). `DoneInv` keeps requests from being reused. The heart of `CallsSafe` is the step
`CallAbandon`: the thread handle is signalled only after the thread has drained the queue with `g_stop`
set, and no call is accepted after `g_stop`, so a call waiting on that generation is
done. There is one lemma per action; `NextInv` collects them.

On top of it:

* `InOrder`: `ResultsInOrder`, through any number of restarts. The invariant
  `Ordered` says that everything delivered, running and queued is one increasing
  sequence of numbers up to `g_seq`, disjoint from what was dropped;
* `Refines`: `Backend` implements `TaskQueue`: each step maps to a post, a
  delivery, a discarding or a stutter.

`NavViewProof` proves, for any directories and devices, sizes of batch, page, window
and history, and any number of navigations, unmountings and changes of the encoding
(`NavViewAssumption`, which types the constants):

* `TypeCorrect`: `TypeOK`, in which the history never outgrows `HIST_MAX` and no
  batch `LIST_SIZE_BATCH`;
* `CursorFollowsView`: `CursorOnView`;
* `SizesOfTheRow`: `SizesRight`;
* `OneBatch`: `BatchAccounted`;
* `DepartedLeaves`: `DepartedNotShown`;
* `DecodedInForce`: `DecodedUnlessSurvived`.

All of them are about answers that come late, so the invariant is about what is
under way. No two tasks or answers have one number and none is from the future
(`Numbers`). While the newest listing is under way it is not on screen, no sizes are
asked for, and if Back or Forward posted it the cursor is on its path already
(`Awaited`). A batch is of the newest listing exactly if it is the one `ask` waits
for, and then it is about the rows `ask` names and the path on screen (`TaskOK`,
`ResultOK`, `AskInv`): this is what lets `fill_list_sizes()` trust a row number. No
listing of a device comes after the answer to its unmounting (`Departures`). That
the rows `RowsToAsk` picks for a batch are without repetition and within the limit
is shown by ranking the rows in sight, with a least counterexample in the place of
an induction.

`FuseCacheProof` proves, for any directories, links and duplicate names, any number
of adapter threads, operations and changes of the decoding, and any size of the cache:

* `TypeCorrect`: `TypeOK`, in which the cache keeps its limit and has no key twice;
* `RawStaysCurrent`: `RawCurrent`;
* `CurrentOtherwise`: `CurrentUnlessStraddled`.

It assumes the types of the constants (`FuseCacheAssumption`), that `Ends` is where the
machine that `Begin`, `Asks` and `Onward` describe gets to from each of its states, and
that the path of an entry, if it is no link, leads into the directory that is listed
(`WalkAssumption`), which holds because `fusefs_readdir()` makes a child's path from the
directory's and its name. TLC checks both on the instance it uses.

The invariant distinguishes how much may be trusted. Whatever happened, an entry of a
physical path has the right object, or one of that name where the listing is still to
insert the first or the first is a link (`RawOK`): a running operation that a clearing
hit can carry over sizes and resolved paths, but takes objects from grub. When the cache
is in use, no operation holds anything from before it was cleared and no failing link
left a namesake (`Good`), every entry is one grub may report, or one a listing with
duplicate names has yet to overwrite (`NodeOK`). `FoundInv` says the same of what the
running operation has in hand: the walk is in a state from which it ends where the whole
path does, what it returned is what the path resolves to or a failure of its own, the
directory listed is where its path leads, and a size is unknown or that of the object
`rover_stat()` finds. `ItemsInv` ties the listing in hand, with the links that failed,
to the encoding in force, which cannot change before the operation ends; inserting
backwards leaves the first of duplicate names, which is the one `rover_stat()` finds
(`LookupFirst`). The lookups of `ancestry()` are walks like any other, and so keep all
of this.

`FusefsProof` proves of path resolution, for every volume, every limit of links and
both modes (`PathWalkAssumption` says that objects lie in directories and that `.` and `..`
are no names):

* `TypeCorrect`: `TypeOK`, of which the part that `cur` always names an object of
  the volume is the point;
* `WalkLinkFree`: what `walk()` returns without an error is free of links;
* `NeverTwice`: a client that enters every directory it is shown is never twice
  in one directory. The invariant is stronger: no directory on the trail is at or
  above an earlier one (`TrailInv`), which is what `loops_back()` tests of a link's
  target; `WalkInv` says that without an error the walk is on a link only when it
  is the last one and not to be followed.

and of the files kept open (`FilesSpec`), for any number of threads, openings, reads
and `rover_file` objects and both kinds of host:

* `HandlesExact`: `HandlesExactUnlessRaced`;
* `VolumeFree`: `ClosedVolumeIsFree`.

The invariant `FilesInv` says who may hold what: a `rover_file` belongs to one opening
(`OwnInv`); on an opening that was not raced only reads of an open file overlap
(`SoloInv`), and so every copy a callback works with is still the opening's word
(`CopyInv`), a closed file is in a word only until the release that closed it
copies its zero back (`LiveInv`), and an open one is in a word or a copy
(`KeptInv`). That FUSE hosts never race is a part of it (`FuseInv`).

`LongJobsProof` proves, for every source volume, contents of the destination,
device size, number of hashes and limit of the walk (`SlotAssumption`,
`ExportAssumption`, `ExtractAssumption`):

* `TypeCorrect`: `TypeOK`; the walk keeps `WalkMaxDepth`, and an item of the work
  list lies in an item before it;
* `DestinationSafe`, `ExportLeavesTidy`: `DestinationWhole` and `ExportTidy`;
* `NeverOverwrites`, `ItemsAccounted`: `NothingOverwritten` and `AllAccounted`;
* `CancelExact`: `CancelHitsItsJob`.

`ExportInv` carries what is known from one host call of the export to the next: an
export that has not failed has a whole, flushed image, or a `g_cancel` that
nobody resets while it runs, and its temporary file is one no other made. `HostInv`
relates the destination to the work list: no two entries have one path, each is of
others or of one item and lies in the directory made for the item's parent, each item
done has one whole or is an error with at most a stuck part. `NothingOverwritten` is
not a part of it: it follows because entries with different paths make the
directories of different items different (`DirsApart`). `CancelInv`
follows the flag from the button to the outcome; proving it showed that an
earlier `ExtractCommitted` was wrong for a selection of nothing but links, for
which `extract()` looks at `g_cancel` once per source and not again.

`MountsProof` proves, for any number of addresses, letters and mounts:

* `TypeCorrect`: `TypeOK`, with `g_table` free of repetitions;
* `ReportsCurrent`: `GoneIsCurrent`;
* `BackendStaysOut`: `EntersNoKnownDrive`;
* `MenuExact`: `MenuUnmountsShown`.

`QueueInv` says that a report names the mount now at its address, if there is one:
an address is used again only after the reports were handled. `MaskInv` says that until
two mounts share a letter the mask covers the table, and what the backend thread
saw there is on other letters than the one it is about to use. `MenuInv` compares an
open menu with the table: nothing is mounted meanwhile, mounts only leave, so what
is left is in the order shown, never moves down, and an item moves up only if one
before it has left (`InPlace`).

`DevicesProof` proves, for any number of devices, files and volumes:

* `TypeCorrect`: `TypeOK`, in which no count drops below zero;
* `ReferencesExact`: `RefsExact`;
* `NothingOrphaned`: `ParentsAttached`;
* `TeardownOrdered`: `FiniNewestFirst`.

The invariant keeps lists newest first (`OrderInv`) and devices younger than
their parents (`BornInv`), from which the order of a teardown follows; `FiniInv`
says what each finished module has left. References are compared with holders as
cardinalities, one for each reason to hold a device: children, files, volumes, an
addition under way; a device in `dropped` has more than those.

`DiskCacheProof` proves, for every tree of devices, size of unit, number of
buckets, length of chains, limit of depth, id spaces and set of bad sectors
(`DiskCacheAssumption`):

* `TypeCorrect`: `TypeOK`, in which a cached unit is whole;
* `DepthExact`: `DepthBalanced`;
* `KeysOnce`: `BucketsSound`;
* `SectorsRight`: `ReadsRight`;
* `GoodReadable`: `GoodSectorsReadable`.

A frame does not remember what it was asked for, but it can be told from where it
is and what it has (`From`, `Owed`); `FramesInv` chains the frames, each reading
what the one above it waits for (`Link`), down the tree. A read looks in the cache, recurses
and stores much later; that it still adds no key twice is `FrameAbsent`: what a
waiting frame will store is not in its slot, since the frames below it are of
other devices and so of other keys while ids last (`IdInv`). `CacheRight` and `FrameRight`
say that every sector in the cache and in every frame is the right one, short of a
read refused for its depth or of shared ids; `AnswerOK` passes this, and that only bad
sectors or want of memory make errors, from a frame to the one above; `ErrnoInv` says
that `grub_errno` is no worse than the error returned, since a part returns the one for
the other. The sector on the host that a
sector of a stacked device comes from is a recursive function; the facts about it
are proved by taking the least counterexample. The attempt to prove
`BucketsSound` without its exception for wrapped ids showed the duplicate key
described above, and TLC confirmed it on the instance `MCDiskCache` now has.

Only model-checked: that `walk()` agrees with the recursive definition and that the
work list of an extraction is complete (`WorkComplete`), both about recursive or folded
data that the provers would need an induction for; and all liveness. Liveness under fairness and
`ENABLED` are out of the proof system's reach; only `MCPathWalk` declares a
recursive operator, and nothing is proved there.

## Not modelled

See `components` in `PROJECT.json`. Most of the repository is file system drivers,
decompressors, ciphers and viewers taken over from elsewhere: sequential parsers
of formats, for which testing and fuzzing do more than a model. In the modules
above: `PostMessage` is reliable except where `Backend` says so; memory
exhaustion only where the code handles it in a way that matters (cache entries,
additions of devices, disk reads); wrapping of 32-bit sequence numbers (it takes
2^32 tasks); lostdisk's temporary probe device, which is an attach and a detach
in `DiskCache`; the remap overlay of `lostdisk_read()`; times of extracted files
and the replacement of characters in names (`Extract` compares names as the host
does); loading and installing the mount runtimes; entries of one name in a
directory (`PathWalk`; `FuseCache` has them), with which `loops_back()` may resolve
another entry than the one listed; media that are exchanged while the cache is
young, which `grub_disk_open()` probes with the old partition table; mounts that show
links as links in `FuseCache` (`PathWalk` has both modes), names that a
case-insensitive driver finds in another spelling, and links whose target can never be
read; others that remove or rename what an extraction made; BitLocker's
`dev->read_sectors`, which reads sector by sector from relocated places (that of
VeraCrypt volumes reads as modelled).

## Plan

1. `LostScan`: slices, resumption, abandoning of the lost-partition scan.
2. Pure algorithms: natural order, remap overlay of `lostdisk_read()`, file map
   output.
3. References that encrypted volumes hold on their parents, in `Devices`.
