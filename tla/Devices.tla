------------------------------ MODULE Devices ------------------------------
(***************************************************************************)
(* The virtual disks of Rover: images mounted from a grub path (loopdisk.c)*)
(* or from a host file (winfile.c), windows of another disk (lostdisk.c),  *)
(* the arrays diskfilter.c finds on them, and their teardown by            *)
(* rover_fini() (rover/init.c).                                            *)
(*                                                                         *)
(* A device keeps its parent open and counts who keeps it open.  All of    *)
(* this runs on the backend thread.  Devices are numbered as they are      *)
(* made; 0 stands for the host's own disks and files, which need no        *)
(* counting.                                                               *)
(***************************************************************************)
EXTENDS Naturals, Sequences, FiniteSets, SequencesExt

CONSTANTS
  MaxDevs,   \* bound: devices made
  MaxUsers,  \* bound: files open on one device at a time
  Size       \* per device: how large a volume found on it is

Host == 0
Dev == 1..MaxDevs

ASSUME DevicesAssumption ==
  MaxDevs \in Nat /\ MaxUsers \in Nat /\ Size \in [Dev -> Nat]

Kinds == {"loop", "lost", "file"}

\* The order of ROVER_MODULE_LIST, in which the modules are initialised and
\* in which rover_fini() finalises them.
ModuleList == <<"loop", "lost", "file", "array">>

VARIABLES
  made,     \* devices made so far
  kind,     \* per device
  parent,   \* per device: what it keeps open
  list,     \* per kind: attached devices, newest first
  refcnt,   \* per device
  users,    \* per device: files open on it
  pvs,      \* physical volumes of the arrays: the devices they keep open
  dropped,  \* devices of which a physical volume lost a handle (bound: a move
            \* within a device, or a failed one, loses it one handle)
  adding,   \* the rover_*_add() under way: what it will make, or none
  phase,    \* 0, or the module being finalised
  misclosed \* <<kind, parent's kind>> of closes that hit a freed parent

vars == <<made, kind, parent, list, refcnt, users, pvs, dropped, adding, phase, misclosed>>

NoAdd == [kind |-> "none", parent |-> Host]

Elems(s) == {s[i] : i \in 1..Len(s)}

Attached == UNION {Elems(list[k]) : k \in Kinds}

Init ==
  /\ made = 0
  /\ kind = [d \in Dev |-> "file"]
  /\ parent = [d \in Dev |-> Host]
  /\ list = [k \in Kinds |-> <<>>]
  /\ refcnt = [d \in Dev |-> 0]
  /\ users = [d \in Dev |-> 0]
  /\ pvs = <<>>
  /\ dropped = {}
  /\ adding = NoAdd
  /\ phase = 0
  /\ misclosed = {}

-----------------------------------------------------------------------------
(* Opening and closing.                                                    *)

\* loopdisk_open(), lostdisk_open(), winfile_open().
Open(d) ==
  refcnt' = IF d = Host THEN refcnt ELSE [refcnt EXCEPT ![d] = @ + 1]

\* loopdisk_close(), lostdisk_close(), winfile_close().
Close(d) ==
  refcnt' = IF d = Host THEN refcnt ELSE [refcnt EXCEPT ![d] = @ - 1]

\* rover_file_open() on a device, and rover_file_close().
OpenFile(d) ==
  /\ phase = 0 /\ adding = NoAdd
  /\ d \in Attached /\ users[d] < MaxUsers
  /\ Open(d)
  /\ users' = [users EXCEPT ![d] = @ + 1]
  /\ UNCHANGED <<made, kind, parent, list, pvs, dropped, adding, phase, misclosed>>

CloseFile(d) ==
  /\ phase = 0 /\ adding = NoAdd
  /\ users[d] > 0
  /\ Close(d)
  /\ users' = [users EXCEPT ![d] = @ - 1]
  /\ UNCHANGED <<made, kind, parent, list, pvs, dropped, adding, phase, misclosed>>

\* insert_array() of a volume seen for the first time: it keeps its device
\* open for good.  (One volume per device; the constructor of the array is
\* whichever driver recognised it.)
Scan(d) ==
  /\ phase = 0 /\ adding = NoAdd
  /\ d \in Attached /\ d \notin Elems(pvs)
  /\ Open(d)
  /\ pvs' = Append(pvs, d)
  /\ UNCHANGED <<made, kind, parent, list, users, dropped, adding, phase, misclosed>>

\* insert_array() of a known volume: found again on a smaller device it moves
\* there, and the handle it had is overwritten, not closed.
ScanSmaller(d, i) ==
  /\ phase = 0 /\ adding = NoAdd
  /\ d \in Attached /\ d \notin Elems(pvs)
  /\ i \in 1..Len(pvs) /\ Size[d] < Size[pvs[i]]
  /\ Open(d)
  /\ pvs' = [pvs EXCEPT ![i] = d]
  /\ dropped' = dropped \cup {pvs[i]}
  /\ UNCHANGED <<made, kind, parent, list, users, adding, phase, misclosed>>

\* The volume is found again on a partition of the device it is on: the device
\* is opened once more and its first handle is overwritten.
ScanWithin(i) ==
  /\ phase = 0 /\ adding = NoAdd
  /\ i \in 1..Len(pvs) /\ pvs[i] \notin dropped
  /\ Open(pvs[i])
  /\ dropped' = dropped \cup {pvs[i]}
  /\ UNCHANGED <<made, kind, parent, list, users, pvs, adding, phase, misclosed>>

\* The disk the volume would move to cannot be opened: its handle is
\* overwritten all the same, and the next scan that finds it counts it anew.
ScanLost(i) ==
  /\ phase = 0 /\ adding = NoAdd
  /\ i \in 1..Len(pvs) /\ pvs[i] \notin dropped
  /\ pvs' = RemoveAt(pvs, i)
  /\ dropped' = dropped \cup {pvs[i]}
  /\ UNCHANGED <<made, kind, parent, list, refcnt, users, adding, phase, misclosed>>

-----------------------------------------------------------------------------
(* rover_loopback_add(), rover_lost_add_ex(), rover_winfile_add().         *)

\* The backing file or disk is opened first.
AddBegin(k, p) ==
  /\ phase = 0 /\ adding = NoAdd
  /\ made < MaxDevs
  /\ p \in Attached \cup {Host}
  /\ k = "file" => p = Host
  /\ Open(p)
  /\ adding' = [kind |-> k, parent |-> p]
  /\ UNCHANGED <<made, kind, parent, list, users, pvs, dropped, phase, misclosed>>

\* Faulty: the new device goes to the end of its list.
AddCommitLast ==
  /\ adding # NoAdd
  /\ made' = made + 1
  /\ kind' = [kind EXCEPT ![made + 1] = adding.kind]
  /\ parent' = [parent EXCEPT ![made + 1] = adding.parent]
  /\ list' = [list EXCEPT ![adding.kind] = Append(@, made + 1)]
  /\ adding' = NoAdd
  /\ UNCHANGED <<refcnt, users, pvs, dropped, phase, misclosed>>

\* The new device becomes the head of its list.
AddCommit ==
  /\ adding # NoAdd
  /\ made' = made + 1
  /\ kind' = [kind EXCEPT ![made + 1] = adding.kind]
  /\ parent' = [parent EXCEPT ![made + 1] = adding.parent]
  /\ list' = [list EXCEPT ![adding.kind] = <<made + 1>> \o @]
  /\ adding' = NoAdd
  /\ UNCHANGED <<refcnt, users, pvs, dropped, phase, misclosed>>

\* Faulty: the failure path forgets the parent.
AddFailKeep ==
  /\ adding # NoAdd
  /\ adding' = NoAdd
  /\ UNCHANGED <<made, kind, parent, list, refcnt, users, pvs, dropped, phase, misclosed>>

\* Out of memory, a bad range, an undecodable image: what was opened is closed.
AddFail ==
  /\ adding # NoAdd
  /\ Close(adding.parent)
  /\ adding' = NoAdd
  /\ UNCHANGED <<made, kind, parent, list, users, pvs, dropped, phase, misclosed>>

\* A device is taken out of its list where it is found.
Unlink(d) ==
  LET k == kind[d]
  IN \E i \in 1..Len(list[k]) :
       list[k][i] = d /\ list' = [list EXCEPT ![k] = RemoveAt(@, i)]

\* Faulty: a device still in use is removed.
DelInUse(d) ==
  /\ phase = 0 /\ adding = NoAdd
  /\ d \in Attached
  /\ Unlink(d)
  /\ Close(parent[d])
  /\ UNCHANGED <<made, kind, parent, users, pvs, dropped, adding, phase, misclosed>>

\* rover_*_del(): refused while referenced.
Del(d) ==
  /\ phase = 0 /\ adding = NoAdd
  /\ d \in Attached
  /\ refcnt[d] = 0
  /\ Unlink(d)
  /\ Close(parent[d])
  /\ UNCHANGED <<made, kind, parent, users, pvs, dropped, adding, phase, misclosed>>

-----------------------------------------------------------------------------
(* rover_fini().                                                           *)

\* Nobody uses grub any more.
FiniBegin ==
  /\ phase = 0 /\ adding = NoAdd
  /\ phase' = 1
  /\ UNCHANGED <<made, kind, parent, list, refcnt, users, pvs, dropped, adding, misclosed>>

\* A close during teardown: harmless while the parent still exists.
FiniClose(k, d) ==
  IF d # Host /\ d \notin Attached
  THEN misclosed' = misclosed \cup {<<k, kind[d]>>} /\ UNCHANGED refcnt
  ELSE Close(d) /\ UNCHANGED misclosed

\* The *_fini() of a device module frees its list from the head.
FiniDevice ==
  /\ phase \in 1..Len(ModuleList) /\ ModuleList[phase] \in Kinds
  /\ LET k == ModuleList[phase] IN
     /\ list[k] # <<>>
     /\ list' = [list EXCEPT ![k] = Tail(@)]
     /\ FiniClose(k, parent[Head(list[k])])
  /\ UNCHANGED <<made, kind, parent, users, pvs, dropped, adding, phase>>

\* free_array() closes the physical volumes.
FiniArray ==
  /\ phase \in 1..Len(ModuleList) /\ ModuleList[phase] = "array"
  /\ pvs # <<>>
  /\ pvs' = Tail(pvs)
  /\ FiniClose("array", Head(pvs))
  /\ UNCHANGED <<made, kind, parent, list, users, dropped, adding, phase>>

\* The next module.
FiniNext ==
  /\ phase \in 1..Len(ModuleList)
  /\ IF ModuleList[phase] = "array" THEN pvs = <<>> ELSE list[ModuleList[phase]] = <<>>
  /\ phase' = phase + 1
  /\ UNCHANGED <<made, kind, parent, list, refcnt, users, pvs, dropped, adding, misclosed>>

Next ==
  \/ \E d \in Dev : OpenFile(d) \/ CloseFile(d) \/ Scan(d) \/ Del(d)
  \/ \E d, i \in Dev : ScanSmaller(d, i)
  \/ \E i \in Dev : ScanWithin(i) \/ ScanLost(i)
  \/ \E k \in Kinds, p \in Dev \cup {Host} : AddBegin(k, p)
  \/ AddCommit \/ AddFail
  \/ FiniBegin \/ FiniDevice \/ FiniArray \/ FiniNext

Spec == Init /\ [][Next]_vars
-----------------------------------------------------------------------------
(* Properties.                                                             *)

\* Every variable has its type, and a device is attached once, under its kind.
TypeOK ==
  /\ made \in 0..MaxDevs
  /\ kind \in [Dev -> Kinds]
  /\ parent \in [Dev -> Dev \cup {Host}]
  /\ list \in [Kinds -> Seq(1..made)]
  /\ \A k \in Kinds : \A i, j \in 1..Len(list[k]) :
       /\ kind[list[k][i]] = k
       /\ list[k][i] = list[k][j] => i = j
  /\ refcnt \in [Dev -> Nat]
  /\ users \in [Dev -> 0..MaxUsers]
  /\ pvs \in Seq(Dev)
  /\ dropped \subseteq Dev
  /\ adding \in [kind : Kinds \cup {"none"}, parent : Dev \cup {Host}]
  /\ phase \in 0..(Len(ModuleList) + 1)
  /\ misclosed \subseteq (Kinds \cup {"array"}) \X Kinds

\* Whoever keeps a device open.
Holders(d) ==
  users[d]
  + Cardinality({c \in Attached : parent[c] = d})
  + (IF d \in Elems(pvs) THEN 1 ELSE 0)
  + (IF adding # NoAdd /\ adding.parent = d THEN 1 ELSE 0)

\* A device can be unmounted as soon as, and not before, nobody keeps it open:
\* failed additions leave no reference behind, and the only handles ever lost
\* are those of volumes found again on something smaller.
RefsExact ==
  phase = 0 => \A d \in Attached :
    IF d \in dropped THEN refcnt[d] > Holders(d) ELSE refcnt[d] = Holders(d)

\* "The device keeps its parent open": no device outlives what it reads from,
\* nor does an open file or an array outlive its device.
ParentsAttached ==
  phase = 0 =>
    /\ \A d \in Attached : parent[d] \in Attached \cup {Host}
    /\ \A d \in Dev : users[d] > 0 => d \in Attached
    /\ Elems(pvs) \cup dropped \subseteq Attached

\* Freeing each list from its newest device never closes a freed parent of the
\* same kind, and loop devices go before whatever they were opened on.  The
\* order of the modules leaves two cases that are not so: a lost device is
\* closed after the loop device it lies on was freed, and an array's volume
\* after any device.
FiniNewestFirst ==
  \A m \in misclosed : m = <<"lost", "loop">> \/ m[1] = "array"
=============================================================================
