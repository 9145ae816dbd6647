------------------------------- MODULE Mounts -------------------------------
(***************************************************************************)
(* Drive-letter mounts (FsRover/dokanfs.cpp, winfspfs.cpp, and their use   *)
(* in main.cpp, mountdlg.cpp, mainmenu.cpp, tray.cpp and backend.cpp).     *)
(*                                                                         *)
(* The GUI thread owns g_table and makes and removes mounts, blocking      *)
(* meanwhile.  A mount may also end behind its back; then a thread of the  *)
(* host posts WM_APP_DOKAN_GONE with the address of the dokan_mount, and   *)
(* by the time the message is handled another mount may live there: an     *)
(* address is `a', an incarnation its `gen'.  The backend thread serves    *)
(* the callbacks of all mounts, and reads g_mount_mask before it opens a   *)
(* host file, because a file on one of FsRover's own drives could only be  *)
(* read through a callback to itself.                                      *)
(***************************************************************************)
EXTENDS Naturals, Sequences, FiniteSets, SequencesExt

CONSTANTS
  Addrs,      \* addresses of dokan_mount objects
  Letters,    \* drive letters
  MaxMounts   \* bound: mounts made

ASSUME MountsAssumption == MaxMounts \in Nat

VARIABLES
  mount,   \* Addrs -> the dokan_mount with its host and winfsp_mount
  made,    \* mounts made so far
  table,   \* g_table, addresses in order
  mask,    \* g_mount_mask, as a set of letters
  queue,   \* posted WM_APP_DOKAN_GONE messages
  gui,     \* what the GUI thread is doing, and to which mount
  closing, \* dokanfs_unmount_all() of WM_CLOSE is running
  menu,    \* the mounts whose unmount items an open menu shows
  picked,  \* the item chosen, while its mount is being removed, or Nothing
  backend, \* what the backend thread is doing
  shared   \* two mounts of g_table have had one letter

vars == <<mount, made, table, mask, queue, gui, closing, menu,
          picked, backend, shared>>

Free == [gen |-> 0]
Nothing == [item |-> 0]

\* live: the host's side, "starting", "live" (the letter exists), "ended".
\* worker: the thread winfspfs_mount() starts, "loop", "signalled", "done".
NewMount(l, h) ==
  [gen |-> made + 1, host |-> h, letter |-> l, live |-> "starting",
   asked |-> FALSE, callback |-> FALSE, worker |-> "loop",
   finished |-> FALSE, published |-> FALSE]

InUse == {a \in Addrs : mount[a] # Free}
InTable == {table[i] : i \in DOMAIN table}
Gone(a) == [at |-> a, gen |-> mount[a].gen]
LiveAt(l) == {a \in InUse : mount[a].live = "live" /\ mount[a].letter = l}

Init ==
  /\ mount = [a \in Addrs |-> Free] /\ made = 0
  /\ table = <<>> /\ mask = {} /\ queue = <<>>
  /\ gui = [pc |-> "idle"] /\ closing = FALSE
  /\ menu = <<>> /\ picked = Nothing
  /\ backend = [pc |-> "idle"] /\ shared = FALSE

At(pc) == gui.pc = pc
Goto(pc, a) == gui' = [pc |-> pc, at |-> a]
Idle == gui' = [pc |-> "idle"]

-----------------------------------------------------------------------------
(* The host of a mount (external), and the thread that runs its loop.      *)

HostUp(a) ==
  /\ mount[a].live = "starting" /\ ~mount[a].asked
  /\ mount' = [mount EXCEPT ![a].live = "live"]
  /\ UNCHANGED <<made, table, mask, queue, gui, closing, menu, picked,
                 backend, shared>>

\* The drive is gone; of Dokan that is fs_unmounted(), which posts.
HostEnds(a) ==
  /\ mount' = [mount EXCEPT ![a].live = "ended"]
  /\ queue' = IF mount[a].host = "dokan" THEN Append(queue, Gone(a)) ELSE queue
  /\ UNCHANGED <<made, table, mask, gui, closing, menu, picked, backend, shared>>

\* Ejected by another program, or asked by the GUI thread.
HostEjected(a) == mount[a].live = "live" /\ HostEnds(a)

HostExits(a) ==
  mount[a].asked /\ mount[a].live \in {"starting", "live"} /\ HostEnds(a)

CallbackBegins(a) ==
  /\ mount[a].live = "live" /\ ~mount[a].callback
  /\ mount' = [mount EXCEPT ![a].callback = TRUE]
  /\ UNCHANGED <<made, table, mask, queue, gui, closing, menu, picked,
                 backend, shared>>

\* The loop returns when the drive is gone and its callbacks are through.
LoopReturns(a) ==
  /\ mount[a].host = "winfsp" /\ mount[a].worker = "loop"
  /\ mount[a].live = "ended" /\ ~mount[a].callback
  /\ mount' = [mount EXCEPT ![a].worker = "signalled", ![a].finished = TRUE]
  /\ UNCHANGED <<made, table, mask, queue, gui, closing, menu, picked,
                 backend, shared>>

WorkerReports(a) ==
  /\ mount[a].host = "winfsp" /\ mount[a].worker = "signalled"
  /\ mount' = [mount EXCEPT ![a].worker = "done"]
  /\ queue' = IF mount[a].published THEN Append(queue, Gone(a)) ELSE queue
  /\ UNCHANGED <<made, table, mask, gui, closing, menu, picked, backend, shared>>

HostStep(a) ==
  /\ mount[a] # Free
  /\ \/ HostUp(a) \/ HostEjected(a) \/ HostExits(a)
     \/ CallbackBegins(a) \/ LoopReturns(a) \/ WorkerReports(a)

-----------------------------------------------------------------------------
(* The backend thread.                                                     *)

Calls == {a \in InUse : mount[a].callback}

BackendServes(a) ==
  /\ backend.pc = "idle" /\ a \in Calls
  /\ mount' = [mount EXCEPT ![a].callback = FALSE]
  /\ UNCHANGED <<made, table, mask, queue, gui, closing, menu, picked,
                 backend, shared>>

\* A winfile_add of a file on drive l is next: service_requests() has served
\* the callbacks before it.
AddTake(l) ==
  /\ backend.pc = "idle" /\ Calls = {}
  /\ backend' = [pc |-> "task", letter |-> l]
  /\ UNCHANGED <<mount, made, table, mask, queue, gui, closing, menu,
                 picked, shared>>

\* dokanfs_owns_path() reads the mask.
AddCheck ==
  /\ backend.pc = "task"
  /\ backend' = IF backend.letter \in mask
                THEN [pc |-> "idle"]
                ELSE [pc |-> "checked", letter |-> backend.letter,
                      knew |-> {mount[a].gen : a \in InTable}]
  /\ UNCHANGED <<mount, made, table, mask, queue, gui, closing, menu,
                 picked, shared>>

\* rover_winfile_add() opens it.  On one of our drives that takes a callback,
\* which waits for this thread.
AddOpen ==
  /\ backend.pc = "checked"
  /\ IF LiveAt(backend.letter) = {}
     THEN backend' = [pc |-> "idle"] /\ UNCHANGED mount
     ELSE \E a \in LiveAt(backend.letter) :
            /\ backend' = [pc |-> "inside", gen |-> mount[a].gen,
                           knew |-> backend.knew]
            /\ mount' = [mount EXCEPT ![a].callback = TRUE]
  /\ UNCHANGED <<made, table, mask, queue, gui, closing, menu, picked, shared>>

-----------------------------------------------------------------------------
(* The GUI thread makes a mount.                                           *)

\* User input comes after all posted messages, in the main loop and in the
\* loops of menus and dialogs alike.
Input == At("idle") /\ queue = <<>> /\ ~closing

\* Faulty: the mount is made without a dialog, which would let the posted
\* messages through first.
MountAtOnce(a, l, h) ==
  /\ At("idle") /\ ~closing /\ menu = <<>>
  /\ made < MaxMounts
  /\ mount[a] = Free /\ LiveAt(l) = {}
  /\ mount' = [mount EXCEPT ![a] = NewMount(l, h)]
  /\ made' = made + 1
  /\ Goto(IF h = "winfsp" THEN "poll" ELSE "create", a)
  /\ UNCHANGED <<table, mask, queue, closing, menu, picked, backend, shared>>

\* Faulty: the dialog opens over an open menu.
MountOverMenu(a, l, h) ==
  /\ Input
  /\ made < MaxMounts
  /\ mount[a] = Free /\ LiveAt(l) = {}
  /\ mount' = [mount EXCEPT ![a] = NewMount(l, h)]
  /\ made' = made + 1
  /\ Goto(IF h = "winfsp" THEN "poll" ELSE "create", a)
  /\ UNCHANGED <<table, mask, queue, closing, menu, picked, backend, shared>>

\* The dialog, with a letter that names no drive, then dokanfs_mount().
MountStart(a, l, h) ==
  /\ Input /\ menu = <<>>
  /\ made < MaxMounts
  /\ mount[a] = Free /\ LiveAt(l) = {}
  /\ mount' = [mount EXCEPT ![a] = NewMount(l, h)]
  /\ made' = made + 1
  /\ Goto(IF h = "winfsp" THEN "poll" ELSE "create", a)
  /\ UNCHANGED <<table, mask, queue, closing, menu, picked, backend, shared>>

\* DokanCreateFileSystem() returns when the drive is there, or with an error.
CreateReturns(a) ==
  /\ At("create") /\ mount[a].live # "starting"
  /\ Goto("register", a)
  /\ UNCHANGED <<mount, made, table, mask, queue, closing, menu, picked,
                 backend, shared>>

CreateFails(a) ==
  /\ At("create") /\ mount[a].live = "starting"
  /\ Idle
  /\ mount' = [mount EXCEPT ![a] = Free]
  /\ UNCHANGED <<made, table, mask, queue, closing, menu, picked, backend, shared>>

\* Wait until the letter is there, the loop has ended, or 3 seconds are over.
Poll(a) ==
  /\ At("poll")
  /\ \/ mount[a].live = "live" /\ Goto("publish", a)
     \/ mount[a].live # "live" /\ Goto("fail", a)
  /\ UNCHANGED <<mount, made, table, mask, queue, closing, menu, picked,
                 backend, shared>>

Publish(a) ==
  /\ At("publish")
  /\ Goto("recheck", a)
  /\ mount' = [mount EXCEPT ![a].published = TRUE]
  /\ UNCHANGED <<made, table, mask, queue, closing, menu, picked, backend, shared>>

\* Faulty: finished is not looked at again.
RecheckNot(a) ==
  /\ At("recheck")
  /\ Goto("register", a)
  /\ UNCHANGED <<mount, made, table, mask, queue, closing, menu, picked,
                 backend, shared>>

Recheck(a) ==
  /\ At("recheck")
  /\ \/ /\ mount[a].finished
        /\ mount' = [mount EXCEPT ![a].published = FALSE]
        /\ Goto("fail", a)
     \/ /\ ~mount[a].finished
        /\ Goto("register", a)
        /\ UNCHANGED mount
  /\ UNCHANGED <<made, table, mask, queue, closing, menu, picked, backend, shared>>

\* fail_thread: end the loop, join the worker, free everything.
Fail(a) ==
  /\ At("fail")
  /\ Goto("failjoin", a)
  /\ mount' = [mount EXCEPT ![a].asked = TRUE]
  /\ UNCHANGED <<made, table, mask, queue, closing, menu, picked, backend, shared>>

FailJoin(a) ==
  /\ At("failjoin") /\ mount[a].worker = "done"
  /\ Idle
  /\ mount' = [mount EXCEPT ![a] = Free]
  /\ UNCHANGED <<made, table, mask, queue, closing, menu, picked, backend, shared>>

Register(a) ==
  /\ At("register")
  /\ Idle
  /\ mask' = mask \cup {mount[a].letter}
  /\ table' = Append(table, a)
  /\ shared' = (shared \/ \E b \in InTable : mount[b].letter = mount[a].letter)
  /\ UNCHANGED <<mount, made, queue, closing, menu, picked, backend>>

-----------------------------------------------------------------------------
(* The GUI thread removes a mount: dokanfs_unmount().                      *)

\* Faulty: the bit is cleared before the drive is closed.
ExitUnmasked(a) ==
  /\ At("exit")
  /\ Goto("join", a)
  /\ mount' = [mount EXCEPT ![a].published = FALSE, ![a].asked = TRUE]
  /\ mask' = mask \ {mount[a].letter}
  /\ UNCHANGED <<made, table, queue, closing, menu, picked, backend, shared>>

\* winfspfs_unmount() up to p_exit(), or DokanCloseHandle() begins.
Exit(a) ==
  /\ At("exit")
  /\ Goto("join", a)
  /\ mount' = [mount EXCEPT ![a].published = FALSE, ![a].asked = TRUE]
  /\ UNCHANGED <<made, table, mask, queue, closing, menu, picked, backend, shared>>

\* The worker is joined; DokanCloseHandle() waits for all callbacks.
Join(a) ==
  /\ At("join")
  /\ IF mount[a].host = "winfsp"
     THEN mount[a].worker = "done"
     ELSE mount[a].live = "ended" /\ ~mount[a].callback
  /\ Goto("forget", a)
  /\ UNCHANGED <<mount, made, table, mask, queue, closing, menu, picked,
                 backend, shared>>

Forget(a) ==
  /\ At("forget")
  /\ Idle
  /\ mask' = mask \ {mount[a].letter}
  /\ \E i \in DOMAIN table : table[i] = a /\ table' = RemoveAt(table, i)
  /\ mount' = [mount EXCEPT ![a] = Free]
  /\ picked' = Nothing
  /\ UNCHANGED <<made, queue, closing, menu, backend, shared>>

\* WM_APP_DOKAN_GONE, also in the loop of an open menu.
HandleGone ==
  /\ At("idle") /\ ~closing /\ queue # <<>>
  /\ queue' = Tail(queue)
  /\ LET a == Head(queue).at
     IN IF a \in InTable
        THEN Goto("exit", a)
        ELSE UNCHANGED gui
  /\ UNCHANGED <<mount, made, table, mask, closing, menu, picked, backend, shared>>

\* The unmount items of the menu bar or of the tray icon.
OpenMenu ==
  /\ Input /\ menu = <<>> /\ table # <<>>
  /\ menu' = [i \in DOMAIN table |-> mount[table[i]].gen]
  /\ UNCHANGED <<mount, made, table, mask, queue, gui, closing, picked, backend, shared>>

\* The number of the item is the index into g_table, as it is now.
Choose(i) ==
  /\ Input /\ i \in DOMAIN menu
  /\ menu' = <<>>
  /\ IF i \in DOMAIN table
     THEN /\ Goto("exit", table[i])
          /\ picked' = [item |-> i, shown |-> menu, got |-> mount[table[i]].gen,
                        there |-> {mount[a].gen : a \in InTable}]
     ELSE UNCHANGED <<gui, picked>>
  /\ UNCHANGED <<mount, made, table, mask, queue, closing, backend, shared>>

CloseMenu ==
  /\ Input /\ menu # <<>>
  /\ menu' = <<>>
  /\ UNCHANGED <<mount, made, table, mask, queue, gui, closing, picked, backend,
                 shared>>

CloseWindow ==
  /\ Input /\ menu = <<>>
  /\ closing' = TRUE
  /\ UNCHANGED <<mount, made, table, mask, queue, gui, menu, picked,
                 backend, shared>>

\* dokanfs_unmount_all(), from the back, with no message in between.
UnmountNext ==
  /\ At("idle") /\ closing /\ table # <<>>
  /\ Goto("exit", table[Len(table)])
  /\ UNCHANGED <<mount, made, table, mask, queue, closing, menu, picked,
                 backend, shared>>

-----------------------------------------------------------------------------

\* What the GUI thread does by itself once it has begun.
GuiStep ==
  \/ HandleGone \/ UnmountNext
  \/ /\ ~At("idle")
     /\ LET a == gui.at
        IN \/ CreateReturns(a) \/ CreateFails(a)
           \/ Poll(a) \/ Publish(a) \/ Recheck(a) \/ Fail(a) \/ FailJoin(a)
           \/ Register(a) \/ Exit(a) \/ Join(a) \/ Forget(a)

UserStep ==
  \/ \E a \in Addrs, l \in Letters, h \in {"winfsp", "dokan"} : MountStart(a, l, h)
  \/ OpenMenu \/ CloseMenu \/ CloseWindow
  \/ \E i \in 1..MaxMounts : Choose(i)

BackendStep ==
  AddCheck \/ AddOpen \/ (\E l \in Letters : AddTake(l)) \/ \E a \in Addrs : BackendServes(a)

Next == GuiStep \/ UserStep \/ BackendStep \/ \E a \in Addrs : HostStep(a)

Spec == Init /\ [][Next]_vars

\* The GUI thread goes on with what it has begun and with its messages, hosts
\* end when told to, their workers run, and the backend thread serves.
FairSpec ==
  /\ Spec
  /\ WF_vars(GuiStep) /\ WF_vars(AddCheck \/ AddOpen)
  /\ \A a \in Addrs :
       /\ WF_vars(mount[a] # Free /\ (HostExits(a) \/ LoopReturns(a) \/ WorkerReports(a)))
       /\ WF_vars(BackendServes(a))

-----------------------------------------------------------------------------
(* Properties.                                                             *)

Mount ==
  [gen : 1..MaxMounts, host : {"winfsp", "dokan"}, letter : Letters,
   live : {"starting", "live", "ended"}, asked : BOOLEAN, callback : BOOLEAN,
   worker : {"loop", "signalled", "done"}, finished : BOOLEAN,
   published : BOOLEAN]

\* Every variable has its type, and the mount the GUI thread works on exists.
TypeOK ==
  /\ mount \in [Addrs -> Mount \cup {Free}]
  /\ made \in 0..MaxMounts
  /\ InTable \subseteq InUse /\ Len(table) = Cardinality(InTable)
  /\ mask \subseteq Letters
  /\ \A i \in DOMAIN queue : queue[i] \in [at : Addrs, gen : 1..MaxMounts]
  /\ At("idle") \/ gui.at \in InUse
  /\ {closing, shared} \subseteq BOOLEAN
  /\ picked # Nothing =>
       picked.item \in DOMAIN picked.shown /\ picked.got \in 1..MaxMounts
  /\ \A i \in DOMAIN menu : menu[i] \in 1..MaxMounts
  /\ backend.pc \in {"idle", "task", "checked", "inside"}

\* "validate with dokanfs_find_ptr()" (dokanfs.h): a WM_APP_DOKAN_GONE never
\* names an address in g_table at which another mount lives by now, although
\* addresses are used again and messages of removed mounts stay in the queue.
GoneIsCurrent ==
  \A i \in DOMAIN queue :
    queue[i].at \in InTable => queue[i].gen = mount[queue[i].at].gen

Stuck == backend.pc = "inside"

\* "Do not enter one of our own Dokan mounts here" (backend.cpp): the backend
\* thread opens no file on a drive that was in g_table when it looked at the
\* mask, whatever the GUI thread mounts and unmounts meanwhile; unless two
\* mounts have shared a letter, the drive of the first having ended and its
\* message not come before the letter was used again.
EntersNoKnownDrive == Stuck /\ ~shared => backend.gen \notin backend.knew

\* A menu stays open while mounts end and leave g_table, and its items are then
\* numbers into a shorter table (tray.cpp).  An item still unmounts the drive it
\* shows if that one and all it shows above are there; if one of them has left,
\* it unmounts one that the menu shows further down: never one from above, and
\* never one mounted since the menu was opened.
MenuUnmountsShown ==
  picked # Nothing =>
    /\ \E j \in picked.item..Len(picked.shown) : picked.got = picked.shown[j]
    /\ (\A j \in 1..picked.item : picked.shown[j] \in picked.there) =>
         picked.got = picked.shown[picked.item]

\* A drive that ended leaves g_table: its report is not lost, whether it comes
\* before or after the mount is published. So does every drive when the window
\* is closed: unmounting waits for callbacks, these wait for the backend
\* thread, and that waits for nobody, unless it entered a drive of its own.
EndedLeaves ==
  \A a \in Addrs :
    a \in InTable /\ (mount[a].live = "ended" \/ closing)
      ~> a \notin InTable \/ Stuck
=============================================================================
