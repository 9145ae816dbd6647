----------------------------- MODULE OpenFiles -----------------------------
(***************************************************************************)
(* The files a mounted volume keeps open (FsRover/dokanfs.cpp,             *)
(* winfspfs.cpp, LinuxRover/main.cpp; fusefs_open(), fusefs_read() and     *)
(* fusefs_release() in common/fusefs.cpp).                                 *)
(*                                                                         *)
(* An opening keeps one 64-bit word: Dokan's Context, zero until the first *)
(* read opens the file, or the fh that the FUSE hosts (WinFsp, Linux) get  *)
(* from open.  A callback works on a copy of the word, hands the work to   *)
(* the backend thread, which serves one callback at a time, and Dokan's    *)
(* callbacks copy the word back.  Which callbacks the hosts make, and      *)
(* which of them may overlap, is what their headers say: reads at the same *)
(* time, reads after Cleanup, Close last and alone.                        *)
(***************************************************************************)
EXTENDS Naturals, FiniteSets

CONSTANTS
  Threads,    \* dispatcher threads of the host
  Openings,   \* openings of files
  MaxReads,   \* bound: reads made
  MaxObjects  \* bound: rover_file objects made

ASSUME OpenFilesAssumption == MaxReads \in Nat /\ MaxObjects \in Nat

VARIABLES
  host,     \* "dokan" or "fuse"
  phase,    \* of an opening: "none", "open", "cleaned", "closing", "closed"
  word,     \* its Context or fh: 0, or the number of a rover_file
  objects,  \* rover_file objects made so far
  freed,    \* those that were closed
  op,       \* per thread: the callback it runs, "none", "read", "release"
  step,     \* per thread: "start" (copied the word), "end" (served)
  on,       \* per thread: the opening it works on
  handle,   \* per thread: its copy of the word
  reads,    \* reads begun
  misused,  \* a closed rover_file was read or closed
  raced,    \* openings on which callbacks overlapped in a way that matters
  lost      \* openings whose release found no backend

fileVars ==
  <<host, phase, word, objects, freed, op, step, on, handle, reads, misused,
   raced, lost>>

Busy(f) == {t \in Threads : op[t] # "none" /\ on[t] = f}

FilesInit ==
  /\ host \in {"dokan", "fuse"}
  /\ phase = [f \in Openings |-> "none"]
  /\ word = [f \in Openings |-> 0]
  /\ objects = 0 /\ freed = {}
  /\ op = [t \in Threads |-> "none"]
  /\ step = [t \in Threads |-> "start"]
  /\ on \in [Threads -> Openings]
  /\ handle = [t \in Threads |-> 0]
  /\ reads = 0 /\ misused = FALSE /\ raced = {} /\ lost = {}

\* Take up a callback: copy the word.
Begin(t, f, kind) ==
  /\ op[t] = "none"
  /\ op' = [op EXCEPT ![t] = kind]
  /\ step' = [step EXCEPT ![t] = "start"]
  /\ on' = [on EXCEPT ![t] = f]
  /\ handle' = [handle EXCEPT ![t] = word[f]]

\* fs_create() of Dokan leaves the word zero; fs_open() of the FUSE hosts has
\* the backend open the file.  A failing open makes no opening.
Create(f) ==
  /\ phase[f] = "none"
  /\ phase' = [phase EXCEPT ![f] = "open"]
  /\ IF host = "dokan"
     THEN UNCHANGED <<word, objects>>
     ELSE /\ objects < MaxObjects
          /\ objects' = objects + 1
          /\ word' = [word EXCEPT ![f] = objects + 1]
  /\ UNCHANGED <<host, freed, op, step, on, handle, reads, misused, raced, lost>>

\* A read that still finds no handle overlaps another read, or a read overlaps
\* a Cleanup.
ReadRaces(f) == \E u \in Busy(f) : word[f] = 0 \/ op[u] = "release"

ReadBegin(t, f) ==
  /\ phase[f] \in {"open", "cleaned"}
  /\ reads < MaxReads
  /\ Begin(t, f, "read")
  /\ reads' = reads + 1
  /\ raced' = IF ReadRaces(f) THEN raced \cup {f} ELSE raced
  /\ UNCHANGED <<host, phase, word, objects, freed, misused, lost>>

\* fusefs_read() on the backend thread: open the file if there is no handle
\* yet, which may fail, then read it.
ReadServe(t) ==
  /\ op[t] = "read" /\ step[t] = "start"
  /\ step' = [step EXCEPT ![t] = "end"]
  /\ IF handle[t] = 0
     THEN /\ objects < MaxObjects
          /\ objects' = objects + 1
          /\ handle' = [handle EXCEPT ![t] = objects + 1]
          /\ UNCHANGED misused
     ELSE /\ misused' = (misused \/ handle[t] \in freed)
          /\ UNCHANGED <<objects, handle>>
  /\ UNCHANGED <<host, phase, word, freed, op, on, reads, raced, lost>>

\* No backend, or no such file any more: the copy stays what it was.
ReadFails(t) ==
  /\ op[t] = "read" /\ step[t] = "start"
  /\ step' = [step EXCEPT ![t] = "end"]
  /\ UNCHANGED <<host, phase, word, objects, freed, op, on, handle, reads,
                 misused, raced, lost>>

\* Faulty: the handle a first read opened is not kept.
ReadEndForgets(t) ==
  /\ op[t] = "read" /\ step[t] = "end"
  /\ op' = [op EXCEPT ![t] = "none"]
  /\ UNCHANGED <<host, phase, word, objects, freed, step, on, handle, reads,
                 misused, raced, lost>>

\* Dokan's fs_read() copies the handle back.
ReadEnd(t) ==
  /\ op[t] = "read" /\ step[t] = "end"
  /\ op' = [op EXCEPT ![t] = "none"]
  /\ word' = IF host = "dokan" THEN [word EXCEPT ![on[t]] = handle[t]] ELSE word
  /\ UNCHANGED <<host, phase, objects, freed, step, on, handle, reads,
                 misused, raced, lost>>

\* Dokan's Cleanup: the last handle of the application is gone, reads of a
\* mapped file may be running or still come.
CleanupBegin(t, f) ==
  /\ host = "dokan"
  /\ phase[f] = "open"
  /\ phase' = [phase EXCEPT ![f] = "cleaned"]
  /\ Begin(t, f, "release")
  /\ raced' = IF Busy(f) # {} THEN raced \cup {f} ELSE raced
  /\ UNCHANGED <<host, word, objects, freed, reads, misused, lost>>

\* The end of the opening: Dokan's fs_close(), or release of the FUSE hosts.
CloseBegin(t, f) ==
  /\ phase[f] = IF host = "dokan" THEN "cleaned" ELSE "open"
  /\ Busy(f) = {}
  /\ phase' = [phase EXCEPT ![f] = "closing"]
  /\ Begin(t, f, "release")
  /\ UNCHANGED <<host, word, objects, freed, reads, misused, raced, lost>>

\* fusefs_release(): close the file, if there is one, on the backend thread;
\* if that cannot be reached the handle is gone all the same.
ReleaseServe(t) ==
  /\ op[t] = "release" /\ step[t] = "start"
  /\ step' = [step EXCEPT ![t] = "end"]
  /\ handle' = [handle EXCEPT ![t] = 0]
  /\ \/ /\ handle[t] # 0
        /\ misused' = (misused \/ handle[t] \in freed)
        /\ freed' = freed \cup {handle[t]}
        /\ UNCHANGED lost
     \/ /\ handle[t] # 0
        /\ lost' = lost \cup {on[t]}
        /\ UNCHANGED <<misused, freed>>
     \/ /\ handle[t] = 0
        /\ UNCHANGED <<misused, freed, lost>>
  /\ UNCHANGED <<host, phase, word, objects, op, on, reads, raced>>

\* Faulty: the word keeps the handle that was closed.
ReleaseEndKeeps(t) ==
  /\ op[t] = "release" /\ step[t] = "end"
  /\ op' = [op EXCEPT ![t] = "none"]
  /\ phase' = [phase EXCEPT ![on[t]] = IF @ = "closing" THEN "closed" ELSE @]
  /\ UNCHANGED <<host, word, objects, freed, step, on, handle, reads,
                 misused, raced, lost>>

\* The word is cleared: fs_cleanup() copies the zero back.
ReleaseEnd(t) ==
  /\ op[t] = "release" /\ step[t] = "end"
  /\ op' = [op EXCEPT ![t] = "none"]
  /\ word' = [word EXCEPT ![on[t]] = handle[t]]
  /\ phase' = [phase EXCEPT ![on[t]] = IF @ = "closing" THEN "closed" ELSE @]
  /\ UNCHANGED <<host, objects, freed, step, on, handle, reads,
                 misused, raced, lost>>

ThreadStep(t) ==
  \/ \E f \in Openings : ReadBegin(t, f) \/ CleanupBegin(t, f) \/ CloseBegin(t, f)
  \/ ReadServe(t) \/ ReadFails(t) \/ ReadEnd(t) \/ ReleaseServe(t) \/ ReleaseEnd(t)

FilesNext == (\E f \in Openings : Create(f)) \/ \E t \in Threads : ThreadStep(t)

FilesSpec == FilesInit /\ [][FilesNext]_fileVars

-----------------------------------------------------------------------------
(* Properties.                                                             *)

\* Every variable has its type.
FilesTypeOK ==
  /\ host \in {"dokan", "fuse"}
  /\ phase \in [Openings -> {"none", "open", "cleaned", "closing", "closed"}]
  /\ word \in [Openings -> 0..MaxObjects]
  /\ objects \in 0..MaxObjects
  /\ freed \in SUBSET (1..MaxObjects)
  /\ op \in [Threads -> {"none", "read", "release"}]
  /\ step \in [Threads -> {"start", "end"}]
  /\ on \in [Threads -> Openings]
  /\ handle \in [Threads -> 0..MaxObjects]
  /\ reads \in 0..MaxReads
  /\ misused \in BOOLEAN
  /\ raced \in SUBSET Openings
  /\ lost \in SUBSET Openings

\* The rover_file objects that something still refers to.
Reachable ==
  {word[f] : f \in Openings} \cup {handle[t] : t \in {u \in Threads : op[u] # "none"}}

Leaked == ((1..objects) \ freed) \ Reachable

\* "It can be called by different threads at the same time, so the
\* read/context has to be thread safe" (dokan.h): no callback touches a
\* rover_file that was closed, and none is left open that nothing refers to.
ContextThreadSafe == ~misused /\ (lost = {} => Leaked = {})

\* The same, except where Dokan's callbacks overlapped on the first read or on
\* Cleanup: nothing else, neither reads after Cleanup, nor failing reads, nor
\* reads at the same time once the file is open, leaks or misuses a handle; and
\* the FUSE hosts never do.
HandlesExactUnlessRaced ==
  host = "fuse" \/ raced = {} => ContextThreadSafe

\* Once every file of the volume is closed, nothing of it is left open, so the
\* device below can be taken away: reads after Cleanup reopen the file, and
\* Close releases it again.
ClosedVolumeIsFree ==
  /\ \A f \in Openings : phase[f] \in {"none", "closed"}
  /\ raced = {} /\ lost = {}
  => freed = 1..objects
=============================================================================
