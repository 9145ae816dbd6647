---------------------------- MODULE ExportImage ----------------------------
(***************************************************************************)
(* Raw image export: run_export_image() of FsRover/backend.cpp.  The image *)
(* goes into a new sibling of the destination, which replaces the          *)
(* destination when it is complete.  Every step may fail, and the process  *)
(* may die after any of them: what must hold then is stated of every       *)
(* state.                                                                  *)
(***************************************************************************)
EXTENDS JobSlot

CONSTANTS
  MaxChunks,  \* bound: reads that make up the device
  MaxAttempt  \* bound: names of temporary files in use already

ASSUME ExportAssumption == MaxChunks \in Nat /\ MaxAttempt \in Nat

VARIABLES
  at,       \* the step that comes next
  total,    \* chunks of the device, once it is open
  copied,   \* res->stat_bytes
  failed,   \* res->error is set
  flushed,  \* FlushFileBuffers() succeeded
  theirs,   \* temporary files of others, by attempt
  temps,    \* temporary files in the directory of the destination
  attempt,  \* the attempt that made ours, or the next one
  refused,  \* the deletion of ours was refused
  dest      \* the destination: what it was, "old", or the "image" and what is of it

exportVars ==
  <<at, total, copied, failed, flushed, theirs, temps, attempt, refused, dest>>

ExportInit ==
  /\ at = "open" /\ total = 0 /\ copied = 0
  /\ failed = FALSE /\ flushed = FALSE
  /\ theirs \in SUBSET (0..MaxAttempt) /\ temps = theirs
  /\ attempt = 0 /\ refused = FALSE
  /\ dest = [what |-> "old"]

\* A step of the running export that is not its last.
Step(from, to) ==
  /\ JobRuns("export") /\ at = from /\ at' = to
  /\ UNCHANGED <<slotVars, total, theirs>>

\* No source: the export ends at once.
OpenFails ==
  /\ JobRuns("export") /\ at = "open" /\ at' = "end"
  /\ failed' = TRUE
  /\ JobEnds("failed")
  /\ UNCHANGED <<total, copied, flushed, theirs, temps, attempt, refused, dest>>

OpenSource ==
  /\ JobRuns("export") /\ at = "open" /\ at' = "reserve"
  /\ total' \in 0..MaxChunks
  /\ UNCHANGED <<slotVars, copied, failed, flushed, theirs, temps, attempt, refused, dest>>

\* CreateFileW(CREATE_NEW): the name is taken, try the next one.
ReserveTaken ==
  /\ Step("reserve", "reserve")
  /\ attempt \in temps /\ ~cancel
  /\ attempt' = attempt + 1
  /\ UNCHANGED <<copied, failed, flushed, temps, refused, dest>>

\* Faulty: CREATE_ALWAYS takes a name that is taken.
ReserveOver ==
  /\ Step("reserve", "copy")
  /\ temps' = temps \cup {attempt}
  /\ UNCHANGED <<copied, failed, flushed, attempt, refused, dest>>

Reserve ==
  /\ Step("reserve", "copy")
  /\ attempt \notin temps
  /\ temps' = temps \cup {attempt}
  /\ UNCHANGED <<copied, failed, flushed, attempt, refused, dest>>

\* It cannot be made, or the name is taken and the job cancelled.
ReserveFails ==
  /\ JobRuns("export") /\ at = "reserve" /\ at' = "end"
  /\ attempt \in temps => cancel
  /\ failed' = TRUE
  /\ JobEnds("failed")
  /\ UNCHANGED <<total, copied, flushed, theirs, temps, attempt, refused, dest>>

CopyChunk ==
  /\ Step("copy", "copy")
  /\ copied < total /\ ~cancel
  /\ copied' = copied + 1
  /\ UNCHANGED <<failed, flushed, temps, attempt, refused, dest>>

\* A read or write fails, or the device ends early.
CopyFails ==
  /\ Step("copy", "flush")
  /\ copied < total /\ ~cancel
  /\ failed' = TRUE
  /\ UNCHANGED <<copied, flushed, temps, attempt, refused, dest>>

CopyStops ==
  /\ Step("copy", "flush")
  /\ copied = total \/ cancel
  /\ UNCHANGED <<copied, failed, flushed, temps, attempt, refused, dest>>

Flush ==
  /\ Step("flush", "close")
  /\ IF ~failed /\ ~cancel
     THEN flushed' \in BOOLEAN /\ failed' = ~flushed'
     ELSE UNCHANGED <<flushed, failed>>
  /\ UNCHANGED <<copied, temps, attempt, refused, dest>>

\* Close the file, which may fail, then look at g_cancel for the last time.
Close ==
  /\ Step("close", "decide")
  /\ failed' \in {failed, TRUE}
  /\ UNCHANGED <<copied, flushed, temps, attempt, refused, dest>>

\* Faulty: a cancelled export counts as complete.
DecideAnyway ==
  /\ Step("decide", "move")
  /\ UNCHANGED <<copied, failed, flushed, temps, attempt, refused, dest>>

Decide ==
  /\ Step("decide", "move")
  /\ failed' = (failed \/ cancel)
  /\ UNCHANGED <<copied, flushed, temps, attempt, refused, dest>>

\* MoveFileExW() replaces the destination by our file, or fails.
Move ==
  /\ Step("move", "clean")
  /\ ~failed
  /\ \/ /\ dest' = [what |-> "image", chunks |-> copied, flushed |-> flushed]
        /\ temps' = temps \ {attempt}
        /\ UNCHANGED failed
     \/ /\ failed' = TRUE
        /\ UNCHANGED <<dest, temps>>
  /\ UNCHANGED <<copied, flushed, attempt, refused>>

MoveNot ==
  /\ Step("move", "clean")
  /\ failed
  /\ UNCHANGED <<copied, failed, flushed, temps, attempt, refused, dest>>

\* DeleteFileW() of the temporary file, if the export failed.  That it may be
\* refused is not looked at.
Clean ==
  /\ JobRuns("export") /\ at = "clean" /\ at' = "end"
  /\ IF failed
     THEN \/ temps' = temps \ {attempt} /\ UNCHANGED refused
          \/ refused' = TRUE /\ UNCHANGED temps
     ELSE UNCHANGED <<temps, refused>>
  /\ JobEnds(IF failed THEN "failed" ELSE "ok")
  /\ UNCHANGED <<total, copied, failed, flushed, theirs, attempt, dest>>

ExportStep ==
  \/ OpenFails \/ OpenSource \/ ReserveTaken \/ Reserve \/ ReserveFails
  \/ CopyChunk \/ CopyFails \/ CopyStops \/ Flush \/ Close \/ Decide
  \/ Move \/ MoveNot \/ Clean

ExportCommitted == at \in {"move", "clean", "end"}

-----------------------------------------------------------------------------
(* Properties.                                                             *)

\* "A failed or cancelled export must never truncate or delete the existing
\* destination" (backend.cpp): at every moment, a crash included, the
\* destination is what it was or the whole image, on disk.
DestinationWhole ==
  dest.what = "image" => dest.chunks = total /\ dest.flushed

\* "Only the temporary output belongs to an unsuccessful export" (backend.cpp):
\* when the export is through, the directory holds the temporary files of
\* others it held before and none of the export, unless it failed and the
\* deletion was refused, and the destination was replaced exactly if it reports
\* success.
ExportTidy ==
  at = "end" =>
    /\ temps = theirs \cup (IF refused THEN {attempt} ELSE {})
    /\ refused => outcome = "failed"
    /\ outcome = "ok" <=> dest.what = "image"
=============================================================================
