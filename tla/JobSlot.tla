------------------------------ MODULE JobSlot ------------------------------
(***************************************************************************)
(* The one long job of the GUI and its cancellation (FsRover/mainjob.cpp,  *)
(* propsdlg.cpp, backend_cancel() and the task loop of backend.cpp).       *)
(*                                                                         *)
(* g_cancel names no task: it stops whatever task is running and looks at  *)
(* it, and is reset when a task begins.  The Cancel button may be pressed  *)
(* while the job still waits behind a hash, and the properties dialog      *)
(* cancels its hash by the same flag.                                      *)
(***************************************************************************)
EXTENDS Integers, Sequences, FiniteSets

CONSTANT MaxHashes  \* bound: hashes asked for

ASSUME SlotAssumption == MaxHashes \in Nat

VARIABLES
  queue,      \* tasks waiting: "hash", "extract", "export"
  running,    \* the task the backend thread has taken, or "none"
  begun,      \* it was begun: g_cancel is reset
  cancel,     \* g_cancel
  done,       \* WM_APP_TASK_DONE messages: the task, and its seq if a hash
  extracting, \* g_extracting
  outcome,    \* of the job: "none", "ok", "failed"
  pressed,    \* when the Cancel button was pressed, see PressCancel
  dialog,     \* the properties dialog is open
  hashing,    \* g_hashing
  hashes      \* hashes asked for; the last one is g_seq_hash

slotVars == <<queue, running, begun, cancel, done, extracting, outcome, pressed,
              dialog, hashing, hashes>>

Jobs == {"extract", "export"}

SlotInit ==
  /\ queue = <<>> /\ running = "none" /\ begun = FALSE /\ cancel = FALSE
  /\ done = <<>> /\ extracting = FALSE /\ outcome = "none" /\ pressed = "no"
  /\ dialog = FALSE /\ hashing = FALSE /\ hashes = 0

-----------------------------------------------------------------------------
(* GUI thread.                                                             *)

\* start_extract() or start_export(); one job is followed.
StartJob(kind) ==
  /\ ~extracting /\ ~dialog /\ outcome = "none"
  /\ extracting' = TRUE
  /\ queue' = Append(queue, kind)
  /\ UNCHANGED <<running, begun, cancel, done, outcome, pressed, dialog, hashing,
                 hashes>>

\* The button, once.  "early": the job has not begun; "late": it has looked at
\* g_cancel for the last time; "heard": in between.
PressCancel(committed) ==
  /\ extracting /\ ~dialog /\ pressed = "no"
  /\ cancel' = TRUE
  /\ pressed' = IF running \in Jobs /\ begun
                THEN IF committed THEN "late" ELSE "heard"
                ELSE IF outcome = "none" THEN "early" ELSE "late"
  /\ UNCHANGED <<queue, running, begun, done, extracting, outcome, dialog, hashing,
                 hashes>>

OpenProps ==
  /\ ~dialog
  /\ dialog' = TRUE /\ hashing' = FALSE
  /\ UNCHANGED <<queue, running, begun, cancel, done, extracting, outcome, pressed,
                 hashes>>

StartHash ==
  /\ dialog /\ ~hashing /\ hashes < MaxHashes
  /\ hashing' = TRUE /\ hashes' = hashes + 1
  /\ queue' = Append(queue, "hash")
  /\ UNCHANGED <<running, begun, cancel, done, extracting, outcome, pressed, dialog>>

\* Faulty: the dialog cancels whether or not a job is there.
ClosePropsBlindly ==
  /\ dialog
  /\ dialog' = FALSE /\ hashing' = FALSE
  /\ cancel' = (cancel \/ hashing)
  /\ UNCHANGED <<queue, running, begun, done, extracting, outcome, pressed, hashes>>

CloseProps ==
  /\ dialog
  /\ dialog' = FALSE /\ hashing' = FALSE
  /\ cancel' = (cancel \/ (hashing /\ ~extracting))
  /\ UNCHANGED <<queue, running, begun, done, extracting, outcome, pressed, hashes>>

\* Faulty: results are dropped while the dialog is open.
HandleDoneLost ==
  /\ done # <<>>
  /\ done' = Tail(done)
  /\ IF Head(done).task \in Jobs
     THEN extracting' = (extracting /\ dialog) /\ UNCHANGED hashing
     ELSE /\ hashing' = (hashing /\ ~(dialog /\ Head(done).seq = hashes))
          /\ UNCHANGED extracting
  /\ UNCHANGED <<queue, running, begun, cancel, outcome, pressed, dialog, hashes>>

\* on_task_done(): job_finish() or props_on_hash().
HandleDone ==
  /\ done # <<>>
  /\ done' = Tail(done)
  /\ IF Head(done).task \in Jobs
     THEN extracting' = FALSE /\ UNCHANGED hashing
     ELSE /\ hashing' = (hashing /\ ~(dialog /\ Head(done).seq = hashes))
          /\ UNCHANGED extracting
  /\ UNCHANGED <<queue, running, begun, cancel, outcome, pressed, dialog, hashes>>

-----------------------------------------------------------------------------
(* Backend thread.                                                         *)

TakeTask ==
  /\ running = "none" /\ queue # <<>>
  /\ running' = Head(queue) /\ queue' = Tail(queue)
  /\ begun' = FALSE
  /\ UNCHANGED <<cancel, done, extracting, outcome, pressed, dialog, hashing, hashes>>

BeginTask ==
  /\ running # "none" /\ ~begun
  /\ begun' = TRUE /\ cancel' = FALSE
  /\ UNCHANGED <<queue, running, done, extracting, outcome, pressed, dialog, hashing,
                 hashes>>

\* Hashes run in the order they were asked for.
HashesLeft == Cardinality({i \in DOMAIN queue : queue[i] = "hash"})

HashEnds ==
  /\ running = "hash" /\ begun
  /\ running' = "none"
  /\ done' = Append(done, [task |-> "hash", seq |-> hashes - HashesLeft])
  /\ UNCHANGED <<queue, begun, cancel, extracting, outcome, pressed, dialog, hashing,
                 hashes>>

JobRuns(kind) == running = kind /\ begun

\* A job's last step.
JobEnds(result) ==
  /\ running' = "none"
  /\ outcome' = result
  /\ done' = Append(done, [task |-> running])
  /\ UNCHANGED <<queue, begun, cancel, extracting, pressed, dialog, hashing, hashes>>

SlotUser ==
  \/ \E kind \in Jobs : StartJob(kind)
  \/ OpenProps \/ StartHash \/ CloseProps

=============================================================================
