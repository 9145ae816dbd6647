------------------------------ MODULE LongJobs ------------------------------
(***************************************************************************)
(* The long job of the GUI, extraction or image export, with the slot it   *)
(* occupies and the flag it is cancelled by.                               *)
(***************************************************************************)
EXTENDS ExportImage, Extract

vars == <<slotVars, exportVars, extractVars>>

Init == SlotInit /\ ExportInit /\ ExtractInit

\* The job that runs, if any, has looked at g_cancel for the last time.
Committed == IF running = "export" THEN ExportCommitted ELSE ExtractCommitted

UserStep ==
  /\ SlotUser \/ PressCancel(Committed)
  /\ UNCHANGED <<exportVars, extractVars>>

GuiStep == HandleDone /\ UNCHANGED <<exportVars, extractVars>>

BackendStep ==
  \/ (TakeTask \/ BeginTask \/ HashEnds) /\ UNCHANGED <<exportVars, extractVars>>
  \/ ExportStep /\ UNCHANGED extractVars
  \/ ExtractStep /\ UNCHANGED exportVars

OtherStep == OtherMakes /\ UNCHANGED exportVars

Next == UserStep \/ GuiStep \/ BackendStep \/ OtherStep

\* The backend thread works on what it has, the GUI thread handles messages.
Spec == Init /\ [][Next]_vars /\ WF_vars(GuiStep) /\ WF_vars(BackendStep)

-----------------------------------------------------------------------------
(* Properties.                                                             *)

\* Every variable has its type.
TypeOK ==
  /\ \A i \in DOMAIN queue : queue[i] \in {"hash"} \cup Jobs
  /\ running \in {"none", "hash"} \cup Jobs
  /\ {begun, cancel, extracting, dialog, hashing} \subseteq BOOLEAN
  /\ outcome \in {"none", "ok", "failed"}
  /\ pressed \in {"no", "early", "heard", "late"}
  /\ hashes \in 0..MaxHashes
  /\ copied \in 0..total /\ attempt \in 0..MaxAttempt + 1
  /\ {failed, flushed, refused, aborted} \subseteq BOOLEAN
  /\ Len(frames) <= WalkMaxDepth
  /\ item \in 1..Len(work) + 1
  /\ \A i \in DOMAIN work : work[i].parent \in 0..i - 1

\* A Cancel pressed while the job looks at g_cancel stops it (only one pressed
\* while the job still waits is forgotten), and "never yank a live extraction"
\* (propsdlg.cpp): a running job finds g_cancel set only if its own button was
\* pressed, however the dialog of the hash is closed.
CancelHitsItsJob ==
  /\ pressed = "heard" => outcome # "ok"
  /\ running \in Jobs /\ begun /\ cancel => pressed \in {"heard", "late"}

\* The slot becomes free again: a job ends whatever fails and however the
\* volume loops, and its result is matched.
SlotFrees == extracting ~> ~extracting
=============================================================================
