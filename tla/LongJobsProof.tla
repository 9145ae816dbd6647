--------------------------- MODULE LongJobsProof ---------------------------
(***************************************************************************)
(* Proofs about the long jobs, for every source volume, contents of the    *)
(* destination, device size, number of hashes and limit of the walk.       *)
(***************************************************************************)
EXTENDS LongJobs, FiniteSetTheorems, TLAPS

\* Messages of the backend thread.
Message == [task : {"hash"}, seq : Int] \cup [task : Jobs]

\* One job is about: it waits, or runs, or has an outcome; g_extracting is set
\* until its message is handled.
SlotInv ==
  /\ queue \in Seq({"hash"} \cup Jobs)
  /\ running \in {"none", "hash"} \cup Jobs
  /\ begun \in BOOLEAN /\ cancel \in BOOLEAN /\ extracting \in BOOLEAN
  /\ dialog \in BOOLEAN /\ hashing \in BOOLEAN
  /\ outcome \in {"none", "ok", "failed"}
  /\ pressed \in {"no", "early", "heard", "late"}
  /\ hashes \in 0..MaxHashes
  /\ done \in Seq(Message)
  /\ \A i, j \in 1..Len(queue) : queue[i] \in Jobs /\ queue[j] \in Jobs => i = j
  /\ \A i \in 1..Len(queue) :
       queue[i] \in Jobs => running \notin Jobs /\ outcome = "none" /\ extracting
  /\ running \in Jobs => outcome = "none" /\ extracting
  /\ \A i \in 1..Len(done) : done[i].task \in Jobs => outcome # "none"

\* A button pressed in time is still seen, or the job has failed; past its last
\* look at g_cancel it knows that it has to fail.
CancelInv ==
  /\ running \in Jobs /\ begun /\ cancel => pressed \in {"heard", "late"}
  /\ pressed = "heard" =>
       \/ running \in Jobs /\ begun /\ cancel
       \/ outcome = "failed"
  /\ pressed = "heard" /\ running = "export" /\ ExportCommitted => failed
  /\ pressed = "heard" /\ running = "extract" /\ ExtractCommitted => aborted

\* The variables of the export have their types.
ExportType ==
  /\ at \in {"open", "reserve", "copy", "flush", "close", "decide", "move", "clean", "end"}
  /\ total \in Nat /\ copied \in 0..total
  /\ theirs \in SUBSET (0..MaxAttempt) /\ attempt \in 0..MaxAttempt + 1
  /\ failed \in BOOLEAN /\ flushed \in BOOLEAN /\ refused \in BOOLEAN
  /\ dest \in [what : {"old"}] \cup [what : {"image"}, chunks : Nat, flushed : BOOLEAN]

\* What is known at each step of the export: which temporary files there are, and
\* that as long as it has not failed the image is complete and flushed, or
\* g_cancel, which nobody resets, is set.
ExportInv ==
  /\ at \notin {"open", "end"} => running = "export" /\ begun
  /\ at = "end" => outcome # "none"
  /\ at = "open" => copied = 0
  /\ at \in {"open", "reserve"} => temps = theirs
  /\ at \in {"copy", "flush", "close", "decide", "move"} =>
       attempt \notin theirs /\ temps = theirs \cup {attempt}
  /\ at # "end" => ~refused
  /\ at \notin {"clean", "end"} => dest.what # "image"
  /\ at = "flush" /\ ~failed => copied = total \/ cancel
  /\ at \in {"close", "decide"} /\ ~failed => (flushed /\ copied = total) \/ cancel
  /\ at = "move" /\ ~failed => flushed /\ copied = total
  /\ at = "clean" =>
       /\ failed <=> dest.what # "image"
       /\ attempt \notin theirs
       /\ temps = IF failed THEN theirs \cup {attempt} ELSE theirs

\* Nodes of the source volume, frames of the walk and items of the work list.
Nodes == DOMAIN volume.kind
Frame == [of : Nat, listed : BOOLEAN, left : Seq(Nodes)]
Item(V) == [node : Nodes, parent : Nat, target : V]

\* The item at a place of a work list is a directory.
DirAt(v, w, i) == v.kind[w[i].node] = "dir"

\* An item lies in a directory before it, or in the root.
WorkOK ==
  /\ \E V : work \in Seq(Item(V))
  /\ \A i \in 1..Len(work) :
       work[i].parent \in 0..i - 1 /\ (work[i].parent # 0 => DirAt(volume, work, work[i].parent))

\* The frames of the walk are of directories, and as many as the limit allows.
FramesOK ==
  /\ frames \in Seq(Frame)
  /\ \A i \in 1..Len(frames) : frames[i].of \in 1..Len(work) /\ DirAt(volume, work, frames[i].of)
  /\ Len(frames) <= WalkMaxDepth
  /\ frames # <<>> /\ Top.listed => Len(frames) < WalkMaxDepth

\* The extraction's place in its work.
WalkInv ==
  /\ volume \in Volumes /\ aborted \in BOOLEAN
  /\ phase \in {"root", "walk", "copy", "make", "file", "out", "end"}
  /\ sources \in Seq(Nodes) /\ links \in Nat
  /\ WorkOK /\ FramesOK
  /\ item \in 1..Len(work) + 1
  /\ phase = "root" => sources # <<>> /\ frames = <<>>
  /\ phase \in {"root", "walk"} => item = 1
  /\ phase \in {"copy", "make", "file"} => sources = <<>> /\ frames = <<>>
  /\ phase \notin {"out", "end"} => ~aborted
  /\ phase \in {"out", "end"} /\ ~aborted => item = Len(work) + 1
  /\ phase \in {"make", "file"} => item <= Len(work)
  /\ phase = "file" => ~DirAt(volume, work, item)

\* The directory made for an item of a work list.
At(w, i) == IF i = 0 THEN <<>> ELSE w[i].target

\* An entry of the destination is of others or of an item taken up; it lies in
\* the directory made for the item's parent.  Only a file being written is a
\* part, and one that could not be removed is an error's or the last.
EntryOK(e) ==
  /\ e = Entry(e.dir, e.name, e.what, e.of)
  /\ e.of \in 0..Len(work)
  /\ e.of = 0 <=> e \in others
  /\ e.of = 0 => e.what = "foreign"
  /\ e.of # 0 => e.what \in {"dir", "part", "whole", "stuck"}
  /\ e.of # 0 => e.dir = At(work, work[e.of].parent)
  /\ \/ e.of < item
     \/ e.of = item /\ phase = "file" /\ e.what = "part"
     \/ e.of = item /\ phase \in {"out", "end"} /\ aborted /\ e.what = "stuck"
  /\ e.what = "part" => phase = "file" /\ e.of = item
  /\ e.what = "stuck" => e.of \in errors \/ (aborted /\ e.of = item)

\* A path is of one entry and an item has one; each directory done is there, each
\* other item done is there or an error.
HostInv ==
  /\ others \subseteq host
  /\ \A e \in host : EntryOK(e)
  /\ \A e, f \in host : Path(e) = Path(f) => e = f
  /\ \A e, f \in host : e.of = f.of /\ e.of # 0 => e = f
  /\ phase = "file" => \E e \in host : e.of = item
  /\ \A i \in 1..item - 1 : DirAt(volume, work, i) =>
       \E e \in host : e.of = i /\ work[i].target = Path(e)
  /\ errors \subseteq 1..item - 1
  /\ \A i \in 1..item - 1 : i \in errors <=> \A e \in host : e.of = i => e.what = "stuck"

\* The inductive invariant.
IInv ==
  /\ SlotInv /\ CancelInv /\ ExportType /\ ExportInv /\ DestinationWhole /\ ExportTidy
  /\ WalkInv /\ HostInv

-----------------------------------------------------------------------------
(* The slot.                                                               *)

\* What the invariant says of the extraction is about its own variables only.
LEMMA ExtractFrame ==
  ASSUME WalkInv, HostInv, UNCHANGED extractVars
  PROVE  WalkInv' /\ HostInv'
<1> USE DEF extractVars
<1>1. \A i : DirAt(volume', work', i) = DirAt(volume, work, i) /\ Target(i)' = Target(i)
  BY DEF DirAt, Target
<1>2. WorkOK' /\ FramesOK'
  BY <1>1 DEF WalkInv, WorkOK, FramesOK, Item, Nodes, Frame, Top
<1>3. WalkInv'
  BY <1>1, <1>2 DEF WalkInv, Nodes
<1>4. HostInv'
  BY <1>1 DEF HostInv, EntryOK, Path
<1> QED BY <1>3, <1>4

\* What the invariant says of the export survives a step that leaves a running
\* export alone.
LEMMA ExportFrame ==
  ASSUME ExportType, ExportInv, DestinationWhole, ExportTidy, UNCHANGED exportVars,
         at = "end" => outcome' = outcome,
         running = "export" /\ begun =>
           UNCHANGED <<running, begun>> /\ (cancel => cancel')
  PROVE  ExportType' /\ ExportInv' /\ DestinationWhole' /\ ExportTidy'
BY DEF exportVars, ExportType, ExportInv, DestinationWhole, ExportTidy

\* A step of the slot alone.
LEMMA SlotFrame ==
  ASSUME IInv, UNCHANGED <<exportVars, extractVars>>, SlotInv', CancelInv',
         outcome' = outcome,
         running = "export" /\ begun =>
           UNCHANGED <<running, begun>> /\ (cancel => cancel')
  PROVE  IInv'
BY ExtractFrame, ExportFrame DEF IInv

\* The flags of the jobs' progress are functions of their variables.
LEMMA CommittedFrame ==
  ASSUME UNCHANGED <<exportVars, extractVars>>
  PROVE  ExportCommitted' = ExportCommitted /\ ExtractCommitted' = ExtractCommitted
BY DEF exportVars, extractVars, ExportCommitted, ExtractCommitted, IsDir, Kind

\* A task is queued last.
LEMMA QueuedLast ==
  ASSUME queue \in Seq({"hash"} \cup Jobs), NEW k \in {"hash"} \cup Jobs,
         queue' = Append(queue, k)
  PROVE  /\ queue' \in Seq({"hash"} \cup Jobs)
         /\ \A i \in 1..Len(queue') : i \notin 1..Len(queue) => i = Len(queue') /\ queue'[i] = k
         /\ \A i \in 1..Len(queue) : queue'[i] = queue[i]
  OBVIOUS

\* Starting a job: there is none about.
LEMMA StartJobStep ==
  ASSUME IInv, NEW kind \in Jobs, StartJob(kind), UNCHANGED <<exportVars, extractVars>>
  PROVE  IInv'
<1>1. UNCHANGED <<running, begun, cancel, done, outcome, pressed, dialog, hashing, hashes>>
  BY DEF StartJob
<1>2. SlotInv'
  <2>1. ~extracting /\ extracting' /\ outcome = "none" /\ queue' = Append(queue, kind)
    BY DEF StartJob
  <2>2. \A i \in 1..Len(queue) : queue[i] \notin Jobs
    BY <2>1 DEF IInv, SlotInv
  <2>3. /\ queue' \in Seq({"hash"} \cup Jobs)
        /\ \A i \in 1..Len(queue') : i \notin 1..Len(queue) => i = Len(queue')
        /\ \A i \in 1..Len(queue) : queue'[i] = queue[i]
    BY <2>1, QueuedLast DEF IInv, SlotInv
  <2>4. \A i, j \in 1..Len(queue') : queue'[i] \in Jobs /\ queue'[j] \in Jobs => i = j
    BY <2>2, <2>3
  <2>5. running \notin Jobs
    BY <2>1 DEF IInv, SlotInv
  <2>6. extracting' \in BOOLEAN
    BY DEF StartJob
  <2> QED BY <1>1, <2>1, <2>3, <2>4, <2>5, <2>6 DEF IInv, SlotInv
<1>3. CancelInv'
  BY <1>1, CommittedFrame DEF IInv, CancelInv, exportVars, extractVars
<1> QED BY <1>1, <1>2, <1>3, SlotFrame

\* The Cancel button.
LEMMA PressCancelStep ==
  ASSUME IInv, PressCancel(Committed), UNCHANGED <<exportVars, extractVars>>
  PROVE  IInv'
<1>1. UNCHANGED <<queue, running, begun, done, extracting, outcome, dialog, hashing, hashes>>
  BY DEF PressCancel
<1>2. cancel' = TRUE
  BY DEF PressCancel
<1>3. SlotInv'
  <2>1. pressed' \in {"no", "early", "heard", "late"}
    BY DEF PressCancel
  <2> QED BY <1>1, <1>2, <2>1 DEF IInv, SlotInv
<1>4. CancelInv'
  <2>1. CASE running \in Jobs /\ begun
    <3>1. pressed' = IF Committed THEN "late" ELSE "heard"
      BY <2>1 DEF PressCancel
    <3>2. pressed' = "heard" /\ running = "export" => ~ExportCommitted
      BY <3>1 DEF Committed
    <3>3. pressed' = "heard" /\ running = "extract" => ~ExtractCommitted
      BY <3>1 DEF Committed
    <3> QED BY <1>1, <1>2, <2>1, <3>1, <3>2, <3>3, CommittedFrame DEF CancelInv
  <2>2. CASE ~(running \in Jobs /\ begun)
    BY <1>1, <2>2 DEF PressCancel, CancelInv
  <2> QED BY <2>1, <2>2
<1> QED BY <1>1, <1>2, <1>3, <1>4, SlotFrame

\* The properties dialog opens.
LEMMA OpenPropsStep ==
  ASSUME IInv, OpenProps, UNCHANGED <<exportVars, extractVars>>
  PROVE  IInv'
<1>1. UNCHANGED <<queue, running, begun, cancel, done, extracting, outcome, pressed, hashes>>
  BY DEF OpenProps
<1>2. SlotInv'
  <2>1. dialog' \in BOOLEAN /\ hashing' \in BOOLEAN
    BY DEF OpenProps
  <2> QED BY <1>1, <2>1 DEF IInv, SlotInv
<1>3. CancelInv'
  BY <1>1, CommittedFrame DEF IInv, CancelInv, exportVars, extractVars
<1> QED BY <1>1, <1>2, <1>3, SlotFrame

\* A hash is asked for.
LEMMA StartHashStep ==
  ASSUME IInv, StartHash, UNCHANGED <<exportVars, extractVars>>
  PROVE  IInv'
<1>1. UNCHANGED <<running, begun, cancel, done, extracting, outcome, pressed, dialog>>
  BY DEF StartHash
<1>2. SlotInv'
  <2>1. queue' = Append(queue, "hash") /\ hashing' = TRUE /\ hashes' \in 0..MaxHashes
    BY SlotAssumption DEF StartHash, IInv, SlotInv
  <2>2. /\ queue' \in Seq({"hash"} \cup Jobs)
        /\ \A i \in 1..Len(queue') : i \notin 1..Len(queue) => queue'[i] = "hash"
        /\ \A i \in 1..Len(queue) : queue'[i] = queue[i]
    BY <2>1, QueuedLast DEF IInv, SlotInv
  <2>3. "hash" \notin Jobs
    BY DEF Jobs
  <2>4. \A i \in 1..Len(queue') : queue'[i] \in Jobs => i \in 1..Len(queue) /\ queue[i] \in Jobs
    BY <2>2, <2>3
  <2> QED BY <1>1, <2>1, <2>2, <2>4 DEF IInv, SlotInv
<1>3. CancelInv'
  BY <1>1, CommittedFrame DEF IInv, CancelInv, exportVars, extractVars
<1> QED BY <1>1, <1>2, <1>3, SlotFrame

\* The properties dialog closes: it cancels its hash only when there is no job.
LEMMA ClosePropsStep ==
  ASSUME IInv, CloseProps, UNCHANGED <<exportVars, extractVars>>
  PROVE  IInv'
<1>1. UNCHANGED <<queue, running, begun, done, extracting, outcome, pressed, hashes>>
  BY DEF CloseProps
<1>2. cancel' \in BOOLEAN /\ (cancel => cancel') /\ (cancel' /\ ~cancel => ~extracting)
  BY DEF CloseProps
<1>3. SlotInv'
  <2>1. dialog' \in BOOLEAN /\ hashing' \in BOOLEAN
    BY DEF CloseProps
  <2> QED BY <1>1, <1>2, <2>1 DEF IInv, SlotInv
<1>4. CancelInv'
  BY <1>1, <1>2, CommittedFrame DEF IInv, SlotInv, CancelInv, exportVars, extractVars
<1> QED BY <1>1, <1>2, <1>3, <1>4, SlotFrame

\* A message is handled: with the job's, no job is about any more.
LEMMA HandleDoneStep ==
  ASSUME IInv, HandleDone, UNCHANGED <<exportVars, extractVars>>
  PROVE  IInv'
<1>1. UNCHANGED <<queue, running, begun, cancel, outcome, pressed, dialog, hashes>>
  BY DEF HandleDone
<1>2. SlotInv'
  <2>1. done # <<>> /\ done \in Seq(Message) /\ done' = Tail(done)
    BY DEF HandleDone, IInv, SlotInv
  <2>2. /\ Len(done) \in Nat /\ Len(done) > 0 /\ done' \in Seq(Message)
        /\ Len(done') = Len(done) - 1 /\ Head(done) = done[1]
        /\ \A i \in 1..Len(done') : done'[i] = done[i + 1] /\ i + 1 \in 1..Len(done)
    BY <2>1
  <2>3. \A i \in 1..Len(done') : done'[i].task \in Jobs => outcome # "none"
    BY <2>2 DEF IInv, SlotInv
  <2>4. hashing' \in BOOLEAN /\ extracting' \in BOOLEAN
    BY Zenon DEF HandleDone, IInv, SlotInv
  <2>5. extracting' = extracting \/ outcome # "none"
    BY <2>2 DEF HandleDone, IInv, SlotInv
  <2> QED BY <1>1, <2>2, <2>3, <2>4, <2>5 DEF IInv, SlotInv
<1>3. CancelInv'
  BY <1>1, CommittedFrame DEF IInv, CancelInv, exportVars, extractVars
<1> QED BY <1>1, <1>2, <1>3, SlotFrame

\* The backend thread takes a task.
LEMMA TakeTaskStep ==
  ASSUME IInv, TakeTask, UNCHANGED <<exportVars, extractVars>>
  PROVE  IInv'
<1>1. UNCHANGED <<cancel, done, extracting, outcome, pressed, dialog, hashing, hashes>>
  BY DEF TakeTask
<1>2. running = "none" /\ running' = Head(queue) /\ queue' = Tail(queue) /\ begun' = FALSE
  BY DEF TakeTask
<1>3. SlotInv'
  <2>1. /\ Len(queue) \in Nat /\ Len(queue) > 0 /\ queue' \in Seq({"hash"} \cup Jobs)
        /\ Len(queue') = Len(queue) - 1 /\ running' = queue[1]
        /\ running' \in {"hash"} \cup Jobs
        /\ \A i \in 1..Len(queue') : queue'[i] = queue[i + 1] /\ i + 1 \in 1..Len(queue)
    BY <1>2 DEF TakeTask, IInv, SlotInv
  <2>2. ASSUME NEW i \in 1..Len(queue'), NEW j \in 1..Len(queue'),
               queue'[i] \in Jobs, queue'[j] \in Jobs
        PROVE  i = j
    <3>1. i + 1 = j + 1
      BY <2>1, <2>2 DEF IInv, SlotInv
    <3> QED BY <2>1, <3>1
  <2>3. ASSUME NEW i \in 1..Len(queue'), queue'[i] \in Jobs
        PROVE  running' \notin Jobs /\ outcome = "none" /\ extracting
    <3>1. i + 1 \in 1..Len(queue) /\ queue[i + 1] \in Jobs /\ 1 \in 1..Len(queue) /\ i + 1 # 1
      BY <2>1, <2>3
    <3> QED BY <2>1, <3>1 DEF IInv, SlotInv
  <2>4. running' \in Jobs => outcome = "none" /\ extracting
    BY <2>1 DEF IInv, SlotInv
  <2>5. begun' \in BOOLEAN
    BY <1>2
  <2> QED BY <1>1, <2>1, <2>2, <2>3, <2>4, <2>5 DEF IInv, SlotInv
<1>4. CancelInv'
  <2>1. running \notin Jobs /\ begun' = FALSE
    BY <1>2 DEF Jobs
  <2>2. pressed = "heard" => outcome = "failed"
    BY <2>1 DEF IInv, CancelInv
  <2>3. outcome = "failed" => running' \notin Jobs
    BY <1>3, <1>1 DEF SlotInv
  <2> QED BY <1>1, <2>1, <2>2, <2>3 DEF IInv, CancelInv, Jobs
<1> QED BY <1>1, <1>2, <1>3, <1>4, SlotFrame

\* A task begins and resets g_cancel.
LEMMA BeginTaskStep ==
  ASSUME IInv, BeginTask, UNCHANGED <<exportVars, extractVars>>
  PROVE  IInv'
<1>1. UNCHANGED <<queue, running, done, extracting, outcome, pressed, dialog, hashing, hashes>>
  BY DEF BeginTask
<1>2. ~begun /\ begun' = TRUE /\ cancel' = FALSE
  BY DEF BeginTask
<1>3. SlotInv'
  BY <1>1, <1>2 DEF IInv, SlotInv
<1>4. CancelInv'
  BY <1>1, <1>2, CommittedFrame DEF IInv, CancelInv, SlotInv, exportVars, extractVars
<1> QED BY <1>1, <1>2, <1>3, <1>4, SlotFrame

\* The number of hashes waiting is a number.
LEMMA HashesLeftType ==
  ASSUME SlotInv
  PROVE  HashesLeft \in Nat
<1> DEFINE H == {i \in DOMAIN queue : queue[i] = "hash"}
<1>1. Len(queue) \in Nat /\ DOMAIN queue = 1..Len(queue)
  BY DEF SlotInv
<1>2. IsFiniteSet(1..Len(queue)) /\ H \in SUBSET (1..Len(queue))
  BY <1>1, FS_Interval
<1> HIDE DEF H
<1>3. IsFiniteSet(H)
  BY <1>2, FS_Subset
<1>4. Cardinality(H) \in Nat
  BY <1>3, FS_CardinalityType
<1> QED BY <1>4 DEF H, HashesLeft

\* A message of the backend thread is queued last.
LEMMA MessageLast ==
  ASSUME done \in Seq(Message), NEW m \in Message, done' = Append(done, m)
  PROVE  /\ done' \in Seq(Message)
         /\ \A i \in 1..Len(done') : i \notin 1..Len(done) => done'[i] = m
         /\ \A i \in 1..Len(done) : done'[i] = done[i]
  OBVIOUS

\* A hash ends.
LEMMA HashEndsStep ==
  ASSUME IInv, HashEnds, UNCHANGED <<exportVars, extractVars>>
  PROVE  IInv'
<1>1. UNCHANGED <<queue, begun, cancel, extracting, outcome, pressed, dialog, hashing, hashes>>
  BY DEF HashEnds
<1>2. running = "hash" /\ running' = "none"
  BY DEF HashEnds
<1>3. SlotInv'
  <2> DEFINE m == [task |-> "hash", seq |-> hashes - HashesLeft]
  <2>1. m \in Message
    BY HashesLeftType, SlotAssumption DEF Message, IInv, SlotInv
  <2>2. done \in Seq(Message) /\ done' = Append(done, m)
    BY DEF HashEnds, IInv, SlotInv
  <2>3. m.task \notin Jobs /\ "none" \notin Jobs
    BY DEF Jobs
  <2> HIDE DEF m
  <2>4. done' \in Seq(Message)
        /\ \A i \in 1..Len(done') : done'[i].task \in Jobs => outcome # "none"
    BY <2>1, <2>2, <2>3, MessageLast DEF IInv, SlotInv
  <2> QED BY <1>1, <1>2, <2>3, <2>4 DEF IInv, SlotInv
<1>4. CancelInv'
  BY <1>1, <1>2, CommittedFrame DEF IInv, CancelInv, Jobs, exportVars, extractVars
<1> QED BY <1>1, <1>2, <1>3, <1>4, SlotFrame

\* A job ends: its outcome is known, the slot is not yet free.
LEMMA JobEndsSlot ==
  ASSUME SlotInv, running \in Jobs, NEW result \in {"ok", "failed"}, JobEnds(result)
  PROVE  SlotInv' /\ running' \notin Jobs /\ outcome' = result
<1>1. UNCHANGED <<queue, begun, cancel, extracting, pressed, dialog, hashing, hashes>>
  BY DEF JobEnds
<1>2. running' = "none" /\ outcome' = result /\ "none" \notin Jobs
  BY DEF JobEnds, Jobs
<1>3. \A i \in 1..Len(queue) : queue[i] \notin Jobs
  BY DEF SlotInv
<1>4. [task |-> running] \in Message
  BY DEF Message
<1>5. done' \in Seq(Message)
  BY <1>4, MessageLast DEF SlotInv, JobEnds
<1> QED BY <1>1, <1>2, <1>3, <1>5 DEF SlotInv

-----------------------------------------------------------------------------
(* The export.                                                             *)

\* What is to be shown of the export in the next state.
ExportNext ==
  /\ ExportType' /\ ExportInv' /\ DestinationWhole' /\ ExportTidy'
  /\ pressed = "heard" /\ ExportCommitted' => failed'

\* A step of a running export that is not its last.
LEMMA ExportStepFrame ==
  ASSUME IInv, running = "export", UNCHANGED <<slotVars, extractVars>>, ExportNext
  PROVE  IInv'
<1>1. SlotInv'
  BY DEF IInv, SlotInv, slotVars
<1>2. WalkInv' /\ HostInv'
  BY ExtractFrame DEF IInv
<1>3. CancelInv'
  BY DEF IInv, CancelInv, ExportNext, slotVars
<1> QED BY <1>1, <1>2, <1>3 DEF IInv, ExportNext

\* The last step of a running export.
LEMMA ExportEndFrame ==
  ASSUME IInv, running = "export", UNCHANGED extractVars,
         NEW result \in {"ok", "failed"}, JobEnds(result), ExportNext,
         pressed = "heard" => result = "failed"
  PROVE  IInv'
<1>1. SlotInv' /\ running' \notin Jobs /\ outcome' = result /\ pressed' = pressed
  BY JobEndsSlot DEF IInv, Jobs, JobEnds
<1>2. WalkInv' /\ HostInv'
  BY ExtractFrame DEF IInv
<1>3. CancelInv'
  BY <1>1 DEF CancelInv, Jobs
<1> QED BY <1>1, <1>2, <1>3 DEF IInv, ExportNext

\* While the export runs, a button pressed in time is seen.
LEMMA HeardInExport ==
  ASSUME IInv, running = "export", pressed = "heard"
  PROVE  cancel /\ (ExportCommitted => failed)
BY DEF IInv, CancelInv, SlotInv, Jobs

\* Before the image is moved.
LEMMA ExportPrepares ==
  ASSUME IInv, OpenSource \/ ReserveTaken \/ Reserve, UNCHANGED extractVars
  PROVE  IInv'
<1> USE DEF Step, JobRuns, slotVars
<1>1. running = "export" /\ UNCHANGED slotVars
  BY DEF OpenSource, ReserveTaken, Reserve
<1>2. ~ExportCommitted'
  BY DEF OpenSource, ReserveTaken, Reserve, ExportCommitted
<1>3. ExportType'
  <2>1. attempt' \in 0..MaxAttempt + 1
    BY ExportAssumption DEF OpenSource, ReserveTaken, Reserve, IInv, ExportType, ExportInv
  <2>2. total' \in Nat /\ copied' \in 0..total'
    BY ExportAssumption DEF OpenSource, ReserveTaken, Reserve, IInv, ExportType, ExportInv
  <2> QED BY <2>1, <2>2 DEF OpenSource, ReserveTaken, Reserve, IInv, ExportType
<1>4. ExportInv' /\ DestinationWhole' /\ ExportTidy'
  BY DEF OpenSource, ReserveTaken, Reserve, IInv, ExportInv, DestinationWhole, ExportTidy
<1> QED BY <1>1, <1>2, <1>3, <1>4, ExportStepFrame DEF ExportNext

\* The copy loop ends with the whole image, an error, or g_cancel set.
LEMMA ExportCopies ==
  ASSUME IInv, CopyChunk \/ CopyFails \/ CopyStops, UNCHANGED extractVars
  PROVE  IInv'
<1> USE DEF Step, JobRuns, slotVars
<1>1. running = "export" /\ UNCHANGED slotVars
  BY DEF CopyChunk, CopyFails, CopyStops
<1>2. ~ExportCommitted'
  BY DEF CopyChunk, CopyFails, CopyStops, ExportCommitted
<1>3. ExportType'
  <2>1. failed' \in BOOLEAN
    BY DEF CopyChunk, CopyFails, CopyStops, IInv, ExportType
  <2>2. copied' \in 0..total'
    BY DEF CopyChunk, CopyFails, CopyStops, IInv, ExportType
  <2> QED BY <2>1, <2>2 DEF CopyChunk, CopyFails, CopyStops, IInv, ExportType
<1>4. ExportInv' /\ DestinationWhole' /\ ExportTidy'
  BY DEF CopyChunk, CopyFails, CopyStops, IInv, ExportInv, DestinationWhole, ExportTidy
<1> QED BY <1>1, <1>2, <1>3, <1>4, ExportStepFrame DEF ExportNext

\* Flushing and closing.
LEMMA ExportFlushes ==
  ASSUME IInv, Flush \/ Close, UNCHANGED extractVars
  PROVE  IInv'
<1> USE DEF Step, JobRuns, slotVars
<1>1. running = "export" /\ UNCHANGED slotVars
  BY DEF Flush, Close
<1>2. ~ExportCommitted'
  BY DEF Flush, Close, ExportCommitted
<1>3. ExportType'
  <2>1. failed' \in BOOLEAN /\ flushed' \in BOOLEAN
    BY DEF Flush, Close, IInv, ExportType
  <2> QED BY <2>1 DEF Flush, Close, IInv, ExportType
<1>4. ExportInv'
  <2>1. CASE Flush
    <3>1. at = "flush" /\ at' = "close" /\ UNCHANGED <<slotVars, total, theirs>>
          /\ UNCHANGED <<copied, temps, attempt, refused, dest>>
      BY <2>1 DEF Flush
    <3>2. ~failed' => (flushed' /\ copied = total) \/ cancel
      <4>1. ~failed => copied = total \/ cancel
        BY <3>1 DEF IInv, ExportInv
      <4>2. IF ~failed /\ ~cancel THEN failed' = ~flushed' ELSE failed' = failed
        BY <2>1 DEF Flush
      <4> QED BY <4>1, <4>2, Zenon
    <3> QED BY <3>1, <3>2 DEF IInv, ExportInv
  <2>2. CASE Close
    <3>1. at = "close" /\ at' = "decide" /\ UNCHANGED <<slotVars, total, theirs>>
          /\ UNCHANGED <<copied, flushed, temps, attempt, refused, dest>>
      BY <2>2 DEF Close
    <3>2. ~failed' => ~failed
      BY <2>2 DEF Close
    <3>3. ~failed' => (flushed' /\ copied = total) \/ cancel
      BY <3>1, <3>2 DEF IInv, ExportInv
    <3> QED BY <3>1, <3>3 DEF IInv, ExportInv
  <2> QED BY <2>1, <2>2
<1>5. DestinationWhole' /\ ExportTidy'
  BY DEF Flush, Close, IInv, DestinationWhole, ExportTidy
<1> QED BY <1>1, <1>2, <1>3, <1>4, <1>5, ExportStepFrame DEF ExportNext

\* The last look at g_cancel: an export that goes on has the whole image.
LEMMA ExportDecides ==
  ASSUME IInv, Decide, UNCHANGED extractVars
  PROVE  IInv'
<1> USE DEF Step, JobRuns, slotVars
<1>1. running = "export" /\ UNCHANGED slotVars /\ failed' = (failed \/ cancel)
  BY DEF Decide
<1>2. pressed = "heard" => failed'
  BY <1>1, HeardInExport
<1>3. ExportType'
  <2>1. failed' \in BOOLEAN
    BY DEF Decide, IInv, ExportType
  <2> QED BY <2>1 DEF Decide, IInv, ExportType
<1>4. ExportInv' /\ DestinationWhole' /\ ExportTidy'
  BY DEF Decide, IInv, ExportInv, DestinationWhole, ExportTidy
<1> QED BY <1>1, <1>2, <1>3, <1>4, ExportStepFrame DEF ExportNext

\* Only a whole image on disk replaces the destination.
LEMMA ExportMoves ==
  ASSUME IInv, Move \/ MoveNot, UNCHANGED extractVars
  PROVE  IInv'
<1> USE DEF Step, JobRuns, slotVars
<1>1. running = "export" /\ UNCHANGED slotVars
  BY DEF Move, MoveNot
<1>2. pressed = "heard" => failed'
  BY <1>1, HeardInExport DEF Move, MoveNot, ExportCommitted
<1>3. ExportType'
  <2>1. failed' \in BOOLEAN
    BY DEF Move, MoveNot, IInv, ExportType
  <2>2. dest' = dest \/ dest' = [what |-> "image", chunks |-> copied, flushed |-> flushed]
    BY DEF Move, MoveNot
  <2>3. dest' \in [what : {"old"}] \cup [what : {"image"}, chunks : Nat, flushed : BOOLEAN]
    BY <2>2 DEF IInv, ExportType
  <2> QED BY <2>1, <2>3 DEF Move, MoveNot, IInv, ExportType
<1>4. ExportInv' /\ DestinationWhole' /\ ExportTidy'
  BY DEF Move, MoveNot, IInv, ExportInv, DestinationWhole, ExportTidy
<1> QED BY <1>1, <1>2, <1>3, <1>4, ExportStepFrame DEF ExportNext

\* An export that ends early has made nothing.
LEMMA ExportGivesUp ==
  ASSUME IInv, OpenFails \/ ReserveFails, UNCHANGED extractVars
  PROVE  IInv'
<1> USE DEF JobRuns
<1>1. running = "export" /\ JobEnds("failed") /\ failed' = TRUE
  BY DEF OpenFails, ReserveFails
<1>2. running' \notin Jobs /\ outcome' = "failed"
  BY <1>1, JobEndsSlot DEF IInv, Jobs
<1>3. ExportType'
  <2>1. failed' \in BOOLEAN
    BY <1>1
  <2> QED BY <2>1 DEF OpenFails, ReserveFails, IInv, ExportType
<1>4. ExportInv' /\ DestinationWhole' /\ ExportTidy'
  BY <1>2 DEF OpenFails, ReserveFails, IInv, ExportInv, DestinationWhole, ExportTidy
<1> QED BY <1>1, <1>2, <1>3, <1>4, ExportEndFrame DEF ExportNext

\* The end of the export.
LEMMA ExportCleans ==
  ASSUME IInv, Clean, UNCHANGED extractVars
  PROVE  IInv'
<1> USE DEF JobRuns
<1> DEFINE result == IF failed THEN "failed" ELSE "ok"
<1>1. running = "export" /\ JobEnds(result) /\ result \in {"ok", "failed"}
  BY DEF Clean
<1>2. pressed = "heard" => result = "failed" /\ failed'
  BY <1>1, HeardInExport DEF Clean, ExportCommitted
<1>3. ExportType'
  <2>1. refused' \in BOOLEAN
    BY DEF Clean, IInv, ExportType
  <2> QED BY <2>1 DEF Clean, IInv, ExportType
<1>4. outcome' = result
  BY <1>1, JobEndsSlot DEF IInv, Jobs
<1>5. ExportInv' /\ DestinationWhole' /\ ExportTidy'
  BY <1>4 DEF Clean, IInv, ExportInv, DestinationWhole, ExportTidy
<1> HIDE DEF result
<1> QED BY <1>1, <1>2, <1>3, <1>5, ExportEndFrame DEF ExportNext

\* Every step of the export.
LEMMA ExportSteps ==
  ASSUME IInv, ExportStep, UNCHANGED extractVars
  PROVE  IInv'
BY ExportPrepares, ExportCopies, ExportFlushes, ExportDecides, ExportMoves,
   ExportGivesUp, ExportCleans DEF ExportStep

-----------------------------------------------------------------------------
(* The walk of the extraction.                                             *)

\* What is to be shown of the extraction in the next state.
ExtractNext ==
  /\ WalkInv' /\ HostInv'
  /\ pressed = "heard" /\ ExtractCommitted' => aborted'

\* A step of a running extraction that is not its last.
LEMMA ExtractStepFrame ==
  ASSUME IInv, running = "extract", UNCHANGED <<slotVars, exportVars>>, ExtractNext
  PROVE  IInv'
<1>1. SlotInv'
  BY DEF IInv, SlotInv, slotVars
<1>2. ExportType' /\ ExportInv' /\ DestinationWhole' /\ ExportTidy'
  BY ExportFrame DEF IInv, slotVars
<1>3. CancelInv'
  BY DEF IInv, CancelInv, ExtractNext, slotVars
<1> QED BY <1>1, <1>2, <1>3 DEF IInv, ExtractNext

\* While the extraction runs, a button pressed in time is seen.
LEMMA HeardInExtract ==
  ASSUME IInv, running = "extract", pressed = "heard"
  PROVE  cancel /\ (ExtractCommitted => aborted)
BY DEF IInv, CancelInv, SlotInv, Jobs

\* A step that leaves the work list and the destination alone.
LEMMA HostFrame ==
  ASSUME HostInv, UNCHANGED <<volume, work, item, host, others, errors>>,
         phase # "file", phase' # "file", aborted => aborted',
         phase \in {"out", "end"} => phase' \in {"out", "end"}
  PROVE  HostInv'
<1>1. \A i : DirAt(volume', work', i) = DirAt(volume, work, i) /\ Target(i)' = Target(i)
  BY DEF DirAt, Target
<1>2. \A e \in host : EntryOK(e)'
  BY <1>1 DEF HostInv, EntryOK
<1> QED BY <1>1, <1>2 DEF HostInv, Path

\* While the work list is made, all that is in the destination is of others.
LEMMA HostWalk ==
  ASSUME HostInv, WalkInv, phase = "walk", Len(work') \in Nat,
         UNCHANGED <<phase, item, host, others, errors, aborted>>
  PROVE  HostInv'
<1>1. item = 1
  BY DEF WalkInv
<1>2. \A e \in host : EntryOK(e)'
  <2> SUFFICES ASSUME NEW e \in host PROVE EntryOK(e)'
    OBVIOUS
  <2>1. EntryOK(e)
    BY DEF HostInv
  <2>2. e.of = 0
    BY <1>1, <2>1 DEF EntryOK, WalkInv
  <2> QED BY <1>1, <2>1, <2>2 DEF EntryOK
<1> QED BY <1>1, <1>2 DEF HostInv, Path

\* The walk's part that a step does not touch.
LEMMA WalkFrame ==
  ASSUME WalkInv, UNCHANGED <<volume, sources, frames, work, links>>
  PROVE  /\ volume' \in Volumes /\ sources' \in Seq(Nodes') /\ links' \in Nat
         /\ WorkOK' /\ FramesOK' /\ \A i : DirAt(volume', work', i) = DirAt(volume, work, i)
<1>1. \A i : DirAt(volume', work', i) = DirAt(volume, work, i)
  BY DEF DirAt
<1> QED BY <1>1 DEF WalkInv, WorkOK, FramesOK, Nodes, Frame, Item, Top

\* goto out: the extraction is given up.
LEMMA GoOutStep ==
  ASSUME IInv, running = "extract", UNCHANGED <<slotVars, exportVars>>, GoOut,
         phase # "file"
  PROVE  IInv'
<1>1. UNCHANGED <<volume, sources, frames, work, item, number, host, others, links, errors>>
      /\ phase' = "out" /\ aborted' = TRUE
  BY DEF GoOut, hostVars
<1>2. WalkInv'
  <2>1. aborted' \in BOOLEAN
    BY <1>1
  <2> QED BY <1>1, <2>1, WalkFrame DEF IInv, WalkInv
<1>3. HostInv'
  BY <1>1, HostFrame DEF IInv
<1> QED BY <1>1, <1>2, <1>3, ExtractStepFrame DEF ExtractNext

\* The destination directory is there: the walk begins with a source.
LEMMA MakeRootStep ==
  ASSUME IInv, MakeRoot, UNCHANGED exportVars
  PROVE  IInv'
<1>1. /\ UNCHANGED <<volume, sources, frames, work, item, host, others, links, errors, aborted>>
      /\ phase = "root" /\ phase' = "walk" /\ running = "extract" /\ UNCHANGED slotVars
  BY DEF MakeRoot, In, JobRuns, hostVars
<1>2. WalkInv'
  BY <1>1, WalkFrame DEF IInv, WalkInv
<1>3. HostInv'
  BY <1>1, HostFrame DEF IInv
<1>4. ~ExtractCommitted'
  BY <1>1 DEF ExtractCommitted, IInv, WalkInv
<1> QED BY <1>1, <1>2, <1>3, <1>4, ExtractStepFrame DEF ExtractNext

\* The extraction is given up before a file is made.
LEMMA GivesUp ==
  ASSUME IInv, MakeRootFails \/ WalkFails \/ WalkTooDeep \/ WalkLoops \/ CopyCancelled
               \/ MakeDirFails,
         UNCHANGED exportVars
  PROVE  IInv'
<1>1. /\ running = "extract" /\ UNCHANGED slotVars /\ GoOut
      /\ phase \in {"root", "walk", "copy", "make"}
  BY DEF MakeRootFails, WalkFails, WalkTooDeep, WalkLoops, CopyCancelled, MakeDirFails,
     Walking, Copying, Making, In, JobRuns
<1> QED BY <1>1, GoOutStep

\* A sequence over a set is one over a larger set.
LEMMA SeqWider ==
  ASSUME NEW S, NEW T, S \subseteq T, NEW s \in Seq(S)
  PROVE  s \in Seq(T)
<1>1. s \in [1..Len(s) -> S] /\ Len(s) \in Nat
  OBVIOUS
<1>2. s \in [1..Len(s) -> T]
  BY <1>1
<1> QED BY <1>1, <1>2

\* An item and, if it is a directory, its frame are added.
LEMMA PushFacts ==
  ASSUME WalkInv, UNCHANGED volume, NEW n \in Nodes, NEW parent \in 0..Len(work),
         parent # 0 => DirAt(volume, work, parent),
         NEW above \in Seq(Frame), Len(above) < WalkMaxDepth,
         \A i \in 1..Len(above) : above[i].of \in 1..Len(work) /\ DirAt(volume, work, above[i].of),
         Push(n, parent, above)
  PROVE  WorkOK' /\ FramesOK' /\ Len(work') = Len(work) + 1 /\ Len(work) \in Nat
<1> DEFINE w == [node |-> n, parent |-> parent, target |-> <<>>]
           f == [of |-> Len(work) + 1, listed |-> FALSE, left |-> <<>>]
<1>1. PICK V : work \in Seq(Item(V))
  BY DEF WalkInv, WorkOK
<1>2. Len(work) \in Nat /\ Len(above) \in Nat /\ WalkMaxDepth \in Nat
  BY <1>1, ExtractAssumption
<1> DEFINE W == V \cup {<<>>}
<1>3. w \in Item(W) /\ f \in Frame /\ Item(V) \subseteq Item(W)
  <2>1. parent \in Nat /\ <<>> \in W
    BY <1>2
  <2>2. <<>> \in Seq(Nodes) /\ Len(work) + 1 \in Nat
    BY <1>2
  <2> QED BY <2>1, <2>2 DEF Item, Frame
<1>4. f.of = Len(work) + 1 /\ ~f.listed /\ w.parent = parent /\ w.node = n
  OBVIOUS
<1>5. work' = Append(work, w)
  BY DEF Push
<1>6. frames' = above \/ (frames' = Append(above, f) /\ Kind(n) = "dir")
  BY DEF Push
<1> HIDE DEF w, f, W
<1>7. work \in Seq(Item(W))
  BY <1>1, <1>3, SeqWider
<1>8. /\ work' \in Seq(Item(W)) /\ Len(work') = Len(work) + 1
      /\ \A i \in 1..Len(work) : work'[i] = work[i]
      /\ work'[Len(work) + 1] = w
  BY <1>2, <1>3, <1>5, <1>7
<1>9. Item(W)' = Item(W) /\ Frame' = Frame
  BY DEF Item, Frame, Nodes
<1>10. /\ \A i \in 1..Len(work) : DirAt(volume', work', i) = DirAt(volume, work, i)
       /\ Kind(n) = "dir" => DirAt(volume', work', Len(work) + 1)
  BY <1>4, <1>8 DEF DirAt, Kind
<1>11. WorkOK'
  <2>1. ASSUME NEW i \in 1..Len(work) + 1
        PROVE  work'[i].parent \in 0..i - 1
               /\ (work'[i].parent # 0 => DirAt(volume', work', work'[i].parent))
    <3>1. CASE i = Len(work) + 1
      BY <1>2, <1>4, <1>8, <1>10, <3>1
    <3>2. CASE i \in 1..Len(work)
      <4>1. work'[i] = work[i] /\ work[i].parent \in 0..i - 1
            /\ (work[i].parent # 0 => DirAt(volume, work, work[i].parent))
        BY <1>8, <3>2 DEF WalkInv, WorkOK
      <4>2. PICK q : q = work[i].parent
        OBVIOUS
      <4>3. q # 0 => q \in 1..Len(work) /\ DirAt(volume, work, q)
        BY <1>2, <3>2, <4>1, <4>2
      <4>4. q # 0 => DirAt(volume', work', q)
        BY <1>10, <4>3
      <4> QED BY <4>1, <4>2, <4>4
    <3>3. i = Len(work) + 1 \/ i \in 1..Len(work)
      BY <1>2
    <3> QED BY <3>1, <3>2, <3>3, ZenonT(40)
  <2>2. work' \in Seq(Item(W)') /\ 1..Len(work') = 1..Len(work) + 1
    BY <1>8, <1>9
  <2> QED BY <2>1, <2>2 DEF WorkOK, Item
<1>12. FramesOK'
  <2>1. CASE frames' = above
    <3>1. \A i \in 1..Len(above) : above[i].of \in 1..Len(work) + 1
            /\ DirAt(volume', work', above[i].of)
      BY <1>2, <1>10
    <3> QED BY <1>2, <1>8, <1>9, <2>1, <3>1 DEF FramesOK
  <2>2. CASE frames' = Append(above, f) /\ Kind(n) = "dir"
    <3>1. /\ frames' \in Seq(Frame) /\ Len(frames') = Len(above) + 1
          /\ \A i \in 1..Len(above) : frames'[i] = above[i]
          /\ frames'[Len(above) + 1] = f
      BY <1>2, <1>3, <2>2
    <3>2. ASSUME NEW i \in 1..Len(frames')
          PROVE  frames'[i].of \in 1..Len(work') /\ DirAt(volume', work', frames'[i].of)
      <4>1. CASE i = Len(above) + 1
        BY <1>2, <1>4, <1>8, <1>10, <2>2, <3>1, <4>1
      <4>2. CASE i \in 1..Len(above)
        BY <1>2, <1>8, <1>10, <3>1, <4>2
      <4> QED BY <1>2, <3>1, <4>1, <4>2
    <3>3. ~Top'.listed
      BY <1>4, <3>1 DEF Top
    <3>4. Len(frames') <= WalkMaxDepth
      BY <1>2, <3>1
    <3> QED BY <1>9, <3>1, <3>2, <3>3, <3>4 DEF FramesOK
  <2> QED BY <1>6, <2>1, <2>2
<1> QED BY <1>2, <1>8, <1>11, <1>12

\* A step of the walk: it is enough to show what it does to the lists.
LEMMA WalkingFrame ==
  ASSUME IInv, running = "extract", phase = "walk",
         UNCHANGED <<slotVars, exportVars, volume, phase, item, hostVars, errors, aborted>>,
         sources' \in Seq(Nodes), links' \in Nat, Len(work') \in Nat, WorkOK', FramesOK',
         cancel => ~ExtractCommitted'
  PROVE  IInv'
<1>1. WalkInv'
  <2>1. Nodes' = Nodes
    BY DEF Nodes
  <2>2. item' \in 1..Len(work') + 1
    BY DEF IInv, WalkInv
  <2> QED BY <2>1, <2>2 DEF IInv, WalkInv
<1>2. HostInv'
  BY HostWalk DEF IInv, hostVars
<1>3. pressed = "heard" => cancel
  BY HeardInExtract
<1> QED BY <1>1, <1>2, <1>3, ExtractStepFrame DEF ExtractNext

\* The work list has a length.
LEMMA WorkLength ==
  ASSUME WorkOK
  PROVE  Len(work) \in Nat /\ DOMAIN work = 1..Len(work)
BY DEF WorkOK

\* Lists that a step of the walk leaves alone.
LEMMA ListsFrame ==
  ASSUME UNCHANGED volume
  PROVE  /\ WorkOK /\ UNCHANGED work =>
              WorkOK' /\ \A i : DirAt(volume', work', i) = DirAt(volume, work, i)
         /\ FramesOK /\ UNCHANGED <<work, frames>> => FramesOK'
<1>1. UNCHANGED work => \A i : DirAt(volume', work', i) = DirAt(volume, work, i)
  BY DEF DirAt
<1>2. Frame' = Frame /\ \A V : Item(V)' = Item(V)
  BY DEF Frame, Item, Nodes
<1>3. WorkOK /\ UNCHANGED work => WorkOK'
  BY <1>1, <1>2 DEF WorkOK
<1>4. FramesOK /\ UNCHANGED <<work, frames>> => FramesOK'
  BY <1>1, <1>2 DEF FramesOK, Top
<1> QED BY <1>1, <1>3, <1>4

\* A source is taken up.
LEMMA WalkSourceStep ==
  ASSUME IInv, WalkSource, UNCHANGED exportVars
  PROVE  IInv'
<1> USE DEF In, JobRuns
<1>1. /\ running = "extract" /\ phase = "walk" /\ ~cancel /\ frames = <<>> /\ sources # <<>>
      /\ UNCHANGED <<slotVars, volume, phase, item, hostVars, errors, aborted>>
  BY DEF WalkSource
<1>2. sources \in Seq(Nodes) /\ sources' = Tail(sources)
  BY DEF WalkSource, IInv, WalkInv
<1>3. Head(sources) \in Nodes /\ sources' \in Seq(Nodes)
  BY <1>1, <1>2
<1>4. WorkOK /\ FramesOK /\ Len(work) \in Nat /\ links \in Nat
  BY WorkLength DEF IInv, WalkInv
<1>5. CASE links' = links + 1 /\ UNCHANGED <<work, frames>>
  <2>1. WorkOK' /\ FramesOK'
    BY <1>1, <1>4, <1>5, ListsFrame
  <2> QED BY <1>1, <1>3, <1>4, <1>5, <2>1, WalkingFrame
<1>6. CASE Push(Head(sources), 0, frames) /\ UNCHANGED links
  <2>1. frames \in Seq(Frame) /\ Len(frames) = 0
    BY <1>1, <1>4 DEF FramesOK
  <2>2. 0 \in 0..Len(work) /\ Len(frames) < WalkMaxDepth
        /\ \A i \in 1..Len(frames) : frames[i].of \in 1..Len(work)
             /\ DirAt(volume, work, frames[i].of)
    BY <1>4, <2>1, ExtractAssumption
  <2>3. WorkOK' /\ FramesOK' /\ Len(work') = Len(work) + 1
    BY <1>1, <1>3, <1>6, <2>1, <2>2, PushFacts DEF IInv
  <2> QED BY <1>1, <1>3, <1>4, <1>6, <2>3, WalkingFrame
<1> QED BY <1>5, <1>6 DEF WalkSource

\* The innermost frame is replaced by another one of the same item.
LEMMA ReplaceTopFacts ==
  ASSUME FramesOK, frames # <<>>, NEW f \in Frame, f.of = Top.of
  PROVE  /\ ReplaceTop(f) \in Seq(Frame) /\ Len(ReplaceTop(f)) = Len(frames)
         /\ Len(frames) \in Nat \ {0}
         /\ ReplaceTop(f)[Len(frames)] = f
         /\ \A i \in 1..Len(frames) :
              ReplaceTop(f)[i].of \in 1..Len(work) /\ DirAt(volume, work, ReplaceTop(f)[i].of)
<1>1. frames \in Seq(Frame) /\ Len(frames) \in Nat \ {0} /\ Len(frames) \in 1..Len(frames)
  BY DEF FramesOK
<1>2. ReplaceTop(f) \in Seq(Frame) /\ Len(ReplaceTop(f)) = Len(frames)
      /\ ReplaceTop(f)[Len(frames)] = f
      /\ \A i \in 1..Len(frames) : i # Len(frames) => ReplaceTop(f)[i] = frames[i]
  BY <1>1 DEF ReplaceTop
<1>3. \A i \in 1..Len(frames) :
        ReplaceTop(f)[i].of \in 1..Len(work) /\ DirAt(volume, work, ReplaceTop(f)[i].of)
  <2> SUFFICES ASSUME NEW i \in 1..Len(frames) PROVE ReplaceTop(f)[i].of = frames[i].of
    BY DEF FramesOK
  <2> QED BY <1>1, <1>2 DEF Top
<1> QED BY <1>1, <1>2, <1>3

\* The innermost frame is a frame of a directory.
LEMMA TopFacts ==
  ASSUME FramesOK, WorkOK, frames # <<>>
  PROVE  Top \in Frame /\ Top.of \in 1..Len(work) /\ DirAt(volume, work, Top.of)
           /\ Len(work) \in Nat \ {0}
<1>1. Len(work) \in Nat
  BY WorkLength
<1>2. Len(frames) \in 1..Len(frames) /\ frames \in Seq(Frame)
  BY DEF FramesOK
<1>3. Top \in Frame
  BY <1>2 DEF Top
<1>4. Top.of \in 1..Len(work) /\ DirAt(volume, work, Top.of)
  BY <1>2 DEF Top, FramesOK
<1> QED BY <1>1, <1>3, <1>4

\* A directory is listed, above the limit of the depth.
LEMMA WalkListStep ==
  ASSUME IInv, WalkList, UNCHANGED exportVars
  PROVE  IInv'
<1> USE DEF In, JobRuns, Walking
<1> DEFINE kids == volume.kids[work[Top.of].node]
           f == [Top EXCEPT !.listed = TRUE, !.left = kids]
<1>1. /\ running = "extract" /\ phase = "walk" /\ ~cancel /\ frames # <<>>
      /\ Len(frames) < WalkMaxDepth /\ frames' = ReplaceTop(f)
      /\ UNCHANGED <<slotVars, volume, phase, sources, work, item, hostVars, links,
                     errors, aborted>>
  BY DEF WalkList
<1>2. WorkOK /\ FramesOK /\ Len(work) \in Nat
  BY WorkLength DEF IInv, WalkInv
<1>3. Top \in Frame /\ Top.of \in 1..Len(work)
  BY <1>1, <1>2, TopFacts
<1>4. work[Top.of].node \in Nodes
  <2>1. PICK V : work \in Seq(Item(V))
    BY <1>2 DEF WorkOK
  <2>2. work[Top.of] \in Item(V)
    BY <1>2, <1>3, <2>1
  <2> QED BY <2>2 DEF Item
<1>5. kids \in Seq(Nodes)
  BY <1>4, ExtractAssumption DEF IInv, WalkInv, Nodes
<1>6. f \in Frame /\ f.of = Top.of
  BY <1>3, <1>5 DEF Frame
<1> HIDE DEF f
<1>7. /\ frames' \in Seq(Frame) /\ Len(frames') = Len(frames) /\ Len(frames) \in Nat
      /\ \A i \in 1..Len(frames) : frames'[i].of \in 1..Len(work)
           /\ DirAt(volume, work, frames'[i].of)
  BY <1>1, <1>2, <1>6, ReplaceTopFacts
<1>8. Frame' = Frame /\ WorkOK' /\ \A i : DirAt(volume', work', i) = DirAt(volume, work, i)
  BY <1>1, <1>2, ListsFrame DEF Frame, Nodes
<1>9. FramesOK'
  <2>1. \A i \in 1..Len(frames') : frames'[i].of \in 1..Len(work')
          /\ DirAt(volume', work', frames'[i].of)
    BY <1>1, <1>7, <1>8
  <2>2. Len(frames') < WalkMaxDepth /\ WalkMaxDepth \in Nat
    BY <1>1, <1>7, ExtractAssumption
  <2> QED BY <1>7, <1>8, <2>1, <2>2 DEF FramesOK
<1>10. sources \in Seq(Nodes) /\ links \in Nat
  BY DEF IInv, WalkInv
<1> QED BY <1>1, <1>2, <1>8, <1>9, <1>10, WalkingFrame

\* An entry of the innermost directory.
LEMMA WalkEntryStep ==
  ASSUME IInv, WalkEntry, UNCHANGED exportVars
  PROVE  IInv'
<1> USE DEF In, JobRuns, Walking
<1> DEFINE n == Head(Top.left)
           f == [Top EXCEPT !.left = Tail(Top.left)]
           rest == ReplaceTop(f)
<1>1. /\ running = "extract" /\ phase = "walk" /\ ~cancel /\ frames # <<>>
      /\ Top.listed /\ Top.left # <<>>
      /\ UNCHANGED <<slotVars, volume, phase, sources, item, hostVars, errors, aborted>>
  BY DEF WalkEntry
<1>2. \/ links' = links + 1 /\ frames' = rest /\ UNCHANGED work
      \/ Push(n, Top.of, rest) /\ UNCHANGED links
  BY DEF WalkEntry
<1>3. WorkOK /\ FramesOK /\ Len(work) \in Nat
  BY WorkLength DEF IInv, WalkInv
<1>4. Top \in Frame /\ Top.of \in 1..Len(work) /\ DirAt(volume, work, Top.of)
  BY <1>1, <1>3, TopFacts
<1>5. Top.left \in Seq(Nodes)
  BY <1>4 DEF Frame
<1>6. n \in Nodes /\ Tail(Top.left) \in Seq(Nodes)
  BY <1>1, <1>5
<1>7. f \in Frame /\ f.of = Top.of
  BY <1>4, <1>6 DEF Frame
<1> HIDE DEF f, n
<1>8. /\ rest \in Seq(Frame) /\ Len(rest) = Len(frames)
      /\ \A i \in 1..Len(rest) : rest[i].of \in 1..Len(work) /\ DirAt(volume, work, rest[i].of)
  BY <1>1, <1>3, <1>7, ReplaceTopFacts
<1>9. Len(rest) < WalkMaxDepth /\ Len(frames) \in Nat /\ WalkMaxDepth \in Nat
  BY <1>1, <1>3, <1>8, ExtractAssumption DEF FramesOK
<1> HIDE DEF rest
<1>10. sources \in Seq(Nodes) /\ links \in Nat
  BY DEF IInv, WalkInv
<1>11. CASE links' = links + 1 /\ frames' = rest /\ UNCHANGED work
  <2>1. Frame' = Frame /\ WorkOK' /\ \A i : DirAt(volume', work', i) = DirAt(volume, work, i)
    BY <1>1, <1>3, <1>11, ListsFrame DEF Frame, Nodes
  <2>2. \A i \in 1..Len(frames') : frames'[i].of \in 1..Len(work')
          /\ DirAt(volume', work', frames'[i].of)
    BY <1>8, <1>11, <2>1
  <2>3. FramesOK'
    BY <1>8, <1>9, <1>11, <2>1, <2>2 DEF FramesOK
  <2> QED BY <1>1, <1>3, <1>10, <1>11, <2>1, <2>3, WalkingFrame
<1>12. CASE Push(n, Top.of, rest) /\ UNCHANGED links
  <2>1. Top.of \in 0..Len(work)
    BY <1>3, <1>4
  <2>2. WorkOK' /\ FramesOK' /\ Len(work') = Len(work) + 1
    BY <1>1, <1>4, <1>6, <1>8, <1>9, <1>12, <2>1, PushFacts DEF IInv
  <2> QED BY <1>1, <1>3, <1>10, <1>12, <2>2, WalkingFrame
<1> QED BY <1>2, <1>11, <1>12

\* A directory is through; the job has an item to look at g_cancel for.
LEMMA WalkUpStep ==
  ASSUME IInv, WalkUp, UNCHANGED exportVars
  PROVE  IInv'
<1> USE DEF In, JobRuns, Walking
<1>1. /\ running = "extract" /\ phase = "walk" /\ frames # <<>> /\ frames' = Front(frames)
      /\ UNCHANGED <<slotVars, volume, phase, sources, work, item, hostVars, links,
                     errors, aborted>>
  BY DEF WalkUp
<1>2. WorkOK /\ FramesOK /\ Len(work) \in Nat \ {0}
  BY <1>1, TopFacts DEF IInv, WalkInv
<1>3. frames \in Seq(Frame) /\ Len(frames) \in Nat /\ Len(frames) > 0
  BY <1>1, <1>2 DEF FramesOK
<1>4. /\ frames' \in Seq(Frame) /\ Len(frames') = Len(frames) - 1
      /\ \A i \in 1..Len(frames') : frames'[i] = frames[i]
  <2>1. frames' = SubSeq(frames, 1, Len(frames) - 1)
    BY <1>1 DEF Front
  <2>2. frames' = [i \in 1..Len(frames) - 1 |-> frames[i]]
    BY <1>3, <2>1
  <2>3. \A i \in 1..Len(frames) - 1 : frames[i] \in Frame
    BY <1>3
  <2> QED BY <1>3, <2>2, <2>3
<1>5. Frame' = Frame /\ WorkOK' /\ \A i : DirAt(volume', work', i) = DirAt(volume, work, i)
  BY <1>1, <1>2, ListsFrame DEF Frame, Nodes
<1>6. FramesOK'
  <2>1. \A i \in 1..Len(frames') : frames'[i].of \in 1..Len(work')
          /\ DirAt(volume', work', frames'[i].of)
    BY <1>1, <1>2, <1>3, <1>4, <1>5 DEF FramesOK
  <2>2. Len(frames') < WalkMaxDepth /\ WalkMaxDepth \in Nat
    BY <1>2, <1>3, <1>4, ExtractAssumption DEF FramesOK
  <2> QED BY <1>3, <1>4, <1>5, <2>1, <2>2 DEF FramesOK
<1>7. sources \in Seq(Nodes) /\ links \in Nat /\ item = 1
  BY <1>1 DEF IInv, WalkInv
<1>8. ~ExtractCommitted'
  BY <1>1, <1>2, <1>7 DEF ExtractCommitted
<1> QED BY <1>1, <1>2, <1>5, <1>6, <1>7, <1>8, WalkingFrame

\* The work list is complete.
LEMMA WalkDoneStep ==
  ASSUME IInv, WalkDone, UNCHANGED exportVars
  PROVE  IInv'
<1>1. /\ UNCHANGED <<volume, sources, frames, work, item, host, others, links, errors, aborted>>
      /\ phase = "walk" /\ phase' = "copy" /\ running = "extract" /\ UNCHANGED slotVars
      /\ sources = <<>> /\ frames = <<>>
  BY DEF WalkDone, In, JobRuns, hostVars
<1>2. WalkInv'
  BY <1>1, WalkFrame DEF IInv, WalkInv
<1>3. HostInv'
  BY <1>1, HostFrame DEF IInv
<1>4. pressed = "heard" /\ ExtractCommitted' => aborted'
  BY <1>1, HeardInExtract DEF ExtractCommitted
<1> QED BY <1>1, <1>2, <1>3, <1>4, ExtractStepFrame DEF ExtractNext

-----------------------------------------------------------------------------
(* The copying of the extraction.                                          *)

\* The next item is taken up.
LEMMA CopyItemStep ==
  ASSUME IInv, CopyItem, UNCHANGED exportVars
  PROVE  IInv'
<1>1. /\ UNCHANGED <<volume, sources, frames, work, item, host, others, links, errors, aborted>>
      /\ phase = "copy" /\ phase' = "make" /\ running = "extract" /\ UNCHANGED slotVars
      /\ ~cancel /\ item \in DOMAIN work
  BY DEF CopyItem, Copying, In, JobRuns
<1>2. item' <= Len(work')
  BY <1>1, WorkLength DEF IInv, WalkInv
<1>3. WalkInv'
  BY <1>1, <1>2, WalkFrame DEF IInv, WalkInv
<1>4. HostInv'
  BY <1>1, HostFrame DEF IInv
<1>5. pressed = "heard" /\ ExtractCommitted' => aborted'
  BY <1>1, HeardInExtract
<1> QED BY <1>1, <1>3, <1>4, <1>5, ExtractStepFrame DEF ExtractNext

\* A name is taken, the next one will be tried.
LEMMA MakeTakenStep ==
  ASSUME IInv, MakeTaken, UNCHANGED exportVars
  PROVE  IInv'
<1>1. /\ UNCHANGED <<volume, sources, frames, work, item, host, others, links, errors, aborted>>
      /\ phase = "make" /\ phase' = "make" /\ running = "extract" /\ UNCHANGED slotVars
  BY DEF MakeTaken, Making, In, JobRuns
<1>2. item' <= Len(work')
  BY <1>1 DEF IInv, WalkInv
<1>3. WalkInv'
  BY <1>1, <1>2, WalkFrame DEF IInv, WalkInv
<1>4. HostInv'
  BY <1>1, HostFrame DEF IInv
<1>5. ExtractCommitted' = ExtractCommitted
  BY <1>1 DEF ExtractCommitted, IsDir, Kind
<1>6. pressed = "heard" /\ ExtractCommitted' => aborted'
  BY <1>1, <1>5, HeardInExtract
<1> QED BY <1>1, <1>3, <1>4, <1>6, ExtractStepFrame DEF ExtractNext

\* An entry of a new path, of others or of an item that has none.
LEMMA NewEntry ==
  ASSUME HostInv, NEW m, ~There(m.dir, m.name),
         m.of # 0 => \A e \in host : e.of # m.of, host' = host \cup {m}
  PROVE  /\ \A e, f \in host' : Path(e) = Path(f) => e = f
         /\ \A e, f \in host' : e.of = f.of /\ e.of # 0 => e = f
<1>1. \A e \in host : Path(e) # Path(m)
  BY DEF There, Path
<1>2. \A e, f \in host : Path(e) = Path(f) => e = f
  BY DEF HostInv
<1>3. \A e, f \in host' : Path(e) = Path(f) => e = f
  BY <1>1, <1>2
<1>4. \A e, f \in host' : e.of = f.of /\ e.of # 0 => e = f
  BY DEF HostInv
<1> QED BY <1>3, <1>4

\* What is there while an item is made.
LEMMA WhileMaking ==
  ASSUME WalkInv, HostInv, phase = "make"
  PROVE  /\ item \in 1..Len(work) /\ Len(work) \in Nat
         /\ ~aborted /\ sources = <<>> /\ frames = <<>>
         /\ work[item].parent \in 0..item - 1
         /\ \A e \in host : e.of \in 0..item - 1
<1>1. Len(work) \in Nat
  BY WorkLength DEF WalkInv
<1>2. item \in 1..Len(work) /\ ~aborted /\ sources = <<>> /\ frames = <<>>
  BY <1>1 DEF WalkInv
<1>3. work[item].parent \in 0..item - 1
  BY <1>2 DEF WalkInv, WorkOK
<1>4. ASSUME NEW e \in host PROVE e.of \in 0..item - 1
  <2>1. EntryOK(e)
    BY DEF HostInv
  <2>2. e.of \in Nat /\ e.of < item
    BY <1>1, <2>1 DEF EntryOK
  <2> QED BY <1>1, <1>2, <2>2
<1> QED BY <1>1, <1>2, <1>3, <1>4

\* A function on the first numbers is a sequence.
LEMMA FunctionIsSeq ==
  ASSUME NEW S, NEW n \in Nat, NEW f \in [1..n -> S]
  PROVE  f \in Seq(S) /\ Len(f) = n
  OBVIOUS

\* Where a directory was made is noted with its item.
LEMMA TargetNoted ==
  ASSUME WalkInv, phase = "make", item \in 1..Len(work), NEW p, UNCHANGED <<volume, frames>>,
         work' = [work EXCEPT ![item].target = p]
  PROVE  /\ WorkOK' /\ FramesOK' /\ Len(work') = Len(work)
         /\ \A i \in 1..Len(work) : /\ work'[i].parent = work[i].parent
                                    /\ DirAt(volume', work', i) = DirAt(volume, work, i)
                                    /\ i # item => work'[i] = work[i]
         /\ work'[item].target = p
<1>1. PICK V : work \in Seq(Item(V))
  BY DEF WalkInv, WorkOK
<1> DEFINE W == V \cup {p}
           w == [work[item] EXCEPT !.target = p]
<1>2. Len(work) \in Nat /\ work \in [1..Len(work) -> Item(V)] /\ work[item] \in Item(V)
  BY <1>1
<1>3. w \in Item(W) /\ Item(V) \subseteq Item(W)
  BY <1>2 DEF Item
<1>4. w.parent = work[item].parent /\ w.node = work[item].node /\ w.target = p
  BY <1>2 DEF Item
<1>5. work' = [work EXCEPT ![item] = w]
  BY <1>2
<1> HIDE DEF W, w
<1>6. work' = [i \in 1..Len(work) |-> IF i = item THEN w ELSE work[i]]
  BY <1>2, <1>5
<1>7. work' \in [1..Len(work) -> Item(W)]
  BY <1>2, <1>3, <1>6
<1>8. work' \in Seq(Item(W)) /\ Len(work') = Len(work)
  <2>1. PICK n \in Nat : n = Len(work)
    BY <1>2
  <2>2. PICK T : T = Item(W)
    OBVIOUS
  <2>3. work' \in [1..n -> T]
    BY <1>7, <2>1, <2>2
  <2>4. work' \in Seq(T) /\ Len(work') = n
    BY <2>3, FunctionIsSeq
  <2> QED BY <2>1, <2>2, <2>4
<1>9. work'[item] = w /\ \A i \in 1..Len(work) : i # item => work'[i] = work[i]
  BY <1>6
<1>10. \A i \in 1..Len(work) : work'[i].parent = work[i].parent /\ work'[i].node = work[i].node
  BY <1>4, <1>9
<1>11. \A i \in 1..Len(work) : DirAt(volume', work', i) = DirAt(volume, work, i)
  BY <1>10 DEF DirAt
<1>12. WorkOK'
  <2>1. ASSUME NEW i \in 1..Len(work)
        PROVE  work'[i].parent \in 0..i - 1
               /\ (work'[i].parent # 0 => DirAt(volume', work', work'[i].parent))
    <3>1. work[i].parent \in 0..i - 1
          /\ (work[i].parent # 0 => DirAt(volume, work, work[i].parent))
      BY DEF WalkInv, WorkOK
    <3>2. work'[i].parent = work[i].parent
      BY <1>10
    <3>3. work[i].parent # 0 => work[i].parent \in 1..Len(work)
      BY <1>2, <3>1
    <3> QED BY <1>11, <3>1, <3>2, <3>3
  <2>2. Item(W)' = Item(W)
    BY DEF Item, Nodes
  <2> QED BY <1>8, <2>1, <2>2 DEF WorkOK, Item
<1>13. FramesOK'
  BY ExtractAssumption DEF WalkInv, FramesOK
<1> QED BY <1>4, <1>8, <1>9, <1>10, <1>11, <1>12, <1>13

\* A directory is made.
LEMMA MakeDirStep ==
  ASSUME IInv, MakeDir, UNCHANGED exportVars
  PROVE  IInv'
<1>0. PICK m, p : m = Entry(Dir, Candidate, "dir", item) /\ p = <<Dir, Candidate>>
  OBVIOUS
<1>1. /\ running = "extract" /\ phase = "make" /\ IsDir(item) /\ ~There(Dir, Candidate)
      /\ host' = host \cup {m} /\ work' = [work EXCEPT ![item].target = p]
      /\ phase' = "copy" /\ item' = item + 1
      /\ UNCHANGED <<slotVars, volume, sources, frames, others, links, errors, aborted>>
  BY <1>0 DEF MakeDir, Making, In, JobRuns
<1>2. /\ item \in 1..Len(work) /\ Len(work) \in Nat /\ ~aborted
      /\ sources = <<>> /\ frames = <<>> /\ work[item].parent \in 0..item - 1
      /\ \A e \in host : e.of \in 0..item - 1
  BY <1>1, WhileMaking DEF IInv
<1>3. /\ WorkOK' /\ FramesOK' /\ Len(work') = Len(work)
      /\ \A i \in 1..Len(work) : /\ work'[i].parent = work[i].parent
                                 /\ DirAt(volume', work', i) = DirAt(volume, work, i)
                                 /\ i # item => work'[i] = work[i]
      /\ work'[item].target = p
  BY <1>1, <1>2, TargetNoted DEF IInv
<1>4. /\ m = Entry(m.dir, m.name, m.what, m.of) /\ m.of = item /\ m.what = "dir"
      /\ m.dir = At(work, work[item].parent) /\ Path(m) = p /\ ~There(m.dir, m.name)
  BY <1>0, <1>1 DEF Entry, Path, Dir, Target, At
<1>5. WalkInv'
  <2>1. item' \in 1..Len(work') + 1
    BY <1>1, <1>2, <1>3
  <2>3. Nodes' = Nodes
    BY <1>1 DEF Nodes
  <2>4. aborted' \in BOOLEAN
    BY <1>1 DEF IInv, WalkInv
  <2>2. sources' = <<>> /\ frames' = <<>> /\ ~aborted' /\ phase' = "copy"
    BY <1>1, <1>2
  <2> QED BY <1>1, <1>3, <2>1, <2>2, <2>3, <2>4 DEF IInv, WalkInv
<1>6. \A i \in 0..Len(work) : i # item => At(work', i) = At(work, i)
  BY <1>3 DEF At
<1>7. HostInv'
  <2>1. ASSUME NEW e \in host PROVE EntryOK(e)'
    <3>1. EntryOK(e) /\ e.of \in 0..item - 1
      BY <1>2 DEF IInv, HostInv
    <3>2. e.of # 0 => At(work', work'[e.of].parent) = At(work, work[e.of].parent)
      <4> SUFFICES ASSUME e.of # 0 PROVE At(work', work'[e.of].parent) = At(work, work[e.of].parent)
        OBVIOUS
      <4>1. e.of \in 1..Len(work) /\ e.of < item
        BY <1>2, <3>1
      <4>2. work'[e.of].parent = work[e.of].parent /\ work[e.of].parent \in 0..e.of - 1
        BY <1>3, <4>1 DEF IInv, WalkInv, WorkOK
      <4> QED BY <1>2, <1>6, <4>1, <4>2
    <3>3. e.of \in 0..Len(work') /\ e.of < item'
      BY <1>1, <1>2, <1>3, <3>1
    <3> QED BY <1>1, <1>2, <3>1, <3>2, <3>3 DEF EntryOK
  <2>2. EntryOK(m)'
    <3>1. m \notin others
      BY <1>2, <1>4 DEF IInv, HostInv, EntryOK
    <3>2. At(work', work'[item].parent) = At(work, work[item].parent)
      BY <1>2, <1>3, <1>6
    <3> QED BY <1>1, <1>2, <1>3, <1>4, <3>1, <3>2 DEF EntryOK
  <2>3. /\ \A e, f \in host' : Path(e) = Path(f) => e = f
        /\ \A e, f \in host' : e.of = f.of /\ e.of # 0 => e = f
    BY <1>1, <1>2, <1>4, NewEntry DEF IInv
  <2>4. ASSUME NEW i \in 1..item, DirAt(volume', work', i)
        PROVE  \E e \in host' : e.of = i /\ work'[i].target = Path(e)
    <3>1. CASE i = item
      BY <1>1, <1>3, <1>4, <3>1
    <3>2. CASE i \in 1..item - 1
      <4>1. i \in 1..Len(work) /\ i # item
        BY <1>2, <3>2
      <4>2. DirAt(volume, work, i) /\ work'[i] = work[i]
        BY <1>3, <2>4, <4>1
      <4>3. \E e \in host : e.of = i /\ work[i].target = Path(e)
        BY <3>2, <4>2 DEF IInv, HostInv
      <4> QED BY <1>1, <4>2, <4>3
    <3> QED BY <1>2, <3>1, <3>2
  <2>5. errors' \subseteq 1..item' - 1
    BY <1>1, <1>2 DEF IInv, HostInv
  <2>6. ASSUME NEW i \in 1..item
        PROVE  i \in errors <=> \A e \in host' : e.of = i => e.what = "stuck"
    <3>1. CASE i = item
      BY <1>1, <1>2, <1>4, <3>1 DEF IInv, HostInv
    <3>2. CASE i \in 1..item - 1
      BY <1>1, <1>2, <1>4, <3>2 DEF IInv, HostInv
    <3> QED BY <1>2, <3>1, <3>2
  <2>7. others' \subseteq host' /\ phase' # "file" /\ item' - 1 = item
    BY <1>1, <1>2 DEF IInv, HostInv
  <2>8. \A e \in host' : EntryOK(e)'
    BY <1>1, <2>1, <2>2
  <2> QED BY <1>1, <2>3, <2>4, <2>5, <2>6, <2>7, <2>8 DEF HostInv, Path
<1>8. pressed = "heard" /\ ExtractCommitted' => aborted'
  <2>1. ExtractCommitted' => item = Len(work)
    BY <1>1, <1>2, <1>3 DEF ExtractCommitted
  <2>2. ExtractCommitted' => ExtractCommitted
    BY <1>1, <2>1 DEF ExtractCommitted
  <2> QED BY <1>1, <2>2, HeardInExtract
<1> QED BY <1>1, <1>5, <1>7, <1>8, ExtractStepFrame DEF ExtractNext

\* A file is made, and is a part for now.
LEMMA MakeFileStep ==
  ASSUME IInv, MakeFile, UNCHANGED exportVars
  PROVE  IInv'
<1>0. PICK m : m = Entry(Dir, Candidate, "part", item)
  OBVIOUS
<1>1. /\ running = "extract" /\ phase = "make" /\ ~IsDir(item) /\ ~There(Dir, Candidate)
      /\ host' = host \cup {m} /\ phase' = "file"
      /\ UNCHANGED <<slotVars, volume, sources, frames, work, item, others, links, errors,
                     aborted>>
  BY <1>0 DEF MakeFile, Making, In, JobRuns
<1>2. /\ item \in 1..Len(work) /\ Len(work) \in Nat /\ ~aborted
      /\ sources = <<>> /\ frames = <<>> /\ work[item].parent \in 0..item - 1
      /\ \A e \in host : e.of \in 0..item - 1
  BY <1>1, WhileMaking DEF IInv
<1>3. /\ m = Entry(m.dir, m.name, m.what, m.of) /\ m.of = item /\ m.what = "part"
      /\ m.dir = At(work, work[item].parent) /\ ~There(m.dir, m.name)
  BY <1>0, <1>1 DEF Entry, Dir, Target, At
<1>4. WalkInv'
  <2>1. ~DirAt(volume', work', item')
    BY <1>1 DEF IsDir, Kind, DirAt
  <2>2. item' <= Len(work') /\ sources' = <<>> /\ frames' = <<>> /\ phase' = "file" /\ ~aborted'
    BY <1>1, <1>2
  <2> QED BY <1>1, <2>1, <2>2, WalkFrame DEF IInv, WalkInv
<1>5. \A i : At(work', i) = At(work, i) /\ DirAt(volume', work', i) = DirAt(volume, work, i)
  BY <1>1 DEF At, DirAt
<1>6. HostInv'
  <2>1. ASSUME NEW e \in host PROVE EntryOK(e)'
    <3>1. EntryOK(e) /\ e.of \in 0..item - 1 /\ e.of < item
      BY <1>2 DEF IInv, HostInv
    <3> QED BY <1>1, <1>2, <1>5, <3>1 DEF EntryOK
  <2>2. EntryOK(m)'
    <3>1. m \notin others
      BY <1>2, <1>3 DEF IInv, HostInv, EntryOK
    <3> QED BY <1>1, <1>2, <1>3, <1>5, <3>1 DEF EntryOK
  <2>3. /\ \A e, f \in host' : Path(e) = Path(f) => e = f
        /\ \A e, f \in host' : e.of = f.of /\ e.of # 0 => e = f
    BY <1>1, <1>2, <1>3, NewEntry DEF IInv
  <2>4. \A i \in 1..item - 1 : DirAt(volume', work', i) =>
          \E e \in host' : e.of = i /\ work'[i].target = Path(e)
    BY <1>1, <1>5 DEF IInv, HostInv
  <2>5. errors' \subseteq 1..item' - 1 /\ others' \subseteq host'
    BY <1>1 DEF IInv, HostInv
  <2>6. \A i \in 1..item - 1 : i \in errors <=> \A e \in host' : e.of = i => e.what = "stuck"
    BY <1>1, <1>2, <1>3 DEF IInv, HostInv
  <2>7. \E e \in host' : e.of = item'
    BY <1>1, <1>3
  <2>8. \A e \in host' : EntryOK(e)'
    BY <1>1, <2>1, <2>2
  <2> QED BY <1>1, <2>3, <2>4, <2>5, <2>6, <2>7, <2>8 DEF HostInv, Path
<1>7. ~ExtractCommitted'
  BY <1>1 DEF ExtractCommitted
<1> QED BY <1>1, <1>4, <1>6, <1>7, ExtractStepFrame DEF ExtractNext

\* Others make an entry.
LEMMA OtherMakesStep ==
  ASSUME IInv, OtherMakes, UNCHANGED exportVars
  PROVE  IInv'
<1>1. /\ running = "extract" /\ phase = "make"
      /\ UNCHANGED <<slotVars, volume, phase, sources, frames, work, item, links, errors,
                     aborted>>
  BY DEF OtherMakes
<1>2. PICK d \in MadeDirs, name \in OtherNames :
        LET e == Entry(Target(d), name, "foreign", 0)
        IN ~There(e.dir, e.name) /\ host' = host \cup {e} /\ others' = others \cup {e}
  BY DEF OtherMakes
<1>0. PICK m : m = Entry(Target(d), name, "foreign", 0)
  OBVIOUS
<1>3. ~There(m.dir, m.name) /\ host' = host \cup {m} /\ others' = others \cup {m}
  BY <1>0, <1>2
<1>4. m = Entry(m.dir, m.name, m.what, m.of) /\ m.of = 0 /\ m.what = "foreign"
  BY <1>0 DEF Entry
<1>5. /\ item \in 1..Len(work) /\ Len(work) \in Nat
      /\ \A e \in host : e.of \in 0..item - 1
  BY <1>1, WhileMaking DEF IInv
<1>6. WalkInv'
  <2>1. item' <= Len(work') /\ phase' = "make"
    BY <1>1, <1>5
  <2> QED BY <1>1, <2>1, WalkFrame DEF IInv, WalkInv
<1>7. \A i : At(work', i) = At(work, i) /\ DirAt(volume', work', i) = DirAt(volume, work, i)
  BY <1>1 DEF At, DirAt
<1>8. HostInv'
  <2>1. ASSUME NEW e \in host PROVE EntryOK(e)'
    <3>1. EntryOK(e)
      BY DEF IInv, HostInv
    <3>2. e \in others' <=> e \in others
      BY <1>3, <1>4, <3>1 DEF EntryOK
    <3> QED BY <1>1, <1>7, <3>1, <3>2 DEF EntryOK
  <2>2. EntryOK(m)'
    BY <1>1, <1>3, <1>4, <1>5 DEF EntryOK
  <2>3. /\ \A e, f \in host' : Path(e) = Path(f) => e = f
        /\ \A e, f \in host' : e.of = f.of /\ e.of # 0 => e = f
    BY <1>3, <1>4, NewEntry DEF IInv
  <2>4. \A i \in 1..item - 1 : DirAt(volume', work', i) =>
          \E e \in host' : e.of = i /\ work'[i].target = Path(e)
    BY <1>1, <1>3, <1>7 DEF IInv, HostInv
  <2>5. errors' \subseteq 1..item' - 1 /\ others' \subseteq host'
    BY <1>1, <1>3 DEF IInv, HostInv
  <2>6. \A i \in 1..item - 1 : i \in errors <=> \A e \in host' : e.of = i => e.what = "stuck"
    BY <1>3, <1>4, <1>5 DEF IInv, HostInv
  <2>7. \A e \in host' : EntryOK(e)'
    BY <1>3, <2>1, <2>2
  <2> QED BY <1>1, <2>3, <2>4, <2>5, <2>6, <2>7 DEF HostInv, Path
<1>9. ExtractCommitted' = ExtractCommitted
  BY <1>1 DEF ExtractCommitted, IsDir, Kind
<1>10. pressed = "heard" /\ ExtractCommitted' => aborted'
  BY <1>1, <1>9, HeardInExtract
<1> QED BY <1>1, <1>6, <1>8, <1>10, ExtractStepFrame DEF ExtractNext

\* What ItemFails does to an item whose file is not made.
LEMMA MakeFileFailsStep ==
  ASSUME IInv, MakeFileFails, UNCHANGED exportVars
  PROVE  IInv'
<1>1. /\ running = "extract" /\ phase = "make" /\ ~IsDir(item)
      /\ UNCHANGED <<slotVars, volume, sources, frames, work, host, others, links>>
  BY DEF MakeFileFails, ItemFails, Making, In, JobRuns
<1>2. /\ item \in 1..Len(work) /\ Len(work) \in Nat /\ ~aborted
      /\ sources = <<>> /\ frames = <<>>
      /\ \A e \in host : e.of \in 0..item - 1
  BY <1>1, WhileMaking DEF IInv
<1>3. CASE cancel
  <2>1. phase' = "out" /\ aborted' = TRUE /\ UNCHANGED <<item, errors>>
    BY <1>3 DEF MakeFileFails, ItemFails
  <2>2. WalkInv'
    <3>1. aborted' \in BOOLEAN
      BY <2>1
    <3> QED BY <1>1, <2>1, <3>1, WalkFrame DEF IInv, WalkInv
  <2>3. HostInv'
    BY <1>1, <2>1, HostFrame DEF IInv
  <2> QED BY <1>1, <2>1, <2>2, <2>3, ExtractStepFrame DEF ExtractNext
<1>4. CASE ~cancel
  <2>1. phase' = "copy" /\ item' = item + 1 /\ errors' = errors \cup {item} /\ UNCHANGED aborted
    BY <1>4 DEF MakeFileFails, ItemFails
  <2>2. WalkInv'
    <3>1. item' \in 1..Len(work') + 1
      BY <1>1, <1>2, <2>1
    <3> QED BY <1>1, <1>2, <2>1, <3>1, WalkFrame DEF IInv, WalkInv
  <2>3. \A i : At(work', i) = At(work, i) /\ DirAt(volume', work', i) = DirAt(volume, work, i)
    BY <1>1 DEF At, DirAt
  <2>4. ~DirAt(volume, work, item)
    BY <1>1 DEF IsDir, Kind, DirAt
  <2>5. HostInv'
    <3>1. ASSUME NEW e \in host PROVE EntryOK(e)'
      <4>1. EntryOK(e) /\ e.of \in 0..item - 1
        BY <1>2 DEF IInv, HostInv
      <4> QED BY <1>1, <1>2, <2>1, <2>3, <4>1 DEF EntryOK
    <3>2. ASSUME NEW i \in 1..item, DirAt(volume', work', i)
          PROVE  \E e \in host : e.of = i /\ work'[i].target = Path(e)
      <4>1. i \in 1..item - 1 /\ DirAt(volume, work, i)
        BY <1>2, <2>3, <2>4, <3>2
      <4> QED BY <1>1, <4>1 DEF IInv, HostInv
    <3>3. errors' \subseteq 1..item
      <4>1. errors \subseteq 1..item - 1
        BY DEF IInv, HostInv
      <4> QED BY <1>2, <2>1, <4>1
    <3>4. ASSUME NEW i \in 1..item
          PROVE  i \in errors' <=> \A e \in host : e.of = i => e.what = "stuck"
      <4>1. CASE i = item
        BY <1>2, <2>1, <4>1
      <4>2. CASE i \in 1..item - 1
        BY <1>2, <2>1, <4>2 DEF IInv, HostInv
      <4> QED BY <1>2, <4>1, <4>2
    <3>5. item' - 1 = item /\ host' = host /\ others' = others /\ phase' # "file"
      BY <1>1, <1>2, <2>1
    <3> QED BY <3>1, <3>2, <3>3, <3>4, <3>5 DEF IInv, HostInv, Path
  <2>6. pressed # "heard"
    BY <1>1, <1>4, HeardInExtract
  <2> QED BY <1>1, <2>2, <2>5, <2>6, ExtractStepFrame DEF ExtractNext
<1> QED BY <1>3, <1>4

\* The part is the entry of the item being copied, and the only one.
LEMMA PartFacts ==
  ASSUME WalkInv, HostInv, phase = "file"
  PROVE  /\ Part \in host /\ Part.of = item /\ Part.what = "part"
         /\ item \in 1..Len(work) /\ Len(work) \in Nat /\ ~aborted
         /\ sources = <<>> /\ frames = <<>> /\ ~DirAt(volume, work, item)
         /\ \A e \in host : e # Part => e.of \in 0..item - 1
<1>1. Len(work) \in Nat
  BY WorkLength DEF WalkInv
<1>2. /\ item \in 1..Len(work) /\ ~aborted /\ sources = <<>> /\ frames = <<>>
      /\ ~DirAt(volume, work, item)
  BY <1>1 DEF WalkInv
<1>3. PICK e \in host : e.of = item
  BY DEF HostInv
<1>4. e.what = "part"
  BY <1>2, <1>3 DEF HostInv, EntryOK
<1>5. Part \in host /\ Part.of = item /\ Part.what = "part"
  BY <1>3, <1>4 DEF Part
<1>6. ASSUME NEW f \in host, f # Part PROVE f.of \in 0..item - 1
  <2>1. f.of # item
    BY <1>2, <1>5, <1>6 DEF HostInv
  <2>2. f.of \in Nat /\ f.of <= item
    BY <1>1, <1>2 DEF HostInv, EntryOK
  <2> QED BY <1>1, <1>2, <2>1, <2>2
<1> QED BY <1>1, <1>2, <1>5, <1>6

\* What is left of the part stands in its place.
LEMMA PartLeft ==
  ASSUME WalkInv, HostInv, phase = "file", NEW what
  PROVE  \E m : /\ m = [Part EXCEPT !.what = what]
                /\ m = Entry(m.dir, m.name, m.what, m.of) /\ m.of = item /\ m.what = what
                /\ m.dir = At(work, work[item].parent) /\ Path(m) = Path(Part)
                /\ m \notin others
<1>1. Part \in host /\ Part.of = item /\ item \in 1..Len(work) /\ Len(work) \in Nat
  BY PartFacts
<1>2. EntryOK(Part)
  BY <1>1 DEF HostInv
<1>3. Part = Entry(Part.dir, Part.name, Part.what, Part.of)
      /\ Part.dir = At(work, work[item].parent)
  BY <1>1, <1>2 DEF EntryOK
<1>4. PICK m : m = [Part EXCEPT !.what = what]
  OBVIOUS
<1>5. m = Entry(Part.dir, Part.name, what, item)
  BY <1>1, <1>3, <1>4 DEF Entry
<1>6. m.dir = Part.dir /\ m.name = Part.name /\ m.what = what /\ m.of = item
  BY <1>5 DEF Entry
<1>7. \A e \in others : e.of = 0
  BY DEF HostInv, EntryOK
<1>8. Path(m) = Path(Part) /\ m \notin others
  BY <1>1, <1>6, <1>7 DEF Path
<1> QED BY <1>3, <1>4, <1>5, <1>6, <1>8

\* Nothing or one entry takes the part's place.
LEMMA PartReplaced ==
  ASSUME WalkInv, HostInv, phase = "file", UNCHANGED <<volume, work, others>>,
         NEW left, \A m, n \in left : m = n,
         \A m \in left : \E what \in {"whole", "stuck"} : m = [Part EXCEPT !.what = what],
         host' = (host \ {Part}) \cup left
  PROVE  /\ others' \subseteq host'
         /\ \A e, f \in host' : Path(e) = Path(f) => e = f
         /\ \A e, f \in host' : e.of = f.of /\ e.of # 0 => e = f
         /\ \A i \in 1..item - 1 : DirAt(volume', work', i) =>
              \E e \in host' : e.of = i /\ work'[i].target = Path(e)
         /\ \A i \in 1..item - 1 : i \in errors <=> \A e \in host' : e.of = i => e.what = "stuck"
         /\ \A m \in left :
              /\ m = Entry(m.dir, m.name, m.what, m.of) /\ m.of = item
              /\ m.what \in {"whole", "stuck"}
              /\ m.dir = At(work, work[item].parent) /\ m \notin others
<1>1. /\ Part \in host /\ Part.of = item /\ item \in 1..Len(work) /\ Len(work) \in Nat
      /\ ~DirAt(volume, work, item) /\ \A e \in host : e # Part => e.of \in 0..item - 1
  BY PartFacts
<1>2. \A m \in left :
        /\ m = Entry(m.dir, m.name, m.what, m.of) /\ m.of = item /\ m.what \in {"whole", "stuck"}
        /\ m.dir = At(work, work[item].parent) /\ Path(m) = Path(Part) /\ m \notin others
  <2> TAKE m \in left
  <2>1. PICK what \in {"whole", "stuck"} : m = [Part EXCEPT !.what = what]
    OBVIOUS
  <2>2. PICK n : /\ n = [Part EXCEPT !.what = what]
                 /\ n = Entry(n.dir, n.name, n.what, n.of) /\ n.of = item /\ n.what = what
                 /\ n.dir = At(work, work[item].parent) /\ Path(n) = Path(Part)
                 /\ n \notin others
    BY PartLeft
  <2>3. m = n
    BY <2>1, <2>2
  <2> QED BY <2>2, <2>3
<1>3. others' \subseteq host'
  <2>1. Part \notin others
    BY <1>1 DEF HostInv, EntryOK
  <2> QED BY <2>1 DEF HostInv
<1>4. \A e, f \in host : Path(e) = Path(f) => e = f
  BY DEF HostInv
<1>5. ASSUME NEW e \in host', NEW f \in host', Path(e) = Path(f) PROVE e = f
  BY <1>1, <1>2, <1>4, <1>5
<1>6. ASSUME NEW e \in host', NEW f \in host', e.of = f.of, e.of # 0 PROVE e = f
  <2>1. CASE e \in left /\ f \in left
    BY <2>1
  <2>2. CASE e \notin left /\ f \notin left
    BY <1>6, <2>2 DEF HostInv
  <2>3. CASE e \in left /\ f \notin left
    BY <1>1, <1>2, <1>6, <2>3
  <2>4. CASE e \notin left /\ f \in left
    BY <1>1, <1>2, <1>6, <2>4
  <2> QED BY <2>1, <2>2, <2>3, <2>4
<1>7. ASSUME NEW i \in 1..item - 1, DirAt(volume', work', i)
      PROVE  \E e \in host' : e.of = i /\ work'[i].target = Path(e)
  <2>1. DirAt(volume, work, i)
    BY <1>7 DEF DirAt
  <2>2. PICK e \in host : e.of = i /\ work[i].target = Path(e)
    BY <2>1 DEF HostInv
  <2>3. e # Part
    BY <1>1, <2>2
  <2> QED BY <2>2, <2>3
<1>8. ASSUME NEW i \in 1..item - 1
      PROVE  i \in errors <=> \A e \in host' : e.of = i => e.what = "stuck"
  <2>1. \A e : e.of = i => (e \in host' <=> e \in host)
    BY <1>1, <1>2
  <2>2. i \in errors <=> \A e \in host : e.of = i => e.what = "stuck"
    BY DEF HostInv
  <2> QED BY <2>1, <2>2
<1> QED BY <1>2, <1>3, <1>5, <1>6, <1>7, <1>8

\* A file is through, whole or as an error.
LEMMA FileThrough ==
  ASSUME WalkInv, HostInv, phase = "file", phase' = "copy", item' = item + 1,
         UNCHANGED <<volume, work, others, aborted>>,
         NEW left, \A m, n \in left : m = n,
         \A m \in left : \E what \in {"whole", "stuck"} : m = [Part EXCEPT !.what = what],
         host' = (host \ {Part}) \cup left,
         \/ errors' = errors \cup {item} /\ \A m \in left : m.what = "stuck"
         \/ errors' = errors /\ \E m \in left : m.what # "stuck"
  PROVE  HostInv'
<1>1. /\ item \in 1..Len(work) /\ Len(work) \in Nat /\ ~DirAt(volume, work, item)
      /\ Part.of = item /\ \A e \in host : e # Part => e.of \in 0..item - 1
  BY PartFacts
<1>2. /\ others' \subseteq host'
      /\ \A e, f \in host' : Path(e) = Path(f) => e = f
      /\ \A e, f \in host' : e.of = f.of /\ e.of # 0 => e = f
      /\ \A i \in 1..item - 1 : DirAt(volume', work', i) =>
           \E e \in host' : e.of = i /\ work'[i].target = Path(e)
      /\ \A i \in 1..item - 1 : i \in errors <=> \A e \in host' : e.of = i => e.what = "stuck"
      /\ \A m \in left :
           /\ m = Entry(m.dir, m.name, m.what, m.of) /\ m.of = item
           /\ m.what \in {"whole", "stuck"}
           /\ m.dir = At(work, work[item].parent) /\ m \notin others
  BY PartReplaced
<1>3. errors \subseteq 1..item - 1
  BY DEF HostInv
<1>4. errors' \subseteq 1..item' - 1 /\ item' - 1 = item /\ errors \subseteq errors'
  BY <1>1, <1>3
<1>5. ASSUME NEW e \in host' PROVE EntryOK(e)'
  <2>1. CASE e \in left
    <3>1. /\ e = Entry(e.dir, e.name, e.what, e.of) /\ e.of = item
          /\ e.what \in {"whole", "stuck"}
          /\ e.dir = At(work, work[item].parent) /\ e \notin others
      BY <1>2, <2>1
    <3>2. e.what = "stuck" => e.of \in errors'
      <4>1. ASSUME e.what = "stuck", NEW m \in left PROVE m.what = "stuck"
        BY <2>1, <4>1
      <4> QED BY <3>1, <4>1
    <3> QED BY <1>1, <3>1, <3>2 DEF EntryOK
  <2>2. CASE e \notin left
    <3>1. e \in host /\ e.of \in 0..item - 1
      BY <1>1, <2>2
    <3>2. EntryOK(e)
      BY <3>1 DEF HostInv
    <3>3. e.of # item /\ e.of < item /\ e.what # "part"
      BY <1>1, <3>1, <3>2 DEF EntryOK
    <3> QED BY <1>1, <1>4, <3>1, <3>2, <3>3 DEF EntryOK
  <2> QED BY <2>1, <2>2
<1>6. ASSUME NEW i \in 1..item
      PROVE  i \in errors' <=> \A e \in host' : e.of = i => e.what = "stuck"
  <2>1. CASE i = item
    <3>1. \A e \in host' : e.of = i <=> e \in left
      BY <1>1, <1>2, <2>1
    <3>2. i \in errors' <=> \A m \in left : m.what = "stuck"
      BY <1>1, <1>3, <2>1
    <3> QED BY <3>1, <3>2
  <2>2. CASE i \in 1..item - 1
    <3>1. i \in errors' <=> i \in errors
      BY <1>1, <2>2
    <3> QED BY <1>2, <2>2, <3>1
  <2> QED BY <1>1, <2>1, <2>2
<1>7. ASSUME NEW i \in 1..item, DirAt(volume', work', i)
      PROVE  \E e \in host' : e.of = i /\ work'[i].target = Path(e)
  <2>1. DirAt(volume, work, i)
    BY <1>7 DEF DirAt
  <2>2. i \in 1..item - 1
    BY <1>1, <2>1
  <2> QED BY <1>2, <1>7, <2>2
<1>8. phase' # "file"
  OBVIOUS
<1> QED BY <1>2, <1>4, <1>5, <1>6, <1>7, <1>8 DEF HostInv, Path

\* A file is cancelled: the extraction ends.
LEMMA FileGivenUp ==
  ASSUME WalkInv, HostInv, phase = "file", phase' = "out", aborted' = TRUE,
         UNCHANGED <<volume, work, item, others, errors>>,
         NEW left, \A m, n \in left : m = n,
         \A m \in left : m = [Part EXCEPT !.what = "stuck"],
         host' = (host \ {Part}) \cup left
  PROVE  HostInv'
<1>1. /\ item \in 1..Len(work) /\ Len(work) \in Nat
      /\ \A e \in host : e # Part => e.of \in 0..item - 1
  BY PartFacts
<1>2. /\ others' \subseteq host'
      /\ \A e, f \in host' : Path(e) = Path(f) => e = f
      /\ \A e, f \in host' : e.of = f.of /\ e.of # 0 => e = f
      /\ \A i \in 1..item - 1 : DirAt(volume', work', i) =>
           \E e \in host' : e.of = i /\ work'[i].target = Path(e)
      /\ \A i \in 1..item - 1 : i \in errors <=> \A e \in host' : e.of = i => e.what = "stuck"
      /\ \A m \in left :
           /\ m = Entry(m.dir, m.name, m.what, m.of) /\ m.of = item
           /\ m.dir = At(work, work[item].parent) /\ m \notin others
  <2>1. \A m \in left : \E what \in {"whole", "stuck"} : m = [Part EXCEPT !.what = what]
    OBVIOUS
  <2> QED BY <2>1, PartReplaced
<1>3. \A m \in left : m.what = "stuck"
  BY PartLeft
<1>4. ASSUME NEW e \in host' PROVE EntryOK(e)'
  <2>1. CASE e \in left
    BY <1>1, <1>2, <1>3, <2>1 DEF EntryOK
  <2>2. CASE e \notin left
    <3>1. e \in host /\ e.of \in 0..item - 1
      BY <1>1, <2>2
    <3>2. EntryOK(e)
      BY <3>1 DEF HostInv
    <3>3. e.of # item /\ e.of < item /\ e.what # "part"
      BY <1>1, <3>1, <3>2 DEF EntryOK
    <3> QED BY <1>1, <3>1, <3>2, <3>3 DEF EntryOK
  <2> QED BY <2>1, <2>2
<1>5. phase' # "file" /\ errors' \subseteq 1..item' - 1
  BY DEF HostInv
<1> QED BY <1>2, <1>4, <1>5 DEF HostInv, Path

\* A file is whole.
LEMMA FileEndsStep ==
  ASSUME IInv, FileEnds, UNCHANGED exportVars
  PROVE  IInv'
<1>1. /\ running = "extract" /\ phase = "file" /\ ~cancel
      /\ phase' = "copy" /\ item' = item + 1
      /\ UNCHANGED <<slotVars, volume, sources, frames, work, others, links, errors, aborted>>
  BY DEF FileEnds, In, JobRuns
<1>2. host' = (host \ {Part}) \cup {[Part EXCEPT !.what = "whole"]}
  BY DEF FileEnds, PartBecomes
<1>3. /\ item \in 1..Len(work) /\ Len(work) \in Nat /\ ~aborted /\ sources = <<>> /\ frames = <<>>
  BY <1>1, PartFacts DEF IInv
<1>4. WalkInv'
  <2>1. item' \in 1..Len(work') + 1
    BY <1>1, <1>3
  <2> QED BY <1>1, <1>3, <2>1, WalkFrame DEF IInv, WalkInv
<1>5. HostInv'
  <2>1. PICK m : /\ m = [Part EXCEPT !.what = "whole"] /\ m.what = "whole"
    BY <1>1, PartLeft DEF IInv
  <2>2. \E x \in {m} : x.what # "stuck"
    BY <2>1
  <2>3. \A x \in {m} : \E what \in {"whole", "stuck"} : x = [Part EXCEPT !.what = what]
    BY <2>1
  <2>4. host' = (host \ {Part}) \cup {m}
    BY <1>2, <2>1
  <2>5. \A x, y \in {m} : x = y
    OBVIOUS
  <2>6. WalkInv /\ HostInv
    BY DEF IInv
  <2>7. /\ phase = "file" /\ phase' = "copy" /\ item' = item + 1
        /\ UNCHANGED <<volume, work, others, aborted>>
        /\ errors' = errors /\ \E x \in {m} : x.what # "stuck"
    BY <1>1, <2>2
  <2> QED BY <2>3, <2>4, <2>5, <2>6, <2>7, FileThrough, ZenonT(40)
<1>6. pressed # "heard"
  BY <1>1, HeardInExtract
<1> QED BY <1>1, <1>4, <1>5, <1>6, ExtractStepFrame DEF ExtractNext

\* A file fails or is cancelled, and is removed or cannot be.
LEMMA FileFailsStep ==
  ASSUME IInv, FileFails, UNCHANGED exportVars
  PROVE  IInv'
<1>1. /\ running = "extract" /\ phase = "file"
      /\ UNCHANGED <<slotVars, volume, sources, frames, work, others, links>>
  BY DEF FileFails, ItemFails, In, JobRuns
<1>2. /\ item \in 1..Len(work) /\ Len(work) \in Nat /\ ~aborted /\ sources = <<>> /\ frames = <<>>
  BY <1>1, PartFacts DEF IInv
<1>3. WalkInv /\ HostInv
  BY DEF IInv
<1>4. PICK m : m = [Part EXCEPT !.what = "stuck"] /\ m.what = "stuck"
  BY <1>1, <1>3, PartLeft
<1>5. PICK left \in {{}, {m}} : host' = (host \ {Part}) \cup left
  BY <1>4 DEF FileFails, PartBecomes
<1>6. /\ \A x \in left : x = m /\ x.what = "stuck" /\ x = [Part EXCEPT !.what = "stuck"]
      /\ \A x, y \in left : x = y
  BY <1>4
<1>7. CASE cancel
  <2>1. phase' = "out" /\ aborted' = TRUE /\ UNCHANGED <<item, errors>>
    BY <1>7 DEF FileFails, ItemFails
  <2>2. WalkInv'
    <3>1. aborted' \in BOOLEAN
      BY <2>1
    <3> QED BY <1>1, <1>3, <2>1, <3>1, WalkFrame DEF WalkInv
  <2>3. HostInv'
    BY <1>1, <1>3, <1>5, <1>6, <2>1, FileGivenUp
  <2> QED BY <1>1, <2>1, <2>2, <2>3, ExtractStepFrame DEF ExtractNext
<1>8. CASE ~cancel
  <2>1. phase' = "copy" /\ item' = item + 1 /\ errors' = errors \cup {item} /\ UNCHANGED aborted
    BY <1>8 DEF FileFails, ItemFails
  <2>2. WalkInv'
    <3>1. item' \in 1..Len(work') + 1
      BY <1>1, <1>2, <2>1
    <3> QED BY <1>1, <1>2, <1>3, <2>1, <3>1, WalkFrame DEF WalkInv
  <2>3. HostInv'
    <3>1. \A x \in left : \E what \in {"whole", "stuck"} : x = [Part EXCEPT !.what = what]
      BY <1>6
    <3>2. \A x \in left : x.what = "stuck"
      BY <1>6
    <3>3. \A x, y \in left : x = y
      BY <1>6
    <3> QED BY <1>1, <1>3, <1>5, <2>1, <3>1, <3>2, <3>3, FileThrough
  <2>4. pressed # "heard"
    BY <1>1, <1>8, HeardInExtract
  <2> QED BY <1>1, <2>2, <2>3, <2>4, ExtractStepFrame DEF ExtractNext
<1> QED BY <1>7, <1>8

\* All items are through.
LEMMA CopyDoneStep ==
  ASSUME IInv, CopyDone, UNCHANGED exportVars
  PROVE  IInv'
<1>1. /\ UNCHANGED <<volume, sources, frames, work, item, host, others, links, errors, aborted>>
      /\ phase = "copy" /\ phase' = "out" /\ running = "extract" /\ UNCHANGED slotVars
      /\ item > Len(work)
  BY DEF CopyDone, In, JobRuns, hostVars
<1>2. Len(work) \in Nat
  BY WorkLength DEF IInv, WalkInv
<1>3. item' = Len(work') + 1
  BY <1>1, <1>2 DEF IInv, WalkInv
<1>4. WalkInv'
  BY <1>1, <1>3, WalkFrame DEF IInv, WalkInv
<1>5. HostInv'
  BY <1>1, HostFrame DEF IInv
<1>6. ExtractCommitted
  BY <1>1 DEF ExtractCommitted, IInv, WalkInv
<1>7. pressed = "heard" => aborted'
  BY <1>1, <1>6, HeardInExtract
<1> QED BY <1>1, <1>4, <1>5, <1>7, ExtractStepFrame DEF ExtractNext

\* The extraction ends.
LEMMA FinishStep ==
  ASSUME IInv, Finish, UNCHANGED exportVars
  PROVE  IInv'
<1> USE DEF JobRuns
<1> DEFINE result == IF aborted THEN "failed" ELSE "ok"
<1>1. /\ UNCHANGED <<volume, sources, frames, work, item, host, others, links, errors, aborted>>
      /\ phase = "out" /\ phase' = "end" /\ running = "extract" /\ JobEnds(result)
      /\ result \in {"ok", "failed"}
  BY DEF Finish, hostVars
<1>2. pressed = "heard" => result = "failed"
  BY <1>1, HeardInExtract DEF ExtractCommitted
<1> HIDE DEF result
<1>3. SlotInv' /\ running' \notin Jobs /\ outcome' = result /\ pressed' = pressed
  BY <1>1, JobEndsSlot DEF IInv, Jobs, JobEnds
<1>4. WalkInv'
  BY <1>1, WalkFrame DEF IInv, WalkInv
<1>5. HostInv'
  BY <1>1, HostFrame DEF IInv
<1>6. CancelInv'
  BY <1>2, <1>3 DEF CancelInv, Jobs
<1>7. at # "end"
  BY <1>1 DEF IInv, ExportInv, SlotInv, Jobs
<1>8. ExportType' /\ ExportInv' /\ DestinationWhole' /\ ExportTidy'
  BY <1>1, <1>7, ExportFrame DEF IInv
<1> QED BY <1>3, <1>4, <1>5, <1>6, <1>8 DEF IInv

\* Every step of the extraction.
LEMMA ExtractSteps ==
  ASSUME IInv, ExtractStep, UNCHANGED exportVars
  PROVE  IInv'
BY MakeRootStep, GivesUp, WalkSourceStep, WalkListStep, WalkEntryStep, WalkUpStep, WalkDoneStep,
   CopyItemStep, MakeTakenStep, MakeDirStep, MakeFileStep, MakeFileFailsStep, FileEndsStep,
   FileFailsStep, CopyDoneStep, FinishStep DEF ExtractStep

-----------------------------------------------------------------------------
(* The theorems.                                                           *)

\* The initial states.
LEMMA InitInv == Init => IInv
<1> SUFFICES ASSUME Init PROVE IInv
  OBVIOUS
<1>1. SlotInv
  <2>1. begun \in BOOLEAN /\ cancel \in BOOLEAN /\ extracting \in BOOLEAN
        /\ dialog \in BOOLEAN /\ hashing \in BOOLEAN
    BY DEF Init, SlotInit
  <2>2. queue = <<>> /\ done = <<>> /\ hashes \in 0..MaxHashes
    BY SlotAssumption DEF Init, SlotInit
  <2>3. "none" \notin Jobs
    BY DEF Jobs
  <2> QED BY <2>1, <2>2, <2>3 DEF Init, SlotInit, SlotInv
<1>2. CancelInv
  BY DEF Init, SlotInit, CancelInv, Jobs
<1>3. ExportType
  <2>1. dest \in [what : {"old"}]
    BY DEF Init, ExportInit
  <2>2. total \in Nat /\ copied \in 0..total /\ attempt \in 0..MaxAttempt + 1
    BY ExportAssumption DEF Init, ExportInit
  <2>3. failed \in BOOLEAN /\ flushed \in BOOLEAN /\ refused \in BOOLEAN
    BY DEF Init, ExportInit
  <2>4. at = "open" /\ theirs \in SUBSET (0..MaxAttempt)
    BY DEF Init, ExportInit
  <2> QED BY <2>1, <2>2, <2>3, <2>4 DEF ExportType
<1>4. ExportInv /\ DestinationWhole /\ ExportTidy
  BY DEF Init, ExportInit, ExportInv, DestinationWhole, ExportTidy
<1>5. WalkInv
  <2>1. /\ volume \in Volumes /\ aborted = FALSE /\ phase = "root"
        /\ sources = volume.top /\ frames = <<>> /\ work = <<>> /\ item = 1 /\ links = 0
    BY DEF Init, ExtractInit
  <2>2. sources \in Seq(Nodes) /\ sources # <<>>
    BY <2>1, ExtractAssumption DEF Nodes
  <2>3. frames \in Seq(Frame) /\ work \in Seq(Item({})) /\ Len(frames) = 0 /\ Len(work) = 0
    BY <2>1
  <2>4. Len(frames) <= WalkMaxDepth
    BY <2>3, ExtractAssumption
  <2>5. aborted \in BOOLEAN
    BY <2>1
  <2>6. WorkOK
    BY <2>3 DEF WorkOK
  <2>7. FramesOK
    BY <2>1, <2>3, <2>4 DEF FramesOK
  <2> QED BY <2>1, <2>2, <2>3, <2>5, <2>6, <2>7 DEF WalkInv
<1>6. HostInv
  <2>1. PICK foreign \in Foreign : others = {Entry(<<>>, name, "foreign", 0) : name \in foreign}
    BY DEF Init, ExtractInit
  <2>2. host = others /\ item = 1 /\ errors = {} /\ phase = "root" /\ Len(work) = 0
    BY DEF Init, ExtractInit
  <2>3. ASSUME NEW e \in host
        PROVE  /\ e = Entry(e.dir, e.name, e.what, e.of) /\ e.of = 0 /\ e.what = "foreign"
               /\ e.dir = <<>>
    <3>1. PICK name : e = Entry(<<>>, name, "foreign", 0)
      BY <2>1, <2>2
    <3> QED BY <3>1 DEF Entry
  <2>4. \A e \in host : EntryOK(e)
    BY <2>2, <2>3 DEF EntryOK
  <2>5. \A e, f \in host : Path(e) = Path(f) => e = f
    BY <2>3 DEF Path, Entry
  <2>6. \A i \in 1..item - 1 : FALSE
    BY <2>2
  <2> QED BY <2>2, <2>3, <2>4, <2>5, <2>6 DEF HostInv
<1> QED BY <1>1, <1>2, <1>3, <1>4, <1>5, <1>6 DEF IInv

\* The invariant is kept by every step of the user, the GUI, the backend and others.
THEOREM Inductive == Spec => []IInv
<1>1. ASSUME IInv, [Next]_vars PROVE IInv'
  <2>1. CASE UNCHANGED vars
    <3>1. SlotInv' /\ CancelInv'
      BY <1>1, <2>1, CommittedFrame
      DEF vars, slotVars, exportVars, extractVars, IInv, SlotInv, CancelInv
    <3> QED BY <1>1, <2>1, <3>1, SlotFrame DEF vars, slotVars
  <2>2. CASE UserStep
    BY <1>1, <2>2, StartJobStep, OpenPropsStep, StartHashStep, ClosePropsStep,
       PressCancelStep DEF UserStep, SlotUser
  <2>3. CASE GuiStep
    BY <1>1, <2>3, HandleDoneStep DEF GuiStep
  <2>4. CASE BackendStep
    BY <1>1, <2>4, TakeTaskStep, BeginTaskStep, HashEndsStep, ExportSteps, ExtractSteps
    DEF BackendStep
  <2>5. CASE OtherStep
    BY <1>1, <2>5, OtherMakesStep DEF OtherStep
  <2> QED BY <1>1, <2>1, <2>2, <2>3, <2>4, <2>5 DEF Next
<1> QED BY <1>1, InitInv, PTL DEF Spec

\* The variables have their types; the walk keeps its limit of depth, and items
\* of the work list lie in items before them.
THEOREM TypeCorrect == Spec => []TypeOK
<1>1. IInv => TypeOK
  <2> SUFFICES ASSUME IInv PROVE TypeOK
    OBVIOUS
  <2>1. DOMAIN queue = 1..Len(queue) /\ \A i \in 1..Len(queue) : queue[i] \in {"hash"} \cup Jobs
    BY DEF IInv, SlotInv
  <2>2. DOMAIN work = 1..Len(work)
    BY WorkLength DEF IInv, WalkInv
  <2>3. {begun, cancel, extracting, dialog, hashing} \subseteq BOOLEAN
    BY DEF IInv, SlotInv
  <2>4. {failed, flushed, refused, aborted} \subseteq BOOLEAN
    BY DEF IInv, ExportType, WalkInv
  <2>5. /\ Len(frames) <= WalkMaxDepth /\ item \in 1..Len(work) + 1
        /\ \A i \in 1..Len(work) : work[i].parent \in 0..i - 1
    BY DEF IInv, WalkInv, WorkOK, FramesOK
  <2>6. /\ outcome \in {"none", "ok", "failed"} /\ pressed \in {"no", "early", "heard", "late"}
        /\ hashes \in 0..MaxHashes /\ running \in {"none", "hash"} \cup Jobs
        /\ copied \in 0..total /\ attempt \in 0..MaxAttempt + 1
    BY DEF IInv, SlotInv, ExportType
  <2> QED BY <2>1, <2>2, <2>3, <2>4, <2>5, <2>6 DEF TypeOK
<1> QED BY <1>1, Inductive, PTL

\* At every moment the destination of an export is what it was, or the whole
\* image, flushed.
THEOREM DestinationSafe == Spec => []DestinationWhole
<1>1. IInv => DestinationWhole
  BY DEF IInv
<1> QED BY <1>1, Inductive, PTL

\* An export that is through leaves the temporary files of others and none of its
\* own but one it was refused to delete, and that only if it failed; it replaced
\* the destination exactly if it reports success.
THEOREM ExportLeavesTidy == Spec => []ExportTidy
<1>1. IInv => ExportTidy
  BY DEF IInv
<1> QED BY <1>1, Inductive, PTL

\* The paths of the directories made are distinct, and none of others' entries.
LEMMA DirsApart ==
  ASSUME WalkInv, HostInv, NEW c \in MadeDirs, NEW d \in MadeDirs
  PROVE  /\ \A f \in others : Path(f) # Target(d)
         /\ Target(c) = Target(d) => c = d
<1>1. \A i \in MadeDirs : i # 0 => i \in 1..item - 1 /\ DirAt(volume, work, i)
  BY DEF MadeDirs, IsDir, Kind, DirAt
<1>2. ASSUME NEW i \in MadeDirs, i # 0
      PROVE  \E e \in host : e.of = i /\ Target(i) = Path(e)
  BY <1>1, <1>2 DEF HostInv, Target
<1>3. Target(0) = <<>> /\ \A e : Path(e) # <<>>
  BY DEF Target, Path
<1>4. \A e, f \in host : Path(e) = Path(f) => e = f
  BY DEF HostInv
<1>5. \A f \in others : f \in host /\ f.of = 0
  BY DEF HostInv, EntryOK
<1>6. \A f \in others : Path(f) # Target(d)
  BY <1>2, <1>3, <1>4, <1>5
<1>7. Target(c) = Target(d) => c = d
  BY <1>2, <1>3, <1>4
<1> QED BY <1>6, <1>7

\* The extraction writes over nothing of others', takes no directory of theirs for
\* one of its own and mixes the contents of no two directories, whatever names
\* fall together, with or without a number.
THEOREM NeverOverwrites == Spec => []NothingOverwritten
<1>1. IInv => NothingOverwritten
  <2> SUFFICES ASSUME IInv, NEW d \in MadeDirs
               PROVE  /\ others \subseteq host
                      /\ \A f \in others : Path(f) # Target(d)
                      /\ \A e \in host \ others : e.dir = Target(d) <=> work[e.of].parent = d
    BY DEF NothingOverwritten, IInv, HostInv, MadeDirs
  <2>1. others \subseteq host /\ \A f \in others : Path(f) # Target(d)
    BY DirsApart DEF IInv, HostInv
  <2>2. ASSUME NEW e \in host \ others
        PROVE  e.dir = Target(d) <=> work[e.of].parent = d
    <3>1. /\ e.of \in 0..Len(work) /\ e.of # 0 /\ e.dir = At(work, work[e.of].parent)
          /\ e.of <= item /\ Len(work) \in Nat /\ item \in 1..Len(work) + 1
      BY <2>2, WorkLength DEF IInv, HostInv, EntryOK, WalkInv
    <3>2. e.of \in 1..Len(work)
      BY <3>1
    <3>3. PICK c : c = work[e.of].parent
      OBVIOUS
    <3>4. c \in 0..e.of - 1 /\ (c # 0 => DirAt(volume, work, c))
      BY <3>2, <3>3 DEF IInv, WalkInv, WorkOK
    <3>5. c # 0 => c \in 1..item - 1
      BY <3>1, <3>2, <3>4
    <3>6. c \in MadeDirs
      BY <3>4, <3>5 DEF MadeDirs, DirAt, IsDir, Kind
    <3>7. e.dir = Target(c)
      BY <3>1, <3>3 DEF At, Target
    <3> QED BY <3>3, <3>6, <3>7, DirsApart DEF IInv
  <2> QED BY <2>1, <2>2
<1> QED BY <1>1, Inductive, PTL

\* Every item of an extraction that is through is there or among the errors, and
\* no file is half written but one of an error, or of the item at which the job was
\* cancelled, that could not be removed.
THEOREM ItemsAccounted == Spec => []AllAccounted
<1>1. IInv => AllAccounted
  <2> SUFFICES ASSUME IInv, phase = "end" PROVE
        /\ \A e \in host : e.what # "part"
        /\ \A e \in host : e.what = "stuck" => e.of \in errors \/ (aborted /\ e.of = item)
        /\ \/ aborted
           \/ \A i \in DOMAIN work :
                (i \in errors) # \E e \in host : e.of = i /\ e.what \in {"dir", "whole"}
    BY DEF AllAccounted
  <2>1. \A e \in host : /\ e.what # "part" /\ (e.of # 0 => e.what \in {"dir", "whole", "stuck"})
                        /\ e.what = "stuck" => e.of \in errors \/ (aborted /\ e.of = item)
    BY DEF IInv, HostInv, EntryOK
  <2>2. ASSUME ~aborted, NEW i \in DOMAIN work
        PROVE  (i \in errors) # \E e \in host : e.of = i /\ e.what \in {"dir", "whole"}
    <3>1. DOMAIN work = 1..Len(work) /\ item = Len(work) + 1 /\ Len(work) \in Nat
      BY <2>2, WorkLength DEF IInv, WalkInv
    <3>2. i \in 1..item - 1 /\ i # 0
      BY <3>1
    <3>3. i \in errors <=> \A e \in host : e.of = i => e.what = "stuck"
      BY <3>2 DEF IInv, HostInv
    <3> QED BY <2>1, <3>2, <3>3
  <2> QED BY <2>1, <2>2
<1> QED BY <1>1, Inductive, PTL

\* A Cancel pressed in time stops its job, and nothing else sets the flag of a
\* running job.
THEOREM CancelExact == Spec => []CancelHitsItsJob
<1>1. IInv => CancelHitsItsJob
  BY DEF IInv, CancelInv, SlotInv, CancelHitsItsJob
<1> QED BY <1>1, Inductive, PTL
=============================================================================
