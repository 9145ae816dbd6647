------------------------------ MODULE Backend ------------------------------
(***************************************************************************)
(* The grub backend thread of FsRover (FsRover/backend.cpp).               *)
(*                                                                         *)
(* grub keeps global state, so every grub call runs on one thread.  The    *)
(* GUI thread starts and stops that thread, posts tasks and cancels them;  *)
(* Dokan/WinFsp workers run functions on it with backend_call() and block  *)
(* until they are done.  Each step below is one critical section of        *)
(* g_lock, one access to an atomic, or a stretch of code that touches no   *)
(* shared state.                                                           *)
(***************************************************************************)
EXTENDS Naturals, Sequences

CONSTANTS
  Callers,      \* the threads that use backend_call()
  MaxCalls,     \* bound: calls made by each of them
  MaxSeq,       \* bound: tasks posted
  MaxStarts,    \* bound: times the backend is started
  Chunks,       \* bound: chunks (or directory entries) of a long task
  WaitCanFail,  \* those of them whose WaitForMultipleObjects() may fail
  NoTask, NoReq \* "none" for a task and for a request

ASSUME BackendAssumption ==
  /\ MaxCalls \in Nat
  /\ MaxSeq \in Nat
  /\ MaxStarts \in Nat
  /\ Chunks \in Nat
  /\ WaitCanFail \subseteq Callers

\* sync_request: a call is named by its caller and that caller's call count.
Request == Callers \X (1..MaxCalls)

\* Tasks differ in how they run: "short" and "list" (list_dir) have no
\* checkpoint; "sizes" (list_sizes) watches g_latest_list_seq; "long" (extract,
\* export_image, hash_file, read_chunk) watches g_cancel.
Kinds == {"short", "list", "sizes", "long"}

Task == [seq : 1..MaxSeq, kind : Kinds, owner : 0..MaxSeq]

ASSUME NoneAssumption == NoTask \notin Task /\ NoReq \notin Request

VARIABLES
  \* Shared, guarded by g_lock.
  g_queue, g_requests, g_state, g_stop, g_seq, g_thread,
  \* Shared atomics.
  g_cancel, g_latest_list_seq,
  \* Backend thread.
  bpc,       \* where it is
  ret,       \* where service_requests() returns to
  item,      \* the task taken from g_queue
  left,      \* work units the running task still has
  req,       \* the request service_requests() is running
  grub_up,   \* between rover_init() and rover_fini()
  generation,\* which start of the backend this thread belongs to
  \* GUI thread.
  gpc,       \* "idle", or where it is in backend_stop()
  mailbox,   \* seqs of the TASK_DONE messages it was sent, all of them
  dropped,   \* seqs discarded by backend_stop() or by a failing PostMessage
  \* Callers.
  cpc,       \* "idle", "waiting" or "withdraw" (about to erase its request)
  calls,     \* calls made
  thread_wait, \* generation of the duplicated thread handle
  outcome,   \* what the last call returned
  done,      \* requests whose event is set
  bypassed   \* work units finished while the caller's request was queued

shared == <<g_queue, g_requests, g_state, g_stop, g_seq, g_thread,
            g_cancel, g_latest_list_seq>>
backend == <<bpc, ret, item, left, req, grub_up, generation>>
gui == <<gpc, mailbox, dropped>>
callers == <<cpc, calls, thread_wait, outcome, done, bypassed>>
vars == <<shared, backend, gui, callers>>

Elems(s) == {s[i] : i \in 1..Len(s)}

\* The request of c's present call.
Current(c) == <<c, calls[c]>>

\* std::find + erase.
Erase(s, r) ==
  IF r \in Elems(s)
  THEN LET i == CHOOSE j \in 1..Len(s) : s[j] = r
       IN  SubSeq(s, 1, i - 1) \o SubSeq(s, i + 1, Len(s))
  ELSE s

Init ==
  /\ g_queue = <<>> /\ g_requests = <<>>
  /\ g_state = "stopped" /\ g_stop = FALSE /\ g_seq = 0 /\ g_thread = FALSE
  /\ g_cancel = FALSE /\ g_latest_list_seq = 0
  /\ bpc = "none" /\ ret = "wait" /\ item = NoTask /\ left = 0
  /\ req = NoReq /\ grub_up = FALSE /\ generation = 0
  /\ gpc = "idle" /\ mailbox = <<>> /\ dropped = {}
  /\ cpc = [c \in Callers |-> "idle"]
  /\ calls = [c \in Callers |-> 0]
  /\ thread_wait = [c \in Callers |-> 0]
  /\ outcome = [c \in Callers |-> "none"]
  /\ done = {}
  /\ bypassed = [c \in Callers |-> 0]

-----------------------------------------------------------------------------
(* The backend thread: backend_main() and what it calls.                   *)

\* rover_init(), then "running" unless backend_stop() came first.
MainInit ==
  /\ bpc = "init"
  /\ grub_up' = TRUE
  /\ g_state' = IF g_state = "starting" THEN "running" ELSE g_state
  /\ bpc' = "wait"
  /\ UNCHANGED <<g_queue, g_requests, g_stop, g_seq, g_thread, g_cancel,
                 g_latest_list_seq, ret, item, left, req, generation,
                 gui, callers>>

\* Faulty wakeups: the loop sleeps through requests, or through g_stop.
AwakeDeafToRequests == g_stop \/ g_queue # <<>>

AwakeDeafToStop == g_queue # <<>> \/ g_requests # <<>>

\* The predicate of g_wake.wait(), evaluated under g_lock.
Awake == g_stop \/ g_queue # <<>> \/ g_requests # <<>>

\* The wait on g_wake: leave the loop on g_stop, else take a task if there is
\* one; either way the pending requests come first.
MainWake ==
  /\ bpc = "wait"
  /\ Awake
  /\ \/ /\ g_stop
        /\ ret' = "fini"
        /\ UNCHANGED <<g_queue, item>>
     \/ /\ ~g_stop
        /\ g_queue # <<>>
        /\ item' = Head(g_queue)
        /\ g_queue' = Tail(g_queue)
        /\ ret' = "reset"
     \/ /\ ~g_stop
        /\ g_queue = <<>>
        /\ ret' = "wait"
        /\ UNCHANGED <<g_queue, item>>
  /\ bpc' = "service"
  /\ UNCHANGED <<g_requests, g_state, g_stop, g_seq, g_thread, g_cancel,
                 g_latest_list_seq, left, req, grub_up, generation,
                 gui, callers>>

\* Faulty: nothing is served on the way out of backend_main().
ServiceRequestsNotLast ==
  /\ bpc = "service"
  /\ \/ /\ g_requests = <<>> \/ ret = "fini"
        /\ bpc' = ret
        /\ UNCHANGED <<g_requests, req>>
     \/ /\ g_requests # <<>> /\ ret # "fini"
        /\ req' = Head(g_requests)
        /\ g_requests' = Tail(g_requests)
        /\ bpc' = "fn"
  /\ UNCHANGED <<g_queue, g_state, g_stop, g_seq, g_thread, g_cancel,
                 g_latest_list_seq, ret, item, left, grub_up, generation,
                 gui, callers>>

\* service_requests(): one turn of its loop under g_lock.
ServiceRequests ==
  /\ bpc = "service"
  /\ \/ /\ g_requests = <<>>
        /\ bpc' = ret
        /\ UNCHANGED <<g_requests, req>>
     \/ /\ g_requests # <<>>
        /\ req' = Head(g_requests)
        /\ g_requests' = Tail(g_requests)
        /\ bpc' = "fn"
  /\ UNCHANGED <<g_queue, g_state, g_stop, g_seq, g_thread, g_cancel,
                 g_latest_list_seq, ret, item, left, grub_up, generation,
                 gui, callers>>

\* req->fn () returns and its event is set.
RunRequest ==
  /\ bpc = "fn"
  /\ done' = done \cup {req}
  /\ req' = NoReq
  /\ bpc' = "service"
  /\ UNCHANGED <<shared, ret, item, left, grub_up, generation, gui,
                 cpc, calls, thread_wait, outcome, bypassed>>

\* g_cancel.store (false) before run_task(); the task's size, or the unit at
\* which it fails, is picked here.
ResetCancel ==
  /\ bpc = "reset"
  /\ g_cancel' = FALSE
  /\ left' \in IF item.kind \in {"sizes", "long"} THEN 0..Chunks ELSE {1}
  /\ bpc' = "run"
  /\ UNCHANGED <<g_queue, g_requests, g_state, g_stop, g_seq, g_thread,
                 g_latest_list_seq, ret, item, req, grub_up, generation,
                 gui, callers>>

\* Does the running task give up at this checkpoint?
GivesUp ==
  \/ item.kind = "long" /\ g_cancel
  \/ item.kind = "sizes" /\ item.owner # g_latest_list_seq

CheckpointNoService ==
  /\ bpc = "run"
  /\ item.kind \in {"sizes", "long"}
  /\ left > 0
  /\ ~GivesUp
  /\ bpc' = "chunk"
  /\ UNCHANGED <<shared, ret, item, left, req, grub_up, generation, gui, callers>>

\* A checkpoint of a long task that goes on: serve the requests, then read
\* the next chunk (or open the next entry).
Checkpoint ==
  /\ bpc = "run"
  /\ item.kind \in {"sizes", "long"}
  /\ left > 0
  /\ ~GivesUp
  /\ ret' = "chunk"
  /\ bpc' = "service"
  /\ UNCHANGED <<shared, item, left, req, grub_up, generation, gui, callers>>

\* One unit of task work ends: whoever is still queued has been overtaken.
Overtake ==
  bypassed' = [c \in Callers |->
                 IF Current(c) \in Elems(g_requests)
                 THEN bypassed[c] + 1 ELSE bypassed[c]]

\* rover_file_read() or rover_file_open() of one unit.
Chunk ==
  /\ bpc = "chunk"
  /\ left' = left - 1
  /\ bpc' = "run"
  /\ Overtake
  /\ UNCHANGED <<shared, ret, item, req, grub_up, generation, gui,
                 cpc, calls, thread_wait, outcome, done>>

\* Faulty: the result is deleted even when the message was posted.
PostResultAndDelete ==
  /\ mailbox' = Append(mailbox, item.seq)
  /\ dropped' = dropped \cup {item.seq}
  /\ item' = NoTask
  /\ bpc' = "wait"

\* PostMessage (WM_APP_TASK_DONE), or delete the result when that fails.
PostResult ==
  /\ \/ mailbox' = Append(mailbox, item.seq) /\ UNCHANGED dropped
     \/ dropped' = dropped \cup {item.seq} /\ UNCHANGED mailbox
  /\ item' = NoTask
  /\ bpc' = "wait"

\* A task without checkpoints runs to its end as one unit.
RunShort ==
  /\ bpc = "run"
  /\ item.kind \in {"short", "list"}
  /\ left' = 0
  /\ PostResult
  /\ Overtake
  /\ UNCHANGED <<shared, ret, req, grub_up, generation, gpc,
                 cpc, calls, thread_wait, outcome, done>>

\* A long task ends at a checkpoint: finished, failed or giving up.
FinishLong ==
  /\ bpc = "run"
  /\ item.kind \in {"sizes", "long"}
  /\ left = 0 \/ GivesUp
  /\ left' = 0
  /\ PostResult
  /\ UNCHANGED <<shared, ret, req, grub_up, generation, gpc, callers>>

\* After the loop and the last service_requests(): rover_fini() and
\* filetype_shutdown().
MainFini ==
  /\ bpc = "fini"
  /\ grub_up' = FALSE
  /\ bpc' = "mark"
  /\ UNCHANGED <<shared, ret, item, left, req, generation, gui, callers>>

\* "stopped" under the lock; returning signals the thread handle.
MainExit ==
  /\ bpc = "mark"
  /\ g_state' = "stopped"
  /\ bpc' = "exited"
  /\ UNCHANGED <<g_queue, g_requests, g_stop, g_seq, g_thread, g_cancel,
                 g_latest_list_seq, ret, item, left, req, grub_up, generation,
                 gui, callers>>

BackendStep ==
  \/ MainInit \/ MainWake \/ ServiceRequests \/ RunRequest \/ ResetCancel
  \/ Checkpoint \/ Chunk \/ RunShort \/ FinishLong \/ MainFini \/ MainExit

-----------------------------------------------------------------------------
(* The GUI thread.                                                         *)

\* backend_start(); _beginthreadex() may fail.
BackendStart ==
  /\ gpc = "idle"
  /\ generation < MaxStarts
  /\ g_state = "stopped" /\ ~g_thread
  /\ g_stop' = FALSE
  /\ g_cancel' = FALSE
  /\ \/ /\ g_state' = "starting"
        /\ g_thread' = TRUE
        /\ generation' = generation + 1
        /\ bpc' = "init"
     \/ UNCHANGED <<g_state, g_thread, generation, bpc>>
  /\ UNCHANGED <<g_queue, g_requests, g_seq, g_latest_list_seq,
                 ret, item, left, req, grub_up, gui, callers>>

\* backend_post(): a list_dir becomes the newest listing; a list_sizes belongs
\* to the listing that is the newest when it is posted.
BackendPost(kind) ==
  /\ gpc = "idle"
  /\ g_state = "running"
  /\ g_seq < MaxSeq
  /\ kind = "sizes" => g_latest_list_seq # 0
  /\ g_seq' = g_seq + 1
  /\ g_latest_list_seq' = IF kind = "list" THEN g_seq' ELSE g_latest_list_seq
  /\ g_queue' = Append(g_queue,
                  [seq |-> g_seq', kind |-> kind,
                   owner |-> IF kind = "sizes" THEN g_latest_list_seq ELSE 0])
  /\ UNCHANGED <<g_requests, g_state, g_stop, g_thread, g_cancel,
                 backend, gui, callers>>

\* backend_cancel().
BackendCancel ==
  /\ gpc = "idle"
  /\ g_thread
  /\ g_cancel' = TRUE
  /\ UNCHANGED <<g_queue, g_requests, g_state, g_stop, g_seq, g_thread,
                 g_latest_list_seq, backend, gui, callers>>

\* Faulty: the queued tasks are neither run nor discarded.
StopRequestKeepsQueue ==
  /\ gpc = "idle"
  /\ g_thread
  /\ g_state' = "stopping"
  /\ g_stop' = TRUE
  /\ gpc' = "cancel"
  /\ UNCHANGED <<g_queue, g_requests, g_seq, g_thread, g_cancel,
                 g_latest_list_seq, backend, mailbox, dropped, callers>>

\* backend_stop(), first critical section.
StopRequest ==
  /\ gpc = "idle"
  /\ g_thread
  /\ IF g_state # "stopped"
     THEN /\ g_state' = "stopping"
          /\ g_stop' = TRUE
          /\ dropped' = dropped \cup {t.seq : t \in Elems(g_queue)}
          /\ g_queue' = <<>>
     ELSE UNCHANGED <<g_state, g_stop, dropped, g_queue>>
  /\ gpc' = "cancel"
  /\ UNCHANGED <<g_requests, g_seq, g_thread, g_cancel, g_latest_list_seq,
                 backend, mailbox, callers>>

\* backend_stop(): g_cancel.store (true), outside the lock.
StopCancel ==
  /\ gpc = "cancel"
  /\ g_cancel' = TRUE
  /\ gpc' = "join"
  /\ UNCHANGED <<g_queue, g_requests, g_state, g_stop, g_seq, g_thread,
                 g_latest_list_seq, backend, mailbox, dropped, callers>>

\* backend_stop(): the thread has exited; second critical section.
StopJoin ==
  /\ gpc = "join"
  /\ bpc = "exited"
  /\ g_thread' = FALSE
  /\ g_state' = "stopped"
  /\ g_stop' = FALSE
  /\ g_requests' = <<>>
  /\ bpc' = "none"
  /\ gpc' = "idle"
  /\ UNCHANGED <<g_queue, g_seq, g_cancel, g_latest_list_seq, ret, item, left,
                 req, grub_up, generation, mailbox, dropped, callers>>

GuiStep ==
  \/ BackendStart
  \/ \E kind \in Kinds : BackendPost(kind)
  \/ BackendCancel \/ StopRequest \/ StopCancel \/ StopJoin

-----------------------------------------------------------------------------
(* backend_call() on a worker thread.                                      *)

\* Refused: the backend is not running.
CallRefused(c) ==
  /\ cpc[c] = "idle"
  /\ calls[c] < MaxCalls
  /\ g_state # "running"
  /\ calls' = [calls EXCEPT ![c] = @ + 1]
  /\ outcome' = [outcome EXCEPT ![c] = "refused"]
  /\ UNCHANGED <<shared, backend, gui, cpc, thread_wait, done, bypassed>>

\* Faulty: calls are accepted until the thread is gone.
CallQueueLate(c) ==
  /\ cpc[c] = "idle"
  /\ calls[c] < MaxCalls
  /\ g_thread
  /\ calls' = [calls EXCEPT ![c] = @ + 1]
  /\ g_requests' = Append(g_requests, <<c, calls[c] + 1>>)
  /\ thread_wait' = [thread_wait EXCEPT ![c] = generation]
  /\ cpc' = [cpc EXCEPT ![c] = "waiting"]
  /\ outcome' = [outcome EXCEPT ![c] = "none"]
  /\ bypassed' = [bypassed EXCEPT ![c] = 0]
  /\ UNCHANGED <<g_queue, g_state, g_stop, g_seq, g_thread, g_cancel,
                 g_latest_list_seq, backend, gui, done>>

\* Queued, holding a handle of the present thread.
CallQueue(c) ==
  /\ cpc[c] = "idle"
  /\ calls[c] < MaxCalls
  /\ g_state = "running"
  /\ calls' = [calls EXCEPT ![c] = @ + 1]
  /\ g_requests' = Append(g_requests, <<c, calls[c] + 1>>)
  /\ thread_wait' = [thread_wait EXCEPT ![c] = generation]
  /\ cpc' = [cpc EXCEPT ![c] = "waiting"]
  /\ outcome' = [outcome EXCEPT ![c] = "none"]
  /\ bypassed' = [bypassed EXCEPT ![c] = 0]
  /\ UNCHANGED <<g_queue, g_state, g_stop, g_seq, g_thread, g_cancel,
                 g_latest_list_seq, backend, gui, done>>

\* The duplicated handle is signalled once its thread has exited.
Signalled(c) ==
  \/ thread_wait[c] < generation
  \/ thread_wait[c] = generation /\ bpc \in {"exited", "none"}

\* The event comes first among the waited handles: return true.
CallDone(c) ==
  /\ cpc[c] = "waiting"
  /\ Current(c) \in done
  /\ cpc' = [cpc EXCEPT ![c] = "idle"]
  /\ outcome' = [outcome EXCEPT ![c] = "ok"]
  /\ UNCHANGED <<shared, backend, gui, calls, thread_wait, done, bypassed>>

\* The thread exited without it, or the wait failed.
CallAbandon(c) ==
  /\ cpc[c] = "waiting"
  /\ \/ Current(c) \notin done /\ Signalled(c)
     \/ c \in WaitCanFail
  /\ cpc' = [cpc EXCEPT ![c] = "withdraw"]
  /\ UNCHANGED <<shared, backend, gui, calls, thread_wait, outcome, done,
                 bypassed>>

\* Faulty: an unclaimed request stays in g_requests.
CallWithdrawNothing(c) ==
  /\ cpc[c] = "withdraw"
  /\ cpc' = [cpc EXCEPT ![c] = "idle"]
  /\ outcome' = [outcome EXCEPT ![c] = "failed"]
  /\ UNCHANGED <<shared, backend, gui, calls, thread_wait, done, bypassed>>

\* Erase the request if nobody claimed it; return false.
CallWithdraw(c) ==
  /\ cpc[c] = "withdraw"
  /\ g_requests' = Erase(g_requests, Current(c))
  /\ cpc' = [cpc EXCEPT ![c] = "idle"]
  /\ outcome' = [outcome EXCEPT ![c] = "failed"]
  /\ UNCHANGED <<g_queue, g_state, g_stop, g_seq, g_thread, g_cancel,
                 g_latest_list_seq, backend, gui, calls, thread_wait, done,
                 bypassed>>

CallReturn(c) == CallDone(c) \/ CallAbandon(c) \/ CallWithdraw(c)

CallerStep(c) == CallRefused(c) \/ CallQueue(c) \/ CallReturn(c)

Next == BackendStep \/ GuiStep \/ \E c \in Callers : CallerStep(c)

\* The threads are scheduled fairly; nobody is obliged to start the backend,
\* to post, to cancel, to stop or to call.
Fairness ==
  /\ WF_vars(BackendStep)
  /\ WF_vars(StopCancel)
  /\ WF_vars(StopJoin)
  /\ \A c \in Callers : WF_vars(CallDone(c) \/ CallWithdraw(c))
                        /\ WF_vars(Current(c) \notin done /\ CallAbandon(c))

Spec == Init /\ [][Next]_vars

FairSpec == Spec /\ Fairness
-----------------------------------------------------------------------------
(* Properties.                                                             *)

States == {"stopped", "starting", "running", "stopping"}
BackendPcs == {"none", "init", "wait", "service", "fn", "reset", "run",
               "chunk", "fini", "mark", "exited"}

SharedTypes ==
  /\ g_queue \in Seq(Task)
  /\ g_requests \in Seq(Request)
  /\ g_state \in States
  /\ g_stop \in BOOLEAN
  /\ g_seq \in 0..MaxSeq
  /\ g_thread \in BOOLEAN
  /\ g_cancel \in BOOLEAN
  /\ g_latest_list_seq \in 0..MaxSeq

BackendTypes ==
  /\ bpc \in BackendPcs
  /\ ret \in {"wait", "reset", "chunk", "fini"}
  /\ item \in Task \cup {NoTask}
  /\ left \in Nat
  /\ req \in Request \cup {NoReq}
  /\ grub_up \in BOOLEAN
  /\ generation \in 0..MaxStarts

GuiTypes ==
  /\ gpc \in {"idle", "cancel", "join"}
  /\ mailbox \in Seq(1..MaxSeq)
  /\ dropped \in SUBSET (1..MaxSeq)

CallerTypes ==
  /\ cpc \in [Callers -> {"idle", "waiting", "withdraw"}]
  /\ calls \in [Callers -> 0..MaxCalls]
  /\ thread_wait \in [Callers -> 0..MaxStarts]
  /\ outcome \in [Callers -> {"none", "ok", "refused", "failed"}]
  /\ done \in SUBSET Request
  /\ bypassed \in [Callers -> Nat]

\* Every variable of the backend protocol has its declared type.
TypeOK == SharedTypes /\ BackendTypes /\ GuiTypes /\ CallerTypes

\* Whatever is queued in g_requests belongs to a call that has not returned
\* and has not run yet: backend_call() removes its unclaimed request before it
\* returns false, and backend_stop() leaves none behind.
QueuedCallsPending ==
  \A i \in 1..Len(g_requests) :
    LET r == g_requests[i] IN
      /\ r = Current(r[1])
      /\ cpc[r[1]] \in {"waiting", "withdraw"}
      /\ r \notin done

\* grub is used only between rover_init() and rover_fini(), and when it is
\* gone nobody is left waiting in g_requests ("Unblock any straggler before
\* grub state goes away", backend_main()).
GrubConfined ==
  /\ bpc \in {"fn", "run", "chunk"} => grub_up
  /\ ~grub_up => g_requests = <<>>

\* The function given to backend_call() runs only while that very call has not
\* returned, so the references it captured are alive.
CapturesAlive ==
  bpc = "fn" => /\ cpc[req[1]] # "idle"
                /\ req = Current(req[1])

\* A caller whose own wait does not fail has its captures alive, and a call of
\* it that was accepted never comes back false, however it races with
\* backend_stop() and with callers whose waits do fail.
AcceptedCallsSucceed ==
  /\ bpc = "fn" /\ req[1] \notin WaitCanFail => CapturesAlive
  /\ \A c \in Callers \ WaitCanFail : outcome[c] # "failed"

\* The tasks that have not been discarded, oldest first: results sent, the
\* task being run, the queue.
Pipeline ==
  mailbox \o (IF item = NoTask THEN <<>> ELSE <<item.seq>>)
          \o [i \in 1..Len(g_queue) |-> g_queue[i].seq]

\* Results come back in the order of posting, each at most once, and every
\* posted task is queued, running, answered or discarded.
ResultsInOrder ==
  /\ \A i, j \in 1..Len(Pipeline) : i < j => Pipeline[i] < Pipeline[j]
  /\ Elems(Pipeline) \cup dropped = 1..g_seq
  /\ Elems(Pipeline) \cap dropped = {}

\* What the GUI thread sees of all this.
GuiView == INSTANCE TaskQueue
  WITH posted <- g_seq, answered <- mailbox, discarded <- dropped

\* The backend implements the in-order queue of TaskQueue, through stops,
\* restarts and failing messages: a step of any thread posts one task, answers
\* the oldest open one, discards open ones, or changes nothing the GUI sees.
ImplementsTaskQueue == GuiView!TQSpec

\* "Requests jump ahead of queued tasks and are also serviced inside long
\* tasks between read chunks": no request sees more than the one unit of task
\* work finish that was under way when it was queued.
BoundedOvertaking ==
  \A c \in Callers : bypassed[c] <= 1

\* "Shutdown responsive between fs reads": once backend_stop() has asked the
\* running task to stop, a task at its checkpoint finds g_cancel set.
StopHeard ==
  gpc = "join" /\ bpc = "run" => g_cancel

\* Every backend_call() returns, whatever is queued and whoever stops the
\* backend meanwhile.
CallsReturn ==
  \A c \in Callers : cpc[c] = "waiting" ~> cpc[c] = "idle"

\* backend_stop() always gets its thread joined.
StopReturns ==
  gpc = "cancel" ~> gpc = "idle"

\* Every task backend_post() accepted is answered or discarded in the end.
TasksEnd ==
  \A s \in 1..MaxSeq : g_seq >= s ~> s \in Elems(mailbox) \cup dropped
=============================================================================
