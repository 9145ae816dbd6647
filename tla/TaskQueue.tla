----------------------------- MODULE TaskQueue -----------------------------
(***************************************************************************)
(* What the backend promises the GUI thread (FsRover/backend.h): a task is *)
(* posted under a fresh sequence number, and its result comes back once,   *)
(* after the results of everything posted before it, unless the task or    *)
(* its result was discarded.  How the backend thread gets there, and what  *)
(* backend_call() does meanwhile, is invisible here.                       *)
(***************************************************************************)
EXTENDS Naturals, Sequences

VARIABLES
  posted,    \* the last sequence number given out
  answered,  \* the results delivered, in order
  discarded  \* the tasks that will not be answered

tqvars == <<posted, answered, discarded>>

Answers == {answered[i] : i \in 1..Len(answered)}

\* Posted, and neither answered nor discarded.
Open == (1..posted) \ (Answers \cup discarded)

TQInit == posted = 0 /\ answered = <<>> /\ discarded = {}

Post ==
  /\ posted' = posted + 1
  /\ UNCHANGED <<answered, discarded>>

\* Only the oldest open task can be answered.
Answer ==
  /\ \E s \in Open :
       /\ \A t \in Open : s <= t
       /\ answered' = Append(answered, s)
  /\ UNCHANGED <<posted, discarded>>

\* A stop discards what is queued, a failing PostMessage() one result.
Discard ==
  /\ \E S \in SUBSET Open : discarded' = discarded \cup S
  /\ UNCHANGED <<posted, answered>>

TQNext == Post \/ Answer \/ Discard

TQSpec == TQInit /\ [][TQNext]_tqvars
=============================================================================
