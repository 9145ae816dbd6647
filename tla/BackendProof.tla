---------------------------- MODULE BackendProof ----------------------------
(***************************************************************************)
(* Proofs about the backend protocol, for any number of callers, calls,    *)
(* tasks, restarts and chunks.                                             *)
(***************************************************************************)
EXTENDS Backend, TLAPS

Working == {"wait", "service", "fn", "reset", "run", "chunk"}

\* service_requests() was called from the end of backend_main().
Leaving == bpc \in {"service", "fn"} /\ ret = "fini"

\* How g_state, g_stop, the thread and backend_stop() go together.
ThreadInv ==
  /\ g_thread <=> bpc # "none"
  /\ bpc = "none" => g_state = "stopped" /\ gpc = "idle"
  /\ bpc = "init" => g_requests = <<>> /\ g_state \in {"starting", "stopping"}
  /\ bpc \in {"fini", "mark", "exited", "none"} => g_requests = <<>>
  /\ bpc \in {"fini", "mark", "exited"} \/ Leaving => g_stop
  /\ g_stop => gpc # "idle" /\ g_state \in {"stopping", "stopped"}
  /\ bpc \in Working => g_state \in {"running", "stopping"}
  /\ gpc # "idle" => g_thread /\ g_state \in {"stopping", "stopped"}
  /\ g_state = "starting" => bpc = "init"
  /\ grub_up <=> bpc \in Working \cup {"fini"}

\* The task at hand.
ItemInv ==
  /\ bpc \in {"reset", "run", "chunk"} => item \in Task
  /\ bpc \in {"service", "fn"} /\ ret \in {"reset", "chunk"} => item \in Task
  /\ bpc = "chunk" \/ (bpc \in {"service", "fn"} /\ ret = "chunk") =>
       left > 0 /\ item.kind \in {"sizes", "long"}

\* A request in the queue: its call is pending on the present thread.
QueuedCall(r) ==
  /\ r = Current(r[1])
  /\ cpc[r[1]] \in {"waiting", "withdraw"}
  /\ thread_wait[r[1]] = generation
  /\ r \notin done

\* Everything queued is such a request, queued once.
QueueInv ==
  /\ \A i \in 1..Len(g_requests) : QueuedCall(g_requests[i])
  /\ \A i, j \in 1..Len(g_requests) : g_requests[i] = g_requests[j] => i = j

\* The request being run.
ClaimInv ==
  bpc = "fn" =>
    /\ req \in Request
    /\ req \notin done
    /\ req[2] <= calls[req[1]]
    /\ \A i \in 1..Len(g_requests) : g_requests[i] # req
    /\ req[1] \notin WaitCanFail =>
         /\ req = Current(req[1])
         /\ cpc[req[1]] = "waiting"
         /\ thread_wait[req[1]] = generation

\* Requests are never reused: only calls already made are done.
DoneInv == \A r \in done : r[2] <= calls[r[1]]

\* Where the request of a blocked call can be.
CallInv ==
  \A c \in Callers \ WaitCanFail :
    /\ cpc[c] # "withdraw"
    /\ outcome[c] # "failed"
    /\ cpc[c] = "waiting" =>
         \/ Current(c) \in done
         \/ \E i \in 1..Len(g_requests) : g_requests[i] = Current(c)
         \/ bpc = "fn" /\ req = Current(c)

\* A request queued while a unit of task work is under way has not been
\* overtaken by another one.
BypassInv ==
  /\ \A c \in Callers : bypassed[c] \in {0, 1}
  /\ \/ bpc \in {"reset", "chunk"}
     \/ bpc = "run" /\ item.kind \in {"short", "list"}
     => \A i \in 1..Len(g_requests) : bypassed[g_requests[i][1]] = 0

\* The inductive invariant.
IInv ==
  /\ TypeOK
  /\ ThreadInv
  /\ ItemInv
  /\ QueueInv
  /\ ClaimInv
  /\ DoneInv
  /\ CallInv
  /\ BypassInv

-----------------------------------------------------------------------------
(* Sequences.                                                              *)

\* What taking the first element of a queue leaves.
LEMMA TailFacts ==
  ASSUME NEW S, NEW s \in Seq(S), s # <<>>
  PROVE  /\ Head(s) = s[1] /\ Head(s) \in S
         /\ Tail(s) \in Seq(S)
         /\ Len(s) \in Nat /\ Len(s) > 0
         /\ Len(Tail(s)) = Len(s) - 1
         /\ \A i \in 1..Len(Tail(s)) : Tail(s)[i] = s[i + 1]
  OBVIOUS

\* What queueing at the end adds.
LEMMA AppendFacts ==
  ASSUME NEW S, NEW s \in Seq(S), NEW e \in S
  PROVE  /\ Append(s, e) \in Seq(S)
         /\ Len(s) \in Nat
         /\ Len(Append(s, e)) = Len(s) + 1
         /\ \A i \in 1..Len(s) : Append(s, e)[i] = s[i]
         /\ Append(s, e)[Len(s) + 1] = e
  OBVIOUS

\* Erasing keeps the other elements, in order, and removes one occurrence.
LEMMA EraseFacts ==
  ASSUME NEW S, NEW s \in Seq(S), NEW r,
         \A i, j \in 1..Len(s) : s[i] = s[j] => i = j
  PROVE  /\ Erase(s, r) \in Seq(S)
         /\ \A i \in 1..Len(Erase(s, r)) :
              \E j \in 1..Len(s) : Erase(s, r)[i] = s[j] /\ s[j] # r
         /\ \A i, j \in 1..Len(Erase(s, r)) :
              Erase(s, r)[i] = Erase(s, r)[j] => i = j
         /\ \A i \in 1..Len(s) : s[i] # r =>
              \E j \in 1..Len(Erase(s, r)) : Erase(s, r)[j] = s[i]
<1>1. CASE r \notin Elems(s)
  BY <1>1 DEF Erase, Elems
<1>2. CASE r \in Elems(s)
  <2> DEFINE k == CHOOSE j \in 1..Len(s) : s[j] = r
             a == SubSeq(s, 1, k - 1)
             b == SubSeq(s, k + 1, Len(s))
  <2>1. k \in 1..Len(s) /\ s[k] = r /\ Len(s) \in Nat
    BY <1>2 DEF Elems
  <2>2. Erase(s, r) = a \o b
    BY <1>2 DEF Erase
  <2> HIDE DEF k
  <2>3. a \in Seq(S) /\ Len(a) = k - 1 /\ \A i \in 1..k - 1 : a[i] = s[i]
    BY <2>1
  <2>4. /\ b \in Seq(S) /\ Len(b) = Len(s) - k
        /\ \A i \in 1..Len(s) - k : b[i] = s[i + k]
    BY <2>1
  <2> HIDE DEF a, b
  <2>5. a \o b \in Seq(S) /\ Len(a \o b) = Len(s) - 1
    BY <2>1, <2>3, <2>4
  <2>6. \A i \in 1..Len(s) - 1 :
          (a \o b)[i] = IF i < k THEN s[i] ELSE s[i + 1]
    <3> SUFFICES ASSUME NEW i \in 1..Len(s) - 1
                 PROVE  (a \o b)[i] = IF i < k THEN s[i] ELSE s[i + 1]
      OBVIOUS
    <3>1. (a \o b)[i] = IF i <= Len(a) THEN a[i] ELSE b[i - Len(a)]
      BY <2>1, <2>3, <2>4
    <3>2. CASE i < k
      BY <3>1, <3>2, <2>1, <2>3
    <3>3. CASE ~(i < k)
      <4>1. /\ ~(i <= Len(a)) /\ i - Len(a) \in 1..Len(s) - k
            /\ (i - Len(a)) + k = i + 1
        BY <3>3, <2>1, <2>3
      <4> QED BY <3>1, <3>3, <4>1, <2>4
    <3> QED BY <3>2, <3>3
  <2>7. \A i \in 1..Len(s) : s[i] # r => i # k
    BY <2>1
  <2> DEFINE e == Erase(s, r)
  <2>8. e \in Seq(S) /\ Len(e) = Len(s) - 1 /\ Len(e) \in Nat
    BY <2>1, <2>2, <2>5
  <2>9. \A i \in 1..Len(e) : e[i] = IF i < k THEN s[i] ELSE s[i + 1]
    BY <2>2, <2>6, <2>8
  <2> HIDE DEF e
  <2>10. ASSUME NEW i \in 1..Len(e)
         PROVE  \E j \in 1..Len(s) : e[i] = s[j] /\ s[j] # r
    <3>1. CASE i < k
      BY <3>1, <2>1, <2>8, <2>9
    <3>2. CASE i >= k
      BY <3>2, <2>1, <2>8, <2>9
    <3> QED BY <3>1, <3>2, <2>1, <2>8
  <2>11. ASSUME NEW i \in 1..Len(e), NEW j \in 1..Len(e), e[i] = e[j]
         PROVE  i = j
    BY <2>11, <2>1, <2>8, <2>9
  <2>12. ASSUME NEW i \in 1..Len(s), s[i] # r
         PROVE  \E j \in 1..Len(e) : e[j] = s[i]
    <3>1. CASE i < k
      BY <3>1, <2>1, <2>8, <2>9
    <3>2. CASE i > k
      <4>1. i - 1 \in 1..Len(e) /\ ~(i - 1 < k) /\ (i - 1) + 1 = i
        BY <3>2, <2>1, <2>8
      <4>2. e[i - 1] = s[i]
        BY <4>1, <2>9
      <4> QED BY <4>1, <4>2
    <3> QED BY <3>1, <3>2, <2>7, <2>12, <2>1
  <2> QED
    BY <2>8, <2>10, <2>11, <2>12 DEF e
<1> QED BY <1>1, <1>2


-----------------------------------------------------------------------------
(* One lemma per action: it preserves the inductive invariant.             *)

\* The requests in the queue, typed.
LEMMA QueueFacts ==
  ASSUME IInv
  PROVE  /\ g_requests \in Seq(Request)
         /\ Len(g_requests) \in Nat
         /\ \A i \in 1..Len(g_requests) :
              /\ g_requests[i] \in Request
              /\ g_requests[i][1] \in Callers
              /\ g_requests[i][2] \in 1..MaxCalls
              /\ QueuedCall(g_requests[i])
              /\ g_requests[i] = <<g_requests[i][1], calls[g_requests[i][1]]>>
BY DEF IInv, TypeOK, SharedTypes, Request, QueueInv, QueuedCall, Current


\* rover_init() done: to running, or left stopping.  The invariant is preserved.
LEMMA MainInitStep ==
  ASSUME IInv, MainInit
  PROVE  IInv'
<1>1. SharedTypes'
  BY BackendAssumption, NoneAssumption DEF IInv, SharedTypes, TypeOK, States,
     MainInit, gui, callers
<1>2. BackendTypes'
  BY BackendAssumption, NoneAssumption DEF IInv, BackendTypes, TypeOK,
     SharedTypes, BackendPcs, ItemInv, MainInit, gui, callers
<1>3. GuiTypes'
  BY BackendAssumption, NoneAssumption DEF IInv, GuiTypes, TypeOK,
     BackendTypes, MainInit, gui, callers
<1>4. CallerTypes'
  BY BackendAssumption, NoneAssumption DEF IInv, CallerTypes, TypeOK,
     ClaimInv, MainInit, gui, callers
<1>5. ThreadInv'
  BY DEF IInv, ThreadInv, Leaving, Working, TypeOK, SharedTypes, BackendTypes,
     GuiTypes, MainInit, gui, callers
<1>6. ItemInv'
  BY DEF IInv, ItemInv, TypeOK, BackendTypes, SharedTypes, MainInit, gui,
     callers
<1>7. QueueInv'
  BY DEF IInv, QueueInv, QueuedCall, TypeOK, CallerTypes, Current, MainInit,
     gui, callers
<1>8. ClaimInv'
  BY DEF IInv, ClaimInv, TypeOK, SharedTypes, BackendTypes, CallerTypes,
     Current, Request, MainInit, gui, callers
<1>9. DoneInv'
  BY DEF IInv, DoneInv, TypeOK, CallerTypes, ClaimInv, Request, MainInit, gui,
     callers
<1>10. CallInv'
  BY DEF IInv, CallInv, TypeOK, CallerTypes, Current, MainInit, gui, callers
<1>11. BypassInv'
  BY DEF IInv, BypassInv, TypeOK, CallerTypes, BackendTypes, MainInit, gui,
     callers
<1> QED
  BY <1>1, <1>2, <1>3, <1>4, <1>5, <1>6, <1>7, <1>8, <1>9, <1>10, <1>11
  DEF IInv, TypeOK

\* Waking up to stop, to take a task or to serve requests.  The invariant is preserved.
LEMMA MainWakeStep ==
  ASSUME IInv, MainWake
  PROVE  IInv'
<1>1. SharedTypes'
  <2>1. g_queue' \in Seq(Task)
    <3>1. CASE g_queue' = g_queue
      BY <3>1 DEF IInv, TypeOK, SharedTypes
    <3>2. CASE g_queue # <<>> /\ g_queue' = Tail(g_queue)
      BY <3>2, TailFacts DEF IInv, TypeOK, SharedTypes
    <3> QED BY <3>1, <3>2 DEF MainWake
  <2> QED BY <2>1 DEF IInv, TypeOK, SharedTypes, MainWake
<1>2. BackendTypes'
  BY BackendAssumption, NoneAssumption DEF IInv, BackendTypes, TypeOK,
     SharedTypes, BackendPcs, ItemInv, MainWake, gui, callers
<1>3. GuiTypes'
  BY BackendAssumption, NoneAssumption DEF IInv, GuiTypes, TypeOK,
     BackendTypes, MainWake, gui, callers
<1>4. CallerTypes'
  BY BackendAssumption, NoneAssumption DEF IInv, CallerTypes, TypeOK,
     ClaimInv, MainWake, gui, callers
<1>5. ThreadInv'
  BY DEF IInv, ThreadInv, Leaving, Working, TypeOK, SharedTypes, BackendTypes,
     GuiTypes, MainWake, gui, callers
<1>6. ItemInv'
  <2>1. CASE ret' = "reset" /\ g_queue # <<>> /\ item' = Head(g_queue)
    <3>1. item' \in Task
      BY <2>1, TailFacts DEF IInv, TypeOK, SharedTypes
    <3> QED BY <2>1, <3>1 DEF ItemInv, MainWake
  <2>2. CASE ret' \in {"wait", "fini"}
    BY <2>2 DEF ItemInv, MainWake
  <2> QED BY <2>1, <2>2 DEF MainWake
<1>7. QueueInv'
  BY DEF IInv, QueueInv, QueuedCall, TypeOK, CallerTypes, Current, MainWake,
     gui, callers
<1>8. ClaimInv'
  BY DEF IInv, ClaimInv, TypeOK, SharedTypes, BackendTypes, CallerTypes,
     Current, Request, MainWake, gui, callers
<1>9. DoneInv'
  BY DEF IInv, DoneInv, TypeOK, CallerTypes, ClaimInv, Request, MainWake, gui,
     callers
<1>10. CallInv'
  BY DEF IInv, CallInv, TypeOK, CallerTypes, Current, MainWake, gui, callers
<1>11. BypassInv'
  BY DEF IInv, BypassInv, TypeOK, CallerTypes, BackendTypes, MainWake, gui,
     callers
<1> QED
  BY <1>1, <1>2, <1>3, <1>4, <1>5, <1>6, <1>7, <1>8, <1>9, <1>10, <1>11
  DEF IInv, TypeOK

\* Claiming the oldest request, or finding none.  The invariant is preserved.
LEMMA ServiceRequestsStep ==
  ASSUME IInv, ServiceRequests
  PROVE  IInv'
<1>1. SharedTypes'
  <2>1. g_requests' \in Seq(Request)
    <3>1. CASE g_requests = <<>>
      BY <3>1, QueueFacts DEF ServiceRequests
    <3>2. CASE g_requests # <<>>
      BY <3>2, TailFacts, QueueFacts DEF ServiceRequests
    <3> QED BY <3>1, <3>2
  <2> QED BY <2>1 DEF IInv, TypeOK, SharedTypes, ServiceRequests
<1>2. BackendTypes'
  BY BackendAssumption, NoneAssumption DEF IInv, BackendTypes, TypeOK,
     SharedTypes, BackendPcs, ItemInv, ServiceRequests, gui, callers
<1>3. GuiTypes'
  BY BackendAssumption, NoneAssumption DEF IInv, GuiTypes, TypeOK,
     BackendTypes, ServiceRequests, gui, callers
<1>4. CallerTypes'
  BY BackendAssumption, NoneAssumption DEF IInv, CallerTypes, TypeOK,
     ClaimInv, ServiceRequests, gui, callers
<1>5. ThreadInv'
  BY DEF IInv, ThreadInv, Leaving, Working, TypeOK, SharedTypes, BackendTypes,
     GuiTypes, ServiceRequests, gui, callers
<1>6. ItemInv'
  BY DEF IInv, ItemInv, TypeOK, BackendTypes, SharedTypes, ServiceRequests,
     gui, callers
<1>7. QueueInv'
  <2>1. CASE g_requests = <<>>
    BY <2>1, QueueFacts DEF IInv, QueueInv, QueuedCall, Current,
       ServiceRequests, gui, callers
  <2>2. CASE g_requests # <<>>
    <3> DEFINE s == g_requests
    <3>1. /\ req' = s[1] /\ g_requests' = Tail(s) /\ bpc' = "fn"
          /\ Len(s) \in Nat /\ Len(s) > 0 /\ Len(Tail(s)) = Len(s) - 1
          /\ \A i \in 1..Len(Tail(s)) :
               Tail(s)[i] = s[i + 1] /\ i + 1 \in 1..Len(s)
          /\ 1 \in 1..Len(s)
      BY <2>2, TailFacts, QueueFacts DEF ServiceRequests
    <3>2. UNCHANGED <<cpc, calls, thread_wait, outcome, done, bypassed,
                    generation, item>>
      BY DEF ServiceRequests, callers

    <3>3. \A x : (\E i \in 1..Len(s) : s[i] = x) => QueuedCall(x)'
      BY <3>2, QueueFacts DEF QueuedCall, Current
    <3> QED BY <3>1, <3>3 DEF IInv, QueueInv, QueuedCall, Current
  <2> QED BY <2>1, <2>2
<1>8. ClaimInv'
  <2>1. CASE g_requests = <<>>
    BY <2>1 DEF IInv, TypeOK, BackendTypes, ClaimInv, ServiceRequests, gui,
       callers
  <2>2. CASE g_requests # <<>>
    <3> DEFINE s == g_requests
    <3>1. /\ req' = s[1] /\ g_requests' = Tail(s) /\ bpc' = "fn"
          /\ Len(s) \in Nat /\ Len(s) > 0 /\ Len(Tail(s)) = Len(s) - 1
          /\ \A i \in 1..Len(Tail(s)) :
               Tail(s)[i] = s[i + 1] /\ i + 1 \in 1..Len(s)
          /\ 1 \in 1..Len(s)
      BY <2>2, TailFacts, QueueFacts DEF ServiceRequests
    <3>2. UNCHANGED <<cpc, calls, thread_wait, outcome, done, bypassed,
                    generation, item>>
      BY DEF ServiceRequests, callers

    <3>3. /\ s[1] \in Request /\ QueuedCall(s[1])
          /\ s[1][1] \in Callers /\ s[1][2] = calls[s[1][1]]
          /\ calls[s[1][1]] \in Nat
      BY <3>1, QueueFacts DEF IInv, TypeOK, CallerTypes
    <3>4. s[1][1] \notin WaitCanFail => cpc[s[1][1]] = "waiting"
      BY <3>3 DEF IInv, CallInv, QueuedCall
    <3>5. \A i \in 1..Len(Tail(s)) : Tail(s)[i] # s[1]
      BY <3>1 DEF IInv, QueueInv
    <3> QED BY <3>1, <3>2, <3>3, <3>4, <3>5 DEF ClaimInv, QueuedCall, Current
  <2> QED BY <2>1, <2>2
<1>9. DoneInv'
  BY DEF IInv, DoneInv, TypeOK, CallerTypes, ClaimInv, Request,
     ServiceRequests, gui, callers
<1>10. CallInv'
  <2>1. CASE g_requests = <<>>
    BY <2>1 DEF IInv, CallInv, Current, ServiceRequests, gui, callers
  <2>2. CASE g_requests # <<>>
    <3> DEFINE s == g_requests
    <3>1. /\ req' = s[1] /\ g_requests' = Tail(s) /\ bpc' = "fn"
          /\ Len(s) \in Nat /\ Len(s) > 0 /\ Len(Tail(s)) = Len(s) - 1
          /\ \A i \in 1..Len(Tail(s)) :
               Tail(s)[i] = s[i + 1] /\ i + 1 \in 1..Len(s)
          /\ 1 \in 1..Len(s)
      BY <2>2, TailFacts, QueueFacts DEF ServiceRequests
    <3>2. UNCHANGED <<cpc, calls, thread_wait, outcome, done, bypassed,
                    generation, item>>
      BY DEF ServiceRequests, callers

    <3>3. \A x : (\E i \in 1..Len(s) : s[i] = x) =>
                 x = s[1] \/ \E i \in 1..Len(Tail(s)) : Tail(s)[i] = x
      <4> SUFFICES ASSUME NEW i \in 1..Len(s), i # 1
                   PROVE  \E j \in 1..Len(Tail(s)) : Tail(s)[j] = s[i]
        OBVIOUS
      <4>1. i - 1 \in 1..Len(Tail(s)) /\ (i - 1) + 1 = i
        BY <3>1
      <4> QED BY <4>1, <3>1
    <3>4. bpc # "fn"
      BY DEF ServiceRequests
    <3> QED BY <3>1, <3>2, <3>3, <3>4 DEF IInv, CallInv, Current
  <2> QED BY <2>1, <2>2
<1>11. BypassInv'
  <2>1. CASE g_requests = <<>>
    BY <2>1, QueueFacts DEF IInv, BypassInv, ServiceRequests, gui, callers
  <2>2. CASE g_requests # <<>>
    BY <2>2 DEF IInv, BypassInv, ServiceRequests, gui, callers
  <2> QED BY <2>1, <2>2
<1> QED
  BY <1>1, <1>2, <1>3, <1>4, <1>5, <1>6, <1>7, <1>8, <1>9, <1>10, <1>11
  DEF IInv, TypeOK

\* A claimed request runs and its event is set.  The invariant is preserved.
LEMMA RunRequestStep ==
  ASSUME IInv, RunRequest
  PROVE  IInv'
<1>1. SharedTypes'
  BY BackendAssumption, NoneAssumption DEF IInv, SharedTypes, TypeOK, States,
     RunRequest, shared, gui
<1>2. BackendTypes'
  BY BackendAssumption, NoneAssumption DEF IInv, BackendTypes, TypeOK,
     SharedTypes, BackendPcs, ItemInv, RunRequest, shared, gui
<1>3. GuiTypes'
  BY BackendAssumption, NoneAssumption DEF IInv, GuiTypes, TypeOK,
     BackendTypes, RunRequest, shared, gui
<1>4. CallerTypes'
  BY BackendAssumption, NoneAssumption DEF IInv, CallerTypes, TypeOK,
     ClaimInv, RunRequest, shared, gui
<1>5. ThreadInv'
  BY DEF IInv, ThreadInv, Leaving, Working, TypeOK, SharedTypes, BackendTypes,
     GuiTypes, RunRequest, shared, gui
<1>6. ItemInv'
  BY DEF IInv, ItemInv, TypeOK, BackendTypes, SharedTypes, RunRequest, shared,
     gui
<1>7. QueueInv'
  <2>1. \A i \in 1..Len(g_requests) : g_requests[i] # req
    BY DEF IInv, ClaimInv, RunRequest
  <2>2. \A x : (\E i \in 1..Len(g_requests) : g_requests[i] = x) => QueuedCall(x)'
    BY <2>1, QueueFacts DEF QueuedCall, Current, RunRequest
  <2> QED BY <2>2 DEF IInv, QueueInv, QueuedCall, Current, RunRequest, shared
<1>8. ClaimInv'
  BY DEF IInv, ClaimInv, TypeOK, SharedTypes, BackendTypes, CallerTypes,
     Current, Request, RunRequest, shared, gui
<1>9. DoneInv'
  BY DEF IInv, DoneInv, TypeOK, CallerTypes, ClaimInv, Request, RunRequest,
     shared, gui
<1>10. CallInv'
  BY DEF IInv, CallInv, TypeOK, CallerTypes, Current, RunRequest, shared, gui
<1>11. BypassInv'
  BY DEF IInv, BypassInv, TypeOK, CallerTypes, BackendTypes, RunRequest,
     shared, gui
<1> QED
  BY <1>1, <1>2, <1>3, <1>4, <1>5, <1>6, <1>7, <1>8, <1>9, <1>10, <1>11
  DEF IInv, TypeOK

\* g_cancel is cleared and the task begins.  The invariant is preserved.
LEMMA ResetCancelStep ==
  ASSUME IInv, ResetCancel
  PROVE  IInv'
<1>1. SharedTypes'
  BY BackendAssumption, NoneAssumption DEF IInv, SharedTypes, TypeOK, States,
     ResetCancel, gui, callers
<1>2. BackendTypes'
  BY BackendAssumption, NoneAssumption DEF IInv, BackendTypes, TypeOK,
     SharedTypes, BackendPcs, ItemInv, ResetCancel, gui, callers
<1>3. GuiTypes'
  BY BackendAssumption, NoneAssumption DEF IInv, GuiTypes, TypeOK,
     BackendTypes, ResetCancel, gui, callers
<1>4. CallerTypes'
  BY BackendAssumption, NoneAssumption DEF IInv, CallerTypes, TypeOK,
     ClaimInv, ResetCancel, gui, callers
<1>5. ThreadInv'
  BY DEF IInv, ThreadInv, Leaving, Working, TypeOK, SharedTypes, BackendTypes,
     GuiTypes, ResetCancel, gui, callers
<1>6. ItemInv'
  BY DEF IInv, ItemInv, TypeOK, BackendTypes, SharedTypes, ResetCancel, gui,
     callers
<1>7. QueueInv'
  BY DEF IInv, QueueInv, QueuedCall, TypeOK, CallerTypes, Current,
     ResetCancel, gui, callers
<1>8. ClaimInv'
  BY DEF IInv, ClaimInv, TypeOK, SharedTypes, BackendTypes, CallerTypes,
     Current, Request, ResetCancel, gui, callers
<1>9. DoneInv'
  BY DEF IInv, DoneInv, TypeOK, CallerTypes, ClaimInv, Request, ResetCancel,
     gui, callers
<1>10. CallInv'
  BY DEF IInv, CallInv, TypeOK, CallerTypes, Current, ResetCancel, gui, callers
<1>11. BypassInv'
  BY DEF IInv, BypassInv, TypeOK, CallerTypes, BackendTypes, ResetCancel, gui,
     callers
<1> QED
  BY <1>1, <1>2, <1>3, <1>4, <1>5, <1>6, <1>7, <1>8, <1>9, <1>10, <1>11
  DEF IInv, TypeOK

\* A long task turns to the requests.  The invariant is preserved.
LEMMA CheckpointStep ==
  ASSUME IInv, Checkpoint
  PROVE  IInv'
<1>1. SharedTypes'
  BY BackendAssumption, NoneAssumption DEF IInv, SharedTypes, TypeOK, States,
     Checkpoint, GivesUp, shared, gui, callers
<1>2. BackendTypes'
  BY BackendAssumption, NoneAssumption DEF IInv, BackendTypes, TypeOK,
     SharedTypes, BackendPcs, ItemInv, Checkpoint, GivesUp, shared, gui, callers
<1>3. GuiTypes'
  BY BackendAssumption, NoneAssumption DEF IInv, GuiTypes, TypeOK,
     BackendTypes, Checkpoint, GivesUp, shared, gui, callers
<1>4. CallerTypes'
  BY BackendAssumption, NoneAssumption DEF IInv, CallerTypes, TypeOK,
     ClaimInv, Checkpoint, GivesUp, shared, gui, callers
<1>5. ThreadInv'
  BY DEF IInv, ThreadInv, Leaving, Working, TypeOK, SharedTypes, BackendTypes,
     GuiTypes, Checkpoint, GivesUp, shared, gui, callers
<1>6. ItemInv'
  BY DEF IInv, ItemInv, TypeOK, BackendTypes, SharedTypes, Checkpoint,
     GivesUp, shared, gui, callers
<1>7. QueueInv'
  BY DEF IInv, QueueInv, QueuedCall, TypeOK, CallerTypes, Current, Checkpoint,
     GivesUp, shared, gui, callers
<1>8. ClaimInv'
  BY DEF IInv, ClaimInv, TypeOK, SharedTypes, BackendTypes, CallerTypes,
     Current, Request, Checkpoint, GivesUp, shared, gui, callers
<1>9. DoneInv'
  BY DEF IInv, DoneInv, TypeOK, CallerTypes, ClaimInv, Request, Checkpoint,
     GivesUp, shared, gui, callers
<1>10. CallInv'
  BY DEF IInv, CallInv, TypeOK, CallerTypes, Current, Checkpoint, GivesUp,
     shared, gui, callers
<1>11. BypassInv'
  BY DEF IInv, BypassInv, TypeOK, CallerTypes, BackendTypes, Checkpoint,
     GivesUp, shared, gui, callers
<1> QED
  BY <1>1, <1>2, <1>3, <1>4, <1>5, <1>6, <1>7, <1>8, <1>9, <1>10, <1>11
  DEF IInv, TypeOK

\* A unit of task work ends.  The invariant is preserved.
LEMMA ChunkStep ==
  ASSUME IInv, Chunk
  PROVE  IInv'
<1>1. SharedTypes'
  BY BackendAssumption, NoneAssumption DEF IInv, SharedTypes, TypeOK, States,
     Chunk, Overtake, shared, gui
<1>2. BackendTypes'
  BY BackendAssumption, NoneAssumption DEF IInv, BackendTypes, TypeOK,
     SharedTypes, BackendPcs, ItemInv, Chunk, Overtake, shared, gui
<1>3. GuiTypes'
  BY BackendAssumption, NoneAssumption DEF IInv, GuiTypes, TypeOK,
     BackendTypes, Chunk, Overtake, shared, gui
<1>4. CallerTypes'
  <2>1. bypassed' \in [Callers -> Nat]
    BY DEF IInv, TypeOK, CallerTypes, Chunk, Overtake, shared, gui
  <2> QED BY <2>1 DEF IInv, TypeOK, CallerTypes, Chunk, Overtake, shared, gui
<1>5. ThreadInv'
  BY DEF IInv, ThreadInv, Leaving, Working, TypeOK, SharedTypes, BackendTypes,
     GuiTypes, Chunk, Overtake, shared, gui
<1>6. ItemInv'
  BY DEF IInv, ItemInv, TypeOK, BackendTypes, SharedTypes, Chunk, Overtake,
     shared, gui
<1>7. QueueInv'
  BY DEF IInv, QueueInv, QueuedCall, TypeOK, CallerTypes, Current, Chunk,
     Overtake, shared, gui
<1>8. ClaimInv'
  BY DEF IInv, ClaimInv, TypeOK, SharedTypes, BackendTypes, CallerTypes,
     Current, Request, Chunk, Overtake, shared, gui
<1>9. DoneInv'
  BY DEF IInv, DoneInv, TypeOK, CallerTypes, ClaimInv, Request, Chunk,
     Overtake, shared, gui
<1>10. CallInv'
  BY DEF IInv, CallInv, TypeOK, CallerTypes, Current, Chunk, Overtake, shared,
     gui
<1>11. BypassInv'
  <2>1. \A i \in 1..Len(g_requests) : bypassed[g_requests[i][1]] = 0
    BY DEF IInv, BypassInv, Chunk
  <2>2. ASSUME NEW c \in Callers
        PROVE  bypassed'[c] \in {0, 1}
    <3>1. CASE Current(c) \in Elems(g_requests)
      <4>1. PICK i \in 1..Len(g_requests) : g_requests[i] = Current(c)
        BY <3>1 DEF Elems
      <4>2. bypassed[c] = 0
        BY <2>1, <4>1 DEF Current
      <4> QED BY <3>1, <4>2 DEF Chunk, Overtake
    <3>2. CASE Current(c) \notin Elems(g_requests)
      BY <3>2 DEF IInv, BypassInv, Chunk, Overtake
    <3> QED BY <3>1, <3>2
  <2>3. bpc' = "run" /\ item'.kind \notin {"short", "list"}
    BY DEF IInv, ItemInv, Chunk
  <2> QED BY <2>2, <2>3 DEF BypassInv
<1> QED
  BY <1>1, <1>2, <1>3, <1>4, <1>5, <1>6, <1>7, <1>8, <1>9, <1>10, <1>11
  DEF IInv, TypeOK

\* A task without checkpoints runs and its result is posted.  The invariant is preserved.
LEMMA RunShortStep ==
  ASSUME IInv, RunShort
  PROVE  IInv'
<1>1. SharedTypes'
  BY BackendAssumption, NoneAssumption DEF IInv, SharedTypes, TypeOK, States,
     RunShort, PostResult, Overtake, shared
<1>2. BackendTypes'
  BY BackendAssumption, NoneAssumption DEF IInv, BackendTypes, TypeOK,
     SharedTypes, BackendPcs, ItemInv, RunShort, PostResult, Overtake, shared
<1>3. GuiTypes'
  <2>1. item \in Task /\ item.seq \in 1..MaxSeq
    BY DEF IInv, ItemInv, Task, RunShort
  <2>2. mailbox' \in Seq(1..MaxSeq)
    <3>1. CASE mailbox' = mailbox
      BY <3>1 DEF IInv, TypeOK, GuiTypes
    <3>2. CASE mailbox' = Append(mailbox, item.seq)
      BY <3>2, <2>1, AppendFacts DEF IInv, TypeOK, GuiTypes
    <3> QED BY <3>1, <3>2 DEF PostResult, RunShort
  <2>3. dropped' \in SUBSET (1..MaxSeq)
    BY <2>1 DEF IInv, TypeOK, GuiTypes, RunShort, PostResult
  <2> QED BY <2>2, <2>3 DEF IInv, TypeOK, GuiTypes, RunShort
<1>4. CallerTypes'
  <2>1. bypassed' \in [Callers -> Nat]
    BY DEF IInv, TypeOK, CallerTypes, RunShort, PostResult, Overtake, shared
  <2> QED BY <2>1 DEF IInv, TypeOK, CallerTypes, RunShort, PostResult,
     Overtake, shared
<1>5. ThreadInv'
  BY DEF IInv, ThreadInv, Leaving, Working, TypeOK, SharedTypes, BackendTypes,
     GuiTypes, RunShort, PostResult, Overtake, shared
<1>6. ItemInv'
  BY DEF IInv, ItemInv, TypeOK, BackendTypes, SharedTypes, RunShort,
     PostResult, Overtake, shared
<1>7. QueueInv'
  BY DEF IInv, QueueInv, QueuedCall, TypeOK, CallerTypes, Current, RunShort,
     PostResult, Overtake, shared
<1>8. ClaimInv'
  BY DEF IInv, ClaimInv, TypeOK, SharedTypes, BackendTypes, CallerTypes,
     Current, Request, RunShort, PostResult, Overtake, shared
<1>9. DoneInv'
  BY DEF IInv, DoneInv, TypeOK, CallerTypes, ClaimInv, Request, RunShort,
     PostResult, Overtake, shared
<1>10. CallInv'
  BY DEF IInv, CallInv, TypeOK, CallerTypes, Current, RunShort, PostResult,
     Overtake, shared
<1>11. BypassInv'
  <2>1. \A i \in 1..Len(g_requests) : bypassed[g_requests[i][1]] = 0
    BY DEF IInv, BypassInv, RunShort
  <2>2. ASSUME NEW c \in Callers
        PROVE  bypassed'[c] \in {0, 1}
    <3>1. CASE Current(c) \in Elems(g_requests)
      <4>1. PICK i \in 1..Len(g_requests) : g_requests[i] = Current(c)
        BY <3>1 DEF Elems
      <4>2. bypassed[c] = 0
        BY <2>1, <4>1 DEF Current
      <4> QED BY <3>1, <4>2 DEF RunShort, Overtake
    <3>2. CASE Current(c) \notin Elems(g_requests)
      BY <3>2 DEF IInv, BypassInv, RunShort, Overtake
    <3> QED BY <3>1, <3>2
  <2>3. bpc' = "wait"
    BY DEF RunShort, PostResult
  <2> QED BY <2>2, <2>3 DEF BypassInv
<1> QED
  BY <1>1, <1>2, <1>3, <1>4, <1>5, <1>6, <1>7, <1>8, <1>9, <1>10, <1>11
  DEF IInv, TypeOK

\* A long task ends and its result is posted.  The invariant is preserved.
LEMMA FinishLongStep ==
  ASSUME IInv, FinishLong
  PROVE  IInv'
<1>1. SharedTypes'
  BY BackendAssumption, NoneAssumption DEF IInv, SharedTypes, TypeOK, States,
     FinishLong, PostResult, GivesUp, shared, callers
<1>2. BackendTypes'
  BY BackendAssumption, NoneAssumption DEF IInv, BackendTypes, TypeOK,
     SharedTypes, BackendPcs, ItemInv, FinishLong, PostResult, GivesUp, shared,
     callers
<1>3. GuiTypes'
  <2>1. item \in Task /\ item.seq \in 1..MaxSeq
    BY DEF IInv, ItemInv, Task, FinishLong
  <2>2. mailbox' \in Seq(1..MaxSeq)
    <3>1. CASE mailbox' = mailbox
      BY <3>1 DEF IInv, TypeOK, GuiTypes
    <3>2. CASE mailbox' = Append(mailbox, item.seq)
      BY <3>2, <2>1, AppendFacts DEF IInv, TypeOK, GuiTypes
    <3> QED BY <3>1, <3>2 DEF PostResult, FinishLong
  <2>3. dropped' \in SUBSET (1..MaxSeq)
    BY <2>1 DEF IInv, TypeOK, GuiTypes, FinishLong, PostResult
  <2> QED BY <2>2, <2>3 DEF IInv, TypeOK, GuiTypes, FinishLong
<1>4. CallerTypes'
  BY BackendAssumption, NoneAssumption DEF IInv, CallerTypes, TypeOK,
     ClaimInv, FinishLong, PostResult, GivesUp, shared, callers
<1>5. ThreadInv'
  BY DEF IInv, ThreadInv, Leaving, Working, TypeOK, SharedTypes, BackendTypes,
     GuiTypes, FinishLong, PostResult, GivesUp, shared, callers
<1>6. ItemInv'
  BY DEF IInv, ItemInv, TypeOK, BackendTypes, SharedTypes, FinishLong,
     PostResult, GivesUp, shared, callers
<1>7. QueueInv'
  BY DEF IInv, QueueInv, QueuedCall, TypeOK, CallerTypes, Current, FinishLong,
     PostResult, GivesUp, shared, callers
<1>8. ClaimInv'
  BY DEF IInv, ClaimInv, TypeOK, SharedTypes, BackendTypes, CallerTypes,
     Current, Request, FinishLong, PostResult, GivesUp, shared, callers
<1>9. DoneInv'
  BY DEF IInv, DoneInv, TypeOK, CallerTypes, ClaimInv, Request, FinishLong,
     PostResult, GivesUp, shared, callers
<1>10. CallInv'
  BY DEF IInv, CallInv, TypeOK, CallerTypes, Current, FinishLong, PostResult,
     GivesUp, shared, callers
<1>11. BypassInv'
  BY DEF IInv, BypassInv, TypeOK, CallerTypes, BackendTypes, FinishLong,
     PostResult, GivesUp, shared, callers
<1> QED
  BY <1>1, <1>2, <1>3, <1>4, <1>5, <1>6, <1>7, <1>8, <1>9, <1>10, <1>11
  DEF IInv, TypeOK

\* rover_fini() after the last service_requests().  The invariant is preserved.
LEMMA MainFiniStep ==
  ASSUME IInv, MainFini
  PROVE  IInv'
<1>1. SharedTypes'
  BY BackendAssumption, NoneAssumption DEF IInv, SharedTypes, TypeOK, States,
     MainFini, shared, gui, callers
<1>2. BackendTypes'
  BY BackendAssumption, NoneAssumption DEF IInv, BackendTypes, TypeOK,
     SharedTypes, BackendPcs, ItemInv, MainFini, shared, gui, callers
<1>3. GuiTypes'
  BY BackendAssumption, NoneAssumption DEF IInv, GuiTypes, TypeOK,
     BackendTypes, MainFini, shared, gui, callers
<1>4. CallerTypes'
  BY BackendAssumption, NoneAssumption DEF IInv, CallerTypes, TypeOK,
     ClaimInv, MainFini, shared, gui, callers
<1>5. ThreadInv'
  BY DEF IInv, ThreadInv, Leaving, Working, TypeOK, SharedTypes, BackendTypes,
     GuiTypes, MainFini, shared, gui, callers
<1>6. ItemInv'
  BY DEF IInv, ItemInv, TypeOK, BackendTypes, SharedTypes, MainFini, shared,
     gui, callers
<1>7. QueueInv'
  BY DEF IInv, QueueInv, QueuedCall, TypeOK, CallerTypes, Current, MainFini,
     shared, gui, callers
<1>8. ClaimInv'
  BY DEF IInv, ClaimInv, TypeOK, SharedTypes, BackendTypes, CallerTypes,
     Current, Request, MainFini, shared, gui, callers
<1>9. DoneInv'
  BY DEF IInv, DoneInv, TypeOK, CallerTypes, ClaimInv, Request, MainFini,
     shared, gui, callers
<1>10. CallInv'
  BY DEF IInv, CallInv, TypeOK, CallerTypes, Current, MainFini, shared, gui,
     callers
<1>11. BypassInv'
  BY DEF IInv, BypassInv, TypeOK, CallerTypes, BackendTypes, MainFini, shared,
     gui, callers
<1> QED
  BY <1>1, <1>2, <1>3, <1>4, <1>5, <1>6, <1>7, <1>8, <1>9, <1>10, <1>11
  DEF IInv, TypeOK

\* The thread ends.  The invariant is preserved.
LEMMA MainExitStep ==
  ASSUME IInv, MainExit
  PROVE  IInv'
<1>1. SharedTypes'
  BY BackendAssumption, NoneAssumption DEF IInv, SharedTypes, TypeOK, States,
     MainExit, gui, callers
<1>2. BackendTypes'
  BY BackendAssumption, NoneAssumption DEF IInv, BackendTypes, TypeOK,
     SharedTypes, BackendPcs, ItemInv, MainExit, gui, callers
<1>3. GuiTypes'
  BY BackendAssumption, NoneAssumption DEF IInv, GuiTypes, TypeOK,
     BackendTypes, MainExit, gui, callers
<1>4. CallerTypes'
  BY BackendAssumption, NoneAssumption DEF IInv, CallerTypes, TypeOK,
     ClaimInv, MainExit, gui, callers
<1>5. ThreadInv'
  BY DEF IInv, ThreadInv, Leaving, Working, TypeOK, SharedTypes, BackendTypes,
     GuiTypes, MainExit, gui, callers
<1>6. ItemInv'
  BY DEF IInv, ItemInv, TypeOK, BackendTypes, SharedTypes, MainExit, gui,
     callers
<1>7. QueueInv'
  BY DEF IInv, QueueInv, QueuedCall, TypeOK, CallerTypes, Current, MainExit,
     gui, callers
<1>8. ClaimInv'
  BY DEF IInv, ClaimInv, TypeOK, SharedTypes, BackendTypes, CallerTypes,
     Current, Request, MainExit, gui, callers
<1>9. DoneInv'
  BY DEF IInv, DoneInv, TypeOK, CallerTypes, ClaimInv, Request, MainExit, gui,
     callers
<1>10. CallInv'
  BY DEF IInv, CallInv, TypeOK, CallerTypes, Current, MainExit, gui, callers
<1>11. BypassInv'
  BY DEF IInv, BypassInv, TypeOK, CallerTypes, BackendTypes, MainExit, gui,
     callers
<1> QED
  BY <1>1, <1>2, <1>3, <1>4, <1>5, <1>6, <1>7, <1>8, <1>9, <1>10, <1>11
  DEF IInv, TypeOK

\* backend_start(), with or without a thread to show for it.  The invariant is preserved.
LEMMA BackendStartStep ==
  ASSUME IInv, BackendStart
  PROVE  IInv'
<1>1. SharedTypes'
  BY BackendAssumption, NoneAssumption DEF IInv, SharedTypes, TypeOK, States,
     BackendStart, gui, callers
<1>2. BackendTypes'
  BY BackendAssumption, NoneAssumption DEF IInv, BackendTypes, TypeOK,
     SharedTypes, BackendPcs, ItemInv, BackendStart, gui, callers
<1>3. GuiTypes'
  BY BackendAssumption, NoneAssumption DEF IInv, GuiTypes, TypeOK,
     BackendTypes, BackendStart, gui, callers
<1>4. CallerTypes'
  BY BackendAssumption, NoneAssumption DEF IInv, CallerTypes, TypeOK,
     ClaimInv, BackendStart, gui, callers
<1>5. ThreadInv'
  BY DEF IInv, ThreadInv, Leaving, Working, TypeOK, SharedTypes, BackendTypes,
     GuiTypes, BackendStart, gui, callers
<1>6. ItemInv'
  BY DEF IInv, ItemInv, TypeOK, BackendTypes, SharedTypes, BackendStart, gui,
     callers
<1>7. QueueInv'
  <2>1. g_requests = <<>> /\ g_requests' = <<>>
    BY DEF IInv, ThreadInv, BackendStart
  <2> QED BY <2>1 DEF QueueInv
<1>8. ClaimInv'
  BY DEF IInv, ClaimInv, TypeOK, SharedTypes, BackendTypes, CallerTypes,
     Current, Request, BackendStart, gui, callers
<1>9. DoneInv'
  BY DEF IInv, DoneInv, TypeOK, CallerTypes, ClaimInv, Request, BackendStart,
     gui, callers
<1>10. CallInv'
  <2>1. g_requests = <<>> /\ g_requests' = <<>> /\ bpc # "fn" /\ bpc' # "fn"
    BY DEF IInv, ThreadInv, BackendStart
  <2>2. UNCHANGED <<cpc, calls, outcome, done>>
    BY DEF BackendStart, callers
  <2> QED BY <2>1, <2>2 DEF IInv, CallInv, Current
<1>11. BypassInv'
  BY DEF IInv, BypassInv, TypeOK, CallerTypes, BackendTypes, BackendStart,
     gui, callers
<1> QED
  BY <1>1, <1>2, <1>3, <1>4, <1>5, <1>6, <1>7, <1>8, <1>9, <1>10, <1>11
  DEF IInv, TypeOK

\* backend_post() of any task.  The invariant is preserved.
LEMMA BackendPostStep ==
  ASSUME IInv, NEW kind \in Kinds, BackendPost(kind)
  PROVE  IInv'
<1>1. SharedTypes'
  BY BackendAssumption, NoneAssumption DEF IInv, SharedTypes, TypeOK, Task,
     Kinds, States, BackendPost, backend, gui, callers
<1>2. BackendTypes'
  BY BackendAssumption, NoneAssumption DEF IInv, BackendTypes, TypeOK,
     SharedTypes, BackendPcs, ItemInv, BackendPost, backend, gui, callers
<1>3. GuiTypes'
  BY BackendAssumption, NoneAssumption DEF IInv, GuiTypes, TypeOK,
     BackendTypes, BackendPost, backend, gui, callers
<1>4. CallerTypes'
  BY BackendAssumption, NoneAssumption DEF IInv, CallerTypes, TypeOK,
     ClaimInv, BackendPost, backend, gui, callers
<1>5. ThreadInv'
  BY DEF IInv, ThreadInv, Leaving, Working, TypeOK, SharedTypes, BackendTypes,
     GuiTypes, BackendPost, backend, gui, callers
<1>6. ItemInv'
  BY DEF IInv, ItemInv, TypeOK, BackendTypes, SharedTypes, BackendPost,
     backend, gui, callers
<1>7. QueueInv'
  BY DEF IInv, QueueInv, QueuedCall, TypeOK, CallerTypes, Current,
     BackendPost, backend, gui, callers
<1>8. ClaimInv'
  BY DEF IInv, ClaimInv, TypeOK, SharedTypes, BackendTypes, CallerTypes,
     Current, Request, BackendPost, backend, gui, callers
<1>9. DoneInv'
  BY DEF IInv, DoneInv, TypeOK, CallerTypes, ClaimInv, Request, BackendPost,
     backend, gui, callers
<1>10. CallInv'
  BY DEF IInv, CallInv, TypeOK, CallerTypes, Current, BackendPost, backend,
     gui, callers
<1>11. BypassInv'
  BY DEF IInv, BypassInv, TypeOK, CallerTypes, BackendTypes, BackendPost,
     backend, gui, callers
<1> QED
  BY <1>1, <1>2, <1>3, <1>4, <1>5, <1>6, <1>7, <1>8, <1>9, <1>10, <1>11
  DEF IInv, TypeOK

\* backend_cancel().  The invariant is preserved.
LEMMA BackendCancelStep ==
  ASSUME IInv, BackendCancel
  PROVE  IInv'
<1>1. SharedTypes'
  BY BackendAssumption, NoneAssumption DEF IInv, SharedTypes, TypeOK, States,
     BackendCancel, backend, gui, callers
<1>2. BackendTypes'
  BY BackendAssumption, NoneAssumption DEF IInv, BackendTypes, TypeOK,
     SharedTypes, BackendPcs, ItemInv, BackendCancel, backend, gui, callers
<1>3. GuiTypes'
  BY BackendAssumption, NoneAssumption DEF IInv, GuiTypes, TypeOK,
     BackendTypes, BackendCancel, backend, gui, callers
<1>4. CallerTypes'
  BY BackendAssumption, NoneAssumption DEF IInv, CallerTypes, TypeOK,
     ClaimInv, BackendCancel, backend, gui, callers
<1>5. ThreadInv'
  BY DEF IInv, ThreadInv, Leaving, Working, TypeOK, SharedTypes, BackendTypes,
     GuiTypes, BackendCancel, backend, gui, callers
<1>6. ItemInv'
  BY DEF IInv, ItemInv, TypeOK, BackendTypes, SharedTypes, BackendCancel,
     backend, gui, callers
<1>7. QueueInv'
  BY DEF IInv, QueueInv, QueuedCall, TypeOK, CallerTypes, Current,
     BackendCancel, backend, gui, callers
<1>8. ClaimInv'
  BY DEF IInv, ClaimInv, TypeOK, SharedTypes, BackendTypes, CallerTypes,
     Current, Request, BackendCancel, backend, gui, callers
<1>9. DoneInv'
  BY DEF IInv, DoneInv, TypeOK, CallerTypes, ClaimInv, Request, BackendCancel,
     backend, gui, callers
<1>10. CallInv'
  BY DEF IInv, CallInv, TypeOK, CallerTypes, Current, BackendCancel, backend,
     gui, callers
<1>11. BypassInv'
  BY DEF IInv, BypassInv, TypeOK, CallerTypes, BackendTypes, BackendCancel,
     backend, gui, callers
<1> QED
  BY <1>1, <1>2, <1>3, <1>4, <1>5, <1>6, <1>7, <1>8, <1>9, <1>10, <1>11
  DEF IInv, TypeOK

\* backend_stop() raises g_stop and empties g_queue.  The invariant is preserved.
LEMMA StopRequestStep ==
  ASSUME IInv, StopRequest
  PROVE  IInv'
<1>1. SharedTypes'
  <2>1. g_queue' \in Seq(Task)
    <3>1. CASE g_queue' = g_queue
      BY <3>1 DEF IInv, TypeOK, SharedTypes
    <3>2. CASE g_queue' = <<>>
      BY <3>2
    <3> QED BY <3>1, <3>2 DEF StopRequest
  <2> QED BY <2>1 DEF IInv, TypeOK, SharedTypes, States, StopRequest
<1>2. BackendTypes'
  BY BackendAssumption, NoneAssumption DEF IInv, BackendTypes, TypeOK,
     SharedTypes, BackendPcs, ItemInv, StopRequest, backend, callers
<1>3. GuiTypes'
  <2>1. \A i \in 1..Len(g_queue) : g_queue[i] \in Task
    BY DEF IInv, TypeOK, SharedTypes
  <2>2. {t.seq : t \in Elems(g_queue)} \subseteq 1..MaxSeq
    BY <2>1 DEF Elems, Task
  <2> QED BY <2>2 DEF IInv, TypeOK, GuiTypes, StopRequest
<1>4. CallerTypes'
  BY BackendAssumption, NoneAssumption DEF IInv, CallerTypes, TypeOK,
     ClaimInv, StopRequest, backend, callers
<1>5. ThreadInv'
  BY DEF IInv, ThreadInv, Leaving, Working, TypeOK, SharedTypes, BackendTypes,
     GuiTypes, StopRequest, backend, callers
<1>6. ItemInv'
  BY DEF IInv, ItemInv, TypeOK, BackendTypes, SharedTypes, StopRequest,
     backend, callers
<1>7. QueueInv'
  BY DEF IInv, QueueInv, QueuedCall, TypeOK, CallerTypes, Current,
     StopRequest, backend, callers
<1>8. ClaimInv'
  BY DEF IInv, ClaimInv, TypeOK, SharedTypes, BackendTypes, CallerTypes,
     Current, Request, StopRequest, backend, callers
<1>9. DoneInv'
  BY DEF IInv, DoneInv, TypeOK, CallerTypes, ClaimInv, Request, StopRequest,
     backend, callers
<1>10. CallInv'
  BY DEF IInv, CallInv, TypeOK, CallerTypes, Current, StopRequest, backend,
     callers
<1>11. BypassInv'
  BY DEF IInv, BypassInv, TypeOK, CallerTypes, BackendTypes, StopRequest,
     backend, callers
<1> QED
  BY <1>1, <1>2, <1>3, <1>4, <1>5, <1>6, <1>7, <1>8, <1>9, <1>10, <1>11
  DEF IInv, TypeOK

\* backend_stop() sets g_cancel.  The invariant is preserved.
LEMMA StopCancelStep ==
  ASSUME IInv, StopCancel
  PROVE  IInv'
<1>1. SharedTypes'
  BY BackendAssumption, NoneAssumption DEF IInv, SharedTypes, TypeOK, States,
     StopCancel, backend, callers
<1>2. BackendTypes'
  BY BackendAssumption, NoneAssumption DEF IInv, BackendTypes, TypeOK,
     SharedTypes, BackendPcs, ItemInv, StopCancel, backend, callers
<1>3. GuiTypes'
  BY BackendAssumption, NoneAssumption DEF IInv, GuiTypes, TypeOK,
     BackendTypes, StopCancel, backend, callers
<1>4. CallerTypes'
  BY BackendAssumption, NoneAssumption DEF IInv, CallerTypes, TypeOK,
     ClaimInv, StopCancel, backend, callers
<1>5. ThreadInv'
  BY DEF IInv, ThreadInv, Leaving, Working, TypeOK, SharedTypes, BackendTypes,
     GuiTypes, StopCancel, backend, callers
<1>6. ItemInv'
  BY DEF IInv, ItemInv, TypeOK, BackendTypes, SharedTypes, StopCancel,
     backend, callers
<1>7. QueueInv'
  BY DEF IInv, QueueInv, QueuedCall, TypeOK, CallerTypes, Current, StopCancel,
     backend, callers
<1>8. ClaimInv'
  BY DEF IInv, ClaimInv, TypeOK, SharedTypes, BackendTypes, CallerTypes,
     Current, Request, StopCancel, backend, callers
<1>9. DoneInv'
  BY DEF IInv, DoneInv, TypeOK, CallerTypes, ClaimInv, Request, StopCancel,
     backend, callers
<1>10. CallInv'
  BY DEF IInv, CallInv, TypeOK, CallerTypes, Current, StopCancel, backend,
     callers
<1>11. BypassInv'
  BY DEF IInv, BypassInv, TypeOK, CallerTypes, BackendTypes, StopCancel,
     backend, callers
<1> QED
  BY <1>1, <1>2, <1>3, <1>4, <1>5, <1>6, <1>7, <1>8, <1>9, <1>10, <1>11
  DEF IInv, TypeOK

\* backend_stop() has joined the thread.  The invariant is preserved.
LEMMA StopJoinStep ==
  ASSUME IInv, StopJoin
  PROVE  IInv'
<1>1. SharedTypes'
  <2>1. g_requests' \in Seq(Request)
    BY DEF StopJoin
  <2> QED BY <2>1 DEF IInv, TypeOK, SharedTypes, States, StopJoin
<1>2. BackendTypes'
  BY BackendAssumption, NoneAssumption DEF IInv, BackendTypes, TypeOK,
     SharedTypes, BackendPcs, ItemInv, StopJoin, callers
<1>3. GuiTypes'
  BY BackendAssumption, NoneAssumption DEF IInv, GuiTypes, TypeOK,
     BackendTypes, StopJoin, callers
<1>4. CallerTypes'
  BY BackendAssumption, NoneAssumption DEF IInv, CallerTypes, TypeOK,
     ClaimInv, StopJoin, callers
<1>5. ThreadInv'
  BY DEF IInv, ThreadInv, Leaving, Working, TypeOK, SharedTypes, BackendTypes,
     GuiTypes, StopJoin, callers
<1>6. ItemInv'
  BY DEF IInv, ItemInv, TypeOK, BackendTypes, SharedTypes, StopJoin, callers
<1>7. QueueInv'
  BY DEF IInv, QueueInv, QueuedCall, TypeOK, CallerTypes, Current, StopJoin,
     callers
<1>8. ClaimInv'
  BY DEF IInv, ClaimInv, TypeOK, SharedTypes, BackendTypes, CallerTypes,
     Current, Request, StopJoin, callers
<1>9. DoneInv'
  BY DEF IInv, DoneInv, TypeOK, CallerTypes, ClaimInv, Request, StopJoin,
     callers
<1>10. CallInv'
  <2>1. g_requests = <<>> /\ g_requests' = <<>> /\ bpc # "fn" /\ bpc' # "fn"
    BY DEF IInv, ThreadInv, StopJoin
  <2>2. UNCHANGED <<cpc, calls, outcome, done>>
    BY DEF StopJoin, callers
  <2> QED BY <2>1, <2>2 DEF IInv, CallInv, Current
<1>11. BypassInv'
  BY DEF IInv, BypassInv, TypeOK, CallerTypes, BackendTypes, StopJoin, callers
<1> QED
  BY <1>1, <1>2, <1>3, <1>4, <1>5, <1>6, <1>7, <1>8, <1>9, <1>10, <1>11
  DEF IInv, TypeOK

\* backend_call() while the backend is not running.  The invariant is preserved.
LEMMA CallRefusedStep ==
  ASSUME IInv, NEW c \in Callers, CallRefused(c)
  PROVE  IInv'
<1>1. SharedTypes'
  BY BackendAssumption, NoneAssumption DEF IInv, SharedTypes, TypeOK, States,
     CallRefused, shared, backend, gui
<1>2. BackendTypes'
  BY BackendAssumption, NoneAssumption DEF IInv, BackendTypes, TypeOK,
     SharedTypes, BackendPcs, ItemInv, CallRefused, shared, backend, gui
<1>3. GuiTypes'
  BY BackendAssumption, NoneAssumption DEF IInv, GuiTypes, TypeOK,
     BackendTypes, CallRefused, shared, backend, gui
<1>4. CallerTypes'
  BY BackendAssumption, NoneAssumption DEF IInv, CallerTypes, TypeOK,
     ClaimInv, CallRefused, shared, backend, gui
<1>5. ThreadInv'
  BY DEF IInv, ThreadInv, Leaving, Working, TypeOK, SharedTypes, BackendTypes,
     GuiTypes, CallRefused, shared, backend, gui
<1>6. ItemInv'
  BY DEF IInv, ItemInv, TypeOK, BackendTypes, SharedTypes, CallRefused,
     shared, backend, gui
<1>7. QueueInv'
  <2>1. \A i \in 1..Len(g_requests) : g_requests[i][1] # c
    BY QueueFacts DEF QueuedCall, CallRefused
  <2>2. \A x : (\E i \in 1..Len(g_requests) : g_requests[i] = x) => QueuedCall(x)'
    BY <2>1, QueueFacts DEF IInv, TypeOK, CallerTypes, QueuedCall, Current,
       CallRefused, backend
  <2> QED BY <2>2 DEF IInv, QueueInv, QueuedCall, Current, CallRefused, shared
<1>8. ClaimInv'
  BY DEF IInv, ClaimInv, TypeOK, SharedTypes, BackendTypes, CallerTypes,
     Current, Request, CallRefused, shared, backend, gui
<1>9. DoneInv'
  BY DEF IInv, DoneInv, TypeOK, CallerTypes, ClaimInv, Request, CallRefused,
     shared, backend, gui
<1>10. CallInv'
  BY DEF IInv, CallInv, TypeOK, CallerTypes, Current, CallRefused, shared,
     backend, gui
<1>11. BypassInv'
  BY DEF IInv, BypassInv, TypeOK, CallerTypes, BackendTypes, CallRefused,
     shared, backend, gui
<1> QED
  BY <1>1, <1>2, <1>3, <1>4, <1>5, <1>6, <1>7, <1>8, <1>9, <1>10, <1>11
  DEF IInv, TypeOK

\* backend_call() queues its request.  The invariant is preserved.
LEMMA CallQueueStep ==
  ASSUME IInv, NEW c \in Callers, CallQueue(c)
  PROVE  IInv'
<1>1. SharedTypes'
  <2> DEFINE s == g_requests  r == <<c, calls[c] + 1>>
  <2>1. r \in Request /\ calls[c] \in Nat
    BY BackendAssumption DEF IInv, TypeOK, CallerTypes, CallQueue, Request
  <2>2. /\ g_requests' = Append(s, r)
        /\ Len(s) \in Nat /\ Len(g_requests') = Len(s) + 1
        /\ \A i \in 1..Len(s) : g_requests'[i] = s[i]
        /\ g_requests'[Len(s) + 1] = r
        /\ g_requests' \in Seq(Request)
    BY <2>1, AppendFacts, QueueFacts DEF CallQueue

  <2> QED BY <2>2 DEF IInv, TypeOK, SharedTypes, CallQueue
<1>2. BackendTypes'
  BY BackendAssumption, NoneAssumption DEF IInv, BackendTypes, TypeOK,
     SharedTypes, BackendPcs, ItemInv, CallQueue, backend, gui
<1>3. GuiTypes'
  BY BackendAssumption, NoneAssumption DEF IInv, GuiTypes, TypeOK,
     BackendTypes, CallQueue, backend, gui
<1>4. CallerTypes'
  <2>1. calls[c] \in 0..MaxCalls /\ calls[c] < MaxCalls
    BY DEF IInv, TypeOK, CallerTypes, CallQueue
  <2>2. calls[c] + 1 \in 0..MaxCalls
    BY <2>1, BackendAssumption
  <2>3. calls' \in [Callers -> 0..MaxCalls]
    BY <2>2 DEF IInv, TypeOK, CallerTypes, CallQueue
  <2>4. thread_wait' \in [Callers -> 0..MaxStarts]
    BY DEF IInv, TypeOK, BackendTypes, CallerTypes, CallQueue
  <2> QED BY <2>3, <2>4 DEF IInv, TypeOK, CallerTypes, CallQueue
<1>5. ThreadInv'
  BY DEF IInv, ThreadInv, Leaving, Working, TypeOK, SharedTypes, BackendTypes,
     GuiTypes, CallQueue, backend, gui
<1>6. ItemInv'
  BY DEF IInv, ItemInv, TypeOK, BackendTypes, SharedTypes, CallQueue, backend,
     gui
<1>7. QueueInv'
  <2> DEFINE s == g_requests  r == <<c, calls[c] + 1>>
  <2>1. r \in Request /\ calls[c] \in Nat
    BY BackendAssumption DEF IInv, TypeOK, CallerTypes, CallQueue, Request
  <2>2. /\ g_requests' = Append(s, r)
        /\ Len(s) \in Nat /\ Len(g_requests') = Len(s) + 1
        /\ \A i \in 1..Len(s) : g_requests'[i] = s[i]
        /\ g_requests'[Len(s) + 1] = r
        /\ g_requests' \in Seq(Request)
    BY <2>1, AppendFacts, QueueFacts DEF CallQueue

  <2>3. \A i \in 1..Len(s) : s[i][1] # c
    BY QueueFacts DEF QueuedCall, CallQueue

  <2>4. \A x : (\E i \in 1..Len(s) : s[i] = x) => QueuedCall(x)'
    BY <2>3, QueueFacts DEF IInv, TypeOK, CallerTypes, QueuedCall, Current,
       CallQueue, backend
  <2>5. r \notin done
    BY <2>1 DEF IInv, DoneInv
  <2>6. \A x : x = r => QueuedCall(x)'
    BY <2>1, <2>5 DEF IInv, TypeOK, CallerTypes, QueuedCall, Current,
       CallQueue, backend
  <2>7. \A i \in 1..Len(s) : s[i] # r
    BY <2>3
  <2>8. \A i \in 1..Len(s) + 1 : i \in 1..Len(s) \/ i = Len(s) + 1
    BY <2>2
  <2>9. \A x : (\E i \in 1..Len(g_requests') : g_requests'[i] = x) => QueuedCall(x)'
    BY <2>2, <2>4, <2>6, <2>8
  <2>10. \A i, j \in 1..Len(g_requests') : g_requests'[i] = g_requests'[j] => i = j
    BY <2>2, <2>7, <2>8 DEF IInv, QueueInv
  <2> QED BY <2>9, <2>10 DEF QueueInv, QueuedCall, Current
<1>8. ClaimInv'
  <2> DEFINE s == g_requests  r == <<c, calls[c] + 1>>
  <2>1. r \in Request /\ calls[c] \in Nat
    BY BackendAssumption DEF IInv, TypeOK, CallerTypes, CallQueue, Request
  <2>2. /\ g_requests' = Append(s, r)
        /\ Len(s) \in Nat /\ Len(g_requests') = Len(s) + 1
        /\ \A i \in 1..Len(s) : g_requests'[i] = s[i]
        /\ g_requests'[Len(s) + 1] = r
        /\ g_requests' \in Seq(Request)
    BY <2>1, AppendFacts, QueueFacts DEF CallQueue

  <2>3. \A i \in 1..Len(s) : s[i][1] # c
    BY QueueFacts DEF QueuedCall, CallQueue

  <2>4. CASE bpc = "fn"
    <3>1. /\ req \in Request /\ req[1] \in Callers /\ req[2] \in Nat
          /\ req[2] <= calls[req[1]] /\ calls[req[1]] \in Nat
          /\ req \notin done
          /\ \A i \in 1..Len(s) : s[i] # req
      BY <2>4 DEF IInv, ClaimInv, TypeOK, CallerTypes, Request
    <3>2. req # r
      BY <2>1, <3>1
    <3>3. \A i \in 1..Len(g_requests') : g_requests'[i] # req
      BY <2>2, <3>1, <3>2
    <3>4. req[2] <= calls'[req[1]]
      BY <2>1, <3>1 DEF IInv, TypeOK, CallerTypes, CallQueue
    <3>5. req[1] \notin WaitCanFail => req[1] # c
      BY <2>4 DEF IInv, ClaimInv, CallQueue
    <3>6. req[1] \notin WaitCanFail =>
            /\ req = Current(req[1])'
            /\ cpc'[req[1]] = "waiting"
            /\ thread_wait'[req[1]] = generation
      BY <2>4, <3>1, <3>5 DEF IInv, ClaimInv, TypeOK, CallerTypes, Current,
         CallQueue, backend
    <3> QED
      BY <3>1, <3>3, <3>4, <3>6 DEF ClaimInv, CallQueue, backend
  <2> QED BY <2>4 DEF ClaimInv, CallQueue, backend
<1>9. DoneInv'
  BY DEF IInv, DoneInv, TypeOK, CallerTypes, ClaimInv, Request, CallQueue,
     backend, gui
<1>10. CallInv'
  <2> DEFINE s == g_requests  r == <<c, calls[c] + 1>>
  <2>1. r \in Request /\ calls[c] \in Nat
    BY BackendAssumption DEF IInv, TypeOK, CallerTypes, CallQueue, Request
  <2>2. /\ g_requests' = Append(s, r)
        /\ Len(s) \in Nat /\ Len(g_requests') = Len(s) + 1
        /\ \A i \in 1..Len(s) : g_requests'[i] = s[i]
        /\ g_requests'[Len(s) + 1] = r
        /\ g_requests' \in Seq(Request)
    BY <2>1, AppendFacts, QueueFacts DEF CallQueue

  <2>3. \A i \in 1..Len(s) : s[i][1] # c
    BY QueueFacts DEF QueuedCall, CallQueue

  <2>4. ASSUME NEW d \in Callers \ WaitCanFail, d # c
        PROVE  /\ UNCHANGED <<cpc[d], outcome[d], Current(d)>>
               /\ cpc[d] # "withdraw" /\ outcome[d] # "failed"
               /\ cpc[d] = "waiting" =>
                    \/ Current(d) \in done
                    \/ \E i \in 1..Len(s) : s[i] = Current(d)
                    \/ bpc = "fn" /\ req = Current(d)
    BY <2>4 DEF IInv, TypeOK, CallerTypes, CallInv, Current, CallQueue
  <2>5. /\ cpc'[c] = "waiting" /\ outcome'[c] = "none"
        /\ Current(c)' = r
    BY DEF IInv, TypeOK, CallerTypes, Current, CallQueue
  <2>6. \A x : (\E i \in 1..Len(s) : s[i] = x) =>
               (\E i \in 1..Len(g_requests') : g_requests'[i] = x)
    BY <2>2
  <2>7. UNCHANGED <<done, bpc, req>>
    BY DEF CallQueue, backend
  <2>8. Len(s) + 1 \in 1..Len(g_requests')
    BY <2>2
  <2> QED BY <2>2, <2>4, <2>5, <2>6, <2>7, <2>8 DEF CallInv
<1>11. BypassInv'
  <2> DEFINE s == g_requests  r == <<c, calls[c] + 1>>
  <2>1. r \in Request /\ calls[c] \in Nat
    BY BackendAssumption DEF IInv, TypeOK, CallerTypes, CallQueue, Request
  <2>2. /\ g_requests' = Append(s, r)
        /\ Len(s) \in Nat /\ Len(g_requests') = Len(s) + 1
        /\ \A i \in 1..Len(s) : g_requests'[i] = s[i]
        /\ g_requests'[Len(s) + 1] = r
        /\ g_requests' \in Seq(Request)
    BY <2>1, AppendFacts, QueueFacts DEF CallQueue

  <2>3. \A i \in 1..Len(s) : s[i][1] # c
    BY QueueFacts DEF QueuedCall, CallQueue

  <2>4. \A d \in Callers : bypassed'[d] = IF d = c THEN 0 ELSE bypassed[d]
    BY DEF IInv, TypeOK, CallerTypes, CallQueue
  <2>5. \A i \in 1..Len(s) : s[i][1] \in Callers /\ s[i][1] # c
    BY <2>3, QueueFacts
  <2>6. \A i \in 1..Len(g_requests') :
          g_requests'[i] = r \/ (i \in 1..Len(s) /\ g_requests'[i] = s[i])
    BY <2>2
  <2>7. UNCHANGED <<bpc, item>>
    BY DEF CallQueue, backend
  <2> QED BY <2>4, <2>5, <2>6, <2>7 DEF IInv, BypassInv
<1> QED
  BY <1>1, <1>2, <1>3, <1>4, <1>5, <1>6, <1>7, <1>8, <1>9, <1>10, <1>11
  DEF IInv, TypeOK

\* backend_call() returns true.  The invariant is preserved.
LEMMA CallDoneStep ==
  ASSUME IInv, NEW c \in Callers, CallDone(c)
  PROVE  IInv'
<1>1. SharedTypes'
  BY BackendAssumption, NoneAssumption DEF IInv, SharedTypes, TypeOK, States,
     CallDone, shared, backend, gui
<1>2. BackendTypes'
  BY BackendAssumption, NoneAssumption DEF IInv, BackendTypes, TypeOK,
     SharedTypes, BackendPcs, ItemInv, CallDone, shared, backend, gui
<1>3. GuiTypes'
  BY BackendAssumption, NoneAssumption DEF IInv, GuiTypes, TypeOK,
     BackendTypes, CallDone, shared, backend, gui
<1>4. CallerTypes'
  BY BackendAssumption, NoneAssumption DEF IInv, CallerTypes, TypeOK,
     ClaimInv, CallDone, shared, backend, gui
<1>5. ThreadInv'
  BY DEF IInv, ThreadInv, Leaving, Working, TypeOK, SharedTypes, BackendTypes,
     GuiTypes, CallDone, shared, backend, gui
<1>6. ItemInv'
  BY DEF IInv, ItemInv, TypeOK, BackendTypes, SharedTypes, CallDone, shared,
     backend, gui
<1>7. QueueInv'
  <2>1. \A i \in 1..Len(g_requests) : g_requests[i][1] # c
    BY QueueFacts DEF QueuedCall, CallDone
  <2>2. \A x : (\E i \in 1..Len(g_requests) : g_requests[i] = x) => QueuedCall(x)'
    BY <2>1, QueueFacts DEF IInv, TypeOK, CallerTypes, QueuedCall, Current,
       CallDone, backend
  <2> QED BY <2>2 DEF IInv, QueueInv, QueuedCall, Current, CallDone, shared
<1>8. ClaimInv'
  BY DEF IInv, ClaimInv, TypeOK, SharedTypes, BackendTypes, CallerTypes,
     Current, Request, CallDone, shared, backend, gui
<1>9. DoneInv'
  BY DEF IInv, DoneInv, TypeOK, CallerTypes, ClaimInv, Request, CallDone,
     shared, backend, gui
<1>10. CallInv'
  BY DEF IInv, CallInv, TypeOK, CallerTypes, Current, CallDone, shared,
     backend, gui
<1>11. BypassInv'
  BY DEF IInv, BypassInv, TypeOK, CallerTypes, BackendTypes, CallDone, shared,
     backend, gui
<1> QED
  BY <1>1, <1>2, <1>3, <1>4, <1>5, <1>6, <1>7, <1>8, <1>9, <1>10, <1>11
  DEF IInv, TypeOK

\* backend_call() stops waiting without its event.  The invariant is preserved.
LEMMA CallAbandonStep ==
  ASSUME IInv, NEW c \in Callers, CallAbandon(c)
  PROVE  IInv'
\* A call gives up only when the wait fails: a thread that has exited left no
\* request behind.
<1>0. c \in WaitCanFail
  <2> SUFFICES ASSUME c \notin WaitCanFail PROVE FALSE
    BY BackendAssumption
  <2>1. cpc[c] = "waiting" /\ Current(c) \notin done /\ Signalled(c)
    BY DEF CallAbandon
  <2>2. CASE \E i \in 1..Len(g_requests) : g_requests[i] = Current(c)
    <3>1. thread_wait[c] = generation /\ generation \in Nat
      BY <2>2, QueueFacts, BackendAssumption DEF QueuedCall, Current, IInv,
         TypeOK, BackendTypes
    <3>2. g_requests # <<>>
      BY <2>2
    <3> QED BY <2>1, <3>1, <3>2 DEF Signalled, IInv, ThreadInv
  <2>3. CASE bpc = "fn" /\ req = Current(c)
    <3>1. thread_wait[c] = generation /\ generation \in Nat
      BY <2>3, BackendAssumption DEF IInv, ClaimInv, Current, TypeOK,
         BackendTypes
    <3> QED BY <2>1, <2>3, <3>1 DEF Signalled
  <2> QED BY <2>1, <2>2, <2>3 DEF IInv, CallInv
<1>1. SharedTypes'
  BY BackendAssumption, NoneAssumption DEF IInv, SharedTypes, TypeOK, States,
     CallAbandon, shared, backend, gui
<1>2. BackendTypes'
  BY BackendAssumption, NoneAssumption DEF IInv, BackendTypes, TypeOK,
     SharedTypes, BackendPcs, ItemInv, CallAbandon, shared, backend, gui
<1>3. GuiTypes'
  BY BackendAssumption, NoneAssumption DEF IInv, GuiTypes, TypeOK,
     BackendTypes, CallAbandon, shared, backend, gui
<1>4. CallerTypes'
  BY BackendAssumption, NoneAssumption DEF IInv, CallerTypes, TypeOK,
     ClaimInv, CallAbandon, shared, backend, gui
<1>5. ThreadInv'
  BY DEF IInv, ThreadInv, Leaving, Working, TypeOK, SharedTypes, BackendTypes,
     GuiTypes, CallAbandon, shared, backend, gui
<1>6. ItemInv'
  BY DEF IInv, ItemInv, TypeOK, BackendTypes, SharedTypes, CallAbandon,
     shared, backend, gui
<1>7. QueueInv'
  <2>1. \A x : (\E i \in 1..Len(g_requests) : g_requests[i] = x) => QueuedCall(x)'
    BY QueueFacts DEF IInv, TypeOK, CallerTypes, QueuedCall, Current,
       CallAbandon, backend
  <2> QED BY <2>1 DEF IInv, QueueInv, QueuedCall, Current, CallAbandon, shared
<1>8. ClaimInv'
  BY <1>0 DEF IInv, ClaimInv, TypeOK, CallerTypes, Current, Request,
     CallAbandon, shared, backend, gui
<1>9. DoneInv'
  BY DEF IInv, DoneInv, TypeOK, CallerTypes, ClaimInv, Request, CallAbandon,
     shared, backend, gui
<1>10. CallInv'
  BY <1>0 DEF IInv, CallInv, TypeOK, CallerTypes, Current, CallAbandon, shared,
     backend
<1>11. BypassInv'
  BY DEF IInv, BypassInv, TypeOK, CallerTypes, BackendTypes, CallAbandon,
     shared, backend, gui
<1> QED
  BY <1>1, <1>2, <1>3, <1>4, <1>5, <1>6, <1>7, <1>8, <1>9, <1>10, <1>11
  DEF IInv, TypeOK

\* backend_call() erases its request and returns false.  The invariant is preserved.
LEMMA CallWithdrawStep ==
  ASSUME IInv, NEW c \in Callers, CallWithdraw(c)
  PROVE  IInv'
<1>1. SharedTypes'
  <2>1. g_requests' \in Seq(Request)
    BY QueueFacts, EraseFacts DEF IInv, QueueInv, CallWithdraw
  <2> QED BY <2>1 DEF IInv, TypeOK, SharedTypes, CallWithdraw
<1>2. BackendTypes'
  BY BackendAssumption, NoneAssumption DEF IInv, BackendTypes, TypeOK,
     SharedTypes, BackendPcs, ItemInv, CallWithdraw, backend, gui
<1>3. GuiTypes'
  BY BackendAssumption, NoneAssumption DEF IInv, GuiTypes, TypeOK,
     BackendTypes, CallWithdraw, backend, gui
<1>4. CallerTypes'
  BY BackendAssumption, NoneAssumption DEF IInv, CallerTypes, TypeOK,
     ClaimInv, CallWithdraw, backend, gui
<1>5. ThreadInv'
  <2>1. g_requests = <<>> => g_requests' = <<>>
    BY DEF CallWithdraw, Erase, Elems
  <2>2. UNCHANGED <<g_thread, g_state, g_stop, gpc, bpc, ret, grub_up>>
    BY DEF CallWithdraw, backend, gui
  <2> QED BY <2>1, <2>2 DEF IInv, ThreadInv, Leaving, Working
<1>6. ItemInv'
  BY DEF IInv, ItemInv, TypeOK, BackendTypes, SharedTypes, CallWithdraw,
     backend, gui
<1>7. QueueInv'
  <2> DEFINE s == g_requests  r == Current(c)  t == Erase(s, r)
  <2>1. /\ \A i \in 1..Len(t) : \E j \in 1..Len(s) : t[i] = s[j] /\ s[j] # r
        /\ \A i, j \in 1..Len(t) : t[i] = t[j] => i = j
    BY QueueFacts, EraseFacts DEF IInv, QueueInv
  <2>2. g_requests' = t
    BY DEF CallWithdraw
  <2> HIDE DEF t

  <2>3. ASSUME NEW x, x # r, \E j \in 1..Len(s) : s[j] = x
        PROVE  QueuedCall(x)'
    <3>1. x[1] # c
      BY <2>3, QueueFacts DEF Current
    <3> QED
      BY <2>3, <3>1, QueueFacts DEF IInv, TypeOK, CallerTypes, QueuedCall,
         Current, CallWithdraw, backend
  <2>4. \A x : (\E i \in 1..Len(t) : t[i] = x) => QueuedCall(x)'
    BY <2>1, <2>3
  <2> QED BY <2>1, <2>2, <2>4 DEF QueueInv, QueuedCall, Current
<1>8. ClaimInv'
  <2> DEFINE s == g_requests  r == Current(c)  t == Erase(s, r)
  <2>1. /\ \A i \in 1..Len(t) : \E j \in 1..Len(s) : t[i] = s[j] /\ s[j] # r
        /\ \A i, j \in 1..Len(t) : t[i] = t[j] => i = j
    BY QueueFacts, EraseFacts DEF IInv, QueueInv
  <2>2. g_requests' = t
    BY DEF CallWithdraw
  <2> HIDE DEF t

  <2>3. c \in WaitCanFail
    BY DEF IInv, CallInv, CallWithdraw
  <2>4. bpc = "fn" => \A i \in 1..Len(t) : t[i] # req
    BY <2>1 DEF IInv, ClaimInv
  <2>5. \A d \in Callers \ WaitCanFail : UNCHANGED <<cpc[d], Current(d)>>
    BY <2>3 DEF IInv, TypeOK, CallerTypes, Current, CallWithdraw
  <2>6. bpc = "fn" => req[1] \in Callers
    BY DEF IInv, ClaimInv, Request
  <2> QED
    BY <2>2, <2>4, <2>5, <2>6 DEF IInv, ClaimInv, Current, CallWithdraw, backend
<1>9. DoneInv'
  BY DEF IInv, DoneInv, TypeOK, CallerTypes, ClaimInv, Request, CallWithdraw,
     backend, gui
<1>10. CallInv'
  <2> DEFINE s == g_requests  r == Current(c)  t == Erase(s, r)
  <2>1. \A i \in 1..Len(s) : s[i] # r => \E j \in 1..Len(t) : t[j] = s[i]
    BY QueueFacts, EraseFacts DEF IInv, QueueInv
  <2>2. g_requests' = t
    BY DEF CallWithdraw
  <2> HIDE DEF t

  <2>3. c \in WaitCanFail
    BY DEF IInv, CallInv, CallWithdraw
  <2>4. ASSUME NEW d \in Callers \ WaitCanFail
        PROVE  /\ UNCHANGED <<cpc[d], outcome[d], Current(d)>>
               /\ Current(d) # r
    BY <2>3 DEF IInv, TypeOK, CallerTypes, Current, CallWithdraw
  <2>5. UNCHANGED <<done, bpc, req>>
    BY DEF CallWithdraw, backend
  <2> QED BY <2>1, <2>2, <2>4, <2>5 DEF IInv, CallInv
<1>11. BypassInv'
  <2> DEFINE s == g_requests  r == Current(c)  t == Erase(s, r)
  <2>1. /\ \A i \in 1..Len(t) : \E j \in 1..Len(s) : t[i] = s[j] /\ s[j] # r
        /\ \A i, j \in 1..Len(t) : t[i] = t[j] => i = j
    BY QueueFacts, EraseFacts DEF IInv, QueueInv
  <2>2. g_requests' = t
    BY DEF CallWithdraw
  <2> HIDE DEF t

  <2>3. UNCHANGED <<bypassed, bpc, item>>
    BY DEF CallWithdraw, backend
  <2> QED BY <2>1, <2>2, <2>3 DEF IInv, BypassInv
<1> QED
  BY <1>1, <1>2, <1>3, <1>4, <1>5, <1>6, <1>7, <1>8, <1>9, <1>10, <1>11
  DEF IInv, TypeOK

-----------------------------------------------------------------------------
(* The theorems.                                                           *)

\* Before backend_start() the invariant holds.
LEMMA InitInv == Init => IInv
<1> SUFFICES ASSUME Init PROVE IInv
  OBVIOUS
<1>1. TypeOK
  <2>0. 0 \in 0..MaxSeq /\ 0 \in 0..MaxStarts
    BY BackendAssumption
  <2>1. SharedTypes
    <3>1. g_queue \in Seq(Task) /\ g_requests \in Seq(Request)
      BY DEF Init
    <3>2. g_seq \in 0..MaxSeq /\ g_latest_list_seq \in 0..MaxSeq
      BY <2>0 DEF Init
    <3>3. /\ g_state \in States
          /\ g_stop \in BOOLEAN /\ g_thread \in BOOLEAN /\ g_cancel \in BOOLEAN
      BY DEF Init, States
    <3> QED BY <3>1, <3>2, <3>3 DEF SharedTypes
  <2>2. BackendTypes
    BY <2>0 DEF Init, BackendTypes, BackendPcs
  <2>3. GuiTypes
    BY DEF Init, GuiTypes
  <2>4. CallerTypes
    BY BackendAssumption DEF Init, CallerTypes
  <2> QED BY <2>1, <2>2, <2>3, <2>4 DEF TypeOK
<1>2. ThreadInv /\ ItemInv /\ QueueInv /\ ClaimInv
  BY DEF Init, ThreadInv, ItemInv, QueueInv, ClaimInv, Leaving, Working
<1>3. DoneInv /\ CallInv /\ BypassInv
  BY DEF Init, DoneInv, CallInv, BypassInv
<1> QED BY <1>1, <1>2, <1>3 DEF IInv

\* Steps that change nothing keep it.
LEMMA StutterInv == ASSUME IInv, UNCHANGED vars PROVE IInv'
<1> USE DEF vars, shared, backend, gui, callers
<1>1. TypeOK'
  BY DEF IInv, TypeOK, SharedTypes, BackendTypes, GuiTypes, CallerTypes
<1>2. ThreadInv' /\ ItemInv' /\ DoneInv' /\ BypassInv'
  BY DEF IInv, ThreadInv, ItemInv, DoneInv, BypassInv, Leaving
<1>3. QueueInv' /\ ClaimInv' /\ CallInv'
  BY DEF IInv, QueueInv, QueuedCall, ClaimInv, CallInv, Current
<1> QED BY <1>1, <1>2, <1>3 DEF IInv

\* Every step of every thread keeps it.
LEMMA NextInv == IInv /\ [Next]_vars => IInv'
<1> SUFFICES ASSUME IInv, [Next]_vars PROVE IInv'
  OBVIOUS
<1>1. CASE BackendStep
  BY <1>1, MainInitStep, MainWakeStep, ServiceRequestsStep, RunRequestStep,
     ResetCancelStep, CheckpointStep, ChunkStep, RunShortStep, FinishLongStep,
     MainFiniStep, MainExitStep DEF BackendStep
<1>2. CASE GuiStep
  BY <1>2, BackendStartStep, BackendPostStep, BackendCancelStep,
     StopRequestStep, StopCancelStep, StopJoinStep DEF GuiStep
<1>3. ASSUME NEW c \in Callers, CallerStep(c)
      PROVE  IInv'
  BY <1>3, CallRefusedStep, CallQueueStep, CallDoneStep, CallAbandonStep,
     CallWithdrawStep DEF CallerStep, CallReturn
<1>4. CASE UNCHANGED vars
  BY <1>4, StutterInv
<1> QED BY <1>1, <1>2, <1>3, <1>4 DEF Next

\* The inductive invariant holds in every reachable state of the protocol.
THEOREM Invariance == Spec => []IInv
BY InitInv, NextInv, PTL DEF Spec

\* The backend protocol is type correct for all values of its bounds.
THEOREM TypeCorrect == Spec => []TypeOK
<1>1. IInv => TypeOK
  BY DEF IInv
<1> QED BY <1>1, Invariance, PTL

\* The function of a backend_call() whose own wait does not fail runs only while
\* that call is blocked, and such a call, once accepted, never returns false, for
\* any number of callers racing with backend_stop(), backend_start() and with
\* callers whose waits do fail.
THEOREM CallsSafe == Spec => []AcceptedCallsSucceed
<1>1. IInv => AcceptedCallsSucceed
  BY DEF IInv, AcceptedCallsSucceed, CapturesAlive, ClaimInv, CallInv
<1> QED BY <1>1, Invariance, PTL

\* Even when waits fail, nothing stays in g_requests whose call has returned.
THEOREM QueueSafe == Spec => []QueuedCallsPending
<1>1. IInv => QueuedCallsPending
  BY DEF IInv, QueuedCallsPending, QueueInv, QueuedCall
<1> QED BY <1>1, Invariance, PTL

\* grub runs only between rover_init() and rover_fini(), and nobody is left
\* waiting once it is gone.
THEOREM GrubSafe == Spec => []GrubConfined
<1>1. IInv => GrubConfined
  BY DEF IInv, GrubConfined, ThreadInv, Working, TypeOK, BackendTypes,
     BackendPcs
<1> QED BY <1>1, Invariance, PTL

\* A queued request is overtaken by at most one unit of task work.
THEOREM OvertakingBounded == Spec => []BoundedOvertaking
<1>1. IInv => \A c \in Callers : bypassed[c] = 0 \/ bypassed[c] = 1
  BY DEF IInv, BypassInv
<1>2. \A n : n = 0 \/ n = 1 => n <= 1
  OBVIOUS
<1>3. IInv => BoundedOvertaking
  BY <1>1, <1>2, Zenon DEF BoundedOvertaking
<1> QED BY <1>3, Invariance, PTL

-----------------------------------------------------------------------------
(* The backend implements TaskQueue, and its results come back in order.   *)

\* The backend thread holds a task exactly where backend_main() does.
HoldsInv ==
  item # NoTask => \/ bpc \in {"reset", "run", "chunk"}
                   \/ bpc \in {"service", "fn"} /\ ret \in {"reset", "chunk"}

Held == IF item = NoTask THEN {} ELSE {item.seq}

Waiting == {g_queue[i].seq : i \in 1..Len(g_queue)}

Sent == {mailbox[i] : i \in 1..Len(mailbox)}

\* Age order of the three places, and no task in two of them.
AgeInv ==
  /\ \A i, j \in 1..Len(g_queue) : i < j => g_queue[i].seq < g_queue[j].seq
  /\ \A i, j \in 1..Len(mailbox) : i < j => mailbox[i] < mailbox[j]
  /\ \A h \in Held : \A q \in Waiting : h < q
  /\ \A s \in Sent : \A q \in Waiting : s < q
  /\ \A s \in Sent : \A h \in Held : s < h
  /\ dropped \cap (Sent \cup Held \cup Waiting) = {}

\* Every task posted is in one of the places.
AccountInv == Sent \cup Held \cup Waiting \cup dropped = 1..g_seq

OrderInv == HoldsInv /\ AgeInv /\ AccountInv

-----------------------------------------------------------------------------
\* A task that leaves all three places alone.
LEMMA PlacesKept ==
  ASSUME OrderInv, HoldsInv', UNCHANGED <<g_queue, mailbox, dropped, g_seq, item>>
  PROVE  OrderInv'
<1>1. Held' = Held /\ Waiting' = Waiting /\ Sent' = Sent
  BY DEF Held, Waiting, Sent
<1>2. AgeInv'
  BY <1>1 DEF OrderInv, AgeInv
<1>3. AccountInv'
  BY <1>1 DEF OrderInv, AccountInv
<1> QED BY <1>2, <1>3 DEF OrderInv

\* Types of what the three places hold.
LEMMA PlaceTypes ==
  ASSUME IInv
  PROVE  /\ g_queue \in Seq(Task) /\ Len(g_queue) \in Nat
         /\ \A i \in 1..Len(g_queue) : g_queue[i] \in Task /\ g_queue[i].seq \in Nat
         /\ mailbox \in Seq(1..MaxSeq) /\ Len(mailbox) \in Nat
         /\ \A i \in 1..Len(mailbox) : mailbox[i] \in Nat
         /\ Waiting \subseteq Nat /\ Sent \subseteq Nat /\ Held \subseteq Nat
         /\ g_seq \in Nat /\ dropped \in SUBSET (1..MaxSeq)
<1>1. g_queue \in Seq(Task) /\ mailbox \in Seq(1..MaxSeq) /\ g_seq \in 0..MaxSeq
      /\ item \in Task \cup {NoTask} /\ dropped \in SUBSET (1..MaxSeq)
  BY DEF IInv, TypeOK, SharedTypes, BackendTypes, GuiTypes
<1>2. MaxSeq \in Nat
  BY BackendAssumption
<1>3. Len(g_queue) \in Nat
      /\ \A i \in 1..Len(g_queue) : g_queue[i] \in Task /\ g_queue[i].seq \in Nat
  <2>1. \A t \in Task : t.seq \in Nat
    BY <1>2 DEF Task
  <2>2. Len(g_queue) \in Nat /\ \A i \in 1..Len(g_queue) : g_queue[i] \in Task
    BY <1>1
  <2> QED BY <2>1, <2>2
<1>4. Len(mailbox) \in Nat /\ \A i \in 1..Len(mailbox) : mailbox[i] \in Nat
  BY <1>1, <1>2
<1>5. Held \subseteq Nat
  BY <1>1, <1>2 DEF Held, Task
<1> QED BY <1>1, <1>2, <1>3, <1>4, <1>5 DEF Waiting, Sent

\* The backend thread takes the oldest queued task.
LEMMA TakeStep ==
  ASSUME IInv, OrderInv, item = NoTask, HoldsInv', g_queue # <<>>,
         item' = Head(g_queue), g_queue' = Tail(g_queue),
         UNCHANGED <<mailbox, dropped, g_seq>>
  PROVE  OrderInv'
<1> DEFINE q == g_queue
           h == q[1]
<1>1. /\ q \in Seq(Task) /\ Len(q) \in Nat /\ Len(q) > 0
      /\ Head(q) = h /\ h \in Task /\ Len(Tail(q)) = Len(q) - 1
      /\ \A i \in 1..Len(Tail(q)) : Tail(q)[i] = q[i + 1]
  BY PlaceTypes, TailFacts
<1>2. Held = {} /\ Held' = {h.seq}
  BY <1>1, NoneAssumption DEF Held
<1>3. Waiting' = {q[i].seq : i \in 2..Len(q)}
  <2>1. Waiting' = {Tail(q)[i].seq : i \in 1..Len(q) - 1}
    BY <1>1 DEF Waiting
  <2>2. \A i \in 1..Len(q) - 1 : i + 1 \in 2..Len(q) /\ Tail(q)[i].seq = q[i + 1].seq
    BY <1>1
  <2>3. \A i \in 2..Len(q) : i - 1 \in 1..Len(q) - 1
                             /\ Tail(q)[i - 1].seq = q[i].seq
    BY <1>1
  <2> QED BY <2>1, <2>2, <2>3
<1>4. Waiting = Held' \cup Waiting'
  <2>1. \A i \in 1..Len(q) : i = 1 \/ i \in 2..Len(q)
    BY <1>1
  <2>2. 1 \in 1..Len(q) /\ \A i \in 2..Len(q) : i \in 1..Len(q)
    BY <1>1
  <2> QED BY <2>1, <2>2, <1>2, <1>3 DEF Waiting
<1>5. Sent' = Sent
  BY DEF Sent
<1>6. \A i, j \in 1..Len(q) : i < j => q[i].seq < q[j].seq
  BY DEF OrderInv, AgeInv
<1>7. \A w \in Waiting' : h.seq < w
  <2>1. \A i \in 2..Len(q) : 1 \in 1..Len(q) /\ i \in 1..Len(q) /\ 1 < i
    BY <1>1
  <2> QED BY <1>3, <1>6, <2>1
<1>8. \A i, j \in 1..Len(g_queue') : i < j => g_queue'[i].seq < g_queue'[j].seq
  <2> SUFFICES ASSUME NEW i \in 1..Len(Tail(q)), NEW j \in 1..Len(Tail(q)), i < j
               PROVE  Tail(q)[i].seq < Tail(q)[j].seq
    OBVIOUS
  <2>1. i + 1 \in 1..Len(q) /\ j + 1 \in 1..Len(q) /\ i + 1 < j + 1
    BY <1>1
  <2> QED BY <2>1, <1>1, <1>6
<1> HIDE DEF q, h
<1>9. AgeInv'
  BY <1>2, <1>4, <1>5, <1>7, <1>8 DEF OrderInv, AgeInv
<1>10. AccountInv'
  BY <1>2, <1>4, <1>5 DEF OrderInv, AccountInv
<1> QED BY <1>9, <1>10 DEF OrderInv

\* A result is sent, or lost with its message.
LEMMA ResultStep ==
  ASSUME IInv, OrderInv, item \in Task, PostResult, UNCHANGED <<g_queue, g_seq>>
  PROVE  OrderInv'
<1>0. item # NoTask /\ item.seq \in 1..MaxSeq
  BY NoneAssumption DEF Task
<1>1. Held = {item.seq} /\ Held' = {} /\ Waiting' = Waiting /\ HoldsInv'
  BY <1>0 DEF PostResult, Held, Waiting, HoldsInv
<1>2. CASE mailbox' = Append(mailbox, item.seq) /\ UNCHANGED dropped
  <2> DEFINE n == Len(mailbox)
  <2>1. /\ mailbox' = Append(mailbox, item.seq) /\ n \in Nat
        /\ Len(mailbox') = n + 1 /\ mailbox'[n + 1] = item.seq
        /\ \A i \in 1..n : mailbox'[i] = mailbox[i]
    BY <1>0, <1>2, PlaceTypes, AppendFacts
  <2>2. Sent' = Sent \cup Held
    <3>1. \A i \in 1..n + 1 : i = n + 1 \/ i \in 1..n
      BY <2>1
    <3>2. n + 1 \in 1..n + 1 /\ \A i \in 1..n : i \in 1..n + 1
      BY <2>1
    <3> QED BY <2>1, <3>1, <3>2, <1>1 DEF Sent
  <2>3. \A i, j \in 1..Len(mailbox') : i < j => mailbox'[i] < mailbox'[j]
    <3> SUFFICES ASSUME NEW i \in 1..n + 1, NEW j \in 1..n + 1, i < j
                 PROVE  mailbox'[i] < mailbox'[j]
      BY <2>1
    <3>1. i \in 1..n
      BY <2>1
    <3>2. CASE j \in 1..n
      BY <3>1, <3>2, <2>1 DEF OrderInv, AgeInv
    <3>3. CASE j = n + 1
      BY <3>1, <3>3, <2>1, <1>1 DEF OrderInv, AgeInv, Sent
    <3> QED BY <3>2, <3>3, <2>1
  <2>4. AgeInv'
    BY <2>2, <2>3, <1>1, <1>2 DEF OrderInv, AgeInv
  <2>5. AccountInv'
    BY <2>2, <1>1, <1>2 DEF OrderInv, AccountInv
  <2> QED BY <2>4, <2>5, <1>1 DEF OrderInv
<1>3. CASE dropped' = dropped \cup {item.seq} /\ UNCHANGED mailbox
  <2>1. Sent' = Sent /\ dropped' = dropped \cup Held
    BY <1>3, <1>1 DEF Sent
  <2>2. item.seq \notin Sent /\ item.seq \notin Waiting
    BY <1>1, PlaceTypes DEF OrderInv, AgeInv
  <2>3. AgeInv'
    BY <2>1, <2>2, <1>1, <1>3 DEF OrderInv, AgeInv
  <2>4. AccountInv'
    BY <2>1, <1>1, <1>3 DEF OrderInv, AccountInv
  <2> QED BY <2>3, <2>4, <1>1 DEF OrderInv
<1> QED BY <1>2, <1>3 DEF PostResult

\* A task is posted.
LEMMA PostStep ==
  ASSUME IInv, OrderInv, NEW kind \in Kinds, BackendPost(kind), IInv'
  PROVE  OrderInv'
<1> DEFINE n == Len(g_queue)
           t == [seq |-> g_seq', kind |-> kind,
                 owner |-> IF kind = "sizes" THEN g_latest_list_seq ELSE 0]
<1>0. g_seq \in 0..MaxSeq /\ g_seq < MaxSeq /\ MaxSeq \in Nat
      /\ g_latest_list_seq \in 0..MaxSeq /\ g_seq' = g_seq + 1
  BY BackendAssumption DEF IInv, TypeOK, SharedTypes, BackendPost
<1>1. t \in Task /\ t.seq = g_seq + 1
  BY <1>0 DEF Task
<1>2. g_queue' = Append(g_queue, t)
  BY DEF BackendPost
<1> HIDE DEF t
<1>3. /\ n \in Nat /\ Len(g_queue') = n + 1 /\ g_queue'[n + 1] = t
      /\ \A i \in 1..n : g_queue'[i] = g_queue[i]
  BY <1>1, <1>2, PlaceTypes, AppendFacts
<1>4. Waiting' = Waiting \cup {g_seq + 1}
  <2>1. \A i \in 1..n + 1 : i = n + 1 \/ i \in 1..n
    BY <1>3
  <2>2. n + 1 \in 1..n + 1 /\ \A i \in 1..n : i \in 1..n + 1
    BY <1>3
  <2>3. Waiting' = {g_queue'[i].seq : i \in 1..n + 1}
    BY <1>3 DEF Waiting
  <2> QED BY <1>1, <1>3, <2>1, <2>2, <2>3 DEF Waiting
<1>5. UNCHANGED <<mailbox, dropped, item, bpc, ret>>
  BY DEF BackendPost, backend, gui
<1>6. Sent' = Sent /\ Held' = Held /\ dropped' = dropped
  BY <1>5 DEF Sent, Held
<1>7. HoldsInv'
  BY <1>5 DEF OrderInv, HoldsInv
<1>8. \A x \in Sent \cup Held \cup Waiting \cup dropped : x \in Nat /\ x < g_seq + 1
  BY <1>0 DEF OrderInv, AccountInv
<1>9. \A i, j \in 1..Len(g_queue') : i < j => g_queue'[i].seq < g_queue'[j].seq
  <2> SUFFICES ASSUME NEW i \in 1..n + 1, NEW j \in 1..n + 1, i < j
               PROVE  g_queue'[i].seq < g_queue'[j].seq
    BY <1>3
  <2>1. i \in 1..n /\ g_queue[i].seq \in Waiting
    BY <1>3 DEF Waiting
  <2>2. CASE j \in 1..n
    BY <2>1, <2>2, <1>3 DEF OrderInv, AgeInv
  <2>3. CASE j = n + 1
    BY <2>1, <2>3, <1>1, <1>3, <1>8
  <2> QED BY <2>2, <2>3, <1>3
<1>10. AgeInv'
  <2>1. /\ \A s \in Sent \cup Held : s < g_seq + 1
        /\ g_seq + 1 \notin dropped
    BY <1>8, <1>0
  <2>2. \A i, j \in 1..Len(mailbox') : i < j => mailbox'[i] < mailbox'[j]
    BY <1>5 DEF OrderInv, AgeInv
  <2> QED BY <2>1, <2>2, <1>4, <1>6, <1>9 DEF OrderInv, AgeInv
<1>11. AccountInv'
  <2>1. 1..g_seq' = (1..g_seq) \cup {g_seq + 1}
    BY <1>0
  <2> QED BY <2>1, <1>4, <1>6 DEF OrderInv, AccountInv
<1> QED BY <1>7, <1>10, <1>11 DEF OrderInv

\* backend_stop() discards the queue.
LEMMA DiscardStep ==
  ASSUME IInv, OrderInv, StopRequest
  PROVE  OrderInv'
<1>1. UNCHANGED <<mailbox, g_seq, item, bpc, ret>>
  BY DEF StopRequest, backend
<1>2. HoldsInv'
  BY <1>1 DEF OrderInv, HoldsInv
<1>3. CASE g_state = "stopped"
  <2>1. UNCHANGED <<g_queue, mailbox, dropped, g_seq, item>>
    BY <1>1, <1>3 DEF StopRequest
  <2> QED BY <2>1, <1>2, PlacesKept
<1>4. CASE g_state # "stopped"
  <2>1. g_queue' = <<>> /\ dropped' = dropped \cup {t.seq : t \in Elems(g_queue)}
    BY <1>4 DEF StopRequest
  <2>2. dropped' = dropped \cup Waiting
    BY <2>1 DEF Elems, Waiting
  <2>3. Waiting' = {} /\ Len(g_queue') = 0
    BY <2>1 DEF Waiting
  <2>4. Sent' = Sent /\ Held' = Held
    BY <1>1 DEF Sent, Held
  <2>5. Waiting \cap (Sent \cup Held) = {}
    <3>1. \A x \in Waiting : x \in Nat /\ ~(x < x)
      BY PlaceTypes
    <3> QED BY <3>1 DEF OrderInv, AgeInv
  <2>6. \A i, j \in 1..Len(mailbox') : i < j => mailbox'[i] < mailbox'[j]
    BY <1>1 DEF OrderInv, AgeInv
  <2>7. \A i, j \in 1..Len(g_queue') : i < j => g_queue'[i].seq < g_queue'[j].seq
    BY <2>3
  <2>8. AgeInv'
    BY <2>2, <2>3, <2>4, <2>5, <2>6, <2>7 DEF OrderInv, AgeInv
  <2>9. AccountInv'
    BY <2>2, <2>3, <2>4, <1>1 DEF OrderInv, AccountInv
  <2> QED BY <2>8, <2>9, <1>2 DEF OrderInv
<1> QED BY <1>3, <1>4

-----------------------------------------------------------------------------
\* No task is held in the initial state or posted yet.
LEMMA InitOrder == Init => OrderInv
<1> SUFFICES ASSUME Init PROVE OrderInv
  OBVIOUS
<1>1. Held = {} /\ Waiting = {} /\ Sent = {}
  BY DEF Init, Held, Waiting, Sent
<1>2. AgeInv
  BY <1>1 DEF Init, AgeInv
<1>3. AccountInv
  BY <1>1 DEF Init, AccountInv
<1>4. HoldsInv
  BY DEF Init, HoldsInv
<1> QED BY <1>2, <1>3, <1>4 DEF OrderInv

\* The steps that move no task: each keeps hold of the task it had.
LEMMA QuietStep ==
  ASSUME IInv, OrderInv,
         \/ MainInit \/ ServiceRequests \/ RunRequest \/ ResetCancel \/ Checkpoint
         \/ Chunk \/ MainFini \/ MainExit \/ BackendStart \/ BackendCancel
         \/ StopCancel \/ StopJoin \/ (\E c \in Callers : CallerStep(c))
         \/ UNCHANGED vars
  PROVE  OrderInv' /\ UNCHANGED <<g_queue, mailbox, dropped, g_seq, item>>
<1>1. UNCHANGED <<g_queue, mailbox, dropped, g_seq, item>>
  BY DEF MainInit, ServiceRequests, RunRequest, ResetCancel, Checkpoint, Chunk,
     MainFini, MainExit, BackendStart, BackendCancel, StopCancel, StopJoin,
     CallerStep, CallRefused, CallQueue, CallReturn, CallDone, CallAbandon,
     CallWithdraw, vars, shared, backend, gui, callers
<1>2. HoldsInv'
  <2>1. HoldsInv /\ ItemInv /\ BackendTypes /\ ThreadInv
    BY DEF OrderInv, IInv, TypeOK
  <2>2. CASE MainInit \/ ServiceRequests \/ RunRequest \/ ResetCancel
             \/ Checkpoint \/ Chunk \/ MainFini \/ MainExit
    BY <2>1, <2>2, <1>1 DEF HoldsInv, BackendTypes, MainInit, ServiceRequests,
       RunRequest, ResetCancel, Checkpoint, Chunk, MainFini, MainExit
  <2>3. CASE BackendStart \/ StopJoin
    BY <2>1, <2>3, <1>1 DEF HoldsInv, ThreadInv, BackendStart, StopJoin
  <2>4. CASE BackendCancel \/ StopCancel \/ (\E c \in Callers : CallerStep(c))
             \/ UNCHANGED vars
    <3>1. UNCHANGED <<bpc, ret>>
      BY <2>4 DEF BackendCancel, StopCancel, CallerStep, CallRefused, CallQueue,
         CallReturn, CallDone, CallAbandon, CallWithdraw, vars, backend
    <3> QED BY <2>1, <3>1, <1>1 DEF HoldsInv
  <2> QED BY <2>2, <2>3, <2>4
<1> QED BY <1>1, <1>2, PlacesKept

\* Waking up takes the oldest task, or none.
LEMMA WakeStep ==
  ASSUME IInv, OrderInv, MainWake
  PROVE  OrderInv' /\ UNCHANGED <<mailbox, dropped, g_seq>>
<1>1. item = NoTask /\ UNCHANGED <<mailbox, dropped, g_seq>>
  BY DEF OrderInv, HoldsInv, MainWake, gui
<1>2. CASE g_queue # <<>> /\ item' = Head(g_queue) /\ g_queue' = Tail(g_queue)
           /\ ret' = "reset"
  <2>1. HoldsInv'
    BY <1>2 DEF HoldsInv, MainWake
  <2> QED BY <1>1, <1>2, <2>1, TakeStep
<1>3. CASE UNCHANGED <<g_queue, item>>
  <2>1. HoldsInv'
    BY <1>1, <1>3 DEF HoldsInv
  <2> QED BY <1>1, <1>3, <2>1, PlacesKept
<1> QED BY <1>2, <1>3 DEF MainWake

\* The end of a task, with or without checkpoints.
LEMMA EndStep ==
  ASSUME IInv, OrderInv, RunShort \/ FinishLong
  PROVE  OrderInv' /\ item \in Task /\ PostResult /\ UNCHANGED <<g_queue, g_seq>>
<1>1. item \in Task
  BY DEF IInv, ItemInv, RunShort, FinishLong
<1>2. PostResult /\ UNCHANGED <<g_queue, g_seq>>
  BY DEF RunShort, FinishLong, shared
<1> QED BY <1>1, <1>2, ResultStep

\* Every step preserves the order.
LEMMA NextOrder == IInv /\ IInv' /\ OrderInv /\ [Next]_vars => OrderInv'
<1> SUFFICES ASSUME IInv, IInv', OrderInv, [Next]_vars PROVE OrderInv'
  OBVIOUS
<1>1. CASE MainWake
  BY <1>1, WakeStep
<1>2. CASE RunShort \/ FinishLong
  BY <1>2, EndStep
<1>3. CASE \E kind \in Kinds : BackendPost(kind)
  BY <1>3, PostStep
<1>4. CASE StopRequest
  BY <1>4, DiscardStep
<1> QED
  BY <1>1, <1>2, <1>3, <1>4, QuietStep DEF Next, BackendStep, GuiStep

\* The three places are kept in order of age and account for every task.
THEOREM Ordered == Spec => []OrderInv
<1>1. Spec => []IInv
  BY Invariance
<1> QED BY <1>1, InitOrder, NextOrder, PTL DEF Spec

-----------------------------------------------------------------------------
(* The order of results.                                                   *)

Increasing(s) == \A i, j \in 1..Len(s) : i < j => s[i] < s[j]

\* Concatenating an increasing sequence of older and one of newer tasks.
LEMMA ConcatFacts ==
  ASSUME NEW s \in Seq(Nat), NEW t \in Seq(Nat), Increasing(s), Increasing(t),
         \A x \in Elems(s), y \in Elems(t) : x < y
  PROVE  /\ s \o t \in Seq(Nat) /\ Increasing(s \o t)
         /\ Elems(s \o t) = Elems(s) \cup Elems(t)
<1> DEFINE u == s \o t
           m == Len(s)
           n == Len(t)
<1>1. /\ u \in Seq(Nat) /\ m \in Nat /\ n \in Nat /\ Len(u) = m + n
      /\ \A i \in 1..m + n : u[i] = IF i <= m THEN s[i] ELSE t[i - m]
  OBVIOUS
<1>2. /\ \A i \in 1..m : s[i] \in Elems(s) /\ s[i] \in Nat
      /\ \A i \in 1..n : t[i] \in Elems(t) /\ t[i] \in Nat
  BY DEF Elems
<1>3. /\ \A i \in 1..m + n : i <= m => i \in 1..m
      /\ \A i \in 1..m + n : ~(i <= m) => i - m \in 1..n
      /\ \A i \in 1..m : i \in 1..m + n /\ i <= m
      /\ \A i \in 1..n : i + m \in 1..m + n /\ ~(i + m <= m) /\ (i + m) - m = i
  BY <1>1
<1>4. Elems(u) = Elems(s) \cup Elems(t)
  <2>1. ASSUME NEW i \in 1..m + n PROVE u[i] \in Elems(s) \cup Elems(t)
    BY <1>1, <1>2, <1>3
  <2>2. ASSUME NEW i \in 1..m PROVE s[i] \in Elems(u)
    <3>1. i \in 1..Len(u) /\ u[i] = s[i]
      BY <1>1, <1>3
    <3> QED BY <3>1 DEF Elems
  <2>3. ASSUME NEW i \in 1..n PROVE t[i] \in Elems(u)
    <3>1. i + m \in 1..Len(u) /\ u[i + m] = t[i]
      BY <1>1, <1>3
    <3> QED BY <3>1 DEF Elems
  <2> QED BY <1>1, <2>1, <2>2, <2>3 DEF Elems
<1>5. ASSUME NEW i \in 1..m + n, NEW j \in 1..m + n, i < j
      PROVE  u[i] < u[j]
  <2>1. CASE j <= m
    BY <2>1, <1>5, <1>1, <1>3 DEF Increasing
  <2>2. CASE ~(i <= m)
    <3>1. i - m \in 1..n /\ j - m \in 1..n /\ i - m < j - m /\ ~(j <= m)
      BY <2>2, <1>5, <1>1, <1>3
    <3> QED BY <2>2, <3>1, <1>1 DEF Increasing
  <2>3. CASE i <= m /\ ~(j <= m)
    BY <2>3, <1>1, <1>2, <1>3
  <2> QED BY <2>1, <2>2, <2>3, <1>5, <1>1
<1> HIDE DEF u
<1> QED BY <1>1, <1>4, <1>5 DEF Increasing, u

\* The places in order of age make up the pipeline.
LEMMA PipelineOrdered ==
  ASSUME IInv, OrderInv
  PROVE  ResultsInOrder
<1> DEFINE h == IF item = NoTask THEN <<>> ELSE <<item.seq>>
           q == [i \in 1..Len(g_queue) |-> g_queue[i].seq]
<1>1. mailbox \in Seq(Nat) /\ Increasing(mailbox) /\ Elems(mailbox) = Sent
  <2>1. mailbox \in Seq(Nat)
    BY BackendAssumption DEF IInv, TypeOK, GuiTypes
  <2> QED BY <2>1 DEF OrderInv, AgeInv, Increasing, Elems, Sent
<1>2. h \in Seq(Nat) /\ Increasing(h) /\ Elems(h) = Held
  <2>1. CASE item = NoTask
    BY <2>1 DEF Increasing, Elems, Held
  <2>2. CASE item # NoTask
    <3>1. item.seq \in Nat /\ Held = {item.seq}
      BY <2>2, PlaceTypes DEF Held
    <3>2. h = <<item.seq>>
      BY <2>2
    <3>3. h \in Seq(Nat) /\ Len(h) = 1 /\ h[1] = item.seq
      BY <3>1, <3>2
    <3> HIDE DEF h
    <3> QED BY <3>1, <3>3 DEF Increasing, Elems
  <2> QED BY <2>1, <2>2
<1>3. q \in Seq(Nat) /\ Increasing(q) /\ Elems(q) = Waiting
  <2>1. /\ Len(g_queue) \in Nat
        /\ \A i \in 1..Len(g_queue) : g_queue[i].seq \in Nat
    BY PlaceTypes
  <2>2. /\ q \in Seq(Nat) /\ Len(q) = Len(g_queue)
        /\ \A i \in 1..Len(q) : q[i] = g_queue[i].seq
    BY <2>1
  <2> HIDE DEF q
  <2> QED BY <2>2 DEF OrderInv, AgeInv, Increasing, Elems, Waiting
<1> HIDE DEF h, q
<1>4. /\ mailbox \o h \in Seq(Nat) /\ Increasing(mailbox \o h)
      /\ Elems(mailbox \o h) = Sent \cup Held
  BY <1>1, <1>2, ConcatFacts DEF OrderInv, AgeInv
<1>5. /\ Increasing((mailbox \o h) \o q)
      /\ Elems((mailbox \o h) \o q) = (Sent \cup Held) \cup Waiting
  <2>1. \A x \in Sent \cup Held, y \in Waiting : x < y
    BY DEF OrderInv, AgeInv
  <2> HIDE DEF Increasing
  <2>2. \A x \in Elems(mailbox \o h), y \in Elems(q) : x < y
    BY <2>1, <1>3, <1>4
  <2> DEFINE a == mailbox \o h
  <2>3. a \in Seq(Nat) /\ Increasing(a) /\ Elems(a) = Sent \cup Held
        /\ \A x \in Elems(a), y \in Elems(q) : x < y
    BY <1>4, <2>2
  <2> HIDE DEF a
  <2>4. Increasing(a \o q) /\ Elems(a \o q) = Elems(a) \cup Elems(q)
    BY <2>3, <1>3, ConcatFacts
  <2> QED BY <2>3, <2>4, <1>3 DEF a
<1>6. Pipeline = (mailbox \o h) \o q
  BY DEF Pipeline, h, q
<1> QED
  BY <1>5, <1>6 DEF ResultsInOrder, Increasing, OrderInv, AgeInv, AccountInv

\* Results come back in the order of posting, each at most once, and no task
\* is lost track of (backend_post(), backend_main(), backend_stop()).
THEOREM InOrder == Spec => []ResultsInOrder
<1>1. IInv /\ OrderInv => ResultsInOrder
  BY PipelineOrdered
<1>2. Spec => []IInv
  BY Invariance
<1>3. Spec => []OrderInv
  BY Ordered
<1> QED BY <1>1, <1>2, <1>3, PTL

-----------------------------------------------------------------------------
(* The refinement.                                                         *)

\* What is open in the abstract queue is what is held or waiting.
LEMMA OpenIs ==
  ASSUME IInv, OrderInv
  PROVE  GuiView!Open = Held \cup Waiting
<1>1. GuiView!Answers = Sent
  BY DEF GuiView!Answers, Sent
<1>2. Sent \cap (Held \cup Waiting) = {}
  <2>1. \A s \in Sent : s \in Nat /\ ~(s < s)
    BY PlaceTypes
  <2> QED BY <2>1 DEF OrderInv, AgeInv
<1> QED BY <1>1, <1>2 DEF GuiView!Open, OrderInv, AgeInv, AccountInv

\* Answering or losing the result of the task at hand.
LEMMA EndRefines ==
  ASSUME IInv, OrderInv, item \in Task, PostResult, UNCHANGED <<g_queue, g_seq>>
  PROVE  GuiView!TQNext
<1>1. item # NoTask
  BY NoneAssumption
<1>2. Held = {item.seq} /\ item.seq \in GuiView!Open
  BY <1>1, OpenIs DEF Held
<1>3. \A t \in GuiView!Open : item.seq <= t
  <2>1. \A t \in Held \cup Waiting : t \in Nat
    BY PlaceTypes
  <2>2. \A t \in Waiting : item.seq < t
    BY <1>2 DEF OrderInv, AgeInv
  <2>3. item.seq \in Nat /\ \A t \in Held : t = item.seq
    BY <2>1, <1>2
  <2>4. \A t \in Held \cup Waiting : item.seq <= t
    BY <2>1, <2>2, <2>3
  <2> QED BY <2>4, OpenIs
<1>4. CASE mailbox' = Append(mailbox, item.seq) /\ UNCHANGED dropped
  BY <1>2, <1>3, <1>4 DEF GuiView!TQNext, GuiView!Answer
<1>5. CASE dropped' = dropped \cup {item.seq} /\ UNCHANGED mailbox
  <2>1. {item.seq} \in SUBSET GuiView!Open
    BY <1>2
  <2> QED BY <2>1, <1>5 DEF GuiView!TQNext, GuiView!Discard
<1> QED BY <1>4, <1>5 DEF PostResult

\* Every step of the backend is a step of the abstract queue, or none.
LEMMA StepRefines ==
  ASSUME IInv, OrderInv, [Next]_vars
  PROVE  [GuiView!TQNext]_GuiView!tqvars
<1>1. CASE MainWake
  BY <1>1, WakeStep DEF GuiView!tqvars
<1>2. CASE RunShort \/ FinishLong
  BY <1>2, EndStep, EndRefines
<1>3. CASE \E kind \in Kinds : BackendPost(kind)
  BY <1>3 DEF BackendPost, gui, GuiView!TQNext, GuiView!Post
<1>4. CASE StopRequest
  <2>1. CASE g_state = "stopped"
    BY <2>1, <1>4 DEF StopRequest, GuiView!tqvars
  <2>2. CASE g_state # "stopped"
    <3>1. dropped' = dropped \cup Waiting /\ UNCHANGED <<mailbox, g_seq>>
      BY <2>2, <1>4 DEF StopRequest, Elems, Waiting
    <3>2. Waiting \in SUBSET GuiView!Open
      BY OpenIs
    <3> QED BY <3>1, <3>2 DEF GuiView!TQNext, GuiView!Discard
  <2> QED BY <2>1, <2>2
<1>5. CASE ~(MainWake \/ RunShort \/ FinishLong \/ StopRequest
             \/ \E kind \in Kinds : BackendPost(kind))
  <2>1. UNCHANGED <<mailbox, dropped, g_seq>>
    BY <1>5, QuietStep DEF Next, BackendStep, GuiStep
  <2> QED BY <2>1 DEF GuiView!tqvars
<1> QED BY <1>1, <1>2, <1>3, <1>4, <1>5

\* The GUI thread sees the in-order queue of TaskQueue, whatever the adapter
\* threads, backend_stop() and failing messages do (backend_post(),
\* backend_main(), backend_stop()).
THEOREM Refines == Spec => ImplementsTaskQueue
<1>1. Init => GuiView!TQInit
  BY DEF Init, GuiView!TQInit
<1>2. IInv /\ OrderInv /\ [Next]_vars => [GuiView!TQNext]_GuiView!tqvars
  BY StepRefines
<1>3. Spec => []IInv
  BY Invariance
<1>4. Spec => []OrderInv
  BY Ordered
<1> QED
  BY <1>1, <1>2, <1>3, <1>4, PTL DEF Spec, ImplementsTaskQueue, GuiView!TQSpec
=============================================================================
