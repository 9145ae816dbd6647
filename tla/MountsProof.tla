---------------------------- MODULE MountsProof ----------------------------
(***************************************************************************)
(* Proofs about the drive-letter mounts, for any number of addresses,      *)
(* letters and mounts.                                                     *)
(***************************************************************************)
EXTENDS Mounts, FiniteSetTheorems, TLAPS

Pcs == {"idle", "create", "poll", "publish", "recheck", "fail", "failjoin", "register",
        "exit", "join", "forget"}
Message == [at : Addrs, gen : 1..MaxMounts]

PickedOK ==
  picked # Nothing => picked.item \in DOMAIN picked.shown /\ picked.got \in 1..MaxMounts

\* The variables have their types.
TypeInv ==
  /\ mount \in [Addrs -> Mount \cup {Free}]
  /\ made \in 0..MaxMounts
  /\ table \in Seq(Addrs) /\ mask \in SUBSET Letters
  /\ queue \in Seq(Message)
  /\ gui \in [pc : {"idle"}] \cup [pc : Pcs \ {"idle"}, at : Addrs]
  /\ closing \in BOOLEAN /\ shared \in BOOLEAN
  /\ PickedOK
  /\ menu \in Seq(1..MaxMounts)
  /\ backend \in [pc : {"idle"}] \cup [pc : {"task"}, letter : Letters]
                 \cup [pc : {"checked"}, letter : Letters, knew : SUBSET (1..MaxMounts)]
                 \cup [pc : {"inside"}, gen : 1..MaxMounts, knew : SUBSET (1..MaxMounts)]

\* g_table holds mounts that exist, each once; the one being made is not in it
\* yet, the one being removed still is.
TableInv ==
  /\ \A i \in 1..Len(table) : mount[table[i]] # Free
  /\ \A i, j \in 1..Len(table) : table[i] = table[j] => i = j
  /\ ~At("idle") => mount[gui.at] # Free
  /\ gui.pc \in {"exit", "join", "forget"} => \E i \in 1..Len(table) : table[i] = gui.at
  /\ gui.pc \in Pcs \ {"idle", "exit", "join", "forget"} =>
       \A i \in 1..Len(table) : table[i] # gui.at

\* Incarnations are told apart by their numbers.
GenInv ==
  /\ \A a \in Addrs : mount[a] # Free => mount[a].gen <= made
  /\ \A a, b \in Addrs : mount[a] # Free /\ mount[a].gen = mount[b].gen => a = b

\* A message names the incarnation at its address, if there is one: an address
\* is used again only when the queue was empty.
QueueInv ==
  \A i \in 1..Len(queue) :
    mount[queue[i].at] # Free => queue[i].gen = mount[queue[i].at].gen

\* Until two mounts share a letter the mask covers g_table, and what the backend
\* thread saw there has other letters than the one it was asked for.
MaskInv ==
  ~shared =>
    /\ \A i \in 1..Len(table) : mount[table[i]].letter \in mask
    /\ \A i, j \in 1..Len(table) : mount[table[i]].letter = mount[table[j]].letter => i = j
    /\ backend.pc = "checked" =>
         \A a \in Addrs : mount[a] # Free /\ mount[a].gen \in backend.knew
           => mount[a].letter # backend.letter
KnewInv == backend.pc \in {"checked", "inside"} => \A g \in backend.knew : g <= made

\* g_table holds what an open menu shows, in its order, but for the mounts that
\* have left: none has moved back, and one has moved at all only if one before it
\* has left.
Stands(j) == \E k \in 1..Len(table) : mount[table[k]].gen = menu[j]
InPlace ==
  /\ \A k \in 1..Len(table) : \E j \in k..Len(menu) : menu[j] = mount[table[k]].gen
  /\ \A i \in 1..Len(menu) :
       (\A j \in 1..i : Stands(j)) => i <= Len(table) /\ mount[table[i]].gen = menu[i]

\* No mount is made while a menu is open; an item chosen is being unmounted; a
\* closing window has no menu.
MenuInv ==
  /\ closing => menu = <<>>
  /\ menu # <<>> => gui.pc \in {"idle", "exit", "join", "forget"} /\ InPlace
  /\ gui.pc \notin {"exit", "join", "forget"} => picked = Nothing
  /\ MenuUnmountsShown

\* The inductive invariant.
IInv ==
  /\ TypeInv /\ TableInv /\ GenInv /\ QueueInv /\ MaskInv /\ KnewInv
  /\ EntersNoKnownDrive /\ MenuInv

\* A step that keeps every mount at its address, with its number and letter.
SameMounts ==
  /\ mount' \in [Addrs -> Mount \cup {Free}]
  /\ \A b \in Addrs :
       /\ mount'[b] = Free <=> mount[b] = Free
       /\ mount[b] # Free => mount'[b].gen = mount[b].gen /\ mount'[b].letter = mount[b].letter

-----------------------------------------------------------------------------
(* Mounts and sequences.                                                   *)

\* An address holds a mount or is free.
LEMMA MountFacts ==
  ASSUME TypeInv, NEW a \in Addrs
  PROVE  /\ mount[a] # Free => mount[a] \in Mount /\ mount[a].gen \in 1..MaxMounts
                               /\ mount[a].letter \in Letters
         /\ mount[a] = Free => mount[a].gen = 0
BY DEF TypeInv, Mount, Free

\* A mount is replaced by one with the same number and letter.
LEMMA ChangeFacts ==
  ASSUME TypeInv, NEW a \in Addrs, mount[a] # Free, NEW m \in Mount,
         m.gen = mount[a].gen, m.letter = mount[a].letter,
         mount' = [mount EXCEPT ![a] = m]
  PROVE  SameMounts
<1>1. m # Free
  BY MountsAssumption DEF Mount, Free
<1>2. mount \in [Addrs -> Mount \cup {Free}]
  BY DEF TypeInv
<1>3. mount' \in [Addrs -> Mount \cup {Free}]
  BY <1>2
<1> QED BY <1>1, <1>2, <1>3 DEF SameMounts

\* Nothing happens to the mounts.
LEMMA UnchangedFacts ==
  ASSUME TypeInv, UNCHANGED mount
  PROVE  SameMounts
BY DEF TypeInv, SameMounts

\* The addresses in g_table are those at its positions.
LEMMA Positions ==
  ASSUME TypeInv
  PROVE  InTable = {table[i] : i \in 1..Len(table)}
<1>1. DOMAIN table = 1..Len(table)
  BY DEF TypeInv
<1> QED BY <1>1 DEF InTable

\* A sequence over a set has elements of the set at its positions.
LEMMA Element ==
  ASSUME NEW S, NEW s \in Seq(S)
  PROVE  \A i \in DOMAIN s : s[i] \in S
  OBVIOUS

\* One position is taken out of a sequence.
LEMMA RemoveAtFacts ==
  ASSUME NEW S, NEW s \in Seq(S), NEW i \in 1..Len(s)
  PROVE  /\ RemoveAt(s, i) \in Seq(S) /\ Len(s) \in Nat
         /\ Len(RemoveAt(s, i)) = Len(s) - 1
         /\ \A j \in 1..Len(s) - 1 : RemoveAt(s, i)[j] = IF j < i THEN s[j] ELSE s[j + 1]
<1> DEFINE p == SubSeq(s, 1, i - 1)
           q == SubSeq(s, i + 1, Len(s))
<1>1. Len(s) \in Nat /\ i \in Nat /\ i >= 1 /\ i <= Len(s)
  OBVIOUS
<1>2. p = [j \in 1..i - 1 |-> s[j]] /\ q = [j \in 1..Len(s) - i |-> s[i + j]]
  BY <1>1
<1>3. \A j \in 1..i - 1 : s[j] \in S
  BY <1>1
<1>4. \A j \in 1..Len(s) - i : s[i + j] \in S
  BY <1>1
<1>5. p \in Seq(S) /\ Len(p) = i - 1 /\ q \in Seq(S) /\ Len(q) = Len(s) - i
      /\ (\A j \in 1..i - 1 : p[j] = s[j]) /\ (\A j \in 1..Len(s) - i : q[j] = s[i + j])
  <2> HIDE DEF p, q
  <2> QED BY <1>1, <1>2, <1>3, <1>4
<1> HIDE DEF p, q
<1>6. p \o q \in Seq(S) /\ Len(p \o q) = Len(s) - 1
  <2>1. p \in Seq(S) /\ q \in Seq(S)
    BY <1>5
  <2>2. p \o q \in Seq(S) /\ Len(p \o q) = Len(p) + Len(q)
    BY <2>1
  <2> QED BY <1>1, <1>5, <2>2
<1>7. \A j \in 1..Len(s) - 1 : (p \o q)[j] = IF j < i THEN s[j] ELSE s[j + 1]
  <2> SUFFICES ASSUME NEW j \in 1..Len(s) - 1
               PROVE  (p \o q)[j] = IF j < i THEN s[j] ELSE s[j + 1]
    OBVIOUS
  <2>1. CASE j < i
    <3>1. (p \o q)[j] = p[j]
      BY <1>1, <1>5, <2>1
    <3> QED BY <1>1, <1>5, <2>1, <3>1
  <2>2. CASE ~(j < i)
    <3>1. (p \o q)[j] = q[j - Len(p)]
      BY <1>1, <1>5, <2>2
    <3>2. j - Len(p) \in 1..Len(s) - i /\ i + (j - Len(p)) = j + 1
      BY <1>1, <1>5, <2>2
    <3> QED BY <1>5, <2>2, <3>1, <3>2
  <2> QED BY <2>1, <2>2
<1> QED BY <1>1, <1>6, <1>7 DEF RemoveAt, p, q

\* Something is added at the end of a sequence.
LEMMA AppendFacts ==
  ASSUME NEW S, NEW s \in Seq(S), NEW e \in S
  PROVE  /\ Append(s, e) \in Seq(S) /\ Len(s) \in Nat /\ Len(Append(s, e)) = Len(s) + 1
         /\ \A i \in 1..Len(s) : Append(s, e)[i] = s[i]
         /\ Append(s, e)[Len(s) + 1] = e
  OBVIOUS

\* What the invariant says of mounts survives a step that keeps them all and
\* leaves the lists alone.
LEMMA MountsKept ==
  ASSUME IInv, SameMounts, UNCHANGED <<made, table, mask, menu, shared>>
  PROVE  /\ \A i \in 1..Len(table') : mount'[table'[i]] # Free
         /\ \A i, j \in 1..Len(table') : table'[i] = table'[j] => i = j
         /\ GenInv'
         /\ ~shared' =>
              /\ \A i \in 1..Len(table') : mount'[table'[i]].letter \in mask'
              /\ \A i, j \in 1..Len(table') :
                   mount'[table'[i]].letter = mount'[table'[j]].letter => i = j
         /\ InPlace => InPlace'
<1>1. \A i \in 1..Len(table) : table[i] \in Addrs
  BY DEF IInv, TypeInv
<1>2. \A i \in 1..Len(table) : mount[table[i]] # Free
  BY DEF IInv, TableInv
<1>3. GenInv'
  <2>1. \A a \in Addrs : mount'[a].gen = mount[a].gen
    BY MountFacts DEF IInv, SameMounts
  <2> QED BY <2>1 DEF IInv, GenInv, SameMounts
<1>4. InPlace => InPlace'
  <2>1. \A i \in 1..Len(table) : mount'[table[i]].gen = mount[table[i]].gen
    BY <1>1, <1>2 DEF SameMounts
  <2>2. \A j : Stands(j)' <=> Stands(j)
    BY <2>1 DEF Stands
  <2>3. ASSUME InPlace, NEW i \in 1..Len(menu), \A j \in 1..i : Stands(j)'
        PROVE  i <= Len(table) /\ mount'[table[i]].gen = menu[i]
    <3>1. i <= Len(table) /\ mount[table[i]].gen = menu[i]
      BY <2>2, <2>3 DEF InPlace
    <3>2. i \in 1..Len(table)
      BY <3>1 DEF IInv, TypeInv
    <3> QED BY <2>1, <3>1, <3>2
  <2> QED BY <2>1, <2>3 DEF InPlace
<1> QED BY <1>1, <1>2, <1>3, <1>4 DEF IInv, TableInv, MaskInv, SameMounts

\* Messages survive it too.
LEMMA QueueKept ==
  ASSUME IInv, SameMounts, UNCHANGED queue
  PROVE  QueueInv' /\ queue' \in Seq(Message)
<1>1. queue \in Seq(Message)
  BY DEF IInv, TypeInv
<1>2. \A i \in 1..Len(queue) : queue[i].at \in Addrs
  <2>1. \A i \in 1..Len(queue) : queue[i] \in Message
    BY <1>1
  <2> QED BY <2>1 DEF Message
<1> QED BY <1>1, <1>2 DEF IInv, QueueInv, SameMounts

\* A message of a mount that exists is added.
LEMMA QueueGrows ==
  ASSUME IInv, SameMounts, NEW a \in Addrs, mount[a] # Free, queue' = Append(queue, Gone(a))
  PROVE  QueueInv' /\ queue' \in Seq(Message)
<1>1. queue \in Seq(Message) /\ Len(queue) \in Nat
  BY DEF IInv, TypeInv
<1>2. Gone(a) \in Message /\ Gone(a).at = a /\ Gone(a).gen = mount[a].gen
  BY MountFacts DEF IInv, Gone, Message
<1> DEFINE g == Gone(a)
<1> HIDE DEF g
<1>3. /\ queue' \in Seq(Message) /\ Len(queue') = Len(queue) + 1
      /\ \A i \in 1..Len(queue) : queue'[i] = queue[i]
      /\ queue'[Len(queue) + 1] = Gone(a)
  BY <1>1, <1>2, AppendFacts
<1>4. \A i \in 1..Len(queue) : queue[i].at \in Addrs
  <2>1. \A i \in 1..Len(queue) : queue[i] \in Message
    BY <1>1
  <2> QED BY <2>1 DEF Message
<1>5. ASSUME NEW i \in 1..Len(queue), mount'[queue[i].at] # Free
      PROVE  queue[i].gen = mount'[queue[i].at].gen
  BY <1>4, <1>5 DEF IInv, QueueInv, SameMounts
<1>6. QueueInv'
  <2> SUFFICES ASSUME NEW i \in 1..Len(queue) + 1, mount'[queue'[i].at] # Free
               PROVE  queue'[i].gen = mount'[queue'[i].at].gen
    BY <1>3 DEF QueueInv
  <2>1. CASE i \in 1..Len(queue)
    BY <1>3, <1>5, <2>1
  <2>2. CASE i = Len(queue) + 1
    BY <1>2, <1>3, <2>2 DEF SameMounts
  <2> QED BY <1>1, <2>1, <2>2
<1> QED BY <1>3, <1>6

-----------------------------------------------------------------------------
(* Hosts and the backend thread.                                           *)

\* What the backend thread knows survives a step that keeps the mounts.
LEMMA BackendKept ==
  ASSUME IInv, SameMounts, UNCHANGED <<made, shared, backend>>
  PROVE  /\ KnewInv' /\ EntersNoKnownDrive'
         /\ ~shared' /\ backend'.pc = "checked" =>
              \A a \in Addrs : mount'[a] # Free /\ mount'[a].gen \in backend'.knew
                => mount'[a].letter # backend'.letter
BY DEF IInv, KnewInv, EntersNoKnownDrive, Stuck, MaskInv, SameMounts

\* A step of a host or of the backend thread that keeps the mounts.
LEMMA OtherStep ==
  ASSUME IInv, SameMounts, UNCHANGED <<made, table, mask, gui, closing, menu, picked,
                                       shared>>,
         queue' \in Seq(Message), QueueInv', KnewInv', EntersNoKnownDrive',
         ~shared' /\ backend'.pc = "checked" =>
           \A a \in Addrs : mount'[a] # Free /\ mount'[a].gen \in backend'.knew
             => mount'[a].letter # backend'.letter,
         backend' \in [pc : {"idle"}] \cup [pc : {"task"}, letter : Letters]
                 \cup [pc : {"checked"}, letter : Letters, knew : SUBSET (1..MaxMounts)]
                 \cup [pc : {"inside"}, gen : 1..MaxMounts, knew : SUBSET (1..MaxMounts)]
  PROVE  IInv'
<1>1. TypeInv'
  BY DEF IInv, TypeInv, PickedOK, SameMounts
<1>2. gui.pc # "idle" => gui.at \in Addrs
  BY DEF IInv, TypeInv
<1>3. TableInv'
  BY <1>2, MountsKept DEF IInv, TableInv, SameMounts, At
<1>4. GenInv' /\ MaskInv'
  BY MountsKept DEF MaskInv
<1>5. MenuInv'
  BY MountsKept DEF IInv, MenuInv, MenuUnmountsShown, At
<1> QED BY <1>1, <1>3, <1>4, <1>5 DEF IInv

\* A change of a mount's host, worker or callback.
LEMMA HostChanges ==
  ASSUME IInv, NEW a \in Addrs, mount[a] # Free,
         \/ mount' = [mount EXCEPT ![a].live = "live"]
         \/ mount' = [mount EXCEPT ![a].live = "ended"]
         \/ mount' = [mount EXCEPT ![a].callback = TRUE]
         \/ mount' = [mount EXCEPT ![a].callback = FALSE]
         \/ mount' = [mount EXCEPT ![a].worker = "signalled", ![a].finished = TRUE]
         \/ mount' = [mount EXCEPT ![a].worker = "done"]
         \/ mount' = [mount EXCEPT ![a].published = TRUE]
         \/ mount' = [mount EXCEPT ![a].published = FALSE]
         \/ mount' = [mount EXCEPT ![a].asked = TRUE]
         \/ mount' = [mount EXCEPT ![a].published = FALSE, ![a].asked = TRUE]
  PROVE  SameMounts
<1> DEFINE m == mount'[a]
<1>1. mount \in [Addrs -> Mount \cup {Free}] /\ mount[a] \in Mount
  BY MountFacts DEF IInv, TypeInv
<1>2. m \in Mount /\ m.gen = mount[a].gen /\ m.letter = mount[a].letter
  <2>1. \/ m = [mount[a] EXCEPT !.live = "live"]
        \/ m = [mount[a] EXCEPT !.live = "ended"]
        \/ m = [mount[a] EXCEPT !.callback = TRUE]
        \/ m = [mount[a] EXCEPT !.callback = FALSE]
        \/ m = [mount[a] EXCEPT !.worker = "signalled", !.finished = TRUE]
        \/ m = [mount[a] EXCEPT !.worker = "done"]
        \/ m = [mount[a] EXCEPT !.published = TRUE]
        \/ m = [mount[a] EXCEPT !.published = FALSE]
        \/ m = [mount[a] EXCEPT !.asked = TRUE]
        \/ m = [mount[a] EXCEPT !.published = FALSE, !.asked = TRUE]
    BY <1>1
  <2> HIDE DEF m
  <2>2. CASE \/ m = [mount[a] EXCEPT !.live = "live"]
             \/ m = [mount[a] EXCEPT !.live = "ended"]
             \/ m = [mount[a] EXCEPT !.worker = "done"]
    BY <1>1, <2>2 DEF Mount
  <2>3. CASE \/ m = [mount[a] EXCEPT !.callback = TRUE]
             \/ m = [mount[a] EXCEPT !.callback = FALSE]
    BY <1>1, <2>3 DEF Mount
  <2>4. CASE m = [mount[a] EXCEPT !.worker = "signalled", !.finished = TRUE]
    BY <1>1, <2>4 DEF Mount
  <2>5. CASE \/ m = [mount[a] EXCEPT !.published = TRUE]
             \/ m = [mount[a] EXCEPT !.published = FALSE]
    BY <1>1, <2>5 DEF Mount
  <2>6. CASE m = [mount[a] EXCEPT !.asked = TRUE]
    BY <1>1, <2>6 DEF Mount
  <2>7. CASE m = [mount[a] EXCEPT !.published = FALSE, !.asked = TRUE]
    BY <1>1, <2>7 DEF Mount
  <2> QED BY <2>1, <2>2, <2>3, <2>4, <2>5, <2>6, <2>7
<1>3. mount' = [mount EXCEPT ![a] = m]
  BY <1>1
<1> HIDE DEF m
<1>4. PICK n : n = m
  OBVIOUS
<1> QED BY <1>2, <1>3, <1>4, ChangeFacts DEF IInv

\* Every step of a host.
LEMMA HostSteps ==
  ASSUME IInv, NEW a \in Addrs, HostStep(a)
  PROVE  IInv'
<1>1. mount[a] # Free
  BY DEF HostStep
<1>2. UNCHANGED <<made, table, mask, gui, closing, menu, picked, backend, shared>>
  BY DEF HostStep, HostUp, HostEjected, HostExits, HostEnds, CallbackBegins, LoopReturns,
     WorkerReports
<1>3. queue' = queue \/ queue' = Append(queue, Gone(a))
  BY DEF HostStep, HostUp, HostEjected, HostExits, HostEnds, CallbackBegins, LoopReturns,
     WorkerReports
<1>4. \/ mount' = [mount EXCEPT ![a].live = "live"]
      \/ mount' = [mount EXCEPT ![a].live = "ended"]
      \/ mount' = [mount EXCEPT ![a].callback = TRUE]
      \/ mount' = [mount EXCEPT ![a].worker = "signalled", ![a].finished = TRUE]
      \/ mount' = [mount EXCEPT ![a].worker = "done"]
  BY DEF HostStep, HostUp, HostEjected, HostExits, HostEnds, CallbackBegins, LoopReturns,
     WorkerReports
<1>5. SameMounts
  BY <1>1, <1>4, HostChanges
<1>6. QueueInv' /\ queue' \in Seq(Message)
  BY <1>1, <1>3, <1>5, QueueKept, QueueGrows
<1>7. backend' \in [pc : {"idle"}] \cup [pc : {"task"}, letter : Letters]
                 \cup [pc : {"checked"}, letter : Letters, knew : SUBSET (1..MaxMounts)]
                 \cup [pc : {"inside"}, gen : 1..MaxMounts, knew : SUBSET (1..MaxMounts)]
  BY <1>2 DEF IInv, TypeInv
<1> QED BY <1>2, <1>5, <1>6, <1>7, BackendKept, OtherStep

\* A callback is served.
LEMMA BackendServesStep ==
  ASSUME IInv, NEW a \in Addrs, BackendServes(a)
  PROVE  IInv'
<1>1. /\ mount[a] # Free /\ mount' = [mount EXCEPT ![a].callback = FALSE]
      /\ UNCHANGED <<made, table, mask, queue, gui, closing, menu, picked, backend, shared>>
  BY DEF BackendServes, Calls, InUse
<1>2. SameMounts
  BY <1>1, HostChanges
<1>3. backend' \in [pc : {"idle"}] \cup [pc : {"task"}, letter : Letters]
                 \cup [pc : {"checked"}, letter : Letters, knew : SUBSET (1..MaxMounts)]
                 \cup [pc : {"inside"}, gen : 1..MaxMounts, knew : SUBSET (1..MaxMounts)]
  BY <1>1 DEF IInv, TypeInv
<1> QED BY <1>1, <1>2, <1>3, QueueKept, BackendKept, OtherStep

\* A file is to be added.
LEMMA AddTakeStep ==
  ASSUME IInv, NEW l \in Letters, AddTake(l)
  PROVE  IInv'
<1>1. /\ backend' = [pc |-> "task", letter |-> l]
      /\ UNCHANGED <<mount, made, table, mask, queue, gui, closing, menu, picked, shared>>
  BY DEF AddTake
<1>2. SameMounts
  BY <1>1, UnchangedFacts DEF IInv
<1>3. KnewInv' /\ EntersNoKnownDrive' /\ backend'.pc # "checked"
  BY <1>1 DEF KnewInv, EntersNoKnownDrive, Stuck
<1> QED BY <1>1, <1>2, <1>3, QueueKept, OtherStep

\* The mask is read: no mount of g_table has the letter.
LEMMA AddCheckStep ==
  ASSUME IInv, AddCheck
  PROVE  IInv'
<1> DEFINE seen == {mount[a].gen : a \in InTable}
<1>1. /\ backend.pc = "task"
      /\ UNCHANGED <<mount, made, table, mask, queue, gui, closing, menu, picked, shared>>
  BY DEF AddCheck
<1>2. backend.letter \in Letters
  BY <1>1 DEF IInv, TypeInv
<1>3. SameMounts
  BY <1>1, UnchangedFacts DEF IInv
<1>4. CASE backend' = [pc |-> "idle"]
  <2>1. KnewInv' /\ EntersNoKnownDrive' /\ backend'.pc # "checked"
    BY <1>4 DEF KnewInv, EntersNoKnownDrive, Stuck
  <2> QED BY <1>1, <1>3, <1>4, <2>1, QueueKept, OtherStep
<1>5. CASE /\ backend.letter \notin mask
           /\ backend' = [pc |-> "checked", letter |-> backend.letter, knew |-> seen]
  <2>1. \A i \in 1..Len(table) : table[i] \in Addrs /\ mount[table[i]] # Free
    BY DEF IInv, TypeInv, TableInv
  <2>2. InTable = {table[i] : i \in 1..Len(table)}
    BY DEF IInv, TypeInv, InTable
  <2>3. \A a \in InTable : \E i \in 1..Len(table) : a = table[i]
    BY <2>2
  <2>4. seen \subseteq 1..MaxMounts /\ \A g \in seen : g <= made
    BY <2>1, <2>3, MountFacts DEF IInv, GenInv
  <2>5. ASSUME ~shared, NEW a \in Addrs, mount[a] # Free, mount[a].gen \in seen
        PROVE  mount[a].letter # backend.letter
    <3>1. PICK b \in InTable : mount[a].gen = mount[b].gen
      BY <2>5
    <3>2. PICK i \in 1..Len(table) : b = table[i]
      BY <2>3
    <3>3. a = b
      BY <2>1, <2>5, <3>1, <3>2 DEF IInv, GenInv
    <3> QED BY <1>5, <2>5, <3>2, <3>3 DEF IInv, MaskInv
  <2> HIDE DEF seen
  <2>6. /\ backend'.pc = "checked" /\ backend'.knew = seen /\ backend'.letter = backend.letter
        /\ backend' \in [pc : {"checked"}, letter : Letters, knew : SUBSET (1..MaxMounts)]
    BY <1>2, <1>5, <2>4
  <2>7. KnewInv' /\ EntersNoKnownDrive'
    BY <1>1, <2>4, <2>6 DEF KnewInv, EntersNoKnownDrive, Stuck
  <2>8. ~shared' => \A a \in Addrs : mount'[a] # Free /\ mount'[a].gen \in backend'.knew
             => mount'[a].letter # backend'.letter
    BY <1>1, <2>5, <2>6
  <2>9. QueueInv' /\ queue' \in Seq(Message)
    BY <1>1, <1>3, QueueKept
  <2> QED BY <1>1, <1>3, <2>6, <2>7, <2>8, <2>9, OtherStep
<1> QED BY <1>4, <1>5 DEF AddCheck

\* The file is opened: on none of the drives that were in g_table.
LEMMA AddOpenStep ==
  ASSUME IInv, AddOpen
  PROVE  IInv'
<1>1. /\ backend.pc = "checked"
      /\ UNCHANGED <<made, table, mask, queue, gui, closing, menu, picked, shared>>
  BY DEF AddOpen
<1>2. CASE backend' = [pc |-> "idle"] /\ UNCHANGED mount
  <2>1. SameMounts
    BY <1>2, UnchangedFacts DEF IInv
  <2>2. KnewInv' /\ EntersNoKnownDrive' /\ backend'.pc # "checked"
    BY <1>2 DEF KnewInv, EntersNoKnownDrive, Stuck
  <2> QED BY <1>1, <1>2, <2>1, <2>2, QueueKept, OtherStep
<1>3. ASSUME NEW a \in LiveAt(backend.letter),
             backend' = [pc |-> "inside", gen |-> mount[a].gen, knew |-> backend.knew],
             mount' = [mount EXCEPT ![a].callback = TRUE]
      PROVE  IInv'
  <2>1. a \in Addrs /\ mount[a] # Free /\ mount[a].letter = backend.letter
    BY DEF LiveAt, InUse
  <2>2. SameMounts
    BY <1>3, <2>1, HostChanges
  <2>3. backend.knew \in SUBSET (1..MaxMounts)
    BY <1>1 DEF IInv, TypeInv
  <2>4. mount[a].gen \in 1..MaxMounts
    BY <2>1, MountFacts DEF IInv
  <2>5. /\ backend'.pc = "inside" /\ backend'.gen = mount[a].gen /\ backend'.knew = backend.knew
        /\ backend' \in [pc : {"inside"}, gen : 1..MaxMounts, knew : SUBSET (1..MaxMounts)]
    BY <1>3, <2>3, <2>4
  <2>6. ~shared => mount[a].gen \notin backend.knew
    BY <1>1, <2>1 DEF IInv, MaskInv
  <2>7. KnewInv' /\ EntersNoKnownDrive'
    BY <1>1, <2>5, <2>6 DEF IInv, KnewInv, EntersNoKnownDrive, Stuck
  <2>8. QueueInv' /\ queue' \in Seq(Message)
    BY <1>1, <2>2, QueueKept
  <2> QED BY <1>1, <2>2, <2>5, <2>7, <2>8, OtherStep
<1> QED BY <1>2, <1>3 DEF AddOpen

-----------------------------------------------------------------------------
(* The GUI thread.                                                         *)

\* The states of the GUI thread in which a mount is made, or removed.
Making == Pcs \ {"idle", "exit", "join", "forget"}
Removing == {"exit", "join", "forget"}

\* The GUI thread goes on with the mount it works on.
LEMMA GuiMoves ==
  ASSUME IInv, SameMounts, gui.pc # "idle",
         NEW p \in Pcs, gui' = [pc |-> p, at |-> gui.at],
         \/ gui.pc \in Making /\ p \in Making
         \/ gui.pc \in Removing /\ p \in Removing,
         UNCHANGED <<made, table, mask, queue, closing, menu, picked, backend, shared>>
  PROVE  IInv'
<1>1. gui.at \in Addrs /\ gui'.pc = p /\ gui'.at = gui.at /\ p # "idle"
  BY DEF IInv, TypeInv, Making, Removing
<1>2. gui' \in [pc : Pcs \ {"idle"}, at : Addrs]
  BY <1>1
<1>3. QueueInv' /\ queue' \in Seq(Message)
  BY QueueKept
<1>4. TypeInv'
  BY <1>2, <1>3 DEF IInv, TypeInv, PickedOK, SameMounts
<1>5. TableInv'
  BY <1>1, MountsKept DEF IInv, TableInv, SameMounts, At, Making, Removing
<1>6. GenInv' /\ MaskInv' /\ KnewInv' /\ EntersNoKnownDrive'
  BY MountsKept, BackendKept DEF MaskInv
<1>7. MenuInv'
  <2>1. InPlace => InPlace'
    BY MountsKept
  <2> QED BY <1>1, <2>1 DEF IInv, MenuInv, MenuUnmountsShown, Making, Removing
<1> QED BY <1>3, <1>4, <1>5, <1>6, <1>7 DEF IInv

\* The steps of making and removing that keep the mount.
LEMMA GuiWorks ==
  ASSUME IInv, NEW a, a = gui.at, ~At("idle"),
         \/ CreateReturns(a) \/ Poll(a) \/ Publish(a) \/ Recheck(a) \/ Fail(a)
         \/ Exit(a) \/ Join(a)
  PROVE  IInv'
<1> USE DEF At, Goto
<1>1. a \in Addrs /\ mount[a] # Free
  BY DEF IInv, TypeInv, TableInv
<1>2. UNCHANGED <<made, table, mask, queue, closing, menu, picked, backend, shared>>
  BY DEF CreateReturns, Poll, Publish, Recheck, Fail, Exit, Join
<1>3. SameMounts
  BY <1>1, HostChanges, UnchangedFacts
  DEF IInv, CreateReturns, Poll, Publish, Recheck, Fail, Exit, Join
<1>4. \E p \in Pcs : /\ gui' = [pc |-> p, at |-> a]
                     /\ \/ gui.pc \in Making /\ p \in Making
                        \/ gui.pc \in Removing /\ p \in Removing
  BY DEF CreateReturns, Poll, Publish, Recheck, Fail, Exit, Join, Pcs, Making, Removing
<1> QED BY <1>1, <1>2, <1>3, <1>4, GuiMoves

\* A mount that is not in g_table is given up.
LEMMA GivesUp ==
  ASSUME IInv, NEW a, a = gui.at, CreateFails(a) \/ FailJoin(a)
  PROVE  IInv'
<1> USE DEF At, Idle
<1>1. /\ gui.pc \in Making /\ gui' = [pc |-> "idle"] /\ mount' = [mount EXCEPT ![a] = Free]
      /\ UNCHANGED <<made, table, mask, queue, closing, menu, picked, backend, shared>>
  BY DEF CreateFails, FailJoin, Making, Pcs
<1>2. a \in Addrs /\ gui.pc # "idle"
  BY <1>1 DEF IInv, TypeInv, Making
<1>3. \A i \in 1..Len(table) : table[i] \in Addrs /\ table[i] # a
  BY <1>1 DEF IInv, TypeInv, TableInv, Making
<1>4. /\ mount' \in [Addrs -> Mount \cup {Free}] /\ mount'[a] = Free
      /\ \A b \in Addrs \ {a} : mount'[b] = mount[b]
  BY <1>1, <1>2 DEF IInv, TypeInv
<1>5. TypeInv'
  BY <1>1, <1>4 DEF IInv, TypeInv, PickedOK
<1>6. TableInv'
  BY <1>1, <1>3, <1>4 DEF IInv, TableInv
<1>7. GenInv'
  <2>1. mount'[a].gen = 0 /\ \A b \in Addrs : mount[b] # Free => mount[b].gen # 0
    BY <1>4, MountFacts, MountsAssumption DEF IInv, Free
  <2> QED BY <1>1, <1>4, <2>1 DEF IInv, GenInv
<1>8. QueueInv'
  <2>1. \A i \in 1..Len(queue) : queue[i] \in Message
    BY DEF IInv, TypeInv
  <2>2. \A i \in 1..Len(queue) : queue[i].at \in Addrs
    BY <2>1 DEF Message
  <2> QED BY <1>1, <1>4, <2>2 DEF IInv, QueueInv
<1>9. MaskInv' /\ KnewInv' /\ EntersNoKnownDrive'
  BY <1>1, <1>3, <1>4 DEF IInv, MaskInv, KnewInv, EntersNoKnownDrive, Stuck
<1>10. MenuInv'
  BY <1>1, <1>2 DEF IInv, MenuInv, MenuUnmountsShown, Making
<1> QED BY <1>5, <1>6, <1>7, <1>8, <1>9, <1>10 DEF IInv

\* A new mount: the queue is empty, its number is new.
LEMMA MountStartStep ==
  ASSUME IInv, NEW a \in Addrs, NEW l \in Letters, NEW h \in {"winfsp", "dokan"},
         MountStart(a, l, h)
  PROVE  IInv'
<1> USE DEF At, Goto, Input
<1> DEFINE m == NewMount(l, h)
           p == IF h = "winfsp" THEN "poll" ELSE "create"
<1>1. /\ gui.pc = "idle" /\ queue = <<>> /\ menu = <<>> /\ made < MaxMounts /\ mount[a] = Free
      /\ mount' = [mount EXCEPT ![a] = m] /\ made' = made + 1 /\ gui' = [pc |-> p, at |-> a]
      /\ UNCHANGED <<table, mask, queue, closing, menu, picked, backend, shared>>
  BY DEF MountStart
<1>2. made' \in 1..MaxMounts /\ made \in Nat /\ made' = made + 1
  BY <1>1, MountsAssumption DEF IInv, TypeInv
<1>3. m \in Mount /\ m.gen = made + 1
  BY <1>1, <1>2 DEF NewMount, Mount
<1>4. m # Free
  BY <1>2, <1>3 DEF Free
<1>5. p \in Making /\ gui' \in [pc : Pcs \ {"idle"}, at : Addrs] /\ gui'.pc = p /\ gui'.at = a
  BY <1>1 DEF Making, Pcs
<1> HIDE DEF m, p
<1>6. /\ mount' \in [Addrs -> Mount \cup {Free}] /\ mount'[a] = m
      /\ \A b \in Addrs \ {a} : mount'[b] = mount[b]
  BY <1>1, <1>3 DEF IInv, TypeInv
<1>7. \A i \in 1..Len(table) : table[i] \in Addrs /\ table[i] # a
  BY <1>1 DEF IInv, TypeInv, TableInv
<1>8. TypeInv'
  <2>1. made' \in 0..MaxMounts
    BY <1>2
  <2> QED BY <1>1, <1>5, <1>6, <2>1 DEF IInv, TypeInv, PickedOK
<1>9. TableInv'
  BY <1>1, <1>4, <1>5, <1>6, <1>7 DEF IInv, TableInv, Making
<1>10. GenInv'
  <2>1. \A b \in Addrs : mount[b].gen \in Nat /\ mount[b].gen <= made
    BY <1>2, MountFacts, MountsAssumption DEF IInv, GenInv
  <2> QED BY <1>2, <1>3, <1>4, <1>6, <2>1 DEF IInv, GenInv
<1>11. QueueInv'
  BY <1>1 DEF QueueInv
<1>12. KnewInv' /\ EntersNoKnownDrive'
  <2>1. KnewInv'
    <3>1. backend.pc \in {"checked", "inside"} => \A g \in backend.knew : g \in Nat
      BY DEF IInv, TypeInv
    <3> QED BY <1>1, <1>2, <3>1 DEF IInv, KnewInv
  <2> QED BY <1>1, <2>1 DEF IInv, EntersNoKnownDrive, Stuck
<1>13. MaskInv'
  <2>1. backend.pc = "checked" => m.gen \notin backend.knew
    BY <1>2, <1>3 DEF IInv, KnewInv
  <2> QED BY <1>1, <1>6, <1>7, <2>1 DEF IInv, MaskInv
<1>14. MenuInv'
  BY <1>1, <1>5 DEF IInv, MenuInv, MenuUnmountsShown, Making
<1> QED BY <1>8, <1>9, <1>10, <1>11, <1>12, <1>13, <1>14 DEF IInv

\* A mount gets into g_table and its letter into the mask.
LEMMA RegisterStep ==
  ASSUME IInv, NEW a, a = gui.at, Register(a)
  PROVE  IInv'
<1> USE DEF At, Idle
<1>1. /\ gui.pc = "register" /\ gui' = [pc |-> "idle"] /\ mask' = mask \cup {mount[a].letter}
      /\ table' = Append(table, a)
      /\ UNCHANGED <<mount, made, queue, closing, menu, picked, backend>>
  BY DEF Register
<1>2. shared' \in BOOLEAN
      /\ (~shared' => ~shared /\ \A b \in InTable : mount[b].letter # mount[a].letter)
  BY DEF Register, IInv, TypeInv
<1>3. a \in Addrs /\ mount[a] # Free /\ \A i \in 1..Len(table) : table[i] # a
  BY <1>1 DEF IInv, TypeInv, TableInv, Pcs
<1>4. table \in Seq(Addrs) /\ Len(table) \in Nat /\ InTable = {table[i] : i \in 1..Len(table)}
  BY DEF IInv, TypeInv, InTable
<1>5. /\ table' \in Seq(Addrs) /\ Len(table') = Len(table) + 1
      /\ \A i \in 1..Len(table) : table'[i] = table[i]
      /\ table'[Len(table) + 1] = a
  BY <1>1, <1>3, <1>4, AppendFacts
<1>6. \A i \in 1..Len(table') : i \in 1..Len(table) \/ i = Len(table) + 1
  BY <1>4, <1>5
<1>7. TypeInv'
  <2>1. mask' \in SUBSET Letters
    BY <1>1, <1>3, MountFacts DEF IInv, TypeInv
  <2> QED BY <1>1, <1>2, <1>5, <2>1 DEF IInv, TypeInv, PickedOK
<1>8. TableInv'
  BY <1>1, <1>3, <1>5, <1>6 DEF IInv, TableInv
<1>9. GenInv' /\ QueueInv' /\ KnewInv'
  BY <1>1 DEF IInv, GenInv, QueueInv, KnewInv
<1>10. EntersNoKnownDrive'
  BY <1>1, <1>2 DEF IInv, EntersNoKnownDrive, Stuck
<1>11. MaskInv'
  <2> SUFFICES ASSUME ~shared' PROVE MaskInv'
    BY DEF MaskInv
  <2>1. \A i \in 1..Len(table) : mount[table[i]].letter # mount[a].letter
    BY <1>2, <1>4
  <2> QED BY <1>1, <1>2, <1>5, <1>6, <2>1 DEF IInv, MaskInv
<1>12. MenuInv'
  BY <1>1 DEF IInv, MenuInv, MenuUnmountsShown
<1> QED BY <1>7, <1>8, <1>9, <1>10, <1>11, <1>12 DEF IInv

\* A mount leaves g_table, the mask and its address.
LEMMA ForgetStep ==
  ASSUME IInv, NEW a, a = gui.at, Forget(a)
  PROVE  IInv'
<1> USE DEF At, Idle
<1>1. /\ gui.pc = "forget" /\ gui' = [pc |-> "idle"] /\ mask' = mask \ {mount[a].letter}
      /\ mount' = [mount EXCEPT ![a] = Free] /\ picked' = Nothing
      /\ UNCHANGED <<made, queue, closing, menu, backend, shared>>
  BY DEF Forget
<1>2. table \in Seq(Addrs) /\ Len(table) \in Nat /\ DOMAIN table = 1..Len(table) /\ a \in Addrs
  BY <1>1 DEF IInv, TypeInv
<1>3. PICK k \in 1..Len(table) : table[k] = a /\ table' = RemoveAt(table, k)
  <2>1. \E k \in DOMAIN table : table[k] = a /\ table' = RemoveAt(table, k)
    BY Zenon DEF Forget
  <2> QED BY <1>2, <2>1, Zenon
<1> DEFINE was(i) == IF i < k THEN i ELSE i + 1
<1>4. /\ table' \in Seq(Addrs) /\ Len(table') = Len(table) - 1
      /\ \A i \in 1..Len(table') : table'[i] = table[was(i)]
  <2> DEFINE t == RemoveAt(table, k)
  <2>1. /\ t \in Seq(Addrs) /\ Len(t) = Len(table) - 1
        /\ \A i \in 1..Len(table) - 1 : t[i] = IF i < k THEN table[i] ELSE table[i + 1]
    BY <1>2, RemoveAtFacts, Zenon
  <2>2. table' = t
    BY <1>3, Zenon
  <2> HIDE DEF t
  <2>3. \A i \in 1..Len(table) - 1 : t[i] = table[was(i)]
    BY <2>1
  <2> QED BY <2>1, <2>2, <2>3, Zenon
<1>5. \A i \in 1..Len(table') : was(i) \in 1..Len(table) /\ was(i) # k
  BY <1>2, <1>4
<1>6. \A i, j \in 1..Len(table') : was(i) = was(j) => i = j
  BY <1>2, <1>4
<1> HIDE DEF was
<1>7. \A i \in 1..Len(table') : table'[i] \in Addrs \ {a}
  BY <1>2, <1>3, <1>4, <1>5 DEF IInv, TableInv
<1>8. /\ mount' \in [Addrs -> Mount \cup {Free}] /\ mount'[a] = Free
      /\ \A b \in Addrs \ {a} : mount'[b] = mount[b]
  BY <1>1, <1>2 DEF IInv, TypeInv
<1>9. TypeInv'
  BY <1>1, <1>4, <1>8 DEF IInv, TypeInv, PickedOK
<1>10. TableInv'
  <2>1. \A i \in 1..Len(table') : mount'[table'[i]] # Free
    <3>1. \A i \in 1..Len(table') : mount[table[was(i)]] # Free
      BY <1>5 DEF IInv, TableInv
    <3> QED BY <1>4, <1>7, <1>8, <3>1
  <2>2. ASSUME NEW i \in 1..Len(table'), NEW j \in 1..Len(table'), table'[i] = table'[j]
        PROVE  i = j
    <3>1. table[was(i)] = table[was(j)] /\ was(i) \in 1..Len(table) /\ was(j) \in 1..Len(table)
      BY <1>4, <1>5, <2>2
    <3>2. was(i) = was(j)
      BY <3>1 DEF IInv, TableInv
    <3> QED BY <1>6, <3>2
  <2> QED BY <1>1, <2>1, <2>2 DEF TableInv
<1>11. GenInv'
  <2>1. mount'[a].gen = 0 /\ \A b \in Addrs : mount[b] # Free => mount[b].gen # 0
    BY <1>8, MountFacts, MountsAssumption DEF IInv, Free
  <2> QED BY <1>1, <1>8, <2>1 DEF IInv, GenInv
<1>12. QueueInv'
  <2>1. \A i \in 1..Len(queue) : queue[i] \in Message
    BY DEF IInv, TypeInv
  <2>2. \A i \in 1..Len(queue) : queue[i].at \in Addrs
    BY <2>1 DEF Message
  <2> QED BY <1>1, <1>8, <2>2 DEF IInv, QueueInv
<1>13. MaskInv'
  <2> SUFFICES ASSUME ~shared PROVE MaskInv'
    BY <1>1 DEF MaskInv
  <2>1. \A i \in 1..Len(table') : mount'[table'[i]] = mount[table[was(i)]]
    BY <1>4, <1>7, <1>8
  <2>2. \A i \in 1..Len(table') : mount'[table'[i]].letter \in mask'
    BY <1>1, <1>3, <1>5, <2>1 DEF IInv, MaskInv
  <2>3. \A i, j \in 1..Len(table') :
          mount'[table'[i]].letter = mount'[table'[j]].letter => i = j
    <3>1. ASSUME NEW i \in 1..Len(table'), NEW j \in 1..Len(table'),
                 mount'[table'[i]].letter = mount'[table'[j]].letter
          PROVE  i = j
      <4>1. mount[table[was(i)]].letter = mount[table[was(j)]].letter
        BY <2>1, <3>1
      <4>2. was(i) \in 1..Len(table) /\ was(j) \in 1..Len(table)
        BY <1>5
      <4>3. was(i) = was(j)
        BY <4>1, <4>2 DEF IInv, MaskInv
      <4> QED BY <1>6, <4>3
    <3> QED BY <3>1
  <2> QED BY <1>1, <1>8, <2>2, <2>3 DEF IInv, MaskInv
<1>14. KnewInv' /\ EntersNoKnownDrive'
  BY <1>1 DEF IInv, KnewInv, EntersNoKnownDrive, Stuck
<1>15. MenuInv'
  <2> SUFFICES ASSUME menu # <<>> PROVE InPlace'
    BY <1>1 DEF IInv, MenuInv, MenuUnmountsShown
  <2>1. InPlace /\ menu \in Seq(1..MaxMounts) /\ Len(menu) \in Nat
    BY DEF IInv, MenuInv, TypeInv
  <2>2. \A i \in 1..Len(table') : mount'[table'[i]].gen = mount[table[was(i)]].gen
    BY <1>4, <1>7, <1>8
  <2>3. \A p \in 1..Len(table') : \E j \in p..Len(menu) : menu[j] = mount'[table'[p]].gen
    <3>1. ASSUME NEW k0 \in 1..Len(table')
          PROVE  \E j \in k0..Len(menu) : menu[j] = mount'[table'[k0]].gen
      <4>1. was(k0) \in 1..Len(table) /\ was(k0) \in k0..k0 + 1
        BY <1>5 DEF was
      <4>2. PICK j \in was(k0)..Len(menu) : menu[j] = mount[table[was(k0)]].gen
        BY <2>1, <4>1 DEF InPlace
      <4>3. j \in k0..Len(menu)
        BY <4>1, <4>2
      <4> QED BY <2>2, <4>2, <4>3
    <3> QED BY <3>1
  <2>4. \A j : Stands(j)' => Stands(j) /\ menu[j] # mount[a].gen
    <3>1. ASSUME NEW j, Stands(j)' PROVE Stands(j) /\ menu[j] # mount[a].gen
      <4>1. PICK i \in 1..Len(table') : mount'[table'[i]].gen = menu[j]
        BY <1>1, <3>1 DEF Stands
      <4>2. mount[table[was(i)]].gen = menu[j] /\ was(i) \in 1..Len(table)
        BY <1>5, <2>2, <4>1
      <4>3. table[was(i)] \in Addrs \ {a} /\ mount[table[was(i)]] # Free
        BY <1>4, <1>7, <4>2 DEF IInv, TableInv
      <4>4. mount[a].gen # menu[j]
        BY <1>2, <4>2, <4>3 DEF IInv, GenInv
      <4> QED BY <4>2, <4>4 DEF Stands
    <3> QED BY <3>1
  <2>5. ASSUME NEW i \in 1..Len(menu), \A j \in 1..i : Stands(j)'
        PROVE  i <= Len(table') /\ mount'[table'[i]].gen = menu[i]
    <3>1. \A j \in 1..i : j <= Len(table) /\ mount[table[j]].gen = menu[j]
      BY <2>1, <2>4, <2>5 DEF InPlace
    <3>2. i < k
      <4>1. SUFFICES ASSUME k <= i PROVE FALSE
        BY <1>2
      <4>2. mount[table[k]].gen = menu[k] /\ k \in 1..i
        BY <1>2, <3>1, <4>1
      <4> QED BY <1>3, <2>4, <2>5, <4>2
    <3>3. i \in 1..Len(table') /\ was(i) = i
      BY <1>2, <1>4, <3>2 DEF was
    <3> QED BY <2>2, <3>1, <3>3
  <2> QED BY <1>1, <2>3, <2>5 DEF InPlace
<1> QED BY <1>9, <1>10, <1>11, <1>12, <1>13, <1>14, <1>15 DEF IInv

\* The GUI thread begins to remove a mount of g_table.
LEMMA RemovalBegins ==
  ASSUME IInv, gui.pc = "idle", NEW i \in 1..Len(table), gui' = [pc |-> "exit", at |-> table[i]],
         UNCHANGED <<mount, made, table, mask, closing, backend, shared>>,
         queue' \in Seq(Message), QueueInv', menu' \in {menu, <<>>}, PickedOK',
         MenuUnmountsShown', closing' => menu' = <<>>
  PROVE  IInv'
<1>1. table[i] \in Addrs /\ mount[table[i]] # Free
  BY DEF IInv, TypeInv, TableInv
<1>2. gui'.pc = "exit" /\ gui'.at = table[i] /\ gui' \in [pc : Pcs \ {"idle"}, at : Addrs]
  BY <1>1 DEF Pcs
<1>3. TypeInv'
  <2>1. menu \in Seq(1..MaxMounts) /\ <<>> \in Seq(1..MaxMounts)
    BY DEF IInv, TypeInv
  <2>2. menu' \in Seq(1..MaxMounts)
    BY <2>1, Zenon
  <2> QED BY <1>2, <2>2 DEF IInv, TypeInv
<1>4. TableInv'
  BY <1>1, <1>2 DEF IInv, TableInv, At
<1>5. GenInv' /\ MaskInv' /\ KnewInv' /\ EntersNoKnownDrive'
  BY DEF IInv, GenInv, MaskInv, KnewInv, EntersNoKnownDrive, Stuck
<1>6. MenuInv'
  <2>1. menu' # <<>> => InPlace'
    BY DEF IInv, MenuInv, InPlace, Stands
  <2> QED BY <1>2, <2>1 DEF MenuInv
<1> QED BY <1>3, <1>4, <1>5, <1>6 DEF IInv

\* A message is taken from the queue.
LEMMA QueueShrinks ==
  ASSUME IInv, queue # <<>>, queue' = Tail(queue), UNCHANGED mount
  PROVE  QueueInv' /\ queue' \in Seq(Message)
<1>1. /\ queue \in Seq(Message) /\ Len(queue) \in Nat /\ Len(queue) > 0
      /\ queue' \in Seq(Message) /\ Len(queue') = Len(queue) - 1
      /\ \A i \in 1..Len(queue') : queue'[i] = queue[i + 1] /\ i + 1 \in 1..Len(queue)
  BY DEF IInv, TypeInv
<1> QED BY <1>1 DEF IInv, QueueInv

\* The GUI thread stays idle and the mounts and lists as they are.
LEMMA StaysIdle ==
  ASSUME IInv, UNCHANGED <<mount, made, table, mask, gui, picked, backend, shared>>,
         queue' \in Seq(Message), QueueInv', menu' \in Seq(1..MaxMounts),
         closing' \in BOOLEAN, gui.pc = "idle",
         closing' => menu' = <<>>, menu' # <<>> => InPlace'
  PROVE  IInv'
<1>1. TypeInv'
  BY DEF IInv, TypeInv, PickedOK
<1>2. TableInv' /\ GenInv' /\ MaskInv' /\ KnewInv' /\ EntersNoKnownDrive'
  BY DEF IInv, TableInv, At, GenInv, MaskInv, KnewInv, EntersNoKnownDrive, Stuck
<1>3. MenuInv'
  BY DEF IInv, MenuInv, MenuUnmountsShown, At
<1> QED BY <1>1, <1>2, <1>3 DEF IInv

\* A report is handled, perhaps with a menu open.
LEMMA HandleGoneStep ==
  ASSUME IInv, HandleGone
  PROVE  IInv'
<1> USE DEF At, Goto
<1>1. /\ gui.pc = "idle" /\ queue # <<>> /\ queue' = Tail(queue)
      /\ UNCHANGED <<mount, made, table, mask, closing, menu, picked, backend, shared>>
  BY DEF HandleGone
<1>2. QueueInv' /\ queue' \in Seq(Message)
  BY <1>1, QueueShrinks
<1>3. menu \in Seq(1..MaxMounts) /\ closing \in BOOLEAN /\ PickedOK'
  BY <1>1 DEF IInv, TypeInv, PickedOK
<1>4. (closing' => menu' = <<>>) /\ (menu' # <<>> => InPlace') /\ MenuUnmountsShown'
  BY <1>1 DEF IInv, MenuInv, InPlace, Stands, MenuUnmountsShown
<1>5. CASE UNCHANGED gui
  BY <1>1, <1>2, <1>3, <1>4, <1>5, StaysIdle
<1>6. CASE /\ Head(queue).at \in InTable /\ gui' = [pc |-> "exit", at |-> Head(queue).at]
  <2>1. PICK i \in 1..Len(table) : table[i] = Head(queue).at
    <3>1. Head(queue).at \in {table[i] : i \in 1..Len(table)}
      BY <1>6, Positions DEF IInv
    <3> QED BY <3>1
  <2> QED BY <1>1, <1>2, <1>3, <1>4, <1>6, <2>1, RemovalBegins
<1> QED BY <1>5, <1>6 DEF HandleGone

\* A menu shows g_table.
LEMMA OpenMenuStep ==
  ASSUME IInv, OpenMenu
  PROVE  IInv'
<1>1. /\ gui.pc = "idle" /\ ~closing
      /\ menu' = [i \in DOMAIN table |-> mount[table[i]].gen]
      /\ UNCHANGED <<mount, made, table, mask, queue, gui, closing, picked, backend, shared>>
  BY DEF OpenMenu, Input, At
<1>2. DOMAIN table = 1..Len(table) /\ Len(table) \in Nat
      /\ \A i \in 1..Len(table) : table[i] \in Addrs
  BY DEF IInv, TypeInv
<1>3. \A i \in 1..Len(table) : mount[table[i]].gen \in 1..MaxMounts
  BY <1>2, MountFacts DEF IInv, TableInv
<1>4. menu' \in Seq(1..MaxMounts) /\ Len(menu') = Len(table)
      /\ \A i \in 1..Len(table) : menu'[i] = mount[table[i]].gen
  BY <1>1, <1>2, <1>3
<1>5. InPlace'
  <2>1. \A k \in 1..Len(table) : k \in k..Len(menu')
    BY <1>2, <1>4
  <2> QED BY <1>1, <1>2, <1>4, <2>1 DEF InPlace
<1>6. QueueInv' /\ queue' \in Seq(Message) /\ closing' \in BOOLEAN
  BY <1>1 DEF IInv, TypeInv, QueueInv
<1> QED BY <1>1, <1>4, <1>5, <1>6, StaysIdle

\* A menu is closed, or the window.
LEMMA CloseStep ==
  ASSUME IInv, CloseMenu \/ CloseWindow
  PROVE  IInv'
<1>1. /\ gui.pc = "idle" /\ menu' = <<>>
      /\ UNCHANGED <<mount, made, table, mask, queue, gui, picked, backend, shared>>
  BY DEF CloseMenu, CloseWindow, Input, At
<1>2. QueueInv' /\ queue' \in Seq(Message)
  BY <1>1 DEF IInv, TypeInv, QueueInv
<1>3. closing' \in BOOLEAN
  BY DEF IInv, TypeInv, CloseMenu, CloseWindow
<1>4. menu' \in Seq(1..MaxMounts)
  BY <1>1
<1> QED BY <1>1, <1>2, <1>3, <1>4, StaysIdle

\* An item is chosen: g_table has there what it shows, or one from further down.
LEMMA ChooseStep ==
  ASSUME IInv, NEW i \in 1..MaxMounts, Choose(i)
  PROVE  IInv'
<1> USE DEF At, Goto
<1>1. /\ gui.pc = "idle" /\ menu' = <<>> /\ i \in DOMAIN menu
      /\ UNCHANGED <<mount, made, table, mask, queue, closing, backend, shared>>
  BY DEF Choose, Input
<1>2. QueueInv' /\ queue' \in Seq(Message)
  BY <1>1 DEF IInv, TypeInv, QueueInv
<1>3. menu' \in Seq(1..MaxMounts) /\ closing' \in BOOLEAN
  BY <1>1 DEF IInv, TypeInv
<1>4. menu \in Seq(1..MaxMounts) /\ Len(menu) \in Nat /\ table \in Seq(Addrs)
      /\ DOMAIN menu = 1..Len(menu)
  BY DEF IInv, TypeInv
<1>5. i \in 1..Len(menu) /\ InPlace
  <2>1. i \in 1..Len(menu) /\ menu # <<>>
    BY <1>1, <1>4
  <2> QED BY <2>1 DEF IInv, MenuInv
<1>6. CASE i \in DOMAIN table
  <2>1. i \in 1..Len(table) /\ table[i] \in Addrs
    BY <1>4, <1>6
  <2>2. PICK got \in 1..MaxMounts : got = mount[table[i]].gen
    BY <2>1, MountFacts DEF IInv, TableInv
  <2>3. PICK gens : gens = {mount[a].gen : a \in InTable}
    OBVIOUS
  <2>4. /\ gui' = [pc |-> "exit", at |-> table[i]]
        /\ picked' = [item |-> i, shown |-> menu, got |-> got, there |-> gens]
    BY <1>6, <2>2, <2>3 DEF Choose
  <2>5. picked'.item = i /\ picked'.shown = menu /\ picked'.got = got /\ picked'.there = gens
    BY <2>4
  <2>6. \E j \in i..Len(menu) : got = menu[j]
    BY <1>5, <2>1, <2>2 DEF InPlace
  <2>7. ASSUME \A j \in 1..i : menu[j] \in gens PROVE got = menu[i]
    <3>1. ASSUME NEW j \in 1..i PROVE Stands(j)
      <4>1. PICK a \in InTable : menu[j] = mount[a].gen
        BY <2>3, <2>7
      <4>2. PICK k \in 1..Len(table) : a = table[k]
        BY Positions DEF IInv
      <4> QED BY <4>1, <4>2 DEF Stands
    <3> QED BY <1>5, <2>2, <3>1 DEF InPlace
  <2>8. MenuUnmountsShown'
    BY <2>5, <2>6, <2>7 DEF MenuUnmountsShown
  <2>9. PickedOK'
    BY <1>1, <2>5 DEF PickedOK
  <2>10. closing' => menu' = <<>>
    BY <1>1
  <2> QED BY <1>1, <1>2, <2>1, <2>4, <2>8, <2>9, <2>10, RemovalBegins
<1>7. CASE i \notin DOMAIN table
  BY <1>1, <1>2, <1>3, <1>7, StaysIdle DEF Choose
<1> QED BY <1>6, <1>7

\* The window is closing: the last mount of g_table is next.
LEMMA UnmountNextStep ==
  ASSUME IInv, UnmountNext
  PROVE  IInv'
<1>1. /\ gui.pc = "idle" /\ table # <<>> /\ gui' = [pc |-> "exit", at |-> table[Len(table)]]
      /\ UNCHANGED <<mount, made, table, mask, queue, closing, menu, picked, backend, shared>>
  BY DEF UnmountNext, At, Goto
<1>2. Len(table) \in 1..Len(table)
  BY <1>1 DEF IInv, TypeInv
<1>3. QueueInv' /\ queue' \in Seq(Message) /\ PickedOK'
  BY <1>1 DEF IInv, TypeInv, QueueInv, PickedOK
<1>4. MenuUnmountsShown'
  BY <1>1 DEF IInv, MenuInv, MenuUnmountsShown
<1>5. menu' = <<>>
  BY <1>1 DEF IInv, MenuInv, UnmountNext
<1> QED BY <1>1, <1>2, <1>3, <1>4, <1>5, RemovalBegins

-----------------------------------------------------------------------------
(* The theorems.                                                           *)

\* The initial state.
LEMMA InitInv == Init => IInv
<1> SUFFICES ASSUME Init PROVE IInv
  OBVIOUS
<1>1. TypeInv
  <2>1. closing \in BOOLEAN /\ shared \in BOOLEAN /\ PickedOK
    BY DEF Init, PickedOK
  <2>2. made \in 0..MaxMounts
    BY MountsAssumption DEF Init
  <2>3. mount \in [Addrs -> Mount \cup {Free}] /\ table \in Seq(Addrs) /\ mask \in SUBSET Letters
        /\ queue \in Seq(Message) /\ menu \in Seq(1..MaxMounts)
    BY DEF Init
  <2>4. gui \in [pc : {"idle"}] /\ backend \in [pc : {"idle"}]
    BY DEF Init
  <2> QED BY <2>1, <2>2, <2>3, <2>4 DEF TypeInv
<1>2. TableInv /\ GenInv /\ QueueInv
  BY DEF Init, TableInv, GenInv, QueueInv, At, Pcs
<1>3. MaskInv /\ KnewInv /\ EntersNoKnownDrive /\ MenuInv
  BY DEF Init, MaskInv, KnewInv, EntersNoKnownDrive, Stuck, MenuInv, MenuUnmountsShown
<1> QED BY <1>1, <1>2, <1>3 DEF IInv

\* The invariant is kept by every step of the GUI thread, the backend thread and
\* the hosts.
THEOREM Inductive == Spec => []IInv
<1>1. ASSUME IInv, [Next]_vars PROVE IInv'
  <2>1. CASE UNCHANGED vars
    <3>1. SameMounts
      BY <1>1, <2>1, UnchangedFacts DEF vars, IInv
    <3>2. backend' \in [pc : {"idle"}] \cup [pc : {"task"}, letter : Letters]
                 \cup [pc : {"checked"}, letter : Letters, knew : SUBSET (1..MaxMounts)]
                 \cup [pc : {"inside"}, gen : 1..MaxMounts, knew : SUBSET (1..MaxMounts)]
      BY <1>1, <2>1 DEF vars, IInv, TypeInv
    <3> QED BY <1>1, <2>1, <3>1, <3>2, QueueKept, BackendKept, OtherStep DEF vars
  <2>2. CASE GuiStep
    BY <1>1, <2>2, HandleGoneStep, UnmountNextStep, GuiWorks, GivesUp, RegisterStep,
       ForgetStep DEF GuiStep
  <2>3. CASE UserStep
    BY <1>1, <2>3, MountStartStep, OpenMenuStep, CloseStep, ChooseStep DEF UserStep
  <2>4. CASE BackendStep
    BY <1>1, <2>4, AddCheckStep, AddOpenStep, AddTakeStep, BackendServesStep
    DEF BackendStep
  <2>5. ASSUME NEW a \in Addrs, HostStep(a) PROVE IInv'
    BY <1>1, <2>5, HostSteps
  <2> QED BY <1>1, <2>1, <2>2, <2>3, <2>4, <2>5 DEF Next
<1> QED BY <1>1, InitInv, PTL DEF Spec

\* A sequence without repetitions has as many positions as elements.
LEMMA TableCount ==
  ASSUME IInv
  PROVE  Len(table) = Cardinality(InTable)
<1> DEFINE D == 1..Len(table)
           f == [i \in D |-> table[i]]
<1>1. Len(table) \in Nat /\ InTable = {table[i] : i \in D}
  BY Positions DEF IInv, TypeInv
<1>2. f \in Bijection(D, InTable)
  <2>1. f \in [D -> InTable]
    BY <1>1
  <2>2. \A i, j \in D : f[i] = f[j] => i = j
    BY DEF IInv, TableInv
  <2>3. \A a \in InTable : \E i \in D : f[i] = a
    BY <1>1
  <2> HIDE DEF D, f
  <2> QED BY <2>1, <2>2, <2>3 DEF Bijection, Injection, Surjection, IsInjective
<1>3. IsFiniteSet(D) /\ Cardinality(D) = Len(table)
  <2>1. Cardinality(1..Len(table)) = Len(table) - 1 + 1 /\ IsFiniteSet(1..Len(table))
    <3>1. 1 \in Int /\ Len(table) \in Int /\ (1 > Len(table) => Len(table) = 0)
      BY <1>1
    <3> QED BY <1>1, <3>1, FS_Interval
  <2> QED BY <1>1, <2>1
<1> HIDE DEF D, f
<1> QED BY <1>2, <1>3, FS_Bijection DEF ExistsBijection

\* The variables have their types, g_table holds mounts that exist and each
\* once, and so does the mount the GUI thread works on.
THEOREM TypeCorrect == Spec => []TypeOK
<1>1. IInv => TypeOK
  <2> SUFFICES ASSUME IInv PROVE TypeOK
    OBVIOUS
  <2>1. InTable \subseteq InUse
    BY DEF IInv, TypeInv, TableInv, InTable, InUse
  <2>2. At("idle") \/ gui.at \in InUse
    BY DEF IInv, TypeInv, TableInv, InUse, At
  <2>3. {closing, shared} \subseteq BOOLEAN /\ PickedOK
    BY DEF IInv, TypeInv
  <2>4. \A i \in DOMAIN queue : queue[i] \in [at : Addrs, gen : 1..MaxMounts]
    <3>1. queue \in Seq(Message)
      BY DEF IInv, TypeInv
    <3>2. \A i \in DOMAIN queue : queue[i] \in Message
      BY <3>1
    <3> QED BY <3>2 DEF Message
  <2>5. \A i \in DOMAIN menu : menu[i] \in 1..MaxMounts
    BY Element DEF IInv, TypeInv
  <2>6. backend.pc \in {"idle", "task", "checked", "inside"}
    BY DEF IInv, TypeInv
  <2> QED BY <2>1, <2>2, <2>3, <2>4, <2>5, <2>6, TableCount
     DEF IInv, TypeInv, TypeOK, PickedOK
<1> QED BY <1>1, Inductive, PTL

\* A report never names an address in g_table at which another mount lives.
THEOREM ReportsCurrent == Spec => []GoneIsCurrent
<1>1. IInv => GoneIsCurrent
  <2> SUFFICES ASSUME IInv, NEW i \in DOMAIN queue, queue[i].at \in InTable
               PROVE  queue[i].gen = mount[queue[i].at].gen
    BY DEF GoneIsCurrent
  <2>1. i \in 1..Len(queue)
    BY DEF IInv, TypeInv
  <2>2. PICK j \in 1..Len(table) : table[j] = queue[i].at
    <3>1. queue[i].at \in {table[j] : j \in 1..Len(table)}
      BY Positions DEF IInv
    <3> QED BY <3>1
  <2>3. mount[queue[i].at] # Free
    BY <2>2 DEF IInv, TableInv
  <2> QED BY <2>1, <2>3 DEF IInv, QueueInv
<1> QED BY <1>1, Inductive, PTL

\* Unless two mounts have shared a letter, the backend thread enters no drive
\* that was in g_table when it looked at the mask.
THEOREM BackendStaysOut == Spec => []EntersNoKnownDrive
<1>1. IInv => EntersNoKnownDrive
  BY DEF IInv
<1> QED BY <1>1, Inductive, PTL

\* However many mounts end while the unmount menu is open, an item unmounts the
\* drive it shows or, if that one or one above it has left, one the menu shows
\* further down: never one from above, and none mounted since.
THEOREM MenuExact == Spec => []MenuUnmountsShown
<1>1. IInv => MenuUnmountsShown
  BY DEF IInv, MenuInv
<1> QED BY <1>1, Inductive, PTL
=============================================================================
