---------------------------- MODULE DevicesProof ----------------------------
(***************************************************************************)
(* Proofs about the virtual disks, for any number of devices, open files   *)
(* and volumes.                                                            *)
(***************************************************************************)
EXTENDS Devices, FiniteSetTheorems, TLAPS

\* Who keeps a device open, by the reason.
Kids(d) == Cardinality({c \in Attached : parent[c] = d})
Vols(d) == IF d \in Elems(pvs) THEN 1 ELSE 0
Adds(d) == IF adding # NoAdd /\ adding.parent = d THEN 1 ELSE 0

\* A list has its newest device first.
OrderInv ==
  \A k \in Kinds : \A i, j \in 1..Len(list[k]) : i < j => list[k][j] < list[k][i]

\* A device is younger than its parent, a host file has none, and a number that
\* was not given out yet has no references.
BornInv ==
  /\ \A d \in Dev : parent[d] < d
  /\ \A d \in Dev : kind[d] = "file" => parent[d] = Host
  /\ \A d \in Dev : made < d => refcnt[d] = 0

\* What an addition under way has opened is there, and there is a number left.
AddInv ==
  adding # NoAdd =>
    /\ adding.kind \in Kinds /\ phase = 0 /\ made < MaxDevs
    /\ adding.parent \in Attached \cup {Host}
    /\ adding.kind = "file" => adding.parent = Host

\* A volume is on one device; no more than one on each.
PvsInv == \A i, j \in 1..Len(pvs) : pvs[i] = pvs[j] => i = j

\* References cover the holders, in the teardown too.
RefsInv ==
  /\ RefsExact
  /\ \A d \in Attached : refcnt[d] >= Holders(d)

\* The teardown has finished the modules before the current one, and the only
\* devices without their parents are lost devices on loop devices.
FiniInv ==
  phase >= 1 =>
    /\ \A d \in Attached :
         \/ parent[d] \in Attached \cup {Host}
         \/ kind[d] = "lost" /\ kind[parent[d]] = "loop"
    /\ phase >= 2 => list["loop"] = <<>>
    /\ phase >= 3 => list["lost"] = <<>>
    /\ phase >= 4 => list["file"] = <<>>

\* The inductive invariant.
IInv ==
  /\ TypeOK /\ OrderInv /\ BornInv /\ AddInv /\ PvsInv /\ RefsInv
  /\ ParentsAttached /\ FiniInv /\ FiniNewestFirst
-----------------------------------------------------------------------------
(* Lists.                                                                  *)

\* One position is taken out of a sequence.
LEMMA RemoveAtFacts ==
  ASSUME NEW S, NEW s \in Seq(S), NEW i \in 1..Len(s)
  PROVE  /\ RemoveAt(s, i) \in Seq(S) /\ Len(s) \in Nat
         /\ Len(RemoveAt(s, i)) = Len(s) - 1
         /\ \A j \in 1..Len(s) - 1 : RemoveAt(s, i)[j] = IF j < i THEN s[j] ELSE s[j + 1]
<1> DEFINE p == SubSeq(s, 1, i - 1)
           q == SubSeq(s, i + 1, Len(s))
<1>1. Len(s) \in Nat /\ i \in Nat /\ i >= 1 /\ i <= Len(s)
  OBVIOUS
<1>2. p = [j \in 1..i - 1 |-> s[j]] /\ q = [j \in 1..Len(s) - i |-> s[i + j]]
  BY <1>1
<1>3. \A j \in 1..i - 1 : s[j] \in S
  BY <1>1
<1>4. \A j \in 1..Len(s) - i : s[i + j] \in S
  BY <1>1
<1>5. p \in Seq(S) /\ Len(p) = i - 1 /\ q \in Seq(S) /\ Len(q) = Len(s) - i
      /\ (\A j \in 1..i - 1 : p[j] = s[j]) /\ (\A j \in 1..Len(s) - i : q[j] = s[i + j])
  <2> HIDE DEF p, q
  <2> QED BY <1>1, <1>2, <1>3, <1>4
<1> HIDE DEF p, q
<1>6. p \o q \in Seq(S) /\ Len(p \o q) = Len(s) - 1
  <2>1. p \in Seq(S) /\ q \in Seq(S)
    BY <1>5
  <2>2. p \o q \in Seq(S) /\ Len(p \o q) = Len(p) + Len(q)
    BY <2>1
  <2> QED BY <1>1, <1>5, <2>2
<1>7. \A j \in 1..Len(s) - 1 : (p \o q)[j] = IF j < i THEN s[j] ELSE s[j + 1]
  <2> SUFFICES ASSUME NEW j \in 1..Len(s) - 1
               PROVE  (p \o q)[j] = IF j < i THEN s[j] ELSE s[j + 1]
    OBVIOUS
  <2>1. CASE j < i
    <3>1. (p \o q)[j] = p[j]
      BY <1>1, <1>5, <2>1
    <3> QED BY <1>1, <1>5, <2>1, <3>1
  <2>2. CASE ~(j < i)
    <3>1. (p \o q)[j] = q[j - Len(p)]
      BY <1>1, <1>5, <2>2
    <3>2. j - Len(p) \in 1..Len(s) - i /\ i + (j - Len(p)) = j + 1
      BY <1>1, <1>5, <2>2
    <3> QED BY <1>5, <2>2, <3>1, <3>2
  <2> QED BY <2>1, <2>2
<1> QED BY <1>1, <1>6, <1>7 DEF RemoveAt, p, q

\* Sequence t lacks position i of s, in which nothing is twice.
Cut(s, t, i) ==
  /\ Len(t) = Len(s) - 1
  /\ \A j \in 1..Len(s) - 1 : t[j] = IF j < i THEN s[j] ELSE s[j + 1]
  /\ \A h, j \in 1..Len(s) : s[h] = s[j] => h = j

\* Then it has the elements of s but one.
LEMMA CutFacts ==
  ASSUME NEW S, NEW s \in Seq(S), NEW t \in Seq(S), NEW i \in 1..Len(s), Cut(s, t, i)
  PROVE  Elems(t) = Elems(s) \ {s[i]}
<1> USE DEF Cut
<1>1. Len(s) \in Nat /\ i \in Nat /\ i >= 1 /\ i <= Len(s)
  OBVIOUS
<1>2. \A j \in 1..Len(t) : \E h \in 1..Len(s) : h # i /\ t[j] = s[h]
  <2> SUFFICES ASSUME NEW j \in 1..Len(t)
               PROVE  \E h \in 1..Len(s) : h # i /\ t[j] = s[h]
    OBVIOUS
  <2>1. CASE j < i
    BY <1>1, <2>1
  <2>2. CASE ~(j < i)
    <3>1. j + 1 \in 1..Len(s) /\ j + 1 # i /\ t[j] = s[j + 1]
      BY <1>1, <2>2
    <3> QED BY <3>1
  <2> QED BY <2>1, <2>2
<1>3. \A h \in 1..Len(s) : h # i => \E j \in 1..Len(t) : t[j] = s[h]
  <2> SUFFICES ASSUME NEW h \in 1..Len(s), h # i
               PROVE  \E j \in 1..Len(t) : t[j] = s[h]
    OBVIOUS
  <2>1. CASE h < i
    <3>1. h \in 1..Len(t) /\ t[h] = s[h]
      BY <1>1, <2>1
    <3> QED BY <3>1
  <2>2. CASE i < h
    <3>1. h - 1 \in 1..Len(t) /\ t[h - 1] = s[h]
      BY <1>1, <2>2
    <3> QED BY <3>1
  <2> QED BY <1>1, <2>1, <2>2
<1>4. \A x : x \in Elems(t) <=> x \in Elems(s) /\ x # s[i]
  <2>1. \A x : x \in Elems(t) <=> \E j \in 1..Len(t) : t[j] = x
    BY DEF Elems
  <2>2. \A x : x \in Elems(s) <=> \E j \in 1..Len(s) : s[j] = x
    BY DEF Elems
  <2>3. \A h \in 1..Len(s) : s[h] = s[i] => h = i
    OBVIOUS
  <2>4. ASSUME NEW x, x \in Elems(t) PROVE x \in Elems(s) /\ x # s[i]
    BY <1>2, <2>1, <2>2, <2>3, <2>4
  <2>5. ASSUME NEW x, x \in Elems(s), x # s[i] PROVE x \in Elems(t)
    BY <1>3, <2>1, <2>2, <2>5
  <2> QED BY <2>4, <2>5
<1> QED BY <1>4

\* The tail of a list lacks its first position.
LEMMA TailFacts ==
  ASSUME NEW S, NEW s \in Seq(S), s # <<>>
  PROVE  /\ Tail(s) \in Seq(S) /\ Len(s) \in Nat /\ 1 \in 1..Len(s) /\ Head(s) = s[1]
         /\ Len(Tail(s)) = Len(s) - 1
         /\ \A j \in 1..Len(s) - 1 : Tail(s)[j] = IF j < 1 THEN s[j] ELSE s[j + 1]
  OBVIOUS

\* Something is added at the end of a list.
LEMMA AppendFacts ==
  ASSUME NEW S, NEW s \in Seq(S), NEW e \in S
  PROVE  /\ Append(s, e) \in Seq(S) /\ Len(s) \in Nat /\ Len(Append(s, e)) = Len(s) + 1
         /\ \A i \in 1..Len(s) : Append(s, e)[i] = s[i]
         /\ Append(s, e)[Len(s) + 1] = e
  OBVIOUS

\* Something is added at the head of a list.
LEMMA PrependFacts ==
  ASSUME NEW S, NEW s \in Seq(S), NEW e \in S
  PROVE  /\ <<e>> \o s \in Seq(S) /\ Len(s) \in Nat /\ Len(<<e>> \o s) = Len(s) + 1
         /\ (<<e>> \o s)[1] = e
         /\ \A i \in 2..Len(s) + 1 : (<<e>> \o s)[i] = s[i - 1]
  OBVIOUS

\* Attached devices are found in their lists, and have a number given out.
LEMMA AttachedFacts ==
  ASSUME TypeOK
  PROVE  /\ \A d : d \in Attached <=> \E k \in Kinds : \E i \in 1..Len(list[k]) : list[k][i] = d
         /\ \A k \in Kinds : \A i \in 1..Len(list[k]) :
              list[k][i] \in 1..made /\ list[k][i] \in Attached
         /\ Attached \subseteq 1..made /\ Attached \subseteq Dev
         /\ made \in Nat /\ made <= MaxDevs
<1>1. \A d : d \in Attached <=> \E k \in Kinds : \E i \in 1..Len(list[k]) : list[k][i] = d
  BY DEF Attached, Elems
<1>2. made \in Nat /\ made <= MaxDevs
  BY DevicesAssumption DEF TypeOK
<1>3. \A k \in Kinds : \A i \in 1..Len(list[k]) : list[k][i] \in 1..made
  <2> SUFFICES ASSUME NEW k \in Kinds PROVE \A i \in 1..Len(list[k]) : list[k][i] \in 1..made
    OBVIOUS
  <2>1. list[k] \in Seq(1..made)
    BY DEF TypeOK
  <2> DEFINE S == 1..made
  <2> HIDE DEF S
  <2>2. list[k] \in Seq(S)
    BY <2>1 DEF S
  <2>3. \A i \in 1..Len(list[k]) : list[k][i] \in S
    BY <2>2
  <2> QED BY <2>3 DEF S
<1>4. Attached \subseteq 1..made
  BY <1>1, <1>3
<1>5. Attached \subseteq Dev
  BY <1>2, <1>4, DevicesAssumption DEF Dev
<1> QED BY <1>1, <1>2, <1>3, <1>4, <1>5

-----------------------------------------------------------------------------
(* Counting.                                                               *)

\* The reasons add up.
LEMMA HoldersSum ==
  ASSUME NEW d
  PROVE  /\ Holders(d) = users[d] + Kids(d) + Vols(d) + Adds(d)
         /\ Holders(d)' = users'[d] + Kids(d)' + Vols(d)' + Adds(d)'
  BY DEF Holders, Kids, Vols, Adds

\* The children of a device can be counted.
LEMMA KidsType ==
  ASSUME TypeOK, NEW d
  PROVE  IsFiniteSet({c \in Attached : parent[c] = d}) /\ Kids(d) \in Nat
<1> DEFINE C == {c \in Attached : parent[c] = d}
<1>1. C \subseteq 1..made /\ made \in Nat
  BY AttachedFacts
<1>2. IsFiniteSet(1..made)
  BY <1>1, FS_Interval
<1> HIDE DEF C
<1>3. IsFiniteSet(C)
  BY <1>1, <1>2, FS_Subset
<1>4. Cardinality(C) \in Nat
  BY <1>3, FS_CardinalityType
<1> QED BY <1>3, <1>4 DEF C, Kids

\* A device goes: its parent has one child less.
LEMMA KidsRemoved ==
  ASSUME TypeOK, NEW e \in Attached, Attached' = Attached \ {e}, UNCHANGED parent, NEW d
  PROVE  /\ Kids(d)' \in Nat
         /\ Kids(d) = Kids(d)' + (IF parent[e] = d THEN 1 ELSE 0)
<1> DEFINE C == {c \in Attached : parent[c] = d}
           D == {c \in Attached' : parent'[c] = d}
<1>1. IsFiniteSet(C) /\ Cardinality(C) \in Nat
  BY KidsType DEF Kids
<1>2. D = C \ {e} /\ (e \in C <=> parent[e] = d)
  OBVIOUS
<1> HIDE DEF C, D
<1>3. IsFiniteSet(C \ {e})
      /\ Cardinality(C \ {e}) = IF e \in C THEN Cardinality(C) - 1 ELSE Cardinality(C)
  BY <1>1, FS_RemoveElement
<1>4. Cardinality(D) \in Nat
  BY <1>2, <1>3, FS_CardinalityType
<1>5. Cardinality(C) = Cardinality(D) + (IF parent[e] = d THEN 1 ELSE 0)
  BY <1>1, <1>2, <1>3
<1> QED BY <1>4, <1>5 DEF Kids, C, D

\* A device comes: its parent has one child more.
LEMMA KidsAdded ==
  ASSUME TypeOK, NEW e \in Dev, NEW p, e \notin Attached, Attached' = Attached \cup {e},
         parent' = [parent EXCEPT ![e] = p], NEW d
  PROVE  /\ Kids(d)' \in Nat
         /\ Kids(d)' = Kids(d) + (IF p = d THEN 1 ELSE 0)
<1> DEFINE C == {c \in Attached : parent[c] = d}
           D == {c \in Attached' : parent'[c] = d}
<1>1. IsFiniteSet(C) /\ Cardinality(C) \in Nat
  BY KidsType DEF Kids
<1>2. parent'[e] = p /\ \A c \in Attached : parent'[c] = parent[c]
  BY AttachedFacts DEF TypeOK
<1>3. (p = d => D = C \cup {e}) /\ (p # d => D = C) /\ e \notin C
  BY <1>2
<1> HIDE DEF C, D
<1>4. Cardinality(C \cup {e}) = IF e \in C THEN Cardinality(C) ELSE Cardinality(C) + 1
  BY <1>1, FS_AddElement
<1>5. Cardinality(D) = Cardinality(C) + (IF p = d THEN 1 ELSE 0)
  BY <1>1, <1>3, <1>4
<1>6. Cardinality(D) \in Nat
  BY <1>1, <1>5
<1> QED BY <1>5, <1>6 DEF Kids, C, D

\* Nothing comes or goes.
LEMMA KidsSame ==
  ASSUME TypeOK, UNCHANGED <<list, parent>>, NEW d
  PROVE  Kids(d)' = Kids(d) /\ Attached' = Attached
  BY DEF Kids, Attached, Elems

\* A reference more.
LEMMA OpenFacts ==
  ASSUME TypeOK, NEW p \in Dev \cup {Host}, Open(p)
  PROVE  /\ refcnt' \in [Dev -> Nat]
         /\ \A d \in Dev : refcnt'[d] = refcnt[d] + (IF p = d THEN 1 ELSE 0)
<1>1. Host \notin Dev
  BY DEF Host, Dev
<1> QED BY <1>1 DEF TypeOK, Open

\* A reference less, of those there are.
LEMMA CloseFacts ==
  ASSUME TypeOK, NEW p \in Dev \cup {Host}, p = Host \/ refcnt[p] >= 1, Close(p)
  PROVE  /\ refcnt' \in [Dev -> Nat]
         /\ \A d \in Dev : refcnt[d] = refcnt'[d] + (IF p = d THEN 1 ELSE 0)
<1>1. Host \notin Dev
  BY DEF Host, Dev
<1> QED BY <1>1 DEF TypeOK, Close

\* Whatever has a holder has a reference.
LEMMA HeldFacts ==
  ASSUME IInv, NEW d \in Attached
  PROVE  /\ users[d] \in Nat /\ Kids(d) \in Nat /\ Vols(d) \in Nat /\ Adds(d) \in Nat
         /\ refcnt[d] \in Nat /\ Holders(d) \in Nat /\ d \in Dev
         /\ refcnt[d] >= users[d] + Kids(d) + Vols(d) + Adds(d)
<1>1. d \in Dev /\ Kids(d) \in Nat
  BY AttachedFacts, KidsType DEF IInv
<1>2. users[d] \in Nat /\ refcnt[d] \in Nat
  BY <1>1, DevicesAssumption DEF IInv, TypeOK
<1>3. Vols(d) \in Nat /\ Adds(d) \in Nat
  BY DEF Vols, Adds
<1>4. refcnt[d] >= Holders(d)
  BY DEF IInv, RefsInv
<1> QED BY <1>1, <1>2, <1>3, <1>4, HoldersSum

\* A child is counted.
LEMMA ParentHeld ==
  ASSUME IInv, NEW c \in Attached, parent[c] \in Attached
  PROVE  Kids(parent[c]) >= 1 /\ refcnt[parent[c]] >= 1
<1> DEFINE C == {b \in Attached : parent[b] = parent[c]}
<1>1. IsFiniteSet(C) /\ Cardinality(C) \in Nat /\ Kids(parent[c]) = Cardinality(C)
  BY KidsType DEF Kids, IInv
<1>2. C # {}
  OBVIOUS
<1> HIDE DEF C
<1>3. Cardinality(C) # 0
  BY <1>1, <1>2, FS_EmptySet
<1> QED BY <1>1, <1>3, HeldFacts

\* References and holders change alike: the counts stay exact.
LEMMA RefsKept ==
  ASSUME IInv, phase = 0, UNCHANGED <<phase, dropped>>,
         \A d \in Attached' :
           \/ /\ d \in Attached /\ refcnt'[d] \in Nat /\ Holders(d)' \in Nat
              /\ refcnt'[d] + Holders(d) = refcnt[d] + Holders(d)'
           \/ refcnt'[d] = 0 /\ Holders(d)' = 0 /\ d \notin dropped
  PROVE  RefsInv'
<1>1. ASSUME NEW d \in Attached'
      PROVE  /\ refcnt'[d] >= Holders(d)'
             /\ IF d \in dropped' THEN refcnt'[d] > Holders(d)' ELSE refcnt'[d] = Holders(d)'
  <2>1. CASE /\ d \in Attached /\ refcnt'[d] \in Nat /\ Holders(d)' \in Nat
             /\ refcnt'[d] + Holders(d) = refcnt[d] + Holders(d)'
    <3>1. refcnt[d] \in Nat /\ Holders(d) \in Nat
      BY <2>1, HeldFacts
    <3>2. IF d \in dropped THEN refcnt[d] > Holders(d) ELSE refcnt[d] = Holders(d)
      BY <2>1 DEF IInv, RefsInv, RefsExact
    <3> QED BY <2>1, <3>1, <3>2
  <2>2. CASE refcnt'[d] = 0 /\ Holders(d)' = 0 /\ d \notin dropped
    BY <2>2
  <2> QED BY <2>1, <2>2
<1> QED BY <1>1 DEF RefsInv, RefsExact
-----------------------------------------------------------------------------
(* Steps that leave the lists alone.                                       *)

\* What is left to show of such a step.
LEMMA Stays ==
  ASSUME IInv, phase = 0, UNCHANGED <<made, kind, parent, list, phase, misclosed>>,
         refcnt' \in [Dev -> Nat], users' \in [Dev -> 0..MaxUsers], pvs' \in Seq(Dev),
         dropped' \subseteq Dev, adding' \in [kind : Kinds \cup {"none"}, parent : Dev \cup {Host}],
         \A d \in Dev : made < d => refcnt'[d] = 0,
         AddInv', PvsInv', RefsInv',
         \A d \in Dev : users'[d] > 0 => d \in Attached,
         Elems(pvs)' \cup dropped' \subseteq Attached
  PROVE  IInv'
<1>1. Attached' = Attached
  BY KidsSame DEF IInv
<1>2. TypeOK'
  <2>1. /\ made' \in 0..MaxDevs /\ kind' \in [Dev -> Kinds] /\ parent' \in [Dev -> Dev \cup {Host}]
        /\ list' \in [Kinds -> Seq(1..made')] /\ phase' \in 0..(Len(ModuleList) + 1)
        /\ misclosed' \subseteq (Kinds \cup {"array"}) \X Kinds
    BY DEF IInv, TypeOK
  <2>2. \A k \in Kinds : \A i, j \in 1..Len(list'[k]) :
          /\ kind'[list'[k][i]] = k
          /\ list'[k][i] = list'[k][j] => i = j
    <3>1. \A k \in Kinds : \A i, j \in 1..Len(list[k]) :
            kind[list[k][i]] = k /\ (list[k][i] = list[k][j] => i = j)
      BY DEF IInv, TypeOK
    <3> QED BY <3>1
  <2> QED BY <2>1, <2>2 DEF TypeOK
<1>3. OrderInv' /\ BornInv'
  BY DEF IInv, OrderInv, BornInv
<1>4. ParentsAttached'
  BY <1>1 DEF IInv, ParentsAttached
<1>5. FiniInv' /\ FiniNewestFirst'
  BY DEF IInv, FiniInv, FiniNewestFirst
<1> QED BY <1>2, <1>3, <1>4, <1>5 DEF IInv

\* What such a step does to the counts of a device.
LEMMA CountsMove ==
  ASSUME IInv, UNCHANGED <<list, parent>>, NEW e \in Attached, NEW n \in Nat, NEW m \in Nat,
         refcnt'[e] \in Nat, refcnt'[e] + m = refcnt[e] + n,
         users'[e] \in Nat, users'[e] + Vols(e)' + Adds(e)' + m = users[e] + Vols(e) + Adds(e) + n
  PROVE  Holders(e)' \in Nat /\ refcnt'[e] + Holders(e) = refcnt[e] + Holders(e)'
<1>1. /\ users[e] \in Nat /\ Kids(e) \in Nat /\ Vols(e) \in Nat /\ Adds(e) \in Nat
      /\ refcnt[e] \in Nat
  BY HeldFacts
<1>2. Kids(e)' = Kids(e)
  BY KidsSame DEF IInv
<1>3. Vols(e)' \in Nat /\ Adds(e)' \in Nat
  BY DEF Vols, Adds
<1>4. /\ Holders(e) = users[e] + Kids(e) + Vols(e) + Adds(e)
      /\ Holders(e)' = users'[e] + Kids(e)' + Vols(e)' + Adds(e)'
  BY HoldersSum
<1> DEFINE r == refcnt[e]     r1 == refcnt'[e]
           u == users[e]      u1 == users'[e]
           v == Vols(e)       v1 == Vols(e)'
           a == Adds(e)       a1 == Adds(e)'
           k == Kids(e)
<1>5. /\ r \in Nat /\ r1 \in Nat /\ u \in Nat /\ u1 \in Nat /\ v \in Nat /\ v1 \in Nat
      /\ a \in Nat /\ a1 \in Nat /\ k \in Nat
      /\ r1 + m = r + n /\ u1 + v1 + a1 + m = u + v + a + n
      /\ Holders(e) = u + k + v + a /\ Holders(e)' = u1 + k + v1 + a1
  BY <1>1, <1>2, <1>3, <1>4, Zenon
<1>6. u1 + k + v1 + a1 \in Nat /\ r1 + (u + k + v + a) = r + (u1 + k + v1 + a1)
  <2> HIDE DEF r, r1, u, u1, v, v1, a, a1, k
  <2> QED BY <1>5
<1> QED BY <1>5, <1>6

\* A file is opened.
LEMMA OpenFileStep ==
  ASSUME IInv, NEW d \in Dev, OpenFile(d)
  PROVE  IInv'
<1>1. /\ phase = 0 /\ adding = NoAdd /\ d \in Attached /\ users[d] < MaxUsers /\ Open(d)
      /\ users' = [users EXCEPT ![d] = @ + 1]
      /\ UNCHANGED <<made, kind, parent, list, pvs, dropped, adding, phase, misclosed>>
  BY DEF OpenFile
<1>2. /\ refcnt' \in [Dev -> Nat]
      /\ \A e \in Dev : refcnt'[e] = refcnt[e] + (IF d = e THEN 1 ELSE 0)
  BY <1>1, OpenFacts DEF IInv
<1>3. /\ users' \in [Dev -> 0..MaxUsers]
      /\ \A e \in Dev : users'[e] = users[e] + (IF d = e THEN 1 ELSE 0)
  <2>1. users \in [Dev -> 0..MaxUsers] /\ MaxUsers \in Nat
    BY DevicesAssumption DEF IInv, TypeOK
  <2> QED BY <1>1, <2>1
<1>4. Attached' = Attached /\ Attached \subseteq Dev /\ d \in 1..made /\ made \in Nat
  BY <1>1, KidsSame, AttachedFacts DEF IInv
<1>5. RefsInv'
  <2> SUFFICES ASSUME NEW e \in Attached
               PROVE  /\ refcnt'[e] \in Nat /\ Holders(e)' \in Nat
                      /\ refcnt'[e] + Holders(e) = refcnt[e] + Holders(e)'
    BY <1>1, <1>4, RefsKept
  <2>1. e \in Dev /\ Vols(e)' = Vols(e) /\ Adds(e)' = Adds(e)
    BY <1>1, <1>4 DEF Vols, Adds, Elems
  <2>2. users[e] \in Nat /\ Vols(e) \in Nat /\ Adds(e) \in Nat /\ refcnt[e] \in Nat
    BY HeldFacts
  <2> DEFINE n == IF d = e THEN 1 ELSE 0
  <2>3. /\ n \in Nat /\ refcnt'[e] \in Nat /\ users'[e] \in Nat
        /\ refcnt'[e] = refcnt[e] + n /\ users'[e] = users[e] + n
    BY <1>2, <1>3, <2>1, <2>2
  <2> HIDE DEF n
  <2>4. /\ refcnt'[e] + 0 = refcnt[e] + n
        /\ users'[e] + Vols(e)' + Adds(e)' + 0 = users[e] + Vols(e) + Adds(e) + n
    BY <2>1, <2>2, <2>3
  <2> QED BY <1>1, <2>3, <2>4, CountsMove
<1>6. \A e \in Dev : made < e => refcnt'[e] = 0
  <2> SUFFICES ASSUME NEW e \in Dev, made < e PROVE refcnt'[e] = 0
    OBVIOUS
  <2>1. d # e
    BY <1>4
  <2>2. refcnt[e] = 0
    BY DEF IInv, BornInv
  <2> QED BY <1>2, <2>1, <2>2
<1>7. AddInv' /\ PvsInv'
  BY <1>1 DEF IInv, AddInv, PvsInv
<1>8. \A e \in Dev : users'[e] > 0 => e \in Attached
  BY <1>1, <1>3 DEF IInv, ParentsAttached
<1>9. /\ pvs' \in Seq(Dev) /\ dropped' \subseteq Dev
      /\ adding' \in [kind : Kinds \cup {"none"}, parent : Dev \cup {Host}]
      /\ Elems(pvs)' \cup dropped' \subseteq Attached
  BY <1>1 DEF IInv, TypeOK, ParentsAttached, Elems
<1> QED BY <1>1, <1>2, <1>3, <1>5, <1>6, <1>7, <1>8, <1>9, Stays

\* A file is closed.
LEMMA CloseFileStep ==
  ASSUME IInv, NEW d \in Dev, CloseFile(d)
  PROVE  IInv'
<1>1. /\ phase = 0 /\ adding = NoAdd /\ users[d] > 0 /\ Close(d)
      /\ users' = [users EXCEPT ![d] = @ - 1]
      /\ UNCHANGED <<made, kind, parent, list, pvs, dropped, adding, phase, misclosed>>
  BY DEF CloseFile
<1>2. d \in Attached
  BY <1>1 DEF IInv, ParentsAttached
<1>3. refcnt[d] >= 1
  BY <1>1, <1>2, HeldFacts
<1>4. /\ refcnt' \in [Dev -> Nat]
      /\ \A e \in Dev : refcnt[e] = refcnt'[e] + (IF d = e THEN 1 ELSE 0)
  BY <1>1, <1>3, CloseFacts DEF IInv
<1>5. /\ users' \in [Dev -> 0..MaxUsers]
      /\ \A e \in Dev : users[e] = users'[e] + (IF d = e THEN 1 ELSE 0)
  <2>1. users \in [Dev -> 0..MaxUsers] /\ MaxUsers \in Nat
    BY DevicesAssumption DEF IInv, TypeOK
  <2> QED BY <1>1, <2>1
<1>6. Attached' = Attached /\ Attached \subseteq Dev
  BY <1>1, KidsSame, AttachedFacts DEF IInv
<1>7. RefsInv'
  <2> SUFFICES ASSUME NEW e \in Attached
               PROVE  /\ refcnt'[e] \in Nat /\ Holders(e)' \in Nat
                      /\ refcnt'[e] + Holders(e) = refcnt[e] + Holders(e)'
    BY <1>1, <1>6, RefsKept
  <2>1. e \in Dev /\ Vols(e)' = Vols(e) /\ Adds(e)' = Adds(e)
    BY <1>1, <1>6 DEF Vols, Adds, Elems
  <2>2. users[e] \in Nat /\ Vols(e) \in Nat /\ Adds(e) \in Nat /\ refcnt[e] \in Nat
    BY HeldFacts
  <2> DEFINE n == IF d = e THEN 1 ELSE 0
  <2>3. /\ n \in Nat /\ refcnt'[e] \in Nat /\ users'[e] \in Nat
        /\ refcnt[e] = refcnt'[e] + n /\ users[e] = users'[e] + n
    BY <1>4, <1>5, <2>1, <2>2
  <2> HIDE DEF n
  <2>4. /\ refcnt'[e] + n = refcnt[e] + 0
        /\ users'[e] + Vols(e)' + Adds(e)' + n = users[e] + Vols(e) + Adds(e) + 0
    BY <2>1, <2>2, <2>3
  <2> QED BY <1>1, <2>3, <2>4, CountsMove
<1>8. \A e \in Dev : made < e => refcnt'[e] = 0
  BY <1>4 DEF IInv, BornInv
<1>9. AddInv' /\ PvsInv'
  BY <1>1 DEF IInv, AddInv, PvsInv
<1>10. \A e \in Dev : users'[e] > 0 => e \in Attached
  BY <1>1, <1>5 DEF IInv, ParentsAttached
<1>11. /\ pvs' \in Seq(Dev) /\ dropped' \subseteq Dev
       /\ adding' \in [kind : Kinds \cup {"none"}, parent : Dev \cup {Host}]
       /\ Elems(pvs)' \cup dropped' \subseteq Attached
  BY <1>1 DEF IInv, TypeOK, ParentsAttached, Elems
<1> QED BY <1>1, <1>4, <1>5, <1>7, <1>8, <1>9, <1>10, <1>11, Stays
\* A volume is found for the first time.
LEMMA ScanStep ==
  ASSUME IInv, NEW d \in Dev, Scan(d)
  PROVE  IInv'
<1>1. /\ phase = 0 /\ adding = NoAdd /\ d \in Attached /\ d \notin Elems(pvs) /\ Open(d)
      /\ pvs' = Append(pvs, d)
      /\ UNCHANGED <<made, kind, parent, list, users, dropped, adding, phase, misclosed>>
  BY DEF Scan
<1>2. /\ refcnt' \in [Dev -> Nat]
      /\ \A e \in Dev : refcnt'[e] = refcnt[e] + (IF d = e THEN 1 ELSE 0)
  BY <1>1, OpenFacts DEF IInv
<1>3. Attached' = Attached /\ Attached \subseteq Dev /\ d \in 1..made /\ made \in Nat
  BY <1>1, KidsSame, AttachedFacts DEF IInv
<1>4. pvs \in Seq(Dev)
  BY DEF IInv, TypeOK
<1>5. /\ pvs' \in Seq(Dev) /\ Len(pvs) \in Nat /\ Len(pvs') = Len(pvs) + 1
      /\ \A i \in 1..Len(pvs) : pvs'[i] = pvs[i]
      /\ pvs'[Len(pvs) + 1] = d
  BY <1>1, <1>4, AppendFacts
<1>6. \A i \in 1..Len(pvs') : i \in 1..Len(pvs) \/ i = Len(pvs) + 1
  BY <1>5
<1>7. Elems(pvs)' = Elems(pvs) \cup {d}
  <2>1. \A x : x \in Elems(pvs)' <=> \E i \in 1..Len(pvs') : pvs'[i] = x
    BY DEF Elems
  <2>2. \A x : x \in Elems(pvs) <=> \E i \in 1..Len(pvs) : pvs[i] = x
    BY DEF Elems
  <2>3. 1..Len(pvs) \subseteq 1..Len(pvs') /\ Len(pvs) + 1 \in 1..Len(pvs')
    BY <1>5
  <2>4. ASSUME NEW x PROVE x \in Elems(pvs)' <=> x \in Elems(pvs) \cup {d}
    BY <1>5, <1>6, <2>1, <2>2, <2>3
  <2> QED BY <2>4
<1>8. RefsInv'
  <2> SUFFICES ASSUME NEW e \in Attached
               PROVE  /\ refcnt'[e] \in Nat /\ Holders(e)' \in Nat
                      /\ refcnt'[e] + Holders(e) = refcnt[e] + Holders(e)'
    BY <1>1, <1>3, RefsKept
  <2> DEFINE n == IF d = e THEN 1 ELSE 0
  <2>1. e \in Dev /\ Adds(e)' = Adds(e) /\ users'[e] = users[e]
    BY <1>1, <1>3 DEF Adds
  <2>2. users[e] \in Nat /\ Vols(e) \in Nat /\ Adds(e) \in Nat /\ refcnt[e] \in Nat
    BY HeldFacts
  <2>3. n \in Nat /\ Vols(e)' = Vols(e) + n
    BY <1>1, <1>7 DEF Vols
  <2>4. refcnt'[e] \in Nat /\ refcnt'[e] = refcnt[e] + n
    BY <1>2, <2>1
  <2> HIDE DEF n
  <2>5. /\ refcnt'[e] + 0 = refcnt[e] + n /\ users'[e] \in Nat
        /\ users'[e] + Vols(e)' + Adds(e)' + 0 = users[e] + Vols(e) + Adds(e) + n
    BY <2>1, <2>2, <2>3, <2>4
  <2> QED BY <1>1, <2>3, <2>4, <2>5, CountsMove
<1>9. \A e \in Dev : made < e => refcnt'[e] = 0
  <2> SUFFICES ASSUME NEW e \in Dev, made < e PROVE refcnt'[e] = 0
    OBVIOUS
  <2>1. d # e
    BY <1>3
  <2>2. refcnt[e] = 0
    BY DEF IInv, BornInv
  <2> QED BY <1>2, <2>1, <2>2
<1>10. PvsInv'
  <2>1. \A i \in 1..Len(pvs) : pvs[i] # d
    BY <1>1 DEF Elems
  <2>2. \A i, j \in 1..Len(pvs) : pvs[i] = pvs[j] => i = j
    BY DEF IInv, PvsInv
  <2> QED BY <1>5, <1>6, <2>1, <2>2 DEF PvsInv
<1>11. AddInv'
  BY <1>1 DEF IInv, AddInv
<1>12. \A e \in Dev : users'[e] > 0 => e \in Attached
  BY <1>1 DEF IInv, ParentsAttached
<1>13. /\ users' \in [Dev -> 0..MaxUsers] /\ dropped' \subseteq Dev
       /\ adding' \in [kind : Kinds \cup {"none"}, parent : Dev \cup {Host}]
  BY <1>1 DEF IInv, TypeOK
<1>14. Elems(pvs)' \cup dropped' \subseteq Attached
  BY <1>1, <1>7 DEF IInv, ParentsAttached
<1> QED BY <1>1, <1>2, <1>5, <1>8, <1>9, <1>10, <1>11, <1>12, <1>13, <1>14, Stays

\* A volume moves to a smaller device: the one it leaves keeps a reference.
LEMMA ScanSmallerStep ==
  ASSUME IInv, NEW d \in Dev, NEW k, ScanSmaller(d, k)
  PROVE  IInv'
<1> DEFINE o == pvs[k]
<1>1. /\ phase = 0 /\ adding = NoAdd /\ d \in Attached /\ d \notin Elems(pvs) /\ Open(d)
      /\ k \in 1..Len(pvs) /\ pvs' = [pvs EXCEPT ![k] = d] /\ dropped' = dropped \cup {o}
      /\ UNCHANGED <<made, kind, parent, list, users, adding, phase, misclosed>>
  BY DEF ScanSmaller
<1>2. /\ refcnt' \in [Dev -> Nat]
      /\ \A e \in Dev : refcnt'[e] = refcnt[e] + (IF d = e THEN 1 ELSE 0)
  BY <1>1, OpenFacts DEF IInv
<1>3. Attached' = Attached /\ Attached \subseteq Dev /\ d \in 1..made /\ made \in Nat
  BY <1>1, KidsSame, AttachedFacts DEF IInv
<1>4. pvs \in Seq(Dev)
  BY DEF IInv, TypeOK
<1>5. o \in Dev /\ o \in Elems(pvs) /\ o # d
  BY <1>1, <1>4 DEF Elems
<1>6. /\ pvs' \in Seq(Dev) /\ Len(pvs') = Len(pvs) /\ pvs'[k] = d
      /\ \A i \in 1..Len(pvs) : i # k => pvs'[i] = pvs[i]
  BY <1>1, <1>4
<1>7. /\ \A i \in 1..Len(pvs) : i # k => pvs[i] # o
      /\ \A i \in 1..Len(pvs) : pvs[i] # d
      /\ \A i, j \in 1..Len(pvs) : pvs[i] = pvs[j] => i = j
  BY <1>1 DEF IInv, PvsInv, Elems
<1>8. Elems(pvs)' = (Elems(pvs) \ {o}) \cup {d}
  <2>1. \A x : x \in Elems(pvs)' <=> \E i \in 1..Len(pvs) : pvs'[i] = x
    BY <1>6 DEF Elems
  <2>2. \A x : x \in Elems(pvs) <=> \E i \in 1..Len(pvs) : pvs[i] = x
    BY DEF Elems
  <2> HIDE DEF o
  <2>3. ASSUME NEW x, x \in Elems(pvs)' PROVE x \in (Elems(pvs) \ {o}) \cup {d}
    <3>1. PICK i \in 1..Len(pvs) : pvs'[i] = x
      BY <2>1, <2>3
    <3>2. CASE i = k
      BY <1>6, <3>1, <3>2
    <3>3. CASE i # k
      <4>1. pvs[i] = x /\ x # o
        BY <1>6, <1>7, <3>1, <3>3
      <4> QED BY <2>2, <4>1
    <3> QED BY <3>2, <3>3
  <2>4. ASSUME NEW x, x \in (Elems(pvs) \ {o}) \cup {d} PROVE x \in Elems(pvs)'
    <3>1. CASE x = d
      BY <1>1, <1>6, <2>1, <3>1
    <3>2. CASE x # d
      <4>1. PICK i \in 1..Len(pvs) : pvs[i] = x
        BY <2>2, <2>4, <3>2
      <4>2. i # k
        BY <2>4, <3>2, <4>1 DEF o
      <4> QED BY <1>6, <2>1, <4>1, <4>2
    <3> QED BY <3>1, <3>2
  <2> QED BY <2>3, <2>4
<1> HIDE DEF o
<1>9. RefsInv'
  <2>1. ASSUME NEW e \in Attached
        PROVE  /\ refcnt'[e] >= Holders(e)'
               /\ IF e \in dropped' THEN refcnt'[e] > Holders(e)' ELSE refcnt'[e] = Holders(e)'
    <3> DEFINE n == IF d = e THEN 1 ELSE 0
               m == IF o = e THEN 1 ELSE 0
    <3>1. e \in Dev /\ Adds(e)' = Adds(e) /\ users'[e] = users[e] /\ Kids(e)' = Kids(e)
      BY <1>1, <1>3, KidsSame DEF Adds, IInv
    <3>2. /\ users[e] \in Nat /\ Vols(e) \in Nat /\ Adds(e) \in Nat /\ refcnt[e] \in Nat
          /\ Kids(e) \in Nat /\ Holders(e) \in Nat
      BY HeldFacts
    <3>3. n \in Nat /\ m \in Nat /\ Vols(e)' \in Nat /\ Vols(e)' + m = Vols(e) + n
      <4>1. n \in Nat /\ m \in Nat /\ Vols(e)' \in Nat
        BY DEF Vols
      <4>2. CASE e = d
        <5>1. e \notin Elems(pvs) /\ e \in Elems(pvs)'
          BY <1>1, <1>8, <4>2
        <5>2. Vols(e) = 0 /\ Vols(e)' = 1
          BY <5>1 DEF Vols
        <5>3. n = 1 /\ m = 0
          BY <1>5, <4>2
        <5> QED BY <4>1, <5>2, <5>3
      <4>3. CASE e = o
        BY <1>5, <1>8, <4>3 DEF Vols
      <4>4. CASE e # d /\ e # o
        BY <1>8, <4>4 DEF Vols
      <4> QED BY <4>1, <4>2, <4>3, <4>4
    <3>4. refcnt'[e] \in Nat /\ refcnt'[e] = refcnt[e] + n
      BY <1>2, <3>1
    <3>5. IF e \in dropped THEN refcnt[e] > Holders(e) ELSE refcnt[e] = Holders(e)
      BY <1>1 DEF IInv, RefsInv, RefsExact
    <3>6. Holders(e)' \in Nat /\ Holders(e)' + m = Holders(e) + n
      <4>1. /\ Holders(e) = users[e] + Kids(e) + Vols(e) + Adds(e)
            /\ Holders(e)' = users[e] + Kids(e) + Vols(e)' + Adds(e)
        BY <3>1, HoldersSum
      <4> HIDE DEF n, m
      <4> QED BY <3>2, <3>3, <4>1
    <3>7. e \in dropped' <=> e \in dropped \/ o = e
      BY <1>1
    <3> QED BY <3>2, <3>3, <3>4, <3>5, <3>6, <3>7
  <2> QED BY <1>3, <2>1 DEF RefsInv, RefsExact
<1>10. \A e \in Dev : made < e => refcnt'[e] = 0
  <2> SUFFICES ASSUME NEW e \in Dev, made < e PROVE refcnt'[e] = 0
    OBVIOUS
  <2>1. d # e
    BY <1>3
  <2>2. refcnt[e] = 0
    BY DEF IInv, BornInv
  <2> QED BY <1>2, <2>1, <2>2
<1>11. PvsInv'
  BY <1>6, <1>7 DEF PvsInv
<1>12. AddInv'
  BY <1>1 DEF IInv, AddInv
<1>13. \A e \in Dev : users'[e] > 0 => e \in Attached
  BY <1>1 DEF IInv, ParentsAttached
<1>14. /\ users' \in [Dev -> 0..MaxUsers] /\ dropped' \subseteq Dev
       /\ adding' \in [kind : Kinds \cup {"none"}, parent : Dev \cup {Host}]
  BY <1>1, <1>5 DEF IInv, TypeOK
<1>15. Elems(pvs)' \cup dropped' \subseteq Attached
  BY <1>1, <1>5, <1>8 DEF IInv, ParentsAttached
<1> QED BY <1>1, <1>2, <1>6, <1>9, <1>10, <1>11, <1>12, <1>13, <1>14, <1>15, Stays

\* A device of which a volume lost a handle has more references than holders.
LEMMA HandleLost ==
  ASSUME IInv, phase = 0, UNCHANGED phase, Attached' = Attached, NEW o \in Dev,
         NEW n \in {0, 1}, NEW m \in {0, 1}, n # m,
         dropped' = dropped \cup {o},
         \A e \in Attached :
           /\ refcnt'[e] = refcnt[e] + (IF o = e THEN n ELSE 0)
           /\ Holders(e)' \in Nat /\ Holders(e)' + (IF o = e THEN m ELSE 0) = Holders(e)
  PROVE  RefsInv'
<1>1. n \in Nat /\ m \in Nat /\ n + m = 1
  OBVIOUS
<1>2. ASSUME NEW e \in Attached
      PROVE  /\ refcnt'[e] >= Holders(e)'
             /\ IF e \in dropped' THEN refcnt'[e] > Holders(e)' ELSE refcnt'[e] = Holders(e)'
  <2>1. /\ refcnt'[e] = refcnt[e] + (IF o = e THEN n ELSE 0)
        /\ Holders(e)' \in Nat /\ Holders(e)' + (IF o = e THEN m ELSE 0) = Holders(e)
    BY <1>2
  <2>2. refcnt[e] \in Nat /\ Holders(e) \in Nat
    BY HeldFacts
  <2>3. /\ refcnt[e] >= Holders(e)
        /\ IF e \in dropped THEN refcnt[e] > Holders(e) ELSE refcnt[e] = Holders(e)
    BY DEF IInv, RefsInv, RefsExact
  <2>4. CASE o = e
    <3>1. refcnt'[e] = refcnt[e] + n /\ Holders(e)' + m = Holders(e) /\ e \in dropped'
      BY <2>1, <2>4
    <3>2. refcnt'[e] > Holders(e)'
      BY <1>1, <2>1, <2>2, <2>3, <3>1
    <3>3. refcnt'[e] >= Holders(e)'
      BY <1>1, <2>1, <2>2, <2>3, <3>1
    <3> QED BY <3>1, <3>2, <3>3
  <2>5. CASE o # e
    <3>1. refcnt'[e] = refcnt[e] /\ Holders(e)' = Holders(e) /\ (e \in dropped' <=> e \in dropped)
      BY <2>1, <2>2, <2>5
    <3> QED BY <2>3, <3>1
  <2> QED BY <2>4, <2>5
<1> QED BY <1>2 DEF RefsInv, RefsExact

\* A volume moves within its device, which is opened once more.
LEMMA ScanWithinStep ==
  ASSUME IInv, NEW k, ScanWithin(k)
  PROVE  IInv'
<1>0. PICK o : o = pvs[k]
  OBVIOUS
<1>1. /\ phase = 0 /\ adding = NoAdd /\ Open(o) /\ k \in 1..Len(pvs)
      /\ dropped' = dropped \cup {o}
      /\ UNCHANGED <<made, kind, parent, list, users, pvs, adding, phase, misclosed>>
  BY <1>0 DEF ScanWithin
<1>2. o \in Dev /\ o \in Elems(pvs) /\ pvs \in Seq(Dev)
  BY <1>0, <1>1 DEF IInv, TypeOK, Elems
<1>3. o \in Attached
  BY <1>1, <1>2 DEF IInv, ParentsAttached
<1>4. /\ refcnt' \in [Dev -> Nat]
      /\ \A e \in Dev : refcnt'[e] = refcnt[e] + (IF o = e THEN 1 ELSE 0)
  BY <1>1, <1>2, OpenFacts DEF IInv
<1>5. Attached' = Attached /\ Attached \subseteq Dev /\ o \in 1..made /\ made \in Nat
  BY <1>1, <1>3, KidsSame, AttachedFacts DEF IInv
<1>6. RefsInv'
  <2>1. ASSUME NEW e \in Attached
        PROVE  /\ refcnt'[e] = refcnt[e] + (IF o = e THEN 1 ELSE 0)
               /\ Holders(e)' \in Nat /\ Holders(e)' + (IF o = e THEN 0 ELSE 0) = Holders(e)
    <3>1. /\ e \in Dev /\ users'[e] = users[e] /\ Kids(e)' = Kids(e)
          /\ Vols(e)' = Vols(e) /\ Adds(e)' = Adds(e)
      BY <1>1, <1>5, KidsSame DEF Adds, Vols, Elems, IInv
    <3>2. Holders(e)' = Holders(e) /\ Holders(e) \in Nat
      BY <3>1, HoldersSum, HeldFacts
    <3> QED BY <1>4, <3>1, <3>2
  <2> QED BY <1>1, <1>2, <1>5, <2>1, HandleLost
<1>7. \A e \in Dev : made < e => refcnt'[e] = 0
  <2> SUFFICES ASSUME NEW e \in Dev, made < e PROVE refcnt'[e] = 0
    OBVIOUS
  <2>1. o # e
    BY <1>5
  <2>2. refcnt[e] = 0
    BY DEF IInv, BornInv
  <2> QED BY <1>4, <2>1, <2>2
<1>8. PvsInv' /\ AddInv'
  BY <1>1 DEF IInv, AddInv, PvsInv
<1>9. \A e \in Dev : users'[e] > 0 => e \in Attached
  BY <1>1 DEF IInv, ParentsAttached
<1>10. /\ users' \in [Dev -> 0..MaxUsers] /\ dropped' \subseteq Dev
       /\ adding' \in [kind : Kinds \cup {"none"}, parent : Dev \cup {Host}]
       /\ pvs' \in Seq(Dev)
  BY <1>1, <1>2 DEF IInv, TypeOK
<1>11. Elems(pvs)' \cup dropped' \subseteq Attached
  BY <1>1, <1>3 DEF IInv, ParentsAttached, Elems
<1> QED BY <1>1, <1>4, <1>6, <1>7, <1>8, <1>9, <1>10, <1>11, Stays

\* A volume loses its device, which keeps the reference.
LEMMA ScanLostStep ==
  ASSUME IInv, NEW k, ScanLost(k)
  PROVE  IInv'
<1>0. PICK o, s, t : o = pvs[k] /\ s = pvs /\ t = RemoveAt(s, k)
  OBVIOUS
<1>1. /\ phase = 0 /\ adding = NoAdd /\ k \in 1..Len(s) /\ pvs' = t
      /\ dropped' = dropped \cup {o}
      /\ UNCHANGED <<made, kind, parent, list, refcnt, users, adding, phase, misclosed>>
  BY <1>0 DEF ScanLost
<1>2. o \in Dev /\ o \in Elems(pvs) /\ s \in Seq(Dev) /\ o = s[k]
  BY <1>0, <1>1 DEF IInv, TypeOK, Elems
<1>3. o \in Attached
  BY <1>1, <1>2 DEF IInv, ParentsAttached
<1>4. Attached' = Attached /\ Attached \subseteq Dev
  BY <1>1, KidsSame, AttachedFacts DEF IInv
<1>5. /\ t \in Seq(Dev) /\ Len(s) \in Nat /\ Len(t) = Len(s) - 1
      /\ \A j \in 1..Len(s) - 1 : t[j] = IF j < k THEN s[j] ELSE s[j + 1]
  BY <1>0, <1>1, <1>2, RemoveAtFacts
<1>6. \A i, j \in 1..Len(s) : s[i] = s[j] => i = j
  BY <1>0 DEF IInv, PvsInv
<1>7. Elems(t) = Elems(s) \ {o}
  <2>1. Cut(s, t, k)
    BY <1>5, <1>6 DEF Cut
  <2> QED BY <1>1, <1>2, <1>5, <2>1, CutFacts
<1>8. Elems(pvs)' = Elems(pvs) \ {o}
  <2>1. Elems(pvs)' = Elems(t)
    BY <1>1 DEF Elems
  <2> QED BY <1>0, <1>7, <2>1
<1>9. RefsInv'
  <2>1. ASSUME NEW e \in Attached
        PROVE  /\ refcnt'[e] = refcnt[e] + (IF o = e THEN 0 ELSE 0)
               /\ Holders(e)' \in Nat /\ Holders(e)' + (IF o = e THEN 1 ELSE 0) = Holders(e)
    <3>1. /\ e \in Dev /\ users'[e] = users[e] /\ Kids(e)' = Kids(e)
          /\ Adds(e)' = Adds(e) /\ refcnt'[e] = refcnt[e]
      BY <1>1, <1>4, KidsSame DEF Adds, IInv
    <3>2. /\ users[e] \in Nat /\ Adds(e) \in Nat /\ refcnt[e] \in Nat /\ Kids(e) \in Nat
      BY HeldFacts
    <3>3. PICK m, v, w : /\ m = (IF o = e THEN 1 ELSE 0) /\ v = Vols(e) /\ w = Vols(e)'
      OBVIOUS
    <3>4. m \in Nat /\ v \in Nat /\ w \in Nat /\ w + m = v
      BY <1>2, <1>8, <3>3 DEF Vols
    <3>5. /\ Holders(e) = users[e] + Kids(e) + v + Adds(e)
          /\ Holders(e)' = users[e] + Kids(e) + w + Adds(e)
      BY <3>1, <3>3, HoldersSum
    <3>6. Holders(e)' \in Nat /\ Holders(e)' + m = Holders(e)
      BY <3>2, <3>4, <3>5
    <3> QED BY <3>1, <3>2, <3>3, <3>6
  <2> QED BY <1>1, <1>2, <1>4, <2>1, HandleLost
<1>10. PvsInv'
  <2> SUFFICES ASSUME NEW i \in 1..Len(t), NEW j \in 1..Len(t), t[i] = t[j] PROVE i = j
    BY <1>1 DEF PvsInv
  <2>1. PICK n : n = Len(s)
    OBVIOUS
  <2>2. n \in Nat /\ k \in 1..n /\ i \in 1..(n - 1) /\ j \in 1..(n - 1)
    BY <1>1, <1>5, <2>1
  <2>3. PICK a, b : /\ a = (IF i < k THEN i ELSE i + 1)
                    /\ b = (IF j < k THEN j ELSE j + 1)
    OBVIOUS
  <2>4. a \in 1..n /\ b \in 1..n
    BY <2>2, <2>3
  <2>5. t[i] = s[a] /\ t[j] = s[b]
    BY <1>5, <2>1, <2>2, <2>3
  <2>6. a = b
    BY <1>6, <2>1, <2>4, <2>5
  <2> QED BY <2>2, <2>3, <2>6
<1>11. \A e \in Dev : made < e => refcnt'[e] = 0
  BY <1>1 DEF IInv, BornInv
<1>12. AddInv'
  BY <1>1 DEF AddInv
<1>13. \A e \in Dev : users'[e] > 0 => e \in Attached
  BY <1>1 DEF IInv, ParentsAttached
<1>14. /\ users' \in [Dev -> 0..MaxUsers] /\ dropped' \subseteq Dev
       /\ adding' \in [kind : Kinds \cup {"none"}, parent : Dev \cup {Host}]
       /\ refcnt' \in [Dev -> Nat] /\ pvs' \in Seq(Dev)
  BY <1>1, <1>2, <1>5 DEF IInv, TypeOK
<1>15. Elems(pvs)' \cup dropped' \subseteq Attached
  BY <1>1, <1>3, <1>8 DEF IInv, ParentsAttached
<1> QED BY <1>1, <1>9, <1>10, <1>11, <1>12, <1>13, <1>14, <1>15, Stays

\* An addition opens what the device will lie on.
LEMMA AddBeginStep ==
  ASSUME IInv, NEW k \in Kinds, NEW p \in Dev \cup {Host}, AddBegin(k, p)
  PROVE  IInv'
<1>1. /\ phase = 0 /\ adding = NoAdd /\ made < MaxDevs /\ p \in Attached \cup {Host}
      /\ (k = "file" => p = Host) /\ Open(p) /\ adding' = [kind |-> k, parent |-> p]
      /\ UNCHANGED <<made, kind, parent, list, users, pvs, dropped, phase, misclosed>>
  BY DEF AddBegin
<1>2. /\ refcnt' \in [Dev -> Nat]
      /\ \A e \in Dev : refcnt'[e] = refcnt[e] + (IF p = e THEN 1 ELSE 0)
  BY <1>1, OpenFacts DEF IInv
<1>3. /\ Attached' = Attached /\ Attached \subseteq Dev /\ made \in Nat
      /\ p \in Attached => p \in 1..made
  BY <1>1, KidsSame, AttachedFacts DEF IInv
<1>4. adding' # NoAdd /\ adding'.kind = k /\ adding'.parent = p
  BY <1>1 DEF NoAdd, Kinds
<1>5. RefsInv'
  <2> SUFFICES ASSUME NEW e \in Attached
               PROVE  /\ refcnt'[e] \in Nat /\ Holders(e)' \in Nat
                      /\ refcnt'[e] + Holders(e) = refcnt[e] + Holders(e)'
    BY <1>1, <1>3, RefsKept
  <2> DEFINE n == IF p = e THEN 1 ELSE 0
  <2>1. e \in Dev /\ Vols(e)' = Vols(e) /\ users'[e] = users[e]
    BY <1>1, <1>3 DEF Vols, Elems
  <2>2. users[e] \in Nat /\ Vols(e) \in Nat /\ refcnt[e] \in Nat
    BY HeldFacts
  <2>3. n \in Nat /\ Adds(e) = 0 /\ Adds(e)' = n
    BY <1>1, <1>4 DEF Adds
  <2>4. refcnt'[e] \in Nat /\ refcnt'[e] = refcnt[e] + n
    BY <1>2, <2>1
  <2> HIDE DEF n
  <2>5. /\ refcnt'[e] + 0 = refcnt[e] + n /\ users'[e] \in Nat
        /\ users'[e] + Vols(e)' + Adds(e)' + 0 = users[e] + Vols(e) + Adds(e) + n
    BY <2>1, <2>2, <2>3, <2>4
  <2> QED BY <1>1, <2>3, <2>4, <2>5, CountsMove
<1>6. \A e \in Dev : made < e => refcnt'[e] = 0
  <2> SUFFICES ASSUME NEW e \in Dev, made < e PROVE refcnt'[e] = 0
    OBVIOUS
  <2>1. p # e
    BY <1>1, <1>3 DEF Host, Dev
  <2>2. refcnt[e] = 0
    BY DEF IInv, BornInv
  <2> QED BY <1>2, <2>1, <2>2
<1>7. AddInv'
  BY <1>1, <1>3, <1>4 DEF AddInv
<1>8. PvsInv' /\ pvs' \in Seq(Dev) /\ users' \in [Dev -> 0..MaxUsers] /\ dropped' \subseteq Dev
  BY <1>1 DEF IInv, TypeOK, PvsInv
<1>9. adding' \in [kind : Kinds \cup {"none"}, parent : Dev \cup {Host}]
  BY <1>1
<1>10. /\ \A e \in Dev : users'[e] > 0 => e \in Attached
       /\ Elems(pvs)' \cup dropped' \subseteq Attached
  BY <1>1 DEF IInv, ParentsAttached, Elems
<1> QED BY <1>1, <1>2, <1>5, <1>6, <1>7, <1>8, <1>9, <1>10, Stays

\* An addition fails and closes it.
LEMMA AddFailStep ==
  ASSUME IInv, AddFail
  PROVE  IInv'
<1> DEFINE p == adding.parent
<1>1. /\ adding # NoAdd /\ Close(p) /\ adding' = NoAdd
      /\ UNCHANGED <<made, kind, parent, list, users, pvs, dropped, phase, misclosed>>
  BY DEF AddFail
<1>2. phase = 0 /\ p \in Attached \cup {Host} /\ p \in Dev \cup {Host}
  BY <1>1 DEF IInv, AddInv, TypeOK
<1>3. p = Host \/ refcnt[p] >= 1
  <2> SUFFICES ASSUME p \in Attached PROVE refcnt[p] >= 1
    BY <1>2
  <2>1. Adds(p) = 1
    BY <1>1 DEF Adds
  <2> HIDE DEF p
  <2> QED BY <2>1, HeldFacts
<1> HIDE DEF p
<1>4. /\ refcnt' \in [Dev -> Nat]
      /\ \A e \in Dev : refcnt[e] = refcnt'[e] + (IF p = e THEN 1 ELSE 0)
  BY <1>1, <1>2, <1>3, CloseFacts DEF IInv
<1>5. Attached' = Attached /\ Attached \subseteq Dev
  BY <1>1, KidsSame, AttachedFacts DEF IInv
<1>6. RefsInv'
  <2> SUFFICES ASSUME NEW e \in Attached
               PROVE  /\ refcnt'[e] \in Nat /\ Holders(e)' \in Nat
                      /\ refcnt'[e] + Holders(e) = refcnt[e] + Holders(e)'
    BY <1>1, <1>2, <1>5, RefsKept
  <2> DEFINE n == IF p = e THEN 1 ELSE 0
  <2>1. e \in Dev /\ Vols(e)' = Vols(e) /\ users'[e] = users[e]
    BY <1>1, <1>5 DEF Vols, Elems
  <2>2. users[e] \in Nat /\ Vols(e) \in Nat /\ refcnt[e] \in Nat
    BY HeldFacts
  <2>3. n \in Nat /\ Adds(e) = n /\ Adds(e)' = 0
    BY <1>1 DEF Adds, p
  <2>4. refcnt'[e] \in Nat /\ refcnt[e] = refcnt'[e] + n
    BY <1>4, <2>1
  <2> HIDE DEF n
  <2>5. /\ refcnt'[e] + n = refcnt[e] + 0 /\ users'[e] \in Nat
        /\ users'[e] + Vols(e)' + Adds(e)' + n = users[e] + Vols(e) + Adds(e) + 0
    BY <2>1, <2>2, <2>3, <2>4
  <2> QED BY <1>1, <2>3, <2>4, <2>5, CountsMove
<1>7. \A e \in Dev : made < e => refcnt'[e] = 0
  BY <1>4 DEF IInv, BornInv
<1>8. AddInv'
  BY <1>1 DEF AddInv
<1>9. PvsInv' /\ pvs' \in Seq(Dev) /\ users' \in [Dev -> 0..MaxUsers] /\ dropped' \subseteq Dev
  BY <1>1 DEF IInv, TypeOK, PvsInv
<1>10. adding' \in [kind : Kinds \cup {"none"}, parent : Dev \cup {Host}]
  BY <1>1 DEF NoAdd
<1>11. /\ \A e \in Dev : users'[e] > 0 => e \in Attached
       /\ Elems(pvs)' \cup dropped' \subseteq Attached
  BY <1>1, <1>2 DEF IInv, ParentsAttached, Elems
<1> QED BY <1>1, <1>2, <1>4, <1>6, <1>7, <1>8, <1>9, <1>10, <1>11, Stays

-----------------------------------------------------------------------------
(* Steps that change a list.                                               *)

\* A larger set has the sequences of a smaller one.
LEMMA SeqMono ==
  ASSUME NEW S, NEW T, S \subseteq T, NEW s \in Seq(S)
  PROVE  s \in Seq(T)
  OBVIOUS

\* A list has devices of its kind, each once.
LEMMA ListFacts ==
  ASSUME TypeOK, NEW k \in Kinds
  PROVE  /\ list[k] \in Seq(1..made) /\ Len(list[k]) \in Nat
         /\ \A i, j \in 1..Len(list[k]) :
              kind[list[k][i]] = k /\ (list[k][i] = list[k][j] => i = j)
         /\ \A x \in Elems(list[k]) : kind[x] = k
<1>1. list[k] \in Seq(1..made) /\ Len(list[k]) \in Nat
  BY DEF TypeOK
<1>2. \A i, j \in 1..Len(list[k]) :
        kind[list[k][i]] = k /\ (list[k][i] = list[k][j] => i = j)
  BY DEF TypeOK
<1> QED BY <1>1, <1>2 DEF Elems

\* What a list that lost one position means for the registry.
LEMMA Detach ==
  ASSUME IInv, NEW k \in Kinds, NEW i \in 1..Len(list[k]), NEW t \in Seq(1..made),
         Cut(list[k], t, i), list' = [list EXCEPT ![k] = t], UNCHANGED <<made, kind, parent>>
  PROVE  /\ Attached' = Attached \ {list[k][i]}
         /\ list' \in [Kinds -> Seq(1..made')] /\ OrderInv'
         /\ \A h \in Kinds : \A a, b \in 1..Len(list'[h]) :
              /\ kind'[list'[h][a]] = h
              /\ list'[h][a] = list'[h][b] => a = b
<1> DEFINE s == list[k]
           S == 1..made
           was(j) == IF j < i THEN j ELSE j + 1
<1>1. list \in [Kinds -> Seq(S)] /\ s \in Seq(S) /\ Len(s) \in Nat /\ t \in Seq(S)
  <2>1. list \in [Kinds -> Seq(S)]
    BY DEF IInv, TypeOK
  <2>2. s \in Seq(S) /\ Len(s) \in Nat
    BY ListFacts DEF IInv
  <2> QED BY <2>1, <2>2
<1>2. \A a, b \in 1..Len(s) : kind[s[a]] = k /\ (s[a] = s[b] => a = b)
  BY ListFacts DEF IInv
<1>3. \A a, b \in 1..Len(s) : a < b => s[b] < s[a]
  BY DEF IInv, OrderInv
<1>4. list' \in [Kinds -> Seq(S)] /\ list'[k] = t /\ \A h \in Kinds : h # k => list'[h] = list[h]
  <2> HIDE DEF S, s
  <2> QED BY <1>1
<1>5. \A j \in 1..Len(t) : was(j) \in 1..Len(s) /\ t[j] = s[was(j)]
  BY <1>1 DEF Cut
<1>6. \A a, b \in 1..Len(t) : (was(a) = was(b) => a = b) /\ (a < b => was(a) < was(b))
  BY <1>1 DEF Cut
<1>7. \A x \in Elems(s) : kind[x] = k
  BY <1>2 DEF Elems
<1>8. Elems(t) = Elems(s) \ {s[i]}
  <2> HIDE DEF S, s
  <2>4. s \in Seq(S) /\ t \in Seq(S)
    BY <1>1
  <2>5. Cut(s, t, i) /\ i \in 1..Len(s)
    BY DEF s
  <2> QED BY <2>4, <2>5, CutFacts
<1>9. s[i] \in Elems(s)
  BY DEF Elems
<1>10. \A h \in Kinds : h # k => s[i] \notin Elems(list[h])
  <2>1. \A h \in Kinds : \A x \in Elems(list[h]) : kind[x] = h
    BY ListFacts DEF IInv
  <2> QED BY <1>7, <1>9, <2>1
<1> HIDE DEF s, was, S
<1>11. Attached' = Attached \ {s[i]}
  <2>1. Attached' = UNION {Elems(list'[h]) : h \in Kinds}
    BY DEF Attached, Elems
  <2>2. Elems(list'[k]) = Elems(s) \ {s[i]} /\ s = list[k]
    BY <1>4, <1>8 DEF s
  <2>3. \A h \in Kinds : h # k => Elems(list'[h]) = Elems(list[h])
    BY <1>4
  <2>4. \A x : x \in Attached' <=> \E h \in Kinds : x \in Elems(list'[h])
    BY <2>1
  <2>5. \A x : x \in Attached <=> \E h \in Kinds : x \in Elems(list[h])
    BY DEF Attached
  <2>6. ASSUME NEW x \in Attached' PROVE x \in Attached /\ x # s[i]
    BY <1>10, <2>2, <2>3, <2>4, <2>5
  <2>7. ASSUME NEW x \in Attached, x # s[i] PROVE x \in Attached'
    BY <2>2, <2>3, <2>4, <2>5, <2>7
  <2> QED BY <2>6, <2>7
<1>12. OrderInv'
  <2> SUFFICES ASSUME NEW h \in Kinds, NEW a \in 1..Len(list'[h]), NEW b \in 1..Len(list'[h]), a < b
               PROVE  list'[h][b] < list'[h][a]
    BY DEF OrderInv
  <2>1. CASE h = k
    <3>1. a \in 1..Len(t) /\ b \in 1..Len(t) /\ list'[h] = t
      BY <1>4, <2>1
    <3>2. was(a) < was(b) /\ was(a) \in 1..Len(s) /\ was(b) \in 1..Len(s)
      BY <1>5, <1>6, <3>1
    <3>3. s[was(b)] < s[was(a)]
      BY <1>3, <3>2
    <3> QED BY <1>5, <3>1, <3>3
  <2>2. CASE h # k
    BY <1>4, <2>2 DEF IInv, OrderInv
  <2> QED BY <2>1, <2>2
<1>13. ASSUME NEW h \in Kinds, NEW a \in 1..Len(list'[h]), NEW b \in 1..Len(list'[h])
       PROVE  kind'[list'[h][a]] = h /\ (list'[h][a] = list'[h][b] => a = b)
  <2>1. CASE h = k
    <3>1. a \in 1..Len(t) /\ b \in 1..Len(t) /\ list'[h] = t
      BY <1>4, <2>1
    <3>2. /\ was(a) \in 1..Len(s) /\ was(b) \in 1..Len(s)
          /\ t[a] = s[was(a)] /\ t[b] = s[was(b)] /\ (was(a) = was(b) => a = b)
      BY <1>5, <1>6, <3>1
    <3> QED BY <1>2, <2>1, <3>1, <3>2
  <2>2. CASE h # k
    <3>1. list'[h] = list[h]
      BY <1>4, <2>2
    <3>2. kind[list[h][a]] = h /\ (list[h][a] = list[h][b] => a = b)
      BY <3>1, ListFacts DEF IInv
    <3> QED BY <3>1, <3>2
  <2> QED BY <2>1, <2>2
<1> QED BY <1>4, <1>11, <1>12, <1>13 DEF s, S

\* A device that nobody keeps open is removed.
LEMMA DelStep ==
  ASSUME IInv, NEW d \in Dev, Del(d)
  PROVE  IInv'
<1> DEFINE p == parent[d]
<1>1. /\ phase = 0 /\ adding = NoAdd /\ d \in Attached /\ refcnt[d] = 0 /\ Unlink(d) /\ Close(p)
      /\ UNCHANGED <<made, kind, parent, users, pvs, dropped, adding, phase, misclosed>>
  BY DEF Del
<1>2. kind[d] \in Kinds /\ list[kind[d]] \in Seq(1..made)
  BY DEF IInv, TypeOK
<1>3. PICK i \in 1..Len(list[kind[d]]) :
        list[kind[d]][i] = d /\ list' = [list EXCEPT ![kind[d]] = RemoveAt(list[kind[d]], i)]
  BY <1>1, Zenon DEF Unlink
<1>4. /\ Attached' = Attached \ {d} /\ list' \in [Kinds -> Seq(1..made')] /\ OrderInv'
      /\ \A h \in Kinds : \A a, b \in 1..Len(list'[h]) :
           kind'[list'[h][a]] = h /\ (list'[h][a] = list'[h][b] => a = b)
  <2> DEFINE k == kind[d]
             t == RemoveAt(list[k], i)
             S == 1..made
  <2> HIDE DEF S
  <2>1. list[k] \in Seq(S) /\ i \in 1..Len(list[k]) /\ k \in Kinds
    BY <1>2 DEF S
  <2>2. /\ t \in Seq(S) /\ Len(t) = Len(list[k]) - 1
        /\ \A j \in 1..Len(list[k]) - 1 : t[j] = IF j < i THEN list[k][j] ELSE list[k][j + 1]
    BY <2>1, RemoveAtFacts, Zenon
  <2>3. list' = [list EXCEPT ![k] = t] /\ list[k][i] = d
    BY <1>3, Zenon
  <2> HIDE DEF k, t
  <2>4. t \in Seq(1..made)
    BY <2>2 DEF S
  <2>5. UNCHANGED <<made, kind, parent>>
    BY <1>1
  <2>6. Cut(list[k], t, i)
    <3>1. \A a, b \in 1..Len(list[k]) : list[k][a] = list[k][b] => a = b
      BY <2>1, ListFacts DEF IInv
    <3> QED BY <2>2, <3>1, Zenon DEF Cut
  <2>7. PICK r : r = t
    OBVIOUS
  <2> QED BY <2>1, <2>3, <2>4, <2>5, <2>6, <2>7, Detach
<1>5. p \in Attached \cup {Host} /\ p \in Dev \cup {Host} /\ p < d
  BY <1>1 DEF IInv, ParentsAttached, BornInv, TypeOK
<1>6. /\ refcnt' \in [Dev -> Nat]
      /\ \A e \in Dev : refcnt[e] = refcnt'[e] + (IF p = e THEN 1 ELSE 0)
  <2>1. p = Host \/ refcnt[p] >= 1
    BY <1>1, <1>5, ParentHeld
  <2> HIDE DEF p
  <2> QED BY <1>1, <1>5, <2>1, CloseFacts DEF IInv
<1>7. /\ users[d] = 0 /\ d \notin Elems(pvs) /\ d \notin dropped
      /\ \A c \in Attached : parent[c] # d
  <2>1. /\ users[d] \in Nat /\ Kids(d) \in Nat /\ Vols(d) \in Nat /\ Adds(d) \in Nat
        /\ refcnt[d] >= users[d] + Kids(d) + Vols(d) + Adds(d) /\ Holders(d) \in Nat
    BY <1>1, HeldFacts
  <2>2. users[d] = 0 /\ Vols(d) = 0
    BY <1>1, <2>1
  <2>3. d \notin Elems(pvs)
    BY <2>2 DEF Vols
  <2>4. d \notin dropped
    BY <1>1, <2>1 DEF IInv, RefsInv, RefsExact
  <2>5. ASSUME NEW c \in Attached, parent[c] = d PROVE FALSE
    BY <1>1, <2>5, ParentHeld
  <2> QED BY <2>2, <2>3, <2>4, <2>5
<1>8. RefsInv'
  <2> SUFFICES ASSUME NEW e \in Attached'
               PROVE  /\ e \in Attached /\ refcnt'[e] \in Nat /\ Holders(e)' \in Nat
                      /\ refcnt'[e] + Holders(e) = refcnt[e] + Holders(e)'
    BY <1>1, RefsKept
  <2> DEFINE n == IF p = e THEN 1 ELSE 0
  <2>1. e \in Attached /\ e \in Dev
    BY <1>4, AttachedFacts DEF IInv
  <2>2. /\ users[e] \in Nat /\ Kids(e) \in Nat /\ Vols(e) \in Nat /\ Adds(e) \in Nat
        /\ refcnt[e] \in Nat
    BY <2>1, HeldFacts
  <2>3. users'[e] = users[e] /\ Vols(e)' = Vols(e) /\ Adds(e)' = Adds(e)
    BY <1>1 DEF Vols, Adds, Elems
  <2>4. Kids(e)' \in Nat /\ Kids(e) = Kids(e)' + n
    BY <1>1, <1>4, KidsRemoved DEF IInv
  <2>5. n \in Nat /\ refcnt'[e] \in Nat /\ refcnt[e] = refcnt'[e] + n
    BY <1>6, <2>1
  <2> HIDE DEF n
  <2>6. /\ Holders(e) = users[e] + (Kids(e)' + n) + Vols(e) + Adds(e)
        /\ Holders(e)' = users[e] + Kids(e)' + Vols(e) + Adds(e)
    BY <2>3, <2>4, HoldersSum
  <2> DEFINE r1 == refcnt'[e]
             u == users[e]
             v == Vols(e)
             a == Adds(e)
             k1 == Kids(e)'
  <2>7. u + k1 + v + a \in Nat /\ r1 + (u + (k1 + n) + v + a) = (r1 + n) + (u + k1 + v + a)
    <3>1. u \in Nat /\ v \in Nat /\ a \in Nat /\ k1 \in Nat /\ n \in Nat /\ r1 \in Nat
      BY <2>2, <2>4, <2>5
    <3> HIDE DEF r1, u, v, a, k1
    <3> QED BY <3>1
  <2> QED BY <2>1, <2>5, <2>6, <2>7
<1>9. BornInv'
  <2>1. \A e \in Dev : refcnt[e] = 0 => refcnt'[e] = 0
    BY <1>6
  <2> QED BY <1>1, <2>1 DEF IInv, BornInv
<1>10. ParentsAttached'
  <2>1. \A c \in Attached' : parent'[c] \in Attached' \cup {Host}
    BY <1>1, <1>4, <1>7 DEF IInv, ParentsAttached
  <2>2. \A e \in Dev : users'[e] > 0 => e \in Attached'
    BY <1>1, <1>4, <1>7 DEF IInv, ParentsAttached
  <2>3. Elems(pvs)' \cup dropped' \subseteq Attached'
    <3>1. Elems(pvs)' = Elems(pvs)
      BY <1>1 DEF Elems
    <3> QED BY <1>1, <1>4, <1>7, <3>1 DEF IInv, ParentsAttached
  <2> QED BY <2>1, <2>2, <2>3 DEF ParentsAttached
<1>11. TypeOK'
  <2>1. /\ made' \in 0..MaxDevs /\ kind' \in [Dev -> Kinds] /\ parent' \in [Dev -> Dev \cup {Host}]
        /\ users' \in [Dev -> 0..MaxUsers] /\ pvs' \in Seq(Dev) /\ dropped' \subseteq Dev
        /\ adding' \in [kind : Kinds \cup {"none"}, parent : Dev \cup {Host}]
        /\ phase' \in 0..(Len(ModuleList) + 1)
        /\ misclosed' \subseteq (Kinds \cup {"array"}) \X Kinds
    BY <1>1 DEF IInv, TypeOK
  <2> QED BY <1>4, <1>6, <2>1 DEF TypeOK
<1>12. AddInv' /\ PvsInv' /\ FiniInv' /\ FiniNewestFirst'
  BY <1>1 DEF IInv, AddInv, PvsInv, FiniInv, FiniNewestFirst
<1> QED BY <1>4, <1>8, <1>9, <1>10, <1>11, <1>12 DEF IInv

\* A new device becomes the head of its list; nobody keeps it open yet, and it
\* takes over the reference the addition had.
LEMMA AddCommitStep ==
  ASSUME IInv, AddCommit
  PROVE  IInv'
<1> DEFINE k == adding.kind
           p == adding.parent
           n == made + 1
           t == <<n>> \o list[k]
<1>1. /\ adding # NoAdd /\ made' = n /\ kind' = [kind EXCEPT ![n] = k]
      /\ parent' = [parent EXCEPT ![n] = p] /\ list' = [list EXCEPT ![k] = t]
      /\ adding' = NoAdd
      /\ UNCHANGED <<refcnt, users, pvs, dropped, phase, misclosed>>
  BY DEF AddCommit
<1>2. /\ k \in Kinds /\ phase = 0 /\ made < MaxDevs /\ p \in Attached \cup {Host}
      /\ (k = "file" => p = Host)
  BY <1>1 DEF IInv, AddInv
<1>3. /\ made \in Nat /\ n \in Dev /\ Attached \subseteq 1..made /\ n \notin Attached
      /\ Attached \subseteq Dev
  <2>1. made \in Nat /\ Attached \subseteq 1..made /\ Attached \subseteq Dev
    BY AttachedFacts DEF IInv
  <2> QED BY <1>2, <2>1, DevicesAssumption DEF Dev
<1>4. p < n /\ p # n /\ p \in Dev \cup {Host}
  <2>1. p \in 1..made \/ p = 0
    BY <1>2, <1>3 DEF Host
  <2>2. p \in Dev \cup {Host}
    BY <1>2, <1>3
  <2> HIDE DEF p
  <2> QED BY <1>3, <2>1, <2>2
<1>5. /\ t \in Seq(1..n) /\ Len(list[k]) \in Nat /\ Len(t) = Len(list[k]) + 1 /\ t[1] = n
      /\ \A i \in 2..Len(t) : t[i] = list[k][i - 1]
  <2> DEFINE S == 1..n
  <2>1. 1..made \subseteq S /\ n \in S
    BY <1>3
  <2>2. list[k] \in Seq(1..made)
    BY <1>2, ListFacts DEF IInv
  <2> HIDE DEF S, n
  <2>3. list[k] \in Seq(S)
    BY <2>1, <2>2, SeqMono
  <2>4. /\ t \in Seq(S) /\ Len(list[k]) \in Nat /\ Len(t) = Len(list[k]) + 1 /\ t[1] = n
        /\ \A i \in 2..Len(list[k]) + 1 : t[i] = list[k][i - 1]
    BY <2>1, <2>3, PrependFacts
  <2> QED BY <2>4 DEF S
<1> HIDE DEF t
<1>6. /\ list' \in [Kinds -> Seq(1..n)] /\ list'[k] = t
      /\ \A h \in Kinds : h # k => list'[h] = list[h]
  <2>1. list \in [Kinds -> Seq(1..made)]
    BY DEF IInv, TypeOK
  <2>2. 1..made \subseteq 1..n
    BY <1>3
  <2> HIDE DEF n
  <2>3. \A h \in Kinds : list[h] \in Seq(1..n)
    BY <2>1, <2>2, SeqMono
  <2> QED BY <1>1, <1>2, <1>5, <2>1, <2>3
<1>7. \A i \in 1..Len(t) : i = 1 \/ (i \in 2..Len(t) /\ i - 1 \in 1..Len(list[k]))
  BY <1>5
<1>8. \A h \in Kinds : \A i \in 1..Len(list[h]) : list[h][i] \in 1..made /\ list[h][i] # n
  BY <1>3, AttachedFacts DEF IInv
<1>9. \A d \in Dev : d # n => kind'[d] = kind[d] /\ parent'[d] = parent[d]
  BY <1>1 DEF IInv, TypeOK
<1>10. kind'[n] = k /\ parent'[n] = p /\ kind' \in [Dev -> Kinds] /\ parent' \in [Dev -> Dev \cup {Host}]
  BY <1>1, <1>2, <1>3, <1>4 DEF IInv, TypeOK
<1>11. Attached' = Attached \cup {n}
  <2>1. \A x : x \in Attached' <=> \E h \in Kinds : \E i \in 1..Len(list'[h]) : list'[h][i] = x
    BY DEF Attached, Elems
  <2>2. \A x : x \in Attached <=> \E h \in Kinds : \E i \in 1..Len(list[h]) : list[h][i] = x
    BY DEF Attached, Elems
  <2> HIDE DEF n, k
  <2>3. n \in Attached'
    <3>1. 1 \in 1..Len(t)
      BY <1>5
    <3> QED BY <1>2, <1>5, <1>6, <2>1, <3>1
  <2>4. ASSUME NEW x \in Attached PROVE x \in Attached'
    <3>0. PICK h \in Kinds : \E i \in 1..Len(list[h]) : list[h][i] = x
      BY <2>2
    <3>1. PICK i \in 1..Len(list[h]) : list[h][i] = x
      BY <3>0
    <3>2. CASE h # k
      BY <1>6, <2>1, <3>1, <3>2
    <3>3. CASE h = k
      <4>1. i + 1 \in 2..Len(t) /\ i + 1 \in 1..Len(t) /\ (i + 1) - 1 = i
        BY <1>5, <3>3
      <4>2. t[i + 1] = list[k][i]
        BY <1>5, <4>1
      <4> QED BY <1>2, <1>6, <2>1, <3>1, <3>3, <4>1, <4>2
    <3> QED BY <3>2, <3>3
  <2>5. ASSUME NEW x \in Attached', x # n PROVE x \in Attached
    <3>0. PICK h \in Kinds : \E i \in 1..Len(list'[h]) : list'[h][i] = x
      BY <2>1
    <3>1. PICK i \in 1..Len(list'[h]) : list'[h][i] = x
      BY <3>0
    <3>2. CASE h # k
      BY <1>6, <2>2, <3>1, <3>2
    <3>3. CASE h = k
      <4>1. i \in 1..Len(t) /\ t[i] = x
        BY <1>6, <3>1, <3>3
      <4>2. i \in 2..Len(t) /\ i - 1 \in 1..Len(list[k])
        BY <1>5, <1>7, <2>5, <4>1
      <4>3. list[k][i - 1] = x
        BY <1>5, <4>1, <4>2
      <4> QED BY <1>2, <2>2, <4>2, <4>3
    <3> QED BY <3>2, <3>3
  <2> QED BY <2>3, <2>4, <2>5
<1>12. ASSUME NEW h \in Kinds, NEW i \in 1..Len(list'[h]), NEW j \in 1..Len(list'[h])
       PROVE  /\ kind'[list'[h][i]] = h /\ (list'[h][i] = list'[h][j] => i = j)
              /\ i < j => list'[h][j] < list'[h][i]
  <2>1. /\ \A a, b \in 1..Len(list[h]) :
             kind[list[h][a]] = h /\ (list[h][a] = list[h][b] => a = b)
        /\ \A a, b \in 1..Len(list[h]) : a < b => list[h][b] < list[h][a]
        /\ \A a \in 1..Len(list[h]) :
             list[h][a] \in Dev /\ list[h][a] # n /\ list[h][a] \in 1..made
    BY <1>3, <1>8, ListFacts, AttachedFacts DEF IInv, OrderInv
  <2>2. \A a \in 1..Len(list[h]) : kind'[list[h][a]] = h
    BY <1>9, <2>1
  <2>3. CASE h # k
    <3>1. list'[h] = list[h]
      BY <1>6, <2>3
    <3> QED BY <2>1, <2>2, <3>1
  <2>4. CASE h = k
    <3>1. list'[h] = t /\ i \in 1..Len(t) /\ j \in 1..Len(t) /\ i \in Nat /\ j \in Nat
      BY <1>6, <2>4
    <3>2. CASE i = 1 /\ j = 1
      BY <1>5, <1>10, <2>4, <3>1, <3>2
    <3>3. CASE i = 1 /\ j # 1
      <4>1. j - 1 \in 1..Len(list[h]) /\ t[j] = list[h][j - 1] /\ t[i] = n
        BY <1>5, <1>7, <2>4, <3>1, <3>3
      <4>2. t[j] \in 1..made /\ t[j] < n /\ t[j] # n
        BY <1>3, <2>1, <4>1
      <4> QED BY <1>10, <2>4, <3>1, <4>1, <4>2
    <3>4. CASE i # 1 /\ j = 1
      <4>1. i - 1 \in 1..Len(list[h]) /\ t[i] = list[h][i - 1] /\ t[j] = n
        BY <1>5, <1>7, <2>4, <3>1, <3>4
      <4>2. t[i] # n /\ kind'[t[i]] = h
        BY <2>1, <2>2, <4>1
      <4> QED BY <3>1, <3>4, <4>1, <4>2
    <3>5. CASE i # 1 /\ j # 1
      <4>1. /\ i - 1 \in 1..Len(list[h]) /\ t[i] = list[h][i - 1]
            /\ j - 1 \in 1..Len(list[h]) /\ t[j] = list[h][j - 1]
        BY <1>5, <1>7, <2>4, <3>1, <3>5
      <4>2. (i - 1 = j - 1 => i = j) /\ (i < j => i - 1 < j - 1)
        BY <3>1
      <4> QED BY <2>1, <2>2, <3>1, <4>1, <4>2
    <3> QED BY <3>2, <3>3, <3>4, <3>5
  <2> QED BY <2>3, <2>4
<1>13. users[n] = 0 /\ n \notin Elems(pvs) /\ n \notin dropped /\ refcnt[n] = 0
  <2>1. users[n] = 0
    <3>1. users[n] \in Nat /\ ~(users[n] > 0)
      BY <1>2, <1>3, DevicesAssumption DEF IInv, TypeOK, ParentsAttached
    <3> QED BY <3>1
  <2>2. refcnt[n] = 0
    BY <1>3 DEF IInv, BornInv
  <2> QED BY <1>2, <1>3, <2>1, <2>2 DEF IInv, ParentsAttached
<1>14. Kids(n) = 0
  <2>1. \A c \in Attached : parent[c] # n
    BY <1>2, <1>3 DEF IInv, ParentsAttached, Host
  <2>2. {c \in Attached : parent[c] = n} = {}
    BY <2>1
  <2> QED BY <2>2, FS_EmptySet DEF Kids
<1>15. \A d : Kids(d)' \in Nat /\ Kids(d)' = Kids(d) + (IF p = d THEN 1 ELSE 0)
  <2> HIDE DEF n, p
  <2> QED BY <1>1, <1>3, <1>11, KidsAdded DEF IInv
<1>16. Elems(pvs)' = Elems(pvs)
  BY <1>1 DEF Elems
<1> HIDE DEF n, p, k
<1>17. RefsInv'
  <2> SUFFICES ASSUME NEW e \in Attached'
               PROVE \/ /\ e \in Attached /\ refcnt'[e] \in Nat /\ Holders(e)' \in Nat
                        /\ refcnt'[e] + Holders(e) = refcnt[e] + Holders(e)'
                     \/ refcnt'[e] = 0 /\ Holders(e)' = 0 /\ e \notin dropped
    BY <1>1, <1>2, RefsKept
  <2>1. Vols(e)' = Vols(e) /\ Adds(e)' = 0 /\ users'[e] = users[e] /\ refcnt'[e] = refcnt[e]
    BY <1>1, <1>16 DEF Vols, Adds
  <2>2. CASE e \in Attached
    <3> DEFINE m == IF p = e THEN 1 ELSE 0
    <3>1. Adds(e) = m /\ m \in Nat
      BY <1>1 DEF Adds, p
    <3>2. users[e] \in Nat /\ Kids(e) \in Nat /\ Vols(e) \in Nat /\ refcnt[e] \in Nat
      BY <2>2, HeldFacts
    <3>3. Kids(e)' = Kids(e) + m
      BY <1>15
    <3> HIDE DEF m
    <3>4. /\ Holders(e) = users[e] + Kids(e) + Vols(e) + m
          /\ Holders(e)' = users[e] + (Kids(e) + m) + Vols(e) + 0
      BY <2>1, <3>1, <3>3, HoldersSum
    <3> DEFINE u == users[e]
               c == Kids(e)
               v == Vols(e)
    <3>5. u + (c + m) + v + 0 \in Nat /\ u + (c + m) + v + 0 = u + c + v + m
      <4>1. u \in Nat /\ c \in Nat /\ v \in Nat /\ m \in Nat
        BY <3>1, <3>2
      <4> HIDE DEF u, c, v
      <4> QED BY <4>1
    <3> QED BY <2>1, <2>2, <3>2, <3>4, <3>5
  <2>3. CASE e = n
    <3>1. Vols(e) = 0
      BY <1>13, <2>3 DEF Vols
    <3>2. Kids(e)' = 0
      BY <1>4, <1>14, <1>15, <2>3
    <3>3. Holders(e)' = 0
      BY <1>13, <2>1, <2>3, <3>1, <3>2, HoldersSum
    <3> QED BY <1>1, <1>13, <2>3, <3>3
  <2> QED BY <1>11, <2>2, <2>3
<1>18. BornInv'
  <2>1. \A d \in Dev : parent'[d] < d /\ (kind'[d] = "file" => parent'[d] = Host)
    BY <1>2, <1>4, <1>9, <1>10 DEF IInv, BornInv, k, p
  <2>2. \A d \in Dev : made' < d => refcnt'[d] = 0
    <3>1. \A d \in Dev : n < d => made < d
      BY <1>3 DEF n, Dev
    <3> QED BY <1>1, <3>1 DEF IInv, BornInv
  <2> QED BY <2>1, <2>2 DEF BornInv
<1>19. ParentsAttached'
  <2>1. \A c \in Attached' : parent'[c] \in Attached' \cup {Host}
    BY <1>2, <1>3, <1>9, <1>10, <1>11 DEF IInv, ParentsAttached, p
  <2> QED BY <1>1, <1>2, <1>11, <1>16, <2>1 DEF IInv, ParentsAttached
<1>20. TypeOK'
  <2>1. made' \in 0..MaxDevs
    BY <1>1, <1>2, <1>3, DevicesAssumption DEF n
  <2>2. adding' \in [kind : Kinds \cup {"none"}, parent : Dev \cup {Host}]
    BY <1>1 DEF NoAdd
  <2>3. /\ refcnt' \in [Dev -> Nat]
        /\ users' \in [Dev -> 0..MaxUsers] /\ pvs' \in Seq(Dev) /\ dropped' \subseteq Dev
        /\ phase' \in 0..(Len(ModuleList) + 1)
        /\ misclosed' \subseteq (Kinds \cup {"array"}) \X Kinds
    BY <1>1 DEF IInv, TypeOK
  <2>4. list' \in [Kinds -> Seq(1..made')]
    BY <1>1, <1>6
  <2> QED BY <1>10, <1>12, <2>1, <2>2, <2>3, <2>4 DEF TypeOK
<1>21. OrderInv'
  BY <1>12 DEF OrderInv
<1>22. AddInv' /\ PvsInv' /\ FiniInv' /\ FiniNewestFirst'
  BY <1>1, <1>2 DEF IInv, AddInv, PvsInv, FiniInv, FiniNewestFirst
<1> QED BY <1>17, <1>18, <1>19, <1>20, <1>21, <1>22 DEF IInv

-----------------------------------------------------------------------------
(* The teardown.                                                           *)

\* Nobody uses grub any more.
LEMMA FiniBeginStep ==
  ASSUME IInv, FiniBegin
  PROVE  IInv'
<1>1. /\ phase = 0 /\ phase' = 1 /\ adding = NoAdd
      /\ UNCHANGED <<made, kind, parent, list, refcnt, users, pvs, dropped, adding, misclosed>>
  BY DEF FiniBegin
<1>2. Attached' = Attached /\ \A d : Holders(d)' = Holders(d)
  BY <1>1 DEF Attached, Elems, Holders
<1>3. TypeOK'
  <2>1. phase' \in 0..(Len(ModuleList) + 1)
    BY <1>1 DEF ModuleList
  <2> QED BY <1>1, <2>1 DEF IInv, TypeOK
<1>4. OrderInv' /\ BornInv' /\ AddInv' /\ PvsInv'
  BY <1>1 DEF IInv, OrderInv, BornInv, AddInv, PvsInv
<1>5. RefsInv'
  BY <1>1, <1>2 DEF IInv, RefsInv, RefsExact
<1>6. ParentsAttached' /\ FiniNewestFirst'
  BY <1>1 DEF IInv, ParentsAttached, FiniNewestFirst
<1>7. FiniInv'
  BY <1>1, <1>2 DEF IInv, ParentsAttached, FiniInv
<1> QED BY <1>3, <1>4, <1>5, <1>6, <1>7 DEF IInv

\* The modules by their positions.
LEMMA Modules ==
  /\ Len(ModuleList) = 4
  /\ ModuleList[1] = "loop" /\ ModuleList[2] = "lost" /\ ModuleList[3] = "file"
  /\ ModuleList[4] = "array"
  /\ \A i \in 1..Len(ModuleList) : i = 1 \/ i = 2 \/ i = 3 \/ i = 4
  BY DEF ModuleList

\* The newest device of the module is freed, and closes its parent: one of the
\* same kind is older and so still there.
LEMMA FiniDeviceStep ==
  ASSUME IInv, FiniDevice
  PROVE  IInv'
<1> DEFINE k == ModuleList[phase]
           h == Head(list[k])
           p == parent[h]
<1>1. /\ phase \in 1..Len(ModuleList) /\ k \in Kinds /\ list[k] # <<>>
      /\ list' = [list EXCEPT ![k] = Tail(list[k])] /\ FiniClose(k, p)
      /\ UNCHANGED <<made, kind, parent, users, pvs, dropped, adding, phase>>
  BY DEF FiniDevice
<1>2. \/ phase = 1 /\ k = "loop"
      \/ phase = 2 /\ k = "lost"
      \/ phase = 3 /\ k = "file"
  BY <1>1, Modules DEF Kinds
<1>3. list[k] \in Seq(1..made)
  BY <1>1, ListFacts DEF IInv
<1>4. /\ Tail(list[k]) \in Seq(1..made) /\ 1 \in 1..Len(list[k]) /\ h = list[k][1]
      /\ Len(Tail(list[k])) = Len(list[k]) - 1
      /\ \A j \in 1..Len(list[k]) - 1 :
           Tail(list[k])[j] = IF j < 1 THEN list[k][j] ELSE list[k][j + 1]
  <2> DEFINE S == 1..made
             s == list[k]
  <2>1. s \in Seq(S) /\ s # <<>>
    BY <1>1, <1>3
  <2> HIDE DEF S, s
  <2>2. /\ Tail(s) \in Seq(S) /\ 1 \in 1..Len(s) /\ Head(s) = s[1] /\ Len(Tail(s)) = Len(s) - 1
        /\ \A j \in 1..Len(s) - 1 : Tail(s)[j] = IF j < 1 THEN s[j] ELSE s[j + 1]
    BY <2>1, TailFacts
  <2> QED BY <2>2, Zenon DEF S, s
<1>5. /\ h \in Attached /\ h \in Dev /\ kind[h] = k
      /\ \A d \in Attached : kind[d] = k => d = h \/ d < h
  <2>1. h \in Attached /\ h \in Dev /\ kind[h] = k
    BY <1>1, <1>4, AttachedFacts, ListFacts DEF IInv
  <2>2. ASSUME NEW d \in Attached, kind[d] = k PROVE d = h \/ d < h
    <3>1. PICK g \in Kinds : \E i \in 1..Len(list[g]) : list[g][i] = d
      BY AttachedFacts DEF IInv
    <3>2. PICK i \in 1..Len(list[g]) : list[g][i] = d
      BY <3>1
    <3>3. g = k
      BY <2>2, <3>2, ListFacts DEF IInv
    <3>4. CASE i = 1
      BY <1>4, <3>2, <3>3, <3>4
    <3>5. CASE i # 1
      <4>1. 1 < i /\ i \in 1..Len(list[k])
        BY <3>3, <3>5
      <4>2. list[k][i] < list[k][1]
        BY <1>1, <1>4, <4>1 DEF IInv, OrderInv
      <4> QED BY <1>4, <3>2, <3>3, <4>2
    <3> QED BY <3>4, <3>5
  <2> QED BY <2>1, <2>2
<1> HIDE DEF h, k
<1>6. /\ Attached' = Attached \ {h} /\ list' \in [Kinds -> Seq(1..made')] /\ OrderInv'
      /\ \A g \in Kinds : \A a, b \in 1..Len(list'[g]) :
           kind'[list'[g][a]] = g /\ (list'[g][a] = list'[g][b] => a = b)
  <2>1. PICK t, i : t = Tail(list[k]) /\ i = 1
    OBVIOUS
  <2>2. /\ t \in Seq(1..made) /\ Len(t) = Len(list[k]) - 1 /\ i \in 1..Len(list[k])
        /\ h = list[k][i] /\ list' = [list EXCEPT ![k] = t]
        /\ \A j \in 1..Len(list[k]) - 1 : t[j] = IF j < i THEN list[k][j] ELSE list[k][j + 1]
    BY <1>1, <1>4, <2>1, Zenon
  <2>3. k \in Kinds /\ UNCHANGED <<made, kind, parent>>
    BY <1>1
  <2>4. Cut(list[k], t, i)
    BY <2>2, <2>3, ListFacts DEF Cut, IInv
  <2> QED BY <2>2, <2>3, <2>4, Detach
<1>7. /\ p \in Dev \cup {Host} /\ (kind[h] = "file" => p = Host)
      /\ p \in Attached \cup {Host} \/ (kind[h] = "lost" /\ kind[p] = "loop")
  <2>1. p \in Dev \cup {Host} /\ (kind[h] = "file" => p = Host)
    BY <1>5 DEF IInv, TypeOK, BornInv
  <2>2. phase >= 1
    BY <1>2
  <2> QED BY <1>5, <2>1, <2>2 DEF IInv, FiniInv
<1> HIDE DEF p
<1>8. /\ refcnt' \in [Dev -> Nat]
      /\ \A e \in Dev : refcnt'[e] \in Nat /\ (made < e => refcnt'[e] = 0)
      /\ \A e \in Attached' : refcnt[e] = refcnt'[e] + (IF p = e THEN 1 ELSE 0)
      /\ misclosed' \subseteq misclosed \cup {<<"lost", "loop">>}
  <2>1. \A e \in Dev : refcnt[e] \in Nat /\ (made < e => refcnt[e] = 0)
    BY DEF IInv, TypeOK, BornInv
  <2>2. CASE p # Host /\ p \notin Attached
    <3>1. kind[h] = "lost" /\ kind[p] = "loop" /\ k = "lost"
      BY <1>5, <1>7, <2>2
    <3>2. UNCHANGED refcnt /\ misclosed' = misclosed \cup {<<k, kind[p]>>}
      BY <1>1, <2>2 DEF FiniClose
    <3>3. \A e \in Attached' : p # e /\ e \in Dev
      BY <1>6, <2>2, AttachedFacts DEF IInv
    <3>4. refcnt' \in [Dev -> Nat]
      BY <3>2 DEF IInv, TypeOK
    <3> QED BY <2>1, <3>1, <3>2, <3>3, <3>4
  <2>3. CASE p = Host \/ p \in Attached
    <3>1. Close(p) /\ UNCHANGED misclosed
      BY <1>1, <2>3 DEF FiniClose
    <3>2. p = Host \/ refcnt[p] >= 1
      BY <1>5, <2>3, ParentHeld DEF p
    <3>3. /\ refcnt' \in [Dev -> Nat]
          /\ \A e \in Dev : refcnt[e] = refcnt'[e] + (IF p = e THEN 1 ELSE 0)
      BY <1>7, <3>1, <3>2, CloseFacts DEF IInv
    <3>4. Attached' \subseteq Dev
      BY <1>6, AttachedFacts DEF IInv
    <3>5. \A e \in Dev : refcnt'[e] \in Nat /\ (refcnt[e] = 0 => refcnt'[e] = 0)
      BY <3>3
    <3> QED BY <2>1, <3>1, <3>3, <3>4, <3>5
  <2> QED BY <2>2, <2>3
<1>9. TypeOK'
  <2>1. misclosed' \subseteq (Kinds \cup {"array"}) \X Kinds
    BY <1>8 DEF IInv, TypeOK, Kinds
  <2>2. /\ made' \in 0..MaxDevs /\ kind' \in [Dev -> Kinds] /\ parent' \in [Dev -> Dev \cup {Host}]
        /\ users' \in [Dev -> 0..MaxUsers] /\ pvs' \in Seq(Dev) /\ dropped' \subseteq Dev
        /\ adding' \in [kind : Kinds \cup {"none"}, parent : Dev \cup {Host}]
        /\ phase' \in 0..(Len(ModuleList) + 1)
    BY <1>1 DEF IInv, TypeOK
  <2> QED BY <1>6, <1>8, <2>1, <2>2 DEF TypeOK
<1>10. BornInv' /\ PvsInv' /\ FiniNewestFirst'
  BY <1>1, <1>8 DEF IInv, BornInv, PvsInv, FiniNewestFirst
<1>11. adding = NoAdd /\ phase # 0 /\ phase' = phase
  BY <1>1, <1>2 DEF IInv, AddInv
<1>12. AddInv' /\ ParentsAttached'
  BY <1>1, <1>11 DEF AddInv, ParentsAttached
<1>13. RefsInv'
  <2> SUFFICES ASSUME NEW e \in Attached' PROVE refcnt'[e] >= Holders(e)'
    BY <1>11 DEF RefsInv, RefsExact
  <2> DEFINE n == IF p = e THEN 1 ELSE 0
  <2>1. e \in Attached /\ e \in Dev
    BY <1>6, AttachedFacts DEF IInv
  <2>2. /\ users[e] \in Nat /\ Kids(e) \in Nat /\ Vols(e) \in Nat /\ Adds(e) \in Nat
        /\ refcnt[e] >= users[e] + Kids(e) + Vols(e) + Adds(e)
    BY <2>1, HeldFacts
  <2>3. users'[e] = users[e] /\ Vols(e)' = Vols(e) /\ Adds(e)' = Adds(e)
    BY <1>1 DEF Vols, Adds, Elems
  <2>4. Kids(e)' \in Nat /\ Kids(e) = Kids(e)' + n
    BY <1>1, <1>5, <1>6, KidsRemoved DEF IInv, p
  <2>5. n \in Nat /\ refcnt'[e] \in Nat /\ refcnt[e] = refcnt'[e] + n
    BY <1>8, <2>1
  <2> HIDE DEF n
  <2> DEFINE r1 == refcnt'[e]
             u == users[e]
             v == Vols(e)
             a == Adds(e)
             k1 == Kids(e)'
  <2>6. r1 + n >= u + (k1 + n) + v + a
    BY <2>2, <2>4, <2>5
  <2>7. r1 >= u + k1 + v + a
    <3>1. u \in Nat /\ v \in Nat /\ a \in Nat /\ k1 \in Nat /\ n \in Nat /\ r1 \in Nat
      BY <2>2, <2>4, <2>5
    <3> HIDE DEF r1, u, v, a, k1
    <3> QED BY <2>6, <3>1
  <2> QED BY <2>3, <2>7, HoldersSum
<1>14. FiniInv'
  <2>1. ASSUME NEW d \in Attached'
        PROVE  \/ parent'[d] \in Attached' \cup {Host}
               \/ kind'[d] = "lost" /\ kind'[parent'[d]] = "loop"
    <3>1. d \in Attached /\ d # h /\ d \in Dev /\ phase >= 1
      BY <1>2, <1>6, AttachedFacts DEF IInv
    <3>2. parent[d] \in Attached \cup {Host} \/ (kind[d] = "lost" /\ kind[parent[d]] = "loop")
      BY <3>1 DEF IInv, FiniInv
    <3>3. CASE parent[d] # h
      BY <1>1, <1>6, <3>2, <3>3
    <3>4. CASE parent[d] = h
      <4>1. kind[d] # k
        <5>1. h < d /\ ~(d < h)
          <6>1. h \in Nat /\ d \in Nat /\ h < d
            BY <1>5, <3>1, <3>4 DEF IInv, BornInv, Dev
          <6> QED BY <6>1
        <5> QED BY <1>5, <3>1, <5>1
      <4>2. kind[d] # "file"
        BY <1>5, <3>1, <3>4 DEF IInv, BornInv, Host, Dev
      <4>3. PICK g \in Kinds : kind[d] = g /\ list[g] # <<>>
        <5>1. PICK g \in Kinds : \E i \in 1..Len(list[g]) : list[g][i] = d
          BY <3>1, AttachedFacts DEF IInv
        <5>2. kind[d] = g
          BY <5>1, ListFacts DEF IInv
        <5>3. list[g] # <<>>
          BY <5>1
        <5> QED BY <5>2, <5>3
      <4>4. kind[d] = "lost" /\ k = "loop"
        BY <1>2, <4>1, <4>2, <4>3 DEF IInv, FiniInv, Kinds
      <4> QED BY <1>1, <1>5, <3>4, <4>4
    <3> QED BY <3>3, <3>4
  <2>2. \A g \in Kinds : g # k => list'[g] = list[g]
    BY <1>1 DEF IInv, TypeOK
  <2>3. /\ phase' >= 2 => list'["loop"] = <<>>
        /\ phase' >= 3 => list'["lost"] = <<>>
        /\ phase' >= 4 => list'["file"] = <<>>
    BY <1>2, <1>11, <2>2 DEF IInv, FiniInv, Kinds
  <2> QED BY <2>1, <2>3 DEF FiniInv
<1> QED BY <1>6, <1>9, <1>10, <1>12, <1>13, <1>14 DEF IInv

\* A volume of an array is closed: all devices have been freed before.
LEMMA FiniArrayStep ==
  ASSUME IInv, FiniArray
  PROVE  IInv'
<1> DEFINE d == Head(pvs)
<1>1. /\ phase \in 1..Len(ModuleList) /\ ModuleList[phase] = "array" /\ pvs # <<>>
      /\ pvs' = Tail(pvs) /\ FiniClose("array", d)
      /\ UNCHANGED <<made, kind, parent, list, users, dropped, adding, phase>>
  BY DEF FiniArray
<1>2. phase = 4
  BY <1>1, Modules
<1>3. Attached = {} /\ Attached' = {}
  <2>1. list["loop"] = <<>> /\ list["lost"] = <<>> /\ list["file"] = <<>>
    BY <1>2 DEF IInv, FiniInv
  <2>2. \A k \in Kinds : list[k] = <<>>
    BY <2>1 DEF Kinds
  <2>3. \A k \in Kinds : Elems(list[k]) = {}
    BY <2>2 DEF Elems
  <2>4. Attached = {}
    BY <2>3 DEF Attached
  <2>5. Attached' = Attached
    BY <1>1 DEF Attached, Elems
  <2> QED BY <2>4, <2>5
<1>4. /\ d \in Dev /\ Tail(pvs) \in Seq(Dev) /\ Len(pvs) \in Nat /\ Len(Tail(pvs)) = Len(pvs) - 1
      /\ \A i \in 1..Len(pvs) - 1 : Tail(pvs)[i] = pvs[i + 1]
  <2>1. pvs \in Seq(Dev)
    BY DEF IInv, TypeOK
  <2> QED BY <1>1, <2>1
<1>5. d # Host
  BY <1>4 DEF Host, Dev
<1>6. UNCHANGED refcnt /\ misclosed' = misclosed \cup {<<"array", kind[d]>>}
  BY <1>1, <1>3, <1>5 DEF FiniClose
<1>7. PvsInv'
  <2> SUFFICES ASSUME NEW i \in 1..Len(pvs'), NEW j \in 1..Len(pvs'), pvs'[i] = pvs'[j]
               PROVE  i = j
    BY DEF PvsInv
  <2>1. i \in 1..Len(pvs) - 1 /\ j \in 1..Len(pvs) - 1 /\ pvs[i + 1] = pvs[j + 1]
    BY <1>1, <1>4
  <2>2. i + 1 = j + 1
    BY <1>4, <2>1 DEF IInv, PvsInv
  <2> QED BY <1>4, <2>1, <2>2
<1> HIDE DEF d
<1>8. TypeOK'
  <2>1. misclosed' \subseteq (Kinds \cup {"array"}) \X Kinds
    BY <1>4, <1>6 DEF IInv, TypeOK
  <2>2. pvs' \in Seq(Dev)
    BY <1>1, <1>4
  <2>3. /\ made' \in 0..MaxDevs /\ kind' \in [Dev -> Kinds] /\ parent' \in [Dev -> Dev \cup {Host}]
        /\ list' \in [Kinds -> Seq(1..made')] /\ refcnt' \in [Dev -> Nat]
        /\ users' \in [Dev -> 0..MaxUsers] /\ dropped' \subseteq Dev
        /\ adding' \in [kind : Kinds \cup {"none"}, parent : Dev \cup {Host}]
        /\ phase' \in 0..(Len(ModuleList) + 1)
    BY <1>1, <1>6 DEF IInv, TypeOK
  <2>4. \A k \in Kinds : \A i, j \in 1..Len(list'[k]) :
          /\ kind'[list'[k][i]] = k
          /\ list'[k][i] = list'[k][j] => i = j
    BY <1>1, ListFacts DEF IInv
  <2> QED BY <2>1, <2>2, <2>3, <2>4 DEF TypeOK
<1>9. OrderInv' /\ BornInv' /\ AddInv'
  BY <1>1, <1>2, <1>6 DEF IInv, OrderInv, BornInv, AddInv
<1>10. RefsInv' /\ ParentsAttached'
  BY <1>1, <1>2, <1>3 DEF RefsInv, RefsExact, ParentsAttached
<1>11. FiniInv'
  BY <1>1, <1>3 DEF IInv, FiniInv
<1>12. FiniNewestFirst'
  BY <1>6 DEF IInv, FiniNewestFirst
<1> QED BY <1>7, <1>8, <1>9, <1>10, <1>11, <1>12 DEF IInv

\* The next module is finalised.
LEMMA FiniNextStep ==
  ASSUME IInv, FiniNext
  PROVE  IInv'
<1>1. /\ phase \in 1..Len(ModuleList) /\ phase' = phase + 1
      /\ UNCHANGED <<made, kind, parent, list, refcnt, users, pvs, dropped, adding, misclosed>>
      /\ IF ModuleList[phase] = "array" THEN pvs = <<>> ELSE list[ModuleList[phase]] = <<>>
  BY DEF FiniNext
<1>2. /\ phase = 1 \/ phase = 2 \/ phase = 3 \/ phase = 4
      /\ phase = 1 => list["loop"] = <<>>
      /\ phase = 2 => list["lost"] = <<>>
      /\ phase = 3 => list["file"] = <<>>
  BY <1>1, Modules
<1>3. Attached' = Attached /\ \A d : Holders(d)' = Holders(d)
  BY <1>1 DEF Attached, Elems, Holders
<1>4. TypeOK'
  <2>1. phase' \in 0..(Len(ModuleList) + 1)
    BY <1>1, Modules
  <2>2. /\ made' \in 0..MaxDevs /\ kind' \in [Dev -> Kinds] /\ parent' \in [Dev -> Dev \cup {Host}]
        /\ list' \in [Kinds -> Seq(1..made')] /\ refcnt' \in [Dev -> Nat]
        /\ users' \in [Dev -> 0..MaxUsers] /\ pvs' \in Seq(Dev) /\ dropped' \subseteq Dev
        /\ adding' \in [kind : Kinds \cup {"none"}, parent : Dev \cup {Host}]
        /\ misclosed' \subseteq (Kinds \cup {"array"}) \X Kinds
    BY <1>1 DEF IInv, TypeOK
  <2>3. \A k \in Kinds : \A i, j \in 1..Len(list'[k]) :
          /\ kind'[list'[k][i]] = k
          /\ list'[k][i] = list'[k][j] => i = j
    BY <1>1, ListFacts DEF IInv
  <2> QED BY <2>1, <2>2, <2>3 DEF TypeOK
<1>5. OrderInv' /\ BornInv' /\ PvsInv' /\ FiniNewestFirst'
  BY <1>1 DEF IInv, OrderInv, BornInv, PvsInv, FiniNewestFirst
<1>6. AddInv' /\ ParentsAttached'
  BY <1>1, <1>2 DEF IInv, AddInv, ParentsAttached
<1>7. RefsInv'
  BY <1>1, <1>2, <1>3 DEF IInv, RefsInv, RefsExact
<1>8. FiniInv'
  BY <1>1, <1>2, <1>3 DEF IInv, FiniInv
<1> QED BY <1>4, <1>5, <1>6, <1>7, <1>8 DEF IInv

-----------------------------------------------------------------------------
(* The theorems.                                                           *)

\* The initial state.
LEMMA InitInv == Init => IInv
<1> SUFFICES ASSUME Init PROVE IInv
  OBVIOUS
<1>1. Attached = {} /\ \A k \in Kinds : Len(list[k]) = 0
  BY DEF Init, Attached, Elems
<1>2. TypeOK
  <2>1. made \in 0..MaxDevs /\ refcnt \in [Dev -> Nat] /\ users \in [Dev -> 0..MaxUsers]
    BY DevicesAssumption DEF Init
  <2>2. kind \in [Dev -> Kinds] /\ parent \in [Dev -> Dev \cup {Host}]
    BY DEF Init, Kinds
  <2>3. list \in [Kinds -> Seq(1..made)] /\ pvs \in Seq(Dev)
    BY DEF Init
  <2>4. phase \in 0..(Len(ModuleList) + 1)
    BY Modules DEF Init
  <2>5. adding \in [kind : Kinds \cup {"none"}, parent : Dev \cup {Host}]
    BY DEF Init, NoAdd
  <2>6. dropped \subseteq Dev /\ misclosed \subseteq (Kinds \cup {"array"}) \X Kinds
    BY DEF Init
  <2>7. \A k \in Kinds : \A i, j \in 1..Len(list[k]) :
          /\ kind[list[k][i]] = k
          /\ list[k][i] = list[k][j] => i = j
    BY <1>1
  <2> QED BY <2>1, <2>2, <2>3, <2>4, <2>5, <2>6, <2>7 DEF TypeOK
<1>3. OrderInv
  BY <1>1 DEF OrderInv
<1>4. BornInv
  BY DevicesAssumption DEF Init, BornInv, Host, Dev
<1>5. AddInv /\ PvsInv /\ FiniInv /\ FiniNewestFirst
  BY DEF Init, AddInv, PvsInv, FiniInv, FiniNewestFirst
<1>6. RefsInv
  BY <1>1 DEF RefsInv, RefsExact
<1>7. ParentsAttached
  BY <1>1 DEF Init, ParentsAttached, Elems
<1> QED BY <1>2, <1>3, <1>4, <1>5, <1>6, <1>7 DEF IInv

\* The invariant is kept by every operation and by every step of the teardown.
THEOREM Inductive == Spec => []IInv
<1>1. ASSUME IInv, [Next]_vars PROVE IInv'
  <2>1. CASE UNCHANGED vars
    <3>1. Attached' = Attached /\ \A d : Holders(d)' = Holders(d)
      BY <2>1 DEF vars, Attached, Elems, Holders
    <3>2. \A k \in Kinds : \A i, j \in 1..Len(list'[k]) :
            /\ kind'[list'[k][i]] = k
            /\ list'[k][i] = list'[k][j] => i = j
      BY <1>1, <2>1, ListFacts DEF vars, IInv
    <3>3. TypeOK'
      BY <1>1, <2>1, <3>2 DEF vars, IInv, TypeOK
    <3>4. OrderInv' /\ BornInv' /\ AddInv' /\ PvsInv' /\ FiniNewestFirst'
      BY <1>1, <2>1, <3>1 DEF vars, IInv, OrderInv, BornInv, AddInv, PvsInv, FiniNewestFirst
    <3>5. RefsInv'
      BY <1>1, <2>1, <3>1 DEF vars, IInv, RefsInv, RefsExact
    <3>6. ParentsAttached' /\ FiniInv'
      BY <1>1, <2>1, <3>1 DEF vars, IInv, ParentsAttached, FiniInv, Elems
    <3> QED BY <3>3, <3>4, <3>5, <3>6 DEF IInv
  <2>2. ASSUME NEW d \in Dev, OpenFile(d) \/ CloseFile(d) \/ Scan(d) \/ Del(d) PROVE IInv'
    BY <1>1, <2>2, OpenFileStep, CloseFileStep, ScanStep, DelStep
  <2>3. ASSUME NEW d \in Dev, NEW i \in Dev, ScanSmaller(d, i) PROVE IInv'
    BY <1>1, <2>3, ScanSmallerStep
  <2>4. ASSUME NEW k \in Kinds, NEW p \in Dev \cup {Host}, AddBegin(k, p) PROVE IInv'
    BY <1>1, <2>4, AddBeginStep
  <2>5. CASE AddCommit \/ AddFail
    BY <1>1, <2>5, AddCommitStep, AddFailStep
  <2>6. CASE FiniBegin \/ FiniDevice \/ FiniArray \/ FiniNext
    BY <1>1, <2>6, FiniBeginStep, FiniDeviceStep, FiniArrayStep, FiniNextStep
  <2>7. ASSUME NEW i \in Dev, ScanWithin(i) \/ ScanLost(i) PROVE IInv'
    BY <1>1, <2>7, ScanWithinStep, ScanLostStep
  <2> QED BY <1>1, <2>1, <2>2, <2>3, <2>4, <2>5, <2>6, <2>7 DEF Next
<1> QED BY <1>1, InitInv, PTL DEF Spec

\* A device can be removed exactly when nobody keeps it open: the references
\* are the holders, but for the handles of volumes that moved.
THEOREM ReferencesExact == Spec => []RefsExact
<1>1. IInv => RefsExact
  BY DEF IInv, RefsInv
<1> QED BY <1>1, Inductive, PTL

\* No device, file or array outlives what it reads from.
THEOREM NothingOrphaned == Spec => []ParentsAttached
<1>1. IInv => ParentsAttached
  BY DEF IInv
<1> QED BY <1>1, Inductive, PTL

\* The teardown closes no freed parent, but for lost devices on loop devices and
\* the volumes of arrays.
THEOREM TeardownOrdered == Spec => []FiniNewestFirst
<1>1. IInv => FiniNewestFirst
  BY DEF IInv
<1> QED BY <1>1, Inductive, PTL

\* The variables have their types and no reference count drops below zero.
THEOREM TypeCorrect == Spec => []TypeOK
<1>1. IInv => TypeOK
  BY DEF IInv
<1> QED BY <1>1, Inductive, PTL
=============================================================================
