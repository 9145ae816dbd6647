---------------------------- MODULE FusefsProof ----------------------------
(***************************************************************************)
(* Proofs about a mounted volume (FuseCacheProof is about its cache): path *)
(* resolution, for every volume, limit of links and depth of directories,  *)
(* and the files kept open, for any number of dispatcher threads,          *)
(* openings, reads and rover_file objects.                                 *)
(***************************************************************************)
EXTENDS PathWalk, OpenFiles, TLAPS

-----------------------------------------------------------------------------
(* Path resolution.                                                        *)

\* Short of an error the limit of links is kept; the entry reached is readable,
\* and a link only as the final result of a walk that was not to follow it.
WalkInv ==
  err = "none" =>
    /\ links <= LinkDepthMax
    /\ tree[cur].kind # "bad"
    /\ tree[cur].kind = "link" => todo = <<>> /\ ~follow

\* No directory on the trail is at or above an earlier one.
TrailInv ==
  \A i, j \in 1..Len(trail) : i < j => ~IsPrefix(trail[j], trail[i])

\* The inductive invariant.
IInv == TypeOK /\ WalkInv /\ TrailInv

-----------------------------------------------------------------------------
\* The parent of an object is a directory of the volume.
LEMMA ParentFacts ==
  ASSUME IsTree(tree), NEW p \in DOMAIN tree, p # <<>>
  PROVE  Parent(p) \in DOMAIN tree /\ tree[Parent(p)].kind = "dir"
<1>1. p \in Seq(Names) /\ Len(p) \in Nat /\ Len(p) # 0
  BY DEF IsTree
<1>2. Len(p) - 1 \in 0..Len(p) - 1
  BY <1>1
<1> QED BY <1>2 DEF IsTree, Parent

\* Dropping the last element.
LEMMA FrontFacts ==
  ASSUME NEW S, NEW s \in Seq(S), s # <<>>
  PROVE  /\ Parent(s) \in Seq(S) /\ Len(s) \in Nat /\ Len(Parent(s)) = Len(s) - 1
         /\ \A i \in 1..Len(s) - 1 : Parent(s)[i] = s[i]
<1>1. Len(s) \in Nat /\ Len(s) > 0
  OBVIOUS
<1>2. Parent(s) \in Seq(S) /\ Len(Parent(s)) = Len(s) - 1
  <2>1. \A i \in 1..Len(s) - 1 : s[i] \in S
    BY <1>1
  <2>2. Parent(s) = [i \in 1..Len(s) - 1 |-> s[i]]
    BY <1>1 DEF Parent
  <2> HIDE DEF Parent
  <2> QED BY <2>1, <2>2, <1>1
<1>3. \A i \in 1..Len(s) - 1 : Parent(s)[i] = s[i]
  BY <1>1 DEF Parent
<1> QED BY <1>1, <1>2, <1>3

\* What extending a trail adds to it.
LEMMA ExtendFacts ==
  ASSUME NEW S, NEW s \in Seq(S), NEW e \in S
  PROVE  /\ Append(s, e) \in Seq(S) /\ Len(s) \in Nat
         /\ Len(Append(s, e)) = Len(s) + 1
         /\ \A i \in 1..Len(s) : Append(s, e)[i] = s[i]
         /\ Append(s, e)[Len(s) + 1] = e
  OBVIOUS

\* Joining two paths.
LEMMA JoinFacts ==
  ASSUME NEW S, NEW s \in Seq(S), NEW t \in Seq(S)
  PROVE  s \o t \in Seq(S) /\ Len(s \o t) = Len(s) + Len(t)
  OBVIOUS

\* The types of the components to go.
LEMMA TodoFacts ==
  ASSUME TypeOK, todo # <<>>
  PROVE  Tail(todo) \in Seq(Component) /\ Head(todo) \in Component
BY DEF TypeOK

\* An entry looked up is an object of the volume when it has no error.
LEMMA RawFacts ==
  ASSUME NEW p
  PROVE  /\ RawErr(p) \in Errors
         /\ RawErr(p) = "none" => p \in DOMAIN tree /\ tree[p].kind # "bad"
BY DEF RawErr, Errors

-----------------------------------------------------------------------------
\* An extended trail whose last directory is above none of the others.
LEMMA TrailExtended ==
  ASSUME trail \in Seq(Seq(Names)), TrailInv, NEW d \in Seq(Names),
         trail' = Append(trail, d),
         \A i \in 1..Len(trail) : ~IsPrefix(d, trail[i])
  PROVE  TrailInv'
<1> DEFINE n == Len(trail)
<1>1. /\ n \in Nat /\ Len(trail') = n + 1 /\ trail'[n + 1] = d
      /\ \A i \in 1..n : trail'[i] = trail[i]
  BY ExtendFacts
<1> SUFFICES ASSUME NEW i \in 1..n + 1, NEW j \in 1..n + 1, i < j
             PROVE  ~IsPrefix(trail'[j], trail'[i])
  BY <1>1 DEF TrailInv
<1>2. i \in 1..n
  BY <1>1
<1>3. CASE j = n + 1
  BY <1>1, <1>2, <1>3
<1>4. CASE j \in 1..n
  BY <1>1, <1>2, <1>4 DEF TrailInv
<1>5. j = n + 1 \/ j \in 1..n
  <2>1. n \in Nat
    BY <1>1
  <2> HIDE DEF n
  <2>2. \A m \in Nat : \A l \in 1..m + 1 : l = m + 1 \/ l \in 1..m
    OBVIOUS
  <2> QED BY <2>1, <2>2
<1> QED BY <1>3, <1>4, <1>5

\* Entering a directory of the listing: were it at or above an earlier
\* directory, the directory listed would be too.
LEMMA EnterDirStep ==
  ASSUME IInv, NEW n \in Names, EnterDir(n)
  PROVE  IInv'
<1> DEFINE d == Append(Here, n)
           k == Len(trail)
<1>1. trail \in Seq(Seq(Names)) /\ k \in Nat /\ k > 0 /\ mount \in Seq(Names)
      /\ Len(mount) \in Nat /\ k = Len(mount) + 1
  BY DEF IInv, TypeOK
<1>2. Here = trail[k] /\ k \in 1..k /\ Here \in Seq(Names)
  BY <1>1 DEF Here
<1>3. /\ d \in Seq(Names) /\ Len(Here) \in Nat /\ Len(d) = Len(Here) + 1
      /\ \A i \in 1..Len(Here) : d[i] = Here[i]
  BY <1>2, ExtendFacts
<1> HIDE DEF d
<1>4. ASSUME NEW i \in 1..k PROVE ~IsPrefix(d, trail[i])
  <2>1. trail[i] \in Seq(Names) /\ Len(trail[i]) \in Nat
    BY <1>1
  <2>2. CASE i = k
    BY <2>2, <1>2, <1>3 DEF IsPrefix
  <2>3. CASE i < k
    <3>1. ~IsPrefix(Here, trail[i])
      BY <2>3, <1>2 DEF IInv, TrailInv
    <3> QED BY <3>1, <2>1, <1>3 DEF IsPrefix
  <2> QED BY <2>2, <2>3, <1>1
<1>5. trail' = Append(trail, d) /\ mount' = Append(mount, n)
  BY DEF EnterDir, d
<1>6. TrailInv'
  BY <1>1, <1>3, <1>4, <1>5, TrailExtended DEF IInv
<1>7. /\ trail' \in Seq(Seq(Names)) /\ mount' \in Seq(Names)
      /\ Len(trail') = Len(mount') + 1
  BY <1>1, <1>3, <1>5, ExtendFacts
<1>8. UNCHANGED <<tree, links_shown, pc, rest, follow, todo, cur, links, err>>
  BY DEF EnterDir, walker
<1>9. TypeOK'
  <2>1. IsTree(tree)' /\ IsDir(<<>>)'
    <3>1. IsTree(tree) /\ IsDir(<<>>) /\ tree' = tree
      BY <1>8 DEF IInv, TypeOK
    <3> QED BY <3>1 DEF IsTree, IsDir
  <2> QED BY <2>1, <1>7, <1>8 DEF IInv, TypeOK
<1>10. WalkInv'
  BY <1>8 DEF IInv, WalkInv
<1> QED BY <1>6, <1>9, <1>10 DEF IInv

\* Entering a link that loops_back() let through.
LEMMA EnterLinkStep ==
  ASSUME IInv, EnterLink
  PROVE  IInv'
<1>1. trail \in Seq(Seq(Names)) /\ mount \in Seq(Names) /\ rest \in Seq(Names)
      /\ Len(trail) = Len(mount) + 1 /\ Len(rest) = 1
  BY DEF IInv, TypeOK, EnterLink
<1>2. cur \in Seq(Names)
  BY DEF IInv, TypeOK, IsTree
<1>3. trail' = Append(trail, cur) /\ mount' = mount \o rest
  BY DEF EnterLink
<1>4. \A i \in 1..Len(trail) : ~IsPrefix(cur, trail[i])
  BY DEF EnterLink, ShownAsDir, LoopsBack
<1>5. TrailInv'
  BY <1>1, <1>2, <1>3, <1>4, TrailExtended DEF IInv
<1>6. /\ trail' \in Seq(Seq(Names)) /\ Len(trail') = Len(trail) + 1
      /\ mount' \in Seq(Names) /\ Len(mount') = Len(mount) + 1
  <2>1. Len(mount \o rest) = Len(mount) + Len(rest) /\ mount \o rest \in Seq(Names)
    BY <1>1, JoinFacts
  <2> QED BY <1>1, <1>2, <1>3, <2>1, ExtendFacts
<1>7. /\ UNCHANGED <<tree, links_shown>> /\ pc' = "idle" /\ rest' = <<>>
      /\ follow' = TRUE /\ todo' = <<>> /\ cur' = <<>> /\ links' = 0
      /\ err' = "none"
  BY DEF EnterLink, Idle
<1>8. TypeOK'
  BY <1>1, <1>6, <1>7, PathWalkAssumption DEF IInv, TypeOK, IsTree, IsDir, Errors
<1>9. WalkInv'
  BY <1>7, PathWalkAssumption DEF IInv, TypeOK, IsDir, WalkInv
<1> QED BY <1>5, <1>8, <1>9 DEF IInv

\* Turning back, or leaving things as they are.
LEMMA LeaveStep ==
  ASSUME IInv, Leave
  PROVE  IInv'
<1>1. trail \in Seq(Seq(Names)) /\ mount \in Seq(Names) /\ mount # <<>>
      /\ Len(trail) = Len(mount) + 1
  BY DEF IInv, TypeOK, Leave
<1>2. Len(mount) \in Nat /\ Len(mount) > 0 /\ trail # <<>>
  BY <1>1
<1>3. mount' = Parent(mount) /\ trail' = Parent(trail)
  BY DEF Leave
<1>4. /\ mount' \in Seq(Names) /\ Len(mount') = Len(mount) - 1
      /\ trail' \in Seq(Seq(Names)) /\ Len(trail') = Len(trail) - 1
      /\ \A i \in 1..Len(trail) - 1 : trail'[i] = trail[i]
  BY <1>1, <1>2, <1>3, FrontFacts
<1>5. TrailInv'
  <2> SUFFICES ASSUME NEW i \in 1..Len(trail'), NEW j \in 1..Len(trail'), i < j
               PROVE  ~IsPrefix(trail'[j], trail'[i])
    BY DEF TrailInv
  <2>1. i \in 1..Len(trail) - 1 /\ j \in 1..Len(trail) - 1
        /\ i \in 1..Len(trail) /\ j \in 1..Len(trail)
    BY <1>1, <1>2, <1>4
  <2> QED BY <2>1, <1>4 DEF IInv, TrailInv
<1>6. UNCHANGED <<tree, links_shown, pc, rest, follow, todo, cur, links, err>>
  BY DEF Leave, walker
<1>7. TypeOK'
  BY <1>1, <1>2, <1>4, <1>6 DEF IInv, TypeOK, IsTree, IsDir
<1>8. WalkInv'
  BY <1>6 DEF IInv, WalkInv
<1> QED BY <1>5, <1>7, <1>8 DEF IInv

\* The steps of walk() leave the client where it is: it is enough that the
\* walk keeps its own invariant.
LEMMA WalkerOnly ==
  ASSUME IInv, UNCHANGED <<tree, links_shown, client>>,
         pc' \in {"idle", "walk", "done"}, rest' \in Seq(Names),
         pc' # "idle" => rest' # <<>>, follow' \in BOOLEAN,
         todo' \in Seq(Component), cur' \in DOMAIN tree,
         links' \in 0..LinkDepthMax + 1, err' \in Errors,
         WalkInv'
  PROVE  IInv'
<1>1. UNCHANGED <<mount, trail>>
  BY DEF client
<1>2. TypeOK'
  BY <1>1 DEF IInv, TypeOK, IsTree, IsDir
<1>3. TrailInv'
  BY <1>1 DEF IInv, TrailInv, IsPrefix
<1> QED BY <1>2, <1>3 DEF IInv

\* walk() begins at the root.
LEMMA StartStep ==
  ASSUME IInv, NEW path \in Asked, NEW flw \in BOOLEAN, WalkStart(path, flw)
  PROVE  IInv'
<1>1. path \in Seq(Names) /\ path # <<>> /\ mount \in Seq(Names)
  BY PathWalkAssumption DEF IInv, TypeOK
<1>2. todo' \in Seq(Component)
  <2>1. mount \o path \in Seq(Names)
    BY <1>1
  <2>2. \A s \in Seq(Names) : s \in Seq(Component)
    BY DEF Component
  <2> QED BY <2>1, <2>2 DEF WalkStart
<1>3. <<>> \in DOMAIN tree /\ tree[<<>>].kind = "dir"
  BY DEF IInv, TypeOK, IsDir
<1>4. err' = "none"
  BY <1>3 DEF WalkStart, RawErr
<1>5. WalkInv'
  BY <1>3, PathWalkAssumption DEF WalkInv, WalkStart
<1> QED
  BY <1>1, <1>2, <1>3, <1>4, <1>5, WalkerOnly, PathWalkAssumption
  DEF WalkStart, Errors

\* The turns of the loop.
LEMMA TurnStep ==
  ASSUME IInv, WalkTurn
  PROVE  IInv'
<1>1. Turn /\ todo # <<>> /\ err = "none" /\ pc = "walk"
  BY DEF WalkTurn, WalkNotDir, WalkDot, WalkDotDot, WalkName, WalkLink, Turn
<1>2. UNCHANGED <<tree, links_shown, client, pc, rest, follow>>
  BY <1>1 DEF Turn
<1>3. Tail(todo) \in Seq(Component) /\ Head(todo) \in Component
  BY <1>1, TodoFacts DEF IInv
<1>4. /\ IsTree(tree) /\ cur \in DOMAIN tree /\ cur \in Seq(Names)
      /\ rest \in Seq(Names) /\ rest # <<>> /\ follow \in BOOLEAN
      /\ links \in 0..LinkDepthMax + 1 /\ LinkDepthMax \in Nat
      /\ <<>> \in DOMAIN tree /\ tree[<<>>].kind = "dir"
  BY <1>1, PathWalkAssumption DEF IInv, TypeOK, IsTree, IsDir
<1>5. SUFFICES /\ todo' \in Seq(Component) /\ cur' \in DOMAIN tree
               /\ links' \in 0..LinkDepthMax + 1 /\ err' \in Errors
               /\ WalkInv'
  BY <1>1, <1>2, <1>4, WalkerOnly
<1>6. ASSUME NEW e \in Errors \ {"none"}, Fail(e)
      PROVE  /\ todo' \in Seq(Component) /\ cur' \in DOMAIN tree
             /\ links' \in 0..LinkDepthMax + 1 /\ err' \in Errors
             /\ WalkInv'
  BY <1>6, <1>3, <1>4 DEF Fail, WalkInv
<1>7. CASE WalkNotDir
  BY <1>7, <1>6 DEF WalkNotDir, Errors
<1>8. CASE WalkDot
  BY <1>8, <1>1, <1>2, <1>3, <1>4 DEF IInv, WalkDot, WalkInv, IsDir, Errors
<1>9. CASE WalkDotDot
  <2>1. cur' \in DOMAIN tree /\ tree[cur'].kind = "dir"
    BY <1>9, <1>4, ParentFacts DEF WalkDotDot, IsDir
  <2>2. WalkInv'
    BY <2>1, <1>1, <1>2, <1>9 DEF IInv, WalkInv, WalkDotDot
  <2> QED BY <2>1, <2>2, <1>9, <1>3, <1>4, RawFacts DEF WalkDotDot
<1>10. CASE WalkName
  <2>1. CASE RawErr(NextEntry) # "none"
    BY <2>1, <1>6, <1>10, RawFacts DEF WalkName
  <2>2. CASE RawErr(NextEntry) = "none"
    <3>1. NextEntry \in DOMAIN tree /\ tree[NextEntry].kind # "bad"
      BY <2>2, RawFacts
    <3>2. cur' = NextEntry /\ todo' = Tail(todo) /\ UNCHANGED <<links, err>>
      BY <2>2, <1>10 DEF WalkName
    <3>3. tree[NextEntry].kind = "link" => Tail(todo) = <<>> /\ ~follow
      BY <3>1, <1>10 DEF WalkName, Replaced, IsLink
    <3>4. WalkInv'
      BY <3>1, <3>2, <3>3, <1>1, <1>2 DEF IInv, WalkInv
    <3> QED BY <3>1, <3>2, <3>4, <1>1, <1>3, <1>4 DEF Errors
  <2> QED BY <2>1, <2>2
<1>11. CASE WalkLink
  <2> DEFINE to == tree[NextEntry].link
  <2>1. to \in Target
    BY <1>11, <1>4 DEF WalkLink, Replaced, IsLink, IsTree
  <2>2. links' = links + 1
    BY <1>11 DEF WalkLink
  <2>3. tree[cur].kind = "dir"
    BY <1>11 DEF WalkLink, IsDir
  <2>4. links <= LinkDepthMax /\ links' \in 0..LinkDepthMax + 1
    BY <1>1, <1>4, <2>2 DEF IInv, WalkInv
  <2> HIDE DEF to
  <2>5. CASE /\ err' \in {"ELOOP", "ENOENT"} /\ todo' = Tail(todo)
             /\ UNCHANGED cur
    BY <2>5, <2>4, <1>3, <1>4 DEF WalkInv, Errors
  <2>6. CASE /\ links' <= LinkDepthMax /\ todo' = to.comps \o Tail(todo)
             /\ cur' = (IF to.abs THEN <<>> ELSE cur) /\ err' = RawErr(cur')
    <3>1. todo' \in Seq(Component)
      BY <2>1, <2>6, <1>3 DEF Target
    <3>2. cur' \in DOMAIN tree /\ tree[cur'].kind = "dir"
      BY <2>3, <2>6, <1>4
    <3>3. WalkInv'
      BY <3>2, <2>6, <1>2 DEF WalkInv
    <3> QED BY <3>1, <3>2, <3>3, <2>4, <2>6, RawFacts
  <2> QED BY <1>11, <2>5, <2>6 DEF WalkLink, to
<1> QED BY <1>7, <1>8, <1>9, <1>10, <1>11 DEF WalkTurn

\* The end of the loop, and of the operation that looked something up.
LEMMA EndStep ==
  ASSUME IInv, WalkEnd \/ Return
  PROVE  IInv'
<1>1. CASE WalkEnd
  <2>1. UNCHANGED <<tree, links_shown, client, rest, follow, todo, cur, links, err>>
        /\ pc = "walk" /\ pc' = "done"
    BY <1>1 DEF WalkEnd
  <2>2. WalkInv'
    BY <2>1 DEF IInv, WalkInv
  <2> QED BY <2>1, <2>2, WalkerOnly DEF IInv, TypeOK
<1>2. CASE Return
  <2>1. /\ UNCHANGED <<tree, links_shown, client>> /\ pc' = "idle" /\ rest' = <<>>
        /\ follow' = TRUE /\ todo' = <<>> /\ cur' = <<>> /\ links' = 0
        /\ err' = "none"
    BY <1>2 DEF Return, Idle
  <2>2. <<>> \in DOMAIN tree /\ tree[<<>>].kind = "dir"
    BY DEF IInv, TypeOK, IsDir
  <2>3. WalkInv'
    BY <2>1, <2>2, PathWalkAssumption DEF WalkInv
  <2> QED BY <2>1, <2>2, <2>3, WalkerOnly, PathWalkAssumption DEF Errors
<1> QED BY <1>1, <1>2

\* The client begins at the root and nothing is under way.
LEMMA InitInv == Init => IInv
<1> SUFFICES ASSUME Init PROVE IInv
  OBVIOUS
<1>1. IsTree(tree) /\ IsDir(<<>>)
  BY PathWalkAssumption DEF Init, IsTree, IsDir
<1>2. trail \in Seq(Seq(Names)) /\ Len(trail) = 1
  BY DEF Init
<1>3. TypeOK
  BY <1>1, <1>2, PathWalkAssumption DEF Init, TypeOK, IsDir, Errors
<1>4. WalkInv
  BY <1>1, PathWalkAssumption DEF Init, WalkInv, IsDir
<1>5. TrailInv
  BY <1>2 DEF TrailInv
<1> QED BY <1>3, <1>4, <1>5 DEF IInv

\* Every step preserves the invariant.
LEMMA NextInv == IInv /\ [Next]_vars => IInv'
<1> SUFFICES ASSUME IInv, [Next]_vars PROVE IInv'
  OBVIOUS
<1>1. CASE UNCHANGED vars
  <2>1. UNCHANGED <<tree, links_shown, client, pc, rest, follow, todo, cur, links, err>>
    BY <1>1 DEF vars, walker
  <2>2. WalkInv'
    BY <2>1 DEF IInv, WalkInv
  <2> QED BY <2>1, <2>2, WalkerOnly DEF IInv, TypeOK
<1> QED
  BY <1>1, StartStep, TurnStep, EndStep, EnterDirStep, EnterLinkStep, LeaveStep
  DEF Next, Walk

\* walk() and the client keep the inductive invariant.
THEOREM Invariance == Spec => []IInv
BY InitInv, NextInv, PTL DEF Spec

\* The variables of walk() and of the client keep their types; in particular
\* walk() never replaces more than LINK_DEPTH_MAX links but the one it fails at.
THEOREM TypeCorrect == Spec => []TypeOK
<1>1. IInv => TypeOK
  BY DEF IInv
<1> QED BY <1>1, Invariance, PTL

\* What walk() returns is free of links (the comment of walk()).
THEOREM WalkLinkFree == Spec => []LinkFree
<1>1. IInv => LinkFree
  <2> SUFFICES ASSUME IInv, pc = "done", err = "none" PROVE LinkFree
    BY DEF LinkFree
  <2>1. cur \in DOMAIN tree /\ tree[cur].kind # "bad" /\ (follow => ~IsLink(cur))
    BY DEF IInv, TypeOK, WalkInv, IsLink
  <2>2. \A n \in 0..Len(cur) - 1 : IsDir(SubSeq(cur, 1, n))
    BY <2>1 DEF IInv, TypeOK, IsTree, IsDir
  <2> QED BY <2>1, <2>2 DEF LinkFree
<1> QED BY <1>1, Invariance, PTL

\* A client that descends into whatever it is shown never meets a directory
\* twice on one path, however the links of the volume are laid
\* (fusefs_readdir(), loops_back()).
THEOREM NeverTwice == Spec => []NoRevisit
<1>1. IInv => NoRevisit
  <2> SUFFICES ASSUME IInv, NEW i \in 1..Len(trail), NEW j \in 1..Len(trail),
                      trail[i] = trail[j], i # j
               PROVE  FALSE
    BY DEF NoRevisit
  <2>1. trail \in Seq(Seq(Names)) /\ Len(trail) \in Nat
    BY DEF IInv, TypeOK
  <2>2. trail[i] \in Seq(Names) /\ IsPrefix(trail[i], trail[i])
    BY <2>1 DEF IsPrefix
  <2>3. CASE i < j
    BY <2>2, <2>3 DEF IInv, TrailInv
  <2>4. CASE j < i
    BY <2>2, <2>4 DEF IInv, TrailInv
  <2> QED BY <2>1, <2>3, <2>4
<1> QED BY <1>1, Invariance, PTL

-----------------------------------------------------------------------------
(* Open files.                                                             *)

\* The thread runs a callback.
Running(t) == op[t] # "none"

\* An opening that is not begun or is over has no handle and no callback; the
\* callback of a closing one is alone and no read; releasing it leaves no handle.
PhaseInv ==
  /\ \A f \in Openings : phase[f] \in {"none", "closed"} => word[f] = 0
  /\ \A t \in Threads : Running(t) => phase[on[t]] \notin {"none", "closed"}
  /\ \A t \in Threads : op[t] = "read" => phase[on[t]] # "closing"
  /\ \A t \in Threads : op[t] = "release" =>
       phase[on[t]] # "open" /\ (step[t] = "end" => handle[t] = 0)
  /\ \A t, u \in Threads :
       Running(t) /\ Running(u) /\ on[t] = on[u] /\ phase[on[t]] = "closing"
         => t = u

\* Only reads of an opened file overlap on an opening that was not raced.
SoloInv ==
  \A t, u \in Threads :
    Running(t) /\ Running(u) /\ t # u /\ on[t] = on[u] /\ on[t] \notin raced
      => op[t] = "read" /\ word[on[t]] # 0

\* There, a copy of the word that is not yet served, or is the copy of a read,
\* is still what the word says, if that says anything.
CopyInv ==
  \A t \in Threads : Running(t) /\ on[t] \notin raced =>
    /\ step[t] = "start" => handle[t] = word[on[t]]
    /\ op[t] = "read" /\ word[on[t]] # 0 => handle[t] = word[on[t]]

\* There, a closed file is in the word only until the release that closed it
\* copies its zero back, and in no read's copy; and what a served release is
\* about to overwrite was closed, or the backend was gone.
LiveInv ==
  /\ \A f \in Openings \ raced : word[f] \in freed =>
       \E t \in Threads : op[t] = "release" /\ step[t] = "end" /\ on[t] = f
  /\ \A t \in Threads : op[t] = "read" /\ on[t] \notin raced => handle[t] \notin freed
  /\ \A t \in Threads :
       op[t] = "release" /\ step[t] = "end" /\ on[t] \notin raced
         => word[on[t]] \in freed \cup {0} \/ on[t] \in lost

\* A rover_file belongs to one opening.
OwnInv ==
  /\ freed \subseteq 1..objects
  /\ \A f \in Openings : word[f] \in 0..objects
  /\ \A t \in Threads : handle[t] \in 0..objects
  /\ \A f, g \in Openings : f # g /\ word[f] = word[g] => word[f] = 0
  /\ \A t \in Threads, g \in Openings :
       Running(t) /\ on[t] # g /\ handle[t] = word[g] => handle[t] = 0
  /\ \A t, u \in Threads :
       Running(t) /\ Running(u) /\ on[t] # on[u] /\ handle[t] = handle[u]
         => handle[t] = 0

\* Short of races and of a lost backend an open rover_file is in a word or in
\* the copy of a running callback.
KeptInv ==
  raced = {} /\ lost = {} =>
    \A o \in (1..objects) \ freed :
      \/ \E f \in Openings : word[f] = o
      \/ \E t \in Threads : Running(t) /\ handle[t] = o

\* Short of races no closed file was touched.
UntouchedInv == raced = {} => ~misused

\* The FUSE hosts have a file for every opening, and never race.
FuseInv ==
  host = "fuse" =>
    /\ raced = {}
    /\ \A f \in Openings : phase[f] # "cleaned" /\ (phase[f] = "open" => word[f] # 0)

\* The inductive invariant.
FilesInv ==
  /\ FilesTypeOK /\ PhaseInv /\ SoloInv /\ CopyInv /\ LiveInv /\ OwnInv
  /\ KeptInv /\ UntouchedInv /\ FuseInv

-----------------------------------------------------------------------------
\* A new opening: the FUSE hosts give it a fresh rover_file.
LEMMA CreateStep ==
  ASSUME FilesInv, NEW f \in Openings, Create(f)
  PROVE  FilesInv'
<1> USE OpenFilesAssumption DEF FilesInv, FilesTypeOK, Running
<1>1. FilesTypeOK'
  BY DEF Create, OwnInv, PhaseInv
<1>2. PhaseInv'
  BY DEF Create, PhaseInv
<1>3. SoloInv'
  BY DEF Create, SoloInv, PhaseInv, CopyInv, FuseInv
<1>4. CopyInv'
  BY DEF Create, CopyInv, SoloInv, PhaseInv
<1>5. LiveInv'
  BY DEF Create, LiveInv, CopyInv, SoloInv, PhaseInv, OwnInv
<1>6. OwnInv'
  BY DEF Create, OwnInv, PhaseInv
<1>7. KeptInv'
  BY DEF Create, KeptInv, OwnInv, CopyInv, SoloInv, LiveInv, PhaseInv
<1>8. UntouchedInv'
  BY DEF Create, UntouchedInv, LiveInv, CopyInv, SoloInv, PhaseInv
<1>9. FuseInv'
  BY DEF Create, FuseInv, PhaseInv, CopyInv
<1> QED BY <1>1, <1>2, <1>3, <1>4, <1>5, <1>6, <1>7, <1>8, <1>9

\* A read that begins copies a word that no release has closed, or races.
LEMMA ReadBeginStep ==
  ASSUME FilesInv, NEW t \in Threads, NEW f \in Openings, ReadBegin(t, f)
  PROVE  FilesInv'
<1> USE OpenFilesAssumption DEF FilesInv, FilesTypeOK, Running
<1>1. FilesTypeOK'
  BY DEF ReadBegin, Begin, ReadRaces, Busy, OwnInv, PhaseInv
<1>2. PhaseInv'
  BY DEF ReadBegin, Begin, ReadRaces, Busy, PhaseInv
<1>3. SoloInv'
  BY DEF ReadBegin, Begin, ReadRaces, Busy, SoloInv, PhaseInv, CopyInv, FuseInv
<1>4. CopyInv'
  BY DEF ReadBegin, Begin, ReadRaces, Busy, CopyInv, SoloInv, PhaseInv
<1>5. LiveInv'
  BY DEF ReadBegin, Begin, ReadRaces, Busy, LiveInv, CopyInv, SoloInv, PhaseInv, OwnInv
<1>6. OwnInv'
  BY DEF ReadBegin, Begin, ReadRaces, Busy, OwnInv, PhaseInv
<1>7. KeptInv'
  BY DEF ReadBegin, Begin, ReadRaces, Busy, KeptInv, OwnInv, CopyInv, SoloInv, LiveInv, PhaseInv
<1>8. UntouchedInv'
  BY DEF ReadBegin, Begin, ReadRaces, Busy, UntouchedInv, LiveInv, CopyInv, SoloInv, PhaseInv
<1>9. FuseInv'
  BY DEF ReadBegin, Begin, ReadRaces, Busy, FuseInv, PhaseInv, CopyInv
<1> QED BY <1>1, <1>2, <1>3, <1>4, <1>5, <1>6, <1>7, <1>8, <1>9

\* A read is served: a first read gets a fresh rover_file.
LEMMA ReadServeStep ==
  ASSUME FilesInv, NEW t \in Threads, ReadServe(t)
  PROVE  FilesInv'
<1> USE OpenFilesAssumption DEF FilesInv, FilesTypeOK, Running
<1>1. FilesTypeOK'
  <2>1. misused' \in BOOLEAN
    BY Zenon DEF ReadServe
  <2> QED BY <2>1 DEF ReadServe
<1>2. PhaseInv'
  BY DEF ReadServe, PhaseInv
<1>3. SoloInv'
  BY DEF ReadServe, SoloInv, PhaseInv, CopyInv, FuseInv
<1>4. CopyInv'
  BY DEF ReadServe, CopyInv, SoloInv, PhaseInv
<1>5. LiveInv'
  BY DEF ReadServe, LiveInv, CopyInv, SoloInv, PhaseInv, OwnInv
<1>6. OwnInv'
  BY DEF ReadServe, OwnInv, PhaseInv
<1>7. KeptInv'
  BY DEF ReadServe, KeptInv, OwnInv, CopyInv, SoloInv, LiveInv, PhaseInv
<1>8. UntouchedInv'
  BY DEF ReadServe, UntouchedInv, LiveInv, CopyInv, SoloInv, PhaseInv
<1>9. FuseInv'
  BY DEF ReadServe, FuseInv, PhaseInv, CopyInv
<1> QED BY <1>1, <1>2, <1>3, <1>4, <1>5, <1>6, <1>7, <1>8, <1>9

\* A failing read keeps its copy.
LEMMA ReadFailsStep ==
  ASSUME FilesInv, NEW t \in Threads, ReadFails(t)
  PROVE  FilesInv'
<1> USE OpenFilesAssumption DEF FilesInv, FilesTypeOK, Running
<1>1. FilesTypeOK'
  BY DEF ReadFails, OwnInv, PhaseInv
<1>2. PhaseInv'
  BY DEF ReadFails, PhaseInv
<1>3. SoloInv'
  BY DEF ReadFails, SoloInv, PhaseInv, CopyInv, FuseInv
<1>4. CopyInv'
  BY DEF ReadFails, CopyInv, SoloInv, PhaseInv
<1>5. LiveInv'
  BY DEF ReadFails, LiveInv, CopyInv, SoloInv, PhaseInv, OwnInv
<1>6. OwnInv'
  BY DEF ReadFails, OwnInv, PhaseInv
<1>7. KeptInv'
  BY DEF ReadFails, KeptInv, OwnInv, CopyInv, SoloInv, LiveInv, PhaseInv
<1>8. UntouchedInv'
  BY DEF ReadFails, UntouchedInv, LiveInv, CopyInv, SoloInv, PhaseInv
<1>9. FuseInv'
  BY DEF ReadFails, FuseInv, PhaseInv, CopyInv
<1> QED BY <1>1, <1>2, <1>3, <1>4, <1>5, <1>6, <1>7, <1>8, <1>9

\* A read copies its handle back: over the same handle, or over none.
LEMMA ReadEndStep ==
  ASSUME FilesInv, NEW t \in Threads, ReadEnd(t)
  PROVE  FilesInv'
<1> USE OpenFilesAssumption DEF FilesInv, FilesTypeOK, Running
<1>1. FilesTypeOK'
  BY DEF ReadEnd, OwnInv, PhaseInv
<1>2. PhaseInv'
  BY DEF ReadEnd, PhaseInv
<1>3. SoloInv'
  BY DEF ReadEnd, SoloInv, PhaseInv, CopyInv, FuseInv
<1>4. CopyInv'
  BY DEF ReadEnd, CopyInv, SoloInv, PhaseInv
<1>5. LiveInv'
  BY DEF ReadEnd, LiveInv, CopyInv, SoloInv, PhaseInv, OwnInv
<1>6. OwnInv'
  BY DEF ReadEnd, OwnInv, PhaseInv
<1>7. KeptInv'
  <2> SUFFICES ASSUME raced = {}, lost = {}, NEW o \in (1..objects) \ freed
               PROVE  \/ \E f \in Openings : word'[f] = o
                      \/ \E u \in Threads : op'[u] # "none" /\ handle[u] = o
    BY DEF ReadEnd, KeptInv
  <2>1. CASE \E f \in Openings : word[f] = o
    BY <2>1 DEF ReadEnd, CopyInv
  <2>2. ASSUME NEW u \in Threads, op[u] # "none", handle[u] = o
        PROVE  \/ \E f \in Openings : word'[f] = o
               \/ \E v \in Threads : op'[v] # "none" /\ handle[v] = o
    <3>1. CASE u # t
      BY <2>2, <3>1 DEF ReadEnd
    <3>2. CASE u = t /\ host = "dokan"
      BY <2>2, <3>2 DEF ReadEnd
    <3>3. CASE u = t /\ host = "fuse"
      BY <2>2, <3>3 DEF ReadEnd, FuseInv, CopyInv, PhaseInv
    <3> QED BY <3>1, <3>2, <3>3
  <2> QED BY <2>1, <2>2 DEF KeptInv
<1>8. UntouchedInv'
  BY DEF ReadEnd, UntouchedInv, LiveInv, CopyInv, SoloInv, PhaseInv
<1>9. FuseInv'
  BY DEF ReadEnd, FuseInv, PhaseInv, CopyInv
<1> QED BY <1>1, <1>2, <1>3, <1>4, <1>5, <1>6, <1>7, <1>8, <1>9

\* A Cleanup that overlaps nothing is alone.
LEMMA CleanupBeginStep ==
  ASSUME FilesInv, NEW t \in Threads, NEW f \in Openings, CleanupBegin(t, f)
  PROVE  FilesInv'
<1> USE OpenFilesAssumption DEF FilesInv, FilesTypeOK, Running
<1>1. FilesTypeOK'
  BY DEF CleanupBegin, Begin, Busy, OwnInv, PhaseInv
<1>2. PhaseInv'
  BY DEF CleanupBegin, Begin, Busy, PhaseInv
<1>3. SoloInv'
  BY DEF CleanupBegin, Begin, Busy, SoloInv, PhaseInv, CopyInv, FuseInv
<1>4. CopyInv'
  BY DEF CleanupBegin, Begin, Busy, CopyInv, SoloInv, PhaseInv
<1>5. LiveInv'
  BY DEF CleanupBegin, Begin, Busy, LiveInv, CopyInv, SoloInv, PhaseInv, OwnInv
<1>6. OwnInv'
  BY DEF CleanupBegin, Begin, Busy, OwnInv, PhaseInv
<1>7. KeptInv'
  BY DEF CleanupBegin, Begin, Busy, KeptInv, OwnInv, CopyInv, SoloInv, LiveInv, PhaseInv
<1>8. UntouchedInv'
  BY DEF CleanupBegin, Begin, Busy, UntouchedInv, LiveInv, CopyInv, SoloInv, PhaseInv
<1>9. FuseInv'
  BY DEF CleanupBegin, Begin, Busy, FuseInv, PhaseInv, CopyInv
<1> QED BY <1>1, <1>2, <1>3, <1>4, <1>5, <1>6, <1>7, <1>8, <1>9

\* A Close is alone.
LEMMA CloseBeginStep ==
  ASSUME FilesInv, NEW t \in Threads, NEW f \in Openings, CloseBegin(t, f)
  PROVE  FilesInv'
<1> USE OpenFilesAssumption DEF FilesInv, FilesTypeOK, Running
<1>1. FilesTypeOK'
  BY DEF CloseBegin, Begin, Busy, OwnInv, PhaseInv
<1>2. PhaseInv'
  BY DEF CloseBegin, Begin, Busy, PhaseInv
<1>3. SoloInv'
  BY DEF CloseBegin, Begin, Busy, SoloInv, PhaseInv, CopyInv, FuseInv
<1>4. CopyInv'
  BY DEF CloseBegin, Begin, Busy, CopyInv, SoloInv, PhaseInv
<1>5. LiveInv'
  BY DEF CloseBegin, Begin, Busy, LiveInv, CopyInv, SoloInv, PhaseInv, OwnInv
<1>6. OwnInv'
  BY DEF CloseBegin, Begin, Busy, OwnInv, PhaseInv
<1>7. KeptInv'
  BY DEF CloseBegin, Begin, Busy, KeptInv, OwnInv, CopyInv, SoloInv, LiveInv, PhaseInv
<1>8. UntouchedInv'
  BY DEF CloseBegin, Begin, Busy, UntouchedInv, LiveInv, CopyInv, SoloInv, PhaseInv
<1>9. FuseInv'
  BY DEF CloseBegin, Begin, Busy, FuseInv, PhaseInv, CopyInv
<1> QED BY <1>1, <1>2, <1>3, <1>4, <1>5, <1>6, <1>7, <1>8, <1>9

\* A release closes a rover_file that was not closed before.
LEMMA ReleaseServeStep ==
  ASSUME FilesInv, NEW t \in Threads, ReleaseServe(t)
  PROVE  FilesInv'
<1> USE OpenFilesAssumption DEF FilesInv, FilesTypeOK, Running
<1>1. FilesTypeOK'
  <2>1. misused' \in BOOLEAN
    BY Zenon DEF ReleaseServe
  <2>2. freed' \in SUBSET (1..MaxObjects)
    <3>1. handle[t] # 0 => handle[t] \in 1..MaxObjects
      OBVIOUS
    <3>2. freed' = freed \/ (handle[t] # 0 /\ freed' = freed \cup {handle[t]})
      BY DEF ReleaseServe
    <3> QED BY <3>1, <3>2
  <2> QED BY <2>1, <2>2 DEF ReleaseServe
<1>2. PhaseInv'
  BY DEF ReleaseServe, PhaseInv
<1>3. SoloInv'
  BY DEF ReleaseServe, SoloInv, PhaseInv, CopyInv, FuseInv
<1>4. CopyInv'
  BY DEF ReleaseServe, CopyInv, SoloInv, PhaseInv
<1>5. LiveInv'
  BY DEF ReleaseServe, LiveInv, CopyInv, SoloInv, PhaseInv, OwnInv
<1>6. OwnInv'
  <2>1. freed' \subseteq 1..objects
    <3>1. handle[t] # 0 => handle[t] \in 1..objects
      BY DEF OwnInv
    <3>2. freed' = freed \/ (handle[t] # 0 /\ freed' = freed \cup {handle[t]})
      BY DEF ReleaseServe
    <3> QED BY <3>1, <3>2 DEF OwnInv
  <2>2. handle' = [handle EXCEPT ![t] = 0] /\ UNCHANGED <<word, objects, op, on>>
    BY DEF ReleaseServe
  <2> QED BY <2>1, <2>2 DEF OwnInv
<1>7. KeptInv'
  BY DEF ReleaseServe, KeptInv, OwnInv, CopyInv, SoloInv, LiveInv, PhaseInv
<1>8. UntouchedInv'
  BY DEF ReleaseServe, UntouchedInv, LiveInv, CopyInv, SoloInv, PhaseInv
<1>9. FuseInv'
  BY DEF ReleaseServe, FuseInv, PhaseInv, CopyInv
<1> QED BY <1>1, <1>2, <1>3, <1>4, <1>5, <1>6, <1>7, <1>8, <1>9

\* A release overwrites a handle that is closed or lost.
LEMMA ReleaseEndStep ==
  ASSUME FilesInv, NEW t \in Threads, ReleaseEnd(t)
  PROVE  FilesInv'
<1> USE OpenFilesAssumption DEF FilesInv, FilesTypeOK, Running
<1>1. FilesTypeOK'
  BY DEF ReleaseEnd, OwnInv, PhaseInv
<1>2. PhaseInv'
  BY DEF ReleaseEnd, PhaseInv
<1>3. SoloInv'
  BY DEF ReleaseEnd, SoloInv, PhaseInv, CopyInv, FuseInv
<1>4. CopyInv'
  BY DEF ReleaseEnd, CopyInv, SoloInv, PhaseInv
<1>5. LiveInv'
  BY DEF ReleaseEnd, LiveInv, CopyInv, SoloInv, PhaseInv, OwnInv
<1>6. OwnInv'
  BY DEF ReleaseEnd, OwnInv, PhaseInv
<1>7. KeptInv'
  BY DEF ReleaseEnd, KeptInv, OwnInv, CopyInv, SoloInv, LiveInv, PhaseInv
<1>8. UntouchedInv'
  BY DEF ReleaseEnd, UntouchedInv, LiveInv, CopyInv, SoloInv, PhaseInv
<1>9. FuseInv'
  BY DEF ReleaseEnd, FuseInv, PhaseInv, CopyInv
<1> QED BY <1>1, <1>2, <1>3, <1>4, <1>5, <1>6, <1>7, <1>8, <1>9

\* A stuttering step.
LEMMA FilesStutter ==
  ASSUME FilesInv, UNCHANGED fileVars
  PROVE  FilesInv'
BY DEF fileVars, FilesInv, FilesTypeOK, Running, PhaseInv, SoloInv, CopyInv, LiveInv, OwnInv,
   KeptInv, UntouchedInv, FuseInv

\* The initial states.
LEMMA FilesInitInv == FilesInit => FilesInv
<1> SUFFICES ASSUME FilesInit PROVE FilesInv
  OBVIOUS
<1>1. FilesTypeOK
  <2>1. misused \in BOOLEAN
    BY DEF FilesInit
  <2>2. 0 \in 0..MaxObjects /\ 0 \in 0..MaxReads
    BY OpenFilesAssumption
  <2> QED BY <2>1, <2>2 DEF FilesInit, FilesTypeOK
<1>2. OwnInv /\ KeptInv
  BY DEF FilesInit, OwnInv, KeptInv
<1>3. PhaseInv /\ SoloInv /\ CopyInv /\ LiveInv /\ UntouchedInv
  BY DEF FilesInit, PhaseInv, SoloInv, CopyInv, LiveInv, UntouchedInv, Running
<1>4. FuseInv
  BY DEF FilesInit, FuseInv
<1> QED BY <1>1, <1>2, <1>3, <1>4 DEF FilesInv

\* The invariant is kept by every step, whatever the callbacks' order.
THEOREM FilesInductive == FilesSpec => []FilesInv
<1>1. ASSUME FilesInv, [FilesNext]_fileVars PROVE FilesInv'
  <2>1. CASE UNCHANGED fileVars
    BY <1>1, <2>1, FilesStutter
  <2>2. CASE \E f \in Openings : Create(f)
    BY <1>1, <2>2, CreateStep
  <2>3. ASSUME NEW t \in Threads, ThreadStep(t) PROVE FilesInv'
    BY <1>1, <2>3, ReadBeginStep, CleanupBeginStep, CloseBeginStep, ReadServeStep,
       ReadFailsStep, ReadEndStep, ReleaseServeStep, ReleaseEndStep DEF ThreadStep
  <2> QED BY <1>1, <2>1, <2>2, <2>3 DEF FilesNext
<1> QED BY <1>1, FilesInitInv, PTL DEF FilesSpec

\* Unless Dokan's callbacks overlapped on the first read or on Cleanup no closed
\* rover_file is touched and none is left open that nothing refers to; on the
\* FUSE hosts never.
THEOREM HandlesExact == FilesSpec => []HandlesExactUnlessRaced
<1>1. FilesInv => HandlesExactUnlessRaced
  BY DEF FilesInv, FuseInv, UntouchedInv, KeptInv, Running, HandlesExactUnlessRaced,
     ContextThreadSafe, Leaked, Reachable
<1> QED BY <1>1, FilesInductive, PTL

\* A volume whose files are all closed holds no rover_file open.
THEOREM VolumeFree == FilesSpec => []ClosedVolumeIsFree
<1>1. FilesInv => ClosedVolumeIsFree
  <2> SUFFICES ASSUME FilesInv, raced = {}, lost = {},
                      \A f \in Openings : phase[f] \in {"none", "closed"}
               PROVE  freed = 1..objects
    BY DEF ClosedVolumeIsFree
  <2>1. \A f \in Openings : word[f] = 0
    BY DEF FilesInv, PhaseInv
  <2>2. \A t \in Threads : ~Running(t)
    BY DEF FilesInv, PhaseInv, FilesTypeOK
  <2>3. freed \subseteq 1..objects
    BY DEF FilesInv, OwnInv
  <2>4. ASSUME NEW o \in 1..objects, o \notin freed PROVE FALSE
    <3>1. o # 0
      BY DEF FilesInv, FilesTypeOK
    <3> QED BY <3>1, <2>1, <2>2, <2>4 DEF FilesInv, KeptInv
  <2> QED BY <2>3, <2>4
<1> QED BY <1>1, FilesInductive, PTL
=============================================================================
