------------------------------ MODULE PathWalk ------------------------------
(***************************************************************************)
(* Path resolution of the mounted volume (common/fusefs.cpp): walk(), and  *)
(* what fusefs_readdir() shows of links to a client that descends into     *)
(* every directory it is shown.                                            *)
(*                                                                         *)
(* A physical path is the sequence of names below the device root.  The    *)
(* volume does not change, and raw_stat() says what is on it (FuseCache    *)
(* is about the cache in between).  A "bad" object is one whose stat or    *)
(* link target cannot be read; a link whose driver cannot report targets   *)
(* counts as the file or directory settle_link() makes of it.              *)
(***************************************************************************)
EXTENDS Naturals, Sequences

CONSTANTS
  Names,        \* names of objects
  Dot, DotDot,  \* "." and ".."
  Trees,        \* the volumes considered
  Asked,        \* paths below the client's directory that it looks up
  LinkDepthMax  \* LINK_DEPTH_MAX

Component == Names \cup {Dot, DotDot}

Target == [abs : BOOLEAN, comps : Seq(Component)]

Parent(p) == SubSeq(p, 1, Len(p) - 1)

\* Only directories hold objects.
IsTree(t) ==
  /\ DOMAIN t \subseteq Seq(Names)
  /\ <<>> \in DOMAIN t
  /\ \A p \in DOMAIN t :
       /\ t[p].kind \in {"dir", "file", "bad", "link"}
       /\ t[p].kind = "link" => t[p].link \in Target
       /\ \A n \in 0..Len(p) - 1 :
            SubSeq(p, 1, n) \in DOMAIN t /\ t[SubSeq(p, 1, n)].kind = "dir"

ASSUME PathWalkAssumption ==
  /\ Dot \notin Names /\ DotDot \notin Names /\ Dot # DotDot
  /\ \A t \in Trees : IsTree(t) /\ t[<<>>].kind = "dir"
  /\ Asked \subseteq Seq(Names) \ {<<>>}
  /\ LinkDepthMax \in Nat

VARIABLES
  tree,    \* the volume
  links_shown, \* fs->links: "follow" or "native"
  \* The client.
  mount,   \* its directory, as a mount path
  trail,   \* the physical directories on the way there, root first
  \* walk().
  pc,      \* "idle", "walk" or "done"
  rest,    \* the path looked up is mount \o rest
  follow,
  todo,    \* components to go, the first one first
  cur,     \* phys of the entry reached
  links,   \* links replaced so far
  err      \* "none" or the errno

client == <<mount, trail>>
walker == <<pc, rest, follow, todo, cur, links, err>>
vars == <<tree, links_shown, client, walker>>

-----------------------------------------------------------------------------
(* walk().                                                                 *)

\* raw_stat ().err
RawErr(p) ==
  IF p \notin DOMAIN tree THEN "ENOENT"
  ELSE IF tree[p].kind = "bad" THEN "EIO" ELSE "none"

IsDir(p) == p \in DOMAIN tree /\ tree[p].kind = "dir"
IsLink(p) == p \in DOMAIN tree /\ tree[p].kind = "link"

Idle ==
  /\ pc' = "idle" /\ rest' = <<>> /\ follow' = TRUE /\ todo' = <<>>
  /\ cur' = <<>> /\ links' = 0 /\ err' = "none"

\* mount_stat() follows the last link if the mount shows no links;
\* mount_target() follows it in any case.
WalkStart(path, flw) ==
  /\ pc = "idle"
  /\ links_shown = "follow" => flw
  /\ pc' = "walk"
  /\ rest' = path
  /\ follow' = flw
  /\ todo' = mount \o path
  /\ cur' = <<>>
  /\ links' = 0
  /\ err' = RawErr(<<>>)
  /\ UNCHANGED <<tree, links_shown, client>>

\* The loop is left: no component to go, or an error.
WalkEnd ==
  /\ pc = "walk"
  /\ todo = <<>> \/ err # "none"
  /\ pc' = "done"
  /\ UNCHANGED <<tree, links_shown, client, rest, follow, todo, cur, links, err>>

\* A turn of the loop takes the next component.
Turn ==
  /\ pc = "walk"
  /\ todo # <<>> /\ err = "none"
  /\ UNCHANGED <<tree, links_shown, client, pc, rest, follow>>

Fail(e) ==
  /\ err' = e
  /\ todo' = Tail(todo)
  /\ UNCHANGED <<cur, links>>

WalkNotDir ==
  /\ Turn
  /\ ~IsDir(cur)
  /\ Fail("ENOTDIR")

\* Faulty: "." is looked at and not taken.
WalkDotKept ==
  /\ Turn
  /\ IsDir(cur)
  /\ Head(todo) = Dot
  /\ UNCHANGED <<todo, cur, links, err>>

WalkDot ==
  /\ Turn
  /\ IsDir(cur)
  /\ Head(todo) = Dot
  /\ todo' = Tail(todo)
  /\ UNCHANGED <<cur, links, err>>

\* Never left of the root.
WalkDotDot ==
  /\ Turn
  /\ IsDir(cur)
  /\ Head(todo) = DotDot
  /\ todo' = Tail(todo)
  /\ cur' = IF cur = <<>> THEN cur ELSE Parent(cur)
  /\ err' = RawErr(cur')
  /\ UNCHANGED links

\* The entry the next component names.
NextEntry == Append(cur, Head(todo))

\* Faulty: a link in last place is never replaced.
ReplacedNotLast == IsLink(NextEntry) /\ Tail(todo) # <<>>

\* Links in leading places are always replaced, the last one on demand.
Replaced == IsLink(NextEntry) /\ (follow \/ Tail(todo) # <<>>)

WalkName ==
  /\ Turn
  /\ IsDir(cur)
  /\ Head(todo) \in Names
  /\ ~Replaced
  /\ IF RawErr(NextEntry) # "none"
     THEN Fail(RawErr(NextEntry))
     ELSE /\ cur' = NextEntry
          /\ todo' = Tail(todo)
          /\ UNCHANGED <<links, err>>

\* Faulty: an absolute target is taken from the link's directory.
WalkLinkStay ==
  /\ Turn
  /\ IsDir(cur)
  /\ Head(todo) \in Names
  /\ Replaced
  /\ links' = links + 1
  /\ LET to == tree[NextEntry].link IN
     \/ /\ links' > LinkDepthMax
        /\ err' = "ELOOP"
        /\ todo' = Tail(todo)
        /\ UNCHANGED cur
     \/ /\ links' <= LinkDepthMax /\ ~to.abs /\ to.comps = <<>>
        /\ err' = "ENOENT"
        /\ todo' = Tail(todo)
        /\ UNCHANGED cur
     \/ /\ links' <= LinkDepthMax /\ (to.abs \/ to.comps # <<>>)
        /\ todo' = to.comps \o Tail(todo)
        /\ UNCHANGED <<cur, err>>

\* A link is replaced by its target, which starts at the device root if it is
\* absolute and in the link's directory otherwise.
WalkLink ==
  /\ Turn
  /\ IsDir(cur)
  /\ Head(todo) \in Names
  /\ Replaced
  /\ links' = links + 1
  /\ LET to == tree[NextEntry].link IN
     \/ /\ links' > LinkDepthMax
        /\ err' = "ELOOP"
        /\ todo' = Tail(todo)
        /\ UNCHANGED cur
     \/ /\ links' <= LinkDepthMax /\ ~to.abs /\ to.comps = <<>>
        /\ err' = "ENOENT"
        /\ todo' = Tail(todo)
        /\ UNCHANGED cur
     \/ /\ links' <= LinkDepthMax /\ (to.abs \/ to.comps # <<>>)
        /\ todo' = to.comps \o Tail(todo)
        /\ cur' = IF to.abs THEN <<>> ELSE cur
        /\ err' = RawErr(cur')

WalkTurn == WalkNotDir \/ WalkDot \/ WalkDotDot \/ WalkName \/ WalkLink

-----------------------------------------------------------------------------
(* The client and fusefs_readdir().                                        *)

IsPrefix(p, q) == Len(p) <= Len(q) /\ \A i \in 1..Len(p) : p[i] = q[i]

\* Faulty: only the directories visited themselves are compared.
LoopsBackEqual(target) == \E i \in 1..Len(trail) : trail[i] = target

\* loops_back (), given the ancestry () of the directory listed.
LoopsBack(target) == \E i \in 1..Len(trail) : IsPrefix(target, trail[i])

Here == trail[Len(trail)]

\* The client enters a directory of its listing ...
EnterDir(n) ==
  /\ pc = "idle"
  /\ IsDir(Append(Here, n))
  /\ mount' = Append(mount, n)
  /\ trail' = Append(trail, Append(Here, n))
  /\ UNCHANGED <<tree, links_shown, walker>>

\* The entry just looked up is a link that the listing shows as a directory:
\* the mount hides links and this one does not lead back.
ShownAsDir ==
  /\ links_shown = "follow"
  /\ IsLink(Append(Here, rest[1]))
  /\ err = "none"
  /\ IsDir(cur)
  /\ ~LoopsBack(cur)

\* ... or such a link ...
EnterLink ==
  /\ pc = "done"
  /\ Len(rest) = 1
  /\ ShownAsDir
  /\ mount' = mount \o rest
  /\ trail' = Append(trail, cur)
  /\ Idle
  /\ UNCHANGED <<tree, links_shown>>

\* ... or just looks something up ...
Return ==
  /\ pc = "done"
  /\ Idle
  /\ UNCHANGED <<tree, links_shown, client>>

\* ... and goes back when it has seen enough.
Leave ==
  /\ pc = "idle"
  /\ mount # <<>>
  /\ mount' = Parent(mount)
  /\ trail' = Parent(trail)
  /\ UNCHANGED <<tree, links_shown, walker>>

Init ==
  /\ tree \in Trees
  /\ links_shown \in {"follow", "native"}
  /\ mount = <<>>
  /\ trail = << <<>> >>
  /\ pc = "idle" /\ rest = <<>> /\ follow = TRUE /\ todo = <<>>
  /\ cur = <<>> /\ links = 0 /\ err = "none"

Walk == WalkEnd \/ WalkTurn

Next ==
  \/ \E path \in Asked, flw \in BOOLEAN : WalkStart(path, flw)
  \/ Walk
  \/ \E n \in Names : EnterDir(n)
  \/ EnterLink \/ Return \/ Leave

Spec == Init /\ [][Next]_vars

\* walk() runs to its end.
FairSpec == Spec /\ WF_vars(Walk)

-----------------------------------------------------------------------------
(* Properties.                                                             *)

Errors == {"none", "ENOENT", "ENOTDIR", "ELOOP", "EIO"}

\* Every variable has its type; cur names an object of the volume whenever
\* there is no error.
TypeOK ==
  /\ IsTree(tree) /\ IsDir(<<>>)
  /\ links_shown \in {"follow", "native"}
  /\ mount \in Seq(Names) /\ trail \in Seq(Seq(Names))
  /\ Len(trail) = Len(mount) + 1
  /\ pc \in {"idle", "walk", "done"}
  /\ rest \in Seq(Names)
  /\ pc # "idle" => rest # <<>>
  /\ follow \in BOOLEAN
  /\ todo \in Seq(Component)
  /\ cur \in DOMAIN tree
  /\ links \in 0..LinkDepthMax + 1
  /\ err \in Errors

\* "The result's phys names the object itself, free of links": nothing above
\* the result is a link, nor is the result itself when the last one was to be
\* followed.
LinkFree ==
  pc = "done" /\ err = "none" =>
    /\ \A n \in 0..Len(cur) - 1 : IsDir(SubSeq(cur, 1, n))
    /\ cur \in DOMAIN tree /\ tree[cur].kind # "bad"
    /\ follow => ~IsLink(cur)

\* "A directory link that leads back to a directory on the current path
\* repeats forever under a recursive walker; keep it out of listings": a client
\* that enters whatever it is shown as a directory never gets into the same
\* directory twice on one path.
NoRevisit ==
  \A i, j \in 1..Len(trail) : trail[i] = trail[j] => i = j

\* Links that point at each other, at themselves or at an ancestor end in an
\* error and never in an endless walk.
WalkEnds == pc = "walk" ~> pc = "done"
=============================================================================
