----------------------------- MODULE MCPathWalk -----------------------------
(***************************************************************************)
(* Path resolution over small volumes: the directories /, /a and /a/b and  *)
(* an object in each of four further places, most of them links.  The      *)
(* result is compared with a definition of POSIX resolution.               *)
(***************************************************************************)
EXTENDS PathWalk, TLC

rel(comps) == [kind |-> "link", link |-> [abs |-> FALSE, comps |-> comps]]
abs(comps) == [kind |-> "link", link |-> [abs |-> TRUE, comps |-> comps]]
plain(kind) == [kind |-> kind]

\* What may be at /b, /c, /a/c and /a/b/c; "none" for nothing.
AtB == {plain("none"), plain("file"), plain("dir"), plain("bad"),
        abs(<<"a">>), rel(<<"a", "c">>), rel(<<"c">>)}
AtC == {plain("none"), abs(<<"a", "b">>), rel(<<"b">>), rel(<<"c">>), rel(<<>>),
        abs(<<>>), rel(<<"a", Dot, "c">>)}
AtAC == {plain("none"), rel(<<DotDot>>), rel(<<DotDot, "c">>), rel(<<"b">>),
         abs(<<"b">>), rel(<<DotDot, DotDot, "b", "a">>)}
AtABC == {plain("none"), rel(<<DotDot>>), rel(<<DotDot, DotDot>>), abs(<<"a">>),
          abs(<<"a", "c">>), rel(<<DotDot, "c", "c">>)}

Places(b, c, ac, abc) ==
  <<>> :> plain("dir") @@ <<"a">> :> plain("dir") @@ <<"a", "b">> :> plain("dir")
  @@ <<"b">> :> b @@ <<"c">> :> c @@ <<"a", "c">> :> ac
  @@ <<"a", "b", "c">> :> abc

Filled(t) == LET P == {p \in DOMAIN t : t[p].kind # "none"} IN [p \in P |-> t[p]]

MCTrees ==
  {Filled(Places(b, c, ac, abc)) : b \in AtB, c \in AtC, ac \in AtAC, abc \in AtABC}

MCNames == {"a", "b", "c"}

MCAsked == {<<n>> : n \in MCNames} \cup {<<m, n>> : m \in {"b", "c"}, n \in {"b", "c"}}

-----------------------------------------------------------------------------
(* POSIX resolution, by recursion from the last component back.  A result  *)
(* is an error or a physical path, and the number of links replaced.       *)

res(e, p, n) == [err |-> e, phys |-> p, links |-> n]

RECURSIVE Resolve(_, _, _, _)

\* The object that component c names in the directory reached by r; a link is
\* resolved, in full, in the directory that holds it.
Lookup(r, c, flw) ==
  IF r.err # "none" THEN r
  ELSE IF ~IsDir(r.phys) THEN res("ENOTDIR", r.phys, r.links)
  ELSE IF c = Dot THEN r
  ELSE IF c = DotDot
       THEN res("none", IF r.phys = <<>> THEN <<>> ELSE Parent(r.phys), r.links)
  ELSE LET p == Append(r.phys, c) IN
       IF RawErr(p) # "none" THEN res(RawErr(p), p, r.links)
       ELSE IF ~IsLink(p) \/ ~flw THEN res("none", p, r.links)
       ELSE LET to == tree[p].link IN
            IF r.links = LinkDepthMax THEN res("ELOOP", p, r.links + 1)
            ELSE IF ~to.abs /\ to.comps = <<>> THEN res("ENOENT", p, r.links + 1)
            ELSE Resolve(IF to.abs THEN <<>> ELSE r.phys, to.comps, TRUE,
                         r.links + 1)

\* The object that path names from directory from; flw is about its last link.
Resolve(from, path, flw, n) ==
  IF path = <<>> THEN res("none", from, n)
  ELSE Lookup(Resolve(from, Parent(path), TRUE, n), path[Len(path)], flw)

\* "Resolve the mount path FULL the way POSIX does": walk() finds the object
\* that path resolution by nested recursion finds, or fails as it does.
ResolvesLikePosix ==
  pc = "done" =>
    LET r == Resolve(<<>>, mount \o rest, follow, 0)
    IN  r.err = err /\ (err = "none" => r.phys = cur)

=============================================================================
