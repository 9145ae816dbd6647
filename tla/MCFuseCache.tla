---------------------------- MODULE MCFuseCache ----------------------------
(* A root directory whose names mean different things under different      *)
(* encodings.  Under one, a file name occurs twice; under the other, a     *)
(* link has the name of a file.  The link leads to the root, so the mount  *)
(* has a directory "l" whose physical path is another.                     *)
EXTENDS FuseCache, TLC

MCNames == {"f", "l"}
MCPaths == {<<>>} \cup {<<x>> : x \in MCNames} \cup {<<x, y>> : x, y \in MCNames}
MCObjects == {"dir", "a", "b", "c", "up"}
Item(x, o) == [name |-> x, obj |-> o]
MCListing ==
  [e \in {"utf8", "gbk"} |-> [p \in MCPaths |->
     CASE p # <<>> -> <<>>
       [] e = "utf8" -> <<Item("f", "a"), Item("f", "b"), Item("l", "up")>>
       [] e = "gbk" -> <<Item("l", "up"), Item("l", "c")>>]]

MCAsked == {<<"l", "f">>}
MCBrowsed == {<<>>, <<"l">>}

\* walk() looks "ask" up and goes on with "todo"; "links" are replaced.
LinkMax == 2
MCWalks == [ask : MCPaths, todo : MCPaths, links : 0..LinkMax]
MCBegin == [p \in MCPaths |-> [ask |-> <<>>, todo |-> p, links |-> 0]]
MCAsks == [w \in MCWalks |-> w.ask]
MCOnward == [w \in MCWalks |-> [o \in MCObjects |->
  CASE o = "up" /\ w.links < LinkMax -> [w EXCEPT !.ask = <<>>, !.links = @ + 1]
    [] o = "dir" /\ w.todo # <<>> /\ Append(w.ask, Head(w.todo)) \in MCPaths ->
         [w EXCEPT !.ask = Append(@, Head(w.todo)), !.todo = Tail(@)]
    [] o # "up" /\ w.todo = <<>> -> Done
    [] OTHER -> Fails]]
MCEnds == [e \in {"utf8", "gbk"} |->
  LET f[w \in MCWalks] ==
        LET obj == Lookup(e, w.ask)
            next == IF obj = "ENOENT" THEN Fails ELSE MCOnward[w][obj]
        IN  IF next = Fails THEN Nowhere
            ELSE IF next = Done THEN w.ask ELSE f[next]
  IN  f]

Symmetry == Permutations(Threads)
=============================================================================
