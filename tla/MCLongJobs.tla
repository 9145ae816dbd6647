----------------------------- MODULE MCLongJobs -----------------------------
(* Long jobs on small instances.  A name is a sequence of parts; a number  *)
(* is one.                                                                 *)
EXTENDS LongJobs

\* A directory and a file whose names are one on the host, a file that is named
\* as the second of them will be, and below the directory two files of one name.
Plain ==
  [top |-> <<1, 2, 5>>,
   kind |-> <<"dir", "file", "file", "file", "file">>,
   kids |-> <<<<3, 4>>, <<>>, <<>>, <<>>, <<>>>>,
   name |-> <<<<"a">>, <<"a">>, <<"b", ".x">>, <<"b", ".x">>, <<"a", "1">>>>,
   inodes |-> FALSE]

\* Two directories whose names are one on the host, with a file and a link.
Twins ==
  [top |-> <<1, 2>>, kind |-> <<"dir", "dir", "file", "link">>,
   kids |-> <<<<3>>, <<4, 3>>, <<>>, <<>>>>,
   name |-> <<<<"a">>, <<"a">>, <<"a">>, <<"a">>>>, inodes |-> TRUE]

\* A directory that holds itself below another one.
Looped(reported) ==
  [top |-> <<1>>,
   kind |-> <<"dir", "dir", "file">>,
   kids |-> <<<<2>>, <<3, 1>>, <<>>>>,
   name |-> <<<<"a">>, <<"b">>, <<"a">>>>, inodes |-> reported]

\* Nothing but a link asked for.
LinkOnly ==
  [top |-> <<1>>, kind |-> <<"link">>, kids |-> <<<<>>>>, name |-> <<<<"a">>>>,
   inodes |-> TRUE]

MCVolumes == {Plain, Twins, Looped(TRUE), Looped(FALSE), LinkOnly}
MCForeign == {{}, {<<"a">>}}
MCOtherNames == {<<"a", "1">>}

\* The number goes before the ending of a file's name; what comes before it
\* gives way in a name that gets too long.
MCNumbered(name, n, isDir) ==
  LET place == IF ~isDir /\ Last(name) = ".x" /\ Len(name) > 1 THEN Len(name) ELSE Len(name) + 1
      numbered == InsertAt(name, place, ToString(n))
  IN IF Len(numbered) > 2 THEN RemoveAt(numbered, place - 1) ELSE numbered
=============================================================================
