------------------------------ MODULE Extract ------------------------------
(***************************************************************************)
(* Extraction of files and directories to the host: extract() of           *)
(* common/extract_core.cpp on the host functions of extract_host.h.        *)
(*                                                                         *)
(* First a work list is made of everything below the sources, then it is   *)
(* copied in order.  Source objects are nodes; a directory of a damaged    *)
(* volume may hold one of its own ancestors.  Names that the host takes    *)
(* for one, by case or by what had to be replaced in them, are one name    *)
(* here.  A name with a number is a name like others, and others may make  *)
(* entries in the destination at any time; that they remove any is left    *)
(* out, and so are the times of files and directories.                     *)
(***************************************************************************)
EXTENDS JobSlot, FiniteSetsExt, SequencesExt

CONSTANTS
  Volumes,      \* [top, kind, kids, name, inodes]: inodes if its driver reports them
  Foreign,      \* sets of names in the destination beforehand
  Numbered(_, _, _),  \* numbered_component(): of a name, a number and is_dir
  OtherNames,   \* names that others give what they make
  MaxOthers,    \* bound: entries of others, before others make more
  WalkMaxDepth  \* WALK_MAX_DEPTH

\* extract() turns down an empty list of sources.
ASSUME ExtractAssumption ==
  /\ \A v \in Volumes :
       /\ v.top \in Seq(DOMAIN v.kind) \ {<<>>}
       /\ v.kids \in [DOMAIN v.kind -> Seq(DOMAIN v.kind)]
  /\ WalkMaxDepth \in Nat \ {0}

VARIABLES
  volume,   \* the source volume
  phase,    \* "root", "walk", "copy", "make", "file", "out", "end"
  sources,  \* sources still to be walked
  frames,   \* the recursion of walk_dir(), innermost last
  work,     \* the work list
  item,     \* index of the item being copied
  number,   \* the number its name is tried with next
  host,     \* entries of the destination
  others,   \* those of them that others made
  links,    \* links_skipped
  errors,   \* items whose copying failed
  aborted   \* the extraction ended before the end of its work

extractVars == <<volume, phase, sources, frames, work, item, number,
                 host, others, links, errors, aborted>>

hostVars == <<number, host, others>>

Kind(n) == volume.kind[n]

\* An entry of the destination and the item it was made for: 0 if others made it.
\* The path of an entry is that of its directory, <<>> for the root, and its name.
Entry(dir, name, what, of) == [dir |-> dir, name |-> name, what |-> what, of |-> of]
Path(e) == <<e.dir, e.name>>

ExtractInit ==
  /\ volume \in Volumes
  /\ phase = "root" /\ sources = volume.top
  /\ frames = <<>> /\ work = <<>> /\ item = 1
  /\ \E foreign \in Foreign :
       others = {Entry(<<>>, name, "foreign", 0) : name \in foreign}
  /\ host = others /\ number = 0
  /\ links = 0 /\ errors = {} /\ aborted = FALSE

In(p) == JobRuns("extract") /\ phase = p /\ UNCHANGED slotVars

\* goto out
GoOut ==
  /\ phase' = "out" /\ aborted' = TRUE
  /\ UNCHANGED <<volume, sources, frames, work, item, hostVars,
                 links, errors>>

-----------------------------------------------------------------------------
(* The work list.                                                          *)

MakeRoot ==
  /\ In("root") /\ phase' = "walk"
  /\ UNCHANGED <<volume, sources, frames, work, item, hostVars,
                 links, errors, aborted>>

MakeRootFails == In("root") /\ GoOut

\* Put node n on the work list; a directory is walked next.
Push(n, parent, above) ==
  /\ work' = Append(work, [node |-> n, parent |-> parent, target |-> <<>>])
  /\ frames' = IF Kind(n) = "dir"
               THEN Append(above, [of |-> Len(work) + 1, listed |-> FALSE, left |-> <<>>])
               ELSE above

Walking == In("walk") /\ frames # <<>>
Top == frames[Len(frames)]
ReplaceTop(f) == [frames EXCEPT ![Len(frames)] = f]

WalkSource ==
  /\ In("walk") /\ frames = <<>> /\ sources # <<>> /\ ~cancel
  /\ sources' = Tail(sources)
  /\ IF Kind(Head(sources)) = "link"
     THEN links' = links + 1 /\ UNCHANGED <<work, frames>>
     ELSE Push(Head(sources), 0, frames) /\ UNCHANGED links
  /\ UNCHANGED <<volume, phase, item, hostVars, errors, aborted>>

\* The job is cancelled, or rover_stat() or rover_dir_list() fails.
WalkFails ==
  /\ In("walk")
  /\ \/ frames = <<>> /\ sources # <<>>
     \/ frames # <<>> /\ ~Top.listed
     \/ frames # <<>> /\ Top.left # <<>> /\ cancel
  /\ GoOut

WalkList ==
  /\ Walking /\ ~Top.listed /\ ~cancel
  /\ Len(frames) < WalkMaxDepth
  /\ frames' = ReplaceTop([Top EXCEPT !.listed = TRUE, !.left = volume.kids[work[Top.of].node]])
  /\ UNCHANGED <<volume, phase, sources, work, item, hostVars,
                 links, errors, aborted>>

WalkTooDeep ==
  /\ Walking /\ ~Top.listed /\ ~cancel
  /\ Len(frames) >= WalkMaxDepth
  /\ GoOut

Chain == {work[frames[i].of].node : i \in DOMAIN frames}
LoopsBack(n) == Kind(n) = "dir" /\ volume.inodes /\ n \in Chain

\* Faulty: a link ends its directory.
WalkEntryBreaks ==
  /\ Walking /\ Top.listed /\ Top.left # <<>> /\ ~cancel
  /\ LET n == Head(Top.left)
         rest == ReplaceTop([Top EXCEPT !.left = Tail(Top.left)])
     IN /\ ~LoopsBack(n)
        /\ IF Kind(n) = "link"
           THEN /\ links' = links + 1
                /\ frames' = ReplaceTop([Top EXCEPT !.left = <<>>])
                /\ UNCHANGED work
           ELSE Push(n, Top.of, rest) /\ UNCHANGED links
  /\ UNCHANGED <<volume, phase, sources, item, hostVars, errors, aborted>>

WalkEntry ==
  /\ Walking /\ Top.listed /\ Top.left # <<>> /\ ~cancel
  /\ LET n == Head(Top.left)
         rest == ReplaceTop([Top EXCEPT !.left = Tail(Top.left)])
     IN /\ ~LoopsBack(n)
        /\ IF Kind(n) = "link"
           THEN links' = links + 1 /\ frames' = rest /\ UNCHANGED work
           ELSE Push(n, Top.of, rest) /\ UNCHANGED links
  /\ UNCHANGED <<volume, phase, sources, item, hostVars, errors, aborted>>

WalkLoops ==
  /\ Walking /\ Top.listed /\ Top.left # <<>>
  /\ LoopsBack(Head(Top.left))
  /\ GoOut

WalkUp ==
  /\ Walking /\ Top.listed /\ Top.left = <<>>
  /\ frames' = Front(frames)
  /\ UNCHANGED <<volume, phase, sources, work, item, hostVars,
                 links, errors, aborted>>

WalkDone ==
  /\ In("walk") /\ frames = <<>> /\ sources = <<>>
  /\ phase' = "copy"
  /\ UNCHANGED <<volume, sources, frames, work, item, hostVars,
                 links, errors, aborted>>

-----------------------------------------------------------------------------
(* Copying.                                                                *)

Name(i) == volume.name[work[i].node]
IsDir(i) == Kind(work[i].node) = "dir"

\* The directory made for the item's parent, and candidate_path() below it.
Target(i) == IF i = 0 THEN <<>> ELSE work[i].target
Dir == Target(work[item].parent)
Candidate == IF number = 0 THEN Name(item) ELSE Numbered(Name(item), number, IsDir(item))

There(dir, name) == \E e \in host : e.dir = dir /\ e.name = name

Copying == In("copy") /\ item \in DOMAIN work
Making == In("make")

CopyCancelled == Copying /\ cancel /\ GoOut

\* The next item is taken up; a file's source is open.
CopyItem ==
  /\ Copying /\ ~cancel
  /\ phase' = "make" /\ number' = 0
  /\ UNCHANGED <<volume, sources, frames, work, item, host, others,
                 links, errors, aborted>>

\* create_unique_file(), create_unique_directory(): the name is taken.
MakeTaken ==
  /\ Making /\ There(Dir, Candidate)
  /\ number' = number + 1
  /\ UNCHANGED <<volume, phase, sources, frames, work, item, host, others,
                 links, errors, aborted>>

\* Faulty: a directory that is there already will do, as it does for
\* create_one_directory().
MakeDirAnyway ==
  /\ Making /\ IsDir(item)
  /\ host' = host \cup {e \in {Entry(Dir, Candidate, "dir", item)} : ~There(Dir, Candidate)}
  /\ work' = [work EXCEPT ![item].target = <<Dir, Candidate>>]
  /\ phase' = "copy" /\ item' = item + 1
  /\ UNCHANGED <<volume, sources, frames, number, others, links, errors, aborted>>

MakeDir ==
  /\ Making /\ IsDir(item) /\ ~There(Dir, Candidate)
  /\ host' = host \cup {Entry(Dir, Candidate, "dir", item)}
  /\ work' = [work EXCEPT ![item].target = <<Dir, Candidate>>]
  /\ phase' = "copy" /\ item' = item + 1
  /\ UNCHANGED <<volume, sources, frames, number, others, links, errors, aborted>>

MakeDirFails == Making /\ IsDir(item) /\ GoOut

MakeFile ==
  /\ Making /\ ~IsDir(item) /\ ~There(Dir, Candidate)
  /\ host' = host \cup {Entry(Dir, Candidate, "part", item)}
  /\ phase' = "file"
  /\ UNCHANGED <<volume, sources, frames, work, item, number, others,
                 links, errors, aborted>>

\* extract_file() fails: the job is cancelled, or the item is an error and the
\* others go on.
ItemFails ==
  /\ IF cancel
     THEN phase' = "out" /\ aborted' = TRUE /\ UNCHANGED <<item, errors>>
     ELSE /\ phase' = "copy" /\ item' = item + 1 /\ errors' = errors \cup {item}
          /\ UNCHANGED aborted
  /\ UNCHANGED <<volume, sources, frames, work, number, others, links>>

\* The source cannot be opened, or the file not be made.
MakeFileFails == Making /\ ~IsDir(item) /\ ItemFails /\ UNCHANGED host

Part == CHOOSE e \in host : e.of = item /\ e.what = "part"

\* The part is what is left of the file in the end.
PartBecomes(what) == host' = (host \ {Part}) \cup {[Part EXCEPT !.what = what]}

FileEnds ==
  /\ In("file") /\ ~cancel
  /\ PartBecomes("whole")
  /\ phase' = "copy" /\ item' = item + 1
  /\ UNCHANGED <<volume, sources, frames, work, number, others, links, errors,
                 aborted>>

\* Faulty: what was written of a file that failed stays.
FileFailsKept == In("file") /\ ItemFails /\ UNCHANGED host

\* A read, a write or the close fails, or the job is cancelled: the file is
\* removed.  That the removal may fail is not looked at.
FileFails ==
  /\ In("file") /\ ItemFails
  /\ host' = host \ {Part} \/ PartBecomes("stuck")

CopyDone ==
  /\ In("copy") /\ item > Len(work)
  /\ phase' = "out"
  /\ UNCHANGED <<volume, sources, frames, work, item, hostVars,
                 links, errors, aborted>>

\* The result; failed items are reported beside it.
Finish ==
  /\ JobRuns("extract") /\ phase = "out" /\ phase' = "end"
  /\ JobEnds(IF aborted THEN "failed" ELSE "ok")
  /\ UNCHANGED <<volume, sources, frames, work, item, hostVars, links, errors,
                 aborted>>

ExtractStep ==
  \/ MakeRoot \/ MakeRootFails \/ WalkSource \/ WalkFails \/ WalkList \/ WalkTooDeep
  \/ WalkEntry \/ WalkLoops \/ WalkUp \/ WalkDone
  \/ CopyCancelled \/ CopyItem \/ MakeTaken \/ MakeDir \/ MakeDirFails
  \/ MakeFile \/ MakeFileFails \/ FileEnds \/ FileFails \/ CopyDone \/ Finish

\* The directories of the destination, by item.
MadeDirs == {0} \cup {i \in 1..item - 1 : IsDir(i)}

\* Others make an entry in a directory of the destination; what they make at
\* other times is there when the next name is tried.
OtherMakes ==
  /\ running = "extract" /\ phase = "make"
  /\ Cardinality(others) < MaxOthers
  /\ \E d \in MadeDirs, name \in OtherNames :
       LET e == Entry(Target(d), name, "foreign", 0)
       IN /\ ~There(e.dir, e.name)
          /\ host' = host \cup {e} /\ others' = others \cup {e}
  /\ UNCHANGED <<slotVars, volume, phase, sources, frames, work, item, number,
                 links, errors, aborted>>

\* After the last look at g_cancel; with nothing but links to extract that is
\* at the last source.
ExtractCommitted ==
  \/ phase \in {"out", "end"}
  \/ phase \in {"walk", "copy"} /\ sources = <<>> /\ frames = <<>> /\ item > Len(work)
  \/ phase = "make" /\ item = Len(work) /\ IsDir(item)

-----------------------------------------------------------------------------
(* Properties.                                                             *)

\* "Reserve each destination name with the creating call itself"
\* (extract_host.h), whatever names fall together and whatever others make
\* meanwhile: nothing of theirs is written over or vanishes, none of their
\* directories is taken for one of the extraction, and what is made for an item
\* lies in the directory made for the item's parent and in no other's.
NothingOverwritten ==
  /\ others \subseteq host
  /\ \A d \in MadeDirs :
       /\ \A f \in others : Path(f) # Target(d)
       /\ \A e \in host \ others : e.dir = Target(d) <=> work[e.of].parent = d

\* When the extraction is through, no file is half written, except one of an
\* error, or of the item at which the job was cancelled, whose removal failed;
\* and unless it was given up every file is either there or among the errors and
\* every directory is there.
AllAccounted ==
  phase = "end" =>
    /\ \A e \in host : e.what # "part"
    /\ \A e \in host : e.what = "stuck" => e.of \in errors \/ (aborted /\ e.of = item)
    /\ \/ aborted
       \/ \A i \in DOMAIN work :
            (i \in errors) # \E e \in host : e.of = i /\ e.what \in {"dir", "whole"}

\* The work list leaves nothing out: below each directory on it are all its
\* entries but the links, in order, and these are counted.
WorkComplete ==
  phase = "copy" =>
    LET Below(i) == IF i = 0 THEN volume.top ELSE volume.kids[work[i].node]
        Dirs == {0} \cup {i \in DOMAIN work : IsDir(i)}
        Listed(i) == SelectSeq(work, LAMBDA w : w.parent = i)
    IN /\ \A i \in Dirs :
            LET wanted == SelectSeq(Below(i), LAMBDA n : Kind(n) # "link")
            IN /\ Len(Listed(i)) = Len(wanted)
               /\ \A k \in DOMAIN wanted : Listed(i)[k].node = wanted[k]
       /\ Len(work) + links = FoldSet(LAMBDA i, sum : sum + Len(Below(i)), 0, Dirs)
=============================================================================
