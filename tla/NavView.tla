------------------------------ MODULE NavView ------------------------------
(***************************************************************************)
(* The file list of the main window: navigation and its history            *)
(* (FsRover/mainnav.cpp), the listing shown and the sizes requested for    *)
(* the rows in sight (mainlist.cpp), and the dispatch of results           *)
(* (main.cpp).  The backend is a queue of tasks answered in order (see     *)
(* Backend); it is running throughout.  A step of the GUI thread is the    *)
(* handling of one window message.                                         *)
(***************************************************************************)
EXTENDS Integers, Sequences, FiniteSets

CONSTANTS
  Paths,      \* directories the user can go to
  NoPath,     \* the empty string
  Up,         \* the directory above; a root is above itself
  RootOf,     \* the device root of a path
  Removable,  \* device roots that can be unmounted
  Encodings,  \* values of g_fs_encoding
  Count,      \* entries of a directory, all of them files of unknown size
  Batch,      \* LIST_SIZE_BATCH
  Window,     \* LIST_SIZE_WINDOW
  Page,       \* ListView_GetCountPerPage()
  HistMax,    \* HIST_MAX
  MaxNavs,    \* bound: navigations and unmountings by the user
  MaxChanges  \* bound: changes of the encoding

ASSUME NavViewAssumption ==
  /\ NoPath \notin Paths
  /\ Up \in [Paths -> Paths]
  /\ RootOf \in [Paths -> Paths]
  /\ Removable \subseteq Paths
  /\ {Count, Batch, Window, Page, HistMax} \subseteq Nat \ {0}
  /\ MaxNavs \in Nat /\ MaxChanges \in Nat

Rows == 0..(Count - 1)

VARIABLES
  \* Backend.
  g_seq,       \* last sequence number given out
  queue,       \* tasks
  latest,      \* g_latest_list_seq
  mailbox,     \* WM_APP_TASK_DONE messages not handled yet
  encoding,    \* the decoding in force
  gone,        \* unmounted device roots
  \* The view.
  g_path, g_seq_list, g_view_seq,
  g_entries,   \* per row, the size shown: <<path, row>> it was read from
  view_enc,    \* the decoding the entries were listed with
  \* Sizes under way: g_seq_sizes, g_size_rows, g_size_pending, g_size_want.
  ask,
  visible,     \* rows of the last cache hint
  \* History.
  g_hist, g_hist_pos, g_hist_seq,
  \* Bounds and history of the run.
  navs, changes,
  departed,    \* device roots whose unmounting the GUI has been told of
  survivor     \* the listing no refresh() replaced when the encoding changed

backend == <<g_seq, queue, latest, mailbox, encoding, gone>>
view == <<g_path, g_view_seq, g_entries, view_enc, visible>>
hist == <<g_hist, g_hist_pos, g_hist_seq>>
vars == <<backend, view, g_seq_list, ask, hist, navs, changes, departed, survivor>>

Unknown == <<>>
NoSizes == [r \in Rows |-> Unknown]
NoAsk == [seq |-> 0, rows |-> <<>>, pending |-> {}, first |-> 0, last |-> -1]

Init ==
  /\ g_seq = 0 /\ queue = <<>> /\ latest = 0 /\ mailbox = <<>>
  /\ encoding \in Encodings /\ gone = {}
  /\ g_path = NoPath /\ g_seq_list = 0 /\ g_view_seq = 0
  /\ g_entries = NoSizes /\ view_enc = encoding
  /\ ask = NoAsk /\ visible = {}
  /\ g_hist = <<>> /\ g_hist_pos = 0 /\ g_hist_seq = 0
  /\ navs = 0 /\ changes = 0 /\ departed = {} /\ survivor = 0

-----------------------------------------------------------------------------
(* The backend's side.                                                     *)

\* run_list_dir(): a departed device cannot be listed, any other may fail.
RunListDir ==
  /\ queue # <<>> /\ Head(queue).kind = "list"
  /\ \E ok \in {FALSE} \cup {RootOf[Head(queue).path] \notin gone} :
       mailbox' = Append(mailbox, [kind |-> "list", seq |-> Head(queue).seq,
                    path |-> Head(queue).path, ok |-> ok, enc |-> encoding])
  /\ queue' = Tail(queue)
  /\ UNCHANGED <<g_seq, latest, encoding, gone, view, g_seq_list, ask, hist,
                 navs, changes, departed, survivor>>

\* run_list_sizes(): it stops early only for a newer listing.
RunListSizes ==
  /\ queue # <<>> /\ Head(queue).kind = "sizes"
  /\ LET t == Head(queue) IN
     \E k \in 0..Len(t.rows) :
       /\ t.owner = latest => k = Len(t.rows)
       /\ mailbox' = Append(mailbox, [kind |-> "sizes", seq |-> t.seq, owner |-> t.owner,
                    sizes |-> [i \in 1..k |-> <<t.path, t.rows[i]>>]])
  /\ queue' = Tail(queue)
  /\ UNCHANGED <<g_seq, latest, encoding, gone, view, g_seq_list, ask, hist,
                 navs, changes, departed, survivor>>

\* loopback_del, winfile_del, lost_del; a device in use stays, and the message
\* that says so only sets the status line.
RunUnmount ==
  /\ queue # <<>> /\ Head(queue).kind = "unmount"
  /\ \/ /\ gone' = gone \cup {Head(queue).path}
        /\ mailbox' = Append(mailbox, [kind |-> "unmount", path |-> Head(queue).path])
     \/ UNCHANGED <<gone, mailbox>>
  /\ queue' = Tail(queue)
  /\ UNCHANGED <<g_seq, latest, encoding, view, g_seq_list, ask, hist,
                 navs, changes, departed, survivor>>

BackendStep == RunListDir \/ RunListSizes \/ RunUnmount

-----------------------------------------------------------------------------
(* Sizes of the rows in sight.                                             *)

\* list_sizes: the first rows of the range that still need asking.
RowsToAsk(entries, pending, first, last) ==
  LET needed == {r \in first..last : entries[r] = Unknown /\ r \notin pending}
      rank(r) == Cardinality({q \in needed : q <= r})
      size == IF Cardinality(needed) < Batch THEN Cardinality(needed) ELSE Batch
  IN  [i \in 1..size |-> CHOOSE r \in needed : rank(r) = i]

\* Faulty: every hint posts a batch of its own.
QueueListSizesAlways(first, last, path, seq, entries, a) ==
  LET rows == RowsToAsk(entries, a.pending, first, last)
      pend == a.pending \cup {rows[i] : i \in 1..Len(rows)}
      want == [a EXCEPT !.first = first, !.last = last]
  IN  IF rows = <<>> THEN [ask |-> want, post |-> <<>>]
      ELSE [ask |-> [want EXCEPT !.seq = g_seq + 1, !.rows = rows, !.pending = pend],
            post |-> <<[kind |-> "sizes", seq |-> g_seq + 1, owner |-> seq,
                        path |-> path, rows |-> rows]>>]

\* queue_list_sizes(): remember the range wanted; unless a batch is under way,
\* post the next one.
QueueListSizes(first, last, path, seq, entries, a) ==
  LET rows == RowsToAsk(entries, a.pending, first, last)
      pend == a.pending \cup {rows[i] : i \in 1..Len(rows)}
      want == [a EXCEPT !.first = first, !.last = last]
  IN  IF a.seq # 0 \/ rows = <<>> THEN [ask |-> want, post |-> <<>>]
      ELSE [ask |-> [want EXCEPT !.seq = g_seq + 1, !.rows = rows, !.pending = pend],
            post |-> <<[kind |-> "sizes", seq |-> g_seq + 1, owner |-> seq,
                        path |-> path, rows |-> rows]>>]

\* hint_list_sizes(): a page more at each end, at most Window rows, shifted
\* into the list.
Neighborhood(from, to) ==
  LET span == to - from + 1
      extra == Window - span
      wide == <<from - Page, to + Page>>
      r1 == IF span >= Window THEN <<from, from + Window - 1>>
            ELSE IF wide[2] - wide[1] + 1 > Window
            THEN <<from - extra \div 2, to + extra - extra \div 2>>
            ELSE wide
      r2 == IF r1[1] < 0 THEN <<0, r1[2] - r1[1]>> ELSE r1
      over == r2[2] - Count + 1
  IN  IF r2[2] >= Count
      THEN <<IF r2[1] > over THEN r2[1] - over ELSE 0, Count - 1>>
      ELSE r2

\* Rows FROM..TO are in sight of a view that has just these values.
HintListSizes(from, to, path, seq, entries, a) ==
  LET r == Neighborhood(from, to)
      q == QueueListSizes(r[1], r[2], path, seq, entries, a)
  IN  /\ ask' = q.ask
      /\ queue' = queue \o q.post
      /\ g_seq' = g_seq + Len(q.post)

-----------------------------------------------------------------------------
(* Navigation.                                                             *)

\* navigate(): post the listing and drop the sizes of the old view.
Navigate(path) ==
  /\ g_seq' = g_seq + 1
  /\ latest' = g_seq + 1
  /\ g_seq_list' = g_seq + 1
  /\ queue' = Append(queue, [kind |-> "list", seq |-> g_seq + 1, path |-> path])
  /\ ask' = [ask EXCEPT !.seq = 0, !.pending = {}, !.rows = <<>>, !.last = -1]

\* refresh(): enumerating the disks does not concern the view.
Refresh(path) ==
  IF path = NoPath
  THEN UNCHANGED <<g_seq, latest, g_seq_list, queue, ask>>
  ELSE Navigate(path)

\* The user navigates or unmounts a bounded number of times.
Turn == navs < MaxNavs /\ navs' = navs + 1

\* The address bar, the tree, a double click.
GoTo(path) ==
  /\ Turn
  /\ Navigate(path)
  /\ UNCHANGED <<mailbox, encoding, gone, view, hist, changes, departed, survivor>>

DoRefresh ==
  /\ Turn
  /\ g_path # NoPath
  /\ Navigate(g_path)
  /\ UNCHANGED <<mailbox, encoding, gone, view, hist, changes, departed, survivor>>

\* go_up().
GoUp ==
  /\ Turn
  /\ g_path # NoPath
  /\ Up[g_path] # g_path
  /\ Navigate(Up[g_path])
  /\ UNCHANGED <<mailbox, encoding, gone, view, hist, changes, departed, survivor>>

\* go_back() and go_forward() move the cursor first.
Move(pos) ==
  /\ Turn
  /\ g_hist_pos' = pos
  /\ Navigate(g_hist[pos])
  /\ g_hist_seq' = g_seq + 1
  /\ UNCHANGED <<mailbox, encoding, gone, view, g_hist, changes, departed, survivor>>

GoBack == g_hist_pos > 1 /\ Move(g_hist_pos - 1)

GoForward ==
  /\ g_hist_pos > 0
  /\ g_hist_pos < Len(g_hist)
  /\ Move(g_hist_pos + 1)

\* list_clear().
ListClear(path) ==
  /\ g_path' = path
  /\ g_view_seq' = 0
  /\ g_entries' = NoSizes
  /\ visible' = {}
  /\ UNCHANGED view_enc

\* Faulty: the listings under way are not superseded by a new one.
SetFsEncodingNoRefresh ==
  /\ changes < MaxChanges
  /\ \E enc \in Encodings \ {encoding} : encoding' = enc
  /\ changes' = changes + 1
  /\ g_hist' = <<>> /\ g_hist_pos' = 0 /\ g_hist_seq' = 0
  /\ survivor' = IF g_path = NoPath THEN g_seq_list ELSE survivor
  /\ ListClear(IF g_path = NoPath THEN NoPath ELSE RootOf[g_path])
  /\ UNCHANGED <<g_seq, latest, g_seq_list, queue, ask, mailbox, gone, navs, departed>>

\* set_fs_encoding(): the backend call, then a fresh start at the device root.
SetFsEncoding ==
  /\ changes < MaxChanges
  /\ \E enc \in Encodings \ {encoding} : encoding' = enc
  /\ changes' = changes + 1
  /\ g_hist' = <<>> /\ g_hist_pos' = 0 /\ g_hist_seq' = 0
  /\ survivor' = IF g_path = NoPath THEN g_seq_list ELSE survivor
  /\ LET root == IF g_path = NoPath THEN NoPath ELSE RootOf[g_path]
     IN  ListClear(root) /\ Refresh(root)
  /\ UNCHANGED <<mailbox, gone, navs, departed>>

\* The tree's unmount command.
Unmount(dev) ==
  /\ Turn
  /\ dev \notin gone
  /\ ~\E i \in 1..Len(queue) : queue[i].kind = "unmount"
  /\ g_seq' = g_seq + 1
  /\ queue' = Append(queue, [kind |-> "unmount", path |-> dev])
  /\ UNCHANGED <<latest, mailbox, encoding, gone, view, g_seq_list, ask, hist,
                 changes, departed, survivor>>

\* LVN_ODCACHEHINT: the list shows rows FROM..TO.
CacheHint(from, to) ==
  /\ g_view_seq # 0 /\ from <= to
  /\ visible' = from..to
  /\ IF g_view_seq = g_seq_list
     THEN HintListSizes(from, to, g_path, g_view_seq, g_entries, ask)
     ELSE UNCHANGED <<ask, queue, g_seq>>
  /\ UNCHANGED <<latest, mailbox, encoding, gone, g_path, g_view_seq, g_entries,
                 view_enc, g_seq_list, hist, navs, changes, departed, survivor>>

-----------------------------------------------------------------------------
(* on_task_done().                                                         *)

Message == Head(mailbox)

Received(kind) ==
  /\ mailbox # <<>> /\ Message.kind = kind
  /\ mailbox' = Tail(mailbox)
  /\ UNCHANGED <<encoding, gone, changes, survivor>>

\* A result nobody waits for any more.
OutOfDate ==
  \/ Message.kind = "list" /\ Message.seq # g_seq_list
  \/ Message.kind = "sizes" /\ (Message.seq # ask.seq \/ Message.owner # g_seq_list)

DropResult(kind) ==
  /\ Received(kind)
  /\ OutOfDate
  /\ UNCHANGED <<g_seq, queue, latest, view, g_seq_list, ask, hist, navs, departed>>

\* Faulty: the oldest entry goes, the cursor stays where it was counted.
HistRecordNoShift(seq, path) ==
  LET longer == Append(SubSeq(g_hist, 1, g_hist_pos), path) IN
  IF seq = g_hist_seq THEN g_hist_seq' = 0 /\ UNCHANGED <<g_hist, g_hist_pos>>
  ELSE IF g_hist_pos > 0 /\ g_hist[g_hist_pos] = path THEN UNCHANGED hist
  ELSE /\ g_hist' = IF Len(longer) > HistMax THEN Tail(longer) ELSE longer
       /\ g_hist_pos' = IF g_hist_pos = 0 THEN 1 ELSE g_hist_pos
       /\ UNCHANGED g_hist_seq

\* hist_record(): positions count from 1 here, 0 is an empty history.
HistRecord(seq, path) ==
  LET longer == Append(SubSeq(g_hist, 1, g_hist_pos), path) IN
  IF seq = g_hist_seq THEN g_hist_seq' = 0 /\ UNCHANGED <<g_hist, g_hist_pos>>
  ELSE IF g_hist_pos > 0 /\ g_hist[g_hist_pos] = path THEN UNCHANGED hist
  ELSE /\ g_hist' = IF Len(longer) > HistMax THEN Tail(longer) ELSE longer
       /\ g_hist_pos' = Len(g_hist')
       /\ UNCHANGED g_hist_seq

\* fill_list(), then nav_on_listed(); the list is scrolled anywhere.
FillList ==
  LET m == Message IN
  /\ Received("list")
  /\ ~OutOfDate
  /\ m.ok
  /\ g_path' = m.path /\ g_view_seq' = m.seq /\ view_enc' = m.enc
  /\ g_entries' = NoSizes
  /\ \E top \in Rows :
       /\ visible' = top..(IF top + Page > Count THEN Count - 1 ELSE top + Page - 1)
       /\ HintListSizes(top, top + Page - 1, m.path, m.seq, NoSizes, NoAsk)
  /\ HistRecord(m.seq, m.path)
  /\ UNCHANGED <<latest, g_seq_list, navs, departed>>

\* A failed navigation clears the view.
ListFailed ==
  /\ Received("list")
  /\ ~OutOfDate
  /\ ~Message.ok
  /\ ListClear(NoPath)
  /\ UNCHANGED <<g_seq, queue, latest, g_seq_list, ask, hist, navs, departed>>

\* Faulty: the sizes go to the range wanted now.
SizedRowsWanted(sizes) ==
  [r \in Rows |-> IF g_view_seq # 0 /\ r - ask.first + 1 \in 1..Len(sizes)
                  THEN sizes[r - ask.first + 1] ELSE g_entries[r]]

\* The sizes go, in order, to the rows that were asked for.
SizedRows(sizes) ==
  LET got == IF Len(sizes) < Len(ask.rows) THEN Len(sizes) ELSE Len(ask.rows)
      from(r) == {i \in 1..got : ask.rows[i] = r}
  IN  [r \in Rows |-> IF g_view_seq # 0 /\ from(r) # {}
                      THEN sizes[CHOOSE i \in from(r) : TRUE] ELSE g_entries[r]]

\* Faulty: the finished batch is not followed by the next one.
FillListSizesOnce ==
  LET m == Message IN
  /\ Received("sizes")
  /\ ~OutOfDate
  /\ g_entries' = SizedRows(m.sizes)
  /\ ask' = [ask EXCEPT !.seq = 0, !.rows = <<>>,
               !.pending = @ \ {ask.rows[i] : i \in 1..Len(ask.rows)}]
  /\ UNCHANGED <<g_seq, queue, latest, g_path, g_view_seq, view_enc, visible,
                 g_seq_list, hist, navs, departed>>

\* fill_list_sizes(): sizes go to the rows asked for, and the next batch of
\* the range wanted is posted.
FillListSizes ==
  LET m == Message
      entries == SizedRows(m.sizes)
      a == [ask EXCEPT !.seq = 0, !.rows = <<>>,
              !.pending = @ \ {ask.rows[i] : i \in 1..Len(ask.rows)}]
      q == IF a.last >= a.first /\ g_view_seq = g_seq_list
           THEN QueueListSizes(a.first, a.last, g_path, g_view_seq, entries, a)
           ELSE [ask |-> a, post |-> <<>>]
  IN
  /\ Received("sizes")
  /\ ~OutOfDate
  /\ g_entries' = entries
  /\ ask' = q.ask
  /\ queue' = queue \o q.post
  /\ g_seq' = g_seq + Len(q.post)
  /\ UNCHANGED <<latest, g_path, g_view_seq, view_enc, visible, g_seq_list,
                 hist, navs, departed>>

\* Faulty: the view of a departed device stays.
TreeOnUnmountedKeep ==
  /\ Received("unmount")
  /\ departed' = departed \cup {Message.path}
  /\ Refresh(g_path)
  /\ UNCHANGED <<view, hist, navs>>

\* tree_on_unmounted(): leave the departed device, then refresh().
TreeOnUnmounted ==
  /\ Received("unmount")
  /\ departed' = departed \cup {Message.path}
  /\ IF g_path # NoPath /\ RootOf[g_path] = Message.path
     THEN ListClear(NoPath) /\ Refresh(NoPath)
     ELSE UNCHANGED view /\ Refresh(g_path)
  /\ UNCHANGED <<hist, navs>>

OnTaskDone ==
  \/ \E kind \in {"list", "sizes"} : DropResult(kind)
  \/ FillList \/ ListFailed \/ FillListSizes \/ TreeOnUnmounted

UserStep ==
  \/ \E p \in Paths : GoTo(p)
  \/ DoRefresh \/ GoUp \/ GoBack \/ GoForward \/ SetFsEncoding
  \/ \E d \in Removable : Unmount(d)
  \/ \E from, to \in Rows : CacheHint(from, to)

Next == BackendStep \/ OnTaskDone \/ UserStep

Spec == Init /\ [][Next]_vars

\* The backend thread runs and the message loop turns; the user owes nothing.
FairSpec == Spec /\ WF_vars(BackendStep) /\ WF_vars(OnTaskDone)
-----------------------------------------------------------------------------
(* Properties.                                                             *)

SizesTasks ==
  {queue[i] : i \in {j \in 1..Len(queue) : queue[j].kind = "sizes"}}
SizesResults ==
  {mailbox[i] : i \in {j \in 1..Len(mailbox) : mailbox[j].kind = "sizes"}}

\* Every variable of the view and its history has its type.
TypeOK ==
  /\ g_seq \in Nat /\ latest \in 0..g_seq
  /\ g_path \in Paths \cup {NoPath}
  /\ g_seq_list \in 0..g_seq /\ g_view_seq \in 0..g_seq
  /\ g_entries \in [Rows -> {Unknown} \cup (Paths \X Rows)]
  /\ encoding \in Encodings /\ view_enc \in Encodings
  /\ gone \subseteq Removable /\ departed \subseteq gone
  /\ ask \in [seq : 0..g_seq, rows : Seq(Rows), pending : SUBSET Rows,
              first : Rows, last : Rows \cup {-1}]
  /\ Len(ask.rows) <= Batch
  /\ visible \subseteq Rows
  /\ g_hist \in Seq(Paths) /\ Len(g_hist) <= HistMax
  /\ g_hist_pos \in 0..Len(g_hist) /\ g_hist_seq \in 0..g_seq
  /\ survivor \in 0..g_seq

\* "the visited paths in order with a cursor on the current one": when the
\* view shows the newest listing, the cursor is on its path, whatever was
\* clicked while the listing was on its way.
CursorOnView ==
  g_view_seq # 0 /\ g_view_seq = g_seq_list =>
    g_hist_pos > 0 /\ g_hist[g_hist_pos] = g_path

\* "A result from the old view must not populate the new one, even when both
\* paths happen to contain the same names": a row shows its own size.
SizesRight ==
  \A r \in Rows : g_entries[r] \in {Unknown, <<g_path, r>>}

\* One batch at a time: the sizes still coming for this view are exactly those
\* that g_seq_sizes and g_size_rows wait for, and they are all pending.
BatchAccounted ==
  /\ \A t \in SizesTasks :
       t.owner = g_seq_list => t.seq = ask.seq /\ t.rows = ask.rows
  /\ \A m \in SizesResults :
       m.owner = g_seq_list => m.seq = ask.seq /\ Len(m.sizes) = Len(ask.rows)
  /\ ask.seq # 0 =>
       /\ \E x \in SizesTasks \cup SizesResults : x.seq = ask.seq
       /\ ask.pending = {ask.rows[i] : i \in 1..Len(ask.rows)}

\* "Leave the view if it was on the departed device": once the unmounting has
\* been reported, no listing of that device is on screen.
DepartedNotShown ==
  g_view_seq # 0 => RootOf[g_path] \notin departed

\* "A failed listing, a departed device or a new file name encoding must not
\* keep the previous entries on screen" (list_clear()): the names shown were
\* decoded with the encoding in force, except in a listing that was on its way
\* while nothing was shown, which refresh() does not replace.
DecodedUnlessSurvived ==
  g_view_seq # 0 => view_enc = encoding \/ g_view_seq = survivor

\* Every file in sight of the newest listing gets its size, however the user
\* scrolls, unless it leaves the view.
SizesFill ==
  \A r \in Rows :
    (r \in visible /\ Cardinality(visible) <= Window /\ g_view_seq = g_seq_list
       /\ g_entries[r] = Unknown)
      ~> (r \notin visible \/ Cardinality(visible) > Window
          \/ g_view_seq # g_seq_list \/ g_entries[r] # Unknown)
=============================================================================
