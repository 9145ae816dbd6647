----------------------------- MODULE FuseCache -----------------------------
(***************************************************************************)
(* The metadata cache of a mounted volume (common/fusefs.cpp) and the      *)
(* change of the name decoding that empties it (FsRover/mainnav.cpp).      *)
(*                                                                         *)
(* Adapter threads look paths up in the LRU themselves and dispatch what   *)
(* they miss to the backend thread, which runs one operation at a time and *)
(* is the only one to insert.  The GUI changes the decoding with a         *)
(* dispatched call and then clears the cache from its own thread.  A step  *)
(* is one critical section of cache->lock; grub calls are merged with the  *)
(* insertion that follows them, since nothing else can change what they    *)
(* read while an operation runs.                                           *)
(***************************************************************************)
EXTENDS Integers, Sequences

CONSTANTS
  Threads,      \* adapter threads
  Encodings,    \* values of grub_fs_char_encoding
  Names,        \* names as a decoding shows them
  Paths,        \* mount paths and physical paths, without fs->root
  Asked,        \* bound: the mount paths clients look up
  Browsed,      \* bound: the mount paths clients list
  Objects,      \* what a path can name on disk
  Dirs,         \* those that are directories
  Links,        \* those that are links whose target the driver reports
  SizeListed,   \* the files whose driver reports sizes while enumerating
  RootObject,   \* the root directory
  Listing,      \* [Encodings -> [Paths -> Seq of entries]]: rover_dir_list()
  Walks,        \* states of walk(): the path it asks for and what is to do then
  Begin,        \* where walk() begins for a mount path
  Asks,         \* the physical path raw_stat() is asked for
  Onward,       \* where walk() goes when that is this object, or Done, or Fails
  Ends,         \* where an uncached walk() without failures leads, or Nowhere
  Done, Fails, Nowhere,
  CacheMax,     \* cache->max
  MaxChanges,   \* bound: changes of the decoding
  MaxOps,       \* bound: operations started by each thread
  Nobody        \* no thread

Root == <<>>  \* fs->root
Files == Objects \ (Dirs \cup Links)

\* ENOENT stands for the errors cache_put() keeps, EIO for the others.
Errors == {"ENOENT", "EIO"}

\* struct entry: the object and its physical path, or the error, and the file
\* the size is from; "UNKNOWN" is ROVER_SIZE_UNKNOWN.
Entry ==
  {e \in [obj : Objects \cup Errors, phys : Paths \cup {Nowhere},
          size : Objects \cup {"UNKNOWN"}] : e.obj \in Errors <=> e.phys = Nowhere}

\* A mount path is a key, and so is "#" plus a physical path.
Key == {"mount", "raw"} \X Paths

\* An entry of rover_dir_list(): duplicate names are possible.
DirEntry == [name : Names, obj : Objects]

ASSUME FuseCacheAssumption ==
  /\ Paths \subseteq Seq(Names) /\ Root \in Paths
  /\ \A p \in Paths : \A k \in 0..Len(p) : SubSeq(p, 1, k) \in Paths
  /\ Asked \subseteq Paths /\ Browsed \subseteq Paths
  /\ \A p \in Browsed, x \in Names : Append(p, x) \in Paths
  /\ Dirs \subseteq Objects /\ Links \subseteq Objects /\ Dirs \cap Links = {}
  /\ RootObject \in Dirs /\ SizeListed \subseteq Files
  /\ Objects \cap (Errors \cup {"UNKNOWN"}) = {}
  /\ Listing \in [Encodings -> [Paths -> Seq(DirEntry)]]
  /\ \A enc \in Encodings, dir \in Paths :
       \A i \in 1..Len(Listing[enc][dir]) : Append(dir, Listing[enc][dir][i].name) \in Paths
  /\ CacheMax \in Nat \ {0}
  /\ MaxChanges \in Nat /\ MaxOps \in Nat
  /\ Nobody \notin Threads

VARIABLES
  lru,       \* the cache, most recently used first: [key, ent]
  encoding,  \* grub_fs_char_encoding
  gpc,       \* GUI thread: "idle" or "invalidate" (encoding set, cache not cleared)
  changes,   \* changes of the decoding so far
  thread,    \* per adapter thread: its operation
  bpc,       \* backend thread: where it is, "idle" when it runs no operation
  running,   \* the thread whose operation it runs
  walking,   \* state of walk()
  after,     \* where walk() returns to
  found,     \* the entry just obtained
  dir,       \* physical path of the directory being read
  items,     \* its entries
  n,         \* position in items
  level,     \* ancestry(): components of the directory looked up next
  chained,   \* is the chain of ancestors there?
  straddled, \* did the last fusefs_invalidate() hit a running operation?
  misled     \* did a failing link leave its namesake's entry since then?

gui == <<encoding, gpc, changes>>
walk == <<walking, after>>
listing == <<dir, items, n, level, chained>>
op == <<bpc, running, walk, found, listing>>
vars == <<lru, gui, thread, op, straddled, misled>>

-----------------------------------------------------------------------------
(* What grub reports.                                                      *)

\* An object in full, and a failure.
Whole(obj, phys) ==
  [obj |-> obj, phys |-> phys, size |-> IF obj \in Files THEN obj ELSE "UNKNOWN"]
Failed(err) == [obj |-> err, phys |-> Nowhere, size |-> "UNKNOWN"]

DirOf(path) == SubSeq(path, 1, Len(path) - 1)
NameOf(path) == path[Len(path)]

\* The objects of this name in a directory: duplicates are possible.
Namesakes(enc, path) ==
  LET list == Listing[enc][DirOf(path)]
  IN  {list[i].obj : i \in {j \in 1..Len(list) : list[j].name = NameOf(path)}}

\* The object rover_stat() finds: of duplicate names, the first.
Lookup(enc, phys) ==
  LET list == Listing[enc][DirOf(phys)]
      hits == {i \in 1..Len(list) : list[i].name = NameOf(phys)}
  IN  IF phys = Root THEN RootObject
      ELSE IF hits = {} THEN "ENOENT"
      ELSE list[CHOOSE i \in hits : \A j \in hits : i <= j].obj

\* walk() from lookup to lookup; how it splits paths and replaces links is
\* PathWalk's.  The path of an entry in a directory leads to that entry.
ASSUME WalkAssumption ==
  /\ Begin \in [Paths -> Walks] /\ Asks \in [Walks -> Paths]
  /\ Onward \in [Walks -> [Objects -> Walks \cup {Done, Fails}]]
  /\ Done \notin Walks /\ Fails \notin Walks /\ Done # Fails /\ Nowhere \notin Paths
  /\ Ends \in [Encodings -> [Walks -> Paths \cup {Nowhere}]]
  /\ \A enc \in Encodings, w \in Walks :
       LET obj == Lookup(enc, Asks[w])
           next == IF obj = "ENOENT" THEN Fails ELSE Onward[w][obj]
       IN  Ends[enc][w] = IF next = Fails THEN Nowhere
                          ELSE IF next = Done THEN Asks[w] ELSE Ends[enc][next]
  /\ \A enc \in Encodings, p \in Browsed :
       LET phys == Ends[enc][Begin[p]]
       IN  phys # Nowhere => \A i \in 1..Len(Listing[enc][phys]) :
             LET name == Listing[enc][phys][i].name
             IN  Lookup(enc, Append(phys, name)) \notin Links
                   => Ends[enc][Begin[Append(p, name)]] = Append(phys, name)

\* What an uncached, failure-free walk() answers for a mount path.
Resolve(enc, path) ==
  LET phys == Ends[enc][Begin[path]]
  IN  IF phys = Nowhere THEN Failed("ENOENT") ELSE Whole(Lookup(enc, phys), phys)

Truth(enc, key) ==
  IF key[1] = "mount" THEN Resolve(enc, key[2])
  ELSE IF Lookup(enc, key[2]) = "ENOENT" THEN Failed("ENOENT")
  ELSE Whole(Lookup(enc, key[2]), key[2])

\* rover_stat() without an error: the size of a file that its driver does not
\* list is asked of the opened file, and when that fails the size stays unknown.
Reported(ent) ==
  {ent} \cup IF ent.obj \in Files \ SizeListed
             THEN {[ent EXCEPT !.size = "UNKNOWN"]} ELSE {}

\* What opening a listed file for its size may say: a link is followed.
Queried(enc, phys) ==
  {"UNKNOWN"} \cup IF Lookup(enc, phys) \in Links THEN Files
                   ELSE {Lookup(enc, phys)} \cap Files

-----------------------------------------------------------------------------
(* The LRU.                                                                *)

Holds(s, key) == \E i \in 1..Len(s) : s[i].key = key

Index(s, key) == CHOOSE i \in 1..Len(s) : s[i].key = key

Remove(s, key) ==
  IF Holds(s, key)
  THEN SubSeq(s, 1, Index(s, key) - 1) \o SubSeq(s, Index(s, key) + 1, Len(s))
  ELSE s

\* cache_get() on a hit: the entry, and the cache with it in front.
Cached(s, key) == s[Index(s, key)].ent

Touch(s, key) ==
  <<[key |-> key, ent |-> Cached(s, key)]>> \o Remove(s, key)

\* cache_put(): only outcomes fixed by the disk are kept; a present key is
\* updated, a new one may push the last entry out.
CachePut(s, key, ent) ==
  IF ent.obj = "EIO" THEN s
  ELSE IF Holds(s, key)
  THEN <<[key |-> key, ent |-> ent]>> \o Remove(s, key)
  ELSE LET kept == IF Len(s) >= CacheMax THEN SubSeq(s, 1, Len(s) - 1) ELSE s
       IN  <<[key |-> key, ent |-> ent]>> \o kept

-----------------------------------------------------------------------------
Idle == [pc |-> "idle", kind |-> "getattr", path |-> Root, ent |-> Failed("EIO"),
         clean |-> FALSE, io |-> FALSE, ops |-> 0]

Init ==
  /\ lru = <<>>
  /\ encoding \in Encodings
  /\ gpc = "idle" /\ changes = 0
  /\ thread = [t \in Threads |-> Idle]
  /\ bpc = "idle" /\ running = Nobody
  /\ walking = Begin[Root] /\ after = "mount_put" /\ found = Failed("EIO")
  /\ dir = Root /\ items = <<>> /\ n = 0 /\ level = 0 /\ chained = FALSE
  /\ straddled = FALSE /\ misled = FALSE

(* Adapter threads.                                                        *)

\* "clean": no change of the decoding since the operation began, nor one
\* under way when it did.
Start(t, kind, path, pc, ent) ==
  thread' = [thread EXCEPT ![t] =
    [pc |-> pc, kind |-> kind, path |-> path, ent |-> ent,
     clean |-> gpc = "idle", io |-> FALSE, ops |-> @.ops + 1]]

\* fusefs_getattr(), fusefs_readlink(): a hit is answered without the backend.
GetattrHit(t) ==
  \E p \in Asked :
    /\ thread[t].pc = "idle" /\ thread[t].ops < MaxOps
    /\ Holds(lru, <<"mount", p>>)
    /\ Start(t, "getattr", p, "idle", Cached(lru, <<"mount", p>>))
    /\ lru' = Touch(lru, <<"mount", p>>)
    /\ UNCHANGED <<gui, op, straddled, misled>>

\* A miss is dispatched.
GetattrMiss(t) ==
  \E p \in Asked :
    /\ thread[t].pc = "idle" /\ thread[t].ops < MaxOps
    /\ ~Holds(lru, <<"mount", p>>)
    /\ Start(t, "getattr", p, "queued", Failed("EIO"))
    /\ UNCHANGED <<lru, gui, op, straddled, misled>>

\* fusefs_readdir() always goes to the backend.
Readdir(t) ==
  \E p \in Browsed :
    /\ thread[t].pc = "idle" /\ thread[t].ops < MaxOps
    /\ Start(t, "readdir", p, "queued", Failed("EIO"))
    /\ UNCHANGED <<lru, gui, op, straddled, misled>>

-----------------------------------------------------------------------------
(* The backend thread.                                                     *)

\* service_requests() takes up an operation.
Take(t) ==
  /\ bpc = "idle"
  /\ thread[t].pc = "queued"
  /\ running' = t
  /\ bpc' = "mount_get"
  /\ UNCHANGED <<lru, gui, thread, walk, found, listing, straddled, misled>>

\* The operation is over: ENT is what it answers.
Answer(ent) ==
  /\ thread' = [thread EXCEPT ![running].pc = "idle", ![running].ent = ent]
  /\ bpc' = "idle"
  /\ running' = Nobody

\* What follows mount_stat(): getattr is done, readdir needs a directory.
WithStat(ent) ==
  IF thread[running].kind = "getattr" \/ ent.obj \notin Dirs
  THEN Answer(ent) /\ UNCHANGED dir
  ELSE bpc' = "list" /\ dir' = ent.phys /\ UNCHANGED <<thread, running>>

\* walk() begins, and goes on to LABEL when it is through.
StartWalk(path, label) ==
  /\ walking' = Begin[path]
  /\ after' = label
  /\ bpc' = "raw_get"

\* mount_stat(): the mount path is looked up first.
MountGet ==
  LET key == <<"mount", thread[running].path>> IN
  /\ bpc = "mount_get"
  /\ IF Holds(lru, key)
     THEN /\ lru' = Touch(lru, key)
          /\ found' = Cached(lru, key)
          /\ WithStat(Cached(lru, key))
          /\ UNCHANGED walk
     ELSE /\ StartWalk(thread[running].path, "mount_put")
          /\ UNCHANGED <<lru, found, dir, thread, running>>
  /\ UNCHANGED <<gui, items, n, level, chained, straddled, misled>>

\* walk() goes on with the entry it got, or is done.
Walked(ent) ==
  LET next == IF ent.obj \in Errors THEN Fails ELSE Onward[walking][ent.obj] IN
  IF next \in Walks
  THEN bpc' = "raw_get" /\ walking' = next /\ UNCHANGED found
  ELSE /\ bpc' = after
       /\ found' = IF next = Done THEN ent
                   ELSE Failed(IF ent.obj = "EIO" THEN "EIO" ELSE "ENOENT")
       /\ UNCHANGED walking

\* raw_stat(): cache_get() of "#phys".
RawGet ==
  LET key == <<"raw", Asks[walking]>> IN
  /\ bpc = "raw_get"
  /\ IF Holds(lru, key)
     THEN lru' = Touch(lru, key) /\ Walked(Cached(lru, key))
     ELSE bpc' = "raw_put" /\ UNCHANGED <<lru, found, walking>>
  /\ UNCHANGED <<gui, thread, running, after, listing, straddled, misled>>

\* raw_stat(): rover_stat() and settle_link(), which may fail for now, and
\* cache_put().
RawPut ==
  LET key == <<"raw", Asks[walking]>> IN
  /\ bpc = "raw_put"
  /\ \E ent \in Reported(Truth(encoding, key)) \cup {Failed("EIO")} :
       /\ lru' = CachePut(lru, key, ent)
       /\ Walked(ent)
       /\ thread' = [thread EXCEPT ![running].io = @ \/ ent.obj = "EIO"]
  /\ UNCHANGED <<gui, running, after, listing, straddled, misled>>

\* mount_stat(): cache_put() of what walk() returned.
MountPut ==
  /\ bpc = "mount_put"
  /\ lru' = CachePut(lru, <<"mount", thread[running].path>>, found)
  /\ WithStat(found)
  /\ UNCHANGED <<gui, walk, found, items, n, level, chained, straddled, misled>>

\* fusefs_readdir(): rover_dir_list(), or its error; settle_link() reads the
\* target of each link, and may fail for each.
List ==
  LET list == Listing[encoding][dir] IN
  /\ bpc = "list"
  /\ \/ /\ Lookup(encoding, dir) \in Dirs
        /\ \E failed \in SUBSET {i \in 1..Len(list) : list[i].obj \in Links} :
             items' = [i \in 1..Len(list) |->
               [name |-> list[i].name,
                ent |-> IF i \in failed THEN Failed("EIO")
                        ELSE [obj |-> list[i].obj, phys |-> Append(dir, list[i].name),
                              size |-> IF list[i].obj \in SizeListed
                                       THEN list[i].obj ELSE "UNKNOWN"]]]
        /\ n' = 1 /\ chained' = FALSE
        /\ bpc' = "sizes"
        /\ UNCHANGED <<thread, running>>
     \/ /\ Answer(Failed("EIO"))
        /\ UNCHANGED <<items, n, chained>>
  /\ UNCHANGED <<lru, gui, walk, found, dir, level, straddled, misled>>

\* A file's size that is not listed is copied from a cached entry of the same
\* physical path, or else asked of the opened file.
Sizes ==
  LET key == <<"raw", Append(dir, items[n].name)>>
      wanted == items[n].ent.obj \in Files /\ items[n].ent.size = "UNKNOWN"
      hit == wanted /\ Holds(lru, key)
  IN
  /\ bpc = "sizes"
  /\ IF n <= Len(items)
     THEN /\ lru' = IF hit THEN Touch(lru, key) ELSE lru
          /\ \E size \in
               CASE ~wanted -> {items[n].ent.size}
                 [] hit /\ Cached(lru, key).obj \notin Errors -> {Cached(lru, key).size}
                 [] OTHER -> Queried(encoding, key[2]) :
               items' = [items EXCEPT ![n].ent.size = size]
          /\ n' = n + 1
          /\ UNCHANGED bpc
     ELSE /\ n' = n - 1
          /\ bpc' = "seed_raw"
          /\ UNCHANGED <<lru, items>>
  /\ UNCHANGED <<gui, thread, running, walk, found, dir, level, chained,
                 straddled, misled>>

\* Entry I of the listing is inserted.  An error that is not kept leaves what
\* is under its key, be it the entry of a later duplicate.
Seed(i, key, ent) ==
  /\ lru' = CachePut(lru, key, ent)
  /\ misled' = (\/ misled
                \/ /\ ent.obj = "EIO" /\ Holds(lru, key)
                   /\ \E j \in i + 1..Len(items) : items[j].name = items[i].name)

\* Faulty: the entries are inserted in listing order, so that the last of
\* duplicate names stays.
SeedRawForward ==
  /\ bpc = "seed_raw"
  /\ IF n > 0
     THEN LET i == Len(items) + 1 - n IN
          /\ Seed(i, <<"raw", Append(dir, items[i].name)>>, items[i].ent)
          /\ n' = n - 1
          /\ UNCHANGED bpc
     ELSE /\ n' = Len(items)
          /\ bpc' = "seed_mount"
          /\ UNCHANGED <<lru, misled>>
  /\ UNCHANGED <<gui, thread, running, walk, found, dir, items, level, chained,
                 straddled>>

\* Seed the lookups that follow: "Reverse order leaves the first of duplicate
\* names, the one rover_stat() finds."
SeedRaw ==
  /\ bpc = "seed_raw"
  /\ IF n > 0
     THEN /\ Seed(n, <<"raw", Append(dir, items[n].name)>>, items[n].ent)
          /\ n' = n - 1
          /\ UNCHANGED bpc
     ELSE /\ n' = Len(items)
          /\ bpc' = "seed_mount"
          /\ UNCHANGED <<lru, misled>>
  /\ UNCHANGED <<gui, thread, running, walk, found, dir, items, level, chained,
                 straddled>>

Child(i) == Append(thread[running].path, items[i].name)

\* The child as the mount shows it: a link is resolved first, again backwards.
\* The listing ends when all are done.
SeedMount ==
  /\ bpc = "seed_mount"
  /\ \/ /\ n > 0 /\ items[n].ent.obj \in Links
        /\ StartWalk(Child(n), "seed_link")
        /\ UNCHANGED <<lru, misled, n, thread, running>>
     \/ /\ n > 0 /\ items[n].ent.obj \notin Links
        /\ Seed(n, <<"mount", Child(n)>>, items[n].ent)
        /\ n' = n - 1
        /\ UNCHANGED <<bpc, walk, thread, running>>
     \/ /\ n = 0
        /\ Answer(found)
        /\ UNCHANGED <<lru, misled, n, walk>>
  /\ UNCHANGED <<gui, found, dir, items, level, chained, straddled>>

\* The resolved link is inserted; if it is a directory, loops_back() needs the
\* chain of ancestors.
SeedLink ==
  /\ bpc = "seed_link"
  /\ Seed(n, <<"mount", Child(n)>>, found)
  /\ n' = n - 1
  /\ IF found.obj \in Dirs /\ ~chained
     THEN bpc' = "ancestor" /\ level' = 0
     ELSE bpc' = "seed_mount" /\ UNCHANGED level
  /\ UNCHANGED <<gui, thread, running, walk, found, dir, items, chained, straddled>>

\* The path of an ancestor of the directory being read, or of itself.
AncestorPath == SubSeq(thread[running].path, 1, level)

\* ancestry(): the directories on the way, the root first, by mount_stat().
Ancestor ==
  LET key == <<"mount", AncestorPath>> IN
  /\ bpc = "ancestor"
  /\ \/ /\ level <= Len(thread[running].path) /\ Holds(lru, key)
        /\ lru' = Touch(lru, key)
        /\ chained' = (chained \/ Cached(lru, key).obj \notin Errors)
        /\ level' = level + 1
        /\ UNCHANGED <<bpc, walk>>
     \/ /\ level <= Len(thread[running].path) /\ ~Holds(lru, key)
        /\ StartWalk(AncestorPath, "ancestor_put")
        /\ UNCHANGED <<lru, chained, level>>
     \/ /\ level > Len(thread[running].path)
        /\ bpc' = "seed_mount"
        /\ UNCHANGED <<lru, walk, chained, level>>
  /\ UNCHANGED <<gui, thread, running, found, dir, items, n, straddled, misled>>

\* The same, after a miss.
AncestorPut ==
  /\ bpc = "ancestor_put"
  /\ lru' = CachePut(lru, <<"mount", AncestorPath>>, found)
  /\ chained' = (chained \/ found.obj \notin Errors)
  /\ level' = level + 1
  /\ bpc' = "ancestor"
  /\ UNCHANGED <<gui, thread, running, walk, found, dir, items, n, straddled, misled>>

BackendStep ==
  \/ \E t \in Threads : Take(t)
  \/ MountGet \/ RawGet \/ RawPut \/ MountPut
  \/ List \/ Sizes \/ SeedRaw \/ SeedMount \/ SeedLink \/ Ancestor \/ AncestorPut

-----------------------------------------------------------------------------
(* set_fs_encoding() on the GUI thread.                                    *)

\* backend_set_fs_char_encoding(): a dispatched call, so no operation runs.
SetEncoding ==
  /\ gpc = "idle" /\ bpc = "idle"
  /\ changes < MaxChanges
  /\ \E enc \in Encodings \ {encoding} : encoding' = enc
  /\ changes' = changes + 1
  /\ gpc' = "invalidate"
  /\ thread' = [t \in Threads |-> [thread[t] EXCEPT !.clean = FALSE]]
  /\ UNCHANGED <<lru, op, straddled, misled>>

\* Faulty: only the entries of mount paths go.
InvalidateMountOnly ==
  /\ gpc = "invalidate"
  /\ lru' = SelectSeq(lru, LAMBDA e : e.key[1] = "raw")
  /\ straddled' = (bpc # "idle") /\ misled' = FALSE
  /\ gpc' = "idle"
  /\ UNCHANGED <<encoding, changes, thread, op>>

\* dokanfs_invalidate_all(): fusefs_invalidate() of the mount, on the GUI
\* thread and under the cache's lock alone.
Invalidate ==
  /\ gpc = "invalidate"
  /\ lru' = <<>>
  /\ straddled' = (bpc # "idle") /\ misled' = FALSE
  /\ gpc' = "idle"
  /\ UNCHANGED <<encoding, changes, thread, op>>

Next ==
  \/ \E t \in Threads : GetattrHit(t) \/ GetattrMiss(t) \/ Readdir(t)
  \/ BackendStep
  \/ SetEncoding \/ Invalidate

Spec == Init /\ [][Next]_vars
-----------------------------------------------------------------------------
(* Properties.                                                             *)

Pcs == {"idle", "mount_get", "raw_get", "raw_put", "mount_put", "list", "sizes",
        "seed_raw", "seed_mount", "seed_link", "ancestor", "ancestor_put"}

\* Every variable has its type, the cache holds at most cache->max entries and
\* no key twice: map and list agree.
TypeOK ==
  /\ lru \in Seq([key : Key, ent : Entry])
  /\ Len(lru) <= CacheMax
  /\ \A i, j \in 1..Len(lru) : lru[i].key = lru[j].key => i = j
  /\ encoding \in Encodings
  /\ gpc \in {"idle", "invalidate"}
  /\ changes \in 0..MaxChanges
  /\ thread \in [Threads ->
       [pc : {"idle", "queued"}, kind : {"getattr", "readdir"}, path : Paths,
        ent : Entry, clean : BOOLEAN, io : BOOLEAN, ops : 0..MaxOps]]
  /\ bpc \in Pcs
  /\ running \in Threads \cup {Nobody}
  /\ walking \in Walks
  /\ after \in {"mount_put", "seed_link", "ancestor_put"}
  /\ found \in Entry
  /\ dir \in Paths
  /\ items \in Seq([name : Names, ent : Entry])
  /\ n \in Nat /\ level \in Nat
  /\ chained \in BOOLEAN /\ straddled \in BOOLEAN /\ misled \in BOOLEAN

\* fusefs_readdir() shows its children, and looks up for that what it needs.
Showing ==
  \/ bpc \in {"seed_mount", "seed_link", "ancestor", "ancestor_put"}
  \/ bpc \in {"raw_get", "raw_put"} /\ after \in {"seed_link", "ancestor_put"}

\* Is this the key under which entry I of the listing is inserted now?
Seeds(key, i) ==
  \/ key[1] = "raw" /\ bpc = "seed_raw" /\ key[2] = Append(dir, items[i].name)
  \/ key[1] = "mount" /\ Showing /\ key[2] = Child(i)

\* A listing with duplicate names inserts the last one first: the key is not
\* settled from then on until the first one is inserted too.
Unsettled(key) ==
  /\ \E i \in 1..n : Seeds(key, i)
  /\ \E j \in n + 1..Len(items) : Seeds(key, j)

\* "only the dispatched (serialized) side inserts, which orders every insert
\* with respect to rover_set_fs_char_encoding()": once the cache has been
\* cleared, what it says of a physical path is what rover_stat() says under
\* the encoding in force, whatever operation was running meanwhile.  Only where
\* rover_stat() finds a link may it be another object of the same name: the
\* target could not be read when the listing was inserted.
RawCurrent ==
  gpc = "idle" =>
    \A i \in 1..Len(lru) :
      LET key == lru[i].key
          obj == Lookup(encoding, key[2])
      IN  key[1] = "raw" /\ ~Unsettled(key) =>
            \/ lru[i].ent.obj = obj
            \/ obj \in Links /\ lru[i].ent.obj \in Namesakes(encoding, key[2])

\* What may be answered for a path: what it resolves to or, while a listing is
\* being inserted, another object of the same name.
Candidates(enc, path) ==
  {Resolve(enc, path).obj} \cup
    IF path = Root \/ Ends[enc][Begin[DirOf(path)]] = Nowhere THEN {}
    ELSE Namesakes(enc, Append(Ends[enc][Begin[DirOf(path)]], NameOf(path)))

\* What an operation answered that no change of the decoding touched.
AnsweredRight(t) ==
  LET o == thread[t] IN
  o.pc = "idle" /\ o.clean /\ o.kind = "getattr" =>
    \/ o.ent.obj \in Candidates(encoding, o.path)
    \/ o.io /\ o.ent.obj = "EIO"

\* Unless the clearing hit a running operation, or a link that failed left the
\* entry of its namesake, every entry is what grub would answer under the
\* encoding in force, and every operation gets that answer or an error of its
\* own: the failure of somebody else's read is never served from the cache, and
\* listings, links and evictions do not disturb it.  The one failure that is
\* kept is that of the size of a file whose driver does not list it.
CurrentUnlessStraddled ==
  ~straddled /\ ~misled =>
    /\ gpc = "idle" => \A i \in 1..Len(lru) :
         \/ Unsettled(lru[i].key)
         \/ lru[i].ent \in Reported(Truth(encoding, lru[i].key))
    /\ \A t \in Threads : AnsweredRight(t)
=============================================================================
