-------------------------- MODULE FuseCacheProof --------------------------
(***************************************************************************)
(* Proofs about the metadata cache of a mounted volume, for any            *)
(* directories, links and duplicate names, any number of adapter threads   *)
(* and operations, and any number of changes of the decoding.              *)
(***************************************************************************)
EXTENDS FuseCache, WellFoundedInduction, TLAPS

Node == [key : Key, ent : Entry]
Item == [name : Names, ent : Entry]
Elems(s) == {s[i] : i \in 1..Len(s)}

\* Map and list agree, and the limit is kept.
LruOK(s) ==
  /\ s \in Seq(Node) /\ Len(s) <= CacheMax
  /\ \A i, j \in 1..Len(s) : s[i].key = s[j].key => i = j

\* walk() is at work, or has just returned; fusefs_readdir() has a listing.
Walking == bpc \in {"raw_get", "raw_put"}
Labels == {"mount_put", "seed_link", "ancestor_put"}
HasItems == bpc \in {"sizes", "seed_raw"} \/ Showing

\* The mount path walk() resolves.
Goal == IF after = "mount_put" THEN thread[running].path
        ELSE IF after = "seed_link" THEN Child(n) ELSE AncestorPath

\* The operation that runs is one that waits, and has what its step needs.
OpInv ==
  bpc # "idle" =>
    /\ running \in Threads /\ thread[running].pc = "queued"
    /\ bpc \in Labels => after = bpc
    /\ HasItems \/ bpc = "list" => thread[running].kind = "readdir"
    /\ (Walking \/ bpc \in Labels) /\ after = "ancestor_put" =>
         level \in 0..Len(thread[running].path)

\* Entry I in hand is that of the listing under the encoding in force, or a
\* link whose target could not be read.
ItemOf(i, listed) ==
  LET e == items[i].ent IN
  /\ items[i].name = listed.name
  /\ \/ /\ e.obj = listed.obj /\ e.phys = Append(dir, listed.name)
        /\ listed.obj \in SizeListed => e.size = listed.obj
        /\ listed.obj \notin Files => e.size = "UNKNOWN"
     \/ listed.obj \in Links /\ e = Failed("EIO")

ItemsOf(list) ==
  /\ Len(items) = Len(list)
  /\ \A i \in 1..Len(list) : ItemOf(i, list[i])

ItemsInv ==
  HasItems =>
    /\ ItemsOf(Listing[encoding][dir])
    /\ bpc = "sizes" => n \in 1..Len(items) + 1
    /\ bpc # "sizes" => n \in 0..Len(items)
    /\ (Walking \/ bpc \in Labels) /\ after = "seed_link" => n > 0

\* The cache is in use, no operation holds anything from before it was
\* cleared, and no link's failure left the entry of its namesake.
Good == ~straddled /\ ~misled /\ gpc = "idle"

ItemPath(i) == Append(dir, items[i].name)

\* If the entry is the one rover_stat() finds, so is the file of its size.
SizeOK(i) ==
  items[i].ent.obj = Lookup(encoding, ItemPath(i)) =>
    items[i].ent.size \in {"UNKNOWN", items[i].ent.obj}

\* Then what the operation that runs has found out is right: walk() is on its
\* way to where the path leads, and what it returned is what is there.
FoundInv ==
  Good =>
    /\ Walking => Ends[encoding][walking] = Ends[encoding][Begin[Goal]]
    /\ bpc \in Labels =>
         \/ found \in Reported(Resolve(encoding, Goal))
         \/ found.obj = "EIO" /\ thread[running].io
    /\ HasItems \/ bpc = "list" => dir = Ends[encoding][Begin[thread[running].path]]
    /\ HasItems => \A i \in 1..Len(items) : SizeOK(i)

\* A physical path is right, or has another object of its name: the listing
\* is not through with it, or what rover_stat() finds is a link.
RawOK(x) ==
  LET obj == Lookup(encoding, x.key[2]) IN
  x.key[1] = "raw" =>
    \/ x.ent.obj = obj
    \/ /\ x.ent.obj \in Namesakes(encoding, x.key[2])
       /\ Unsettled(x.key) \/ obj \in Links

\* An entry is right in full or unsettled; even then a mount path has an
\* object of its name.
NodeOK(x) ==
  \/ x.ent \in Reported(Truth(encoding, x.key))
  \/ /\ Unsettled(x.key)
     /\ x.key[1] = "mount" => x.ent.obj \in Candidates(encoding, x.key[2])

CacheInv ==
  /\ gpc = "idle" => \A x \in Elems(lru) : RawOK(x)
  /\ Good => \A x \in Elems(lru) : NodeOK(x)

\* No operation is clean while the cache is out of date.
AnswerInv ==
  /\ \A t \in Threads : thread[t].kind = "readdir" => thread[t].path \in Browsed
  /\ gpc = "invalidate" => \A t \in Threads : ~thread[t].clean
  /\ ~straddled /\ ~misled => \A t \in Threads : AnsweredRight(t)

\* The inductive invariant.
IInv == TypeOK /\ OpInv /\ ItemsInv /\ FoundInv /\ CacheInv /\ AnswerInv

-----------------------------------------------------------------------------
(* The LRU.                                                                *)

\* A node is put in front.
LEMMA ConsFacts ==
  ASSUME NEW x \in Node, NEW s \in Seq(Node), NEW r, r = <<x>> \o s,
         \A i, j \in 1..Len(s) : s[i].key = s[j].key => i = j,
         \A i \in 1..Len(s) : s[i].key # x.key
  PROVE  /\ r \in Seq(Node) /\ Len(r) = Len(s) + 1
         /\ \A i, j \in 1..Len(r) : r[i].key = r[j].key => i = j
         /\ \A y \in Elems(r) : y = x \/ y \in Elems(s)
<1>1. /\ r \in Seq(Node) /\ Len(r) = Len(s) + 1 /\ r[1] = x /\ Len(s) \in Nat
      /\ \A i \in 1..Len(r) : i = 1 \/ (i - 1 \in 1..Len(s) /\ r[i] = s[i - 1])
  OBVIOUS
<1>2. ASSUME NEW i \in 1..Len(r), NEW j \in 1..Len(r), r[i].key = r[j].key PROVE i = j
  <2>1. CASE i = 1 /\ j = 1
    BY <2>1
  <2>2. CASE i = 1 /\ j # 1
    BY <1>1, <1>2, <2>2
  <2>3. CASE i # 1 /\ j = 1
    BY <1>1, <1>2, <2>3
  <2>4. CASE i # 1 /\ j # 1
    <3>1. i - 1 = j - 1
      BY <1>1, <1>2, <2>4
    <3> QED BY <1>1, <3>1
  <2> QED BY <2>1, <2>2, <2>3, <2>4
<1>3. \A y \in Elems(r) : y = x \/ y \in Elems(s)
  BY <1>1 DEF Elems
<1> QED BY <1>1, <1>2, <1>3

\* A key is taken out.
LEMMA RemoveFacts ==
  ASSUME NEW s, LruOK(s), NEW key, Holds(s, key), NEW r, r = Remove(s, key)
  PROVE  /\ r \in Seq(Node) /\ Len(r) = Len(s) - 1
         /\ \A i, j \in 1..Len(r) : r[i].key = r[j].key => i = j
         /\ \A i \in 1..Len(r) : r[i].key # key
         /\ \A y \in Elems(r) : y \in Elems(s)
         /\ Index(s, key) \in 1..Len(s) /\ s[Index(s, key)].key = key
<1>1. PICK k : k = Index(s, key)
  OBVIOUS
<1>2. k \in 1..Len(s) /\ s[k].key = key
  BY <1>1 DEF Holds, Index
<1>3. s \in Seq(Node) /\ Len(s) \in Nat
  BY DEF LruOK
<1>4. r = SubSeq(s, 1, k - 1) \o SubSeq(s, k + 1, Len(s))
  BY <1>1 DEF Remove
<1> DEFINE a == SubSeq(s, 1, k - 1)
           b == SubSeq(s, k + 1, Len(s))
<1>5. a \in Seq(Node) /\ Len(a) = k - 1 /\ \A i \in 1..k - 1 : a[i] = s[i]
  BY <1>2, <1>3
<1>6. b \in Seq(Node) /\ Len(b) = Len(s) - k /\ \A i \in 1..Len(s) - k : b[i] = s[k + i]
  BY <1>2, <1>3
<1> HIDE DEF a, b
<1>7. r = a \o b
  BY <1>4 DEF a, b
<1>8. r \in Seq(Node) /\ Len(r) = Len(s) - 1
  BY <1>2, <1>3, <1>5, <1>6, <1>7
<1>9. ASSUME NEW i \in 1..Len(r)
      PROVE  \E j \in 1..Len(s) : j # k /\ r[i] = s[j] /\ j = (IF i < k THEN i ELSE i + 1)
  <2>1. CASE i < k
    BY <1>2, <1>3, <1>5, <1>6, <1>7, <1>8, <2>1
  <2>2. CASE ~(i < k)
    <3>1. i - Len(a) \in 1..Len(b) /\ r[i] = b[i - Len(a)]
      BY <1>2, <1>3, <1>5, <1>6, <1>7, <1>8, <2>2
    <3>2. PICK j \in 1..Len(s) - k : j = i - (k - 1) /\ r[i] = b[j]
      BY <1>5, <1>6, <3>1
    <3>3. b[j] = s[k + j] /\ k + j = i + 1
      BY <1>2, <1>6, <1>8, <3>2
    <3> QED BY <1>2, <1>3, <1>8, <2>2, <3>2, <3>3
  <2> QED BY <2>1, <2>2
<1>10. \A i \in 1..Len(r) : r[i].key # key
  BY <1>2, <1>9 DEF LruOK
<1>11. ASSUME NEW i \in 1..Len(r), NEW j \in 1..Len(r), r[i].key = r[j].key PROVE i = j
  <2>1. PICK p \in 1..Len(s) : p # k /\ r[i] = s[p] /\ p = (IF i < k THEN i ELSE i + 1)
    BY <1>9
  <2>2. PICK q \in 1..Len(s) : q # k /\ r[j] = s[q] /\ q = (IF j < k THEN j ELSE j + 1)
    BY <1>9
  <2>3. p = q
    BY <1>11, <2>1, <2>2 DEF LruOK
  <2> QED BY <1>2, <1>3, <1>8, <2>1, <2>2, <2>3
<1>12. \A y \in Elems(r) : y \in Elems(s)
  BY <1>9 DEF Elems
<1> QED BY <1>1, <1>2, <1>8, <1>10, <1>11, <1>12

\* cache_get() finds what is there and moves it to the front.
LEMMA TouchFacts ==
  ASSUME NEW s, LruOK(s), NEW key, Holds(s, key)
  PROVE  /\ LruOK(Touch(s, key))
         /\ \A y \in Elems(Touch(s, key)) : y \in Elems(s)
         /\ key \in Key /\ Cached(s, key) \in Entry
         /\ \E y \in Elems(s) : y.key = key /\ y.ent = Cached(s, key)
<1>1. PICK k : k = Index(s, key)
  OBVIOUS
<1>2. PICK r : r = Remove(s, key)
  OBVIOUS
<1>3. /\ r \in Seq(Node) /\ Len(r) = Len(s) - 1
      /\ \A i, j \in 1..Len(r) : r[i].key = r[j].key => i = j
      /\ \A i \in 1..Len(r) : r[i].key # key
      /\ \A y \in Elems(r) : y \in Elems(s)
      /\ k \in 1..Len(s) /\ s[k].key = key
  BY <1>1, <1>2, RemoveFacts
<1>4. PICK x : x = s[k]
  OBVIOUS
<1>5. x \in Node /\ x \in Elems(s) /\ x.key = key /\ x.ent = Cached(s, key) /\ Len(s) \in Nat
  BY <1>1, <1>3, <1>4 DEF LruOK, Elems, Cached
<1>6. x = [key |-> key, ent |-> Cached(s, key)] /\ key \in Key /\ Cached(s, key) \in Entry
  BY <1>5 DEF Node
<1>7. PICK u : u = Touch(s, key)
  OBVIOUS
<1>8. u = <<x>> \o r
  BY <1>2, <1>6, <1>7 DEF Touch
<1>9. /\ u \in Seq(Node) /\ Len(u) = Len(r) + 1
      /\ \A i, j \in 1..Len(u) : u[i].key = u[j].key => i = j
      /\ \A y \in Elems(u) : y = x \/ y \in Elems(r)
  <2>1. \A i \in 1..Len(r) : r[i].key # x.key
    BY <1>3, <1>5
  <2>2. r \in Seq(Node) /\ x \in Node /\ \A i, j \in 1..Len(r) : r[i].key = r[j].key => i = j
    BY <1>3, <1>5
  <2> QED BY <1>8, <2>1, <2>2, ConsFacts
<1>10. LruOK(u)
  BY <1>3, <1>5, <1>9 DEF LruOK
<1> QED BY <1>3, <1>5, <1>6, <1>7, <1>9, <1>10

\* cache_put() inserts one node and keeps the others or drops some of them.
LEMMA PutFacts ==
  ASSUME NEW s, LruOK(s), NEW key \in Key, NEW ent \in Entry
  PROVE  /\ LruOK(CachePut(s, key, ent))
         /\ ent.obj = "EIO" => CachePut(s, key, ent) = s
         /\ ent.obj # "EIO" =>
              \A y \in Elems(CachePut(s, key, ent)) :
                \/ y.key = key /\ y.ent = ent
                \/ y \in Elems(s) /\ y.key # key
<1>1. PICK u : u = CachePut(s, key, ent)
  OBVIOUS
<1>2. PICK x \in Node : x = [key |-> key, ent |-> ent]
  BY DEF Node
<1>3. x.key = key /\ x.ent = ent /\ s \in Seq(Node) /\ Len(s) \in Nat /\ CacheMax \in Nat \ {0}
      /\ Len(s) <= CacheMax
  BY <1>2, FuseCacheAssumption DEF LruOK
<1>4. CASE ent.obj = "EIO"
  BY <1>1, <1>4 DEF CachePut
<1>5. CASE ent.obj # "EIO" /\ Holds(s, key)
  <2>1. PICK r : r = Remove(s, key)
    OBVIOUS
  <2>2. /\ r \in Seq(Node) /\ Len(r) = Len(s) - 1
        /\ \A i, j \in 1..Len(r) : r[i].key = r[j].key => i = j
        /\ \A i \in 1..Len(r) : r[i].key # key
        /\ \A y \in Elems(r) : y \in Elems(s)
    BY <1>5, <2>1, RemoveFacts
  <2>3. u = <<x>> \o r
    BY <1>1, <1>2, <1>5, <2>1 DEF CachePut
  <2>4. /\ u \in Seq(Node) /\ Len(u) = Len(r) + 1
        /\ \A i, j \in 1..Len(u) : u[i].key = u[j].key => i = j
        /\ \A y \in Elems(u) : y = x \/ y \in Elems(r)
    BY <1>3, <2>2, <2>3, ConsFacts, ZenonT(40)
  <2>5. LruOK(u)
    BY <1>3, <2>2, <2>4 DEF LruOK
  <2>6. \A y \in Elems(r) : y.key # key
    BY <2>2 DEF Elems
  <2> QED BY <1>1, <1>3, <1>5, <2>2, <2>4, <2>5, <2>6
<1>6. CASE ent.obj # "EIO" /\ ~Holds(s, key)
  <2>1. PICK r : r = IF Len(s) >= CacheMax THEN SubSeq(s, 1, Len(s) - 1) ELSE s
    OBVIOUS
  <2>2. /\ r \in Seq(Node) /\ Len(r) <= CacheMax - 1 /\ Len(r) <= Len(s) /\ Len(r) \in Nat
        /\ \A i \in 1..Len(r) : i \in 1..Len(s) /\ r[i] = s[i]
    BY <1>3, <2>1
  <2>3. \A i, j \in 1..Len(r) : r[i].key = r[j].key => i = j
    BY <2>2 DEF LruOK
  <2>4. \A i \in 1..Len(r) : r[i].key # key
    BY <1>6, <2>2 DEF Holds
  <2>5. u = <<x>> \o r
    BY <1>1, <1>2, <1>6, <2>1 DEF CachePut
  <2>6. /\ u \in Seq(Node) /\ Len(u) = Len(r) + 1
        /\ \A i, j \in 1..Len(u) : u[i].key = u[j].key => i = j
        /\ \A y \in Elems(u) : y = x \/ y \in Elems(r)
    BY <1>3, <2>2, <2>3, <2>4, <2>5, ConsFacts, ZenonT(40)
  <2>7. LruOK(u)
    BY <1>3, <2>2, <2>6 DEF LruOK
  <2>8. \A y \in Elems(r) : y.key # key /\ y \in Elems(s)
    BY <2>2, <2>4 DEF Elems
  <2> QED BY <1>1, <1>3, <1>6, <2>6, <2>7, <2>8
<1> QED BY <1>4, <1>5, <1>6

-----------------------------------------------------------------------------
(* What grub reports.                                                      *)

\* A set of numbers has a least one.
LEMMA LeastFacts ==
  ASSUME NEW S, S \subseteq Nat, S # {}
  PROVE  \E x \in S : \A y \in S : x <= y
<1> DEFINE R == {p \in Nat \X Nat : p[1] < p[2]}
<1>1. IsWellFoundedOn(R, Nat)
  BY NatLessThanWellFounded DEF OpToRel
<1> HIDE DEF R
<1>2. PICK x \in S : \A y \in S : ~(<<y, x>> \in R)
  BY <1>1, WFMin
<1>3. ASSUME NEW y \in S PROVE x <= y
  <2>1. x \in Nat /\ y \in Nat /\ <<y, x>> \notin R
    BY <1>2
  <2>2. ~(y < x)
    BY <2>1 DEF R
  <2> QED BY <2>1, <2>2
<1> QED BY <1>3

\* A directory and a name make a path, and each way back is unique.
LEMMA AppendFacts ==
  ASSUME NEW path \in Paths, NEW x \in Names, NEW y \in Names
  PROVE  /\ DirOf(Append(path, x)) = path /\ NameOf(Append(path, x)) = x
         /\ Append(path, x) # Root /\ Len(Append(path, x)) = Len(path) + 1 /\ Len(path) \in Nat
         /\ Append(path, x) = Append(path, y) => x = y
<1>1. path \in Seq(Names)
  BY FuseCacheAssumption
<1>2. PICK r : r = Append(path, x)
  OBVIOUS
<1>3. /\ r \in Seq(Names) /\ Len(r) = Len(path) + 1 /\ Len(path) \in Nat /\ r[Len(path) + 1] = x
      /\ \A i \in 1..Len(path) : r[i] = path[i]
  BY <1>1, <1>2
<1>4. NameOf(r) = x /\ r # Root
  BY <1>3 DEF NameOf, Root
<1>5. SubSeq(r, 1, Len(r) - 1) = path
  <2>1. PICK s : s = SubSeq(r, 1, Len(r) - 1)
    OBVIOUS
  <2>2. s \in Seq(Names) /\ Len(s) = Len(path) /\ \A i \in 1..Len(path) : s[i] = path[i]
    BY <1>3, <2>1
  <2>3. s = path
    BY <1>1, <2>2
  <2> QED BY <2>1, <2>3
<1>6. Append(path, x) = Append(path, y) => x = y
  BY <1>1, <1>2, <1>3
<1> QED BY <1>2, <1>3, <1>4, <1>5, <1>6 DEF DirOf

\* Where a path came from is a path.
LEMMA DirType ==
  ASSUME NEW path \in Paths
  PROVE  DirOf(path) \in Paths
<1>1. path \in Seq(Names) /\ Len(path) \in Nat /\ Root \in Paths
  BY FuseCacheAssumption
<1>2. CASE Len(path) > 0
  <2>1. Len(path) - 1 \in 0..Len(path)
    BY <1>1, <1>2
  <2> QED BY <2>1, FuseCacheAssumption DEF DirOf
<1>3. CASE Len(path) = 0
  <2>1. SubSeq(path, 1, Len(path) - 1) = <<>>
    BY <1>1, <1>3
  <2> QED BY <1>1, <2>1 DEF DirOf, Root
<1> QED BY <1>1, <1>2, <1>3

\* The entries of a directory.
LEMMA ListFacts ==
  ASSUME NEW enc \in Encodings, NEW phys \in Paths
  PROVE  /\ Listing[enc][phys] \in Seq(DirEntry) /\ Len(Listing[enc][phys]) \in Nat
         /\ \A i \in 1..Len(Listing[enc][phys]) :
              /\ Listing[enc][phys][i].name \in Names
              /\ Append(phys, Listing[enc][phys][i].name) \in Paths
              /\ Listing[enc][phys][i].obj \in Objects
              /\ Listing[enc][phys][i].obj \in
                   Namesakes(enc, Append(phys, Listing[enc][phys][i].name))
<1>1. PICK list : list = Listing[enc][phys]
  OBVIOUS
<1>2. list \in Seq(DirEntry)
  BY <1>1, FuseCacheAssumption
<1>3. \A i \in 1..Len(list) : list[i] \in DirEntry
  BY <1>2
<1>4. \A i \in 1..Len(list) : list[i].name \in Names /\ list[i].obj \in Objects
  BY <1>3 DEF DirEntry
<1>5. ASSUME NEW i \in 1..Len(list)
      PROVE  list[i].obj \in Namesakes(enc, Append(phys, list[i].name))
  <2>1. PICK path : path = Append(phys, list[i].name)
    OBVIOUS
  <2>2. DirOf(path) = phys /\ NameOf(path) = list[i].name
    BY <1>4, <2>1, AppendFacts
  <2>3. list[i].obj \in Namesakes(enc, path)
    BY <1>1, <2>2 DEF Namesakes
  <2> QED BY <2>1, <2>3
<1> QED BY <1>1, <1>2, <1>4, <1>5, FuseCacheAssumption

\* rover_stat() finds an object or nothing.
LEMMA LookupType ==
  ASSUME NEW enc \in Encodings, NEW phys \in Paths
  PROVE  /\ Lookup(enc, phys) \in Objects \cup {"ENOENT"} /\ Lookup(enc, phys) # "EIO"
         /\ Lookup(enc, phys) = "ENOENT" \/ Lookup(enc, phys) \in Objects \ Errors
<1>1. PICK list : list = Listing[enc][DirOf(phys)]
  OBVIOUS
<1> DEFINE hits == {i \in 1..Len(list) : list[i].name = NameOf(phys)}
<1>2. Len(list) \in Nat /\ \A i \in 1..Len(list) : list[i].obj \in Objects
  BY <1>1, DirType, ListFacts
<1>3. Lookup(enc, phys) \in Objects \cup {"ENOENT"}
  <2>1. CASE hits # {} /\ phys # Root
    <3>1. hits \subseteq Nat /\ hits \subseteq 1..Len(list)
      BY <1>2
    <3>2. Lookup(enc, phys) = list[CHOOSE i \in hits : \A j \in hits : i <= j].obj
      BY <1>1, <2>1 DEF Lookup
    <3> HIDE DEF hits
    <3>3. \E i \in hits : \A j \in hits : i <= j
      BY <2>1, <3>1, LeastFacts, Zenon
    <3>4. (CHOOSE i \in hits : \A j \in hits : i <= j) \in hits
      BY <3>3
    <3> QED BY <1>2, <3>1, <3>2, <3>4
  <2>2. CASE hits = {} \/ phys = Root
    <3>1. Lookup(enc, phys) \in {RootObject, "ENOENT"}
      BY <1>1, <2>2 DEF Lookup
    <3> QED BY <3>1, FuseCacheAssumption
  <2> QED BY <2>1, <2>2
<1>4. Objects \cap Errors = {} /\ "EIO" \in Errors
  BY FuseCacheAssumption DEF Errors
<1> QED BY <1>3, <1>4

\* Of duplicate names it finds the first.
LEMMA LookupFirst ==
  ASSUME NEW enc \in Encodings, NEW phys \in Paths, NEW list, list = Listing[enc][phys],
         NEW i \in 1..Len(list), \A j \in 1..Len(list) : j < i => list[j].name # list[i].name
  PROVE  Lookup(enc, Append(phys, list[i].name)) = list[i].obj
<1>1. PICK path : path = Append(phys, list[i].name)
  OBVIOUS
<1>2. list[i].name \in Names /\ Len(list) \in Nat
  BY ListFacts
<1>3. path # Root /\ DirOf(path) = phys /\ NameOf(path) = list[i].name
  BY <1>1, <1>2, AppendFacts
<1> DEFINE hits == {k \in 1..Len(list) : list[k].name = NameOf(path)}
<1>4. i \in hits /\ \A j \in hits : i <= j
  BY <1>2, <1>3
<1>5. Lookup(enc, path) = list[CHOOSE k \in hits : \A j \in hits : k <= j].obj
  BY <1>3, <1>4 DEF Lookup
<1>6. hits \subseteq Nat
  BY <1>2
<1> HIDE DEF hits
<1>7. (CHOOSE k \in hits : \A j \in hits : k <= j) = i
  <2>1. PICK k : k = CHOOSE l \in hits : \A j \in hits : l <= j
    OBVIOUS
  <2>2. k \in hits /\ \A j \in hits : k <= j
    BY <1>4, <2>1
  <2>3. k = i
    BY <1>4, <1>6, <2>2
  <2> QED BY <2>1, <2>3
<1> QED BY <1>1, <1>5, <1>7

\* What grub reports of an object, or of a failure, is an entry.
LEMMA WholeFacts ==
  ASSUME NEW obj \in Objects, NEW phys \in Paths
  PROVE  /\ Whole(obj, phys) \in Entry /\ Whole(obj, phys).obj = obj
         /\ Whole(obj, phys).phys = phys
<1>1. obj \notin Errors /\ phys # Nowhere
  BY FuseCacheAssumption, WalkAssumption
<1>2. PICK size \in Objects \cup {"UNKNOWN"} : size = IF obj \in Files THEN obj ELSE "UNKNOWN"
  OBVIOUS
<1>3. Whole(obj, phys) = [obj |-> obj, phys |-> phys, size |-> size]
  BY <1>2 DEF Whole
<1> QED BY <1>1, <1>3 DEF Entry

LEMMA FailedFacts ==
  ASSUME NEW err \in Errors
  PROVE  Failed(err) \in Entry /\ Failed(err).obj = err /\ Failed(err).phys = Nowhere
BY DEF Failed, Entry

\* An unknown size changes nothing else.
LEMMA ReportedFacts ==
  \A o, p, s : \A r \in Reported([obj |-> o, phys |-> p, size |-> s]) :
    \E t : r = [obj |-> o, phys |-> p, size |-> t]
<1> TAKE o, p, s
<1>1. PICK ent : ent = [obj |-> o, phys |-> p, size |-> s]
  OBVIOUS
<1>2. ASSUME NEW r \in Reported(ent)
      PROVE  \E t : r = [obj |-> o, phys |-> p, size |-> t]
  <2>1. CASE r = ent
    BY <1>1, <2>1
  <2>2. CASE r # ent
    <3>1. r = [ent EXCEPT !.size = "UNKNOWN"]
      BY <1>2, <2>2 DEF Reported
    <3>2. r = [obj |-> o, phys |-> p, size |-> "UNKNOWN"]
      BY <1>1, <3>1
    <3> QED BY <3>2
  <2> QED BY <2>1, <2>2
<1> QED BY <1>1, <1>2

\* What rover_stat() reports is an entry, and so is what walk() returns.
LEMMA TruthFacts ==
  ASSUME NEW enc \in Encodings, NEW phys \in Paths, NEW r \in Reported(Truth(enc, <<"raw", phys>>))
  PROVE  /\ r \in Entry /\ r.obj = Lookup(enc, phys)
         /\ Lookup(enc, phys) # "ENOENT" => r \in Reported(Whole(Lookup(enc, phys), phys))
         /\ Lookup(enc, phys) = "ENOENT" => r.obj = "ENOENT"
<1>1. PICK obj : obj = Lookup(enc, phys)
  OBVIOUS
<1>2. CASE obj = "ENOENT"
  <2>1. PICK ent : ent = Failed("ENOENT")
    OBVIOUS
  <2>2. Truth(enc, <<"raw", phys>>) = ent
    BY <1>1, <1>2, <2>1 DEF Truth
  <2>3. ent \in Entry /\ ent.obj = "ENOENT"
    BY <2>1, FailedFacts DEF Errors
  <2>4. "ENOENT" \notin Files
    BY FuseCacheAssumption DEF Errors, Files
  <2>5. r = ent
    BY <2>2, <2>3, <2>4 DEF Reported
  <2>6. r \in Entry /\ r.obj = "ENOENT"
    BY <2>3, <2>5
  <2> QED BY <1>1, <1>2, <2>6, Zenon
<1>3. CASE obj # "ENOENT"
  <2>1. obj \in Objects
    BY <1>1, <1>3, LookupType
  <2>2. PICK ent : ent = Whole(obj, phys)
    OBVIOUS
  <2>3. Truth(enc, <<"raw", phys>>) = ent
    BY <1>1, <1>3, <2>2 DEF Truth
  <2>4. PICK s : ent = [obj |-> obj, phys |-> phys, size |-> s]
    BY <2>2 DEF Whole
  <2>5. \E t : r = [obj |-> obj, phys |-> phys, size |-> t]
    <3>1. r \in Reported([obj |-> obj, phys |-> phys, size |-> s])
      BY <2>3, <2>4
    <3> QED BY <3>1, ReportedFacts, Zenon
  <2>6. ent \in Entry /\ phys # Nowhere /\ obj \notin Errors
    BY <2>1, <2>2, WholeFacts, FuseCacheAssumption, WalkAssumption, ZenonT(40)
  <2>7. ent.size \in Objects \cup {"UNKNOWN"} /\ (r.size = ent.size \/ r.size = "UNKNOWN")
    <3>1. r = ent \/ r = [ent EXCEPT !.size = "UNKNOWN"]
      <4>1. r \in Reported(ent)
        BY <2>3, Zenon
      <4> QED BY <4>1 DEF Reported
    <3>2. r = ent \/ r = [obj |-> obj, phys |-> phys, size |-> "UNKNOWN"]
      BY <2>4, <3>1
    <3>3. r.size = ent.size \/ r.size = "UNKNOWN"
      BY <3>2
    <3> QED BY <2>6, <3>3 DEF Entry
  <2>8. r \in Entry /\ r.obj = obj
    BY <2>1, <2>5, <2>6, <2>7 DEF Entry
  <2> QED BY <1>1, <1>3, <2>2, <2>3, <2>8, Zenon
<1> QED BY <1>2, <1>3

LEMMA ResolveFacts ==
  ASSUME NEW enc \in Encodings, NEW path \in Paths
  PROVE  /\ \A r \in Reported(Resolve(enc, path)) :
              /\ r.obj = Resolve(enc, path).obj /\ r.obj # "EIO"
              /\ r.obj \in Candidates(enc, path)
              /\ r.obj \in Dirs => r.phys = Ends[enc][Begin[path]]
         /\ Ends[enc][Begin[path]] = Nowhere => Failed("ENOENT") \in Reported(Resolve(enc, path))
         /\ Ends[enc][Begin[path]] # Nowhere =>
              Resolve(enc, path) =
                Whole(Lookup(enc, Ends[enc][Begin[path]]), Ends[enc][Begin[path]])
<1>1. PICK phys \in Paths \cup {Nowhere} : phys = Ends[enc][Begin[path]]
  BY WalkAssumption, ZenonT(40)
<1>2. PICK ent : ent = Resolve(enc, path)
  OBVIOUS
<1>3. CASE phys = Nowhere
  <2>1. ent = Failed("ENOENT")
    BY <1>1, <1>2, <1>3 DEF Resolve
  <2>2. PICK s : ent = [obj |-> "ENOENT", phys |-> Nowhere, size |-> s]
    BY <2>1 DEF Failed
  <2>3. \A r \in Reported(ent) : r.obj = "ENOENT"
    <3>1. \A r \in Reported(ent) : \E t : r = [obj |-> "ENOENT", phys |-> Nowhere, size |-> t]
      BY <2>2, ReportedFacts, Zenon
    <3> QED BY <3>1
  <2>4. "ENOENT" \notin Dirs
    BY FuseCacheAssumption DEF Errors
  <2>5. ent \in Reported(ent) /\ ent.obj = "ENOENT"
    BY <2>2 DEF Reported
  <2>6. \A r \in Reported(ent) : r.obj = ent.obj /\ r.obj # "EIO" /\ r.obj \notin Dirs
    BY <2>3, <2>4, <2>5
  <2>7. ent.obj \in Candidates(enc, path)
    BY <1>2, Zenon DEF Candidates
  <2> QED BY <1>1, <1>2, <1>3, <2>1, <2>5, <2>6, <2>7, Zenon
<1>4. CASE phys # Nowhere
  <2>1. phys \in Paths /\ ent = Whole(Lookup(enc, phys), phys)
    BY <1>1, <1>2, <1>4 DEF Resolve
  <2>2. PICK obj : obj = Lookup(enc, phys)
    OBVIOUS
  <2>3. PICK s : ent = [obj |-> obj, phys |-> phys, size |-> s]
    BY <2>1, <2>2 DEF Whole
  <2>4. \A r \in Reported(ent) : r.obj = obj /\ r.phys = phys
    <3>1. \A r \in Reported(ent) : \E t : r = [obj |-> obj, phys |-> phys, size |-> t]
      BY <2>3, ReportedFacts, Zenon
    <3> QED BY <3>1
  <2>5. obj # "EIO" /\ ent.obj = obj
    BY <2>1, <2>2, <2>3, LookupType
  <2>6. \A r \in Reported(ent) : r.obj = ent.obj /\ r.obj # "EIO" /\ r.phys = phys
    BY <2>4, <2>5
  <2>7. ent.obj \in Candidates(enc, path)
    BY <1>2, Zenon DEF Candidates
  <2> QED BY <1>1, <1>2, <1>4, <2>1, <2>6, <2>7, Zenon
<1> QED BY <1>3, <1>4

-----------------------------------------------------------------------------
(* What a step has to look after.                                          *)

ThreadType ==
  [pc : {"idle", "queued"}, kind : {"getattr", "readdir"}, path : Paths,
   ent : Entry, clean : BOOLEAN, io : BOOLEAN, ops : 0..MaxOps]

\* The variables of the operation that runs; all but where it is and for whom.
RestType ==
  /\ walking \in Walks /\ after \in Labels /\ found \in Entry /\ items \in Seq(Item)
  /\ n \in Nat /\ level \in Nat /\ chained \in BOOLEAN

OpType ==
  bpc \in Pcs /\ running \in Threads \cup {Nobody} /\ dir \in Paths /\ RestType

LEMMA TypeParts ==
  TypeOK <=> /\ LruOK(lru) /\ encoding \in Encodings /\ gpc \in {"idle", "invalidate"}
             /\ changes \in 0..MaxChanges /\ thread \in [Threads -> ThreadType]
             /\ OpType /\ straddled \in BOOLEAN /\ misled \in BOOLEAN
<1>1. Node = [key : Key, ent : Entry] /\ Item = [name : Names, ent : Entry]
  BY DEF Node, Item
<1> QED BY <1>1, Zenon DEF TypeOK, LruOK, ThreadType, OpType, RestType, Labels

LEMMA TypePartsPrimed ==
  ASSUME LruOK(lru'), encoding' \in Encodings, gpc' \in {"idle", "invalidate"},
         changes' \in 0..MaxChanges, thread' \in [Threads -> ThreadType],
         OpType', straddled' \in BOOLEAN, misled' \in BOOLEAN
  PROVE  TypeOK'
<1>1. Node = [key : Key, ent : Entry] /\ Item = [name : Names, ent : Entry]
  BY DEF Node, Item
<1> QED BY <1>1, Zenon DEF TypeOK, LruOK, ThreadType, OpType, RestType, Labels

\* No step of an operation clears the cache.
Steady == UNCHANGED <<gui, straddled>> /\ misled' \in BOOLEAN /\ (misled => misled')

LEMMA SteadyFacts ==
  ASSUME Steady
  PROVE  UNCHANGED <<encoding, gpc, changes, straddled>> /\ (Good' => Good)
<1>1. UNCHANGED <<encoding, gpc, changes, straddled>>
  BY DEF Steady, gui
<1> QED BY <1>1 DEF Steady, Good

LEMMA SteadyStill ==
  ASSUME TypeOK, UNCHANGED <<gui, straddled, misled>>
  PROVE  Steady
<1>1. misled \in BOOLEAN
  BY TypeParts
<1> QED BY <1>1, Zenon DEF Steady

\* Only the cache's steps and those of the operation touch the types.
LEMMA TypeKept ==
  ASSUME TypeOK, Steady, LruOK(lru'), thread' \in [Threads -> ThreadType], OpType'
  PROVE  TypeOK'
<1>1. /\ encoding \in Encodings /\ gpc \in {"idle", "invalidate"}
      /\ changes \in 0..MaxChanges /\ straddled \in BOOLEAN
  BY TypeParts
<1>2. misled' \in BOOLEAN
  BY DEF Steady
<1> QED BY <1>1, <1>2, SteadyFacts, TypePartsPrimed

\* Old entries stay right while they are unsettled or settled; new ones are
\* right.
LEMMA EntriesOK ==
  ASSUME CacheInv, Steady,
         \A x \in Elems(lru') :
           \/ x \in Elems(lru) /\ (Unsettled(x.key) => Unsettled(x.key)')
           \/ (gpc = "idle" => RawOK(x)') /\ (Good' => NodeOK(x)')
  PROVE  CacheInv'
<1>1. UNCHANGED <<encoding, gpc, straddled>> /\ (Good' => Good)
  BY SteadyFacts
<1>2. ASSUME NEW x \in Elems(lru'), gpc' = "idle" PROVE RawOK(x)'
  <2>1. CASE x \in Elems(lru) /\ (Unsettled(x.key) => Unsettled(x.key)')
    <3>1. RawOK(x)
      BY <1>1, <1>2, <2>1 DEF CacheInv
    <3> QED BY <1>1, <2>1, <3>1, Zenon DEF RawOK
  <2> QED BY <1>1, <1>2, <2>1
<1>3. ASSUME NEW x \in Elems(lru'), Good' PROVE NodeOK(x)'
  <2>1. CASE x \in Elems(lru) /\ (Unsettled(x.key) => Unsettled(x.key)')
    <3>1. NodeOK(x)
      BY <1>1, <1>3, <2>1 DEF CacheInv
    <3> QED BY <1>1, <2>1, <3>1 DEF NodeOK
  <2> QED BY <1>3, <2>1
<1> QED BY <1>2, <1>3 DEF CacheInv

\* Nothing is unsettled unless a listing is being inserted.
LEMMA SettledFacts ==
  ASSUME bpc # "seed_raw", ~Showing
  PROVE  \A key : ~Unsettled(key)
BY DEF Unsettled, Seeds

\* The steps between two insertions settle nothing.
LEMMA ShowingKept ==
  ASSUME bpc # "seed_raw", Showing => Showing' /\ UNCHANGED <<items, n, running>>
                                      /\ thread'[running].path = thread[running].path
  PROVE  \A key : Unsettled(key) => Unsettled(key)'
<1>1. ASSUME NEW key, Unsettled(key) PROVE Unsettled(key)'
  <2>1. Showing /\ Showing' /\ UNCHANGED <<items, n, running>>
        /\ thread'[running].path = thread[running].path
    BY <1>1, SettledFacts
  <2>2. \A i : Seeds(key, i) => Seeds(key, i)'
    BY <2>1 DEF Seeds, Child
  <2> QED BY <1>1, <2>1, <2>2 DEF Unsettled
<1> QED BY <1>1

\* A step of an adapter thread leaves alone what the backend thread runs.
LEMMA OperationKept ==
  ASSUME IInv, Steady, UNCHANGED <<op, misled>>,
         bpc # "idle" => thread'[running] = thread[running]
  PROVE  OpInv' /\ ItemsInv' /\ FoundInv' /\ (\A key : Unsettled(key) => Unsettled(key)')
<1>1. /\ UNCHANGED <<bpc, running, walking, after, found, dir, items, n, level>>
      /\ UNCHANGED <<encoding, gpc, straddled>>
  BY SteadyFacts DEF op, walk, listing
<1>2. (HasItems => bpc # "idle") /\ (Walking => bpc # "idle") /\ (Showing => bpc # "idle")
      /\ (bpc \in Labels => bpc # "idle")
  BY DEF HasItems, Showing, Walking, Labels
<1>3. (HasItems' <=> HasItems) /\ (Walking' <=> Walking) /\ (Good' <=> Good)
      /\ (Showing' <=> Showing)
  BY <1>1 DEF HasItems, Showing, Walking, Good
<1>4. OpInv'
  BY <1>1, <1>3 DEF IInv, OpInv
<1>5. ItemsInv'
  <2>1. \A i, listed : ItemOf(i, listed)' <=> ItemOf(i, listed)
    BY <1>1 DEF ItemOf
  <2> QED BY <1>1, <1>3, <2>1 DEF IInv, ItemsInv, ItemsOf
<1>6. FoundInv'
  <2>1. \A i : SizeOK(i)' <=> SizeOK(i)
    BY <1>1 DEF SizeOK, ItemPath
  <2>2. bpc # "idle" => Goal' = Goal
    BY <1>1 DEF Goal, Child, AncestorPath
  <2> QED BY <1>1, <1>2, <1>3, <2>1, <2>2 DEF IInv, FoundInv
<1>7. \A key : Unsettled(key) => Unsettled(key)'
  <2>1. \A key, i : Seeds(key, i) => Seeds(key, i)'
    BY <1>1, <1>2, <1>3 DEF Seeds, Child
  <2> QED BY <1>1, <2>1 DEF Unsettled
<1> QED BY <1>4, <1>5, <1>6, <1>7

\* An operation begins, or is answered from the cache.
LEMMA StartOK ==
  ASSUME IInv, NEW t \in Threads, NEW kind \in {"getattr", "readdir"}, NEW p \in Paths,
         NEW pc \in {"idle", "queued"}, NEW ent \in Entry, Start(t, kind, p, pc, ent),
         kind = "readdir" => p \in Browsed,
         thread[t].pc = "idle", thread[t].ops < MaxOps, LruOK(lru'),
         \A x \in Elems(lru') : x \in Elems(lru), UNCHANGED <<gui, op, straddled, misled>>,
         pc = "idle" /\ Good => ent.obj \in Candidates(encoding, p)
  PROVE  IInv'
<1>1. /\ thread \in [Threads -> ThreadType] /\ OpType /\ TypeOK /\ gpc \in {"idle", "invalidate"}
      /\ MaxOps \in Nat
  BY TypeParts, FuseCacheAssumption DEF IInv
<1>2. PICK k : k = thread[t].ops + 1
  OBVIOUS
<1>3. k \in 0..MaxOps
  BY <1>1, <1>2 DEF ThreadType
<1>4. PICK new : new = [pc |-> pc, kind |-> kind, path |-> p, ent |-> ent,
                        clean |-> gpc = "idle", io |-> FALSE, ops |-> k]
  OBVIOUS
<1>5. thread' = [thread EXCEPT ![t] = new]
  BY <1>2, <1>4 DEF Start
<1>6. new \in ThreadType
  BY <1>3, <1>4 DEF ThreadType
<1>7. thread' \in [Threads -> ThreadType] /\ thread'[t] = new
      /\ \A u \in Threads : u # t => thread'[u] = thread[u]
  BY <1>1, <1>5, <1>6
<1>8. Steady /\ UNCHANGED <<encoding, gpc, straddled>>
  BY <1>1, SteadyStill, SteadyFacts
<1>9. bpc # "idle" => running \in Threads /\ thread'[running] = thread[running]
  BY <1>7 DEF IInv, OpInv
<1>10. OpInv' /\ ItemsInv' /\ FoundInv' /\ (\A key : Unsettled(key) => Unsettled(key)')
  BY <1>8, <1>9, OperationKept
<1>11. CacheInv'
  BY <1>8, <1>10, EntriesOK DEF IInv
<1>12. AnswerInv'
  <2>1. ASSUME gpc' = "invalidate", NEW u \in Threads PROVE ~thread'[u].clean
    <3>1. ~new.clean
      BY <1>4, <1>8, <2>1
    <3> QED BY <1>7, <1>8, <2>1, <3>1 DEF IInv, AnswerInv
  <2>2. ASSUME ~straddled', ~misled', NEW u \in Threads PROVE AnsweredRight(u)'
    <3>1. CASE u # t
      <4>1. AnsweredRight(u)
        BY <1>8, <2>2 DEF IInv, AnswerInv
      <4> QED BY <1>7, <1>8, <3>1, <4>1 DEF AnsweredRight
    <3>2. CASE u = t
      <4>1. new.pc = pc /\ new.path = p /\ new.ent = ent /\ (new.clean => gpc = "idle")
        BY <1>4
      <4>2. pc = "idle" /\ new.clean => ent.obj \in Candidates(encoding, p)
        BY <1>8, <2>2, <4>1 DEF Good
      <4> QED BY <1>7, <1>8, <3>2, <4>1, <4>2 DEF AnsweredRight
    <3> QED BY <3>1, <3>2
  <2>3. ASSUME NEW u \in Threads, thread'[u].kind = "readdir" PROVE thread'[u].path \in Browsed
    <3>1. new.kind = kind /\ new.path = p
      BY <1>4
    <3> QED BY <1>7, <2>3, <3>1 DEF IInv, AnswerInv
  <2> QED BY <2>1, <2>2, <2>3 DEF AnswerInv
<1>13. OpType'
  <2>1. UNCHANGED <<bpc, running, dir, walking, after, found, items, n, level, chained>>
    BY DEF op, walk, listing
  <2> QED BY <1>1, <2>1 DEF OpType, RestType
<1>14. TypeOK'
  BY <1>1, <1>7, <1>8, <1>13, TypeKept
<1> QED BY <1>10, <1>11, <1>12, <1>14 DEF IInv

\* A name in the cache is answered with an object it may have.
LEMMA HitAnswers ==
  ASSUME IInv, NEW p \in Paths, Holds(lru, <<"mount", p>>), Good
  PROVE  /\ Cached(lru, <<"mount", p>>).obj \in Candidates(encoding, p)
         /\ ~Unsettled(<<"mount", p>>) =>
              Cached(lru, <<"mount", p>>) \in Reported(Resolve(encoding, p))
<1>1. LruOK(lru) /\ encoding \in Encodings
  BY TypeParts DEF IInv
<1>2. PICK key : key = <<"mount", p>>
  OBVIOUS
<1>3. PICK y \in Elems(lru) : y.key = key /\ y.ent = Cached(lru, key)
  BY <1>1, <1>2, TouchFacts
<1>4. NodeOK(y)
  BY DEF IInv, CacheInv
<1>5. Truth(encoding, key) = Resolve(encoding, p) /\ key[1] = "mount" /\ key[2] = p
  BY <1>2 DEF Truth
<1>6. CASE y.ent \in Reported(Resolve(encoding, p))
  <2>1. y.ent.obj \in Candidates(encoding, p)
    BY <1>1, <1>6, ResolveFacts
  <2> QED BY <1>2, <1>3, <1>6, <2>1
<1>7. CASE Unsettled(key) /\ y.ent.obj \in Candidates(encoding, p)
  BY <1>2, <1>3, <1>7
<1> QED BY <1>3, <1>4, <1>5, <1>6, <1>7 DEF NodeOK

\* fusefs_getattr() and fusefs_readdir() on an adapter thread.
LEMMA AdapterStep ==
  ASSUME IInv, NEW t \in Threads, GetattrHit(t) \/ GetattrMiss(t) \/ Readdir(t)
  PROVE  IInv'
<1>1. LruOK(lru) /\ Asked \subseteq Paths /\ Browsed \subseteq Paths
  BY TypeParts, FuseCacheAssumption DEF IInv
<1>2. Failed("EIO") \in Entry
  BY FailedFacts DEF Errors
<1>3. CASE GetattrHit(t)
  <2>1. PICK p \in Paths :
          /\ thread[t].pc = "idle" /\ thread[t].ops < MaxOps
          /\ Holds(lru, <<"mount", p>>)
          /\ Start(t, "getattr", p, "idle", Cached(lru, <<"mount", p>>))
          /\ lru' = Touch(lru, <<"mount", p>>)
          /\ UNCHANGED <<gui, op, straddled, misled>>
    BY <1>1, <1>3 DEF GetattrHit
  <2>2. /\ LruOK(lru') /\ \A y \in Elems(lru') : y \in Elems(lru)
        /\ Cached(lru, <<"mount", p>>) \in Entry
    BY <1>1, <2>1, TouchFacts
  <2>3. PICK ent \in Entry : ent = Cached(lru, <<"mount", p>>)
    BY <2>2
  <2>4. Good => ent.obj \in Candidates(encoding, p)
    BY <2>1, <2>3, HitAnswers
  <2>5. Start(t, "getattr", p, "idle", ent)
    BY <2>1, <2>3
  <2> QED BY <2>1, <2>2, <2>4, <2>5, StartOK
<1>4. CASE GetattrMiss(t) \/ Readdir(t)
  <2>1. PICK p \in Paths, kind \in {"getattr", "readdir"} :
          /\ thread[t].pc = "idle" /\ thread[t].ops < MaxOps
          /\ kind = "readdir" => p \in Browsed
          /\ Start(t, kind, p, "queued", Failed("EIO"))
          /\ UNCHANGED <<lru, gui, op, straddled, misled>>
    BY <1>1, <1>4 DEF GetattrMiss, Readdir
  <2>2. PICK ent \in Entry : ent = Failed("EIO")
    BY <1>2
  <2>3. Start(t, kind, p, "queued", ent) /\ LruOK(lru') /\ \A y \in Elems(lru') : y \in Elems(lru)
    BY <1>1, <2>1, <2>2
  <2> QED BY <2>1, <2>3, StartOK
<1> QED BY <1>3, <1>4

\* What an operation may answer, and where mount_stat() found a directory.
AnswerOf(ent) ==
  Good' => /\ thread[running].kind = "getattr" =>
                \/ ent.obj \in Candidates(encoding, thread[running].path)
                \/ thread[running].io /\ ent.obj = "EIO"
           /\ ent.obj \in Dirs => ent.phys = Ends[encoding][Begin[thread[running].path]]

\* The operation is over.
LEMMA AnswerOK ==
  ASSUME IInv, bpc # "idle", NEW ent \in Entry, Answer(ent),
         thread[running].kind = "getattr" => AnswerOf(ent),
         Steady, UNCHANGED dir, LruOK(lru'), RestType', CacheInv'
  PROVE  IInv'
<1>1. /\ thread \in [Threads -> ThreadType] /\ TypeOK /\ OpType /\ gpc \in {"idle", "invalidate"}
      /\ running \in Threads /\ thread[running].pc = "queued"
  BY TypeParts DEF IInv, OpInv
<1>2. PICK t \in Threads : t = running
  BY <1>1
<1>3. PICK old \in ThreadType : old = thread[t]
  BY <1>1
<1>4. PICK new : new = [pc |-> "idle", kind |-> old.kind, path |-> old.path, ent |-> ent,
                        clean |-> old.clean, io |-> old.io, ops |-> old.ops]
  OBVIOUS
<1>5. new \in ThreadType
  BY <1>3, <1>4 DEF ThreadType
<1>6. new = [[old EXCEPT !.pc = "idle"] EXCEPT !.ent = ent]
  <2>1. PICK a, b, c, d, e, f, g :
          old = [pc |-> a, kind |-> b, path |-> c, ent |-> d, clean |-> e, io |-> f, ops |-> g]
    BY <1>3 DEF ThreadType
  <2>2. new = [pc |-> "idle", kind |-> b, path |-> c, ent |-> ent, clean |-> e, io |-> f, ops |-> g]
    BY <1>4, <2>1
  <2>3. PICK mid : mid = [pc |-> "idle", kind |-> b, path |-> c, ent |-> d, clean |-> e,
                      io |-> f, ops |-> g]
    OBVIOUS
  <2>4. [old EXCEPT !.pc = "idle"] = mid
    BY <2>1, <2>3
  <2>5. [mid EXCEPT !.ent = ent] = new
    BY <2>2, <2>3
  <2> QED BY <2>4, <2>5
<1>7. thread' = [thread EXCEPT ![t] = new]
  BY <1>1, <1>2, <1>3, <1>6 DEF Answer
<1>8. thread' \in [Threads -> ThreadType] /\ thread'[t] = new
      /\ \A u \in Threads : u # t => thread'[u] = thread[u]
  BY <1>1, <1>5, <1>7
<1>9. bpc' = "idle" /\ running' = Nobody /\ UNCHANGED <<encoding, gpc, straddled>>
  BY SteadyFacts DEF Answer
<1>10. ~Walking' /\ ~HasItems' /\ bpc' \notin Labels
  BY <1>9 DEF HasItems, Showing, Walking, Labels
<1>11. OpInv' /\ ItemsInv' /\ FoundInv'
  BY <1>9, <1>10 DEF OpInv, ItemsInv, FoundInv
<1>12. OpType'
  BY <1>1, <1>9 DEF OpType, Pcs
<1>13. TypeOK'
  BY <1>1, <1>8, <1>12, TypeKept
<1>14. ASSUME gpc' = "invalidate", NEW u \in Threads PROVE ~thread'[u].clean
  <2>1. ~thread[u].clean
    BY <1>9, <1>14 DEF IInv, AnswerInv
  <2> QED BY <1>3, <1>4, <1>8, <2>1
<1>15. ASSUME ~straddled', ~misled', NEW u \in Threads PROVE AnsweredRight(u)'
  <2>1. CASE u # t
    <3>1. AnsweredRight(u)
      BY <1>9, <1>15 DEF IInv, AnswerInv, Steady
    <3> QED BY <1>8, <1>9, <2>1, <3>1 DEF AnsweredRight
  <2>2. CASE u = t
    <3>1. old.clean => Good'
      BY <1>1, <1>3, <1>9, <1>15 DEF IInv, AnswerInv, Good
    <3>2. /\ new.path = old.path /\ new.kind = old.kind /\ new.clean = old.clean
          /\ new.io = old.io /\ new.ent = ent
      BY <1>4
    <3>3. old.clean /\ old.kind = "getattr" =>
            \/ ent.obj \in Candidates(encoding, old.path)
            \/ old.io /\ ent.obj = "EIO"
      BY <1>2, <1>3, <3>1 DEF AnswerOf
    <3> QED BY <1>8, <1>9, <2>2, <3>2, <3>3 DEF AnsweredRight
  <2> QED BY <2>1, <2>2
<1>16. ASSUME NEW u \in Threads, thread'[u].kind = "readdir" PROVE thread'[u].path \in Browsed
  <2>1. new.kind = old.kind /\ new.path = old.path
    BY <1>4
  <2> QED BY <1>3, <1>8, <1>16, <2>1 DEF IInv, AnswerInv
<1>17. AnswerInv'
  BY <1>14, <1>15, <1>16 DEF AnswerInv
<1> QED BY <1>11, <1>13, <1>17 DEF IInv

\* A step that leaves the threads alone leaves their answers alone.
LEMMA AnswersKept ==
  ASSUME IInv, Steady, UNCHANGED thread
  PROVE  AnswerInv'
<1>1. UNCHANGED <<encoding, gpc, straddled>> /\ (misled => misled')
  BY SteadyFacts DEF Steady
<1> QED BY <1>1 DEF IInv, AnswerInv, AnsweredRight

\* What follows mount_stat().
LEMMA WithStatOK ==
  ASSUME IInv, bpc # "idle", NEW ent \in Entry, WithStat(ent), AnswerOf(ent),
         Steady, LruOK(lru'), RestType', CacheInv'
  PROVE  IInv'
<1>1. CASE thread[running].kind = "getattr" \/ ent.obj \notin Dirs
  <2>1. Answer(ent) /\ UNCHANGED dir
    BY <1>1 DEF WithStat
  <2> QED BY <2>1, AnswerOK
<1>2. CASE ~(thread[running].kind = "getattr" \/ ent.obj \notin Dirs)
  <2>1. bpc' = "list" /\ dir' = ent.phys /\ UNCHANGED <<thread, running>> /\ ent.obj \in Dirs
    BY <1>2 DEF WithStat
  <2>2. /\ thread \in [Threads -> ThreadType] /\ TypeOK
        /\ running \in Threads /\ thread[running].pc = "queued"
    BY TypeParts DEF IInv, OpInv
  <2>3. thread[running].kind = "readdir"
    BY <1>2, <2>2 DEF ThreadType
  <2>4. ~Walking' /\ ~HasItems' /\ bpc' \notin Labels
    BY <2>1 DEF HasItems, Showing, Walking, Labels
  <2>5. OpInv'
    BY <2>1, <2>2, <2>3, <2>4 DEF OpInv
  <2>6. UNCHANGED encoding
    BY SteadyFacts
  <2>7. ItemsInv' /\ FoundInv'
    BY <2>1, <2>4, <2>6 DEF ItemsInv, FoundInv, AnswerOf
  <2>8. ent.phys \in Paths
    BY <2>1, FuseCacheAssumption DEF Entry
  <2>9. OpType'
    BY <2>1, <2>2, <2>8 DEF OpType, Pcs
  <2>10. TypeOK' /\ AnswerInv'
    BY <2>1, <2>2, <2>9, TypeKept, AnswersKept
  <2> QED BY <2>5, <2>7, <2>10 DEF IInv
<1> QED BY <1>1, <1>2

\* service_requests() takes up an operation.
LEMMA TakeStep ==
  ASSUME IInv, NEW t \in Threads, Take(t)
  PROVE  IInv'
<1>1. /\ bpc = "idle" /\ thread[t].pc = "queued" /\ running' = t /\ bpc' = "mount_get"
      /\ UNCHANGED <<lru, gui, thread, dir, straddled, misled>>
      /\ UNCHANGED <<walking, after, found, items, n, level, chained>>
  BY DEF Take, walk, listing
<1>2. thread \in [Threads -> ThreadType] /\ TypeOK /\ LruOK(lru) /\ OpType /\ Steady
  BY <1>1, TypeParts, SteadyStill DEF IInv
<1>3. ~Walking' /\ ~HasItems' /\ bpc' \notin Labels
  BY <1>1 DEF HasItems, Showing, Walking, Labels
<1>4. OpInv' /\ ItemsInv' /\ FoundInv'
  BY <1>1, <1>3 DEF OpInv, ItemsInv, FoundInv
<1>5. \A key : ~Unsettled(key)
  BY <1>1, SettledFacts DEF Showing
<1>6. CacheInv'
  BY <1>1, <1>2, <1>5, EntriesOK DEF IInv
<1>7. OpType'
  BY <1>1, <1>2 DEF OpType, RestType, Pcs
<1>8. TypeOK' /\ AnswerInv'
  BY <1>1, <1>2, <1>7, TypeKept, AnswersKept
<1> QED BY <1>4, <1>6, <1>8 DEF IInv

\* mount_stat() looks the mount path up.
LEMMA MountGetStep ==
  ASSUME IInv, MountGet
  PROVE  IInv'
<1>1. /\ thread \in [Threads -> ThreadType] /\ TypeOK /\ LruOK(lru) /\ OpType
      /\ bpc = "mount_get" /\ running \in Threads /\ thread[running].pc = "queued"
      /\ encoding \in Encodings
  BY TypeParts DEF IInv, OpInv, MountGet
<1>2. PICK path \in Paths : path = thread[running].path
  BY <1>1 DEF ThreadType
<1>3. \A key : ~Unsettled(key)
  BY <1>1, SettledFacts DEF Showing
<1>4. UNCHANGED <<gui, items, n, level, chained, straddled, misled>> /\ Steady
  BY <1>1, SteadyStill DEF MountGet
<1>5. CASE Holds(lru, <<"mount", path>>)
  <2>1. PICK key : key = <<"mount", path>>
    OBVIOUS
  <2>2. PICK ent : ent = Cached(lru, key)
    OBVIOUS
  <2>3. /\ lru' = Touch(lru, key) /\ found' = ent /\ WithStat(ent)
        /\ UNCHANGED <<walking, after>>
    BY <1>2, <1>5, <2>1, <2>2 DEF MountGet, walk
  <2>4. LruOK(lru') /\ (\A y \in Elems(lru') : y \in Elems(lru)) /\ ent \in Entry
    BY <1>1, <1>5, <2>1, <2>2, <2>3, TouchFacts
  <2>5. RestType'
    BY <1>1, <1>4, <2>3, <2>4 DEF OpType, RestType
  <2>6. CacheInv'
    BY <1>3, <1>4, <2>4, EntriesOK DEF IInv
  <2>7. AnswerOf(ent)
    <3>1. Good' => Good
      BY <1>4, SteadyFacts
    <3>2. Good => ent.obj \in Candidates(encoding, path)
            /\ ent \in Reported(Resolve(encoding, path))
      BY <1>3, <1>5, <2>1, <2>2, HitAnswers
    <3>3. Good /\ ent.obj \in Dirs => ent.phys = Ends[encoding][Begin[path]]
      BY <1>1, <3>2, ResolveFacts
    <3> QED BY <1>2, <3>1, <3>2, <3>3 DEF AnswerOf
  <2> QED BY <1>1, <1>4, <2>3, <2>4, <2>5, <2>6, <2>7, WithStatOK
<1>6. CASE ~Holds(lru, <<"mount", path>>)
  <2>1. /\ walking' = Begin[path] /\ after' = "mount_put" /\ bpc' = "raw_get"
        /\ UNCHANGED <<lru, found, dir, thread, running>>
    BY <1>2, <1>6 DEF MountGet, StartWalk
  <2>2. Walking' /\ ~HasItems' /\ bpc' \notin Labels /\ Goal' = path
    BY <1>2, <2>1 DEF HasItems, Showing, Walking, Labels, Goal
  <2>3. OpInv'
    BY <1>1, <1>2, <2>1, <2>2 DEF OpInv
  <2>4. UNCHANGED encoding
    BY <1>4, SteadyFacts
  <2>5. ItemsInv' /\ FoundInv'
    BY <2>1, <2>2, <2>4 DEF ItemsInv, FoundInv
  <2>6. CacheInv'
    BY <1>3, <1>4, <2>1, EntriesOK, SMTT(30) DEF IInv
  <2>7. OpType'
    BY <1>1, <1>4, <2>1, WalkAssumption DEF OpType, RestType, Pcs, Labels
  <2>8. TypeOK' /\ AnswerInv'
    BY <1>1, <1>4, <2>1, <2>7, TypeKept, AnswersKept
  <2> QED BY <2>3, <2>5, <2>6, <2>8 DEF IInv
<1> QED BY <1>5, <1>6

-----------------------------------------------------------------------------
(* walk().                                                                 *)

\* One lookup of it.
Passes(enc, w, phys, obj) ==
  /\ obj = "ENOENT" => Ends[enc][w] = Nowhere
  /\ obj # "ENOENT" =>
       /\ Onward[w][obj] \in Walks \cup {Done, Fails}
       /\ Onward[w][obj] = Fails => Ends[enc][w] = Nowhere
       /\ Onward[w][obj] = Done => Ends[enc][w] = phys
       /\ Onward[w][obj] \in Walks => Ends[enc][w] = Ends[enc][Onward[w][obj]]

LEMMA WalkFacts ==
  ASSUME NEW enc \in Encodings, NEW w \in Walks, NEW phys, phys = Asks[w],
         NEW obj, obj = Lookup(enc, phys)
  PROVE  phys \in Paths /\ Passes(enc, w, phys, obj)
<1>1. Asks \in [Walks -> Paths] /\ Done # Fails /\ Done \notin Walks /\ Fails \notin Walks
      /\ Onward \in [Walks -> [Objects -> Walks \cup {Done, Fails}]]
  BY WalkAssumption
<1>2. phys \in Paths
  BY <1>1
<1>3. PICK next : next = IF obj = "ENOENT" THEN Fails ELSE Onward[w][obj]
  BY SMTT(30)
<1>4. Ends[enc][w] = IF next = Fails THEN Nowhere
                     ELSE IF next = Done THEN phys ELSE Ends[enc][next]
  BY <1>3, WalkAssumption
<1>5. obj # "ENOENT" => Onward[w][obj] \in Walks \cup {Done, Fails}
  <2>1. obj # "ENOENT" => obj \in Objects
    BY <1>2, LookupType
  <2> QED BY <1>1, <2>1
<1> QED BY <1>1, <1>2, <1>3, <1>4, <1>5, SMTT(30) DEF Passes

\* The mount paths that are walked.
LEMMA PathTypes ==
  ASSUME IInv, bpc # "idle"
  PROVE  /\ running \in Threads /\ thread[running] \in ThreadType /\ thread[running].path \in Paths
         /\ HasItems => /\ thread[running].path \in Browsed
                        /\ \A i \in 1..Len(items) :
                             items[i] \in Item /\ items[i].name \in Names /\ Child(i) \in Paths
         /\ level \in 0..Len(thread[running].path) => AncestorPath \in Paths
<1>1. /\ thread \in [Threads -> ThreadType] /\ running \in Threads /\ items \in Seq(Item)
      /\ OpInv /\ AnswerInv
  BY TypeParts DEF IInv, OpInv, OpType, RestType
<1>2. thread[running] \in ThreadType /\ thread[running].path \in Paths
  BY <1>1 DEF ThreadType
<1>3. level \in 0..Len(thread[running].path) => AncestorPath \in Paths
  BY <1>2, FuseCacheAssumption DEF AncestorPath
<1>4. ASSUME HasItems PROVE thread[running].path \in Browsed
  <2>1. thread[running].kind = "readdir"
    BY <1>1, <1>4 DEF OpInv
  <2> QED BY <1>1, <2>1 DEF AnswerInv
<1>5. ASSUME HasItems, NEW i \in 1..Len(items)
      PROVE  items[i] \in Item /\ items[i].name \in Names /\ Child(i) \in Paths
  <2>1. items[i] \in Item
    BY <1>1
  <2>2. items[i].name \in Names
    BY <2>1 DEF Item
  <2>3. \A p \in Browsed, x \in Names : Append(p, x) \in Paths
    BY FuseCacheAssumption
  <2> QED BY <1>4, <1>5, <2>1, <2>2, <2>3 DEF Child
<1> QED BY <1>1, <1>2, <1>3, <1>4, <1>5

LEMMA GoalType ==
  ASSUME IInv, Walking \/ bpc \in Labels
  PROVE  Goal \in Paths /\ bpc # "idle"
<1>1. bpc # "idle" /\ bpc # "sizes" /\ after \in Labels /\ n \in Nat
  BY TypeParts DEF IInv, Walking, Labels, OpType, RestType
<1>2. CASE after = "mount_put"
  BY <1>1, <1>2, PathTypes DEF Goal
<1>3. CASE after = "seed_link"
  <2>1. HasItems
    BY <1>1, <1>3 DEF HasItems, Showing, Walking, IInv, OpInv, Labels
  <2>2. n \in 1..Len(items)
    BY <1>1, <1>3, <2>1 DEF IInv, ItemsInv
  <2>3. Child(n) \in Paths
    BY <1>1, <2>1, <2>2, PathTypes
  <2> QED BY <1>1, <1>3, <2>3 DEF Goal
<1>4. CASE after = "ancestor_put"
  <2>1. level \in 0..Len(thread[running].path)
    BY <1>1, <1>4 DEF IInv, OpInv
  <2>2. AncestorPath \in Paths
    BY <1>1, <2>1, PathTypes
  <2> QED BY <1>1, <1>4, <2>2 DEF Goal
<1> QED BY <1>1, <1>2, <1>3, <1>4 DEF Labels

\* A step of walk() disturbs nothing but what it finds.
LEMMA WalkFrame ==
  ASSUME IInv, Walking, bpc' \in {after, "raw_get", "raw_put"},
         UNCHANGED <<gui, running, after, listing, straddled, misled>>,
         thread'[running].pc = thread[running].pc,
         thread'[running].kind = thread[running].kind,
         thread'[running].path = thread[running].path
  PROVE  /\ OpInv' /\ ItemsInv' /\ Steady /\ Goal' = Goal /\ (Good' <=> Good)
         /\ \A key : Unsettled(key) => Unsettled(key)'
         /\ Good => /\ HasItems' \/ bpc' = "list" =>
                         dir' = Ends[encoding'][Begin[thread'[running'].path]]
                    /\ HasItems' => \A i \in 1..Len(items') : SizeOK(i)'
         /\ Walking' \/ bpc' \in Labels
<1>1. UNCHANGED <<encoding, gpc, straddled, misled, dir, items, n, level>> /\ Steady
  BY SteadyStill, SteadyFacts DEF IInv, listing
<1>2. after \in Labels /\ bpc # "idle"
  BY TypeParts DEF IInv, OpType, RestType, Walking
<1>3. (Showing' <=> Showing) /\ (HasItems' <=> HasItems) /\ bpc # "seed_raw" /\ bpc' # "sizes"
      /\ bpc' # "idle" /\ bpc' # "list" /\ bpc # "sizes" /\ bpc # "list"
      /\ (bpc' \in Labels => bpc' = after) /\ (Walking' \/ bpc' \in Labels)
  BY <1>2 DEF Showing, HasItems, Walking, Labels
<1>4. \A key : Unsettled(key) => Unsettled(key)'
  BY <1>1, <1>3, ShowingKept
<1>5. OpInv'
  BY <1>1, <1>2, <1>3 DEF IInv, OpInv
<1>6. ItemsInv'
  <2>1. \A i, listed : ItemOf(i, listed)' <=> ItemOf(i, listed)
    BY <1>1 DEF ItemOf
  <2> QED BY <1>1, <1>3, <2>1 DEF IInv, ItemsInv, ItemsOf
<1>7. Goal' = Goal /\ (Good' <=> Good)
  BY <1>1 DEF Goal, Child, AncestorPath, Good
<1>8. \A i : SizeOK(i)' <=> SizeOK(i)
  BY <1>1 DEF SizeOK, ItemPath
<1>9. Good => /\ HasItems' \/ bpc' = "list" =>
                   dir' = Ends[encoding'][Begin[thread'[running'].path]]
              /\ HasItems' => \A i \in 1..Len(items') : SizeOK(i)'
  BY <1>1, <1>3, <1>8 DEF IInv, FoundInv
<1> QED BY <1>1, <1>3, <1>4, <1>5, <1>6, <1>7, <1>9

\* What walk() gets for a physical path when the cache is in use.
StatOf(ent, phys) ==
  Good => \/ ent \in Reported(Truth(encoding, <<"raw", phys>>))
          \/ ent.obj = "EIO" /\ thread'[running].io

\* What walk() makes of it: it goes on to where the path leads, or returns what
\* is there.
LEMMA WalkedFound ==
  ASSUME IInv, Walking, NEW ent \in Entry, Walked(ent), StatOf(ent, Asks[walking])
  PROVE  /\ walking' \in Walks /\ found' \in Entry /\ bpc' \in {after, "raw_get"}
         /\ Good => /\ bpc' = "raw_get" =>
                         Ends[encoding][walking'] = Ends[encoding][Begin[Goal]]
                    /\ bpc' # "raw_get" =>
                         \/ found' \in Reported(Resolve(encoding, Goal))
                         \/ found'.obj = "EIO" /\ thread'[running].io
<1>1. encoding \in Encodings /\ walking \in Walks /\ after \in Labels /\ found \in Entry
  BY TypeParts DEF IInv, OpType, RestType
<1>2. PICK phys : phys = Asks[walking]
  OBVIOUS
<1>3. PICK obj : obj = Lookup(encoding, phys)
  OBVIOUS
<1>4. PICK next : next = IF ent.obj \in Errors THEN Fails ELSE Onward[walking][ent.obj]
  OBVIOUS
<1>5. PICK fail \in Errors : fail = IF ent.obj = "EIO" THEN "EIO" ELSE "ENOENT"
  BY DEF Errors
<1>6. /\ next \in Walks => bpc' = "raw_get" /\ walking' = next /\ found' = found
      /\ next \notin Walks => /\ bpc' = after /\ walking' = walking
                              /\ found' = IF next = Done THEN ent ELSE Failed(fail)
  BY <1>4, <1>5 DEF Walked
<1>7. Failed(fail) \in Entry /\ Failed(fail).obj = fail
  BY FailedFacts
<1>8. walking' \in Walks /\ found' \in Entry /\ bpc' \in {after, "raw_get"}
  BY <1>1, <1>6, <1>7
<1>9. ASSUME Good
      PROVE  /\ bpc' = "raw_get" => Ends[encoding][walking'] = Ends[encoding][Begin[Goal]]
             /\ bpc' # "raw_get" =>
                  \/ found' \in Reported(Resolve(encoding, Goal))
                  \/ found'.obj = "EIO" /\ thread'[running].io
  <2>1. Ends[encoding][walking] = Ends[encoding][Begin[Goal]] /\ Goal \in Paths
    BY <1>9, GoalType DEF IInv, FoundInv
  <2>2. /\ phys \in Paths /\ Done # Fails /\ Done \notin Walks /\ Fails \notin Walks
        /\ phys # Nowhere /\ after # "raw_get"
    <3>1. Asks \in [Walks -> Paths] /\ Nowhere \notin Paths /\ Done # Fails
          /\ Done \notin Walks /\ Fails \notin Walks
      BY WalkAssumption
    <3>2. phys \in Paths
      BY <1>1, <1>2, <3>1
    <3> QED BY <1>1, <3>1, <3>2, SMTT(30) DEF Labels
  <2>3. CASE ent.obj = "EIO" /\ thread'[running].io
    BY <1>4, <1>5, <1>6, <1>7, <2>2, <2>3 DEF Errors
  <2>5. PICK end : end = Ends[encoding][walking]
    OBVIOUS
  <2>6. /\ obj = "ENOENT" => end = Nowhere
        /\ obj # "ENOENT" =>
              /\ Onward[walking][obj] \in Walks \cup {Done, Fails}
              /\ Onward[walking][obj] = Fails => end = Nowhere
              /\ Onward[walking][obj] = Done => end = phys
              /\ Onward[walking][obj] \in Walks => end = Ends[encoding][Onward[walking][obj]]
    <3>1. Passes(encoding, walking, phys, obj)
      BY <1>1, <1>2, <1>3, WalkFacts
    <3> QED BY <2>5, <3>1 DEF Passes
  <2>4. CASE ent \in Reported(Truth(encoding, <<"raw", phys>>))
    <3>1. ent.obj = obj /\ obj # "EIO"
      BY <1>1, <1>3, <2>2, <2>4, TruthFacts, LookupType
    <3>2. CASE obj = "ENOENT"
      <4>1. Ends[encoding][Begin[Goal]] = Nowhere
        BY <2>1, <2>5, <2>6, <3>2
      <4>2. Failed("ENOENT") \in Reported(Resolve(encoding, Goal))
        BY <1>1, <2>1, <4>1, ResolveFacts
      <4>3. next = Fails /\ fail = "ENOENT"
        BY <1>4, <1>5, <3>1, <3>2 DEF Errors
      <4> QED BY <1>6, <2>2, <4>2, <4>3
    <3>3. CASE obj # "ENOENT"
      <4>1. obj \notin Errors /\ next = Onward[walking][obj] /\ fail = "ENOENT"
        BY <1>4, <1>5, <3>1, <3>3 DEF Errors
      <4>2. CASE next \in Walks
        <5>1. Ends[encoding][walking] = Ends[encoding][next]
          BY <2>5, <2>6, <3>3, <4>1, <4>2
        <5> QED BY <1>6, <2>1, <4>2, <5>1
      <4>3. CASE next = Fails
        <5>1. Ends[encoding][Begin[Goal]] = Nowhere
          BY <2>1, <2>5, <2>6, <3>3, <4>1, <4>3
        <5>2. Failed("ENOENT") \in Reported(Resolve(encoding, Goal))
          BY <1>1, <2>1, <5>1, ResolveFacts
        <5> QED BY <1>6, <2>2, <4>1, <4>3, <5>2
      <4>4. CASE next = Done
        <5>1. Ends[encoding][Begin[Goal]] = phys
          BY <2>1, <2>5, <2>6, <3>3, <4>1, <4>4
        <5>2. Resolve(encoding, Goal) = Whole(obj, phys)
          BY <1>1, <1>3, <2>1, <2>2, <5>1, ResolveFacts
        <5>3. ent \in Reported(Whole(obj, phys))
          BY <1>1, <1>3, <2>2, <2>4, <3>3, TruthFacts
        <5> QED BY <1>6, <2>2, <4>4, <5>2, <5>3
      <4>5. next \in Walks \cup {Done, Fails}
        BY <2>6, <3>3, <4>1
      <4> QED BY <4>2, <4>3, <4>4, <4>5
    <3> QED BY <3>2, <3>3
  <2> QED BY <1>2, <1>9, <2>3, <2>4 DEF StatOf
<1> QED BY <1>8, <1>9

\* walk() goes on with the entry it got, or is done.
LEMMA WalkedOK ==
  ASSUME IInv, Walking, NEW ent \in Entry, Walked(ent),
         UNCHANGED <<gui, running, after, listing, straddled, misled>>,
         LruOK(lru'), thread' \in [Threads -> ThreadType],
         thread'[running].pc = thread[running].pc,
         thread'[running].kind = thread[running].kind,
         thread'[running].path = thread[running].path,
         AnswerInv', CacheInv', StatOf(ent, Asks[walking])
  PROVE  IInv'
<1>1. /\ TypeOK /\ OpType /\ UNCHANGED <<dir, items, n, level, chained>>
  BY TypeParts DEF IInv, listing
<1>2. /\ walking' \in Walks /\ found' \in Entry /\ bpc' \in {after, "raw_get"}
      /\ Good => /\ bpc' = "raw_get" =>
                      Ends[encoding][walking'] = Ends[encoding][Begin[Goal]]
                 /\ bpc' # "raw_get" =>
                      \/ found' \in Reported(Resolve(encoding, Goal))
                      \/ found'.obj = "EIO" /\ thread'[running].io
  BY WalkedFound
<1>3. /\ OpInv' /\ ItemsInv' /\ Steady /\ Goal' = Goal /\ (Good' <=> Good)
      /\ Good => /\ HasItems' \/ bpc' = "list" =>
                      dir' = Ends[encoding'][Begin[thread'[running'].path]]
                 /\ HasItems' => \A i \in 1..Len(items') : SizeOK(i)'
  BY <1>2, WalkFrame
<1>4. UNCHANGED encoding /\ (Walking' => bpc' = "raw_get") /\ (bpc' \in Labels => bpc' # "raw_get")
  BY <1>1, <1>2, <1>3, SteadyFacts DEF Walking, Labels, OpType, RestType
<1>5. FoundInv'
  BY <1>2, <1>3, <1>4 DEF FoundInv
<1>6. OpType'
  BY <1>1, <1>2 DEF OpType, RestType, Pcs, Labels
<1>7. TypeOK'
  BY <1>1, <1>3, <1>6, TypeKept
<1> QED BY <1>3, <1>5, <1>7 DEF IInv

\* raw_stat() looks the physical path up.
LEMMA RawGetStep ==
  ASSUME IInv, RawGet
  PROVE  IInv'
<1>1. /\ thread \in [Threads -> ThreadType] /\ TypeOK /\ LruOK(lru) /\ OpType
      /\ encoding \in Encodings /\ bpc = "raw_get" /\ Walking /\ walking \in Walks
  BY TypeParts DEF IInv, RawGet, Walking, OpType, RestType
<1>2. PICK phys : phys = Asks[walking]
  OBVIOUS
<1>3. UNCHANGED <<gui, thread, running, after, listing, straddled, misled>>
  BY DEF RawGet
<1>4. PICK key : key = <<"raw", phys>>
  OBVIOUS
<1>5. ~Unsettled(key)
  BY <1>1, <1>4 DEF Unsettled, Seeds
<1>6. Steady /\ AnswerInv'
  BY <1>1, <1>3, SteadyStill, AnswersKept
<1>7. CASE Holds(lru, key)
  <2>1. PICK ent : ent = Cached(lru, key)
    OBVIOUS
  <2>2. lru' = Touch(lru, key) /\ Walked(ent)
    BY <1>2, <1>4, <1>7, <2>1 DEF RawGet
  <2>3. LruOK(lru') /\ (\A y \in Elems(lru') : y \in Elems(lru)) /\ ent \in Entry
    BY <1>1, <1>7, <2>1, <2>2, TouchFacts
  <2>4. PICK y \in Elems(lru) : y.key = key /\ y.ent = ent
    BY <1>1, <1>7, <2>1, TouchFacts
  <2>5. Good => ent \in Reported(Truth(encoding, key))
    BY <1>5, <2>4 DEF IInv, CacheInv, NodeOK
  <2>6. StatOf(ent, Asks[walking])
    BY <1>2, <1>4, <2>5 DEF StatOf
  <2>7. bpc' \in {after, "raw_get"}
    BY <1>1, <2>2 DEF Walked
  <2>8. \A k : Unsettled(k) => Unsettled(k)'
    BY <1>1, <1>3, <2>7, WalkFrame
  <2>9. CacheInv'
    BY <1>6, <2>3, <2>8, EntriesOK DEF IInv
  <2>10. thread' \in [Threads -> ThreadType] /\ thread'[running].pc = thread[running].pc
         /\ thread'[running].kind = thread[running].kind
         /\ thread'[running].path = thread[running].path
    BY <1>1, <1>3
  <2> QED BY <1>1, <1>3, <1>6, <2>2, <2>3, <2>6, <2>9, <2>10, WalkedOK
<1>8. CASE ~Holds(lru, key)
  <2>1. bpc' = "raw_put" /\ UNCHANGED <<lru, found, walking>>
    BY <1>2, <1>4, <1>8 DEF RawGet
  <2>2. /\ OpInv' /\ ItemsInv' /\ Goal' = Goal /\ (Good' <=> Good)
        /\ \A k : Unsettled(k) => Unsettled(k)'
        /\ Good => /\ HasItems' \/ bpc' = "list" =>
                        dir' = Ends[encoding'][Begin[thread'[running'].path]]
                   /\ HasItems' => \A i \in 1..Len(items') : SizeOK(i)'
    BY <1>1, <1>3, <2>1, WalkFrame
  <2>3. UNCHANGED encoding /\ bpc' \notin Labels
    BY <1>6, <2>1, SteadyFacts DEF Labels
  <2>4. FoundInv'
    BY <1>1, <2>1, <2>2, <2>3 DEF IInv, FoundInv
  <2>5. CacheInv'
    BY <1>6, <2>1, <2>2, EntriesOK DEF IInv
  <2>6. OpType'
    <3>1. UNCHANGED <<dir, items, n, level, chained>>
      BY <1>3 DEF listing
    <3> QED BY <1>1, <1>3, <2>1, <3>1 DEF OpType, RestType, Pcs
  <2>7. TypeOK'
    BY <1>1, <1>3, <1>6, <2>1, <2>6, TypeKept
  <2> QED BY <1>6, <2>2, <2>4, <2>5, <2>7 DEF IInv
<1> QED BY <1>7, <1>8

\* What a cache_put() has to look after: its entry is right or, when it is
\* refused, the one that stays.
PutGood(key, ent) ==
  IF ent.obj = "EIO"
  THEN \A x \in Elems(lru) : x.key = key /\ ~(Unsettled(key) => Unsettled(key)') =>
         (gpc = "idle" => RawOK(x)') /\ (Good' => NodeOK(x)')
  ELSE \E y : /\ y.key = key /\ y.ent = ent
              /\ gpc = "idle" => RawOK(y)'
              /\ Good' => NodeOK(y)'

\* No other key stops being unsettled.
LEMMA PutOK ==
  ASSUME IInv, NEW key \in Key, NEW ent \in Entry, lru' = CachePut(lru, key, ent), Steady,
         \A k \in Key : k # key /\ Unsettled(k) => Unsettled(k)', PutGood(key, ent)
  PROVE  CacheInv' /\ LruOK(lru')
<1>1. LruOK(lru) /\ \A x \in Elems(lru) : x.key \in Key
  <2>1. LruOK(lru)
    BY TypeParts DEF IInv
  <2>2. \A i \in 1..Len(lru) : lru[i] \in Node
    BY <2>1 DEF LruOK
  <2>3. \A x \in Node : x.key \in Key
    BY DEF Node
  <2> QED BY <2>1, <2>2, <2>3 DEF Elems
<1>2. LruOK(lru')
  BY <1>1, PutFacts
<1>3. CASE ent.obj # "EIO"
  <2>1. \A x \in Elems(lru') :
          \/ x.key = key /\ x.ent = ent
          \/ x \in Elems(lru) /\ x.key # key
    BY <1>1, <1>3, PutFacts
  <2>2. PICK y : /\ y.key = key /\ y.ent = ent
                 /\ gpc = "idle" => RawOK(y)'
                 /\ Good' => NodeOK(y)'
    BY <1>3 DEF PutGood
  <2>3. ASSUME NEW x, x.key = key, x.ent = ent
        PROVE  (gpc = "idle" => RawOK(x)') /\ (Good' => NodeOK(x)')
    BY <2>2, <2>3 DEF RawOK, NodeOK
  <2>4. ASSUME NEW x \in Elems(lru')
        PROVE  \/ x \in Elems(lru) /\ (Unsettled(x.key) => Unsettled(x.key)')
               \/ (gpc = "idle" => RawOK(x)') /\ (Good' => NodeOK(x)')
    <3>1. CASE x.key = key /\ x.ent = ent
      BY <2>3, <3>1
    <3>2. CASE x \in Elems(lru) /\ x.key # key
      BY <1>1, <3>2
    <3> QED BY <2>1, <3>1, <3>2
  <2> QED BY <1>2, <2>4, EntriesOK DEF IInv
<1>4. CASE ent.obj = "EIO"
  <2>1. lru' = lru
    BY <1>1, <1>4, PutFacts
  <2>2. ASSUME NEW x \in Elems(lru)
        PROVE  \/ x \in Elems(lru) /\ (Unsettled(x.key) => Unsettled(x.key)')
               \/ (gpc = "idle" => RawOK(x)') /\ (Good' => NodeOK(x)')
    <3>1. CASE x.key = key /\ ~(Unsettled(key) => Unsettled(key)')
      BY <1>4, <3>1 DEF PutGood
    <3>2. CASE x.key = key /\ (Unsettled(key) => Unsettled(key)')
      BY <3>2
    <3>3. CASE x.key # key
      BY <1>1, <3>3
    <3> QED BY <3>1, <3>2, <3>3
  <2> QED BY <1>2, <2>1, <2>2, EntriesOK DEF IInv
<1> QED BY <1>2, <1>3, <1>4

\* raw_stat() asks grub.
LEMMA RawPutStep ==
  ASSUME IInv, RawPut
  PROVE  IInv'
<1>1. /\ thread \in [Threads -> ThreadType] /\ TypeOK /\ LruOK(lru) /\ OpType
      /\ encoding \in Encodings /\ bpc = "raw_put" /\ Walking /\ walking \in Walks
      /\ bpc # "idle"
  BY TypeParts DEF IInv, RawPut, Walking, OpType, RestType
<1>2. PICK phys \in Paths : phys = Asks[walking]
  BY <1>1, WalkFacts
<1>3. running \in Threads /\ thread[running].pc = "queued"
  BY <1>1 DEF IInv, OpInv
<1>4. UNCHANGED <<gui, running, after, listing, straddled, misled>>
  BY DEF RawPut
<1>5. Steady /\ UNCHANGED <<encoding, gpc, straddled>>
  BY <1>1, <1>4, SteadyStill, SteadyFacts
<1>6. PICK key \in Key : key = <<"raw", phys>>
  BY DEF Key
<1>7. PICK ent : /\ ent \in Reported(Truth(encoding, key)) \cup {Failed("EIO")}
                 /\ lru' = CachePut(lru, key, ent) /\ Walked(ent)
                 /\ thread' = [thread EXCEPT ![running].io = @ \/ ent.obj = "EIO"]
  BY <1>2, <1>6 DEF RawPut
<1>8. /\ ent \in Entry
      /\ \/ ent \in Reported(Truth(encoding, key)) /\ ent.obj = Lookup(encoding, phys)
         \/ ent.obj = "EIO"
  <2>1. CASE ent = Failed("EIO")
    BY <2>1, FailedFacts DEF Errors
  <2>2. CASE ent \in Reported(Truth(encoding, key))
    <3>1. ent \in Entry /\ ent.obj = Lookup(encoding, phys)
      BY <1>1, <1>6, <2>2, TruthFacts
    <3> QED BY <2>2, <3>1
  <2> QED BY <1>7, <2>1, <2>2
<1>9. PICK t \in Threads : t = running
  BY <1>3
<1>10. PICK old \in ThreadType : old = thread[t]
  BY <1>1
<1>11. PICK b \in BOOLEAN : b = (old.io \/ ent.obj = "EIO")
  BY <1>10 DEF ThreadType
<1>12. PICK new : new = [pc |-> old.pc, kind |-> old.kind, path |-> old.path, ent |-> old.ent,
                         clean |-> old.clean, io |-> b, ops |-> old.ops]
  OBVIOUS
<1>13. new \in ThreadType /\ (ent.obj = "EIO" => new.io)
  BY <1>10, <1>11, <1>12 DEF ThreadType
<1>14. new = [old EXCEPT !.io = b]
  <2>1. PICK a, c, d, e, f, g, h :
          old = [pc |-> a, kind |-> c, path |-> d, ent |-> e, clean |-> f, io |-> g, ops |-> h]
    BY <1>10 DEF ThreadType
  <2> QED BY <1>12, <2>1
<1>15. thread' = [thread EXCEPT ![t] = new]
  BY <1>1, <1>7, <1>9, <1>10, <1>11, <1>14
<1>16. thread' \in [Threads -> ThreadType] /\ thread'[t] = new
       /\ \A u \in Threads : u # t => thread'[u] = thread[u]
  BY <1>1, <1>13, <1>15
<1>17. new.pc = old.pc /\ new.kind = old.kind /\ new.path = old.path /\ new.clean = old.clean
  BY <1>12
<1>18. AnswerInv'
  <2>1. ASSUME gpc' = "invalidate", NEW u \in Threads PROVE ~thread'[u].clean
    <3>1. ~thread[u].clean
      BY <1>5, <2>1 DEF IInv, AnswerInv
    <3> QED BY <1>10, <1>16, <1>17, <3>1
  <2>2. ASSUME ~straddled', ~misled', NEW u \in Threads PROVE AnsweredRight(u)'
    <3>1. CASE u # t
      <4>1. AnsweredRight(u)
        BY <1>4, <1>5, <2>2 DEF IInv, AnswerInv
      <4> QED BY <1>5, <1>16, <3>1, <4>1 DEF AnsweredRight
    <3>2. CASE u = t
      <4>1. thread'[u].pc = "queued"
        BY <1>3, <1>9, <1>10, <1>16, <1>17, <3>2
      <4> QED BY <4>1 DEF AnsweredRight
    <3> QED BY <3>1, <3>2
  <2>3. ASSUME NEW u \in Threads, thread'[u].kind = "readdir" PROVE thread'[u].path \in Browsed
    <3>1. thread[u].kind = "readdir" /\ thread'[u].path = thread[u].path
      BY <1>10, <1>16, <1>17, <2>3
    <3> QED BY <3>1 DEF IInv, AnswerInv
  <2> QED BY <2>1, <2>2, <2>3 DEF AnswerInv
<1>19. StatOf(ent, Asks[walking])
  <2>1. CASE ent \in Reported(Truth(encoding, key))
    BY <1>2, <1>6, <2>1 DEF StatOf
  <2>2. CASE ent.obj = "EIO"
    <3>1. thread'[running].io
      BY <1>9, <1>13, <1>16, <2>2
    <3> QED BY <2>2, <3>1 DEF StatOf
  <2> QED BY <1>8, <2>1, <2>2
<1>20. /\ thread'[running].pc = thread[running].pc
       /\ thread'[running].kind = thread[running].kind
       /\ thread'[running].path = thread[running].path
  BY <1>9, <1>10, <1>16, <1>17
<1>21. CacheInv' /\ LruOK(lru')
  <2>1. bpc' \in {after, "raw_get"}
    BY <1>7 DEF Walked
  <2>2. \A k : Unsettled(k) => Unsettled(k)'
    BY <1>1, <1>4, <1>20, <2>1, WalkFrame
  <2>3. PICK y : y = [key |-> key, ent |-> ent]
    OBVIOUS
  <2>4. ASSUME ent.obj # "EIO" PROVE RawOK(y)' /\ NodeOK(y)'
    <3>1. ent \in Reported(Truth(encoding, key)) /\ ent.obj = Lookup(encoding, phys)
      BY <1>8, <2>4
    <3> QED BY <1>5, <1>6, <2>3, <3>1 DEF RawOK, NodeOK
  <2>5. PutGood(key, ent)
    BY <2>2, <2>3, <2>4 DEF PutGood
  <2> QED BY <1>5, <1>7, <1>8, <2>2, <2>5, PutOK
<1> QED BY <1>1, <1>4, <1>7, <1>8, <1>16, <1>18, <1>19, <1>20, <1>21, WalkedOK

\* What walk() returned is right for the mount path it was asked for.
LEMMA MountPutFacts ==
  ASSUME IInv, bpc \in Labels, NEW key, key = <<"mount", Goal>>
  PROVE  /\ key \in Key /\ found \in Entry /\ Goal \in Paths /\ bpc # "idle"
         /\ Good => \/ found \in Reported(Truth(encoding, key))
                    \/ found.obj = "EIO" /\ thread[running].io
<1>1. Goal \in Paths /\ bpc # "idle" /\ found \in Entry
  BY GoalType, TypeParts DEF IInv, OpType, RestType
<1>2. key \in Key
  BY <1>1 DEF Key
<1>3. Truth(encoding, key) = Resolve(encoding, Goal)
  BY DEF Truth
<1> QED BY <1>1, <1>2, <1>3 DEF IInv, FoundInv

\* mount_stat() inserts it.
LEMMA MountPutStep ==
  ASSUME IInv, MountPut
  PROVE  IInv'
<1>1. /\ thread \in [Threads -> ThreadType] /\ TypeOK /\ LruOK(lru) /\ OpType
      /\ encoding \in Encodings /\ bpc = "mount_put" /\ bpc # "idle" /\ bpc \in Labels
      /\ UNCHANGED <<gui, walking, after, found, items, n, level, chained, straddled, misled>>
  BY TypeParts DEF IInv, MountPut, Labels, walk
<1>2. Steady /\ UNCHANGED <<encoding, gpc, straddled>> /\ (Good' => Good)
  BY <1>1, SteadyStill, SteadyFacts
<1>3. PICK path \in Paths : path = thread[running].path
  BY <1>1, PathTypes
<1>4. after = "mount_put" /\ Goal = path
  BY <1>1, <1>3 DEF IInv, OpInv, Goal
<1>5. PICK key : key = <<"mount", path>>
  OBVIOUS
<1>6. /\ key \in Key /\ found \in Entry
      /\ Good => \/ found \in Reported(Truth(encoding, key))
                 \/ found.obj = "EIO" /\ thread[running].io
  BY <1>1, <1>4, <1>5, MountPutFacts
<1>7. lru' = CachePut(lru, key, found) /\ WithStat(found)
  BY <1>3, <1>5 DEF MountPut
<1>8. \A k : ~Unsettled(k)
  BY <1>1, SettledFacts DEF Showing
<1>9. PutGood(key, found)
  <2>1. PICK y : y = [key |-> key, ent |-> found]
    OBVIOUS
  <2>2. ASSUME found.obj # "EIO" PROVE RawOK(y)' /\ (Good' => NodeOK(y)')
    BY <1>2, <1>5, <1>6, <2>1, <2>2 DEF RawOK, NodeOK
  <2> QED BY <1>8, <2>1, <2>2 DEF PutGood
<1>10. CacheInv' /\ LruOK(lru')
  BY <1>2, <1>6, <1>7, <1>8, <1>9, PutOK
<1>11. AnswerOf(found)
  <2>1. Truth(encoding, key) = Resolve(encoding, path)
    BY <1>5 DEF Truth
  <2>2. ASSUME found \in Reported(Resolve(encoding, path))
        PROVE  /\ found.obj \in Candidates(encoding, path)
               /\ found.obj \in Dirs => found.phys = Ends[encoding][Begin[path]]
    BY <1>1, <2>2, ResolveFacts
  <2>3. "EIO" \notin Dirs
    BY FuseCacheAssumption DEF Errors
  <2> QED BY <1>2, <1>3, <1>6, <2>1, <2>2, <2>3 DEF AnswerOf
<1>12. RestType'
  BY <1>1 DEF OpType, RestType
<1> QED BY <1>1, <1>2, <1>6, <1>7, <1>10, <1>11, <1>12, WithStatOK

-----------------------------------------------------------------------------
(* fusefs_readdir().                                                       *)

\* An operation that has a listing.
LEMMA AtListing ==
  ASSUME IInv, HasItems \/ bpc = "list"
  PROVE  /\ thread \in [Threads -> ThreadType] /\ TypeOK /\ LruOK(lru) /\ OpType
         /\ encoding \in Encodings /\ running \in Threads /\ dir \in Paths /\ bpc # "idle"
         /\ thread[running].kind = "readdir" /\ thread[running].pc = "queued"
         /\ thread[running].path \in Browsed /\ thread[running].path \in Paths
         /\ items \in Seq(Item) /\ Len(items) \in Nat
         /\ HasItems => ItemsOf(Listing[encoding][dir])
         /\ Good => dir = Ends[encoding][Begin[thread[running].path]]
<1>1. bpc # "idle"
  BY DEF HasItems, Showing
<1>2. /\ thread \in [Threads -> ThreadType] /\ TypeOK /\ LruOK(lru) /\ OpType
      /\ encoding \in Encodings
  BY TypeParts DEF IInv
<1>3. running \in Threads /\ thread[running].kind = "readdir" /\ thread[running].pc = "queued"
  BY <1>1 DEF IInv, OpInv
<1>4. thread[running].path \in Browsed /\ thread[running].path \in Paths
  BY <1>3, FuseCacheAssumption DEF IInv, AnswerInv
<1>5. dir \in Paths /\ items \in Seq(Item) /\ Len(items) \in Nat
  BY <1>2 DEF OpType, RestType
<1>6. HasItems => ItemsOf(Listing[encoding][dir])
  BY DEF IInv, ItemsInv
<1>7. Good => dir = Ends[encoding][Begin[thread[running].path]]
  BY DEF IInv, FoundInv
<1> QED BY <1>1, <1>2, <1>3, <1>4, <1>5, <1>6, <1>7

\* The operation goes on: only what it knows of the listing has to be shown.
LEMMA ListingGoesOn ==
  ASSUME IInv, HasItems \/ bpc = "list", HasItems', ~Walking', bpc' \notin Labels,
         Steady, UNCHANGED <<thread, running, dir>>,
         ItemsOf(Listing[encoding][dir])', bpc' = "sizes" => n' \in 1..Len(items') + 1,
         bpc' # "sizes" => n' \in 0..Len(items'),
         Good' => \A i \in 1..Len(items') : SizeOK(i)',
         LruOK(lru'), CacheInv', RestType'
  PROVE  IInv'
<1>1. /\ thread \in [Threads -> ThreadType] /\ TypeOK /\ running \in Threads /\ dir \in Paths
      /\ thread[running].kind = "readdir" /\ thread[running].pc = "queued"
      /\ Good => dir = Ends[encoding][Begin[thread[running].path]]
  BY AtListing
<1>2. UNCHANGED encoding /\ (Good' => Good) /\ bpc' \in Pcs
  BY SteadyFacts DEF HasItems, Showing, Pcs
<1>3. OpInv'
  BY <1>1 DEF OpInv
<1>4. ItemsInv'
  BY DEF ItemsInv
<1>5. FoundInv'
  BY <1>1, <1>2 DEF FoundInv
<1>6. OpType'
  BY <1>1, <1>2 DEF OpType
<1>7. TypeOK' /\ AnswerInv'
  BY <1>1, <1>6, TypeKept, AnswersKept
<1> QED BY <1>3, <1>4, <1>5, <1>7 DEF IInv

\* rover_dir_list(), or its error.
LEMMA ListStep ==
  ASSUME IInv, List
  PROVE  IInv'
<1>1. /\ thread \in [Threads -> ThreadType] /\ TypeOK /\ LruOK(lru) /\ OpType
      /\ encoding \in Encodings /\ bpc = "list" /\ running \in Threads /\ dir \in Paths
      /\ thread[running].kind = "readdir" /\ bpc # "idle"
  <2>1. bpc = "list"
    BY DEF List
  <2> QED BY <2>1, AtListing
<1>2. PICK list : list = Listing[encoding][dir]
  OBVIOUS
<1>3. /\ list \in Seq(DirEntry) /\ Len(list) \in Nat
      /\ \A i \in 1..Len(list) : /\ list[i].name \in Names /\ list[i].obj \in Objects
                                 /\ Append(dir, list[i].name) \in Paths
  BY <1>1, <1>2, ListFacts
<1>4. UNCHANGED <<lru, gui, walking, after, found, dir, level, straddled, misled>>
  BY DEF List, walk
<1>5. Steady /\ UNCHANGED encoding
  BY <1>1, <1>4, SteadyStill, SteadyFacts
<1>6. \A k : ~Unsettled(k)
  BY <1>1, SettledFacts DEF Showing
<1>7. CacheInv'
  BY <1>4, <1>5, <1>6, EntriesOK DEF IInv
<1>8. CASE Answer(Failed("EIO")) /\ UNCHANGED <<items, n, chained>>
  <2>1. PICK ent \in Entry : ent = Failed("EIO")
    BY FailedFacts DEF Errors
  <2>2. RestType' /\ LruOK(lru')
    BY <1>1, <1>4, <1>8 DEF OpType, RestType
  <2>3. Answer(ent)
    BY <1>8, <2>1
  <2> QED BY <1>1, <1>4, <1>5, <1>7, <2>2, <2>3, AnswerOK
<1>9. ASSUME NEW failed, \A i \in 1..Len(list) : i \in failed => list[i].obj \in Links,
             items' = [i \in 1..Len(list) |->
               [name |-> list[i].name,
                ent |-> IF i \in failed THEN Failed("EIO")
                        ELSE [obj |-> list[i].obj, phys |-> Append(dir, list[i].name),
                              size |-> IF list[i].obj \in SizeListed
                                       THEN list[i].obj ELSE "UNKNOWN"]]],
             n' = 1, chained' = FALSE, bpc' = "sizes", UNCHANGED <<thread, running>>
      PROVE  IInv'
  <2>1. Len(items') = Len(list)
    BY <1>3, <1>9
  <2>2. ASSUME NEW i \in 1..Len(list)
        PROVE  items'[i] \in Item /\ ItemOf(i, list[i])' /\ SizeOK(i)'
    <3>1. PICK ent : ent = IF i \in failed THEN Failed("EIO")
                        ELSE [obj |-> list[i].obj, phys |-> Append(dir, list[i].name),
                              size |-> IF list[i].obj \in SizeListed
                                       THEN list[i].obj ELSE "UNKNOWN"]
      OBVIOUS
    <3>2. items'[i] = [name |-> list[i].name, ent |-> ent]
      BY <1>9, <3>1
    <3>3. CASE i \in failed
      <4>1. ent = Failed("EIO") /\ ent \in Entry
        BY <3>1, <3>3, FailedFacts DEF Errors
      <4>2. ent.size = "UNKNOWN"
        BY <4>1 DEF Failed
      <4>3. items'[i].name = list[i].name /\ items'[i].ent = ent /\ items'[i] \in Item
        BY <1>3, <3>2, <4>1 DEF Item
      <4>4. SizeOK(i)'
        BY <4>2, <4>3 DEF SizeOK
      <4> QED BY <1>9, <3>3, <4>1, <4>3, <4>4 DEF ItemOf
    <3>4. CASE i \notin failed
      <4>1. PICK size \in Objects \cup {"UNKNOWN"} :
              size = IF list[i].obj \in SizeListed THEN list[i].obj ELSE "UNKNOWN"
        BY <1>3
      <4>2. ent = [obj |-> list[i].obj, phys |-> Append(dir, list[i].name), size |-> size]
        BY <3>1, <3>4, <4>1, SMTT(30)
      <4>3. list[i].obj \notin Errors /\ Append(dir, list[i].name) # Nowhere
            /\ (list[i].obj \in SizeListed => list[i].obj \in Files)
        BY <1>3, FuseCacheAssumption, WalkAssumption
      <4>4. ent \in Entry
        BY <1>3, <4>2, <4>3 DEF Entry
      <4>5. items'[i].name = list[i].name /\ items'[i].ent = ent /\ items'[i] \in Item
        BY <1>3, <3>2, <4>4 DEF Item
      <4>6. ent.obj = list[i].obj /\ ent.phys = Append(dir, list[i].name) /\ ent.size = size
        BY <4>2
      <4>7. SizeOK(i)'
        BY <4>1, <4>5, <4>6 DEF SizeOK
      <4>8. ItemOf(i, list[i])'
        BY <1>4, <4>1, <4>3, <4>5, <4>6 DEF ItemOf
      <4> QED BY <4>5, <4>7, <4>8
    <3> QED BY <3>3, <3>4
  <2>3. items' \in Seq(Item)
    <3>1. items' = [i \in 1..Len(list) |-> items'[i]]
      BY <1>9
    <3> QED BY <1>3, <2>2, <3>1
  <2>4. HasItems' /\ ~Walking' /\ bpc' \notin Labels
    BY <1>9 DEF HasItems, Walking, Labels
  <2>5. ItemsOf(Listing[encoding][dir])'
    BY <1>2, <1>4, <1>5, <2>1, <2>2 DEF ItemsOf
  <2>6. RestType'
    BY <1>1, <1>4, <1>9, <2>3 DEF OpType, RestType
  <2>7. LruOK(lru') /\ n' \in 1..Len(items') + 1 /\ \A i \in 1..Len(items') : SizeOK(i)'
    <3>1. LruOK(lru')
      BY <1>1, <1>4
    <3>2. n' \in 1..Len(items') + 1
      BY <1>3, <1>9, <2>1
    <3>3. \A i \in 1..Len(items') : SizeOK(i)'
      BY <2>1, <2>2
    <3> QED BY <3>1, <3>2, <3>3
  <2> QED BY <1>1, <1>4, <1>5, <1>7, <1>9, <2>4, <2>5, <2>6, <2>7, ListingGoesOn
<1>10. CASE \E failed \in SUBSET {i \in 1..Len(list) : list[i].obj \in Links} :
              /\ items' = [i \in 1..Len(list) |->
                   [name |-> list[i].name,
                    ent |-> IF i \in failed THEN Failed("EIO")
                            ELSE [obj |-> list[i].obj, phys |-> Append(dir, list[i].name),
                                  size |-> IF list[i].obj \in SizeListed
                                           THEN list[i].obj ELSE "UNKNOWN"]]]
              /\ n' = 1 /\ chained' = FALSE /\ bpc' = "sizes" /\ UNCHANGED <<thread, running>>
  BY <1>9, <1>10
<1> QED BY <1>2, <1>8, <1>10, ZenonT(30) DEF List

\* No earlier entry has its name.
FirstOf(i) == \A j \in 1..i - 1 : items[j].name # items[i].name

\* An entry in hand is one of the listing, or a link that could not be read;
\* the first of its name is what rover_stat() finds.
LEMMA ItemFacts ==
  ASSUME IInv, HasItems, NEW i \in 1..Len(items)
  PROVE  /\ items[i] \in Item /\ items[i].ent \in Entry /\ items[i].name \in Names
         /\ ItemPath(i) \in Paths /\ Child(i) \in Paths
         /\ items[i].ent.obj = "EIO" => items[i].ent = Failed("EIO")
         /\ items[i].ent.obj # "EIO" =>
              /\ items[i].ent.obj \in Objects /\ items[i].ent.phys = ItemPath(i)
              /\ items[i].ent.obj \in Namesakes(encoding, ItemPath(i))
              /\ items[i].ent.obj \in SizeListed => items[i].ent.size = items[i].ent.obj
              /\ items[i].ent.obj \notin Files => items[i].ent.size = "UNKNOWN"
         /\ FirstOf(i) => \/ items[i].ent.obj = Lookup(encoding, ItemPath(i))
                          \/ items[i].ent.obj = "EIO" /\ Lookup(encoding, ItemPath(i)) \in Links
<1>1. /\ OpType /\ encoding \in Encodings /\ dir \in Paths /\ thread[running].path \in Browsed
      /\ items \in Seq(Item) /\ ItemsOf(Listing[encoding][dir])
  BY AtListing
<1>2. PICK list : list = Listing[encoding][dir]
  OBVIOUS
<1>3. PICK x : x = items[i]
  OBVIOUS
<1>4. PICK listed : listed = list[i]
  OBVIOUS
<1>5. Len(items) = Len(list) /\ \A k \in 1..Len(list) : ItemOf(k, list[k])
  BY <1>1, <1>2 DEF ItemsOf
<1>6. /\ listed.name \in Names /\ Append(dir, listed.name) \in Paths /\ listed.obj \in Objects
      /\ listed.obj \in Namesakes(encoding, Append(dir, listed.name))
  BY <1>1, <1>2, <1>4, <1>5, ListFacts
<1>7. x \in Item /\ x.name = listed.name
  BY <1>1, <1>3, <1>4, <1>5 DEF ItemOf
<1>8. x.ent \in Entry
  BY <1>7 DEF Item
<1>9. ItemPath(i) = Append(dir, listed.name) /\ Child(i) \in Paths
  <2>1. Child(i) = Append(thread[running].path, listed.name)
    BY <1>3, <1>7 DEF Child
  <2>2. \A p \in Browsed, name \in Names : Append(p, name) \in Paths
    BY FuseCacheAssumption
  <2> QED BY <1>1, <1>3, <1>6, <1>7, <2>1, <2>2 DEF ItemPath
<1>10. listed.obj # "EIO"
  BY <1>6, FuseCacheAssumption DEF Errors
<1>11. \/ /\ x.ent.obj = listed.obj /\ x.ent.phys = Append(dir, listed.name)
          /\ listed.obj \in SizeListed => x.ent.size = listed.obj
          /\ listed.obj \notin Files => x.ent.size = "UNKNOWN"
       \/ listed.obj \in Links /\ x.ent = Failed("EIO")
  BY <1>3, <1>4, <1>5 DEF ItemOf
<1>12. Failed("EIO").obj = "EIO"
  BY DEF Failed
<1>13. FirstOf(i) => listed.obj = Lookup(encoding, ItemPath(i))
  <2>1. SUFFICES ASSUME FirstOf(i) PROVE listed.obj = Lookup(encoding, ItemPath(i))
    OBVIOUS
  <2>2. \A j \in 1..Len(list) : items[j].name = list[j].name
    BY <1>5 DEF ItemOf
  <2>3. \A j \in 1..Len(list) : j < i => list[j].name # list[i].name
    BY <1>5, <2>1, <2>2 DEF FirstOf
  <2>4. Lookup(encoding, Append(dir, list[i].name)) = list[i].obj
    BY <1>1, <1>2, <1>5, <2>3, LookupFirst
  <2> QED BY <1>4, <1>9, <2>4
<1>14. x.ent.obj = "EIO" => x.ent = Failed("EIO") /\ listed.obj \in Links
  BY <1>10, <1>11
<1>15. x.ent.obj # "EIO" =>
         /\ x.ent.obj = listed.obj /\ x.ent.phys = Append(dir, listed.name)
         /\ listed.obj \in SizeListed => x.ent.size = listed.obj
         /\ listed.obj \notin Files => x.ent.size = "UNKNOWN"
  BY <1>11, <1>12
<1> QED BY <1>3, <1>6, <1>7, <1>8, <1>9, <1>13, <1>14, <1>15

\* Then all of it is right.
LEMMA FirstItem ==
  ASSUME IInv, HasItems, Good, NEW i \in 1..Len(items), FirstOf(i), items[i].ent.obj # "EIO"
  PROVE  items[i].ent \in Reported(Whole(Lookup(encoding, ItemPath(i)), ItemPath(i)))
         /\ items[i].ent.obj = Lookup(encoding, ItemPath(i))
<1>1. PICK ent \in Entry : ent = items[i].ent
  BY ItemFacts
<1>2. PICK path \in Paths : path = ItemPath(i)
  BY ItemFacts
<1>3. /\ ent.obj \in Objects /\ ent.phys = path /\ ent.obj = Lookup(encoding, path)
      /\ ent.obj \in SizeListed => ent.size = ent.obj
      /\ ent.obj \notin Files => ent.size = "UNKNOWN"
  BY <1>1, <1>2, ItemFacts
<1>4. ent.size \in {"UNKNOWN", ent.obj}
  <2>1. SizeOK(i)
    BY DEF IInv, FoundInv
  <2> QED BY <1>1, <1>2, <1>3, <2>1 DEF SizeOK
<1>5. PICK o, p, s : ent = [obj |-> o, phys |-> p, size |-> s]
  BY DEF Entry
<1>6. o = Lookup(encoding, path) /\ p = path /\ s \in {"UNKNOWN", o} /\ o \in Objects
      /\ (o \in SizeListed => s = o) /\ (o \notin Files => s = "UNKNOWN") /\ o # "UNKNOWN"
  BY <1>3, <1>4, <1>5, FuseCacheAssumption
<1>7. PICK whole : whole = Whole(o, p)
  OBVIOUS
<1>8. CASE o \notin Files
  <2>1. whole = ent
    BY <1>5, <1>6, <1>7, <1>8 DEF Whole
  <2> QED BY <1>1, <1>2, <1>3, <1>6, <1>7, <2>1 DEF Reported
<1>9. CASE o \in Files
  <2>1. whole = [obj |-> o, phys |-> p, size |-> o]
    BY <1>7, <1>9 DEF Whole
  <2>2. CASE s = o
    <3>1. whole = ent
      BY <1>5, <2>1, <2>2
    <3> QED BY <1>1, <1>2, <1>3, <1>6, <1>7, <3>1 DEF Reported
  <2>3. CASE s # o
    <3>1. s = "UNKNOWN" /\ o \notin SizeListed
      BY <1>6, <2>3
    <3>2. [whole EXCEPT !.size = "UNKNOWN"] = ent /\ whole.obj = o
      BY <1>5, <2>1, <3>1
    <3>3. ent \in Reported(whole)
      BY <1>9, <3>1, <3>2 DEF Reported
    <3> QED BY <1>1, <1>2, <1>3, <1>6, <1>7, <3>3
  <2> QED BY <2>2, <2>3
<1> QED BY <1>8, <1>9

\* What is asked of the disk for a size.
LEMMA SizeFacts ==
  ASSUME NEW enc \in Encodings, NEW phys \in Paths, NEW r \in Reported(Truth(enc, <<"raw", phys>>)),
         r.obj \notin Errors
  PROVE  r.size \in {"UNKNOWN", Lookup(enc, phys)}
<1>1. PICK obj : obj = Lookup(enc, phys)
  OBVIOUS
<1>2. obj # "ENOENT" /\ r \in Reported(Whole(obj, phys))
  BY <1>1, TruthFacts DEF Errors
<1>3. PICK s : s \in {"UNKNOWN", obj} /\ Whole(obj, phys) = [obj |-> obj, phys |-> phys, size |-> s]
  BY DEF Whole
<1>4. PICK whole : whole = [obj |-> obj, phys |-> phys, size |-> s]
  OBVIOUS
<1>5. r = whole \/ r = [whole EXCEPT !.size = "UNKNOWN"]
  <2>1. r \in Reported(whole)
    BY <1>2, <1>3, <1>4
  <2> QED BY <2>1 DEF Reported
<1>6. r = whole \/ r = [obj |-> obj, phys |-> phys, size |-> "UNKNOWN"]
  BY <1>4, <1>5
<1> QED BY <1>1, <1>3, <1>4, <1>6

\* A size that is not listed is found out, if it can be.
LEMMA SizesStep ==
  ASSUME IInv, Sizes
  PROVE  IInv'
<1>1. /\ thread \in [Threads -> ThreadType] /\ TypeOK /\ LruOK(lru) /\ OpType
      /\ encoding \in Encodings /\ bpc = "sizes" /\ HasItems /\ dir \in Paths
      /\ items \in Seq(Item) /\ Len(items) \in Nat /\ n \in 1..Len(items) + 1
      /\ ItemsOf(Listing[encoding][dir])
  <2>1. bpc = "sizes" /\ HasItems
    BY DEF HasItems, Sizes
  <2>2. n \in 1..Len(items) + 1
    BY <2>1 DEF IInv, ItemsInv
  <2> QED BY <2>1, <2>2, AtListing
<1>2. UNCHANGED <<gui, thread, running, walking, after, found, dir, level, chained, straddled,
                  misled>>
  BY DEF Sizes, walk
<1>3. Steady /\ UNCHANGED encoding /\ (Good' => Good)
  BY <1>1, <1>2, SteadyStill, SteadyFacts
<1>4. \A k : ~Unsettled(k)
  BY <1>1, SettledFacts DEF Showing
<1>5. CASE n <= Len(items)
  <2>1. PICK i \in 1..Len(items) : i = n
    BY <1>1, <1>5
  <2>2. PICK x : x = items[i]
    OBVIOUS
  <2>3. PICK path : path = ItemPath(i)
    OBVIOUS
  <2>4. /\ x \in Item /\ x.ent \in Entry /\ path \in Paths
        /\ x.ent.obj = "EIO" => x.ent = Failed("EIO")
        /\ x.ent.obj # "EIO" =>
             /\ x.ent.obj \in SizeListed => x.ent.size = x.ent.obj
             /\ x.ent.obj \notin Files => x.ent.size = "UNKNOWN"
    BY <1>1, <2>2, <2>3, ItemFacts
  <2>5. PICK key : key = <<"raw", path>>
    OBVIOUS
  <2>6. PICK wanted \in BOOLEAN : wanted <=> (x.ent.obj \in Files /\ x.ent.size = "UNKNOWN")
    OBVIOUS
  <2>7. PICK hit \in BOOLEAN : hit <=> (wanted /\ Holds(lru, key))
    OBVIOUS
  <2>8. PICK size :
          /\ lru' = (IF hit THEN Touch(lru, key) ELSE lru)
          /\ size \in (CASE ~wanted -> {x.ent.size}
                       [] hit /\ Cached(lru, key).obj \notin Errors -> {Cached(lru, key).size}
                       [] OTHER -> Queried(encoding, path))
          /\ items' = [items EXCEPT ![i].ent.size = size]
          /\ n' = i + 1 /\ bpc' = "sizes"
    <3>1. key = <<"raw", Append(dir, items[n].name)>> /\ key[2] = path
      BY <2>1, <2>3, <2>5 DEF ItemPath
    <3>2. wanted <=> items[n].ent.obj \in Files /\ items[n].ent.size = "UNKNOWN"
      BY <2>1, <2>2, <2>6
    <3> QED BY <1>1, <1>5, <2>1, <2>2, <2>7, <3>1, <3>2 DEF Sizes
  <2>9. LruOK(lru') /\ \A y \in Elems(lru') : y \in Elems(lru)
    BY <1>1, <2>7, <2>8, TouchFacts
  <2>10. hit => Cached(lru, key) \in Entry
    BY <1>1, <2>7, TouchFacts
  <2>11. Queried(encoding, path) \subseteq Objects \cup {"UNKNOWN"}
    BY DEF Queried, Files
  <2>12. size \in Objects \cup {"UNKNOWN"} /\ (~wanted => size = x.ent.size)
    <3>1. \A e \in Entry : e.size \in Objects \cup {"UNKNOWN"}
      BY DEF Entry
    <3>2. CASE ~wanted
      <4>1. size = x.ent.size
        BY <2>7, <2>8, <3>2
      <4>2. x.ent.size \in Objects \cup {"UNKNOWN"}
        BY <2>4, <3>1
      <4> QED BY <4>1, <4>2
    <3>3. CASE wanted /\ hit /\ Cached(lru, key).obj \notin Errors
      <4>1. size = Cached(lru, key).size
        BY <2>8, <3>3
      <4> QED BY <2>10, <3>1, <3>3, <4>1
    <3>4. CASE wanted /\ ~(hit /\ Cached(lru, key).obj \notin Errors)
      <4>1. size \in Queried(encoding, path)
        BY <2>8, <3>4
      <4> QED BY <2>11, <3>4, <4>1
    <3> QED BY <3>2, <3>3, <3>4
  <2>13. ASSUME Good, wanted, x.ent.obj = Lookup(encoding, path)
         PROVE  size \in {"UNKNOWN", x.ent.obj}
    <3>1. CASE hit /\ Cached(lru, key).obj \notin Errors
      <4>1. PICK y \in Elems(lru) : y.key = key /\ y.ent = Cached(lru, key)
        BY <1>1, <2>7, <3>1, TouchFacts
      <4>2. y.ent \in Reported(Truth(encoding, key))
        BY <1>4, <2>13, <4>1 DEF IInv, CacheInv, NodeOK
      <4>3. y.ent.size \in {"UNKNOWN", Lookup(encoding, path)}
        BY <1>1, <2>4, <2>5, <3>1, <4>1, <4>2, SizeFacts
      <4> QED BY <2>8, <2>13, <3>1, <4>1, <4>3
    <3>2. CASE ~(hit /\ Cached(lru, key).obj \notin Errors)
      <4>1. size \in Queried(encoding, path)
        BY <2>8, <2>13, <3>2
      <4>2. Lookup(encoding, path) \notin Links
        BY <2>6, <2>13 DEF Files
      <4> QED BY <2>13, <4>1, <4>2 DEF Queried
    <3> QED BY <3>1, <3>2
  <2>14. PICK a, b : x = [name |-> a, ent |-> b] /\ b \in Entry /\ a \in Names
    BY <2>4 DEF Item
  <2>15. PICK c, d, e : b = [obj |-> c, phys |-> d, size |-> e]
    BY <2>14 DEF Entry
  <2>16. PICK f : f = [obj |-> c, phys |-> d, size |-> size]
    OBVIOUS
  <2>17. PICK new : new = [name |-> a, ent |-> f]
    OBVIOUS
  <2>18. f \in Entry /\ new \in Item
    <3>1. f \in Entry
      BY <2>12, <2>14, <2>15, <2>16 DEF Entry
    <3> QED BY <2>14, <2>17, <3>1 DEF Item
  <2>19. [x EXCEPT !.ent.size = size] = new
    <3>1. [b EXCEPT !.size = size] = f
      BY <2>15, <2>16
    <3>2. [x EXCEPT !.ent = f] = new /\ x.ent = b
      BY <2>14, <2>17
    <3> QED BY <3>1, <3>2
  <2>20. items' = [items EXCEPT ![i] = new]
    BY <2>2, <2>8, <2>19
  <2>21. /\ items' \in Seq(Item) /\ Len(items') = Len(items)
         /\ items'[i] = new /\ \A j \in 1..Len(items) : j # i => items'[j] = items[j]
    BY <1>1, <2>18, <2>20
  <2>22. HasItems' /\ ~Walking' /\ bpc' \notin Labels
    BY <2>8 DEF HasItems, Walking, Labels
  <2>23. /\ new.name = x.name /\ new.ent.obj = x.ent.obj /\ new.ent.phys = x.ent.phys
         /\ new.ent.size = size /\ (~wanted => new = x)
    <3>1. x.name = a /\ x.ent = b /\ b.obj = c /\ b.phys = d /\ b.size = e
      BY <2>14, <2>15
    <3>2. new.name = a /\ new.ent = f /\ f.obj = c /\ f.phys = d /\ f.size = size
      BY <2>16, <2>17
    <3>3. ~wanted => f = b
      BY <2>12, <2>15, <2>16, <3>1
    <3> QED BY <2>14, <2>17, <3>1, <3>2, <3>3
  <2>24. ItemsOf(Listing[encoding][dir])'
    <3>1. PICK list : list = Listing[encoding][dir]
      OBVIOUS
    <3>2. Len(items) = Len(list) /\ \A j \in 1..Len(list) : ItemOf(j, list[j])
      BY <1>1, <3>1 DEF ItemsOf
    <3>3. ASSUME NEW j \in 1..Len(list), j # i PROVE ItemOf(j, list[j])'
      BY <1>2, <2>21, <3>2, <3>3 DEF ItemOf
    <3>4. ItemOf(i, list[i])'
      <4>1. ItemOf(i, list[i])
        BY <3>2
      <4>2. CASE ~wanted
        BY <1>2, <2>2, <2>21, <2>23, <4>1, <4>2 DEF ItemOf
      <4>3. CASE wanted
        <5>1. x.ent.obj \in Files /\ x.ent.obj # "EIO" /\ x.ent.size = "UNKNOWN"
              /\ x.ent.obj # "UNKNOWN"
          BY <2>6, <4>3, FuseCacheAssumption DEF Files, Errors
        <5>2. x.ent.obj \notin SizeListed
          BY <2>4, <5>1
        <5>3. Failed("EIO").obj = "EIO"
          BY DEF Failed
        <5>4. x.ent.obj = list[i].obj /\ x.ent.phys = Append(dir, list[i].name)
              /\ x.name = list[i].name
          BY <2>2, <4>1, <5>1, <5>3 DEF ItemOf
        <5> QED BY <1>2, <2>21, <2>23, <5>1, <5>2, <5>4 DEF ItemOf
      <4> QED BY <4>2, <4>3
    <3>5. ItemsOf(list)'
      BY <2>21, <3>2, <3>3, <3>4 DEF ItemsOf
    <3>6. Listing[encoding'][dir'] = list
      BY <1>2, <1>3, <3>1
    <3> QED BY <3>5, <3>6 DEF ItemsOf
  <2>25. ASSUME Good', NEW j \in 1..Len(items') PROVE SizeOK(j)'
    <3>1. SizeOK(j)
      BY <1>1, <1>3, <2>21, <2>25 DEF IInv, FoundInv
    <3>2. CASE j # i
      BY <1>2, <1>3, <2>21, <3>1, <3>2 DEF SizeOK, ItemPath
    <3>3. CASE j = i
      <4>1. ItemPath(i)' = path
        BY <1>2, <2>2, <2>3, <2>21, <2>23 DEF ItemPath
      <4>2. x.ent.obj = Lookup(encoding, path) => size \in {"UNKNOWN", x.ent.obj}
        BY <1>3, <2>2, <2>3, <2>12, <2>13, <2>25, <3>1, <3>3 DEF SizeOK
      <4> QED BY <1>3, <2>21, <2>23, <3>3, <4>1, <4>2 DEF SizeOK
    <3> QED BY <3>2, <3>3
  <2>26. CacheInv'
    BY <1>3, <1>4, <2>9, EntriesOK DEF IInv
  <2>27. RestType'
    BY <1>1, <1>2, <2>1, <2>8, <2>21 DEF OpType, RestType
  <2>28. n' \in 1..Len(items') + 1
    BY <1>1, <2>1, <2>8, <2>21
  <2> QED BY <1>1, <1>2, <1>3, <2>8, <2>9, <2>22, <2>24, <2>25, <2>26, <2>27, <2>28, ListingGoesOn
<1>6. CASE ~(n <= Len(items))
  <2>1. n' = n - 1 /\ bpc' = "seed_raw" /\ UNCHANGED <<lru, items>> /\ n' = Len(items)
    BY <1>1, <1>6 DEF Sizes
  <2>2. HasItems' /\ ~Walking' /\ bpc' \notin Labels
    BY <2>1 DEF HasItems, Walking, Labels
  <2>3. ItemsOf(Listing[encoding][dir])'
    BY <1>1, <1>2, <1>3, <2>1 DEF ItemsOf, ItemOf
  <2>4. ASSUME Good', NEW j \in 1..Len(items') PROVE SizeOK(j)'
    <3>1. SizeOK(j)
      BY <1>1, <1>3, <2>1, <2>4 DEF IInv, FoundInv
    <3> QED BY <1>2, <1>3, <2>1, <3>1 DEF SizeOK, ItemPath
  <2>5. CacheInv'
    BY <1>3, <1>4, <2>1, EntriesOK DEF IInv
  <2>6. RestType' /\ LruOK(lru') /\ n' \in 0..Len(items')
    BY <1>1, <1>2, <2>1 DEF OpType, RestType
  <2> QED BY <1>1, <1>2, <1>3, <2>1, <2>2, <2>3, <2>4, <2>5, <2>6, ListingGoesOn
<1> QED BY <1>5, <1>6

\* The entries in hand stay what they are.
LEMMA ItemsStay ==
  ASSUME IInv, HasItems, Steady, UNCHANGED <<items, dir>>
  PROVE  ItemsOf(Listing[encoding][dir])' /\ (Good' => \A i \in 1..Len(items') : SizeOK(i)')
<1>1. ItemsOf(Listing[encoding][dir]) /\ UNCHANGED encoding /\ (Good' => Good)
  BY AtListing, SteadyFacts
<1>2. ItemsOf(Listing[encoding][dir])'
  BY <1>1 DEF ItemsOf, ItemOf
<1>3. \A i : SizeOK(i) => SizeOK(i)'
  BY <1>1 DEF SizeOK, ItemPath
<1>4. Good => \A i \in 1..Len(items) : SizeOK(i)
  BY DEF IInv, FoundInv
<1> QED BY <1>1, <1>2, <1>3, <1>4

\* Entry I is inserted: its key is settled with the first of its name, and an
\* error that is not kept then leaves a namesake's entry.
LEMMA SeedFacts ==
  ASSUME IInv, HasItems, NEW i \in 1..Len(items), i = n, n' = i - 1,
         NEW key \in Key, NEW ent \in Entry, Seed(i, key, ent),
         UNCHANGED <<gui, straddled, items, dir, thread, running>>,
         \/ key = <<"raw", ItemPath(i)>> /\ bpc = "seed_raw" /\ bpc' = "seed_raw"
         \/ key = <<"mount", Child(i)>> /\ Showing /\ Showing'
  PROVE  /\ Steady /\ lru' = CachePut(lru, key, ent)
         /\ \A k \in Key : k # key /\ Unsettled(k) => Unsettled(k)'
         /\ ~FirstOf(i) => Unsettled(key)'
         /\ ent.obj = "EIO" =>
              \A x \in Elems(lru) : x.key = key /\ ~(Unsettled(key) => Unsettled(key)') =>
                ~Good' /\ FirstOf(i)
<1>1. /\ LruOK(lru) /\ items \in Seq(Item) /\ Len(items) \in Nat /\ dir \in Paths
      /\ thread[running].path \in Paths
  BY AtListing
<1>2. \A j \in 1..Len(items) : items[j].name \in Names
  BY ItemFacts
<1>3. Steady /\ lru' = CachePut(lru, key, ent)
  <2>1. misled \in BOOLEAN
    BY TypeParts DEF IInv
  <2>2. misled' \in BOOLEAN /\ (misled => misled')
    BY <2>1, Zenon DEF Seed
  <2> QED BY <2>2 DEF Steady, Seed
<1>4. \A k, j : Seeds(k, j)' <=> Seeds(k, j)
  <2>1. CASE bpc = "seed_raw" /\ bpc' = "seed_raw"
    BY <2>1 DEF Seeds, Child, Showing
  <2>2. CASE Showing /\ Showing'
    BY <2>2 DEF Seeds, Child, Showing
  <2> QED BY <2>1, <2>2
<1>5. Seeds(key, i)
  <2>1. CASE key = <<"raw", ItemPath(i)>> /\ bpc = "seed_raw"
    BY <2>1 DEF Seeds, ItemPath
  <2>2. CASE key = <<"mount", Child(i)>> /\ Showing
    BY <2>2 DEF Seeds
  <2> QED BY <2>1, <2>2
<1>6. ASSUME NEW j \in 1..Len(items) PROVE Seeds(key, j) <=> items[j].name = items[i].name
  <2>1. items[i].name \in Names /\ items[j].name \in Names
    BY <1>2
  <2>2. CASE key = <<"raw", ItemPath(i)>> /\ bpc = "seed_raw"
    <3>1. Seeds(key, j) <=> Append(dir, items[i].name) = Append(dir, items[j].name)
      BY <2>2 DEF Seeds, ItemPath, Showing
    <3> QED BY <1>1, <2>1, <3>1, AppendFacts
  <2>3. CASE key = <<"mount", Child(i)>> /\ Showing
    <3>1. Seeds(key, j) <=>
            Append(thread[running].path, items[i].name)
              = Append(thread[running].path, items[j].name)
      BY <2>3 DEF Seeds, Child
    <3> QED BY <1>1, <2>1, <3>1, AppendFacts
  <2> QED BY <2>2, <2>3
<1>7. ASSUME NEW k, NEW j \in 1..Len(items), Seeds(k, i), Seeds(k, j)
      PROVE  items[j].name = items[i].name
  <2>1. items[i].name \in Names /\ items[j].name \in Names
    BY <1>2
  <2>2. Append(dir, items[i].name) = Append(dir, items[j].name)
        \/ Append(thread[running].path, items[i].name) = Append(thread[running].path, items[j].name)
    BY <1>7 DEF Seeds, Child
  <2> QED BY <1>1, <2>1, <2>2, AppendFacts
<1>8. ASSUME NEW k \in Key, k # key, Unsettled(k) PROVE Unsettled(k)'
  <2>1. PICK p \in 1..n : Seeds(k, p)
    BY <1>8 DEF Unsettled
  <2>2. PICK q \in n + 1..Len(items) : Seeds(k, q)
    BY <1>8 DEF Unsettled
  <2>3. p # i
    <3>1. SUFFICES ASSUME p = i PROVE FALSE
      OBVIOUS
    <3>2. k[1] = key[1] /\ k[2] = key[2]
      BY <1>5, <2>1, <3>1 DEF Seeds, Showing
    <3> QED BY <1>8, <3>2 DEF Key
  <2>4. p \in 1..n' /\ q \in n' + 1..Len(items')
    BY <1>1, <2>1, <2>2, <2>3
  <2> QED BY <1>4, <2>1, <2>2, <2>4 DEF Unsettled
<1>9. ASSUME ~FirstOf(i) PROVE Unsettled(key)'
  <2>1. PICK p \in 1..i - 1 : items[p].name = items[i].name
    BY <1>9 DEF FirstOf
  <2>2. p \in 1..n' /\ i \in n' + 1..Len(items') /\ p \in 1..Len(items)
    BY <1>1, <2>1
  <2>3. Seeds(key, p)
    BY <1>6, <2>1, <2>2
  <2> QED BY <1>4, <1>5, <2>2, <2>3 DEF Unsettled
<1>10. ASSUME ent.obj = "EIO", NEW x \in Elems(lru), x.key = key,
              Unsettled(key), ~Unsettled(key)'
       PROVE  ~Good' /\ FirstOf(i)
  <2>1. FirstOf(i)
    BY <1>9, <1>10
  <2>2. PICK q \in i + 1..Len(items) : Seeds(key, q)
    BY <1>10 DEF Unsettled
  <2>3. items[q].name = items[i].name
    BY <1>1, <1>6, <2>2
  <2>4. Holds(lru, key)
    BY <1>10 DEF Elems, Holds
  <2>5. misled'
    BY <1>10, <2>2, <2>3, <2>4 DEF Seed
  <2> QED BY <2>1, <2>5 DEF Good
<1> QED BY <1>3, <1>8, <1>9, <1>10

\* The entries of the listing as physical paths.
LEMMA SeedRawStep ==
  ASSUME IInv, SeedRaw
  PROVE  IInv'
<1>1. /\ thread \in [Threads -> ThreadType] /\ TypeOK /\ LruOK(lru) /\ OpType
      /\ encoding \in Encodings /\ bpc = "seed_raw" /\ HasItems /\ n \in 0..Len(items)
      /\ Len(items) \in Nat /\ ~Showing
  <2>1. bpc = "seed_raw" /\ HasItems /\ ~Showing
    BY DEF HasItems, Showing, SeedRaw
  <2>2. n \in 0..Len(items)
    BY <2>1 DEF IInv, ItemsInv
  <2> QED BY <2>1, <2>2, AtListing
<1>2. /\ UNCHANGED <<gui, thread, running, walking, after, found, dir, items, level, chained>>
      /\ UNCHANGED straddled
  BY DEF SeedRaw, walk
<1>3. CASE n > 0
  <2>1. PICK i \in 1..Len(items) : i = n
    BY <1>1, <1>3
  <2>2. PICK path, ent : path = ItemPath(i) /\ ent = items[i].ent
    OBVIOUS
  <2>3. /\ path \in Paths /\ ent \in Entry
        /\ ent.obj # "EIO" => ent.obj \in Objects /\ ent.obj \in Namesakes(encoding, path)
        /\ FirstOf(i) => \/ ent.obj = Lookup(encoding, path)
                         \/ ent.obj = "EIO" /\ Lookup(encoding, path) \in Links
    BY <1>1, <2>2, ItemFacts
  <2>4. PICK key \in Key : key = <<"raw", path>>
    BY <2>3 DEF Key
  <2>5. Seed(i, key, ent) /\ n' = i - 1 /\ bpc' = "seed_raw"
    BY <1>1, <1>3, <2>1, <2>2, <2>4 DEF SeedRaw, ItemPath
  <2>6. /\ Steady /\ lru' = CachePut(lru, key, ent)
        /\ \A k \in Key : k # key /\ Unsettled(k) => Unsettled(k)'
        /\ ~FirstOf(i) => Unsettled(key)'
        /\ ent.obj = "EIO" =>
             \A x \in Elems(lru) : x.key = key /\ ~(Unsettled(key) => Unsettled(key)') =>
               ~Good' /\ FirstOf(i)
    BY <1>1, <1>2, <2>1, <2>2, <2>3, <2>4, <2>5, SeedFacts
  <2>7. UNCHANGED <<encoding, gpc>> /\ (Good' => Good) /\ key[1] = "raw" /\ key[2] = path
    BY <2>4, <2>6, SteadyFacts
  <2>8. PutGood(key, ent)
    <3>1. CASE ent.obj = "EIO"
      <4>1. ASSUME NEW x \in Elems(lru), x.key = key, ~(Unsettled(key) => Unsettled(key)')
            PROVE  (gpc = "idle" => RawOK(x)') /\ (Good' => NodeOK(x)')
        <5>1. ~Good' /\ Lookup(encoding, path) \in Links
          <6>1. ~Good' /\ FirstOf(i)
            BY <2>6, <3>1, <4>1
          <6>2. "EIO" # Lookup(encoding, path)
            BY <1>1, <2>3, LookupType
          <6> QED BY <2>3, <3>1, <6>1, <6>2
        <5>2. gpc = "idle" => RawOK(x)
          BY <4>1 DEF IInv, CacheInv
        <5> QED BY <2>7, <4>1, <5>1, <5>2 DEF RawOK
      <4> QED BY <3>1, <4>1 DEF PutGood
    <3>2. CASE ent.obj # "EIO"
      <4>1. PICK y : y = [key |-> key, ent |-> ent]
        OBVIOUS
      <4>2. y.key = key /\ y.ent = ent
        BY <4>1
      <4>3. CASE ~FirstOf(i)
        BY <2>3, <2>6, <2>7, <3>2, <4>2, <4>3 DEF PutGood, RawOK, NodeOK
      <4>4. CASE FirstOf(i)
        <5>1. ent.obj = Lookup(encoding, path) /\ ent.obj # "ENOENT"
          BY <2>3, <3>2, <4>4, FuseCacheAssumption DEF Errors
        <5>2. Good => ent \in Reported(Whole(Lookup(encoding, path), path))
          BY <1>1, <2>2, <3>2, <4>4, FirstItem
        <5>3. Truth(encoding, key) = Whole(Lookup(encoding, path), path)
          BY <2>7, <5>1 DEF Truth
        <5>4. RawOK(y)' /\ (Good' => NodeOK(y)')
          BY <2>7, <4>2, <5>1, <5>2, <5>3 DEF RawOK, NodeOK
        <5> QED BY <3>2, <4>2, <5>4 DEF PutGood
      <4> QED BY <4>3, <4>4
    <3> QED BY <3>1, <3>2
  <2>9. CacheInv' /\ LruOK(lru')
    BY <2>3, <2>6, <2>8, PutOK
  <2>10. HasItems' /\ ~Walking' /\ bpc' \notin Labels /\ bpc' # "sizes" /\ n' \in 0..Len(items')
    BY <1>1, <1>2, <2>1, <2>5 DEF HasItems, Walking, Labels
  <2>11. RestType'
    BY <1>1, <1>2, <2>1, <2>5 DEF OpType, RestType
  <2>12. ItemsOf(Listing[encoding][dir])' /\ (Good' => \A j \in 1..Len(items') : SizeOK(j)')
    BY <1>1, <1>2, <2>6, ItemsStay
  <2> QED BY <1>1, <1>2, <2>6, <2>9, <2>10, <2>11, <2>12, ListingGoesOn
<1>4. CASE ~(n > 0)
  <2>1. n = 0 /\ bpc' = "seed_mount" /\ n' = Len(items) /\ UNCHANGED <<lru, misled>>
    BY <1>1, <1>4 DEF SeedRaw
  <2>2. Steady
    BY <1>1, <1>2, <2>1, SteadyStill
  <2>3. \A k : ~Unsettled(k)
    BY <2>1 DEF Unsettled
  <2>4. CacheInv'
    BY <2>1, <2>2, <2>3, EntriesOK DEF IInv
  <2>5. HasItems' /\ ~Walking' /\ bpc' \notin Labels /\ bpc' # "sizes" /\ n' \in 0..Len(items')
    BY <1>1, <1>2, <2>1 DEF HasItems, Showing, Walking, Labels
  <2>6. RestType' /\ LruOK(lru')
    BY <1>1, <1>2, <2>1 DEF OpType, RestType
  <2>7. ItemsOf(Listing[encoding][dir])' /\ (Good' => \A j \in 1..Len(items') : SizeOK(j)')
    BY <1>1, <1>2, <2>2, ItemsStay
  <2> QED BY <1>1, <1>2, <2>2, <2>4, <2>5, <2>6, <2>7, ListingGoesOn
<1> QED BY <1>3, <1>4

\* What the listing needs next is looked up.
LEMMA WalkStarts ==
  ASSUME IInv, Showing, NEW label \in {"seed_link", "ancestor_put"},
         bpc' = "raw_get", after' = label, walking' = Begin[Goal'], Goal' \in Paths,
         UNCHANGED <<lru, gui, thread, running, found, listing, straddled, misled>>,
         label = "seed_link" => n > 0,
         label = "ancestor_put" => level \in 0..Len(thread[running].path)
  PROVE  IInv'
<1>1. HasItems /\ HasItems' /\ Walking' /\ Showing' /\ bpc # "seed_raw" /\ bpc # "sizes"
      /\ bpc' \notin Labels
  BY DEF HasItems, Showing, Walking, Labels
<1>2. /\ thread \in [Threads -> ThreadType] /\ TypeOK /\ LruOK(lru) /\ OpType
      /\ running \in Threads /\ dir \in Paths
      /\ thread[running].kind = "readdir" /\ thread[running].pc = "queued"
      /\ Good => dir = Ends[encoding][Begin[thread[running].path]]
  BY <1>1, AtListing
<1>3. UNCHANGED <<dir, items, n, level, chained>> /\ n \in 0..Len(items)
  BY <1>1 DEF listing, IInv, ItemsInv
<1>4. Steady /\ UNCHANGED encoding /\ (Good' => Good)
  BY <1>2, SteadyStill, SteadyFacts
<1>5. ItemsOf(Listing[encoding][dir])' /\ (Good' => \A j \in 1..Len(items') : SizeOK(j)')
  BY <1>1, <1>3, <1>4, ItemsStay
<1>6. OpInv'
  BY <1>1, <1>2, <1>3 DEF OpInv
<1>7. ItemsInv'
  BY <1>1, <1>3, <1>5 DEF ItemsInv
<1>8. FoundInv'
  BY <1>1, <1>2, <1>3, <1>4, <1>5 DEF FoundInv
<1>9. \A k : Unsettled(k) => Unsettled(k)'
  BY <1>1, <1>3, ShowingKept
<1>10. CacheInv'
  BY <1>4, <1>9, EntriesOK DEF IInv
<1>11. OpType'
  <2>1. walking' \in Walks
    BY WalkAssumption
  <2> QED BY <1>2, <1>3, <2>1, SMTT(30) DEF OpType, RestType, Pcs, Labels
<1>12. TypeOK' /\ AnswerInv'
  BY <1>2, <1>4, <1>11, TypeKept, AnswersKept
<1> QED BY <1>6, <1>7, <1>8, <1>10, <1>12 DEF IInv

\* A child that is no link resolves to the entry of its directory, and its
\* namesakes are what the mount path may be answered with meanwhile.
LEMMA ChildFacts ==
  ASSUME IInv, HasItems, Good, NEW i \in 1..Len(items)
  PROVE  /\ items[i].ent.obj # "EIO" => items[i].ent.obj \in Candidates(encoding, Child(i))
         /\ Lookup(encoding, ItemPath(i)) \notin Links =>
              Resolve(encoding, Child(i)) = Whole(Lookup(encoding, ItemPath(i)), ItemPath(i))
<1>1. /\ encoding \in Encodings /\ dir \in Paths /\ ItemsOf(Listing[encoding][dir])
      /\ thread[running].path \in Browsed /\ thread[running].path \in Paths
      /\ dir = Ends[encoding][Begin[thread[running].path]]
  BY AtListing
<1>2. PICK path \in Browsed : path = thread[running].path
  BY <1>1
<1>3. PICK name \in Names : name = items[i].name
  BY ItemFacts
<1>4. Child(i) = Append(path, name) /\ ItemPath(i) = Append(dir, name)
      /\ Child(i) \in Paths /\ ItemPath(i) \in Paths
  BY <1>2, <1>3, ItemFacts DEF Child, ItemPath
<1>5. dir # Nowhere /\ ItemPath(i) # Nowhere
  <2>1. Nowhere \notin Paths
    BY WalkAssumption
  <2>2. dir \in Paths /\ ItemPath(i) \in Paths
    BY <1>1, <1>4, ZenonT(40)
  <2> QED BY <2>1, <2>2, ZenonT(40)
<1>6. items[i].ent.obj # "EIO" => items[i].ent.obj \in Candidates(encoding, Child(i))
  <2>1. Child(i) # Root /\ DirOf(Child(i)) = path /\ NameOf(Child(i)) = name
    <3>1. path \in Paths
      BY <1>1, <1>2
    <3>2. Append(path, name) # Root /\ DirOf(Append(path, name)) = path
          /\ NameOf(Append(path, name)) = name
      BY <3>1, AppendFacts
    <3> QED BY <1>4, <3>2, Zenon
  <2>2. items[i].ent.obj # "EIO" => items[i].ent.obj \in Namesakes(encoding, Append(dir, name))
    BY <1>4, ItemFacts
  <2> QED BY <1>1, <1>2, <1>5, <2>1, <2>2 DEF Candidates
<1>7. ASSUME Lookup(encoding, ItemPath(i)) \notin Links
      PROVE  Resolve(encoding, Child(i)) = Whole(Lookup(encoding, ItemPath(i)), ItemPath(i))
  <2>1. PICK list : list = Listing[encoding][dir]
    OBVIOUS
  <2>2. Len(items) = Len(list) /\ name = list[i].name
    BY <1>1, <1>3, <2>1 DEF ItemsOf, ItemOf
  <2>3. Lookup(encoding, Append(dir, list[i].name)) \notin Links
    BY <1>4, <1>7, <2>2, SMTT(30)
  <2>4. \A enc \in Encodings, p \in Browsed :
          Ends[enc][Begin[p]] # Nowhere =>
            \A k \in 1..Len(Listing[enc][Ends[enc][Begin[p]]]) :
              Lookup(enc, Append(Ends[enc][Begin[p]],
                                 Listing[enc][Ends[enc][Begin[p]]][k].name)) \notin Links
                => Ends[enc][Begin[Append(p, Listing[enc][Ends[enc][Begin[p]]][k].name)]] =
                     Append(Ends[enc][Begin[p]], Listing[enc][Ends[enc][Begin[p]]][k].name)
    BY WalkAssumption
  <2>5. dir = Ends[encoding][Begin[path]] /\ i \in 1..Len(list)
    BY <1>1, <1>2, <2>2
  <2>6. Ends[encoding][Begin[Append(path, list[i].name)]] = Append(dir, list[i].name)
    <3>1. encoding \in Encodings /\ dir # Nowhere
      BY <1>1, <1>5
    <3> QED BY <2>1, <2>3, <2>4, <2>5, <3>1, Zenon
  <2>7. Ends[encoding][Begin[Child(i)]] = ItemPath(i)
    BY <1>4, <2>2, <2>6, ZenonT(40)
  <2>8. encoding \in Encodings /\ Child(i) \in Paths
    BY <1>1, <1>4
  <2> QED BY <1>5, <2>7, <2>8, ResolveFacts, Zenon
<1> QED BY <1>6, <1>7

\* The entries of the listing as the mount shows them.
LEMMA SeedMountStep ==
  ASSUME IInv, SeedMount
  PROVE  IInv'
<1>1. /\ thread \in [Threads -> ThreadType] /\ TypeOK /\ LruOK(lru) /\ OpType
      /\ encoding \in Encodings /\ bpc = "seed_mount" /\ HasItems /\ Showing
      /\ n \in 0..Len(items) /\ Len(items) \in Nat /\ thread[running].kind = "readdir"
      /\ bpc # "idle"
  <2>1. bpc = "seed_mount" /\ HasItems /\ Showing
    BY DEF HasItems, Showing, SeedMount
  <2>2. n \in 0..Len(items)
    BY <2>1 DEF IInv, ItemsInv
  <2> QED BY <2>1, <2>2, AtListing
<1>2. UNCHANGED <<gui, found, dir, items, level, chained, straddled>>
  BY DEF SeedMount
<1>3. CASE n = 0
  <2>1. PICK ent \in Entry : ent = found
    BY <1>1 DEF OpType, RestType
  <2>2. Answer(ent) /\ UNCHANGED <<lru, misled, n, walking, after>>
    BY <1>3, <2>1 DEF SeedMount, walk
  <2>3. RestType' /\ LruOK(lru') /\ Steady
    BY <1>1, <1>2, <2>2, SteadyStill DEF OpType, RestType
  <2>4. \A k : ~Unsettled(k)
    BY <1>3 DEF Unsettled
  <2>5. CacheInv'
    BY <2>2, <2>3, <2>4, EntriesOK DEF IInv
  <2> QED BY <1>1, <1>2, <2>2, <2>3, <2>5, AnswerOK
<1>4. CASE n > 0
  <2>1. PICK i \in 1..Len(items) : i = n
    BY <1>1, <1>4
  <2>2. Child(i) \in Paths /\ items[i].ent \in Entry
    BY <1>1, ItemFacts
  <2>3. CASE items[n].ent.obj \in Links
    <3>1. /\ StartWalk(Child(n), "seed_link") /\ UNCHANGED <<lru, misled, n, thread, running>>
      BY <1>1, <1>4, <2>3 DEF SeedMount
    <3>2. Goal' = Child(n)
      BY <1>2, <3>1 DEF Goal, Child, StartWalk
    <3>3. UNCHANGED <<lru, gui, thread, running, found, listing, straddled, misled>>
      BY <1>2, <3>1 DEF listing
    <3> QED BY <1>1, <1>4, <2>1, <2>2, <3>1, <3>2, <3>3, WalkStarts DEF StartWalk
  <2>4. CASE items[n].ent.obj \notin Links
    <3>1. PICK key \in Key : key = <<"mount", Child(i)>>
      BY <2>2 DEF Key
    <3>2. PICK ent \in Entry : ent = items[i].ent
      BY <2>2
    <3>3. /\ Seed(i, key, ent) /\ n' = i - 1
          /\ UNCHANGED <<bpc, walking, after, thread, running>>
      BY <1>1, <1>4, <2>1, <2>4, <3>1, <3>2 DEF SeedMount, walk
    <3>4. Showing'
      BY <1>1, <3>3 DEF Showing
    <3>5. /\ Steady /\ lru' = CachePut(lru, key, ent)
          /\ \A k \in Key : k # key /\ Unsettled(k) => Unsettled(k)'
          /\ ~FirstOf(i) => Unsettled(key)'
          /\ ent.obj = "EIO" =>
               \A x \in Elems(lru) : x.key = key /\ ~(Unsettled(key) => Unsettled(key)') =>
                 ~Good' /\ FirstOf(i)
      BY <1>1, <1>2, <2>1, <3>1, <3>3, <3>4, SeedFacts
    <3>6. UNCHANGED <<encoding, gpc>> /\ (Good' => Good)
      BY <3>5, SteadyFacts
    <3>7. key[1] = "mount" /\ key[2] = Child(i)
          /\ Truth(encoding, key) = Resolve(encoding, Child(i))
      BY <3>1 DEF Truth
    <3>8. PutGood(key, ent)
      <4>1. CASE ent.obj = "EIO"
        BY <3>5, <3>7, <4>1 DEF PutGood, RawOK
      <4>2. CASE ent.obj # "EIO"
        <5>1. PICK y : y = [key |-> key, ent |-> ent]
          OBVIOUS
        <5>2. y.key = key /\ y.ent = ent
          BY <5>1
        <5>3. RawOK(y)'
          BY <3>7, <5>2 DEF RawOK
        <5>4. ASSUME Good' PROVE NodeOK(y)'
          <6>1. CASE ~FirstOf(i)
            <7>1. ent.obj \in Candidates(encoding, Child(i))
              BY <1>1, <3>2, <3>6, <4>2, <5>4, ChildFacts
            <7> QED BY <3>5, <3>6, <3>7, <5>2, <6>1, <7>1 DEF NodeOK
          <6>2. CASE FirstOf(i)
            <7>1. ent \in Reported(Whole(Lookup(encoding, ItemPath(i)), ItemPath(i)))
                  /\ ent.obj = Lookup(encoding, ItemPath(i))
              BY <1>1, <3>2, <3>6, <4>2, <5>4, <6>2, FirstItem
            <7>2. Resolve(encoding, Child(i)) = Whole(Lookup(encoding, ItemPath(i)), ItemPath(i))
              BY <1>1, <2>1, <2>4, <3>2, <3>6, <5>4, <7>1, ChildFacts
            <7> QED BY <3>6, <3>7, <5>2, <7>1, <7>2 DEF NodeOK
          <6> QED BY <6>1, <6>2
        <5> QED BY <4>2, <5>2, <5>3, <5>4 DEF PutGood
      <4> QED BY <4>1, <4>2
    <3>9. CacheInv' /\ LruOK(lru')
      BY <3>5, <3>8, PutOK
    <3>10. HasItems' /\ ~Walking' /\ bpc' \notin Labels /\ bpc' # "sizes" /\ n' \in 0..Len(items')
      BY <1>1, <1>2, <2>1, <3>3, <3>4 DEF HasItems, Walking, Labels
    <3>11. RestType'
      BY <1>1, <1>2, <2>1, <3>3 DEF OpType, RestType
    <3>12. ItemsOf(Listing[encoding][dir])' /\ (Good' => \A j \in 1..Len(items') : SizeOK(j)')
      BY <1>1, <1>2, <3>5, ItemsStay
    <3> QED BY <1>1, <1>2, <3>3, <3>5, <3>9, <3>10, <3>11, <3>12, ListingGoesOn
  <2> QED BY <2>3, <2>4
<1> QED BY <1>1, <1>3, <1>4

\* A link of the listing as the mount shows it.
LEMMA SeedLinkStep ==
  ASSUME IInv, SeedLink
  PROVE  IInv'
<1>1. /\ thread \in [Threads -> ThreadType] /\ TypeOK /\ LruOK(lru) /\ OpType
      /\ encoding \in Encodings /\ bpc = "seed_link" /\ bpc \in Labels /\ HasItems /\ Showing
      /\ n \in 0..Len(items) /\ Len(items) \in Nat /\ after = "seed_link" /\ n > 0
  <2>1. bpc = "seed_link" /\ HasItems /\ Showing /\ bpc \in Labels /\ bpc # "idle"
    BY DEF HasItems, Showing, SeedLink, Labels
  <2>2. after = "seed_link"
    BY <2>1 DEF IInv, OpInv
  <2>3. n \in 0..Len(items) /\ n > 0
    BY <2>1, <2>2 DEF IInv, ItemsInv
  <2> QED BY <2>1, <2>2, <2>3, AtListing
<1>2. UNCHANGED <<gui, thread, running, walking, after, found, dir, items, chained, straddled>>
  BY DEF SeedLink, walk
<1>3. PICK i \in 1..Len(items) : i = n
  BY <1>1
<1>4. PICK key : key = <<"mount", Child(i)>>
  OBVIOUS
<1>5. Goal = Child(i)
  BY <1>1, <1>3 DEF Goal
<1>6. /\ key \in Key /\ found \in Entry
      /\ Good => \/ found \in Reported(Truth(encoding, key))
                 \/ found.obj = "EIO" /\ thread[running].io
  BY <1>1, <1>4, <1>5, MountPutFacts
<1>7. /\ Seed(i, key, found) /\ n' = i - 1 /\ bpc' \in {"ancestor", "seed_mount"}
      /\ level' \in {level, 0}
  BY <1>3, <1>4 DEF SeedLink
<1>8. Showing' /\ HasItems' /\ ~Walking' /\ bpc' \notin Labels /\ bpc' # "sizes"
      /\ n' \in 0..Len(items')
  BY <1>1, <1>2, <1>3, <1>7 DEF Showing, HasItems, Walking, Labels
<1>9. /\ Steady /\ lru' = CachePut(lru, key, found)
      /\ \A k \in Key : k # key /\ Unsettled(k) => Unsettled(k)'
      /\ found.obj = "EIO" =>
           \A x \in Elems(lru) : x.key = key /\ ~(Unsettled(key) => Unsettled(key)') =>
             ~Good' /\ FirstOf(i)
  BY <1>1, <1>2, <1>3, <1>4, <1>6, <1>7, <1>8, SeedFacts
<1>10. UNCHANGED <<encoding, gpc>> /\ (Good' => Good)
  BY <1>9, SteadyFacts
<1>11. key[1] = "mount"
  BY <1>4
<1>12. PutGood(key, found)
  <2>1. CASE found.obj = "EIO"
    BY <1>9, <1>11, <2>1 DEF PutGood, RawOK
  <2>2. CASE found.obj # "EIO"
    <3>1. PICK y : y = [key |-> key, ent |-> found]
      OBVIOUS
    <3>2. y.key = key /\ y.ent = found
      BY <3>1
    <3>3. RawOK(y)' /\ (Good' => NodeOK(y)')
      BY <1>6, <1>10, <1>11, <2>2, <3>2 DEF RawOK, NodeOK
    <3> QED BY <2>2, <3>2, <3>3 DEF PutGood
  <2> QED BY <2>1, <2>2
<1>13. CacheInv' /\ LruOK(lru')
  BY <1>6, <1>9, <1>12, PutOK
<1>14. RestType'
  <2>1. level' \in Nat
    BY <1>1, <1>7 DEF OpType, RestType
  <2> QED BY <1>1, <1>2, <1>3, <1>7, <2>1 DEF OpType, RestType
<1>15. ItemsOf(Listing[encoding][dir])' /\ (Good' => \A j \in 1..Len(items') : SizeOK(j)')
  BY <1>1, <1>2, <1>9, ItemsStay
<1> QED BY <1>1, <1>2, <1>8, <1>9, <1>13, <1>14, <1>15, ListingGoesOn

\* The chain of ancestors inserts nothing of the listing.
LEMMA ChainGoesOn ==
  ASSUME IInv, Showing, bpc' \in {"ancestor", "seed_mount"},
         UNCHANGED <<gui, thread, running, walking, after, found, dir, items, n,
                     straddled, misled>>,
         LruOK(lru'), CacheInv', chained' \in BOOLEAN, level' \in Nat
  PROVE  IInv'
<1>1. HasItems /\ bpc # "sizes"
  BY DEF HasItems, Showing
<1>2. TypeOK /\ OpType /\ n \in 0..Len(items)
  BY <1>1, AtListing DEF IInv, ItemsInv
<1>3. Steady
  BY <1>2, SteadyStill
<1>4. HasItems' /\ ~Walking' /\ bpc' \notin Labels /\ bpc' # "sizes" /\ n' \in 0..Len(items')
  BY <1>2 DEF HasItems, Showing, Walking, Labels
<1>5. RestType'
  BY <1>2 DEF OpType, RestType
<1>6. ItemsOf(Listing[encoding][dir])' /\ (Good' => \A j \in 1..Len(items') : SizeOK(j)')
  BY <1>1, <1>3, ItemsStay
<1> QED BY <1>1, <1>3, <1>4, <1>5, <1>6, ListingGoesOn

LEMMA AncestorStep ==
  ASSUME IInv, Ancestor
  PROVE  IInv'
<1>1. /\ TypeOK /\ LruOK(lru) /\ OpType /\ bpc = "ancestor" /\ Showing
      /\ bpc # "seed_raw" /\ bpc # "idle"
      /\ level \in Nat /\ chained \in BOOLEAN
  <2>1. bpc = "ancestor" /\ Showing /\ HasItems
    BY DEF Ancestor, Showing, HasItems
  <2> QED BY <2>1, AtListing DEF OpType, RestType
<1>2. UNCHANGED <<gui, thread, running, found, dir, items, n, straddled, misled>>
  BY DEF Ancestor
<1>3. Steady
  BY <1>1, <1>2, SteadyStill
<1>4. PICK key : key = <<"mount", AncestorPath>>
  OBVIOUS
<1>5. CASE level <= Len(thread[running].path) /\ Holds(lru, key)
  <2>1. /\ lru' = Touch(lru, key) /\ level' = level + 1
        /\ chained' = (chained \/ Cached(lru, key).obj \notin Errors)
        /\ bpc' = "ancestor" /\ UNCHANGED <<walking, after>>
    BY <1>1, <1>4, <1>5 DEF Ancestor, walk
  <2>2. LruOK(lru') /\ \A y \in Elems(lru') : y \in Elems(lru)
    BY <1>1, <1>5, <2>1, TouchFacts
  <2>3. Showing'
    BY <2>1 DEF Showing
  <2>4. \A k : Unsettled(k) => Unsettled(k)'
    BY <1>1, <1>2, <2>3, ShowingKept
  <2>5. CacheInv'
    BY <1>3, <2>2, <2>4, EntriesOK DEF IInv
  <2>6. chained' \in BOOLEAN
    BY <1>1, <2>1, Zenon
  <2>7. level' \in Nat
    BY <1>1, <2>1
  <2> QED BY <1>1, <1>2, <2>1, <2>2, <2>5, <2>6, <2>7, ChainGoesOn
<1>6. CASE level <= Len(thread[running].path) /\ ~Holds(lru, key)
  <2>1. StartWalk(AncestorPath, "ancestor_put") /\ UNCHANGED <<lru, chained, level>>
    <3>1. thread[running].path \in Seq(Names)
      BY <1>1, PathTypes, FuseCacheAssumption
    <3>2. ~(level > Len(thread[running].path))
      BY <1>1, <1>6, <3>1
    <3>3. ~Holds(lru, <<"mount", AncestorPath>>)
      BY <1>4, <1>6
    <3> QED BY <3>2, <3>3, Zenon DEF Ancestor
  <2>2. bpc' = "raw_get" /\ after' = "ancestor_put" /\ walking' = Begin[AncestorPath]
    BY <2>1 DEF StartWalk
  <2>3. Goal' = AncestorPath
    BY <1>2, <2>1, <2>2 DEF Goal, AncestorPath
  <2>4. level \in 0..Len(thread[running].path)
    <3>1. thread[running].path \in Seq(Names)
      BY <1>1, PathTypes, FuseCacheAssumption
    <3> QED BY <1>1, <1>6, <3>1
  <2>5. AncestorPath \in Paths
    BY <1>1, <2>4, PathTypes
  <2>6. UNCHANGED <<lru, gui, thread, running, found, listing, straddled, misled>>
    BY <1>2, <2>1 DEF listing
  <2> QED BY <1>1, <2>2, <2>3, <2>4, <2>5, <2>6, WalkStarts
<1>7. CASE ~(level <= Len(thread[running].path))
  <2>1. bpc' = "seed_mount" /\ UNCHANGED <<lru, walking, after, chained, level>>
    BY <1>7 DEF Ancestor, walk
  <2>2. Showing'
    BY <2>1 DEF Showing
  <2>3. \A k : Unsettled(k) => Unsettled(k)'
    BY <1>1, <1>2, <2>2, ShowingKept
  <2>4. CacheInv'
    BY <1>3, <2>1, <2>3, EntriesOK DEF IInv
  <2> QED BY <1>1, <1>2, <2>1, <2>4, ChainGoesOn
<1> QED BY <1>5, <1>6, <1>7

LEMMA AncestorPutStep ==
  ASSUME IInv, AncestorPut
  PROVE  IInv'
<1>1. /\ TypeOK /\ LruOK(lru) /\ OpType /\ bpc = "ancestor_put" /\ Showing /\ bpc \in Labels
      /\ bpc # "seed_raw" /\ bpc # "idle"
      /\ level \in Nat /\ chained \in BOOLEAN /\ after = "ancestor_put"
  <2>1. bpc = "ancestor_put" /\ Showing /\ HasItems /\ bpc \in Labels
    BY DEF AncestorPut, Showing, HasItems, Labels
  <2>2. TypeOK /\ LruOK(lru) /\ OpType /\ bpc # "idle"
    BY <2>1, AtListing
  <2>3. after = "ancestor_put"
    BY <2>1, <2>2 DEF IInv, OpInv
  <2> QED BY <2>1, <2>2, <2>3 DEF OpType, RestType
<1>2. /\ UNCHANGED <<gui, thread, running, walking, after, found, dir, items, n>>
      /\ UNCHANGED <<straddled, misled>>
      /\ bpc' = "ancestor" /\ level' = level + 1
      /\ chained' = (chained \/ found.obj \notin Errors)
  BY DEF AncestorPut, walk
<1>3. Steady /\ UNCHANGED <<encoding, gpc>> /\ (Good' => Good)
  BY <1>1, <1>2, SteadyStill, SteadyFacts
<1>4. PICK key : key = <<"mount", AncestorPath>>
  OBVIOUS
<1>5. Goal = AncestorPath
  BY <1>1 DEF Goal
<1>6. /\ key \in Key /\ found \in Entry
      /\ Good => \/ found \in Reported(Truth(encoding, key))
                 \/ found.obj = "EIO" /\ thread[running].io
  BY <1>1, <1>4, <1>5, MountPutFacts
<1>7. lru' = CachePut(lru, key, found) /\ key[1] = "mount"
  BY <1>4 DEF AncestorPut
<1>8. \A k : Unsettled(k) => Unsettled(k)'
  <2>1. Showing'
    BY <1>2 DEF Showing
  <2> QED BY <1>1, <1>2, <2>1, ShowingKept
<1>9. PutGood(key, found)
  <2>1. CASE found.obj = "EIO"
    BY <1>8, <2>1 DEF PutGood
  <2>2. CASE found.obj # "EIO"
    <3>1. PICK y : y = [key |-> key, ent |-> found]
      OBVIOUS
    <3>2. y.key = key /\ y.ent = found
      BY <3>1
    <3>3. RawOK(y)' /\ (Good' => NodeOK(y)')
      BY <1>3, <1>6, <1>7, <2>2, <3>2 DEF RawOK, NodeOK
    <3> QED BY <2>2, <3>2, <3>3 DEF PutGood
  <2> QED BY <2>1, <2>2
<1>10. CacheInv' /\ LruOK(lru')
  BY <1>3, <1>6, <1>7, <1>8, <1>9, PutOK
<1>11. chained' \in BOOLEAN
  BY <1>1, <1>2, Zenon
<1>12. level' \in Nat
  BY <1>1, <1>2
<1> QED BY <1>1, <1>2, <1>10, <1>11, <1>12, ChainGoesOn

-----------------------------------------------------------------------------
(* The GUI's steps, and the theorems.                                      *)

\* The decoding changes while no operation runs: the cache is out of date, and
\* nobody is promised anything.
LEMMA SetEncodingStep ==
  ASSUME IInv, SetEncoding
  PROVE  IInv'
<1>1. /\ thread \in [Threads -> ThreadType] /\ LruOK(lru) /\ OpType
      /\ changes \in 0..MaxChanges /\ straddled \in BOOLEAN /\ misled \in BOOLEAN
  BY TypeParts DEF IInv
<1>2. /\ bpc = "idle" /\ encoding' \in Encodings /\ gpc' = "invalidate"
      /\ changes < MaxChanges /\ changes' = changes + 1
      /\ thread' = [t \in Threads |-> [thread[t] EXCEPT !.clean = FALSE]]
      /\ UNCHANGED <<lru, op, straddled, misled>>
  BY DEF SetEncoding
<1>3. UNCHANGED <<bpc, running, walking, after, found, dir, items, n, level, chained>>
  BY <1>2 DEF op, walk, listing
<1>4. changes' \in 0..MaxChanges
  BY <1>1, <1>2, FuseCacheAssumption
<1>5. ASSUME NEW t \in Threads
      PROVE  \E new \in ThreadType :
               /\ [thread[t] EXCEPT !.clean = FALSE] = new /\ new.clean = FALSE
               /\ new.kind = thread[t].kind /\ new.path = thread[t].path
  <2>1. PICK old \in ThreadType : old = thread[t]
    BY <1>1
  <2>2. PICK a, b, c, d, e, f, g :
          old = [pc |-> a, kind |-> b, path |-> c, ent |-> d, clean |-> e, io |-> f, ops |-> g]
    BY <2>1 DEF ThreadType
  <2>3. PICK no \in BOOLEAN : no = FALSE
    OBVIOUS
  <2>4. PICK new : new = [pc |-> a, kind |-> b, path |-> c, ent |-> d, clean |-> no,
                          io |-> f, ops |-> g]
    OBVIOUS
  <2>5. [old EXCEPT !.clean = no] = new
    BY <2>2, <2>4
  <2>6. /\ a \in {"idle", "queued"} /\ b \in {"getattr", "readdir"} /\ c \in Paths
        /\ d \in Entry /\ f \in BOOLEAN /\ g \in 0..MaxOps
    BY <2>1, <2>2 DEF ThreadType
  <2>7. new \in ThreadType
    BY <2>4, <2>6 DEF ThreadType
  <2>8. new.clean = FALSE
    BY <2>4, <2>3
  <2>9. [old EXCEPT !.clean = FALSE] = new
    BY <2>5, <2>3
  <2>10. new.kind = old.kind /\ new.path = old.path
    BY <2>2, <2>4
  <2> QED BY <2>1, <2>7, <2>8, <2>9, <2>10
<1>6. /\ thread' \in [Threads -> ThreadType]
      /\ \A t \in Threads : /\ thread'[t].clean = FALSE
                            /\ thread'[t].kind = thread[t].kind
                            /\ thread'[t].path = thread[t].path
  BY <1>2, <1>5
<1>7. OpInv' /\ ItemsInv' /\ FoundInv' /\ CacheInv'
  <2>1. bpc' = "idle" /\ ~HasItems'
    BY <1>2, <1>3 DEF HasItems, Showing
  <2>2. gpc' # "idle" /\ ~Good'
    BY <1>2 DEF Good
  <2> QED BY <2>1, <2>2 DEF OpInv, ItemsInv, FoundInv, CacheInv
<1>8. AnswerInv'
  <2>1. \A t \in Threads : thread[t].kind = "readdir" => thread[t].path \in Browsed
    BY DEF IInv, AnswerInv
  <2>2. \A t \in Threads : AnsweredRight(t)'
    BY <1>6 DEF AnsweredRight
  <2> QED BY <1>6, <2>1, <2>2 DEF AnswerInv
<1>9. OpType'
  BY <1>1, <1>3 DEF OpType, RestType
<1>10. TypeOK'
  BY <1>1, <1>2, <1>4, <1>6, <1>9, TypePartsPrimed
<1> QED BY <1>7, <1>8, <1>10 DEF IInv

\* The cache is cleared: what is wrong now is in the hands of the operation
\* that runs, if one does.
LEMMA InvalidateStep ==
  ASSUME IInv, Invalidate
  PROVE  IInv'
<1>1. /\ thread \in [Threads -> ThreadType] /\ LruOK(lru) /\ OpType /\ encoding \in Encodings
      /\ changes \in 0..MaxChanges
  BY TypeParts DEF IInv
<1>2. /\ gpc = "invalidate" /\ lru' = <<>> /\ straddled' = (bpc # "idle") /\ misled' = FALSE
      /\ gpc' = "idle" /\ UNCHANGED <<encoding, changes, thread, op>>
  BY DEF Invalidate
<1>3. UNCHANGED <<bpc, running, walking, after, found, dir, items, n, level, chained>>
  BY <1>2 DEF op, walk, listing
<1>4. LruOK(lru') /\ Elems(lru') = {}
  <2>1. lru' \in Seq(Node) /\ Len(lru') = 0
    BY <1>2
  <2> QED BY <2>1, FuseCacheAssumption DEF LruOK, Elems
<1>5. (HasItems' <=> HasItems) /\ (Walking' <=> Walking)
  BY <1>3 DEF HasItems, Showing, Walking
<1>6. OpInv'
  BY <1>2, <1>3, <1>5 DEF IInv, OpInv
<1>7. ItemsInv'
  <2>1. \A i, listed : ItemOf(i, listed)' <=> ItemOf(i, listed)
    BY <1>3 DEF ItemOf
  <2> QED BY <1>2, <1>3, <1>5, <2>1 DEF IInv, ItemsInv, ItemsOf
<1>8. FoundInv'
  <2>1. SUFFICES ASSUME Good' PROVE FoundInv'
    BY DEF FoundInv
  <2>2. bpc' = "idle"
    BY <1>2, <1>3, <2>1 DEF Good
  <2>3. ~Walking' /\ ~HasItems' /\ bpc' \notin Labels /\ bpc' # "list"
    BY <2>2 DEF HasItems, Showing, Walking, Labels
  <2> QED BY <2>3 DEF FoundInv
<1>9. CacheInv'
  BY <1>4 DEF CacheInv
<1>10. AnswerInv'
  <2>1. \A t \in Threads : ~thread'[t].clean
    BY <1>2 DEF IInv, AnswerInv
  <2>2. \A t \in Threads : thread'[t].kind = "readdir" => thread'[t].path \in Browsed
    BY <1>2 DEF IInv, AnswerInv
  <2>3. \A t \in Threads : AnsweredRight(t)'
    BY <2>1 DEF AnsweredRight
  <2> QED BY <1>2, <2>1, <2>2, <2>3 DEF AnswerInv
<1>11. OpType'
  BY <1>1, <1>3 DEF OpType, RestType
<1>12. straddled' \in BOOLEAN /\ misled' \in BOOLEAN
  BY <1>2, Zenon
<1>13. TypeOK'
  BY <1>1, <1>2, <1>4, <1>11, <1>12, TypePartsPrimed
<1> QED BY <1>6, <1>7, <1>8, <1>9, <1>10, <1>13 DEF IInv

\* At first the cache is empty and nothing runs.
LEMMA InitInv ==
  ASSUME Init
  PROVE  IInv
<1>1. Failed("EIO") \in Entry
  BY FailedFacts DEF Errors
<1>2. Idle \in ThreadType /\ ~Idle.clean /\ Idle.kind = "getattr"
  BY <1>1, FuseCacheAssumption DEF Idle, ThreadType
<1>3. /\ thread \in [Threads -> ThreadType]
      /\ \A t \in Threads : ~thread[t].clean /\ thread[t].kind = "getattr"
  BY <1>2 DEF Init
<1>4. LruOK(lru) /\ Elems(lru) = {}
  <2>1. lru \in Seq(Node) /\ Len(lru) = 0
    BY DEF Init
  <2> QED BY <2>1, FuseCacheAssumption DEF LruOK, Elems
<1>5. bpc = "idle" /\ ~Walking /\ ~HasItems /\ bpc \notin Labels /\ bpc # "list"
  BY DEF Init, HasItems, Showing, Walking, Labels
<1>6. OpType
  <2>1. Root \in Paths
    BY FuseCacheAssumption, SMTT(30)
  <2>2. Begin[Root] \in Walks
    BY <2>1, WalkAssumption
  <2>3. chained \in BOOLEAN
    BY Zenon DEF Init
  <2> QED BY <1>1, <2>1, <2>2, <2>3 DEF Init, OpType, RestType, Pcs, Labels
<1>7. TypeOK
  <2>1. encoding \in Encodings /\ gpc \in {"idle", "invalidate"} /\ changes \in 0..MaxChanges
    BY FuseCacheAssumption DEF Init
  <2>2. straddled \in BOOLEAN /\ misled \in BOOLEAN
    BY Zenon DEF Init
  <2> QED BY <1>3, <1>4, <1>6, <2>1, <2>2, TypeParts
<1>8. OpInv /\ ItemsInv /\ FoundInv
  BY <1>5 DEF OpInv, ItemsInv, FoundInv
<1>9. CacheInv /\ AnswerInv
  BY <1>3, <1>4 DEF CacheInv, AnswerInv, AnsweredRight
<1> QED BY <1>7, <1>8, <1>9 DEF IInv

\* Every step keeps the invariant.
LEMMA NextInv ==
  ASSUME IInv, [Next]_vars
  PROVE  IInv'
<1>1. CASE \E t \in Threads : GetattrHit(t) \/ GetattrMiss(t) \/ Readdir(t)
  BY <1>1, AdapterStep
<1>2. CASE BackendStep
  <2>1. CASE \E t \in Threads : Take(t)
    BY <2>1, TakeStep
  <2>2. CASE MountGet \/ RawGet \/ RawPut \/ MountPut
    BY <2>2, MountGetStep, RawGetStep, RawPutStep, MountPutStep
  <2>3. CASE List \/ Sizes
    BY <2>3, ListStep, SizesStep
  <2>4. CASE SeedRaw \/ SeedMount \/ SeedLink
    BY <2>4, SeedRawStep, SeedMountStep, SeedLinkStep
  <2>5. CASE Ancestor \/ AncestorPut
    BY <2>5, AncestorStep, AncestorPutStep
  <2> QED BY <1>2, <2>1, <2>2, <2>3, <2>4, <2>5 DEF BackendStep
<1>3. CASE SetEncoding \/ Invalidate
  BY <1>3, SetEncodingStep, InvalidateStep
<1>4. CASE UNCHANGED vars
  <2>1. UNCHANGED <<lru, gui, thread, op, straddled, misled>>
    BY <1>4 DEF vars
  <2>2. TypeOK /\ LruOK(lru) /\ thread \in [Threads -> ThreadType] /\ OpType
    BY TypeParts DEF IInv
  <2>3. Steady
    BY <2>1, <2>2, SteadyStill
  <2>4. OpInv' /\ ItemsInv' /\ FoundInv' /\ (\A key : Unsettled(key) => Unsettled(key)')
    BY <2>1, <2>3, OperationKept
  <2>5. CacheInv'
    BY <2>1, <2>3, <2>4, EntriesOK DEF IInv
  <2>6. AnswerInv'
    BY <2>1, <2>3, AnswersKept
  <2>7. OpType'
    BY <2>1, <2>2 DEF OpType, RestType, op, walk, listing
  <2>8. TypeOK'
    BY <2>1, <2>2, <2>3, <2>7, TypeKept
  <2> QED BY <2>4, <2>5, <2>6, <2>8 DEF IInv
<1> QED BY <1>1, <1>2, <1>3, <1>4 DEF Next

\* The invariant holds in every state the mount reaches.
THEOREM Inductive == Spec => []IInv
<1>1. Init => IInv
  BY InitInv
<1>2. IInv /\ [Next]_vars => IInv'
  BY NextInv
<1> QED BY <1>1, <1>2, PTL DEF Spec

\* cache_put() and cache_get() keep map and list in step and the limit, whatever
\* the threads do: TypeOK holds throughout.
THEOREM TypeCorrect == Spec => []TypeOK
<1>1. IInv => TypeOK
  BY DEF IInv
<1> QED BY <1>1, Inductive, PTL

\* What is in the cache is one of its elements.
LEMMA ElemKeys ==
  ASSUME NEW i \in 1..Len(lru)
  PROVE  lru[i] \in Elems(lru)
BY DEF Elems

\* Only the serialized side inserts: once fusefs_invalidate() has cleared the
\* cache, no operation, not even one it hit, leaves a physical path with what
\* the old decoding said of it.
THEOREM RawStaysCurrent == Spec => []RawCurrent
<1>1. IInv => RawCurrent
  <2>1. SUFFICES ASSUME IInv, gpc = "idle", NEW i \in 1..Len(lru), lru[i].key[1] = "raw",
                        ~Unsettled(lru[i].key)
                 PROVE  \/ lru[i].ent.obj = Lookup(encoding, lru[i].key[2])
                        \/ /\ Lookup(encoding, lru[i].key[2]) \in Links
                           /\ lru[i].ent.obj \in Namesakes(encoding, lru[i].key[2])
    BY DEF RawCurrent
  <2>2. RawOK(lru[i])
    BY <2>1, ElemKeys DEF IInv, CacheInv
  <2> QED BY <2>1, <2>2 DEF RawOK
<1> QED BY <1>1, Inductive, PTL

\* Unless fusefs_invalidate() hit a running operation, or the failure of a link
\* left the entry of its namesake, every entry is what grub answers under the
\* encoding in force, a size perhaps unknown, and every operation that no change
\* of the decoding touched is answered with that, or with an error of its own.
THEOREM CurrentOtherwise == Spec => []CurrentUnlessStraddled
<1>1. IInv => CurrentUnlessStraddled
  <2>1. SUFFICES ASSUME IInv, ~straddled, ~misled PROVE CurrentUnlessStraddled
    BY DEF CurrentUnlessStraddled
  <2>2. ASSUME gpc = "idle", NEW i \in 1..Len(lru)
        PROVE  \/ Unsettled(lru[i].key)
               \/ lru[i].ent \in Reported(Truth(encoding, lru[i].key))
    <3>1. NodeOK(lru[i])
      BY <2>1, <2>2, ElemKeys DEF IInv, CacheInv, Good
    <3> QED BY <3>1 DEF NodeOK
  <2>3. \A t \in Threads : AnsweredRight(t)
    BY <2>1, Zenon DEF IInv, AnswerInv
  <2> QED BY <2>2, <2>3 DEF CurrentUnlessStraddled
<1> QED BY <1>1, Inductive, PTL
=============================================================================
