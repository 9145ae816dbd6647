----------------------------- MODULE DiskCache -----------------------------
(***************************************************************************)
(* grub_disk_read() and the cache it reads through                         *)
(* (grub-core/kern/disk.c), over devices that lie on other devices: a lost *)
(* volume or an opened encrypted one reads its parent with                 *)
(* grub_disk_read() too, so a read is a stack of reads that share one      *)
(* cache, one grub_errno and one depth counter.  The backend thread runs   *)
(* one read at a time; a step is one device read or one turn of a loop.    *)
(*                                                                         *)
(* Offsets are whole sectors; a cache entry holds a unit of Unit sectors.  *)
(* A sector's content is the token <<device, sector>>, and what a device   *)
(* makes of its parent's sectors (an offset, a decryption) turns the right *)
(* parent token into its own and anything else into Garbage.               *)
(***************************************************************************)
EXTENDS Integers, Sequences, FiniteSets

CONSTANTS
  NumDevs,     \* devices are 1..NumDevs, parents before children
  Kind,        \* "host", "lost" or "crypt"
  Parent,      \* the device below, 0 below a host disk
  Start,       \* where a device begins on its parent, in sectors
  Size,        \* total_sectors
  BadSets,     \* the sectors of host disks that cannot be read: one of these
  IdMod,       \* the ids a kind of device can count to
  Unit,        \* GRUB_DISK_CACHE_SIZE
  CacheNum,    \* GRUB_DISK_CACHE_NUM
  EvictedMax,  \* GRUB_CACHE_EVICTED_MAX
  MaxAgglomerate,
  MaxDepth     \* MAX_READ_RECURSION_DEPTH

Devs == 1..NumDevs

ASSUME DiskCacheAssumption ==
  /\ NumDevs \in Nat
  /\ Kind \in [Devs -> {"host", "lost", "crypt"}]
  /\ Parent \in [Devs -> 0..NumDevs]
  /\ \A d \in Devs : Parent[d] < d /\ (Parent[d] = 0 <=> Kind[d] = "host")
  /\ Start \in [Devs -> Nat] /\ Size \in [Devs -> Nat]
  /\ \A d \in Devs : Parent[d] # 0 => Start[d] + Size[d] <= Size[Parent[d]]
  /\ \A bad \in BadSets : bad \subseteq Devs \X Nat
  /\ IdMod \in [{"host", "lost", "crypt"} -> Nat \ {0}]
  /\ {Unit, CacheNum, EvictedMax, MaxAgglomerate, MaxDepth} \subseteq Nat \ {0}

VARIABLES
  attached,    \* devices that can be opened
  id,          \* disk->id of every device ever attached, -1 before
  last_id,     \* the next id of a kind
  bad,         \* unreadable sectors of host disks
  cache,       \* grub_disk_cache_table
  stack,       \* reads under way, the outermost first
  depth,       \* read_recursion_depth
  errno,       \* grub_errno
  ret,         \* what the device read of the innermost frame returned
  req,         \* the last read asked for from outside
  result,      \* and its outcome, <<>> while it runs and when it is used
  deep         \* a read was refused for its depth since the cache was dropped

devices == <<attached, id, last_id, bad>>
vars == <<devices, cache, stack, depth, errno, ret, req, result, deep>>

Garbage == <<0, 0>>
Tokens(d, first, n) == [i \in 1..n |-> <<d, first + i - 1>>]

\* struct grub_disk_cache: a key, and data that may be missing.
NoData == <<>>
Entry(key, data) == [key |-> key, data |-> data]
Empty == [main |-> Entry(<<0, 0, 0>>, NoData), chain |-> <<>>]
NoRet == <<>>

Init ==
  /\ attached = {d \in Devs : Kind[d] = "host"}
  /\ id = [d \in Devs |-> IF Kind[d] = "host" THEN d - 1 ELSE -1]
  /\ last_id = [k \in {"lost", "crypt"} |-> 0]
  /\ bad \in BadSets
  /\ cache = [b \in 0..(CacheNum - 1) |-> Empty]
  /\ stack = <<>> /\ depth = 0 /\ errno = "none" /\ ret = NoRet
  /\ req = <<>> /\ result = <<>>
  /\ deep = FALSE

-----------------------------------------------------------------------------
(* Devices come and go between two reads.                                  *)

Idle == stack = <<>> /\ result = <<>>

\* Faulty: the smallest id no attached device has.
AttachReuse(d) ==
  LET used == {id[e] : e \in {f \in attached : Kind[f] = Kind[d]}}
  IN
  /\ Idle
  /\ id[d] = -1 /\ Parent[d] \in attached
  /\ attached' = attached \cup {d}
  /\ id' = [id EXCEPT ![d] = CHOOSE n \in 0..NumDevs :
              n \notin used /\ \A k \in 0..(n - 1) : k \in used]
  /\ UNCHANGED <<last_id, bad, cache, stack, depth, errno, ret, req, result, deep>>

\* rover_lost_add_ex(), grub_lostdisk_probe(), grub_cryptodisk_insert(): the
\* next id; last_cryptodisk_id is one byte wide.
Attach(d) ==
  /\ Idle
  /\ id[d] = -1 /\ Parent[d] \in attached
  /\ attached' = attached \cup {d}
  /\ id' = [id EXCEPT ![d] = last_id[Kind[d]]]
  /\ last_id' = [last_id EXCEPT ![Kind[d]] = (@ + 1) % IdMod[Kind[d]]]
  /\ UNCHANGED <<bad, cache, stack, depth, errno, ret, req, result, deep>>

\* rover_lost_del(); an encrypted volume stays, and so does a parent in use.
Detach(d) ==
  /\ Idle
  /\ d \in attached /\ Kind[d] = "lost"
  /\ \A e \in attached : Parent[e] # d
  /\ attached' = attached \ {d}
  /\ UNCHANGED <<id, last_id, bad, cache, stack, depth, errno, ret, req, result, deep>>

\* grub_disk_open() more than two seconds after the last use: the data of
\* every slot and the whole chains go (grub_disk_cache_invalidate_all()).
OpenExpired ==
  /\ Idle
  /\ cache' = [b \in DOMAIN cache |->
       [main |-> Entry(cache[b].main.key, NoData), chain |-> <<>>]]
  /\ deep' = FALSE
  /\ UNCHANGED <<devices, stack, depth, errno, ret, req, result>>

-----------------------------------------------------------------------------
(* The cache.                                                              *)

DevId == [host |-> 12, lost |-> 18, crypt |-> 10]

Key(d, unit) == <<DevId[Kind[d]], id[d], unit>>

\* grub_disk_cache_get_index().
Index(key) == (key[1] * 524287 + key[2] * 2606459 + key[3] \div Unit) % CacheNum

Entries(bucket) == <<bucket.main>> \o bucket.chain

\* grub_disk_cache_fetch(): the data of the first entry with this key.
Fetch(key) ==
  LET all == Entries(cache[Index(key)])
      hits == {i \in 1..Len(all) : all[i].key = key}
  IN  IF hits = {} THEN NoData
      ELSE all[CHOOSE i \in hits : \A j \in hits : i <= j].data

\* An evicted key heads the chain, which keeps EvictedMax of its entries.
Evict(key, chain) ==
  <<Entry(key, NoData)>>
    \o SubSeq(chain, 1, IF Len(chain) < EvictedMax THEN Len(chain) ELSE EvictedMax)

\* Faulty: an evicted key is not looked for.
StoredNoSearch(bucket, key, data, memory) ==
  IF memory = "noData"
  THEN [bucket EXCEPT !.main.data = NoData]
  ELSE [main |-> Entry(key, data),
        chain |-> IF bucket.main.data = NoData \/ memory = "noEntry"
                  THEN bucket.chain
                  ELSE Evict(bucket.main.key, bucket.chain)]

\* grub_disk_cache_store(): an evicted key is refilled where it is, any other
\* takes the slot; either allocation may fail.
Stored(bucket, key, data, memory) ==
  LET found == {i \in 1..Len(bucket.chain) : bucket.chain[i].key = key}
      first == CHOOSE i \in found : \A j \in found : i <= j
      new == IF memory = "noData" THEN NoData ELSE data
  IN  IF found # {}
      THEN [bucket EXCEPT !.chain[first].data = new]
      ELSE IF memory = "noData"
      THEN [bucket EXCEPT !.main.data = NoData]
      ELSE [main |-> Entry(key, data),
            chain |-> IF bucket.main.data = NoData \/ memory = "noEntry"
                      THEN bucket.chain
                      ELSE Evict(bucket.main.key, bucket.chain)]

\* Making room for an evicted key forgets any error, its own or an older one;
\* a failed allocation of the data is left in grub_errno.
StoreErrno(bucket, key, memory) ==
  LET found == \E i \in 1..Len(bucket.chain) : bucket.chain[i].key = key
  IN  IF memory = "noData" THEN "memory"
      ELSE IF ~found /\ bucket.main.data # NoData THEN "none"
      ELSE errno

Store(key, data) ==
  \E memory \in {"enough", "noEntry", "noData"} :
    /\ cache' = [cache EXCEPT ![Index(key)] = Stored(@, key, data, memory)]
    /\ errno' = StoreErrno(cache[Index(key)], key, memory)

-----------------------------------------------------------------------------
(* A read is a frame: where it is, what it has, and the device read it     *)
(* waits for.                                                              *)

Top == stack[Len(stack)]
Below == SubSeq(stack, 1, Len(stack) - 1)

NewFrame(d, sector, n) ==
  [dev |-> d, at |-> sector, left |-> n, buf |-> <<>>, call |-> "none",
   len |-> 0, got |-> <<>>, hit |-> <<>>]

\* A frame goes on behind the sectors DATA.
Advance(f, data) ==
  [f EXCEPT !.buf = @ \o data, !.at = @ + Len(data), !.left = @ - Len(data),
            !.call = "none", !.len = 0]

\* A read returns ERR and DATA to the frames FRAMES, or to its caller.
Deliver(frames, err, data) ==
  /\ stack' = frames
  /\ ret' = IF frames = <<>> THEN NoRet ELSE [err |-> err, data |-> data]
  /\ result' = IF frames = <<>> THEN [err |-> err, data |-> data] ELSE <<>>

InRange(d, sector, n) == sector < Size[d] /\ n <= Size[d] - sector

\* grub_disk_read() begins with grub_errno = ERROR: a range outside the disk is
\* refused before the depth is counted, and too deep a read reports its error
\* in grub_errno alone, with the buffer as it was.
Enter(frames, d, sector, n, error) ==
  \/ /\ ~InRange(d, sector, n)
     /\ errno' = "range"
     /\ Deliver(frames, "range", <<>>)
     /\ UNCHANGED <<depth, deep>>
  \/ /\ InRange(d, sector, n)
     /\ depth + 1 >= MaxDepth
     /\ errno' = "depth"
     /\ Deliver(frames, "none", [i \in 1..n |-> Garbage])
     /\ deep' = TRUE
     /\ UNCHANGED depth
  \/ /\ InRange(d, sector, n)
     /\ depth + 1 < MaxDepth
     /\ depth' = depth + 1
     /\ stack' = Append(frames, NewFrame(d, sector, n))
     /\ errno' = error /\ ret' = NoRet /\ result' = <<>>
     /\ UNCHANGED deep

\* dev->disk_read() for the frame F, with grub_errno = ERROR: a host disk
\* answers, any other device reads its parent (lostdisk_read(),
\* grub_cryptodisk_read()).
DiskRead(f, sector, n, error) ==
  LET frames == Append(Below, f)
      ok == \A i \in sector..(sector + n - 1) : <<f.dev, i>> \notin bad
  IN  IF Parent[f.dev] # 0
      THEN Enter(frames, Parent[f.dev], Start[f.dev] + sector, n, error)
      ELSE /\ errno' = IF ok THEN error ELSE "io"
           /\ Deliver(frames, IF ok THEN "none" ELSE "io",
                IF ok THEN Tokens(f.dev, sector, n) ELSE <<>>)
           /\ UNCHANGED <<depth, deep>>

\* What the device makes of its parent's sectors FIRST, FIRST + 1, ...
FromParent(d, first, data) ==
  IF Parent[d] = 0 THEN data
  ELSE [i \in 1..Len(data) |->
         IF data[i] = <<Parent[d], Start[d] + first + i - 1>>
         THEN <<d, first + i - 1>> ELSE Garbage]

\* The parent was read, but the hash that gives an encrypted sector its
\* initialization vector finds no memory: grub_errno says so, and
\* grub_crypto_gcry_error() returns GRUB_ERR_ACCESS_DENIED.
DecryptFails ==
  /\ stack # <<>> /\ ret # NoRet /\ ret.err = "none"
  /\ Kind[Top.dev] = "crypt"
  /\ errno' = "memory"
  /\ ret' = [err |-> "access", data |-> <<>>]
  /\ UNCHANGED <<devices, cache, stack, depth, req, result, deep>>

\* The innermost read ends.
Return(err, data) ==
  /\ Deliver(Below, err, data)
  /\ depth' = depth - 1
  /\ UNCHANGED <<devices, cache, deep, req>>

-----------------------------------------------------------------------------
(* grub_disk_read_small(): up to the next unit boundary, or the last part. *)

Small(f) == f.left > 0 /\ (f.at % Unit # 0 \/ f.left < Unit)

UnitOf(sector) == sector - (sector % Unit)

SmallLen(f) ==
  IF f.left < Unit - (f.at % Unit) THEN f.left ELSE Unit - (f.at % Unit)

\* The innermost read is not waiting for a device.
Working == stack # <<>> /\ ret = NoRet /\ Top.call = "none"

SmallHit ==
  /\ Working /\ Small(Top)
  /\ LET f == Top
         data == Fetch(Key(f.dev, UnitOf(f.at)))
     IN  /\ data # NoData
         /\ stack' = Append(Below, Advance(f,
              SubSeq(data, (f.at % Unit) + 1, (f.at % Unit) + SmallLen(f))))
  /\ UNCHANGED <<devices, cache, depth, errno, ret, req, result, deep>>

\* "just read necessary data".
ReadPart(f) ==
  DiskRead([f EXCEPT !.call = "part", !.len = SmallLen(f)], f.at, SmallLen(f), "none")

\* The whole unit when it lies wholly before the last sector, else only the
\* sectors asked for.
SmallMiss ==
  /\ Working /\ Small(Top)
  /\ LET f == Top IN
     /\ Fetch(Key(f.dev, UnitOf(f.at))) = NoData
     /\ IF UnitOf(f.at) + Unit < Size[f.dev]
        THEN DiskRead([f EXCEPT !.call = "unit"], UnitOf(f.at), Unit, errno)
        ELSE ReadPart(f)
  /\ UNCHANGED <<devices, cache, req>>

\* A device read for the innermost frame has returned.
Answered(call) == stack # <<>> /\ ret # NoRet /\ Top.call = call

\* Faulty: the error of the unit survives the second attempt.
UnitFailedKeep ==
  /\ Answered("unit") /\ ret.err # "none"
  /\ LET f == Top
         g == [f EXCEPT !.call = "part", !.len = SmallLen(f)]
     IN  DiskRead(g, f.at, SmallLen(f), errno)
  /\ UNCHANGED <<devices, cache, req>>

\* The unit cannot be read; the sectors asked for may still be.
UnitFailed ==
  /\ Answered("unit") /\ ret.err # "none"
  /\ ReadPart(Top)
  /\ UNCHANGED <<devices, cache, req>>

\* No buffer for the unit, or for the sectors asked for.
NoBuffer ==
  /\ \/ Working /\ Small(Top) /\ Fetch(Key(Top.dev, UnitOf(Top.at))) = NoData
     \/ Answered("unit") /\ ret.err # "none"
  /\ errno' = "memory"
  /\ Return("memory", <<>>)

UnitRead ==
  /\ Answered("unit") /\ ret.err = "none"
  /\ LET f == Top
         data == FromParent(f.dev, UnitOf(f.at), ret.data)
     IN  /\ Store(Key(f.dev, UnitOf(f.at)), data)
         /\ stack' = Append(Below, Advance(f,
              SubSeq(data, (f.at % Unit) + 1, (f.at % Unit) + SmallLen(f))))
  /\ ret' = NoRet
  /\ UNCHANGED <<devices, depth, req, result, deep>>

PartRead ==
  /\ Answered("part") /\ ret.err = "none"
  /\ LET f == Top
     IN  stack' = Append(Below, Advance(f, FromParent(f.dev, f.at, ret.data)))
  /\ ret' = NoRet
  /\ UNCHANGED <<devices, cache, depth, errno, req, result, deep>>

-----------------------------------------------------------------------------
(* The loop over whole units.                                              *)

Whole(f) == f.left >= Unit /\ f.at % Unit = 0

\* Agglomerate: the units to read before the first cached one.
Least(S) == CHOOSE n \in S : \A k \in S : n <= k
Agglomerate(f) ==
  LET most == Least({f.left \div Unit, MaxAgglomerate})
  IN  Least({most} \cup {n \in 0..(most - 1) :
                          Fetch(Key(f.dev, f.at + n * Unit)) # NoData})

\* The cached unit the loop stopped at, copied before the devices are read.
RunData(f) ==
  LET n == Agglomerate(f)
  IN  IF n < Least({f.left \div Unit, MaxAgglomerate})
      THEN Fetch(Key(f.dev, f.at + n * Unit)) ELSE NoData

RunCached ==
  /\ Working /\ Whole(Top) /\ Agglomerate(Top) = 0
  /\ stack' = Append(Below, Advance(Top, RunData(Top)))
  /\ UNCHANGED <<devices, cache, depth, errno, ret, req, result, deep>>

RunMiss ==
  /\ Working /\ Whole(Top) /\ Agglomerate(Top) > 0
  /\ LET f == Top
         n == Agglomerate(f) * Unit
     IN  DiskRead([f EXCEPT !.call = "run", !.len = n, !.hit = RunData(f)],
                  f.at, n, errno)
  /\ UNCHANGED <<devices, cache, req>>

RunRead ==
  /\ Answered("run") /\ ret.err = "none"
  /\ LET f == Top
     IN  stack' = Append(Below, [f EXCEPT !.call = "store",
                    !.got = FromParent(f.dev, f.at, ret.data)])
  /\ ret' = NoRet
  /\ UNCHANGED <<devices, cache, depth, errno, req, result, deep>>

\* Each unit of the run goes into the cache, then the cached one is passed.
StoreNext ==
  /\ stack # <<>> /\ Top.call = "store"
  /\ LET f == Top
         unit == SubSeq(f.got, 1, Unit)
         rest == SubSeq(f.got, Unit + 1, Len(f.got))
         g == Advance(f, unit)
     IN  /\ Store(Key(f.dev, f.at), unit)
         /\ stack' = Append(Below,
              IF rest # <<>> THEN [g EXCEPT !.call = "store", !.got = rest]
              ELSE [Advance(g, f.hit) EXCEPT !.got = <<>>, !.hit = <<>>])
  /\ UNCHANGED <<devices, depth, ret, req, result, deep>>

-----------------------------------------------------------------------------
(* The end of a read, and the reads asked for.                             *)

\* "err = grub_errno".
ReadEnds ==
  /\ Working /\ Top.left = 0
  /\ Return(errno, Top.buf)
  /\ UNCHANGED errno

\* Faulty: the depth is given back only by the reads that succeed.
ReadFailsDeeper ==
  /\ \E call \in {"part", "run"} : Answered(call)
  /\ ret.err # "none"
  /\ Deliver(Below, IF Top.call = "part" THEN errno ELSE ret.err, <<>>)
  /\ UNCHANGED <<devices, cache, depth, errno, req, deep>>

\* "goto error": a part gives grub_errno, a run the error of the device.
ReadFails ==
  /\ \E call \in {"part", "run"} : Answered(call)
  /\ ret.err # "none"
  /\ Return(IF Top.call = "part" THEN errno ELSE ret.err, <<>>)
  /\ UNCHANGED errno

\* A file system or a view reads an attached device; "grub_errno is reset on
\* entry" of every call of the facade.
Request(d, sector, n) ==
  /\ Idle
  /\ d \in attached
  /\ req' = <<d, sector, n>>
  /\ Enter(<<>>, d, sector, n, "none")
  /\ UNCHANGED <<devices, cache>>

\* The result is used and the facade's call returns.
Used ==
  /\ result # <<>>
  /\ result' = <<>> /\ req' = <<>> /\ errno' = "none"
  /\ UNCHANGED <<devices, cache, stack, depth, ret, deep>>

SmallStep == SmallHit \/ SmallMiss \/ UnitFailed \/ NoBuffer \/ UnitRead \/ PartRead
RunStep == RunCached \/ RunMiss \/ RunRead \/ StoreNext
ReadStep == SmallStep \/ RunStep \/ DecryptFails \/ ReadEnds \/ ReadFails

Next ==
  \/ \E d \in Devs : Attach(d) \/ Detach(d)
  \/ OpenExpired \/ Used
  \/ \E d \in Devs : \E sector \in 0..Size[d], n \in 1..Size[d] : Request(d, sector, n)
  \/ ReadStep

Spec == Init /\ [][Next]_vars

-----------------------------------------------------------------------------
(* Properties.                                                             *)

Token == {Garbage} \cup (Devs \X Nat)
Key3 == Nat \X Nat \X Nat
EntryType == [key : Key3, data : Seq(Token)]
Errors == {"none", "range", "depth", "io", "memory", "access"}
Frame ==
  [dev : Devs, at : Nat, left : Nat, buf : Seq(Token),
   call : {"none", "unit", "part", "run", "store"}, len : Nat,
   got : Seq(Token), hit : Seq(Token)]

\* Every variable has its type; a cached unit is whole, and no read is asked
\* to give more than it owes.
TypeOK ==
  /\ attached \subseteq Devs /\ id \in [Devs -> Nat \cup {-1}]
  /\ last_id \in [{"lost", "crypt"} -> Nat]
  /\ bad \in BadSets
  /\ cache \in [0..(CacheNum - 1) -> [main : EntryType, chain : Seq(EntryType)]]
  /\ \A b \in DOMAIN cache : \A i \in 1..Len(Entries(cache[b])) :
       Len(Entries(cache[b])[i].data) \in {0, Unit}
  /\ stack \in Seq(Frame) /\ depth \in Nat /\ errno \in Errors
  /\ deep \in BOOLEAN

\* More devices of a kind were attached than it has ids.
IdsUsedUp ==
  \E k \in {"lost", "crypt"} :
    Cardinality({d \in Devs : Kind[d] = k /\ id[d] # -1}) > IdMod[k]

\* A bucket knows a key once, as long as ids are not used up: a second entry
\* would be refilled while grub_disk_cache_fetch() goes on finding the first,
\* and an encrypted volume on another one with its id makes one. And however
\* long a bucket is fought over, its chain stays bounded: one entry more than
\* GRUB_CACHE_EVICTED_MAX, as the new one is not counted.
BucketsSound ==
  \A b \in DOMAIN cache :
    LET all == Entries(cache[b])
    IN  /\ ~IdsUsedUp => \A i, j \in 1..Len(all) : all[i].key = all[j].key => i = j
        /\ Len(cache[b].chain) <= EvictedMax + 1

\* A read that succeeds returned the sectors of its device, from the cache or
\* not, whatever devices left and came, failed or were read through each other,
\* as long as ids are not used up and no read was refused for its depth.
ReadsRight ==
  result # <<>> /\ result.err = "none" /\ ~deep /\ ~IdsUsedUp =>
    result.data = Tokens(req[1], req[2], req[3])

\* The sector of a host disk that a sector of a device lies on.
OnHost[d \in Devs] ==
  [i \in 0..Size[d] |->
    IF Parent[d] = 0 THEN <<d, i>> ELSE OnHost[Parent[d]][Start[d] + i]]

\* "Failed. Instead, just read necessary data": an unreadable sector spoils
\* the reads that ask for it and no other read of its unit, at any depth; only
\* memory can be missing, which a decryption calls "access denied".
GoodSectorsReadable ==
  result # <<>> /\ ~deep /\ InRange(req[1], req[2], req[3])
    /\ (\A i \in req[2]..(req[2] + req[3] - 1) : OnHost[req[1]][i] \notin bad)
      => result.err \in {"none", "memory", "access"}

\* read_recursion_depth counts the reads under way, so that failed reads do
\* not use up the depth of later ones.
DepthBalanced == depth = Len(stack)
=============================================================================
