--------------------------- MODULE DiskCacheProof ---------------------------
(***************************************************************************)
(* Proofs about grub_disk_read() and its cache (DiskCache.tla): for every  *)
(* tree of devices, every size of the cache and every limit of the depth,  *)
(* the count of the depth is exact, a bucket knows a key once, a read that *)
(* succeeds returns the sectors it was asked for, and a bad sector spoils  *)
(* only the reads that ask for it.                                         *)
(***************************************************************************)
EXTENDS DiskCache, FiniteSetTheorems, SequenceTheorems, WellFoundedInduction, TLAPS

(***************************************************************************)
(* The inductive invariant.  A frame does not say what it was asked for;   *)
(* it is where the frame is less what it has, and what it has and owes.    *)
(***************************************************************************)

From(f) == f.at - Len(f.buf)
Owed(f) == f.left + Len(f.buf)

\* What a waiting frame asked its device for.
AskAt(f) == IF f.call = "unit" THEN UnitOf(f.at) ELSE f.at
AskLen(f) == IF f.call = "unit" THEN Unit ELSE f.len

\* The sectors of a run that are not in the cache yet.
Todo(f) == IF f.call = "run" THEN f.len ELSE Len(f.got)
Units(n) == \E k \in Nat \ {0} : n = k * Unit

Waits == {"unit", "part", "run"}

FrameOK(f) ==
  /\ f.at + f.left <= Size[f.dev] /\ Len(f.buf) <= f.at
  /\ f.call = "unit" => Small(f) /\ UnitOf(f.at) + Unit < Size[f.dev]
  /\ f.call = "part" => Small(f) /\ f.len = SmallLen(f)
  /\ f.call \in {"run", "store"} =>
       Units(Todo(f)) /\ Len(f.hit) \in {0, Unit} /\ Todo(f) + Len(f.hit) <= f.left

\* The frame g reads what the frame f waits for.
Link(f, g) ==
  /\ f.call \in Waits /\ Parent[f.dev] # 0 /\ g.dev = Parent[f.dev]
  /\ From(g) = Start[f.dev] + AskAt(f) /\ Owed(g) = AskLen(f)

\* A bucket, its entries, and that it knows each key once.
Bucket == [main : EntryType, chain : Seq(EntryType)]
EntrySet(bucket) == {bucket.main} \cup {bucket.chain[i] : i \in 1..Len(bucket.chain)}
Once(bucket) ==
  /\ \A i \in 1..Len(bucket.chain) : bucket.chain[i].key # bucket.main.key
  /\ \A i, j \in 1..Len(bucket.chain) : bucket.chain[i].key = bucket.chain[j].key => i = j

\* Every variable has its type; a cached unit is whole.
TypeInv ==
  /\ attached \subseteq Devs /\ id \in [Devs -> Nat \cup {-1}]
  /\ last_id \in [{"lost", "crypt"} -> Nat]
  /\ bad \in BadSets
  /\ cache \in [0..(CacheNum - 1) -> Bucket]
  /\ \A b \in 0..(CacheNum - 1) : \A e \in EntrySet(cache[b]) : Len(e.data) \in {0, Unit}
  /\ stack \in Seq(Frame) /\ depth \in Nat /\ errno \in Errors /\ deep \in BOOLEAN

\* A device that is attached has an id, and so has the one below it.
DeviceInv ==
  /\ \A d \in attached : id[d] # -1 /\ (Parent[d] # 0 => Parent[d] \in attached)
  /\ \A d \in Devs : Kind[d] = "host" => id[d] = d - 1

\* Ids are given in order until they are used up.
Ever(k) == {d \in Devs : Kind[d] = k /\ id[d] # -1}
IdInv ==
  \A k \in {"lost", "crypt"} : Cardinality(Ever(k)) <= IdMod[k] =>
    /\ last_id[k] = Cardinality(Ever(k)) % IdMod[k]
    /\ \A d \in Ever(k) : id[d] < Cardinality(Ever(k))
    /\ \A d, e \in Ever(k) : id[d] = id[e] => d = e

\* The chains are short, and a key with data is one of a device that was
\* attached.
KeyOf(e) == \E d \in Devs, u \in Nat : id[d] # -1 /\ e.key = Key(d, u)
CacheInv ==
  \A b \in 0..(CacheNum - 1) :
    /\ Len(cache[b].chain) <= EvictedMax + 1
    /\ ~IdsUsedUp => Once(cache[b])
    /\ \A e \in EntrySet(cache[b]) : e.data # NoData => KeyOf(e)

\* What a frame is about to store is not in the slot it goes to.
Absent(key) ==
  cache[Index(key)].main.key = key => cache[Index(key)].main.data = NoData
FrameAbsent(f) ==
  /\ f.call = "unit" => Absent(Key(f.dev, UnitOf(f.at)))
  /\ f.call \in {"run", "store"} =>
       \A k \in Nat : k * Unit < Todo(f) => Absent(Key(f.dev, f.at + k * Unit))

\* Every sector in the cache and in a frame is the right one.
Good == ~deep /\ ~IdsUsedUp
EntryRight(e) ==
  e.data # NoData =>
    \A d \in Devs, u \in Nat : id[d] # -1 /\ e.key = Key(d, u) => e.data = Tokens(d, u, Unit)
CacheRight ==
  \A b \in 0..(CacheNum - 1) : \A e \in EntrySet(cache[b]) : EntryRight(e)
FrameRight(f) ==
  /\ f.buf = Tokens(f.dev, From(f), Len(f.buf))
  /\ f.call = "store" => f.got = Tokens(f.dev, f.at, Len(f.got))
  /\ f.call \in {"run", "store"} /\ f.hit # <<>> =>
       f.hit = Tokens(f.dev, f.at + Todo(f), Unit)

\* The reads under way go down the devices, each for the one before it.
StackOK(s) ==
  /\ \A i \in 1..Len(s) : FrameOK(s[i])
  /\ \A i \in 1..(Len(s) - 1) : Link(s[i], s[i + 1])
  /\ \A i, j \in 1..Len(s) : i < j => s[j].dev < s[i].dev
FramesOK(s) ==
  /\ s \in Seq(Frame) /\ StackOK(s)
  /\ s # <<>> => req = <<s[1].dev, From(s[1]), Owed(s[1])>>
  /\ \A i \in 1..Len(s) : s[i].dev \in attached
  /\ ~IdsUsedUp => \A i \in 1..Len(s) : FrameAbsent(s[i])
  /\ Good => \A i \in 1..Len(s) : FrameRight(s[i])
FramesInv == FramesOK(stack)

\* What is answered to the frames s, or to the caller when there are none: a
\* success has all the sectors, and only those asked for make a failure.
Fine == {"none", "memory", "access"}
GoodRange(d, first, n) == \A i \in first..(first + n - 1) : OnHost[d][i] \notin bad
Last(s) == s[Len(s)]
AnswerOK(s, err, data) ==
  /\ err \in Errors /\ data \in Seq(Token)
  /\ s # <<>> =>
       /\ Last(s).call \in Waits
       /\ err = "none" => Len(data) = AskLen(Last(s))
       /\ Good /\ err = "none" =>
            FromParent(Last(s).dev, AskAt(Last(s)), data) =
              Tokens(Last(s).dev, AskAt(Last(s)), AskLen(Last(s)))
       /\ ~deep /\ GoodRange(Last(s).dev, AskAt(Last(s)), AskLen(Last(s))) => err \in Fine
  /\ s = <<>> =>
       /\ Good /\ err = "none" => data = Tokens(req[1], req[2], req[3])
       /\ ~deep /\ InRange(req[1], req[2], req[3]) /\ GoodRange(req[1], req[2], req[3]) =>
            err \in Fine

\* There is an answer exactly when the innermost frame waits for a device, or
\* when the read is done.
Answer == [err : Errors, data : Seq(Token)]
RetInv ==
  /\ ret # NoRet =>
       stack # <<>> /\ ret \in Answer /\ AnswerOK(stack, ret.err, ret.data)
  /\ result # <<>> =>
       stack = <<>> /\ result \in Answer /\ AnswerOK(<<>>, result.err, result.data)
  /\ stack # <<>> /\ ret = NoRet => Last(stack).call \in {"none", "store"}

\* A read goes on with no error but a missing memory, and behind an error that
\* a device returned grub_errno has one of the same weight.
ErrnoInv ==
  /\ ~deep /\ stack # <<>> /\ (ret = NoRet \/ ret.err = "none") => errno \in Fine
  /\ ret # NoRet /\ ret.err # "none" =>
       errno # "none" /\ (ret.err \in Fine => errno \in Fine)

IInv ==
  /\ TypeInv /\ DeviceInv /\ IdInv /\ CacheInv /\ (Good => CacheRight)
  /\ FramesInv /\ RetInv /\ ErrnoInv /\ DepthBalanced

-----------------------------------------------------------------------------
(* Numbers.                                                                *)

\* The bounds of the cache and of the depth are positive.
LEMMA Positive ==
  /\ Unit \in Nat /\ Unit > 0 /\ CacheNum \in Nat /\ CacheNum > 0
  /\ EvictedMax \in Nat /\ EvictedMax > 0
  /\ MaxAgglomerate \in Nat /\ MaxAgglomerate > 0 /\ MaxDepth \in Nat
BY DiskCacheAssumption

\* A device is a positive number with a start and a size.
LEMMA DeviceFacts ==
  ASSUME NEW d \in Devs
  PROVE  d \in Nat /\ d > 0 /\ Start[d] \in Nat /\ Size[d] \in Nat
<1>1. Start \in [Devs -> Nat] /\ Size \in [Devs -> Nat] /\ NumDevs \in Nat
  BY DiskCacheAssumption
<1>2. d \in Nat /\ d > 0
  BY <1>1 DEF Devs
<1> QED BY <1>1, <1>2

\* A device that is not a host disk lies within an earlier one.
LEMMA ParentFacts ==
  ASSUME NEW d \in Devs, Parent[d] # 0
  PROVE  /\ Parent[d] \in Devs /\ Parent[d] < d
         /\ Start[d] + Size[d] <= Size[Parent[d]]
<1>1. Parent \in [Devs -> 0..NumDevs] /\ NumDevs \in Nat
  BY DiskCacheAssumption
<1>2. Parent[d] \in 0..NumDevs
  BY <1>1
<1>3. Parent[d] \in Devs
  BY <1>1, <1>2 DEF Devs
<1>4. Parent[d] < d /\ Start[d] + Size[d] <= Size[Parent[d]]
  BY DiskCacheAssumption
<1> QED BY <1>3, <1>4

\* A sector lies in its unit.
LEMMA UnitFacts ==
  ASSUME NEW a \in Nat
  PROVE  /\ a % Unit \in Nat /\ a % Unit < Unit /\ a % Unit <= a
         /\ UnitOf(a) \in Nat /\ UnitOf(a) + (a % Unit) = a
<1>1. a % Unit \in Nat /\ a % Unit < Unit
  BY Positive
<1>2. a \div Unit \in Nat
  BY Positive
<1>3. a = Unit * (a \div Unit) + (a % Unit)
  BY Positive
<1>4. Unit * (a \div Unit) >= 0
  BY <1>2, Positive
<1>5. a % Unit <= a
  BY <1>1, <1>3, <1>4, <1>2, Positive
<1> QED BY <1>1, <1>5 DEF UnitOf

\* The last or the next part of a unit is a part of what is left and of the
\* unit.
LEMMA SmallFacts ==
  ASSUME NEW f \in Frame, Small(f)
  PROVE  /\ SmallLen(f) \in Nat /\ SmallLen(f) > 0 /\ SmallLen(f) <= f.left
         /\ (f.at % Unit) + SmallLen(f) <= Unit
<1>1. f.at \in Nat /\ f.left \in Nat /\ f.left > 0
  BY DEF Frame, Small
<1>2. f.at % Unit \in Nat /\ f.at % Unit < Unit
  BY <1>1, UnitFacts
<1> QED BY <1>1, <1>2, Positive DEF SmallLen

\* A number of units is at least one, and what is left without one is again
\* a number of units.
LEMMA UnitsFacts ==
  ASSUME NEW n \in Nat, Units(n)
  PROVE  n >= Unit /\ (n # Unit => Units(n - Unit))
<1>1. PICK k \in Nat \ {0} : n = k * Unit
  BY DEF Units
<1>2. k = 1 => n = Unit
  BY <1>1, Positive
<1>3. n - Unit = (k - 1) * Unit
  BY <1>1, Positive
<1>4. (k - 1) * Unit >= 0
  BY Positive
<1>5. k # 1 => k - 1 \in Nat \ {0}
  OBVIOUS
<1>6. n # Unit => Units(n - Unit)
  BY <1>2, <1>3, <1>5 DEF Units
<1>7. n - Unit >= 0
  BY <1>3, <1>4
<1> QED BY <1>6, <1>7, Positive

-----------------------------------------------------------------------------
(* Sectors.                                                                *)

\* The sectors of a device are a sequence of tokens.
LEMMA TokensFacts ==
  ASSUME NEW d \in Devs, NEW a \in Nat, NEW n \in Nat
  PROVE  /\ Tokens(d, a, n) \in Seq(Token) /\ Len(Tokens(d, a, n)) = n
         /\ \A i \in 1..n : Tokens(d, a, n)[i] = <<d, a + i - 1>>
<1>1. ASSUME NEW i \in 1..n PROVE <<d, a + i - 1>> \in Token
  BY DEF Token
<1>2. Tokens(d, a, n) \in [1..n -> Token]
  BY <1>1 DEF Tokens
<1>3. Tokens(d, a, n) \in Seq(Token) /\ Len(Tokens(d, a, n)) = n
  BY <1>2
<1> QED BY <1>3 DEF Tokens

\* A sequence that has the sectors of a device is Tokens of them.
LEMMA TokensAre ==
  ASSUME NEW d \in Devs, NEW a \in Nat, NEW n \in Nat, NEW s \in Seq(Token),
         Len(s) = n, \A i \in 1..n : s[i] = <<d, a + i - 1>>
  PROVE  s = Tokens(d, a, n)
<1> DEFINE t == Tokens(d, a, n)
<1>1. t \in Seq(Token) /\ Len(t) = n
  BY TokensFacts
<1>2. \A i \in 1..n : t[i] = <<d, a + i - 1>>
  BY TokensFacts
<1> HIDE DEF t
<1>3. \A i \in 1..Len(s) : s[i] = t[i]
  BY <1>2, Zenon
<1>4. Len(s) = Len(t)
  BY <1>1
<1>5. s = t
  BY <1>1, <1>3, <1>4, SeqEqual, Zenon
<1> QED BY <1>5 DEF t

\* No sectors.
LEMMA TokensNone ==
  ASSUME NEW d \in Devs, NEW a \in Nat, NEW s, s = <<>>
  PROVE  s = Tokens(d, a, Len(s))
<1>1. PICK t : t = Tokens(d, a, 0)
  OBVIOUS
<1>2. t \in Seq(Token) /\ Len(t) = 0
  BY <1>1, TokensFacts
<1>3. t = <<>>
  BY <1>2
<1> QED BY <1>1, <1>3

\* Sectors that follow each other are joined.
LEMMA TokensJoin ==
  ASSUME NEW d \in Devs, NEW a \in Nat, NEW m \in Nat, NEW n \in Nat
  PROVE  Tokens(d, a, m) \o Tokens(d, a + m, n) = Tokens(d, a, m + n)
<1> DEFINE s == Tokens(d, a, m)
           t == Tokens(d, a + m, n)
<1>0. a + m \in Nat /\ m + n \in Nat
  OBVIOUS
<1>1. s \in Seq(Token) /\ Len(s) = m
  BY TokensFacts
<1>2. t \in Seq(Token) /\ Len(t) = n
  BY <1>0, TokensFacts
<1>3. s \o t \in Seq(Token) /\ Len(s \o t) = m + n
  <2> HIDE DEF s, t
  <2> QED BY <1>1, <1>2, ConcatProperties
<1>4. ASSUME NEW i \in 1..(m + n) PROVE (s \o t)[i] = <<d, a + i - 1>>
  <2>0. (s \o t)[i] = IF i <= m THEN s[i] ELSE t[i - m]
    <3> HIDE DEF s, t
    <3> QED BY <1>1, <1>2, ConcatProperties
  <2>1. CASE i <= m
    <3>1. i \in 1..m
      BY <2>1
    <3> QED BY <2>0, <2>1, <3>1, TokensFacts
  <2>2. CASE i > m
    <3>1. (s \o t)[i] = t[i - m]
      <4> HIDE DEF s, t
      <4> QED BY <2>0, <2>2
    <3>2. i - m \in 1..n
      BY <2>2
    <3>3. t[i - m] = <<d, a + m + (i - m) - 1>>
      BY <1>0, <3>2, TokensFacts
    <3>4. a + m + (i - m) - 1 = a + i - 1
      OBVIOUS
    <3> QED BY <3>1, <3>3, <3>4
  <2>3. i <= m \/ i > m
    OBVIOUS
  <2> QED BY <2>1, <2>2, <2>3
<1> HIDE DEF s, t
<1>5. s \o t = Tokens(d, a, m + n)
  BY <1>0, <1>3, <1>4, TokensAre
<1> QED BY <1>5 DEF s, t

\* A part of the sectors of a device.
LEMMA TokensPart ==
  ASSUME NEW d \in Devs, NEW a \in Nat, NEW s \in Seq(Token), s = Tokens(d, a, Len(s)),
         NEW m \in Nat, NEW n \in Nat, 0 < m, m <= n, n <= Len(s)
  PROVE  SubSeq(s, m, n) = Tokens(d, a + m - 1, n - m + 1)
<1> DEFINE t == SubSeq(s, m, n)
           b == a + m - 1
           k == n - m + 1
<1>1. b \in Nat /\ k \in Nat /\ Len(s) \in Nat
  OBVIOUS
<1>2. t \in Seq(Token) /\ Len(t) = k /\ \A j \in 1..k : t[j] = s[m + j - 1]
  OBVIOUS
<1>3. \A j \in 1..Len(s) : s[j] = <<d, a + j - 1>>
  <2>1. \A j \in 1..Len(s) : Tokens(d, a, Len(s))[j] = <<d, a + j - 1>>
    BY <1>1, TokensFacts
  <2> QED BY <2>1, Zenon
<1>4. ASSUME NEW j \in 1..k PROVE t[j] = <<d, b + j - 1>>
  <2>1. m + j - 1 \in 1..Len(s) /\ a + (m + j - 1) - 1 = b + j - 1
    OBVIOUS
  <2>2. s[m + j - 1] = <<d, a + (m + j - 1) - 1>>
    BY <1>3, <2>1
  <2> QED BY <1>2, <2>1, <2>2
<1> HIDE DEF t, b, k
<1>5. t = Tokens(d, b, k)
  BY <1>1, <1>2, <1>4, TokensAre
<1> QED BY <1>5 DEF t, b, k

\* A device makes a sequence of sectors of as many of its parent.
LEMMA FromParentFacts ==
  ASSUME NEW d \in Devs, NEW a \in Nat, NEW data \in Seq(Token)
  PROVE  /\ FromParent(d, a, data) \in Seq(Token)
         /\ Len(FromParent(d, a, data)) = Len(data)
<1>1. CASE Parent[d] = 0
  BY <1>1 DEF FromParent
<1>2. CASE Parent[d] # 0
  <2> DEFINE e(i) == IF data[i] = <<Parent[d], Start[d] + a + i - 1>>
                     THEN <<d, a + i - 1>> ELSE Garbage
  <2>1. ASSUME NEW i \in 1..Len(data) PROVE e(i) \in Token
    BY DEF Token
  <2>2. FromParent(d, a, data) = [i \in 1..Len(data) |-> e(i)]
    BY <1>2 DEF FromParent
  <2> HIDE DEF e
  <2>3. FromParent(d, a, data) \in [1..Len(data) -> Token]
    BY <2>1, <2>2
  <2> QED BY <2>3
<1> QED BY <1>1, <1>2

\* Of the right sectors of its parent it makes the right ones.
LEMMA FromParentRight ==
  ASSUME NEW d \in Devs, NEW a \in Nat, NEW n \in Nat, Parent[d] # 0
  PROVE  FromParent(d, a, Tokens(Parent[d], Start[d] + a, n)) = Tokens(d, a, n)
<1> DEFINE p == Parent[d]
           s == Tokens(p, Start[d] + a, n)
<1>1. p \in Devs /\ Start[d] \in Nat
  BY DeviceFacts, ParentFacts
<1>2. /\ s \in Seq(Token) /\ Len(s) = n
      /\ \A i \in 1..n : s[i] = <<p, Start[d] + a + i - 1>>
  <2> DEFINE b == Start[d] + a
  <2>1. b \in Nat
    BY <1>1
  <2> HIDE DEF b, p
  <2>2. /\ Tokens(p, b, n) \in Seq(Token) /\ Len(Tokens(p, b, n)) = n
        /\ \A i \in 1..n : Tokens(p, b, n)[i] = <<p, b + i - 1>>
    BY <1>1, <2>1, TokensFacts
  <2> QED BY <2>2 DEF b
<1> HIDE DEF s
<1>3. FromParent(d, a, s) = [i \in 1..n |-> <<d, a + i - 1>>]
  BY <1>2 DEF FromParent
<1> QED BY <1>3 DEF Tokens, s
-----------------------------------------------------------------------------
(* Buckets.                                                                *)

\* A set of numbers that is not empty has a least one.
LEMMA LeastFacts ==
  ASSUME NEW S, S \subseteq Nat, S # {}
  PROVE  Least(S) \in S /\ \A k \in S : Least(S) <= k
<1> DEFINE R == {p \in Nat \X Nat : p[1] < p[2]}
<1>1. IsWellFoundedOn(R, Nat)
  BY NatLessThanWellFounded DEF OpToRel
<1> HIDE DEF R
<1>2. PICK x \in S : \A y \in S : ~(<<y, x>> \in R)
  BY <1>1, WFMin
<1>3. ASSUME NEW y \in S PROVE x <= y
  <2>1. x \in Nat /\ y \in Nat /\ <<y, x>> \notin R
    BY <1>2
  <2>2. ~(y < x)
    BY <2>1 DEF R
  <2> QED BY <2>1, <2>2
<1> QED BY <1>3 DEF Least

\* A sequence with one element more in front.
LEMMA Cons ==
  ASSUME NEW S, NEW e \in S, NEW c \in Seq(S)
  PROVE  /\ <<e>> \o c \in Seq(S) /\ Len(<<e>> \o c) = Len(c) + 1
         /\ (<<e>> \o c)[1] = e
         /\ \A i \in 1..Len(c) : (<<e>> \o c)[i + 1] = c[i]
<1> DEFINE h == <<e>>
<1>1. h \in Seq(S) /\ Len(h) = 1 /\ h[1] = e
  OBVIOUS
<1> HIDE DEF h
<1>2. /\ h \o c \in Seq(S) /\ Len(h \o c) = Len(h) + Len(c)
      /\ \A i \in 1..(Len(h) + Len(c)) :
           (h \o c)[i] = IF i <= Len(h) THEN h[i] ELSE c[i - Len(h)]
  BY <1>1, ConcatProperties, Zenon
<1>3. Len(c) \in Nat
  OBVIOUS
<1>4. (h \o c)[1] = e
  BY <1>1, <1>2, <1>3
<1>5. ASSUME NEW i \in 1..Len(c) PROVE (h \o c)[i + 1] = c[i]
  <2>1. i + 1 \in 1..(Len(h) + Len(c)) /\ ~(i + 1 <= Len(h)) /\ i + 1 - Len(h) = i
    BY <1>1, <1>3
  <2> QED BY <1>2, <2>1
<1>6. Len(h \o c) = Len(c) + 1
  BY <1>1, <1>2, <1>3
<1> QED BY <1>2, <1>4, <1>5, <1>6 DEF h

\* The entries of a bucket as a sequence and as a set.
LEMMA EntriesFacts ==
  ASSUME NEW b \in Bucket
  PROVE  /\ Entries(b) \in Seq(EntryType) /\ Len(Entries(b)) = Len(b.chain) + 1
         /\ Entries(b)[1] = b.main
         /\ \A i \in 1..Len(b.chain) : Entries(b)[i + 1] = b.chain[i]
         /\ \A i \in 1..Len(Entries(b)) : Entries(b)[i] \in EntrySet(b)
<1> DEFINE c == b.chain
           all == Entries(b)
<1>1. b.main \in EntryType /\ c \in Seq(EntryType)
  BY DEF Bucket
<1>2. all = <<b.main>> \o c
  BY DEF Entries
<1>3. /\ all \in Seq(EntryType) /\ Len(all) = Len(c) + 1 /\ all[1] = b.main
      /\ \A i \in 1..Len(c) : all[i + 1] = c[i]
  <2> HIDE DEF c, all
  <2> QED BY <1>1, <1>2, Cons
<1> HIDE DEF c, all
<1>4. c = b.chain /\ all = Entries(b) /\ c \in Seq(EntryType)
  BY <1>1 DEF c, all
<1>5. ASSUME NEW i \in 1..Len(all) PROVE all[i] \in EntrySet(b)
  <2>1. CASE i = 1
    BY <1>3, <2>1 DEF EntrySet
  <2>2. CASE i # 1
    <3>1. i - 1 \in 1..Len(c)
      BY <1>3, <1>4, <2>2
    <3>2. all[(i - 1) + 1] = c[i - 1]
      BY <1>3, <3>1
    <3>3. (i - 1) + 1 = i
      OBVIOUS
    <3> QED BY <1>4, <3>1, <3>2, <3>3 DEF EntrySet
  <2> QED BY <2>1, <2>2
<1> QED BY <1>3, <1>4, <1>5

\* An evicted key and the entries that stay behind it.
LEMMA EvictFacts ==
  ASSUME NEW key \in Key3, NEW c \in Seq(EntryType)
  PROVE  LET n == IF Len(c) < EvictedMax THEN Len(c) ELSE EvictedMax
             new == Evict(key, c)
         IN  /\ n \in 0..Len(c) /\ n <= EvictedMax
             /\ new \in Seq(EntryType) /\ Len(new) = n + 1
             /\ new[1] = Entry(key, NoData)
             /\ \A i \in 1..n : new[i + 1] = c[i]
<1> DEFINE n == IF Len(c) < EvictedMax THEN Len(c) ELSE EvictedMax
           e == Entry(key, NoData)
           t == SubSeq(c, 1, n)
           new == Evict(key, c)
<1>1. n \in 0..Len(c) /\ n <= EvictedMax
  BY Positive
<1>2. e \in EntryType
  BY DEF Entry, EntryType, NoData
<1>3. new = <<e>> \o t
  BY DEF Evict
<1> HIDE DEF n, e, new
<1>4. t \in Seq(EntryType) /\ Len(t) = n
  BY <1>1
<1>5. \A i \in 1..n : t[i] = c[i]
  BY <1>1
<1> HIDE DEF t
<1>6. /\ new \in Seq(EntryType) /\ Len(new) = Len(t) + 1 /\ new[1] = e
      /\ \A i \in 1..Len(t) : new[i + 1] = t[i]
  BY <1>2, <1>3, <1>4, Cons
<1>7. new \in Seq(EntryType) /\ Len(new) = n + 1
  BY <1>4, <1>6
<1>8. \A i \in 1..n : new[i + 1] = c[i]
  BY <1>4, <1>5, <1>6, Zenon
<1> QED BY <1>1, <1>6, <1>7, <1>8 DEF n, e, new
\* What a store leaves: entries that were there, the new one, and keys without
\* data; chains that stay short, keys known once; a slot that is as it was, or
\* has the new entry, or has no data.
StoredOK(b, key, data, new) ==
  /\ new \in Bucket
  /\ \A e \in EntrySet(new) : e \in EntrySet(b) \/ e = Entry(key, data) \/ e.data = NoData
  /\ Len(b.chain) <= EvictedMax + 1 => Len(new.chain) <= EvictedMax + 1
  /\ Once(b) /\ (b.main.key = key => b.main.data = NoData) => Once(new)
  /\ new.main = b.main \/ new.main = Entry(key, data) \/ new.main.data = NoData

\* An evicted key is refilled in its place.
LEMMA RefillOK ==
  ASSUME NEW b \in Bucket, NEW key \in Key3, NEW data \in Seq(Token),
         NEW i \in 1..Len(b.chain), b.chain[i].key = key, NEW d \in {NoData, data}
  PROVE  StoredOK(b, key, data, [b EXCEPT !.chain[i].data = d])
<1> DEFINE c == b.chain
           x == Entry(key, d)
           t == [c EXCEPT ![i] = x]
           new == [b EXCEPT !.chain[i].data = d]
<1>1. b.main \in EntryType /\ c \in Seq(EntryType)
  BY DEF Bucket
<1>2. c[i] \in EntryType
  BY <1>1, ElementOfSeq
<1>3. d \in Seq(Token)
  <2>1. NoData \in Seq(Token)
    BY DEF NoData
  <2> QED BY <2>1, Zenon
<1>4. x \in EntryType
  BY <1>3 DEF Entry, EntryType
<1>5. [c[i] EXCEPT !.data = d] = x
  BY <1>2 DEF Entry, EntryType
<1>6. new = [main |-> b.main, chain |-> t]
  <2>1. new = [b EXCEPT !.chain = [c EXCEPT ![i] = [c[i] EXCEPT !.data = d]]]
    OBVIOUS
  <2>2. new = [b EXCEPT !.chain = t]
    BY <1>5, <2>1
  <2> HIDE DEF t, new
  <2> QED BY <2>2 DEF Bucket
<1> HIDE DEF x, new
<1>7. /\ t \in Seq(EntryType) /\ Len(t) = Len(c)
      /\ \A j \in 1..Len(c) : t[j] = IF j = i THEN x ELSE c[j]
  BY <1>1, <1>4, ExceptSeq
<1> HIDE DEF t
<1>8. new \in Bucket /\ new.main = b.main /\ new.chain = t
  BY <1>1, <1>6, <1>7 DEF Bucket
<1>9. x.data = NoData \/ x = Entry(key, data)
  BY DEF x, Entry
<1>10. ASSUME NEW e \in EntrySet(new)
       PROVE  e \in EntrySet(b) \/ e = Entry(key, data) \/ e.data = NoData
  <2>1. CASE e = b.main
    BY <2>1 DEF EntrySet
  <2>2. CASE e # b.main
    <3>1. PICK j \in 1..Len(t) : e = t[j]
      BY <1>8, <2>2 DEF EntrySet
    <3>2. e = x \/ (j \in 1..Len(c) /\ e = c[j])
      BY <1>7, <3>1
    <3>3. j \in 1..Len(c) /\ e = c[j] => e \in EntrySet(b)
      BY DEF EntrySet
    <3> QED BY <1>9, <3>2, <3>3
  <2> QED BY <2>1, <2>2
<1>11. ASSUME NEW j \in 1..Len(c) PROVE t[j].key = c[j].key
  <2>1. x.key = key
    BY DEF x, Entry
  <2> QED BY <1>7, <2>1
<1>12. Once(b) => Once(new)
  BY <1>7, <1>8, <1>11 DEF Once
<1>13. Len(new.chain) = Len(b.chain)
  BY <1>7, <1>8
<1>14. StoredOK(b, key, data, new)
  BY <1>8, <1>10, <1>12, <1>13 DEF StoredOK
<1> QED BY <1>14 DEF new

\* The slot changes and the chain stays.
LEMMA SlotOK ==
  ASSUME NEW b \in Bucket, NEW key \in Key3, NEW data \in Seq(Token),
         \A i \in 1..Len(b.chain) : b.chain[i].key # key,
         NEW m \in {Entry(key, data), Entry(b.main.key, NoData)}
  PROVE  StoredOK(b, key, data, [main |-> m, chain |-> b.chain])
<1> DEFINE new == [main |-> m, chain |-> b.chain]
<1>1. b.main \in EntryType /\ b.chain \in Seq(EntryType)
  BY DEF Bucket
<1>2. m \in EntryType
  <2>1. b.main.key \in Key3
    BY <1>1 DEF EntryType
  <2>2. NoData \in Seq(Token)
    BY DEF NoData
  <2>3. Entry(key, data) \in EntryType /\ Entry(b.main.key, NoData) \in EntryType
    BY <2>1, <2>2 DEF Entry, EntryType
  <2> QED BY <2>3, Zenon
<1>3. new \in Bucket /\ new.main = m /\ new.chain = b.chain
  BY <1>1, <1>2 DEF Bucket
<1> HIDE DEF new
<1>4. m = Entry(key, data) \/ m.data = NoData
  BY DEF Entry
<1>5. m.key \in {key, b.main.key}
  BY DEF Entry
<1>6. Once(b) => Once(new)
  BY <1>3, <1>5 DEF Once
<1>7. \A e \in EntrySet(new) : e = m \/ e \in EntrySet(b)
  BY <1>3 DEF EntrySet
<1>8. StoredOK(b, key, data, new)
  BY <1>3, <1>4, <1>6, <1>7 DEF StoredOK
<1> QED BY <1>8 DEF new

\* The slot is taken and its old key heads the chain.
LEMMA EvictOK ==
  ASSUME NEW b \in Bucket, NEW key \in Key3, NEW data \in Seq(Token),
         \A i \in 1..Len(b.chain) : b.chain[i].key # key, b.main.data # NoData
  PROVE  StoredOK(b, key, data,
           [main |-> Entry(key, data), chain |-> Evict(b.main.key, b.chain)])
<1> DEFINE old == b.main.key
           c == b.chain
           t == Evict(old, c)
           m == Entry(key, data)
           x == Entry(old, NoData)
           new == [main |-> m, chain |-> t]
<1>1. b.main \in EntryType /\ c \in Seq(EntryType)
  BY DEF Bucket
<1>2. old \in Key3
  BY <1>1 DEF EntryType
<1>3. m \in EntryType /\ m.key = key /\ x.key = old /\ x.data = NoData
  BY DEF Entry, EntryType
<1> HIDE DEF old, t, m, x
<1>4. PICK n \in 0..Len(c) : /\ n <= EvictedMax /\ t \in Seq(EntryType) /\ Len(t) = n + 1
                             /\ t[1] = x /\ \A i \in 1..n : t[i + 1] = c[i]
  <2> HIDE DEF c
  <2> QED BY <1>1, <1>2, EvictFacts DEF t, x
<1>5. new \in Bucket /\ new.main = m /\ new.chain = t
  BY <1>1, <1>3, <1>4 DEF Bucket
<1> HIDE DEF new
<1>6. ASSUME NEW j \in 1..Len(t)
      PROVE  t[j] = x \/ \E i \in 1..Len(c) : j = i + 1 /\ t[j] = c[i]
  <2>1. CASE j = 1
    BY <1>4, <2>1
  <2>2. CASE j # 1
    <3>1. j - 1 \in 1..n /\ (j - 1) + 1 = j
      BY <1>4, <2>2
    <3>2. t[(j - 1) + 1] = c[j - 1]
      BY <1>4, <3>1
    <3>3. j - 1 \in 1..Len(c)
      BY <1>1, <1>4, <3>1
    <3> QED BY <3>1, <3>2, <3>3
  <2> QED BY <2>1, <2>2
<1>7. ASSUME NEW e \in EntrySet(new)
      PROVE  e \in EntrySet(b) \/ e = m \/ e.data = NoData
  <2>1. CASE e = m
    BY <2>1
  <2>2. CASE e # m
    <3>1. PICK j \in 1..Len(t) : e = t[j]
      BY <1>5, <2>2 DEF EntrySet
    <3>2. e = x \/ \E i \in 1..Len(c) : e = c[i]
      BY <1>6, <3>1
    <3> QED BY <1>3, <3>2 DEF EntrySet
  <2> QED BY <2>1, <2>2
<1>8. ASSUME Once(b), b.main.key = key => b.main.data = NoData
      PROVE  Once(new)
  <2>1. old # key
    BY <1>8 DEF old
  <2>2. \A i \in 1..Len(c) : c[i].key # old /\ c[i].key # key
    BY <1>8 DEF Once, old
  <2>3. ASSUME NEW j \in 1..Len(t) PROVE t[j].key # key
    BY <1>3, <1>6, <2>1, <2>2
  <2>4. ASSUME NEW j \in 1..Len(t), NEW k \in 1..Len(t), t[j].key = t[k].key
        PROVE  j = k
    <3>1. CASE j = 1 /\ k = 1
      BY <3>1
    <3>2. CASE j = 1 /\ k # 1
      <4>1. k - 1 \in 1..n /\ (k - 1) + 1 = k /\ k - 1 \in 1..Len(c)
        BY <1>1, <1>4, <3>2
      <4>2. t[(k - 1) + 1] = c[k - 1]
        BY <1>4, <4>1
      <4> QED BY <1>3, <1>4, <2>2, <2>4, <3>2, <4>1, <4>2
    <3>3. CASE j # 1 /\ k = 1
      <4>1. j - 1 \in 1..n /\ (j - 1) + 1 = j /\ j - 1 \in 1..Len(c)
        BY <1>1, <1>4, <3>3
      <4>2. t[(j - 1) + 1] = c[j - 1]
        BY <1>4, <4>1
      <4> QED BY <1>3, <1>4, <2>2, <2>4, <3>3, <4>1, <4>2
    <3>4. CASE j # 1 /\ k # 1
      <4>1. j - 1 \in 1..n /\ (j - 1) + 1 = j /\ j - 1 \in 1..Len(c)
        BY <1>1, <1>4, <3>4
      <4>2. k - 1 \in 1..n /\ (k - 1) + 1 = k /\ k - 1 \in 1..Len(c)
        BY <1>1, <1>4, <3>4
      <4>3. t[(j - 1) + 1] = c[j - 1] /\ t[(k - 1) + 1] = c[k - 1]
        BY <1>4, <4>1, <4>2
      <4>4. j - 1 = k - 1
        BY <1>8, <2>4, <4>1, <4>2, <4>3 DEF Once
      <4> QED BY <4>4
    <3> QED BY <3>1, <3>2, <3>3, <3>4
  <2> QED BY <1>3, <1>5, <2>3, <2>4 DEF Once
<1>9. Len(new.chain) <= EvictedMax + 1
  BY <1>4, <1>5, Positive
<1>10. StoredOK(b, key, data, new)
  BY <1>5, <1>7, <1>8, <1>9 DEF StoredOK, m
<1> QED BY <1>10 DEF new, m, t, old

\* Every store is one of these.
LEMMA StoredFacts ==
  ASSUME NEW b \in Bucket, NEW key \in Key3, NEW data \in Seq(Token), NEW memory
  PROVE  StoredOK(b, key, data, Stored(b, key, data, memory))
<1> DEFINE found == {i \in 1..Len(b.chain) : b.chain[i].key = key}
           first == CHOOSE i \in found : \A j \in found : i <= j
           d == IF memory = "noData" THEN NoData ELSE data
<1>1. b.main \in EntryType /\ b.chain \in Seq(EntryType)
  BY DEF Bucket
<1>2. CASE found # {}
  <2>1. found \subseteq Nat
    BY <1>1
  <2>2. first \in found
    <3> HIDE DEF found
    <3> QED BY <1>2, <2>1, LeastFacts DEF Least
  <2>3. Stored(b, key, data, memory) = [b EXCEPT !.chain[first].data = d]
    BY <1>2 DEF Stored
  <2>4. d \in {NoData, data} /\ first \in 1..Len(b.chain) /\ b.chain[first].key = key
    BY <2>2
  <2> HIDE DEF d, first, found
  <2>5. ASSUME NEW x, x = d, NEW i, i = first
        PROVE  StoredOK(b, key, data, [b EXCEPT !.chain[i].data = x])
    BY <2>4, <2>5, RefillOK, Zenon
  <2>6. StoredOK(b, key, data, [b EXCEPT !.chain[first].data = d])
    BY <2>5
  <2> QED BY <2>3, <2>6, Zenon
<1>3. CASE found = {}
  <2>1. \A i \in 1..Len(b.chain) : b.chain[i].key # key
    BY <1>3
  <2>2. CASE memory = "noData"
    <3>1. Stored(b, key, data, memory) = [b EXCEPT !.main.data = NoData]
      BY <1>3, <2>2, Zenon DEF Stored
    <3>2. [b.main EXCEPT !.data = NoData] = Entry(b.main.key, NoData)
      BY <1>1 DEF Entry, EntryType
    <3>3. [b EXCEPT !.main.data = NoData] =
            [main |-> Entry(b.main.key, NoData), chain |-> b.chain]
      BY <3>2 DEF Bucket
    <3>4. StoredOK(b, key, data, [main |-> Entry(b.main.key, NoData), chain |-> b.chain])
      BY <2>1, SlotOK, Zenon
    <3> QED BY <3>1, <3>3, <3>4, Zenon
  <2>3. CASE memory # "noData" /\ (b.main.data = NoData \/ memory = "noEntry")
    <3>1. Stored(b, key, data, memory) = [main |-> Entry(key, data), chain |-> b.chain]
      BY <1>3, <2>3, Zenon DEF Stored
    <3>2. StoredOK(b, key, data, [main |-> Entry(key, data), chain |-> b.chain])
      BY <2>1, SlotOK, Zenon
    <3> QED BY <3>1, <3>2, Zenon
  <2>4. CASE memory # "noData" /\ ~(b.main.data = NoData \/ memory = "noEntry")
    <3>1. Stored(b, key, data, memory) =
            [main |-> Entry(key, data), chain |-> Evict(b.main.key, b.chain)]
      BY <1>3, <2>4, Zenon DEF Stored
    <3> QED BY <2>1, <2>4, <3>1, EvictOK
  <2> QED BY <2>2, <2>3, <2>4
<1> QED BY <1>2, <1>3
-----------------------------------------------------------------------------
(* The cache.                                                              *)

\* A key belongs to a slot of the cache.
LEMMA IndexFacts ==
  ASSUME NEW key \in Key3
  PROVE  Index(key) \in 0..(CacheNum - 1)
<1> DEFINE n == key[1] * 524287 + key[2] * 2606459 + key[3] \div Unit
<1>1. key[1] \in Nat /\ key[2] \in Nat /\ key[3] \in Nat
  BY DEF Key3
<1>2. key[3] \div Unit \in Int
  BY <1>1, Positive
<1>3. n \in Int
  BY <1>1, <1>2
<1> HIDE DEF n
<1>4. n % CacheNum \in 0..(CacheNum - 1)
  BY <1>3, Positive
<1>5. Index(key) = n % CacheNum
  BY DEF Index, n
<1> QED BY <1>4, <1>5

\* The kinds of devices have ids of their own.
LEMMA DevIdFacts ==
  /\ \A k \in {"host", "lost", "crypt"} : DevId[k] \in Nat
  /\ \A j, k \in {"host", "lost", "crypt"} : DevId[j] = DevId[k] => j = k
<1>1. DevId["host"] = 12 /\ DevId["lost"] = 18 /\ DevId["crypt"] = 10
  BY DEF DevId
<1> QED BY <1>1

\* An attached device has keys.
LEMMA KeyFacts ==
  ASSUME id \in [Devs -> Nat \cup {-1}], NEW d \in Devs, id[d] # -1, NEW u \in Nat
  PROVE  Key(d, u) \in Key3
<1>1. Kind[d] \in {"host", "lost", "crypt"}
  BY DiskCacheAssumption
<1>2. DevId[Kind[d]] \in Nat
  BY <1>1, DevIdFacts
<1>3. id[d] \in Nat
  OBVIOUS
<1> QED BY <1>2, <1>3 DEF Key, Key3

\* Ever is a finite set.
LEMMA EverFinite ==
  ASSUME NEW k
  PROVE  IsFiniteSet(Ever(k)) /\ Cardinality(Ever(k)) \in Nat
<1>1. IsFiniteSet(Devs)
  <2>1. NumDevs \in Nat
    BY DiskCacheAssumption
  <2> QED BY <2>1, FS_Interval DEF Devs
<1>2. Ever(k) \subseteq Devs
  BY DEF Ever
<1>3. IsFiniteSet(Ever(k))
  BY <1>1, <1>2, FS_Subset
<1> QED BY <1>3, FS_CardinalityType

\* As long as ids are not used up, two devices have no key in common.
LEMMA KeyApart ==
  ASSUME DeviceInv, IdInv, ~IdsUsedUp,
         NEW d \in Devs, NEW e \in Devs, id[d] # -1, id[e] # -1,
         NEW u, NEW v, Key(d, u) = Key(e, v)
  PROVE  d = e /\ u = v
<1>1. /\ Kind[d] \in {"host", "lost", "crypt"} /\ Kind[e] \in {"host", "lost", "crypt"}
      /\ IdMod \in [{"host", "lost", "crypt"} -> Nat \ {0}]
  BY DiskCacheAssumption
<1>2. DevId[Kind[d]] = DevId[Kind[e]] /\ id[d] = id[e] /\ u = v
  BY DEF Key
<1>3. Kind[d] = Kind[e]
  BY <1>1, <1>2, DevIdFacts
<1>4. CASE Kind[d] = "host"
  <2>1. id[d] = d - 1 /\ id[e] = e - 1
    BY <1>3, <1>4 DEF DeviceInv
  <2>2. d \in Nat /\ e \in Nat
    BY DeviceFacts
  <2>3. d - 1 = e - 1
    BY <1>2, <2>1
  <2>4. d = e
    BY <2>2, <2>3
  <2> QED BY <1>2, <2>4
<1>5. CASE Kind[d] # "host"
  <2> DEFINE k == Kind[d]
             n == Cardinality(Ever(k))
  <2>1. k \in {"lost", "crypt"}
    BY <1>1, <1>5
  <2>2. ~(n > IdMod[k])
    BY <2>1 DEF IdsUsedUp, Ever
  <2>3. n \in Nat /\ IdMod[k] \in Nat
    BY <1>1, EverFinite
  <2>4. n <= IdMod[k]
    <3> HIDE DEF n, k
    <3> QED BY <2>2, <2>3
  <2>5. d \in Ever(k) /\ e \in Ever(k)
    BY <1>3 DEF Ever
  <2> QED BY <1>2, <2>1, <2>4, <2>5 DEF IdInv
<1> QED BY <1>4, <1>5

\* A fetch finds the data of an entry with the key, or nothing that the slot
\* could offer.
LEMMA FetchFacts ==
  ASSUME TypeInv, NEW key \in Key3
  PROVE  /\ Fetch(key) \in Seq(Token) /\ Len(Fetch(key)) \in {0, Unit}
         /\ Fetch(key) # NoData =>
              \E e \in EntrySet(cache[Index(key)]) : e.key = key /\ e.data = Fetch(key)
         /\ Fetch(key) = NoData => Absent(key)
<1> DEFINE b == cache[Index(key)]
           all == Entries(b)
           hits == {i \in 1..Len(all) : all[i].key = key}
           h == CHOOSE i \in hits : \A j \in hits : i <= j
<1>1. b \in Bucket /\ \A e \in EntrySet(b) : Len(e.data) \in {0, Unit}
  BY IndexFacts DEF TypeInv
<1>2. /\ all \in Seq(EntryType) /\ Len(all) = Len(b.chain) + 1 /\ all[1] = b.main
      /\ \A i \in 1..Len(all) : all[i] \in EntrySet(b)
  <2> HIDE DEF b
  <2> QED BY <1>1, EntriesFacts
<1>3. Len(b.chain) \in Nat
  <2> HIDE DEF b
  <2>1. b.chain \in Seq(EntryType)
    BY <1>1 DEF Bucket
  <2> QED BY <2>1
<1>4. Fetch(key) = IF hits = {} THEN NoData ELSE all[h].data
  BY DEF Fetch
<1> HIDE DEF b, all
<1>5. 1 \in 1..Len(all)
  BY <1>2, <1>3
<1>6. CASE hits = {}
  <2>1. b.main.key # key
    BY <1>2, <1>5, <1>6
  <2>2. Fetch(key) = NoData
    BY <1>4, <1>6
  <2> QED BY <2>1, <2>2 DEF Absent, b, NoData
<1>7. CASE hits # {}
  <2>1. hits \subseteq Nat
    BY <1>2
  <2>2. h = Least(hits)
    BY DEF Least
  <2>3. h \in hits /\ \A j \in hits : h <= j
    <3> HIDE DEF hits, h
    <3> QED BY <1>7, <2>1, <2>2, LeastFacts
  <2>4. h \in 1..Len(all) /\ all[h].key = key
    BY <2>3
  <2>5. Fetch(key) = all[h].data
    BY <1>4, <1>7
  <2>6. b.main.key = key => h = 1
    BY <1>2, <1>5, <2>3, <2>4
  <2> HIDE DEF h, hits
  <2>7. all[h] \in EntryType /\ all[h] \in EntrySet(b)
    BY <1>2, <2>4, ElementOfSeq
  <2>8. Fetch(key) \in Seq(Token)
    BY <2>5, <2>7 DEF EntryType
  <2>9. Fetch(key) = NoData => Absent(key)
    BY <1>2, <2>5, <2>6 DEF Absent, b
  <2> QED BY <1>1, <2>4, <2>5, <2>7, <2>8, <2>9 DEF b
<1> QED BY <1>6, <1>7

\* A store keeps the cache sound, keeps every other key absent, and makes no
\* error but a missing memory.
LEMMA StoreFacts ==
  ASSUME TypeInv, DeviceInv, IdInv, CacheInv, UNCHANGED id,
         NEW d \in Devs, id[d] # -1, NEW u \in Nat,
         NEW data \in Seq(Token), Len(data) = Unit,
         ~IdsUsedUp => Absent(Key(d, u)), Store(Key(d, u), data)
  PROVE  /\ cache' \in [0..(CacheNum - 1) -> Bucket]
         /\ \A b \in 0..(CacheNum - 1) : \A e \in EntrySet(cache'[b]) : Len(e.data) \in {0, Unit}
         /\ CacheInv'
         /\ \A key \in Key3 : key # Key(d, u) /\ Absent(key) => Absent(key)'
         /\ errno' \in Errors /\ (errno \in Fine => errno' \in Fine)
         /\ ~IdsUsedUp /\ CacheRight /\ data = Tokens(d, u, Unit) => CacheRight'
<1> DEFINE key == Key(d, u)
           x == Index(key)
<1>1. key \in Key3 /\ x \in 0..(CacheNum - 1)
  BY KeyFacts, IndexFacts DEF TypeInv
<1>2. PICK memory \in {"enough", "noEntry", "noData"} :
        /\ cache' = [cache EXCEPT ![x] = Stored(@, key, data, memory)]
        /\ errno' = StoreErrno(cache[x], key, memory)
  BY DEF Store
<1> DEFINE new == Stored(cache[x], key, data, memory)
<1>3. cache \in [0..(CacheNum - 1) -> Bucket]
  BY DEF TypeInv
<1>4. cache[x] \in Bucket
  BY <1>1, <1>3
<1> HIDE DEF key, x
<1>5. StoredOK(cache[x], key, data, new)
  BY <1>1, <1>4, StoredFacts
<1> HIDE DEF new
<1>6. /\ cache' \in [0..(CacheNum - 1) -> Bucket] /\ cache'[x] = new
      /\ \A b \in 0..(CacheNum - 1) : b # x => cache'[b] = cache[b]
  BY <1>1, <1>2, <1>3, <1>5 DEF StoredOK, new
<1>7. IdsUsedUp' = IdsUsedUp
  BY DEF IdsUsedUp
<1>8. ASSUME NEW e PROVE KeyOf(e)' = KeyOf(e)
  BY DEF KeyOf, Key
<1>9. ASSUME NEW b \in 0..(CacheNum - 1), NEW e \in EntrySet(cache'[b])
      PROVE  e \in EntrySet(cache[b]) \/ e = Entry(key, data) \/ e.data = NoData
  BY <1>5, <1>6, <1>9 DEF StoredOK
<1>10. ASSUME NEW b \in 0..(CacheNum - 1), NEW e \in EntrySet(cache'[b])
       PROVE  Len(e.data) \in {0, Unit}
  <2>1. CASE e \in EntrySet(cache[b])
    BY <2>1 DEF TypeInv
  <2>2. CASE e = Entry(key, data)
    BY <2>2 DEF Entry
  <2>3. CASE e.data = NoData
    BY <2>3 DEF NoData
  <2> QED BY <1>9, <1>10, <2>1, <2>2, <2>3
<1>11. CacheInv'
  <2>1. ASSUME NEW b \in 0..(CacheNum - 1) PROVE Len(cache'[b].chain) <= EvictedMax + 1
    <3>1. Len(cache[b].chain) <= EvictedMax + 1
      BY DEF CacheInv
    <3> QED BY <1>5, <1>6, <3>1 DEF StoredOK
  <2>2. ASSUME NEW b \in 0..(CacheNum - 1), ~IdsUsedUp' PROVE Once(cache'[b])
    <3>1. Once(cache[b])
      BY <1>7, <2>2 DEF CacheInv
    <3>2. cache[x].main.key = key => cache[x].main.data = NoData
      BY <1>7, <2>2 DEF Absent, x, key
    <3> QED BY <1>5, <1>6, <3>1, <3>2 DEF StoredOK
  <2>3. ASSUME NEW b \in 0..(CacheNum - 1), NEW e \in EntrySet(cache'[b]), e.data # NoData
        PROVE  KeyOf(e)'
    <3>1. CASE e \in EntrySet(cache[b])
      <4>1. KeyOf(e)
        BY <2>3, <3>1 DEF CacheInv
      <4> QED BY <1>8, <4>1
    <3>2. CASE e = Entry(key, data)
      <4>1. KeyOf(e)
        BY <3>2 DEF KeyOf, Entry, key
      <4> QED BY <1>8, <4>1
    <3> QED BY <1>9, <2>3, <3>1, <3>2
  <2> QED BY <2>1, <2>2, <2>3 DEF CacheInv
<1>12. ASSUME NEW k \in Key3, k # key, Absent(k) PROVE Absent(k)'
  <2>1. CASE Index(k) = x
    <3>1. new.main = cache[x].main \/ new.main = Entry(key, data) \/ new.main.data = NoData
      BY <1>5 DEF StoredOK
    <3>2. Entry(key, data).key = key
      BY DEF Entry
    <3>3. cache'[x].main.key = k => cache'[x].main.data = NoData
      BY <1>6, <1>12, <2>1, <3>1, <3>2 DEF Absent
    <3> QED BY <2>1, <3>3 DEF Absent
  <2>2. CASE Index(k) # x
    <3>1. cache'[Index(k)] = cache[Index(k)]
      BY <1>6, <2>2, IndexFacts
    <3> QED BY <1>12, <3>1 DEF Absent
  <2> QED BY <2>1, <2>2
<1>13. errno' \in Errors /\ (errno \in Fine => errno' \in Fine)
  BY <1>2 DEF StoreErrno, TypeInv, Errors, Fine
<1>14. ASSUME ~IdsUsedUp, CacheRight, data = Tokens(d, u, Unit) PROVE CacheRight'
  <2>1. ASSUME NEW b \in 0..(CacheNum - 1), NEW e \in EntrySet(cache'[b]),
               e.data # NoData, NEW f \in Devs, NEW v \in Nat, id[f] # -1, e.key = Key(f, v)
        PROVE  e.data = Tokens(f, v, Unit)
    <3>1. CASE e \in EntrySet(cache[b])
      BY <1>14, <2>1, <3>1 DEF CacheRight, EntryRight
    <3>2. CASE e = Entry(key, data)
      <4>1. Key(d, u) = Key(f, v) /\ e.data = data
        BY <2>1, <3>2 DEF Entry, key
      <4>2. d = f /\ u = v
        BY <1>14, <2>1, <4>1, KeyApart
      <4> QED BY <1>14, <4>1, <4>2
    <3> QED BY <1>9, <2>1, <3>1, <3>2
  <2>2. \A f \in Devs, v \in Nat : Key(f, v)' = Key(f, v)
    BY DEF Key
  <2> QED BY <2>1, <2>2 DEF CacheRight, EntryRight
<1> QED BY <1>6, <1>10, <1>11, <1>12, <1>13, <1>14 DEF key
-----------------------------------------------------------------------------
(* Where a sector lies.                                                    *)

\* The sectors of a device are those of the host disk, or those its parent's
\* lie on: the recursion of OnHost goes down the devices.
LEMMA OnHostFacts ==
  ASSUME NEW d \in Devs, NEW i \in 0..Size[d]
  PROVE  OnHost[d][i] = IF Parent[d] = 0 THEN <<d, i>> ELSE OnHost[Parent[d]][Start[d] + i]
<1> DEFINE B(f, e) == [k \in 0..Size[e] |->
                        IF Parent[e] = 0 THEN <<e, k>> ELSE f[Parent[e]][Start[e] + k]]
           Is(f, n) == f = [e \in 1..n |-> B(f, e)]
           Fails == {n \in 0..NumDevs : ~ \E f : Is(f, n)}
<1>1. NumDevs \in Nat
  BY DiskCacheAssumption
<1>2. \E f : Is(f, 0)
  <2>1. [e \in 1..0 |-> B(<<>>, e)] = <<>>
    OBVIOUS
  <2> QED BY <2>1
<1>3. ASSUME NEW n \in 1..NumDevs, \E f : Is(f, n - 1)
      PROVE  \E f : Is(f, n)
  <2>1. PICK g : Is(g, n - 1)
    BY <1>3
  <2> DEFINE h == [e \in 1..n |-> IF e < n THEN g[e] ELSE B(g, e)]
  <2>2. ASSUME NEW e \in 1..n PROVE h[e] = B(h, e)
    <3>1. e \in Devs
      BY <1>1 DEF Devs
    <3>2. h[e] = B(g, e)
      <4>1. CASE e < n
        <5>1. e \in 1..(n - 1)
          BY <4>1
        <5>2. g[e] = B(g, e)
          <6> HIDE DEF B
          <6> QED BY <2>1, <5>1
        <5> HIDE DEF B
        <5> QED BY <4>1, <5>2
      <4>2. CASE ~(e < n)
        <5> HIDE DEF B
        <5> QED BY <4>2
      <4> QED BY <4>1, <4>2
    <3>3. ASSUME Parent[e] # 0 PROVE g[Parent[e]] = h[Parent[e]]
      <4>1. Parent[e] \in Nat /\ Parent[e] > 0 /\ Parent[e] < e
        BY <3>1, <3>3, ParentFacts, DeviceFacts
      <4>2. Parent[e] \in 1..n /\ Parent[e] < n
        BY <4>1
      <4> HIDE DEF B
      <4> QED BY <4>2
    <3> HIDE DEF h
    <3>4. B(g, e) = B(h, e)
      BY <3>3
    <3> HIDE DEF B
    <3> QED BY <3>2, <3>4
  <2>3. Is(h, n)
    <3>1. h = [e \in 1..n |-> h[e]]
      <4> HIDE DEF B
      <4> QED OBVIOUS
    <3> HIDE DEF h, B
    <3> QED BY <2>2, <3>1
  <2> HIDE DEF Is, h
  <2> QED BY <2>3
<1>4. Fails = {}
  <2> SUFFICES ASSUME Fails # {} PROVE FALSE
    OBVIOUS
  <2>1. Fails \subseteq Nat
    BY <1>1
  <2> HIDE DEF Is
  <2>2. PICK n \in Fails : \A k \in Fails : n <= k
    <3> HIDE DEF Fails
    <3> QED BY <2>1, LeastFacts
  <2>3. n # 0
    BY <1>2, <2>2
  <2>4. n \in 1..NumDevs
    BY <1>1, <2>2, <2>3
  <2>5. n - 1 \in 0..NumDevs /\ n - 1 \notin Fails
    BY <1>1, <2>2, <2>4
  <2>6. \E f : Is(f, n - 1)
    BY <2>5
  <2>7. \E f : Is(f, n)
    BY <1>3, <2>4, <2>6
  <2> QED BY <2>2, <2>7
<1>5. \E f : Is(f, NumDevs)
  <2> HIDE DEF Is
  <2> QED BY <1>1, <1>4
<1>6. Is(OnHost, NumDevs)
  <2>1. OnHost = CHOOSE f : Is(f, NumDevs)
    BY DEF OnHost, Devs
  <2> HIDE DEF Is
  <2> QED BY <1>5, <2>1
<1>7. OnHost[d] = B(OnHost, d)
  <2>1. d \in 1..NumDevs
    BY DEF Devs
  <2> HIDE DEF B
  <2> QED BY <1>6, <2>1
<1> QED BY <1>7
-----------------------------------------------------------------------------
(* Frames and stacks of them.                                              *)

\* A sequence without its last element.
LEMMA FrontFacts ==
  ASSUME NEW S, NEW s \in Seq(S), s # <<>>
  PROVE  /\ SubSeq(s, 1, Len(s) - 1) \in Seq(S)
         /\ Len(SubSeq(s, 1, Len(s) - 1)) = Len(s) - 1
         /\ \A i \in 1..(Len(s) - 1) : SubSeq(s, 1, Len(s) - 1)[i] = s[i]
<1> DEFINE n == Len(s) - 1
<1>1. n \in Nat /\ n + 1 = Len(s)
  OBVIOUS
<1> HIDE DEF n
<1>2. \A i \in 1..n : s[i] \in S
  BY <1>1
<1>3. SubSeq(s, 1, n) \in Seq(S) /\ Len(SubSeq(s, 1, n)) = n
  BY <1>1, <1>2, SubSeqProperties
<1>4. \A i \in 1..n : SubSeq(s, 1, n)[i] = s[i]
  BY <1>1, <1>2
<1> QED BY <1>3, <1>4 DEF n

\* A sequence with another last element.
LEMMA ReplaceFacts ==
  ASSUME NEW S, NEW s \in Seq(S), s # <<>>, NEW f \in S
  PROVE  LET t == Append(SubSeq(s, 1, Len(s) - 1), f)
         IN  /\ t \in Seq(S) /\ Len(t) = Len(s) /\ t # <<>> /\ t[Len(t)] = f
             /\ \A i \in 1..(Len(s) - 1) : t[i] = s[i]
<1> DEFINE b == SubSeq(s, 1, Len(s) - 1)
           t == Append(b, f)
<1>1. Len(s) \in Nat /\ Len(s) > 0
  OBVIOUS
<1>2. b \in Seq(S) /\ Len(b) = Len(s) - 1 /\ \A i \in 1..(Len(s) - 1) : b[i] = s[i]
  BY FrontFacts, Zenon
<1> HIDE DEF b
<1>3. t \in Seq(S) /\ Len(t) = Len(b) + 1 /\ t[Len(b) + 1] = f
  BY <1>2
<1>4. \A i \in 1..Len(b) : t[i] = b[i]
  BY <1>2
<1>5. Len(t) = Len(s) /\ t[Len(t)] = f
  BY <1>1, <1>2, <1>3
<1>6. t # <<>>
  BY <1>1, <1>3, <1>5
<1>7. \A i \in 1..(Len(s) - 1) : t[i] = s[i]
  BY <1>2, <1>4
<1> QED BY <1>3, <1>5, <1>6, <1>7 DEF b

\* A frame g may stand for f: it reads the same for the same.
Like(f, g) == g.dev = f.dev /\ From(g) = From(f) /\ Owed(g) = Owed(f)

\* The innermost frame may change as long as it reads the same.
LEMMA StackReplace ==
  ASSUME NEW s \in Seq(Frame), s # <<>>, StackOK(s), NEW f \in Frame, FrameOK(f),
         Like(Last(s), f)
  PROVE  LET t == Append(SubSeq(s, 1, Len(s) - 1), f)
         IN  StackOK(t) /\ Like(s[1], t[1])
<1> DEFINE t == Append(SubSeq(s, 1, Len(s) - 1), f)
           n == Len(s)
<1>1. n \in Nat /\ n > 0
  OBVIOUS
<1>2. t \in Seq(Frame) /\ Len(t) = n /\ t[n] = f /\ \A i \in 1..(n - 1) : t[i] = s[i]
  BY ReplaceFacts
<1> HIDE DEF t
<1>3. ASSUME NEW i \in 1..n PROVE FrameOK(t[i]) /\ Like(s[i], t[i])
  <2>1. CASE i = n
    BY <1>2, <2>1 DEF Last
  <2>2. CASE i # n
    <3>1. t[i] = s[i]
      BY <1>1, <1>2, <2>2
    <3> QED BY <3>1 DEF Like, StackOK
  <2> QED BY <2>1, <2>2
<1>4. ASSUME NEW i \in 1..(n - 1) PROVE Link(t[i], t[i + 1])
  <2>1. t[i] = s[i] /\ Link(s[i], s[i + 1])
    BY <1>2 DEF StackOK
  <2>2. Like(s[i + 1], t[i + 1])
    BY <1>1, <1>3
  <2> QED BY <2>1, <2>2 DEF Link, Like
<1>5. ASSUME NEW i \in 1..n, NEW j \in 1..n, i < j PROVE t[j].dev < t[i].dev
  <2>1. s[j].dev < s[i].dev
    BY <1>5 DEF StackOK
  <2>2. t[j].dev = s[j].dev /\ t[i].dev = s[i].dev
    BY <1>3 DEF Like
  <2> QED BY <2>1, <2>2
<1>6. StackOK(t)
  BY <1>2, <1>3, <1>4, <1>5 DEF StackOK
<1>7. Like(s[1], t[1])
  BY <1>1, <1>3
<1> QED BY <1>6, <1>7 DEF t

\* So may its keys and sectors.
LEMMA FramesReplace ==
  ASSUME NEW s, FramesOK(s), s # <<>>, NEW f \in Frame, FrameOK(f), Like(Last(s), f),
         ~IdsUsedUp => FrameAbsent(f), Good => FrameRight(f)
  PROVE  FramesOK(Append(SubSeq(s, 1, Len(s) - 1), f))
<1> DEFINE t == Append(SubSeq(s, 1, Len(s) - 1), f)
           n == Len(s)
<1>1. s \in Seq(Frame) /\ StackOK(s) /\ \A i \in 1..n : s[i].dev \in attached
  BY DEF FramesOK
<1>2. n \in Nat /\ n > 0
  BY <1>1
<1>3. /\ t \in Seq(Frame) /\ Len(t) = n /\ t # <<>> /\ t[n] = f
      /\ \A i \in 1..(n - 1) : t[i] = s[i]
  BY <1>1, ReplaceFacts
<1>4. StackOK(t) /\ Like(s[1], t[1])
  BY <1>1, StackReplace
<1> HIDE DEF t
<1>5. \A i \in 1..n : i = n \/ t[i] = s[i]
  BY <1>2, <1>3
<1>6. req = <<t[1].dev, From(t[1]), Owed(t[1])>>
  <2>1. req = <<s[1].dev, From(s[1]), Owed(s[1])>>
    BY DEF FramesOK
  <2> QED BY <1>4, <2>1, Zenon DEF Like
<1>7. ASSUME NEW i \in 1..n PROVE t[i].dev \in attached
  <2>1. f.dev = s[n].dev /\ n \in 1..n
    BY <1>2 DEF Like, Last
  <2> QED BY <1>1, <1>3, <1>5, <2>1
<1>8. ASSUME ~IdsUsedUp, NEW i \in 1..n PROVE FrameAbsent(t[i])
  BY <1>3, <1>5, <1>8 DEF FramesOK
<1>9. ASSUME Good, NEW i \in 1..n PROVE FrameRight(t[i])
  BY <1>3, <1>5, <1>9 DEF FramesOK
<1>10. FramesOK(t)
  BY <1>3, <1>4, <1>6, <1>7, <1>8, <1>9 DEF FramesOK
<1> QED BY <1>10 DEF t

\* A read goes one device down.
LEMMA FramesPush ==
  ASSUME TypeInv, DeviceInv, NEW s, FramesOK(s), s # <<>>,
         NEW g \in Frame, FrameOK(g), Link(Last(s), g), g.call = "none", FrameRight(g)
  PROVE  FramesOK(Append(s, g))
<1> DEFINE t == Append(s, g)
           n == Len(s)
<1>1. s \in Seq(Frame) /\ StackOK(s) /\ \A i \in 1..n : s[i].dev \in attached
  BY DEF FramesOK
<1>2. n \in Nat /\ n > 0
  BY <1>1
<1>3. t \in Seq(Frame) /\ Len(t) = n + 1 /\ t[n + 1] = g /\ t # <<>>
  BY <1>1
<1>4. \A i \in 1..n : t[i] = s[i]
  BY <1>1
<1> HIDE DEF t
<1>5. s[n].dev \in Devs /\ s[n].dev \in attached /\ \A i \in 1..n : s[i].dev \in Nat
  <2>1. n \in 1..n
    BY <1>2
  <2>2. s[n].dev \in attached
    BY <1>1, <2>1
  <2>3. \A i \in 1..n : s[i].dev \in Devs
    BY <1>1 DEF TypeInv
  <2> QED BY <2>1, <2>2, <2>3, DeviceFacts
<1>6. /\ Parent[s[n].dev] # 0 /\ g.dev = Parent[s[n].dev] /\ g.dev \in attached
      /\ g.dev \in Nat /\ g.dev < s[n].dev
  <2>1. Parent[s[n].dev] # 0 /\ g.dev = Parent[s[n].dev]
    BY DEF Link, Last
  <2>2. Parent[s[n].dev] \in Devs /\ Parent[s[n].dev] < s[n].dev
    BY <1>5, <2>1, ParentFacts
  <2>3. g.dev \in attached
    BY <1>5, <2>1 DEF DeviceInv
  <2> QED BY <2>1, <2>2, <2>3, DeviceFacts
<1>7. ASSUME NEW i \in 1..(n + 1) PROVE FrameOK(t[i]) /\ t[i].dev \in attached
  <2>1. CASE i = n + 1
    BY <1>3, <1>6, <2>1
  <2>2. CASE i \in 1..n
    BY <1>1, <1>4, <2>2 DEF StackOK
  <2> QED BY <1>2, <2>1, <2>2
<1>8. ASSUME NEW i \in 1..n PROVE Link(t[i], t[i + 1])
  <2>1. CASE i = n
    BY <1>3, <1>4, <2>1 DEF Last
  <2>2. CASE i # n
    <3>1. i + 1 \in 1..n /\ i \in 1..(n - 1)
      BY <1>2, <2>2
    <3> QED BY <1>1, <1>4, <3>1 DEF StackOK
  <2> QED BY <2>1, <2>2
<1>9. ASSUME NEW i \in 1..(n + 1), NEW j \in 1..(n + 1), i < j PROVE t[j].dev < t[i].dev
  <2>1. CASE j \in 1..n
    <3>1. i \in 1..n
      BY <1>2, <1>9, <2>1
    <3> QED BY <1>1, <1>4, <1>9, <2>1, <3>1 DEF StackOK
  <2>2. CASE j = n + 1
    <3>1. i \in 1..n
      BY <1>2, <1>9, <2>2
    <3>2. i = n \/ s[n].dev < s[i].dev
      <4>1. i = n \/ i < n
        BY <1>2, <3>1
      <4>2. n \in 1..n
        BY <1>2
      <4> QED BY <1>1, <3>1, <4>1, <4>2 DEF StackOK
    <3>3. t[j].dev = g.dev /\ t[i].dev = s[i].dev
      BY <1>3, <1>4, <2>2, <3>1
    <3>4. g.dev \in Nat /\ s[n].dev \in Nat /\ s[i].dev \in Nat /\ g.dev < s[n].dev
      BY <1>2, <1>5, <1>6, <3>1
    <3> QED BY <3>2, <3>3, <3>4
  <2> QED BY <1>2, <2>1, <2>2
<1>10. StackOK(t)
  <2>1. Len(t) - 1 = n
    BY <1>2, <1>3
  <2> QED BY <1>3, <1>7, <1>8, <1>9, <2>1 DEF StackOK
<1>11. req = <<t[1].dev, From(t[1]), Owed(t[1])>>
  <2>1. req = <<s[1].dev, From(s[1]), Owed(s[1])>>
    BY DEF FramesOK
  <2>2. t[1] = s[1]
    BY <1>2, <1>4
  <2> QED BY <2>1, <2>2, Zenon
<1>12. FrameAbsent(g)
  BY DEF FrameAbsent
<1>13. \A i \in 1..(n + 1) : i = n + 1 \/ i \in 1..n
  BY <1>2
<1>14. ASSUME ~IdsUsedUp, NEW i \in 1..(n + 1) PROVE FrameAbsent(t[i])
  BY <1>3, <1>4, <1>12, <1>13, <1>14 DEF FramesOK
<1>15. ASSUME Good, NEW i \in 1..(n + 1) PROVE FrameRight(t[i])
  BY <1>3, <1>4, <1>13, <1>15 DEF FramesOK
<1>16. FramesOK(t)
  BY <1>3, <1>7, <1>10, <1>11, <1>14, <1>15 DEF FramesOK
<1> QED BY <1>16 DEF t

\* A read ends: the frame below waits for it, or there is none.
LEMMA FramesPop ==
  ASSUME NEW s, FramesOK(s), s # <<>>
  PROVE  LET t == SubSeq(s, 1, Len(s) - 1)
         IN  /\ FramesOK(t) /\ Len(t) = Len(s) - 1
             /\ t # <<>> => Link(Last(t), Last(s)) /\ Last(t) \in Frame /\ FrameOK(Last(t))
             /\ t = <<>> => req = <<Last(s).dev, From(Last(s)), Owed(Last(s))>>
<1> DEFINE t == SubSeq(s, 1, Len(s) - 1)
           n == Len(s)
<1>1. s \in Seq(Frame) /\ StackOK(s) /\ \A i \in 1..n : s[i].dev \in attached
  BY DEF FramesOK
<1>2. n \in Nat /\ n > 0
  BY <1>1
<1>3. t \in Seq(Frame) /\ Len(t) = n - 1
  BY <1>1, FrontFacts, Zenon
<1>4. \A i \in 1..(n - 1) : t[i] = s[i]
  BY <1>1, FrontFacts, Zenon
<1> HIDE DEF t
<1>5. \A i \in 1..(n - 1) : i \in 1..n /\ i + 1 \in 1..n
  BY <1>2
<1>6. StackOK(t)
  <2>1. \A i \in 1..(n - 1) : FrameOK(t[i])
    BY <1>1, <1>4, <1>5 DEF StackOK
  <2>2. ASSUME NEW i \in 1..((n - 1) - 1) PROVE Link(t[i], t[i + 1])
    <3>1. i \in 1..(n - 1) /\ i + 1 \in 1..(n - 1)
      BY <1>2
    <3> QED BY <1>1, <1>4, <3>1 DEF StackOK
  <2>3. \A i, j \in 1..(n - 1) : i < j => t[j].dev < t[i].dev
    BY <1>1, <1>4, <1>5 DEF StackOK
  <2> QED BY <1>3, <2>1, <2>2, <2>3 DEF StackOK
<1>7. t # <<>> => n - 1 \in 1..(n - 1) /\ 1 \in 1..(n - 1)
  BY <1>2, <1>3
<1>8. t = <<>> => n = 1
  BY <1>2, <1>3
<1>9. t # <<>> => req = <<t[1].dev, From(t[1]), Owed(t[1])>>
  <2>1. req = <<s[1].dev, From(s[1]), Owed(s[1])>>
    BY DEF FramesOK
  <2>2. t # <<>> => t[1] = s[1]
    BY <1>4, <1>7
  <2> QED BY <2>1, <2>2, Zenon
<1>10. FramesOK(t)
  <2>1. \A i \in 1..(n - 1) : t[i].dev \in attached
    BY <1>1, <1>4, <1>5
  <2>2. ~IdsUsedUp => \A i \in 1..(n - 1) : FrameAbsent(t[i])
    BY <1>4, <1>5 DEF FramesOK
  <2>3. Good => \A i \in 1..(n - 1) : FrameRight(t[i])
    BY <1>4, <1>5 DEF FramesOK
  <2> QED BY <1>3, <1>6, <1>9, <2>1, <2>2, <2>3 DEF FramesOK
<1>11. ASSUME t # <<>> PROVE Link(Last(t), Last(s)) /\ Last(t) \in Frame /\ FrameOK(Last(t))
  <2>1. Last(t) = s[n - 1] /\ Last(s) = s[(n - 1) + 1]
    BY <1>2, <1>3, <1>4, <1>7, <1>11 DEF Last
  <2>2. Link(s[n - 1], s[(n - 1) + 1]) /\ FrameOK(s[n - 1])
    BY <1>1, <1>5, <1>7, <1>11 DEF StackOK
  <2>3. s[n - 1] \in Frame
    BY <1>1, <1>5, <1>7, <1>11, ElementOfSeq
  <2> QED BY <2>1, <2>2, <2>3
<1>12. t = <<>> => req = <<Last(s).dev, From(Last(s)), Owed(Last(s))>>
  <2>1. req = <<s[1].dev, From(s[1]), Owed(s[1])>>
    BY DEF FramesOK
  <2>2. t = <<>> => Last(s) = s[1]
    BY <1>8 DEF Last
  <2> QED BY <2>1, <2>2, Zenon
<1> QED BY <1>3, <1>10, <1>11, <1>12 DEF t
-----------------------------------------------------------------------------
(* Answers, and reads that begin.                                          *)

\* An answer is not the absence of one.
LEMMA AnswerExists ==
  ASSUME NEW err, NEW data
  PROVE  [err |-> err, data |-> data] # <<>>
<1>1. DOMAIN [err |-> err, data |-> data] = {"err", "data"}
  OBVIOUS
<1>2. DOMAIN <<>> = {}
  OBVIOUS
<1> QED BY <1>1, <1>2

\* Frames stay in order while devices and cache do not change.
LEMMA FramesSame ==
  ASSUME NEW s, FramesOK(s), UNCHANGED <<attached, id, cache, req>>, deep => deep'
  PROVE  FramesOK(s)'
<1>1. IdsUsedUp' = IdsUsedUp
  BY DEF IdsUsedUp
<1>2. Good' => Good
  BY <1>1 DEF Good
<1>3. ASSUME NEW key PROVE Absent(key)' = Absent(key)
  BY DEF Absent
<1>4. ASSUME NEW f PROVE FrameAbsent(f)' = FrameAbsent(f)
  <2>1. \A d, u : Key(d, u)' = Key(d, u)
    BY DEF Key
  <2>2. \A d, u : Absent(Key(d, u))' = Absent(Key(d, u))
    BY DEF Absent, Key
  <2> QED BY <2>1, <2>2 DEF FrameAbsent
<1> QED BY <1>1, <1>2, <1>4 DEF FramesOK

\* A step of a read leaves devices and cache as they are.
LEMMA ReadQuiet ==
  ASSUME IInv, UNCHANGED <<devices, cache>>, deep' \in BOOLEAN, deep => deep',
         stack' \in Seq(Frame), depth' = Len(stack'), errno' \in Errors
  PROVE  /\ TypeInv' /\ DeviceInv' /\ IdInv' /\ CacheInv' /\ (Good => CacheRight)'
         /\ DepthBalanced'
<1>1. /\ TypeInv /\ DeviceInv /\ IdInv /\ CacheInv /\ (Good => CacheRight)
      /\ attached' = attached /\ id' = id /\ last_id' = last_id /\ bad' = bad /\ cache' = cache
  BY DEF IInv, devices
<1>2. depth' \in Nat
  BY LenProperties
<1>3. TypeInv'
  <2>1. /\ attached' \subseteq Devs /\ id' \in [Devs -> Nat \cup {-1}]
        /\ last_id' \in [{"lost", "crypt"} -> Nat] /\ bad' \in BadSets
    BY <1>1 DEF TypeInv
  <2>2. /\ cache' \in [0..(CacheNum - 1) -> Bucket]
        /\ \A b \in 0..(CacheNum - 1) : \A e \in EntrySet(cache'[b]) : Len(e.data) \in {0, Unit}
    BY <1>1 DEF TypeInv
  <2> QED BY <1>2, <2>1, <2>2 DEF TypeInv
<1>4. DeviceInv' /\ IdInv'
  BY <1>1 DEF DeviceInv, IdInv, Ever
<1>5. IdsUsedUp' = IdsUsedUp
  BY <1>1 DEF IdsUsedUp
<1>6. ASSUME NEW e PROVE KeyOf(e)' = KeyOf(e) /\ EntryRight(e)' = EntryRight(e)
  BY <1>1 DEF KeyOf, EntryRight, Key
<1>7. CacheInv'
  BY <1>1, <1>5, <1>6 DEF CacheInv
<1>8. (Good => CacheRight)'
  BY <1>1, <1>5, <1>6 DEF Good, CacheRight
<1> QED BY <1>3, <1>4, <1>7, <1>8 DEF DepthBalanced

\* An answer is delivered.
LEMMA Delivered ==
  ASSUME NEW s, NEW err, NEW data, Deliver(s, err, data), AnswerOK(s, err, data)'
  PROVE  /\ stack' = s /\ RetInv'
         /\ s # <<>> => ret' # NoRet /\ ret'.err = err
<1> DEFINE a == [err |-> err, data |-> data]
<1>1. /\ stack' = s /\ ret' = (IF s = <<>> THEN NoRet ELSE a)
      /\ result' = (IF s = <<>> THEN a ELSE <<>>)
  BY DEF Deliver
<1>2. a \in Answer /\ a.err = err /\ a.data = data
  BY DEF AnswerOK, Answer
<1>3. a # <<>>
  BY AnswerExists
<1> HIDE DEF a
<1>4. CASE s = <<>>
  <2>1. stack' = <<>> /\ ret' = NoRet /\ result' = a
    BY <1>1, <1>4
  <2>2. AnswerOK(<<>>, result.err, result.data)'
    BY <1>2, <1>4, <2>1
  <2> QED BY <1>2, <1>4, <2>1, <2>2 DEF RetInv
<1>5. CASE s # <<>>
  <2>1. stack' = s /\ ret' = a /\ result' = <<>> /\ ret' # NoRet
    BY <1>1, <1>3, <1>5 DEF NoRet
  <2>2. AnswerOK(stack, ret.err, ret.data)'
    BY <1>2, <2>1
  <2> QED BY <1>2, <1>5, <2>1, <2>2 DEF RetInv
<1> QED BY <1>4, <1>5

\* A new frame has nothing and owes everything.
LEMMA NewFrameFacts ==
  ASSUME NEW d \in Devs, NEW a \in Nat, NEW n \in Nat, InRange(d, a, n)
  PROVE  LET g == NewFrame(d, a, n)
         IN  /\ g \in Frame /\ FrameOK(g) /\ FrameRight(g) /\ g.call = "none"
             /\ g.dev = d /\ From(g) = a /\ Owed(g) = n
<1> DEFINE g == NewFrame(d, a, n)
<1>1. g.dev = d /\ g.at = a /\ g.left = n /\ g.buf = <<>> /\ g.call = "none"
  BY DEF NewFrame
<1>2. g \in Frame
  BY DEF NewFrame, Frame
<1> HIDE DEF g
<1>3. Size[d] \in Nat
  BY DeviceFacts
<1>4. a + n <= Size[d]
  BY <1>3 DEF InRange
<1>5. From(g) = a /\ Owed(g) = n
  BY <1>1 DEF From, Owed
<1>6. FrameOK(g)
  BY <1>1, <1>4 DEF FrameOK
<1>7. Tokens(d, a, 0) = <<>>
  <2>1. Tokens(d, a, 0) \in Seq(Token) /\ Len(Tokens(d, a, 0)) = 0
    BY TokensFacts
  <2> QED BY <2>1
<1>8. FrameRight(g)
  BY <1>1, <1>5, <1>7 DEF FrameRight
<1> QED BY <1>1, <1>2, <1>5, <1>6, <1>8 DEF g

\* What a waiting frame asked for lies on its device.
AskOK(f) ==
  AskAt(f) \in Nat /\ AskLen(f) \in Nat /\ AskLen(f) > 0 /\ AskAt(f) + AskLen(f) <= Size[f.dev]

\* A waiting frame begins a read of the device below.
LEMMA Entered ==
  ASSUME IInv, UNCHANGED <<devices, cache, req>>,
         NEW s, FramesOK(s), s # <<>>, Len(s) = depth,
         Last(s).call \in Waits, AskOK(Last(s)), Parent[Last(s).dev] # 0,
         NEW error \in Errors, ~deep => error \in Fine,
         Enter(s, Parent[Last(s).dev], Start[Last(s).dev] + AskAt(Last(s)),
               AskLen(Last(s)), error)
  PROVE  IInv'
<1> DEFINE f == Last(s)
           d == Parent[f.dev]
           a == Start[f.dev] + AskAt(f)
           n == AskLen(f)
           g == NewFrame(d, a, n)
<1>1. s \in Seq(Frame) /\ f \in Frame
  <2>1. s \in Seq(Frame)
    BY DEF FramesOK
  <2> QED BY <2>1 DEF Last
<1>2. f.dev \in Devs
  BY <1>1 DEF Frame
<1>3. d \in Devs /\ Start[f.dev] + Size[f.dev] <= Size[d]
  BY <1>2, ParentFacts
<1>4. Start[f.dev] \in Nat /\ Size[f.dev] \in Nat /\ Size[d] \in Nat
  BY <1>2, <1>3, DeviceFacts
<1>5. a \in Nat /\ n \in Nat /\ InRange(d, a, n)
  BY <1>3, <1>4 DEF AskOK, InRange
<1>6. deep \in BOOLEAN /\ depth \in Nat
  BY DEF IInv, TypeInv
<1>7. attached' = attached /\ id' = id /\ cache' = cache /\ req' = req /\ bad' = bad
  BY DEF devices
<1>8. CASE depth + 1 >= MaxDepth /\ deep' = TRUE /\ errno' = "depth" /\ depth' = depth
           /\ Deliver(s, "none", [i \in 1..n |-> Garbage])
  <2> DEFINE data == [i \in 1..n |-> Garbage]
  <2>1. data \in Seq(Token) /\ Len(data) = n
    <3>1. Garbage \in Token
      BY DEF Token
    <3>2. data \in [1..n -> Token]
      BY <3>1
    <3> HIDE DEF n
    <3> QED BY <1>5, <3>2
  <2> HIDE DEF data
  <2>2. AnswerOK(s, "none", data)'
    BY <1>8, <2>1 DEF AnswerOK, Good, Errors, Fine
  <2>3. stack' = s /\ RetInv' /\ ret'.err = "none"
    BY <1>8, <2>2, Delivered DEF data
  <2>4. FramesOK(s)'
    BY <1>7, <1>8, FramesSame
  <2>5. FramesInv'
    BY <2>3, <2>4 DEF FramesInv
  <2>6. ErrnoInv'
    BY <1>8, <2>3 DEF ErrnoInv
  <2>7. /\ TypeInv' /\ DeviceInv' /\ IdInv' /\ CacheInv' /\ (Good => CacheRight)'
        /\ DepthBalanced'
    BY <1>1, <1>8, <2>3, ReadQuiet DEF Errors
  <2> QED BY <2>3, <2>5, <2>6, <2>7 DEF IInv
<1>9. CASE /\ depth' = depth + 1 /\ stack' = Append(s, g) /\ errno' = error
           /\ ret' = NoRet /\ result' = <<>> /\ deep' = deep
  <2>1. /\ g \in Frame /\ FrameOK(g) /\ FrameRight(g) /\ g.call = "none"
        /\ g.dev = d /\ From(g) = a /\ Owed(g) = n
    BY <1>3, <1>5, NewFrameFacts
  <2>2. Link(f, g)
    <3> HIDE DEF g
    <3> QED BY <2>1 DEF Link
  <2> HIDE DEF g
  <2>3. FramesOK(Append(s, g))
    BY <2>1, <2>2, FramesPush DEF IInv
  <2>4. PICK t : t = Append(s, g)
    OBVIOUS
  <2>5. t \in Seq(Frame) /\ Len(t) = Len(s) + 1 /\ Last(t) = g /\ t # <<>>
    <3>1. /\ t \in Seq(Frame) /\ t # <<>>
          /\ Len(t) = Len(s) + 1 /\ t[Len(s) + 1] = g
      <4> HIDE DEF f, d, a, n
      <4>1. g \in Frame
        BY <2>1
      <4> QED BY <1>1, <2>4, <4>1, AppendProperties
    <3>3. t[Len(t)] = g
      BY <3>1, Zenon
    <3> QED BY <3>1, <3>3 DEF Last
  <2>6. FramesOK(t)'
    BY <1>7, <1>9, <2>3, <2>4, FramesSame
  <2>7. FramesInv'
    BY <1>9, <2>4, <2>6 DEF FramesInv
  <2>8. RetInv'
    BY <1>9, <2>1, <2>4, <2>5 DEF RetInv
  <2>9. ErrnoInv'
    BY <1>9 DEF ErrnoInv
  <2>10. /\ TypeInv' /\ DeviceInv' /\ IdInv' /\ CacheInv' /\ (Good => CacheRight)'
         /\ DepthBalanced'
    <3>1. stack' \in Seq(Frame) /\ depth' = Len(stack')
      BY <1>9, <2>4, <2>5
    <3> QED BY <1>6, <1>9, <3>1, ReadQuiet
  <2> QED BY <2>7, <2>8, <2>9, <2>10 DEF IInv
<1> HIDE DEF a, n, d, g, f
<1>10. ~ ~InRange(d, a, n)
  BY <1>5
<1>11. Enter(s, d, a, n, error)
  BY DEF a, n, d, f
<1> QED BY <1>8, <1>9, <1>10, <1>11 DEF Enter, g
\* A waiting frame asked for sectors of its device, and but for a unit for
\* some of those it owes.
LEMMA AskFacts ==
  ASSUME NEW f \in Frame, FrameOK(f), f.call \in Waits
  PROVE  AskOK(f) /\ (f.call # "unit" => AskAt(f) = f.at /\ AskLen(f) <= f.left)
<1>1. f.at \in Nat /\ f.left \in Nat /\ f.len \in Nat /\ f.dev \in Devs /\ f.hit \in Seq(Token)
  BY DEF Frame
<1>2. Size[f.dev] \in Nat /\ Len(f.hit) \in Nat
  BY <1>1, DeviceFacts
<1>3. CASE f.call = "unit"
  <2>1. UnitOf(f.at) \in Nat /\ UnitOf(f.at) + Unit < Size[f.dev]
    BY <1>1, <1>3, UnitFacts DEF FrameOK
  <2> QED BY <1>2, <1>3, <2>1, Positive DEF AskOK, AskAt, AskLen
<1>4. CASE f.call = "part"
  <2>1. Small(f) /\ f.len = SmallLen(f) /\ f.at + f.left <= Size[f.dev]
    BY <1>4 DEF FrameOK
  <2>2. f.len > 0 /\ f.len <= f.left
    BY <2>1, SmallFacts
  <2> QED BY <1>1, <1>2, <1>4, <2>1, <2>2 DEF AskOK, AskAt, AskLen
<1>5. CASE f.call = "run"
  <2>1. Units(f.len) /\ f.len + Len(f.hit) <= f.left /\ f.at + f.left <= Size[f.dev]
    BY <1>5 DEF FrameOK, Todo
  <2>2. f.len >= Unit
    BY <1>1, <2>1, UnitsFacts
  <2>3. f.len > 0 /\ f.len <= f.left /\ f.at + f.len <= Size[f.dev]
    BY <1>1, <1>2, <2>1, <2>2, Positive
  <2>4. AskAt(f) = f.at /\ AskLen(f) = f.len
    BY <1>5 DEF AskAt, AskLen
  <2> QED BY <1>1, <1>5, <2>3, <2>4 DEF AskOK
<1> QED BY <1>3, <1>4, <1>5 DEF Waits

\* A waiting frame reads its device: a host disk answers, any other begins a
\* read of the device below.
LEMMA DiskReadOK ==
  ASSUME IInv, UNCHANGED <<devices, cache, req>>, stack # <<>>,
         NEW f \in Frame, FrameOK(f), Like(Last(stack), f), f.call \in Waits,
         ~IdsUsedUp => FrameAbsent(f), Good => FrameRight(f),
         NEW error \in Errors, ~deep => error \in Fine,
         DiskRead(f, AskAt(f), AskLen(f), error)
  PROVE  IInv'
<1>0. PICK s : s = Append(Below, f)
  OBVIOUS
<1> DEFINE a == AskAt(f)
           n == AskLen(f)
           ok == \A i \in a..(a + n - 1) : <<f.dev, i>> \notin bad
<1>1. stack \in Seq(Frame) /\ FramesOK(stack) /\ depth = Len(stack) /\ deep \in BOOLEAN
  BY DEF IInv, TypeInv, FramesInv, DepthBalanced
<1>2. s \in Seq(Frame) /\ Len(s) = Len(stack) /\ s # <<>> /\ Last(s) = f
  BY <1>0, <1>1, ReplaceFacts DEF Below, Last
<1>3. FramesOK(s)
  BY <1>0, <1>1, FramesReplace DEF Below
<1>4. AskOK(f)
  BY AskFacts
<1>5. CASE Parent[f.dev] # 0
  <2>1. Enter(s, Parent[f.dev], Start[f.dev] + a, n, error)
    BY <1>0, <1>5 DEF DiskRead
  <2> HIDE DEF a, n
  <2>2. Enter(s, Parent[Last(s).dev], Start[Last(s).dev] + AskAt(Last(s)),
              AskLen(Last(s)), error)
    BY <1>2, <2>1 DEF a, n
  <2> QED BY <1>1, <1>2, <1>3, <1>4, <1>5, <2>2, Entered
<1>6. CASE Parent[f.dev] = 0
  <2>0. PICK err, data : /\ err = (IF ok THEN "none" ELSE "io")
                         /\ data = (IF ok THEN Tokens(f.dev, a, n) ELSE <<>>)
    OBVIOUS
  <2>1. /\ errno' = (IF ok THEN error ELSE "io") /\ Deliver(s, err, data)
        /\ depth' = depth /\ deep' = deep
    BY <1>0, <1>6, <2>0 DEF DiskRead
  <2>2. f.dev \in Devs /\ a \in Nat /\ n \in Nat
    BY <1>4 DEF AskOK, Frame
  <2>3. Tokens(f.dev, a, n) \in Seq(Token) /\ Len(Tokens(f.dev, a, n)) = n
    <3> HIDE DEF a, n
    <3> QED BY <2>2, TokensFacts
  <2>4. FromParent(f.dev, a, Tokens(f.dev, a, n)) = Tokens(f.dev, a, n)
    BY <1>6 DEF FromParent
  <2>5. ASSUME GoodRange(f.dev, a, n) PROVE ok
    <3>1. ASSUME NEW i \in a..(a + n - 1) PROVE <<f.dev, i>> \notin bad
      <4>1. i \in 0..Size[f.dev]
        <5>1. Size[f.dev] \in Nat
          BY <2>2, DeviceFacts
        <5>2. a + n <= Size[f.dev]
          BY <1>4 DEF AskOK
        <5> HIDE DEF a, n
        <5> QED BY <2>2, <5>1, <5>2
      <4>2. OnHost[f.dev][i] = <<f.dev, i>>
        BY <1>6, <2>2, <4>1, OnHostFacts
      <4>3. OnHost[f.dev][i] \notin bad
        BY <2>5 DEF GoodRange
      <4> QED BY <4>2, <4>3
    <3> QED BY <3>1
  <2>6. GoodRange(f.dev, a, n)' = GoodRange(f.dev, a, n)
    BY DEF GoodRange, devices
  <2> HIDE DEF a, n, ok
  <2>7. err \in Errors /\ data \in Seq(Token)
    BY <2>0, <2>3 DEF Errors
  <2>8. AnswerOK(s, err, data)'
    <3>1. f.call \in Waits /\ (err = "none" => data = Tokens(f.dev, a, n))
      BY <2>0
    <3>2. err = "none" => Len(data) = n /\ FromParent(f.dev, a, data) = Tokens(f.dev, a, n)
      BY <2>3, <2>4, <3>1
    <3>3. GoodRange(f.dev, a, n)' => err \in Fine
      BY <2>0, <2>5, <2>6 DEF Fine
    <3> QED BY <1>2, <2>7, <3>1, <3>2, <3>3 DEF AnswerOK, a, n
  <2>9. stack' = s /\ RetInv' /\ ret' # NoRet /\ ret'.err = err
    BY <1>2, <2>1, <2>8, Delivered
  <2>10. attached' = attached /\ id' = id /\ cache' = cache /\ req' = req
    BY DEF devices
  <2>11. FramesOK(s)'
    BY <1>3, <2>1, <2>10, FramesSame
  <2>12. FramesInv'
    BY <2>9, <2>11 DEF FramesInv
  <2>13. ErrnoInv'
    <3>1. err # "none" => errno' # "none" /\ err \notin Fine
      BY <2>0, <2>1 DEF Fine
    <3> QED BY <2>0, <2>1, <2>9, <3>1 DEF ErrnoInv
  <2>14. errno' \in Errors /\ deep' \in BOOLEAN /\ depth' = Len(stack') /\ stack' \in Seq(Frame)
    BY <1>1, <1>2, <2>1, <2>9 DEF Errors
  <2>15. /\ TypeInv' /\ DeviceInv' /\ IdInv' /\ CacheInv' /\ (Good => CacheRight)'
         /\ DepthBalanced'
    BY <2>1, <2>14, ReadQuiet
  <2> QED BY <2>9, <2>12, <2>13, <2>15 DEF IInv
<1> QED BY <1>5, <1>6

\* A read ends and is answered to the frame below it or to the caller.
LEMMA ReturnOK ==
  ASSUME IInv, stack # <<>>, NEW err \in Errors, NEW data \in Seq(Token),
         Return(err, data), errno' \in Errors,
         err = "none" => Len(data) = Owed(Last(stack)),
         Good /\ err = "none" =>
           data = Tokens(Last(stack).dev, From(Last(stack)), Owed(Last(stack))),
         ~deep /\ GoodRange(Last(stack).dev, From(Last(stack)), Owed(Last(stack))) =>
           err \in Fine,
         ~deep /\ err = "none" => errno' \in Fine,
         err # "none" => errno' # "none" /\ (err \in Fine => errno' \in Fine)
  PROVE  IInv'
<1>0. PICK t, g : t = Below /\ g = Last(stack)
  OBVIOUS
<1> DEFINE f == Last(t)
<1>1. /\ stack \in Seq(Frame) /\ FramesOK(stack) /\ depth = Len(stack) /\ deep \in BOOLEAN
  BY DEF IInv, TypeInv, FramesInv, DepthBalanced
<1>2. /\ FramesOK(t) /\ Len(t) = Len(stack) - 1
      /\ t # <<>> => Link(f, g) /\ f \in Frame /\ FrameOK(f)
      /\ t = <<>> => req = <<g.dev, From(g), Owed(g)>>
  BY <1>0, <1>1, FramesPop DEF Below
<1>3. /\ Deliver(t, err, data) /\ depth' = depth - 1 /\ deep' = deep
      /\ attached' = attached /\ id' = id /\ cache' = cache /\ req' = req /\ bad' = bad
      /\ UNCHANGED <<devices, cache>>
  BY <1>0 DEF Return, devices
<1>4. /\ \A d, u, n : GoodRange(d, u, n)' = GoodRange(d, u, n)
      /\ Good' = Good
  BY <1>3 DEF GoodRange, Good, IdsUsedUp
<1> HIDE DEF f
<1>5. ASSUME t # <<>>
      PROVE  /\ f.call \in Waits /\ (err = "none" => Len(data) = AskLen(f))
             /\ Good /\ err = "none" =>
                  FromParent(f.dev, AskAt(f), data) = Tokens(f.dev, AskAt(f), AskLen(f))
             /\ ~deep /\ GoodRange(f.dev, AskAt(f), AskLen(f)) => err \in Fine
  <2>1. /\ f \in Frame /\ FrameOK(f) /\ f.call \in Waits /\ Parent[f.dev] # 0
        /\ g.dev = Parent[f.dev] /\ From(g) = Start[f.dev] + AskAt(f) /\ Owed(g) = AskLen(f)
    BY <1>2, <1>5 DEF Link
  <2>2. AskOK(f) /\ f.dev \in Devs
    BY <2>1, AskFacts DEF Frame
  <2>3. AskAt(f) \in Nat /\ AskLen(f) \in Nat /\ AskAt(f) + AskLen(f) <= Size[f.dev]
    BY <2>2 DEF AskOK
  <2>4. Good /\ err = "none" =>
          FromParent(f.dev, AskAt(f), data) = Tokens(f.dev, AskAt(f), AskLen(f))
    <3>1. FromParent(f.dev, AskAt(f), Tokens(Parent[f.dev], Start[f.dev] + AskAt(f), AskLen(f)))
            = Tokens(f.dev, AskAt(f), AskLen(f))
      BY <2>1, <2>2, <2>3, FromParentRight
    <3>2. Good /\ err = "none" => data = Tokens(g.dev, From(g), Owed(g))
      BY <1>0
    <3> QED BY <2>1, <3>1, <3>2
  <2>5. ASSUME GoodRange(f.dev, AskAt(f), AskLen(f)) PROVE GoodRange(g.dev, From(g), Owed(g))
    <3> DEFINE a == AskAt(f)
               n == AskLen(f)
               b == Start[f.dev]
    <3>1. b \in Nat /\ Size[f.dev] \in Nat
      BY <2>2, DeviceFacts
    <3>2. a \in Nat /\ n \in Nat /\ a + n <= Size[f.dev] /\ From(g) = b + a /\ Owed(g) = n
      BY <2>1, <2>3
    <3> HIDE DEF a, n, b
    <3>3. ASSUME NEW j \in (b + a)..(b + a + n - 1) PROVE OnHost[g.dev][j] \notin bad
      <4>1. j - b \in a..(a + n - 1) /\ j - b \in 0..Size[f.dev] /\ b + (j - b) = j
        BY <3>1, <3>2
      <4>2. OnHost[f.dev][j - b] = OnHost[Parent[f.dev]][b + (j - b)]
        BY <2>1, <2>2, <4>1, OnHostFacts DEF b
      <4>3. OnHost[f.dev][j - b] \notin bad
        BY <2>5, <4>1 DEF GoodRange, a, n
      <4> QED BY <2>1, <4>1, <4>2, <4>3
    <3> QED BY <3>2, <3>3 DEF GoodRange
  <2>6. Owed(g) = AskLen(f) /\ (err = "none" => Len(data) = Owed(g))
    BY <1>0, <2>1
  <2> QED BY <1>0, <2>1, <2>4, <2>5, <2>6
<1>6. ASSUME t = <<>>
      PROVE  /\ Good /\ err = "none" => data = Tokens(req[1], req[2], req[3])
             /\ ~deep /\ GoodRange(req[1], req[2], req[3]) => err \in Fine
  <2>1. req[1] = g.dev /\ req[2] = From(g) /\ req[3] = Owed(g)
    BY <1>2, <1>6
  <2> QED BY <1>0, <2>1
<1>7. AnswerOK(t, err, data)'
  <2>1. t # <<>> =>
         /\ f.call \in Waits /\ (err = "none" => Len(data) = AskLen(f))
         /\ Good' /\ err = "none" =>
              FromParent(f.dev, AskAt(f), data) = Tokens(f.dev, AskAt(f), AskLen(f))
         /\ ~deep' /\ GoodRange(f.dev, AskAt(f), AskLen(f))' => err \in Fine
    BY <1>3, <1>4, <1>5
  <2>2. t = <<>> =>
         /\ Good' /\ err = "none" => data = Tokens(req'[1], req'[2], req'[3])
         /\ ~deep' /\ GoodRange(req[1], req[2], req[3])' => err \in Fine
    <3>1. t = <<>> /\ Good' /\ err = "none" => data = Tokens(req'[1], req'[2], req'[3])
      BY <1>3, <1>4, <1>6
    <3>2. GoodRange(req[1], req[2], req[3])' = GoodRange(req[1], req[2], req[3])
      BY <1>3 DEF GoodRange
    <3> QED BY <1>3, <1>6, <3>1, <3>2
  <2> QED BY <2>1, <2>2 DEF AnswerOK, f
<1>8. /\ stack' = t /\ RetInv' /\ (t # <<>> => ret' # NoRet /\ ret'.err = err)
      /\ t = <<>> => ret' = NoRet
  BY <1>3, <1>7, Delivered DEF Deliver
<1>9. FramesOK(t)'
  BY <1>2, <1>3, FramesSame
<1>10. FramesInv'
  BY <1>8, <1>9 DEF FramesInv
<1>11. ErrnoInv'
  BY <1>3, <1>8 DEF ErrnoInv
<1>12. deep' \in BOOLEAN /\ depth' = Len(stack') /\ stack' \in Seq(Frame)
  BY <1>1, <1>2, <1>3, <1>8 DEF FramesOK
<1>13. /\ TypeInv' /\ DeviceInv' /\ IdInv' /\ CacheInv' /\ (Good => CacheRight)'
       /\ DepthBalanced'
  BY <1>3, <1>12, ReadQuiet
<1> QED BY <1>8, <1>10, <1>11, <1>13 DEF IInv
-----------------------------------------------------------------------------
(* Reads that go on.                                                       *)

\* The innermost frame.
LEMMA TopFacts ==
  ASSUME IInv, stack # <<>>
  PROVE  /\ Top = Last(stack) /\ Top \in Frame /\ FrameOK(Top)
         /\ Top.dev \in Devs /\ Top.at \in Nat /\ Top.left \in Nat /\ id[Top.dev] # -1
         /\ ~IdsUsedUp => FrameAbsent(Top)
         /\ Good => FrameRight(Top)
<1>1. stack \in Seq(Frame) /\ StackOK(stack) /\ FramesOK(stack)
  BY DEF IInv, FramesInv, FramesOK
<1> DEFINE n == Len(stack)
<1>2. n \in 1..n
  BY <1>1
<1>3. stack[n] \in Frame
  BY <1>1, <1>2, ElementOfSeq
<1>4. stack[n].dev \in Devs /\ stack[n].at \in Nat /\ stack[n].left \in Nat
  BY <1>3 DEF Frame
<1>5. stack[n].dev \in attached
  BY <1>1, <1>2 DEF FramesOK
<1>6. id[stack[n].dev] # -1
  BY <1>5 DEF IInv, DeviceInv
<1> QED BY <1>1, <1>2, <1>3, <1>4, <1>6 DEF Top, Last, FramesOK, StackOK

\* The innermost frame changes, the cache perhaps too.
LEMMA FramesStore ==
  ASSUME NEW s, FramesOK(s), s # <<>>, UNCHANGED <<attached, id, req, deep>>,
         NEW f \in Frame, FrameOK(f), Like(Last(s), f),
         ~IdsUsedUp => FrameAbsent(f)', Good => FrameRight(f),
         ~IdsUsedUp => \A i \in 1..(Len(s) - 1) : FrameAbsent(s[i])'
  PROVE  FramesOK(Append(SubSeq(s, 1, Len(s) - 1), f))'
<1>0. PICK t : t = Append(SubSeq(s, 1, Len(s) - 1), f)
  OBVIOUS
<1> DEFINE n == Len(s)
<1>1. s \in Seq(Frame) /\ StackOK(s) /\ \A i \in 1..n : s[i].dev \in attached
  BY DEF FramesOK
<1>2. n \in Nat /\ n > 0
  BY <1>1
<1>3. /\ t \in Seq(Frame) /\ Len(t) = n /\ t # <<>> /\ t[n] = f
      /\ \A i \in 1..(n - 1) : t[i] = s[i]
  BY <1>0, <1>1, ReplaceFacts
<1>4. StackOK(t) /\ Like(s[1], t[1])
  BY <1>0, <1>1, StackReplace
<1>5. \A i \in 1..n : i = n \/ (i \in 1..(n - 1) /\ t[i] = s[i])
  BY <1>2, <1>3
<1>6. req' = <<t[1].dev, From(t[1]), Owed(t[1])>>
  <2>1. req' = <<s[1].dev, From(s[1]), Owed(s[1])>>
    BY DEF FramesOK
  <2> QED BY <1>4, <2>1, Zenon DEF Like
<1>7. ASSUME NEW i \in 1..n PROVE t[i].dev \in attached'
  <2>1. f.dev = s[n].dev /\ n \in 1..n
    BY <1>2 DEF Like, Last
  <2> QED BY <1>1, <1>3, <1>5, <2>1
<1>8. IdsUsedUp' = IdsUsedUp /\ Good' = Good
  BY DEF IdsUsedUp, Good
<1>9. ASSUME ~IdsUsedUp', NEW i \in 1..n PROVE FrameAbsent(t[i])'
  <2>1. FrameAbsent(f)' /\ \A k \in 1..(n - 1) : FrameAbsent(s[k])'
    BY <1>8, <1>9
  <2> QED BY <1>3, <1>5, <2>1
<1>10. ASSUME Good', NEW i \in 1..n PROVE FrameRight(t[i])
  BY <1>3, <1>5, <1>8, <1>10 DEF FramesOK
<1>11. FramesOK(t)'
  BY <1>3, <1>4, <1>6, <1>7, <1>9, <1>10 DEF FramesOK
<1> QED BY <1>0, <1>11

\* A frame that is not waiting is the innermost one.
LEMMA AwakeRet ==
  ASSUME IInv, stack # <<>>, NEW s, stack' = s, s # <<>>, Last(s).call \in {"none", "store"},
         ret' = NoRet, UNCHANGED <<result, deep>>, ~deep => errno' \in Fine
  PROVE  RetInv' /\ ErrnoInv'
<1>1. result' = <<>>
  BY DEF IInv, RetInv
<1>2. RetInv'
  BY <1>1 DEF RetInv
<1>3. ErrnoInv'
  BY DEF ErrnoInv
<1> QED BY <1>2, <1>3

\* The innermost read goes on without the cache.
LEMMA GoesOn ==
  ASSUME IInv, stack # <<>>,
         NEW f \in Frame, FrameOK(f), Like(Last(stack), f), f.call \in {"none", "store"},
         ~IdsUsedUp => FrameAbsent(f), Good => FrameRight(f),
         stack' = Append(Below, f), ret' = NoRet, ~deep => errno \in Fine,
         UNCHANGED <<devices, cache, depth, errno, req, result, deep>>
  PROVE  IInv'
<1>0. PICK s : s = Append(Below, f)
  OBVIOUS
<1>1. /\ stack \in Seq(Frame) /\ FramesOK(stack) /\ depth = Len(stack)
      /\ deep \in BOOLEAN /\ errno \in Errors
  BY DEF IInv, TypeInv, FramesInv, DepthBalanced
<1>2. s \in Seq(Frame) /\ Len(s) = Len(stack) /\ s # <<>> /\ Last(s) = f
  BY <1>0, <1>1, ReplaceFacts DEF Below, Last
<1>3. FramesOK(s)
  BY <1>0, <1>1, FramesReplace DEF Below
<1>4. attached' = attached /\ id' = id /\ cache' = cache /\ req' = req /\ deep' = deep
  BY DEF devices
<1>5. FramesOK(s)'
  BY <1>3, <1>4, FramesSame
<1>6. FramesInv'
  BY <1>0, <1>5 DEF FramesInv
<1>7. RetInv' /\ ErrnoInv'
  BY <1>0, <1>2, AwakeRet
<1>8. /\ TypeInv' /\ DeviceInv' /\ IdInv' /\ CacheInv' /\ (Good => CacheRight)'
      /\ DepthBalanced'
  BY <1>0, <1>1, <1>2, <1>4, ReadQuiet
<1> QED BY <1>6, <1>7, <1>8 DEF IInv

\* The innermost read goes on behind a store.
LEMMA StoresOn ==
  ASSUME IInv, stack # <<>>, NEW d, d = Top.dev, NEW u \in Nat,
         NEW data \in Seq(Token), Len(data) = Unit, Store(Key(d, u), data),
         ~IdsUsedUp => Absent(Key(d, u)), Good => data = Tokens(d, u, Unit),
         NEW f \in Frame, FrameOK(f), Like(Last(stack), f), f.call \in {"none", "store"},
         ~IdsUsedUp => FrameAbsent(f)', Good => FrameRight(f),
         stack' = Append(Below, f), ret' = NoRet, ~deep => errno \in Fine,
         UNCHANGED <<devices, depth, req, result, deep>>
  PROVE  IInv'
<1>0. PICK s, old : s = Append(Below, f) /\ old = stack
  OBVIOUS
<1>1. /\ TypeInv /\ DeviceInv /\ IdInv /\ CacheInv /\ (Good => CacheRight)
      /\ stack \in Seq(Frame) /\ FramesOK(stack) /\ StackOK(stack) /\ depth = Len(stack)
  BY DEF IInv, TypeInv, FramesInv, FramesOK, DepthBalanced
<1>2. /\ attached' = attached /\ id' = id /\ last_id' = last_id /\ bad' = bad
      /\ req' = req /\ deep' = deep
  BY DEF devices
<1>3. d \in Devs /\ id[d] # -1 /\ d = Last(stack).dev
  BY TopFacts
<1>4. /\ cache' \in [0..(CacheNum - 1) -> Bucket]
      /\ \A b \in 0..(CacheNum - 1) : \A e \in EntrySet(cache'[b]) : Len(e.data) \in {0, Unit}
      /\ CacheInv'
      /\ \A key \in Key3 : key # Key(d, u) /\ Absent(key) => Absent(key)'
      /\ errno' \in Errors /\ (errno \in Fine => errno' \in Fine)
      /\ ~IdsUsedUp /\ CacheRight /\ data = Tokens(d, u, Unit) => CacheRight'
  BY <1>1, <1>2, <1>3, StoreFacts
<1>5. s \in Seq(Frame) /\ Len(s) = Len(stack) /\ s # <<>> /\ Last(s) = f
  BY <1>0, <1>1, ReplaceFacts DEF Below, Last
<1>6. ASSUME ~IdsUsedUp, NEW i \in 1..(Len(old) - 1) PROVE FrameAbsent(old[i])'
  <2>0. PICK g : g = old[i] /\ g = stack[i]
    BY <1>0
  <2>1. i \in 1..Len(stack) /\ Len(stack) \in 1..Len(stack) /\ i < Len(stack)
    BY <1>0, <1>1
  <2>2. g \in Frame /\ FrameAbsent(g) /\ g.dev \in attached /\ d < g.dev
    <3>1. Last(stack) = stack[Len(stack)]
      BY DEF Last
    <3>2. g \in Frame
      BY <1>1, <2>0, <2>1, ElementOfSeq
    <3> QED BY <1>1, <1>3, <1>6, <2>0, <2>1, <3>1, <3>2 DEF FramesOK, StackOK
  <2>3. g.dev \in Devs /\ g.at \in Nat /\ g.dev # d /\ id[g.dev] # -1
    <3>1. g.dev \in Devs /\ g.at \in Nat
      BY <2>2 DEF Frame
    <3>2. g.dev \in Nat /\ d \in Nat
      BY <1>3, <3>1, DeviceFacts
    <3>3. g.dev # d
      BY <2>2, <3>2
    <3> QED BY <1>1, <2>2, <3>1, <3>3 DEF DeviceInv
  <2>4. ASSUME NEW v \in Nat, Absent(Key(g.dev, v)) PROVE Absent(Key(g.dev, v))'
    <3>0. PICK key : key = Key(g.dev, v)
      OBVIOUS
    <3>1. key # Key(d, u)
      BY <1>1, <1>3, <1>6, <2>3, <3>0, KeyApart
    <3>2. key \in Key3
      BY <1>1, <2>3, <3>0, KeyFacts DEF TypeInv
    <3>3. Absent(key)'
      BY <1>4, <2>4, <3>0, <3>1, <3>2
    <3>4. Key(g.dev, v)' = key
      BY <1>2, <3>0 DEF Key
    <3> QED BY <3>3, <3>4
  <2>5. UnitOf(g.at) \in Nat
    BY <2>3, UnitFacts
  <2>6. \A k \in Nat : g.at + k * Unit \in Nat
    BY <2>3, Positive
  <2>7. FrameAbsent(g)'
    <3>1. g.call = "unit" => Absent(Key(g.dev, UnitOf(g.at)))'
      BY <2>2, <2>4, <2>5 DEF FrameAbsent
    <3>2. ASSUME g.call \in {"run", "store"}, NEW k \in Nat, k * Unit < Todo(g)
          PROVE  Absent(Key(g.dev, g.at + k * Unit))'
      <4>1. Absent(Key(g.dev, g.at + k * Unit))
        BY <2>2, <3>2 DEF FrameAbsent
      <4> DEFINE v == g.at + k * Unit
      <4>2. v \in Nat
        BY <2>6
      <4> HIDE DEF v
      <4>3. Absent(Key(g.dev, v))
        BY <4>1 DEF v
      <4>4. Absent(Key(g.dev, v))'
        BY <2>4, <4>2, <4>3
      <4> QED BY <4>4 DEF v
    <3> QED BY <3>1, <3>2 DEF FrameAbsent
  <2> QED BY <2>0, <2>7
<1>7. FramesOK(s)'
  <2>1. FramesOK(old) /\ old # <<>> /\ Like(Last(old), f)
    BY <1>0, <1>1
  <2>2. s = Append(SubSeq(old, 1, Len(old) - 1), f)
    BY <1>0 DEF Below
  <2>3. FramesOK(Append(SubSeq(old, 1, Len(old) - 1), f))'
    BY <1>2, <1>6, <2>1, FramesStore
  <2> QED BY <2>2, <2>3
<1>8. FramesInv'
  BY <1>0, <1>7 DEF FramesInv
<1>9. RetInv' /\ ErrnoInv'
  BY <1>0, <1>4, <1>5, AwakeRet
<1>10. Good' = Good
  BY <1>2 DEF Good, IdsUsedUp
<1>11. (Good => CacheRight)'
  BY <1>1, <1>4, <1>10 DEF Good
<1>12. TypeInv'
  <2>1. /\ attached' \subseteq Devs /\ id' \in [Devs -> Nat \cup {-1}]
        /\ last_id' \in [{"lost", "crypt"} -> Nat] /\ bad' \in BadSets
        /\ depth' \in Nat /\ deep' \in BOOLEAN
    BY <1>1, <1>2 DEF TypeInv
  <2>2. stack' \in Seq(Frame)
    BY <1>0, <1>5
  <2> QED BY <1>4, <2>1, <2>2 DEF TypeInv
<1>13. DeviceInv' /\ IdInv'
  BY <1>1, <1>2 DEF DeviceInv, IdInv, Ever
<1>14. DepthBalanced'
  BY <1>0, <1>1, <1>5 DEF DepthBalanced
<1> QED BY <1>4, <1>8, <1>9, <1>11, <1>12, <1>13, <1>14 DEF IInv
-----------------------------------------------------------------------------
(* What a frame takes.                                                     *)

\* A frame that takes sectors it has room for.
LEMMA AdvanceFacts ==
  ASSUME NEW f \in Frame, FrameOK(f), NEW data \in Seq(Token), Len(data) <= f.left
  PROVE  LET g == Advance(f, data)
         IN  /\ g \in Frame /\ FrameOK(g) /\ Like(f, g) /\ g.call = "none"
             /\ g.dev = f.dev /\ g.at = f.at + Len(data) /\ g.left = f.left - Len(data)
             /\ g.got = f.got /\ g.hit = f.hit
             /\ f.buf = Tokens(f.dev, From(f), Len(f.buf))
                  /\ data = Tokens(f.dev, f.at, Len(data)) => FrameRight(g)
<1>1. /\ f.dev \in Devs /\ f.at \in Nat /\ f.left \in Nat /\ f.buf \in Seq(Token)
      /\ f.got \in Seq(Token) /\ f.hit \in Seq(Token) /\ f.len \in Nat
  BY DEF Frame
<1>2. f.at + f.left <= Size[f.dev] /\ Len(f.buf) <= f.at /\ Size[f.dev] \in Nat
  BY <1>1, DeviceFacts DEF FrameOK
<1>3. PICK g : g = Advance(f, data)
  OBVIOUS
<1>4. /\ g.dev = f.dev /\ g.at = f.at + Len(data) /\ g.left = f.left - Len(data)
      /\ g.got = f.got /\ g.hit = f.hit /\ g.call = "none" /\ g.len = 0
      /\ g.buf = f.buf \o data
  BY <1>3 DEF Advance, Frame
<1>5. Len(data) \in Nat /\ Len(f.buf) \in Nat
  BY <1>1
<1>6. f.buf \o data \in Seq(Token) /\ Len(f.buf \o data) = Len(f.buf) + Len(data)
  BY <1>1, ConcatProperties
<1>7. f.at + Len(data) \in Nat /\ f.left - Len(data) \in Nat
  BY <1>1, <1>5
<1>8. g \in Frame
  <2> DEFINE b == f.buf \o data
             a == f.at + Len(data)
             l == f.left - Len(data)
  <2>1. g = [f EXCEPT !.buf = b, !.at = a, !.left = l, !.call = "none", !.len = 0]
    BY <1>3 DEF Advance, Frame
  <2>2. b \in Seq(Token) /\ a \in Nat /\ l \in Nat
    BY <1>6, <1>7
  <2> HIDE DEF a, b, l
  <2> QED BY <2>1, <2>2 DEF Frame
<1>9. FrameOK(g)
  <2>1. g.at + g.left <= Size[g.dev] /\ Len(g.buf) <= g.at
    BY <1>1, <1>2, <1>4, <1>5, <1>6
  <2> QED BY <1>4, <2>1 DEF FrameOK
<1>10. From(g) = From(f) /\ Owed(g) = Owed(f)
  BY <1>1, <1>4, <1>5, <1>6 DEF From, Owed
<1>11. Like(f, g)
  BY <1>4, <1>10 DEF Like
<1>12. ASSUME f.buf = Tokens(f.dev, From(f), Len(f.buf)), data = Tokens(f.dev, f.at, Len(data))
       PROVE  FrameRight(g)
  <2> DEFINE a == From(f)
             m == Len(f.buf)
             n == Len(data)
  <2>1. a \in Nat /\ m \in Nat /\ n \in Nat /\ a + m = f.at
    BY <1>1, <1>2, <1>5 DEF From
  <2>2. f.buf = Tokens(f.dev, a, m) /\ data = Tokens(f.dev, a + m, n)
    BY <1>12, <2>1
  <2>3. Len(g.buf) = m + n
    BY <1>4, <1>6
  <2> HIDE DEF a, m, n
  <2>4. Tokens(f.dev, a, m) \o Tokens(f.dev, a + m, n) = Tokens(f.dev, a, m + n)
    <3>1. f.dev \in Devs /\ a \in Nat /\ m \in Nat /\ n \in Nat
      BY <1>1, <2>1
    <3> QED BY <3>1, TokensJoin, Zenon
  <2>5. g.buf = Tokens(f.dev, a, m + n)
    BY <1>4, <2>2, <2>4, Zenon
  <2>6. g.buf = Tokens(g.dev, From(g), Len(g.buf))
    BY <1>4, <1>10, <2>3, <2>5 DEF a
  <2> QED BY <1>4, <2>6 DEF FrameRight
<1> QED BY <1>3, <1>4, <1>8, <1>9, <1>11, <1>12

\* The part of a unit that a frame takes of it.
LEMMA PartOfUnit ==
  ASSUME NEW f \in Frame, Small(f), NEW data \in Seq(Token), Len(data) = Unit
  PROVE  LET part == SubSeq(data, (f.at % Unit) + 1, (f.at % Unit) + SmallLen(f))
         IN  /\ part \in Seq(Token) /\ Len(part) = SmallLen(f) /\ Len(part) <= f.left
             /\ data = Tokens(f.dev, UnitOf(f.at), Unit) => part = Tokens(f.dev, f.at, Len(part))
<1>1. f.dev \in Devs /\ f.at \in Nat
  BY DEF Frame
<1>2. PICK r, k, u : r = f.at % Unit /\ k = SmallLen(f) /\ u = UnitOf(f.at)
  OBVIOUS
<1>3. r \in Nat /\ u \in Nat /\ u + r = f.at
  BY <1>1, <1>2, UnitFacts
<1>4. k \in Nat /\ k > 0 /\ k <= f.left /\ r + k <= Unit
  BY <1>2, SmallFacts
<1>5. PICK part : part = SubSeq(data, r + 1, r + k)
  OBVIOUS
<1>6. part \in Seq(Token) /\ Len(part) = k
  BY <1>3, <1>4, <1>5, Positive
<1>7. ASSUME data = Tokens(f.dev, u, Unit) PROVE part = Tokens(f.dev, f.at, k)
  <2>1. PICK m, n : m = r + 1 /\ n = r + k
    OBVIOUS
  <2>2. m \in Nat /\ n \in Nat /\ 0 < m /\ m <= n /\ n <= Len(data)
    BY <1>3, <1>4, <2>1
  <2>3. data = Tokens(f.dev, u, Len(data))
    BY <1>7
  <2>4. SubSeq(data, m, n) = Tokens(f.dev, u + m - 1, n - m + 1)
    <3>1. f.dev \in Devs /\ u \in Nat
      BY <1>1, <1>3
    <3> QED BY <2>2, <2>3, <3>1, TokensPart, ZenonT(30)
  <2>5. u + m - 1 = f.at /\ n - m + 1 = k
    BY <1>3, <1>4, <2>1
  <2> QED BY <1>5, <2>1, <2>4, <2>5
<1> QED BY <1>2, <1>4, <1>5, <1>6, <1>7

\* What is fetched for a device is right.
LEMMA FetchRight ==
  ASSUME TypeInv, CacheRight, NEW d \in Devs, id[d] # -1, NEW u \in Nat,
         Fetch(Key(d, u)) # NoData
  PROVE  Fetch(Key(d, u)) = Tokens(d, u, Unit)
<1>0. PICK key, data : key = Key(d, u) /\ data = Fetch(key)
  OBVIOUS
<1>1. key \in Key3
  BY <1>0, KeyFacts DEF TypeInv
<1>2. PICK e \in EntrySet(cache[Index(key)]) : e.key = key /\ e.data = data
  BY <1>0, <1>1, FetchFacts
<1>3. EntryRight(e)
  BY <1>1, <1>2, IndexFacts DEF CacheRight
<1> QED BY <1>0, <1>2, <1>3 DEF EntryRight

\* Products with the size of a unit.
LEMMA UnitTimes ==
  ASSUME NEW n \in Nat
  PROVE  /\ n * Unit \in Nat /\ (n + 1) * Unit = n * Unit + Unit
         /\ \A k \in Nat : k * Unit < n * Unit => k < n
         /\ \A k \in Nat : n <= k => n * Unit <= k * Unit
<1>1. n * Unit \in Nat /\ (n + 1) * Unit = n * Unit + Unit
  BY Positive
<1>2. ASSUME NEW k \in Nat, NEW m \in Nat, m <= k PROVE m * Unit <= k * Unit
  <2>1. PICK j \in Nat : k = m + j
    <3>1. k - m \in Nat /\ k = m + (k - m)
      BY <1>2
    <3> QED BY <3>1
  <2>2. k * Unit = m * Unit + j * Unit /\ j * Unit \in Nat /\ m * Unit \in Nat
    BY <2>1, Positive
  <2> QED BY <2>2
<1>3. ASSUME NEW k \in Nat, k * Unit < n * Unit PROVE k < n
  <2>1. n <= k => n * Unit <= k * Unit
    BY <1>2
  <2>2. k * Unit \in Nat
    BY Positive
  <2> QED BY <1>1, <1>3, <2>1, <2>2
<1> QED BY <1>1, <1>2, <1>3

\* The run of units before the first cached one, and the cached one.
LEMMA RunFacts ==
  ASSUME TypeInv, Good => CacheRight, NEW f \in Frame, id[f.dev] # -1, Whole(f)
  PROVE  /\ Agglomerate(f) \in Nat /\ Agglomerate(f) * Unit \in Nat
         /\ RunData(f) \in Seq(Token) /\ Len(RunData(f)) \in {0, Unit}
         /\ Agglomerate(f) * Unit + Len(RunData(f)) <= f.left
         /\ \A k \in Nat : k * Unit < Agglomerate(f) * Unit =>
              Absent(Key(f.dev, f.at + k * Unit))
         /\ Good /\ RunData(f) # <<>> =>
              RunData(f) = Tokens(f.dev, f.at + Agglomerate(f) * Unit, Unit)
<1>1. f.dev \in Devs /\ f.at \in Nat /\ f.left \in Nat
  BY DEF Frame
<1>2. PICK q : q = f.left \div Unit
  OBVIOUS
<1>3. q \in Nat /\ q * Unit <= f.left
  <2>1. q \in Nat
    BY <1>1, <1>2, Positive
  <2>2. f.left = Unit * q + (f.left % Unit) /\ f.left % Unit \in Nat
    <3>1. ASSUME NEW a \in Nat PROVE a = Unit * (a \div Unit) + (a % Unit) /\ a % Unit \in Nat
      BY Positive
    <3> QED BY <1>1, <1>2, <3>1
  <2>3. Unit * q = q * Unit /\ q * Unit \in Nat
    BY <2>1, Positive
  <2> QED BY <1>1, <2>1, <2>2, <2>3
<1>4. PICK most : most = Least({q, MaxAgglomerate})
  OBVIOUS
<1>5. most \in Nat /\ most <= q
  <2>1. {q, MaxAgglomerate} \subseteq Nat /\ {q, MaxAgglomerate} # {}
    BY <1>3, Positive
  <2>2. most \in {q, MaxAgglomerate} /\ \A k \in {q, MaxAgglomerate} : most <= k
    BY <1>4, <2>1, LeastFacts
  <2> QED BY <2>1, <2>2
<1>6. PICK S : S = {n \in 0..(most - 1) : Fetch(Key(f.dev, f.at + n * Unit)) # NoData}
  OBVIOUS
<1>7. PICK n : n = Agglomerate(f)
  OBVIOUS
<1>8. n = Least({most} \cup S)
  BY <1>2, <1>4, <1>6, <1>7 DEF Agglomerate
<1>9. n \in {most} \cup S /\ \A k \in {most} \cup S : n <= k
  <2>1. {most} \cup S \subseteq Nat /\ {most} \cup S # {}
    BY <1>5, <1>6
  <2> HIDE <1>6
  <2> QED BY <1>8, <2>1, LeastFacts
<1>10. n \in Nat /\ n <= most /\ n * Unit \in Nat
  BY <1>5, <1>6, <1>9, UnitTimes
<1>11. ASSUME NEW k \in Nat
       PROVE  f.at + k * Unit \in Nat /\ Key(f.dev, f.at + k * Unit) \in Key3
  <2>1. k * Unit \in Nat
    BY UnitTimes
  <2>2. f.at + k * Unit \in Nat
    BY <1>1, <2>1
  <2> QED BY <1>1, <2>2, KeyFacts DEF TypeInv
<1>12. ASSUME NEW k \in Nat, k * Unit < n * Unit PROVE Absent(Key(f.dev, f.at + k * Unit))
  <2>1. k < n
    BY <1>10, <1>12, UnitTimes
  <2>2. k \in 0..(most - 1) /\ k \notin S
    BY <1>5, <1>9, <1>10, <2>1
  <2>3. Fetch(Key(f.dev, f.at + k * Unit)) = NoData
    BY <1>6, <2>2
  <2> QED BY <1>11, <2>3, FetchFacts
<1>13. PICK data : data = RunData(f)
  OBVIOUS
<1>14. CASE n < most
  <2>1. data = Fetch(Key(f.dev, f.at + n * Unit))
    BY <1>2, <1>4, <1>7, <1>13, <1>14 DEF RunData
  <2>2. data \in Seq(Token) /\ Len(data) \in {0, Unit}
    BY <1>10, <1>11, <2>1, FetchFacts
  <2>3. n * Unit + Unit <= f.left
    <3>1. (n + 1) * Unit <= q * Unit /\ (n + 1) * Unit = n * Unit + Unit /\ q * Unit \in Nat
      <4>1. n + 1 \in Nat /\ n + 1 <= q
        BY <1>3, <1>5, <1>10, <1>14
      <4> QED BY <1>3, <1>10, <4>1, UnitTimes
    <3> QED BY <1>1, <1>3, <1>10, <3>1, Positive
  <2>4. n * Unit + Len(data) <= f.left
    BY <1>1, <1>10, <2>2, <2>3, Positive
  <2>5. Good /\ data # <<>> => data = Tokens(f.dev, f.at + n * Unit, Unit)
    BY <1>1, <1>10, <1>11, <2>1, FetchRight DEF NoData
  <2> QED BY <1>7, <1>10, <1>12, <1>13, <2>2, <2>4, <2>5
<1>15. CASE ~(n < most)
  <2>1. data = <<>>
    BY <1>2, <1>4, <1>7, <1>13, <1>15 DEF RunData, NoData
  <2>2. data \in Seq(Token) /\ Len(data) = 0
    BY <2>1
  <2>3. n * Unit <= q * Unit /\ q * Unit \in Nat
    BY <1>3, <1>5, <1>10, UnitTimes
  <2>4. n * Unit + Len(data) <= f.left
    BY <1>1, <1>3, <1>10, <2>2, <2>3
  <2> QED BY <1>7, <1>10, <1>12, <1>13, <2>1, <2>2, <2>4
<1> QED BY <1>14, <1>15
-----------------------------------------------------------------------------
(* One lemma per action of a read.                                         *)

\* The innermost read takes sectors and goes on.
LEMMA Takes ==
  ASSUME IInv, stack # <<>>, NEW data \in Seq(Token), Len(data) <= Top.left,
         Good => data = Tokens(Top.dev, Top.at, Len(data)),
         stack' = Append(Below, Advance(Top, data)), ret' = NoRet, ~deep => errno \in Fine,
         UNCHANGED <<devices, cache, depth, errno, req, result, deep>>
  PROVE  IInv'
<1>1. PICK f : f = Top
  OBVIOUS
<1>2. /\ f = Last(stack) /\ f \in Frame /\ FrameOK(f) /\ (Good => FrameRight(f))
  BY <1>1, TopFacts
<1>3. PICK g : g = Advance(f, data)
  OBVIOUS
<1>4. /\ g \in Frame /\ FrameOK(g) /\ Like(f, g) /\ g.call = "none"
      /\ f.buf = Tokens(f.dev, From(f), Len(f.buf))
           /\ data = Tokens(f.dev, f.at, Len(data)) => FrameRight(g)
  BY <1>1, <1>2, <1>3, AdvanceFacts
<1>5. Good => FrameRight(g)
  BY <1>1, <1>2, <1>4 DEF FrameRight
<1>6. FrameAbsent(g)
  BY <1>4 DEF FrameAbsent
<1> QED BY <1>1, <1>2, <1>3, <1>4, <1>5, <1>6, GoesOn

\* A read that is not waiting, or whose device read succeeded, has no error.
LEMMA NoError ==
  ASSUME IInv, stack # <<>>, ret = NoRet \/ ret.err = "none"
  PROVE  (~deep => errno \in Fine) /\ errno \in Errors
BY DEF IInv, ErrnoInv, TypeInv

\* The cached unit.
LEMMA SmallHitOK ==
  ASSUME IInv, SmallHit
  PROVE  IInv'
<1>1. PICK f, data, part : /\ f = Top /\ data = Fetch(Key(f.dev, UnitOf(f.at)))
                           /\ part = SubSeq(data, (f.at % Unit) + 1, (f.at % Unit) + SmallLen(f))
  OBVIOUS
<1>2. /\ stack # <<>> /\ ret = NoRet /\ Small(f) /\ data # NoData
      /\ stack' = Append(Below, Advance(f, part))
      /\ UNCHANGED <<devices, cache, depth, errno, ret, req, result, deep>>
  BY <1>1 DEF SmallHit, Working
<1>3. f \in Frame /\ f.dev \in Devs /\ f.at \in Nat /\ id[f.dev] # -1
  BY <1>1, <1>2, TopFacts
<1>4. TypeInv /\ (Good => CacheRight)
  BY DEF IInv
<1>5. UnitOf(f.at) \in Nat
  BY <1>3, UnitFacts
<1>6. Key(f.dev, UnitOf(f.at)) \in Key3
  BY <1>3, <1>4, <1>5, KeyFacts DEF TypeInv
<1>7. data \in Seq(Token) /\ Len(data) \in {0, Unit}
  BY <1>1, <1>4, <1>6, FetchFacts
<1>8. Len(data) = Unit
  BY <1>2, <1>7 DEF NoData
<1>9. Good => data = Tokens(f.dev, UnitOf(f.at), Unit)
  BY <1>1, <1>2, <1>3, <1>4, <1>5, FetchRight
<1>10. /\ part \in Seq(Token) /\ Len(part) <= f.left
       /\ data = Tokens(f.dev, UnitOf(f.at), Unit) => part = Tokens(f.dev, f.at, Len(part))
  BY <1>1, <1>2, <1>3, <1>7, <1>8, PartOfUnit
<1>11. ~deep => errno \in Fine
  BY <1>2, NoError
<1> QED BY <1>1, <1>2, <1>9, <1>10, <1>11, Takes

\* The sectors asked for are read alone.
LEMMA ReadPartOK ==
  ASSUME IInv, stack # <<>>, NEW f, f = Top, Small(f), ReadPart(f),
         UNCHANGED <<devices, cache, req>>
  PROVE  IInv'
<1>1. /\ f = Last(stack) /\ f \in Frame /\ FrameOK(f) /\ (Good => FrameRight(f))
  BY TopFacts
<1>2. PICK g : g = [f EXCEPT !.call = "part", !.len = SmallLen(f)]
  OBVIOUS
<1>3. SmallLen(f) \in Nat
  BY <1>1, SmallFacts
<1>4. /\ g \in Frame /\ g.dev = f.dev /\ g.at = f.at /\ g.left = f.left /\ g.buf = f.buf
      /\ g.call = "part" /\ g.len = SmallLen(f)
  BY <1>1, <1>2, <1>3 DEF Frame
<1>5. Small(g) /\ SmallLen(g) = SmallLen(f)
  BY <1>4 DEF Small, SmallLen
<1>6. FrameOK(g)
  BY <1>1, <1>4, <1>5 DEF FrameOK
<1>7. Like(f, g) /\ From(g) = From(f)
  BY <1>4 DEF Like, From, Owed
<1>8. FrameAbsent(g) /\ (Good => FrameRight(g))
  BY <1>1, <1>4, <1>7 DEF FrameAbsent, FrameRight
<1>9. DiskRead(g, AskAt(g), AskLen(g), "none")
  BY <1>2, <1>4 DEF ReadPart, AskAt, AskLen
<1>10. "none" \in Errors /\ "none" \in Fine /\ g.call \in Waits
  BY <1>4 DEF Errors, Fine, Waits
<1> QED BY <1>1, <1>4, <1>6, <1>7, <1>8, <1>9, <1>10, DiskReadOK

\* The whole unit is read, or the sectors asked for.
LEMMA SmallMissOK ==
  ASSUME IInv, SmallMiss
  PROVE  IInv'
<1>1. PICK f : f = Top
  OBVIOUS
<1>2. /\ stack # <<>> /\ ret = NoRet /\ Small(f) /\ f.call = "none"
      /\ Fetch(Key(f.dev, UnitOf(f.at))) = NoData
      /\ IF UnitOf(f.at) + Unit < Size[f.dev]
         THEN DiskRead([f EXCEPT !.call = "unit"], UnitOf(f.at), Unit, errno)
         ELSE ReadPart(f)
      /\ UNCHANGED <<devices, cache, req>>
  BY <1>1 DEF SmallMiss, Working
<1>3. /\ f = Last(stack) /\ f \in Frame /\ FrameOK(f) /\ (Good => FrameRight(f))
      /\ f.dev \in Devs /\ f.at \in Nat /\ id[f.dev] # -1
  BY <1>1, <1>2, TopFacts
<1>4. CASE UnitOf(f.at) + Unit < Size[f.dev]
  <2>1. PICK g : g = [f EXCEPT !.call = "unit"]
    OBVIOUS
  <2>2. /\ g \in Frame /\ g.dev = f.dev /\ g.at = f.at /\ g.left = f.left /\ g.buf = f.buf
        /\ g.call = "unit"
    BY <1>3, <2>1 DEF Frame
  <2>3. Small(g)
    BY <1>2, <2>2 DEF Small
  <2>4. FrameOK(g)
    BY <1>3, <1>4, <2>2, <2>3 DEF FrameOK
  <2>5. Like(f, g) /\ From(g) = From(f)
    BY <2>2 DEF Like, From, Owed
  <2>6. Absent(Key(f.dev, UnitOf(f.at)))
    <3>1. TypeInv /\ UnitOf(f.at) \in Nat
      BY <1>3, UnitFacts DEF IInv
    <3>2. Key(f.dev, UnitOf(f.at)) \in Key3
      BY <1>3, <3>1, KeyFacts DEF TypeInv
    <3> QED BY <1>2, <3>1, <3>2, FetchFacts
  <2>7. FrameAbsent(g) /\ (Good => FrameRight(g))
    BY <1>3, <2>2, <2>5, <2>6 DEF FrameAbsent, FrameRight
  <2>8. DiskRead(g, AskAt(g), AskLen(g), errno)
    BY <1>2, <1>4, <2>1, <2>2 DEF AskAt, AskLen
  <2>9. errno \in Errors /\ (~deep => errno \in Fine) /\ g.call \in Waits
    BY <1>2, <2>2, NoError DEF Waits
  <2> QED BY <1>2, <1>3, <2>2, <2>4, <2>5, <2>7, <2>8, <2>9, DiskReadOK
<1>5. CASE ~(UnitOf(f.at) + Unit < Size[f.dev])
  BY <1>1, <1>2, <1>5, ReadPartOK
<1> QED BY <1>4, <1>5

\* The sectors asked for are tried when the unit cannot be read.
LEMMA UnitFailedOK ==
  ASSUME IInv, UnitFailed
  PROVE  IInv'
<1>1. stack # <<>> /\ Top.call = "unit" /\ ReadPart(Top) /\ UNCHANGED <<devices, cache, req>>
  BY DEF UnitFailed, Answered
<1>2. Small(Top)
  BY <1>1, TopFacts DEF FrameOK
<1> QED BY <1>1, <1>2, ReadPartOK

\* A read ends with an error that is a lack of memory.
LEMMA NoBufferOK ==
  ASSUME IInv, NoBuffer
  PROVE  IInv'
<1>1. stack # <<>> /\ errno' = "memory" /\ Return("memory", <<>>)
  BY DEF NoBuffer, Working, Answered
<1>2. "memory" \in Errors /\ "memory" \in Fine /\ "memory" # "none"
  BY DEF Errors, Fine
<1>3. <<>> \in Seq(Token)
  OBVIOUS
<1>4. PICK err, data : err = "memory" /\ data = <<>>
  OBVIOUS
<1>5. /\ err \in Errors /\ err \in Fine /\ err # "none" /\ data \in Seq(Token)
      /\ Return(err, data) /\ errno' \in Errors /\ errno' = err
  BY <1>1, <1>2, <1>3, <1>4
<1> QED BY <1>1, <1>5, ReturnOK

\* What the device read of the innermost frame returned.
LEMMA AnsweredFacts ==
  ASSUME IInv, stack # <<>>, ret # NoRet, NEW f, f = Top
  PROVE  /\ f.call \in Waits /\ ret.err \in Errors /\ ret.data \in Seq(Token)
         /\ ret.err = "none" => Len(ret.data) = AskLen(f)
         /\ Good /\ ret.err = "none" =>
              FromParent(f.dev, AskAt(f), ret.data) = Tokens(f.dev, AskAt(f), AskLen(f))
         /\ ~deep /\ GoodRange(f.dev, AskAt(f), AskLen(f)) => ret.err \in Fine
<1>1. AnswerOK(stack, ret.err, ret.data) /\ f = Last(stack)
  BY TopFacts DEF IInv, RetInv
<1> QED BY <1>1 DEF AnswerOK

\* The unit is stored, and a part of it taken.
LEMMA UnitReadOK ==
  ASSUME IInv, UnitRead
  PROVE  IInv'
<1>1. PICK f, u, data, part :
        /\ f = Top /\ u = UnitOf(f.at) /\ data = FromParent(f.dev, u, ret.data)
        /\ part = SubSeq(data, (f.at % Unit) + 1, (f.at % Unit) + SmallLen(f))
  OBVIOUS
<1>2. /\ stack # <<>> /\ ret # NoRet /\ ret.err = "none" /\ f.call = "unit"
      /\ Store(Key(f.dev, u), data)
      /\ stack' = Append(Below, Advance(f, part)) /\ ret' = NoRet
      /\ UNCHANGED <<devices, depth, req, result, deep>>
  BY <1>1 DEF UnitRead, Answered
<1>3. /\ f = Last(stack) /\ f \in Frame /\ FrameOK(f) /\ (Good => FrameRight(f))
      /\ f.dev \in Devs /\ f.at \in Nat /\ f.left \in Nat /\ (~IdsUsedUp => FrameAbsent(f))
  BY <1>1, <1>2, TopFacts
<1>4. u \in Nat /\ Small(f) /\ AskAt(f) = u /\ AskLen(f) = Unit
  BY <1>1, <1>2, <1>3, UnitFacts DEF FrameOK, AskAt, AskLen
<1>5. /\ ret.data \in Seq(Token) /\ Len(ret.data) = Unit
      /\ Good => data = Tokens(f.dev, u, Unit)
  BY <1>1, <1>2, <1>4, AnsweredFacts
<1>6. data \in Seq(Token) /\ Len(data) = Unit
  BY <1>1, <1>3, <1>4, <1>5, FromParentFacts
<1>7. /\ part \in Seq(Token) /\ Len(part) <= f.left
      /\ data = Tokens(f.dev, u, Unit) => part = Tokens(f.dev, f.at, Len(part))
  BY <1>1, <1>3, <1>4, <1>6, PartOfUnit
<1>8. PICK g : g = Advance(f, part)
  OBVIOUS
<1>9. /\ g \in Frame /\ FrameOK(g) /\ Like(f, g) /\ g.call = "none"
      /\ f.buf = Tokens(f.dev, From(f), Len(f.buf))
           /\ part = Tokens(f.dev, f.at, Len(part)) => FrameRight(g)
  BY <1>3, <1>7, <1>8, AdvanceFacts
<1>10. Good => FrameRight(g)
  BY <1>3, <1>5, <1>7, <1>9 DEF FrameRight
<1>11. FrameAbsent(g)'
  BY <1>9 DEF FrameAbsent
<1>12. ~IdsUsedUp => Absent(Key(f.dev, u))
  BY <1>1, <1>2, <1>3 DEF FrameAbsent
<1>13. ~deep => errno \in Fine
  BY <1>2, NoError
<1>14. Like(Last(stack), g) /\ g.call \in {"none", "store"} /\ stack' = Append(Below, g)
  BY <1>2, <1>3, <1>8, <1>9
<1>15. PICK d : d = f.dev /\ d = Top.dev
  BY <1>1
<1>16. /\ Store(Key(d, u), data) /\ (~IdsUsedUp => Absent(Key(d, u)))
       /\ (Good => data = Tokens(d, u, Unit))
  BY <1>2, <1>5, <1>12, <1>15
<1> QED BY <1>2, <1>4, <1>6, <1>9, <1>10, <1>11, <1>13, <1>14, <1>15, <1>16, StoresOn

\* The sectors asked for are taken.
LEMMA PartReadOK ==
  ASSUME IInv, PartRead
  PROVE  IInv'
<1>1. PICK f, data : f = Top /\ data = FromParent(f.dev, f.at, ret.data)
  OBVIOUS
<1>2. /\ stack # <<>> /\ ret # NoRet /\ ret.err = "none" /\ f.call = "part"
      /\ stack' = Append(Below, Advance(f, data)) /\ ret' = NoRet
      /\ UNCHANGED <<devices, cache, depth, errno, req, result, deep>>
  BY <1>1 DEF PartRead, Answered
<1>3. f \in Frame /\ FrameOK(f) /\ f.dev \in Devs /\ f.at \in Nat
  BY <1>1, <1>2, TopFacts
<1>4. AskAt(f) = f.at /\ AskLen(f) = SmallLen(f) /\ SmallLen(f) <= f.left
  BY <1>2, <1>3, SmallFacts DEF FrameOK, AskAt, AskLen
<1>5. /\ ret.data \in Seq(Token) /\ Len(ret.data) = SmallLen(f)
      /\ Good => data = Tokens(f.dev, f.at, SmallLen(f))
  BY <1>1, <1>2, <1>4, AnsweredFacts
<1>6. data \in Seq(Token) /\ Len(data) = SmallLen(f)
  BY <1>1, <1>3, <1>5, FromParentFacts
<1>7. Len(data) <= f.left /\ (Good => data = Tokens(f.dev, f.at, Len(data)))
  BY <1>4, <1>5, <1>6
<1>8. ~deep => errno \in Fine
  BY <1>2, NoError
<1> QED BY <1>1, <1>2, <1>6, <1>7, <1>8, Takes

\* A cached unit is taken.
LEMMA RunCachedOK ==
  ASSUME IInv, RunCached
  PROVE  IInv'
<1>1. PICK f, data : f = Top /\ data = RunData(f)
  OBVIOUS
<1>2. /\ stack # <<>> /\ ret = NoRet /\ Whole(f) /\ Agglomerate(f) = 0
      /\ stack' = Append(Below, Advance(f, data))
      /\ UNCHANGED <<devices, cache, depth, errno, ret, req, result, deep>>
  BY <1>1 DEF RunCached, Working
<1>3. f \in Frame /\ f.dev \in Devs /\ f.at \in Nat /\ f.left \in Nat /\ id[f.dev] # -1
  BY <1>1, <1>2, TopFacts
<1>4. TypeInv /\ (Good => CacheRight)
  BY DEF IInv
<1>5. /\ data \in Seq(Token) /\ Len(data) \in {0, Unit}
      /\ Agglomerate(f) * Unit + Len(data) <= f.left
      /\ Good /\ data # <<>> => data = Tokens(f.dev, f.at + Agglomerate(f) * Unit, Unit)
  BY <1>1, <1>2, <1>3, <1>4, RunFacts
<1>6. Agglomerate(f) * Unit = 0 /\ f.at + Agglomerate(f) * Unit = f.at
  BY <1>2, <1>3, Positive
<1>7. Len(data) <= f.left
  BY <1>3, <1>5, <1>6
<1>8. ASSUME Good PROVE data = Tokens(f.dev, f.at, Len(data))
  <2>1. CASE data = <<>>
    BY <1>3, <2>1, TokensNone
  <2>2. CASE data # <<>>
    <3>1. Len(data) = Unit
      BY <1>5, <2>2
    <3> QED BY <1>5, <1>6, <1>8, <2>2, <3>1
  <2> QED BY <2>1, <2>2
<1>9. ~deep => errno \in Fine
  BY <1>2, NoError
<1> QED BY <1>1, <1>2, <1>5, <1>7, <1>8, <1>9, Takes

\* The run before the cached unit is read.
LEMMA RunMissOK ==
  ASSUME IInv, RunMiss
  PROVE  IInv'
<1>1. PICK f, k, n, data : f = Top /\ k = Agglomerate(f) /\ n = k * Unit /\ data = RunData(f)
  OBVIOUS
<1>2. PICK g : g = [f EXCEPT !.call = "run", !.len = n, !.hit = data]
  OBVIOUS
<1>3. /\ stack # <<>> /\ ret = NoRet /\ Whole(f) /\ k > 0
      /\ DiskRead(g, f.at, n, errno) /\ UNCHANGED <<devices, cache, req>>
  BY <1>1, <1>2 DEF RunMiss, Working
<1>4. /\ f = Last(stack) /\ f \in Frame /\ FrameOK(f) /\ (Good => FrameRight(f))
      /\ f.dev \in Devs /\ f.at \in Nat /\ f.left \in Nat /\ id[f.dev] # -1
  BY <1>1, <1>3, TopFacts
<1>5. TypeInv /\ (Good => CacheRight)
  BY DEF IInv
<1>6. /\ k \in Nat /\ n \in Nat /\ data \in Seq(Token) /\ Len(data) \in {0, Unit}
      /\ n + Len(data) <= f.left
  BY <1>1, <1>3, <1>4, <1>5, RunFacts
<1>7. /\ \A j \in Nat : j * Unit < n => Absent(Key(f.dev, f.at + j * Unit))
      /\ Good /\ data # <<>> => data = Tokens(f.dev, f.at + n, Unit)
  BY <1>1, <1>3, <1>4, <1>5, RunFacts
<1>8. /\ g \in Frame /\ g.dev = f.dev /\ g.at = f.at /\ g.left = f.left /\ g.buf = f.buf
      /\ g.call = "run" /\ g.len = n /\ g.hit = data
  BY <1>2, <1>4, <1>6 DEF Frame
<1>9. Todo(g) = n /\ Units(n)
  BY <1>1, <1>3, <1>6, <1>8 DEF Todo, Units
<1>10. FrameOK(g)
  BY <1>4, <1>6, <1>8, <1>9 DEF FrameOK
<1>11. Like(f, g) /\ From(g) = From(f)
  BY <1>8 DEF Like, From, Owed
<1>12. FrameAbsent(g)
  BY <1>7, <1>8, <1>9 DEF FrameAbsent
<1>13. Good => FrameRight(g)
  BY <1>4, <1>7, <1>8, <1>9, <1>11 DEF FrameRight
<1>14. DiskRead(g, AskAt(g), AskLen(g), errno)
  BY <1>3, <1>8 DEF AskAt, AskLen
<1>15. errno \in Errors /\ (~deep => errno \in Fine) /\ g.call \in Waits
  BY <1>3, <1>8, NoError DEF Waits
<1> QED BY <1>3, <1>4, <1>8, <1>10, <1>11, <1>12, <1>13, <1>14, <1>15, DiskReadOK

\* The run was read, and is stored next.
LEMMA RunReadOK ==
  ASSUME IInv, RunRead
  PROVE  IInv'
<1>1. PICK f, data : f = Top /\ data = FromParent(f.dev, f.at, ret.data)
  OBVIOUS
<1>2. PICK g : g = [f EXCEPT !.call = "store", !.got = data]
  OBVIOUS
<1>3. /\ stack # <<>> /\ ret # NoRet /\ ret.err = "none" /\ f.call = "run"
      /\ stack' = Append(Below, g) /\ ret' = NoRet
      /\ UNCHANGED <<devices, cache, depth, errno, req, result, deep>>
  BY <1>1, <1>2 DEF RunRead, Answered
<1>4. /\ f = Last(stack) /\ f \in Frame /\ FrameOK(f) /\ (Good => FrameRight(f))
      /\ f.dev \in Devs /\ f.at \in Nat /\ (~IdsUsedUp => FrameAbsent(f))
  BY <1>1, <1>3, TopFacts
<1>5. AskAt(f) = f.at /\ AskLen(f) = f.len /\ Todo(f) = f.len
  BY <1>3 DEF AskAt, AskLen, Todo
<1>6. /\ ret.data \in Seq(Token) /\ Len(ret.data) = f.len
      /\ Good => data = Tokens(f.dev, f.at, f.len)
  BY <1>1, <1>3, <1>5, AnsweredFacts
<1>7. data \in Seq(Token) /\ Len(data) = f.len
  BY <1>1, <1>4, <1>6, FromParentFacts
<1>8. /\ g \in Frame /\ g.dev = f.dev /\ g.at = f.at /\ g.left = f.left /\ g.buf = f.buf
      /\ g.call = "store" /\ g.got = data /\ g.hit = f.hit
  BY <1>2, <1>4, <1>7 DEF Frame
<1>9. Todo(g) = Todo(f)
  BY <1>5, <1>7, <1>8 DEF Todo
<1>10. FrameOK(g)
  BY <1>3, <1>4, <1>8, <1>9 DEF FrameOK
<1>11. Like(f, g) /\ From(g) = From(f)
  BY <1>8 DEF Like, From, Owed
<1>12. ~IdsUsedUp => FrameAbsent(g)
  BY <1>3, <1>4, <1>8, <1>9 DEF FrameAbsent
<1>13. Good => FrameRight(g)
  BY <1>3, <1>4, <1>6, <1>7, <1>8, <1>9, <1>11 DEF FrameRight
<1>14. ~deep => errno \in Fine
  BY <1>3, NoError
<1> QED BY <1>3, <1>4, <1>8, <1>10, <1>11, <1>12, <1>13, <1>14, GoesOn

\* A read that has all it owes ends.
LEMMA ReadEndsOK ==
  ASSUME IInv, ReadEnds
  PROVE  IInv'
<1>1. PICK f, err, data : f = Top /\ err = errno /\ data = f.buf
  OBVIOUS
<1>2. /\ stack # <<>> /\ ret = NoRet /\ f.left = 0 /\ Return(err, data) /\ errno' = errno
  BY <1>1 DEF ReadEnds, Working
<1>3. /\ f = Last(stack) /\ f \in Frame /\ (Good => FrameRight(f)) /\ data \in Seq(Token)
  BY <1>1, <1>2, TopFacts DEF Frame
<1>4. err \in Errors /\ errno' \in Errors /\ (~deep => err \in Fine /\ errno' \in Fine)
  BY <1>1, <1>2, NoError
<1>5. Owed(f) = Len(data)
  BY <1>1, <1>2, <1>3 DEF Owed
<1>6. Good => data = Tokens(f.dev, From(f), Owed(f))
  BY <1>1, <1>3, <1>5 DEF FrameRight
<1>7. err # "none" => errno' # "none" /\ (err \in Fine => errno' \in Fine)
  BY <1>1, <1>2
<1>8. err = "none" => Len(data) = Owed(f)
  BY <1>5
<1> QED BY <1>2, <1>3, <1>4, <1>6, <1>7, <1>8, ReturnOK

\* The parent was read and its sectors cannot be decrypted.
LEMMA DecryptFailsOK ==
  ASSUME IInv, DecryptFails
  PROVE  IInv'
<1>0. PICK s, err, data : s = stack /\ err = "access" /\ data = <<>>
  OBVIOUS
<1>1. /\ s # <<>> /\ ret # NoRet /\ ret.err = "none" /\ errno' = "memory"
      /\ ret' = [err |-> err, data |-> data] /\ stack' = s
      /\ UNCHANGED <<devices, cache, depth, req, result, deep>>
  BY <1>0 DEF DecryptFails
<1>2. /\ err \in Errors /\ err \in Fine /\ err # "none" /\ data \in Seq(Token)
      /\ "memory" \in Errors /\ "memory" \in Fine
  BY <1>0 DEF Errors, Fine
<1>3. /\ FramesOK(s) /\ s \in Seq(Frame) /\ depth = Len(s) /\ deep \in BOOLEAN
      /\ Last(s).call \in Waits /\ result = <<>>
  BY <1>0, <1>1 DEF IInv, FramesInv, TypeInv, DepthBalanced, RetInv, AnswerOK
<1>4. AnswerOK(s, err, data)'
  BY <1>1, <1>2, <1>3 DEF AnswerOK
<1>5. ret' \in Answer /\ ret' # NoRet /\ ret'.err = err /\ ret'.data = data
  BY <1>1, <1>2, AnswerExists DEF Answer, NoRet
<1>6. RetInv'
  BY <1>1, <1>3, <1>4, <1>5 DEF RetInv
<1>7. ErrnoInv'
  BY <1>1, <1>2, <1>5 DEF ErrnoInv
<1>8. attached' = attached /\ id' = id /\ cache' = cache /\ req' = req /\ deep' = deep
  BY <1>1 DEF devices
<1>9. FramesOK(s)'
  BY <1>3, <1>8, FramesSame
<1>10. FramesInv'
  BY <1>1, <1>9 DEF FramesInv
<1>11. /\ TypeInv' /\ DeviceInv' /\ IdInv' /\ CacheInv' /\ (Good => CacheRight)'
       /\ DepthBalanced'
  BY <1>1, <1>2, <1>3, ReadQuiet
<1> QED BY <1>6, <1>7, <1>10, <1>11 DEF IInv

\* A read ends with the error of its device, or with grub_errno.
LEMMA ReadFailsOK ==
  ASSUME IInv, ReadFails
  PROVE  IInv'
<1>0. PICK f, err, data :
        f = Top /\ err = (IF Top.call = "part" THEN errno ELSE ret.err) /\ data = <<>>
  OBVIOUS
<1>1. /\ stack # <<>> /\ ret # NoRet /\ ret.err # "none" /\ f.call \in {"part", "run"}
      /\ Return(err, data) /\ errno' = errno /\ f = Top /\ data = <<>>
  BY <1>0 DEF ReadFails, Answered
<1>2. /\ stack # <<>> /\ ret # NoRet /\ err # "none" /\ f.call \in {"part", "run"}
      /\ Return(err, data) /\ errno' = errno
      /\ (err \in Fine => errno' \in Fine) /\ errno' # "none"
      /\ (ret.err \in Fine => err \in Fine)
  BY <1>0, <1>1 DEF IInv, ErrnoInv
<1>3. /\ f = Last(stack) /\ f \in Frame /\ FrameOK(f) /\ f.call \in Waits
      /\ errno' \in Errors /\ data \in Seq(Token)
  BY <1>1, <1>2, TopFacts DEF Waits, IInv, TypeInv
<1>4. err \in Errors /\ (~deep /\ GoodRange(f.dev, AskAt(f), AskLen(f)) => err \in Fine)
  BY <1>0, <1>1, <1>2, <1>3, AnsweredFacts
<1>5. ASSUME GoodRange(f.dev, From(f), Owed(f)) PROVE GoodRange(f.dev, AskAt(f), AskLen(f))
  <2>1. AskAt(f) = f.at /\ AskLen(f) <= f.left /\ AskLen(f) \in Nat
    BY <1>2, <1>3, AskFacts DEF AskOK
  <2>2. f.at \in Nat /\ f.left \in Nat /\ Len(f.buf) \in Nat /\ Len(f.buf) <= f.at
    BY <1>3 DEF Frame, FrameOK
  <2>3. PICK a, n, b, m : a = AskAt(f) /\ n = AskLen(f) /\ b = From(f) /\ m = Owed(f)
    OBVIOUS
  <2>4. \A i \in a..(a + n - 1) : i \in b..(b + m - 1)
    <3>1. PICK l, q : l = Len(f.buf) /\ q = f.left
      OBVIOUS
    <3>2. b = a - l /\ m = q + l
      BY <2>1, <2>3, <3>1 DEF From, Owed
    <3>3. a \in Nat /\ n \in Nat /\ q \in Nat /\ l \in Nat /\ n <= q /\ l <= a
      BY <2>1, <2>2, <2>3, <3>1
    <3> QED BY <3>2, <3>3
  <2> QED BY <1>5, <2>3, <2>4 DEF GoodRange
<1> QED BY <1>2, <1>3, <1>4, <1>5, ReturnOK

\* A unit of the run is stored, and after the last one the cached unit is
\* taken.
LEMMA StoreNextOK ==
  ASSUME IInv, StoreNext
  PROVE  IInv'
<1>1. PICK f, unit, rest, g, h :
        /\ f = Top /\ unit = SubSeq(f.got, 1, Unit)
        /\ rest = SubSeq(f.got, Unit + 1, Len(f.got)) /\ g = Advance(f, unit)
        /\ h = IF rest # <<>> THEN [g EXCEPT !.call = "store", !.got = rest]
               ELSE [Advance(g, f.hit) EXCEPT !.got = <<>>, !.hit = <<>>]
  OBVIOUS
<1>2. /\ stack # <<>> /\ f.call = "store" /\ Store(Key(f.dev, f.at), unit)
      /\ stack' = Append(Below, h)
      /\ UNCHANGED <<devices, depth, ret, req, result, deep>>
  BY <1>1 DEF StoreNext
<1>3. /\ f = Last(stack) /\ f \in Frame /\ FrameOK(f) /\ (Good => FrameRight(f))
      /\ f.dev \in Devs /\ f.at \in Nat /\ f.left \in Nat /\ (~IdsUsedUp => FrameAbsent(f))
      /\ id[f.dev] # -1
  BY <1>1, <1>2, TopFacts
<1>4. ret = NoRet
  BY <1>1, <1>2, AnsweredFacts DEF Waits
<1>5. ~deep => errno \in Fine
  BY <1>2, <1>4, NoError
<1>6. f.got \in Seq(Token) /\ f.hit \in Seq(Token) /\ Todo(f) = Len(f.got)
  BY <1>2, <1>3 DEF Frame, Todo
<1>7. PICK n, got : got = f.got /\ n = Len(got)
  OBVIOUS
<1>8. n \in Nat /\ Units(n) /\ Len(f.hit) \in {0, Unit} /\ n + Len(f.hit) <= f.left
  <2>1. f.call = "store" /\ FrameOK(f)
    BY <1>2, <1>3
  <2>2. /\ Units(Todo(f)) /\ Len(f.hit) \in {0, Unit} /\ Todo(f) + Len(f.hit) <= f.left
    BY <2>1 DEF FrameOK
  <2>3. Todo(f) = n /\ n \in Nat
    BY <1>6, <1>7
  <2> QED BY <2>2, <2>3
<1>9. n >= Unit /\ (n # Unit => Units(n - Unit))
  BY <1>8, UnitsFacts
<1>10. /\ unit \in Seq(Token) /\ Len(unit) = Unit
       /\ rest \in Seq(Token) /\ Len(rest) = n - Unit
  <2>1. got \in Seq(Token) /\ unit = SubSeq(got, 1, Unit) /\ rest = SubSeq(got, Unit + 1, n)
    BY <1>1, <1>6, <1>7
  <2>2. unit \in Seq(Token) /\ Len(unit) = Unit
    BY <1>7, <1>9, <2>1, Positive
  <2>3. rest \in Seq(Token) /\ Len(rest) = n - Unit
    BY <1>7, <1>8, <1>9, <2>1, Positive
  <2> QED BY <2>2, <2>3
<1>11. got \in Seq(Token) /\ got = f.got /\ n = Len(got)
  BY <1>6, <1>7
<1>12. Len(unit) <= f.left
  <2>1. n \in Nat /\ f.left \in Nat /\ Len(f.hit) \in Nat /\ n + Len(f.hit) <= f.left
    BY <1>3, <1>6, <1>8
  <2> QED BY <1>9, <1>10, <2>1, Positive
<1>13. ASSUME Good PROVE unit = Tokens(f.dev, f.at, Len(unit))
  <2>1. got = Tokens(f.dev, f.at, Len(got))
    BY <1>2, <1>3, <1>11, <1>13 DEF FrameRight
  <2>2. Unit \in Nat /\ 1 \in Nat /\ 0 < 1 /\ 1 <= Unit /\ Unit <= Len(got)
    BY <1>7, <1>9, Positive
  <2>3. SubSeq(got, 1, Unit) = Tokens(f.dev, f.at + 1 - 1, Unit - 1 + 1)
    <3>1. f.dev \in Devs /\ f.at \in Nat /\ got \in Seq(Token)
      BY <1>3, <1>11
    <3> QED BY <2>1, <2>2, <3>1, TokensPart, ZenonT(30)
  <2>4. f.at + 1 - 1 = f.at /\ Unit - 1 + 1 = Unit
    BY <1>3, Positive
  <2> QED BY <1>1, <1>10, <1>11, <2>3, <2>4
<1>14. /\ g \in Frame /\ FrameOK(g) /\ Like(f, g) /\ g.call = "none"
       /\ g.dev = f.dev /\ g.at = f.at + Unit /\ g.left = f.left - Unit
       /\ g.got = f.got /\ g.hit = f.hit
       /\ f.buf = Tokens(f.dev, From(f), Len(f.buf))
            /\ unit = Tokens(f.dev, f.at, Len(unit)) => FrameRight(g)
  <2>1. f \in Frame /\ FrameOK(f) /\ unit \in Seq(Token) /\ g = Advance(f, unit)
    BY <1>1, <1>3, <1>10
  <2>2. /\ g \in Frame /\ FrameOK(g) /\ Like(f, g) /\ g.call = "none"
        /\ g.dev = f.dev /\ g.at = f.at + Len(unit) /\ g.left = f.left - Len(unit)
        /\ g.got = f.got /\ g.hit = f.hit
        /\ f.buf = Tokens(f.dev, From(f), Len(f.buf))
             /\ unit = Tokens(f.dev, f.at, Len(unit)) => FrameRight(g)
    BY <1>12, <2>1, AdvanceFacts
  <2> QED BY <1>10, <2>2
<1>15. Good => FrameRight(g)
  BY <1>3, <1>13, <1>14 DEF FrameRight
<1>16. ASSUME ~IdsUsedUp PROVE Absent(Key(f.dev, f.at))
  <2>1. 0 \in Nat /\ 0 * Unit < Todo(f) /\ f.at + 0 * Unit = f.at
    BY <1>3, <1>6, <1>7, <1>8, <1>9, Positive
  <2>2. Absent(Key(f.dev, f.at + 0 * Unit))
    BY <1>2, <1>3, <1>16, <2>1 DEF FrameAbsent
  <2> QED BY <2>1, <2>2
<1>17. /\ h \in Frame /\ FrameOK(h) /\ Like(f, h) /\ h.call \in {"none", "store"}
       /\ (Good => FrameRight(h))
       /\ h.call = "store" =>
            h.dev = f.dev /\ h.at = f.at + Unit /\ Todo(h) = n - Unit
  <2>1. CASE rest # <<>>
    <3>1. /\ h \in Frame /\ h.dev = f.dev /\ h.at = f.at + Unit /\ h.left = f.left - Unit
          /\ h.buf = g.buf /\ h.call = "store" /\ h.got = rest /\ h.hit = f.hit
      <4>1. h = [g EXCEPT !.call = "store", !.got = rest]
        BY <1>1, <2>1
      <4> QED BY <1>10, <1>14, <4>1 DEF Frame
    <3>2. Todo(h) = n - Unit /\ n # Unit
      BY <1>8, <1>10, <2>1, <3>1, Positive DEF Todo
    <3>3. Units(Todo(h)) /\ Todo(h) + Len(h.hit) <= h.left
      BY <1>3, <1>8, <1>9, <3>1, <3>2, Positive
    <3>4. FrameOK(h)
      BY <1>8, <1>14, <3>1, <3>3 DEF FrameOK
    <3>5. Like(f, h) /\ From(h) = From(g)
      BY <1>14, <3>1 DEF Like, From, Owed
    <3>6. ASSUME Good PROVE FrameRight(h)
      <4>1. rest = Tokens(f.dev, f.at + Unit, n - Unit)
        <5>1. got = Tokens(f.dev, f.at, Len(got))
          BY <1>2, <1>3, <1>11, <3>6 DEF FrameRight
        <5>2. PICK m : m = Unit + 1
          OBVIOUS
        <5>3. m \in Nat /\ n \in Nat /\ 0 < m /\ m <= n /\ n <= Len(got)
          BY <1>7, <1>8, <1>9, <3>2, <5>2, Positive
        <5>4. SubSeq(got, m, n) = Tokens(f.dev, f.at + m - 1, n - m + 1)
          <6>1. f.dev \in Devs /\ f.at \in Nat /\ got \in Seq(Token)
            BY <1>3, <1>11
          <6> QED BY <5>1, <5>3, <6>1, TokensPart, ZenonT(30)
        <5>5. f.at + m - 1 = f.at + Unit /\ n - m + 1 = n - Unit
          BY <1>3, <1>8, <5>2, Positive
        <5> QED BY <1>1, <1>11, <5>2, <5>4, <5>5
      <4>2. h.got = Tokens(h.dev, h.at, Len(h.got))
        BY <1>10, <3>1, <4>1
      <4>3. f.hit # <<>> => f.hit = Tokens(f.dev, f.at + n, Unit)
        BY <1>2, <1>3, <1>6, <1>7, <3>6 DEF FrameRight
      <4>4. h.at + Todo(h) = f.at + n
        BY <1>3, <1>8, <3>1, <3>2, Positive
      <4>5. h.buf = Tokens(h.dev, From(h), Len(h.buf))
        BY <1>14, <1>15, <3>1, <3>5, <3>6 DEF FrameRight
      <4> QED BY <3>1, <4>2, <4>3, <4>4, <4>5 DEF FrameRight
    <3> QED BY <3>1, <3>2, <3>4, <3>5, <3>6
  <2>2. CASE rest = <<>>
    <3>1. n = Unit
      BY <1>8, <1>10, <2>2, Positive
    <3>2. Len(f.hit) <= g.left
      BY <1>3, <1>8, <1>14, <3>1, Positive
    <3>3. PICK j : j = Advance(g, f.hit)
      OBVIOUS
    <3>4. /\ j \in Frame /\ FrameOK(j) /\ Like(g, j) /\ j.call = "none"
          /\ g.buf = Tokens(g.dev, From(g), Len(g.buf))
               /\ f.hit = Tokens(g.dev, g.at, Len(f.hit)) => FrameRight(j)
      BY <1>6, <1>14, <3>2, <3>3, AdvanceFacts
    <3>5. /\ h \in Frame /\ h.dev = j.dev /\ h.at = j.at /\ h.left = j.left /\ h.buf = j.buf
          /\ h.call = "none"
      <4>1. h = [j EXCEPT !.got = <<>>, !.hit = <<>>]
        BY <1>1, <2>2, <3>3
      <4>2. j \in Frame /\ j.call = "none"
        BY <3>4
      <4>3. PICK e \in Seq(Token) : e = <<>>
        <5>1. <<>> \in Seq(Token)
          OBVIOUS
        <5> QED BY <5>1, Zenon
      <4>4. h = [j EXCEPT !.got = e, !.hit = e]
        BY <4>1, <4>3
      <4>5. h \in Frame
        BY <4>2, <4>3, <4>4 DEF Frame
      <4>6. h.dev = j.dev /\ h.at = j.at /\ h.left = j.left /\ h.buf = j.buf /\ h.call = "none"
        BY <4>2, <4>4 DEF Frame
      <4> QED BY <4>5, <4>6
    <3>6. FrameOK(h) /\ Like(f, h) /\ From(h) = From(j)
      BY <1>14, <3>4, <3>5 DEF FrameOK, Like, From, Owed
    <3>7. ASSUME Good PROVE FrameRight(h)
      <4>1. f.hit = Tokens(g.dev, g.at, Len(f.hit))
        <5>1. CASE f.hit = <<>>
          BY <1>3, <1>14, <5>1, Positive, TokensNone
        <5>2. CASE f.hit # <<>>
          <6>1. Len(f.hit) = Unit
            <7>1. Len(f.hit) # 0
              BY <1>6, <5>2
            <7> QED BY <1>8, <7>1
          <6>2. f.hit = Tokens(f.dev, f.at + Todo(f), Unit)
            BY <1>2, <1>3, <3>7, <5>2 DEF FrameRight
          <6>3. Todo(f) = Unit /\ g.dev = f.dev /\ g.at = f.at + Unit
            BY <1>6, <1>7, <1>14, <3>1
          <6> QED BY <6>1, <6>2, <6>3, Zenon
        <5> QED BY <5>1, <5>2
      <4>2. FrameRight(j)
        BY <1>15, <3>4, <3>7, <4>1 DEF FrameRight
      <4> QED BY <3>4, <3>5, <3>6, <4>2 DEF FrameRight
    <3> QED BY <3>5, <3>6, <3>7
  <2> QED BY <2>1, <2>2
<1>18. ASSUME ~IdsUsedUp PROVE FrameAbsent(h)'
  <2>1. ASSUME h.call = "store", NEW k \in Nat, k * Unit < Todo(h)
        PROVE  Absent(Key(h.dev, h.at + k * Unit))'
    <3>1. (k + 1) * Unit = k * Unit + Unit /\ k * Unit \in Nat /\ k + 1 \in Nat
      BY UnitTimes
    <3>2. h.dev = f.dev /\ h.at = f.at + Unit /\ Todo(h) = n - Unit
      BY <1>17, <2>1
    <3>3. PICK v : v = f.at + (k + 1) * Unit
      OBVIOUS
    <3>4. v = h.at + k * Unit /\ v \in Nat /\ v # f.at /\ (k + 1) * Unit < Todo(f)
      <4>1. PICK m : m = k * Unit
        OBVIOUS
      <4>2. m \in Nat /\ (k + 1) * Unit = m + Unit /\ m < n - Unit /\ Todo(f) = n
        BY <1>6, <1>7, <2>1, <3>1, <3>2, <4>1
      <4>3. v = f.at + (m + Unit) /\ h.at + k * Unit = f.at + Unit + m
        BY <3>2, <3>3, <4>1, <4>2
      <4>4. PICK a : a = f.at /\ a \in Nat /\ n \in Nat
        BY <1>3, <1>8
      <4>5. v = a + m + Unit /\ h.at + k * Unit = a + Unit + m
        BY <4>2, <4>3, <4>4, Positive
      <4> QED BY <4>2, <4>4, <4>5, Positive
    <3>5. Absent(Key(f.dev, v))
      BY <1>2, <1>3, <1>18, <3>1, <3>3, <3>4 DEF FrameAbsent
    <3>6. PICK key : key = Key(f.dev, v)
      OBVIOUS
    <3>7. key # Key(f.dev, f.at)
      BY <3>4, <3>6 DEF Key
    <3>8. key \in Key3
      BY <1>3, <3>4, <3>6, KeyFacts DEF IInv, TypeInv
    <3>9. \A c \in Key3 : c # Key(f.dev, f.at) /\ Absent(c) => Absent(c)'
      <4>1. UNCHANGED id
        BY <1>2 DEF devices
      <4> QED BY <1>2, <1>3, <1>10, <1>16, <4>1, StoreFacts DEF IInv
    <3>10. Absent(key)'
      BY <3>5, <3>6, <3>7, <3>8, <3>9
    <3>11. Key(f.dev, v)' = key
      BY <1>2, <3>6 DEF Key, devices
    <3> QED BY <3>2, <3>4, <3>10, <3>11
  <2> QED BY <1>17, <2>1 DEF FrameAbsent
<1>19. Good => unit = Tokens(f.dev, f.at, Unit)
  BY <1>10, <1>13
<1>20. PICK d, u : d = f.dev /\ d = Top.dev /\ u = f.at
  BY <1>1
<1>21. /\ Store(Key(d, u), unit) /\ (~IdsUsedUp => Absent(Key(d, u))) /\ u \in Nat
       /\ (Good => unit = Tokens(d, u, Unit))
  BY <1>2, <1>3, <1>16, <1>19, <1>20
<1>22. ret' = NoRet /\ Like(Last(stack), h)
  BY <1>2, <1>3, <1>4, <1>17
<1>23. /\ h \in Frame /\ FrameOK(h) /\ h.call \in {"none", "store"} /\ (Good => FrameRight(h))
       /\ unit \in Seq(Token) /\ Len(unit) = Unit /\ d = Top.dev
  BY <1>10, <1>17, <1>20
<1>24. /\ stack # <<>> /\ stack' = Append(Below, h)
       /\ UNCHANGED <<devices, depth, req, result, deep>>
  BY <1>2
<1>25. ~IdsUsedUp => FrameAbsent(h)'
  BY <1>18
<1> QED BY <1>5, <1>21, <1>22, <1>23, <1>24, <1>25, StoresOn, SMTT(20)
-----------------------------------------------------------------------------
(* Between two reads.                                                      *)

\* No read is under way.
LEMMA IdleFacts ==
  ASSUME IInv, stack = <<>>
  PROVE  ret = NoRet /\ depth = 0
<1>1. depth = Len(stack) /\ (ret # NoRet => stack # <<>>)
  BY DEF IInv, DepthBalanced, RetInv
<1> QED BY <1>1

\* And none begins.
LEMMA StaysIdle ==
  ASSUME stack' = <<>>, ret' = NoRet
  PROVE  FramesInv' /\ ErrnoInv' /\ (depth' = 0 => DepthBalanced') /\ stack' \in Seq(Frame)
<1>1. PICK s : s = stack'
  OBVIOUS
<1>2. s = <<>> /\ s \in Seq(Frame) /\ Len(s) = 0
  BY <1>1
<1>3. StackOK(s)
  BY <1>2 DEF StackOK
<1>4. FramesOK(s)'
  BY <1>2, <1>3 DEF FramesOK
<1> QED BY <1>1, <1>2, <1>4 DEF FramesInv, ErrnoInv, DepthBalanced

\* A read of a device begins.
LEMMA RequestOK ==
  ASSUME IInv, NEW d \in Devs, NEW sector \in 0..Size[d], NEW n \in 1..Size[d],
         Request(d, sector, n)
  PROVE  IInv'
<1>1. /\ stack = <<>> /\ d \in attached /\ req' = <<d, sector, n>>
      /\ Enter(<<>>, d, sector, n, "none") /\ UNCHANGED <<devices, cache>>
  BY DEF Request, Idle
<1>2. sector \in Nat /\ n \in Nat /\ depth = 0 /\ deep \in BOOLEAN
  BY <1>1, DeviceFacts, IdleFacts DEF IInv, TypeInv
<1>3. req'[1] = d /\ req'[2] = sector /\ req'[3] = n
  BY <1>1
<1>4. CASE ~InRange(d, sector, n)
  <2>1. PICK s, err, data : s = <<>> /\ err = "range" /\ data = <<>>
    OBVIOUS
  <2>2. /\ errno' = err /\ Deliver(s, err, data) /\ depth' = depth /\ deep' = deep
    BY <1>1, <1>4, <2>1 DEF Enter
  <2>3. err \in Errors /\ err # "none" /\ data \in Seq(Token)
    BY <2>1 DEF Errors
  <2>4. ~InRange(req'[1], req'[2], req'[3])
    BY <1>3, <1>4
  <2>5. AnswerOK(s, err, data)'
    BY <2>1, <2>3, <2>4 DEF AnswerOK
  <2>6. stack' = <<>> /\ RetInv' /\ ret' = NoRet
    BY <2>1, <2>2, <2>5, Delivered DEF Deliver
  <2>7. FramesInv' /\ ErrnoInv' /\ stack' \in Seq(Frame) /\ depth' = Len(stack')
    BY <1>2, <2>2, <2>6, StaysIdle
  <2>8. errno' \in Errors /\ deep' \in BOOLEAN
    BY <1>2, <2>2, <2>3
  <2> QED BY <1>1, <2>2, <2>6, <2>7, <2>8, ReadQuiet DEF IInv
<1>5. CASE InRange(d, sector, n) /\ depth + 1 >= MaxDepth
  <2>1. PICK s, err, data : s = <<>> /\ err = "none" /\ data = [i \in 1..n |-> Garbage]
    OBVIOUS
  <2>2. /\ errno' = "depth" /\ Deliver(s, err, data) /\ depth' = depth /\ deep' = TRUE
    BY <1>1, <1>2, <1>5, <2>1, Positive DEF Enter
  <2>3. err \in Errors /\ data \in Seq(Token) /\ "depth" \in Errors
    <3>1. data \in [1..n -> Token]
      BY <2>1 DEF Token
    <3> QED BY <1>2, <2>1, <3>1 DEF Errors
  <2>4. AnswerOK(s, err, data)'
    BY <2>1, <2>2, <2>3 DEF AnswerOK, Good
  <2>5. stack' = <<>> /\ RetInv' /\ ret' = NoRet
    BY <2>1, <2>2, <2>4, Delivered DEF Deliver
  <2>6. FramesInv' /\ ErrnoInv' /\ stack' \in Seq(Frame) /\ depth' = Len(stack')
    BY <1>2, <2>2, <2>5, StaysIdle
  <2>7. errno' \in Errors /\ deep' \in BOOLEAN /\ (deep => deep')
    BY <2>2, <2>3
  <2> QED BY <1>1, <2>5, <2>6, <2>7, ReadQuiet DEF IInv
<1>6. CASE InRange(d, sector, n) /\ depth + 1 < MaxDepth
  <2>1. PICK g, s : g = NewFrame(d, sector, n) /\ s = Append(<<>>, g)
    OBVIOUS
  <2>2. /\ depth' = depth + 1 /\ stack' = s /\ errno' = "none" /\ ret' = NoRet
        /\ result' = <<>> /\ deep' = deep
    BY <1>1, <1>2, <1>6, <2>1, Positive DEF Enter
  <2>3. /\ g \in Frame /\ FrameOK(g) /\ FrameRight(g) /\ g.call = "none"
        /\ g.dev = d /\ From(g) = sector /\ Owed(g) = n
    BY <1>2, <1>6, <2>1, NewFrameFacts
  <2>4. s \in Seq(Frame) /\ Len(s) = 1 /\ s[1] = g /\ s # <<>>
    BY <2>1, <2>3
  <2>5. \A i \in 1..Len(s) : i = 1 /\ s[i] = g
    BY <2>4
  <2>6. StackOK(s)
    <3>1. \A i \in 1..(Len(s) - 1) : FALSE
      BY <2>4
    <3>2. \A i, j \in 1..Len(s) : ~(i < j)
      BY <2>4
    <3> QED BY <2>3, <2>5, <3>1, <3>2 DEF StackOK
  <2>7. FramesOK(s)'
    <3>1. d \in attached' /\ req' = <<s[1].dev, From(s[1]), Owed(s[1])>>
      BY <1>1, <2>3, <2>4 DEF devices
    <3>2. FrameAbsent(g)'
      BY <2>3 DEF FrameAbsent
    <3> QED BY <2>3, <2>4, <2>5, <2>6, <3>1, <3>2 DEF FramesOK
  <2>8. FramesInv'
    BY <2>2, <2>7 DEF FramesInv
  <2>9. RetInv' /\ ErrnoInv'
    BY <2>2, <2>3, <2>4 DEF RetInv, ErrnoInv, Fine, Last
  <2>10. errno' \in Errors /\ deep' \in BOOLEAN /\ stack' \in Seq(Frame) /\ depth' = Len(stack')
    BY <1>2, <2>2, <2>4 DEF Errors
  <2> QED BY <1>1, <2>2, <2>8, <2>9, <2>10, ReadQuiet DEF IInv
<1> QED BY <1>2, <1>4, <1>5, <1>6, Positive

\* The result is used.
LEMMA UsedOK ==
  ASSUME IInv, Used
  PROVE  IInv'
<1>1. /\ stack = <<>> /\ stack' = <<>> /\ result' = <<>> /\ errno' = "none"
      /\ ret' = ret /\ depth' = depth /\ deep' = deep /\ UNCHANGED <<devices, cache>>
  BY DEF Used, IInv, RetInv
<1>2. ret = NoRet /\ depth = 0
  BY <1>1, IdleFacts
<1>3. FramesInv' /\ ErrnoInv' /\ stack' \in Seq(Frame) /\ depth' = Len(stack')
  BY <1>1, <1>2, StaysIdle
<1>4. RetInv'
  BY <1>1, <1>2 DEF RetInv
<1>5. errno' \in Errors /\ deep' \in BOOLEAN
  BY <1>1 DEF Errors, IInv, TypeInv
<1> QED BY <1>1, <1>3, <1>4, <1>5, ReadQuiet DEF IInv

\* A step between two reads leaves them alone.
LEMMA Between ==
  ASSUME IInv, Idle, UNCHANGED <<bad, stack, depth, errno, ret, req, result>>
  PROVE  /\ FramesInv' /\ RetInv' /\ ErrnoInv' /\ DepthBalanced'
         /\ stack' \in Seq(Frame) /\ depth' \in Nat /\ errno' \in Errors /\ bad' \in BadSets
<1>1. stack = <<>> /\ result = <<>> /\ ret = NoRet /\ depth = 0
  BY IdleFacts DEF Idle
<1>2. FramesInv' /\ ErrnoInv' /\ DepthBalanced' /\ stack' \in Seq(Frame)
  BY <1>1, StaysIdle
<1>3. RetInv'
  BY <1>1 DEF RetInv
<1>4. depth' \in Nat /\ errno' \in Errors /\ bad' \in BadSets
  BY <1>1 DEF IInv, TypeInv
<1> QED BY <1>2, <1>3, <1>4

\* A device that none lies on is detached.
LEMMA DetachOK ==
  ASSUME IInv, NEW d \in Devs, Detach(d)
  PROVE  IInv'
<1>1. /\ Idle /\ \A e \in attached : Parent[e] # d
      /\ attached' = attached \ {d}
      /\ UNCHANGED <<id, last_id, bad, cache, stack, depth, errno, ret, req, result, deep>>
  BY DEF Detach
<1>2. /\ FramesInv' /\ RetInv' /\ ErrnoInv' /\ DepthBalanced'
      /\ stack' \in Seq(Frame) /\ depth' \in Nat /\ errno' \in Errors /\ bad' \in BadSets
  BY <1>1, Between
<1>3. TypeInv /\ DeviceInv /\ IdInv /\ CacheInv /\ (Good => CacheRight)
  BY DEF IInv
<1>4. TypeInv'
  <2>1. /\ attached' \subseteq Devs /\ id' \in [Devs -> Nat \cup {-1}] /\ deep' \in BOOLEAN
        /\ last_id' \in [{"lost", "crypt"} -> Nat]
    BY <1>1, <1>3 DEF TypeInv
  <2>2. /\ cache' \in [0..(CacheNum - 1) -> Bucket]
        /\ \A b \in 0..(CacheNum - 1) : \A e \in EntrySet(cache'[b]) : Len(e.data) \in {0, Unit}
    BY <1>1, <1>3 DEF TypeInv
  <2> QED BY <1>2, <2>1, <2>2 DEF TypeInv
<1>5. DeviceInv' /\ IdInv'
  BY <1>1, <1>3 DEF DeviceInv, IdInv, Ever
<1>6. Good' = Good /\ IdsUsedUp' = IdsUsedUp
  BY <1>1 DEF Good, IdsUsedUp
<1>7. ASSUME NEW e PROVE KeyOf(e)' = KeyOf(e) /\ EntryRight(e)' = EntryRight(e)
  BY <1>1 DEF KeyOf, EntryRight, Key
<1>8. CacheInv'
  BY <1>1, <1>3, <1>6, <1>7 DEF CacheInv
<1>9. (Good => CacheRight)'
  BY <1>1, <1>3, <1>6, <1>7 DEF CacheRight
<1> QED BY <1>2, <1>4, <1>5, <1>8, <1>9 DEF IInv

\* The cache is dropped.
LEMMA OpenExpiredOK ==
  ASSUME IInv, OpenExpired
  PROVE  IInv'
<1>1. /\ Idle /\ deep' = FALSE /\ UNCHANGED <<stack, depth, errno, ret, req, result>>
      /\ attached' = attached /\ id' = id /\ last_id' = last_id /\ bad' = bad
      /\ cache' = [b \in DOMAIN cache |->
           [main |-> Entry(cache[b].main.key, NoData), chain |-> <<>>]]
  BY DEF OpenExpired, devices
<1>2. /\ FramesInv' /\ RetInv' /\ ErrnoInv' /\ DepthBalanced'
      /\ stack' \in Seq(Frame) /\ depth' \in Nat /\ errno' \in Errors /\ bad' \in BadSets
  BY <1>1, Between
<1>3. TypeInv /\ DeviceInv /\ IdInv
  BY DEF IInv
<1>4. cache \in [0..(CacheNum - 1) -> Bucket]
  BY <1>3 DEF TypeInv
<1>5. ASSUME NEW b \in 0..(CacheNum - 1)
      PROVE  /\ cache'[b] \in Bucket /\ cache'[b].chain = <<>> /\ Len(cache'[b].chain) = 0
             /\ cache'[b].main.data = NoData
  <2>1. cache'[b] = [main |-> Entry(cache[b].main.key, NoData), chain |-> <<>>]
    BY <1>1, <1>4
  <2>2. cache[b].main.key \in Key3
    BY <1>4 DEF Bucket, EntryType
  <2>3. PICK m : m = Entry(cache[b].main.key, NoData)
    OBVIOUS
  <2>4. m \in EntryType /\ m.data = NoData
    BY <2>2, <2>3 DEF Entry, EntryType, NoData
  <2>5. <<>> \in Seq(EntryType)
    OBVIOUS
  <2>6. cache'[b] = [main |-> m, chain |-> <<>>]
    BY <2>1, <2>3
  <2> QED BY <2>4, <2>5, <2>6 DEF Bucket
<1>6. ASSUME NEW b \in 0..(CacheNum - 1), NEW e \in EntrySet(cache'[b]) PROVE e.data = NoData
  BY <1>5 DEF EntrySet
<1>7. TypeInv'
  <2>1. /\ attached' \subseteq Devs /\ id' \in [Devs -> Nat \cup {-1}] /\ deep' \in BOOLEAN
        /\ last_id' \in [{"lost", "crypt"} -> Nat]
    BY <1>1, <1>3 DEF TypeInv
  <2>2. cache' \in [0..(CacheNum - 1) -> Bucket]
    <3>1. DOMAIN cache' = 0..(CacheNum - 1) /\ cache' = [b \in DOMAIN cache' |-> cache'[b]]
      BY <1>1, <1>4
    <3> QED BY <1>5, <3>1
  <2>3. Len(NoData) = 0
    BY DEF NoData
  <2>4. \A b \in 0..(CacheNum - 1) : \A e \in EntrySet(cache'[b]) : Len(e.data) \in {0, Unit}
    BY <1>6, <2>3
  <2> QED BY <1>2, <2>1, <2>2, <2>4 DEF TypeInv
<1>8. DeviceInv' /\ IdInv'
  BY <1>1, <1>3 DEF DeviceInv, IdInv, Ever
<1>9. CacheInv'
  <2>1. ASSUME NEW b \in 0..(CacheNum - 1) PROVE Once(cache'[b])
    BY <1>5 DEF Once
  <2>2. ASSUME NEW b \in 0..(CacheNum - 1) PROVE Len(cache'[b].chain) <= EvictedMax + 1
    BY <1>5, Positive
  <2> QED BY <1>6, <2>1, <2>2 DEF CacheInv
<1>10. (Good => CacheRight)'
  BY <1>6 DEF CacheRight, EntryRight
<1> QED BY <1>2, <1>7, <1>8, <1>9, <1>10 DEF IInv

\* A device is attached with the next id of its kind.
LEMMA AttachOK ==
  ASSUME IInv, NEW d \in Devs, Attach(d)
  PROVE  IInv'
<1>0. PICK k : k = Kind[d]
  OBVIOUS
<1>1. /\ Idle /\ id[d] = -1 /\ Parent[d] \in attached /\ attached' = attached \cup {d}
      /\ id' = [id EXCEPT ![d] = last_id[k]]
      /\ last_id' = [last_id EXCEPT ![k] = (last_id[k] + 1) % IdMod[k]]
      /\ UNCHANGED <<bad, cache, stack, depth, errno, ret, req, result, deep>>
  BY <1>0 DEF Attach
<1>2. /\ FramesInv' /\ RetInv' /\ ErrnoInv' /\ DepthBalanced'
      /\ stack' \in Seq(Frame) /\ depth' \in Nat /\ errno' \in Errors /\ bad' \in BadSets
  BY <1>1, Between
<1>3. TypeInv /\ DeviceInv /\ IdInv /\ CacheInv /\ (Good => CacheRight)
  BY DEF IInv
<1>4. /\ attached \subseteq Devs /\ id \in [Devs -> Nat \cup {-1}] /\ deep \in BOOLEAN
      /\ last_id \in [{"lost", "crypt"} -> Nat]
  BY <1>3 DEF TypeInv
<1>5. k \in {"lost", "crypt"}
  <2>1. 0 \notin Devs
    BY DEF Devs
  <2>2. Parent[d] # 0 /\ k \in {"host", "lost", "crypt"}
    BY <1>0, <1>1, <1>4, <2>1, DiskCacheAssumption
  <2>3. k # "host"
    BY <1>0, <2>2, DiskCacheAssumption
  <2> QED BY <2>2, <2>3
<1>6. IdMod[k] \in Nat /\ IdMod[k] > 0 /\ last_id[k] \in Nat
  <2>1. IdMod \in [{"host", "lost", "crypt"} -> Nat \ {0}]
    BY DiskCacheAssumption
  <2> QED BY <1>4, <1>5, <2>1
<1>7. /\ id' \in [Devs -> Nat \cup {-1}] /\ id'[d] = last_id[k] /\ id'[d] # -1
      /\ \A e \in Devs : e # d => id'[e] = id[e]
  BY <1>1, <1>4, <1>6
<1>8. last_id' \in [{"lost", "crypt"} -> Nat]
  BY <1>1, <1>4, <1>5, <1>6
<1>9. TypeInv'
  <2>1. attached' \subseteq Devs /\ deep' \in BOOLEAN
    BY <1>1, <1>4
  <2>2. /\ cache' \in [0..(CacheNum - 1) -> Bucket]
        /\ \A b \in 0..(CacheNum - 1) : \A e \in EntrySet(cache'[b]) : Len(e.data) \in {0, Unit}
    BY <1>1, <1>3 DEF TypeInv
  <2> QED BY <1>2, <1>7, <1>8, <2>1, <2>2 DEF TypeInv
<1>10. DeviceInv'
  <2>1. ASSUME NEW e \in attached'
        PROVE  id'[e] # -1 /\ (Parent[e] # 0 => Parent[e] \in attached')
    <3>1. CASE e = d
      BY <1>1, <1>7, <3>1
    <3>2. CASE e # d
      <4>1. e \in attached /\ e \in Devs
        BY <1>1, <1>4, <2>1, <3>2
      <4> QED BY <1>1, <1>3, <1>7, <3>2, <4>1 DEF DeviceInv
    <3> QED BY <3>1, <3>2
  <2>2. ASSUME NEW e \in Devs, Kind[e] = "host" PROVE id'[e] = e - 1
    <3>1. e # d
      BY <1>0, <1>5, <2>2
    <3> QED BY <1>3, <1>7, <2>2, <3>1 DEF DeviceInv
  <2> QED BY <2>1, <2>2 DEF DeviceInv
<1>11. PICK E, F, c : E = Ever(k) /\ F = Ever(k)' /\ c = Cardinality(E)
  OBVIOUS
<1>12. F = E \cup {d} /\ d \notin E
  BY <1>0, <1>1, <1>7, <1>11 DEF Ever
<1>13. IsFiniteSet(E) /\ c \in Nat /\ Cardinality(F) = c + 1
  <2>1. IsFiniteSet(E) /\ c \in Nat
    BY <1>11, EverFinite
  <2> QED BY <1>11, <1>12, <2>1, FS_AddElement
<1>14. \A j \in {"lost", "crypt"} : j # k => Ever(j)' = Ever(j) /\ last_id'[j] = last_id[j]
  <2>1. ASSUME NEW j \in {"lost", "crypt"}, j # k PROVE Ever(j)' = Ever(j)
    BY <1>0, <1>7, <2>1 DEF Ever
  <2>2. ASSUME NEW j \in {"lost", "crypt"}, j # k PROVE last_id'[j] = last_id[j]
    BY <1>1, <1>4, <2>2
  <2> QED BY <2>1, <2>2
<1>15. IdInv'
  <2>1. ASSUME NEW j \in {"lost", "crypt"}, j # k, Cardinality(Ever(j)') <= IdMod[j]
        PROVE  /\ last_id'[j] = Cardinality(Ever(j)') % IdMod[j]
               /\ \A e \in Ever(j)' : id'[e] < Cardinality(Ever(j)')
               /\ \A e, g \in Ever(j)' : id'[e] = id'[g] => e = g
    <3>1. Ever(j)' = Ever(j) /\ last_id'[j] = last_id[j]
      BY <1>14, <2>1
    <3>2. \A e \in Ever(j) : id'[e] = id[e]
      BY <1>0, <1>7, <2>1 DEF Ever
    <3> QED BY <1>3, <2>1, <3>1, <3>2 DEF IdInv
  <2>2. ASSUME Cardinality(F) <= IdMod[k]
        PROVE  /\ last_id'[k] = Cardinality(F) % IdMod[k]
               /\ \A e \in F : id'[e] < Cardinality(F)
               /\ \A e, g \in F : id'[e] = id'[g] => e = g
    <3>1. c < IdMod[k] /\ c <= IdMod[k]
      BY <1>6, <1>13, <2>2
    <3>2. /\ last_id[k] = c % IdMod[k] /\ \A e \in E : id[e] < c
          /\ \A e, g \in E : id[e] = id[g] => e = g
      BY <1>3, <1>5, <1>11, <3>1 DEF IdInv
    <3>3. c % IdMod[k] = c
      BY <1>6, <1>13, <3>1
    <3>4. last_id'[k] = (c + 1) % IdMod[k]
      BY <1>1, <1>4, <1>5, <3>2, <3>3
    <3>5. id'[d] = c
      BY <1>7, <3>2, <3>3
    <3>6. \A e \in E : id'[e] = id[e] /\ id[e] \in Int
      <4>1. E \subseteq Devs /\ d \notin E
        BY <1>11, <1>12 DEF Ever
      <4> QED BY <1>4, <1>7, <4>1
    <3>7. \A e \in F : id'[e] < Cardinality(F)
      BY <1>12, <1>13, <3>2, <3>5, <3>6
    <3>8. \A e, g \in F : id'[e] = id'[g] => e = g
      BY <1>12, <1>13, <3>2, <3>5, <3>6
    <3> QED BY <1>13, <3>4, <3>7, <3>8
  <2>3. ASSUME NEW j \in {"lost", "crypt"}, Cardinality(Ever(j)') <= IdMod[j]
        PROVE  /\ last_id'[j] = Cardinality(Ever(j)') % IdMod[j]
               /\ \A e \in Ever(j)' : id'[e] < Cardinality(Ever(j)')
               /\ \A e, g \in Ever(j)' : id'[e] = id'[g] => e = g
    <3>1. CASE j = k
      BY <1>11, <2>2, <2>3, <3>1
    <3>2. CASE j # k
      BY <2>1, <2>3, <3>2
    <3> QED BY <3>1, <3>2
  <2> QED BY <2>3 DEF IdInv
<1>16. ~IdsUsedUp' => ~IdsUsedUp
  <2>1. ASSUME NEW j \in {"lost", "crypt"}, Cardinality(Ever(j)) > IdMod[j]
        PROVE  Cardinality(Ever(j)') > IdMod[j]
    <3>1. CASE j = k
      BY <1>6, <1>11, <1>13, <2>1, <3>1
    <3>2. CASE j # k
      BY <1>14, <2>1, <3>2
    <3> QED BY <3>1, <3>2
  <2>2. ASSUME IdsUsedUp PROVE IdsUsedUp'
    <3>1. PICK j \in {"lost", "crypt"} : Cardinality(Ever(j)) > IdMod[j]
      BY <2>2 DEF IdsUsedUp, Ever
    <3> QED BY <2>1, <3>1 DEF IdsUsedUp, Ever
  <2> QED BY <2>2
<1>17. ASSUME NEW e \in Devs, id[e] # -1, NEW u PROVE id'[e] # -1 /\ Key(e, u)' = Key(e, u)
  <2>1. e # d
    BY <1>1, <1>17
  <2> QED BY <1>7, <1>17, <2>1 DEF Key
<1>18. ASSUME NEW e, KeyOf(e) PROVE KeyOf(e)'
  BY <1>17, <1>18 DEF KeyOf
<1>19. CacheInv'
  BY <1>1, <1>3, <1>16, <1>18 DEF CacheInv
<1>20. ASSUME Good' PROVE CacheRight'
  <2>1. ~IdsUsedUp' /\ ~IdsUsedUp /\ ~deep
    BY <1>1, <1>16, <1>20 DEF Good
  <2>2. CacheRight
    BY <1>3, <2>1 DEF Good
  <2>3. Cardinality(F) <= IdMod[k]
    <3>1. ~(Cardinality(F) > IdMod[k])
      BY <1>5, <1>11, <2>1 DEF IdsUsedUp, Ever
    <3> QED BY <1>6, <1>13, <3>1
  <2>4. ASSUME NEW e, EntryRight(e), e.data # NoData => KeyOf(e),
               e.data # NoData, NEW g \in Devs, NEW u \in Nat, id'[g] # -1, e.key = Key(g, u)'
        PROVE  e.data = Tokens(g, u, Unit)
    <3>1. PICK h \in Devs, v \in Nat : id[h] # -1 /\ e.key = Key(h, v)
      BY <2>4 DEF KeyOf
    <3>2. CASE g # d
      <4>1. id[g] # -1 /\ e.key = Key(g, u)
        BY <1>7, <2>4, <3>2 DEF Key
      <4> QED BY <2>4, <4>1 DEF EntryRight
    <3>3. CASE g = d
      <4>1. h # d /\ id'[h] = id[h]
        BY <1>1, <1>7, <3>1
      <4>2. DevId[Kind[h]] = DevId[k] /\ id'[h] = id'[d]
        BY <1>0, <2>4, <3>1, <3>3, <4>1 DEF Key
      <4>3. Kind[h] \in {"host", "lost", "crypt"} /\ k \in {"host", "lost", "crypt"}
        BY <1>5, DiskCacheAssumption
      <4>4. Kind[h] = k
        BY <4>2, <4>3, DevIdFacts
      <4>5. h \in F /\ d \in F
        BY <1>11, <1>12, <3>1, <4>4 DEF Ever
      <4>6. \A i, j \in F : id'[i] = id'[j] => i = j
        BY <1>5, <1>11, <1>15, <2>3 DEF IdInv
      <4> QED BY <4>1, <4>2, <4>5, <4>6
    <3> QED BY <3>2, <3>3
  <2>5. ASSUME NEW b \in 0..(CacheNum - 1), NEW e \in EntrySet(cache[b]) PROVE EntryRight(e)'
    <3>1. EntryRight(e) /\ (e.data # NoData => KeyOf(e))
      BY <1>3, <2>2 DEF CacheRight, CacheInv
    <3> QED BY <2>4, <3>1 DEF EntryRight
  <2> QED BY <1>1, <2>5 DEF CacheRight
<1> QED BY <1>2, <1>9, <1>10, <1>15, <1>19, <1>20 DEF IInv
-----------------------------------------------------------------------------
(* Results.                                                                *)

\* The invariant holds before the first read.
LEMMA InitInv == Init => IInv
<1> SUFFICES ASSUME Init PROVE IInv
  OBVIOUS
<1>1. /\ attached = {d \in Devs : Kind[d] = "host"}
      /\ id = [d \in Devs |-> IF Kind[d] = "host" THEN d - 1 ELSE -1]
      /\ last_id = [k \in {"lost", "crypt"} |-> 0] /\ bad \in BadSets
      /\ cache = [b \in 0..(CacheNum - 1) |-> Empty]
      /\ stack = <<>> /\ depth = 0 /\ errno = "none" /\ ret = NoRet
      /\ req = <<>> /\ result = <<>> /\ deep = FALSE
  BY DEF Init
<1>2. Empty \in Bucket /\ Empty.chain = <<>> /\ Len(Empty.chain) = 0 /\ Empty.main.data = NoData
  <2>1. PICK m : m = Entry(<<0, 0, 0>>, NoData)
    OBVIOUS
  <2>2. m \in EntryType /\ m.data = NoData
    BY <2>1 DEF Entry, EntryType, Key3, NoData
  <2>3. Empty = [main |-> m, chain |-> <<>>] /\ <<>> \in Seq(EntryType)
    BY <2>1 DEF Empty
  <2> QED BY <2>2, <2>3 DEF Bucket
<1>3. \A b \in 0..(CacheNum - 1) : cache[b] = Empty
  BY <1>1
<1>4. ASSUME NEW e \in EntrySet(Empty) PROVE e.data = NoData
  BY <1>2 DEF EntrySet
<1>5. id \in [Devs -> Nat \cup {-1}]
  <2>1. ASSUME NEW d \in Devs PROVE d - 1 \in Nat
    BY DeviceFacts
  <2> QED BY <1>1, <2>1
<1>6. TypeInv
  <2>1. Len(NoData) = 0
    BY DEF NoData
  <2>2. /\ cache \in [0..(CacheNum - 1) -> Bucket]
        /\ \A b \in 0..(CacheNum - 1) : \A e \in EntrySet(cache[b]) : Len(e.data) \in {0, Unit}
    <3>1. cache \in [0..(CacheNum - 1) -> Bucket]
      BY <1>1, <1>2
    <3>2. ASSUME NEW b \in 0..(CacheNum - 1), NEW e \in EntrySet(cache[b])
          PROVE  Len(e.data) \in {0, Unit}
      BY <1>3, <1>4, <2>1, <3>2
    <3> QED BY <3>1, <3>2
  <2>3. stack \in Seq(Frame)
    <3>1. stack = <<>>
      BY <1>1
    <3> QED BY <3>1
  <2>4. depth \in Nat /\ errno \in Errors /\ deep \in BOOLEAN
    BY <1>1 DEF Errors
  <2>5. attached \subseteq Devs /\ last_id \in [{"lost", "crypt"} -> Nat] /\ bad \in BadSets
    BY <1>1
  <2> QED BY <1>5, <2>2, <2>3, <2>4, <2>5 DEF TypeInv
<1>7. DeviceInv
  <2>1. ASSUME NEW d \in attached PROVE id[d] # -1 /\ Parent[d] = 0
    <3>1. d \in Devs /\ Kind[d] = "host"
      BY <1>1
    <3>2. id[d] = d - 1 /\ d \in Nat /\ d > 0
      BY <1>1, <3>1, DeviceFacts
    <3>3. Parent[d] = 0
      BY <3>1, DiskCacheAssumption
    <3> QED BY <3>2, <3>3
  <2>2. \A d \in Devs : Kind[d] = "host" => id[d] = d - 1
    BY <1>1
  <2> QED BY <2>1, <2>2 DEF DeviceInv
<1>8. IdInv
  <2>1. ASSUME NEW k \in {"lost", "crypt"}
        PROVE  Ever(k) = {} /\ IdMod[k] \in Nat /\ IdMod[k] > 0 /\ last_id[k] = 0
    <3>1. IdMod \in [{"host", "lost", "crypt"} -> Nat \ {0}]
      BY DiskCacheAssumption
    <3>2. Ever(k) = {}
      BY <1>1 DEF Ever
    <3> QED BY <1>1, <3>1, <3>2
  <2>2. Cardinality({}) = 0
    BY FS_EmptySet
  <2>3. ASSUME NEW n \in Nat, n > 0 PROVE 0 % n = 0
    BY <2>3
  <2> QED BY <2>1, <2>2, <2>3 DEF IdInv
<1>9. CacheInv
  <2>1. Once(Empty)
    BY <1>2 DEF Once
  <2>2. Len(Empty.chain) <= EvictedMax + 1
    BY <1>2, Positive
  <2> QED BY <1>3, <1>4, <2>1, <2>2 DEF CacheInv
<1>10. CacheRight
  BY <1>3, <1>4 DEF CacheRight, EntryRight
<1>11. FramesInv
  <2>1. PICK s : s = stack
    OBVIOUS
  <2>2. s = <<>> /\ s \in Seq(Frame) /\ Len(s) = 0
    BY <1>1, <2>1
  <2>3. StackOK(s)
    BY <2>2 DEF StackOK
  <2>4. FramesOK(s)
    BY <2>2, <2>3 DEF FramesOK
  <2> QED BY <2>1, <2>4 DEF FramesInv
<1>12. RetInv /\ ErrnoInv /\ DepthBalanced
  BY <1>1 DEF RetInv, ErrnoInv, DepthBalanced
<1> QED BY <1>6, <1>7, <1>8, <1>9, <1>10, <1>11, <1>12 DEF IInv

\* A step that changes nothing.
LEMMA StutterOK ==
  ASSUME IInv, UNCHANGED vars
  PROVE  IInv'
<1>1. /\ UNCHANGED <<devices, cache, stack, depth, errno, ret, req, result, deep>>
      /\ attached' = attached /\ id' = id /\ bad' = bad
  BY DEF vars, devices
<1>2. PICK s : s = stack /\ s = stack'
  BY <1>1
<1>3. FramesOK(s) /\ RetInv /\ ErrnoInv /\ stack \in Seq(Frame) /\ depth = Len(stack)
        /\ errno \in Errors /\ deep \in BOOLEAN
  BY <1>2 DEF IInv, FramesInv, TypeInv, DepthBalanced
<1>4. FramesOK(s)'
  BY <1>1, <1>3, FramesSame
<1>5. FramesInv'
  BY <1>2, <1>4 DEF FramesInv
<1>6. Good' = Good /\ \A d, u, n : GoodRange(d, u, n)' = GoodRange(d, u, n)
  BY <1>1 DEF Good, IdsUsedUp, GoodRange
<1>7. \A t, err, data : AnswerOK(t, err, data)' = AnswerOK(t, err, data)
  <2>1. GoodRange(req[1], req[2], req[3])' = GoodRange(req[1], req[2], req[3])
    BY <1>1 DEF GoodRange
  <2> QED BY <1>1, <1>6, <2>1 DEF AnswerOK
<1>8. RetInv'
  <2>1. AnswerOK(stack, ret.err, ret.data)' = AnswerOK(stack, ret.err, ret.data)
    BY <1>1, <1>7
  <2>2. AnswerOK(<<>>, result.err, result.data)' = AnswerOK(<<>>, result.err, result.data)
    BY <1>1, <1>7
  <2> QED BY <1>1, <1>3, <2>1, <2>2 DEF RetInv
<1>9. ErrnoInv'
  BY <1>1, <1>3 DEF ErrnoInv
<1>10. /\ TypeInv' /\ DeviceInv' /\ IdInv' /\ CacheInv' /\ (Good => CacheRight)'
       /\ DepthBalanced'
  BY <1>1, <1>3, ReadQuiet
<1> QED BY <1>5, <1>8, <1>9, <1>10 DEF IInv

\* Every step of a read, every device that comes or goes and every dropping of
\* the cache keeps the invariant.
THEOREM Inductive == Spec => []IInv
<1>1. ASSUME IInv, [Next]_vars PROVE IInv'
  <2>1. CASE UNCHANGED vars
    BY <1>1, <2>1, StutterOK
  <2>2. ASSUME NEW d \in Devs, Attach(d) PROVE IInv'
    BY <1>1, <2>2, AttachOK
  <2>3. ASSUME NEW d \in Devs, Detach(d) PROVE IInv'
    BY <1>1, <2>3, DetachOK
  <2>4. CASE OpenExpired
    BY <1>1, <2>4, OpenExpiredOK
  <2>5. CASE Used
    BY <1>1, <2>5, UsedOK
  <2>6. ASSUME NEW d \in Devs, NEW sector \in 0..Size[d], NEW n \in 1..Size[d],
               Request(d, sector, n)
        PROVE  IInv'
    BY <1>1, <2>6, RequestOK
  <2>7. CASE SmallStep
    BY <1>1, <2>7, SmallHitOK, SmallMissOK, UnitFailedOK, NoBufferOK, UnitReadOK, PartReadOK
       DEF SmallStep
  <2>8. CASE RunStep
    BY <1>1, <2>8, RunCachedOK, RunMissOK, RunReadOK, StoreNextOK DEF RunStep
  <2>9. CASE ReadEnds
    BY <1>1, <2>9, ReadEndsOK
  <2>10. CASE ReadFails
    BY <1>1, <2>10, ReadFailsOK
  <2>11. CASE DecryptFails
    BY <1>1, <2>11, DecryptFailsOK
  <2> QED BY <1>1, <2>1, <2>2, <2>3, <2>4, <2>5, <2>6, <2>7, <2>8, <2>9, <2>10, <2>11
          DEF Next, ReadStep
<1> QED BY <1>1, InitInv, PTL DEF Spec

\* The variables have their types and a cached unit is whole.
THEOREM TypeCorrect == Spec => []TypeOK
<1>1. ASSUME IInv PROVE TypeOK
  <2>1. TypeInv
    BY <1>1 DEF IInv
  <2>2. cache \in [0..(CacheNum - 1) -> Bucket]
    BY <2>1 DEF TypeInv
  <2>3. ASSUME NEW b \in DOMAIN cache, NEW i \in 1..Len(Entries(cache[b]))
        PROVE  Len(Entries(cache[b])[i].data) \in {0, Unit}
    <3>1. b \in 0..(CacheNum - 1) /\ cache[b] \in Bucket
      BY <2>2, <2>3
    <3>2. Entries(cache[b])[i] \in EntrySet(cache[b])
      BY <3>1, EntriesFacts
    <3> QED BY <2>1, <3>1, <3>2 DEF TypeInv
  <2>4. cache \in [0..(CacheNum - 1) -> [main : EntryType, chain : Seq(EntryType)]]
    BY <2>2 DEF Bucket
  <2> QED BY <2>1, <2>3, <2>4 DEF TypeInv, TypeOK
<1> QED BY <1>1, Inductive, PTL

\* The counter of the depth is the number of reads under way, however they
\* end.
THEOREM DepthExact == Spec => []DepthBalanced
<1>1. IInv => DepthBalanced
  BY DEF IInv
<1> QED BY <1>1, Inductive, PTL

\* However a bucket is fought over, its chain is bounded, and no key is in it
\* twice while ids last.
THEOREM KeysOnce == Spec => []BucketsSound
<1>1. ASSUME IInv PROVE BucketsSound
  <2>1. cache \in [0..(CacheNum - 1) -> Bucket] /\ CacheInv
    BY <1>1 DEF IInv, TypeInv
  <2>2. ASSUME NEW b \in DOMAIN cache
        PROVE  /\ ~IdsUsedUp => \A i, j \in 1..Len(Entries(cache[b])) :
                    Entries(cache[b])[i].key = Entries(cache[b])[j].key => i = j
               /\ Len(cache[b].chain) <= EvictedMax + 1
    <3>1. PICK c : c = cache[b]
      OBVIOUS
    <3>2. /\ c \in Bucket /\ Len(c.chain) <= EvictedMax + 1 /\ (~IdsUsedUp => Once(c))
      BY <2>1, <2>2, <3>1 DEF CacheInv
    <3>3. PICK all : all = Entries(c)
      OBVIOUS
    <3>4. Len(c.chain) \in Nat
      BY <3>2 DEF Bucket
    <3>5. /\ Len(all) = Len(c.chain) + 1 /\ all[1] = c.main
          /\ \A i \in 1..Len(c.chain) : all[i + 1] = c.chain[i]
      BY <3>2, <3>3, EntriesFacts
    <3>6. \A i \in 1..Len(all) :
            i = 1 \/ (i - 1 \in 1..Len(c.chain) /\ all[i] = c.chain[i - 1])
      <4>1. ASSUME NEW i \in 1..Len(all), i # 1
            PROVE  i - 1 \in 1..Len(c.chain) /\ all[i] = c.chain[i - 1]
        <5>1. i - 1 \in 1..Len(c.chain) /\ (i - 1) + 1 = i
          BY <3>4, <3>5, <4>1
        <5>2. all[(i - 1) + 1] = c.chain[i - 1]
          BY <3>5, <5>1
        <5> QED BY <5>1, <5>2
      <4> QED BY <4>1
    <3>7. ASSUME Once(c), NEW i \in 1..Len(all), NEW j \in 1..Len(all), all[i].key = all[j].key
          PROVE  i = j
      <4>1. ASSUME NEW k \in 1..Len(all), k # 1 PROVE all[k].key # all[1].key
        <5>1. k - 1 \in 1..Len(c.chain) /\ all[k] = c.chain[k - 1]
          BY <3>6, <4>1
        <5> QED BY <3>5, <3>7, <5>1 DEF Once
      <4>2. CASE i = 1 \/ j = 1
        BY <3>7, <4>1, <4>2
      <4>3. CASE i # 1 /\ j # 1
        <5>1. /\ i - 1 \in 1..Len(c.chain) /\ all[i] = c.chain[i - 1]
              /\ j - 1 \in 1..Len(c.chain) /\ all[j] = c.chain[j - 1]
          BY <3>6, <4>3
        <5>2. i - 1 = j - 1
          BY <3>7, <5>1 DEF Once
        <5>3. i \in Int /\ j \in Int
          BY <3>7
        <5> QED BY <5>2, <5>3
      <4> QED BY <4>2, <4>3
    <3> QED BY <3>1, <3>2, <3>3, <3>7
  <2> QED BY <2>2 DEF BucketsSound
<1> QED BY <1>1, Inductive, PTL

\* A read that succeeds has the sectors it was asked for.
THEOREM SectorsRight == Spec => []ReadsRight
<1>1. IInv => ReadsRight
  BY DEF IInv, RetInv, AnswerOK, Good, ReadsRight
<1> QED BY <1>1, Inductive, PTL

\* A read that asks for no bad sector does not fail for one.
THEOREM GoodReadable == Spec => []GoodSectorsReadable
<1>1. IInv => GoodSectorsReadable
  BY DEF IInv, RetInv, AnswerOK, GoodRange, Fine, GoodSectorsReadable
<1> QED BY <1>1, Inductive, PTL
=============================================================================
