---------------------------- MODULE NavViewProof ----------------------------
(***************************************************************************)
(* Proofs about the file list of the main window, for any directories,     *)
(* sizes of batch, page and window, and any number of navigations,         *)
(* unmountings and changes of the encoding.                                *)
(***************************************************************************)
EXTENDS NavView, FiniteSetTheorems, WellFoundedInduction, TLAPS

Elems(s) == {s[i] : i \in 1..Len(s)}
Positive == Nat \ {0}

\* The tasks posted and the messages that answer them.
Task ==
  [kind : {"list"}, seq : Positive, path : Paths]
    \cup [kind : {"sizes"}, seq : Positive, owner : Positive, path : Paths, rows : Seq(Rows)]
    \cup [kind : {"unmount"}, path : Removable]
Result ==
  [kind : {"list"}, seq : Positive, path : Paths, ok : BOOLEAN, enc : Encodings]
    \cup [kind : {"sizes"}, seq : Positive, owner : Positive, sizes : Seq(Paths \X Rows)]
    \cup [kind : {"unmount"}, path : Removable]
Numbered(x) == x.kind # "unmount"

\* No two tasks or answers under way have one number, and none is from the future.
Numbers(tasks, answers, last) ==
  /\ tasks \in Seq(Task) /\ answers \in Seq(Result)
  /\ \A x \in Elems(tasks) \cup Elems(answers) :
       /\ Numbered(x) => x.seq <= last
       /\ x.kind = "sizes" => x.owner <= last
  /\ \A i, j \in 1..Len(tasks) :
       Numbered(tasks[i]) /\ Numbered(tasks[j]) /\ tasks[i].seq = tasks[j].seq => i = j
  /\ \A i, j \in 1..Len(answers) :
       Numbered(answers[i]) /\ Numbered(answers[j]) /\ answers[i].seq = answers[j].seq
         => i = j
  /\ \A t \in Elems(tasks), m \in Elems(answers) :
       Numbered(t) /\ Numbered(m) => t.seq # m.seq

\* While the newest listing is on its way it is not shown and no sizes are asked
\* for; if go_back() or go_forward() posted it, the cursor is on its path.
Awaited(x) ==
  x.kind = "list" /\ x.seq = g_seq_list =>
    /\ g_view_seq # g_seq_list /\ ask.seq = 0
    /\ x.seq = g_hist_seq => g_hist_pos > 0 /\ g_hist[g_hist_pos] = x.path

\* A batch is of the newest listing exactly if it is the one under way, and
\* then it is about the rows and the path that are waited for.
TaskOK(t) ==
  /\ Awaited(t)
  /\ t.kind = "sizes" =>
       /\ t.owner = g_seq_list <=> t.seq = ask.seq
       /\ t.seq = ask.seq =>
            t.rows = ask.rows /\ (g_view_seq # 0 => t.path = g_path)
ResultOK(m) ==
  /\ Awaited(m)
  /\ m.kind = "list" /\ m.seq = g_seq_list => m.enc = encoding \/ m.seq = survivor
  /\ m.kind = "list" /\ m.ok => RootOf[m.path] \notin departed
  /\ m.kind = "unmount" => m.path \in gone
  /\ m.kind = "sizes" =>
       /\ m.owner = g_seq_list <=> m.seq = ask.seq
       /\ m.seq = ask.seq =>
            /\ Len(m.sizes) = Len(ask.rows)
            /\ g_view_seq # 0 =>
                 \A i \in 1..Len(ask.rows) : m.sizes[i] = <<g_path, ask.rows[i]>>

\* A device is not listed any more once its unmounting was answered.
Departures(answers) ==
  \A i, j \in 1..Len(answers) :
    i < j /\ answers[i].kind = "unmount" /\ answers[j].kind = "list" /\ answers[j].ok
      => RootOf[answers[j].path] # answers[i].path

\* The batch under way is in the queue or answered, and only its rows are pending.
AskInv ==
  /\ ask.seq = 0 => ask.rows = <<>> /\ ask.pending = {}
  /\ ask.seq # 0 =>
       /\ ask.pending = Elems(ask.rows)
       /\ \E x \in Elems(queue) \cup Elems(mailbox) : x.kind = "sizes" /\ x.seq = ask.seq

ViewInv ==
  /\ latest = g_seq_list
  /\ g_view_seq # 0 => g_path \in Paths
  /\ CursorOnView /\ SizesRight /\ DepartedNotShown /\ DecodedUnlessSurvived

\* The inductive invariant.
IInv ==
  /\ TypeOK /\ Numbers(queue, mailbox, g_seq) /\ Departures(mailbox)
  /\ \A t \in Elems(queue) : TaskOK(t)
  /\ \A m \in Elems(mailbox) : ResultOK(m)
  /\ AskInv /\ ViewInv

-----------------------------------------------------------------------------
(* Sequences of tasks and answers.                                         *)

\* One element is added at the end.
LEMMA AppendFacts ==
  ASSUME NEW S, NEW s \in Seq(S), NEW x \in S
  PROVE  /\ Append(s, x) \in Seq(S) /\ Len(Append(s, x)) = Len(s) + 1
         /\ Append(s, x)[Len(s) + 1] = x
         /\ \A i \in 1..Len(s) : Append(s, x)[i] = s[i]
         /\ Elems(Append(s, x)) = Elems(s) \cup {x}
<1>1. /\ Append(s, x) \in Seq(S) /\ Len(Append(s, x)) = Len(s) + 1
      /\ Append(s, x)[Len(s) + 1] = x
      /\ \A i \in 1..Len(s) : Append(s, x)[i] = s[i]
  OBVIOUS
<1>2. \A i \in 1..Len(s) + 1 : i \in 1..Len(s) \/ i = Len(s) + 1
  OBVIOUS
<1>3. ASSUME NEW e \in Elems(Append(s, x)) PROVE e \in Elems(s) \cup {x}
  BY <1>1, <1>2, <1>3 DEF Elems
<1>4. ASSUME NEW e \in Elems(s) \cup {x} PROVE e \in Elems(Append(s, x))
  <2>1. 1..Len(s) \subseteq 1..Len(s) + 1 /\ Len(s) + 1 \in 1..Len(s) + 1
    OBVIOUS
  <2> QED BY <1>1, <1>4, <2>1 DEF Elems
<1> QED BY <1>1, <1>3, <1>4

\* The first element is taken away.
LEMMA TailFacts ==
  ASSUME NEW S, NEW s \in Seq(S), s # <<>>
  PROVE  /\ Tail(s) \in Seq(S) /\ Len(Tail(s)) = Len(s) - 1 /\ Len(s) > 0
         /\ Head(s) = s[1] /\ Head(s) \in Elems(s) /\ Head(s) \in S
         /\ \A i \in 1..Len(Tail(s)) : Tail(s)[i] = s[i + 1] /\ i + 1 \in 1..Len(s)
         /\ \A x \in Elems(Tail(s)) : \E i \in 1..Len(Tail(s)) : x = Tail(s)[i]
         /\ Elems(s) = Elems(Tail(s)) \cup {Head(s)}
<1>1. /\ Tail(s) \in Seq(S) /\ Len(Tail(s)) = Len(s) - 1 /\ Len(s) > 0
      /\ Head(s) = s[1] /\ Head(s) \in S
      /\ \A i \in 1..Len(Tail(s)) : Tail(s)[i] = s[i + 1] /\ i + 1 \in 1..Len(s)
  OBVIOUS
<1>2. 1 \in 1..Len(s) /\ Head(s) \in Elems(s)
  BY <1>1 DEF Elems
<1>3. ASSUME NEW i \in 1..Len(s) PROVE s[i] \in Elems(Tail(s)) \cup {Head(s)}
  <2>1. i = 1 \/ (i - 1 \in 1..Len(Tail(s)) /\ Tail(s)[i - 1] = s[i])
    BY <1>1
  <2> QED BY <1>1, <2>1 DEF Elems
<1>4. \A x \in Elems(Tail(s)) : x \in Elems(s)
  BY <1>1 DEF Elems
<1>5. \A x \in Elems(s) : x \in Elems(Tail(s)) \cup {Head(s)}
  BY <1>3 DEF Elems
<1>6. \A x \in Elems(Tail(s)) : \E i \in 1..Len(Tail(s)) : x = Tail(s)[i]
  BY DEF Elems
<1> QED BY <1>1, <1>2, <1>4, <1>5, <1>6

\* What a task or an answer is, by its kind.
LEMMA TaskFacts ==
  ASSUME NEW t \in Task
  PROVE  /\ t.kind \in {"list", "sizes", "unmount"}
         /\ Numbered(t) => t.seq \in Positive
         /\ t.kind = "list" => t.path \in Paths
         /\ t.kind = "sizes" =>
              t.owner \in Positive /\ t.path \in Paths /\ t.rows \in Seq(Rows)
         /\ t.kind = "unmount" => t.path \in Removable
BY DEF Task, Numbered

LEMMA ResultFacts ==
  ASSUME NEW m \in Result
  PROVE  /\ m.kind \in {"list", "sizes", "unmount"}
         /\ Numbered(m) => m.seq \in Positive
         /\ m.kind = "list" => m.path \in Paths /\ m.ok \in BOOLEAN /\ m.enc \in Encodings
         /\ m.kind = "sizes" => m.owner \in Positive /\ m.sizes \in Seq(Paths \X Rows)
         /\ m.kind = "unmount" => m.path \in Removable
BY DEF Result, Numbered

\* A task with a new number is posted; an unmounting has none.
LEMMA PostNumbers ==
  ASSUME NEW q, NEW m, NEW s \in Nat, Numbers(q, m, s), NEW x \in Task,
         Numbered(x) => x.seq = s + 1, x.kind = "sizes" => x.owner <= s + 1
  PROVE  Numbers(Append(q, x), m, s + 1)
<1> DEFINE p == Append(q, x)
<1>1. q \in Seq(Task) /\ m \in Seq(Result)
  BY DEF Numbers
<1>2. /\ p \in Seq(Task) /\ Len(p) = Len(q) + 1 /\ p[Len(q) + 1] = x
      /\ \A i \in 1..Len(q) : p[i] = q[i]
      /\ Elems(p) = Elems(q) \cup {x}
  BY <1>1, AppendFacts
<1> HIDE DEF p
<1>3. \A y \in Elems(q) \cup Elems(m) : Numbered(y) => y.seq \in Positive /\ y.seq <= s
  BY <1>1, TaskFacts, ResultFacts DEF Numbers, Elems
<1>4. \A y \in Elems(q) \cup Elems(m) : y.kind = "sizes" => y.owner \in Nat /\ y.owner <= s
  BY <1>1, TaskFacts, ResultFacts DEF Numbers, Elems, Positive
<1>5. \A y \in Elems(p) \cup Elems(m) :
        (Numbered(y) => y.seq <= s + 1) /\ (y.kind = "sizes" => y.owner <= s + 1)
  BY <1>2, <1>3, <1>4, TaskFacts DEF Positive
<1>6. ASSUME NEW i \in 1..Len(p), NEW j \in 1..Len(p),
             Numbered(p[i]), Numbered(p[j]), p[i].seq = p[j].seq
      PROVE  i = j
  <2>1. \A k \in 1..Len(q) : q[k] \in Elems(q)
    BY DEF Elems
  <2>2. \A k \in 1..Len(q) : Numbered(q[k]) => q[k].seq # s + 1
    BY <1>3, <2>1 DEF Positive
  <2>3. \A k \in 1..Len(p) : k \in 1..Len(q) \/ k = Len(q) + 1
    BY <1>1, <1>2
  <2> QED BY <1>2, <1>6, <2>2, <2>3 DEF Numbers
<1>7. \A t \in Elems(p), y \in Elems(m) : Numbered(t) /\ Numbered(y) => t.seq # y.seq
  <2>1. \A y \in Elems(m) : Numbered(y) => y.seq # s + 1
    BY <1>3 DEF Positive
  <2> QED BY <1>2, <2>1 DEF Numbers
<1> QED BY <1>1, <1>2, <1>5, <1>6, <1>7 DEF Numbers, p

\* The message in front is handled; nothing else has its number.
LEMMA HandleNumbers ==
  ASSUME NEW q, NEW m, NEW s, Numbers(q, m, s), m # <<>>
  PROVE  /\ Numbers(q, Tail(m), s)
         /\ \A x \in Elems(q) \cup Elems(Tail(m)) :
              Numbered(x) /\ Numbered(Head(m)) => x.seq # Head(m).seq
<1>1. q \in Seq(Task) /\ m \in Seq(Result)
  BY DEF Numbers
<1>2. /\ Tail(m) \in Seq(Result) /\ Len(Tail(m)) = Len(m) - 1 /\ Len(m) > 0
      /\ Head(m) = m[1] /\ Head(m) \in Elems(m)
      /\ \A i \in 1..Len(Tail(m)) : Tail(m)[i] = m[i + 1] /\ i + 1 \in 1..Len(m)
      /\ Elems(m) = Elems(Tail(m)) \cup {Head(m)}
  BY <1>1, TailFacts
<1>3. \A i, j \in 1..Len(Tail(m)) :
        Numbered(Tail(m)[i]) /\ Numbered(Tail(m)[j]) /\ Tail(m)[i].seq = Tail(m)[j].seq
          => i = j
  BY <1>2 DEF Numbers
<1>4. ASSUME NEW x \in Elems(Tail(m)), Numbered(x), Numbered(Head(m)) PROVE x.seq # Head(m).seq
  <2>1. PICK i \in 1..Len(Tail(m)) : x = m[i + 1] /\ i + 1 \in 1..Len(m)
    BY <1>2 DEF Elems
  <2>2. i + 1 # 1 /\ 1 \in 1..Len(m)
    BY <1>1, <1>2
  <2> QED BY <1>2, <1>4, <2>1, <2>2 DEF Numbers
<1>5. \A x \in Elems(q) : Numbered(x) /\ Numbered(Head(m)) => x.seq # Head(m).seq
  BY <1>2 DEF Numbers
<1> QED BY <1>1, <1>2, <1>3, <1>4, <1>5 DEF Numbers

\* The task in front is done without an answer, or answered by y.
LEMMA DoneNumbers ==
  ASSUME NEW q, NEW m, NEW s, Numbers(q, m, s), q # <<>>
  PROVE  /\ Numbers(Tail(q), m, s)
         /\ \A x \in Elems(Tail(q)) \cup Elems(m) :
              Numbered(x) /\ Numbered(Head(q)) => x.seq # Head(q).seq
<1>1. q \in Seq(Task) /\ m \in Seq(Result)
  BY DEF Numbers
<1>2. /\ Tail(q) \in Seq(Task) /\ Len(Tail(q)) = Len(q) - 1 /\ Len(q) > 0
      /\ Head(q) = q[1] /\ Head(q) \in Elems(q)
      /\ \A i \in 1..Len(Tail(q)) : Tail(q)[i] = q[i + 1] /\ i + 1 \in 1..Len(q)
      /\ Elems(q) = Elems(Tail(q)) \cup {Head(q)}
  BY <1>1, TailFacts
<1>3. \A i, j \in 1..Len(Tail(q)) :
        Numbered(Tail(q)[i]) /\ Numbered(Tail(q)[j]) /\ Tail(q)[i].seq = Tail(q)[j].seq
          => i = j
  BY <1>2 DEF Numbers
<1>4. ASSUME NEW x \in Elems(Tail(q)), Numbered(x), Numbered(Head(q)) PROVE x.seq # Head(q).seq
  <2>1. PICK i \in 1..Len(Tail(q)) : x = q[i + 1] /\ i + 1 \in 1..Len(q)
    BY <1>2 DEF Elems
  <2>2. i + 1 # 1 /\ 1 \in 1..Len(q)
    BY <1>1, <1>2
  <2> QED BY <1>2, <1>4, <2>1, <2>2 DEF Numbers
<1>5. \A x \in Elems(m) : Numbered(x) /\ Numbered(Head(q)) => Head(q).seq # x.seq
  BY <1>2 DEF Numbers
<1> QED BY <1>1, <1>2, <1>3, <1>4, <1>5 DEF Numbers

LEMMA AnswerNumbers ==
  ASSUME NEW q, NEW m, NEW s \in Nat, Numbers(q, m, s), q # <<>>, NEW y \in Result,
         Numbered(y) => Numbered(Head(q)) /\ y.seq = Head(q).seq,
         y.kind = "sizes" => Head(q).kind = "sizes" /\ y.owner = Head(q).owner
  PROVE  Numbers(Tail(q), Append(m, y), s)
<1> DEFINE a == Append(m, y)
<1>1. /\ Numbers(Tail(q), m, s)
      /\ \A x \in Elems(Tail(q)) \cup Elems(m) :
           Numbered(x) /\ Numbered(Head(q)) => x.seq # Head(q).seq
  BY DoneNumbers
<1>2. q \in Seq(Task) /\ m \in Seq(Result) /\ Tail(q) \in Seq(Task) /\ Head(q) \in Elems(q)
  <2>1. q \in Seq(Task) /\ m \in Seq(Result)
    BY DEF Numbers
  <2> QED BY <2>1, TailFacts
<1>3. /\ a \in Seq(Result) /\ Len(a) = Len(m) + 1 /\ a[Len(m) + 1] = y
      /\ \A i \in 1..Len(m) : a[i] = m[i]
      /\ Elems(a) = Elems(m) \cup {y}
  BY <1>2, AppendFacts
<1> HIDE DEF a
<1>4. (Numbered(y) => y.seq <= s) /\ (y.kind = "sizes" => y.owner <= s)
  BY <1>2 DEF Numbers
<1>5. ASSUME NEW i \in 1..Len(a), NEW j \in 1..Len(a),
             Numbered(a[i]), Numbered(a[j]), a[i].seq = a[j].seq
      PROVE  i = j
  <2>1. \A k \in 1..Len(m) : m[k] \in Elems(m)
    BY DEF Elems
  <2>2. \A k \in 1..Len(m) : Numbered(m[k]) /\ Numbered(y) => m[k].seq # y.seq
    BY <1>1, <2>1
  <2>3. \A k \in 1..Len(a) : k \in 1..Len(m) \/ k = Len(m) + 1
    BY <1>2, <1>3
  <2> QED BY <1>3, <1>5, <2>2, <2>3 DEF Numbers
<1>6. \A t \in Elems(Tail(q)), x \in Elems(a) : Numbered(t) /\ Numbered(x) => t.seq # x.seq
  BY <1>1, <1>3 DEF Numbers
<1>7. \A x \in Elems(Tail(q)) \cup Elems(a) :
        (Numbered(x) => x.seq <= s) /\ (x.kind = "sizes" => x.owner <= s)
  BY <1>1, <1>3, <1>4 DEF Numbers
<1> QED BY <1>2, <1>3, <1>5, <1>6, <1>7 DEF Numbers, a

\* Departures are in order after a message is handled or added.
LEMMA HandleDepartures ==
  ASSUME NEW m \in Seq(Result), m # <<>>, Departures(m)
  PROVE  /\ Departures(Tail(m))
         /\ Head(m).kind = "unmount" =>
              \A x \in Elems(Tail(m)) :
                x.kind = "list" /\ x.ok => RootOf[x.path] # Head(m).path
<1>1. /\ Len(m) > 0 /\ Head(m) = m[1]
      /\ \A i \in 1..Len(Tail(m)) : Tail(m)[i] = m[i + 1] /\ i + 1 \in 1..Len(m)
      /\ \A x \in Elems(Tail(m)) : \E i \in 1..Len(Tail(m)) : x = Tail(m)[i]
  BY TailFacts
<1>2. Departures(Tail(m))
  BY <1>1 DEF Departures
<1>3. ASSUME NEW x \in Elems(Tail(m)), Head(m).kind = "unmount", x.kind = "list", x.ok
      PROVE  RootOf[x.path] # Head(m).path
  <2>1. PICK i \in 1..Len(Tail(m)) : x = m[i + 1] /\ i + 1 \in 1..Len(m)
    BY <1>1
  <2>2. 1 < i + 1 /\ 1 \in 1..Len(m)
    BY <1>1
  <2> QED BY <1>1, <1>3, <2>1, <2>2 DEF Departures
<1> QED BY <1>2, <1>3

LEMMA AnswerDepartures ==
  ASSUME NEW m \in Seq(Result), NEW y \in Result, Departures(m),
         y.kind = "list" /\ y.ok =>
           \A x \in Elems(m) : x.kind = "unmount" => RootOf[y.path] # x.path
  PROVE  Departures(Append(m, y))
<1> DEFINE a == Append(m, y)
<1>1. /\ Len(a) = Len(m) + 1 /\ a[Len(m) + 1] = y /\ Len(m) \in Nat
      /\ \A i \in 1..Len(m) : a[i] = m[i]
  BY AppendFacts
<1> HIDE DEF a
<1>2. \A k \in 1..Len(m) : m[k] \in Elems(m)
  BY DEF Elems
<1>3. \A i, j \in 1..Len(a) : i < j => i \in 1..Len(m) /\ (j \in 1..Len(m) \/ j = Len(m) + 1)
  BY <1>1
<1>4. Departures(a)
  BY <1>1, <1>2, <1>3 DEF Departures
<1> QED BY <1>4 DEF a

-----------------------------------------------------------------------------
(* The rows to ask for.                                                    *)

\* A set of numbers has a least one.
LEMMA LeastFacts ==
  ASSUME NEW S, S \subseteq Nat, S # {}
  PROVE  \E x \in S : \A y \in S : x <= y
<1> DEFINE R == {p \in Nat \X Nat : p[1] < p[2]}
<1>1. IsWellFoundedOn(R, Nat)
  BY NatLessThanWellFounded DEF OpToRel
<1> HIDE DEF R
<1>2. PICK x \in S : \A y \in S : ~(<<y, x>> \in R)
  BY <1>1, WFMin
<1>3. ASSUME NEW y \in S PROVE x <= y
  <2>1. x \in Nat /\ y \in Nat /\ <<y, x>> \notin R
    BY <1>2
  <2>2. ~(y < x)
    BY <2>1 DEF R
  <2> QED BY <2>1, <2>2
<1> QED BY <1>3

\* The members of S up to r.
Upto(S, r) == {q \in S : q <= r}

\* Of a set of row numbers those up to some row are finitely many, one more with
\* every row that is in the set.
LEMMA BelowFacts ==
  ASSUME NEW S, IsFiniteSet(S), S \subseteq Nat, NEW r \in Nat
  PROVE  /\ Cardinality(Upto(S, r)) \in Nat
         /\ Cardinality(Upto(S, r - 1)) \in Nat
         /\ Cardinality(Upto(S, r)) =
              IF r \in S THEN Cardinality(Upto(S, r - 1)) + 1
              ELSE Cardinality(Upto(S, r - 1))
<1> DEFINE B == Upto(S, r)
           C == Upto(S, r - 1)
<1>1. B \in SUBSET S /\ C \in SUBSET S
  BY DEF Upto
<1>2. r \notin C /\ (r \in S => B = C \cup {r}) /\ (r \notin S => B = C)
  <2>1. \A q \in S : q <= r <=> q <= r - 1 \/ q = r
    OBVIOUS
  <2>2. ~(r <= r - 1) /\ r <= r
    OBVIOUS
  <2> QED BY <2>1, <2>2 DEF Upto
<1> HIDE DEF B, C
<1>3. IsFiniteSet(B) /\ IsFiniteSet(C)
  BY <1>1, FS_Subset
<1>4. Cardinality(B) \in Nat /\ Cardinality(C) \in Nat
  BY <1>3, FS_CardinalityType
<1>5. Cardinality(C \cup {r}) = Cardinality(C) + 1
  BY <1>2, <1>3, FS_AddElement
<1> QED BY <1>2, <1>4, <1>5 DEF B, C

\* For every i up to their number one of the rows is the i-th.
LEMMA RankOnto ==
  ASSUME NEW a \in Nat, NEW b \in Int, NEW S \in SUBSET (a..b),
         NEW i \in 1..Cardinality(S)
  PROVE  \E r \in S : Cardinality(Upto(S, r)) = i
<1>1. IsFiniteSet(S) /\ Cardinality(S) \in Nat /\ S \subseteq Nat
  <2>1. IsFiniteSet(a..b) /\ S \in SUBSET (a..b)
    BY FS_Interval
  <2>2. IsFiniteSet(S)
    BY <2>1, FS_Subset
  <2>3. S \subseteq Nat
    OBVIOUS
  <2> QED BY <2>2, <2>3, FS_CardinalityType
<1>2. S # {} /\ b \in Nat /\ a <= b
  <2>1. S # {}
    BY <1>1, FS_EmptySet
  <2>2. PICK q \in S : TRUE
    BY <2>1
  <2>3. q \in a..b
    BY <2>2
  <2> QED BY <2>1, <2>3
<1>3. Upto(S, b) = S
  <2>1. \A q \in S : q <= b
    BY <1>1
  <2> QED BY <2>1 DEF Upto
<1> DEFINE card(r) == Cardinality(Upto(S, r))
           T == {r \in a..b : card(r) >= i}
<1>4. \A r \in Nat : /\ card(r) \in Nat /\ card(r - 1) \in Nat
                     /\ card(r) = IF r \in S THEN card(r - 1) + 1 ELSE card(r - 1)
  <2> TAKE r \in Nat
  <2>1. /\ Cardinality(Upto(S, r)) \in Nat
        /\ Cardinality(Upto(S, r - 1)) \in Nat
        /\ Cardinality(Upto(S, r)) =
             IF r \in S THEN Cardinality(Upto(S, r - 1)) + 1
             ELSE Cardinality(Upto(S, r - 1))
    BY <1>1, BelowFacts
  <2> QED BY <2>1, Zenon
<1>5. card(b) = Cardinality(S)
  BY <1>3
<1>6. card(a - 1) = 0
  <2>1. \A q \in S : ~(q <= a - 1)
    BY <1>1
  <2>2. Upto(S, a - 1) = {}
    BY <2>1 DEF Upto
  <2> QED BY <2>2, FS_EmptySet
<1> HIDE DEF card
<1>7. b \in T
  BY <1>2, <1>5
<1>8. PICK r \in T : \A y \in T : r <= y
  <2>1. T \subseteq Nat
    OBVIOUS
  <2> HIDE DEF T
  <2> QED BY <1>7, <2>1, LeastFacts
<1>9. r \in Nat /\ r \in a..b /\ card(r) >= i
  BY <1>8
<1>10. card(r - 1) < i
  <2>1. CASE r = a
    BY <1>6, <2>1
  <2>2. CASE r # a
    <3>1. r - 1 \in a..b /\ r - 1 \in Nat /\ ~(r <= r - 1)
      BY <1>9, <2>2
    <3>2. r - 1 \notin T
      BY <1>8, <3>1
    <3>3. ~(card(r - 1) >= i) /\ card(r - 1) \in Nat
      BY <1>4, <1>9, <3>1, <3>2
    <3> QED BY <3>3
  <2> QED BY <2>1, <2>2
<1>11. r \in S /\ card(r) = i
  BY <1>4, <1>9, <1>10
<1> QED BY <1>11 DEF card

\* A batch holds at most Batch rows of the range, each once, of unknown size and
\* not pending.
LEMMA RowsAsked ==
  ASSUME NEW entries, NEW pending, NEW first \in Rows, NEW last \in Rows
  PROVE  LET rows == RowsToAsk(entries, pending, first, last) IN
         /\ rows \in Seq(Rows) /\ Len(rows) <= Batch
         /\ \A i \in 1..Len(rows) :
              /\ rows[i] \in first..last /\ entries[rows[i]] = Unknown
              /\ rows[i] \notin pending
         /\ \A i, j \in 1..Len(rows) : rows[i] = rows[j] => i = j
<1> DEFINE needed == {r \in first..last : entries[r] = Unknown /\ r \notin pending}
           rank(r) == Cardinality(Upto(needed, r))
           size == IF Cardinality(needed) < Batch THEN Cardinality(needed) ELSE Batch
           rows == [i \in 1..size |-> CHOOSE r \in needed : rank(r) = i]
<1>1. RowsToAsk(entries, pending, first, last) = rows
  BY DEF RowsToAsk, Upto
<1>2. first \in Nat /\ last \in Nat /\ first..last \subseteq Rows /\ Batch \in Nat
  BY NavViewAssumption DEF Rows
<1>3. needed \subseteq first..last
  OBVIOUS
<1>4. Cardinality(needed) \in Nat
  <2> HIDE DEF needed
  <2>1. IsFiniteSet(first..last) /\ needed \in SUBSET (first..last)
    BY <1>2, <1>3, FS_Interval
  <2>2. IsFiniteSet(needed)
    BY <2>1, FS_Subset
  <2> QED BY <2>2, FS_CardinalityType
<1>5. size \in Nat /\ size <= Batch /\ size <= Cardinality(needed)
  BY <1>2, <1>4
<1>6. ASSUME NEW i \in 1..size PROVE rows[i] \in needed /\ rank(rows[i]) = i
  <2>1. i \in 1..Cardinality(needed)
    BY <1>4, <1>5
  <2> HIDE DEF needed
  <2>2. \E r \in needed : Cardinality(Upto(needed, r)) = i
    <3>1. first \in Nat /\ last \in Int /\ needed \in SUBSET (first..last)
      BY <1>2, <1>3
    <3> HIDE DEF rank, size, rows
    <3> QED BY <2>1, <3>1, RankOnto, ZenonT(40)
  <2>3. rows[i] = CHOOSE r \in needed : rank(r) = i
    BY <1>6
  <2> QED BY <2>2, <2>3
<1>7. Len(rows) = size /\ DOMAIN rows = 1..size
  BY <1>5
<1>8. \A i \in 1..size : rows[i] \in Rows
  BY <1>2, <1>3, <1>6
<1>9. rows \in Seq(Rows)
  <2>1. rows \in [1..size -> Rows]
    BY <1>8, Zenon
  <2> HIDE DEF rows, size
  <2> QED BY <1>5, <2>1
<1>10. \A i, j \in 1..size : rows[i] = rows[j] => i = j
  <2> HIDE DEF rows
  <2> QED BY <1>6
<1>11. \A i \in 1..size : rows[i] \in needed
  BY <1>6
<1> HIDE DEF rows, size
<1> QED BY <1>1, <1>5, <1>7, <1>9, <1>10, <1>11

\* The neighborhood of rows in sight is a range of rows.
LEMMA NeighborhoodFacts ==
  ASSUME NEW from \in Nat, NEW to \in Nat, from <= to
  PROVE  LET r == Neighborhood(from, to) IN r[1] \in Rows /\ r[2] \in Rows /\ r[1] <= r[2]
<1> DEFINE span == to - from + 1
           extra == Window - span
           wide == <<from - Page, to + Page>>
           r1 == IF span >= Window THEN <<from, from + Window - 1>>
                 ELSE IF wide[2] - wide[1] + 1 > Window
                 THEN <<from - extra \div 2, to + extra - extra \div 2>>
                 ELSE wide
           r2 == IF r1[1] < 0 THEN <<0, r1[2] - r1[1]>> ELSE r1
           over == r2[2] - Count + 1
<1>1. Window \in Nat \ {0} /\ Page \in Nat \ {0} /\ Count \in Nat \ {0}
  BY NavViewAssumption
<1>2. r1[1] \in Int /\ r1[2] \in Int /\ r1[1] <= r1[2]
  <2>1. CASE span >= Window
    BY <1>1, <2>1
  <2>2. CASE span < Window
    <3>1. extra \in Nat /\ extra \div 2 \in Int /\ extra \div 2 <= extra /\ extra \div 2 >= 0
      BY <1>1, <2>2
    <3> QED BY <1>1, <2>2, <3>1
  <2> QED BY <1>1, <2>1, <2>2
<1> HIDE DEF r1
<1>3. r2[1] \in Nat /\ r2[2] \in Nat /\ r2[1] <= r2[2]
  BY <1>2
<1>4. Neighborhood(from, to) =
        IF r2[2] >= Count THEN <<IF r2[1] > over THEN r2[1] - over ELSE 0, Count - 1>> ELSE r2
  BY DEF Neighborhood, r1
<1> HIDE DEF r2
<1> QED BY <1>1, <1>3, <1>4 DEF Rows

\* What queue_list_sizes() leaves: the wanted range, and a batch or none.
AskType == [seq : Nat, rows : Seq(Rows), pending : SUBSET Rows,
            first : Rows, last : Rows \cup {-1}]
Queued(q, first, last, path, seq, a) ==
  \/ /\ q.post = <<>>
     /\ q.ask = [a EXCEPT !.first = first, !.last = last]
  \/ \E rows \in Seq(Rows) :
       /\ a.seq = 0 /\ Len(rows) <= Batch
       /\ q.post = <<[kind |-> "sizes", seq |-> g_seq + 1, owner |-> seq,
                      path |-> path, rows |-> rows]>>
       /\ q.ask = [seq |-> g_seq + 1, rows |-> rows, pending |-> Elems(rows),
                   first |-> first, last |-> last]

LEMMA QueueFacts ==
  ASSUME NEW first \in Rows, NEW last \in Rows, NEW path \in Paths, NEW seq \in Positive,
         NEW entries, NEW a \in AskType, g_seq \in Nat,
         a.seq = 0 => a.rows = <<>> /\ a.pending = {}
  PROVE  Queued(QueueListSizes(first, last, path, seq, entries, a), first, last, path, seq, a)
<1> DEFINE rows == RowsToAsk(entries, a.pending, first, last)
           pend == a.pending \cup {rows[i] : i \in 1..Len(rows)}
           want == [a EXCEPT !.first = first, !.last = last]
           post == <<[kind |-> "sizes", seq |-> g_seq + 1, owner |-> seq,
                      path |-> path, rows |-> rows]>>
           q == QueueListSizes(first, last, path, seq, entries, a)
<1>1. rows \in Seq(Rows) /\ Len(rows) <= Batch
  BY RowsAsked
<1>2. q = IF a.seq # 0 \/ rows = <<>> THEN [ask |-> want, post |-> <<>>]
          ELSE [ask |-> [want EXCEPT !.seq = g_seq + 1, !.rows = rows, !.pending = pend],
                post |-> post]
  BY DEF QueueListSizes
<1>3. CASE a.seq # 0 \/ rows = <<>>
  <2>1. q = [ask |-> want, post |-> <<>>]
    BY <1>2, <1>3
  <2> HIDE DEF q
  <2>2. q.post = <<>> /\ q.ask = want
    BY <2>1
  <2> QED BY <2>2 DEF q, Queued
<1>4. CASE ~(a.seq # 0 \/ rows = <<>>)
  <2>1. q.post = post /\ q.ask = [want EXCEPT !.seq = g_seq + 1, !.rows = rows, !.pending = pend]
    <3>1. q = [ask |-> [want EXCEPT !.seq = g_seq + 1, !.rows = rows, !.pending = pend],
               post |-> post]
      BY <1>2, <1>4
    <3> HIDE DEF q, post, want, rows, pend
    <3> QED BY <3>1
  <2>2. pend = Elems(rows)
    BY <1>4 DEF Elems
  <2> HIDE DEF rows, pend, q
  <2>3. q.ask = [seq |-> g_seq + 1, rows |-> rows, pending |-> pend,
                 first |-> first, last |-> last]
    BY <2>1 DEF AskType
  <2>4. \E rs \in Seq(Rows) :
          /\ a.seq = 0 /\ Len(rs) <= Batch
          /\ q.post = <<[kind |-> "sizes", seq |-> g_seq + 1, owner |-> seq,
                        path |-> path, rows |-> rs]>>
          /\ q.ask = [seq |-> g_seq + 1, rows |-> rs, pending |-> Elems(rs),
                      first |-> first, last |-> last]
    BY <1>1, <1>4, <2>1, <2>2, <2>3
  <2> QED BY <2>4 DEF q, Queued
<1> QED BY <1>3, <1>4

-----------------------------------------------------------------------------
(* The backend's steps.                                                    *)

\* The view, its history and what it waits for.
front == <<view, g_seq_list, ask, hist, departed, survivor>>

\* Where nothing of the view changes, what is under way stays as good as it was.
LEMMA FrontSame ==
  ASSUME UNCHANGED front, encoding' = encoding, gone \subseteq gone'
  PROVE  /\ \A x : TaskOK(x) => TaskOK(x)'
         /\ \A x : ResultOK(x) => ResultOK(x)'
BY DEF front, view, hist, TaskOK, ResultOK, Awaited

LEMMA FrontType ==
  ASSUME IInv, UNCHANGED front, UNCHANGED <<encoding, latest, g_seq>>,
         gone \subseteq gone', gone' \subseteq Removable
  PROVE  TypeOK' /\ ViewInv'
BY DEF IInv, front, view, hist, TypeOK, ViewInv, CursorOnView, SizesRight,
       DepartedNotShown, DecodedUnlessSurvived

LEMMA RunListDirStep ==
  ASSUME IInv, RunListDir PROVE IInv'
<1> DEFINE t == Head(queue)
<1>1. /\ queue \in Seq(Task) /\ mailbox \in Seq(Result) /\ g_seq \in Nat
      /\ Numbers(queue, mailbox, g_seq) /\ Departures(mailbox) /\ encoding \in Encodings
      /\ departed \subseteq gone
  BY DEF IInv, Numbers, TypeOK
<1>2. PICK ok \in {FALSE} \cup {RootOf[t.path] \notin gone} :
        mailbox' = Append(mailbox, [kind |-> "list", seq |-> t.seq, path |-> t.path,
                                    ok |-> ok, enc |-> encoding])
  BY DEF RunListDir
<1> DEFINE y == [kind |-> "list", seq |-> t.seq, path |-> t.path, ok |-> ok, enc |-> encoding]
<1>3. queue # <<>> /\ t.kind = "list" /\ queue' = Tail(queue) /\ UNCHANGED front
      /\ UNCHANGED <<encoding, gone, latest, g_seq>>
  BY DEF RunListDir, front
<1>4. /\ t \in Task /\ t \in Elems(queue) /\ Elems(queue) = Elems(Tail(queue)) \cup {t}
  BY <1>1, <1>3, TailFacts
<1>5. t.seq \in Positive /\ t.path \in Paths /\ Numbered(t)
  BY <1>3, <1>4, TaskFacts DEF Numbered
<1>6. y \in Result
  BY <1>1, <1>2, <1>5 DEF Result
<1>7. /\ y.kind = "list" /\ y.seq = t.seq /\ y.path = t.path /\ y.enc = encoding
      /\ y.ok => RootOf[y.path] \notin gone
  BY <1>2
<1> HIDE DEF y, t
<1>8. mailbox' = Append(mailbox, y)
  BY <1>2 DEF y, t
<1>9. Numbers(queue', mailbox', g_seq')
  <2>1. Numbers(Tail(queue), Append(mailbox, y), g_seq)
    BY <1>1, <1>3, <1>5, <1>6, <1>7, AnswerNumbers DEF t
  <2> QED BY <1>3, <1>8, <2>1
<1>10. Departures(mailbox')
  <2>1. \A x \in Elems(mailbox) : x.kind = "unmount" => x.path \in gone
    BY DEF IInv, ResultOK
  <2> QED BY <1>1, <1>6, <1>7, <1>8, <2>1, AnswerDepartures
<1>11. Elems(mailbox') = Elems(mailbox) \cup {y}
  BY <1>1, <1>6, <1>8, AppendFacts
<1>12. TaskOK(t)
  BY <1>4 DEF IInv
<1>13. ResultOK(y)
  BY <1>1, <1>3, <1>7, <1>12 DEF TaskOK, ResultOK, Awaited
<1>14. (\A x : TaskOK(x) => TaskOK(x)') /\ (\A x : ResultOK(x) => ResultOK(x)')
  BY <1>3, FrontSame
<1>15. \A x \in Elems(queue') : TaskOK(x)'
  BY <1>3, <1>4, <1>14 DEF IInv
<1>16. \A x \in Elems(mailbox') : ResultOK(x)'
  BY <1>11, <1>13, <1>14 DEF IInv
<1>17. AskInv'
  <2>1. ask' = ask
    BY <1>3 DEF front
  <2>2. ASSUME ask.seq # 0
        PROVE  \E x \in Elems(queue') \cup Elems(mailbox') : x.kind = "sizes" /\ x.seq = ask.seq
    <3>1. PICK x \in Elems(queue) \cup Elems(mailbox) : x.kind = "sizes" /\ x.seq = ask.seq
      BY <2>2 DEF IInv, AskInv
    <3>2. x # t
      BY <1>3, <3>1 DEF t
    <3> QED BY <1>3, <1>4, <1>11, <3>1, <3>2
  <2> QED BY <2>1, <2>2 DEF IInv, AskInv
<1>18. TypeOK' /\ ViewInv'
  BY <1>3, FrontType DEF IInv, TypeOK
<1> QED BY <1>9, <1>10, <1>15, <1>16, <1>17, <1>18 DEF IInv

LEMMA RunListSizesStep ==
  ASSUME IInv, RunListSizes PROVE IInv'
<1> DEFINE t == Head(queue)
<1>1. /\ queue \in Seq(Task) /\ mailbox \in Seq(Result) /\ g_seq \in Nat
      /\ Numbers(queue, mailbox, g_seq) /\ Departures(mailbox)
  BY DEF IInv, Numbers, TypeOK
<1>2. PICK k \in 0..Len(t.rows) :
        /\ t.owner = latest => k = Len(t.rows)
        /\ mailbox' = Append(mailbox, [kind |-> "sizes", seq |-> t.seq, owner |-> t.owner,
                               sizes |-> [i \in 1..k |-> <<t.path, t.rows[i]>>]])
  BY DEF RunListSizes
<1> DEFINE sz == [i \in 1..k |-> <<t.path, t.rows[i]>>]
           y == [kind |-> "sizes", seq |-> t.seq, owner |-> t.owner, sizes |-> sz]
<1>3. queue # <<>> /\ t.kind = "sizes" /\ queue' = Tail(queue) /\ UNCHANGED front
      /\ UNCHANGED <<encoding, gone, latest, g_seq>>
  BY DEF RunListSizes, front
<1>4. /\ t \in Task /\ t \in Elems(queue) /\ Elems(queue) = Elems(Tail(queue)) \cup {t}
  BY <1>1, <1>3, TailFacts
<1>5. /\ t.seq \in Positive /\ t.owner \in Positive /\ t.path \in Paths /\ Numbered(t)
      /\ t.rows \in Seq(Rows)
  BY <1>3, <1>4, TaskFacts DEF Numbered
<1>6. /\ sz \in Seq(Paths \X Rows) /\ Len(sz) = k
      /\ \A i \in 1..k : sz[i] = <<t.path, t.rows[i]>>
  <2>1. k \in Nat /\ \A i \in 1..k : i \in 1..Len(t.rows)
    BY <1>2, <1>5
  <2>2. \A i \in 1..k : <<t.path, t.rows[i]>> \in Paths \X Rows
    BY <1>5, <2>1
  <2>3. sz \in [1..k -> Paths \X Rows]
    BY <2>2
  <2> QED BY <2>1, <2>3
<1>7. y \in Result
  BY <1>5, <1>6 DEF Result
<1>8. y.kind = "sizes" /\ y.seq = t.seq /\ y.owner = t.owner /\ y.sizes = sz
  OBVIOUS
<1>9. t.owner = latest => k = Len(t.rows)
  BY <1>2
<1> HIDE DEF y, t, sz
<1>10. mailbox' = Append(mailbox, y)
  BY <1>2 DEF y, t, sz
<1>11. Numbers(queue', mailbox', g_seq')
  <2>1. Numbers(Tail(queue), Append(mailbox, y), g_seq)
    BY <1>1, <1>3, <1>5, <1>7, <1>8, AnswerNumbers DEF t
  <2> QED BY <1>3, <1>10, <2>1
<1>12. Departures(mailbox')
  BY <1>1, <1>7, <1>8, <1>10, AnswerDepartures
<1>13. Elems(mailbox') = Elems(mailbox) \cup {y}
  BY <1>1, <1>7, <1>10, AppendFacts
<1>14. TaskOK(t) /\ latest = g_seq_list
  BY <1>4 DEF IInv, ViewInv
<1>15. ResultOK(y)
  <2>1. y.owner = g_seq_list <=> y.seq = ask.seq
    BY <1>3, <1>8, <1>14 DEF TaskOK
  <2>2. ASSUME y.seq = ask.seq
        PROVE  /\ Len(y.sizes) = Len(ask.rows)
               /\ g_view_seq # 0 =>
                    \A i \in 1..Len(ask.rows) : y.sizes[i] = <<g_path, ask.rows[i]>>
    <3>1. t.rows = ask.rows /\ (g_view_seq # 0 => t.path = g_path) /\ k = Len(t.rows)
      BY <1>3, <1>8, <1>9, <1>14, <2>1, <2>2 DEF TaskOK
    <3> QED BY <1>6, <1>8, <3>1
  <2> QED BY <1>8, <2>1, <2>2 DEF ResultOK, Awaited
<1>16. (\A x : TaskOK(x) => TaskOK(x)') /\ (\A x : ResultOK(x) => ResultOK(x)')
  BY <1>3, FrontSame
<1>17. \A x \in Elems(queue') : TaskOK(x)'
  BY <1>3, <1>4, <1>16 DEF IInv
<1>18. \A x \in Elems(mailbox') : ResultOK(x)'
  BY <1>13, <1>15, <1>16 DEF IInv
<1>19. AskInv'
  <2>1. ask' = ask
    BY <1>3 DEF front
  <2>2. ASSUME ask.seq # 0
        PROVE  \E x \in Elems(queue') \cup Elems(mailbox') : x.kind = "sizes" /\ x.seq = ask.seq
    <3>1. PICK x \in Elems(queue) \cup Elems(mailbox) : x.kind = "sizes" /\ x.seq = ask.seq
      BY <2>2 DEF IInv, AskInv
    <3>2. CASE x = t
      BY <1>8, <1>13, <3>1, <3>2
    <3>3. CASE x # t
      BY <1>3, <1>4, <1>13, <3>1, <3>3
    <3> QED BY <3>2, <3>3
  <2> QED BY <2>1, <2>2 DEF IInv, AskInv
<1>20. TypeOK' /\ ViewInv'
  BY <1>3, FrontType DEF IInv, TypeOK
<1> QED BY <1>11, <1>12, <1>17, <1>18, <1>19, <1>20 DEF IInv

LEMMA RunUnmountStep ==
  ASSUME IInv, RunUnmount PROVE IInv'
<1> DEFINE t == Head(queue)
<1>1. /\ queue \in Seq(Task) /\ mailbox \in Seq(Result) /\ g_seq \in Nat
      /\ Numbers(queue, mailbox, g_seq) /\ Departures(mailbox) /\ gone \subseteq Removable
  BY DEF IInv, Numbers, TypeOK
<1>2. queue # <<>> /\ t.kind = "unmount" /\ queue' = Tail(queue) /\ UNCHANGED front
      /\ UNCHANGED <<encoding, latest, g_seq>>
  BY DEF RunUnmount, front
<1>3. \/ gone' = gone \cup {t.path} /\ mailbox' = Append(mailbox, [kind |-> "unmount", path |-> t.path])
      \/ gone' = gone /\ mailbox' = mailbox
  BY DEF RunUnmount
<1>4. /\ t \in Task /\ t \in Elems(queue) /\ Elems(queue) = Elems(Tail(queue)) \cup {t}
  BY <1>1, <1>2, TailFacts
<1>5. t.path \in Removable
  BY <1>2, <1>4, TaskFacts
<1>6. PICK y \in Result : /\ y.kind = "unmount" /\ y.path = t.path
                         /\ y = [kind |-> "unmount", path |-> t.path]
  BY <1>5 DEF Result
<1> HIDE DEF t
<1>7. gone \subseteq gone' /\ gone' \subseteq Removable
  BY <1>1, <1>3, <1>5
<1>8. Numbers(queue', mailbox', g_seq') /\ Departures(mailbox')
  <2>1. CASE mailbox' = mailbox
    BY <1>1, <1>2, <2>1, DoneNumbers
  <2>2. CASE mailbox' = Append(mailbox, y)
    <3>1. Numbers(Tail(queue), Append(mailbox, y), g_seq)
      BY <1>1, <1>2, <1>6, AnswerNumbers DEF Numbered
    <3> QED BY <1>1, <1>2, <1>6, <2>2, <3>1, AnswerDepartures
  <2> QED BY <1>3, <1>6, <2>1, <2>2
<1>9. \/ mailbox' = mailbox
      \/ Elems(mailbox') = Elems(mailbox) \cup {y} /\ y.path \in gone'
  <2>1. Elems(Append(mailbox, y)) = Elems(mailbox) \cup {y}
    BY <1>1, <1>6, AppendFacts
  <2> QED BY <1>3, <1>6, <2>1
<1>10. (\A x : TaskOK(x) => TaskOK(x)') /\ (\A x : ResultOK(x) => ResultOK(x)')
  BY <1>2, <1>7, FrontSame
<1>11. y.path \in gone' => ResultOK(y)'
  BY <1>6 DEF ResultOK, Awaited
<1>12. \A x \in Elems(queue') : TaskOK(x)'
  BY <1>2, <1>4, <1>10 DEF IInv
<1>13. \A x \in Elems(mailbox') : ResultOK(x)'
  BY <1>9, <1>10, <1>11 DEF IInv
<1>14. AskInv'
  <2>1. ask' = ask
    BY <1>2 DEF front
  <2>2. ASSUME ask.seq # 0
        PROVE  \E x \in Elems(queue') \cup Elems(mailbox') : x.kind = "sizes" /\ x.seq = ask.seq
    <3>1. PICK x \in Elems(queue) \cup Elems(mailbox) : x.kind = "sizes" /\ x.seq = ask.seq
      BY <2>2 DEF IInv, AskInv
    <3>2. x # t
      BY <1>2, <3>1 DEF t
    <3> QED BY <1>2, <1>4, <1>9, <3>1, <3>2
  <2> QED BY <2>1, <2>2 DEF IInv, AskInv
<1>15. TypeOK' /\ ViewInv'
  BY <1>2, <1>7, FrontType DEF IInv, TypeOK
<1> QED BY <1>8, <1>12, <1>13, <1>14, <1>15 DEF IInv

-----------------------------------------------------------------------------
(* Navigation.                                                             *)

\* The answers under way: no departed device is listed, and a reported
\* unmounting took place.
Current ==
  \A m \in Elems(mailbox) :
    /\ m.kind = "list" /\ m.ok => RootOf[m.path] \notin departed
    /\ m.kind = "unmount" => m.path \in gone

\* navigate() makes everything under way out of date: nothing has the number of
\* the new listing.
LEMMA NavigateOK ==
  ASSUME IInv, NEW path \in Paths, Navigate(path), Numbers(queue, mailbox', g_seq),
         g_view_seq' \in {g_view_seq, 0}, Current',
         g_hist_seq' = g_seq + 1 => g_hist_pos' > 0 /\ g_hist'[g_hist_pos'] = path
  PROVE  /\ Numbers(queue, mailbox, g_seq)'
         /\ \A t \in Elems(queue)' : TaskOK(t)'
         /\ \A m \in Elems(mailbox)' : ResultOK(m)'
         /\ AskInv' /\ latest' = g_seq_list' /\ g_view_seq' # g_seq_list'
         /\ g_seq' = g_seq + 1 /\ g_seq \in Nat /\ g_seq_list' = g_seq + 1
         /\ ask' \in [seq : 0..g_seq', rows : Seq(Rows), pending : SUBSET Rows,
                      first : Rows, last : Rows \cup {-1}]
         /\ Len(ask'.rows) <= Batch
<1>1. /\ g_seq \in Nat /\ g_view_seq \in 0..g_seq /\ queue \in Seq(Task)
      /\ mailbox' \in Seq(Result) /\ Batch \in Nat
      /\ ask \in [seq : 0..g_seq, rows : Seq(Rows), pending : SUBSET Rows,
                  first : Rows, last : Rows \cup {-1}]
  BY NavViewAssumption DEF IInv, TypeOK, Numbers
<1>2. /\ g_seq' = g_seq + 1 /\ latest' = g_seq + 1 /\ g_seq_list' = g_seq + 1
      /\ queue' = Append(queue, [kind |-> "list", seq |-> g_seq + 1, path |-> path])
      /\ ask' = [ask EXCEPT !.seq = 0, !.pending = {}, !.rows = <<>>, !.last = -1]
  BY DEF Navigate
<1>3. /\ ask' \in [seq : 0..g_seq', rows : Seq(Rows), pending : SUBSET Rows,
                  first : Rows, last : Rows \cup {-1}]
      /\ ask'.seq = 0 /\ ask'.rows = <<>> /\ ask'.pending = {}
  <2>1. ask' = [seq |-> 0, rows |-> <<>>, pending |-> {}, first |-> ask.first, last |-> -1]
    BY <1>1, <1>2
  <2>2. ask.first \in Rows /\ 0 \in 0..g_seq' /\ <<>> \in Seq(Rows)
    BY <1>1, <1>2
  <2> QED BY <2>1, <2>2
<1>4. PICK n : n = g_seq + 1
  OBVIOUS
<1>5. PICK x \in Task : x.kind = "list" /\ x.seq = n /\ x.path = path
                        /\ queue' = Append(queue, x)
  <2>1. [kind |-> "list", seq |-> n, path |-> path] \in Task
    BY <1>1, <1>4 DEF Task, Positive
  <2> QED BY <1>2, <1>4, <2>1
<1>6. Numbers(queue', mailbox', g_seq')
  <2>1. Numbers(Append(queue, x), mailbox', g_seq + 1)
    BY <1>1, <1>4, <1>5, PostNumbers
  <2> QED BY <1>2, <1>5, <2>1
<1>7. Elems(queue') = Elems(queue) \cup {x}
  BY <1>1, <1>5, AppendFacts
<1>8. \A y \in Elems(queue) \cup Elems(mailbox') :
        /\ Numbered(y) => y.seq # n /\ y.seq # 0
        /\ y.kind = "sizes" => y.owner # n
  <2>1. \A y \in Elems(queue) : y \in Task
    BY <1>1 DEF Elems
  <2>2. \A y \in Elems(mailbox') : y \in Result
    BY <1>1 DEF Elems
  <2>3. \A y \in Elems(queue) \cup Elems(mailbox') :
          /\ Numbered(y) => y.seq \in Positive /\ y.seq <= g_seq
          /\ y.kind = "sizes" => y.owner \in Positive /\ y.owner <= g_seq
    BY <2>1, <2>2, TaskFacts, ResultFacts DEF Numbers
  <2> QED BY <1>1, <1>4, <2>3 DEF Positive
<1>9. g_view_seq' # g_seq_list'
  BY <1>1, <1>2
<1>10. ASSUME NEW y \in Elems(queue) PROVE TaskOK(y)'
  BY <1>2, <1>3, <1>4, <1>8 DEF TaskOK, Awaited, Numbered
<1>11. TaskOK(x)'
  BY <1>2, <1>3, <1>4, <1>5, <1>9 DEF TaskOK, Awaited
<1>12. ASSUME NEW m \in Elems(mailbox') PROVE ResultOK(m)'
  BY <1>2, <1>3, <1>4, <1>8 DEF ResultOK, Awaited, Numbered, Current
<1>13. AskInv'
  BY <1>3 DEF AskInv
<1>14. Len(ask'.rows) <= Batch
  BY <1>1, <1>3
<1> QED BY <1>1, <1>2, <1>3, <1>6, <1>7, <1>9, <1>10, <1>11, <1>12, <1>13, <1>14

\* What is there of the answers.
LEMMA CurrentNow ==
  ASSUME IInv PROVE Current
BY DEF IInv, Current, ResultOK

\* A navigation of the user that leaves the view alone.
LEMMA TurnStep ==
  ASSUME IInv, NEW path \in Paths, Navigate(path),
         UNCHANGED <<mailbox, encoding, gone, view, g_hist, changes, departed, survivor>>,
         g_hist_pos' \in 0..Len(g_hist), g_hist_seq' \in 0..g_seq + 1,
         g_hist_seq' = g_seq + 1 => g_hist_pos' > 0 /\ g_hist'[g_hist_pos'] = path
  PROVE  IInv'
<1>1. /\ UNCHANGED <<mailbox, encoding, gone, g_path, g_view_seq, g_entries, view_enc,
                     visible, g_hist, departed, survivor>>
  BY DEF view
<1>2. Numbers(queue, mailbox', g_seq) /\ Current' /\ Departures(mailbox')
  BY <1>1, CurrentNow DEF IInv, Current
<1>3. /\ Numbers(queue, mailbox, g_seq)'
      /\ \A t \in Elems(queue)' : TaskOK(t)'
      /\ \A m \in Elems(mailbox)' : ResultOK(m)'
      /\ AskInv' /\ latest' = g_seq_list' /\ g_view_seq' # g_seq_list'
      /\ g_seq' = g_seq + 1 /\ g_seq \in Nat /\ g_seq_list' = g_seq + 1
      /\ ask' \in [seq : 0..g_seq', rows : Seq(Rows), pending : SUBSET Rows,
                   first : Rows, last : Rows \cup {-1}]
      /\ Len(ask'.rows) <= Batch
  BY <1>1, <1>2, NavigateOK
<1>4. 0..g_seq \subseteq 0..g_seq' /\ g_seq + 1 \in 0..g_seq' /\ g_seq' \in Nat
  BY <1>3
<1>5. TypeOK'
  BY <1>1, <1>3, <1>4 DEF IInv, TypeOK
<1>6. ViewInv'
  BY <1>1, <1>3 DEF IInv, ViewInv, CursorOnView, SizesRight, DepartedNotShown,
     DecodedUnlessSurvived
<1> QED BY <1>2, <1>3, <1>5, <1>6 DEF IInv

\* The address bar, the tree, Refresh, Up, Back and Forward.
LEMMA UserNavigates ==
  ASSUME IInv, \/ \E p \in Paths : GoTo(p)
               \/ DoRefresh \/ GoUp \/ GoBack \/ GoForward
  PROVE  IInv'
<1>1. /\ g_path \in Paths \cup {NoPath} /\ g_hist \in Seq(Paths)
      /\ g_hist_pos \in 0..Len(g_hist) /\ g_hist_seq \in 0..g_seq /\ g_seq \in Nat
      /\ g_hist_seq \in 0..g_seq + 1 /\ g_hist_seq # g_seq + 1
  BY DEF IInv, TypeOK
<1>2. CASE \/ \E p \in Paths : GoTo(p)
           \/ DoRefresh \/ GoUp
  <2>1. PICK p \in Paths : Navigate(p)
    BY <1>1, <1>2, NavViewAssumption DEF GoTo, DoRefresh, GoUp
  <2>2. UNCHANGED <<mailbox, encoding, gone, view, hist, changes, departed, survivor>>
    BY <1>2 DEF GoTo, DoRefresh, GoUp
  <2> QED BY <1>1, <2>1, <2>2, TurnStep DEF hist
<1>3. ASSUME NEW pos \in 1..Len(g_hist), Move(pos) PROVE IInv'
  <2>1. g_hist[pos] \in Paths /\ pos > 0 /\ pos \in 0..Len(g_hist)
    BY <1>1, <1>3
  <2>2. /\ Navigate(g_hist[pos]) /\ g_hist_pos' = pos /\ g_hist_seq' = g_seq + 1
        /\ UNCHANGED <<mailbox, encoding, gone, view, g_hist, changes, departed, survivor>>
    BY <1>3 DEF Move
  <2>3. g_hist_seq' \in 0..g_seq + 1
    BY <1>1, <2>2
  <2>4. PICK p \in Paths : p = g_hist[pos]
    BY <2>1
  <2>5. Navigate(p) /\ g_hist'[g_hist_pos'] = p /\ g_hist_pos' > 0
    BY <2>1, <2>2, <2>4
  <2> QED BY <2>1, <2>2, <2>3, <2>5, TurnStep
<1>4. CASE GoBack
  <2>1. g_hist_pos - 1 \in 1..Len(g_hist) /\ Move(g_hist_pos - 1)
    BY <1>1, <1>4 DEF GoBack
  <2>2. PICK pos : pos = g_hist_pos - 1
    OBVIOUS
  <2> QED BY <1>3, <2>1, <2>2
<1>5. CASE GoForward
  <2>1. g_hist_pos + 1 \in 1..Len(g_hist) /\ Move(g_hist_pos + 1)
    BY <1>1, <1>5 DEF GoForward
  <2>2. PICK pos : pos = g_hist_pos + 1
    OBVIOUS
  <2> QED BY <1>3, <2>1, <2>2
<1> QED BY <1>2, <1>4, <1>5

-----------------------------------------------------------------------------
(* Views that go.                                                          *)

\* While nothing is shown, what is under way only has to be in order.
LEMMA HiddenOK ==
  ASSUME IInv, UNCHANGED <<g_seq, latest, g_seq_list, queue, ask>>, g_view_seq' = 0,
         Numbers(queue, mailbox', g_seq), Current', Elems(mailbox') \subseteq Elems(mailbox),
         \A x \in Elems(mailbox) : x.kind = "sizes" => x \in Elems(mailbox'),
         UNCHANGED hist \/ g_hist_seq' = 0,
         UNCHANGED <<encoding, survivor>> \/ survivor' = g_seq_list
  PROVE  /\ Numbers(queue, mailbox, g_seq)'
         /\ \A t \in Elems(queue)' : TaskOK(t)'
         /\ \A m \in Elems(mailbox)' : ResultOK(m)'
         /\ AskInv' /\ latest' = g_seq_list'
<1>1. Numbers(queue', mailbox', g_seq') /\ latest' = g_seq_list'
  BY DEF IInv, ViewInv
<1>2. \A y \in Elems(queue) \cup Elems(mailbox) : Numbered(y) => y.seq # 0
  <2>1. \A y \in Elems(queue) : y \in Task
    BY DEF IInv, Numbers, Elems
  <2>2. \A y \in Elems(mailbox) : y \in Result
    BY DEF IInv, Numbers, Elems
  <2> QED BY <2>1, <2>2, TaskFacts, ResultFacts DEF Positive
<1>3. ASSUME NEW x \in Elems(queue) \cup Elems(mailbox), Awaited(x) PROVE Awaited(x)'
  <2>1. Numbered(x) => x.seq # 0
    BY <1>2
  <2>2. x.kind = "list" => Numbered(x)
    BY DEF Numbered
  <2> QED BY <1>3, <2>1, <2>2 DEF Awaited, hist
<1>4. ASSUME NEW t \in Elems(queue) PROVE TaskOK(t)'
  <2>1. TaskOK(t)
    BY DEF IInv
  <2> QED BY <1>3, <2>1 DEF TaskOK
<1>5. ASSUME NEW m \in Elems(mailbox') PROVE ResultOK(m)'
  <2>1. ResultOK(m) /\ m \in Elems(mailbox)
    BY DEF IInv
  <2> QED BY <1>3, <2>1 DEF ResultOK, Current
<1>6. AskInv'
  BY DEF IInv, AskInv
<1> QED BY <1>1, <1>4, <1>5, <1>6

\* An empty view is as it should be.
LEMMA HiddenView ==
  ASSUME IInv, g_view_seq' = 0, latest' = g_seq_list',
         \/ g_entries' = NoSizes
         \/ UNCHANGED <<g_path, g_entries>>
  PROVE  ViewInv'
<1>1. SizesRight'
  BY DEF IInv, ViewInv, SizesRight, NoSizes
<1> QED BY <1>1 DEF ViewInv, CursorOnView, DepartedNotShown, DecodedUnlessSurvived

LEMMA SetFsEncodingStep ==
  ASSUME IInv, SetFsEncoding PROVE IInv'
<1> DEFINE root == IF g_path = NoPath THEN NoPath ELSE RootOf[g_path]
<1>1. /\ encoding' \in Encodings /\ g_hist' = <<>> /\ g_hist_pos' = 0 /\ g_hist_seq' = 0
      /\ survivor' = (IF g_path = NoPath THEN g_seq_list ELSE survivor)
      /\ g_path' = root /\ g_view_seq' = 0 /\ g_entries' = NoSizes /\ visible' = {}
      /\ view_enc' = view_enc /\ UNCHANGED <<mailbox, gone, departed>> /\ Refresh(root)
  BY DEF SetFsEncoding, ListClear
<1>2. /\ g_path \in Paths \cup {NoPath} /\ NoPath \notin Paths /\ RootOf \in [Paths -> Paths]
      /\ HistMax \in Nat /\ g_seq \in Nat /\ survivor \in 0..g_seq /\ g_seq_list \in 0..g_seq
  BY NavViewAssumption DEF IInv, TypeOK
<1>3. root \in Paths \cup {NoPath}
  BY <1>2
<1>4. Numbers(queue, mailbox', g_seq) /\ Departures(mailbox') /\ Current'
  BY <1>1, CurrentNow DEF IInv, Current
<1>5. /\ g_entries' \in [Rows -> {Unknown} \cup (Paths \X Rows)] /\ visible' \subseteq Rows
      /\ g_hist' \in Seq(Paths) /\ Len(g_hist') = 0
  BY <1>1 DEF NoSizes
<1>6. CASE g_path = NoPath
  <2>1. UNCHANGED <<g_seq, latest, g_seq_list, queue, ask>> /\ survivor' = g_seq_list
    BY <1>1, <1>6 DEF Refresh
  <2>2. /\ Numbers(queue, mailbox, g_seq)'
        /\ \A t \in Elems(queue)' : TaskOK(t)'
        /\ \A m \in Elems(mailbox)' : ResultOK(m)'
        /\ AskInv' /\ latest' = g_seq_list'
    BY <1>1, <1>4, <2>1, HiddenOK
  <2>3. ViewInv'
    BY <1>1, <2>2, HiddenView
  <2>4. TypeOK'
    BY <1>1, <1>2, <1>3, <1>5, <2>1 DEF IInv, TypeOK
  <2> QED BY <1>4, <2>2, <2>3, <2>4 DEF IInv
<1>7. CASE g_path # NoPath
  <2>1. root \in Paths /\ Navigate(root) /\ survivor' = survivor
    BY <1>1, <1>2, <1>7 DEF Refresh
  <2>2. PICK p \in Paths : p = root
    BY <2>1
  <2>3. Navigate(p)
    BY <2>1, <2>2
  <2>4. g_hist_seq' # g_seq + 1
    BY <1>1, <1>2
  <2>5. /\ Numbers(queue, mailbox, g_seq)'
        /\ \A t \in Elems(queue)' : TaskOK(t)'
        /\ \A m \in Elems(mailbox)' : ResultOK(m)'
        /\ AskInv' /\ latest' = g_seq_list' /\ g_view_seq' # g_seq_list'
        /\ g_seq' = g_seq + 1 /\ g_seq \in Nat /\ g_seq_list' = g_seq + 1
        /\ ask' \in [seq : 0..g_seq', rows : Seq(Rows), pending : SUBSET Rows,
                     first : Rows, last : Rows \cup {-1}]
        /\ Len(ask'.rows) <= Batch
    BY <1>1, <1>4, <2>3, <2>4, NavigateOK
  <2>6. ViewInv'
    BY <1>1, <2>5, HiddenView
  <2>7. 0..g_seq \subseteq 0..g_seq' /\ g_seq + 1 \in 0..g_seq' /\ g_seq' \in Nat /\ 0 \in 0..g_seq'
    BY <2>5
  <2>8. TypeOK'
    BY <1>1, <1>2, <1>3, <1>5, <2>1, <2>5, <2>7 DEF IInv, TypeOK
  <2> QED BY <1>4, <2>5, <2>6, <2>8 DEF IInv
<1> QED BY <1>6, <1>7

LEMMA UnmountStep ==
  ASSUME IInv, NEW dev \in Removable, Unmount(dev) PROVE IInv'
<1>1. /\ g_seq' = g_seq + 1 /\ UNCHANGED front
      /\ queue' = Append(queue, [kind |-> "unmount", path |-> dev])
      /\ UNCHANGED <<latest, mailbox, encoding, gone>>
  BY DEF Unmount, front
<1>2. g_seq \in Nat /\ queue \in Seq(Task) /\ Numbers(queue, mailbox, g_seq)
  BY DEF IInv, TypeOK, Numbers
<1>3. PICK x \in Task : x.kind = "unmount" /\ queue' = Append(queue, x)
  <2>1. [kind |-> "unmount", path |-> dev] \in Task
    BY DEF Task
  <2> QED BY <1>1, <2>1
<1>4. Numbers(queue', mailbox', g_seq')
  <2>1. Numbers(Append(queue, x), mailbox, g_seq + 1)
    BY <1>2, <1>3, PostNumbers DEF Numbered
  <2> QED BY <1>1, <1>3, <2>1
<1>5. Elems(queue') = Elems(queue) \cup {x}
  BY <1>2, <1>3, AppendFacts
<1>6. (\A y : TaskOK(y) => TaskOK(y)') /\ (\A y : ResultOK(y) => ResultOK(y)')
  BY <1>1, FrontSame
<1>7. TaskOK(x)'
  BY <1>3 DEF TaskOK, Awaited
<1>8. (\A t \in Elems(queue') : TaskOK(t)') /\ (\A m \in Elems(mailbox') : ResultOK(m)')
  BY <1>1, <1>5, <1>6, <1>7 DEF IInv
<1>9. AskInv'
  BY <1>1, <1>5 DEF IInv, AskInv, front
<1>10. 0..g_seq \subseteq 0..g_seq' /\ g_seq' \in Nat
  BY <1>1, <1>2
<1>11. TypeOK'
  <2>1. /\ ask' \in [seq : 0..g_seq', rows : Seq(Rows), pending : SUBSET Rows,
                     first : Rows, last : Rows \cup {-1}]
        /\ Len(ask'.rows) <= Batch
    <3>1. ask' = ask
      BY <1>1 DEF front
    <3> QED BY <1>10, <3>1 DEF IInv, TypeOK
  <2> QED BY <1>1, <1>10, <2>1 DEF IInv, TypeOK, front, view, hist
<1>12. ViewInv'
  BY <1>1 DEF IInv, ViewInv, front, view, hist, CursorOnView, SizesRight,
     DepartedNotShown, DecodedUnlessSurvived
<1> QED BY <1>1, <1>4, <1>8, <1>9, <1>11, <1>12 DEF IInv

-----------------------------------------------------------------------------
(* Results.                                                                *)

\* A message is taken out of the mailbox.
LEMMA ReceivedFacts ==
  ASSUME IInv, mailbox # <<>>, mailbox' = Tail(mailbox)
  PROVE  /\ Numbers(queue, mailbox', g_seq) /\ Departures(mailbox')
         /\ Message \in Result /\ Message \in Elems(mailbox) /\ ResultOK(Message)
         /\ Elems(mailbox) = Elems(mailbox') \cup {Message}
         /\ \A x \in Elems(queue) \cup Elems(mailbox') :
              Numbered(x) /\ Numbered(Message) => x.seq # Message.seq
         /\ Message.kind = "unmount" =>
              \A x \in Elems(mailbox') :
                x.kind = "list" /\ x.ok => RootOf[x.path] # Message.path
<1>1. mailbox \in Seq(Result) /\ Numbers(queue, mailbox, g_seq) /\ Departures(mailbox)
  BY DEF IInv, Numbers
<1>2. /\ Message \in Result /\ Message \in Elems(mailbox)
      /\ Elems(mailbox) = Elems(mailbox') \cup {Message}
  BY <1>1, TailFacts DEF Message
<1>3. ResultOK(Message)
  BY <1>2 DEF IInv
<1>4. /\ Numbers(queue, mailbox', g_seq)
      /\ \A x \in Elems(queue) \cup Elems(mailbox') :
           Numbered(x) /\ Numbered(Message) => x.seq # Message.seq
  BY <1>1, HandleNumbers DEF Message
<1>5. /\ Departures(mailbox')
      /\ Message.kind = "unmount" =>
           \A x \in Elems(mailbox') :
             x.kind = "list" /\ x.ok => RootOf[x.path] # Message.path
  BY <1>1, HandleDepartures DEF Message
<1> QED BY <1>2, <1>3, <1>4, <1>5

LEMMA DropResultStep ==
  ASSUME IInv, NEW kind \in {"list", "sizes"}, DropResult(kind) PROVE IInv'
<1>1. /\ mailbox # <<>> /\ mailbox' = Tail(mailbox) /\ UNCHANGED front
      /\ UNCHANGED <<encoding, gone, g_seq, queue, latest>> /\ OutOfDate
      /\ Message.kind = kind
  BY DEF DropResult, Received, front
<1>2. /\ Numbers(queue, mailbox', g_seq) /\ Departures(mailbox')
      /\ Elems(mailbox) = Elems(mailbox') \cup {Message} /\ ResultOK(Message)
  BY <1>1, ReceivedFacts
<1>3. (\A y : TaskOK(y) => TaskOK(y)') /\ (\A y : ResultOK(y) => ResultOK(y)')
  BY <1>1, FrontSame
<1>4. (\A t \in Elems(queue') : TaskOK(t)') /\ (\A m \in Elems(mailbox') : ResultOK(m)')
  BY <1>1, <1>2, <1>3 DEF IInv
<1>5. Message.kind = "sizes" => Message.seq # ask.seq
  BY <1>1, <1>2 DEF OutOfDate, ResultOK
<1>6. AskInv'
  <2>1. ask' = ask
    BY <1>1 DEF front
  <2>2. ASSUME ask.seq # 0
        PROVE  \E x \in Elems(queue') \cup Elems(mailbox') : x.kind = "sizes" /\ x.seq = ask.seq
    <3>1. PICK x \in Elems(queue) \cup Elems(mailbox) : x.kind = "sizes" /\ x.seq = ask.seq
      BY <2>2 DEF IInv, AskInv
    <3> QED BY <1>1, <1>2, <1>5, <3>1
  <2> QED BY <2>1, <2>2 DEF IInv, AskInv
<1>7. TypeOK' /\ ViewInv'
  BY <1>1, FrontType DEF IInv, TypeOK
<1> QED BY <1>1, <1>2, <1>4, <1>6, <1>7 DEF IInv

LEMMA ListFailedStep ==
  ASSUME IInv, ListFailed PROVE IInv'
<1>1. /\ mailbox # <<>> /\ mailbox' = Tail(mailbox) /\ Message.kind = "list"
      /\ UNCHANGED <<encoding, gone, survivor, departed>>
      /\ UNCHANGED <<g_seq, latest, g_seq_list, queue, ask>> /\ UNCHANGED hist
      /\ g_path' = NoPath /\ g_view_seq' = 0 /\ g_entries' = NoSizes /\ visible' = {}
      /\ view_enc' = view_enc
  BY DEF ListFailed, Received, ListClear
<1>2. /\ Numbers(queue, mailbox', g_seq) /\ Departures(mailbox')
      /\ Elems(mailbox) = Elems(mailbox') \cup {Message}
  BY <1>1, ReceivedFacts
<1>3. Current'
  BY <1>1, <1>2, CurrentNow DEF Current
<1>4. /\ Numbers(queue, mailbox, g_seq)'
      /\ \A t \in Elems(queue)' : TaskOK(t)'
      /\ \A m \in Elems(mailbox)' : ResultOK(m)'
      /\ AskInv' /\ latest' = g_seq_list'
  <2>1. \A x \in Elems(mailbox) : x.kind = "sizes" => x \in Elems(mailbox')
    BY <1>1, <1>2
  <2>2. Elems(mailbox') \subseteq Elems(mailbox)
    BY <1>2
  <2> QED BY <1>1, <1>2, <1>3, <2>1, <2>2, HiddenOK
<1>5. ViewInv'
  BY <1>1, <1>4, HiddenView
<1>6. TypeOK'
  <2>1. g_entries' \in [Rows -> {Unknown} \cup (Paths \X Rows)]
    BY <1>1 DEF NoSizes
  <2>2. g_seq \in Nat
    BY DEF IInv, TypeOK
  <2> QED BY <1>1, <2>1, <2>2 DEF IInv, TypeOK, hist
<1> QED BY <1>2, <1>4, <1>5, <1>6 DEF IInv

\* An unmounting is reported: the view of the device goes, any other is listed
\* anew.
LEMMA TreeOnUnmountedStep ==
  ASSUME IInv, TreeOnUnmounted PROVE IInv'
<1>1. /\ mailbox # <<>> /\ mailbox' = Tail(mailbox) /\ Message.kind = "unmount"
      /\ UNCHANGED <<encoding, gone, survivor>> /\ UNCHANGED hist
      /\ departed' = departed \cup {Message.path}
      /\ IF g_path # NoPath /\ RootOf[g_path] = Message.path
         THEN ListClear(NoPath) /\ Refresh(NoPath)
         ELSE UNCHANGED view /\ Refresh(g_path)
  BY DEF TreeOnUnmounted, Received
<1>2. /\ Numbers(queue, mailbox', g_seq) /\ Departures(mailbox')
      /\ Elems(mailbox) = Elems(mailbox') \cup {Message}
      /\ \A x \in Elems(mailbox') :
           x.kind = "list" /\ x.ok => RootOf[x.path] # Message.path
      /\ ResultOK(Message)
  BY <1>1, ReceivedFacts
<1>3. Message.path \in gone
  BY <1>1, <1>2 DEF ResultOK
<1>4. Current'
  <2>1. Current
    BY CurrentNow
  <2>2. ASSUME NEW x \in Elems(mailbox')
        PROVE  /\ x.kind = "list" /\ x.ok => RootOf[x.path] \notin departed'
               /\ x.kind = "unmount" => x.path \in gone'
    BY <1>1, <1>2, <2>1 DEF Current
  <2> QED BY <2>2 DEF Current
<1>5. /\ g_path \in Paths \cup {NoPath} /\ NoPath \notin Paths /\ g_seq \in Nat
      /\ departed' \subseteq gone'
  BY <1>1, <1>3, NavViewAssumption DEF IInv, TypeOK
<1>6. CASE g_path = NoPath \/ RootOf[g_path] = Message.path
  <2>1. UNCHANGED <<g_seq, latest, g_seq_list, queue, ask>>
    BY <1>1, <1>6 DEF Refresh
  <2>2. /\ g_view_seq' = 0 /\ g_path' \in Paths \cup {NoPath} /\ view_enc' = view_enc
        /\ \/ g_entries' = NoSizes /\ visible' = {}
           \/ UNCHANGED <<g_path, g_entries, visible>>
    <3>1. CASE g_path = NoPath
      <4>1. UNCHANGED view
        BY <1>1, <3>1
      <4>2. g_view_seq = 0
        BY <1>5, <3>1 DEF IInv, ViewInv
      <4> QED BY <1>5, <4>1, <4>2 DEF view
    <3>2. CASE g_path # NoPath /\ RootOf[g_path] = Message.path
      BY <1>1, <3>2 DEF ListClear
    <3> QED BY <1>6, <3>1, <3>2
  <2>3. /\ Numbers(queue, mailbox, g_seq)'
        /\ \A t \in Elems(queue)' : TaskOK(t)'
        /\ \A m \in Elems(mailbox)' : ResultOK(m)'
        /\ AskInv' /\ latest' = g_seq_list'
    <3>1. \A x \in Elems(mailbox) : x.kind = "sizes" => x \in Elems(mailbox')
      BY <1>1, <1>2
    <3>2. Elems(mailbox') \subseteq Elems(mailbox)
      BY <1>2
    <3> QED BY <1>1, <1>2, <1>4, <2>1, <2>2, <3>1, <3>2, HiddenOK
  <2>4. ViewInv'
    BY <2>2, <2>3, HiddenView
  <2>5. TypeOK'
    <3>1. g_entries' \in [Rows -> {Unknown} \cup (Paths \X Rows)] /\ visible' \subseteq Rows
      BY <2>2 DEF NoSizes, IInv, TypeOK
    <3> QED BY <1>1, <1>5, <2>1, <2>2, <3>1 DEF IInv, TypeOK, hist
  <2> QED BY <1>2, <2>3, <2>4, <2>5 DEF IInv
<1>7. CASE g_path # NoPath /\ RootOf[g_path] # Message.path
  <2>1. UNCHANGED <<g_path, g_view_seq, g_entries, view_enc, visible>> /\ Navigate(g_path)
    BY <1>1, <1>7 DEF Refresh, view
  <2>2. PICK p \in Paths : p = g_path
    BY <1>5, <1>7
  <2>3. g_hist_seq' # g_seq + 1
    BY <1>1, <1>5 DEF IInv, TypeOK, hist
  <2>4. /\ Numbers(queue, mailbox, g_seq)'
        /\ \A t \in Elems(queue)' : TaskOK(t)'
        /\ \A m \in Elems(mailbox)' : ResultOK(m)'
        /\ AskInv' /\ latest' = g_seq_list' /\ g_view_seq' # g_seq_list'
        /\ g_seq' = g_seq + 1 /\ g_seq \in Nat /\ g_seq_list' = g_seq + 1
        /\ ask' \in [seq : 0..g_seq', rows : Seq(Rows), pending : SUBSET Rows,
                     first : Rows, last : Rows \cup {-1}]
        /\ Len(ask'.rows) <= Batch
    BY <1>1, <1>2, <1>4, <2>1, <2>2, <2>3, NavigateOK
  <2>5. ViewInv'
    BY <1>1, <1>7, <2>1, <2>4 DEF IInv, ViewInv, CursorOnView, SizesRight,
       DepartedNotShown, DecodedUnlessSurvived
  <2>6. 0..g_seq \subseteq 0..g_seq' /\ g_seq + 1 \in 0..g_seq' /\ g_seq' \in Nat
    BY <2>4
  <2>7. TypeOK'
    BY <1>1, <1>5, <2>1, <2>4, <2>6 DEF IInv, TypeOK, hist
  <2> QED BY <1>2, <2>4, <2>5, <2>7 DEF IInv
<1> QED BY <1>6, <1>7

-----------------------------------------------------------------------------
(* Batches of sizes.                                                       *)

\* Nothing of the newest listing is under way.
Quiet(tasks, answers) ==
  \A x \in Elems(tasks) \cup Elems(answers) :
    /\ x.kind = "list" => x.seq # g_seq_list
    /\ x.kind = "sizes" => x.owner # g_seq_list

AskTyped ==
  /\ ask \in [seq : 0..g_seq, rows : Seq(Rows), pending : SUBSET Rows,
              first : Rows, last : Rows \cup {-1}]
  /\ Len(ask.rows) <= Batch

\* No batch is posted.
LEMMA BatchNone ==
  ASSUME Numbers(queue, mailbox', g_seq), Quiet(queue, mailbox'), Current',
         UNCHANGED <<queue, g_seq, g_seq_list>>, g_seq \in Nat,
         ask' \in AskType, ask'.seq = 0, ask'.rows = <<>>, ask'.pending = {}
  PROVE  /\ Numbers(queue, mailbox, g_seq)'
         /\ \A t \in Elems(queue)' : TaskOK(t)'
         /\ \A m \in Elems(mailbox)' : ResultOK(m)'
         /\ AskInv' /\ AskTyped'
<1>1. \A y \in Elems(queue) \cup Elems(mailbox') : Numbered(y) => y.seq # 0
  <2>1. \A y \in Elems(queue) : y \in Task
    BY DEF Numbers, Elems
  <2>2. \A y \in Elems(mailbox') : y \in Result
    BY DEF Numbers, Elems
  <2> QED BY <2>1, <2>2, TaskFacts, ResultFacts DEF Positive
<1>2. ASSUME NEW t \in Elems(queue) PROVE TaskOK(t)'
  BY <1>1 DEF TaskOK, Awaited, Quiet, Numbered
<1>3. ASSUME NEW m \in Elems(mailbox') PROVE ResultOK(m)'
  BY <1>1 DEF ResultOK, Awaited, Quiet, Numbered, Current
<1>4. AskInv'
  BY DEF AskInv
<1>5. AskTyped'
  <2>1. Batch \in Nat
    BY NavViewAssumption
  <2>2. PICK a \in AskType : a = ask'
    OBVIOUS
  <2>3. a.seq = 0 /\ a.rows = <<>> /\ 0 \in 0..g_seq
    BY <2>2
  <2>4. a \in [seq : 0..g_seq, rows : Seq(Rows), pending : SUBSET Rows,
               first : Rows, last : Rows \cup {-1}]
    BY <2>3 DEF AskType
  <2>5. Len(a.rows) <= Batch
    BY <2>1, <2>3
  <2> QED BY <2>2, <2>4, <2>5 DEF AskTyped
<1> QED BY <1>2, <1>3, <1>4, <1>5

\* A batch is posted for the listing that is shown.
LEMMA BatchPosted ==
  ASSUME Numbers(queue, mailbox', g_seq), Quiet(queue, mailbox'), Current',
         g_seq \in Nat, g_seq_list' = g_seq_list, g_seq_list \in Positive,
         g_seq_list <= g_seq, g_seq' = g_seq + 1,
         NEW path \in Paths, NEW rows \in Seq(Rows), Len(rows) <= Batch,
         NEW first \in Rows, NEW last \in Rows,
         g_view_seq' # 0 => g_path' = path,
         queue' = Append(queue, [kind |-> "sizes", seq |-> g_seq + 1, owner |-> g_seq_list,
                                 path |-> path, rows |-> rows]),
         ask' = [seq |-> g_seq + 1, rows |-> rows, pending |-> Elems(rows),
                 first |-> first, last |-> last]
  PROVE  /\ Numbers(queue, mailbox, g_seq)'
         /\ \A t \in Elems(queue)' : TaskOK(t)'
         /\ \A m \in Elems(mailbox)' : ResultOK(m)'
         /\ AskInv' /\ AskTyped'
<1>1. PICK n : n = g_seq + 1
  OBVIOUS
<1>2. PICK o : o = g_seq_list
  OBVIOUS
<1>3. PICK x \in Task : /\ x.kind = "sizes" /\ x.seq = n /\ x.owner = o /\ x.path = path
                        /\ x.rows = rows /\ queue' = Append(queue, x)
  <2>1. [kind |-> "sizes", seq |-> n, owner |-> o, path |-> path, rows |-> rows] \in Task
    BY <1>1, <1>2 DEF Task, Positive
  <2> QED BY <1>1, <1>2, <2>1
<1>4. queue \in Seq(Task) /\ mailbox' \in Seq(Result)
  BY DEF Numbers
<1>5. Elems(queue') = Elems(queue) \cup {x}
  BY <1>3, <1>4, AppendFacts
<1>6. Numbers(queue', mailbox', g_seq')
  <2>1. o <= g_seq + 1
    BY <1>2 DEF Positive
  <2>2. Numbers(Append(queue, x), mailbox', g_seq + 1)
    BY <1>1, <1>3, <2>1, PostNumbers
  <2> QED BY <1>3, <2>2
<1>7. \A y \in Elems(queue) \cup Elems(mailbox') : Numbered(y) => y.seq # n
  <2>1. \A y \in Elems(queue) : y \in Task
    BY <1>4 DEF Elems
  <2>2. \A y \in Elems(mailbox') : y \in Result
    BY <1>4 DEF Elems
  <2>3. \A y \in Elems(queue) \cup Elems(mailbox') :
          Numbered(y) => y.seq \in Positive /\ y.seq <= g_seq
    BY <2>1, <2>2, TaskFacts, ResultFacts DEF Numbers
  <2> QED BY <1>1, <2>3 DEF Positive
<1>8. ask'.seq = n /\ ask'.rows = rows /\ ask'.pending = Elems(rows) /\ n # 0
  BY <1>1
<1>9. ASSUME NEW t \in Elems(queue) PROVE TaskOK(t)'
  BY <1>7, <1>8 DEF TaskOK, Awaited, Quiet, Numbered
<1>10. TaskOK(x)'
  BY <1>2, <1>3, <1>8 DEF TaskOK, Awaited
<1>11. ASSUME NEW m \in Elems(mailbox') PROVE ResultOK(m)'
  BY <1>7, <1>8 DEF ResultOK, Awaited, Quiet, Numbered, Current
<1>12. AskInv'
  BY <1>3, <1>5, <1>8 DEF AskInv
<1>13. AskTyped'
  <2>1. Elems(rows) \in SUBSET Rows
    BY DEF Elems
  <2>2. g_seq + 1 \in 0..g_seq'
    OBVIOUS
  <2>3. ask' \in [seq : 0..g_seq', rows : Seq(Rows), pending : SUBSET Rows,
                  first : Rows, last : Rows \cup {-1}]
    BY <2>1, <2>2
  <2> QED BY <1>8, <2>3 DEF AskTyped
<1> QED BY <1>5, <1>6, <1>9, <1>10, <1>11, <1>12, <1>13

\* queue_list_sizes() for the newest listing while no batch is under way.
LEMMA QueueOK ==
  ASSUME Numbers(queue, mailbox', g_seq), Quiet(queue, mailbox'), Current',
         g_seq \in Nat, g_seq_list' = g_seq_list, g_seq_list \in Positive,
         g_seq_list <= g_seq, NEW path \in Paths, NEW entries, NEW a \in AskType,
         a.seq = 0, a.rows = <<>>, a.pending = {},
         NEW first \in Rows, NEW last \in Rows, NEW q,
         q = QueueListSizes(first, last, path, g_seq_list, entries, a),
         g_view_seq' # 0 => g_path' = path,
         ask' = q.ask, queue' = queue \o q.post, g_seq' = g_seq + Len(q.post)
  PROVE  /\ Numbers(queue, mailbox, g_seq)'
         /\ \A t \in Elems(queue)' : TaskOK(t)'
         /\ \A m \in Elems(mailbox)' : ResultOK(m)'
         /\ AskInv' /\ AskTyped' /\ g_seq' \in {g_seq, g_seq + 1}
<1>1. queue \in Seq(Task)
  BY DEF Numbers
<1>2. \/ /\ q.post = <<>>
         /\ q.ask = [a EXCEPT !.first = first, !.last = last]
      \/ \E rows \in Seq(Rows) :
           /\ Len(rows) <= Batch
           /\ q.post = <<[kind |-> "sizes", seq |-> g_seq + 1, owner |-> g_seq_list,
                          path |-> path, rows |-> rows]>>
           /\ q.ask = [seq |-> g_seq + 1, rows |-> rows, pending |-> Elems(rows),
                       first |-> first, last |-> last]
  <2>1. PICK n : n = g_seq_list
    OBVIOUS
  <2>2. n \in Positive /\ q = QueueListSizes(first, last, path, n, entries, a)
    BY <2>1
  <2>3. Queued(QueueListSizes(first, last, path, n, entries, a), first, last, path, n, a)
    BY <2>2, QueueFacts
  <2>4. Queued(q, first, last, path, g_seq_list, a)
    BY <2>1, <2>2, <2>3
  <2> QED BY <2>4, Zenon DEF Queued
<1>3. CASE q.post = <<>> /\ q.ask = [a EXCEPT !.first = first, !.last = last]
  <2>1. queue' = queue /\ g_seq' = g_seq
    BY <1>1, <1>3
  <2>2. ask' \in AskType /\ ask'.seq = 0 /\ ask'.rows = <<>> /\ ask'.pending = {}
    BY <1>3 DEF AskType
  <2> QED BY <2>1, <2>2, BatchNone
<1>4. ASSUME NEW rows \in Seq(Rows), Len(rows) <= Batch,
             q.post = <<[kind |-> "sizes", seq |-> g_seq + 1, owner |-> g_seq_list,
                         path |-> path, rows |-> rows]>>,
             q.ask = [seq |-> g_seq + 1, rows |-> rows, pending |-> Elems(rows),
                      first |-> first, last |-> last]
      PROVE  /\ Numbers(queue, mailbox, g_seq)'
             /\ \A t \in Elems(queue)' : TaskOK(t)'
             /\ \A m \in Elems(mailbox)' : ResultOK(m)'
             /\ AskInv' /\ AskTyped' /\ g_seq' \in {g_seq, g_seq + 1}
  <2>1. [kind |-> "sizes", seq |-> g_seq + 1, owner |-> g_seq_list, path |-> path,
         rows |-> rows] \in Task
    BY DEF Task, Positive
  <2>2. queue' = Append(queue, [kind |-> "sizes", seq |-> g_seq + 1, owner |-> g_seq_list,
                                path |-> path, rows |-> rows])
        /\ g_seq' = g_seq + 1
    <3> DEFINE t == [kind |-> "sizes", seq |-> g_seq + 1, owner |-> g_seq_list,
                     path |-> path, rows |-> rows]
    <3>1. t \in Task /\ queue' = queue \o <<t>> /\ g_seq' = g_seq + Len(<<t>>)
      BY <1>4, <2>1
    <3> HIDE DEF t
    <3>2. queue' = Append(queue, t) /\ g_seq' = g_seq + 1
      BY <1>1, <3>1
    <3> QED BY <3>2 DEF t
  <2>3. ask' = [seq |-> g_seq + 1, rows |-> rows, pending |-> Elems(rows),
                first |-> first, last |-> last]
    BY <1>4
  <2> QED BY <1>4, <2>2, <2>3, BatchPosted
<1> QED BY <1>2, <1>3, <1>4

\* What sizes of a view allow once its batches were looked after.
LEMMA BatchType ==
  ASSUME IInv, AskTyped', g_seq' \in {g_seq, g_seq + 1},
         UNCHANGED <<latest, g_seq_list, encoding, gone, departed, survivor>>,
         g_path' \in Paths \cup {NoPath}, g_view_seq' \in 0..g_seq, view_enc' \in Encodings,
         g_entries' \in [Rows -> {Unknown} \cup (Paths \X Rows)], visible' \subseteq Rows,
         g_hist' \in Seq(Paths), Len(g_hist') <= HistMax, g_hist_pos' \in 0..Len(g_hist'),
         g_hist_seq' \in 0..g_seq
  PROVE  TypeOK'
<1>1. g_seq \in Nat
  BY DEF IInv, TypeOK
<1>2. 0..g_seq \subseteq 0..g_seq' /\ g_seq' \in Nat
  BY <1>1
<1> QED BY <1>2 DEF IInv, TypeOK, AskTyped

\* The list tells which rows it shows.
LEMMA CacheHintStep ==
  ASSUME IInv, NEW from \in Rows, NEW to \in Rows, CacheHint(from, to) PROVE IInv'
<1>1. /\ g_view_seq # 0 /\ from <= to /\ visible' = from..to
      /\ UNCHANGED <<latest, mailbox, encoding, gone, g_path, g_view_seq, g_entries,
                     view_enc, g_seq_list, g_hist, g_hist_pos, g_hist_seq, departed, survivor>>
      /\ IF g_view_seq = g_seq_list
         THEN HintListSizes(from, to, g_path, g_view_seq, g_entries, ask)
         ELSE UNCHANGED <<ask, queue, g_seq>>
  BY DEF CacheHint, hist
<1>2. /\ g_seq \in Nat /\ g_view_seq \in 0..g_seq /\ g_path \in Paths
      /\ g_view_seq \in Positive /\ Numbers(queue, mailbox', g_seq) /\ Current'
      /\ from \in Nat /\ to \in Nat /\ from..to \subseteq Rows
  <2>1. g_seq \in Nat /\ g_view_seq \in 0..g_seq /\ g_path \in Paths
    BY <1>1 DEF IInv, TypeOK, ViewInv
  <2>2. Numbers(queue, mailbox', g_seq)
    BY <1>1 DEF IInv
  <2>3. Current'
    BY <1>1, CurrentNow DEF Current
  <2>4. from \in Nat /\ to \in Nat /\ from..to \subseteq Rows
    BY NavViewAssumption DEF Rows
  <2> QED BY <1>1, <2>1, <2>2, <2>3, <2>4 DEF Positive
<1>3. ask \in AskType /\ (ask.seq = 0 => ask.rows = <<>> /\ ask.pending = {})
  BY <1>2 DEF IInv, TypeOK, AskType, AskInv
<1>4. ViewInv'
  BY <1>1 DEF IInv, ViewInv, CursorOnView, SizesRight, DepartedNotShown,
     DecodedUnlessSurvived
<1>5. CASE ask'.seq = ask.seq /\ ask'.rows = ask.rows /\ ask'.pending = ask.pending
           /\ queue' = queue /\ g_seq' = g_seq /\ AskTyped'
  <2>1. (\A x : TaskOK(x) => TaskOK(x)') /\ (\A x : ResultOK(x) => ResultOK(x)')
    BY <1>1, <1>5 DEF TaskOK, ResultOK, Awaited
  <2>2. TypeOK'
    BY <1>1, <1>2, <1>5, BatchType DEF IInv, TypeOK
  <2>3. AskInv'
    BY <1>1, <1>5 DEF IInv, AskInv
  <2> QED BY <1>1, <1>4, <1>5, <2>1, <2>2, <2>3 DEF IInv
<1>6. CASE g_view_seq # g_seq_list
  <2>1. UNCHANGED <<ask, queue, g_seq>>
    BY <1>1, <1>6
  <2>2. AskTyped'
    BY <2>1 DEF IInv, TypeOK, AskTyped
  <2> QED BY <1>5, <2>1, <2>2
<1>7. CASE g_view_seq = g_seq_list
  <2>1. PICK r : r = Neighborhood(from, to)
    OBVIOUS
  <2>2. r[1] \in Rows /\ r[2] \in Rows
    BY <1>1, <1>2, <2>1, NeighborhoodFacts
  <2>3. PICK q : q = QueueListSizes(r[1], r[2], g_path, g_view_seq, g_entries, ask)
    OBVIOUS
  <2>4. ask' = q.ask /\ queue' = queue \o q.post /\ g_seq' = g_seq + Len(q.post)
    BY <1>1, <1>7, <2>1, <2>3 DEF HintListSizes
  <2>5. CASE ask.seq # 0
    <3>1. q = [ask |-> [ask EXCEPT !.first = r[1], !.last = r[2]], post |-> <<>>]
      BY <2>3, <2>5 DEF QueueListSizes
    <3>2. ask' = [ask EXCEPT !.first = r[1], !.last = r[2]] /\ queue' = queue /\ g_seq' = g_seq
      <4>1. queue \in Seq(Task)
        BY DEF IInv, Numbers
      <4>2. q.post = <<>> /\ q.ask = [ask EXCEPT !.first = r[1], !.last = r[2]]
        BY <3>1
      <4> QED BY <1>2, <2>4, <4>1, <4>2
    <3>3. ask'.seq = ask.seq /\ ask'.rows = ask.rows /\ ask'.pending = ask.pending
      BY <1>3, <3>2 DEF AskType
    <3>4. AskTyped'
      <4>1. ask \in [seq : 0..g_seq, rows : Seq(Rows), pending : SUBSET Rows,
                     first : Rows, last : Rows \cup {-1}] /\ Len(ask.rows) <= Batch
        BY DEF IInv, TypeOK
      <4> QED BY <2>2, <3>2, <3>3, <4>1 DEF AskTyped
    <3> QED BY <1>5, <3>2, <3>3, <3>4
  <2>6. CASE ask.seq = 0
    <3>1. Quiet(queue, mailbox')
      <4>1. \A x \in Elems(queue) : x \in Task /\ TaskOK(x)
        BY DEF IInv, Numbers, Elems
      <4>2. \A x \in Elems(mailbox) : x \in Result /\ ResultOK(x)
        BY DEF IInv, Numbers, Elems
      <4>3. \A x \in Elems(queue) \cup Elems(mailbox) :
              /\ Numbered(x) => x.seq # 0
              /\ Awaited(x) /\ (x.kind = "sizes" => (x.owner = g_seq_list <=> x.seq = ask.seq))
        BY <4>1, <4>2, TaskFacts, ResultFacts DEF TaskOK, ResultOK, Positive
      <4> QED BY <1>1, <1>7, <2>6, <4>3 DEF Quiet, Awaited, Numbered
    <3>2. /\ Numbers(queue, mailbox, g_seq)'
          /\ \A t \in Elems(queue)' : TaskOK(t)'
          /\ \A m \in Elems(mailbox)' : ResultOK(m)'
          /\ AskInv' /\ AskTyped' /\ g_seq' \in {g_seq, g_seq + 1}
      <4>1. PICK p : p = g_path
        OBVIOUS
      <4>2. PICK a : a = ask
        OBVIOUS
      <4>3. g_seq_list \in Positive /\ g_seq_list <= g_seq /\ g_seq_list' = g_seq_list
        BY <1>1, <1>2, <1>7
      <4>4. q = QueueListSizes(r[1], r[2], p, g_seq_list, g_entries, a)
        BY <1>7, <2>3, <4>1, <4>2
      <4>5. a \in AskType /\ a.seq = 0 /\ a.rows = <<>> /\ a.pending = {}
        BY <1>3, <2>6, <4>2
      <4> QED BY <1>1, <1>2, <2>2, <2>4, <3>1, <4>1, <4>3, <4>4, <4>5, QueueOK
    <3>3. TypeOK'
      BY <1>1, <1>2, <3>2, BatchType DEF IInv, TypeOK
    <3> QED BY <1>1, <1>4, <3>2, <3>3 DEF IInv
  <2> QED BY <2>5, <2>6
<1> QED BY <1>6, <1>7

\* hist_record() puts the cursor on the path that was listed.
LEMMA HistRecordFacts ==
  ASSUME g_seq \in Nat, g_hist \in Seq(Paths), Len(g_hist) <= HistMax,
         g_hist_pos \in 0..Len(g_hist), g_hist_seq \in 0..g_seq,
         NEW seq, NEW path \in Paths, HistRecord(seq, path),
         seq = g_hist_seq => g_hist_pos > 0 /\ g_hist[g_hist_pos] = path
  PROVE  /\ g_hist' \in Seq(Paths) /\ Len(g_hist') <= HistMax
         /\ g_hist_pos' \in 0..Len(g_hist') /\ g_hist_seq' \in 0..g_seq
         /\ g_hist_pos' > 0 /\ g_hist'[g_hist_pos'] = path
<1>1. HistMax \in Nat /\ HistMax >= 1
  BY NavViewAssumption
<1>2. CASE seq = g_hist_seq
  <2>1. g_hist_seq' = 0 /\ UNCHANGED <<g_hist, g_hist_pos>>
    BY <1>2 DEF HistRecord
  <2> QED BY <1>2, <2>1
<1>3. CASE seq # g_hist_seq /\ g_hist_pos > 0 /\ g_hist[g_hist_pos] = path
  <2>1. UNCHANGED <<g_hist, g_hist_pos, g_hist_seq>>
    BY <1>3 DEF HistRecord, hist
  <2> QED BY <1>3, <2>1
<1>4. CASE seq # g_hist_seq /\ ~(g_hist_pos > 0 /\ g_hist[g_hist_pos] = path)
  <2> DEFINE kept == SubSeq(g_hist, 1, g_hist_pos)
             longer == Append(kept, path)
  <2>1. /\ g_hist' = IF Len(longer) > HistMax THEN Tail(longer) ELSE longer
        /\ g_hist_pos' = Len(g_hist') /\ g_hist_seq' = g_hist_seq
    BY <1>4 DEF HistRecord
  <2>2. kept \in Seq(Paths) /\ Len(kept) = g_hist_pos
    OBVIOUS
  <2> HIDE DEF kept
  <2>3. longer \in Seq(Paths) /\ Len(longer) = g_hist_pos + 1 /\ longer[g_hist_pos + 1] = path
    BY <2>2
  <2> HIDE DEF longer
  <2>4. CASE Len(longer) > HistMax
    <3>1. Len(longer) = HistMax + 1 /\ Len(longer) > 1 /\ longer # <<>>
      BY <1>1, <2>3, <2>4
    <3>2. /\ Tail(longer) \in Seq(Paths) /\ Len(Tail(longer)) = HistMax
          /\ Tail(longer)[HistMax] = longer[HistMax + 1]
      BY <1>1, <2>3, <3>1
    <3>3. g_hist' = Tail(longer) /\ g_hist_pos' = HistMax
      BY <2>1, <2>4, <3>2
    <3>4. HistMax + 1 = g_hist_pos + 1
      BY <2>3, <3>1
    <3> QED BY <1>1, <2>1, <2>3, <3>2, <3>3, <3>4
  <2>5. CASE ~(Len(longer) > HistMax)
    <3>1. g_hist' = longer /\ g_hist_pos' = g_hist_pos + 1
      BY <2>1, <2>3, <2>5
    <3> QED BY <1>1, <2>1, <2>3, <2>5, <3>1
  <2> QED BY <2>4, <2>5
<1> QED BY <1>2, <1>3, <1>4

\* The newest listing arrives.
LEMMA FillListStep ==
  ASSUME IInv, FillList PROVE IInv'
<1>1. PICK m : m = Message
  OBVIOUS
<1>2. /\ mailbox # <<>> /\ mailbox' = Tail(mailbox) /\ m.kind = "list"
      /\ m.seq = g_seq_list /\ m.ok
      /\ UNCHANGED <<encoding, gone, survivor, latest, g_seq_list, departed>>
      /\ g_path' = m.path /\ g_view_seq' = m.seq /\ view_enc' = m.enc
      /\ g_entries' = NoSizes /\ HistRecord(m.seq, m.path)
  BY <1>1 DEF FillList, Received, OutOfDate
<1>3. PICK top \in Rows :
        /\ visible' = top..(IF top + Page > Count THEN Count - 1 ELSE top + Page - 1)
        /\ HintListSizes(top, top + Page - 1, m.path, m.seq, NoSizes, NoAsk)
  BY <1>1 DEF FillList
<1>4. /\ Numbers(queue, mailbox', g_seq) /\ Departures(mailbox')
      /\ m \in Result /\ m \in Elems(mailbox) /\ ResultOK(m)
      /\ Elems(mailbox) = Elems(mailbox') \cup {m}
      /\ \A x \in Elems(queue) \cup Elems(mailbox') : Numbered(x) => x.seq # m.seq
  BY <1>1, <1>2, ReceivedFacts DEF Numbered
<1>5. m.path \in Paths /\ m.enc \in Encodings /\ m.seq \in Positive /\ m.seq <= g_seq
  BY <1>2, <1>4, ResultFacts DEF Numbered, IInv, Numbers
<1>6. /\ ask.seq = 0
      /\ m.seq = g_hist_seq => g_hist_pos > 0 /\ g_hist[g_hist_pos] = m.path
      /\ m.enc = encoding \/ m.seq = survivor
      /\ RootOf[m.path] \notin departed
  BY <1>2, <1>4 DEF ResultOK, Awaited
<1>7. /\ g_seq \in Nat /\ g_seq_list \in 0..g_seq
      /\ g_hist \in Seq(Paths) /\ Len(g_hist) <= HistMax
      /\ g_hist_pos \in 0..Len(g_hist) /\ g_hist_seq \in 0..g_seq
  BY DEF IInv, TypeOK
<1>8. /\ g_hist' \in Seq(Paths) /\ Len(g_hist') <= HistMax
      /\ g_hist_pos' \in 0..Len(g_hist') /\ g_hist_seq' \in 0..g_seq
      /\ g_hist_pos' > 0 /\ g_hist'[g_hist_pos'] = m.path
  <2>1. PICK p \in Paths : p = m.path
    BY <1>5
  <2>2. HistRecord(m.seq, p) /\ (m.seq = g_hist_seq => g_hist_pos > 0 /\ g_hist[g_hist_pos] = p)
    BY <1>2, <1>6, <2>1
  <2> QED BY <1>7, <2>1, <2>2, HistRecordFacts
<1>9. Quiet(queue, mailbox')
  <2>1. \A x \in Elems(queue) : x \in Task /\ TaskOK(x)
    BY DEF IInv, Numbers, Elems
  <2>2. \A x \in Elems(mailbox') : x \in Result /\ ResultOK(x)
    <3>1. \A x \in Elems(mailbox) : x \in Result /\ ResultOK(x)
      BY DEF IInv, Numbers, Elems
    <3> QED BY <1>4, <3>1
  <2>3. \A x \in Elems(queue) \cup Elems(mailbox') :
          x.kind = "sizes" => x.seq \in Positive /\ (x.owner = g_seq_list <=> x.seq = ask.seq)
    BY <2>1, <2>2, TaskFacts, ResultFacts DEF TaskOK, ResultOK, Numbered
  <2> QED BY <1>2, <1>4, <1>6, <2>3 DEF Quiet, Numbered, Positive
<1>10. Current'
  BY <1>2, <1>4, CurrentNow DEF Current
<1>11. /\ Numbers(queue, mailbox, g_seq)'
       /\ \A t \in Elems(queue)' : TaskOK(t)'
       /\ \A x \in Elems(mailbox)' : ResultOK(x)'
       /\ AskInv' /\ AskTyped' /\ g_seq' \in {g_seq, g_seq + 1}
  <2>1. top \in Nat /\ top + Page - 1 \in Nat /\ top <= top + Page - 1
    BY NavViewAssumption DEF Rows
  <2>2. PICK to \in Nat : to = top + Page - 1
    BY <2>1
  <2>3. PICK r : r = Neighborhood(top, to)
    OBVIOUS
  <2>4. r[1] \in Rows /\ r[2] \in Rows
    BY <2>1, <2>2, <2>3, NeighborhoodFacts
  <2>5. PICK p \in Paths : p = m.path
    BY <1>5
  <2>6. PICK q : q = QueueListSizes(r[1], r[2], p, g_seq_list, NoSizes, NoAsk)
    OBVIOUS
  <2>7. ask' = q.ask /\ queue' = queue \o q.post /\ g_seq' = g_seq + Len(q.post)
    BY <1>2, <1>3, <2>2, <2>3, <2>5, <2>6 DEF HintListSizes
  <2>8. PICK a \in AskType : a = NoAsk /\ a.seq = 0 /\ a.rows = <<>> /\ a.pending = {}
    <3>1. 0 \in Rows
      BY NavViewAssumption DEF Rows
    <3>2. NoAsk \in AskType /\ NoAsk.seq = 0 /\ NoAsk.rows = <<>> /\ NoAsk.pending = {}
      BY <3>1 DEF NoAsk, AskType
    <3> QED BY <3>2
  <2>9. q = QueueListSizes(r[1], r[2], p, g_seq_list, NoSizes, a)
    BY <2>6, <2>8
  <2>10. g_seq_list \in Positive /\ g_seq_list <= g_seq /\ g_seq_list' = g_seq_list
    BY <1>2, <1>5
  <2>11. PICK e : e = NoSizes
    OBVIOUS
  <2>12. q = QueueListSizes(r[1], r[2], p, g_seq_list, e, a)
    BY <2>9, <2>11
  <2>13. g_path' = p
    BY <1>2, <2>5
  <2> QED BY <1>4, <1>7, <1>9, <1>10, <2>4, <2>7, <2>8, <2>10, <2>12, <2>13, QueueOK
<1>12. TypeOK'
  <2>1. visible' \subseteq Rows
    BY <1>3, NavViewAssumption DEF Rows
  <2>2. g_entries' \in [Rows -> {Unknown} \cup (Paths \X Rows)]
    BY <1>2 DEF NoSizes
  <2>3. g_view_seq' \in 0..g_seq
    BY <1>2, <1>7
  <2> QED BY <1>2, <1>5, <1>8, <1>11, <2>1, <2>2, <2>3, BatchType
<1>13. ViewInv'
  <2>1. SizesRight'
    BY <1>2 DEF SizesRight, NoSizes
  <2>2. latest' = g_seq_list' /\ g_path' \in Paths
    BY <1>2, <1>5 DEF IInv, ViewInv
  <2>3. CursorOnView'
    BY <1>2, <1>8 DEF CursorOnView
  <2>4. DepartedNotShown' /\ DecodedUnlessSurvived'
    BY <1>2, <1>6 DEF DepartedNotShown, DecodedUnlessSurvived
  <2> QED BY <2>1, <2>2, <2>3, <2>4 DEF ViewInv
<1> QED BY <1>4, <1>11, <1>12, <1>13 DEF IInv

\* The rows asked for get the sizes that were read for them.
LEMMA SizedRowsFacts ==
  ASSUME NEW sizes, g_entries \in [Rows -> {Unknown} \cup (Paths \X Rows)],
         ask.rows \in Seq(Rows), Len(sizes) = Len(ask.rows), SizesRight,
         g_view_seq # 0 => /\ g_path \in Paths
                           /\ \A i \in 1..Len(ask.rows) : sizes[i] = <<g_path, ask.rows[i]>>
  PROVE  /\ SizedRows(sizes) \in [Rows -> {Unknown} \cup (Paths \X Rows)]
         /\ \A r \in Rows : SizedRows(sizes)[r] \in {Unknown, <<g_path, r>>}
<1> DEFINE got == IF Len(sizes) < Len(ask.rows) THEN Len(sizes) ELSE Len(ask.rows)
           from(r) == {i \in 1..got : ask.rows[i] = r}
           row(r) == IF g_view_seq # 0 /\ from(r) # {}
                     THEN sizes[CHOOSE i \in from(r) : TRUE] ELSE g_entries[r]
<1>1. SizedRows(sizes) = [r \in Rows |-> row(r)]
  BY DEF SizedRows
<1>2. got = Len(ask.rows)
  OBVIOUS
<1>3. ASSUME NEW r \in Rows
      PROVE  row(r) \in {Unknown} \cup (Paths \X Rows) /\ row(r) \in {Unknown, <<g_path, r>>}
  <2>1. CASE g_view_seq # 0 /\ from(r) # {}
    <3>1. PICK i \in from(r) : i = CHOOSE j \in from(r) : TRUE
      BY <2>1
    <3>2. i \in 1..Len(ask.rows) /\ ask.rows[i] = r
      BY <1>2
    <3>3. row(r) = sizes[i]
      BY <2>1, <3>1
    <3> HIDE DEF from, row
    <3>4. row(r) = <<g_path, r>> /\ g_path \in Paths
      BY <2>1, <3>2, <3>3
    <3> QED BY <3>4
  <2>2. CASE ~(g_view_seq # 0 /\ from(r) # {})
    <3>1. row(r) = g_entries[r]
      BY <2>2
    <3> HIDE DEF from, row
    <3> QED BY <3>1 DEF SizesRight
  <2> QED BY <2>1, <2>2
<1> HIDE DEF row
<1> QED BY <1>1, <1>3

\* A batch comes back, and the next one is posted.
LEMMA FillListSizesStep ==
  ASSUME IInv, FillListSizes PROVE IInv'
<1>1. PICK m : m = Message
  OBVIOUS
<1>2. PICK e : e = SizedRows(m.sizes)
  OBVIOUS
<1>3. PICK a : a = [ask EXCEPT !.seq = 0, !.rows = <<>>,
                      !.pending = @ \ {ask.rows[i] : i \in 1..Len(ask.rows)}]
  OBVIOUS
<1>4. PICK q : q = IF a.last >= a.first /\ g_view_seq = g_seq_list
                   THEN QueueListSizes(a.first, a.last, g_path, g_view_seq, e, a)
                   ELSE [ask |-> a, post |-> <<>>]
  OBVIOUS
<1>5. /\ mailbox # <<>> /\ mailbox' = Tail(mailbox) /\ m.kind = "sizes"
      /\ m.seq = ask.seq /\ m.owner = g_seq_list
      /\ UNCHANGED <<encoding, gone, survivor>>
      /\ UNCHANGED <<latest, g_path, g_view_seq, view_enc, visible, g_seq_list, departed>>
      /\ UNCHANGED <<g_hist, g_hist_pos, g_hist_seq>>
  BY <1>1 DEF FillListSizes, Received, OutOfDate, hist
<1>6. g_entries' = e /\ ask' = q.ask /\ queue' = queue \o q.post /\ g_seq' = g_seq + Len(q.post)
  <2> DEFINE sized == SizedRows(Message.sizes)
             left == [ask EXCEPT !.seq = 0, !.rows = <<>>,
                        !.pending = @ \ {ask.rows[i] : i \in 1..Len(ask.rows)}]
             next == IF left.last >= left.first /\ g_view_seq = g_seq_list
                     THEN QueueListSizes(left.first, left.last, g_path, g_view_seq, sized, left)
                     ELSE [ask |-> left, post |-> <<>>]
  <2>1. sized = e /\ left = a
    BY <1>1, <1>2, <1>3
  <2>2. next = q
    <3> HIDE DEF sized, left
    <3> QED BY <1>4, <2>1, ZenonT(40)
  <2>3. /\ g_entries' = sized /\ ask' = next.ask /\ queue' = queue \o next.post
        /\ g_seq' = g_seq + Len(next.post)
    BY DEF FillListSizes
  <2> HIDE DEF sized, next
  <2> QED BY <2>1, <2>2, <2>3
<1>7. /\ Numbers(queue, mailbox', g_seq) /\ Departures(mailbox')
      /\ m \in Result /\ m \in Elems(mailbox) /\ ResultOK(m)
      /\ Elems(mailbox) = Elems(mailbox') \cup {m}
      /\ \A x \in Elems(queue) \cup Elems(mailbox') : Numbered(x) => x.seq # m.seq
  BY <1>1, <1>5, ReceivedFacts DEF Numbered
<1>8. m.seq \in Positive /\ m.owner \in Positive /\ m.owner <= g_seq /\ ask.seq # 0
  BY <1>5, <1>7, ResultFacts DEF Numbered, IInv, Numbers, Positive
<1>9. /\ Len(m.sizes) = Len(ask.rows)
      /\ g_view_seq # 0 => \A i \in 1..Len(ask.rows) : m.sizes[i] = <<g_path, ask.rows[i]>>
  BY <1>5, <1>7 DEF ResultOK
<1>10. /\ g_seq \in Nat /\ g_seq_list \in 0..g_seq
       /\ ask \in [seq : 0..g_seq, rows : Seq(Rows), pending : SUBSET Rows,
                   first : Rows, last : Rows \cup {-1}]
       /\ g_entries \in [Rows -> {Unknown} \cup (Paths \X Rows)]
       /\ g_view_seq # 0 => g_path \in Paths
       /\ SizesRight
  BY DEF IInv, TypeOK, ViewInv
<1>11. /\ e \in [Rows -> {Unknown} \cup (Paths \X Rows)]
       /\ \A r \in Rows : e[r] \in {Unknown, <<g_path, r>>}
  BY <1>2, <1>9, <1>10, SizedRowsFacts
<1>12. /\ a \in AskType /\ a.seq = 0 /\ a.rows = <<>> /\ a.pending = {}
       /\ a.first = ask.first /\ a.last = ask.last
  <2>1. ask.pending \ {ask.rows[i] : i \in 1..Len(ask.rows)} = {}
    BY <1>8 DEF IInv, AskInv, Elems
  <2>2. a = [seq |-> 0, rows |-> <<>>, pending |-> {}, first |-> ask.first, last |-> ask.last]
    BY <1>3, <1>10, <2>1
  <2> QED BY <1>10, <2>2 DEF AskType
<1>13. Quiet(queue, mailbox')
  <2>1. \A x \in Elems(queue) : TaskOK(x)
    BY DEF IInv
  <2>2. \A x \in Elems(mailbox') : ResultOK(x)
    BY <1>7 DEF IInv
  <2>3. \A x \in Elems(queue) \cup Elems(mailbox') :
          Awaited(x) /\ (x.kind = "sizes" => (x.owner = g_seq_list <=> x.seq = ask.seq))
    BY <2>1, <2>2 DEF TaskOK, ResultOK
  <2> QED BY <1>5, <1>7, <1>8, <2>3 DEF Quiet, Numbered, Awaited
<1>14. Current'
  BY <1>5, <1>7, CurrentNow DEF Current
<1>15. /\ Numbers(queue, mailbox, g_seq)'
       /\ \A t \in Elems(queue)' : TaskOK(t)'
       /\ \A x \in Elems(mailbox)' : ResultOK(x)'
       /\ AskInv' /\ AskTyped' /\ g_seq' \in {g_seq, g_seq + 1}
  <2>1. CASE a.last >= a.first /\ g_view_seq = g_seq_list
    <3>1. PICK f : f = a.first
      OBVIOUS
    <3>2. PICK l : l = a.last
      OBVIOUS
    <3>3. f \in Rows /\ l \in Rows
      <4>1. a.first \in Rows /\ a.last \in Rows \cup {-1} /\ ~(-1 >= a.first)
        BY <1>12, NavViewAssumption DEF AskType, Rows
      <4> QED BY <2>1, <3>1, <3>2, <4>1
    <3>4. g_seq_list \in Positive /\ g_seq_list <= g_seq /\ g_seq_list' = g_seq_list
      BY <1>5, <1>8
    <3>5. PICK p \in Paths : p = g_path
      BY <1>10, <2>1, <3>4 DEF Positive
    <3>6. q = QueueListSizes(f, l, p, g_seq_list, e, a)
      BY <1>4, <2>1, <3>1, <3>2, <3>5
    <3>7. g_path' = p
      BY <1>5, <3>5
    <3> QED BY <1>6, <1>7, <1>10, <1>12, <1>13, <1>14, <3>3, <3>4, <3>6, <3>7, QueueOK
  <2>2. CASE ~(a.last >= a.first /\ g_view_seq = g_seq_list)
    <3>1. q = [ask |-> a, post |-> <<>>]
      BY <1>4, <2>2
    <3>2. q.ask = a /\ q.post = <<>>
      BY <3>1
    <3>3. queue \in Seq(Task)
      BY DEF IInv, Numbers
    <3>4. ask' = a /\ queue' = queue /\ g_seq' = g_seq
      BY <1>6, <1>10, <3>2, <3>3
    <3> QED BY <1>5, <1>7, <1>10, <1>12, <1>13, <1>14, <3>4, BatchNone
  <2> QED BY <2>1, <2>2
<1>16. TypeOK'
  <2>1. g_entries' \in [Rows -> {Unknown} \cup (Paths \X Rows)]
    BY <1>6, <1>11
  <2> QED BY <1>5, <1>15, <2>1, BatchType DEF IInv, TypeOK
<1>17. ViewInv'
  <2>1. SizesRight'
    BY <1>5, <1>6, <1>11 DEF SizesRight
  <2> QED BY <1>5, <2>1 DEF IInv, ViewInv, CursorOnView, DepartedNotShown, DecodedUnlessSurvived
<1> QED BY <1>7, <1>15, <1>16, <1>17 DEF IInv

-----------------------------------------------------------------------------
(* The theorems.                                                           *)

\* Nothing is under way and nothing is shown.
LEMMA InitInv ==
  Init => IInv
<1> SUFFICES ASSUME Init PROVE IInv
  OBVIOUS
<1>1. 0 \in Rows /\ HistMax \in Nat /\ Batch \in Nat
  BY NavViewAssumption DEF Rows
<1>2. TypeOK
  BY <1>1 DEF Init, TypeOK, NoSizes, NoAsk
<1>3. Elems(queue) = {} /\ Elems(mailbox) = {} /\ queue = <<>> /\ mailbox = <<>>
  BY DEF Init, Elems
<1>4. Numbers(queue, mailbox, g_seq) /\ Departures(mailbox)
  BY <1>3 DEF Numbers, Departures
<1>5. AskInv
  BY DEF Init, AskInv, NoAsk
<1>6. ViewInv
  BY DEF Init, ViewInv, CursorOnView, SizesRight, DepartedNotShown, DecodedUnlessSurvived, NoSizes
<1> QED BY <1>2, <1>3, <1>4, <1>5, <1>6 DEF IInv

\* Every step of the GUI thread and of the backend keeps the invariant.
LEMMA NextInv ==
  IInv /\ [Next]_vars => IInv'
<1> SUFFICES ASSUME IInv, [Next]_vars PROVE IInv'
  OBVIOUS
<1>1. CASE BackendStep
  BY <1>1, RunListDirStep, RunListSizesStep, RunUnmountStep DEF BackendStep
<1>2. CASE OnTaskDone
  BY <1>2, DropResultStep, FillListStep, ListFailedStep, FillListSizesStep,
     TreeOnUnmountedStep DEF OnTaskDone
<1>3. CASE UserStep
  BY <1>3, UserNavigates, SetFsEncodingStep, UnmountStep, CacheHintStep DEF UserStep
<1>4. CASE UNCHANGED vars
  <2>1. /\ UNCHANGED front
        /\ UNCHANGED <<queue, mailbox, encoding, gone, latest, g_seq>>
    BY <1>4 DEF vars, front, backend
  <2>2. gone' \subseteq Removable
    BY <2>1 DEF IInv, TypeOK
  <2>3. TypeOK' /\ ViewInv'
    BY <2>1, <2>2, FrontType
  <2>4. (\A y : TaskOK(y) => TaskOK(y)') /\ (\A y : ResultOK(y) => ResultOK(y)')
    BY <2>1, FrontSame
  <2>5. AskInv'
    BY <2>1 DEF IInv, AskInv, front
  <2> QED BY <2>1, <2>3, <2>4, <2>5 DEF IInv
<1> QED BY <1>1, <1>2, <1>3, <1>4 DEF Next

\* The invariant holds in every reachable state: numbers under way are unique,
\* a batch belongs to the newest listing exactly if ask waits for it, and the
\* newest listing is not on screen while it is on its way.
THEOREM Inductive ==
  Spec => []IInv
<1> QED BY InitInv, NextInv, PTL DEF Spec

\* Every variable has its type; in particular the history never outgrows
\* HIST_MAX and no batch LIST_SIZE_BATCH.
THEOREM TypeCorrect ==
  Spec => []TypeOK
<1>1. IInv => TypeOK
  BY DEF IInv
<1> QED BY <1>1, Inductive, PTL

\* hist_record(): whatever was clicked on the way, the cursor of the history is
\* on the path of the newest listing once that is shown.
THEOREM CursorFollowsView ==
  Spec => []CursorOnView
<1>1. IInv => CursorOnView
  BY DEF IInv, ViewInv
<1> QED BY <1>1, Inductive, PTL

\* fill_list_sizes(): no row ever shows the size of another row or directory.
THEOREM SizesOfTheRow ==
  Spec => []SizesRight
<1>1. IInv => SizesRight
  BY DEF IInv, ViewInv
<1> QED BY <1>1, Inductive, PTL

\* tree_on_unmounted(): a device that was reported unmounted is not on screen.
THEOREM DepartedLeaves ==
  Spec => []DepartedNotShown
<1>1. IInv => DepartedNotShown
  BY DEF IInv, ViewInv
<1> QED BY <1>1, Inductive, PTL

\* set_fs_encoding(): the names on screen were decoded with the encoding in
\* force, but for the listing refresh() had no path to replace.
THEOREM DecodedInForce ==
  Spec => []DecodedUnlessSurvived
<1>1. IInv => DecodedUnlessSurvived
  BY DEF IInv, ViewInv
<1> QED BY <1>1, Inductive, PTL

\* queue_list_sizes(): one batch at a time, and ask says which.
THEOREM OneBatch ==
  Spec => []BatchAccounted
<1>1. ASSUME IInv PROVE BatchAccounted
  <2>1. \A t \in SizesTasks : t \in Elems(queue) /\ t.kind = "sizes"
    BY DEF SizesTasks, Elems
  <2>2. \A m \in SizesResults : m \in Elems(mailbox) /\ m.kind = "sizes"
    BY DEF SizesResults, Elems
  <2>3. \A t \in SizesTasks : t.owner = g_seq_list => t.seq = ask.seq /\ t.rows = ask.rows
    BY <1>1, <2>1 DEF IInv, TaskOK
  <2>4. \A m \in SizesResults :
          m.owner = g_seq_list => m.seq = ask.seq /\ Len(m.sizes) = Len(ask.rows)
    BY <1>1, <2>2 DEF IInv, ResultOK
  <2>5. ASSUME ask.seq # 0
        PROVE  \E x \in SizesTasks \cup SizesResults : x.seq = ask.seq
    <3>1. PICK x \in Elems(queue) \cup Elems(mailbox) : x.kind = "sizes" /\ x.seq = ask.seq
      BY <1>1, <2>5 DEF IInv, AskInv
    <3>2. x \in SizesTasks \cup SizesResults
      BY <3>1 DEF SizesTasks, SizesResults, Elems
    <3> QED BY <3>1, <3>2
  <2>6. ask.seq # 0 => ask.pending = {ask.rows[i] : i \in 1..Len(ask.rows)}
    BY <1>1 DEF IInv, AskInv, Elems
  <2> QED BY <2>3, <2>4, <2>5, <2>6 DEF BatchAccounted
<1> QED BY <1>1, Inductive, PTL
=============================================================================
