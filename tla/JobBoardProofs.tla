--------------------------- MODULE JobBoardProofs ---------------------------
(***************************************************************************)
(* Theorems about JobBoard.                                                *)
(***************************************************************************)
EXTENDS JobBoard, SumTheorems, SequenceTheorems

-----------------------------------------------------------------------------
(* Arithmetic of pages. *)

\* The pages hold everything, and without the last one would not.
LEMMA PagesAreEnough ==
    ASSUME NEW n \in Nat, NEW size \in Nat \ {0}
    PROVE  /\ Pages(n, size) \in Nat
           /\ n <= Pages(n, size) * size
           /\ n > 0 => Pages(n, size) > 0 /\ (Pages(n, size) - 1) * size < n
<1>1. PICK k \in Nat : k = n + size - 1
  OBVIOUS
<1>2. /\ k \div size \in Nat
      /\ (k \div size) * size <= k
      /\ k < (k \div size) * size + size
  OBVIOUS
<1>3. PICK q \in Nat : q = k \div size
  BY <1>2
<1>4. PICK m \in Nat : m = q * size
  OBVIOUS
<1>5. (q - 1) * size = m - size
  BY <1>4
<1>6. n > 0 => q > 0
  BY <1>1, <1>2, <1>3
<1> QED
  BY <1>1, <1>2, <1>3, <1>4, <1>5, <1>6 DEF Pages

\* Pages do not overlap: an earlier one ends where the next begins.
LEMMA PageStarts ==
    ASSUME NEW size \in Nat \ {0}, NEW p \in Nat \ {0}
    PROVE  /\ (p - 1) * size \in Nat
           /\ p * size = (p - 1) * size + size
<1> QED
  OBVIOUS

\* An earlier page begins no later.
LEMMA PagesInOrder ==
    ASSUME NEW size \in Nat \ {0}, NEW p \in Nat, NEW q \in Nat, p <= q
    PROVE  p * size <= q * size
<1> QED
  OBVIOUS

-----------------------------------------------------------------------------
(* A list, page by page. *)

\* What has been shown after page p: the pages before it, then page p.
WalkBody(w, s, size, N) ==
    [p \in 0 .. N |-> IF p = 0 THEN <<>>
                      ELSE w[p - 1] \o Slice(s, (p - 1) * size, p * size)]

Walk(s, size, N) == CHOOSE w : w = WalkBody(w, s, size, N)

\* The beginning of the list that p pages hold.
Shown(s, size, p) == SubSeq(s, 1, Least(p * size, Len(s)))

\* A part of a list is a list.
LEMMA SliceType ==
    ASSUME NEW S, NEW s \in Seq(S), NEW a \in Nat, NEW b \in Nat
    PROVE  /\ Slice(s, a, b) \in Seq(S)
           /\ Len(Slice(s, a, b)) = IF a < Least(b, Len(s))
                                    THEN Least(b, Len(s)) - a ELSE 0
<1> DEFINE n == Least(b, Len(s))
<1>1. Len(s) \in Nat /\ n \in Nat /\ n <= Len(s)
  BY LenProperties DEF Least
<1>2. \A i \in (a + 1) .. n : s[i] \in S
  BY <1>1, ElementOfSeq
<1>3. /\ SubSeq(s, a + 1, n) \in Seq(S)
      /\ Len(SubSeq(s, a + 1, n)) = IF a + 1 <= n THEN n - (a + 1) + 1 ELSE 0
  <2> HIDE DEF n
  <2> QED
    BY <1>1, <1>2, SubSeqProperties
<1>4. a < n <=> a + 1 <= n
  BY <1>1
<1>5. n - (a + 1) + 1 = n - a
  BY <1>1
<1> QED
  BY <1>3, <1>4, <1>5 DEF Slice

\* One more page is appended to what the pages before it hold.
LEMMA OneMorePage ==
    ASSUME NEW S, NEW s \in Seq(S), NEW size \in Nat \ {0}, NEW p \in Nat \ {0}
    PROVE  Shown(s, size, p) =
               Shown(s, size, p - 1) \o Slice(s, (p - 1) * size, p * size)
<1>1. PICK a \in Nat : a = (p - 1) * size
  BY PageStarts
<1>2. PICK b \in Nat : b = p * size /\ b = a + size
  BY <1>1, PageStarts
<1>3. Len(s) \in Nat
  BY LenProperties
<1>4. SubSeq(s, 1, Least(b, Len(s))) =
        SubSeq(s, 1, Least(a, Len(s))) \o SubSeq(s, a + 1, Least(b, Len(s)))
  <2>1. CASE a >= Len(s)
    <3>1. Least(a, Len(s)) = Len(s) /\ Least(b, Len(s)) = Len(s) /\ Len(s) < a + 1
      BY <1>2, <1>3, <2>1 DEF Least
    <3>2. SubSeq(s, a + 1, Len(s)) = <<>>
      BY <1>3, <3>1, SubSeqEmpty
    <3>3. SubSeq(s, 1, Len(s)) = s /\ s \o <<>> = s
      BY SubSeqFull, ConcatEmptySeq
    <3> QED
      BY <3>1, <3>2, <3>3
  <2>2. CASE a < Len(s)
    <3>1. /\ Least(a, Len(s)) = a /\ Least(b, Len(s)) \in a .. Len(s)
          /\ 1 \in 1 .. Len(s) + 1 /\ a \in 1 - 1 .. Len(s)
      BY <1>2, <1>3, <2>2 DEF Least
    <3> QED
      BY <3>1, ConcatAdjacentSubSeq
  <2>3. a >= Len(s) \/ a < Len(s)
    BY <1>3
  <2> QED
    BY <2>1, <2>2, <2>3
<1> QED
  BY <1>1, <1>2, <1>4 DEF Shown, Slice

\* Before the first page nothing has been shown.
LEMMA NoPage ==
    ASSUME NEW S, NEW s \in Seq(S), NEW size \in Nat \ {0}
    PROVE  Shown(s, size, 0) = <<>>
<1>1. Least(0 * size, Len(s)) = 0
  BY LenProperties DEF Least
<1> QED
  BY <1>1, SubSeqEmpty DEF Shown

\* The recursion of a walk has a solution.
LEMMA WalkExists ==
    ASSUME NEW S, NEW s \in Seq(S), NEW size \in Nat \ {0}, NEW N \in Nat
    PROVE  Walk(s, size, N) = WalkBody(Walk(s, size, N), s, size, N)
<1> DEFINE w == [p \in 0 .. N |-> Shown(s, size, p)]
<1>1. \A p \in 0 .. N :
        Shown(s, size, p) = IF p = 0 THEN <<>>
                            ELSE w[p - 1] \o Slice(s, (p - 1) * size, p * size)
  <2> SUFFICES ASSUME NEW p \in 0 .. N, p # 0
               PROVE  Shown(s, size, p) =
                        w[p - 1] \o Slice(s, (p - 1) * size, p * size)
    BY NoPage
  <2>1. p \in Nat \ {0} /\ p - 1 \in 0 .. N
    OBVIOUS
  <2>2. w[p - 1] = Shown(s, size, p - 1)
    BY <2>1
  <2> QED
    BY <2>1, <2>2, OneMorePage
<1>2. w = WalkBody(w, s, size, N)
  BY <1>1 DEF WalkBody
<1> HIDE DEF w
<1> QED
  BY <1>2 DEF Walk

\* Going through the pages up to p shows the beginning that p pages hold.
LEMMA WalkShows ==
    ASSUME NEW S, NEW s \in Seq(S), NEW size \in Nat \ {0}, NEW N \in Nat,
           NEW p \in 0 .. N
    PROVE  Walk(s, size, N)[p] = Shown(s, size, p)
<1> DEFINE w == Walk(s, size, N)
           Wrong == {q \in 0 .. N : w[q] # Shown(s, size, q)}
           Bad == {0 .. q : q \in Wrong}
<1>1. \A q \in 0 .. N :
        w[q] = IF q = 0 THEN <<>> ELSE w[q - 1] \o Slice(s, (q - 1) * size, q * size)
  <2>1. w = WalkBody(w, s, size, N)
    BY WalkExists
  <2> HIDE DEF w
  <2> QED
    BY <2>1 DEF WalkBody
<1> SUFFICES ASSUME Bad # {} PROVE FALSE
  OBVIOUS
<1> HIDE DEF w
<1>2. PICK u \in Bad : \A v \in Bad : v \subseteq u => v = u
  <2> DEFINE All == 0 .. N
  <2>1. Bad \in SUBSET (SUBSET All) /\ IsFiniteSet(All)
    <3>1. \A q \in 0 .. N : 0 .. q \subseteq 0 .. N
      OBVIOUS
    <3>2. Wrong \subseteq 0 .. N
      OBVIOUS
    <3> HIDE DEF Wrong
    <3>3. IsFiniteSet(0 .. N)
      BY FS_Interval
    <3> QED
      BY <3>1, <3>2, <3>3
  <2> HIDE DEF Bad, All
  <2>2. \E v \in Bad : \A x \in Bad : x \subseteq v => x = v
    BY <2>1, SmallestSubset
  <2> QED
    BY <2>2
<1>3. PICK q \in 0 .. N : u = 0 .. q /\ w[q] # Shown(s, size, q)
  BY <1>2
<1>4. q # 0
  BY <1>1, <1>3, NoPage
<1>5. w[q - 1] = Shown(s, size, q - 1)
  <2>1. q - 1 \in 0 .. N /\ 0 .. q - 1 \subseteq 0 .. q /\ q \notin 0 .. q - 1 /\ q \in 0 .. q
    BY <1>4
  <2>2. 0 .. q - 1 # 0 .. q
    BY <2>1
  <2>3. 0 .. q - 1 \notin Bad
    BY <1>2, <1>3, <2>1, <2>2
  <2> QED
    BY <2>1, <2>3
<1>6. q \in Nat \ {0}
  BY <1>4
<1> QED
  BY <1>1, <1>3, <1>4, <1>5, <1>6, OneMorePage

\* Going through all the pages shows the list.
LEMMA WalkShowsAll ==
    ASSUME NEW S, NEW s \in Seq(S), NEW size \in Nat \ {0}, NEW N \in Nat,
           Pages(Len(s), size) <= N
    PROVE  Walk(s, size, N)[N] = s
<1>1. Len(s) \in Nat
  BY LenProperties
<1>2. PICK k \in Nat : k = Pages(Len(s), size)
  BY <1>1, PagesAreEnough
<1>3. Len(s) <= k * size /\ k * size <= N * size
  BY <1>1, <1>2, PagesAreEnough, PagesInOrder
<1>4. PICK m \in Nat, l \in Nat : m = k * size /\ l = N * size
  OBVIOUS
<1>5. Least(N * size, Len(s)) = Len(s)
  BY <1>1, <1>3, <1>4 DEF Least
<1>6. Shown(s, size, N) = s
  BY <1>5, SubSeqFull DEF Shown
<1> QED
  BY <1>6, WalkShows

-----------------------------------------------------------------------------
(* Newest first. *)

AreIds(ids) == ids \subseteq Int /\ IsFiniteSet(ids)
Newer(ids, i) == {j \in ids : j > i}

\* A set of ids has an oldest.
LEMMA OldestId ==
    ASSUME NEW ids, AreIds(ids), ids # {}
    PROVE  \E x \in ids : \A y \in ids : x <= y
<1> DEFINE UpTo(x) == {y \in ids : y <= x}
           T == {UpTo(x) : x \in ids}
<1>1. PICK x \in ids : \A u \in T : u \subseteq UpTo(x) => u = UpTo(x)
  <2>1. T \in SUBSET (SUBSET ids) /\ T # {}
    OBVIOUS
  <2>0. IsFiniteSet(ids)
    BY DEF AreIds
  <2>2. \E s \in T : \A u \in T : u \subseteq s => u = s
    <3> HIDE DEF T
    <3> QED
      BY <2>0, <2>1, SmallestSubset
  <2> QED
    BY <2>2
<1>2. ASSUME NEW y \in ids, y < x PROVE FALSE
  <2>1. ids \subseteq Int /\ x \in Int /\ y \in Int /\ UpTo(y) \in T
    BY DEF AreIds
  <2>2. \A z \in ids : z <= y => z <= x
    BY <1>2, <2>1
  <2>3. x <= x /\ ~(x <= y)
    BY <1>2, <2>1
  <2>4. UpTo(y) \subseteq UpTo(x) /\ x \in UpTo(x) /\ x \notin UpTo(y)
    BY <2>2, <2>3
  <2> HIDE DEF UpTo, T
  <2> QED
    BY <1>1, <2>1, <2>4
<1> QED
  BY <1>2 DEF AreIds

\* There is an id with any smaller number of newer ones.
LEMMA RankExists ==
    ASSUME NEW ids, AreIds(ids),
           NEW n \in 1 .. Cardinality(ids)
    PROVE  \E i \in ids : Cardinality(Newer(ids, i)) = n - 1
<1> DEFINE Ranked(R) == \A m \in 1 .. Cardinality(R) :
                            \E i \in R : Cardinality(Newer(R, i)) = m - 1
           Bad == {R \in SUBSET ids : ~ Ranked(R)}
<1> SUFFICES ASSUME Bad # {} PROVE FALSE
  OBVIOUS
<1>1. PICK R \in Bad : \A u \in Bad : u \subseteq R => u = R
  <2>1. Bad \in SUBSET (SUBSET ids) /\ IsFiniteSet(ids)
    BY DEF AreIds
  <2> HIDE DEF Bad
  <2> QED
    BY <2>1, SmallestSubset
<1>2. R \subseteq Int /\ IsFiniteSet(R) /\ Cardinality(R) \in Nat /\ AreIds(R)
  BY FS_Subset, FS_CardinalityType DEF AreIds
<1>3. R # {}
  <2>1. Cardinality({}) = 0 /\ 1 .. 0 = {}
    BY FS_EmptySet
  <2>2. Ranked({})
    BY <2>1
  <2> HIDE DEF Ranked
  <2> QED
    BY <1>1, <2>2
<1>4. PICK x \in R : \A y \in R : x <= y
  BY <1>2, <1>3, OldestId
<1> DEFINE Q == R \ {x}
<1>5. /\ Q \subseteq Int /\ IsFiniteSet(Q) /\ Cardinality(Q) \in Nat
      /\ Cardinality(R) = Cardinality(Q) + 1
  <2>1. IsFiniteSet(Q) /\ Cardinality(Q) \in Nat /\ Cardinality(Q) = Cardinality(R) - 1
    BY <1>2, FS_RemoveElement, FS_CardinalityType
  <2> QED
    BY <1>2, <2>1
<1>6. Ranked(Q)
  BY <1>1, <1>4
<1>7. \A i \in R : Newer(R, i) = Newer(Q, i)
  <2> SUFFICES ASSUME NEW i \in R PROVE ~(x > i)
    BY DEF Newer
  <2> QED
    BY <1>2, <1>4
<1>8. Newer(R, x) = Q
  <2>1. \A y \in R : y > x <=> y # x
    BY <1>2, <1>4
  <2> QED
    BY <2>1 DEF Newer
<1>9. ASSUME NEW m \in 1 .. Cardinality(R)
      PROVE  \E i \in R : Cardinality(Newer(R, i)) = m - 1
  <2>1. CASE m = Cardinality(R)
    <3>1. m - 1 = Cardinality(Q)
      BY <1>5, <2>1
    <3> QED
      BY <1>8, <3>1
  <2>2. CASE m # Cardinality(R)
    <3>1. m \in 1 .. Cardinality(Q)
      BY <1>5, <2>2
    <3>2. PICK i \in Q : Cardinality(Newer(Q, i)) = m - 1
      BY <1>6, <3>1
    <3> QED
      BY <1>7, <3>2
  <2> QED
    BY <2>1, <2>2
<1> QED
  BY <1>1, <1>9

\* Fewer are newer than the newer of two ids.
LEMMA RankOrder ==
    ASSUME NEW ids, AreIds(ids), NEW i \in ids, NEW j \in ids, i < j
    PROVE  /\ Cardinality(Newer(ids, j)) \in Nat /\ Cardinality(Newer(ids, i)) \in Nat
           /\ Cardinality(Newer(ids, j)) < Cardinality(Newer(ids, i))
           /\ Cardinality(Newer(ids, i)) < Cardinality(ids)
<1>1. IsFiniteSet(Newer(ids, i)) /\ Newer(ids, i) \subseteq ids /\ IsFiniteSet(ids)
  <2>1. Newer(ids, i) \subseteq ids
    BY DEF Newer
  <2> QED
    BY <2>1, FS_Subset DEF AreIds
<1>2. Newer(ids, j) \subseteq Newer(ids, i)
  <2>1. \A k \in ids : k > j => k > i
    BY DEF AreIds
  <2> QED
    BY <2>1 DEF Newer
<1>3. j \in Newer(ids, i) /\ j \notin Newer(ids, j) /\ i \notin Newer(ids, i)
  BY DEF Newer, AreIds
<1>4. Newer(ids, j) # Newer(ids, i) /\ Newer(ids, i) # ids
  BY <1>3
<1> QED
  BY <1>1, <1>2, <1>4, FS_Subset, FS_CardinalityType

\* Listing ids newest first gives each of them once, the greater before the
\* smaller: what findAll returns before it is cut into pages, and what the
\* page of the web application shows of its data.
THEOREM NewestFirstLists ==
    ASSUME NEW ids, AreIds(ids)
    PROVE  /\ NewestFirst(ids) \in Seq(ids)
           /\ Len(NewestFirst(ids)) = Cardinality(ids)
           /\ \A m, n \in 1 .. Cardinality(ids) :
                 m < n => NewestFirst(ids)[m] > NewestFirst(ids)[n]
           /\ \A i \in ids : \E n \in 1 .. Cardinality(ids) : NewestFirst(ids)[n] = i
<1> DEFINE N == Cardinality(ids)
           list == NewestFirst(ids)
<1>1. N \in Nat
  BY FS_CardinalityType DEF AreIds
<1>2. \A n \in 1 .. N : list[n] \in ids /\ Cardinality(Newer(ids, list[n])) = n - 1
  <2> SUFFICES ASSUME NEW n \in 1 .. N
               PROVE  list[n] \in ids /\ Cardinality(Newer(ids, list[n])) = n - 1
    OBVIOUS
  <2>1. list[n] = CHOOSE i \in ids : Cardinality(Newer(ids, i)) = n - 1
    BY DEF NewestFirst, Newer
  <2>2. \E i \in ids : Cardinality(Newer(ids, i)) = n - 1
    BY RankExists
  <2> HIDE DEF list
  <2> QED
    BY <2>1, <2>2
<1>3. list \in Seq(ids) /\ Len(list) = N
  <2>1. list \in [1 .. N -> ids]
    <3>1. list = [n \in 1 .. N |-> list[n]]
      BY DEF NewestFirst
    <3> HIDE DEF list
    <3> QED
      BY <1>2, <3>1
  <2> HIDE DEF list, N
  <2>2. list \in Seq(ids)
    BY <1>1, <2>1, SeqDef
  <2>3. Len(list) \in Nat /\ 1 .. Len(list) = 1 .. N
    BY <2>1, <2>2, LenProperties
  <2>4. Len(list) = N
    BY <1>1, <2>3
  <2> QED
    BY <2>2, <2>4
<1> HIDE DEF list
<1>4. ASSUME NEW i \in ids, NEW j \in ids,
             Cardinality(Newer(ids, i)) = Cardinality(Newer(ids, j))
      PROVE  i = j
  <2>1. ~(i < j) /\ ~(j < i)
    BY <1>4, RankOrder
  <2> QED
    BY <2>1 DEF AreIds
<1>5. ASSUME NEW m \in 1 .. N, NEW n \in 1 .. N, m < n PROVE list[m] > list[n]
  <2>1. list[m] \in ids /\ list[n] \in ids /\ list[m] \in Int /\ list[n] \in Int
    BY <1>2 DEF AreIds
  <2>2. /\ Cardinality(Newer(ids, list[m])) = m - 1
        /\ Cardinality(Newer(ids, list[n])) = n - 1
    BY <1>2
  <2>3. ~(list[m] < list[n])
    BY <1>5, <2>1, <2>2, RankOrder
  <2>4. list[m] # list[n]
    BY <1>5, <2>2
  <2> QED
    BY <2>1, <2>3, <2>4
<1>6. ASSUME NEW i \in ids PROVE \E n \in 1 .. N : list[n] = i
  <2> DEFINE r == Cardinality(Newer(ids, i))
  <2>1. r \in Nat /\ r < N
    <3>1. Newer(ids, i) \subseteq ids /\ Newer(ids, i) # ids
      BY DEF Newer, AreIds
    <3> QED
      BY <3>1, FS_Subset, FS_CardinalityType DEF AreIds
  <2>2. r + 1 \in 1 .. N
    BY <1>1, <2>1
  <2>3. list[r + 1] \in ids /\ Cardinality(Newer(ids, list[r + 1])) = r
    BY <1>2, <2>1, <2>2
  <2> QED
    BY <1>4, <2>2, <2>3
<1> QED
  BY <1>3, <1>5, <1>6 DEF list

-----------------------------------------------------------------------------
(* The inductive invariant. *)

Job == [status : {"OPEN", "TAKEN"}, kind : Kind]

\* The rows, and the update that is between its check and its write.
RowsInv ==
    /\ jobs \in Seq(Job)
    /\ editing = NoEdit \/ editing \in [id : DOMAIN jobs, kind : Kind]

\* The page's data are of rows that exist.
DataInv ==
    /\ allJobs \in [DOMAIN allJobs -> Kind]
    /\ DOMAIN allJobs \subseteq DOMAIN jobs

\* One timer at most, and it carries what the input says; when none runs,
\* the filter is what the input says.
InputInv ==
    /\ timers = <<>> \/ timers = <<keyword>>
    /\ timers = <<>> => debouncedKeyword = keyword

PageInv == currentPage \in Nat \ {0}

IInv == RowsInv /\ DataInv /\ InputInv /\ PageInv

\* The rows and the data of the page are finitely many.
LEMMA IdsOfInv ==
    ASSUME IInv
    PROVE  /\ Len(jobs) \in Nat /\ DOMAIN jobs = 1 .. Len(jobs)
           /\ \A ids \in SUBSET DOMAIN jobs : AreIds(ids)
           /\ AreIds(DOMAIN allJobs)
           /\ \A i \in DOMAIN jobs : jobs[i] \in Job
<1>1. Len(jobs) \in Nat /\ DOMAIN jobs = 1 .. Len(jobs)
  BY LenProperties DEF IInv, RowsInv
<1>2. IsFiniteSet(DOMAIN jobs) /\ DOMAIN jobs \subseteq Int
  <2>1. IsFiniteSet(1 .. Len(jobs)) /\ 1 .. Len(jobs) \subseteq Int
    BY <1>1, FS_Interval
  <2> QED
    BY <1>1, <2>1
<1>3. ASSUME NEW ids \in SUBSET DOMAIN jobs PROVE AreIds(ids)
  BY <1>2, FS_Subset DEF AreIds
<1>4. ASSUME NEW i \in DOMAIN jobs PROVE jobs[i] \in Job
  <2>1. jobs \in Seq(Job) /\ i \in 1 .. Len(jobs)
    BY <1>1 DEF IInv, RowsInv
  <2> QED
    BY <2>1, ElementOfSeq
<1> QED
  BY <1>1, <1>3, <1>4 DEF IInv, DataInv

\* A limit is bounded on both sides, whatever the caller asks for.
LEMMA LimitBounds ==
    ASSUME NEW limit \in Int \cup {Unset}
    PROVE  Limit(limit) \in 1 .. MaxPageSize
<1> QED
  BY JobBoardAssumption DEF Limit, Least, Most

\* The page fetches rows, without repeating any.
LEMMA FetchedRows ==
    ASSUME IInv PROVE ToSet(FetchJobs) \subseteq DOMAIN jobs
<1> DEFINE ids == Where("OPEN", Unset)
           found == NewestFirst(ids)
           L == Limit(MaxPageSize)
<1>1. ids \subseteq DOMAIN jobs
  BY DEF Where
<1>2. AreIds(ids)
  BY <1>1, IdsOfInv
<1>3. found \in Seq(ids)
  <2> HIDE DEF ids
  <2> QED
    BY <1>2, NewestFirstLists
<1>4. L \in Nat /\ Skip(Unset, MaxPageSize) = 0
  <2>1. L \in 1 .. MaxPageSize /\ MaxPageSize \in Nat
    BY JobBoardAssumption, LimitBounds
  <2> QED
    BY <2>1 DEF Skip
<1>5. FetchJobs = Slice(found, 0, L)
  BY <1>4 DEF FetchJobs, FindAll
<1>6. FetchJobs \in Seq(ids)
  <2> HIDE DEF ids, found, L
  <2> QED
    BY <1>3, <1>4, <1>5, SliceType
<1>7. ToSet(FetchJobs) \subseteq ids
  <2> HIDE DEF ids
  <2> QED
    BY <1>6, LenProperties DEF ToSet
<1> QED
  BY <1>1, <1>7

\* The initial state satisfies the invariant.
LEMMA InitInv == Init => IInv
<1> SUFFICES ASSUME Init PROVE IInv
  OBVIOUS
<1>1. RowsInv
  BY EmptySeq DEF Init, RowsInv
<1>2. DataInv
  BY DEF Init, DataInv
<1> QED
  BY <1>1, <1>2 DEF Init, IInv, InputInv, PageInv

\* Every step keeps the invariant.
LEMMA NextInv == IInv /\ [Next]_vars => IInv'
<1> SUFFICES ASSUME IInv, [Next]_vars PROVE IInv'
  OBVIOUS
<1>0. \A i \in DOMAIN jobs : jobs[i] \in Job
  BY IdsOfInv
<1> USE DEF IInv
<1>1. ASSUME NEW kind \in Kind, CreateJob(kind) PROVE IInv'
  <2>1. /\ jobs' \in Seq(Job) /\ DOMAIN jobs \subseteq DOMAIN jobs'
    <3>1. [status |-> "OPEN", kind |-> kind] \in Job
      BY DEF Job
    <3>2. jobs' \in Seq(Job) /\ Len(jobs') = Len(jobs) + 1
      BY <1>1, <3>1, AppendProperties DEF CreateJob, RowsInv
    <3> QED
      BY <3>2, IdsOfInv, LenProperties
  <2> QED
    BY <1>1, <2>1 DEF CreateJob, RowsInv, DataInv, InputInv, PageInv, client, input
<1>2. ASSUME NEW kind \in Kind, NEW i \in Open, Update(i, kind) PROVE IInv'
  <2>1. editing' \in [id : DOMAIN jobs', kind : Kind]
    BY <1>2 DEF Update, Open
  <2> QED
    BY <1>2, <2>1 DEF Update, RowsInv, DataInv, InputInv, PageInv, client, input
<1>3. CASE UpdateCommit
  <2>1. editing.id \in DOMAIN jobs /\ editing.kind \in Kind
    BY <1>3 DEF UpdateCommit, RowsInv
  <2>2. jobs' \in Seq(Job) /\ DOMAIN jobs' = DOMAIN jobs
    <3> DEFINE e == [jobs[editing.id] EXCEPT !.kind = editing.kind]
    <3>1. e \in Job
      BY <1>0, <2>1 DEF Job
    <3>2. jobs' = [jobs EXCEPT ![editing.id] = e]
      BY <1>3 DEF UpdateCommit
    <3> HIDE DEF e
    <3> QED
      BY <2>1, <3>1, <3>2, IdsOfInv, ExceptSeq DEF RowsInv
  <2> QED
    BY <1>3, <2>2 DEF UpdateCommit, RowsInv, DataInv, InputInv, PageInv, client, input
<1>4. ASSUME NEW i \in DOMAIN jobs, SetJobStatus(i) PROVE IInv'
  <2>1. jobs' \in Seq(Job) /\ DOMAIN jobs' = DOMAIN jobs
    <3> DEFINE e == [jobs[i] EXCEPT !.status = IF i \in Open THEN "TAKEN" ELSE "OPEN"]
    <3>1. e \in Job
      BY <1>0 DEF Job
    <3>2. jobs' = [jobs EXCEPT ![i] = e]
      BY <1>4 DEF SetJobStatus
    <3> HIDE DEF e
    <3> QED
      BY <3>1, <3>2, IdsOfInv, ExceptSeq DEF RowsInv
  <2> QED
    BY <1>4, <2>1 DEF SetJobStatus, RowsInv, DataInv, InputInv, PageInv, client, input
<1>5. CASE Refetch
  <2>1. \A i \in ToSet(FetchJobs) : i \in DOMAIN jobs /\ jobs[i].kind \in Kind
    BY <1>0, FetchedRows DEF Job
  <2>2. DataInv'
    BY <1>5, <2>1 DEF Refetch, DataInv, server
  <2> QED
    BY <1>5, <2>2 DEF Refetch, RowsInv, InputInv, PageInv, server, input
<1>6. CASE TimerFires
  <2>1. timers = <<keyword>>
    BY <1>6 DEF TimerFires, InputInv
  <2>2. Head(<<keyword>>) = keyword /\ Tail(<<keyword>>) = <<>>
    OBVIOUS
  <2>3. debouncedKeyword' = keyword /\ timers' = <<>> /\ keyword' = keyword
    BY <1>6, <2>1, <2>2 DEF TimerFires
  <2> QED
    BY <1>6, <2>3 DEF TimerFires, RowsInv, DataInv, InputInv, PageInv, server
<1>7. ASSUME NEW s \in Selections, Select(s) PROVE IInv'
  BY <1>7 DEF Select, RowsInv, DataInv, InputInv, PageInv, server, input
<1>8. CASE ClearFilters
  BY <1>8 DEF ClearFilters, EmptyKeyword, Typed, RowsInv, DataInv, InputInv,
              PageInv, server
<1>9. CASE RemoveKeywordChip
  BY <1>9 DEF RemoveKeywordChip, EmptyKeyword, Typed, RowsInv, DataInv, InputInv,
              PageInv, server
<1>10. CASE RemoveSelectChip
  BY <1>10 DEF RemoveSelectChip, RowsInv, DataInv, InputInv, PageInv, server, input
<1>11. ASSUME NEW kw \in Keyword \cup {Unset}, Type(kw) PROVE IInv'
  BY <1>11 DEF Type, Typed, RowsInv, DataInv, InputInv, PageInv, server
<1>12. ASSUME NEW p \in 1 .. MaxJobs + 1, GoToPage(p) PROVE IInv'
  <2>1. p \in Nat \ {0}
    BY JobBoardAssumption
  <2> QED
    BY <1>12, <2>1 DEF GoToPage, RowsInv, DataInv, InputInv, PageInv, server, input
<1>13. CASE UNCHANGED vars
  BY <1>13 DEF vars, server, client, input, RowsInv, DataInv, InputInv, PageInv
<1> QED
  BY <1>1, <1>2, <1>3, <1>4, <1>5, <1>6, <1>7, <1>8, <1>9, <1>10, <1>11, <1>12,
     <1>13 DEF Next

\* The rows, the data of the page, its timer and its page number are always
\* as the invariant says.
THEOREM Invariance == Spec => []IInv
  BY InitInv, NextInv, PTL DEF Spec

-----------------------------------------------------------------------------
(* The filter. *)

\* What the filter becomes is what the input says.
LEMMA StepFollowsInput ==
    ASSUME IInv, [Next]_vars
    PROVE  debouncedKeyword' # debouncedKeyword => debouncedKeyword' = keyword'
<1>1. CASE TimerFires
  <2>1. timers = <<keyword>> /\ Head(<<keyword>>) = keyword
    BY <1>1 DEF TimerFires, IInv, InputInv
  <2> QED
    BY <1>1, <2>1 DEF TimerFires
<1>2. CASE ClearFilters \/ RemoveKeywordChip
  BY <1>2 DEF ClearFilters, RemoveKeywordChip, EmptyKeyword
<1>3. CASE UNCHANGED debouncedKeyword
  BY <1>3
<1>4. TimerFires \/ ClearFilters \/ RemoveKeywordChip \/ UNCHANGED debouncedKeyword
  BY DEF Next, CreateJob, Update, UpdateCommit, SetJobStatus, Refetch, Type, Select,
         RemoveSelectChip, GoToPage, vars, server, client, input
<1> QED
  BY <1>1, <1>2, <1>3, <1>4

\* No timer brings back a keyword that was replaced or cleared.
THEOREM FilterAlwaysFollows == Spec => FilterFollowsInput
<1>1. IInv /\ [Next]_vars =>
        [debouncedKeyword' # debouncedKeyword => debouncedKeyword' = keyword']_vars
  BY StepFollowsInput
<1> QED
  BY <1>1, Invariance, PTL DEF Spec, FilterFollowsInput

\* A page on which no timer runs shows what the input says: a keyword can be
\* waiting only for a timer that is there to fire.
THEOREM NothingWaitsForever ==
    Spec => [](debouncedKeyword # keyword => timers = <<keyword>>)
<1>1. IInv => (debouncedKeyword # keyword => timers = <<keyword>>)
  BY DEF IInv, InputInv
<1> QED
  BY <1>1, Invariance, PTL

-----------------------------------------------------------------------------
(* The pages of the client. *)

\* The list that the client pages.
LEMMA FilteredList ==
    ASSUME IInv
    PROVE  /\ FilteredJobs \in Seq(DOMAIN allJobs)
           /\ Len(FilteredJobs) \in Nat
           /\ TotalPages \in Nat \ {0}
           /\ Pages(Len(FilteredJobs), PageSize) \in Nat
           /\ Pages(Len(FilteredJobs), PageSize) <= TotalPages
           /\ PageSize \in Nat \ {0}
<1> DEFINE ids == FilterJobs(allJobs, debouncedKeyword, select)
<1>1. ids \subseteq DOMAIN allJobs
  BY DEF FilterJobs
<1>2. AreIds(ids)
  BY <1>1, IdsOfInv, FS_Subset DEF AreIds
<1>3. FilteredJobs \in Seq(ids)
  <2> HIDE DEF ids
  <2> QED
    BY <1>2, NewestFirstLists DEF ids, FilteredJobs
<1>4. FilteredJobs \in Seq(DOMAIN allJobs)
  <2> HIDE DEF ids
  <2> QED
    BY <1>1, <1>3, SeqMonotonic
<1>5. Len(FilteredJobs) \in Nat
  BY <1>3, LenProperties
<1>6. PageSize \in Nat \ {0}
  BY JobBoardAssumption
<1>7. Pages(Len(FilteredJobs), PageSize) \in Nat
  BY <1>5, <1>6, PagesAreEnough
<1> QED
  BY <1>4, <1>5, <1>6, <1>7 DEF TotalPages, Most

\* The page the user is on shows something when anything matches.
LEMMA SafePageShows ==
    ASSUME IInv, FilteredJobs # <<>> PROVE PagedJobs(SafePage) # <<>>
<1> DEFINE n == Len(FilteredJobs)
           last == Pages(n, PageSize)
<1>1. n \in Nat /\ n > 0
  BY FilteredList, EmptySeq
<1>2. last \in Nat /\ last > 0 /\ (last - 1) * PageSize < n
  <2> HIDE DEF n
  <2> QED
    BY <1>1, FilteredList, PagesAreEnough
<1>3. TotalPages = last
  <2> HIDE DEF last
  <2> QED
    BY <1>2 DEF TotalPages, Most, last, n
<1>4. SafePage \in Nat \ {0} /\ SafePage <= last
  <2> HIDE DEF last
  <2> QED
    BY <1>2, <1>3 DEF SafePage, Least, IInv, PageInv
<1>5. PICK p \in Nat \ {0} : p = SafePage /\ p <= last
  BY <1>4
<1>6. PICK a \in Nat : a = (p - 1) * PageSize /\ a < n
  <2> HIDE DEF last, n
  <2>1. p - 1 \in Nat /\ last - 1 \in Nat /\ p - 1 <= last - 1
    BY <1>2, <1>5
  <2>2. (p - 1) * PageSize <= (last - 1) * PageSize
    BY <2>1, FilteredList, PagesInOrder
  <2>3. (p - 1) * PageSize \in Nat /\ (last - 1) * PageSize \in Nat
    BY <2>1, FilteredList
  <2>4. (p - 1) * PageSize < n
    BY <1>1, <1>2, <2>2, <2>3
  <2> QED
    BY <2>3, <2>4
<1>7. PICK b \in Nat : b = p * PageSize /\ b = a + PageSize
  BY <1>6, FilteredList, PageStarts
<1>8. a < Least(b, n) /\ Least(b, n) - a # 0
  <2> HIDE DEF n
  <2> QED
    BY <1>1, <1>6, <1>7, FilteredList DEF Least
<1>9. Len(Slice(FilteredJobs, a, b)) # 0
  BY <1>8, FilteredList, SliceType
<1>10. PagedJobs(SafePage) = Slice(FilteredJobs, a, b)
  BY <1>5, <1>6, <1>7 DEF PagedJobs
<1> QED
  BY <1>9, <1>10, EmptySeq

\* Going through the pages shows every match once, and the page the user is
\* on is not empty as long as something matches.
THEOREM PagesAlwaysShowEveryMatch == Spec => []PagesShowEveryMatch
<1>1. ASSUME IInv PROVE PagesShowEveryMatch
  <2>1. Walk(FilteredJobs, PageSize, TotalPages)[TotalPages] = FilteredJobs
    BY <1>1, FilteredList, WalkShowsAll
  <2> QED
    BY <1>1, <2>1, SafePageShows DEF PagesShowEveryMatch, Walk, WalkBody, PagedJobs
<1> QED
  BY <1>1, Invariance, PTL

-----------------------------------------------------------------------------
(* The pages of the server. *)

\* The pages of the server are a partition of what matches, and none is
\* larger than MAX_PAGE_SIZE, whatever limit the caller gives.
THEOREM ServerPagesAlwaysPartition == Spec => []ServerPagesPartition
<1>1. ASSUME IInv, NEW search \in Keyword \cup {Unset}, NEW limit \in Limits \cup {Unset}
      PROVE  LET Page(p) == FindAll("OPEN", search, p, limit)
                 Go[p \in 0 .. Page(1).totalPages] ==
                     IF p = 0 THEN <<>> ELSE Go[p - 1] \o Page(p).data
             IN /\ Go[Page(1).totalPages] = NewestFirst(Where("OPEN", search))
                /\ Len(Page(Unset).data) <= MaxPageSize
  <2> DEFINE ids == Where("OPEN", search)
             found == NewestFirst(ids)
             size == Limit(limit)
             N == Pages(Len(found), size)
             Page(p) == FindAll("OPEN", search, p, limit)
  <2>1. size \in Nat \ {0} /\ size <= MaxPageSize
    <3>1. size \in 1 .. MaxPageSize /\ MaxPageSize \in Nat
      BY JobBoardAssumption, LimitBounds
    <3> HIDE DEF size
    <3> QED
      BY <3>1
  <2>2. found \in Seq(ids) /\ Len(found) \in Nat
    <3>1. AreIds(ids)
      BY <1>1, IdsOfInv DEF Where
    <3> HIDE DEF ids
    <3> QED
      BY <3>1, NewestFirstLists, LenProperties
  <2>3. N \in Nat
    <3> HIDE DEF found, size
    <3> QED
      BY <2>1, <2>2, PagesAreEnough
  <2>4. \A p : Page(p).totalPages = N
    BY DEF FindAll
  <2>5. ASSUME NEW p \in 0 .. N, p # 0
        PROVE  Page(p).data = Slice(found, (p - 1) * size, p * size)
    <3>1. p # Unset /\ p \in Nat \ {0} /\ Most(1, p) = p
      BY <2>3, <2>5, JobBoardAssumption DEF Most
    <3>2. Skip(p, limit) = (p - 1) * size
      BY <3>1 DEF Skip
    <3>3. p * size = (p - 1) * size + size
      <4> HIDE DEF size
      <4> QED
        BY <2>1, <3>1, PageStarts
    <3> QED
      BY <3>2, <3>3 DEF FindAll
  <2>6. Page(Unset).data = Slice(found, 0, size)
    BY <2>1 DEF FindAll, Skip
  <2>7. Len(Page(Unset).data) <= MaxPageSize
    <3> HIDE DEF found, size, Page
    <3>1. Len(Slice(found, 0, size)) = IF 0 < Least(size, Len(found))
                                        THEN Least(size, Len(found)) - 0 ELSE 0
      BY <2>1, <2>2, SliceType
    <3> QED
      BY <2>1, <2>2, <2>6, <3>1, JobBoardAssumption DEF Least
  <2>8. \A w : [p \in 0 .. N |-> IF p = 0 THEN <<>> ELSE w[p - 1] \o Page(p).data]
                 = WalkBody(w, found, size, N)
    BY <2>5 DEF WalkBody
  <2> DEFINE G == CHOOSE w : w = [p \in 0 .. N |-> IF p = 0 THEN <<>>
                                                   ELSE w[p - 1] \o Page(p).data]
  <2>9. G = Walk(found, size, N)
    BY <2>8 DEF Walk
  <2>10. G[N] = found
    <3> HIDE DEF G, found, size, N, ids
    <3> QED
      BY <2>1, <2>2, <2>3, <2>9, WalkShowsAll DEF N
  <2> QED
    BY <2>4, <2>7, <2>10
<1>2. IInv => ServerPagesPartition
  BY <1>1 DEF ServerPagesPartition
<1> QED
  BY <1>2, Invariance, PTL
=============================================================================
