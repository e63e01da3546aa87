------------------------ MODULE SearchEngineProofs ------------------------
(***************************************************************************)
(* Proofs about SearchEngine, for any number of clients, threads, searches *)
(* and profiles: the ranges of a search divide the cached profiles, the    *)
(* results of a completed search are those of every profile, nothing that  *)
(* was freed is used unless it was cut off in the middle of its use, and   *)
(* an id finds the search of its client unless starts overlap; the ids,    *)
(* the queue and the counters stay within their bounds; and the results of *)
(* a completed search do not change any more.                              *)
(***************************************************************************)
EXTENDS SearchEngine, FiniteSetTheorems, FunctionTheorems, SequenceTheorems,
        WellFoundedInduction, TLAPS

\* There is always a thread.
LEMMA ThreadsPositive == numThreads \in Nat \ {0}
  BY SearchEngineAssumption, FS_CardinalityType, FS_EmptySet DEF numThreads

\* numThreads ranges of RangeSize profiles hold all n of them.
LEMMA RangeSizeBounds ==
  ASSUME NEW n \in Nat \ {0}
  PROVE  /\ RangeSize(n) \in Nat \ {0}
         /\ n <= numThreads * RangeSize(n)
<1> DEFINE q == n \div numThreads
           r == n % numThreads
<1>1. numThreads \in Nat \ {0}
  BY ThreadsPositive
<1>2. q \in Nat /\ r \in Nat /\ r < numThreads /\ n = numThreads * q + r
  BY <1>1
<1> HIDE DEF q, r
<1>3. CASE r = 0
  <2>1. RangeSize(n) = q
    BY <1>2, <1>3 DEF RangeSize, q, r
  <2> QED BY <1>1, <1>2, <1>3, <2>1
<1>4. CASE r # 0
  <2>1. RangeSize(n) = q + 1
    BY <1>2, <1>4 DEF RangeSize, q, r
  <2>2. numThreads * (q + 1) = numThreads * q + numThreads
    BY <1>1, <1>2
  <2>3. numThreads * q \in Nat
    BY <1>1, <1>2
  <2> QED BY <1>1, <1>2, <2>1, <2>2, <2>3
<1> QED BY <1>3, <1>4

\* The number of ranges is that of the threads, or the first that is open-ended.
LEMMA NumRangesChosen ==
  ASSUME NEW n \in Nat \ {0}
  PROVE  /\ NumRanges(n) \in 1 .. numThreads
         /\ \A i \in 1 .. numThreads : i < NumRanges(n) => HighOf(i, n) # 0
         /\ HighOf(NumRanges(n), n) = 0 \/ NumRanges(n) = numThreads
<1> DEFINE ends == {i \in 1 .. numThreads : HighOf(i, n) = 0}
<1>1. numThreads \in Nat \ {0}
  BY ThreadsPositive
<1>2. CASE ends = {}
  BY <1>1, <1>2 DEF NumRanges
<1>3. CASE ends # {}
  <2>1. \E i \in ends : \A j \in ends : i <= j
    <3>1. ends \in SUBSET Nat
      BY <1>1
    <3> HIDE DEF ends
    <3>2. \E i \in ends : \A j \in ends : ~ (<<j, i>> \in OpToRel(<, Nat))
      BY <1>3, <3>1, NatLessThanWellFounded, WFMin, ZenonT(30)
    <3>3. PICK i \in ends : \A j \in ends : ~ (<<j, i>> \in OpToRel(<, Nat))
      BY <3>2
    <3>4. ASSUME NEW j \in ends PROVE i <= j
      <4>1. i \in Nat /\ j \in Nat
        BY <3>1
      <4>2. ~ (j < i)
        BY <3>3, <4>1 DEF OpToRel
      <4> QED BY <4>1, <4>2
    <3> QED BY <3>4
  <2>2. NumRanges(n) = CHOOSE i \in ends : \A j \in ends : i <= j
    BY <1>3 DEF NumRanges
  <2>3. NumRanges(n) \in ends /\ \A j \in ends : NumRanges(n) <= j
    BY <2>1, <2>2
  <2> QED BY <1>1, <2>3
<1> QED BY <1>2, <1>3

\* The ranges of a search are adjacent, begin at the first profile, and the last one is
\* open-ended or ends at the last profile: every profile that was cached when the search
\* started is in exactly one of them (prepareSearchThreadArgs).
THEOREM RangesPartition ==
  ASSUME NEW n \in Nat \ {0}
  PROVE  LET m == NumRanges(n) IN
         /\ m \in 1 .. numThreads
         /\ LowOf(1, n) = 0
         /\ \A i \in 1 .. m : LowOf(i, n) <= i * RangeSize(n) - 1
         /\ \A i \in 1 .. m - 1 : /\ HighOf(i, n) \in 1 .. n - 1
                                  /\ LowOf(i + 1, n) = HighOf(i, n) + 1
         /\ HighOf(m, n) \in {0, n - 1}
<1> DEFINE m == NumRanges(n)
           size == RangeSize(n)
<1>1. numThreads \in Nat \ {0} /\ size \in Nat \ {0} /\ n <= numThreads * size
  BY ThreadsPositive, RangeSizeBounds
<1>2. /\ m \in 1 .. numThreads
      /\ \A i \in 1 .. numThreads : i < m => HighOf(i, n) # 0
      /\ HighOf(m, n) = 0 \/ m = numThreads
  BY NumRangesChosen
<1> HIDE DEF m, size
<1>3. \A i \in Nat : LowOf(i, n) = (i - 1) * size
  BY DEF LowOf, size
<1>4. \A i \in Nat : HighOf(i, n) = IF i * size - 1 >= n THEN 0 ELSE i * size - 1
  BY DEF HighOf, size
<1>5. LowOf(1, n) = 0
  BY <1>1, <1>3
<1>6. \A i \in Nat : (i - 1) * size = i * size - size /\ i * size \in Nat
  BY <1>1
<1>7. \A i \in 1 .. m : LowOf(i, n) <= i * size - 1
  BY <1>1, <1>2, <1>3, <1>6
<1>8. ASSUME NEW i \in 1 .. m - 1
      PROVE  HighOf(i, n) \in 1 .. n - 1 /\ LowOf(i + 1, n) = HighOf(i, n) + 1
  <2>1. i \in Nat \ {0} /\ i \in 1 .. numThreads /\ i < m
    BY <1>1, <1>2
  <2>2. HighOf(i, n) # 0
    BY <1>2, <2>1
  <2>3. HighOf(i, n) = i * size - 1 /\ i * size - 1 < n
    BY <1>1, <1>4, <1>6, <2>1, <2>2
  <2>4. LowOf(i + 1, n) = i * size
    BY <1>3, <2>1
  <2> QED BY <1>1, <1>6, <2>1, <2>2, <2>3, <2>4
<1>9. HighOf(m, n) \in {0, n - 1}
  BY <1>1, <1>2, <1>4, <1>6
<1> QED BY <1>2, <1>5, <1>7, <1>8, <1>9 DEF m, size

-----------------------------------------------------------------------------
(***************************************************************************)
(* The list of searches: what is found in it was put there, and what is    *)
(* taken out is out.                                                       *)
(***************************************************************************)
\* The least element of a set of naturals.
LEMMA MinIs ==
  ASSUME NEW S \in SUBSET Nat, S # {}
  PROVE  Min(S) \in S /\ \A y \in S : Min(S) <= y
<1>1. \E x \in S : \A y \in S : ~ (<<y, x>> \in OpToRel(<, Nat))
  BY NatLessThanWellFounded, WFMin, ZenonT(30)
<1>2. PICK x \in S : \A y \in S : ~ (<<y, x>> \in OpToRel(<, Nat))
  BY <1>1
<1>3. ASSUME NEW y \in S PROVE x <= y
  <2>1. ~ (y < x)
    BY <1>2, <1>3 DEF OpToRel
  <2> QED
    BY <1>3, <2>1
<1> QED
  BY <1>3 DEF Min

\* A finite set of naturals has an n-th element: after the one before, if there is one.
LEMMA NthExists ==
  ASSUME NEW S \in SUBSET Nat, IsFiniteSet(S)
  PROVE  \A n \in 1 .. Cardinality(S) : \E i \in S : Cardinality({j \in S : j <= i}) = n
<1> DEFINE Below(i) == {j \in S : j <= i}
           bad == {n \in 1 .. Cardinality(S) : ~ \E i \in S : Cardinality(Below(i)) = n}
<1>0. Cardinality(S) \in Nat
  BY FS_CardinalityType
<1>1. SUFFICES ASSUME bad # {} PROVE FALSE
  OBVIOUS
<1>2. PICK n \in bad : \A m \in bad : n <= m
  <2>1. bad \in SUBSET Nat
    BY <1>0
  <2> HIDE DEF bad
  <2> QED
    BY <1>1, <2>1, MinIs
<1>3. n \in 1 .. Cardinality(S)
  BY <1>2
<1>4. ASSUME NEW R \in SUBSET S, R # {}, \A j \in S \ R : j < Min(R),
             IsFiniteSet(S \ R), Cardinality(S \ R) = n - 1
      PROVE  FALSE
  <2>1. PICK i \in R : i = Min(R) /\ \A j \in R : i <= j
    BY <1>4, MinIs
  <2>2. Below(i) = (S \ R) \cup {i} /\ i \notin S \ R
    <3>1. ASSUME NEW j \in S PROVE j <= i <=> j \in S \ R \/ j = i
      <4>1. i \in Nat /\ j \in Nat
        BY <1>4, <2>1
      <4>2. CASE j \in R
        BY <2>1, <4>1, <4>2
      <4>3. CASE j \notin R
        BY <1>4, <2>1, <4>1, <4>3
      <4> QED
        BY <4>2, <4>3
    <3> QED
      BY <2>1, <3>1
  <2>3. Cardinality(Below(i)) = n
    <3>1. Cardinality((S \ R) \cup {i}) = (n - 1) + 1
      BY <1>4, <2>2, FS_AddElement
    <3>2. n \in Nat /\ (n - 1) + 1 = n
      BY <1>3
    <3> QED
      BY <2>2, <3>1, <3>2
  <2> QED
    BY <1>2, <2>1, <2>3
<1>5. CASE n = 1
  <2>1. S # {}
    BY <1>3, <1>0, FS_EmptySet
  <2>2. S \ S = {} /\ Cardinality({}) = 0 /\ IsFiniteSet({})
    BY FS_EmptySet
  <2> QED
    BY <1>4, <1>5, <2>1, <2>2
<1>6. CASE n # 1
  <2>1. n - 1 \in 1 .. Cardinality(S) /\ n - 1 \notin bad
    BY <1>0, <1>2, <1>3, <1>6
  <2>2. PICK i \in S : Cardinality(Below(i)) = n - 1
    BY <2>1
  <2> DEFINE R == {j \in S : ~ (j <= i)}
  <2>3. S \ R = Below(i) /\ IsFiniteSet(Below(i)) /\ R \in SUBSET S
    BY FS_Subset
  <2>4. R # {}
    <3>1. Cardinality(Below(i)) # Cardinality(S)
      BY <1>0, <1>3, <2>2
    <3>2. R = {} => Below(i) = S
      OBVIOUS
    <3> QED
      BY <3>1, <3>2
  <2>5. \A j \in S \ R : j < Min(R)
    <3>1. R \in SUBSET Nat
      OBVIOUS
    <3>2. Min(R) \in R
      <4> HIDE DEF R
      <4> QED
        BY <2>4, <3>1, MinIs
    <3>3. Min(R) \in Nat /\ ~ (Min(R) <= i)
      BY <3>2
    <3> QED
      BY <3>3
  <2> HIDE DEF R
  <2> QED
    BY <1>4, <2>2, <2>3, <2>4, <2>5
<1> QED
  BY <1>5, <1>6

LEMMA WithoutIs ==
  ASSUME NEW gone, list \in Seq(Searches)
  PROVE  /\ Without(gone) \in Seq(Searches)
         /\ \A i \in DOMAIN Without(gone) :
              \E j \in DOMAIN list : Without(gone)[i] = list[j] /\ list[j] \notin gone
<1> DEFINE left == {i \in DOMAIN list : list[i] \notin gone}
           nth(n) == CHOOSE i \in left : Cardinality({j \in left : j <= i}) = n
<1>1. left \in SUBSET Nat /\ IsFiniteSet(left)
  <2>1. DOMAIN list = 1 .. Len(list) /\ Len(list) \in Nat
    OBVIOUS
  <2>2. IsFiniteSet(1 .. Len(list))
    BY <2>1, FS_Interval
  <2>3. left \subseteq 1 .. Len(list)
    BY <2>1
  <2> QED
    BY <2>2, <2>3, FS_Subset
<1>2. Without(gone) = [n \in 1 .. Cardinality(left) |-> list[nth(n)]]
  BY DEF Without
<1>3. Cardinality(left) \in Nat
  BY <1>1, FS_CardinalityType
<1>4. \A n \in 1 .. Cardinality(left) : nth(n) \in left
  <2> HIDE DEF left
  <2> QED
    BY <1>1, NthExists
<1>5. \A n \in 1 .. Cardinality(left) : nth(n) \in DOMAIN list /\ list[nth(n)] \notin gone
  BY <1>4
<1>6. \A i \in DOMAIN list : list[i] \in Searches
  OBVIOUS
<1> HIDE DEF left, nth
<1> QED
  BY <1>2, <1>3, <1>5, <1>6

LEMMA FindIs ==
  ASSUME NEW id, list \in Seq(Searches)
  PROVE  Find(id) = 0 \/ InList(Find(id))
<1> DEFINE found == {i \in DOMAIN list : search[list[i]].id = id}
<1>1. found \in SUBSET Nat
  OBVIOUS
<1>2. Find(id) = IF found = {} THEN 0 ELSE list[Min(found)]
  BY DEF Find
<1>3. found \subseteq DOMAIN list
  OBVIOUS
<1> HIDE DEF found
<1> QED
  BY <1>1, <1>2, <1>3, MinIs DEF InList

LEMMA InsertedIs ==
  ASSUME NEW k \in Searches, NEW n \in Nat, list \in Seq(Searches), n \in 1 .. Len(list) + 1
  PROVE  /\ InsertAt(list, n, k) \in Seq(Searches)
         /\ \A i \in DOMAIN InsertAt(list, n, k) :
              InsertAt(list, n, k)[i] = k \/ \E j \in DOMAIN list : InsertAt(list, n, k)[i] = list[j]
<1>1. PICK l \in Nat : l = Len(list) /\ DOMAIN list = 1 .. l
  OBVIOUS
<1> DEFINE a == SubSeq(list, 1, n - 1)
           b == SubSeq(list, n, l)
<1>2. a \in Seq(Searches) /\ Len(a) = n - 1 /\ \A i \in 1 .. n - 1 : a[i] = list[i]
  BY <1>1
<1>3. b \in Seq(Searches) /\ Len(b) = l - n + 1 /\ \A i \in 1 .. l - n + 1 : b[i] = list[n + i - 1]
  BY <1>1
<1>4. InsertAt(list, n, k) = a \o <<k>> \o b
  BY <1>1 DEF InsertAt
<1> HIDE DEF a, b
<1>5. PICK c \in Seq(Searches) : c = a \o <<k>>
  <2>1. <<k>> \in Seq(Searches)
    OBVIOUS
  <2>2. a \o <<k>> \in Seq(Searches)
    BY <1>2, <2>1, ConcatProperties
  <2> QED
    BY <2>2
<1>6. Len(c) = n /\ c[n] = k /\ \A i \in 1 .. n - 1 : c[i] = a[i]
  BY <1>2, <1>5
<1>7. c \o b \in Seq(Searches) /\ DOMAIN (c \o b) = 1 .. n + (l - n + 1)
      /\ \A i \in 1 .. n + (l - n + 1) : (c \o b)[i] = IF i <= n THEN c[i] ELSE b[i - n]
  BY <1>1, <1>3, <1>6
<1>8. ASSUME NEW i \in 1 .. n + (l - n + 1)
      PROVE  (c \o b)[i] = k \/ \E j \in DOMAIN list : (c \o b)[i] = list[j]
  <2>1. CASE i = n
    BY <1>6, <1>7, <2>1
  <2>2. CASE i < n
    <3>1. i \in 1 .. n - 1 /\ i \in DOMAIN list
      BY <1>1, <2>2
    <3> QED
      BY <1>2, <1>6, <1>7, <2>2, <3>1
  <2>3. CASE i > n
    <3>1. i - n \in 1 .. l - n + 1 /\ n + (i - n) - 1 \in DOMAIN list
      BY <1>1, <2>3
    <3> QED
      BY <1>3, <1>7, <2>3, <3>1
  <2>4. i = n \/ i < n \/ i > n
    BY <1>1
  <2> QED
    BY <2>1, <2>2, <2>3, <2>4
<1> QED
  BY <1>4, <1>5, <1>7, <1>8

-----------------------------------------------------------------------------
(***************************************************************************)
(* The invariant.  A range is kept by the client that started its search,  *)
(* then in the queue, then with a thread that scores it, and finished:     *)
(* always in one place.  A search waits for as many ranges as are left of  *)
(* it, and the profiles that are not scored are those of the ranges that   *)
(* wait.                                                                   *)
(***************************************************************************)
In(s, x) == \E i \in DOMAIN s : s[i] = x
Distinct(s) == \A i \in DOMAIN s, j \in DOMAIN s : s[i] = s[j] => i = j

SearchSet ==
  [state : {"none", "made", "freed"}, id : Nat, pending : Nat, inUse : Nat, merged : BOOLEAN,
   marked : BOOLEAN, top : Profiles, scored : [Profiles -> Nat]]
WorkerSet == [at : {"wait", "score", "finish"}, job : RangeSet \cup {NoRange}]
ClientSet ==
  [at : {"idle", "list", "push", "take", "bump", "refree", "status", "merge", "reply"},
   search : {0} \cup Searches, id : Nat, ranges : Seq(RangeSet), use : {0} \cup Searches]

Types ==
  /\ nextSearchId \in Nat /\ top \in Profiles /\ starts \in 0 .. MaxStarts
  /\ search \in [Searches -> SearchSet] /\ list \in Seq(Searches) /\ queue \in Seq(RangeSet)
  /\ worker \in [Threads -> WorkerSet] /\ client \in [Clients -> ClientSet]
  /\ \A t \in Threads : worker[t].at # "wait" => worker[t].job \in RangeSet

Made(k) == search[k].state = "made"
Pushes(c) == client[c].at \in {"list", "push"}
Uses(c) == client[c].at \in {"status", "merge", "reply"}

\* Where a range is.
InQueue(j) == In(queue, j)
Kept(j) == \E c \in Clients : In(client[c].ranges, j)
Held(j) == \E t \in Threads : worker[t].at # "wait" /\ worker[t].job = j
Scoring(j) == \E t \in Threads : worker[t].at = "score" /\ worker[t].job = j

Somewhere(j) == InQueue(j) \/ Kept(j) \/ Held(j)
Waits(j) == InQueue(j) \/ Kept(j) \/ Scoring(j)
Left(k) == {j \in RangeSet : j.search = k /\ Somewhere(j)}

ListInv ==
  /\ \A k \in Searches : k > starts <=> search[k].state = "none"
  /\ \A i \in DOMAIN list : Made(list[i])

\* Whoever pushes has ranges of a search of its own, and nobody else has any.
StartInv ==
  /\ \A c \in Clients :
       /\ Pushes(c) => /\ client[c].search \in 1 .. starts /\ client[c].ranges # <<>>
                       /\ \A j \in RangeSet : In(client[c].ranges, j) => j.search = client[c].search
       /\ ~ Pushes(c) => client[c].ranges = <<>>
       /\ Uses(c) => client[c].use \in 1 .. starts
  /\ \A c \in Clients, d \in Clients :
       Pushes(c) /\ Pushes(d) /\ c # d => client[c].search # client[d].search

\* A search that is not listed yet is known to nobody else.
FreshInv ==
  \A c \in Clients : client[c].at = "list" =>
    /\ Made(client[c].search) /\ ~ InList(client[c].search)
    /\ \A d \in Clients : Uses(d) => client[d].use # client[c].search
    /\ \A j \in RangeSet : InQueue(j) \/ Held(j) => j.search # client[c].search

\* Every range is in one place.
JobInv ==
  /\ Distinct(queue)
  /\ \A t \in Threads, u \in Threads :
       worker[t].at # "wait" /\ worker[u].at # "wait" /\ worker[t].job = worker[u].job => t = u
  /\ \A c \in Clients : Distinct(client[c].ranges)
  /\ \A j \in RangeSet : /\ InQueue(j) => ~ Kept(j) /\ ~ Held(j)
                         /\ Kept(j) => ~ Held(j)
                         /\ Somewhere(j) => j.search \in 1 .. starts

Counted(k) ==
  /\ IsFiniteSet(Left(k)) /\ search[k].pending = Cardinality(Left(k))
  /\ search[k].merged => search[k].pending = 0
  /\ search[k].pending <= search[k].inUse

Covers(j, p) == j.low <= p /\ (j.high # 0 => p <= j.high)

Covered(k) ==
  /\ search[k].top <= top
  /\ \A p \in Profiles : search[k].scored[p] \in {0, 1}
  /\ \A j \in Left(k) : Waits(j) => \A p \in Profiles : Covers(j, p) => search[k].scored[p] = 0
  /\ \A p \in 0 .. search[k].top :
       search[k].scored[p] = 0 => \E j \in Left(k) : Waits(j) /\ Covers(j, p)
  /\ \A i \in Left(k), j \in Left(k) : i # j => \A p \in Profiles : ~ (Covers(i, p) /\ Covers(j, p))

RangeInv == \A k \in Searches : Made(k) => Counted(k) /\ Covered(k)

\* What is going to be used was not freed, or was cut.
Busy(k) ==
  \/ \E j \in RangeSet : (InQueue(j) \/ Held(j)) /\ j.search = k
  \/ \E c \in Clients : Pushes(c) /\ client[c].search = k
  \/ \E c \in Clients : Uses(c) /\ client[c].use = k

UseInv == \A k \in Searches : Busy(k) => Alive(k) \/ k \in cut

\* Nor was the search whose mutex a thread is to unlock, which is not one that is being
\* started; what is freed twice was cut.
HoldInv ==
  /\ held \in [Threads -> {0} \cup 1 .. starts]
  /\ \A t \in Threads : held[t] # 0 => worker[t] = Idle /\ (Alive(held[t]) \/ held[t] \in cut)
  /\ \A c \in Clients : client[c].at = "list" => Unlocked(client[c].search)
  /\ \A c \in Clients : client[c].at = "refree" => client[c].search \in Searches \cap cut

SInv == Types /\ ListInv /\ StartInv /\ FreshInv /\ JobInv /\ RangeInv /\ UseInv

\* A sequence whose head is taken off, and one to which an element is added.
LEMMA HeadTailIn ==
  ASSUME NEW S, NEW s \in Seq(S), s # <<>>
  PROVE  /\ Head(s) \in S /\ Tail(s) \in Seq(S)
         /\ \A x : In(s, x) <=> x = Head(s) \/ In(Tail(s), x)
         /\ Distinct(s) => Distinct(Tail(s)) /\ ~ In(Tail(s), Head(s))
<1>1. PICK l \in Nat \ {0} : l = Len(s) /\ DOMAIN s = 1 .. l
  BY EmptySeq
<1>2. PICK h \in S, t \in Seq(S) :
        /\ h = Head(s) /\ t = Tail(s) /\ h = s[1] /\ DOMAIN t = 1 .. l - 1
        /\ \A i \in 1 .. l - 1 : t[i] = s[i + 1]
  <2>1. Head(s) \in S /\ Head(s) = s[1] /\ Tail(s) \in Seq(S) /\ Len(Tail(s)) = l - 1
        /\ \A i \in 1 .. Len(Tail(s)) : Tail(s)[i] = s[i + 1]
    BY <1>1, HeadTailProperties
  <2>2. DOMAIN Tail(s) = 1 .. Len(Tail(s))
    BY <2>1, LenProperties
  <2> QED
    BY <2>1, <2>2, Zenon
<1>3. ASSUME NEW x PROVE In(s, x) <=> x = h \/ In(t, x)
  <2>1. ASSUME In(s, x) PROVE x = h \/ In(t, x)
    <3>1. PICK i \in 1 .. l : s[i] = x
      BY <1>1, <2>1 DEF In
    <3>2. CASE i = 1
      BY <1>2, <3>1, <3>2
    <3>3. CASE i # 1
      <4>1. i - 1 \in 1 .. l - 1 /\ (i - 1) + 1 = i
        BY <1>1, <3>3
      <4> QED
        BY <1>2, <3>1, <4>1 DEF In
    <3> QED
      BY <3>2, <3>3
  <2>2. x = h => In(s, x)
    BY <1>1, <1>2 DEF In
  <2>3. ASSUME In(t, x) PROVE In(s, x)
    <3>1. PICK i \in 1 .. l - 1 : t[i] = x
      BY <1>2, <2>3 DEF In
    <3>2. i + 1 \in 1 .. l /\ s[i + 1] = x
      BY <1>1, <1>2, <3>1
    <3> QED
      BY <1>1, <3>2 DEF In
  <2> QED
    BY <2>1, <2>2, <2>3
<1>4. ASSUME Distinct(s) PROVE Distinct(t) /\ ~ In(t, h)
  <2>1. ASSUME NEW i \in 1 .. l - 1, NEW j \in 1 .. l - 1, t[i] = t[j] PROVE i = j
    <3>1. i + 1 \in 1 .. l /\ j + 1 \in 1 .. l /\ s[i + 1] = s[j + 1]
      BY <1>1, <1>2, <2>1
    <3>2. i + 1 = j + 1
      BY <1>1, <1>4, <3>1 DEF Distinct
    <3> QED
      BY <3>2
  <2>2. ASSUME NEW i \in 1 .. l - 1, t[i] = h PROVE FALSE
    <3>1. i + 1 \in 1 .. l /\ 1 \in 1 .. l /\ s[i + 1] = s[1] /\ i + 1 # 1
      BY <1>1, <1>2, <2>2
    <3> QED
      BY <1>1, <1>4, <3>1 DEF Distinct
  <2> QED
    BY <1>2, <2>1, <2>2 DEF In, Distinct
<1>5. \A x : In(s, x) <=> x = h \/ In(t, x)
  BY <1>3, Zenon
<1>6. Distinct(s) => Distinct(t) /\ ~ In(t, h)
  BY <1>4, Zenon
<1>7. Head(s) = h /\ Tail(s) = t
  BY <1>2, Zenon
<1> QED
  BY <1>5, <1>6, <1>7, Zenon

LEMMA AppendIn ==
  ASSUME NEW S, NEW s \in Seq(S), NEW x \in S
  PROVE  /\ Append(s, x) \in Seq(S)
         /\ \A y : In(Append(s, x), y) <=> In(s, y) \/ y = x
         /\ Distinct(s) /\ ~ In(s, x) => Distinct(Append(s, x))
<1>1. PICK l \in Nat : l = Len(s) /\ DOMAIN s = 1 .. l
  OBVIOUS
<1>2. PICK a \in Seq(S) : /\ a = Append(s, x) /\ DOMAIN a = 1 .. l + 1 /\ a[l + 1] = x
                          /\ \A i \in 1 .. l : a[i] = s[i]
  <2>1. /\ Append(s, x) \in Seq(S) /\ Append(s, x)[l + 1] = x
        /\ DOMAIN Append(s, x) = 1 .. l + 1 /\ \A i \in 1 .. l : Append(s, x)[i] = s[i]
    BY <1>1, AppendProperties
  <2> QED
    BY <2>1, Zenon
<1>3. ASSUME NEW y PROVE In(a, y) <=> In(s, y) \/ y = x
  <2>1. \A i \in 1 .. l + 1 : i \in 1 .. l \/ i = l + 1
    BY <1>1
  <2>2. l + 1 \in 1 .. l + 1 /\ \A i \in 1 .. l : i \in 1 .. l + 1
    BY <1>1
  <2> QED
    BY <1>1, <1>2, <2>1, <2>2 DEF In
<1>4. ASSUME Distinct(s), ~ In(s, x), NEW i \in 1 .. l + 1, NEW j \in 1 .. l + 1, a[i] = a[j]
      PROVE  i = j
  <2>1. CASE i = l + 1 /\ j = l + 1
    BY <2>1
  <2>2. CASE i = l + 1 /\ j \in 1 .. l
    BY <1>1, <1>2, <1>4, <2>2 DEF In
  <2>3. CASE j = l + 1 /\ i \in 1 .. l
    BY <1>1, <1>2, <1>4, <2>3 DEF In
  <2>4. CASE i \in 1 .. l /\ j \in 1 .. l
    BY <1>1, <1>2, <1>4, <2>4 DEF Distinct
  <2> QED
    BY <2>1, <2>2, <2>3, <2>4
<1>5. \A y : In(a, y) <=> In(s, y) \/ y = x
  BY <1>3, Zenon
<1>6. Distinct(s) /\ ~ In(s, x) => Distinct(a)
  BY <1>2, <1>4 DEF Distinct
<1>7. Append(s, x) = a
  BY <1>2, Zenon
<1> QED
  BY <1>5, <1>6, <1>7, Zenon

\* What is in use according to the model.
LEMMA InUseIsBusy ==
  ASSUME Types, StartInv, HoldInv
  PROVE  /\ InUse \subseteq Searches
         /\ \A k \in InUse :
              \/ Busy(k)
              \/ \E t \in Threads : held[t] # 0 /\ held[t] = k
              \/ \E c \in Clients : client[c].at = "refree" /\ client[c].search = k
<1>1. \A i \in DOMAIN queue : queue[i] \in RangeSet
  BY DEF Types
<1>2. \A t \in Threads : worker[t].at # "wait" => worker[t].job \in RangeSet
  BY DEF Types
<1>3. \A j \in RangeSet : j.search \in Searches
  BY DEF RangeSet
<1>4. \A c \in Clients : /\ Pushes(c) => client[c].search \in Searches
                         /\ Uses(c) => client[c].use \in Searches
  <2>1. 1 .. starts \subseteq Searches
    BY SearchEngineAssumption DEF Types, Searches
  <2> QED
    BY <2>1 DEF StartInv
<1>5. \A t \in Threads : held[t] # 0 => held[t] \in Searches
  BY SearchEngineAssumption DEF HoldInv, Types, Searches
<1>6. \A c \in Clients : client[c].at = "refree" => client[c].search \in Searches
  BY DEF HoldInv
<1> SUFFICES ASSUME NEW k \in InUse
             PROVE  /\ k \in Searches
                    /\ \/ Busy(k)
                       \/ \E t \in Threads : held[t] # 0 /\ held[t] = k
                       \/ \E c \in Clients : client[c].at = "refree" /\ client[c].search = k
  OBVIOUS
<1>7. CASE \E i \in DOMAIN queue : k = queue[i].search
  BY <1>1, <1>3, <1>7 DEF Busy, InQueue, In
<1>8. CASE \E t \in Threads : worker[t].at # "wait" /\ k = worker[t].job.search
  BY <1>2, <1>3, <1>8 DEF Busy, Held
<1>9. CASE \E t \in Threads : held[t] # 0 /\ k = held[t]
  BY <1>5, <1>9
<1>10. CASE \E c \in Clients : client[c].at \in {"list", "push", "refree"} /\ k = client[c].search
  BY <1>4, <1>6, <1>10 DEF Busy, Pushes
<1>11. CASE \E c \in Clients : client[c].at \in {"status", "merge", "reply"} /\ k = client[c].use
  BY <1>4, <1>11 DEF Busy, Uses
<1> QED
  BY <1>7, <1>8, <1>9, <1>10, <1>11 DEF InUse

\* What is in the list was made, and what was made is among the searches started.
LEMMA MadeStarted ==
  ASSUME Types, ListInv
  PROVE  /\ 1 .. starts \subseteq Searches
         /\ \A k \in Searches : Made(k) => k \in 1 .. starts
         /\ \A k : InList(k) => k \in Searches /\ Made(k) /\ k \in 1 .. starts
<1>1. starts \in Nat /\ MaxStarts \in Nat /\ starts <= MaxStarts
  BY SearchEngineAssumption DEF Types
<1>2. ASSUME NEW k \in Searches, Made(k) PROVE k \in 1 .. starts
  <2>1. k \in Nat /\ k >= 1 /\ ~ (k > starts)
    BY <1>1, <1>2 DEF ListInv, Made, Searches
  <2> QED
    BY <1>1, <2>1
<1>3. \A i \in DOMAIN list : list[i] \in Searches /\ Made(list[i])
  BY DEF Types, ListInv
<1> QED
  BY <1>1, <1>2, <1>3 DEF InList, Searches

\* A listed search that is busy has ranges left, or a request uses it.
LEMMA ListedBusy ==
  ASSUME SInv, NEW k, InList(k), Busy(k)
  PROVE  search[k].pending > 0 \/ InHand(k)
<1>1. Types /\ StartInv /\ RangeInv
  BY DEF SInv
<1>2. k \in Searches /\ Made(k)
  BY MadeStarted DEF SInv
<1>3. search[k].pending \in Nat /\ Counted(k)
  BY <1>1, <1>2 DEF Types, SearchSet, RangeInv
<1>4. SUFFICES ASSUME search[k].pending = 0 PROVE \E c \in Clients : client[c].use = k
  BY <1>3 DEF InHand
<1>5. Left(k) = {}
  BY <1>3, <1>4, FS_EmptySet DEF Counted
<1>6. \A j \in RangeSet : ~ ((InQueue(j) \/ Held(j)) /\ j.search = k)
  BY <1>5 DEF Left, Somewhere
<1>7. ASSUME NEW c \in Clients, Pushes(c), client[c].search = k PROVE FALSE
  <2>1. PICK r \in Seq(RangeSet) : r = client[c].ranges
    BY <1>1 DEF Types, ClientSet
  <2>2. r # <<>> /\ \A j \in RangeSet : In(r, j) => j.search = k
    BY <1>1, <1>7, <2>1 DEF StartInv
  <2>3. Head(r) \in RangeSet /\ In(r, Head(r))
    BY <2>2, HeadTailIn
  <2> QED
    BY <1>5, <2>1, <2>2, <2>3 DEF Left, Somewhere, Kept
<1> QED
  BY <1>6, <1>7 DEF Busy

\* The steps that move no range.
LEMMA RangesStay ==
  ASSUME UNCHANGED <<queue, worker>>, \A c \in Clients : client'[c].ranges = client[c].ranges
  PROVE  /\ \A j : /\ InQueue(j)' <=> InQueue(j)
                   /\ Kept(j)' <=> Kept(j)
                   /\ Held(j)' <=> Held(j)
                   /\ Waits(j)' <=> Waits(j)
                   /\ Somewhere(j)' <=> Somewhere(j)
         /\ \A k : Left(k)' = Left(k)
<1>1. \A j : /\ InQueue(j)' <=> InQueue(j)
             /\ Kept(j)' <=> Kept(j)
             /\ Held(j)' <=> Held(j)
             /\ Scoring(j)' <=> Scoring(j)
  BY DEF InQueue, In, Kept, Held, Scoring
<1>2. \A j : (Waits(j)' <=> Waits(j)) /\ (Somewhere(j)' <=> Somewhere(j))
  BY <1>1 DEF Waits, Somewhere
<1>3. \A k : Left(k)' = Left(k)
  BY <1>2 DEF Left
<1> QED
  BY <1>1, <1>2, <1>3

\* A search whose ranges do not change and which is not scored.
LEMMA SearchStays ==
  ASSUME NEW k \in Searches, Types, Types', Counted(k), Covered(k),
         Left(k)' = Left(k), \A j \in Left(k) : Waits(j)' <=> Waits(j), top <= top',
         search'[k].pending = search[k].pending, search'[k].top = search[k].top,
         search'[k].scored = search[k].scored,
         search'[k].merged => search[k].merged \/ search[k].pending = 0,
         search[k].pending <= search'[k].inUse
  PROVE  Counted(k)' /\ Covered(k)'
<1>1. Counted(k)'
  BY DEF Counted
<1>2. search'[k].top <= top'
  <2>1. search[k].top \in Nat /\ top \in Nat /\ top' \in Nat
    BY DEF Types, SearchSet, Profiles
  <2> QED
    BY <2>1 DEF Covered
<1>3. Covered(k)'
  BY <1>2 DEF Covered, Covers
<1> QED
  BY <1>1, <1>3

\* An empty server.
Empty ==
  /\ nextSearchId = 1
  /\ search = [k \in Searches |-> NoSearch] /\ list = <<>> /\ queue = <<>>
  /\ worker = [t \in Threads |-> Idle] /\ held = [t \in Threads |-> 0]
  /\ client = [c \in Clients |-> NoClient]
  /\ top = FirstTop /\ starts = 0

LEMMA EmptySInv == Empty => SInv
<1> SUFFICES ASSUME Empty PROVE SInv
  OBVIOUS
<1> USE DEF Empty
<1>1. Types
  <2>1. NoSearch \in SearchSet /\ NoClient \in ClientSet /\ Idle \in WorkerSet
    BY SearchEngineAssumption
       DEF NoSearch, NoClient, Idle, SearchSet, ClientSet, WorkerSet, Profiles, NoRange
  <2> QED
    BY <2>1, SearchEngineAssumption DEF Types, Profiles, Idle
<1>2. \A c \in Clients : client[c].at = "idle" /\ client[c].ranges = <<>>
  BY DEF NoClient
<1>3. \A t \in Threads : worker[t].at = "wait"
  BY DEF Idle
<1>4. \A k \in Searches : search[k].state = "none" /\ k > 0
  BY DEF NoSearch, Searches
<1>5. \A x : ~ In(<<>>, x)
  BY DEF In
<1>6. ListInv
  BY <1>4 DEF ListInv
<1>7. StartInv /\ FreshInv
  BY <1>2 DEF StartInv, FreshInv, Pushes, Uses
<1>8. JobInv
  BY <1>2, <1>3, <1>5 DEF JobInv, Distinct, InQueue, Kept, Held, Somewhere
<1>9. RangeInv
  BY <1>4 DEF RangeInv, Made
<1>10. UseInv
  BY <1>4 DEF UseInv, Alive
<1> QED
  BY <1>1, <1>6, <1>7, <1>8, <1>9, <1>10 DEF SInv

\* Of the searches at most the results of finished ones are merged.
SearchesKept ==
  /\ search' \in [Searches -> SearchSet]
  /\ \A k \in Searches :
       /\ search'[k].state = search[k].state /\ search'[k].top = search[k].top
       /\ search'[k].pending = search[k].pending /\ search'[k].scored = search[k].scored
       /\ search'[k].merged => search[k].merged \/ search[k].pending = 0
       /\ search'[k].inUse = search[k].inUse \/ (search[k].pending = 0 /\ search'[k].inUse = 0)

\* A step of a request that moves no range: it may merge the results of a finished search,
\* list a search, and use one that is listed.
LEMMA ClientStepKeeps ==
  ASSUME SInv, NEW c \in Clients, NEW r \in ClientSet, client' = [client EXCEPT ![c] = r],
         UNCHANGED <<queue, worker, top, starts, cut>>, nextSearchId' \in Nat,
         SearchesKept,
         list' \in Seq(Searches),
         \A i \in DOMAIN list' :
           InList(list'[i]) \/ (list'[i] = r.search /\ client[c].at = "list" /\ r.at # "list"),
         r.ranges = client[c].ranges, r.search = client[c].search,
         r.at \in {"list", "push"} <=> Pushes(c),
         r.at = "list" => client[c].at = "list",
         r.at \in {"status", "merge", "reply"} => InList(r.use) \/ (Uses(c) /\ r.use = client[c].use)
  PROVE  SInv'
<1>1. \A d \in Clients : client'[d] = IF d = c THEN r ELSE client[d]
  BY DEF SInv, Types
<1>2. \A d \in Clients : /\ client'[d].ranges = client[d].ranges
                         /\ client'[d].search = client[d].search
                         /\ Pushes(d)' <=> Pushes(d)
                         /\ client'[d].at = "list" => client[d].at = "list"
                         /\ Uses(d)' => \/ InList(client'[d].use)
                                        \/ Uses(d) /\ client'[d].use = client[d].use
  BY <1>1 DEF Pushes, Uses
<1>3. Types'
  BY <1>1 DEF SInv, Types, SearchesKept
<1>4. /\ \A j : /\ InQueue(j)' <=> InQueue(j)
                /\ Kept(j)' <=> Kept(j)
                /\ Held(j)' <=> Held(j)
                /\ Waits(j)' <=> Waits(j)
                /\ Somewhere(j)' <=> Somewhere(j)
      /\ \A k : Left(k)' = Left(k)
  BY <1>2, RangesStay
<1>5. \A k \in Searches :
        /\ search'[k].state = search[k].state /\ search'[k].top = search[k].top
        /\ search'[k].pending = search[k].pending /\ search'[k].scored = search[k].scored
        /\ search'[k].merged => search[k].merged \/ search[k].pending = 0
        /\ search'[k].inUse = search[k].inUse \/ (search[k].pending = 0 /\ search'[k].inUse = 0)
  BY DEF SearchesKept
<1>6. \A k \in Searches : Made(k)' = Made(k) /\ Alive(k)' = Alive(k)
  BY <1>5 DEF Made, Alive
<1>7. /\ 1 .. starts \subseteq Searches
      /\ \A k : InList(k) => k \in Searches /\ Made(k) /\ k \in 1 .. starts
  BY MadeStarted DEF SInv
<1>8. ListInv'
  <2>1. ASSUME NEW i \in DOMAIN list' PROVE Made(list'[i]) /\ list'[i] \in Searches
    <3>1. CASE InList(list'[i])
      BY <1>7, <3>1
    <3>2. CASE ~ InList(list'[i])
      <4>1. list'[i] = client[c].search /\ client[c].at = "list"
        BY <3>2
      <4>2. Made(client[c].search) /\ client[c].search \in 1 .. starts
        BY <4>1 DEF SInv, FreshInv, StartInv, Pushes
      <4> QED
        BY <1>7, <4>1, <4>2
    <3> QED
      BY <3>1, <3>2
  <2> QED
    BY <1>5, <1>6, <2>1 DEF SInv, ListInv
<1>9. StartInv'
  <2>1. ASSUME NEW d \in Clients
        PROVE  /\ Pushes(d) => /\ client[d].search \in 1 .. starts /\ client[d].ranges # <<>>
                               /\ \A j \in RangeSet :
                                    In(client[d].ranges, j) => j.search = client[d].search
               /\ ~ Pushes(d) => client[d].ranges = <<>>
               /\ Uses(d) => client[d].use \in 1 .. starts
    BY DEF SInv, StartInv
  <2>2. \A d \in Clients : Uses(d)' => client'[d].use \in 1 .. starts
    BY <1>2, <1>7, <2>1
  <2>3. \A d \in Clients, e \in Clients :
          Pushes(d)' /\ Pushes(e)' /\ d # e => client'[d].search # client'[e].search
    BY <1>2 DEF SInv, StartInv
  <2> HIDE DEF Pushes, Uses
  <2> QED
    BY <1>2, <2>1, <2>2, <2>3 DEF StartInv
<1>10. FreshInv'
  <2>1. ASSUME NEW d \in Clients, client'[d].at = "list", NEW k, k = client[d].search
        PROVE  /\ Made(k)' /\ ~ InList(k)'
               /\ \A e \in Clients : Uses(e)' => client'[e].use # k
               /\ \A j \in RangeSet : InQueue(j) \/ Held(j) => j.search # k
    <3>1. client[d].at = "list"
      BY <1>2, <2>1
    <3>2. /\ Made(k) /\ ~ InList(k)
          /\ \A e \in Clients : Uses(e) => client[e].use # k
          /\ \A j \in RangeSet : InQueue(j) \/ Held(j) => j.search # k
      BY <2>1, <3>1 DEF SInv, FreshInv
    <3>3. k \in Searches
      BY <1>7, <2>1, <3>1 DEF SInv, StartInv, Pushes
    <3>4. ASSUME NEW i \in DOMAIN list', list'[i] = k PROVE FALSE
      <4>1. k = client[c].search /\ client[c].at = "list" /\ d # c
        BY <1>1, <2>1, <3>2, <3>4
      <4> QED
        BY <2>1, <3>1, <4>1 DEF SInv, StartInv, Pushes
    <3>5. \A e \in Clients : Uses(e)' => client'[e].use # k
      BY <1>2, <3>2
    <3> QED
      BY <1>6, <3>2, <3>3, <3>4, <3>5 DEF InList
  <2>2. \A d \in Clients : client'[d].search = client[d].search
    BY <1>2
  <2> QED
    BY <1>4, <2>1, <2>2 DEF FreshInv, Made, InList
<1>11. JobInv'
  <2>1. Distinct(queue)' /\ \A d \in Clients : Distinct(client'[d].ranges)
    BY <1>2 DEF SInv, JobInv, Distinct
  <2> QED
    BY <1>4, <2>1 DEF SInv, JobInv
<1>12. RangeInv'
  <2>1. SUFFICES ASSUME NEW k \in Searches, Made(k), Counted(k), Covered(k)
                 PROVE  Counted(k)' /\ Covered(k)'
    BY <1>6 DEF RangeInv, SInv
  <2>2. search[k].pending <= search'[k].inUse /\ top <= top'
    <3>1. search[k] \in SearchSet /\ top \in Nat
      BY DEF SInv, Types, Profiles
    <3>2. search[k].pending \in Nat /\ search[k].pending <= search[k].inUse
      BY <2>1, <3>1 DEF Counted, SearchSet
    <3>3. search'[k].inUse = search[k].inUse \/ (search[k].pending = 0 /\ search'[k].inUse = 0)
      BY <1>5
    <3> QED
      BY <3>1, <3>2, <3>3
  <2> QED
    BY <1>3, <1>4, <1>5, <2>1, <2>2, SearchStays DEF SInv
<1>13. UseInv'
  <2>1. \A k \in Searches : Busy(k)' => Busy(k) \/ InList(k)
    BY <1>2, <1>4 DEF Busy
  <2>2. \A k \in Searches : InList(k) => Alive(k)
    BY <1>7 DEF Made, Alive
  <2> QED
    BY <1>6, <2>1, <2>2 DEF SInv, UseInv
<1> QED
  BY <1>3, <1>8, <1>9, <1>10, <1>11, <1>12, <1>13 DEF SInv

LEMMA SearchesSame == ASSUME Types, UNCHANGED search PROVE SearchesKept
BY DEF Types, SearchesKept, SearchSet

LEMMA AddToListKeeps ==
  ASSUME SInv, NEW c \in Clients, AddToList(c)
  PROVE  SInv'
<1> DEFINE r == [client[c] EXCEPT !.at = "push"]
           k == client[c].search
           smaller == {i \in DOMAIN list : search[list[i]].id < search[k].id}
           n == IF smaller = {} THEN Len(list) + 1 ELSE Min(smaller)
<1>1. /\ client[c].at = "list" /\ client' = [client EXCEPT ![c] = r] /\ list' = InsertAt(list, n, k)
      /\ UNCHANGED <<search, queue, worker, top, starts, cut, nextSearchId>>
  BY DEF AddToList, SetClient, history
<1>2. Types /\ ListInv /\ StartInv
  BY DEF SInv
<1>3. client[c] \in ClientSet
  BY <1>2 DEF Types
<1>4. r \in ClientSet /\ r.at = "push" /\ r.ranges = client[c].ranges /\ r.search = client[c].search
  BY <1>3 DEF ClientSet
<1>5. k \in Searches
  BY <1>1, <1>2, MadeStarted DEF StartInv, Pushes
<1>6. n \in 1 .. Len(list) + 1 /\ n \in Nat
  <2>1. Len(list) \in Nat /\ DOMAIN list = 1 .. Len(list)
    BY <1>2 DEF Types
  <2>2. smaller \in SUBSET Nat /\ smaller \subseteq 1 .. Len(list)
    BY <2>1
  <2> HIDE DEF smaller
  <2>3. smaller # {} => Min(smaller) \in smaller
    BY <2>2, MinIs
  <2>4. CASE smaller = {}
    BY <2>1, <2>4
  <2>5. CASE smaller # {}
    <3>1. Min(smaller) \in 1 .. Len(list) /\ n = Min(smaller)
      BY <2>2, <2>3, <2>5
    <3> QED
      BY <2>1, <3>1
  <2> QED
    BY <2>4, <2>5
<1> HIDE DEF n, k, r
<1>7. /\ list' \in Seq(Searches)
      /\ \A i \in DOMAIN list' : list'[i] = k \/ \E j \in DOMAIN list : list'[i] = list[j]
  BY <1>1, <1>2, <1>5, <1>6, InsertedIs DEF Types
<1>8. \A i \in DOMAIN list' : InList(list'[i]) \/ list'[i] = k
  BY <1>7 DEF InList
<1>9. nextSearchId' \in Nat
  BY <1>1, <1>2 DEF Types
<1> QED
  BY <1>1, <1>2, <1>4, <1>7, <1>8, <1>9, ClientStepKeeps, SearchesSame DEF Pushes, k

\* The steps that only change the client.
LEMMA RequestSteps ==
  ASSUME SInv, NEW c \in Clients, NEW r \in ClientSet, client' = [client EXCEPT ![c] = r],
         UNCHANGED <<list, queue, worker, top, starts, cut>>, nextSearchId' \in Nat,
         SearchesKept,
         r.ranges = client[c].ranges, r.search = client[c].search,
         ~ Pushes(c), r.at \notin {"list", "push"},
         r.at \in {"status", "merge", "reply"} => InList(r.use) \/ (Uses(c) /\ r.use = client[c].use)
  PROVE  SInv'
<1>1. list' \in Seq(Searches) /\ \A i \in DOMAIN list' : InList(list'[i])
  BY DEF SInv, Types, InList
<1> QED
  BY <1>1, ClientStepKeeps

LEMMA TakeIdKeeps ==
  ASSUME SInv, NEW c \in Clients, TakeId(c) \/ BumpId(c)
  PROVE  SInv'
<1>1. Types /\ client[c] \in ClientSet /\ nextSearchId \in Nat
  BY DEF SInv, Types
<1>2. CASE TakeId(c)
  <2> DEFINE r == [client[c] EXCEPT !.at = "bump", !.id = nextSearchId]
  <2>1. /\ client[c].at = "take" /\ client' = [client EXCEPT ![c] = r]
        /\ UNCHANGED <<search, list, queue, worker, top, starts, cut, nextSearchId>>
    BY <1>2 DEF TakeId, SetClient, history
  <2>2. r \in ClientSet /\ r.at = "bump" /\ r.ranges = client[c].ranges /\ r.search = client[c].search
    BY <1>1 DEF ClientSet
  <2> HIDE DEF r
  <2>3. SearchesKept
    BY <1>1, <2>1, SearchesSame
  <2> QED
    BY <1>1, <2>1, <2>2, <2>3, RequestSteps DEF Pushes
<1>3. CASE BumpId(c)
  <2> DEFINE r == [client[c] EXCEPT !.at = "idle"]
  <2>1. /\ client[c].at = "bump" /\ client' = [client EXCEPT ![c] = r]
        /\ nextSearchId' = client[c].id + 1
        /\ UNCHANGED <<search, list, queue, worker, top, starts, cut>>
    BY <1>3 DEF BumpId, SetClient, history
  <2>2. r \in ClientSet /\ r.at = "idle" /\ r.ranges = client[c].ranges /\ r.search = client[c].search
    BY <1>1 DEF ClientSet
  <2>3. nextSearchId' \in Nat
    BY <1>1, <2>1 DEF ClientSet
  <2> HIDE DEF r
  <2>4. SearchesKept
    BY <1>1, <2>1, SearchesSame
  <2> QED
    BY <1>1, <2>1, <2>2, <2>3, <2>4, RequestSteps DEF Pushes
<1> QED
  BY <1>2, <1>3

\* A request that finds its search.
LEMMA LookupKeeps ==
  ASSUME SInv, NEW c \in Clients, NEW at \in {"status", "merge"},
         client[c].at = "idle", Find(client[c].id) # 0,
         client' = [client EXCEPT ![c] = [client[c] EXCEPT !.at = at, !.use = Find(client[c].id)]],
         UNCHANGED <<search, list, queue, worker, top, starts, cut, nextSearchId>>
  PROVE  SInv'
<1> DEFINE k == Find(client[c].id)
           r == [client[c] EXCEPT !.at = at, !.use = k]
<1>1. /\ client[c].at = "idle" /\ k # 0 /\ client' = [client EXCEPT ![c] = r]
      /\ UNCHANGED <<search, list, queue, worker, top, starts, cut, nextSearchId>>
  OBVIOUS
<1>2. Types /\ ListInv /\ client[c] \in ClientSet /\ nextSearchId \in Nat
  BY DEF SInv, Types
<1>3. InList(k) /\ k \in Searches
  BY <1>1, <1>2, FindIs, MadeStarted DEF Types
<1> HIDE DEF k
<1>4. /\ r \in ClientSet /\ r.at \in {"status", "merge"} /\ r.use = k
      /\ r.ranges = client[c].ranges /\ r.search = client[c].search
  BY <1>2, <1>3 DEF ClientSet
<1> HIDE DEF r
<1>5. SearchesKept
  BY <1>1, <1>2, SearchesSame
<1> QED
  BY <1>1, <1>2, <1>3, <1>4, <1>5, RequestSteps DEF Pushes

\* A request that has ended, as by Reply.
LEMMA EndOfRequest ==
  ASSUME SInv, NEW c \in Clients, ~ Pushes(c),
         client' = [client EXCEPT ![c] = [client[c] EXCEPT !.at = "idle", !.use = 0]],
         UNCHANGED <<search, list, queue, worker, top, starts, cut, nextSearchId>>
  PROVE  SInv'
<1> DEFINE r == [client[c] EXCEPT !.at = "idle", !.use = 0]
<1>1. Types /\ client[c] \in ClientSet /\ nextSearchId \in Nat
  BY DEF SInv, Types
<1>2. r \in ClientSet /\ r.at = "idle" /\ r.ranges = client[c].ranges /\ r.search = client[c].search
  BY <1>1 DEF ClientSet
<1> HIDE DEF r
<1>3. client' = [client EXCEPT ![c] = r]
  BY DEF r
<1>4. SearchesKept
  BY <1>1, SearchesSame
<1> QED
  BY <1>1, <1>2, <1>3, <1>4, RequestSteps DEF Pushes, Uses

LEMMA MergeKeeps ==
  ASSUME SInv, NEW c \in Clients, Merge(c)
  PROVE  SInv'
<1> DEFINE k == client[c].use
           r == [client[c] EXCEPT !.at = "reply"]
<1>1. /\ Uses(c) /\ client[c].at = "merge"
      /\ UNCHANGED <<list, queue, worker, top, starts, cut, nextSearchId>>
  BY DEF Merge, Uses, history
<1>2. Types /\ ListInv /\ StartInv /\ client[c] \in ClientSet /\ nextSearchId \in Nat
  BY DEF SInv, Types
<1>3. k \in Searches /\ search[k] \in SearchSet /\ search \in [Searches -> SearchSet]
  BY <1>1, <1>2, MadeStarted DEF StartInv, Types
<1> HIDE DEF k
<1>4. CASE search[k].pending > 0
  BY <1>1, <1>4, EndOfRequest DEF Merge, SetClient, Pushes, k
<1>5. CASE ~ (search[k].pending > 0)
  <2>1. client' = [client EXCEPT ![c] = r]
        /\ search' = [search EXCEPT ![k] = [search[k] EXCEPT !.merged = TRUE, !.inUse = 0]]
    BY <1>5 DEF Merge, SetClient, SetSearch, k
  <2>2. /\ r \in ClientSet /\ r.at = "reply" /\ r.use = k
        /\ r.ranges = client[c].ranges /\ r.search = client[c].search
    BY <1>2 DEF ClientSet, k
  <2> HIDE DEF r
  <2>3. SearchesKept
    <3>1. PICK s \in SearchSet : s = search[k]
      BY <1>3
    <3>2. PICK z : z = [s EXCEPT !.merged = TRUE, !.inUse = 0]
      OBVIOUS
    <3>3. /\ z \in SearchSet /\ z.state = s.state /\ z.top = s.top /\ z.pending = s.pending
          /\ z.scored = s.scored /\ z.inUse = 0 /\ s.pending = 0
      <4>1. s.pending = 0
        <5>1. s.pending \in Nat /\ ~ (s.pending > 0)
          BY <1>5, <3>1 DEF SearchSet
        <5> QED
          BY <5>1
      <4>2. z \in SearchSet
        BY <3>2 DEF SearchSet
      <4> QED
        BY <3>2, <4>1, <4>2 DEF SearchSet
    <3>4. \A m \in Searches : search'[m] = IF m = k THEN z ELSE search[m]
      BY <1>3, <2>1, <3>1, <3>2
    <3>5. search' \in [Searches -> SearchSet]
      BY <1>3, <2>1, <3>1, <3>2, <3>3
    <3> QED
      BY <3>1, <3>3, <3>4, <3>5 DEF SearchesKept
  <2> QED
    BY <1>1, <1>2, <2>1, <2>2, <2>3, RequestSteps DEF Pushes, k
<1> QED
  BY <1>4, <1>5

LEMMA ReplyKeeps ==
  ASSUME SInv, NEW c \in Clients, Reply(c) \/ StatusTold(c)
  PROVE  SInv'
BY EndOfRequest DEF Reply, StatusTold, SetClient, history, Pushes

\* Of the searches some are freed; of the others at most the mark changes.
FreedOnly(gone) ==
  /\ search' \in [Searches -> SearchSet]
  /\ \A k \in gone : search'[k].state = "freed"
  /\ \A k \in Searches \ gone :
       /\ search'[k].state = search[k].state /\ search'[k].top = search[k].top
       /\ search'[k].pending = search[k].pending /\ search'[k].scored = search[k].scored
       /\ search'[k].merged = search[k].merged /\ search'[k].inUse = search[k].inUse

\* Listed searches are freed and those that are busy are cut; the cache may grow.
LEMMA FreeKeeps ==
  ASSUME SInv, NEW gone \in SUBSET Searches, \A k \in gone : InList(k),
         UNCHANGED <<nextSearchId, queue, worker, client, starts>>,
         top' \in Profiles, top <= top', FreedOnly(gone), list' \in Seq(Searches),
         \A i \in DOMAIN list' : InList(list'[i]) /\ list'[i] \notin gone,
         cut \subseteq cut', \A k \in gone : Busy(k) => k \in cut'
  PROVE  SInv'
<1>1. Types'
  BY DEF SInv, Types, FreedOnly
<1>2. /\ \A j : /\ InQueue(j)' <=> InQueue(j)
                /\ Kept(j)' <=> Kept(j)
                /\ Held(j)' <=> Held(j)
                /\ Waits(j)' <=> Waits(j)
                /\ Somewhere(j)' <=> Somewhere(j)
      /\ \A k : Left(k)' = Left(k)
  BY RangesStay
<1>3. /\ 1 .. starts \subseteq Searches
      /\ \A k : InList(k) => k \in Searches /\ Made(k) /\ k \in 1 .. starts
  BY MadeStarted DEF SInv
<1>4. \A k \in Searches \ gone : Made(k)' = Made(k) /\ Alive(k)' = Alive(k)
  BY DEF FreedOnly, Made, Alive
<1>5. \A k \in gone : ~ Made(k)'
  BY DEF FreedOnly, Made
<1>6. ListInv'
  <2>1. ASSUME NEW k \in Searches PROVE k > starts <=> search'[k].state = "none"
    <3>1. CASE k \in gone
      <4>1. Made(k) /\ (k > starts <=> search[k].state = "none")
        BY <1>3, <3>1 DEF SInv, ListInv
      <4> QED
        BY <3>1, <4>1 DEF FreedOnly, Made
    <3>2. CASE k \notin gone
      BY <3>2 DEF FreedOnly, SInv, ListInv
    <3> QED
      BY <3>1, <3>2
  <2>2. \A k : InList(k) /\ k \notin gone => search'[k].state = "made"
    BY <1>3, <1>4 DEF Made
  <2>3. \A i \in DOMAIN list' : search'[list'[i]].state = "made"
    BY <2>2
  <2> QED
    BY <2>1, <2>3 DEF ListInv, Made
<1>7. StartInv'
  BY DEF SInv, StartInv, Pushes, Uses
<1>8. FreshInv'
  <2>1. ASSUME NEW d \in Clients, client[d].at = "list", NEW k, k = client[d].search
        PROVE  /\ Made(k)' /\ ~ InList(k)'
               /\ \A e \in Clients : Uses(e) => client[e].use # k
               /\ \A j \in RangeSet : InQueue(j) \/ Held(j) => j.search # k
    <3>1. /\ Made(k) /\ ~ InList(k)
          /\ \A e \in Clients : Uses(e) => client[e].use # k
          /\ \A j \in RangeSet : InQueue(j) \/ Held(j) => j.search # k
      BY <2>1 DEF SInv, FreshInv
    <3>2. k \in Searches \ gone
      BY <1>3, <2>1, <3>1 DEF SInv, StartInv, Pushes
    <3>3. \A i \in DOMAIN list' : list'[i] # k
      BY <3>1
    <3> QED
      BY <1>4, <3>1, <3>2, <3>3 DEF InList
  <2> QED
    BY <1>2, <2>1 DEF FreshInv, Made, InList, Uses
<1>9. JobInv'
  BY <1>2 DEF SInv, JobInv, Distinct
<1>10. RangeInv'
  <2>1. SUFFICES ASSUME NEW k \in Searches, Made(k)' PROVE Counted(k)' /\ Covered(k)'
    BY DEF RangeInv
  <2>2. k \notin gone /\ Made(k)
    BY <1>4, <1>5, <2>1
  <2>3. Counted(k) /\ Covered(k)
    BY <2>2 DEF SInv, RangeInv
  <2>4. search[k].pending <= search'[k].inUse
    BY <2>2, <2>3 DEF Counted, FreedOnly
  <2> QED
    BY <1>1, <1>2, <2>2, <2>3, <2>4, SearchStays DEF SInv, FreedOnly
<1>11. UseInv'
  <2>1. \A k : Busy(k)' => Busy(k)
    BY <1>2 DEF Busy, Pushes, Uses
  <2> QED
    BY <1>4, <2>1 DEF SInv, UseInv
<1> QED
  BY <1>1, <1>6, <1>7, <1>8, <1>9, <1>10, <1>11 DEF SInv

LEMMA GrowKeeps ==
  ASSUME SInv, Grow
  PROVE  SInv'
<1>1. top \in Nat /\ top' = top + 1 /\ top' \in Profiles /\ top <= top'
  BY SearchEngineAssumption DEF Grow, SInv, Types, Profiles
<1>2. UNCHANGED <<nextSearchId, search, list, queue, worker, client, starts, cut>>
  BY DEF Grow, history
<1>3. FreedOnly({})
  BY <1>2 DEF FreedOnly, SInv, Types
<1>4. list' \in Seq(Searches) /\ \A i \in DOMAIN list' : InList(list'[i])
  BY <1>2 DEF SInv, Types, InList
<1> QED
  BY <1>1, <1>2, <1>3, <1>4, FreeKeeps

\* A step that changes neither the searches nor what becomes of their ranges.
LEMMA StutterKeeps ==
  ASSUME SInv, UNCHANGED <<nextSearchId, search, list, queue, worker, client, top, starts, cut>>
  PROVE  SInv'
<1>1. FreedOnly({})
  BY DEF FreedOnly, SInv, Types
<1>2. list' \in Seq(Searches) /\ \A i \in DOMAIN list' : InList(list'[i])
  BY DEF SInv, Types, InList
<1>3. top' \in Profiles /\ top <= top'
  BY SearchEngineAssumption DEF SInv, Types, Profiles
<1> QED
  BY <1>1, <1>2, <1>3, FreeKeeps

LEMMA FreedTyped == Freed \in SearchSet /\ Freed.state = "freed"
<1>1. NoSearch \in SearchSet
  BY SearchEngineAssumption DEF NoSearch, SearchSet, Profiles
<1> HIDE DEF NoSearch
<1> QED
  BY <1>1 DEF Freed, SearchSet

LEMMA EndKeeps ==
  ASSUME SInv, NEW c \in Clients, End(c)
  PROVE  SInv'
<1>1. PICK k : k = Find(client[c].id)
  OBVIOUS
<1>2. /\ k # 0 /\ list' = Without({k}) /\ search' = [search EXCEPT ![k] = Freed]
      /\ cut' = IF search[k].pending > 0 \/ InHand(k) THEN cut \cup {k} ELSE cut
      /\ UNCHANGED <<nextSearchId, queue, worker, client, top, starts>>
  BY <1>1 DEF End, SetSearch
<1>3. Types /\ ListInv /\ StartInv
  BY DEF SInv
<1>4. InList(k) /\ k \in Searches
  BY <1>1, <1>2, <1>3, FindIs, MadeStarted DEF Types
<1>5. FreedOnly({k})
  BY <1>2, <1>3, <1>4, FreedTyped DEF FreedOnly, Types
<1>6. /\ list' \in Seq(Searches)
      /\ \A i \in DOMAIN list' : InList(list'[i]) /\ list'[i] \notin {k}
  <2>1. Without({k}) \in Seq(Searches)
        /\ \A i \in DOMAIN Without({k}) :
             \E j \in DOMAIN list : Without({k})[i] = list[j] /\ list[j] \notin {k}
    BY <1>3, WithoutIs DEF Types
  <2> QED
    BY <1>2, <2>1 DEF InList
<1>7. cut \subseteq cut' /\ \A m \in {k} : Busy(m) => m \in cut'
  BY <1>2, <1>4, ListedBusy
<1>8. top' \in Profiles /\ top <= top'
  BY <1>2, <1>3, SearchEngineAssumption DEF Types, Profiles
<1> QED
  BY <1>2, <1>4, <1>5, <1>6, <1>7, <1>8, FreeKeeps

LEMMA RoundKeeps ==
  ASSUME SInv, Round
  PROVE  SInv'
<1>1. PICK late \in SUBSET {i \in DOMAIN list : Completed(i) /\ search[list[i]].marked} :
        LET gone    == {i \in late : \E j \in 1 .. i : /\ j .. i \subseteq late /\ j - 1 \notin late
                                                      /\ (i - j) % 2 = 0}
            deleted == {list[i] : i \in gone}
            seen    == {list[i] : i \in {j \in DOMAIN list : j - 1 \notin gone /\ Completed(j)}} IN
        /\ search' = [k \in Searches |-> IF k \in deleted THEN Freed
                                         ELSE IF k \in seen THEN [search[k] EXCEPT !.marked = TRUE]
                                         ELSE search[k]]
        /\ list' = Without(deleted)
        /\ cut' = cut \cup {k \in deleted : InHand(k)}
        /\ UNCHANGED <<nextSearchId, queue, worker, held, client, top, starts, up, swapped>>
  BY DEF Round
<1>2. PICK gone : gone = {i \in late : \E j \in 1 .. i : /\ j .. i \subseteq late /\ j - 1 \notin late
                                                       /\ (i - j) % 2 = 0}
  OBVIOUS
<1>3. PICK deleted : deleted = {list[i] : i \in gone}
  OBVIOUS
<1>4. PICK seen : seen = {list[i] : i \in {j \in DOMAIN list : j - 1 \notin gone /\ Completed(j)}}
  OBVIOUS
<1>5. /\ search' = [k \in Searches |-> IF k \in deleted THEN Freed
                                       ELSE IF k \in seen THEN [search[k] EXCEPT !.marked = TRUE]
                                       ELSE search[k]]
      /\ list' = Without(deleted)
      /\ cut' = cut \cup {k \in deleted : InHand(k)}
      /\ UNCHANGED <<nextSearchId, queue, worker, client, top, starts>>
  BY <1>1, <1>2, <1>3, <1>4
<1>6. Types /\ ListInv /\ StartInv /\ RangeInv
  BY DEF SInv
<1>7. gone \subseteq DOMAIN list /\ \A i \in gone : Completed(i)
  BY <1>2
<1>8. \A k \in deleted : InList(k) /\ k \in Searches /\ search[k].pending = 0
  <2>1. \A k \in deleted : InList(k) /\ search[k].pending = 0
    BY <1>3, <1>7 DEF InList, Completed
  <2> QED
    BY <1>6, <2>1, MadeStarted
<1>9. FreedOnly(deleted)
  <2>1. ASSUME NEW s \in SearchSet, NEW s2, s2 = [s EXCEPT !.marked = TRUE]
        PROVE  /\ s2 \in SearchSet /\ s2.state = s.state /\ s2.top = s.top /\ s2.pending = s.pending
               /\ s2.scored = s.scored /\ s2.merged = s.merged /\ s2.inUse = s.inUse
    BY <2>1 DEF SearchSet
  <2>2. \A k \in Searches : search[k] \in SearchSet
    BY <1>6 DEF Types
  <2>3. ASSUME NEW k \in Searches
        PROVE  /\ search'[k] \in SearchSet
               /\ k \in deleted => search'[k].state = "freed"
               /\ k \notin deleted =>
                    /\ search'[k].state = search[k].state /\ search'[k].top = search[k].top
                    /\ search'[k].pending = search[k].pending /\ search'[k].scored = search[k].scored
                    /\ search'[k].merged = search[k].merged /\ search'[k].inUse = search[k].inUse
    <3>1. CASE k \in deleted
      <4>1. search'[k] = Freed
        BY <1>5, <3>1
      <4> QED
        BY <3>1, <4>1, FreedTyped
    <3>2. CASE k \notin deleted /\ k \in seen
      <4>1. search'[k] = [search[k] EXCEPT !.marked = TRUE]
        BY <1>5, <3>2
      <4> QED
        BY <2>1, <2>2, <3>2, <4>1
    <3>3. CASE k \notin deleted /\ k \notin seen
      <4>1. search'[k] = search[k]
        BY <1>5, <3>3
      <4> QED
        BY <2>2, <3>3, <4>1
    <3> QED
      BY <3>1, <3>2, <3>3
  <2>4. search' \in [Searches -> SearchSet]
    <3>1. search' = [k \in Searches |-> search'[k]]
      BY <1>5
    <3> QED
      BY <2>3, <3>1
  <2> QED
    BY <1>8, <2>3, <2>4 DEF FreedOnly
<1>10. /\ list' \in Seq(Searches)
       /\ \A i \in DOMAIN list' : InList(list'[i]) /\ list'[i] \notin deleted
  <2>1. Without(deleted) \in Seq(Searches)
        /\ \A i \in DOMAIN Without(deleted) :
             \E j \in DOMAIN list : Without(deleted)[i] = list[j] /\ list[j] \notin deleted
    BY <1>6, WithoutIs DEF Types
  <2> QED
    BY <1>5, <2>1 DEF InList
<1>11. ASSUME NEW k \in deleted, Busy(k) PROVE k \in cut'
  BY <1>5, <1>8, <1>11, ListedBusy
<1>12. top' \in Profiles /\ top <= top' /\ cut \subseteq cut'
  BY <1>5, <1>6, SearchEngineAssumption DEF Types, Profiles
<1>13. deleted \in SUBSET Searches
  BY <1>8
<1> QED
  BY <1>5, <1>8, <1>9, <1>10, <1>11, <1>12, <1>13, FreeKeeps

LEMMA NoClientIs ==
  /\ NoClient \in ClientSet /\ NoClient.at = "idle" /\ NoClient.ranges = <<>>
  /\ NoClient.id = 0 /\ NoClient.search = 0
BY DEF NoClient, ClientSet

\* A start that fails before its search is listed.
LEMMA PrepareFailsKeeps ==
  ASSUME SInv, NEW c \in Clients, PrepareFails(c) \/ HeapFails(c)
  PROVE  SInv'
<1>1. PICK k : k = client[c].search
  OBVIOUS
<1>2. PICK z : /\ client[c].at = "list" /\ search' = [search EXCEPT ![k] = Freed]
               /\ client' = [client EXCEPT ![c] = z]
               /\ z = NoClient \/ z = [NoClient EXCEPT !.at = "refree", !.search = k]
               /\ UNCHANGED <<nextSearchId, list, queue, worker, top, starts>> /\ cut \subseteq cut'
  BY <1>1 DEF PrepareFails, HeapFails, SetSearch, SetClient, history
<1>3. Types /\ ListInv /\ StartInv /\ FreshInv /\ RangeInv /\ JobInv /\ UseInv
  BY DEF SInv
<1>4. /\ Pushes(c) /\ k \in 1 .. starts /\ k \in Searches
      /\ \A j \in RangeSet : In(client[c].ranges, j) => j.search = k
  BY <1>1, <1>2, <1>3, MadeStarted DEF StartInv, Pushes
<1>5. /\ Made(k) /\ ~ InList(k)
      /\ \A d \in Clients : Uses(d) => client[d].use # k
      /\ \A j \in RangeSet : InQueue(j) \/ Held(j) => j.search # k
  BY <1>1, <1>2, <1>3 DEF FreshInv
<1>6. \A d \in Clients : client'[d] = IF d = c THEN z ELSE client[d]
  BY <1>2, <1>3 DEF Types
<1>7. z \in ClientSet /\ z.at \in {"idle", "refree"} /\ z.ranges = <<>>
  BY <1>2, <1>4, NoClientIs DEF ClientSet
<1>8. Types'
  BY <1>2, <1>3, <1>7, FreedTyped DEF Types
<1>9. \A m \in Searches : search'[m] = IF m = k THEN Freed ELSE search[m]
  BY <1>2, <1>3 DEF Types
<1>10. ListInv'
  <2>1. \A i \in DOMAIN list : list[i] \in Searches /\ list[i] # k
    BY <1>3, <1>5 DEF Types, InList
  <2>2. ~ (k > starts)
    BY <1>3, <1>4, <1>5 DEF ListInv, Made
  <2> QED
    BY <1>2, <1>3, <1>9, <2>1, <2>2, FreedTyped DEF ListInv, Made
<1>11. \A d \in Clients : /\ Pushes(d)' => d # c /\ Pushes(d) /\ client'[d] = client[d]
                          /\ Uses(d)' => d # c /\ Uses(d) /\ client'[d] = client[d]
                          /\ client'[d].ranges = <<>> \/ (d # c /\ client'[d] = client[d])
  BY <1>6, <1>7 DEF Pushes, Uses
<1>12. StartInv'
  <2>1. ASSUME NEW d \in Clients PROVE ~ Pushes(d)' => client'[d].ranges = <<>>
    BY <1>3, <1>6, <1>7, <2>1 DEF StartInv, Pushes
  <2> HIDE DEF Pushes, Uses
  <2> QED
    BY <1>2, <1>3, <1>11, <2>1 DEF StartInv
<1>13. \A j : /\ InQueue(j)' <=> InQueue(j)
              /\ Held(j)' <=> Held(j)
              /\ Scoring(j)' <=> Scoring(j)
              /\ Kept(j)' => Kept(j)
  <2>1. \A j : ~ In(<<>>, j)
    BY DEF In
  <2> QED
    BY <1>2, <1>11, <2>1 DEF InQueue, In, Held, Scoring, Kept
<1>14. \A j \in RangeSet : j.search # k => (Kept(j) => Kept(j)')
  <2>1. ASSUME NEW j \in RangeSet, j.search # k, NEW d \in Clients, In(client[d].ranges, j)
        PROVE  client'[d] = client[d]
    BY <1>4, <1>6, <2>1
  <2> QED
    BY <2>1 DEF Kept, In
<1>15. \A d \in Clients : Pushes(d) /\ d # c => client[d].search # k
  BY <1>1, <1>3, <1>4 DEF StartInv
<1>16. FreshInv'
  <2>1. ASSUME NEW d \in Clients, client'[d].at = "list", NEW m, m = client'[d].search
        PROVE  /\ search'[m].state = "made" /\ ~ InList(m)
               /\ \A e \in Clients : Uses(e)' => client'[e].use # m
               /\ \A j \in RangeSet : InQueue(j) \/ Held(j) => j.search # m
    <3>1. client[d].at = "list" /\ d # c /\ m = client[d].search
      BY <1>6, <1>7, <2>1
    <3>2. /\ Made(m) /\ ~ InList(m)
          /\ \A e \in Clients : Uses(e) => client[e].use # m
          /\ \A j \in RangeSet : InQueue(j) \/ Held(j) => j.search # m
      BY <1>3, <3>1 DEF FreshInv
    <3>3. m # k /\ m \in Searches
      BY <1>3, <1>15, <3>1, MadeStarted DEF Pushes, StartInv
    <3> QED
      BY <1>9, <1>11, <3>2, <3>3 DEF Made
  <2> QED
    BY <1>2, <1>13, <2>1 DEF FreshInv, Made, InList
<1>17. JobInv'
  <2>1. \A d \in Clients : Distinct(client'[d].ranges)
    <3>1. Distinct(<<>>)
      BY DEF Distinct
    <3> QED
      BY <1>3, <1>11, <3>1 DEF JobInv
  <2>2. \A j : Somewhere(j)' => Somewhere(j)
    BY <1>13 DEF Somewhere
  <2> QED
    BY <1>2, <1>3, <1>13, <2>1, <2>2 DEF JobInv, Distinct
<1>18. RangeInv'
  <2>1. SUFFICES ASSUME NEW m \in Searches, Made(m)' PROVE Counted(m)' /\ Covered(m)'
    BY DEF RangeInv
  <2>2. m # k /\ search'[m] = search[m] /\ Made(m)
    BY <1>9, <2>1, FreedTyped DEF Made
  <2>3. Counted(m) /\ Covered(m)
    BY <1>3, <2>2 DEF RangeInv
  <2>4. \A j \in RangeSet : j.search = m => (Somewhere(j)' <=> Somewhere(j)) /\ (Waits(j)' <=> Waits(j))
    BY <1>13, <1>14, <2>2 DEF Somewhere, Waits
  <2>5. Left(m)' = Left(m) /\ \A j \in Left(m) : Waits(j)' <=> Waits(j)
    BY <2>4 DEF Left
  <2>6. top <= top'
    BY <1>2, <1>3, SearchEngineAssumption DEF Types, Profiles
  <2>7. search[m].pending <= search'[m].inUse
    BY <2>2, <2>3 DEF Counted
  <2> QED
    BY <1>3, <1>8, <2>2, <2>3, <2>5, <2>6, <2>7, SearchStays
<1>19. UseInv'
  <2>1. ASSUME NEW m \in Searches, Busy(m)' PROVE m # k /\ Busy(m)
    BY <1>5, <1>11, <1>13, <1>15, <2>1 DEF Busy
  <2> QED
    BY <1>2, <1>3, <1>9, <2>1 DEF UseInv, Alive
<1> QED
  BY <1>8, <1>10, <1>12, <1>16, <1>17, <1>18, <1>19 DEF SInv

\* A step that takes a range from one place to the next.
LEMMA MoveKeeps ==
  ASSUME SInv, Types', UNCHANGED <<search, list, top, starts, cut>>, StartInv', FreshInv', JobInv',
         \A j \in RangeSet : (Somewhere(j)' <=> Somewhere(j)) /\ (Waits(j)' <=> Waits(j)),
         \A k \in Searches : Busy(k)' => Busy(k)
  PROVE  SInv'
<1>1. Types /\ ListInv /\ RangeInv /\ UseInv
  BY DEF SInv
<1>2. ListInv'
  BY <1>1 DEF ListInv, Made
<1>3. RangeInv'
  <2>1. SUFFICES ASSUME NEW k \in Searches, Made(k)' PROVE Counted(k)' /\ Covered(k)'
    BY DEF RangeInv
  <2>2. Counted(k) /\ Covered(k)
    BY <1>1, <2>1 DEF RangeInv, Made
  <2>3. Left(k)' = Left(k) /\ \A j \in Left(k) : Waits(j)' <=> Waits(j)
    BY DEF Left
  <2>4. top <= top'
    BY <1>1, SearchEngineAssumption DEF Types, Profiles
  <2>5. search[k].pending <= search'[k].inUse
    BY <2>2 DEF Counted
  <2> QED
    BY <1>1, <2>2, <2>3, <2>4, <2>5, SearchStays
<1>4. UseInv'
  BY <1>1 DEF UseInv, Alive
<1> QED
  BY <1>2, <1>3, <1>4 DEF SInv

LEMMA PopKeeps ==
  ASSUME SInv, NEW t \in Threads, Pop(t)
  PROVE  SInv'
<1>1. Types /\ StartInv /\ FreshInv /\ JobInv
  BY DEF SInv
<1>2. PICK h : h = Head(queue)
  OBVIOUS
<1>3. /\ worker[t].at = "wait" /\ queue # <<>> /\ queue' = Tail(queue)
      /\ worker' = [worker EXCEPT ![t] = [at |-> "score", job |-> h]]
      /\ UNCHANGED <<nextSearchId, search, list, client, top, starts, cut>>
  BY <1>2 DEF Pop, SetWorker, history
<1>4. /\ h \in RangeSet /\ queue' \in Seq(RangeSet) /\ InQueue(h)
      /\ \A j : In(queue, j) <=> j = h \/ In(queue', j)
      /\ Distinct(queue') /\ ~ In(queue', h)
  BY <1>1, <1>2, <1>3, HeadTailIn DEF Types, JobInv, InQueue
<1>5. \A u \in Threads : worker'[u] = IF u = t THEN [at |-> "score", job |-> h] ELSE worker[u]
  BY <1>1, <1>3 DEF Types
<1>6. Types'
  <2>1. [at |-> "score", job |-> h] \in WorkerSet
    BY <1>4 DEF WorkerSet
  <2> QED
    BY <1>1, <1>3, <1>4, <1>5, <2>1 DEF Types
<1>7. \A j : /\ InQueue(j) <=> j = h \/ InQueue(j)'
             /\ Held(j)' <=> Held(j) \/ j = h
             /\ Scoring(j)' <=> Scoring(j) \/ j = h
             /\ Kept(j)' <=> Kept(j)
  <2>1. \A j : InQueue(j) <=> j = h \/ InQueue(j)'
    BY <1>4 DEF InQueue, In
  <2>2. \A j : (Held(j)' <=> Held(j) \/ j = h) /\ (Scoring(j)' <=> Scoring(j) \/ j = h)
    BY <1>3, <1>5 DEF Held, Scoring
  <2>3. \A j : Kept(j)' <=> Kept(j)
    BY <1>3 DEF Kept, In
  <2> QED
    BY <2>1, <2>2, <2>3
<1>8. ~ InQueue(h)'
  BY <1>4 DEF InQueue, In
<1>9. StartInv'
  BY <1>1, <1>3 DEF StartInv, Pushes, Uses, In
<1>10. FreshInv'
  BY <1>1, <1>3, <1>4, <1>7 DEF FreshInv, Made, InList, Uses
<1>11. \A j \in RangeSet : (Somewhere(j)' <=> Somewhere(j)) /\ (Waits(j)' <=> Waits(j))
  BY <1>7 DEF Somewhere, Waits
<1>12. JobInv'
  <2>1. Distinct(queue)' /\ \A c \in Clients : Distinct(client[c].ranges)'
    BY <1>1, <1>3, <1>4 DEF JobInv, Distinct
  <2>2. ASSUME NEW u \in Threads, NEW v \in Threads,
               worker'[u].at # "wait", worker'[v].at # "wait", worker'[u].job = worker'[v].job
        PROVE  u = v
    <3>1. ~ Held(h)
      BY <1>1, <1>4 DEF JobInv
    <3> QED
      BY <1>1, <1>5, <2>2, <3>1 DEF JobInv, Held
  <2>3. \A j \in RangeSet : /\ InQueue(j)' => ~ Kept(j)' /\ ~ Held(j)'
                            /\ Kept(j)' => ~ Held(j)'
                            /\ Somewhere(j)' => j.search \in 1 .. starts
    BY <1>1, <1>4, <1>7, <1>8, <1>11 DEF JobInv
  <2> QED
    BY <1>3, <2>1, <2>2, <2>3 DEF JobInv
<1>13. \A k \in Searches : Busy(k)' => Busy(k)
  BY <1>3, <1>4, <1>7 DEF Busy, Pushes, Uses
<1> QED
  BY <1>3, <1>6, <1>9, <1>10, <1>11, <1>12, <1>13, MoveKeeps

LEMMA PushKeeps ==
  ASSUME SInv, NEW c \in Clients, Push(c)
  PROVE  SInv'
<1>1. Types /\ StartInv /\ FreshInv /\ JobInv
  BY DEF SInv
<1>2. client[c] \in ClientSet
  BY <1>1 DEF Types
<1>3. PICK s \in Seq(RangeSet) : s = client[c].ranges
  BY <1>2 DEF ClientSet
<1>4. PICK z : z = [client[c] EXCEPT !.ranges = Tail(s), !.at = IF Len(s) = 1 THEN "take" ELSE "push"]
  OBVIOUS
<1>5. /\ client[c].at = "push" /\ s # <<>> /\ queue' = Append(queue, Head(s))
      /\ client' = [client EXCEPT ![c] = z]
      /\ UNCHANGED <<nextSearchId, search, list, worker, top, starts, cut>>
  BY <1>3, <1>4 DEF Push, SetClient, history
<1>6. PICK h \in RangeSet, w \in Seq(RangeSet) : h = Head(s) /\ w = Tail(s)
  BY <1>5, HeadTailIn
<1>7. /\ \A j : In(s, j) <=> j = h \/ In(w, j)
      /\ Distinct(w) /\ ~ In(w, h)
  BY <1>1, <1>3, <1>5, <1>6, HeadTailIn DEF JobInv
<1>8. Kept(h) /\ ~ InQueue(h) /\ ~ Held(h)
  BY <1>1, <1>3, <1>6, <1>7 DEF JobInv, Kept
<1>9. /\ queue' \in Seq(RangeSet) /\ Distinct(queue')
      /\ \A j : In(queue', j) <=> In(queue, j) \/ j = h
  BY <1>1, <1>5, <1>6, <1>8, AppendIn DEF Types, JobInv, InQueue
<1>10. /\ z \in ClientSet /\ z.at \in {"take", "push"} /\ z.ranges = w /\ z.search = client[c].search
       /\ z.at = "take" <=> Len(s) = 1
  BY <1>2, <1>4, <1>6 DEF ClientSet
<1>11. w = <<>> <=> Len(s) = 1
  <2>1. PICK l \in Nat : l = Len(s) /\ Len(w) = l - 1
    BY <1>5, <1>6, HeadTailProperties, LenProperties
  <2>2. w = <<>> <=> Len(w) = 0
    BY EmptySeq, Zenon
  <2> QED
    BY <2>1, <2>2
<1>12. \A d \in Clients : client'[d] = IF d = c THEN z ELSE client[d]
  BY <1>1, <1>5 DEF Types
<1>13. Types'
  BY <1>1, <1>5, <1>9, <1>10, <1>12 DEF Types
<1>14. /\ Pushes(c) /\ client[c].search \in 1 .. starts
       /\ \A j \in RangeSet : In(s, j) => j.search = client[c].search
       /\ \A d \in Clients : Pushes(d) /\ d # c => client[d].search # client[c].search
       /\ h.search = client[c].search
  <2>1. Pushes(c)
    BY <1>5 DEF Pushes
  <2> QED
    BY <1>1, <1>3, <1>6, <1>7, <2>1 DEF StartInv
<1>15. \A j \in RangeSet : /\ InQueue(j)' <=> InQueue(j) \/ j = h
                           /\ Kept(j) <=> Kept(j)' \/ j = h
                           /\ Held(j)' <=> Held(j)
                           /\ Scoring(j)' <=> Scoring(j)
  <2>1. \A j \in RangeSet : InQueue(j)' <=> InQueue(j) \/ j = h
    BY <1>9 DEF InQueue, In
  <2>2. \A j \in RangeSet : (Held(j)' <=> Held(j)) /\ (Scoring(j)' <=> Scoring(j))
    BY <1>5 DEF Held, Scoring
  <2>3. ASSUME NEW j \in RangeSet
        PROVE Kept(j) <=> (\E d \in Clients : In(client'[d].ranges, j)) \/ j = h
    BY <1>3, <1>7, <1>10, <1>12 DEF Kept
  <2> QED
    BY <2>1, <2>2, <2>3 DEF Kept, In
<1>16. ~ Kept(h)'
  <2>1. ASSUME NEW d \in Clients, In(client'[d].ranges, h) PROVE FALSE
    <3>1. CASE d = c
      BY <1>7, <1>10, <1>12, <2>1, <3>1
    <3>2. CASE d # c
      <4>1. In(client[d].ranges, h)
        BY <1>12, <2>1, <3>2
      <4>2. Pushes(d)
        <5>1. ~ Pushes(d) => client[d].ranges = <<>>
          BY <1>1 DEF StartInv
        <5> QED
          BY <4>1, <5>1 DEF In
      <4> QED
        BY <1>1, <1>14, <3>2, <4>1, <4>2 DEF StartInv
    <3> QED
      BY <3>1, <3>2
  <2> QED
    BY <2>1 DEF Kept, In
<1>17. StartInv'
  <2>1. ASSUME NEW d \in Clients
        PROVE  /\ Pushes(d)' => /\ client'[d].search \in 1 .. starts /\ client'[d].ranges # <<>>
                                /\ \A j \in RangeSet : In(client'[d].ranges, j) =>
                                    j.search = client'[d].search
               /\ ~ Pushes(d)' => client'[d].ranges = <<>>
               /\ Uses(d)' => client'[d].use \in 1 .. starts
    <3>1. CASE d = c
      <4>1. client'[d] = z
        BY <1>12, <3>1
      <4>2. Pushes(d)' <=> w # <<>>
        BY <1>10, <1>11, <4>1 DEF Pushes
      <4>3. ~ Uses(d)'
        BY <1>10, <4>1 DEF Uses
      <4> QED
        BY <1>7, <1>10, <1>14, <4>1, <4>2, <4>3
    <3>2. CASE d # c
      <4>1. client'[d] = client[d]
        BY <1>12, <3>2
      <4> QED
        BY <1>1, <4>1 DEF StartInv, Pushes, Uses
    <3> QED
      BY <3>1, <3>2
  <2>2. ASSUME NEW d \in Clients, NEW e \in Clients, Pushes(d)', Pushes(e)', d # e
        PROVE  client'[d].search # client'[e].search
    <3>1. \A x \in Clients : client'[x].search = client[x].search
      BY <1>10, <1>12
    <3>2. \A x \in Clients : Pushes(x)' => Pushes(x)
      BY <1>12, <1>14 DEF Pushes
    <3> QED
      BY <1>1, <2>2, <3>1, <3>2 DEF StartInv
  <2> QED
    BY <1>5, <2>1, <2>2 DEF StartInv, In
<1>18. FreshInv'
  <2>1. ASSUME NEW d \in Clients, client'[d].at = "list", NEW k, k = client'[d].search
        PROVE  /\ search[k].state = "made" /\ ~ InList(k)
               /\ \A e \in Clients : Uses(e)' => client'[e].use # k
               /\ \A j \in RangeSet : InQueue(j)' \/ Held(j)' => j.search # k
    <3>1. d # c /\ client[d].at = "list" /\ k = client[d].search /\ k # h.search
      BY <1>10, <1>12, <1>14, <2>1 DEF Pushes
    <3>2. /\ Made(k) /\ ~ InList(k)
          /\ \A e \in Clients : Uses(e) => client[e].use # k
          /\ \A j \in RangeSet : InQueue(j) \/ Held(j) => j.search # k
      BY <1>1, <3>1 DEF FreshInv
    <3>3. \A e \in Clients : Uses(e)' => Uses(e) /\ client'[e] = client[e]
      BY <1>10, <1>12 DEF Uses
    <3> QED
      BY <1>15, <3>1, <3>2, <3>3 DEF Made
  <2> QED
    BY <1>5, <2>1 DEF FreshInv, Made, InList
<1>19. \A j \in RangeSet : (Somewhere(j)' <=> Somewhere(j)) /\ (Waits(j)' <=> Waits(j))
  BY <1>15 DEF Somewhere, Waits
<1>20. JobInv'
  <2>1. Distinct(queue') /\ \A d \in Clients : Distinct(client'[d].ranges)
    BY <1>1, <1>7, <1>9, <1>10, <1>12 DEF JobInv
  <2>2. \A j \in RangeSet : /\ InQueue(j)' => ~ Kept(j)' /\ ~ Held(j)'
                            /\ Kept(j)' => ~ Held(j)'
                            /\ Somewhere(j)' => j.search \in 1 .. starts
    BY <1>1, <1>8, <1>15, <1>16, <1>19 DEF JobInv
  <2> QED
    BY <1>1, <1>5, <2>1, <2>2 DEF JobInv, Distinct
<1>21. \A k \in Searches : Busy(k)' => Busy(k)
  <2>1. \A d \in Clients : /\ client'[d].search = client[d].search
                           /\ Pushes(d)' => Pushes(d)
                           /\ Uses(d)' => Uses(d) /\ client'[d] = client[d]
    BY <1>10, <1>12, <1>14 DEF Pushes, Uses
  <2> QED
    BY <1>14, <1>15, <2>1 DEF Busy
<1> QED
  BY <1>5, <1>13, <1>17, <1>18, <1>19, <1>20, <1>21, MoveKeeps

\* A thread that is done with its range.
LEMMA DropIs ==
  ASSUME Types, JobInv, NEW t \in Threads, worker[t].at # "wait", UNCHANGED <<queue, client>>,
         worker' = [worker EXCEPT ![t] = Idle],
         NEW job, job = worker[t].job
  PROVE  /\ job \in RangeSet /\ job.search \in 1 .. starts
         /\ \A j : /\ InQueue(j)' <=> InQueue(j)
                   /\ Kept(j)' <=> Kept(j)
                   /\ Held(j)' <=> Held(j) /\ j # job
                   /\ Scoring(j)' <=> Scoring(j) /\ j # job
         /\ ~ InQueue(job) /\ ~ Kept(job) /\ Held(job)
         /\ worker[t].at = "finish" => ~ Scoring(job)
         /\ worker' \in [Threads -> WorkerSet]
         /\ \A u \in Threads : worker'[u] = IF u = t THEN Idle ELSE worker[u]
<1>1. \A u \in Threads : worker'[u] = IF u = t THEN Idle ELSE worker[u]
  BY DEF Types
<1>2. job \in RangeSet /\ Held(job)
  BY DEF Types, Held
<1>3. job.search \in 1 .. starts /\ ~ InQueue(job) /\ ~ Kept(job)
  BY <1>2 DEF JobInv, Somewhere
<1>4. \A u \in Threads : worker[u].at # "wait" /\ worker[u].job = job => u = t
  BY DEF JobInv
<1>5. Idle.at = "wait" /\ Idle \in WorkerSet
  BY DEF Idle, WorkerSet
<1>6. \A j : (InQueue(j)' <=> InQueue(j)) /\ (Kept(j)' <=> Kept(j))
  BY DEF InQueue, Kept, In
<1>7. \A j : /\ Held(j)' <=> Held(j) /\ j # job
             /\ Scoring(j)' <=> Scoring(j) /\ j # job
  BY <1>1, <1>4, <1>5 DEF Held, Scoring
<1>8. worker[t].at = "finish" => ~ Scoring(job)
  BY <1>4 DEF Scoring
<1>9. worker' \in [Threads -> WorkerSet]
  BY <1>5 DEF Types
<1> QED
  BY <1>1, <1>2, <1>3, <1>6, <1>7, <1>8, <1>9

\* What such a step keeps, whatever it does to the search of the range.
LEMMA DropKeeps ==
  ASSUME SInv, NEW t \in Threads, worker[t].at # "wait",
         UNCHANGED <<queue, client, list, starts, top, cut>>,
         worker' = [worker EXCEPT ![t] = Idle], NEW job, job = worker[t].job,
         nextSearchId' \in Nat, search' \in [Searches -> SearchSet],
         \A k \in Searches : search'[k].state = search[k].state
  PROVE  Types' /\ ListInv' /\ StartInv' /\ FreshInv' /\ JobInv' /\ UseInv'
<1>1. Types /\ ListInv /\ StartInv /\ FreshInv /\ JobInv /\ UseInv
  BY DEF SInv
<1>2. /\ job \in RangeSet /\ job.search \in 1 .. starts
      /\ \A j : /\ InQueue(j)' <=> InQueue(j)
                /\ Kept(j)' <=> Kept(j)
                /\ Held(j)' <=> Held(j) /\ j # job
                /\ Scoring(j)' <=> Scoring(j) /\ j # job
      /\ worker' \in [Threads -> WorkerSet]
      /\ \A u \in Threads : worker'[u] = IF u = t THEN Idle ELSE worker[u]
  BY <1>1, DropIs
<1>3. Types'
  BY <1>1, <1>2 DEF Types, Idle
<1>4. ListInv'
  BY <1>1 DEF ListInv, Made, Types
<1>5. StartInv'
  BY <1>1 DEF StartInv, Pushes, Uses
<1>6. FreshInv'
  <2>1. \A c \in Clients : client[c].at = "list" => client[c].search \in Searches
    BY <1>1, MadeStarted DEF StartInv, Pushes
  <2> QED
    BY <1>1, <1>2, <2>1 DEF FreshInv, Made, InList, Uses
<1>7. JobInv'
  <2>1. \A u \in Threads, v \in Threads :
          worker'[u].at # "wait" /\ worker'[v].at # "wait" /\ worker'[u].job = worker'[v].job => u = v
    BY <1>1, <1>2 DEF JobInv, Idle
  <2>2. \A j \in RangeSet : /\ InQueue(j)' => ~ Kept(j)' /\ ~ Held(j)'
                            /\ Kept(j)' => ~ Held(j)'
                            /\ Somewhere(j)' => j.search \in 1 .. starts
    BY <1>1, <1>2 DEF JobInv, Somewhere
  <2> QED
    BY <1>1, <2>1, <2>2 DEF JobInv, Distinct
<1>8. UseInv'
  <2>1. \A k \in Searches : Busy(k)' => Busy(k)
    BY <1>2 DEF Busy, Pushes, Uses
  <2> QED
    BY <1>1, <2>1 DEF UseInv, Alive
<1> QED
  BY <1>3, <1>4, <1>5, <1>6, <1>7, <1>8

LEMMA UseFreedKeeps ==
  ASSUME SInv, HoldInv, UseFreed
  PROVE  SInv'
<1>1. CASE \E c \in Clients : /\ RequestUsesFreed(c)
                              /\ SetClient(c, [client[c] EXCEPT !.at = "idle", !.use = 0])
                              /\ UNCHANGED <<worker, held>>
  <2>1. PICK c \in Clients : /\ RequestUsesFreed(c)
                             /\ SetClient(c, [client[c] EXCEPT !.at = "idle", !.use = 0])
                             /\ UNCHANGED <<worker, held>>
    BY <1>1
  <2> QED
    BY <2>1, EndOfRequest DEF UseFreed, SetClient, history, RequestUsesFreed, Pushes
<1>2. CASE \E t \in Threads : /\ ThreadUsesFreed(t)
                              /\ worker' = [worker EXCEPT ![t] = Idle]
                              /\ held' = [held EXCEPT ![t] = 0]
                              /\ UNCHANGED client
  <2>1. PICK t \in Threads : /\ ThreadUsesFreed(t)
                             /\ worker' = [worker EXCEPT ![t] = Idle]
                             /\ UNCHANGED client
    BY <1>2
  <2>2. PICK job : job = worker[t].job
    OBVIOUS
  <2> SUFFICES ASSUME worker[t].at # "wait" PROVE SInv'
    <3>1. ASSUME worker[t].at = "wait" PROVE worker[t] = Idle
      BY <2>1, <3>1 DEF ThreadUsesFreed, HoldInv
    <3>2. ASSUME worker[t] = Idle PROVE worker' = worker
      BY <2>1, <3>2 DEF SInv, Types
    <3>3. ASSUME worker' = worker PROVE SInv'
      BY <2>1, <3>3, StutterKeeps DEF UseFreed, history
    <3> QED
      BY <3>1, <3>2, <3>3
  <2>3. /\ worker[t].at # "wait" /\ ~ Alive(job.search)
        /\ UNCHANGED <<nextSearchId, search, list, queue, client, top, starts, cut>>
    <3>1. held[t] = 0
      BY DEF HoldInv, Idle
    <3> QED
      BY <2>1, <2>2, <3>1 DEF UseFreed, history, ThreadUsesFreed
  <2>4. Types /\ JobInv /\ RangeInv
    BY DEF SInv
  <2>5. \A j : /\ InQueue(j)' <=> InQueue(j)
               /\ Kept(j)' <=> Kept(j)
               /\ Held(j)' <=> Held(j) /\ j # job
               /\ Scoring(j)' <=> Scoring(j) /\ j # job
    BY <2>1, <2>2, <2>3, <2>4, DropIs
  <2>6. Types' /\ ListInv' /\ StartInv' /\ FreshInv' /\ JobInv' /\ UseInv'
    <3>1. nextSearchId' \in Nat /\ search' \in [Searches -> SearchSet]
      BY <2>3, <2>4 DEF Types
    <3> QED
      BY <2>1, <2>2, <2>3, <3>1, DropKeeps
  <2>7. RangeInv'
    <3>1. SUFFICES ASSUME NEW k \in Searches, Made(k)' PROVE Counted(k)' /\ Covered(k)'
      BY DEF RangeInv
    <3>2. Made(k) /\ Alive(k) /\ Counted(k) /\ Covered(k)
      BY <2>3, <2>4, <3>1 DEF RangeInv, Made, Alive
    <3>3. \A j \in RangeSet : j.search = k => (Somewhere(j)' <=> Somewhere(j))
                                           /\ (Waits(j)' <=> Waits(j))
      BY <2>3, <2>5, <3>2 DEF Somewhere, Waits
    <3>4. Left(k)' = Left(k) /\ \A j \in Left(k) : Waits(j)' <=> Waits(j)
      BY <3>3 DEF Left
    <3>5. top <= top'
      BY <2>3, <2>4, SearchEngineAssumption DEF Types, Profiles
    <3>6. search[k].pending <= search'[k].inUse
      BY <2>3, <3>2 DEF Counted
    <3> QED
      BY <2>3, <2>4, <2>6, <3>2, <3>4, <3>5, <3>6, SearchStays
  <2> QED
    BY <2>6, <2>7 DEF SInv
<1> QED
  BY <1>1, <1>2 DEF UseFreed

LEMMA FinishKeeps ==
  ASSUME SInv, NEW t \in Threads, Finish(t)
  PROVE  SInv'
<1>1. PICK job : job = worker[t].job
  OBVIOUS
<1>2. PICK k : k = job.search
  OBVIOUS
<1>3. /\ worker[t].at = "finish" /\ Alive(k) /\ worker' = [worker EXCEPT ![t] = Idle]
      /\ search' = [search EXCEPT ![k] = [search[k] EXCEPT !.pending = @ - 1]]
      /\ UNCHANGED <<nextSearchId, list, queue, client, top, starts, cut>>
  BY <1>1, <1>2 DEF Finish, SetSearch, history
<1>4. Types /\ ListInv /\ JobInv /\ RangeInv
  BY DEF SInv
<1>5. /\ job \in RangeSet /\ k \in 1 .. starts
      /\ \A j : /\ InQueue(j)' <=> InQueue(j)
                /\ Kept(j)' <=> Kept(j)
                /\ Held(j)' <=> Held(j) /\ j # job
                /\ Scoring(j)' <=> Scoring(j) /\ j # job
      /\ ~ InQueue(job) /\ ~ Kept(job) /\ Held(job) /\ ~ Scoring(job)
  BY <1>1, <1>2, <1>3, <1>4, DropIs
<1>6. k \in Searches /\ search[k] \in SearchSet
  BY <1>4, <1>5, MadeStarted DEF Types
<1>7. Made(k)
  <2>1. ~ (k > starts)
    BY <1>4, <1>5 DEF Types
  <2> QED
    BY <1>3, <1>4, <1>6, <2>1 DEF ListInv, Made, Alive, SearchSet
<1>8. Counted(k) /\ Covered(k)
  BY <1>4, <1>6, <1>7 DEF RangeInv
<1>9. job \in Left(k)
  BY <1>2, <1>5 DEF Left, Somewhere
<1>10. Left(k)' = Left(k) \ {job} /\ \A j \in RangeSet : Waits(j)' <=> Waits(j)
  BY <1>5 DEF Left, Somewhere, Waits
<1>11. /\ IsFiniteSet(Left(k) \ {job})
       /\ Cardinality(Left(k) \ {job}) = search[k].pending - 1
       /\ search[k].pending - 1 \in Nat /\ search[k].pending \in Nat /\ search[k].inUse \in Nat
  <2>1. /\ IsFiniteSet(Left(k) \ {job}) /\ Cardinality(Left(k) \ {job}) = Cardinality(Left(k)) - 1
        /\ Cardinality(Left(k) \ {job}) \in Nat
    BY <1>8, <1>9, FS_RemoveElement, FS_CardinalityType DEF Counted
  <2> QED
    BY <1>6, <1>8, <2>1 DEF Counted, SearchSet
<1>12. PICK z : z = [search[k] EXCEPT !.pending = @ - 1]
  OBVIOUS
<1>13. /\ z \in SearchSet /\ z.state = search[k].state /\ z.pending = search[k].pending - 1
       /\ z.merged = search[k].merged /\ z.inUse = search[k].inUse /\ z.top = search[k].top
       /\ z.scored = search[k].scored
  BY <1>6, <1>11, <1>12 DEF SearchSet
<1>14. \A m \in Searches : search'[m] = IF m = k THEN z ELSE search[m]
  BY <1>3, <1>4, <1>12 DEF Types
<1>15. search' \in [Searches -> SearchSet]
  BY <1>3, <1>4, <1>12, <1>13 DEF Types
<1>16. Types' /\ ListInv' /\ StartInv' /\ FreshInv' /\ JobInv' /\ UseInv'
  <2>1. nextSearchId' \in Nat /\ \A m \in Searches : search'[m].state = search[m].state
    BY <1>3, <1>4, <1>13, <1>14 DEF Types
  <2> QED
    BY <1>1, <1>3, <1>15, <2>1, DropKeeps
<1>17. RangeInv'
  <2>1. SUFFICES ASSUME NEW m \in Searches, Made(m)' PROVE Counted(m)' /\ Covered(m)'
    BY DEF RangeInv
  <2>2. CASE m = k
    <3>1. search'[k] = z
      BY <1>6, <1>14
    <3>2. Counted(k)'
      <4>1. ~ search[k].merged
        BY <1>8, <1>11 DEF Counted
      <4> QED
        BY <1>8, <1>10, <1>11, <1>13, <3>1, <4>1 DEF Counted
    <3>3. Covered(k)'
      <4>1. ~ Waits(job)
        BY <1>5 DEF Waits
      <4>2. \A p \in 0 .. search[k].top :
              search[k].scored[p] = 0 => \E j \in Left(k) \ {job} : Waits(j) /\ Covers(j, p)
        BY <1>8, <4>1 DEF Covered
      <4>3. Left(k) \subseteq RangeSet
        BY DEF Left
      <4>4. \A j \in Left(k) \ {job} : Waits(j)' <=> Waits(j)
        BY <1>10, <4>3
      <4> QED
        BY <1>3, <1>8, <1>10, <1>13, <3>1, <4>2, <4>4 DEF Covered, Covers
    <3> QED
      BY <2>2, <3>2, <3>3
  <2>3. CASE m # k
    <3>1. search'[m] = search[m] /\ Counted(m) /\ Covered(m)
      BY <1>4, <1>14, <2>1, <2>3 DEF RangeInv, Made
    <3>2. Left(m)' = Left(m) /\ \A j \in Left(m) : Waits(j)' <=> Waits(j)
      BY <1>2, <1>5, <1>10, <2>3 DEF Left, Somewhere
    <3>3. top <= top'
      BY <1>3, <1>4, SearchEngineAssumption DEF Types, Profiles
    <3>4. search[m].pending <= search'[m].inUse
      BY <3>1 DEF Counted
    <3> QED
      BY <1>4, <1>16, <3>1, <3>2, <3>3, <3>4, SearchStays
  <2> QED
    BY <2>2, <2>3
<1> QED
  BY <1>16, <1>17 DEF SInv

LEMMA ScoreKeeps ==
  ASSUME SInv, NEW t \in Threads, Score(t)
  PROVE  SInv'
<1>1. PICK job : job = worker[t].job
  OBVIOUS
<1>2. PICK k : k = job.search
  OBVIOUS
<1>3. PICK last : last = IF job.high # 0 THEN job.high ELSE top
  OBVIOUS
<1>4. PICK z : z = [search[k] EXCEPT
        !.scored = [p \in Profiles |-> IF p \in job.low .. last THEN @[p] + 1 ELSE @[p]]]
  OBVIOUS
<1>5. /\ worker[t].at = "score" /\ Alive(k) /\ search' = [search EXCEPT ![k] = z]
      /\ worker' = [worker EXCEPT ![t] = [at |-> "finish", job |-> job]]
      /\ UNCHANGED <<nextSearchId, list, queue, client, top, starts, cut>>
  BY <1>1, <1>2, <1>3, <1>4 DEF Score, SetSearch, SetWorker, history
<1>6. Types /\ ListInv /\ StartInv /\ FreshInv /\ JobInv /\ RangeInv /\ UseInv
  BY DEF SInv
<1>7. job \in RangeSet /\ Held(job) /\ Scoring(job)
  BY <1>1, <1>5, <1>6 DEF Types, Held, Scoring
<1>8. k \in 1 .. starts /\ ~ InQueue(job) /\ ~ Kept(job)
  BY <1>2, <1>6, <1>7 DEF JobInv, Somewhere
<1>9. k \in Searches /\ search[k] \in SearchSet
  BY <1>6, <1>8, MadeStarted DEF Types
<1>10. Made(k)
  <2>1. ~ (k > starts)
    BY <1>6, <1>8 DEF Types
  <2> QED
    BY <1>5, <1>6, <1>9, <2>1 DEF ListInv, Made, Alive, SearchSet
<1>11. Counted(k) /\ Covered(k)
  BY <1>6, <1>9, <1>10 DEF RangeInv
<1>12. \A u \in Threads : worker'[u] = IF u = t THEN [at |-> "finish", job |-> job] ELSE worker[u]
  BY <1>5, <1>6 DEF Types
<1>13. \A u \in Threads : /\ worker'[u].at # "wait" <=> worker[u].at # "wait"
                          /\ worker'[u].job = worker[u].job
                          /\ worker'[u].at = "score" <=> worker[u].at = "score" /\ u # t
  BY <1>1, <1>5, <1>12
<1>14. \A j : /\ InQueue(j)' <=> InQueue(j)
              /\ Kept(j)' <=> Kept(j)
              /\ Held(j)' <=> Held(j)
              /\ Scoring(j)' <=> Scoring(j) /\ j # job
  <2>1. \A u \in Threads : worker[u].at # "wait" /\ worker[u].job = job => u = t
    BY <1>1, <1>5, <1>6 DEF JobInv
  <2>2. \A j : (Held(j)' <=> Held(j)) /\ (Scoring(j)' <=> Scoring(j) /\ j # job)
    BY <1>1, <1>13, <2>1 DEF Held, Scoring
  <2> QED
    BY <1>5, <2>2 DEF InQueue, Kept, In
<1>15. \A m : Left(m)' = Left(m)
  BY <1>14 DEF Left, Somewhere
<1>16. \A p \in Profiles : /\ search[k].scored[p] \in Nat
                           /\ z.scored[p] = IF Covers(job, p) /\ p <= last THEN search[k].scored[p] + 1
                                            ELSE search[k].scored[p]
                           /\ p <= top /\ Covers(job, p) => p <= last
  <2>1. job.low \in Nat /\ job.high \in Nat /\ top \in Nat /\ last \in Nat
    <3>1. job.low \in 0 .. MaxTop + 1 /\ job.high \in 0 .. MaxTop /\ top \in 0 .. MaxTop
      BY <1>6, <1>7 DEF RangeSet, Types, Profiles
    <3>2. job.low \in Nat /\ job.high \in Nat /\ top \in Nat
      BY <3>1, SearchEngineAssumption
    <3> QED
      BY <1>3, <3>2
  <2>2. \A p \in Profiles : search[k].scored[p] \in Nat /\ p \in Nat
    <3>1. search[k].scored \in [Profiles -> Nat]
      BY <1>9 DEF SearchSet
    <3>2. \A p \in Profiles : p \in Nat
      BY SearchEngineAssumption DEF Profiles
    <3> QED
      BY <3>1, <3>2
  <2>3. z.scored = [p \in Profiles |-> IF p \in job.low .. last THEN search[k].scored[p] + 1
                                       ELSE search[k].scored[p]]
    BY <1>4, <1>9 DEF SearchSet
  <2>4. \A p \in Profiles : p \in job.low .. last <=> Covers(job, p) /\ p <= last
    BY <1>3, <2>1, <2>2 DEF Covers
  <2>5. \A p \in Profiles : p <= top /\ Covers(job, p) => p <= last
    BY <1>3, <2>1, <2>2 DEF Covers
  <2> QED
    BY <2>2, <2>3, <2>4, <2>5
<1>17. /\ z \in SearchSet /\ z.state = search[k].state /\ z.pending = search[k].pending
       /\ z.merged = search[k].merged /\ z.inUse = search[k].inUse /\ z.top = search[k].top
  <2>1. PICK f : f = [p \in Profiles |-> IF p \in job.low .. last THEN search[k].scored[p] + 1
                                         ELSE search[k].scored[p]]
    OBVIOUS
  <2>2. f \in [Profiles -> Nat]
    BY <1>16, <2>1
  <2>3. z = [search[k] EXCEPT !.scored = f]
    BY <1>4, <2>1
  <2> QED
    BY <1>9, <2>2, <2>3 DEF SearchSet
<1>18. \A m \in Searches : search'[m] = IF m = k THEN z ELSE search[m]
  BY <1>5, <1>6 DEF Types
<1>19. Types'
  <2>1. search' \in [Searches -> SearchSet]
    BY <1>5, <1>6, <1>17 DEF Types
  <2>2. worker' \in [Threads -> WorkerSet]
    BY <1>5, <1>6, <1>7 DEF Types, WorkerSet
  <2>3. \A u \in Threads : worker'[u].at # "wait" => worker'[u].job \in RangeSet
    BY <1>6, <1>13 DEF Types
  <2> QED
    BY <1>5, <1>6, <2>1, <2>2, <2>3 DEF Types
<1>20. \A m \in Searches : search'[m].state = search[m].state
  BY <1>17, <1>18
<1>21. ListInv' /\ StartInv'
  BY <1>5, <1>6, <1>20 DEF ListInv, Made, Types, StartInv, Pushes, Uses
<1>22. FreshInv'
  <2>1. \A c \in Clients : client[c].at = "list" => client[c].search \in Searches
    BY <1>6, MadeStarted DEF StartInv, Pushes
  <2> QED
    BY <1>5, <1>6, <1>14, <1>20, <2>1 DEF FreshInv, Made, InList, Uses
<1>23. JobInv'
  <2>1. \A u \in Threads, v \in Threads :
          worker'[u].at # "wait" /\ worker'[v].at # "wait" /\ worker'[u].job = worker'[v].job => u = v
    BY <1>6, <1>13 DEF JobInv
  <2>2. \A j \in RangeSet : /\ InQueue(j)' => ~ Kept(j)' /\ ~ Held(j)'
                            /\ Kept(j)' => ~ Held(j)'
                            /\ Somewhere(j)' => j.search \in 1 .. starts
    BY <1>6, <1>14 DEF JobInv, Somewhere
  <2> QED
    BY <1>5, <1>6, <2>1, <2>2 DEF JobInv, Distinct
<1>24. UseInv'
  <2>1. \A m \in Searches : Busy(m)' => Busy(m)
    BY <1>5, <1>14 DEF Busy, Pushes, Uses
  <2> QED
    BY <1>5, <1>6, <1>20, <2>1 DEF UseInv, Alive
<1>25. Covered(k)'
  <2>1. search'[k] = z /\ job \in Left(k) /\ Waits(job) /\ ~ Waits(job)'
    BY <1>2, <1>7, <1>8, <1>9, <1>14, <1>18 DEF Left, Somewhere, Waits
  <2>2. \A j \in Left(k) : j # job => (Waits(j)' <=> Waits(j))
    BY <1>14 DEF Waits
  <2>3. \A p \in Profiles : search[k].scored[p] \in {0, 1}
                               /\ (Covers(job, p) => search[k].scored[p] = 0)
    BY <1>11, <2>1 DEF Covered
  <2>4. \A p \in Profiles : z.scored[p] \in {0, 1}
    BY <1>16, <2>3
  <2>5. ASSUME NEW j \in Left(k), Waits(j)', NEW p \in Profiles, Covers(j, p) PROVE z.scored[p] = 0
    <3>1. j # job /\ Waits(j)
      BY <2>1, <2>2, <2>5
    <3>2. ~ Covers(job, p) /\ search[k].scored[p] = 0
      BY <1>11, <2>1, <2>5, <3>1 DEF Covered
    <3> QED
      BY <1>16, <3>2
  <2>6. ASSUME NEW p \in 0 .. search[k].top, z.scored[p] = 0
        PROVE  \E j \in Left(k) : Waits(j)' /\ Covers(j, p)
    <3>1. p \in Profiles /\ p <= top
      <4>1. search[k].top \in Nat /\ search[k].top <= top /\ top \in Nat /\ top <= MaxTop
        BY <1>6, <1>9, <1>11, SearchEngineAssumption DEF SearchSet, Types, Profiles, Covered
      <4> QED
        BY <4>1, SearchEngineAssumption DEF Profiles
    <3>2. search[k].scored[p] = 0 /\ ~ Covers(job, p)
      BY <1>16, <2>6, <3>1
    <3>3. PICK j \in Left(k) : Waits(j) /\ Covers(j, p)
      BY <1>11, <2>6, <3>2 DEF Covered
    <3> QED
      BY <2>2, <3>2, <3>3
  <2>7. search[k].top <= top
    BY <1>11 DEF Covered
  <2>8. \A i \in Left(k), j \in Left(k) : i # j => \A p \in Profiles : ~ (Covers(i, p) /\ Covers(j, p))
    BY <1>11 DEF Covered
  <2> QED
    BY <1>5, <1>15, <1>17, <2>1, <2>4, <2>5, <2>6, <2>7, <2>8 DEF Covered, Covers
<1>26. RangeInv'
  <2>1. SUFFICES ASSUME NEW m \in Searches, Made(m)' PROVE Counted(m)' /\ Covered(m)'
    BY DEF RangeInv
  <2>2. CASE m = k
    <3>1. Counted(k)'
      BY <1>9, <1>11, <1>15, <1>17, <1>18 DEF Counted
    <3> QED
      BY <1>25, <2>2, <3>1
  <2>3. CASE m # k
    <3>1. search'[m] = search[m] /\ Counted(m) /\ Covered(m)
      BY <1>6, <1>18, <2>1, <2>3 DEF RangeInv, Made
    <3>2. \A j \in Left(m) : Waits(j)' <=> Waits(j)
      BY <1>2, <1>14, <2>3 DEF Left, Waits
    <3>3. top <= top'
      BY <1>5, <1>6, SearchEngineAssumption DEF Types, Profiles
    <3>4. search[m].pending <= search'[m].inUse
      BY <3>1 DEF Counted
    <3> QED
      BY <1>6, <1>15, <1>19, <3>1, <3>2, <3>3, <3>4, SearchStays
  <2> QED
    BY <2>2, <2>3
<1> QED
  BY <1>19, <1>21, <1>22, <1>23, <1>24, <1>26 DEF SInv

\* The ranges of a search: as many as are waited for, all different, and every profile of
\* the cache is in one of them only.
LEMMA RangesAre ==
  ASSUME NEW k \in Searches, NEW n \in 1 .. MaxTop + 1, NEW r, r = Ranges(k, n),
         NEW S, S = {j \in RangeSet : In(r, j)}
  PROVE  /\ r \in Seq(RangeSet) /\ r # <<>> /\ Len(r) = NumRanges(n) /\ Distinct(r)
         /\ \A j : In(r, j) => j.search = k
         /\ IsFiniteSet(S) /\ Cardinality(S) = NumRanges(n) /\ NumRanges(n) \in Nat
         /\ \A p \in 0 .. n - 1 : \E j \in S : Covers(j, p)
         /\ \A i \in S, j \in S : i # j => \A p \in Profiles : ~ (Covers(i, p) /\ Covers(j, p))
<1>1. n \in Nat \ {0} /\ n <= MaxTop + 1 /\ MaxTop \in Nat
  BY SearchEngineAssumption
<1>2. PICK m : m = NumRanges(n)
  OBVIOUS
<1>3. PICK size : size = RangeSize(n)
  OBVIOUS
<1>4. /\ numThreads \in Nat \ {0} /\ m \in 1 .. numThreads /\ m \in Nat \ {0}
      /\ size \in Nat \ {0} /\ n <= numThreads * size
  BY <1>1, <1>2, <1>3, ThreadsPositive, RangeSizeBounds, NumRangesChosen
<1>5. r = [i \in 1 .. m |-> [search |-> k, low |-> LowOf(i, n), high |-> HighOf(i, n)]]
  BY <1>2 DEF Ranges
<1>6. \A i \in 1 .. m : LowOf(i, n) = (i - 1) * size
  BY <1>3 DEF LowOf
<1>7. \A i \in 1 .. m : /\ HighOf(i, n) \in 0 .. n - 1
                        /\ HighOf(i, n) = 0 \/ HighOf(i, n) = i * size - 1
                        /\ i < m => HighOf(i, n) # 0
  <2>1. HighOf(m, n) \in {0, n - 1} /\ \A i \in 1 .. m - 1 : HighOf(i, n) \in 1 .. n - 1
    BY <1>1, <1>2, RangesPartition
  <2>2. \A i \in 1 .. m : HighOf(i, n) = 0 \/ HighOf(i, n) = i * size - 1
    BY <1>3 DEF HighOf
  <2>3. ASSUME NEW i \in 1 .. m
        PROVE  HighOf(i, n) \in 0 .. n - 1 /\ (i < m => HighOf(i, n) # 0)
    <3>1. CASE i = m
      BY <1>1, <1>4, <2>1, <3>1
    <3>2. CASE i # m
      <4>1. i \in 1 .. m - 1
        BY <1>4, <3>2
      <4> QED
        BY <1>1, <2>1, <4>1
    <3> QED
      BY <3>1, <3>2
  <2> QED
    BY <2>2, <2>3
<1>8. \A i \in 1 .. m : LowOf(i, n) \in 0 .. MaxTop + 1
  <2>1. LowOf(1, n) = 0
           /\ \A i \in 1 .. m - 1 : HighOf(i, n) \in 1 .. n - 1 /\ LowOf(i + 1, n) = HighOf(i, n) + 1
    BY <1>1, <1>2, RangesPartition
  <2>2. ASSUME NEW i \in 1 .. m PROVE LowOf(i, n) \in 0 .. MaxTop + 1
    <3>1. CASE i = 1
      BY <1>1, <2>1, <3>1
    <3>2. CASE i # 1
      <4>1. i - 1 \in 1 .. m - 1 /\ (i - 1) + 1 = i
        BY <1>4, <3>2
      <4>2. HighOf(i - 1, n) \in 1 .. n - 1 /\ LowOf(i, n) = HighOf(i - 1, n) + 1
        BY <2>1, <4>1
      <4> QED
        BY <1>1, <4>2
    <3> QED
      BY <3>1, <3>2
  <2> QED
    BY <2>2
<1>9. \A i \in 1 .. m : /\ r[i] \in RangeSet /\ r[i].search = k
                        /\ r[i].low = LowOf(i, n) /\ r[i].high = HighOf(i, n)
  <2>1. \A i \in 1 .. m : HighOf(i, n) \in Profiles
    BY <1>1, <1>7 DEF Profiles
  <2> QED
    BY <1>5, <1>8, <2>1 DEF RangeSet
<1>10. r \in Seq(RangeSet) /\ Len(r) = m /\ DOMAIN r = 1 .. m /\ r # <<>>
  <2>1. r \in [1 .. m -> RangeSet]
    BY <1>5, <1>9
  <2> QED
    BY <1>4, <2>1
\* Of two ranges the later one begins after the end of the earlier one.
<1>11. ASSUME NEW i \in 1 .. m, NEW j \in 1 .. m, i < j
       PROVE  r[i].high # 0 /\ r[i].high < r[j].low
  <2>1. HighOf(i, n) # 0
    BY <1>4, <1>7, <1>11
  <2>2. HighOf(i, n) = i * size - 1 /\ LowOf(j, n) = (j - 1) * size
    BY <1>6, <1>7, <2>1
  <2>3. PICK d \in Nat : j - 1 = i + d
    <3>1. j - 1 - i \in Nat /\ j - 1 = i + (j - 1 - i)
      BY <1>4, <1>11
    <3> QED
      BY <3>1
  <2>4. (j - 1) * size = i * size + d * size /\ d * size \in Nat /\ i * size \in Nat
    BY <1>4, <2>3
  <2> QED
    BY <1>9, <2>1, <2>2, <2>4
<1>12. \A i \in 1 .. m, j \in 1 .. m : i # j =>
         r[i] # r[j] /\ \A p \in Profiles : ~ (Covers(r[i], p) /\ Covers(r[j], p))
  <2>1. ASSUME NEW i \in 1 .. m, NEW j \in 1 .. m, i < j,
               NEW p \in Profiles, Covers(r[i], p), Covers(r[j], p)
        PROVE  FALSE
    <3>1. r[i].high # 0 /\ r[i].high < r[j].low
      BY <1>11, <2>1
    <3>2. p <= r[i].high /\ r[j].low <= p
      BY <2>1, <3>1 DEF Covers
    <3>3. p \in Int /\ r[i].high \in Int /\ r[j].low \in Int
      BY <1>1, <1>9 DEF RangeSet, Profiles
    <3> QED
      BY <3>1, <3>2, <3>3
  <2>2. ASSUME NEW i \in 1 .. m, NEW j \in 1 .. m, i < j PROVE r[i] # r[j]
    <3>1. r[i].high < r[j].low
      BY <1>11, <2>2
    <3>2. r[j].low = (j - 1) * size /\ r[i].low = (i - 1) * size
      BY <1>6, <1>9
    <3>3. PICK d \in Nat \ {0} : j - 1 = (i - 1) + d
      <4>1. j - i \in Nat \ {0} /\ j - 1 = (i - 1) + (j - i)
        BY <1>4, <2>2
      <4> QED
        BY <4>1
    <3>4. (j - 1) * size = (i - 1) * size + d * size /\ d * size # 0 /\ (i - 1) * size \in Int
          /\ d * size \in Int
      BY <1>4, <3>3
    <3> QED
      BY <3>2, <3>4
  <2>3. \A i \in 1 .. m, j \in 1 .. m : i # j => i < j \/ j < i
    BY <1>4
  <2> QED
    BY <2>1, <2>2, <2>3
<1>13. \A j : In(r, j) <=> \E i \in 1 .. m : r[i] = j
  BY <1>10 DEF In
<1>14. Distinct(r)
  BY <1>10, <1>12 DEF Distinct
<1>15. IsFiniteSet(S) /\ Cardinality(S) = m
  <2>1. r \in [1 .. m -> S]
    <3>1. \A i \in 1 .. m : r[i] \in S
      BY <1>9, <1>13
    <3> QED
      BY <1>5, <3>1
  <2>2. \A a, b \in 1 .. m : r[a] = r[b] => a = b
    BY <1>12
  <2>3. \A s \in S : \E i \in 1 .. m : r[i] = s
    BY <1>13
  <2>4. r \in Bijection(1 .. m, S)
    BY <2>1, <2>2, <2>3, Fun_IsBij
  <2>5. IsFiniteSet(1 .. m) /\ Cardinality(1 .. m) = m
    BY <1>4, FS_Interval
  <2>6. ExistsBijection(1 .. m, S)
    BY <2>4 DEF ExistsBijection
  <2> QED
    BY <2>5, <2>6, FS_Bijection
<1>16. ASSUME NEW p \in 0 .. n - 1 PROVE \E j \in S : Covers(j, p)
  <2>1. PICK q \in Nat, e \in Nat : e < size /\ p = size * q + e
    <3>1. p \in Nat /\ p \div size \in Nat /\ p % size \in Nat /\ p % size < size
          /\ p = size * (p \div size) + (p % size)
      BY <1>1, <1>4
    <3> QED
      BY <3>1
  <2>2. CASE q + 1 <= m
    <3>1. q + 1 \in 1 .. m /\ (q + 1) - 1 = q
      BY <1>4, <2>2
    <3>2. r[q + 1].low = q * size /\ (r[q + 1].high = 0 \/ r[q + 1].high = (q + 1) * size - 1)
      BY <1>6, <1>7, <1>9, <3>1
    <3>3. (q + 1) * size = q * size + size /\ q * size \in Nat /\ size * q = q * size
      BY <1>4
    <3>4. Covers(r[q + 1], p)
      BY <1>4, <2>1, <3>2, <3>3 DEF Covers
    <3> QED
      BY <1>9, <1>13, <3>1, <3>4
  <2>3. CASE ~ (q + 1 <= m)
    <3>1. PICK d \in Nat : q = m + d
      <4>1. q - m \in Nat /\ q = m + (q - m)
        BY <1>4, <2>3
      <4> QED
        BY <4>1
    <3>2. /\ size * q = m * size + d * size /\ m * size \in Nat /\ d * size \in Nat
          /\ (m - 1) * size = m * size - size
      BY <1>4, <3>1
    <3>3. m * size <= p /\ (m - 1) * size <= p
      BY <1>4, <2>1, <3>2
    <3>4. m # numThreads
      BY <1>1, <1>4, <3>2, <3>3
    <3>5. HighOf(m, n) = 0
      BY <1>1, <1>2, <3>4, NumRangesChosen
    <3>6. m \in 1 .. m
      BY <1>4
    <3>7. Covers(r[m], p)
      BY <1>6, <1>9, <3>3, <3>5, <3>6 DEF Covers
    <3> QED
      BY <1>9, <1>13, <3>6, <3>7
  <2> QED
    BY <2>2, <2>3
<1>17. \A j : In(r, j) => j.search = k
  BY <1>9, <1>13
<1>18. \A i \in S, j \in S : i # j => \A p \in Profiles : ~ (Covers(i, p) /\ Covers(j, p))
  BY <1>12, <1>13
<1> QED
  BY <1>2, <1>4, <1>10, <1>14, <1>15, <1>16, <1>17, <1>18

LEMMA PrepareKeeps ==
  ASSUME SInv, NEW c \in Clients, Prepare(c)
  PROVE  SInv'
<1>1. PICK k : k = starts + 1
  OBVIOUS
<1>2. PICK n : n = top + 1
  OBVIOUS
<1>3. PICK r : r = Ranges(k, n)
  OBVIOUS
<1>4. PICK new : new = [NoSearch EXCEPT !.state = "made", !.id = nextSearchId, !.top = top,
                                        !.pending = InitialPending(n), !.inUse = Len(r)]
  OBVIOUS
<1>5. PICK z : z = [NoClient EXCEPT !.at = "list", !.search = k, !.ranges = r]
  OBVIOUS
<1>6. /\ client[c].at = "idle" /\ starts < MaxStarts /\ starts' = k
      /\ search' = [search EXCEPT ![k] = new] /\ client' = [client EXCEPT ![c] = z]
      /\ UNCHANGED <<nextSearchId, list, queue, worker, top, cut>>
  BY <1>1, <1>2, <1>3, <1>4, <1>5 DEF Prepare, SetSearch, SetClient
<1>7. Types /\ ListInv /\ StartInv /\ FreshInv /\ JobInv /\ RangeInv /\ UseInv
  BY DEF SInv
<1>8. /\ k \in Searches /\ n \in 1 .. MaxTop + 1 /\ top = n - 1 /\ top \in Nat
      /\ starts \in Nat /\ k \notin 1 .. starts /\ 1 .. starts \subseteq 1 .. k /\ k \in 1 .. k
  BY <1>1, <1>2, <1>6, <1>7, SearchEngineAssumption DEF Types, Profiles, Searches
<1>9. PICK S : S = {j \in RangeSet : In(r, j)}
  OBVIOUS
<1>10. /\ r \in Seq(RangeSet) /\ r # <<>> /\ Len(r) = NumRanges(n) /\ Distinct(r)
       /\ \A j : In(r, j) => j.search = k
       /\ IsFiniteSet(S) /\ Cardinality(S) = NumRanges(n) /\ NumRanges(n) \in Nat
       /\ \A p \in 0 .. n - 1 : \E j \in S : Covers(j, p)
       /\ \A i \in S, j \in S : i # j => \A p \in Profiles : ~ (Covers(i, p) /\ Covers(j, p))
  BY <1>3, <1>8, <1>9, RangesAre
<1>11. /\ new \in SearchSet /\ new.state = "made" /\ new.top = top /\ ~ new.merged
       /\ new.pending = NumRanges(n) /\ new.inUse = NumRanges(n)
       /\ \A p \in Profiles : new.scored[p] = 0
  <2>1. /\ NoSearch \in SearchSet /\ NoSearch.scored = [p \in Profiles |-> 0]
        /\ NoSearch.merged = FALSE
    BY SearchEngineAssumption DEF NoSearch, SearchSet, Profiles
  <2>2. top \in Profiles /\ nextSearchId \in Nat
    BY <1>7 DEF Types
  <2> HIDE DEF NoSearch
  <2> QED
    BY <1>4, <1>10, <2>1, <2>2 DEF InitialPending, SearchSet
<1>12. /\ z \in ClientSet /\ z.at = "list" /\ z.search = k /\ z.ranges = r
  <2>1. NoClient \in ClientSet
    BY DEF NoClient, ClientSet
  <2> HIDE DEF NoClient
  <2> QED
    BY <1>5, <1>8, <1>10, <2>1 DEF ClientSet
<1>13. \A d \in Clients : client'[d] = IF d = c THEN z ELSE client[d]
  BY <1>6, <1>7 DEF Types
<1>14. \A m \in Searches : search'[m] = IF m = k THEN new ELSE search[m]
  BY <1>6, <1>7 DEF Types
<1>15. Types'
  <2>1. starts' \in 0 .. MaxStarts
    BY <1>1, <1>6, <1>7, SearchEngineAssumption DEF Types
  <2> QED
    BY <1>6, <1>7, <1>11, <1>12, <2>1 DEF Types
<1>16. \A m : InList(m) => m # k /\ m \in Searches
  BY <1>7, <1>8, MadeStarted
<1>17. ListInv'
  <2>1. ASSUME NEW m \in Searches PROVE m > k <=> search'[m].state = "none"
    <3>1. m > starts <=> search[m].state = "none"
      BY <1>7 DEF ListInv
    <3>2. m \in Nat
      BY DEF Searches
    <3>3. CASE m = k
      BY <1>11, <1>14, <3>2, <3>3
    <3>4. CASE m # k
      BY <1>1, <1>8, <1>14, <3>1, <3>2, <3>4
    <3> QED
      BY <3>3, <3>4
  <2>2. \A i \in DOMAIN list : search'[list[i]].state = "made"
    BY <1>7, <1>14, <1>16 DEF ListInv, Made, InList
  <2> QED
    BY <1>6, <2>1, <2>2 DEF ListInv, Made
<1>18. ~ Pushes(c) /\ ~ Uses(c) /\ client[c].ranges = <<>>
  BY <1>6, <1>7 DEF Pushes, Uses, StartInv
<1>19. \A d \in Clients : /\ Pushes(d)' <=> d = c \/ Pushes(d)
                          /\ Uses(d)' <=> d # c /\ Uses(d)
                          /\ d # c => client'[d] = client[d]
                          /\ Pushes(d) => client[d].search # k
                          /\ Uses(d) => client[d].use # k
  BY <1>7, <1>8, <1>12, <1>13, <1>18 DEF Pushes, Uses, StartInv
<1>20. StartInv'
  <2>1. ASSUME NEW d \in Clients
        PROVE  /\ Pushes(d)' => /\ client'[d].search \in 1 .. k /\ client'[d].ranges # <<>>
                                /\ \A j \in RangeSet : In(client'[d].ranges, j) =>
                                    j.search = client'[d].search
               /\ ~ Pushes(d)' => client'[d].ranges = <<>>
               /\ Uses(d)' => client'[d].use \in 1 .. k
    <3>1. CASE d = c
      BY <1>8, <1>10, <1>12, <1>13, <1>19, <3>1
    <3>2. CASE d # c
      <4>1. client'[d] = client[d] /\ (Pushes(d)' <=> Pushes(d)) /\ (Uses(d)' <=> Uses(d))
        BY <1>19, <3>2
      <4> QED
        BY <1>7, <1>8, <4>1 DEF StartInv
    <3> QED
      BY <3>1, <3>2
  <2>2. ASSUME NEW d \in Clients, NEW e \in Clients, Pushes(d)', Pushes(e)', d # e
        PROVE  client'[d].search # client'[e].search
    <3>1. CASE d = c
      BY <1>12, <1>13, <1>19, <2>2, <3>1
    <3>2. CASE e = c
      BY <1>12, <1>13, <1>19, <2>2, <3>2
    <3>3. CASE d # c /\ e # c
      BY <1>7, <1>19, <2>2, <3>3 DEF StartInv
    <3> QED
      BY <3>1, <3>2, <3>3
  <2> QED
    BY <1>6, <2>1, <2>2 DEF StartInv, In
<1>21. \A j : /\ InQueue(j)' <=> InQueue(j)
              /\ Held(j)' <=> Held(j)
              /\ Scoring(j)' <=> Scoring(j)
              /\ Kept(j)' <=> Kept(j) \/ In(r, j)
  <2>1. \A j : ~ In(<<>>, j)
    BY DEF In
  <2>2. \A j : (\E d \in Clients : In(client'[d].ranges, j)) <=> Kept(j) \/ In(r, j)
    BY <1>12, <1>13, <1>18, <2>1 DEF Kept
  <2>3. \A j : (InQueue(j)' <=> InQueue(j)) /\ (Held(j)' <=> Held(j)) /\ (Scoring(j)' <=> Scoring(j))
    BY <1>6 DEF InQueue, In, Held, Scoring
  <2> QED
    BY <2>2, <2>3 DEF Kept, In
<1>22. \A j \in RangeSet : Somewhere(j) => j.search \in 1 .. starts /\ j.search # k
  BY <1>7, <1>8 DEF JobInv
<1>23. FreshInv'
  <2>1. ASSUME NEW d \in Clients, client'[d].at = "list", NEW m, m = client'[d].search
        PROVE  /\ search'[m].state = "made" /\ ~ InList(m)
               /\ \A e \in Clients : Uses(e)' => client'[e].use # m
               /\ \A j \in RangeSet : InQueue(j) \/ Held(j) => j.search # m
    <3>1. CASE d = c
      <4>1. m = k
        BY <1>12, <1>13, <2>1, <3>1
      <4> QED
        BY <1>8, <1>11, <1>14, <1>16, <1>19, <1>22, <4>1 DEF Somewhere
    <3>2. CASE d # c
      <4>1. client[d].at = "list" /\ m = client[d].search /\ m # k
        BY <1>19, <2>1, <3>2 DEF Pushes
      <4>2. /\ Made(m) /\ ~ InList(m)
            /\ \A e \in Clients : Uses(e) => client[e].use # m
            /\ \A j \in RangeSet : InQueue(j) \/ Held(j) => j.search # m
        BY <1>7, <4>1 DEF FreshInv
      <4>3. m \in Searches
        BY <1>7, <4>1, MadeStarted DEF StartInv, Pushes
      <4> QED
        BY <1>14, <1>19, <4>1, <4>2, <4>3 DEF Made
    <3> QED
      BY <3>1, <3>2
  <2> QED
    BY <1>6, <1>21, <2>1 DEF FreshInv, Made, InList
<1>24. JobInv'
  <2>1. \A d \in Clients : Distinct(client'[d].ranges)
    BY <1>7, <1>10, <1>12, <1>13 DEF JobInv
  <2>2. ASSUME NEW j \in RangeSet
        PROVE  /\ InQueue(j)' => ~ Kept(j)' /\ ~ Held(j)'
               /\ Kept(j)' => ~ Held(j)'
               /\ Somewhere(j)' => j.search \in 1 .. k
    <3>1. In(r, j) => ~ Somewhere(j) /\ j.search = k
      BY <1>10, <1>22
    <3> QED
      BY <1>7, <1>8, <1>21, <1>22, <3>1 DEF JobInv, Somewhere
  <2> QED
    BY <1>6, <1>7, <2>1, <2>2 DEF JobInv, Distinct
<1>25. RangeInv'
  <2>1. SUFFICES ASSUME NEW m \in Searches, Made(m)' PROVE Counted(m)' /\ Covered(m)'
    BY DEF RangeInv
  <2>2. CASE m = k
    <3>1. search'[k] = new
      BY <1>8, <1>14
    <3>2. Left(k)' = S
      <4>1. \A j \in RangeSet : j.search = k /\ Somewhere(j)' <=> In(r, j)
        BY <1>10, <1>21, <1>22 DEF Somewhere
      <4> QED
        BY <1>9, <4>1 DEF Left
    <3>3. \A j \in S : Waits(j)'
      BY <1>9, <1>21 DEF Waits
    <3>4. Counted(k)'
      BY <1>10, <1>11, <3>1, <3>2 DEF Counted
    <3>5. Covered(k)'
      <4>1. \A p \in 0 .. new.top : \E j \in S : Covers(j, p)
        BY <1>8, <1>10, <1>11
      <4>2. new.top <= top'
        BY <1>6, <1>8, <1>11
      <4>3. \A p \in Profiles : search'[k].scored[p] = 0
        BY <1>11, <3>1
      <4>4. \A i \in S, j \in S : i # j => \A p \in Profiles : ~ (Covers(i, p) /\ Covers(j, p))
        BY <1>10
      <4> QED
        BY <3>1, <3>2, <3>3, <4>1, <4>2, <4>3, <4>4 DEF Covered, Covers
    <3> QED
      BY <2>2, <3>4, <3>5
  <2>3. CASE m # k
    <3>1. search'[m] = search[m] /\ Counted(m) /\ Covered(m)
      BY <1>7, <1>14, <2>1, <2>3 DEF RangeInv, Made
    <3>2. \A j \in RangeSet : j.search = m => (Somewhere(j)' <=> Somewhere(j))
                                           /\ (Waits(j)' <=> Waits(j))
      BY <1>10, <1>21, <2>3 DEF Somewhere, Waits
    <3>3. Left(m)' = Left(m) /\ \A j \in Left(m) : Waits(j)' <=> Waits(j)
      BY <3>2 DEF Left
    <3>4. top <= top'
      BY <1>6, <1>8
    <3>5. search[m].pending <= search'[m].inUse
      BY <3>1 DEF Counted
    <3> QED
      BY <1>7, <1>15, <3>1, <3>3, <3>4, <3>5, SearchStays
  <2> QED
    BY <2>2, <2>3
<1>26. UseInv'
  <2>1. \A m \in Searches : Busy(m)' => Busy(m) \/ m = k
    BY <1>12, <1>13, <1>19, <1>21 DEF Busy
  <2>2. \A m \in Searches : m # k => (search'[m].state # "freed" <=> Alive(m))
    BY <1>14 DEF Alive
  <2>3. search'[k].state # "freed"
    BY <1>8, <1>11, <1>14
  <2> QED
    BY <1>6, <1>7, <2>1, <2>2, <2>3 DEF UseInv, Alive
<1> QED
  BY <1>15, <1>17, <1>20, <1>23, <1>24, <1>25, <1>26 DEF SInv

-----------------------------------------------------------------------------
LEMMA CrashKeeps == SInv /\ Crash => SInv'
<1>1. Crash => Empty'
  BY DEF Crash, Empty
<1> QED
  BY <1>1, EmptySInv, PTL

LEMMA NextSearches == SInv /\ HoldInv /\ [Next]_vars => SInv'
<1> SUFFICES ASSUME SInv, HoldInv, [Next]_vars PROVE SInv'
  OBVIOUS
<1>1. ASSUME NEW t \in Threads, ThreadStep(t) PROVE SInv'
  <2>1. CASE Unlock(t)
    BY <2>1, StutterKeeps DEF Unlock, history
  <2> QED
    BY <1>1, <2>1, PopKeeps, ScoreKeeps, FinishKeeps DEF ThreadStep
<1>2. ASSUME NEW c \in Clients, StartStep(c) PROVE SInv'
  BY <1>2, AddToListKeeps, PushKeeps, TakeIdKeeps DEF StartStep
<1>3. ASSUME NEW c \in Clients, RequestStep(c) PROVE SInv'
  <2>1. CASE Status(c) \/ Lookup(c)
    BY <2>1, LookupKeeps DEF Status, Lookup, SetClient, history
  <2> QED
    BY <1>3, <2>1, PrepareKeeps, PrepareFailsKeeps, MergeKeeps, ReplyKeeps, EndKeeps
       DEF RequestStep
<1>4. CASE up /\ (Round \/ UseFreed \/ Crash \/ Grow)
  BY <1>4, RoundKeeps, UseFreedKeeps, CrashKeeps, GrowKeeps
<1>5. CASE UNCHANGED vars
  BY <1>5, StutterKeeps DEF vars
<1> QED
  BY <1>1, <1>2, <1>3, <1>4, <1>5 DEF Next

\* The steps after which a thread that is to unlock the mutex of a search still is.
LEMMA HoldStays ==
  ASSUME SInv, HoldInv, UNCHANGED held, starts' \in Nat, starts <= starts', cut \subseteq cut',
         \A t \in Threads : held[t] # 0 => worker'[t] = worker[t],
         \A k \in 1 .. starts : Alive(k) /\ ~ Unlocked(k) => Alive(k)' \/ k \in cut',
         \A c \in Clients : client'[c].at = "list" =>
           \/ client[c].at = "list" /\ client'[c].search = client[c].search
           \/ client'[c].search \in Searches \ (1 .. starts),
         \A c \in Clients : client'[c].at = "refree" =>
           \/ client[c].at = "refree" /\ client'[c].search = client[c].search
           \/ client'[c].search \in Searches \cap cut'
  PROVE  HoldInv'
<1>1. starts \in Nat
  BY DEF SInv, Types
<1>2. held' \in [Threads -> {0} \cup 1 .. starts']
  BY <1>1 DEF HoldInv
<1>3. ASSUME NEW t \in Threads, held[t] # 0, NEW k, k = held[t]
      PROVE  worker'[t] = Idle /\ (Alive(k)' \/ k \in cut')
  <2>1. k \in 1 .. starts /\ ~ Unlocked(k)
    BY <1>3 DEF HoldInv, Unlocked
  <2> QED
    BY <1>3, <2>1 DEF HoldInv
<1>4. ASSUME NEW c \in Clients, client'[c].at = "list", NEW t \in Threads
      PROVE  held[t] # client'[c].search
  <2>1. CASE client[c].at = "list" /\ client'[c].search = client[c].search
    BY <2>1 DEF HoldInv, Unlocked
  <2>2. CASE client'[c].search \in Searches \ (1 .. starts)
    BY <2>2 DEF HoldInv, Searches
  <2> QED
    BY <1>4, <2>1, <2>2
<1>5. \A c \in Clients : client'[c].at = "refree" => client'[c].search \in Searches \cap cut'
  BY DEF HoldInv
<1> QED
  BY <1>2, <1>3, <1>4, <1>5 DEF HoldInv, Unlocked, Alive

LEMMA StartsSame == Types => starts \in Nat /\ starts <= starts
BY DEF Types

LEMMA ThreadHolds ==
  ASSUME SInv, HoldInv, NEW t \in Threads, ThreadStep(t)
  PROVE  HoldInv'
<1>1. Types /\ ListInv /\ StartInv /\ FreshInv /\ starts \in Nat /\ starts <= starts
  BY StartsSame DEF SInv
<1>2. CASE Pop(t)
  <2>1. \A u \in Threads : held[u] # 0 => worker'[u] = worker[u]
    BY <1>2 DEF Pop, SetWorker
  <2> QED
    BY <1>1, <1>2, <2>1, HoldStays DEF Pop, history, Alive
<1>3. CASE Score(t)
  <2>1. \A u \in Threads : held[u] # 0 => worker'[u] = worker[u]
    BY <1>3 DEF Score, SetWorker, HoldInv, Idle
  <2>2. \A k \in 1 .. starts : Alive(k) => Alive(k)'
    <3>1. PICK z : z = worker[t].job.search
      OBVIOUS
    <3>2. PICK x : search' = [search EXCEPT ![z] = [search[z] EXCEPT !.scored = x]]
      BY <1>3, <3>1 DEF Score, SetSearch
    <3>3. \A k \in Searches : search'[k].state = search[k].state
      <4>1. \A k \in Searches : search'[k] \in {search[k], [search[k] EXCEPT !.scored = x]}
        BY <1>1, <3>2 DEF Types
      <4> QED
        BY <1>1, <4>1 DEF Types, SearchSet
    <3> QED
      BY <1>1, <3>3, MadeStarted DEF Alive
  <2> QED
    BY <1>1, <1>3, <2>1, <2>2, HoldStays DEF Score, history
<1>4. CASE Finish(t)
  <2>1. PICK k : k = worker[t].job.search
    OBVIOUS
  <2>2. /\ worker[t].at = "finish" /\ Alive(k) /\ worker' = [worker EXCEPT ![t] = Idle]
        /\ search' = [search EXCEPT ![k] = [search[k] EXCEPT !.pending = @ - 1]]
        /\ held' = [held EXCEPT ![t] = k]
        /\ UNCHANGED <<client, starts, cut>>
    BY <1>4, <2>1 DEF Finish, SetSearch, history
  <2>3. worker[t].job \in RangeSet /\ Held(worker[t].job)
    BY <1>1, <2>2 DEF Types, Held
  <2>4. k \in 1 .. starts /\ \A c \in Clients : client[c].at = "list" => k # client[c].search
    BY <1>1, <2>1, <2>3 DEF SInv, JobInv, Somewhere, FreshInv
  <2>5. \A m \in Searches : search'[m].state = search[m].state
    BY <1>1, <2>2 DEF Types, SearchSet
  <2>6. \A m \in 1 .. starts : Alive(m)' <=> Alive(m)
    BY <1>1, <2>5, MadeStarted DEF Alive
  <2>7. held' \in [Threads -> {0} \cup 1 .. starts]
    BY <2>2, <2>4 DEF HoldInv
  <2>8. \A u \in Threads : held'[u] = IF u = t THEN k ELSE held[u]
    BY <2>2 DEF HoldInv
  <2>9. \A u \in Threads : worker'[u] = IF u = t THEN Idle ELSE worker[u]
    BY <1>1, <2>2 DEF Types
  <2>10. ASSUME NEW u \in Threads, held'[u] # 0, NEW m, m = held'[u]
         PROVE  worker'[u] = Idle /\ (Alive(m)' \/ m \in cut)
    <3>1. CASE u = t
      BY <2>2, <2>4, <2>6, <2>8, <2>9, <2>10, <3>1
    <3>2. CASE u # t
      <4>1. worker'[u] = Idle /\ m \in 1 .. starts /\ (Alive(m) \/ m \in cut)
        BY <2>8, <2>9, <2>10, <3>2 DEF HoldInv
      <4> QED
        BY <2>6, <4>1
    <3> QED
      BY <3>1, <3>2
  <2>11. \A c \in Clients, u \in Threads : client[c].at = "list" => held'[u] # client[c].search
    BY <2>4, <2>8 DEF HoldInv, Unlocked
  <2> QED
    BY <2>2, <2>7, <2>10, <2>11 DEF HoldInv, Unlocked, Alive
<1>5. CASE Unlock(t)
  <2>1. held' = [held EXCEPT ![t] = 0] /\ UNCHANGED <<search, worker, client, starts, cut>>
    BY <1>5 DEF Unlock, history
  <2>2. \A c \in Clients : client[c].at = "list" => client[c].search # 0
    BY <1>1 DEF StartInv, Pushes
  <2> QED
    BY <1>1, <2>1, <2>2 DEF HoldInv, Unlocked, Alive
<1> QED
  BY <1>2, <1>3, <1>4, <1>5 DEF ThreadStep

\* The steps that free no search and begin no start.
LEMMA RequestHolds ==
  ASSUME SInv, HoldInv, NEW c \in Clients, NEW r, client' = [client EXCEPT ![c] = r],
         r.at # "refree", r.at = "list" => client[c].at = "list" /\ r.search = client[c].search,
         \A k \in Searches : search'[k].state = search[k].state,
         UNCHANGED <<held, worker, starts, cut>>
  PROVE  HoldInv'
<1>1. Types /\ starts \in Nat /\ starts <= starts
  BY StartsSame DEF SInv
<1>2. \A d \in Clients : client'[d] = IF d = c THEN r ELSE client[d]
  BY <1>1 DEF Types
<1>3. \A k \in 1 .. starts : Alive(k) => Alive(k)'
  BY <1>1, MadeStarted DEF SInv, Alive
<1> QED
  BY <1>1, <1>2, <1>3, HoldStays

LEMMA ClientHolds ==
  ASSUME SInv, HoldInv, NEW c \in Clients, StartStep(c) \/ RequestStep(c)
  PROVE  HoldInv'
<1>1. Types /\ ListInv /\ StartInv /\ starts \in Nat /\ starts <= starts
      /\ client[c] \in ClientSet
  BY StartsSame DEF SInv, Types
<1>2. CASE AddToList(c)
  <2>1. PICK r : r = [client[c] EXCEPT !.at = "push"] /\ client' = [client EXCEPT ![c] = r]
    BY <1>2 DEF AddToList, SetClient
  <2>2. r.at = "push"
    BY <1>1, <2>1 DEF ClientSet
  <2>3. search' = search /\ UNCHANGED <<held, worker, starts, cut>>
    BY <1>2 DEF AddToList, history
  <2> QED
    BY <2>1, <2>2, <2>3, RequestHolds
<1>3. CASE Push(c)
  <2> DEFINE at == IF Len(client[c].ranges) = 1 THEN "take" ELSE "push"
             r == [client[c] EXCEPT !.ranges = Tail(client[c].ranges), !.at = at]
  <2>1. client' = [client EXCEPT ![c] = r] /\ at \in {"take", "push"}
    BY <1>3 DEF Push, SetClient
  <2> HIDE DEF at
  <2>2. r.at \in {"take", "push"}
    BY <1>1, <2>1 DEF ClientSet
  <2> HIDE DEF r
  <2> QED
    BY <1>3, <2>1, <2>2, RequestHolds DEF Push, history
<1>4. CASE TakeId(c) \/ BumpId(c)
  <2>1. PICK r : /\ client' = [client EXCEPT ![c] = r]
                 /\ \/ r = [client[c] EXCEPT !.at = "bump", !.id = nextSearchId]
                    \/ r = [client[c] EXCEPT !.at = "idle"]
    BY <1>4 DEF TakeId, BumpId, SetClient
  <2>2. r.at \in {"bump", "idle"}
    BY <1>1, <2>1 DEF ClientSet
  <2>3. search' = search /\ UNCHANGED <<held, worker, starts, cut>>
    BY <1>4 DEF TakeId, BumpId, history
  <2> QED
    BY <2>1, <2>2, <2>3, RequestHolds
<1>5. CASE Status(c) \/ StatusTold(c) \/ Lookup(c) \/ Reply(c)
  <2>1. PICK r : /\ client' = [client EXCEPT ![c] = r]
                 /\ \/ \E use : r = [client[c] EXCEPT !.at = "status", !.use = use]
                    \/ \E use : r = [client[c] EXCEPT !.at = "merge", !.use = use]
                    \/ r = [client[c] EXCEPT !.at = "idle", !.use = 0]
    BY <1>5 DEF Status, StatusTold, Lookup, Reply, SetClient
  <2>2. r.at \in {"status", "idle", "merge"}
    BY <1>1, <2>1 DEF ClientSet
  <2> QED
    BY <1>5, <2>1, <2>2, RequestHolds DEF Status, StatusTold, Lookup, Reply, history
<1>6. CASE Merge(c)
  <2>1. PICK r : /\ client' = [client EXCEPT ![c] = r]
                 /\ \/ r = [client[c] EXCEPT !.at = "idle", !.use = 0]
                    \/ r = [client[c] EXCEPT !.at = "reply"]
    BY <1>6 DEF Merge, SetClient
  <2>2. PICK k : k = client[c].use
    OBVIOUS
  <2>3. \/ search' = search
        \/ search' = [search EXCEPT ![k] = [search[k] EXCEPT !.merged = TRUE, !.inUse = 0]]
    BY <1>6, <2>2 DEF Merge, SetSearch
  <2>4. \A m \in Searches : search'[m].state = search[m].state
    <3>1. \A m \in Searches :
            search'[m] \in {search[m], [search[m] EXCEPT !.merged = TRUE, !.inUse = 0]}
      BY <1>1, <2>3 DEF Types
    <3> QED
      BY <1>1, <3>1 DEF Types, SearchSet
  <2>5. r.at \in {"idle", "reply"}
    BY <1>1, <2>1 DEF ClientSet
  <2> QED
    BY <1>6, <2>1, <2>4, <2>5, RequestHolds DEF Merge, history
<1>7. CASE Prepare(c)
  <2>1. PICK k, r, z : /\ k = starts + 1 /\ starts < MaxStarts /\ starts' = k
                       /\ z = [NoClient EXCEPT !.at = "list", !.search = k, !.ranges = r]
                       /\ client' = [client EXCEPT ![c] = z]
                       /\ \E x : search' = [search EXCEPT ![k] = x]
                       /\ UNCHANGED <<held, worker, cut>>
    BY <1>7 DEF Prepare, SetClient, SetSearch
  <2>2. z.at = "list" /\ z.search = k
    BY <2>1 DEF NoClient
  <2>3. k \in Searches \ (1 .. starts) /\ starts' \in Nat /\ starts <= starts'
    BY <1>1, <2>1, SearchEngineAssumption DEF Searches
  <2>4. \A m \in Searches \ {k} : search'[m] = search[m]
    BY <1>1, <2>1 DEF Types
  <2>5. \A m \in 1 .. starts : Alive(m) => Alive(m)'
    BY <1>1, <2>3, <2>4, MadeStarted DEF Alive
  <2>6. \A d \in Clients : client'[d] = IF d = c THEN z ELSE client[d]
    BY <1>1, <2>1 DEF Types
  <2> QED
    BY <2>1, <2>2, <2>3, <2>5, <2>6, HoldStays
<1>8. CASE PrepareFails(c) \/ HeapFails(c)
  <2>1. PICK k : k = client[c].search
    OBVIOUS
  <2>2. PICK z : /\ client[c].at = "list" /\ search' = [search EXCEPT ![k] = Freed]
                 /\ client' = [client EXCEPT ![c] = z]
                 /\ \/ z = NoClient /\ cut' = cut
                    \/ /\ z = [NoClient EXCEPT !.at = "refree", !.search = k]
                       /\ cut' = (cut \cup {k})
                 /\ UNCHANGED <<held, worker, starts>>
    BY <1>8, <2>1 DEF PrepareFails, HeapFails, SetSearch, SetClient, history
  <2>3. k \in Searches /\ Unlocked(k)
    BY <1>1, <2>1, <2>2, MadeStarted DEF StartInv, Pushes, HoldInv
  <2>4. \/ z.at = "idle"
        \/ z.at = "refree" /\ z.search = k /\ k \in cut'
    BY <2>2, NoClientIs DEF ClientSet
  <2>5. \A m \in 1 .. starts : Alive(m) /\ ~ Unlocked(m) => Alive(m)'
    <3>1. \A m \in Searches \ {k} : search'[m] = search[m]
      BY <1>1, <2>2 DEF Types
    <3> QED
      BY <1>1, <2>3, <3>1, MadeStarted DEF Alive
  <2>6. \A d \in Clients : client'[d] = IF d = c THEN z ELSE client[d]
    BY <1>1, <2>2 DEF Types
  <2>7. cut \subseteq cut'
    BY <2>2
  <2> QED
    BY <1>1, <2>2, <2>3, <2>4, <2>5, <2>6, <2>7, HoldStays
<1>9. CASE End(c)
  <2>1. PICK k : k = Find(client[c].id)
    OBVIOUS
  <2>2. /\ search' = [search EXCEPT ![k] = Freed]
        /\ cut' = IF search[k].pending > 0 \/ InHand(k) THEN cut \cup {k} ELSE cut
        /\ UNCHANGED <<held, worker, client, starts>>
    BY <1>9, <2>1 DEF End, SetSearch
  <2>3. \A m \in 1 .. starts : Alive(m) /\ ~ Unlocked(m) => Alive(m)' \/ m \in cut'
    <3>1. \A m \in Searches : m # k => search'[m] = search[m]
      BY <1>1, <2>2 DEF Types
    <3>2. ~ Unlocked(k) => k \in cut'
      BY <2>2 DEF InHand
    <3> QED
      BY <1>1, <3>1, <3>2, MadeStarted DEF Alive
  <2>4. cut \subseteq cut'
    BY <2>2
  <2> QED
    BY <1>1, <2>2, <2>3, <2>4, HoldStays
<1> QED
  BY <1>2, <1>3, <1>4, <1>5, <1>6, <1>7, <1>8, <1>9 DEF StartStep, RequestStep

\* What a round makes of the searches.
LEMMA RoundSearches ==
  ASSUME Round
  PROVE  \E deleted, seen :
           /\ search' = [k \in Searches |-> IF k \in deleted THEN Freed
                                            ELSE IF k \in seen THEN [search[k] EXCEPT !.marked = TRUE]
                                            ELSE search[k]]
           /\ cut' = cut \cup {k \in deleted : InHand(k)}
<1>1. PICK gone :
        LET deleted == {list[i] : i \in gone}
            seen    == {list[i] : i \in {j \in DOMAIN list : j - 1 \notin gone /\ Completed(j)}} IN
        /\ search' = [k \in Searches |-> IF k \in deleted THEN Freed
                                         ELSE IF k \in seen THEN [search[k] EXCEPT !.marked = TRUE]
                                         ELSE search[k]]
        /\ cut' = cut \cup {k \in deleted : InHand(k)}
  BY Zenon DEF Round
<1>2. PICK deleted, seen :
        /\ deleted = {list[i] : i \in gone}
        /\ seen = {list[i] : i \in {j \in DOMAIN list : j - 1 \notin gone /\ Completed(j)}}
  OBVIOUS
<1> QED
  BY <1>1, <1>2

LEMMA RoundHolds ==
  ASSUME SInv, HoldInv, Round
  PROVE  HoldInv'
<1>1. Types /\ starts \in Nat /\ starts <= starts
  BY StartsSame DEF SInv
<1>2. PICK deleted, seen :
        /\ search' = [k \in Searches |-> IF k \in deleted THEN Freed
                                         ELSE IF k \in seen THEN [search[k] EXCEPT !.marked = TRUE]
                                         ELSE search[k]]
        /\ cut' = cut \cup {k \in deleted : InHand(k)}
  BY RoundSearches
<1>3. UNCHANGED <<held, worker, client, starts>>
  BY DEF Round
<1>4. ASSUME NEW k \in 1 .. starts, Alive(k), ~ Unlocked(k) PROVE Alive(k)' \/ k \in cut'
  <2>1. CASE k \in deleted
    BY <1>2, <1>4, <2>1 DEF InHand
  <2>2. CASE k \notin deleted
    <3>1. PICK s \in SearchSet : s = search[k]
      BY <1>1, MadeStarted DEF SInv, Types
    <3>2. search'[k] \in {[s EXCEPT !.marked = TRUE], s}
      BY <1>1, <1>2, <2>2, <3>1, MadeStarted DEF SInv
    <3>3. search'[k].state = s.state
      BY <3>2 DEF SearchSet
    <3> QED
      BY <1>4, <3>1, <3>3 DEF Alive
  <2> QED
    BY <2>1, <2>2
<1>5. cut \subseteq cut'
  BY <1>2
<1> QED
  BY <1>1, <1>3, <1>4, <1>5, HoldStays

LEMMA UseFreedHolds ==
  ASSUME SInv, HoldInv, UseFreed
  PROVE  HoldInv'
<1>1. Types /\ StartInv /\ starts \in Nat /\ starts <= starts
  BY StartsSame DEF SInv
<1>2. UNCHANGED <<search, starts, cut>>
  BY DEF UseFreed, history
<1>3. ASSUME NEW c \in Clients, SetClient(c, [client[c] EXCEPT !.at = "idle", !.use = 0]),
             UNCHANGED <<worker, held>>
      PROVE  HoldInv'
  <2>1. PICK r : r = [client[c] EXCEPT !.at = "idle", !.use = 0]
    OBVIOUS
  <2>2. client[c] \in ClientSet
    BY <1>1 DEF Types
  <2>3. r.at = "idle"
    BY <2>1, <2>2 DEF ClientSet
  <2> QED
    BY <1>2, <1>3, <2>1, <2>3, RequestHolds DEF SetClient
<1>4. ASSUME NEW t \in Threads, worker' = [worker EXCEPT ![t] = Idle],
             held' = [held EXCEPT ![t] = 0], UNCHANGED client
      PROVE  HoldInv'
  <2>1. \A c \in Clients : client[c].at = "list" => client[c].search # 0
    BY <1>1 DEF StartInv, Pushes
  <2>2. \A u \in Threads : worker'[u] = worker[u] \/ worker'[u] = Idle
    BY <1>1, <1>4 DEF Types
  <2> QED
    BY <1>1, <1>2, <1>4, <2>1, <2>2 DEF HoldInv, Unlocked, Alive
<1> QED
  BY <1>3, <1>4 DEF UseFreed

LEMMA EmptyHoldInv == Empty => HoldInv
BY DEF Empty, HoldInv, NoClient

LEMMA NextHoldInv == SInv /\ HoldInv /\ [Next]_vars => HoldInv'
<1>1. Crash => Empty'
  BY DEF Crash, Empty
<1>2. Crash => HoldInv'
  BY <1>1, EmptyHoldInv, PTL
<1> SUFFICES ASSUME SInv, HoldInv, [Next]_vars PROVE HoldInv'
  OBVIOUS
<1>3. CASE Grow \/ UNCHANGED vars
  <2>1. UNCHANGED <<search, worker, held, client, starts, cut>>
    BY <1>3 DEF Grow, history, vars
  <2> QED
    BY <2>1, StartsSame, HoldStays DEF SInv, Alive
<1> QED
  BY <1>2, <1>3, ThreadHolds, ClientHolds, RoundHolds, UseFreedHolds DEF Next

LEMMA NextSInv == SInv /\ HoldInv /\ [Next]_vars => SInv' /\ HoldInv'
BY NextSearches, NextHoldInv

LEMMA InitSInv == Init => SInv /\ HoldInv
BY EmptySInv, EmptyHoldInv DEF Init, Empty

\* Nothing that was freed is used, except in the ways that NotUsedAfterFree names: when it is
\* freed no range is left of any other search, no request has found it and no thread is to
\* unlock its mutex, and the search of a start that fails was not known to anybody.
THEOREM FreedSearchUnused == Spec => []NotUsedAfterFree
<1>1. SInv /\ HoldInv => NotUsedAfterFree
  <2> SUFFICES ASSUME SInv, HoldInv, NEW k \in InUse PROVE Alive(k) \/ k \in cut
    BY DEF NotUsedAfterFree
  <2>1. k \in Searches
        /\ \/ Busy(k)
           \/ \E t \in Threads : held[t] # 0 /\ held[t] = k
           \/ \E c \in Clients : client[c].at = "refree" /\ client[c].search = k
    BY InUseIsBusy DEF SInv
  <2> QED
    BY <2>1 DEF SInv, UseInv, HoldInv
<1> QED
  BY <1>1, InitSInv, NextSInv, PTL DEF Spec

\* When a search is at 100 percent, or its results are merged, each profile that was
\* cached when it started was scored once and no profile twice: its ranges cover them, do
\* not overlap, and each was scored once before it was counted as done.
THEOREM AllScoredOnce == Spec => []ResultsComplete
<1>1. ASSUME SInv PROVE ResultsComplete
  <2>1. SUFFICES ASSUME NEW k \in Searches, Made(k), search[k].pending = 0 \/ search[k].merged
                 PROVE  \A p \in Profiles :
                          /\ search[k].scored[p] <= 1
                          /\ p <= search[k].top => search[k].scored[p] = 1
    BY <1>1 DEF SInv, ListInv, Types, ResultsComplete
  <2>2. search[k] \in SearchSet /\ Counted(k) /\ Covered(k)
    BY <1>1, <2>1 DEF SInv, Types, RangeInv
  <2>3. search[k].pending = 0
    BY <2>1, <2>2 DEF Counted
  <2>4. Left(k) = {}
    BY <2>2, <2>3, FS_EmptySet DEF Counted
  <2>5. \A p \in Profiles : search[k].scored[p] \in {0, 1}
    BY <2>2 DEF Covered
  <2>6. \A p \in 0 .. search[k].top : search[k].scored[p] # 0
    BY <2>2, <2>4 DEF Covered
  <2>7. search[k].top \in Nat /\ \A p \in Profiles : p \in Nat
    BY <2>2 DEF SearchSet, Profiles
  <2> QED
    BY <2>5, <2>6, <2>7
<1> QED
  BY <1>1, InitSInv, NextSInv, PTL DEF Spec

-----------------------------------------------------------------------------
(***************************************************************************)
(* The id of a search.  Before two starts overlap they come one after the  *)
(* other, and the next id is above those of all searches, except for the   *)
(* one that is being started.  The id of a client whose start was over     *)
(* before that is its own for ever: it stays below the next id, and below  *)
(* every id that a client has taken and not stored yet.                    *)
(***************************************************************************)
Finished(c) == client[c].id # 0 /\ ~ Starting(c) /\ client[c].search \notin swapped
IdBelow(m) == Made(m) => search[m].id < nextSearchId

OneByOne ==
  /\ \A c \in Clients, d \in Clients : Starting(c) /\ Starting(d) => c = d
  /\ (\A c \in Clients : ~ Starting(c)) => \A m \in Searches : IdBelow(m)
  /\ \A c \in Clients : Starting(c) =>
       /\ Made(client[c].search) => search[client[c].search].id = nextSearchId
       /\ client[c].at = "bump" => client[c].id = nextSearchId
       /\ \A m \in Searches \ {client[c].search} : IdBelow(m)

OwnId(c) ==
  /\ client[c].id < nextSearchId
  /\ Made(client[c].search) => search[client[c].search].id = client[c].id
  /\ \A m \in Searches \ {client[c].search} : Made(m) => search[m].id # client[c].id
  /\ \A d \in Clients : client[d].at = "bump" => client[c].id < client[d].id

IdInv ==
  /\ \A c \in Clients : /\ client[c].search \in 0 .. starts
                        /\ Starting(c) \/ client[c].id # 0 => client[c].search # 0
  /\ swapped = {} => OneByOne
  /\ \A c \in Clients : Starting(c) /\ client[c].search \notin swapped => swapped = {}
  /\ \A c \in Clients : Finished(c) => OwnId(c)

LEMMA SearchOfClient ==
  ASSUME IdInv, Types, NEW c \in Clients, Starting(c) \/ client[c].id # 0
  PROVE  client[c].search \in Searches
<1>1. client[c].search \in 0 .. starts /\ client[c].search # 0
  BY DEF IdInv
<1>2. starts \in Nat /\ MaxStarts \in Nat /\ starts <= MaxStarts
  BY SearchEngineAssumption DEF Types
<1> QED
  BY <1>1, <1>2 DEF Searches

\* The steps that take and store no id; they may free searches.
LEMMA IdStays ==
  ASSUME IdInv, Types, UNCHANGED <<nextSearchId, starts, swapped>>,
         \A c \in Clients : /\ client'[c].id = client[c].id /\ client'[c].search = client[c].search
                            /\ Starting(c)' <=> Starting(c)
                            /\ client'[c].at = "bump" <=> client[c].at = "bump",
         \A m \in Searches : search'[m].state = "made" => Made(m) /\ search'[m].id = search[m].id
  PROVE  IdInv'
<1>1. \A c \in Clients : Finished(c)' <=> Finished(c)
  BY DEF Finished, Starting
<1>2. \A m \in Searches : IdBelow(m) => IdBelow(m)'
  BY DEF IdBelow, Made
<1>3. swapped' = {} => OneByOne'
  <2>1. SUFFICES ASSUME OneByOne PROVE OneByOne'
    BY DEF IdInv
  <2>2. \A c \in Clients, d \in Clients : Starting(c)' /\ Starting(d)' => c = d
    BY <2>1 DEF OneByOne
  <2>3. (\A c \in Clients : ~ Starting(c)') => \A m \in Searches : IdBelow(m)'
    BY <1>2, <2>1 DEF OneByOne
  <2>4. ASSUME NEW c \in Clients, Starting(c)', NEW k \in Searches, k = client[c].search
        PROVE  /\ search'[k].state = "made" => search'[k].id = nextSearchId
               /\ client'[c].at = "bump" => client'[c].id = nextSearchId
               /\ \A m \in Searches \ {k} : IdBelow(m)'
    <3>1. /\ Made(k) => search[k].id = nextSearchId
          /\ client[c].at = "bump" => client[c].id = nextSearchId
          /\ \A m \in Searches \ {k} : IdBelow(m)
      BY <2>1, <2>4 DEF OneByOne
    <3> QED
      BY <1>2, <3>1
  <2>5. \A c \in Clients : Starting(c)' => client[c].search \in Searches
    BY SearchOfClient
  <2> QED
    BY <2>2, <2>3, <2>4, <2>5 DEF OneByOne, Made
<1>4. ASSUME NEW c \in Clients, OwnId(c), client[c].search \in Searches PROVE OwnId(c)'
  <2>1. PICK k \in Searches : k = client[c].search /\ k = client'[c].search
    BY <1>4
  <2>2. /\ client'[c].id < nextSearchId /\ client'[c].id = client[c].id
        /\ search'[k].state = "made" => search'[k].id = client[c].id
        /\ \A m \in Searches \ {k} : search'[m].state = "made" => search'[m].id # client[c].id
    BY <1>4, <2>1 DEF OwnId
  <2>3. \A d \in Clients : client'[d].at = "bump" => client'[c].id < client'[d].id
    BY <1>4 DEF OwnId
  <2> QED
    BY <2>1, <2>2, <2>3 DEF OwnId, Made
<1>5. \A c \in Clients : Finished(c)' => OwnId(c)'
  BY <1>1, <1>4, SearchOfClient DEF IdInv, Finished
<1>6. \A c \in Clients : /\ client'[c].search \in 0 .. starts
                         /\ Starting(c)' \/ client'[c].id # 0 => client'[c].search # 0
                         /\ Starting(c)' /\ client'[c].search \notin swapped => swapped = {}
  BY DEF IdInv
<1> HIDE DEF Starting, Finished
<1> QED
  BY <1>3, <1>5, <1>6 DEF IdInv

\* The steps that leave the clients and the ids alone.
LEMMA ThreadIds ==
  ASSUME IdInv, Types, UNCHANGED <<nextSearchId, starts, swapped, client>>,
         \A m \in Searches : search'[m].state = "made" => Made(m) /\ search'[m].id = search[m].id
  PROVE  IdInv'
BY IdStays DEF Starting

\* The steps of a request that is not at the end of a start.
LEMMA RequestIds ==
  ASSUME IdInv, Types, NEW c \in Clients, NEW r, client' = [client EXCEPT ![c] = r],
         r.id = client[c].id, r.search = client[c].search,
         (r.at \in {"list", "push", "take", "bump"}) <=> Starting(c),
         client[c].at # "bump", r.at # "bump",
         UNCHANGED <<nextSearchId, starts, swapped>>,
         \A m \in Searches : search'[m].state = "made" => Made(m) /\ search'[m].id = search[m].id
  PROVE  IdInv'
<1>1. \A d \in Clients : client'[d] = IF d = c THEN r ELSE client[d]
  BY DEF Types
<1>2. \A d \in Clients : /\ client'[d].id = client[d].id /\ client'[d].search = client[d].search
                         /\ Starting(d)' <=> Starting(d)
                         /\ client'[d].at = "bump" <=> client[d].at = "bump"
  BY <1>1 DEF Starting
<1> QED
  BY <1>2, IdStays

LEMMA IdOfSame ==
  ASSUME UNCHANGED search
  PROVE  \A m \in Searches : search'[m].state = "made" => Made(m) /\ search'[m].id = search[m].id
BY DEF Made

\* One search is freed, or changes in other things than its state and its id.
LEMMA IdOfOne ==
  ASSUME Types, NEW k \in Searches, NEW z, search' = [search EXCEPT ![k] = z],
         z.state = "freed" \/ (z.state = search[k].state /\ z.id = search[k].id)
  PROVE  \A m \in Searches : search'[m].state = "made" => Made(m) /\ search'[m].id = search[m].id
<1>1. \A m \in Searches : search'[m] = IF m = k THEN z ELSE search[m]
  BY DEF Types
<1> QED
  BY <1>1 DEF Made

LEMMA PopIds ==
  ASSUME SInv, IdInv, NEW t \in Threads, Pop(t)
  PROVE  IdInv'
BY IdOfSame, ThreadIds DEF SInv, Pop, history

LEMMA JobStarted ==
  ASSUME SInv, NEW t \in Threads, worker[t].at # "wait"
  PROVE  worker[t].job.search \in Searches
BY DEF SInv, Types, RangeSet

LEMMA ScoreIds ==
  ASSUME SInv, IdInv, NEW t \in Threads, Score(t)
  PROVE  IdInv'
<1> DEFINE k == worker[t].job.search
           job == worker[t].job
           last == IF job.high # 0 THEN job.high ELSE top
           z == [search[k] EXCEPT !.scored =
                   [p \in Profiles |-> IF p \in job.low .. last THEN @[p] + 1 ELSE @[p]]]
<1>1. /\ worker[t].at = "score" /\ search' = [search EXCEPT ![k] = z]
      /\ UNCHANGED <<nextSearchId, client, starts, swapped>>
  BY DEF Score, SetSearch, history
<1>2. k \in Searches
  BY <1>1, JobStarted
<1>3. Types /\ search[k] \in SearchSet
  BY <1>2 DEF SInv, Types
<1>4. z.state = search[k].state /\ z.id = search[k].id
  BY <1>3 DEF SearchSet
<1> HIDE DEF k, z
<1> QED
  BY <1>1, <1>2, <1>3, <1>4, IdOfOne, ThreadIds

LEMMA FinishIds ==
  ASSUME SInv, IdInv, NEW t \in Threads, Finish(t)
  PROVE  IdInv'
<1> DEFINE k == worker[t].job.search
           z == [search[k] EXCEPT !.pending = @ - 1]
<1>1. /\ worker[t].at = "finish" /\ search' = [search EXCEPT ![k] = z]
      /\ UNCHANGED <<nextSearchId, client, starts, swapped>>
  BY DEF Finish, SetSearch, history
<1>2. k \in Searches
  BY <1>1, JobStarted
<1>3. Types /\ search[k] \in SearchSet
  BY <1>2 DEF SInv, Types
<1>4. z.state = search[k].state /\ z.id = search[k].id
  BY <1>3 DEF SearchSet
<1> HIDE DEF k, z
<1> QED
  BY <1>1, <1>2, <1>3, <1>4, IdOfOne, ThreadIds

LEMMA RoundIds ==
  ASSUME SInv, IdInv, Round
  PROVE  IdInv'
<1>1. PICK deleted, seen :
        search' = [k \in Searches |-> IF k \in deleted THEN Freed
                                      ELSE IF k \in seen THEN [search[k] EXCEPT !.marked = TRUE]
                                      ELSE search[k]]
  BY RoundSearches
<1>2. UNCHANGED <<nextSearchId, client, starts, swapped>>
  BY DEF Round
<1>3. ASSUME NEW m \in Searches, search'[m].state = "made"
      PROVE  Made(m) /\ search'[m].id = search[m].id
  <2>1. PICK s \in SearchSet : s = search[m]
    BY DEF SInv, Types
  <2>2. search'[m] \in {Freed, [s EXCEPT !.marked = TRUE], s}
    BY <1>1, <2>1
  <2>3. Freed.state = "freed"
    BY FreedTyped
  <2>4. search'[m].state = s.state /\ search'[m].id = s.id
    BY <1>3, <2>2, <2>3 DEF SearchSet
  <2> QED
    BY <1>3, <2>1, <2>4 DEF Made
<1> QED
  BY <1>2, <1>3, ThreadIds DEF SInv

LEMMA EndIds ==
  ASSUME SInv, IdInv, NEW c \in Clients, End(c)
  PROVE  IdInv'
<1>1. PICK k : k = Find(client[c].id)
  OBVIOUS
<1>2. /\ k # 0 /\ search' = [search EXCEPT ![k] = Freed]
      /\ UNCHANGED <<nextSearchId, client, starts, swapped>>
  BY <1>1 DEF End, SetSearch
<1>3. Types /\ ListInv
  BY DEF SInv
<1>4. k \in Searches
  BY <1>1, <1>2, <1>3, FindIs, MadeStarted DEF Types
<1> QED
  BY <1>2, <1>3, <1>4, FreedTyped, IdOfOne, ThreadIds

LEMMA GrowIds == SInv /\ IdInv /\ Grow => IdInv'
BY IdOfSame, ThreadIds DEF SInv, Grow, history

LEMMA StutterIds == SInv /\ IdInv /\ UNCHANGED vars => IdInv'
BY IdOfSame, ThreadIds DEF SInv, vars

LEMMA AddToListIds ==
  ASSUME SInv, IdInv, NEW c \in Clients, AddToList(c)
  PROVE  IdInv'
<1> DEFINE r == [client[c] EXCEPT !.at = "push"]
<1>1. /\ client[c].at = "list" /\ client' = [client EXCEPT ![c] = r]
      /\ UNCHANGED <<search, nextSearchId, starts, swapped>>
  BY DEF AddToList, SetClient, history
<1>2. Types /\ client[c] \in ClientSet
  BY DEF SInv, Types
<1>3. r.at = "push" /\ r.id = client[c].id /\ r.search = client[c].search
  BY <1>2 DEF ClientSet
<1> HIDE DEF r
<1> QED
  BY <1>1, <1>2, <1>3, IdOfSame, RequestIds DEF Starting

LEMMA PushIds ==
  ASSUME SInv, IdInv, NEW c \in Clients, Push(c)
  PROVE  IdInv'
<1> DEFINE at == IF Len(client[c].ranges) = 1 THEN "take" ELSE "push"
           r == [client[c] EXCEPT !.ranges = Tail(@), !.at = at]
<1>1. /\ client[c].at = "push" /\ client' = [client EXCEPT ![c] = r]
      /\ UNCHANGED <<search, nextSearchId, starts, swapped>>
  BY DEF Push, SetClient, history
<1>2. Types /\ client[c] \in ClientSet
  BY DEF SInv, Types
<1>3. at \in {"take", "push"}
  OBVIOUS
<1> HIDE DEF at
<1>4. r.at = at /\ r.id = client[c].id /\ r.search = client[c].search
  BY <1>2 DEF ClientSet
<1> HIDE DEF r
<1> QED
  BY <1>1, <1>2, <1>3, <1>4, IdOfSame, RequestIds DEF Starting

LEMMA LookupIds ==
  ASSUME SInv, IdInv, NEW c \in Clients, Lookup(c) \/ Status(c)
  PROVE  IdInv'
<1>1. PICK r : /\ \/ r = [client[c] EXCEPT !.at = "merge", !.use = Find(client[c].id)]
                  \/ r = [client[c] EXCEPT !.at = "status", !.use = Find(client[c].id)]
               /\ client[c].at = "idle" /\ client' = [client EXCEPT ![c] = r]
               /\ UNCHANGED <<search, nextSearchId, starts, swapped>>
  BY DEF Lookup, Status, SetClient, history
<1>2. Types /\ client[c] \in ClientSet
  BY DEF SInv, Types
<1>3. r.at \in {"merge", "status"} /\ r.id = client[c].id /\ r.search = client[c].search
  BY <1>1, <1>2 DEF ClientSet
<1> QED
  BY <1>1, <1>2, <1>3, IdOfSame, RequestIds DEF Starting

\* A request ends.
LEMMA EndOfRequestIds ==
  ASSUME SInv, IdInv, NEW c \in Clients, ~ Starting(c),
         client' = [client EXCEPT ![c] = [client[c] EXCEPT !.at = "idle", !.use = 0]],
         UNCHANGED <<search, nextSearchId, starts, swapped>>
  PROVE  IdInv'
<1> DEFINE r == [client[c] EXCEPT !.at = "idle", !.use = 0]
<1>1. Types /\ client[c] \in ClientSet
  BY DEF SInv, Types
<1>2. r.at = "idle" /\ r.id = client[c].id /\ r.search = client[c].search
  BY <1>1 DEF ClientSet
<1> HIDE DEF r
<1>3. client' = [client EXCEPT ![c] = r]
  BY DEF r
<1> QED
  BY <1>1, <1>2, <1>3, IdOfSame, RequestIds DEF Starting

LEMMA MergeIds ==
  ASSUME SInv, IdInv, NEW c \in Clients, Merge(c)
  PROVE  IdInv'
<1> DEFINE k == client[c].use
           r == [client[c] EXCEPT !.at = "reply"]
           z == [search[k] EXCEPT !.merged = TRUE, !.inUse = 0]
<1>1. Uses(c) /\ client[c].at = "merge" /\ UNCHANGED <<nextSearchId, starts, swapped>>
  BY DEF Merge, Uses, history
<1>2. Types /\ ListInv /\ StartInv /\ client[c] \in ClientSet
  BY DEF SInv, Types
<1>3. k \in Searches /\ search[k] \in SearchSet
  BY <1>1, <1>2, MadeStarted DEF StartInv, Types
<1>4. CASE search[k].pending > 0
  BY <1>1, <1>4, EndOfRequestIds DEF Merge, SetClient, Starting
<1>5. CASE ~ (search[k].pending > 0)
  <2>1. client' = [client EXCEPT ![c] = r] /\ search' = [search EXCEPT ![k] = z]
    BY <1>5 DEF Merge, SetClient, SetSearch
  <2>2. r.at = "reply" /\ r.id = client[c].id /\ r.search = client[c].search
    BY <1>2 DEF ClientSet
  <2>3. z.state = search[k].state /\ z.id = search[k].id
    BY <1>3 DEF SearchSet
  <2> HIDE DEF k, r, z
  <2>4. \A m \in Searches : search'[m].state = "made" => Made(m) /\ search'[m].id = search[m].id
    BY <1>2, <1>3, <2>1, <2>3, IdOfOne
  <2> QED
    BY <1>1, <1>2, <2>1, <2>2, <2>4, RequestIds DEF Starting
<1> QED
  BY <1>4, <1>5

LEMMA ReplyIds ==
  ASSUME SInv, IdInv, NEW c \in Clients, Reply(c) \/ StatusTold(c)
  PROVE  IdInv'
BY EndOfRequestIds DEF Reply, StatusTold, SetClient, history, Starting

LEMMA UseFreedIds == SInv /\ IdInv /\ UseFreed => IdInv'
<1> SUFFICES ASSUME SInv, IdInv, UseFreed PROVE IdInv'
  OBVIOUS
<1>1. UNCHANGED <<search, nextSearchId, starts, swapped>>
  BY DEF UseFreed, history
<1>2. CASE UNCHANGED client
  BY <1>1, <1>2, IdOfSame, ThreadIds DEF SInv
<1>3. CASE \E c \in Clients : RequestUsesFreed(c) /\
                                               SetClient(c, [client[c] EXCEPT !.at = "idle", !.use = 0])
  BY <1>1, <1>3, EndOfRequestIds DEF RequestUsesFreed, SetClient, Starting
<1> QED
  BY <1>2, <1>3 DEF UseFreed

-----------------------------------------------------------------------------
\* A start begins.  If it is the only one, all ids are below the next one.
LEMMA PrepareIds ==
  ASSUME SInv, IdInv, NEW c \in Clients, Prepare(c)
  PROVE  IdInv'
<1> DEFINE others == {o \in Clients \ {c} : Starting(o)}
<1>1. PICK k : k = starts + 1
  OBVIOUS
<1>2. /\ client[c].at = "idle" /\ starts < MaxStarts /\ starts' = k
      /\ swapped' = IF others \cup swapped = {} THEN {}
                    ELSE swapped \cup {k} \cup {client[o].search : o \in others}
      /\ UNCHANGED nextSearchId
  BY <1>1 DEF Prepare
<1>3. PICK z : /\ search' = [search EXCEPT ![k] = z]
               /\ z = [NoSearch EXCEPT !.state = "made", !.id = nextSearchId, !.top = top,
                                       !.pending = InitialPending(top + 1),
                                       !.inUse = Len(Ranges(k, top + 1))]
  BY <1>1 DEF Prepare, SetSearch
<1>4. PICK r : /\ client' = [client EXCEPT ![c] = r]
               /\ r = [NoClient EXCEPT !.at = "list", !.search = k, !.ranges = Ranges(k, top + 1)]
  BY <1>1 DEF Prepare, SetClient
<1>5. z.state = "made" /\ z.id = nextSearchId
  BY <1>3 DEF NoSearch
<1>6. r.at = "list" /\ r.search = k /\ r.id = 0
  BY <1>4 DEF NoClient
<1>7. Types /\ starts \in Nat /\ nextSearchId \in Nat /\ k \in Searches
  BY <1>1, <1>2, SearchEngineAssumption DEF SInv, Types, Searches
<1>8. \A m \in Searches : search'[m] = IF m = k THEN z ELSE search[m]
  BY <1>3, <1>7 DEF Types
<1>9. \A d \in Clients : client'[d] = IF d = c THEN r ELSE client[d]
  BY <1>4, <1>7 DEF Types
<1>10. Starting(c)' /\ ~ Starting(c) /\ \A d \in Clients \ {c} : Starting(d)' <=> Starting(d)
  BY <1>2, <1>6, <1>9 DEF Starting
<1>11. \A d \in Clients : client[d].search \in 0 .. starts /\ client[d].search # k
  BY <1>1, <1>7 DEF IdInv
<1>12. \A d \in Clients : /\ client'[d].search \in 0 .. starts'
                          /\ Starting(d)' \/ client'[d].id # 0 => client'[d].search # 0
  <2>1. k # 0 /\ k \in 0 .. k /\ \A i \in 0 .. starts : i \in 0 .. k
    BY <1>1, <1>7
  <2> QED
    BY <1>2, <1>6, <1>9, <1>10, <1>11, <2>1 DEF IdInv
<1>13. swapped' = {} => OneByOne'
  <2>1. SUFFICES ASSUME others = {}, OneByOne PROVE OneByOne'
    BY <1>2 DEF IdInv
  <2>2. \A d \in Clients : Starting(d)' <=> d = c
    BY <1>10, <2>1
  <2>3. \A m \in Searches : IdBelow(m)
    BY <1>10, <2>1 DEF OneByOne
  <2>4. \A m \in Searches \ {k} : IdBelow(m)'
    BY <1>2, <1>8, <2>3 DEF IdBelow, Made
  <2>5. client'[c].search = k /\ search'[k].id = nextSearchId /\ client'[c].at # "bump"
    BY <1>5, <1>6, <1>7, <1>8, <1>9
  <2> QED
    BY <1>2, <2>2, <2>4, <2>5 DEF OneByOne
<1>14. \A d \in Clients : Starting(d)' /\ client'[d].search \notin swapped' => swapped' = {}
  BY <1>2, <1>6, <1>9, <1>10
<1>15. ASSUME NEW d \in Clients, Finished(d)' PROVE OwnId(d)'
  <2>1. d # c /\ client'[d] = client[d]
    BY <1>6, <1>9, <1>15 DEF Finished
  <2>2. swapped \subseteq swapped'
    BY <1>2
  <2>3. Finished(d)
    BY <1>10, <1>15, <2>1, <2>2 DEF Finished
  <2>4. OwnId(d)
    BY <2>3 DEF IdInv
  <2>5. PICK j \in Searches : j = client[d].search /\ j # k
    BY <1>7, <1>11, <2>3, SearchOfClient DEF Finished
  <2>6. client[d].id \in Nat
    BY <1>7 DEF Types, ClientSet
  <2>7. \A m \in Searches \ {j} : search'[m].state = "made" => search'[m].id # client[d].id
    BY <1>5, <1>7, <1>8, <2>4, <2>5, <2>6 DEF OwnId, Made
  <2>8. search'[j].state = "made" => search'[j].id = client[d].id
    BY <1>8, <2>4, <2>5 DEF OwnId, Made
  <2>9. \A e \in Clients : client'[e].at = "bump" => client[d].id < client'[e].id
    BY <1>6, <1>9, <2>4 DEF OwnId
  <2>10. client[d].id < nextSearchId'
    BY <1>2, <2>4 DEF OwnId
  <2> QED
    BY <2>1, <2>5, <2>7, <2>8, <2>9, <2>10 DEF OwnId, Made
<1> QED
  BY <1>12, <1>13, <1>14, <1>15 DEF IdInv

\* A start fails: its search is gone and it has no id.
LEMMA PrepareFailsIds ==
  ASSUME SInv, IdInv, NEW c \in Clients, PrepareFails(c) \/ HeapFails(c)
  PROVE  IdInv'
<1>1. PICK k : k = client[c].search
  OBVIOUS
<1>2. PICK z : /\ client[c].at = "list" /\ search' = [search EXCEPT ![k] = Freed]
               /\ client' = [client EXCEPT ![c] = z]
               /\ z = NoClient \/ z = [NoClient EXCEPT !.at = "refree", !.search = k]
               /\ UNCHANGED <<nextSearchId, starts, swapped>>
  BY <1>1 DEF PrepareFails, HeapFails, SetSearch, SetClient, history
<1>3. Types /\ starts \in Nat
  BY DEF SInv, Types
<1>4. z.at \in {"idle", "refree"} /\ z.id = 0 /\ z.search \in 0 .. starts
  <2>1. k \in 0 .. starts /\ 0 \in 0 .. starts
    BY <1>1, <1>3 DEF IdInv
  <2> QED
    BY <1>2, <1>3, <2>1, MadeStarted, NoClientIs DEF ClientSet
<1>5. \A d \in Clients : client'[d] = IF d = c THEN z ELSE client[d]
  BY <1>2, <1>3 DEF Types
<1>6. ~ Starting(c)' /\ Starting(c) /\ \A d \in Clients \ {c} : Starting(d)' <=> Starting(d)
  BY <1>2, <1>4, <1>5 DEF Starting
<1>7. k \in Searches
  BY <1>1, <1>3, <1>6, SearchOfClient
<1>8. /\ search'[k].state = "freed"
      /\ \A m \in Searches : search'[m].state = "made" =>
                                                       m # k /\ Made(m) /\ search'[m].id = search[m].id
  BY <1>2, <1>3, <1>7, FreedTyped DEF Types, Made
<1>9. \A d \in Clients : /\ client'[d].search \in 0 .. starts
                         /\ Starting(d)' \/ client'[d].id # 0 => client'[d].search # 0
                         /\ Starting(d)' /\ client'[d].search \notin swapped => swapped = {}
  BY <1>3, <1>4, <1>5, <1>6 DEF IdInv
<1>10. swapped' = {} => OneByOne'
  <2>1. SUFFICES ASSUME OneByOne PROVE OneByOne'
    BY <1>2 DEF IdInv
  <2>2. \A d \in Clients : ~ Starting(d)'
    BY <1>6, <2>1 DEF OneByOne
  <2>3. \A m \in Searches \ {k} : IdBelow(m)
    BY <1>1, <1>6, <2>1 DEF OneByOne
  <2>4. \A m \in Searches : IdBelow(m)'
    BY <1>2, <1>8, <2>3 DEF IdBelow, Made
  <2> QED
    BY <2>2, <2>4 DEF OneByOne
<1>11. ASSUME NEW d \in Clients, Finished(d)' PROVE OwnId(d)'
  <2>1. d # c /\ client'[d] = client[d]
    BY <1>4, <1>5, <1>11 DEF Finished
  <2>2. Finished(d)
    BY <1>2, <1>6, <1>11, <2>1 DEF Finished
  <2>3. OwnId(d)
    BY <2>2 DEF IdInv
  <2>4. PICK j \in Searches : j = client[d].search
    BY <1>3, <2>2, SearchOfClient DEF Finished
  <2>5. \A m \in Searches : search'[m].state = "made" => (search'[m].id = client[d].id <=> m = j)
    BY <1>8, <2>3, <2>4 DEF OwnId, Made
  <2>6. \A e \in Clients : client'[e].at = "bump" => client[d].id < client'[e].id
    BY <1>4, <1>5, <2>3 DEF OwnId
  <2>7. client[d].id < nextSearchId'
    BY <1>2, <2>3 DEF OwnId
  <2> QED
    BY <2>1, <2>4, <2>5, <2>6, <2>7 DEF OwnId, Made
<1> QED
  BY <1>2, <1>9, <1>10, <1>11 DEF IdInv

\* The client takes the next id, which is above every finished one.
LEMMA TakeIdIds ==
  ASSUME SInv, IdInv, NEW c \in Clients, TakeId(c)
  PROVE  IdInv'
<1> DEFINE r == [client[c] EXCEPT !.at = "bump", !.id = nextSearchId]
<1>1. /\ client[c].at = "take" /\ client' = [client EXCEPT ![c] = r]
      /\ UNCHANGED <<search, starts, swapped, nextSearchId>>
  BY DEF TakeId, SetClient, history
<1>2. Types /\ client[c] \in ClientSet
  BY DEF SInv, Types
<1>3. r.at = "bump" /\ r.id = nextSearchId /\ r.search = client[c].search
  BY <1>2 DEF ClientSet
<1> HIDE DEF r
<1>4. \A d \in Clients : client'[d] = IF d = c THEN r ELSE client[d]
  BY <1>1, <1>2 DEF Types
<1>5. \A d \in Clients : (Starting(d)' <=> Starting(d)) /\ client'[d].search = client[d].search
  BY <1>1, <1>3, <1>4 DEF Starting
<1>6. Starting(c) /\ Starting(c)'
  BY <1>1, <1>5 DEF Starting
<1>7. \A d \in Clients : /\ client'[d].search \in 0 .. starts
                         /\ Starting(d)' \/ client'[d].id # 0 => client'[d].search # 0
                         /\ Starting(d)' /\ client'[d].search \notin swapped => swapped = {}
  BY <1>4, <1>5, <1>6 DEF IdInv
<1>8. \A m \in Searches : IdBelow(m)' <=> IdBelow(m)
  BY <1>1 DEF IdBelow, Made
<1>9. swapped' = {} => OneByOne'
  <2>1. SUFFICES ASSUME OneByOne PROVE OneByOne'
    BY <1>1 DEF IdInv
  <2>2. \A d \in Clients : Starting(d)' <=> d = c
    BY <1>5, <1>6, <2>1 DEF OneByOne
  <2>3. PICK k : k = client[c].search
    OBVIOUS
  <2>4. (Made(k) => search[k].id = nextSearchId) /\ \A m \in Searches \ {k} : IdBelow(m)'
    BY <1>6, <1>8, <2>1, <2>3 DEF OneByOne
  <2>5. client'[c].search = k /\ client'[c].id = nextSearchId'
    BY <1>1, <1>3, <1>4, <2>3
  <2> QED
    BY <1>1, <2>2, <2>4, <2>5 DEF OneByOne, Made
<1>10. ASSUME NEW d \in Clients, Finished(d)' PROVE OwnId(d)'
  <2>1. d # c /\ client'[d] = client[d]
    BY <1>4, <1>6, <1>10 DEF Finished
  <2>2. Finished(d)
    BY <1>1, <1>5, <1>10, <2>1 DEF Finished
  <2>3. OwnId(d)
    BY <2>2 DEF IdInv
  <2>4. \A e \in Clients : client'[e].at = "bump" => client[d].id < client'[e].id
    BY <1>3, <1>4, <2>3 DEF OwnId
  <2> QED
    BY <1>1, <2>1, <2>3, <2>4 DEF OwnId, Made
<1> QED
  BY <1>1, <1>7, <1>9, <1>10 DEF IdInv

\* The next id goes above the one that was taken: the start is over.
LEMMA BumpIdIds ==
  ASSUME SInv, IdInv, NEW c \in Clients, BumpId(c)
  PROVE  IdInv'
<1> DEFINE r == [client[c] EXCEPT !.at = "idle"]
<1>1. PICK id : id = client[c].id
  OBVIOUS
<1>2. /\ client[c].at = "bump" /\ client' = [client EXCEPT ![c] = r] /\ nextSearchId' = id + 1
      /\ UNCHANGED <<search, starts, swapped>>
  BY <1>1 DEF BumpId, SetClient, history
<1>3. Types /\ client[c] \in ClientSet /\ nextSearchId \in Nat
  BY DEF SInv, Types
<1>4. r.at = "idle" /\ r.id = id /\ r.search = client[c].search /\ id \in Nat
  BY <1>1, <1>3 DEF ClientSet
<1> HIDE DEF r
<1>5. \A d \in Clients : client'[d] = IF d = c THEN r ELSE client[d]
  BY <1>2, <1>3 DEF Types
<1>6. ~ Starting(c)' /\ Starting(c) /\ \A d \in Clients \ {c} : Starting(d)' <=> Starting(d)
  BY <1>2, <1>4, <1>5 DEF Starting
<1>7. \A d \in Clients : /\ client'[d].search \in 0 .. starts
                         /\ Starting(d)' \/ client'[d].id # 0 => client'[d].search # 0
                         /\ Starting(d)' /\ client'[d].search \notin swapped => swapped = {}
  BY <1>4, <1>5, <1>6 DEF IdInv
<1>8. PICK k \in Searches : k = client[c].search
  BY <1>3, <1>6, SearchOfClient
<1>9. \A m \in Searches : search[m].id \in Nat
  BY <1>3 DEF Types, SearchSet
<1>10. ASSUME OneByOne
       PROVE  /\ id = nextSearchId
              /\ Made(k) => search[k].id = id
              /\ \A m \in Searches \ {k} : Made(m) => search[m].id < id
              /\ \A d \in Clients \ {c} : ~ Starting(d)
  BY <1>1, <1>2, <1>6, <1>8, <1>10 DEF OneByOne, IdBelow
<1>11. swapped' = {} => OneByOne'
  <2>1. SUFFICES ASSUME OneByOne PROVE OneByOne'
    BY <1>2 DEF IdInv
  <2>2. \A d \in Clients : ~ Starting(d)'
    BY <1>6, <1>10, <2>1
  <2>3. \A m \in Searches : Made(m) => search[m].id < id + 1
    BY <1>4, <1>9, <1>10, <2>1
  <2>4. \A m \in Searches : IdBelow(m)'
    BY <1>2, <2>3 DEF IdBelow, Made
  <2> QED
    BY <2>2, <2>4 DEF OneByOne
<1>12. ASSUME NEW d \in Clients, Finished(d)', d # c PROVE OwnId(d)'
  <2>1. client'[d] = client[d]
    BY <1>5, <1>12
  <2>2. Finished(d)
    BY <1>2, <1>6, <1>12, <2>1 DEF Finished
  <2>3. OwnId(d) /\ client[d].id \in Nat
    BY <1>3, <2>2 DEF IdInv, Types, ClientSet
  <2>4. client[d].id < id + 1
    <3>1. client[d].id < id
      BY <1>1, <1>2, <2>3 DEF OwnId
    <3> QED
      BY <1>4, <2>3, <3>1
  <2>5. \A e \in Clients : client'[e].at = "bump" => client[d].id < client'[e].id
    BY <1>4, <1>5, <2>3 DEF OwnId
  <2> QED
    BY <1>2, <2>1, <2>3, <2>4, <2>5 DEF OwnId, Made
<1>13. Finished(c)' => OwnId(c)'
  <2>1. SUFFICES ASSUME Finished(c)' PROVE OwnId(c)'
    OBVIOUS
  <2>2. client'[c].id = id /\ client'[c].search = k
    BY <1>4, <1>5, <1>8
  <2>3. OneByOne
    BY <1>2, <1>6, <1>8, <2>1, <2>2 DEF Finished, IdInv
  <2>4. /\ Made(k) => search[k].id = id
        /\ \A m \in Searches \ {k} : Made(m) => search[m].id # id
    BY <1>4, <1>9, <1>10, <2>3
  <2>5. \A e \in Clients : client'[e].at # "bump"
    BY <1>4, <1>5, <1>10, <2>3 DEF Starting
  <2>6. id < nextSearchId'
    BY <1>2, <1>4
  <2> QED
    BY <1>2, <2>2, <2>4, <2>5, <2>6 DEF OwnId, Made
<1> QED
  BY <1>2, <1>7, <1>11, <1>12, <1>13 DEF IdInv

LEMMA EmptyIdInv == Empty /\ swapped = {} => IdInv
<1> SUFFICES ASSUME Empty, swapped = {} PROVE IdInv
  OBVIOUS
<1>1. \A c \in Clients : client[c].id = 0 /\ client[c].search = 0 /\ ~ Starting(c)
  BY DEF Empty, NoClient, Starting
<1>2. \A m \in Searches : ~ Made(m)
  BY DEF Empty, NoSearch, Made
<1>3. starts = 0
  BY DEF Empty
<1> QED
  BY <1>1, <1>2, <1>3 DEF IdInv, OneByOne, IdBelow, Finished

LEMMA CrashIds == SInv /\ IdInv /\ Crash => IdInv'
<1>1. Crash => (Empty /\ swapped = {})'
  BY DEF Crash, Empty
<1> QED
  BY <1>1, EmptyIdInv, PTL

LEMMA NextIds == SInv /\ IdInv /\ [Next]_vars => IdInv'
<1> SUFFICES ASSUME SInv, IdInv, [Next]_vars PROVE IdInv'
  OBVIOUS
<1>1. ASSUME NEW t \in Threads, ThreadStep(t) PROVE IdInv'
  <2>1. CASE Unlock(t)
    BY <2>1, IdOfSame, ThreadIds DEF SInv, Unlock, history
  <2> QED
    BY <1>1, <2>1, PopIds, ScoreIds, FinishIds DEF ThreadStep
<1>2. ASSUME NEW c \in Clients, StartStep(c) PROVE IdInv'
  BY <1>2, AddToListIds, PushIds, TakeIdIds, BumpIdIds DEF StartStep
<1>3. ASSUME NEW c \in Clients, RequestStep(c) PROVE IdInv'
  BY <1>3, PrepareIds, PrepareFailsIds, LookupIds, MergeIds, ReplyIds, EndIds DEF RequestStep
<1>4. CASE up /\ (Round \/ UseFreed \/ Crash \/ Grow)
  BY <1>4, RoundIds, UseFreedIds, CrashIds, GrowIds
<1> QED
  BY <1>1, <1>2, <1>3, <1>4, StutterIds DEF Next

LEMMA InitIds == Init => IdInv
BY EmptyIdInv DEF Init, Empty

\* The id that a client was given when no start overlapped with its own or an earlier one
\* finds its search while it is listed, and afterwards none: no other listed search has it.
THEOREM IdFindsOwnSearch == Spec => []OwnSearch
<1>1. ASSUME SInv, IdInv PROVE OwnSearch
  <2>1. SUFFICES ASSUME NEW c \in Clients, Finished(c),
                        NEW k, k = client[c].search, NEW id, id = client[c].id
                 PROVE  Find(id) = IF InList(k) THEN k ELSE 0
    BY DEF OwnSearch, Finished
  <2>2. Types /\ OwnId(c) /\ \A i \in DOMAIN list : Made(list[i]) /\ list[i] \in Searches
    BY <1>1, <2>1 DEF IdInv, SInv, ListInv, Types
  <2> DEFINE found == {i \in DOMAIN list : search[list[i]].id = id}
  <2>3. \A i \in DOMAIN list : i \in found <=> list[i] = k
    BY <2>1, <2>2 DEF OwnId
  <2>4. found \in SUBSET Nat /\ Find(id) = IF found = {} THEN 0 ELSE list[Min(found)]
    BY <2>2 DEF Find, Types
  <2>5. found \subseteq DOMAIN list
    OBVIOUS
  <2> HIDE DEF found
  <2>6. CASE found = {}
    BY <2>3, <2>4, <2>6 DEF InList
  <2>7. CASE found # {}
    <3>1. Min(found) \in found
      BY <2>4, <2>7, MinIs
    <3>2. list[Min(found)] = k /\ Min(found) \in DOMAIN list
      BY <2>3, <2>5, <3>1
    <3> QED
      BY <2>4, <2>7, <3>2 DEF InList
  <2> QED
    BY <2>6, <2>7
<1>2. Init => SInv /\ HoldInv /\ IdInv
  BY InitSInv, InitIds
<1>3. SInv /\ HoldInv /\ IdInv /\ [Next]_vars => (SInv /\ HoldInv /\ IdInv)'
  BY NextSInv, NextIds
<1> QED
  BY <1>1, <1>2, <1>3, PTL DEF Spec
-----------------------------------------------------------------------------
(***************************************************************************)
(* The bounds of TypeOK.  Every search that was made has taken at most one *)
(* id, and the searches that are being started will take one each: so far  *)
(* the next id leaves room for theirs (IdBound), also where a client takes *)
(* an id and stores the next one later.                                    *)
(***************************************************************************)
Starters == {c \in Clients : Starting(c)}

IdBound ==
  /\ nextSearchId \in Nat \ {0} /\ IsFiniteSet(Starters)
  /\ nextSearchId + Cardinality(Starters) <= starts + 1
  /\ \A c \in Clients : /\ client[c].id <= starts + 1
                        /\ client[c].at = "bump" => client[c].id + Cardinality(Starters) <= starts + 1

Bounded(r) == r.id <= MaxStarts + 1 /\ r.pending <= numThreads /\ r.inUse <= numThreads
SearchBound == \A k \in Searches : Bounded(search[k])
QueueBound == Len(queue) <= Capacity
WorkerBound == \A t \in Threads : worker[t].at = "wait" => worker[t] = Idle
HistoryBound == up \in BOOLEAN /\ swapped \subseteq Searches /\ cut \subseteq Searches

Bounds == IdBound /\ SearchBound /\ QueueBound /\ WorkerBound /\ HistoryBound

\* A step that neither makes a search nor takes or stores an id.
LEMMA IdBoundStays ==
  ASSUME Types, Types', IdBound, UNCHANGED <<nextSearchId, starts>>,
         \A c \in Clients : /\ client'[c].id <= client[c].id /\ (Starting(c)' => Starting(c))
                            /\ client'[c].at = "bump" => client[c].at = "bump"
  PROVE  IdBound'
<1>1. IsFiniteSet(Starters') /\ Cardinality(Starters') <= Cardinality(Starters)
  <2>1. Starters' \subseteq Starters
    BY DEF Starters
  <2> QED
    BY <2>1, FS_Subset DEF IdBound
<1>2. Cardinality(Starters) \in Nat /\ Cardinality(Starters') \in Nat
  BY <1>1, FS_CardinalityType DEF IdBound
<1>3. /\ nextSearchId \in Nat \ {0} /\ starts \in Nat
      /\ \A c \in Clients : client[c].id \in Nat /\ client'[c].id \in Nat
  BY DEF IdBound, Types, ClientSet
<1>4. nextSearchId + Cardinality(Starters') <= starts + 1
  BY <1>1, <1>2, <1>3 DEF IdBound
<1>5. ASSUME NEW c \in Clients
      PROVE  /\ client'[c].id <= starts + 1
             /\ client'[c].at = "bump" => client'[c].id + Cardinality(Starters') <= starts + 1
  <2>1. client[c].id <= starts + 1 /\ client'[c].id <= client[c].id
    BY DEF IdBound
  <2>2. client'[c].at = "bump" => client[c].id + Cardinality(Starters) <= starts + 1
    BY DEF IdBound
  <2> QED
    BY <1>1, <1>2, <1>3, <2>1, <2>2
<1> QED
  BY <1>1, <1>3, <1>4, <1>5 DEF IdBound

\* A step of one client that does not take or store an id.
LEMMA IdBoundClient ==
  ASSUME Types, Types', IdBound, UNCHANGED <<nextSearchId, starts>>,
         NEW c \in Clients, NEW r, SetClient(c, r), r.id <= client[c].id,
         r.at \in {"list", "push", "take", "bump"} => Starting(c),
         r.at # "bump"
  PROVE  IdBound'
<1>1. /\ client'[c] = r /\ \A d \in Clients \ {c} : client'[d] = client[d]
      /\ \A d \in Clients : client[d].id \in Nat
  BY DEF Types, SetClient, ClientSet
<1>2. ASSUME NEW d \in Clients
      PROVE  /\ client'[d].id <= client[d].id /\ (Starting(d)' => Starting(d))
             /\ client'[d].at = "bump" => client[d].at = "bump"
  <2>1. CASE d = c
    BY <1>1, <2>1 DEF Starting
  <2>2. CASE d # c
    BY <1>1, <2>2 DEF Starting
  <2> QED
    BY <2>1, <2>2
<1> QED
  BY <1>2, IdBoundStays

LEMMA IdBoundSame ==
  ASSUME Types, Types', IdBound, UNCHANGED <<nextSearchId, starts, client>>
  PROVE  IdBound'
BY IdBoundStays DEF Starting, Types, ClientSet

\* A new search takes the next id, and another one may follow it.
LEMMA PrepareBounds ==
  ASSUME SInv, SInv', IdInv, Bounds, NEW c \in Clients, Prepare(c)
  PROVE  Bounds'
<1> DEFINE k == starts + 1
           r == Ranges(k, top + 1)
           others == {o \in Clients \ {c} : Starting(o)}
           new == [NoSearch EXCEPT !.state = "made", !.id = nextSearchId, !.top = top,
                                   !.pending = InitialPending(top + 1), !.inUse = Len(r)]
<1>1. /\ client[c].at = "idle" /\ starts < MaxStarts /\ starts' = k /\ nextSearchId' = nextSearchId
      /\ SetSearch(k, new)
      /\ SetClient(c, [NoClient EXCEPT !.at = "list", !.search = k, !.ranges = r])
      /\ swapped' = IF others \cup swapped = {} THEN {}
                    ELSE swapped \cup {k} \cup {client[o].search : o \in others}
      /\ UNCHANGED <<queue, worker, up, cut>>
  BY DEF Prepare
<1>2. Types /\ Types' /\ starts \in Nat /\ k \in Searches /\ MaxStarts \in Nat /\ top + 1 \in Nat \ {0}
  BY <1>1, SearchEngineAssumption DEF SInv, Types, Searches, Profiles
<1>3. /\ client'[c].at = "list" /\ client'[c].id = 0
      /\ \A d \in Clients \ {c} : client'[d] = client[d]
  BY <1>1, <1>2 DEF Types, SetClient, NoClient
<1>4. /\ nextSearchId \in Nat \ {0} /\ IsFiniteSet(Starters) /\ Cardinality(Starters) \in Nat
      /\ nextSearchId + Cardinality(Starters) <= starts + 1
  BY FS_CardinalityType DEF Bounds, IdBound
<1>5. Starters' = Starters \cup {c} /\ c \notin Starters
  BY <1>1, <1>3 DEF Starters, Starting
<1>6. IsFiniteSet(Starters') /\ Cardinality(Starters') = Cardinality(Starters) + 1
  BY <1>4, <1>5, FS_AddElement
<1>7. IdBound'
  <2>1. ASSUME NEW d \in Clients
        PROVE  /\ client'[d].id <= starts' + 1
               /\ client'[d].at = "bump" => client'[d].id + Cardinality(Starters') <= starts' + 1
    <3>1. client[d].id \in Nat /\ client[d].id <= starts + 1
      BY <1>2 DEF Types, ClientSet, Bounds, IdBound
    <3>2. client[d].at = "bump" => client[d].id + Cardinality(Starters) <= starts + 1
      BY DEF Bounds, IdBound
    <3>3. CASE d = c
      BY <1>1, <1>2, <1>3, <3>3
    <3>4. CASE d # c
      <4>1. client'[d] = client[d]
        BY <1>3, <3>4
      <4> QED
        BY <1>1, <1>2, <1>4, <1>6, <3>1, <3>2, <4>1
    <3> QED
      BY <3>3, <3>4
  <2>2. nextSearchId' + Cardinality(Starters') <= starts' + 1
    BY <1>1, <1>2, <1>4, <1>6
  <2> QED
    BY <1>1, <1>4, <1>6, <2>1, <2>2 DEF IdBound
<1>8. SearchBound'
  <2>1. NumRanges(top + 1) \in 1 .. numThreads /\ numThreads \in Nat
    BY <1>2, NumRangesChosen, ThreadsPositive
  <2>2. Len(r) = NumRanges(top + 1) /\ InitialPending(top + 1) = NumRanges(top + 1)
    BY <2>1 DEF Ranges, InitialPending
  <2>3. new.id = nextSearchId /\ new.pending = NumRanges(top + 1) /\ new.inUse = NumRanges(top + 1)
    BY <2>2 DEF NoSearch
  <2>4. nextSearchId <= MaxStarts + 1
    BY <1>1, <1>2, <1>4
  <2>5. Bounded(new)
    BY <2>1, <2>3, <2>4 DEF Bounded
  <2> HIDE DEF new, k
  <2>6. search'[k] = new /\ \A m \in Searches \ {k} : search'[m] = search[m]
    BY <1>1, <1>2 DEF SetSearch, Types
  <2> QED
    BY <2>5, <2>6 DEF Bounds, SearchBound
<1>9. HistoryBound'
  <2>1. \A o \in others : client[o].search \in Searches
    BY <1>2 DEF IdInv, Types, ClientSet
  <2> QED
    BY <1>1, <1>2, <2>1 DEF Bounds, HistoryBound
<1> QED
  BY <1>1, <1>7, <1>8, <1>9 DEF Bounds, QueueBound, WorkerBound

LEMMA TakeIdBounds ==
  ASSUME SInv, SInv', Bounds, NEW c \in Clients, TakeId(c)
  PROVE  Bounds'
<1>1. /\ client[c].at = "take" /\ SetClient(c, [client[c] EXCEPT !.at = "bump", !.id = nextSearchId])
      /\ UNCHANGED <<nextSearchId, search, queue, worker, starts, up, swapped, cut>>
  BY DEF TakeId, history
<1>2. Types /\ client[c] \in ClientSet
  BY DEF SInv, Types
<1>3. /\ client'[c].at = "bump" /\ client'[c].id = nextSearchId
      /\ \A d \in Clients \ {c} : client'[d] = client[d]
  BY <1>1, <1>2 DEF Types, ClientSet, SetClient
<1>4. Starters' = Starters
  BY <1>1, <1>3 DEF Starters, Starting
<1>5. IdBound'
  <2>1. /\ IsFiniteSet(Starters) /\ Cardinality(Starters) \in Nat
        /\ nextSearchId \in Nat \ {0} /\ starts \in Nat
    BY <1>2, FS_CardinalityType DEF Bounds, IdBound, Types
  <2>2. nextSearchId <= starts + 1 /\ nextSearchId + Cardinality(Starters) <= starts + 1
    BY <2>1 DEF Bounds, IdBound
  <2>3. ASSUME NEW d \in Clients
        PROVE  /\ client'[d].id <= starts + 1
               /\ client'[d].at = "bump" => client'[d].id + Cardinality(Starters) <= starts + 1
    <3>1. CASE d = c
      BY <1>3, <2>2, <3>1
    <3>2. CASE d # c
      BY <1>3, <3>2 DEF Bounds, IdBound
    <3> QED
      BY <3>1, <3>2
  <2> QED
    BY <1>1, <1>4, <2>1, <2>2, <2>3 DEF IdBound
<1> QED
  BY <1>1, <1>5 DEF Bounds, SearchBound, QueueBound, WorkerBound, HistoryBound

LEMMA BumpIdBounds ==
  ASSUME SInv, SInv', Bounds, NEW c \in Clients, BumpId(c)
  PROVE  Bounds'
<1>1. /\ client[c].at = "bump" /\ SetClient(c, [client[c] EXCEPT !.at = "idle"])
      /\ nextSearchId' = client[c].id + 1
      /\ UNCHANGED <<search, queue, worker, starts, up, swapped, cut>>
  BY DEF BumpId, history
<1>2. Types /\ client[c] \in ClientSet
  BY DEF SInv, Types
<1>3. /\ client'[c].at = "idle" /\ client'[c].id = client[c].id
      /\ \A d \in Clients \ {c} : client'[d] = client[d]
  BY <1>1, <1>2 DEF Types, ClientSet, SetClient
<1>4. Starters' = Starters \ {c} /\ c \in Starters
  BY <1>1, <1>3 DEF Starters, Starting
<1>5. IsFiniteSet(Starters) /\ Cardinality(Starters) \in Nat /\ client[c].id \in Nat /\ starts \in Nat
  BY <1>2, FS_CardinalityType DEF Bounds, IdBound, Types, ClientSet
<1>6. IsFiniteSet(Starters') /\ Cardinality(Starters') = Cardinality(Starters) - 1
  BY <1>4, <1>5, FS_RemoveElement
<1>7. IdBound'
  <2>1. client[c].id + Cardinality(Starters) <= starts + 1
    BY <1>1 DEF Bounds, IdBound
  <2>2. nextSearchId' \in Nat \ {0} /\ nextSearchId' + Cardinality(Starters') <= starts + 1
    BY <1>1, <1>5, <1>6, <2>1
  <2>3. ASSUME NEW d \in Clients
        PROVE  /\ client'[d].id <= starts + 1
               /\ client'[d].at = "bump" => client'[d].id + Cardinality(Starters') <= starts + 1
    <3>1. client'[d].id = client[d].id /\ (client'[d].at = "bump" => client[d].at = "bump")
      BY <1>1, <1>3
    <3>2. client[d].id \in Nat /\ client[d].id <= starts + 1
      BY <1>2 DEF Types, ClientSet, Bounds, IdBound
    <3>3. client[d].at = "bump" => client[d].id + Cardinality(Starters) <= starts + 1
      BY DEF Bounds, IdBound
    <3> QED
      BY <1>5, <1>6, <3>1, <3>2, <3>3
  <2> QED
    BY <1>1, <1>6, <2>2, <2>3 DEF IdBound
<1> QED
  BY <1>1, <1>7 DEF Bounds, SearchBound, QueueBound, WorkerBound, HistoryBound

-----------------------------------------------------------------------------
\* The other steps.
LEMMA FreedBounded == Bounded(Freed) /\ Bounded(NoSearch)
<1>1. numThreads \in Nat /\ MaxStarts \in Nat
  BY ThreadsPositive, SearchEngineAssumption
<1> QED
  BY <1>1 DEF Bounded, Freed, NoSearch

LEMMA StartBounds ==
  ASSUME SInv, SInv', Bounds, NEW c \in Clients,
         AddToList(c) \/ Push(c) \/ PrepareFails(c) \/ HeapFails(c)
  PROVE  Bounds'
<1> USE DEF history
<1>1. Types /\ Types' /\ client[c] \in ClientSet /\ client[c].id \in Nat
  BY DEF SInv, Types, ClientSet
<1>2. CASE AddToList(c)
  <2>1. IdBound'
    <3> DEFINE r == [client[c] EXCEPT !.at = "push"]
    <3>1. r.id = client[c].id /\ r.at = "push" /\ Starting(c) /\ SetClient(c, r)
      BY <1>1, <1>2 DEF AddToList, ClientSet, Starting
    <3>2. UNCHANGED <<nextSearchId, starts>>
      BY <1>2 DEF AddToList
    <3> HIDE DEF r
    <3> QED
      BY <1>1, <3>1, <3>2, IdBoundClient DEF Bounds
  <2> QED
    BY <1>2, <2>1 DEF AddToList, Bounds, SearchBound, QueueBound, WorkerBound, HistoryBound
<1>3. CASE Push(c)
  <2>1. IdBound'
    <3> DEFINE r == [client[c] EXCEPT !.ranges = Tail(@),
                                      !.at = IF Len(client[c].ranges) = 1 THEN "take" ELSE "push"]
    <3>1. r.id = client[c].id /\ r.at \in {"push", "take"} /\ Starting(c) /\ SetClient(c, r)
      BY <1>1, <1>3 DEF Push, ClientSet, Starting
    <3>2. UNCHANGED <<nextSearchId, starts>>
      BY <1>3 DEF Push
    <3> HIDE DEF r
    <3> QED
      BY <1>1, <3>1, <3>2, IdBoundClient DEF Bounds
  <2>2. QueueBound'
    <3>1. queue' = Append(queue, Head(client[c].ranges)) /\ Len(queue) < Capacity
      BY <1>3 DEF Push
    <3>2. Len(queue') = Len(queue) + 1 /\ Len(queue) \in Nat
      BY <1>1, <3>1 DEF Types
    <3> QED
      BY <3>1, <3>2, SearchEngineAssumption DEF QueueBound
  <2> QED
    BY <1>3, <2>1, <2>2 DEF Push, Bounds, SearchBound, WorkerBound, HistoryBound
<1>4. CASE PrepareFails(c) \/ HeapFails(c)
  <2>1. PICK k : k = client[c].search
    OBVIOUS
  <2>2. PICK z : /\ client[c].at = "list" /\ SetClient(c, z) /\ SetSearch(k, Freed)
                 /\ z = NoClient \/ z = [NoClient EXCEPT !.at = "refree", !.search = k]
                 /\ UNCHANGED <<nextSearchId, starts, queue, worker, up, swapped>>
                 /\ cut' \subseteq (cut \cup {k})
    BY <1>4, <2>1 DEF PrepareFails, HeapFails
  <2>3. IdBound'
    <3>1. z.id = 0 /\ z.at \in {"idle", "refree"}
      BY <2>2, NoClientIs DEF ClientSet
    <3>2. z.id <= client[c].id
      BY <1>1, <3>1
    <3> QED
      BY <1>1, <2>2, <3>1, <3>2, IdBoundClient DEF Bounds
  <2>4. SearchBound'
    <3>1. \A m \in Searches : search'[m] = search[m] \/ search'[m] = Freed
      BY <1>1, <2>2 DEF SetSearch, Types
    <3> QED
      BY <3>1, FreedBounded DEF Bounds, SearchBound
  <2>5. k \in Searches
    BY <2>1, <2>2, MadeStarted DEF SInv, StartInv, Pushes
  <2> QED
    BY <2>2, <2>3, <2>4, <2>5 DEF Bounds, QueueBound, WorkerBound, HistoryBound
<1> QED
  BY <1>2, <1>3, <1>4

LEMMA ThreadBounds ==
  ASSUME SInv, SInv', Bounds, NEW t \in Threads, Pop(t) \/ Score(t) \/ Finish(t)
  PROVE  Bounds'
<1> USE DEF history
<1>1. Types /\ Types'
  BY DEF SInv
<1>2. UNCHANGED <<nextSearchId, client, starts, up, swapped, cut>>
  BY DEF Pop, Score, Finish
<1>3. IdBound' /\ HistoryBound'
  BY <1>1, <1>2, IdBoundSame DEF Bounds, HistoryBound
<1>4. WorkerBound'
  <2>1. \A u \in Threads \ {t} : worker'[u] = worker[u]
    BY <1>1 DEF Pop, Score, Finish, SetWorker, Types
  <2>2. worker'[t].at # "wait" \/ worker'[t] = Idle
    BY <1>1 DEF Pop, Score, Finish, SetWorker, Types
  <2> QED
    BY <2>1, <2>2 DEF Bounds, WorkerBound
<1>5. CASE Pop(t)
  <2>1. Len(queue') <= Capacity
    <3>1. queue # <<>> /\ queue' = Tail(queue) /\ queue \in Seq(RangeSet)
      BY <1>1, <1>5 DEF Pop, Types
    <3>2. Len(queue') = Len(queue) - 1 /\ Len(queue) \in Nat
      BY <3>1
    <3> QED
      BY <3>2, SearchEngineAssumption DEF Bounds, QueueBound
  <2> QED
    BY <1>3, <1>4, <1>5, <2>1 DEF Pop, Bounds, SearchBound, QueueBound
<1>6. CASE Score(t) \/ Finish(t)
  <2> DEFINE k == worker[t].job.search
  <2>1. queue' = queue /\ k \in Searches /\ search[k] \in SearchSet
    <3>1. worker[t].at # "wait"
      BY <1>6 DEF Score, Finish
    <3>2. worker[t].job \in RangeSet
      BY <1>1, <3>1 DEF Types
    <3>3. k \in Searches
      BY <3>2 DEF RangeSet
    <3> QED
      BY <1>1, <1>6, <3>3 DEF Score, Finish, Types
  <2>2. Bounded(search'[k]) /\ \A m \in Searches \ {k} : search'[m] = search[m]
    <3>1. /\ search[k].id <= MaxStarts + 1
          /\ search[k].pending <= numThreads /\ search[k].inUse <= numThreads
      BY <2>1 DEF Bounds, SearchBound, Bounded
    <3>2. search[k].pending \in Nat /\ numThreads \in Nat
      BY <2>1, ThreadsPositive DEF SearchSet
    <3>3. PICK s : s = search[k]
      OBVIOUS
    <3>4. /\ search'[k].id = s.id /\ search'[k].inUse = s.inUse
          /\ search'[k].pending \in {s.pending, s.pending - 1}
      <4>1. CASE Score(t)
        <5>1. PICK f : search' = [search EXCEPT ![k] = [s EXCEPT !.scored = f]]
          BY <3>3, <4>1 DEF Score, SetSearch
        <5>2. search'[k] = [s EXCEPT !.scored = f]
          BY <1>1, <2>1, <5>1 DEF Types
        <5> QED
          BY <2>1, <3>3, <5>2 DEF SearchSet
      <4>2. CASE Finish(t)
        <5>1. search' = [search EXCEPT ![k] = [s EXCEPT !.pending = @ - 1]]
          BY <3>3, <4>2 DEF Finish, SetSearch
        <5>2. search'[k] = [s EXCEPT !.pending = @ - 1]
          BY <1>1, <2>1, <5>1 DEF Types
        <5> QED
          BY <2>1, <3>3, <5>2 DEF SearchSet
      <4> QED
        BY <1>6, <4>1, <4>2
    <3>5. \A m \in Searches \ {k} : search'[m] = search[m]
      BY <1>1, <1>6, <2>1 DEF Score, Finish, SetSearch, Types
    <3> QED
      BY <3>1, <3>2, <3>3, <3>4, <3>5 DEF Bounded
  <2> QED
    BY <1>3, <1>4, <2>1, <2>2 DEF Bounds, SearchBound, QueueBound
<1> QED
  BY <1>5, <1>6

LEMMA RequestBounds ==
  ASSUME SInv, SInv', Bounds, NEW c \in Clients,
         Status(c) \/ StatusTold(c) \/ Lookup(c) \/ Merge(c) \/ Reply(c)
  PROVE  Bounds'
<1> USE DEF history
<1>1. Types /\ Types' /\ client[c] \in ClientSet /\ client[c].id \in Nat
  BY DEF SInv, Types, ClientSet
<1>2. UNCHANGED <<nextSearchId, starts, queue, worker, up, swapped, cut>>
  BY DEF Status, StatusTold, Lookup, Merge, Reply
<1>3. PICK r : SetClient(c, r) /\ r.id = client[c].id /\ r.at \in {"idle", "status", "merge", "reply"}
  <2>1. PICK r : /\ SetClient(c, r)
                 /\ \/ \E use : r = [client[c] EXCEPT !.at = "status", !.use = use]
                    \/ \E use : r = [client[c] EXCEPT !.at = "merge", !.use = use]
                    \/ r = [client[c] EXCEPT !.at = "idle", !.use = 0]
                    \/ r = [client[c] EXCEPT !.at = "reply"]
    BY DEF Status, StatusTold, Lookup, Merge, Reply
  <2>2. r.id = client[c].id /\ r.at \in {"idle", "status", "merge", "reply"}
    BY <1>1, <2>1 DEF ClientSet
  <2> QED
    BY <2>1, <2>2
<1>4. IdBound'
  BY <1>1, <1>2, <1>3, IdBoundClient DEF Bounds
<1>5. SearchBound'
  <2>1. CASE UNCHANGED search
    BY <2>1 DEF Bounds, SearchBound
  <2>2. CASE SetSearch(client[c].use, [search[client[c].use] EXCEPT !.merged = TRUE, !.inUse = 0])
    <3>1. ASSUME NEW k \in Searches PROVE Bounded(search'[k])
      <4>1. Bounded(search[k]) /\ search[k] \in SearchSet /\ numThreads \in Nat
        BY <1>1, ThreadsPositive DEF Bounds, SearchBound, Types
      <4>2. search'[k] = search[k] \/ search'[k] = [search[k] EXCEPT !.merged = TRUE, !.inUse = 0]
        BY <1>1, <2>2 DEF SetSearch, Types
      <4>3. search'[k].id = search[k].id /\ search'[k].pending = search[k].pending
            /\ search'[k].inUse \in {search[k].inUse, 0}
        BY <4>1, <4>2 DEF SearchSet
      <4> QED
        BY <4>1, <4>3 DEF Bounded
    <3> QED
      BY <3>1 DEF SearchBound
  <2> QED
    BY <2>1, <2>2 DEF Status, StatusTold, Lookup, Merge, Reply
<1> QED
  BY <1>2, <1>4, <1>5 DEF Bounds, QueueBound, WorkerBound, HistoryBound

\* The searches that are freed are listed ones.
LEMMA ListedAreSearches ==
  ASSUME Types, NEW k, InList(k)
  PROVE  k \in Searches
BY DEF Types, InList

LEMMA EndBounds ==
  ASSUME SInv, SInv', Bounds, NEW c \in Clients, End(c)
  PROVE  Bounds'
<1>1. PICK k : k = Find(client[c].id)
  OBVIOUS
<1>2. /\ k # 0 /\ SetSearch(k, Freed) /\ cut' \in {cut, cut \cup {k}}
      /\ UNCHANGED <<nextSearchId, queue, worker, client, starts, up, swapped>>
  BY <1>1 DEF End
<1>3. Types /\ Types' /\ k \in Searches
  BY <1>1, <1>2, FindIs, ListedAreSearches DEF SInv, Types
<1>4. IdBound'
  BY <1>2, <1>3, IdBoundSame DEF Bounds
<1>5. SearchBound'
  <2>1. \A m \in Searches : search'[m] = search[m] \/ search'[m] = Freed
    BY <1>2, <1>3 DEF SetSearch, Types
  <2> QED
    BY <2>1, FreedBounded DEF Bounds, SearchBound
<1>6. HistoryBound'
  BY <1>2, <1>3 DEF Bounds, HistoryBound
<1> QED
  BY <1>2, <1>4, <1>5, <1>6 DEF Bounds, QueueBound, WorkerBound

LEMMA RoundBounds ==
  ASSUME SInv, SInv', Bounds, Round
  PROVE  Bounds'
<1>1. PICK deleted, seen :
        search' = [k \in Searches |-> IF k \in deleted THEN Freed
                                      ELSE IF k \in seen THEN [search[k] EXCEPT !.marked = TRUE]
                                      ELSE search[k]]
  BY RoundSearches
<1>2. /\ UNCHANGED <<nextSearchId, queue, worker, client, starts, up, swapped>>
      /\ cut' \subseteq cut \cup {list[i] : i \in DOMAIN list}
  BY DEF Round
<1>3. Types /\ Types'
  BY DEF SInv
<1>4. IdBound'
  BY <1>2, <1>3, IdBoundSame DEF Bounds
<1>5. SearchBound'
  <2>1. ASSUME NEW k \in Searches PROVE Bounded(search'[k])
    <3>1. Bounded(search[k]) /\ search[k] \in SearchSet
      BY <1>3 DEF Bounds, SearchBound, Types
    <3>2. \/ search'[k] \in {Freed, search[k]}
          \/ search'[k] = [search[k] EXCEPT !.marked = TRUE]
      BY <1>1
    <3>3. Bounded([search[k] EXCEPT !.marked = TRUE])
      BY <3>1 DEF Bounded, SearchSet
    <3> QED
      BY <3>1, <3>2, <3>3, FreedBounded
  <2> QED
    BY <2>1 DEF SearchBound
<1>6. HistoryBound'
  <2>1. \A i \in DOMAIN list : list[i] \in Searches
    BY <1>3 DEF Types
  <2> QED
    BY <1>2, <2>1 DEF Bounds, HistoryBound
<1> QED
  BY <1>2, <1>4, <1>5, <1>6 DEF Bounds, QueueBound, WorkerBound

LEMMA UseFreedBounds ==
  ASSUME SInv, SInv', Bounds, UseFreed
  PROVE  Bounds'
<1> USE DEF history
<1>1. Types /\ Types'
  BY DEF SInv
<1>2. UNCHANGED <<nextSearchId, search, queue, starts, up, swapped, cut>>
  BY DEF UseFreed
<1>3. CASE UNCHANGED client /\ \E t \in Threads : worker' = [worker EXCEPT ![t] = Idle]
  <2>1. IdBound'
    BY <1>1, <1>2, <1>3, IdBoundSame DEF Bounds
  <2>2. WorkerBound'
    BY <1>1, <1>3 DEF Bounds, WorkerBound, Types
  <2> QED
    BY <1>2, <2>1, <2>2 DEF Bounds, SearchBound, QueueBound, HistoryBound
<1>4. ASSUME UNCHANGED worker,
             NEW c \in Clients, SetClient(c, [client[c] EXCEPT !.at = "idle", !.use = 0])
      PROVE  Bounds'
  <2> DEFINE r == [client[c] EXCEPT !.at = "idle", !.use = 0]
  <2>1. SetClient(c, r) /\ r.at = "idle" /\ r.id = client[c].id /\ client[c].id \in Nat
    BY <1>1, <1>4 DEF Types, ClientSet
  <2> HIDE DEF r
  <2>2. IdBound'
    BY <1>1, <1>2, <2>1, IdBoundClient DEF Bounds
  <2> QED
    BY <1>2, <1>4, <2>2 DEF Bounds, SearchBound, QueueBound, WorkerBound, HistoryBound
<1> QED
  BY <1>3, <1>4 DEF UseFreed

LEMMA StillBounds ==
  ASSUME SInv, SInv', Bounds,
         Grow \/ (\E t \in Threads : Unlock(t)) \/ UNCHANGED vars
  PROVE  Bounds'
<1>1. UNCHANGED <<nextSearchId, search, queue, worker, client, starts, up, swapped, cut>>
  BY DEF Grow, Unlock, vars, history
<1>2. IdBound'
  BY <1>1, IdBoundSame DEF Bounds, SInv
<1> QED
  BY <1>1, <1>2 DEF Bounds, SearchBound, QueueBound, WorkerBound, HistoryBound

LEMMA EmptyBounds == Empty /\ swapped = {} /\ cut = {} /\ up \in BOOLEAN => Bounds
<1> SUFFICES ASSUME Empty, swapped = {}, cut = {}, up \in BOOLEAN PROVE Bounds
  OBVIOUS
<1>1. \A c \in Clients : client[c].id = 0 /\ client[c].at = "idle"
  BY DEF Empty, NoClient
<1>2. Starters = {}
  BY <1>1 DEF Starters, Starting
<1>3. IsFiniteSet(Starters) /\ Cardinality(Starters) = 0
  BY <1>2, FS_EmptySet
<1>4. IdBound
  BY <1>1, <1>3 DEF Empty, IdBound
<1>5. SearchBound
  BY FreedBounded DEF Empty, SearchBound
<1>6. QueueBound
  BY SearchEngineAssumption DEF Empty, QueueBound
<1>7. WorkerBound
  BY DEF Empty, WorkerBound
<1> QED
  BY <1>4, <1>5, <1>6, <1>7 DEF Bounds, HistoryBound

LEMMA CrashBounds == Crash => Bounds'
<1>1. Crash => (Empty /\ swapped = {} /\ cut = {} /\ up \in BOOLEAN)'
  BY DEF Crash, Empty
<1> QED
  BY <1>1, EmptyBounds, PTL

LEMMA NextBounds == SInv /\ SInv' /\ IdInv /\ Bounds /\ [Next]_vars => Bounds'
<1> SUFFICES ASSUME SInv, SInv', IdInv, Bounds, [Next]_vars PROVE Bounds'
  OBVIOUS
<1>1. ASSUME NEW t \in Threads, ThreadStep(t) PROVE Bounds'
  <2>1. CASE Unlock(t)
    BY <2>1, StillBounds
  <2> QED
    BY <1>1, <2>1, ThreadBounds DEF ThreadStep
<1>2. ASSUME NEW c \in Clients, StartStep(c) PROVE Bounds'
  BY <1>2, StartBounds, TakeIdBounds, BumpIdBounds DEF StartStep
<1>3. ASSUME NEW c \in Clients, RequestStep(c) PROVE Bounds'
  BY <1>3, PrepareBounds, StartBounds, RequestBounds, EndBounds DEF RequestStep
<1>4. CASE up /\ (Round \/ UseFreed \/ Crash \/ Grow)
  BY <1>4, RoundBounds, UseFreedBounds, CrashBounds, StillBounds
<1> QED
  BY <1>1, <1>2, <1>3, <1>4, StillBounds DEF Next

LEMMA InitBounds == Init => Bounds
BY EmptyBounds DEF Init, Empty

\* No id is given out beyond the number of searches that were started, however the reads and
\* the writes of the next id overlap; the queue stays within its bound; and a search never
\* waits for more ranges than there are threads.
THEOREM SearchTypeCorrect == Spec => []TypeOK
<1>1. ASSUME SInv, HoldInv, Bounds PROVE TypeOK
  <2>1. Types
    BY <1>1 DEF SInv
  <2>2. /\ nextSearchId \in Nat \ {0} /\ nextSearchId <= starts + 1
        /\ \A c \in Clients : client[c].id <= starts + 1
    <3>1. Cardinality(Starters) \in Nat /\ starts \in Nat
      BY <1>1, <2>1, FS_CardinalityType DEF Bounds, IdBound, Types
    <3> QED
      BY <1>1, <3>1 DEF Bounds, IdBound
  <2>3. MaxStarts \in Nat /\ numThreads \in Nat /\ starts \in 0 .. MaxStarts
    BY <2>1, SearchEngineAssumption, ThreadsPositive DEF Types
  <2>4. nextSearchId \in Ids \ {0} /\ \A c \in Clients : client[c].id \in Ids
    BY <2>1, <2>2, <2>3 DEF Types, ClientSet, Ids
  <2>5. \A k \in Searches : search[k] \in [state : {"none", "made", "freed"}, id : Ids,
                              pending : 0 .. numThreads, inUse : 0 .. numThreads,
                              merged : BOOLEAN, marked : BOOLEAN, top : Profiles,
                              scored : [Profiles -> Nat]]
    <3>1. SUFFICES ASSUME NEW k \in Searches
          PROVE search[k] \in [state : {"none", "made", "freed"}, id : Ids,
                              pending : 0 .. numThreads, inUse : 0 .. numThreads,
                              merged : BOOLEAN, marked : BOOLEAN, top : Profiles,
                              scored : [Profiles -> Nat]]
      OBVIOUS
    <3>2. search[k] \in SearchSet
      BY <2>1 DEF Types
    <3>3. Bounded(search[k])
      BY <1>1 DEF Bounds, SearchBound
    <3>4. /\ search[k].id \in Ids
          /\ search[k].pending \in 0 .. numThreads /\ search[k].inUse \in 0 .. numThreads
      BY <2>3, <3>2, <3>3 DEF SearchSet, Bounded, Ids
    <3> QED
      BY <3>2, <3>4 DEF SearchSet
  <2>6. \A c \in Clients :
          client[c] \in [at : {"idle", "list", "push", "take", "bump", "refree",
                               "status", "merge", "reply"},
                         search : {0} \cup Searches, id : Ids, ranges : Seq(RangeSet),
                         use : {0} \cup Searches]
    BY <2>1, <2>4 DEF Types, ClientSet
  <2>7. \A t \in Threads : \/ worker[t] = Idle
                           \/ worker[t].at \in {"score", "finish"} /\ worker[t].job \in RangeSet
    BY <1>1, <2>1 DEF Types, WorkerSet, Bounds, WorkerBound
  <2>8. search \in [Searches -> [state : {"none", "made", "freed"}, id : Ids,
                              pending : 0 .. numThreads, inUse : 0 .. numThreads,
                              merged : BOOLEAN, marked : BOOLEAN, top : Profiles,
                              scored : [Profiles -> Nat]]]
    BY <2>1, <2>5 DEF Types
  <2>9. client \in [Clients -> [at : {"idle", "list", "push", "take", "bump", "refree",
                                   "status", "merge", "reply"},
                             search : {0} \cup Searches, id : Ids, ranges : Seq(RangeSet),
                             use : {0} \cup Searches]]
    BY <2>1, <2>6 DEF Types
  <2>10. held \in [Threads -> {0} \cup Searches]
    <3>1. 1 .. starts \subseteq Searches
      BY <2>3 DEF Searches
    <3> QED
      BY <1>1, <3>1 DEF HoldInv
  <2> QED
    BY <1>1, <2>1, <2>4, <2>7, <2>8, <2>9, <2>10 DEF Types, TypeOK, Bounds, QueueBound, HistoryBound
<1>2. Init => SInv /\ HoldInv /\ IdInv /\ Bounds
  BY InitSInv, InitIds, InitBounds
<1>3. SInv /\ HoldInv /\ IdInv /\ Bounds /\ [Next]_vars => (SInv /\ HoldInv /\ IdInv /\ Bounds)'
  BY NextSInv, NextIds, NextBounds
<1>4. SInv /\ HoldInv /\ IdInv /\ Bounds => TypeOK
  BY <1>1
<1> QED
  BY <1>2, <1>3, <1>4, PTL DEF Spec
-----------------------------------------------------------------------------
(***************************************************************************)
(* A completed search.                                                     *)
(***************************************************************************)
\* Nothing is scored or counted any more, and results that were merged stay merged, for as
\* long as the search exists.
Stays ==
  \A k \in Searches :
    Made(k) /\ search[k].pending = 0 /\ Made(k)' =>
      /\ search'[k].pending = 0 /\ search'[k].scored = search[k].scored
      /\ search[k].merged => search'[k].merged

\* Whose range a thread has waits for it.
LEMMA HeldWaits ==
  ASSUME SInv, NEW t \in Threads, worker[t].at # "wait",
         NEW k \in Searches, k = worker[t].job.search, Made(k)
  PROVE  search[k].pending # 0
<1>1. worker[t].job \in RangeSet
  BY DEF SInv, Types
<1>2. worker[t].job \in Left(k)
  BY <1>1 DEF Left, Somewhere, Held
<1>3. IsFiniteSet(Left(k)) /\ search[k].pending = Cardinality(Left(k))
  BY DEF SInv, RangeInv, Counted
<1> QED
  BY <1>2, <1>3, FS_EmptySet

LEMMA UnscoredStays ==
  ASSUME SInv, NEW t \in Threads, Score(t) \/ Finish(t)
  PROVE  Stays
<1> SUFFICES ASSUME NEW k \in Searches, Made(k), search[k].pending = 0
             PROVE  search'[k] = search[k]
  BY DEF Stays
<1>1. worker[t].at # "wait"
  BY DEF Score, Finish
<1>2. k # worker[t].job.search
  BY <1>1, HeldWaits
<1>3. search \in [Searches -> SearchSet]
  BY DEF SInv, Types
<1> QED
  BY <1>2, <1>3 DEF Score, Finish, SetSearch

LEMMA RequestStays ==
  ASSUME SInv, NEW c \in Clients, RequestStep(c)
  PROVE  Stays
<1>1. search \in [Searches -> SearchSet] /\ starts \in Nat
  BY DEF SInv, Types
<1>2. CASE Prepare(c)
  <2>1. starts + 1 > starts /\ (starts + 1 \in Searches => search[starts + 1].state = "none")
    BY <1>1 DEF SInv, ListInv
  <2>2. \A k \in Searches : Made(k) => search'[k] = search[k]
    BY <1>1, <1>2, <2>1 DEF Prepare, SetSearch, Made
  <2> QED
    BY <2>2 DEF Stays
<1>3. CASE PrepareFails(c) \/ HeapFails(c) \/ End(c)
  <2>1. \A k \in Searches : search'[k] = search[k] \/ search'[k] = Freed
    BY <1>1, <1>3 DEF PrepareFails, HeapFails, End, SetSearch
  <2>2. Freed.state # "made"
    BY DEF Freed, NoSearch
  <2> QED
    BY <2>1, <2>2 DEF Stays, Made
<1>4. CASE Merge(c)
  <2>1. PICK u : u = client[c].use
    OBVIOUS
  <2>2. \/ search' = search
        \/ search' = [search EXCEPT ![u] = [search[u] EXCEPT !.merged = TRUE, !.inUse = 0]]
    BY <1>4, <2>1 DEF Merge, SetSearch
  <2>3. ASSUME NEW k \in Searches, k # u PROVE search'[k] = search[k]
    BY <1>1, <2>2, <2>3
  <2>4. ASSUME u \in Searches
        PROVE  /\ search'[u].pending = search[u].pending /\ search'[u].scored = search[u].scored
               /\ search[u].merged => search'[u].merged
    BY <1>1, <2>2, <2>4 DEF SearchSet
  <2> QED
    BY <2>3, <2>4 DEF Stays
<1>5. CASE Status(c) \/ StatusTold(c) \/ Lookup(c) \/ Reply(c)
  BY <1>5 DEF Status, StatusTold, Lookup, Reply, Stays
<1> QED
  BY <1>2, <1>3, <1>4, <1>5 DEF RequestStep

LEMMA RoundStays ==
  ASSUME SInv, Round
  PROVE  Stays
<1>1. search \in [Searches -> SearchSet]
  BY DEF SInv, Types
<1>2. PICK deleted, seen :
        search' = [k \in Searches |-> IF k \in deleted THEN Freed
                                      ELSE IF k \in seen THEN [search[k] EXCEPT !.marked = TRUE]
                                      ELSE search[k]]
  BY RoundSearches
<1>3. Freed.state # "made"
  BY DEF Freed, NoSearch
<1>4. \A k \in Searches : Made(k)' => /\ search'[k].pending = search[k].pending
                                      /\ search'[k].scored = search[k].scored
                                      /\ search'[k].merged = search[k].merged
  BY <1>1, <1>2, <1>3 DEF Made, SearchSet
<1> QED
  BY <1>4 DEF Stays

\* The results of a search that is completed are final: no thread scores a profile of it or
\* counts a range of it again, and once merged they stay merged, until it is removed.  What a
\* client fetches twice is the same.
THEOREM CompletedStays == Spec => [][Stays]_vars
<1>1. ASSUME SInv, [Next]_vars PROVE Stays
  <2>1. ASSUME NEW t \in Threads, ThreadStep(t) PROVE Stays
    <3>1. Pop(t) \/ Unlock(t) => UNCHANGED search
      BY DEF Pop, Unlock
    <3> QED
      BY <1>1, <2>1, <3>1, UnscoredStays DEF ThreadStep, Stays
  <2>2. ASSUME NEW c \in Clients, StartStep(c) PROVE Stays
    BY <2>2 DEF StartStep, AddToList, Push, TakeId, BumpId, Stays
  <2>3. ASSUME NEW c \in Clients, RequestStep(c) PROVE Stays
    BY <1>1, <2>3, RequestStays
  <2>4. CASE up /\ Round
    BY <1>1, <2>4, RoundStays
  <2>5. CASE up /\ (UseFreed \/ Grow)
    BY <2>5 DEF UseFreed, Grow, Stays
  <2>6. CASE up /\ Crash
    <3>1. \A k \in Searches : search'[k] = NoSearch
      BY <2>6 DEF Crash
    <3> QED
      BY <3>1 DEF Stays, Made, NoSearch
  <2>7. CASE UNCHANGED vars
    BY <2>7 DEF vars, Stays
  <2> QED
    BY <1>1, <2>1, <2>2, <2>3, <2>4, <2>5, <2>6, <2>7 DEF Next
<1>2. Init => SInv /\ HoldInv
  BY InitSInv
<1>3. SInv /\ HoldInv /\ [Next]_vars => (SInv /\ HoldInv)'
  BY NextSInv
<1>4. SInv /\ [Next]_vars => [Stays]_vars
  BY <1>1
<1> QED
  BY <1>2, <1>3, <1>4, PTL DEF Spec
=============================================================================
