----------------------------- MODULE StorageProofs -----------------------------
(***************************************************************************)
(* What is proved of the storage behind the requests: of the file groups   *)
(* (FileGroups) and of the file that the items of a group are in           *)
(* (FileStore).  The two share no state; their theorems are in one module  *)
(* because a request first looks its group up and then uses its files.     *)
(*                                                                         *)
(* FileStore, for any capacity and any ids and items that fit: the table   *)
(* of a file is exact whenever no save is under way (TableIsExact), an     *)
(* item that was saved is found (SavedItemsAreFound), and the file is a    *)
(* map that a save changes at once (FileImplementsStore).  The theorems    *)
(* assume that the offsets of a full file of the longest items do not      *)
(* wrap (FitsOffsets), and that a save that writes a new file in place is  *)
(* not stopped (StopsSafely): it is what makes the code lose items.        *)
(* FileInv is the invariant: what the words that a save has still to write *)
(* make of the file is what the save is to make of it.  It rests on        *)
(* lemmas about RecordFile that follow the words of a file through one     *)
(* replacement (IsReplaced).  What holds of every position by induction is *)
(* proved from the least position at which it would not (LeastIs).         *)
(*                                                                         *)
(* FileGroups: getCreateFileGroupDao makes one group for a type, for any   *)
(* number of threads and types, if no type is 0 (NoTypeZero).  Its         *)
(* invariant says which groups have a type: those that are counted, except *)
(* the one that the owner of the mutex fills in, whose stores become       *)
(* visible in any order.                                                   *)
(***************************************************************************)
EXTENDS FileGroups, FileStore, FiniteSetTheorems, SequenceTheorems, WellFoundedInduction, TLAPS
-----------------------------------------------------------------------------
(***************************************************************************)
(* A file of records (RecordFile).                                         *)
(***************************************************************************)
LEMMA LeastIs ==
  ASSUME NEW S \in SUBSET Nat, S # {}
  PROVE  \E x \in S : \A y \in S : x <= y
<1>1. \E x \in S : \A y \in S : ~ (<<y, x>> \in OpToRel(<, Nat))
  BY NatLessThanWellFounded, WFMin, ZenonT(30)
<1>2. PICK x \in S : \A y \in S : ~ (<<y, x>> \in OpToRel(<, Nat))
  BY <1>1
<1>3. ASSUME NEW y \in S PROVE x <= y
  <2>1. ~ (y < x)
    BY <1>2, <1>3 DEF OpToRel
  <2> QED
    BY <1>3, <2>1
<1> QED
  BY <1>3

LEMMA MaxIs ==
  ASSUME NEW S \in SUBSET Nat, NEW x \in S, \A y \in S : y <= x
  PROVE  Max(S) = x
<1>1. \A y \in S : x >= y
  OBVIOUS
<1>2. Max(S) \in S /\ \A y \in S : Max(S) >= y
  BY <1>1 DEF Max
<1>3. PICK m \in S : m = Max(S) /\ m >= x
  BY <1>2
<1> QED
  BY <1>3

\* Records that are stacked from t on, of at most r words each, do not overlap, and the
\* offsets grow with their number.
LEMMA Stacked ==
  ASSUME NEW c \in Nat \ {0}, NEW t \in Nat, NEW r \in Nat,
         NEW o \in [0 .. c - 1 -> Nat], NEW s \in [0 .. c - 1 -> Nat],
         o[0] = t, \A p \in 1 .. c - 1 : o[p] = o[p - 1] + s[p - 1],
         \A p \in 0 .. c - 1 : s[p] <= r
  PROVE  /\ \A p \in 0 .. c - 1 : t <= o[p] /\ o[p] <= t + p * r
         /\ \A p, q \in 0 .. c - 1 : p < q => o[p] + s[p] <= o[q]
<1>1. ASSUME NEW p \in 0 .. c - 1 PROVE t <= o[p] /\ o[p] <= t + p * r
  <2> DEFINE bad == {q \in 0 .. c - 1 : ~ (t <= o[q] /\ o[q] <= t + q * r)}
  <2>1. SUFFICES ASSUME bad # {} PROVE FALSE
    OBVIOUS
  <2>2. PICK q \in bad : \A y \in bad : q <= y
    <3>1. bad \in SUBSET Nat
      OBVIOUS
    <3> HIDE DEF bad
    <3> QED
      BY <2>1, <3>1, LeastIs
  <2>3. 0 * r = 0
    OBVIOUS
  <2>4. q # 0 /\ q - 1 \in 0 .. c - 1 /\ q - 1 \notin bad
    BY <2>2, <2>3
  <2>5. PICK x \in Nat, y \in Nat : x = (q - 1) * r /\ y = q * r /\ y = x + r
    <3>1. (q - 1) * r \in Nat /\ q * r \in Nat /\ q * r = (q - 1) * r + r
      BY <2>4
    <3> QED
      BY <3>1
  <2>6. t <= o[q - 1] /\ o[q - 1] <= t + x
    BY <2>4, <2>5
  <2>7. o[q] = o[q - 1] + s[q - 1] /\ s[q - 1] <= r /\ s[q - 1] \in Nat /\ o[q - 1] \in Nat
    BY <2>4
  <2>8. ~ (t <= o[q] /\ o[q] <= t + y)
    BY <2>2, <2>5
  <2>9. y = x + r
    BY <2>5
  <2> HIDE DEF bad
  <2> QED
    BY <2>6, <2>7, <2>8, <2>9
<1>2. ASSUME NEW p \in 0 .. c - 1, NEW q \in 0 .. c - 1, p < q PROVE o[p] + s[p] <= o[q]
  <2> DEFINE bad == {x \in 0 .. c - 1 : p < x /\ ~ (o[p] + s[p] <= o[x])}
  <2>1. SUFFICES ASSUME bad # {} PROVE FALSE
    BY <1>2
  <2>2. PICK x \in bad : \A y \in bad : x <= y
    <3>1. bad \in SUBSET Nat
      OBVIOUS
    <3> HIDE DEF bad
    <3> QED
      BY <2>1, <3>1, LeastIs
  <2>3. x - 1 \in 0 .. c - 1 /\ x \in 1 .. c - 1 /\ p <= x - 1
    BY <2>2
  <2>4. o[x] = o[x - 1] + s[x - 1] /\ s[x - 1] \in Nat /\ o[x - 1] \in Nat
    BY <2>3
  <2>5. o[p] \in Nat /\ s[p] \in Nat /\ ~ (o[p] + s[p] <= o[x])
    BY <2>2
  <2>6. CASE x - 1 = p
    BY <2>4, <2>5, <2>6
  <2>7. CASE x - 1 # p
    <3>1. x - 1 \notin bad
      BY <2>2, <2>3
    <3>2. o[p] + s[p] <= o[x - 1]
      BY <2>3, <2>7, <3>1
    <3> HIDE DEF bad
    <3> QED
      BY <2>4, <2>5, <3>2
  <2> QED
    BY <2>6, <2>7
<1> QED
  BY <1>1, <1>2

LEMMA TableGeometry ==
  /\ Capacity \in Nat \ {0, 1} /\ OffsetLimit \in Nat \ {0}
  /\ CapacityAt = 2 /\ NumItemsAt = 3 /\ EMPTY_RECORD_SIZE = 2
  /\ TableSize(Capacity) \in Nat /\ TableSize(Capacity) = 3 + 2 * Capacity
  /\ \A p \in 0 .. Capacity - 1 :
       /\ OffsetAt(p) \in 4 .. TableSize(Capacity) /\ OffsetAt(p) = 4 + 2 * p
       /\ SizeAt(p) \in 4 .. TableSize(Capacity) /\ SizeAt(p) = 5 + 2 * p
       /\ \A q \in 0 .. Capacity - 1 : OffsetAt(p) # SizeAt(q)
BY RecordFileAssumption
   DEF CapacityAt, NumItemsAt, EMPTY_RECORD_SIZE, TableSize, OffsetAt, SizeAt

-----------------------------------------------------------------------------
(***************************************************************************)
(* A file with the layout that LayoutExact demands, whose records have at  *)
(* most r words.                                                           *)
(***************************************************************************)
Positions == 0 .. Capacity - 1

Layout(f, r) ==
  /\ f \in Seq(Words) /\ WellFormed(f)
  /\ \A p \in Positions : f[OffsetAt(p)] \in Nat /\ f[SizeAt(p)] \in Nat /\ f[SizeAt(p)] <= r

\* The items are short enough for the offsets of a full file.
FitsOffsets(longest) ==
  /\ \A item \in Items : Len(item) <= longest
  /\ TableSize(Capacity) + Capacity * (longest + EMPTY_RECORD_SIZE) < OffsetLimit

LEMMA LayoutIs ==
  ASSUME NEW r \in Nat, NEW f, Layout(f, r)
  PROVE  /\ Len(f) \in Nat /\ Len(f) >= TableSize(Capacity)
         /\ f[CapacityAt] = Capacity /\ f[OffsetAt(0)] = TableSize(Capacity)
         /\ f[1] = VERSION
         /\ \A p \in Positions :
              /\ f[OffsetAt(p)] \in Nat /\ f[SizeAt(p)] \in EMPTY_RECORD_SIZE .. r
              /\ p # 0 => f[OffsetAt(p)] = f[OffsetAt(p - 1)] + f[SizeAt(p - 1)]
              /\ f[f[OffsetAt(p)] + 1] = HEAD /\ f[f[OffsetAt(p)] + f[SizeAt(p)]] = TRAIL
         /\ f[OffsetAt(Capacity - 1)] + f[SizeAt(Capacity - 1)] = Len(f)
         /\ f[NumItemsAt] = Cardinality({p \in Positions : f[SizeAt(p)] > EMPTY_RECORD_SIZE})
<1>1. /\ Len(f) >= TableSize(Capacity) /\ f[1] = VERSION /\ f[CapacityAt] = Capacity
      /\ f[OffsetAt(0)] = TableSize(Capacity)
      /\ \A p \in Positions \ {0} : f[OffsetAt(p)] = f[OffsetAt(p - 1)] + f[SizeAt(p - 1)]
      /\ f[OffsetAt(Capacity - 1)] + f[SizeAt(Capacity - 1)] = Len(f)
      /\ \A p \in Positions : /\ f[SizeAt(p)] >= EMPTY_RECORD_SIZE
                              /\ f[f[OffsetAt(p)] + 1] = HEAD
                              /\ f[f[OffsetAt(p)] + f[SizeAt(p)]] = TRAIL
      /\ f[NumItemsAt] = Cardinality({p \in Positions : f[SizeAt(p)] > EMPTY_RECORD_SIZE})
  BY Zenon DEF Layout, WellFormed, Positions, RecordEnd
<1>2. f \in Seq(Words) /\ Len(f) \in Nat
  BY DEF Layout
<1>3. \A p \in Positions : f[OffsetAt(p)] \in Nat /\ f[SizeAt(p)] \in Nat /\ f[SizeAt(p)] <= r
  BY DEF Layout
<1>4. ASSUME NEW p \in Positions PROVE f[SizeAt(p)] \in EMPTY_RECORD_SIZE .. r
  <2>1. f[SizeAt(p)] \in Nat /\ f[SizeAt(p)] <= r /\ f[SizeAt(p)] >= EMPTY_RECORD_SIZE
    BY <1>1, <1>3
  <2> QED
    BY <2>1 DEF EMPTY_RECORD_SIZE
<1> QED
  BY <1>1, <1>2, <1>3, <1>4

LEMMA LayoutStacked ==
  ASSUME NEW r \in Nat, NEW f, Layout(f, r)
  PROVE  /\ \A p \in Positions :
              /\ TableSize(Capacity) <= f[OffsetAt(p)]
              /\ f[OffsetAt(p)] <= TableSize(Capacity) + p * r
              /\ f[OffsetAt(p)] + f[SizeAt(p)] <= Len(f)
         /\ \A p, q \in Positions : p < q => f[OffsetAt(p)] + f[SizeAt(p)] <= f[OffsetAt(q)]
<1> DEFINE c == Capacity
           o == [p \in 0 .. c - 1 |-> f[OffsetAt(p)]]
           s == [p \in 0 .. c - 1 |-> f[SizeAt(p)]]
<1>0. /\ f[OffsetAt(0)] = TableSize(Capacity)
      /\ \A p \in Positions :
           /\ f[OffsetAt(p)] \in Nat /\ f[SizeAt(p)] \in Nat /\ f[SizeAt(p)] <= r
           /\ p # 0 => f[OffsetAt(p)] = f[OffsetAt(p - 1)] + f[SizeAt(p - 1)]
      /\ f[OffsetAt(c - 1)] + f[SizeAt(c - 1)] = Len(f) /\ Len(f) \in Nat
  <2>1. \A p \in Positions : f[SizeAt(p)] \in Nat /\ f[SizeAt(p)] <= r
    BY DEF Layout
  <2> QED
    BY <2>1, LayoutIs
<1>c. c \in Nat \ {0}
  BY TableGeometry
<1>1. o \in [0 .. c - 1 -> Nat] /\ s \in [0 .. c - 1 -> Nat]
  BY <1>0 DEF Positions
<1>2. o[0] = TableSize(Capacity) /\ \A p \in 1 .. c - 1 : o[p] = o[p - 1] + s[p - 1]
  <2>1. \A p \in 1 .. c - 1 : p \in 0 .. c - 1 /\ p - 1 \in 0 .. c - 1 /\ p # 0
    BY <1>c
  <2>2. 0 \in 0 .. c - 1
    BY <1>c
  <2> QED
    BY <1>0, <2>1, <2>2 DEF Positions
<1>3. \A p \in 0 .. c - 1 : s[p] <= r
  BY <1>0 DEF Positions
<1>4. \A p \in Positions : o[p] = f[OffsetAt(p)] /\ s[p] = f[SizeAt(p)]
  BY DEF Positions
<1> HIDE DEF o, s
<1>5. /\ \A p \in 0 .. c - 1 : TableSize(Capacity) <= o[p] /\ o[p] <= TableSize(Capacity) + p * r
      /\ \A p, q \in 0 .. c - 1 : p < q => o[p] + s[p] <= o[q]
  BY <1>c, <1>1, <1>2, <1>3, Stacked, TableGeometry
<1>6. ASSUME NEW p \in Positions PROVE o[p] + s[p] <= Len(f)
  <2>1. c - 1 \in Positions /\ o[c - 1] + s[c - 1] = Len(f) /\ o[c - 1] \in Nat /\ s[c - 1] \in Nat
    BY <1>0, <1>c, <1>1, <1>4 DEF Positions
  <2>2. CASE p = c - 1
    BY <2>1, <2>2
  <2>3. CASE p # c - 1
    <3>1. p \in 0 .. c - 1 /\ c - 1 \in 0 .. c - 1 /\ p < c - 1
      BY <1>c, <2>1, <2>3 DEF Positions
    <3>2. o[p] + s[p] <= o[c - 1]
      BY <1>5, <3>1
    <3>3. o[p] \in Nat /\ s[p] \in Nat
      BY <1>1, <3>1
    <3> QED
      BY <2>1, <3>2, <3>3
  <2> QED
    BY <2>2, <2>3
<1> QED
  BY <1>4, <1>5, <1>6 DEF Positions

-----------------------------------------------------------------------------
(***************************************************************************)
(* The writes that update the table.                                       *)
(***************************************************************************)
LEMMA LastWrite ==
  ASSUME NEW w, NEW l \in Nat, DOMAIN w = 1 .. l, NEW n, \E k \in DOMAIN w : w[k][1] = n
  PROVE  \E k \in DOMAIN w : w[k][1] = n /\ \A m \in DOMAIN w : w[m][1] = n => m <= k
<1> DEFINE S == {x \in 0 .. l : l - x \in DOMAIN w /\ w[l - x][1] = n}
<1>1. S \in SUBSET Nat /\ S # {}
  <2>1. PICK k \in 1 .. l : w[k][1] = n
    OBVIOUS
  <2>2. l - k \in 0 .. l /\ l - (l - k) = k
    BY <2>1
  <2> QED
    BY <2>1, <2>2
<1>2. PICK x \in S : \A y \in S : x <= y
  <2> HIDE DEF S
  <2> QED
    BY <1>1, LeastIs
<1>3. ASSUME NEW m \in DOMAIN w, w[m][1] = n PROVE m <= l - x
  <2>1. l - m \in 0 .. l /\ l - (l - m) = m
    OBVIOUS
  <2>2. l - m \in S
    BY <1>3, <2>1
  <2> QED
    BY <1>2, <2>1, <2>2
<1> QED
  BY <1>2, <1>3

LEMMA OverwriteIs ==
  ASSUME NEW f \in Seq(Words), NEW w \in Seq(Nat \X Words)
  PROVE  /\ Overwrite(f, w) \in Seq(Words) /\ Len(Overwrite(f, w)) = Len(f)
         /\ \A n \in 1 .. Len(f) :
              (\A k \in DOMAIN w : w[k][1] # n) => Overwrite(f, w)[n] = f[n]
         /\ \A n \in 1 .. Len(f), k \in DOMAIN w :
              w[k][1] = n /\ (\A m \in DOMAIN w : w[m][1] = n => m <= k)
                => Overwrite(f, w)[n] = w[k][2]
<1> DEFINE on(n) == {k \in DOMAIN w : w[k][1] = n}
           word(n) == IF on(n) = {} THEN f[n] ELSE w[Max(on(n))][2]
<1>1. Overwrite(f, w) = [n \in 1 .. Len(f) |-> word(n)]
  BY DEF Overwrite
<1>2. DOMAIN w = 1 .. Len(w) /\ Len(w) \in Nat /\ Len(f) \in Nat
  OBVIOUS
<1>3. ASSUME NEW n, NEW k \in DOMAIN w, w[k][1] = n, \A m \in DOMAIN w : w[m][1] = n => m <= k
      PROVE  word(n) = w[k][2]
  <2>1. on(n) \in SUBSET Nat /\ k \in on(n) /\ \A y \in on(n) : y <= k
    BY <1>2, <1>3
  <2> HIDE DEF on
  <2>2. Max(on(n)) = k
    BY <2>1, MaxIs
  <2> QED
    BY <2>1, <2>2
<1>4. ASSUME NEW n, \A k \in DOMAIN w : w[k][1] # n PROVE word(n) = f[n]
  BY <1>4
<1>5. ASSUME NEW n \in 1 .. Len(f) PROVE word(n) \in Words
  <2>1. CASE \A k \in DOMAIN w : w[k][1] # n
    <3>1. f[n] \in Words
      OBVIOUS
    <3> QED
      BY <1>4, <2>1, <3>1
  <2>2. CASE \E k \in DOMAIN w : w[k][1] = n
    <3>1. PICK k \in DOMAIN w : w[k][1] = n /\ \A m \in DOMAIN w : w[m][1] = n => m <= k
      BY <1>2, <2>2, LastWrite
    <3>2. w[k][2] \in Words
      OBVIOUS
    <3> HIDE DEF word
    <3> QED
      BY <1>3, <3>1, <3>2
  <2> QED
    BY <2>1, <2>2
<1> HIDE DEF word
<1>6. Overwrite(f, w) \in Seq(Words) /\ Len(Overwrite(f, w)) = Len(f)
  BY <1>1, <1>2, <1>5
<1>7. \A n \in 1 .. Len(f) : Overwrite(f, w)[n] = word(n)
  BY <1>1
<1> QED
  BY <1>3, <1>4, <1>6, <1>7

\* The words can be overwritten one after the other.
LEMMA OverwriteOne ==
  ASSUME NEW f \in Seq(Words), NEW w \in Seq(Nat \X Words), w # <<>>
  PROVE  /\ Tail(w) \in Seq(Nat \X Words)
         /\ Overwrite(f, <<Head(w)>>) \in Seq(Words) /\ Len(Overwrite(f, <<Head(w)>>)) = Len(f)
         /\ Overwrite(Overwrite(f, <<Head(w)>>), Tail(w)) = Overwrite(f, w)
<1>1. PICK h \in Seq(Nat \X Words) : h = <<Head(w)>> /\ Len(h) = 1 /\ h[1] = w[1] /\ DOMAIN h = {1}
  <2>1. w[1] \in Nat \X Words /\ Head(w) = w[1]
    <3>1. Len(w) \in Nat \ {0} /\ 1 \in DOMAIN w
      OBVIOUS
    <3> QED
      BY <3>1
  <2> DEFINE h == <<Head(w)>>
  <2>2. h \in Seq(Nat \X Words) /\ Len(h) = 1 /\ h[1] = w[1]
    BY <2>1
  <2>3. DOMAIN h = {1}
    <3>1. DOMAIN h = 1 .. 1
      BY <2>2
    <3> QED
      BY <3>1
  <2>4. h = <<Head(w)>>
    OBVIOUS
  <2> HIDE DEF h
  <2> QED
    BY <2>2, <2>3, <2>4
<1>2. PICK t \in Seq(Nat \X Words) : /\ t = Tail(w) /\ DOMAIN t = 1 .. Len(w) - 1
                                      /\ \A k \in DOMAIN t : t[k] = w[k + 1]
  <2> DEFINE t == Tail(w)
  <2>1. t \in Seq(Nat \X Words) /\ Len(t) = Len(w) - 1
        /\ \A k \in 1 .. Len(t) : t[k] = w[k + 1]
    BY HeadTailProperties
  <2>2. t = Tail(w)
    OBVIOUS
  <2> HIDE DEF t
  <2>3. DOMAIN t = 1 .. Len(t)
    BY <2>1
  <2> QED
    BY <2>1, <2>2, <2>3
<1>3. Len(w) \in Nat \ {0} /\ DOMAIN w = 1 .. Len(w)
  OBVIOUS
<1>4. PICK g \in Seq(Words) :
          /\ g = Overwrite(f, h) /\ Len(g) = Len(f)
          /\ \A n \in 1 .. Len(f) : (\A k \in DOMAIN h : h[k][1] # n) => g[n] = f[n]
          /\ \A n \in 1 .. Len(f), k \in DOMAIN h :
               h[k][1] = n /\ (\A m \in DOMAIN h : h[m][1] = n => m <= k)
                 => g[n] = h[k][2]
  BY <1>1, OverwriteIs
<1>5. PICK r \in Seq(Words) :
          /\ r = Overwrite(f, w) /\ Len(r) = Len(f)
          /\ \A n \in 1 .. Len(f) : (\A k \in DOMAIN w : w[k][1] # n) => r[n] = f[n]
          /\ \A n \in 1 .. Len(f), k \in DOMAIN w :
               w[k][1] = n /\ (\A m \in DOMAIN w : w[m][1] = n => m <= k)
                 => r[n] = w[k][2]
  BY OverwriteIs
<1>6. PICK s \in Seq(Words) :
          /\ s = Overwrite(g, t) /\ Len(s) = Len(f)
          /\ \A n \in 1 .. Len(f) : (\A k \in DOMAIN t : t[k][1] # n) => s[n] = g[n]
          /\ \A n \in 1 .. Len(f), k \in DOMAIN t :
               t[k][1] = n /\ (\A m \in DOMAIN t : t[m][1] = n => m <= k)
                 => s[n] = t[k][2]
  <2>1. Len(g) = Len(f)
    BY <1>4
  <2> DEFINE s == Overwrite(g, t)
  <2>2. /\ s \in Seq(Words) /\ Len(s) = Len(g)
        /\ \A n \in 1 .. Len(g) : (\A k \in DOMAIN t : t[k][1] # n) => s[n] = g[n]
        /\ \A n \in 1 .. Len(g), k \in DOMAIN t :
             t[k][1] = n /\ (\A m \in DOMAIN t : t[m][1] = n => m <= k)
               => s[n] = t[k][2]
    BY OverwriteIs
  <2>3. s = Overwrite(g, t)
    OBVIOUS
  <2> HIDE DEF s
  <2> QED
    BY <2>1, <2>2, <2>3
<1>7. \A k \in DOMAIN t : k + 1 \in DOMAIN w /\ w[k + 1] = t[k]
  <2>1. \A k \in 1 .. Len(w) - 1 : k + 1 \in 1 .. Len(w)
    BY <1>3
  <2> QED
    BY <1>2, <1>3, <2>1
<1>8. \A m \in DOMAIN w : m # 1 => m - 1 \in DOMAIN t /\ t[m - 1] = w[m]
  <2>1. \A m \in 1 .. Len(w) : m # 1 => m - 1 \in 1 .. Len(w) - 1 /\ m - 1 + 1 = m
    BY <1>3
  <2> QED
    BY <1>2, <1>3, <2>1
<1>9. ASSUME NEW n \in 1 .. Len(f) PROVE s[n] = r[n]
  <2>1. CASE \E k \in DOMAIN t : t[k][1] = n
    <3>1. PICK k \in DOMAIN t : t[k][1] = n /\ \A m \in DOMAIN t : t[m][1] = n => m <= k
      <4>1. Len(w) - 1 \in Nat
        BY <1>3
      <4> QED
        BY <1>2, <2>1, <4>1, LastWrite
    <3>2. s[n] = t[k][2]
      BY <1>4, <1>6, <3>1
    <3>3. k + 1 \in DOMAIN w /\ w[k + 1] = t[k]
      BY <1>7
    <3>4. ASSUME NEW m \in DOMAIN w, w[m][1] = n PROVE m <= k + 1
      <4>1. CASE m = 1
        BY <1>2, <1>3, <4>1
      <4>2. CASE m # 1
        <5>1. m - 1 \in DOMAIN t /\ t[m - 1] = w[m]
          BY <1>8, <4>2
        <5>2. m - 1 <= k
          BY <3>1, <3>4, <5>1
        <5>3. m \in Nat /\ k \in Nat
          BY <1>2, <1>3
        <5> QED
          BY <5>2, <5>3
      <4> QED
        BY <4>1, <4>2
    <3>5. r[n] = w[k + 1][2]
      BY <1>5, <3>1, <3>3, <3>4
    <3> QED
      BY <3>2, <3>3, <3>5
  <2>2. CASE \A k \in DOMAIN t : t[k][1] # n
    <3>1. s[n] = g[n]
      BY <1>4, <1>6, <2>2
    <3>2. \A m \in DOMAIN w : w[m][1] = n => m = 1
      <4>1. ASSUME NEW m \in DOMAIN w, w[m][1] = n, m # 1 PROVE FALSE
        <5>1. m - 1 \in DOMAIN t /\ t[m - 1] = w[m]
          BY <1>8, <4>1
        <5> QED
          BY <2>2, <4>1, <5>1
      <4> QED
        BY <4>1
    <3>3. CASE w[1][1] = n
      <4>1. g[n] = w[1][2]
        <5>1. 1 \in DOMAIN h /\ h[1] = w[1] /\ \A m \in DOMAIN h : m <= 1
          BY <1>1
        <5>2. h[1][1] = n /\ \A m \in DOMAIN h : h[m][1] = n => m <= 1
          BY <3>3, <5>1
        <5>3. g[n] = h[1][2]
          BY <1>4, <5>1, <5>2
        <5> QED
          BY <5>1, <5>3
      <4>2. r[n] = w[1][2]
        <5>1. 1 \in DOMAIN w /\ \A m \in DOMAIN w : w[m][1] = n => m <= 1
          BY <1>3, <3>2
        <5> QED
          BY <1>5, <3>3, <5>1
      <4> QED
        BY <3>1, <4>1, <4>2
    <3>4. CASE w[1][1] # n
      <4>1. g[n] = f[n]
        <5>1. \A m \in DOMAIN h : h[m][1] # n
          BY <1>1, <3>4
        <5> QED
          BY <1>1, <1>4, <5>1
      <4>2. r[n] = f[n]
        <5>1. \A m \in DOMAIN w : w[m][1] # n
          BY <3>2, <3>4
        <5> QED
          BY <1>5, <5>1
      <4> QED
        BY <3>1, <4>1, <4>2
    <3> QED
      BY <3>3, <3>4
  <2> QED
    BY <2>1, <2>2
<1>10. s = r
  <2>1. DOMAIN s = DOMAIN r /\ DOMAIN s = 1 .. Len(f)
    BY <1>5, <1>6
  <2> QED
    BY <1>5, <1>6, <1>9, <2>1
<1> QED
  BY <1>1, <1>2, <1>4, <1>5, <1>6, <1>10

LEMMA ModOnce ==
  ASSUME NEW m \in Nat \ {0}, NEW y \in 0 .. m - 1
  PROVE  (y + m) % m = y /\ y % m = y
OBVIOUS

\* The number of writes before those of the offsets.
Leading(s) == IF s = EMPTY_RECORD_SIZE THEN 2 ELSE 1

\* A table whose entries after p can move by n words instead of those of the old record.
CanUpdate(f, p, n) ==
  /\ f \in Seq(Words) /\ Len(f) >= TableSize(Capacity) /\ f[CapacityAt] = Capacity
  /\ p \in Positions /\ n \in 0 .. OffsetLimit - 1
  /\ f[SizeAt(p)] \in Nat /\ f[NumItemsAt] \in Nat
  /\ f[SizeAt(p)] = EMPTY_RECORD_SIZE => f[NumItemsAt] + 1 < OffsetLimit
  /\ \A q \in p + 1 .. Capacity - 1 :
       f[OffsetAt(q)] \in Nat /\ f[OffsetAt(q)] + n - f[SizeAt(p)] \in 0 .. OffsetLimit - 1

LEMMA ShiftsAre ==
  ASSUME NEW f, NEW p, NEW n, CanUpdate(f, p, n)
  PROVE  LET c == ShiftOffsets(f, p, OffsetLimit + n - f[SizeAt(p)])
         IN  /\ c \in Seq(Nat \X Words) /\ Len(c) = Capacity - 1 - p
             /\ \A k \in 1 .. Capacity - 1 - p :
                  c[k] = <<OffsetAt(p + k), f[OffsetAt(p + k)] + n - f[SizeAt(p)]>>
<1>1. /\ p \in Positions /\ n \in Nat /\ f[SizeAt(p)] \in Nat /\ f[CapacityAt] = Capacity
      /\ \A q \in p + 1 .. Capacity - 1 :
           f[OffsetAt(q)] \in Nat /\ f[OffsetAt(q)] + n - f[SizeAt(p)] \in 0 .. OffsetLimit - 1
  BY DEF CanUpdate
<1>2. p \in Nat /\ Capacity - 1 - p \in Nat
  BY <1>1, TableGeometry DEF Positions
<1> DEFINE growth == OffsetLimit + n - f[SizeAt(p)]
           l == Capacity - 1 - p
           word(k) == (f[OffsetAt(p + k)] + growth) % OffsetLimit
           c == [k \in 1 .. l |-> <<OffsetAt(p + k), word(k)>>]
<1>3. ASSUME NEW k \in 1 .. l
      PROVE  /\ word(k) = f[OffsetAt(p + k)] + n - f[SizeAt(p)] /\ word(k) \in Words
             /\ OffsetAt(p + k) \in Nat
  <2>1. p + k \in p + 1 .. Capacity - 1 /\ p + k \in Positions
    BY <1>1, <1>2, TableGeometry DEF Positions
  <2>2. PICK x \in Nat : x = f[OffsetAt(p + k)] /\ x + n - f[SizeAt(p)] \in 0 .. OffsetLimit - 1
    BY <1>1, <2>1
  <2>3. PICK y \in 0 .. OffsetLimit - 1 : y = x + n - f[SizeAt(p)]
    BY <2>2
  <2>4. x + growth = y + OffsetLimit
    BY <1>1, <2>2, <2>3, TableGeometry
  <2>5. (y + OffsetLimit) % OffsetLimit = y
    BY ModOnce, TableGeometry
  <2>6. y \in Words
    BY DEF Words
  <2>7. OffsetAt(p + k) \in Nat
    BY <2>1 DEF OffsetAt, Positions
  <2> QED
    BY <2>2, <2>3, <2>4, <2>5, <2>6, <2>7
<1>4. ShiftOffsets(f, p, growth) = c
  BY <1>1 DEF ShiftOffsets
<1> HIDE DEF word
<1>5. c \in Seq(Nat \X Words) /\ Len(c) = l /\ \A k \in 1 .. l : c[k] = <<OffsetAt(p + k), word(k)>>
  BY <1>2, <1>3
<1> QED
  BY <1>3, <1>4, <1>5

\* Two sequences, and three, one behind the other.
LEMMA TwoParts ==
  ASSUME NEW S, NEW a \in Seq(S), NEW b \in Seq(S)
  PROVE  /\ a \o b \in Seq(S) /\ Len(a \o b) = Len(a) + Len(b)
         /\ \A k \in 1 .. Len(a) : (a \o b)[k] = a[k]
         /\ \A k \in 1 .. Len(b) : (a \o b)[Len(a) + k] = b[k]
<1> DEFINE g == a \o b
<1>1. /\ g \in Seq(S) /\ Len(g) = Len(a) + Len(b)
      /\ \A k \in 1 .. Len(a) + Len(b) : g[k] = IF k <= Len(a) THEN a[k] ELSE b[k - Len(a)]
  BY ConcatProperties
<1>2. g = a \o b /\ Len(a) \in Nat /\ Len(b) \in Nat
  OBVIOUS
<1> HIDE DEF g
<1>3. \A k \in 1 .. Len(a) : g[k] = a[k]
  BY <1>1, <1>2
<1>4. ASSUME NEW k \in 1 .. Len(b) PROVE g[Len(a) + k] = b[k]
  <2>1. Len(a) + k \in 1 .. Len(a) + Len(b) /\ ~ (Len(a) + k <= Len(a)) /\ Len(a) + k - Len(a) = k
    BY <1>2
  <2> QED
    BY <1>1, <2>1
<1> QED
  BY <1>1, <1>2, <1>3, <1>4

LEMMA ThreeParts ==
  ASSUME NEW S, NEW a \in Seq(S), NEW b \in Seq(S), NEW c \in Seq(S)
  PROVE  /\ a \o b \o c \in Seq(S) /\ Len(a \o b \o c) = Len(a) + Len(b) + Len(c)
         /\ \A k \in 1 .. Len(a) : (a \o b \o c)[k] = a[k]
         /\ \A k \in 1 .. Len(b) : (a \o b \o c)[Len(a) + k] = b[k]
         /\ \A k \in 1 .. Len(c) : (a \o b \o c)[Len(a) + Len(b) + k] = c[k]
<1> DEFINE d == a \o b
           w == d \o c
<1>1. /\ d \in Seq(S) /\ Len(d) = Len(a) + Len(b)
      /\ \A k \in 1 .. Len(a) + Len(b) : d[k] = IF k <= Len(a) THEN a[k] ELSE b[k - Len(a)]
  BY ConcatProperties
<1> HIDE DEF d
<1>2. /\ w \in Seq(S) /\ Len(w) = Len(d) + Len(c)
      /\ \A k \in 1 .. Len(d) + Len(c) : w[k] = IF k <= Len(d) THEN d[k] ELSE c[k - Len(d)]
  <2>1. d \in Seq(S)
    BY <1>1
  <2> QED
    BY <2>1, ConcatProperties
<1>7. w = a \o b \o c
  BY DEF d
<1> HIDE DEF w
<1>3. Len(a) \in Nat /\ Len(b) \in Nat /\ Len(c) \in Nat
  OBVIOUS
<1>4. ASSUME NEW k \in 1 .. Len(a) PROVE w[k] = a[k]
  BY <1>1, <1>2, <1>3
<1>5. ASSUME NEW k \in 1 .. Len(b) PROVE w[Len(a) + k] = b[k]
  <2>1. d[Len(a) + k] = b[k]
    <3>1. Len(a) + k \in 1 .. Len(a) + Len(b) /\ ~ (Len(a) + k <= Len(a)) /\ Len(a) + k - Len(a) = k
      BY <1>3
    <3> QED
      BY <1>1, <3>1
  <2> QED
    BY <1>1, <1>2, <1>3, <2>1
<1>6. ASSUME NEW k \in 1 .. Len(c) PROVE w[Len(a) + Len(b) + k] = c[k]
  <2> DEFINE m == Len(a) + Len(b) + k
  <2>1. m \in 1 .. Len(d) + Len(c) /\ ~ (m <= Len(d)) /\ m - Len(d) = k
    BY <1>1, <1>3
  <2> HIDE DEF m
  <2>2. w[m] = c[k]
    BY <1>2, <2>1
  <2> QED
    BY <2>2 DEF m
<1> QED
  BY <1>1, <1>2, <1>4, <1>5, <1>6, <1>7

LEMMA WritesAre ==
  ASSUME NEW f, NEW id \in Ids, NEW n, CanUpdate(f, id % Capacity, n),
         f[SizeAt(id % Capacity)] # n
  PROVE  LET p == id % Capacity
             s == f[SizeAt(p)]
             w == UpdateFileTable(f, id, n)
         IN  /\ w \in Seq(Nat \X Words) /\ DOMAIN w = 1 .. Leading(s) + (Capacity - 1 - p)
             /\ w[1] = <<SizeAt(p), n>>
             /\ s = EMPTY_RECORD_SIZE => w[2] = <<NumItemsAt, f[NumItemsAt] + 1>>
             /\ \A k \in 1 .. Capacity - 1 - p :
                  w[Leading(s) + k] = <<OffsetAt(p + k), f[OffsetAt(p + k)] + n - s>>
<1> DEFINE p == id % Capacity
           s == f[SizeAt(p)]
           l == Capacity - 1 - p
           a == <<<<SizeAt(p), n>>>>
           b == IF s = EMPTY_RECORD_SIZE THEN <<<<NumItemsAt, f[NumItemsAt] + 1>>>> ELSE <<>>
           c == ShiftOffsets(f, p, OffsetLimit + n - s)
           w == a \o b \o c
<1>1. /\ p \in Positions /\ n \in 0 .. OffsetLimit - 1 /\ f[CapacityAt] = Capacity
      /\ s \in Nat /\ f[NumItemsAt] \in Nat
      /\ s = EMPTY_RECORD_SIZE => f[NumItemsAt] + 1 < OffsetLimit
  BY DEF CanUpdate
<1>2. UpdateFileTable(f, id, n) = w
  BY <1>1 DEF UpdateFileTable, Position, ItemSize
<1>3. c \in Seq(Nat \X Words) /\ Len(c) = l /\ l \in Nat
      /\ \A k \in 1 .. l : c[k] = <<OffsetAt(p + k), f[OffsetAt(p + k)] + n - s>>
  <2>1. l \in Nat
    BY <1>1, TableGeometry DEF Positions
  <2> QED
    BY <2>1, ShiftsAre
<1>4. a \in Seq(Nat \X Words) /\ Len(a) = 1 /\ a[1] = <<SizeAt(p), n>>
  <2>1. SizeAt(p) \in Nat /\ n \in Words
    BY <1>1 DEF SizeAt, Words, Positions
  <2> QED
    BY <2>1
<1>5. /\ b \in Seq(Nat \X Words) /\ Len(b) = Leading(s) - 1
      /\ s = EMPTY_RECORD_SIZE => b[1] = <<NumItemsAt, f[NumItemsAt] + 1>>
  <2>1. CASE s = EMPTY_RECORD_SIZE
    <3>1. PICK x \in Nat \X Words : x = <<NumItemsAt, f[NumItemsAt] + 1>>
      <4>1. f[NumItemsAt] + 1 \in Words
        BY <1>1, <2>1, TableGeometry DEF Words
      <4> QED
        BY <4>1 DEF NumItemsAt
    <3>2. b = <<x>>
      BY <2>1, <3>1
    <3> QED
      BY <2>1, <3>1, <3>2 DEF Leading
  <2>2. CASE s # EMPTY_RECORD_SIZE
    BY <2>2 DEF Leading
  <2> QED
    BY <2>1, <2>2
<1>8. l = Capacity - 1 - (id % Capacity)
  OBVIOUS
<1>6. /\ w \in Seq(Nat \X Words) /\ Len(w) = Leading(s) + l
      /\ w[1] = a[1]
      /\ s = EMPTY_RECORD_SIZE => w[2] = b[1]
      /\ \A k \in 1 .. l : w[Leading(s) + k] = c[k]
  <2> HIDE DEF a, b, c, l
  <2>1. Leading(s) \in {1, 2} /\ (s = EMPTY_RECORD_SIZE => Leading(s) = 2)
    BY DEF Leading
  <2>2. /\ w \in Seq(Nat \X Words) /\ Len(w) = Len(a) + Len(b) + Len(c)
        /\ \A k \in 1 .. Len(a) : w[k] = a[k]
        /\ \A k \in 1 .. Len(b) : w[Len(a) + k] = b[k]
        /\ \A k \in 1 .. Len(c) : w[Len(a) + Len(b) + k] = c[k]
    <3>1. a \in Seq(Nat \X Words) /\ b \in Seq(Nat \X Words) /\ c \in Seq(Nat \X Words)
      BY <1>3, <1>4, <1>5
    <3> DEFINE S == Nat \X Words
    <3> HIDE DEF S
    <3>2. a \in Seq(S) /\ b \in Seq(S) /\ c \in Seq(S)
      BY <3>1 DEF S
    <3>3. /\ w \in Seq(S) /\ Len(w) = Len(a) + Len(b) + Len(c)
          /\ \A k \in 1 .. Len(a) : w[k] = a[k]
          /\ \A k \in 1 .. Len(b) : w[Len(a) + k] = b[k]
          /\ \A k \in 1 .. Len(c) : w[Len(a) + Len(b) + k] = c[k]
      BY <3>2, ThreeParts
    <3> QED
      BY <3>3 DEF S
  <2> HIDE DEF w
  <2>3. Len(a) = 1 /\ Len(b) = Leading(s) - 1 /\ Len(c) = l /\ l \in Nat
    BY <1>3, <1>4, <1>5
  <2>4. Len(w) = Leading(s) + l /\ Len(a) + Len(b) = Leading(s)
    BY <2>1, <2>2, <2>3
  <2>5. w[1] = a[1]
    BY <2>2, <2>3
  <2>6. s = EMPTY_RECORD_SIZE => w[2] = b[1]
    <3>1. \A k \in 1 .. Len(b) : w[1 + k] = b[k]
      BY <2>2, <2>3
    <3>2. s = EMPTY_RECORD_SIZE => Len(b) = 1
      BY <2>1, <2>3
    <3> QED
      <4> HIDE DEF s
      <4>1. s = EMPTY_RECORD_SIZE => 1 \in 1 .. Len(b)
        BY <3>2
      <4>2. 1 + 1 = 2
        OBVIOUS
      <4> QED
        BY <3>1, <4>1, <4>2
  <2> QED
    BY <2>2, <2>3, <2>4, <2>5, <2>6
<1> HIDE DEF a, b, c, l, w
<1>7. DOMAIN w = 1 .. Leading(s) + l
  <2>1. DOMAIN w = 1 .. Len(w)
    BY <1>6
  <2> QED
    BY <1>6, <2>1
<1>9. /\ w \in Seq(Nat \X Words) /\ w[1] = <<SizeAt(p), n>>
      /\ s = EMPTY_RECORD_SIZE => w[2] = <<NumItemsAt, f[NumItemsAt] + 1>>
      /\ \A k \in 1 .. l : w[Leading(s) + k] = <<OffsetAt(p + k), f[OffsetAt(p + k)] + n - s>>
  BY <1>3, <1>4, <1>5, <1>6
<1> QED
  BY <1>2, <1>7, <1>8, <1>9

LEMMA OverwriteDistinct ==
  ASSUME NEW f \in Seq(Words), NEW w \in Seq(Nat \X Words),
         \A j, k \in DOMAIN w : w[j][1] = w[k][1] => j = k
  PROVE  \A k \in DOMAIN w : w[k][1] \in 1 .. Len(f) => Overwrite(f, w)[w[k][1]] = w[k][2]
<1> SUFFICES ASSUME NEW k \in DOMAIN w, w[k][1] \in 1 .. Len(f)
             PROVE  Overwrite(f, w)[w[k][1]] = w[k][2]
  OBVIOUS
<1>1. PICK n \in 1 .. Len(f) : n = w[k][1]
  OBVIOUS
<1>2. k \in Nat /\ \A m \in DOMAIN w : w[m][1] = n => m <= k
  BY <1>1
<1> DEFINE g == Overwrite(f, w)
<1>3. \A x \in 1 .. Len(f), y \in DOMAIN w :
        w[y][1] = x /\ (\A m \in DOMAIN w : w[m][1] = x => m <= y) => g[x] = w[y][2]
  BY OverwriteIs
<1> HIDE DEF g
<1>4. g[n] = w[k][2]
  BY <1>1, <1>2, <1>3
<1> QED
  BY <1>1, <1>4 DEF g

\* The table afterwards.
LEMMA UpdatedIs ==
  ASSUME NEW f, NEW id \in Ids, NEW n, CanUpdate(f, id % Capacity, n)
  PROVE  LET p == id % Capacity
             s == f[SizeAt(p)]
             g == Overwrite(f, UpdateFileTable(f, id, n))
         IN  /\ UpdateFileTable(f, id, n) \in Seq(Nat \X Words)
             /\ g \in Seq(Words) /\ Len(g) = Len(f) /\ g[SizeAt(p)] = n
             /\ g[NumItemsAt] = f[NumItemsAt] + (IF s = EMPTY_RECORD_SIZE /\ n # s THEN 1 ELSE 0)
             /\ \A q \in p + 1 .. Capacity - 1 : g[OffsetAt(q)] = f[OffsetAt(q)] + n - s
             /\ \A k \in 1 .. Len(f) :
                  k # SizeAt(p) /\ k # NumItemsAt /\ (\A q \in p + 1 .. Capacity - 1 : k # OffsetAt(q))
                    => g[k] = f[k]
<1> DEFINE p == id % Capacity
           s == f[SizeAt(p)]
           w == UpdateFileTable(f, id, n)
           g == Overwrite(f, w)
           later == p + 1 .. Capacity - 1
<1>1. /\ f \in Seq(Words) /\ Len(f) >= TableSize(Capacity) /\ f[CapacityAt] = Capacity
      /\ p \in Positions /\ n \in Nat /\ s \in Nat /\ f[NumItemsAt] \in Nat
      /\ \A q \in later : f[OffsetAt(q)] \in Nat
  BY DEF CanUpdate
<1>2. /\ Len(f) \in Nat /\ p \in Nat /\ NumItemsAt \in 1 .. Len(f) /\ SizeAt(p) \in 1 .. Len(f)
      /\ SizeAt(p) # NumItemsAt
      /\ \A q \in later : /\ q \in Positions /\ OffsetAt(q) \in 1 .. Len(f)
                          /\ OffsetAt(q) # NumItemsAt /\ OffsetAt(q) # SizeAt(p)
  <2>1. Len(f) \in Nat /\ p \in Nat
    BY <1>1 DEF Positions
  <2>2. \A q \in Positions : /\ OffsetAt(q) \in 4 .. Len(f) /\ SizeAt(q) \in 4 .. Len(f)
                             /\ OffsetAt(q) # SizeAt(p)
    <3> HIDE DEF p, s, w, g
    <3>1. ASSUME NEW q \in Positions
          PROVE  OffsetAt(q) \in 4 .. Len(f) /\ SizeAt(q) \in 4 .. Len(f)
      <4>1. /\ OffsetAt(q) \in 4 .. TableSize(Capacity) /\ SizeAt(q) \in 4 .. TableSize(Capacity)
            /\ TableSize(Capacity) \in Nat
        BY TableGeometry DEF Positions
      <4> QED
        BY <1>1, <2>1, <4>1
    <3>2. \A q \in Positions : OffsetAt(q) # SizeAt(p)
      BY <1>1, TableGeometry DEF Positions
    <3> QED
      BY <3>1, <3>2
  <2>3. \A q \in later : q \in Positions
    BY <1>1, TableGeometry DEF Positions
  <2>4. NumItemsAt = 3 /\ TableSize(Capacity) \in Nat /\ TableSize(Capacity) > 3
    BY TableGeometry
  <2>5. NumItemsAt \in 1 .. Len(f) /\ \A k \in 4 .. Len(f) : k \in 1 .. Len(f) /\ k # NumItemsAt
    BY <1>1, <2>1, <2>4
  <2> HIDE DEF p, s, w, g, later
  <2>6. SizeAt(p) \in 1 .. Len(f) /\ SizeAt(p) # NumItemsAt
    BY <1>1, <2>2, <2>5
  <2>7. ASSUME NEW q \in later
        PROVE  /\ q \in Positions /\ OffsetAt(q) \in 1 .. Len(f)
               /\ OffsetAt(q) # NumItemsAt /\ OffsetAt(q) # SizeAt(p)
    BY <2>2, <2>3, <2>5
  <2> QED
    BY <2>1, <2>5, <2>6, <2>7
<1>3. CASE n = s
  <2>1. w = <<>>
    BY <1>3, <1>1 DEF UpdateFileTable, Position, ItemSize
  <2>2. w \in Seq(Nat \X Words) /\ DOMAIN w = {}
    BY <2>1
  <2> HIDE DEF w, p
  <2>3. g \in Seq(Words) /\ Len(g) = Len(f) /\ \A k \in 1 .. Len(f) : g[k] = f[k]
    BY <1>1, <2>2, OverwriteIs
  <2> HIDE DEF g
  <2>4. g[SizeAt(p)] = n /\ g[NumItemsAt] = f[NumItemsAt]
    BY <1>2, <1>3, <2>3
  <2>5. \A q \in later : g[OffsetAt(q)] = f[OffsetAt(q)] + n - s
    BY <1>1, <1>2, <1>3, <2>3
  <2>6. g[NumItemsAt] = f[NumItemsAt] + (IF s = EMPTY_RECORD_SIZE /\ n # s THEN 1 ELSE 0)
    BY <1>1, <1>3, <2>4
  <2> QED
    BY <2>2, <2>3, <2>4, <2>5, <2>6 DEF g, w, p
<1>4. CASE n # s
  <2> DEFINE l == Capacity - 1 - p
             m == Leading(s)
  <2>1. /\ w \in Seq(Nat \X Words) /\ DOMAIN w = 1 .. m + l /\ w[1] = <<SizeAt(p), n>>
        /\ s = EMPTY_RECORD_SIZE => w[2] = <<NumItemsAt, f[NumItemsAt] + 1>>
        /\ \A k \in 1 .. l : w[m + k] = <<OffsetAt(p + k), f[OffsetAt(p + k)] + n - s>>
    <3>1. f[SizeAt(id % Capacity)] # n
      BY <1>4
    <3> QED
      BY <3>1, WritesAre
  <2>2. l \in Nat /\ p + l = Capacity - 1 /\ \A k \in 1 .. l : p + k \in later
    <3> HIDE DEF p, s, w, g
    <3> QED
      BY <1>1, <1>2, TableGeometry DEF Positions
  <2>3. m \in {1, 2} /\ (s = EMPTY_RECORD_SIZE <=> m = 2)
    BY DEF Leading
  <2> HIDE DEF w, p, s, l, m, later
  <2>4. \A k \in DOMAIN w : k = 1 \/ (k = 2 /\ m = 2) \/ (k - m \in 1 .. l /\ m + (k - m) = k)
    <3>1. SUFFICES ASSUME NEW k \in 1 .. m + l, k # 1, ~ (k = 2 /\ m = 2)
                  PROVE  k - m \in 1 .. l /\ m + (k - m) = k
      BY <2>1
    <3>2. k \in Nat /\ k >= 2 /\ k <= m + l /\ k > m
      BY <2>2, <2>3, <3>1
    <3> QED
      BY <2>2, <2>3, <3>2
  <2>5. /\ w[1][1] = SizeAt(p)
        /\ m = 2 => w[2][1] = NumItemsAt
        /\ \A k \in 1 .. l : w[m + k][1] = OffsetAt(p + k)
    BY <2>1, <2>3
  <2>6. ASSUME NEW j \in DOMAIN w, NEW k \in DOMAIN w, w[j][1] = w[k][1] PROVE j = k
    <3>1. \A x, y \in 1 .. l : OffsetAt(p + x) = OffsetAt(p + y) => x = y
      BY <1>2, <2>2 DEF OffsetAt
    <3>2. \A x \in 1 .. l : OffsetAt(p + x) # NumItemsAt /\ OffsetAt(p + x) # SizeAt(p)
      BY <1>2, <2>2
    <3>0. ASSUME NEW x \in DOMAIN w, x # 1 PROVE w[x][1] # SizeAt(p)
      <4>1. CASE x = 2 /\ m = 2
        BY <1>2, <2>5, <4>1
      <4>2. CASE ~ (x = 2 /\ m = 2)
        <5>1. x - m \in 1 .. l /\ m + (x - m) = x
          BY <2>4, <3>0, <4>2
        <5>2. w[m + (x - m)][1] = OffsetAt(p + (x - m))
          BY <2>5, <5>1
        <5> QED
          BY <3>2, <5>1, <5>2
      <4> QED
        BY <4>1, <4>2
    <3>3. w[j][1] = SizeAt(p) <=> j = 1
      BY <2>5, <3>0
    <3>4. w[k][1] = SizeAt(p) <=> k = 1
      BY <2>5, <3>0
    <3>5. CASE j = 1 \/ k = 1
      BY <2>6, <3>3, <3>4, <3>5
    <3>6. CASE j # 1 /\ k # 1
      <4>1. m = 2 => (w[j][1] = NumItemsAt <=> j = 2)
        BY <2>1, <2>2, <2>4, <2>5, <3>2, <3>6
      <4>2. m = 2 => (w[k][1] = NumItemsAt <=> k = 2)
        BY <2>1, <2>2, <2>4, <2>5, <3>2, <3>6
      <4>3. CASE m = 2 /\ (j = 2 \/ k = 2)
        BY <2>6, <4>1, <4>2, <4>3
      <4>4. CASE ~ (m = 2 /\ (j = 2 \/ k = 2))
        <5>1. /\ j - m \in 1 .. l /\ m + (j - m) = j /\ k - m \in 1 .. l /\ m + (k - m) = k
          BY <2>4, <3>6, <4>4
        <5>2. OffsetAt(p + (j - m)) = OffsetAt(p + (k - m))
          BY <2>5, <2>6, <5>1
        <5>3. j - m = k - m
          BY <3>1, <5>1, <5>2
        <5> QED
          BY <5>1, <5>3
      <4> QED
        BY <4>3, <4>4
    <3> QED
      BY <3>5, <3>6
  <2>7. \A k \in DOMAIN w : w[k][1] \in 1 .. Len(f) => g[w[k][1]] = w[k][2]
    <3>1. \A j, k \in DOMAIN w : w[j][1] = w[k][1] => j = k
      BY <2>6
    <3> QED
      BY <1>1, <2>1, <3>1, OverwriteDistinct
  <2>8. /\ g \in Seq(Words) /\ Len(g) = Len(f)
        /\ \A k \in 1 .. Len(f) : (\A j \in DOMAIN w : w[j][1] # k) => g[k] = f[k]
    BY <1>1, <2>1, OverwriteIs
  <2> HIDE DEF g
  <2>9. g[SizeAt(p)] = n
    <3>1. 1 \in DOMAIN w /\ w[1][2] = n
      BY <2>1, <2>2, <2>3
    <3> QED
      BY <1>2, <2>5, <2>7, <3>1
  <2>10. g[NumItemsAt] = f[NumItemsAt] + (IF s = EMPTY_RECORD_SIZE /\ n # s THEN 1 ELSE 0)
    <3>1. CASE m = 2
      <4>1. 2 \in DOMAIN w /\ w[2][2] = f[NumItemsAt] + 1
        BY <2>1, <2>2, <2>3, <3>1
      <4>2. g[NumItemsAt] = f[NumItemsAt] + 1
        BY <1>2, <2>5, <2>7, <3>1, <4>1
      <4> QED
        BY <1>4, <2>3, <3>1, <4>2
    <3>2. CASE m # 2
      <4>1. \A j \in DOMAIN w : w[j][1] # NumItemsAt
        BY <1>2, <2>2, <2>4, <2>5, <3>2
      <4>2. g[NumItemsAt] = f[NumItemsAt]
        BY <1>2, <2>8, <4>1
      <4> QED
        BY <1>1, <2>3, <3>2, <4>2
    <3> QED
      BY <3>1, <3>2
  <2>11. ASSUME NEW q \in later PROVE g[OffsetAt(q)] = f[OffsetAt(q)] + n - s
    <3>1. q - p \in 1 .. l /\ p + (q - p) = q
      BY <1>2, <2>2, <2>11, TableGeometry DEF later
    <3>2. m + (q - p) \in DOMAIN w
      <4>1. \A k \in 1 .. l : m + k \in 1 .. m + l
        BY <2>2, <2>3
      <4> QED
        BY <2>1, <3>1, <4>1
    <3>3. w[m + (q - p)] = <<OffsetAt(q), f[OffsetAt(q)] + n - s>>
      BY <2>1, <3>1
    <3>4. w[m + (q - p)][1] = OffsetAt(q) /\ w[m + (q - p)][2] = f[OffsetAt(q)] + n - s
      BY <3>3
    <3> QED
      BY <1>2, <2>7, <3>2, <3>4
  <2>12. ASSUME NEW k \in 1 .. Len(f), k # SizeAt(p), k # NumItemsAt, \A q \in later : k # OffsetAt(q)
         PROVE  g[k] = f[k]
    <3>1. \A j \in DOMAIN w : w[j][1] # k
      BY <2>2, <2>4, <2>5, <2>12
    <3> QED
      BY <2>8, <3>1
  <2> QED
    BY <2>1, <2>8, <2>9, <2>10, <2>11, <2>12 DEF g, w, p, s, later
<1> QED
  BY <1>3, <1>4

-----------------------------------------------------------------------------
(***************************************************************************)
(* The record of an item, and the file in which it replaces another.       *)
(***************************************************************************)
Part(f, m, n) == SubSeq(f, m, n)

IsPart(u, S, f, m, n) ==
  /\ u \in Seq(S) /\ Len(u) = n + 1 - m
  /\ \A k \in 1 .. n + 1 - m : u[k] = f[m + k - 1]

LEMMA PartIs ==
  ASSUME NEW S, NEW f \in Seq(S), NEW m \in Nat \ {0}, NEW n \in Nat, n <= Len(f), m <= n + 1
  PROVE  IsPart(Part(f, m, n), S, f, m, n)
<1>1. \A j \in m .. n : f[j] \in S
  <2>1. \A j \in m .. n : j \in 1 .. Len(f)
    OBVIOUS
  <2> QED
    BY <2>1
<1> DEFINE g == SubSeq(f, m, n)
<1>2. /\ g \in Seq(S) /\ Len(g) = IF m <= n THEN n - m + 1 ELSE 0
      /\ \A k \in 1 .. n - m + 1 : g[k] = f[m + k - 1]
  BY <1>1, SubSeqProperties
<1> HIDE DEF g
<1>3. Len(g) = n + 1 - m
  BY <1>2
<1>4. ASSUME NEW k \in 1 .. n + 1 - m PROVE g[k] = f[m + k - 1]
  <2>1. k \in 1 .. n - m + 1
    BY <1>4
  <2> QED
    BY <1>2, <2>1
<1> QED
  BY <1>2, <1>3, <1>4 DEF g, Part, IsPart

\* l words from f[m] on are those from g[a] on.
SameWords(f, m, g, a, l) ==
  /\ m \in Nat \ {0} /\ a \in Nat \ {0} /\ l \in Nat
  /\ m + l <= Len(f) + 1 /\ a + l <= Len(g) + 1
  /\ \A k \in 0 .. l - 1 : f[m + k] = g[a + k]

LEMMA SamePart ==
  ASSUME NEW S, NEW f \in Seq(S), NEW g \in Seq(S), NEW m, NEW a, NEW l,
         SameWords(f, m, g, a, l), NEW n, NEW b, n = m + l - 1, b = a + l - 1
  PROVE  Part(f, m, n) = Part(g, a, b)
<1>0. /\ m \in Nat \ {0} /\ a \in Nat \ {0} /\ l \in Nat
      /\ m + l <= Len(f) + 1 /\ a + l <= Len(g) + 1
      /\ \A k \in 0 .. l - 1 : f[m + k] = g[a + k]
  BY DEF SameWords
<1> DEFINE u == Part(f, m, m + l - 1)
           v == Part(g, a, a + l - 1)
<1>1. u \in Seq(S) /\ Len(u) = l /\ \A k \in 1 .. l : u[k] = f[m + k - 1]
  <2>1. m + l - 1 \in Nat /\ m + l - 1 <= Len(f) /\ m <= m + l - 1 + 1 /\ m + l - 1 + 1 - m = l
    <3>1. m \in Nat \ {0} /\ l \in Nat /\ Len(f) \in Nat /\ m + l <= Len(f) + 1
      BY <1>0
    <3> QED
      BY <3>1
  <2> DEFINE x == m + l - 1
  <2> HIDE DEF x
  <2>2. x \in Nat /\ x <= Len(f) /\ m <= x + 1 /\ x + 1 - m = l
    BY <2>1 DEF x
  <2>3. /\ Part(f, m, x) \in Seq(S) /\ Len(Part(f, m, x)) = x + 1 - m
        /\ \A k \in 1 .. x + 1 - m : Part(f, m, x)[k] = f[m + k - 1]
    BY <1>0, <2>2, PartIs DEF IsPart
  <2> QED
    BY <2>2, <2>3 DEF x
<1>2. v \in Seq(S) /\ Len(v) = l /\ \A k \in 1 .. l : v[k] = g[a + k - 1]
  <2>1. a + l - 1 \in Nat /\ a + l - 1 <= Len(g) /\ a <= a + l - 1 + 1 /\ a + l - 1 + 1 - a = l
    <3>1. a \in Nat \ {0} /\ l \in Nat /\ Len(g) \in Nat /\ a + l <= Len(g) + 1
      BY <1>0
    <3> QED
      BY <3>1
  <2> DEFINE x == a + l - 1
  <2> HIDE DEF x
  <2>2. x \in Nat /\ x <= Len(g) /\ a <= x + 1 /\ x + 1 - a = l
    BY <2>1 DEF x
  <2>3. /\ Part(g, a, x) \in Seq(S) /\ Len(Part(g, a, x)) = x + 1 - a
        /\ \A k \in 1 .. x + 1 - a : Part(g, a, x)[k] = g[a + k - 1]
    BY <1>0, <2>2, PartIs DEF IsPart
  <2> QED
    BY <2>2, <2>3 DEF x
<1>3. ASSUME NEW k \in 1 .. l PROVE f[m + k - 1] = g[a + k - 1]
  <2>1. k - 1 \in 0 .. l - 1 /\ m + (k - 1) = m + k - 1 /\ a + (k - 1) = a + k - 1
    <3>1. m \in Nat /\ a \in Nat /\ l \in Nat
      BY <1>0
    <3> QED
      BY <3>1
  <2> QED
    BY <1>0, <2>1
<1> HIDE DEF u, v
<1>4. \A k \in 1 .. l : u[k] = v[k]
  BY <1>1, <1>2, <1>3
<1>5. u = v
  BY <1>1, <1>2, <1>4
<1> QED
  BY <1>5 DEF u, v

LEMMA ItemsAre ==
  ASSUME NEW item \in Items
  PROVE  /\ item \in Seq(Words) /\ Len(item) \in Nat \ {0}
<1>1. item \in Seq(ItemWords) /\ item # <<>>
  BY FileStoreAssumption
<1>2. ItemWords \subseteq Words
  BY DEF Words
<1> HIDE DEF Words
<1>3. item \in Seq(Words)
  BY <1>1, <1>2
<1>4. Len(item) # 0
  BY <1>1, EmptySeq
<1> QED
  BY <1>3, <1>4

\* The record of an item.
LEMMA RecordIs ==
  ASSUME NEW item \in Items
  PROVE  /\ WriteItemToFile(item) \in Seq(Words)
         /\ Len(WriteItemToFile(item)) = Len(item) + EMPTY_RECORD_SIZE
         /\ RecordSize(item) = Len(item) + EMPTY_RECORD_SIZE
         /\ WriteItemToFile(item)[1] = HEAD
         /\ WriteItemToFile(item)[Len(item) + EMPTY_RECORD_SIZE] = TRAIL
         /\ \A k \in 1 .. Len(item) : WriteItemToFile(item)[1 + k] = item[k]
<1> DEFINE h == <<HEAD>>
           t == <<TRAIL>>
           w == h \o item \o t
<1>1. h \in Seq(Words) /\ t \in Seq(Words) /\ Len(h) = 1 /\ Len(t) = 1 /\ h[1] = HEAD /\ t[1] = TRAIL
  <2>1. HEAD \in Words /\ TRAIL \in Words
    BY DEF Words
  <2> QED
    BY <2>1
<1>2. item \in Seq(Words) /\ Len(item) \in Nat
  BY ItemsAre
<1>3. WriteItemToFile(item) = w
  BY DEF WriteItemToFile
<1> HIDE DEF h, t
<1>4. /\ w \in Seq(Words) /\ Len(w) = Len(h) + Len(item) + Len(t)
      /\ \A k \in 1 .. Len(h) : w[k] = h[k]
      /\ \A k \in 1 .. Len(item) : w[Len(h) + k] = item[k]
      /\ \A k \in 1 .. Len(t) : w[Len(h) + Len(item) + k] = t[k]
  <2> DEFINE S == Words
  <2>1. h \in Seq(S) /\ item \in Seq(S) /\ t \in Seq(S)
    BY <1>1, <1>2
  <2> HIDE DEF S
  <2>2. w \in Seq(S) /\ Len(w) = Len(h) + Len(item) + Len(t)
    BY <2>1, ThreeParts
  <2>3. \A k \in 1 .. Len(h) : w[k] = h[k]
    BY <2>1, ThreeParts
  <2>4. \A k \in 1 .. Len(item) : w[Len(h) + k] = item[k]
    BY <2>1, ThreeParts
  <2>5. \A k \in 1 .. Len(t) : w[Len(h) + Len(item) + k] = t[k]
    BY <2>1, ThreeParts
  <2> QED
    BY <2>2, <2>3, <2>4, <2>5 DEF S
<1> HIDE DEF w
<1>5. Len(w) = Len(item) + 2 /\ w[1] = HEAD /\ w[1 + Len(item) + 1] = TRAIL
  BY <1>1, <1>2, <1>4
<1>6. 1 + Len(item) + 1 = Len(item) + 2
  BY <1>2
<1> QED
  BY <1>1, <1>3, <1>4, <1>5, <1>6 DEF RecordSize, EMPTY_RECORD_SIZE

\* In g the record of an item is where f has s words behind the word o.
IsSplice(g, f, o, s, item) ==
  LET n == RecordSize(item)
  IN  /\ g \in Seq(Words) /\ Len(g) = Len(f) - s + n
      /\ \A k \in 1 .. o : g[k] = f[k]
      /\ \A k \in 1 .. n : g[o + k] = WriteItemToFile(item)[k]
      /\ \A k \in 1 .. Len(f) - o - s : g[o + n + k] = f[o + s + k]

LEMMA BehindIs ==
  ASSUME NEW l \in Nat, NEW o \in Nat, NEW s \in Nat
  PROVE  l + 1 - (o + s + 1) = l - o - s
  OBVIOUS

LEMMA WordBehind ==
  ASSUME NEW k \in Nat, NEW o \in Nat, NEW s \in Nat
  PROVE  (o + s + 1) + k - 1 = o + s + k
  OBVIOUS

LEMMA SpliceIs ==
  ASSUME NEW f \in Seq(Words), NEW id \in Ids, NEW item \in Items, f[CapacityAt] = Capacity,
         NEW o \in Nat, NEW s \in Nat,
         o = f[OffsetAt(id % Capacity)], s = f[SizeAt(id % Capacity)], o + s <= Len(f)
  PROVE  IsSplice(WriteItemToExistingFile(f, id, item), f, o, s, item)
<1> DEFINE a == Part(f, 1, o)
           b == WriteItemToFile(item)
           c == Part(f, o + s + 1, Len(f))
           n == RecordSize(item)
           g == a \o b \o c
<1>1. WriteItemToExistingFile(f, id, item) = g
  <2>1. ItemOffset(f, id) = o /\ ItemSize(f, id) = s
    BY DEF ItemOffset, ItemSize, Position
  <2>2. 0 + 1 = 1
    OBVIOUS
  <2> QED
    BY <2>1, <2>2 DEF WriteItemToExistingFile, CopyFileContents, Part
<1>2. a \in Seq(Words) /\ Len(a) = o /\ \A k \in 1 .. o : a[k] = f[k]
  <2>1. /\ a \in Seq(Words) /\ Len(a) = o + 1 - 1
        /\ \A k \in 1 .. o + 1 - 1 : a[k] = f[1 + k - 1]
    <3>1. 1 \in Nat \ {0} /\ o <= Len(f) /\ 1 <= o + 1
      OBVIOUS
    <3> QED
      <4>1. IsPart(Part(f, 1, o), Words, f, 1, o)
        BY <3>1, PartIs
      <4> QED
        BY <4>1 DEF IsPart
  <2> HIDE DEF a
  <2>2. o + 1 - 1 = o /\ \A k \in 1 .. o : 1 + k - 1 = k
    OBVIOUS
  <2> QED
    BY <2>1, <2>2
<1>3. /\ c \in Seq(Words) /\ Len(c) = Len(f) - o - s
      /\ \A k \in 1 .. Len(f) - o - s : c[k] = f[o + s + k]
  <2> DEFINE m == o + s + 1
             d == Part(f, m, Len(f))
  <2> HIDE DEF m, d
  <2>1. /\ d \in Seq(Words) /\ Len(d) = Len(f) + 1 - m
        /\ \A k \in 1 .. Len(f) + 1 - m : d[k] = f[m + k - 1]
    <3>1. m \in Nat \ {0} /\ Len(f) \in Nat /\ Len(f) <= Len(f) /\ m <= Len(f) + 1
      BY DEF m
    <3> QED
      <4>1. IsPart(d, Words, f, m, Len(f))
        BY <3>1, PartIs DEF d
      <4> QED
        BY <4>1 DEF IsPart
  <2>2. c = d
    BY DEF d, m
  <2> HIDE DEF c
  <2>3. Len(f) + 1 - m = Len(f) - o - s /\ \A k \in Nat : m + k - 1 = o + s + k
    <3>1. \A l \in Nat : l + 1 - (o + s + 1) = l - o - s
      BY BehindIs
    <3>2. \A k \in Nat : (o + s + 1) + k - 1 = o + s + k
      <4> SUFFICES ASSUME NEW k \in Nat PROVE (o + s + 1) + k - 1 = o + s + k
        OBVIOUS
      <4> QED
        BY WordBehind
    <3>3. m = o + s + 1 /\ Len(f) \in Nat
      BY DEF m
    <3> QED
      BY <3>1, <3>2, <3>3
  <2>4. ASSUME NEW k \in 1 .. Len(f) - o - s PROVE d[k] = f[o + s + k]
    <3>1. m + k - 1 = o + s + k
      BY <2>3
    <3>2. k \in 1 .. Len(f) + 1 - m
      BY <2>3
    <3> QED
      BY <2>1, <3>1, <3>2
  <2> QED
    BY <2>1, <2>2, <2>3, <2>4
<1>4. b \in Seq(Words) /\ Len(b) = n /\ n \in Nat
  BY RecordIs, ItemsAre DEF EMPTY_RECORD_SIZE
<1> HIDE DEF a, c, n, b
<1>5. /\ g \in Seq(Words) /\ Len(g) = Len(a) + Len(b) + Len(c)
      /\ \A k \in 1 .. Len(a) : g[k] = a[k]
      /\ \A k \in 1 .. Len(b) : g[Len(a) + k] = b[k]
      /\ \A k \in 1 .. Len(c) : g[Len(a) + Len(b) + k] = c[k]
  <2> DEFINE S == Words
  <2>1. a \in Seq(S) /\ b \in Seq(S) /\ c \in Seq(S)
    BY <1>2, <1>3, <1>4
  <2> HIDE DEF S
  <2>2. g \in Seq(S) /\ Len(g) = Len(a) + Len(b) + Len(c)
    BY <2>1, ThreeParts
  <2>3. \A k \in 1 .. Len(a) : g[k] = a[k]
    BY <2>1, ThreeParts
  <2>4. \A k \in 1 .. Len(b) : g[Len(a) + k] = b[k]
    BY <2>1, ThreeParts
  <2>5. \A k \in 1 .. Len(c) : g[Len(a) + Len(b) + k] = c[k]
    BY <2>1, ThreeParts
  <2> QED
    BY <2>2, <2>3, <2>4, <2>5 DEF S
<1> HIDE DEF g
<1>6. Len(g) = Len(f) - s + n
  <2>1. Len(g) = o + n + (Len(f) - o - s)
    BY <1>2, <1>3, <1>4, <1>5
  <2>2. Len(f) \in Nat
    OBVIOUS
  <2> QED
    BY <1>4, <2>1, <2>2
<1>7. /\ \A k \in 1 .. o : g[k] = f[k]
      /\ \A k \in 1 .. n : g[o + k] = b[k]
      /\ \A k \in 1 .. Len(f) - o - s : g[o + n + k] = f[o + s + k]
  <2>1. \A k \in 1 .. o : g[k] = f[k]
    BY <1>2, <1>5
  <2>2. \A k \in 1 .. n : g[o + k] = b[k]
    BY <1>2, <1>4, <1>5
  <2>3. \A k \in 1 .. Len(c) : g[o + n + k] = c[k]
    BY <1>2, <1>4, <1>5
  <2>4. ASSUME NEW k \in 1 .. Len(f) - o - s PROVE g[o + n + k] = f[o + s + k]
    <3>1. k \in 1 .. Len(c) /\ c[k] = f[o + s + k]
      BY <1>3
    <3> QED
      BY <2>3, <3>1
  <2> QED
    BY <2>1, <2>2, <2>4
<1> QED
  BY <1>1, <1>5, <1>6, <1>7 DEF n, b, IsSplice

\* What a save makes of a file: NewContents, for any file.
Replacement(f, id, item) ==
  LET temp == WriteItemToExistingFile(f, id, item)
  IN Overwrite(temp, UpdateFileTable(temp, id, RecordSize(item)))

LongestRecord(longest) == longest + EMPTY_RECORD_SIZE

LEMMA PositionIs ==
  ASSUME NEW id \in Ids
  PROVE  id % Capacity \in Positions
<1>1. id \in Nat /\ Capacity \in Nat \ {0}
  BY FileStoreAssumption, TableGeometry
<1> QED
  BY <1>1 DEF Positions

\* The table of a file is the table of the spliced file, and its entries can move.
LEMMA SplicedFits ==
  ASSUME NEW longest \in Nat, FitsOffsets(longest), NEW f, Layout(f, LongestRecord(longest)),
         NEW id \in Ids, NEW item \in Items
  PROVE  LET temp == WriteItemToExistingFile(f, id, item)
         IN  /\ \A k \in 1 .. TableSize(Capacity) : temp[k] = f[k]
             /\ CanUpdate(temp, id % Capacity, RecordSize(item))
<1> DEFINE p == id % Capacity
           r == LongestRecord(longest)
           o == f[OffsetAt(p)]
           s == f[SizeAt(p)]
           n == RecordSize(item)
           t == TableSize(Capacity)
           temp == WriteItemToExistingFile(f, id, item)
<1>1. p \in Positions /\ p \in Nat
  BY PositionIs DEF Positions
<1> HIDE DEF p
<1>2. r \in Nat
  BY DEF LongestRecord, EMPTY_RECORD_SIZE
<1>3. n \in 3 .. r /\ n = Len(item) + 2
  <2>1. Len(item) <= longest /\ Len(item) \in Nat \ {0} /\ n = Len(item) + 2
    BY ItemsAre, RecordIs DEF FitsOffsets, EMPTY_RECORD_SIZE
  <2> QED
    BY <2>1 DEF LongestRecord, EMPTY_RECORD_SIZE
<1> HIDE DEF r, n
<1>4. /\ f \in Seq(Words) /\ Len(f) \in Nat /\ Len(f) >= t /\ f[CapacityAt] = Capacity
      /\ f[NumItemsAt] = Cardinality({q \in Positions : f[SizeAt(q)] > EMPTY_RECORD_SIZE})
      /\ \A q \in Positions : /\ f[OffsetAt(q)] \in Nat /\ f[SizeAt(q)] \in 2 .. r
                              /\ t <= f[OffsetAt(q)] /\ f[OffsetAt(q)] <= t + q * r
                              /\ f[OffsetAt(q)] + f[SizeAt(q)] <= Len(f)
      /\ \A x, y \in Positions : x < y => f[OffsetAt(x)] + f[SizeAt(x)] <= f[OffsetAt(y)]
  <2>1. Layout(f, r) /\ r \in Nat
    BY <1>2 DEF r
  <2>2. /\ f \in Seq(Words) /\ Len(f) \in Nat /\ Len(f) >= t /\ f[CapacityAt] = Capacity
        /\ f[NumItemsAt] = Cardinality({q \in Positions : f[SizeAt(q)] > EMPTY_RECORD_SIZE})
        /\ \A q \in Positions : f[OffsetAt(q)] \in Nat /\ f[SizeAt(q)] \in 2 .. r
    BY <2>1, LayoutIs DEF Layout, EMPTY_RECORD_SIZE
  <2>3. /\ \A q \in Positions : /\ t <= f[OffsetAt(q)] /\ f[OffsetAt(q)] <= t + q * r
                                /\ f[OffsetAt(q)] + f[SizeAt(q)] <= Len(f)
        /\ \A x, y \in Positions : x < y => f[OffsetAt(x)] + f[SizeAt(x)] <= f[OffsetAt(y)]
    BY <2>1, LayoutStacked
  <2> QED
    BY <2>2, <2>3
<1>5. o \in Nat /\ s \in 2 .. r /\ t <= o /\ o + s <= Len(f) /\ t \in Nat /\ t >= 3
  BY <1>1, <1>4, TableGeometry
<1>6. /\ temp \in Seq(Words) /\ Len(temp) = Len(f) - s + n
      /\ \A k \in 1 .. o : temp[k] = f[k]
  <2>1. /\ f \in Seq(Words) /\ f[CapacityAt] = Capacity
        /\ o \in Nat /\ s \in Nat /\ o + s <= Len(f)
        /\ o = f[OffsetAt(id % Capacity)] /\ s = f[SizeAt(id % Capacity)]
    BY <1>4, <1>5 DEF p
  <2> HIDE DEF o, s, temp
  <2>2. IsSplice(temp, f, o, s, item)
    BY <2>1, SpliceIs DEF temp
  <2> QED
    BY <2>2 DEF IsSplice, n
<1> HIDE DEF temp
<1>7. \A k \in 1 .. t : temp[k] = f[k]
  BY <1>5, <1>6
<1>8. /\ temp[CapacityAt] = Capacity /\ temp[NumItemsAt] = f[NumItemsAt]
      /\ \A q \in Positions : temp[OffsetAt(q)] = f[OffsetAt(q)] /\ temp[SizeAt(q)] = f[SizeAt(q)]
  <2>1. CapacityAt \in 1 .. t /\ NumItemsAt \in 1 .. t
    BY <1>5, TableGeometry
  <2>2. \A q \in Positions : OffsetAt(q) \in 1 .. t /\ SizeAt(q) \in 1 .. t
    BY <1>5, TableGeometry DEF Positions
  <2> QED
    BY <1>4, <1>7, <2>1, <2>2
<1>9. Len(temp) >= t
  BY <1>3, <1>4, <1>5, <1>6
<1>10. t + Capacity * r < OffsetLimit /\ Capacity \in Nat \ {0} /\ OffsetLimit \in Nat \ {0}
  BY TableGeometry DEF FitsOffsets, r, LongestRecord
<1>11. r < OffsetLimit /\ Capacity + 3 < OffsetLimit
  <2>1. PICK x \in Nat : x = Capacity * r /\ x >= r
    BY <1>2, <1>10
  <2>2. t = 3 + 2 * Capacity
    BY TableGeometry
  <2> QED
    BY <1>2, <1>10, <2>1, <2>2
<1>12. f[NumItemsAt] \in Nat /\ f[NumItemsAt] <= Capacity
  <2> DEFINE S == {q \in Positions : f[SizeAt(q)] > EMPTY_RECORD_SIZE}
  <2>1. IsFiniteSet(Positions) /\ Cardinality(Positions) = Capacity
    <3>1. 0 \in Int /\ Capacity - 1 \in Int /\ ~ (0 > Capacity - 1) /\ Capacity - 1 - 0 + 1 = Capacity
      BY <1>10
    <3> QED
      BY <3>1, FS_Interval DEF Positions
  <2>2. S \in SUBSET Positions
    OBVIOUS
  <2> HIDE DEF S
  <2>3. IsFiniteSet(S) /\ Cardinality(S) <= Cardinality(Positions)
    BY <2>1, <2>2, FS_Subset
  <2>4. Cardinality(S) \in Nat
    BY <2>3, FS_CardinalityType
  <2> QED
    BY <1>4, <2>1, <2>3, <2>4 DEF S
<1>13. ASSUME NEW q \in p + 1 .. Capacity - 1
       PROVE  temp[OffsetAt(q)] \in Nat /\ temp[OffsetAt(q)] + n - s \in 0 .. OffsetLimit - 1
  <2>1. q \in Positions /\ p < q /\ q \in Nat /\ q + 1 <= Capacity
    BY <1>1, <1>10, <1>13 DEF Positions
  <2>2. PICK x \in Nat : x = f[OffsetAt(q)] /\ o + s <= x /\ x <= t + q * r
    BY <1>1, <1>4, <2>1
  <2>3. PICK y \in Nat : y = q * r /\ y + r <= Capacity * r
    <3>1. q * r \in Nat /\ Capacity * r \in Nat
      BY <1>2, <1>10, <2>1
    <3>2. q * r + r = (q + 1) * r /\ (q + 1) * r <= Capacity * r
      BY <1>2, <1>10, <2>1
    <3> QED
      BY <3>1, <3>2
  <2>4. x + n - s \in 0 .. OffsetLimit - 1
    <3>1. PICK z \in Nat : z = Capacity * r /\ t + z < OffsetLimit /\ y + r <= z
      <4>1. Capacity * r \in Nat
        BY <1>2, <1>10
      <4> HIDE DEF t
      <4> QED
        BY <1>10, <2>3, <4>1
    <3> QED
      <4> HIDE DEF o, s, t
      <4>1. x + n - s <= t + z /\ x + n - s >= 0 /\ t + z < OffsetLimit
        <5>1. x <= t + y /\ o + s <= x
          BY <2>2, <2>3
        <5>2. n <= r /\ n \in Nat /\ o \in Nat /\ s \in Nat /\ t \in Nat /\ r \in Nat
          BY <1>2, <1>3, <1>5
        <5>3. y + r <= z /\ t + z < OffsetLimit
          BY <3>1
        <5> QED
          BY <5>1, <5>2, <5>3
      <4>2. n \in Nat /\ s \in Nat /\ t \in Nat
        BY <1>3, <1>5
      <4>3. OffsetLimit \in Nat
        BY <1>10
      <4> QED
        BY <4>1, <4>2, <4>3
  <2> QED
    BY <1>8, <2>1, <2>2, <2>4
<1>14. CanUpdate(temp, p, n)
  <2>1. n \in 0 .. OffsetLimit - 1
    BY <1>2, <1>3, <1>10, <1>11
  <2>2. /\ temp[SizeAt(p)] = s /\ s \in Nat
        /\ temp[NumItemsAt] \in Nat /\ temp[NumItemsAt] + 1 < OffsetLimit
    <3>1. temp[SizeAt(p)] = s /\ s \in Nat
      BY <1>1, <1>5, <1>8
    <3>2. temp[NumItemsAt] \in Nat /\ temp[NumItemsAt] <= Capacity
      BY <1>8, <1>12
    <3>3. Capacity \in Nat /\ OffsetLimit \in Nat
      BY <1>10
    <3> QED
      BY <1>11, <3>1, <3>2, <3>3
  <2> QED
    BY <1>1, <1>6, <1>8, <1>9, <1>13, <2>1, <2>2 DEF CanUpdate
<1> QED
  BY <1>7, <1>14 DEF temp, p, n

\* The file g after a save of an item at the position p of the file f, word by word.
IsReplaced(g, f, p, item) ==
  LET o == f[OffsetAt(p)]
      s == f[SizeAt(p)]
      n == RecordSize(item)
  IN  /\ g \in Seq(Words) /\ Len(g) = Len(f) - s + n
      /\ g[1] = f[1] /\ g[CapacityAt] = f[CapacityAt]
      /\ g[NumItemsAt] = f[NumItemsAt] + (IF s = EMPTY_RECORD_SIZE THEN 1 ELSE 0)
      /\ \A q \in Positions : g[SizeAt(q)] = IF q = p THEN n ELSE f[SizeAt(q)]
      /\ \A q \in Positions :
           g[OffsetAt(q)] = IF q > p THEN f[OffsetAt(q)] + n - s ELSE f[OffsetAt(q)]
      /\ \A k \in TableSize(Capacity) + 1 .. o : g[k] = f[k]
      /\ \A k \in 1 .. n : g[o + k] = WriteItemToFile(item)[k]
      /\ \A k \in 1 .. Len(f) - o - s : g[o + n + k] = f[o + s + k]

LEMMA ReplacedIs ==
  ASSUME NEW longest \in Nat, FitsOffsets(longest), NEW f, Layout(f, LongestRecord(longest)),
         NEW id \in Ids, NEW item \in Items
  PROVE  /\ UpdateFileTable(WriteItemToExistingFile(f, id, item), id, RecordSize(item))
              \in Seq(Nat \X Words)
         /\ IsReplaced(Replacement(f, id, item), f, id % Capacity, item)
<1> DEFINE p == id % Capacity
           r == LongestRecord(longest)
           o == f[OffsetAt(p)]
           s == f[SizeAt(p)]
           n == RecordSize(item)
           t == TableSize(Capacity)
           temp == WriteItemToExistingFile(f, id, item)
           g == Replacement(f, id, item)
<1>1. p \in Positions /\ p \in Nat /\ Capacity \in Nat
  BY PositionIs, TableGeometry DEF Positions
<1> HIDE DEF p
<1>2. r \in Nat
  BY DEF LongestRecord, EMPTY_RECORD_SIZE
<1> HIDE DEF r
<1>3. /\ f \in Seq(Words) /\ Len(f) \in Nat /\ Len(f) >= t /\ f[CapacityAt] = Capacity
      /\ \A q \in Positions : f[OffsetAt(q)] \in Nat /\ f[SizeAt(q)] \in Nat
      /\ o \in Nat /\ s \in Nat /\ s >= 2 /\ t <= o /\ o + s <= Len(f)
  <2>1. Layout(f, r)
    BY DEF r
  <2>2. /\ f \in Seq(Words) /\ Len(f) \in Nat /\ Len(f) >= t /\ f[CapacityAt] = Capacity
        /\ \A q \in Positions : f[OffsetAt(q)] \in Nat /\ f[SizeAt(q)] \in 2 .. r
    BY <1>2, <2>1, LayoutIs DEF Layout, EMPTY_RECORD_SIZE
  <2>3. t <= o /\ o + s <= Len(f)
    BY <1>1, <1>2, <2>1, LayoutStacked
  <2> QED
    BY <1>1, <1>2, <2>2, <2>3
<1>4. n \in Nat /\ n >= 3
  BY ItemsAre, RecordIs DEF EMPTY_RECORD_SIZE
<1>5. /\ temp \in Seq(Words) /\ Len(temp) = Len(f) - s + n
      /\ \A k \in 1 .. o : temp[k] = f[k]
      /\ \A k \in 1 .. n : temp[o + k] = WriteItemToFile(item)[k]
      /\ \A k \in 1 .. Len(f) - o - s : temp[o + n + k] = f[o + s + k]
  <2>1. /\ f \in Seq(Words) /\ f[CapacityAt] = Capacity
        /\ o \in Nat /\ s \in Nat /\ o + s <= Len(f)
        /\ o = f[OffsetAt(id % Capacity)] /\ s = f[SizeAt(id % Capacity)]
    BY <1>3 DEF p
  <2> HIDE DEF o, s, temp
  <2>2. IsSplice(temp, f, o, s, item)
    BY <2>1, SpliceIs DEF temp
  <2> QED
    BY <2>2 DEF IsSplice
<1>6. (\A k \in 1 .. t : temp[k] = f[k]) /\ CanUpdate(temp, p, n)
  BY SplicedFits DEF p
<1>7. g = Overwrite(temp, UpdateFileTable(temp, id, n))
  BY DEF Replacement
<1> HIDE DEF temp, n, g
<1>8. /\ t \in Nat /\ t >= 3 /\ 1 \in 1 .. t /\ CapacityAt \in 1 .. t /\ NumItemsAt \in 1 .. t
      /\ \A q \in Positions : OffsetAt(q) \in 1 .. t /\ SizeAt(q) \in 1 .. t
  <2>1. t \in Nat /\ t >= 3
    BY <1>1, TableGeometry
  <2> QED
    BY <2>1, TableGeometry DEF Positions
<1>9. /\ temp[1] = f[1] /\ temp[CapacityAt] = f[CapacityAt] /\ temp[NumItemsAt] = f[NumItemsAt]
      /\ \A q \in Positions : temp[OffsetAt(q)] = f[OffsetAt(q)] /\ temp[SizeAt(q)] = f[SizeAt(q)]
  BY <1>6, <1>8
<1>10. /\ UpdateFileTable(temp, id, n) \in Seq(Nat \X Words)
       /\ g \in Seq(Words) /\ Len(g) = Len(temp) /\ g[SizeAt(p)] = n
       /\ g[NumItemsAt] = temp[NumItemsAt]
             + (IF temp[SizeAt(p)] = EMPTY_RECORD_SIZE /\ n # temp[SizeAt(p)] THEN 1 ELSE 0)
       /\ \A q \in p + 1 .. Capacity - 1 : g[OffsetAt(q)] = temp[OffsetAt(q)] + n - temp[SizeAt(p)]
       /\ \A k \in 1 .. Len(temp) :
            k # SizeAt(p) /\ k # NumItemsAt /\ (\A q \in p + 1 .. Capacity - 1 : k # OffsetAt(q))
              => g[k] = temp[k]
  BY <1>6, <1>7, UpdatedIs DEF p
<1>11. \A k \in t + 1 .. Len(temp) : g[k] = temp[k]
  <2>1. \A q \in p + 1 .. Capacity - 1 : q \in Positions
    BY <1>1 DEF Positions
  <2>2. \A k \in t + 1 .. Len(temp) : /\ k # SizeAt(p) /\ k # NumItemsAt /\ k \in 1 .. Len(temp)
                                      /\ \A q \in Positions : k # OffsetAt(q)
    BY <1>1, <1>8
  <2> QED
    BY <1>10, <2>1, <2>2
<1>12. Len(temp) >= o + n /\ t <= Len(temp) /\ Len(temp) \in Nat
  <2> HIDE DEF o, s, t
  <2> QED
    BY <1>3, <1>4, <1>5, <1>8
<1>13. g[1] = f[1] /\ g[CapacityAt] = f[CapacityAt]
  <2>1. \A q \in Positions : OffsetAt(q) > 3 /\ SizeAt(q) > 3
    BY TableGeometry DEF Positions
  <2>2. \A q \in p + 1 .. Capacity - 1 : q \in Positions
    BY <1>1 DEF Positions
  <2>3. \A k \in {1, CapacityAt} : /\ k # SizeAt(p) /\ k # NumItemsAt /\ k \in 1 .. Len(temp)
                                   /\ \A q \in p + 1 .. Capacity - 1 : k # OffsetAt(q)
    <3>1. \A k \in {1, CapacityAt} : k < 3 /\ k \in 1 .. t
      BY <1>8, TableGeometry
    <3>2. NumItemsAt = 3 /\ 1 .. t \subseteq 1 .. Len(temp)
      BY <1>8, <1>12, TableGeometry
    <3>3. ASSUME NEW k \in {1, CapacityAt}
          PROVE  k # SizeAt(p) /\ k # NumItemsAt /\ k \in 1 .. Len(temp)
      BY <1>1, <2>1, <3>1, <3>2
    <3>4. ASSUME NEW k \in {1, CapacityAt}, NEW q \in p + 1 .. Capacity - 1
          PROVE  k # OffsetAt(q)
      BY <2>1, <2>2, <3>1
    <3> QED
      BY <3>3, <3>4
  <2> QED
    BY <1>9, <1>10, <2>3
<1>14. g[NumItemsAt] = f[NumItemsAt] + (IF s = EMPTY_RECORD_SIZE THEN 1 ELSE 0)
  <2>1. s = EMPTY_RECORD_SIZE => n # s
    BY <1>4 DEF EMPTY_RECORD_SIZE
  <2>2. temp[SizeAt(p)] = s
    BY <1>1, <1>9
  <2> QED
    BY <1>9, <1>10, <2>1, <2>2
<1>15. ASSUME NEW q \in Positions PROVE g[SizeAt(q)] = IF q = p THEN n ELSE f[SizeAt(q)]
  <2>1. CASE q = p
    BY <1>10, <2>1
  <2>2. CASE q # p
    <3>1. SizeAt(q) # SizeAt(p) /\ SizeAt(q) # NumItemsAt
      BY <1>1, <2>2, TableGeometry DEF Positions
    <3>2. \A x \in p + 1 .. Capacity - 1 : SizeAt(q) # OffsetAt(x)
      BY <1>1, TableGeometry DEF Positions
    <3>3. SizeAt(q) \in 1 .. Len(temp)
      BY <1>8, <1>12
    <3> QED
      BY <1>9, <1>10, <2>2, <3>1, <3>2, <3>3
  <2> QED
    BY <2>1, <2>2
<1>16. ASSUME NEW q \in Positions
       PROVE  g[OffsetAt(q)] = IF q > p THEN f[OffsetAt(q)] + n - s ELSE f[OffsetAt(q)]
  <2>1. CASE q > p
    <3>1. q \in p + 1 .. Capacity - 1
      BY <1>1, <2>1 DEF Positions
    <3>2. temp[OffsetAt(q)] = f[OffsetAt(q)] /\ temp[SizeAt(p)] = s
      BY <1>1, <1>9
    <3> QED
      BY <1>10, <2>1, <3>1, <3>2
  <2>2. CASE ~ (q > p)
    <3>1. OffsetAt(q) # SizeAt(p) /\ OffsetAt(q) # NumItemsAt
      BY <1>1, TableGeometry DEF Positions
    <3>2. \A x \in p + 1 .. Capacity - 1 : OffsetAt(q) # OffsetAt(x)
      BY <1>1, <2>2 DEF Positions, OffsetAt
    <3>3. OffsetAt(q) \in 1 .. Len(temp)
      BY <1>8, <1>12
    <3> QED
      BY <1>9, <1>10, <2>2, <3>1, <3>2, <3>3
  <2> QED
    BY <2>1, <2>2
<1>17. \A k \in t + 1 .. o : g[k] = f[k]
  <2>1. \A k \in t + 1 .. o : k \in t + 1 .. Len(temp) /\ k \in 1 .. o
    BY <1>3, <1>4, <1>8, <1>12
  <2> QED
    BY <1>5, <1>11, <2>1
<1>18. \A k \in 1 .. n : g[o + k] = WriteItemToFile(item)[k]
  <2>1. t <= o /\ o + n <= Len(temp)
    BY <1>3, <1>12
  <2>2. o \in Nat /\ n \in Nat /\ t \in Nat /\ Len(temp) \in Nat
    BY <1>3, <1>4, <1>8, <1>12
  <2> HIDE DEF o, n, t
  <2>3. \A k \in 1 .. n : o + k \in t + 1 .. Len(temp)
    BY <2>1, <2>2
  <2> QED
    BY <1>5, <1>11, <2>3
<1>19. \A k \in 1 .. Len(f) - o - s : g[o + n + k] = f[o + s + k]
  <2>1. \A k \in 1 .. Len(f) - o - s : o + n + k \in t + 1 .. Len(temp)
    <3> HIDE DEF o, s, t
    <3> QED
      BY <1>3, <1>4, <1>5, <1>8
  <2> QED
    BY <1>5, <1>11, <2>1
<1>20. Len(g) = Len(f) - s + n
  BY <1>5, <1>10
<1>21. IsReplaced(g, f, p, item)
  BY <1>10, <1>13, <1>14, <1>15, <1>16, <1>17, <1>18, <1>19, <1>20 DEF IsReplaced, n
<1> QED
  BY <1>10, <1>21 DEF g, temp, p, n

\* The file is complete afterwards, and its table describes it.
LEMMA ReplacedLayout ==
  ASSUME NEW longest \in Nat, FitsOffsets(longest), NEW f, Layout(f, LongestRecord(longest)),
         NEW p \in Positions, NEW item \in Items, NEW g, IsReplaced(g, f, p, item)
  PROVE  Layout(g, LongestRecord(longest))
<1> DEFINE r == LongestRecord(longest)
           o == f[OffsetAt(p)]
           s == f[SizeAt(p)]
           n == RecordSize(item)
           t == TableSize(Capacity)
<1>1. p \in Nat /\ Capacity \in Nat \ {0, 1} /\ Positions \subseteq Nat
      /\ 0 \in Positions /\ Capacity - 1 \in Positions
  BY TableGeometry DEF Positions
<1>2. r \in Nat /\ n \in Nat /\ 3 <= n /\ n <= r /\ n = Len(item) + 2
  <2>1. Len(item) <= longest /\ Len(item) \in Nat \ {0} /\ n = Len(item) + 2
    BY ItemsAre, RecordIs DEF FitsOffsets, EMPTY_RECORD_SIZE
  <2> QED
    BY <2>1 DEF LongestRecord, EMPTY_RECORD_SIZE
<1>3. Layout(f, r)
  OBVIOUS
<1> HIDE DEF r
<1>4. /\ f \in Seq(Words) /\ Len(f) \in Nat /\ Len(f) >= t /\ f[CapacityAt] = Capacity
      /\ f[1] = VERSION /\ f[OffsetAt(0)] = t
      /\ f[OffsetAt(Capacity - 1)] + f[SizeAt(Capacity - 1)] = Len(f)
  BY <1>2, <1>3, LayoutIs DEF Layout
<1>5. f[NumItemsAt] = Cardinality({q \in Positions : f[SizeAt(q)] > EMPTY_RECORD_SIZE})
  BY <1>2, <1>3, LayoutIs
<1>6. t \in Nat /\ t >= 3
  BY <1>1, TableGeometry
<1> HIDE DEF t
<1>7. ASSUME NEW q \in Positions
      PROVE  /\ f[OffsetAt(q)] \in Nat /\ f[SizeAt(q)] \in Nat
             /\ 2 <= f[SizeAt(q)] /\ f[SizeAt(q)] <= r
             /\ q # 0 => f[OffsetAt(q)] = f[OffsetAt(q - 1)] + f[SizeAt(q - 1)]
             /\ f[f[OffsetAt(q)] + 1] = HEAD /\ f[f[OffsetAt(q)] + f[SizeAt(q)]] = TRAIL
  <2>1. /\ f[OffsetAt(q)] \in Nat /\ f[SizeAt(q)] \in 2 .. r
        /\ q # 0 => f[OffsetAt(q)] = f[OffsetAt(q - 1)] + f[SizeAt(q - 1)]
        /\ f[f[OffsetAt(q)] + 1] = HEAD /\ f[f[OffsetAt(q)] + f[SizeAt(q)]] = TRAIL
    BY <1>2, <1>3, LayoutIs DEF EMPTY_RECORD_SIZE
  <2> QED
    BY <1>2, <2>1
<1>8. /\ \A q \in Positions : t <= f[OffsetAt(q)] /\ f[OffsetAt(q)] + f[SizeAt(q)] <= Len(f)
      /\ \A x, y \in Positions : x < y => f[OffsetAt(x)] + f[SizeAt(x)] <= f[OffsetAt(y)]
  BY <1>2, <1>3, LayoutStacked DEF t
<1>9. o \in Nat /\ s \in Nat /\ 2 <= s /\ s <= r /\ t <= o /\ o + s <= Len(f)
  BY <1>7, <1>8
<1>10. /\ g \in Seq(Words) /\ Len(g) = Len(f) - s + n
       /\ g[1] = VERSION /\ g[CapacityAt] = Capacity
       /\ g[NumItemsAt] = f[NumItemsAt] + (IF s = EMPTY_RECORD_SIZE THEN 1 ELSE 0)
  BY <1>4 DEF IsReplaced
<1>11. /\ \A q \in Positions : g[SizeAt(q)] = IF q = p THEN n ELSE f[SizeAt(q)]
       /\ \A q \in Positions : g[OffsetAt(q)] = IF q > p THEN f[OffsetAt(q)] + n - s ELSE f[OffsetAt(q)]
  BY DEF IsReplaced
<1>12. /\ \A k \in t + 1 .. o : g[k] = f[k]
       /\ \A k \in 1 .. n : g[o + k] = WriteItemToFile(item)[k]
       /\ \A k \in 1 .. Len(f) - o - s : g[o + n + k] = f[o + s + k]
  BY DEF IsReplaced, t
<1>13. /\ \A q \in Positions : q < p => f[OffsetAt(q)] + f[SizeAt(q)] <= o
      /\ \A q \in Positions : q > p => f[OffsetAt(q)] >= o + s
  BY <1>1, <1>8
<1> HIDE DEF n, o, s, t
<1>14. ASSUME NEW q \in Positions
      PROVE  /\ g[OffsetAt(q)] \in Nat /\ g[SizeAt(q)] \in 2 .. r
             /\ g[g[OffsetAt(q)] + 1] = HEAD
             /\ g[g[OffsetAt(q)] + g[SizeAt(q)]] = TRAIL
  <2>1. PICK x \in Nat, y \in Nat :
            /\ x = f[OffsetAt(q)] /\ y = f[SizeAt(q)] /\ 2 <= y /\ y <= r /\ t <= x /\ x + y <= Len(f)
            /\ f[x + 1] = HEAD /\ f[x + y] = TRAIL
    BY <1>7, <1>8, <1>14
  <2>2. CASE q < p
    <3>1. g[OffsetAt(q)] = x /\ g[SizeAt(q)] = y
      BY <1>1, <1>11, <2>1, <2>2
    <3>2. x + 1 \in t + 1 .. o /\ x + y \in t + 1 .. o
      <4>1. x + y <= o
        BY <1>13, <2>1, <2>2
      <4>2. t <= x /\ 2 <= y
        BY <2>1
      <4>3. t \in Nat /\ o \in Nat
        BY <1>6, <1>9
      <4> HIDE DEF o, t
      <4> QED
        BY <4>1, <4>2, <4>3
    <3>3. g[x + 1] = f[x + 1] /\ g[x + y] = f[x + y]
      BY <1>12, <3>2
    <3> QED
      BY <2>1, <3>1, <3>3
  <2>3. CASE q = p
    <3>1. g[OffsetAt(q)] = o /\ g[SizeAt(q)] = n
      BY <1>1, <1>11, <2>3 DEF o
    <3>2. g[o + 1] = HEAD /\ g[o + n] = TRAIL
      <4>1. WriteItemToFile(item)[1] = HEAD /\ WriteItemToFile(item)[n] = TRAIL
        BY <1>2, RecordIs DEF EMPTY_RECORD_SIZE
      <4>2. 1 \in 1 .. n /\ n \in 1 .. n
        BY <1>2
      <4> QED
        BY <1>12, <4>1, <4>2
    <3> QED
      BY <1>2, <1>6, <1>9, <3>1, <3>2
  <2>4. CASE q > p
    <3>1. g[OffsetAt(q)] = x + n - s /\ g[SizeAt(q)] = y
      BY <1>1, <1>11, <2>1, <2>4
    <3>2. x >= o + s
      BY <1>13, <2>1, <2>4
    <3>3. x - o - s + 1 \in 1 .. Len(f) - o - s /\ x - o - s + y \in 1 .. Len(f) - o - s
      <4>1. x + y <= Len(f) /\ 2 <= y /\ Len(f) \in Nat
        BY <1>4, <2>1
      <4>2. o \in Nat /\ s \in Nat
        BY <1>9
      <4> QED
        BY <3>2, <4>1, <4>2
    <3>4. /\ o + n + (x - o - s + 1) = x + n - s + 1 /\ o + s + (x - o - s + 1) = x + 1
          /\ o + n + (x - o - s + y) = x + n - s + y /\ o + s + (x - o - s + y) = x + y
          /\ x + n - s \in Nat
      <4> DEFINE d == x - o - s
      <4>0. o \in Nat /\ s \in Nat
        BY <1>9
      <4>1. d \in Nat
        BY <3>2, <4>0
      <4>2. x = o + s + d
        BY <4>0
      <4> HIDE DEF d
      <4>3. /\ o + n + (d + 1) = x + n - s + 1 /\ o + s + (d + 1) = x + 1
            /\ o + n + (d + y) = x + n - s + y /\ o + s + (d + y) = x + y
            /\ x + n - s \in Nat
        BY <1>2, <1>9, <4>1, <4>2
      <4> QED
        BY <4>3 DEF d
    <3>5. g[x + n - s + 1] = f[x + 1] /\ g[x + n - s + y] = f[x + y]
      BY <1>12, <3>3, <3>4
    <3> QED
      BY <2>1, <3>1, <3>4, <3>5
  <2> QED
    BY <1>1, <2>2, <2>3, <2>4
<1>15. ASSUME NEW q \in Positions \ {0}
       PROVE  g[OffsetAt(q)] = g[OffsetAt(q - 1)] + g[SizeAt(q - 1)]
  <2>1. q - 1 \in Positions /\ q \in Nat
    BY <1>1 DEF Positions
  <2>2. PICK x \in Nat, y \in Nat, z \in Nat :
            /\ x = f[OffsetAt(q)] /\ y = f[OffsetAt(q - 1)] /\ z = f[SizeAt(q - 1)]
            /\ x = y + z
    <3>1. q # 0
      OBVIOUS
    <3> QED
      BY <1>7, <2>1, <3>1
  <2>3. CASE q - 1 < p
    <3>1. ~ (q > p) /\ ~ (q - 1 > p) /\ q - 1 # p
      BY <1>1, <2>1, <2>3
    <3> QED
      BY <1>11, <2>1, <2>2, <3>1
  <2>4. CASE q - 1 = p
    <3>1. q > p /\ ~ (q - 1 > p)
      BY <1>1, <2>1, <2>4
    <3>2. z = s
      BY <2>2, <2>4 DEF s
    <3>3. g[OffsetAt(q)] = x + n - s /\ g[OffsetAt(q - 1)] = y /\ g[SizeAt(q - 1)] = n
      BY <1>11, <2>1, <2>2, <2>4, <3>1
    <3> QED
      <4>1. x = y + z /\ z = s
        BY <2>2, <3>2
      <4>2. x + n - s = y + n
        BY <1>2, <4>1
      <4> QED
        BY <3>3, <4>2
  <2>5. CASE q - 1 > p
    <3>1. q > p /\ q - 1 # p
      BY <1>1, <2>1, <2>5
    <3>2. g[OffsetAt(q)] = x + n - s /\ g[OffsetAt(q - 1)] = y + n - s /\ g[SizeAt(q - 1)] = z
      BY <1>11, <2>1, <2>2, <2>5, <3>1
    <3>3. x + n - s = y + n - s + z
      <4>1. x = y + z
        BY <2>2
      <4>2. n \in Nat /\ s \in Nat
        BY <1>2, <1>9
      <4> QED
        BY <4>1, <4>2
    <3> QED
      BY <3>2, <3>3
  <2> QED
    BY <1>1, <2>1, <2>3, <2>4, <2>5
<1>16. g[OffsetAt(0)] = t
  BY <1>1, <1>4, <1>11
<1>17. g[OffsetAt(Capacity - 1)] + g[SizeAt(Capacity - 1)] = Len(g)
  <2> DEFINE q == Capacity - 1
  <2>1. q \in Positions /\ q >= p /\ q \in Nat
    BY <1>1 DEF Positions
  <2>2. PICK x \in Nat, y \in Nat : x = f[OffsetAt(q)] /\ y = f[SizeAt(q)] /\ x + y = Len(f)
    BY <1>4, <1>7, <2>1
  <2> HIDE DEF q
  <2>3. CASE q = p
    <3>1. x = o /\ y = s /\ ~ (q > p)
      BY <1>1, <2>2, <2>3 DEF o, s
    <3>2. g[OffsetAt(q)] = x /\ g[SizeAt(q)] = n
      BY <1>11, <2>1, <2>2, <2>3, <3>1
    <3> QED
      <4>1. Len(g) = Len(f) - s + n
        BY <1>10
      <4>2. Len(f) = x + s /\ n \in Nat /\ s \in Nat
        BY <1>2, <1>9, <2>2, <3>1
      <4>3. Len(g) = x + n
        BY <4>1, <4>2
      <4> QED
        BY <3>2, <4>3 DEF q
  <2>4. CASE q # p
    <3>1. q > p
      BY <1>1, <2>1, <2>4
    <3>2. g[OffsetAt(q)] = x + n - s /\ g[SizeAt(q)] = y
      BY <1>11, <2>1, <2>2, <2>4, <3>1
    <3> QED
      <4>1. x + y = Len(f)
        BY <2>2
      <4>2. x + n - s + y = Len(f) - s + n
        BY <1>2, <1>9, <4>1
      <4> QED
        BY <1>10, <3>2, <4>2 DEF q
  <2> QED
    BY <2>3, <2>4
<1>18. g[NumItemsAt] = Cardinality({q \in Positions : g[SizeAt(q)] > EMPTY_RECORD_SIZE})
  <2> DEFINE F == {q \in Positions : f[SizeAt(q)] > EMPTY_RECORD_SIZE}
             G == {q \in Positions : g[SizeAt(q)] > EMPTY_RECORD_SIZE}
  <2>1. G = F \cup {p}
    BY <1>2, <1>11 DEF EMPTY_RECORD_SIZE
  <2>2. p \in F <=> s # EMPTY_RECORD_SIZE
    BY <1>6, <1>9 DEF EMPTY_RECORD_SIZE, s
  <2>3. IsFiniteSet(F)
    <3>1. IsFiniteSet(Positions)
      BY <1>1, FS_Interval DEF Positions
    <3>2. F \in SUBSET Positions
      OBVIOUS
    <3> HIDE DEF F
    <3> QED
      BY <3>1, <3>2, FS_Subset
  <2>4. f[NumItemsAt] = Cardinality(F)
    BY <1>5
  <2> HIDE DEF F, G
  <2>5. /\ Cardinality(F) \in Nat
        /\ Cardinality(G) = IF p \in F THEN Cardinality(F) ELSE Cardinality(F) + 1
    BY <2>1, <2>3, FS_AddElement, FS_CardinalityType
  <2> QED
    BY <1>10, <2>2, <2>4, <2>5 DEF G
<1>19. Len(g) >= t
  BY <1>2, <1>4, <1>6, <1>9, <1>10
<1>20. WellFormed(g)
  <2>1. \A q \in Positions : g[SizeAt(q)] >= 2
    BY <1>2, <1>14
  <2> QED
    BY <1>10, <1>14, <1>15, <1>16, <1>17, <1>18, <1>19, <2>1
       DEF WellFormed, Positions, RecordEnd, EMPTY_RECORD_SIZE, t
<1>21. \A q \in Positions : g[OffsetAt(q)] \in Nat /\ g[SizeAt(q)] \in Nat /\ g[SizeAt(q)] <= r
  BY <1>2, <1>14
<1> QED
  BY <1>10, <1>20, <1>21 DEF Layout, r

\* What a get of an id finds in a file.
Found(f, id) == IF CanReadItem(f, id) THEN ReadItem(f, id) ELSE MISSING

LEMMA FoundIs ==
  ASSUME NEW r \in Nat, NEW f, Layout(f, r), NEW id \in Ids
  PROVE  LET o == f[OffsetAt(id % Capacity)]
             s == f[SizeAt(id % Capacity)]
         IN  /\ CanReadItem(f, id) <=> s > EMPTY_RECORD_SIZE
             /\ ReadItem(f, id) = Part(f, o + 2, o + s - 1)
<1> DEFINE p == id % Capacity
           o == f[OffsetAt(p)]
           s == f[SizeAt(p)]
<1>1. p \in Positions
  BY PositionIs
<1>2. /\ Len(f) \in Nat /\ Len(f) >= TableSize(Capacity) /\ f[1] = VERSION /\ f[CapacityAt] = Capacity
      /\ f[o + 1] = HEAD /\ f[o + s] = TRAIL
  BY <1>1, LayoutIs
<1>3. o + s <= Len(f)
  BY <1>1, LayoutStacked
<1>4. ItemOffset(f, id) = o /\ ItemSize(f, id) = s /\ Position(f, id) = p
  BY <1>2 DEF ItemOffset, ItemSize, Position
<1> HIDE DEF p
<1>5. HasTableEntry(f, id)
  <2>1. SizeAt(p) \in Nat /\ SizeAt(p) <= TableSize(Capacity) /\ TableSize(Capacity) \in Nat
    BY <1>1, TableGeometry DEF Positions
  <2>2. TableSize(0) = 3 /\ TableSize(Capacity) >= 3
    BY TableGeometry DEF TableSize
  <2> QED
    BY <1>2, <1>4, <2>1, <2>2 DEF HasTableEntry
<1> HIDE DEF o, s
<1>6. CanReadItem(f, id) <=> s > EMPTY_RECORD_SIZE
  BY <1>2, <1>3, <1>4, <1>5 DEF CanReadItem
<1>7. ReadItem(f, id) = Part(f, o + 2, o + s - 1)
  BY <1>4 DEF ReadItem, Part
<1> QED
  BY <1>6, <1>7 DEF o, s, p

LEMMA DifferentPositions ==
  ASSUME NEW id1 \in Ids, NEW id2 \in Ids, id1 # id2
  PROVE  id1 % Capacity # id2 % Capacity
<1>1. id1 \in Nat /\ id2 \in Nat /\ Capacity \in Nat \ {0} /\ id1 \div Capacity = id2 \div Capacity
  BY FileStoreAssumption, TableGeometry
<1>2. \A x \in Nat : x = Capacity * (x \div Capacity) + (x % Capacity)
  BY <1>1
<1> QED
  BY <1>1, <1>2

\* The item of the id is found afterwards, and those of the others as before.
LEMMA ReplacedItems ==
  ASSUME NEW longest \in Nat, FitsOffsets(longest), NEW f, Layout(f, LongestRecord(longest)),
         NEW id \in Ids, NEW item \in Items, NEW g, IsReplaced(g, f, id % Capacity, item)
  PROVE  /\ Found(g, id) = item
         /\ \A other \in Ids \ {id} : Found(g, other) = Found(f, other)
<1> DEFINE r == LongestRecord(longest)
           p == id % Capacity
           o == f[OffsetAt(p)]
           s == f[SizeAt(p)]
           n == RecordSize(item)
           t == TableSize(Capacity)
<1>1. p \in Positions /\ Positions \subseteq Nat
  BY PositionIs DEF Positions
<1>p. p = id % Capacity
  OBVIOUS
<1> HIDE DEF p
<1>2. n \in Nat /\ 3 <= n /\ n = Len(item) + 2 /\ item \in Seq(Words) /\ Len(item) \in Nat
  BY ItemsAre, RecordIs DEF EMPTY_RECORD_SIZE
<1>3. Layout(f, r) /\ Layout(g, r) /\ r \in Nat
  <2>1. IsReplaced(g, f, p, item)
    BY <1>p
  <2>2. Layout(f, r) /\ Layout(g, r)
    BY <1>1, <2>1, ReplacedLayout
  <2> QED
    BY <2>2 DEF LongestRecord, EMPTY_RECORD_SIZE
<1> HIDE DEF r
<1>4. f \in Seq(Words) /\ g \in Seq(Words) /\ Len(f) \in Nat /\ Len(g) \in Nat /\ t \in Nat
  BY <1>3, TableGeometry DEF Layout
<1>5. ASSUME NEW q \in Positions
      PROVE  /\ f[OffsetAt(q)] \in Nat /\ f[SizeAt(q)] \in Nat /\ 2 <= f[SizeAt(q)]
             /\ t <= f[OffsetAt(q)] /\ f[OffsetAt(q)] + f[SizeAt(q)] <= Len(f)
             /\ q < p => f[OffsetAt(q)] + f[SizeAt(q)] <= o
             /\ q > p => o + s <= f[OffsetAt(q)]
  <2>1. f[OffsetAt(q)] \in Nat /\ f[SizeAt(q)] \in 2 .. r
    BY <1>3, LayoutIs DEF EMPTY_RECORD_SIZE
  <2>2. /\ t <= f[OffsetAt(q)] /\ f[OffsetAt(q)] + f[SizeAt(q)] <= Len(f)
        /\ q < p => f[OffsetAt(q)] + f[SizeAt(q)] <= o
        /\ q > p => o + s <= f[OffsetAt(q)]
    BY <1>1, <1>3, LayoutStacked
  <2> QED
    BY <1>3, <2>1, <2>2
<1>6. /\ \A q \in Positions : g[SizeAt(q)] = IF q = p THEN n ELSE f[SizeAt(q)]
      /\ \A q \in Positions : g[OffsetAt(q)] = IF q > p THEN f[OffsetAt(q)] + n - s ELSE f[OffsetAt(q)]
  BY <1>p DEF IsReplaced
<1>7. /\ Len(g) = Len(f) - s + n
      /\ \A k \in t + 1 .. o : g[k] = f[k]
      /\ \A k \in 1 .. n : g[o + k] = WriteItemToFile(item)[k]
      /\ \A k \in 1 .. Len(f) - o - s : g[o + n + k] = f[o + s + k]
  BY <1>p DEF IsReplaced
<1>8. o \in Nat /\ s \in Nat /\ 2 <= s /\ t <= o /\ o + s <= Len(f)
  BY <1>1, <1>5
<1>9. Found(g, id) = item
  <2>1. g[OffsetAt(p)] = o /\ g[SizeAt(p)] = n
    BY <1>1, <1>6
  <2>2. CanReadItem(g, id) /\ ReadItem(g, id) = Part(g, o + 2, o + n - 1)
    <3>1. n > EMPTY_RECORD_SIZE
      BY <1>2 DEF EMPTY_RECORD_SIZE
    <3> QED
      BY <1>3, <1>p, <2>1, <3>1, FoundIs
  <2> HIDE DEF p, o, s, t, n
  <2> DEFINE l == Len(item)
             m == o + 2
  <2>4. o + n - 1 = m + l - 1 /\ Len(item) = 1 + l - 1
    BY <1>2, <1>8
  <2>3. Part(g, m, o + n - 1) = Part(item, 1, Len(item))
    <3>1. /\ m \in Nat \ {0} /\ m + l <= Len(g) + 1
          /\ 1 \in Nat \ {0} /\ l \in Nat /\ 1 + l <= Len(item) + 1
      <4>1. m + l = o + n
        BY <1>2, <1>8
      <4>2. o + n <= Len(g)
        BY <1>2, <1>4, <1>7, <1>8
      <4> QED
        BY <1>2, <1>4, <1>8, <4>1, <4>2
    <3>2. \A k \in 0 .. l - 1 : g[m + k] = item[1 + k]
      <4> SUFFICES ASSUME NEW k \in 0 .. l - 1 PROVE g[m + k] = item[1 + k]
        OBVIOUS
      <4>1. 2 + k \in 1 .. n /\ o + (2 + k) = m + k /\ 1 + (1 + k) = 2 + k /\ 1 + k \in 1 .. Len(item)
        BY <1>2, <1>8
      <4>2. WriteItemToFile(item)[2 + k] = item[1 + k]
        BY <4>1, RecordIs
      <4> QED
        BY <1>7, <4>1, <4>2
    <3> HIDE DEF l, m
    <3> QED
      <4>1. SameWords(g, m, item, 1, l)
        BY <3>1, <3>2 DEF SameWords
      <4> QED
        BY <1>2, <1>4, <2>4, <4>1, SamePart
  <2>5. Part(item, 1, Len(item)) = item
    BY <1>2, SubSeqFull DEF Part
  <2> QED
    BY <2>2, <2>3, <2>4, <2>5 DEF Found
<1>10. ASSUME NEW other \in Ids \ {id} PROVE Found(g, other) = Found(f, other)
  <2> DEFINE q == other % Capacity
  <2>1. q \in Positions /\ q \in Nat /\ p \in Nat /\ q # p
    BY <1>1, <1>p, PositionIs, DifferentPositions
  <2>2. PICK x \in Nat, y \in Nat, z \in Nat :
            /\ x = f[OffsetAt(q)] /\ y = f[SizeAt(q)] /\ z = g[OffsetAt(q)] /\ y = g[SizeAt(q)]
            /\ 2 <= y /\ t <= x /\ x + y <= Len(f)
            /\ q < p => x + y <= o /\ z = x
            /\ q > p => o + s <= x /\ z = x + n - s
    <3>1. g[SizeAt(q)] = f[SizeAt(q)]
      BY <1>6, <2>1
    <3>2. CASE q < p
      <4>1. g[OffsetAt(q)] = f[OffsetAt(q)]
        BY <1>6, <2>1, <3>2
      <4>2. ~ (q > p)
        BY <2>1, <3>2
      <4> HIDE DEF o, s, t, n
      <4> QED
        BY <1>5, <2>1, <3>1, <3>2, <4>1, <4>2
    <3>3. CASE q > p
      <4>1. g[OffsetAt(q)] = f[OffsetAt(q)] + n - s
        BY <1>6, <2>1, <3>3
      <4>2. ~ (q < p)
        BY <2>1, <3>3
      <4> HIDE DEF o, s, t, n
      <4>3. f[OffsetAt(q)] + n - s \in Nat
        BY <1>2, <1>5, <1>8, <2>1, <3>3
      <4> QED
        BY <1>5, <2>1, <3>1, <3>3, <4>1, <4>2, <4>3
    <3> QED
      BY <2>1, <3>2, <3>3
  <2>3. /\ CanReadItem(f, other) <=> y > EMPTY_RECORD_SIZE
        /\ ReadItem(f, other) = Part(f, x + 2, x + y - 1)
    <3>1. x = f[OffsetAt(q)] /\ y = f[SizeAt(q)] /\ z = g[OffsetAt(q)] /\ y = g[SizeAt(q)]
      BY <2>2
    <3>2. LET o2 == f[OffsetAt(other % Capacity)]
              s2 == f[SizeAt(other % Capacity)]
          IN  /\ CanReadItem(f, other) <=> s2 > EMPTY_RECORD_SIZE
              /\ ReadItem(f, other) = Part(f, o2 + 2, o2 + s2 - 1)
      BY <1>3, FoundIs
    <3> QED
      BY <3>1, <3>2
  <2>4. /\ CanReadItem(g, other) <=> y > EMPTY_RECORD_SIZE
        /\ ReadItem(g, other) = Part(g, z + 2, z + y - 1)
    <3>1. x = f[OffsetAt(q)] /\ y = f[SizeAt(q)] /\ z = g[OffsetAt(q)] /\ y = g[SizeAt(q)]
      BY <2>2
    <3>2. LET o2 == g[OffsetAt(other % Capacity)]
              s2 == g[SizeAt(other % Capacity)]
          IN  /\ CanReadItem(g, other) <=> s2 > EMPTY_RECORD_SIZE
              /\ ReadItem(g, other) = Part(g, o2 + 2, o2 + s2 - 1)
      BY <1>3, FoundIs
    <3> QED
      BY <3>1, <3>2
  <2> HIDE DEF p, o, s, t, n, q
  <2> DEFINE l == y - 2
             m == x + 2
             a == z + 2
  <2>5. l \in Nat /\ x + y - 1 = m + l - 1 /\ z + y - 1 = a + l - 1
    <3>1. y \in Nat /\ 2 <= y
      BY <2>2
    <3> QED
      BY <3>1
  <2>6. \A k \in 0 .. l - 1 : f[m + k] = g[a + k]
    <3> SUFFICES ASSUME NEW k \in 0 .. l - 1 PROVE f[m + k] = g[a + k]
      OBVIOUS
    <3>1. CASE q < p
      <4>1. m + k \in t + 1 .. o /\ a + k = m + k
        <5>1. z = x /\ x + y <= o /\ t <= x
          BY <2>2, <3>1
        <5>2. x \in Nat /\ y \in Nat /\ o \in Nat /\ t \in Nat
          BY <1>4, <1>8
        <5>3. k \in Nat /\ k + 2 <= y - 1
          BY <5>2
        <5> QED
          BY <5>1, <5>2, <5>3
      <4> QED
        BY <1>7, <4>1
    <3>2. CASE q > p
      <4>1. PICK d \in Nat : x = o + s + d
        <5>1. x - (o + s) \in Nat /\ x = o + s + (x - (o + s))
          <6>1. o + s <= x
            BY <2>2, <3>2
          <6> QED
            BY <1>8, <6>1
        <5> QED
          BY <5>1
      <4>2. z = o + n + d
        <5>1. z = x + n - s
          BY <2>2, <3>2
        <5> QED
          BY <1>2, <1>8, <4>1, <5>1
      <4>3. o + s + (d + 2 + k) = m + k /\ o + n + (d + 2 + k) = a + k
        BY <1>2, <1>8, <4>1, <4>2
      <4>4. d + 2 + k \in 1 .. Len(f) - o - s
        <5>1. x + y <= Len(f) /\ 2 <= y
          BY <2>2, <3>2
        <5>2. o \in Nat /\ s \in Nat /\ Len(f) \in Nat
          BY <1>4, <1>8
        <5>3. k \in Nat /\ k + 2 <= y - 1
          OBVIOUS
        <5> QED
          BY <4>1, <5>1, <5>2, <5>3
      <4> QED
        BY <1>7, <4>3, <4>4
    <3> QED
      BY <2>1, <3>1, <3>2
  <2>7. m \in Nat \ {0} /\ a \in Nat \ {0} /\ m + l <= Len(f) + 1 /\ a + l <= Len(g) + 1
    <3>1. CASE q < p
      <4>1. z = x /\ x + y <= o /\ 2 <= y
        BY <2>2, <3>1
      <4> QED
        BY <1>2, <1>4, <1>7, <1>8, <4>1
    <3>2. CASE q > p
      <4>1. z = x + n - s /\ o + s <= x /\ 2 <= y /\ x + y <= Len(f)
        BY <2>2, <3>2
      <4> QED
        BY <1>2, <1>4, <1>7, <1>8, <4>1
    <3> QED
      BY <2>1, <3>1, <3>2
  <2>8. Part(f, m, x + y - 1) = Part(g, a, z + y - 1)
    <3> HIDE DEF l, m, a
    <3> QED
      <4>1. SameWords(f, m, g, a, l)
        BY <2>5, <2>6, <2>7 DEF SameWords
      <4> QED
        BY <1>4, <2>5, <4>1, SamePart
  <2> QED
    BY <2>3, <2>4, <2>5, <2>8 DEF Found
<1> QED
  BY <1>9, <1>10

-----------------------------------------------------------------------------
(***************************************************************************)
(* A new file is what a save makes of a file without items.                *)
(***************************************************************************)
EmptyFile == WriteInitialFileTable \o EmptyRecords(Capacity)
NewFile(id, item) == WriteInitialFileTable \o WriteItemToNewFile(id, item)

LEMMA EmptyRecordsAre ==
  ASSUME NEW n \in Nat
  PROVE  /\ EmptyRecords(n) \in Seq(Words) /\ Len(EmptyRecords(n)) = 2 * n
         /\ \A k \in 1 .. 2 * n : EmptyRecords(n)[k] = IF k % 2 = 1 THEN HEAD ELSE TRAIL
<1> DEFINE w(k) == IF k % 2 = 1 THEN HEAD ELSE TRAIL
           e == [k \in 1 .. 2 * n |-> w(k)]
<1>1. EmptyRecords(n) = e
  BY DEF EmptyRecords, EMPTY_RECORD_SIZE
<1>2. \A k \in 1 .. 2 * n : w(k) \in Words
  BY DEF Words
<1>3. 2 * n \in Nat
  OBVIOUS
<1>4. \A k \in 1 .. 2 * n : e[k] = w(k)
  OBVIOUS
<1>5. e \in Seq(Words) /\ Len(e) = 2 * n
  <2> HIDE DEF w
  <2> QED
    BY <1>2, <1>3
<1> HIDE DEF e
<1> QED
  BY <1>1, <1>4, <1>5

LEMMA InitialTableIs ==
  ASSUME NEW longest \in Nat, FitsOffsets(longest)
  PROVE  /\ WriteInitialFileTable \in Seq(Words) /\ Len(WriteInitialFileTable) = TableSize(Capacity)
         /\ WriteInitialFileTable[1] = VERSION /\ WriteInitialFileTable[CapacityAt] = Capacity
         /\ WriteInitialFileTable[NumItemsAt] = 0
         /\ \A p \in Positions : /\ WriteInitialFileTable[OffsetAt(p)] = TableSize(Capacity) + 2 * p
                                 /\ WriteInitialFileTable[SizeAt(p)] = EMPTY_RECORD_SIZE
<1> DEFINE t == TableSize(Capacity)
           h == <<VERSION, Capacity, 0>>
           w(k) == IF k % 2 = 0 THEN EMPTY_RECORD_SIZE
                   ELSE (t + EMPTY_RECORD_SIZE * (k \div 2)) % OffsetLimit
           b == [k \in 1 .. 2 * Capacity |-> w(k)]
           a == h \o b
<1>1. t = 3 + 2 * Capacity /\ t \in Nat /\ Capacity \in Nat \ {0} /\ OffsetLimit \in Nat \ {0}
  BY TableGeometry
<1>2. t + 2 * Capacity < OffsetLimit
  <2>1. 2 * Capacity <= Capacity * (longest + 2) /\ Capacity * (longest + 2) \in Nat
    BY <1>1
  <2>2. t + Capacity * (longest + 2) < OffsetLimit
    BY DEF FitsOffsets, EMPTY_RECORD_SIZE
  <2> HIDE DEF t
  <2> QED
    BY <1>1, <2>1, <2>2
<1>3. WriteInitialFileTable = a
  BY DEF WriteInitialFileTable, WriteFileTableBlock
<1> HIDE DEF t
<1>4. ASSUME NEW p \in Positions
      PROVE  w(1 + 2 * p) = t + 2 * p /\ w(2 + 2 * p) = EMPTY_RECORD_SIZE /\ p \in Nat
  <2>1. p \in Nat /\ p < Capacity
    BY <1>1 DEF Positions
  <2>2. (1 + 2 * p) % 2 = 1 /\ (1 + 2 * p) \div 2 = p /\ (2 + 2 * p) % 2 = 0
    BY <2>1
  <2>3. (t + 2 * p) % OffsetLimit = t + 2 * p
    <3>1. t + 2 * p \in 0 .. OffsetLimit - 1
      BY <1>1, <1>2, <2>1
    <3> QED
      BY <1>1, <3>1, ModOnce
  <2> QED
    BY <2>1, <2>2, <2>3 DEF EMPTY_RECORD_SIZE
<1>5. ASSUME NEW k \in 1 .. 2 * Capacity PROVE w(k) \in 0 .. OffsetLimit - 1
  <2>1. CASE k % 2 = 0
    BY <1>1, <1>2, <2>1 DEF EMPTY_RECORD_SIZE
  <2>2. CASE k % 2 # 0
    <3>1. PICK x \in Nat : x = t + EMPTY_RECORD_SIZE * (k \div 2)
      BY <1>1 DEF EMPTY_RECORD_SIZE
    <3>2. x % OffsetLimit \in 0 .. OffsetLimit - 1
      BY <1>1
    <3> QED
      BY <2>2, <3>1, <3>2
  <2> QED
    BY <2>1, <2>2
<1>6. b \in Seq(Words) /\ Len(b) = 2 * Capacity /\ \A k \in 1 .. 2 * Capacity : b[k] = w(k)
  <2>1. \A k \in 1 .. 2 * Capacity : w(k) \in Words
    BY <1>5 DEF Words
  <2> HIDE DEF w
  <2> QED
    BY <1>1, <2>1
<1>7. h \in Seq(Words) /\ Len(h) = 3 /\ h[1] = VERSION /\ h[2] = Capacity /\ h[3] = 0
  <2>1. VERSION \in Words /\ Capacity \in Words /\ 0 \in Words
    BY <1>1, <1>2 DEF Words
  <2> QED
    BY <2>1
<1> HIDE DEF h, w, b
<1>8. /\ a \in Seq(Words) /\ Len(a) = 3 + 2 * Capacity
      /\ a[1] = VERSION /\ a[2] = Capacity /\ a[3] = 0
      /\ \A k \in 1 .. 2 * Capacity : a[3 + k] = w(k)
  <2>1. /\ a \in Seq(Words) /\ Len(a) = Len(h) + Len(b)
        /\ \A k \in 1 .. Len(h) + Len(b) : a[k] = IF k <= Len(h) THEN h[k] ELSE b[k - Len(h)]
    BY <1>6, <1>7, ConcatProperties
  <2> HIDE DEF a
  <2>2. a[1] = h[1] /\ a[2] = h[2] /\ a[3] = h[3]
    BY <1>1, <1>6, <1>7, <2>1
  <2>3. ASSUME NEW k \in 1 .. 2 * Capacity PROVE a[3 + k] = w(k)
    <3>1. 3 + k \in 1 .. Len(h) + Len(b) /\ ~ (3 + k <= Len(h)) /\ 3 + k - Len(h) = k
      BY <1>1, <1>6, <1>7
    <3> QED
      BY <1>6, <2>1, <3>1
  <2> QED
    BY <1>6, <1>7, <2>1, <2>2, <2>3
<1>9. ASSUME NEW p \in Positions PROVE a[OffsetAt(p)] = t + 2 * p /\ a[SizeAt(p)] = EMPTY_RECORD_SIZE
  <2>1. /\ 1 + 2 * p \in 1 .. 2 * Capacity /\ 2 + 2 * p \in 1 .. 2 * Capacity
        /\ OffsetAt(p) = 3 + (1 + 2 * p) /\ SizeAt(p) = 3 + (2 + 2 * p)
    BY <1>1 DEF Positions, OffsetAt, SizeAt
  <2> QED
    BY <1>4, <1>8, <2>1
<1> HIDE DEF a
<1> QED
  BY <1>1, <1>3, <1>8, <1>9 DEF t, CapacityAt, NumItemsAt

LEMMA EmptyFileIs ==
  ASSUME NEW longest \in Nat, FitsOffsets(longest)
  PROVE  /\ EmptyFile \in Seq(Words) /\ Len(EmptyFile) = TableSize(Capacity) + 2 * Capacity
         /\ \A k \in 1 .. TableSize(Capacity) : EmptyFile[k] = WriteInitialFileTable[k]
         /\ \A k \in 1 .. 2 * Capacity :
              EmptyFile[TableSize(Capacity) + k] = IF k % 2 = 1 THEN HEAD ELSE TRAIL
<1> DEFINE a == WriteInitialFileTable
           b == EmptyRecords(Capacity)
           t == TableSize(Capacity)
           g == a \o b
<1>1. a \in Seq(Words) /\ Len(a) = t
  BY InitialTableIs
<1>2. /\ b \in Seq(Words) /\ Len(b) = 2 * Capacity
      /\ \A k \in 1 .. 2 * Capacity : b[k] = IF k % 2 = 1 THEN HEAD ELSE TRAIL
  BY EmptyRecordsAre, TableGeometry
<1>3. t \in Nat /\ Capacity \in Nat
  BY TableGeometry
<1> HIDE DEF a, b, t
<1>4. /\ g \in Seq(Words) /\ Len(g) = Len(a) + Len(b)
      /\ \A k \in 1 .. Len(a) : g[k] = a[k]
      /\ \A k \in 1 .. Len(b) : g[Len(a) + k] = b[k]
  <2> DEFINE S == Words
  <2>1. a \in Seq(S) /\ b \in Seq(S)
    BY <1>1, <1>2
  <2> HIDE DEF S
  <2>2. g \in Seq(S) /\ Len(g) = Len(a) + Len(b)
    BY <2>1, TwoParts
  <2>3. \A k \in 1 .. Len(a) : g[k] = a[k]
    BY <2>1, TwoParts
  <2>4. \A k \in 1 .. Len(b) : g[Len(a) + k] = b[k]
    BY <2>1, TwoParts
  <2> QED
    BY <2>2, <2>3, <2>4 DEF S
<1>5. EmptyFile = g
  BY DEF EmptyFile, a, b
<1> HIDE DEF g
<1>6. \A k \in 1 .. t : g[k] = a[k]
  BY <1>1, <1>4
<1>7. \A k \in 1 .. 2 * Capacity : g[t + k] = b[k]
  BY <1>1, <1>2, <1>4
<1>8. Len(g) = t + 2 * Capacity
  BY <1>1, <1>2, <1>4
<1> QED
  BY <1>2, <1>4, <1>5, <1>6, <1>7, <1>8 DEF a, t

LEMMA EmptyLayout ==
  ASSUME NEW longest \in Nat, FitsOffsets(longest)
  PROVE  /\ Layout(EmptyFile, LongestRecord(longest))
         /\ \A id \in Ids : /\ Found(EmptyFile, id) = MISSING
                            /\ EmptyFile[OffsetAt(id % Capacity)]
                                 = TableSize(Capacity) + 2 * (id % Capacity)
                            /\ EmptyFile[SizeAt(id % Capacity)] = EMPTY_RECORD_SIZE
<1> DEFINE f == EmptyFile
           t == TableSize(Capacity)
           r == LongestRecord(longest)
<1>1. /\ Capacity \in Nat \ {0} /\ t \in Nat /\ t >= 3
      /\ 1 \in 1 .. t /\ CapacityAt \in 1 .. t /\ NumItemsAt \in 1 .. t
      /\ \A p \in Positions : /\ OffsetAt(p) \in 1 .. t /\ SizeAt(p) \in 1 .. t
                             /\ p \in Nat /\ p < Capacity
  <2>1. t \in Nat /\ t >= 3 /\ Capacity \in Nat \ {0}
    BY TableGeometry
  <2> QED
    BY <2>1, TableGeometry DEF Positions
<1>2. /\ f \in Seq(Words) /\ Len(f) = t + 2 * Capacity
      /\ \A k \in 1 .. t : f[k] = WriteInitialFileTable[k]
      /\ \A k \in 1 .. 2 * Capacity : f[t + k] = IF k % 2 = 1 THEN HEAD ELSE TRAIL
  BY EmptyFileIs
<1>3. /\ f[1] = VERSION /\ f[CapacityAt] = Capacity /\ f[NumItemsAt] = 0
      /\ \A p \in Positions : f[OffsetAt(p)] = t + 2 * p /\ f[SizeAt(p)] = EMPTY_RECORD_SIZE
  <2> HIDE DEF f
  <2> QED
    BY <1>1, <1>2, InitialTableIs
<1>4. r \in Nat /\ EMPTY_RECORD_SIZE <= r
  BY DEF LongestRecord, EMPTY_RECORD_SIZE
<1> HIDE DEF f, t, r
<1>5. ASSUME NEW p \in Positions
      PROVE  /\ f[OffsetAt(p)] \in Nat /\ f[SizeAt(p)] = 2
             /\ f[f[OffsetAt(p)] + 1] = HEAD /\ f[f[OffsetAt(p)] + f[SizeAt(p)]] = TRAIL
             /\ f[OffsetAt(p)] + f[SizeAt(p)] = t + 2 * (p + 1)
  <2>1. /\ 2 * p + 1 \in 1 .. 2 * Capacity /\ (2 * p + 1) % 2 = 1
        /\ 2 * p + 2 \in 1 .. 2 * Capacity /\ (2 * p + 2) % 2 = 0
        /\ t + 2 * p + 1 = t + (2 * p + 1) /\ t + 2 * p + 2 = t + (2 * p + 2)
        /\ t + 2 * p + 2 = t + 2 * (p + 1) /\ t + 2 * p \in Nat
    BY <1>1
  <2>2. f[OffsetAt(p)] = t + 2 * p /\ f[SizeAt(p)] = 2
    BY <1>3 DEF EMPTY_RECORD_SIZE
  <2>3. f[t + (2 * p + 1)] = HEAD /\ f[t + (2 * p + 2)] = TRAIL
    BY <1>2, <2>1
  <2> QED
    BY <2>1, <2>2, <2>3
<1>6. \A p \in Positions \ {0} : f[OffsetAt(p)] = f[OffsetAt(p - 1)] + f[SizeAt(p - 1)]
  <2> SUFFICES ASSUME NEW p \in Positions \ {0}
               PROVE  f[OffsetAt(p)] = f[OffsetAt(p - 1)] + f[SizeAt(p - 1)]
    OBVIOUS
  <2>1. p - 1 \in Positions /\ p - 1 + 1 = p
    BY <1>1 DEF Positions
  <2> QED
    BY <1>3, <1>5, <2>1
<1>7. f[OffsetAt(0)] = t /\ f[OffsetAt(Capacity - 1)] + f[SizeAt(Capacity - 1)] = Len(f)
  <2>1. 0 \in Positions /\ Capacity - 1 \in Positions /\ t + 2 * 0 = t /\ Capacity - 1 + 1 = Capacity
    BY <1>1 DEF Positions
  <2> QED
    BY <1>2, <1>3, <1>5, <2>1
<1>8. f[NumItemsAt] = Cardinality({p \in Positions : f[SizeAt(p)] > EMPTY_RECORD_SIZE})
  <2>1. {p \in Positions : f[SizeAt(p)] > EMPTY_RECORD_SIZE} = {}
    BY <1>3 DEF EMPTY_RECORD_SIZE
  <2> QED
    BY <1>3, <2>1, FS_EmptySet
<1>9. Len(f) >= t
  BY <1>1, <1>2
<1>10. WellFormed(f)
  <2>1. \A p \in Positions : f[SizeAt(p)] >= EMPTY_RECORD_SIZE
    BY <1>3 DEF EMPTY_RECORD_SIZE
  <2> QED
    BY <1>3, <1>5, <1>6, <1>7, <1>8, <1>9, <2>1 DEF WellFormed, Positions, RecordEnd, t
<1>11. Layout(f, r)
  <2>1. \A p \in Positions : f[OffsetAt(p)] \in Nat /\ f[SizeAt(p)] \in Nat /\ f[SizeAt(p)] <= r
    BY <1>3, <1>4, <1>5
  <2> QED
    BY <1>2, <1>10, <2>1 DEF Layout
<1>12. ASSUME NEW id \in Ids
       PROVE  /\ Found(f, id) = MISSING
              /\ f[OffsetAt(id % Capacity)] = t + 2 * (id % Capacity)
              /\ f[SizeAt(id % Capacity)] = EMPTY_RECORD_SIZE
  <2>1. id % Capacity \in Positions
    BY PositionIs
  <2>2. /\ f[OffsetAt(id % Capacity)] = t + 2 * (id % Capacity)
        /\ f[SizeAt(id % Capacity)] = EMPTY_RECORD_SIZE
    BY <1>3, <2>1
  <2>3. ~ CanReadItem(f, id)
    <3>1. ~ (f[SizeAt(id % Capacity)] > EMPTY_RECORD_SIZE)
      BY <2>2 DEF EMPTY_RECORD_SIZE
    <3> QED
      BY <1>4, <1>11, <3>1, FoundIs
  <2> QED
    BY <2>2, <2>3 DEF Found
<1> QED
  BY <1>11, <1>12 DEF f, t, r

LEMMA SpliceUnique ==
  ASSUME NEW f, NEW o \in Nat, NEW s \in Nat, Len(f) \in Nat, o + s <= Len(f), NEW item \in Items,
         NEW g, NEW h, IsSplice(g, f, o, s, item), IsSplice(h, f, o, s, item)
  PROVE  g = h
<1> DEFINE n == RecordSize(item)
           l == Len(f) - o - s
<1>1. /\ g \in Seq(Words) /\ Len(g) = Len(f) - s + n
      /\ \A k \in 1 .. o : g[k] = f[k]
      /\ \A k \in 1 .. n : g[o + k] = WriteItemToFile(item)[k]
      /\ \A k \in 1 .. l : g[o + n + k] = f[o + s + k]
  BY DEF IsSplice
<1>2. /\ h \in Seq(Words) /\ Len(h) = Len(f) - s + n
      /\ \A k \in 1 .. o : h[k] = f[k]
      /\ \A k \in 1 .. n : h[o + k] = WriteItemToFile(item)[k]
      /\ \A k \in 1 .. l : h[o + n + k] = f[o + s + k]
  BY DEF IsSplice
<1>3. n \in Nat /\ l \in Nat /\ Len(f) - s + n = o + n + l
  <2>1. n \in Nat
    BY ItemsAre, RecordIs DEF EMPTY_RECORD_SIZE
  <2> QED
    BY <2>1
<1> HIDE DEF n, l
<1>4. ASSUME NEW k \in Nat, 1 <= k, k <= o + n + l PROVE g[k] = h[k]
  <2>1. CASE k <= o
    BY <1>1, <1>2, <1>3, <1>4, <2>1
  <2>2. CASE o < k /\ k <= o + n
    <3>1. k - o \in 1 .. n /\ o + (k - o) = k
      BY <1>3, <1>4, <2>2
    <3> QED
      BY <1>1, <1>2, <3>1
  <2>3. CASE o + n < k
    <3>1. k - (o + n) \in 1 .. l /\ o + n + (k - (o + n)) = k
      BY <1>3, <1>4, <2>3
    <3> QED
      BY <1>1, <1>2, <3>1
  <2> QED
    BY <1>3, <2>1, <2>2, <2>3
<1>5. \A k \in 1 .. Len(g) : g[k] = h[k]
  BY <1>1, <1>3, <1>4
<1>6. g \in Seq(Words) /\ h \in Seq(Words) /\ Len(g) = Len(h)
  BY <1>1, <1>2
<1> QED
  BY <1>5, <1>6

LEMMA NewFileIs ==
  ASSUME NEW longest \in Nat, FitsOffsets(longest), NEW id \in Ids, NEW item \in Items
  PROVE  /\ NewFile(id, item) \in Seq(Words) /\ NewFile(id, item) # <<>>
         /\ NewFile(id, item) = WriteItemToExistingFile(EmptyFile, id, item)
<1> DEFINE p == id % Capacity
           f == EmptyFile
           t == TableSize(Capacity)
           o == t + 2 * p
           a == WriteInitialFileTable
           x == EmptyRecords(p)
           y == WriteItemToFile(item)
           z == EmptyRecords(Capacity - 1 - p)
           w == x \o y \o z
           g == a \o w
           n == RecordSize(item)
<1>1. NewFile(id, item) = g
  BY DEF NewFile, WriteItemToNewFile
<1>2. p \in Nat /\ Capacity - 1 - p \in Nat /\ Capacity \in Nat /\ p < Capacity /\ t \in Nat /\ t >= 3
  <2>1. t \in Nat /\ t >= 3 /\ Capacity \in Nat
    BY TableGeometry
  <2>2. p \in 0 .. Capacity - 1
    BY PositionIs DEF Positions
  <2> HIDE DEF p, t
  <2> QED
    BY <2>1, <2>2
<1>3. a \in Seq(Words) /\ Len(a) = t
  BY InitialTableIs
<1>4. /\ x \in Seq(Words) /\ Len(x) = 2 * p
      /\ \A k \in 1 .. 2 * p : x[k] = IF k % 2 = 1 THEN HEAD ELSE TRAIL
  BY <1>2, EmptyRecordsAre
<1>5. y \in Seq(Words) /\ Len(y) = n /\ n \in Nat
  BY ItemsAre, RecordIs DEF EMPTY_RECORD_SIZE
<1>6. /\ z \in Seq(Words) /\ Len(z) = 2 * (Capacity - 1 - p)
      /\ \A k \in 1 .. 2 * (Capacity - 1 - p) : z[k] = IF k % 2 = 1 THEN HEAD ELSE TRAIL
  BY <1>2, EmptyRecordsAre
<1>7. /\ f \in Seq(Words) /\ Len(f) = t + 2 * Capacity
      /\ \A k \in 1 .. t : f[k] = a[k]
      /\ \A k \in 1 .. 2 * Capacity : f[t + k] = IF k % 2 = 1 THEN HEAD ELSE TRAIL
  BY EmptyFileIs
<1>8. f[OffsetAt(p)] = o /\ f[SizeAt(p)] = 2 /\ f[CapacityAt] = Capacity
  <2>1. f[OffsetAt(p)] = o /\ f[SizeAt(p)] = 2
    BY EmptyLayout DEF EMPTY_RECORD_SIZE
  <2>2. Layout(f, LongestRecord(longest)) /\ LongestRecord(longest) \in Nat
    BY EmptyLayout DEF EMPTY_RECORD_SIZE, LongestRecord
  <2> HIDE DEF f
  <2>3. f[CapacityAt] = Capacity
    BY <2>2, LayoutIs
  <2> QED
    BY <2>1, <2>3
<1> HIDE DEF a, x, y, z, f, t, n, p
<1>9. /\ w \in Seq(Words) /\ Len(w) = Len(x) + Len(y) + Len(z)
      /\ \A k \in 1 .. Len(x) : w[k] = x[k]
      /\ \A k \in 1 .. Len(y) : w[Len(x) + k] = y[k]
      /\ \A k \in 1 .. Len(z) : w[Len(x) + Len(y) + k] = z[k]
  <2> DEFINE S == Words
  <2>1. x \in Seq(S) /\ y \in Seq(S) /\ z \in Seq(S)
    BY <1>4, <1>5, <1>6
  <2> HIDE DEF S
  <2>2. w \in Seq(S) /\ Len(w) = Len(x) + Len(y) + Len(z)
    BY <2>1, ThreeParts
  <2>3. \A k \in 1 .. Len(x) : w[k] = x[k]
    BY <2>1, ThreeParts
  <2>4. \A k \in 1 .. Len(y) : w[Len(x) + k] = y[k]
    BY <2>1, ThreeParts
  <2>5. \A k \in 1 .. Len(z) : w[Len(x) + Len(y) + k] = z[k]
    BY <2>1, ThreeParts
  <2> QED
    BY <2>2, <2>3, <2>4, <2>5 DEF S
<1> HIDE DEF w
<1>10. /\ g \in Seq(Words) /\ Len(g) = Len(a) + Len(w)
       /\ \A k \in 1 .. Len(a) : g[k] = a[k]
       /\ \A k \in 1 .. Len(w) : g[Len(a) + k] = w[k]
  <2> DEFINE S == Words
  <2>1. a \in Seq(S) /\ w \in Seq(S)
    BY <1>3, <1>9
  <2> HIDE DEF S
  <2>2. g \in Seq(S) /\ Len(g) = Len(a) + Len(w)
    BY <2>1, TwoParts
  <2>3. \A k \in 1 .. Len(a) : g[k] = a[k]
    BY <2>1, TwoParts
  <2>4. \A k \in 1 .. Len(w) : g[Len(a) + k] = w[k]
    BY <2>1, TwoParts
  <2> QED
    BY <2>2, <2>3, <2>4 DEF S
<1> HIDE DEF g
<1>11. Len(w) = 2 * Capacity - 2 + n /\ Len(g) = Len(f) - 2 + n
  BY <1>2, <1>3, <1>4, <1>5, <1>6, <1>7, <1>9, <1>10
<1>12. /\ \A k \in 1 .. t : g[k] = a[k]
       /\ \A k \in 1 .. Len(w) : g[t + k] = w[k]
  BY <1>3, <1>10
<1>13. ASSUME NEW k \in 1 .. o PROVE g[k] = f[k]
  <2>1. CASE k <= t
    BY <1>2, <1>7, <1>12, <2>1
  <2>2. CASE k > t
    <3>1. PICK j \in 1 .. 2 * p : k = t + j
      <4>1. k - t \in 1 .. 2 * p /\ k = t + (k - t)
        BY <1>2, <2>2
      <4> QED
        BY <4>1
    <3>2. j \in 1 .. Len(w) /\ j \in 1 .. 2 * Capacity /\ j \in 1 .. Len(x)
      BY <1>2, <1>4, <1>5, <1>11
    <3> QED
      BY <1>4, <1>7, <1>9, <1>12, <3>1, <3>2
  <2> QED
    BY <1>2, <2>1, <2>2
<1>14. ASSUME NEW k \in 1 .. n PROVE g[o + k] = y[k]
  <2>1. 2 * p + k \in 1 .. Len(w) /\ t + (2 * p + k) = o + k
    BY <1>2, <1>5, <1>11
  <2>2. w[2 * p + k] = y[k]
    BY <1>4, <1>5, <1>9
  <2> HIDE DEF o
  <2> QED
    BY <1>12, <2>1, <2>2
<1>15. ASSUME NEW k \in 1 .. Len(f) - o - 2 PROVE g[o + n + k] = f[o + 2 + k]
  <2>1. /\ k \in 1 .. Len(z) /\ k \in 1 .. 2 * (Capacity - 1 - p)
        /\ 2 * p + n + k \in 1 .. Len(w) /\ t + (2 * p + n + k) = o + n + k
        /\ 2 * p + 2 + k \in 1 .. 2 * Capacity /\ t + (2 * p + 2 + k) = o + 2 + k
    BY <1>2, <1>5, <1>6, <1>7, <1>11
  <2>2. w[2 * p + n + k] = z[k]
    BY <1>4, <1>5, <1>9, <2>1
  <2>3. (2 * p + 2 + k) % 2 = k % 2
    BY <1>2
  <2>4. z[k] = f[t + (2 * p + 2 + k)]
    BY <1>6, <1>7, <2>1, <2>3
  <2> HIDE DEF o
  <2> QED
    BY <1>12, <2>1, <2>2, <2>4
<1>16. o \in Nat /\ o + 2 <= Len(f) /\ Len(f) \in Nat
  BY <1>2, <1>7
<1> HIDE DEF o
<1>17. IsSplice(g, f, o, 2, item)
  BY <1>10, <1>11, <1>13, <1>14, <1>15 DEF IsSplice, n, y
<1>18. IsSplice(WriteItemToExistingFile(f, id, item), f, o, 2, item)
  <2>1. o = f[OffsetAt(id % Capacity)] /\ 2 = f[SizeAt(id % Capacity)] /\ 2 \in Nat
    BY <1>8 DEF p
  <2> QED
    BY <1>7, <1>8, <1>16, <2>1, SpliceIs
<1>19. g = WriteItemToExistingFile(f, id, item)
  <2> DEFINE h == WriteItemToExistingFile(f, id, item)
  <2> HIDE DEF h
  <2>1. IsSplice(h, f, o, 2, item) /\ 2 \in Nat
    BY <1>18 DEF h
  <2>2. g = h
    BY <1>16, <1>17, <2>1, SpliceUnique
  <2> QED
    BY <2>2 DEF h
<1>20. g # <<>>
  <2>1. Len(g) # 0
    BY <1>5, <1>11, <1>16, <1>2, <1>7
  <2> QED
    BY <2>1
<1> QED
  BY <1>1, <1>10, <1>19, <1>20 DEF f

-----------------------------------------------------------------------------
(***************************************************************************)
(* FileStore.  The invariant says of every phase what the words that the   *)
(* save has still to write make of the file.                               *)
(***************************************************************************)
MissingAllowed     == \A id \in Ids : MISSING \in allowed[id]
FindsAllowed(ids)  == \A id \in ids : Found(file, id) \in allowed[id]
Complete(longest)  == Layout(file, LongestRecord(longest))

FileTypes ==
  /\ phase \in Phases /\ request \in {NoRequest} \cup (Ids \X Items)
  /\ (phase = "none") <=> (request = NoRequest)
  /\ allowed \in [Ids -> SUBSET (Items \cup {MISSING})]

NoneInv(longest) ==
  phase = "none" => \/ file = NoFile /\ MissingAllowed
                    \/ Complete(longest) /\ FindsAllowed(Ids)

\* Nothing of a new file counts before its table is complete.
AppendInv ==
  phase = "append" => /\ file \in Seq(Words) /\ todo \in Seq(Words)
                      /\ file \o todo = NewFile(Id, Item) /\ MissingAllowed

TableInv ==
  phase = "table" => /\ file \in Seq(Words) /\ todo \in Seq(Nat \X Words)
                     /\ Overwrite(file, todo) = Replacement(EmptyFile, Id, Item) /\ MissingAllowed

TempInv(longest) ==
  phase = "temp" => /\ Complete(longest) /\ FindsAllowed(Ids)
                    /\ todo = Replacement(file, Id, Item)

ReplyInv(longest) ==
  phase = "reply" => /\ Complete(longest) /\ Found(file, Id) = Item
                     /\ FindsAllowed(Ids \ {Id})

FileInv(longest) ==
  FileTypes /\ NoneInv(longest) /\ AppendInv /\ TableInv /\ TempInv(longest) /\ ReplyInv(longest)

\* A save that stops leaves a complete file behind.
StopsSafely == StopPhases \subseteq {"temp", "reply"}

LEMMA AppendHead ==
  ASSUME NEW S, NEW f \in Seq(S), NEW w \in Seq(S), w # <<>>
  PROVE  /\ Append(f, Head(w)) \in Seq(S) /\ Tail(w) \in Seq(S)
         /\ Append(f, Head(w)) \o Tail(w) = f \o w
<1> DEFINE g == Append(f, Head(w))
           t == Tail(w)
           u == g \o t
           v == f \o w
<1>1. Len(w) \in Nat \ {0} /\ Len(f) \in Nat
  BY EmptySeq
<1>2. /\ Head(w) = w[1] /\ Head(w) \in S
      /\ t \in Seq(S) /\ Len(t) = Len(w) - 1 /\ \A k \in 1 .. Len(t) : t[k] = w[k + 1]
  BY <1>1, HeadTailProperties
<1>3. /\ g \in Seq(S) /\ Len(g) = Len(f) + 1
      /\ \A k \in 1 .. Len(f) : g[k] = f[k]
      /\ g[Len(f) + 1] = w[1]
  BY <1>1, <1>2, AppendProperties
<1> HIDE DEF g, t
<1>4. /\ u \in Seq(S) /\ Len(u) = Len(g) + Len(t)
      /\ \A k \in 1 .. Len(g) : u[k] = g[k]
      /\ \A k \in 1 .. Len(t) : u[Len(g) + k] = t[k]
  <2>1. g \in Seq(S) /\ t \in Seq(S)
    BY <1>2, <1>3
  <2>2. u \in Seq(S) /\ Len(u) = Len(g) + Len(t)
    BY <2>1, TwoParts
  <2>3. \A k \in 1 .. Len(g) : u[k] = g[k]
    BY <2>1, TwoParts
  <2>4. \A k \in 1 .. Len(t) : u[Len(g) + k] = t[k]
    BY <2>1, TwoParts
  <2> QED
    BY <2>2, <2>3, <2>4
<1>5. /\ v \in Seq(S) /\ Len(v) = Len(f) + Len(w)
      /\ \A k \in 1 .. Len(f) : v[k] = f[k]
      /\ \A k \in 1 .. Len(w) : v[Len(f) + k] = w[k]
  BY TwoParts
<1> HIDE DEF u, v
<1>6. Len(u) = Len(v) /\ Len(v) \in Nat
  BY <1>1, <1>2, <1>3, <1>4, <1>5
<1>7. ASSUME NEW k \in 1 .. Len(v) PROVE u[k] = v[k]
  <2>1. CASE k <= Len(f)
    <3>1. k \in 1 .. Len(f) /\ k \in 1 .. Len(g)
      BY <1>1, <1>3, <1>6, <2>1
    <3> QED
      BY <1>3, <1>4, <1>5, <3>1
  <2>2. CASE k = Len(f) + 1
    <3>1. Len(f) + 1 \in 1 .. Len(g) /\ 1 \in 1 .. Len(w)
      BY <1>1, <1>3
    <3> QED
      BY <1>3, <1>4, <1>5, <2>2, <3>1
  <2>3. CASE k > Len(f) + 1
    <3>1. PICK j \in 1 .. Len(t) : k = Len(g) + j
      <4>1. k - Len(g) \in 1 .. Len(t) /\ k = Len(g) + (k - Len(g))
        BY <1>1, <1>2, <1>3, <1>5, <2>3
      <4> QED
        BY <4>1
    <3>2. j + 1 \in 1 .. Len(w) /\ k = Len(f) + (j + 1)
      BY <1>1, <1>2, <1>3, <3>1
    <3>3. u[k] = t[j] /\ t[j] = w[j + 1]
      BY <1>2, <1>4, <3>1
    <3> QED
      BY <1>5, <3>2, <3>3
  <2> QED
    BY <1>1, <1>6, <2>1, <2>2, <2>3
<1>8. u = v
  BY <1>4, <1>5, <1>6, <1>7
<1> QED
  BY <1>2, <1>3, <1>8 DEF g, t, u, v

LEMMA OverwriteNothing ==
  ASSUME NEW f \in Seq(Words)
  PROVE  Overwrite(f, <<>>) = f
<1> DEFINE g == Overwrite(f, <<>>)
           w == <<>>
<1>1. w \in Seq(Nat \X Words) /\ DOMAIN w = {}
  OBVIOUS
<1>2. g = Overwrite(f, w)
  OBVIOUS
<1> HIDE DEF w, g
<1>3. g \in Seq(Words) /\ Len(g) = Len(f) /\ \A n \in 1 .. Len(f) : g[n] = f[n]
  BY <1>1, <1>2, OverwriteIs
<1>4. g = f
  BY <1>3
<1> QED
  BY <1>4 DEF g

LEMMA CompleteIsFile ==
  ASSUME NEW r, NEW f, Layout(f, r)
  PROVE  f \in Seq(Words) /\ f # NoFile /\ WellFormed(f)
BY FileStoreAssumption DEF Layout

\* A get in a complete file.
LEMMA GetIs ==
  ASSUME NEW id
  PROVE  /\ file = NoFile => GetItem(id) = MISSING
         /\ file # NoFile => GetItem(id) = Found(file, id)
BY DEF GetItem, Found

\* What a save makes of a complete file.
LEMMA ReplacementIs ==
  ASSUME NEW longest \in Nat, FitsOffsets(longest), NEW f, Layout(f, LongestRecord(longest)),
         NEW id \in Ids, NEW item \in Items
  PROVE  /\ Layout(Replacement(f, id, item), LongestRecord(longest))
         /\ Found(Replacement(f, id, item), id) = item
         /\ \A other \in Ids \ {id} : Found(Replacement(f, id, item), other) = Found(f, other)
<1> DEFINE g == Replacement(f, id, item)
<1>1. IsReplaced(g, f, id % Capacity, item) /\ id % Capacity \in Positions
  BY ReplacedIs, PositionIs
<1> HIDE DEF g
<1>2. Layout(g, LongestRecord(longest))
  BY <1>1, ReplacedLayout
<1>3. Found(g, id) = item /\ \A other \in Ids \ {id} : Found(g, other) = Found(f, other)
  BY <1>1, ReplacedItems
<1> QED
  BY <1>2, <1>3 DEF g

LEMMA FileInitInv ==
  ASSUME NEW longest, Init
  PROVE  FileInv(longest)
BY DEF Init, FileInv, FileTypes, NoneInv, AppendInv, TableInv, TempInv, ReplyInv, MissingAllowed, Phases

LEMMA RequestIs ==
  ASSUME FileTypes, phase # "none"
  PROVE  Id \in Ids /\ Item \in Items /\ request = <<Id, Item>>
BY DEF FileTypes, NoRequest, Id, Item

\* The beginning of a save: the request is entered, and nothing is allowed that was not.
LEMMA BegunTypes ==
  ASSUME FileTypes, NEW id \in Ids, NEW item \in Items, request' = <<id, item>>,
         phase' \in Phases \ {"none"}, allowed' = allowed
  PROVE  FileTypes' /\ Id' = id /\ Item' = item
<1>1. request' \in Ids \X Items /\ request' # NoRequest
  BY DEF NoRequest
<1> QED
  BY <1>1 DEF FileTypes, Id, Item

\* The end of a save.
LEMMA EndedTypes ==
  ASSUME FileTypes, EndSave, allowed' \in [Ids -> SUBSET (Items \cup {MISSING})]
  PROVE  FileTypes'
BY DEF FileTypes, EndSave, Phases

LEMMA BeginNewFileInv ==
  ASSUME NEW longest \in Nat, FitsOffsets(longest), FileInv(longest),
         NEW id \in Ids, NEW item \in Items, BeginNewFile(id, item)
  PROVE  FileInv(longest)'
<1>1. /\ phase = "none" /\ file = NoFile /\ file' = <<>> /\ phase' = "append"
      /\ request' = <<id, item>> /\ todo' = NewFile(id, item) /\ allowed' = allowed
  BY DEF BeginNewFile, NewFile
<1>2. FileTypes' /\ Id' = id /\ Item' = item
  BY <1>1, BegunTypes DEF FileInv, Phases
<1>3. MissingAllowed
  BY <1>1, CompleteIsFile DEF FileInv, NoneInv, Complete
<1>4. AppendInv'
  <2>1. file' \in Seq(Words)
    BY <1>1
  <2>2. NewFile(id, item) \in Seq(Words)
    BY NewFileIs
  <2>3. file' \o todo' = NewFile(id, item)
    BY <1>1, <2>2, ConcatEmptySeq
  <2>4. NewFile(Id, Item)' = NewFile(id, item)
    BY <1>2 DEF NewFile
  <2>5. MissingAllowed'
    BY <1>1, <1>3 DEF MissingAllowed
  <2> QED
    BY <1>1, <2>1, <2>2, <2>3, <2>4, <2>5 DEF AppendInv
<1> QED
  BY <1>1, <1>2, <1>4 DEF FileInv, NoneInv, TableInv, TempInv, ReplyInv

LEMMA AppendWordInv ==
  ASSUME NEW longest \in Nat, FileInv(longest), AppendWord
  PROVE  FileInv(longest)'
<1>1. /\ phase = "append" /\ phase' = "append" /\ todo # <<>> /\ file' = Append(file, Head(todo))
      /\ todo' = Tail(todo) /\ request' = request /\ allowed' = allowed
  BY DEF AppendWord
<1>2. /\ file \in Seq(Words) /\ todo \in Seq(Words) /\ file \o todo = NewFile(Id, Item)
      /\ MissingAllowed
  BY <1>1 DEF FileInv, AppendInv
<1>3. file' \in Seq(Words) /\ todo' \in Seq(Words) /\ file' \o todo' = file \o todo
  <2> DEFINE S == Words
  <2>1. file \in Seq(S) /\ todo \in Seq(S) /\ todo # <<>>
    BY <1>1, <1>2
  <2> HIDE DEF S
  <2>2. Append(file, Head(todo)) \in Seq(S) /\ Tail(todo) \in Seq(S)
    BY <2>1, AppendHead
  <2>3. Append(file, Head(todo)) \o Tail(todo) = file \o todo
    BY <2>1, AppendHead
  <2> QED
    BY <1>1, <2>2, <2>3 DEF S
<1>4. NewFile(Id, Item)' = NewFile(Id, Item)
  BY <1>1 DEF NewFile, Id, Item
<1>5. FileTypes' /\ MissingAllowed'
  BY <1>1, <1>2 DEF FileInv, FileTypes, MissingAllowed
<1> QED
  BY <1>1, <1>2, <1>3, <1>4, <1>5 DEF FileInv, NoneInv, AppendInv, TableInv, TempInv, ReplyInv

LEMMA BeginTableInv ==
  ASSUME NEW longest \in Nat, FitsOffsets(longest), FileInv(longest), BeginTable
  PROVE  FileInv(longest)'
<1>1. /\ phase = "append" /\ phase' = "table" /\ todo = <<>> /\ file' = file
      /\ todo' = UpdateFileTable(file, Id, RecordSize(Item)) /\ request' = request /\ allowed' = allowed
  BY DEF BeginTable
<1>2. file \in Seq(Words) /\ file \o todo = NewFile(Id, Item) /\ MissingAllowed
  BY <1>1 DEF FileInv, AppendInv
<1>3. Id \in Ids /\ Item \in Items
  BY <1>1, RequestIs DEF FileInv
<1>4. file = WriteItemToExistingFile(EmptyFile, Id, Item)
  <2>1. file \o todo = file
    BY <1>1, <1>2, ConcatEmptySeq
  <2> QED
    BY <1>2, <1>3, <2>1, NewFileIs
<1>5. todo' \in Seq(Nat \X Words)
  <2>1. Layout(EmptyFile, LongestRecord(longest))
    BY EmptyLayout
  <2> QED
    BY <1>1, <1>3, <1>4, <2>1, ReplacedIs
<1>6. Overwrite(file, todo)' = Replacement(EmptyFile, Id, Item)
  BY <1>1, <1>4 DEF Replacement
<1>7. Replacement(EmptyFile, Id, Item)' = Replacement(EmptyFile, Id, Item)
  BY <1>1 DEF Replacement, Id, Item
<1>8. FileTypes' /\ MissingAllowed'
  BY <1>1, <1>2 DEF FileInv, FileTypes, MissingAllowed, Phases
<1> QED
  BY <1>1, <1>2, <1>5, <1>6, <1>7, <1>8 DEF FileInv, NoneInv, AppendInv, TableInv, TempInv, ReplyInv

LEMMA OverwriteWordInv ==
  ASSUME NEW longest \in Nat, FileInv(longest), OverwriteWord
  PROVE  FileInv(longest)'
<1>1. /\ phase = "table" /\ phase' = "table" /\ todo # <<>>
      /\ file' = Overwrite(file, <<Head(todo)>>)
      /\ todo' = Tail(todo) /\ request' = request /\ allowed' = allowed
  BY DEF OverwriteWord
<1>2. /\ file \in Seq(Words) /\ todo \in Seq(Nat \X Words) /\ MissingAllowed
      /\ Overwrite(file, todo) = Replacement(EmptyFile, Id, Item)
  BY <1>1 DEF FileInv, TableInv
<1>3. /\ file' \in Seq(Words) /\ todo' \in Seq(Nat \X Words)
      /\ Overwrite(file', todo') = Overwrite(file, todo)
  BY <1>1, <1>2, OverwriteOne
<1>4. Replacement(EmptyFile, Id, Item)' = Replacement(EmptyFile, Id, Item)
  BY <1>1 DEF Replacement, Id, Item
<1>5. FileTypes' /\ MissingAllowed'
  BY <1>1, <1>2 DEF FileInv, FileTypes, MissingAllowed
<1> QED
  BY <1>1, <1>2, <1>3, <1>4, <1>5 DEF FileInv, NoneInv, AppendInv, TableInv, TempInv, ReplyInv

\* The file that is finished in place.
LEMMA EndTableIs ==
  ASSUME NEW longest \in Nat, FitsOffsets(longest), FileInv(longest), EndTable
  PROVE  /\ Complete(longest)' /\ Found(file', Id) = Item
         /\ \A other \in Ids \ {Id} : Found(file', other) = MISSING
<1>1. phase = "table" /\ todo = <<>> /\ file' = file /\ Id \in Ids /\ Item \in Items
  BY RequestIs DEF EndTable, FileInv
<1>2. file = Replacement(EmptyFile, Id, Item)
  <2>1. file \in Seq(Words) /\ Overwrite(file, todo) = Replacement(EmptyFile, Id, Item)
    BY <1>1 DEF FileInv, TableInv
  <2> QED
    BY <1>1, <2>1, OverwriteNothing
<1>3. /\ Layout(EmptyFile, LongestRecord(longest))
      /\ \A other \in Ids : Found(EmptyFile, other) = MISSING
  BY EmptyLayout
<1>4. /\ Layout(file, LongestRecord(longest)) /\ Found(file, Id) = Item
      /\ \A other \in Ids \ {Id} : Found(file, other) = Found(EmptyFile, other)
  BY <1>1, <1>2, <1>3, ReplacementIs
<1> QED
  BY <1>1, <1>3, <1>4 DEF Complete

LEMMA EndTableInv ==
  ASSUME NEW longest \in Nat, FitsOffsets(longest), FileInv(longest), EndTable
  PROVE  FileInv(longest)'
<1>1. /\ phase = "table" /\ phase' = "reply" /\ file' = file /\ request' = request
      /\ allowed' = allowed
  BY DEF EndTable
<1>2. FileTypes' /\ Id' = Id /\ Item' = Item /\ MissingAllowed
  BY <1>1 DEF FileInv, FileTypes, TableInv, Phases, Id, Item
<1>3. ReplyInv(longest)'
  <2>1. /\ Complete(longest)' /\ Found(file', Id) = Item
        /\ \A other \in Ids \ {Id} : Found(file', other) = MISSING
    BY EndTableIs
  <2>2. Found(file, Id)' = Found(file', Id') /\ Found(file', Id') = Item'
    BY <1>2, <2>1 DEF Found
  <2>3. FindsAllowed(Ids \ {Id})'
    BY <1>1, <1>2, <2>1 DEF FindsAllowed, MissingAllowed
  <2> QED
    BY <2>1, <2>2, <2>3 DEF ReplyInv
<1> QED
  BY <1>1, <1>2, <1>3 DEF FileInv, NoneInv, AppendInv, TableInv, TempInv

LEMMA BeginTempFileInv ==
  ASSUME NEW longest \in Nat, FileInv(longest),
         NEW id \in Ids, NEW item \in Items, BeginTempFile(id, item)
  PROVE  FileInv(longest)'
<1>1. /\ phase = "none" /\ file # NoFile /\ file' = file /\ phase' = "temp"
      /\ request' = <<id, item>> /\ todo' = Replacement(file, id, item) /\ allowed' = allowed
  BY DEF BeginTempFile, NewContents, Replacement
<1>2. FileTypes' /\ Id' = id /\ Item' = item
  BY <1>1, BegunTypes DEF FileInv, Phases
<1>3. Complete(longest) /\ FindsAllowed(Ids)
  BY <1>1 DEF FileInv, NoneInv
<1>4. TempInv(longest)'
  <2>1. Complete(longest)' /\ FindsAllowed(Ids)'
    BY <1>1, <1>3 DEF Complete, FindsAllowed
  <2>2. todo' = Replacement(file, Id, Item)'
    BY <1>1, <1>2 DEF Replacement
  <2> QED
    BY <2>1, <2>2 DEF TempInv
<1> QED
  BY <1>1, <1>2, <1>4 DEF FileInv, NoneInv, AppendInv, TableInv, ReplyInv

\* The file that is renamed over the old one.
LEMMA RenameIs ==
  ASSUME NEW longest \in Nat, FitsOffsets(longest), FileInv(longest), Rename
  PROVE  /\ Complete(longest) /\ Complete(longest)' /\ Found(file', Id) = Item
         /\ \A other \in Ids \ {Id} : Found(file', other) = Found(file, other)
<1>1. phase = "temp" /\ file' = todo /\ Id \in Ids /\ Item \in Items
  BY RequestIs DEF Rename, FileInv
<1>2. Complete(longest) /\ file' = Replacement(file, Id, Item)
  BY <1>1 DEF FileInv, TempInv
<1>3. /\ Layout(file', LongestRecord(longest)) /\ Found(file', Id) = Item
      /\ \A other \in Ids \ {Id} : Found(file', other) = Found(file, other)
  BY <1>1, <1>2, ReplacementIs DEF Complete
<1> QED
  BY <1>2, <1>3 DEF Complete

LEMMA RenameInv ==
  ASSUME NEW longest \in Nat, FitsOffsets(longest), FileInv(longest), Rename
  PROVE  FileInv(longest)'
<1>1. phase = "temp" /\ phase' = "reply" /\ request' = request /\ allowed' = allowed
  BY DEF Rename
<1>2. FileTypes' /\ Id' = Id /\ Item' = Item /\ FindsAllowed(Ids)
  BY <1>1 DEF FileInv, FileTypes, TempInv, Phases, Id, Item
<1>3. ReplyInv(longest)'
  <2>1. /\ Complete(longest)' /\ Found(file', Id) = Item
        /\ \A other \in Ids \ {Id} : Found(file', other) = Found(file, other)
    BY RenameIs
  <2>2. Found(file, Id)' = Item'
    BY <1>2, <2>1 DEF Found
  <2>3. FindsAllowed(Ids \ {Id})'
    BY <1>1, <1>2, <2>1 DEF FindsAllowed
  <2> QED
    BY <2>1, <2>2, <2>3 DEF ReplyInv
<1> QED
  BY <1>1, <1>2, <1>3 DEF FileInv, NoneInv, AppendInv, TableInv, TempInv

\* What is found of the id may be changed along with what is allowed of it.
LEMMA EndedInv ==
  ASSUME NEW longest \in Nat, FileInv(longest), EndSave, file' = file, Complete(longest),
         allowed' \in [Ids -> SUBSET (Items \cup {MISSING})],
         \A id \in Ids : Found(file, id) \in allowed'[id]
  PROVE  FileInv(longest)'
<1>1. FileTypes' /\ phase' = "none"
  BY EndedTypes DEF FileInv, EndSave
<1>2. NoneInv(longest)'
  BY <1>1 DEF NoneInv, Complete, FindsAllowed
<1> QED
  BY <1>1, <1>2 DEF FileInv, AppendInv, TableInv, TempInv, ReplyInv

LEMMA ReplyStepInv ==
  ASSUME NEW longest \in Nat, FileInv(longest), Reply
  PROVE  FileInv(longest)'
<1>1. /\ phase = "reply" /\ allowed' = [allowed EXCEPT ![Id] = {Item}] /\ EndSave /\ file' = file
      /\ Id \in Ids /\ Item \in Items
  BY RequestIs DEF Reply, FileInv
<1>2. Complete(longest) /\ Found(file, Id) = Item /\ FindsAllowed(Ids \ {Id})
  BY <1>1 DEF FileInv, ReplyInv
<1>3. allowed \in [Ids -> SUBSET (Items \cup {MISSING})]
  BY DEF FileInv, FileTypes
<1>4. allowed' \in [Ids -> SUBSET (Items \cup {MISSING})]
  BY <1>1, <1>3
<1>5. \A id \in Ids : Found(file, id) \in allowed'[id]
  BY <1>1, <1>2, <1>3 DEF FindsAllowed
<1> QED
  BY <1>1, <1>2, <1>4, <1>5, EndedInv

LEMMA StopStepInv ==
  ASSUME NEW longest \in Nat, StopsSafely, FileInv(longest), Stop
  PROVE  FileInv(longest)'
<1>1. /\ phase \in {"temp", "reply"} /\ EndSave /\ file' = file /\ Id \in Ids /\ Item \in Items
      /\ allowed' = IF phase = "temp" THEN allowed ELSE [allowed EXCEPT ![Id] = @ \cup {Item}]
  <2>1. /\ phase \in {"temp", "reply"} /\ EndSave /\ file' = file
        /\ allowed' = IF phase = "temp" THEN allowed ELSE [allowed EXCEPT ![Id] = @ \cup {Item}]
    BY DEF Stop, StopsSafely
  <2> QED
    BY <2>1, RequestIs DEF FileInv
<1>2. allowed \in [Ids -> SUBSET (Items \cup {MISSING})]
  BY DEF FileInv, FileTypes
<1>3. allowed' \in [Ids -> SUBSET (Items \cup {MISSING})]
  BY <1>1, <1>2
<1>4. Complete(longest) /\ \A id \in Ids : Found(file, id) \in allowed'[id]
  <2>1. CASE phase = "temp"
    BY <1>1, <2>1 DEF FileInv, TempInv, FindsAllowed
  <2>2. CASE phase = "reply"
    <3>1. Complete(longest) /\ Found(file, Id) = Item /\ FindsAllowed(Ids \ {Id})
      BY <2>2 DEF FileInv, ReplyInv
    <3> QED
      BY <1>1, <1>2, <2>2, <3>1 DEF FindsAllowed
  <2> QED
    BY <1>1, <2>1, <2>2
<1> QED
  BY <1>1, <1>3, <1>4, EndedInv

LEMMA FileNextInv ==
  ASSUME NEW longest \in Nat, FitsOffsets(longest), StopsSafely, FileInv(longest), [Next]_vars
  PROVE  FileInv(longest)'
<1>1. CASE \E id \in Ids, item \in Items : BeginNewFile(id, item) \/ BeginTempFile(id, item)
  BY <1>1, BeginNewFileInv, BeginTempFileInv
<1>2. CASE AppendWord
  BY <1>2, AppendWordInv
<1>3. CASE BeginTable
  BY <1>3, BeginTableInv
<1>4. CASE OverwriteWord
  BY <1>4, OverwriteWordInv
<1>5. CASE EndTable
  BY <1>5, EndTableInv
<1>6. CASE Rename
  BY <1>6, RenameInv
<1>7. CASE Reply
  BY <1>7, ReplyStepInv
<1>8. CASE Stop
  BY <1>8, StopStepInv
<1>9. CASE UNCHANGED vars
  <2>1. Id' = Id /\ Item' = Item
    BY <1>9 DEF vars, Id, Item
  <2> QED
    BY <1>9, <2>1 DEF vars, FileInv, FileTypes, NoneInv, AppendInv, TableInv, TempInv, ReplyInv,
                      Complete, FindsAllowed, MissingAllowed, Replacement, NewFile
<1> QED
  BY <1>1, <1>2, <1>3, <1>4, <1>5, <1>6, <1>7, <1>8, <1>9 DEF Next

LEMMA FileInvariant ==
  ASSUME NEW longest \in Nat, FitsOffsets(longest), StopsSafely
  PROVE  Spec => []FileInv(longest)
<1>1. Init => FileInv(longest)
  BY FileInitInv
<1>2. FileInv(longest) /\ [Next]_vars => FileInv(longest)'
  BY FileNextInv
<1> QED
  BY <1>1, <1>2, PTL DEF Spec

-----------------------------------------------------------------------------
\* A file holds words only: no offset, size or number in it grows over the range of an
\* offset, and every request is one for an item of this file.
THEOREM FileTypeCorrect ==
  ASSUME NEW longest \in Nat, FitsOffsets(longest), StopsSafely
  PROVE  Spec => []TypeOK
<1>1. Spec => []FileInv(longest)
  BY FileInvariant
<1>2. FileInv(longest) => TypeOK
  <2> SUFFICES ASSUME FileInv(longest) PROVE TypeOK
    OBVIOUS
  <2>1. file \in Seq(Words) \cup {NoFile}
    BY CompleteIsFile
       DEF FileInv, FileTypes, Phases, NoneInv, AppendInv, TableInv, TempInv, ReplyInv, Complete
  <2> QED
    BY <2>1 DEF FileInv, FileTypes, TypeOK
<1> QED
  BY <1>1, <1>2, PTL

\* Between saves the table of the file describes its records exactly: daos_saveItem puts
\* a record of another size in the place of one and moves the offsets of those after it.
THEOREM TableIsExact ==
  ASSUME NEW longest \in Nat, FitsOffsets(longest), StopsSafely
  PROVE  Spec => []LayoutExact
<1>1. Spec => []FileInv(longest)
  BY FileInvariant
<1>2. FileInv(longest) => LayoutExact
  BY CompleteIsFile DEF FileInv, NoneInv, Complete, LayoutExact
<1> QED
  BY <1>1, <1>2, PTL

\* An item whose save was answered is what daos_getItem finds, until a later save of the
\* same id, and saves of the other ids of the file do not disturb it.
THEOREM SavedItemsAreFound ==
  ASSUME NEW longest \in Nat, FitsOffsets(longest), StopsSafely
  PROVE  Spec => []Durable
<1>1. Spec => []FileInv(longest)
  BY FileInvariant
<1>2. FileInv(longest) => Durable
  <2> SUFFICES ASSUME FileInv(longest), phase = "none", NEW id \in Ids
               PROVE  GetItem(id) \in allowed[id]
    BY DEF Durable
  <2>1. CASE file = NoFile /\ MissingAllowed
    BY <2>1, GetIs DEF MissingAllowed
  <2>2. CASE Complete(longest) /\ FindsAllowed(Ids)
    BY <2>2, CompleteIsFile, GetIs DEF Complete, FindsAllowed
  <2> QED
    BY <2>1, <2>2 DEF FileInv, NoneInv
<1> QED
  BY <1>1, <1>2, PTL

-----------------------------------------------------------------------------
(***************************************************************************)
(* The refinement of KeyValueStore.                                        *)
(***************************************************************************)
StoreNow  == [id \in Ids |-> IF phase \in {"append", "table"} THEN MISSING ELSE GetItem(id)]
SavingNow == IF phase = "none" THEN {} ELSE {request}

LEMMA StoreInit ==
  ASSUME Init
  PROVE  Store!Init
BY DEF Init, Store!Init, GetItem

\* As long as a new file is not complete nothing is found.
LEMMA StoreIsEmpty ==
  ASSUME phase \in {"append", "table"} \/ file = NoFile
  PROVE  StoreNow = [id \in Ids |-> MISSING]
BY GetIs DEF StoreNow

LEMMA StoreIs ==
  ASSUME phase \notin {"append", "table"}, file # NoFile
  PROVE  StoreNow = [id \in Ids |-> Found(file, id)]
BY GetIs DEF StoreNow

LEMMA StoreKept ==
  ASSUME file' = file, phase \notin {"append", "table"}, phase' \notin {"append", "table"}
  PROVE  StoreNow' = StoreNow
BY DEF StoreNow, GetItem

LEMMA StoreSave ==
  ASSUME NEW id \in Ids, NEW item \in Items, phase = "none", phase' # "none",
         request' = <<id, item>>, StoreNow' = StoreNow
  PROVE  Store!Next
<1>1. SavingNow = {} /\ SavingNow' = {<<id, item>>}
  BY DEF SavingNow
<1>2. Store!Save(id, item)
  BY <1>1 DEF Store!Save, StoreNow, SavingNow
<1> QED
  BY <1>2 DEF Store!Next

LEMMA StoreTakesEffect ==
  ASSUME FileTypes, phase # "none", phase' # "none", request' = request,
         StoreNow' = [StoreNow EXCEPT ![Id] = Item]
  PROVE  Store!Next
<1>1. SavingNow = {request} /\ SavingNow' = SavingNow
  BY DEF SavingNow
<1>2. request[1] = Id /\ request[2] = Item
  BY DEF Id, Item
<1>3. Store!TakeEffect
  BY <1>1, <1>2 DEF Store!TakeEffect, StoreNow, SavingNow
<1> QED
  BY <1>3 DEF Store!Next

LEMMA StoreEnd ==
  ASSUME phase # "none", phase' = "none", StoreNow' = StoreNow
  PROVE  Store!Next
<1>1. SavingNow = {request} /\ SavingNow' = {}
  BY DEF SavingNow
<1>2. Store!End
  BY <1>1 DEF Store!End, StoreNow, SavingNow
<1> QED
  BY <1>2 DEF Store!Next

LEMMA StoreStutter ==
  ASSUME StoreNow' = StoreNow, phase = "none" <=> phase' = "none", request' = request
  PROVE  UNCHANGED Store!vars
BY DEF Store!vars, StoreNow, SavingNow

LEMMA FileStoreStep ==
  ASSUME NEW longest \in Nat, FitsOffsets(longest), StopsSafely,
         FileInv(longest), FileInv(longest)', [Next]_vars
  PROVE  [Store!Next]_Store!vars
<1>1. ASSUME NEW id \in Ids, NEW item \in Items, BeginNewFile(id, item)
      PROVE  Store!Next
  <2>1. phase = "none" /\ phase' = "append" /\ file = NoFile /\ request' = <<id, item>>
    BY <1>1 DEF BeginNewFile
  <2>2. StoreNow' = StoreNow
    BY <2>1, StoreIsEmpty, GetIs DEF StoreNow
  <2> QED
    BY <2>1, <2>2, StoreSave
<1>2. ASSUME NEW id \in Ids, NEW item \in Items, BeginTempFile(id, item)
      PROVE  Store!Next
  <2>1. phase = "none" /\ phase' = "temp" /\ file' = file /\ request' = <<id, item>>
    BY <1>2 DEF BeginTempFile
  <2> QED
    BY <2>1, StoreKept, StoreSave
<1>3. CASE AppendWord \/ BeginTable \/ OverwriteWord
  <2>1. phase \in {"append", "table"} /\ phase' \in {"append", "table"} /\ request' = request
    BY <1>3 DEF AppendWord, BeginTable, OverwriteWord
  <2>2. StoreNow' = StoreNow
    BY <2>1 DEF StoreNow
  <2> QED
    BY <2>1, <2>2, StoreStutter
<1>4. CASE EndTable
  <2>1. phase = "table" /\ phase' = "reply" /\ request' = request /\ FileTypes /\ Id \in Ids
    BY <1>4, RequestIs DEF EndTable, FileInv
  <2>2. /\ Complete(longest)' /\ Found(file', Id) = Item
        /\ \A other \in Ids \ {Id} : Found(file', other) = MISSING
    BY <1>4, EndTableIs
  <2>3. file' # NoFile
    BY <2>2, CompleteIsFile DEF Complete
  <2>4. StoreNow = [id \in Ids |-> MISSING]
    BY <2>1, StoreIsEmpty
  <2>5. StoreNow' = [id \in Ids |-> Found(file', id)]
    BY <2>1, <2>3 DEF StoreNow, GetItem, Found
  <2>6. StoreNow' = [StoreNow EXCEPT ![Id] = Item]
    BY <2>1, <2>2, <2>4, <2>5
  <2> QED
    BY <2>1, <2>6, StoreTakesEffect
<1>5. CASE Rename
  <2>1. phase = "temp" /\ phase' = "reply" /\ request' = request /\ FileTypes /\ Id \in Ids
    BY <1>5, RequestIs DEF Rename, FileInv
  <2>2. /\ Complete(longest) /\ Complete(longest)' /\ Found(file', Id) = Item
        /\ \A other \in Ids \ {Id} : Found(file', other) = Found(file, other)
    BY <1>5, RenameIs
  <2>3. file # NoFile /\ file' # NoFile
    BY <2>2, CompleteIsFile DEF Complete
  <2>4. StoreNow = [id \in Ids |-> Found(file, id)]
    BY <2>1, <2>3, StoreIs
  <2>5. StoreNow' = [id \in Ids |-> Found(file', id)]
    BY <2>1, <2>3 DEF StoreNow, GetItem, Found
  <2>6. StoreNow' = [StoreNow EXCEPT ![Id] = Item]
    BY <2>1, <2>2, <2>4, <2>5
  <2> QED
    BY <2>1, <2>6, StoreTakesEffect
<1>6. CASE Reply \/ Stop
  <2>1. phase \in {"temp", "reply"} /\ phase' = "none" /\ file' = file
    BY <1>6 DEF Reply, Stop, EndSave, StopsSafely
  <2> QED
    BY <2>1, StoreKept, StoreEnd
<1>7. CASE UNCHANGED vars
  <2>1. StoreNow' = StoreNow /\ phase' = phase /\ request' = request
    BY <1>7 DEF vars, StoreNow, GetItem
  <2> QED
    BY <2>1, StoreStutter
<1> QED
  BY <1>1, <1>2, <1>3, <1>4, <1>5, <1>6, <1>7 DEF Next

\* The file implements a map from ids to items that a save changes at one id and at once.
THEOREM FileImplementsStore ==
  ASSUME NEW longest \in Nat, FitsOffsets(longest), StopsSafely
  PROVE  Spec => ImplementsStore
<1>1. Spec => []FileInv(longest)
  BY FileInvariant
<1>2. Init => Store!Init
  BY StoreInit
<1>3. FileInv(longest) /\ FileInv(longest)' /\ [Next]_vars => [Store!Next]_Store!vars
  BY FileStoreStep
<1> QED
  BY <1>1, <1>2, <1>3, PTL DEF Spec, ImplementsStore, Store!Spec

-----------------------------------------------------------------------------
(***************************************************************************)
(* FileGroups.                                                             *)
(***************************************************************************)

TypeOf(g) == fileGroupData[g].type

\* The owner of the mutex is in the locked part, and nobody else is.
Inside == {"locked", "fill", "daos", "unlock"}
OwnerInside == \A t \in Threads : pc[t] \in Inside <=> mutex = t

\* What the owner that fills in a group has stored.
FillExact(t) ==
  /\ i[t] \in Groups
  /\ i[t] = IF "used" \in stores[t] THEN fileGroupsUsed + 1 ELSE fileGroupsUsed
  /\ IF "type" \in stores[t]
     THEN TypeOf(i[t]) = 0 /\ \A g \in Groups : TypeOf(g) # want[t]
     ELSE TypeOf(i[t]) = want[t]

\* What a thread knows where it is in its look-up.
KnowsExact ==
  \A t \in Threads :
    /\ pc[t] \in InLookUp => want[t] \in Types
    /\ pc[t] = "fill" => FillExact(t)
    /\ pc[t] = "daos" => i[t] \in Groups /\ TypeOf(i[t]) = want[t]
    /\ pc[t] = "unlock" /\ ret[t] # NULL => TypeOf(ret[t]) = want[t]

\* The groups that are counted are those that have a type, and have different ones.
GroupsExact ==
  /\ \A g \in Groups :
       (\A t \in Threads : pc[t] = "fill" => i[t] # g) => (TypeOf(g) # 0 <=> g <= fileGroupsUsed)
  /\ \A g, h \in Groups : TypeOf(g) = TypeOf(h) /\ TypeOf(g) # 0 => g = h

GroupsInv == GroupsTypeOK /\ OwnerInside /\ KnowsExact /\ GroupsExact

\* At the start no type has a group.
LEMMA InitGroupsInv == InitGroups => GroupsInv
<1> SUFFICES ASSUME InitGroups PROVE GroupsInv
  OBVIOUS
<1>1. GroupsTypeOK
  BY FileGroupsAssumption DEF InitGroups, GroupsTypeOK, Groups
<1>2. OwnerInside /\ KnowsExact /\ GroupsExact
  BY FileGroupsAssumption
  DEF InitGroups, OwnerInside, KnowsExact, GroupsExact, TypeOf, Groups, InLookUp, Inside
<1> QED
  BY <1>1, <1>2 DEF GroupsInv

\* A step that moves one thread, and stores nothing, keeps what is known if the thread
\* that moves knows what it must, and does not leave a group behind unfilled.
LEMMA NothingStored ==
  ASSUME GroupsInv, NEW t \in Threads, UNCHANGED data,
         GroupsTypeOK', OwnerInside',
         \A u \in Threads : u # t => /\ pc'[u] = pc[u] /\ want'[u] = want[u] /\ i'[u] = i[u]
                                     /\ stores'[u] = stores[u] /\ ret'[u] = ret[u],
         pc'[t] \in InLookUp => want'[t] \in Types,
         pc'[t] = "fill" => FillExact(t)',
         pc'[t] = "daos" => i'[t] \in Groups /\ TypeOf(i'[t]) = want'[t],
         pc'[t] = "unlock" /\ ret'[t] # NULL => TypeOf(ret'[t]) = want'[t],
         pc[t] = "fill" => \/ pc'[t] = "fill" /\ i'[t] = i[t]
                           \/ TypeOf(i[t]) # 0 <=> i[t] <= fileGroupsUsed
  PROVE  GroupsInv'
<1>1. \A g : TypeOf(g)' = TypeOf(g)
  BY DEF data, TypeOf
<1>2. fileGroupsUsed' = fileGroupsUsed
  BY DEF data
<1>3. KnowsExact'
  <2> SUFFICES ASSUME NEW u \in Threads
               PROVE  /\ pc'[u] \in InLookUp => want'[u] \in Types
                      /\ pc'[u] = "fill" => FillExact(u)'
                      /\ pc'[u] = "daos" => i'[u] \in Groups /\ TypeOf(i[u])' = want'[u]
                      /\ pc'[u] = "unlock" /\ ret'[u] # NULL => TypeOf(ret[u])' = want'[u]
    BY DEF KnowsExact
  <2>1. TypeOf(i[u])' = TypeOf(i'[u]) /\ TypeOf(ret[u])' = TypeOf(ret'[u])
    BY DEF TypeOf, data
  <2>2. CASE u = t
    BY <2>1, <2>2
  <2>3. CASE u # t
    <3>1. TypeOf(i[u])' = TypeOf(i[u]) /\ TypeOf(ret[u])' = TypeOf(ret[u])
      BY <2>3 DEF TypeOf, data
    <3>2. FillExact(u) => FillExact(u)'
      BY <1>1, <1>2, <2>3, <3>1 DEF FillExact
    <3> QED
      BY <2>3, <3>1, <3>2 DEF GroupsInv, KnowsExact
  <2> QED
    BY <2>2, <2>3
<1>4. GroupsExact'
  <2>1. ASSUME NEW g \in Groups, \A u \in Threads : pc'[u] = "fill" => i'[u] # g
        PROVE  TypeOf(g) # 0 <=> g <= fileGroupsUsed
    <3>1. CASE \A u \in Threads : pc[u] = "fill" => i[u] # g
      BY <3>1 DEF GroupsInv, GroupsExact
    <3>2. CASE \E u \in Threads : pc[u] = "fill" /\ i[u] = g
      <4>1. pc[t] = "fill" /\ i[t] = g
        BY <2>1, <3>2
      <4> QED
        BY <2>1, <4>1
    <3> QED
      BY <3>1, <3>2
  <2>2. \A g, h \in Groups : TypeOf(g) = TypeOf(h) /\ TypeOf(g) # 0 => g = h
    BY DEF GroupsInv, GroupsExact
  <2> QED
    BY <1>1, <1>2, <2>1, <2>2 DEF GroupsExact
<1> QED
  BY <1>3, <1>4 DEF GroupsInv

\* The look-up outside the mutex, and what the owner of the mutex does without storing
\* anything.
LEMMA QuietStep ==
  ASSUME NoTypeZero, GroupsInv, NEW t \in Threads,
         \/ \E ty \in Types : Call(t, ty)
         \/ Search(t) \/ Lock(t) \/ Finish(t)
         \/ LockedHit(t) \/ CannotCreate(t) \/ Create(t)
         \/ InitFileListFails(t) \/ InitDaosFails(t) \/ Unlock(t)
  PROVE  GroupsInv'
<1> USE FileGroupsAssumption DEF Goto, Return, Groups
<1>0. /\ GroupsTypeOK /\ OwnerInside /\ KnowsExact /\ GroupsExact
      /\ fileGroupsUsed \in 0 .. MAX_DIFFERENT_ENTRY_TYPES /\ MAX_DIFFERENT_ENTRY_TYPES \in Nat
      /\ \A g \in Groups : TypeOf(g) \in Types \cup {0}
  BY DEF GroupsInv, GroupsTypeOK, TypeOf
<1>1. ASSUME NEW ty \in Types, Call(t, ty) PROVE GroupsInv'
  <2>1. GroupsTypeOK'
    BY <1>0, <1>1 DEF Call, GroupsTypeOK, data
  <2>2. OwnerInside'
    BY <1>0, <1>1 DEF Call, OwnerInside, GroupsTypeOK, Inside
  <2>3. /\ pc[t] = "idle" /\ pc'[t] = "scan" /\ want'[t] = ty /\ UNCHANGED data
        /\ \A u \in Threads : u # t => /\ pc'[u] = pc[u] /\ want'[u] = want[u] /\ i'[u] = i[u]
                                       /\ stores'[u] = stores[u] /\ ret'[u] = ret[u]
    BY <1>0, <1>1 DEF Call, GroupsTypeOK
  <2> QED
    BY <2>1, <2>2, <2>3, NothingStored
<1>2. CASE ScanHit(t)
  <2>1. i[t] \in Groups
    BY <1>0, <1>2 DEF ScanHit, GroupsTypeOK
  <2>2. GroupsTypeOK'
    BY <1>0, <1>2, <2>1 DEF ScanHit, GroupsTypeOK, data
  <2>3. OwnerInside'
    BY <1>0, <1>2 DEF ScanHit, OwnerInside, GroupsTypeOK, Inside
  <2> QED
    BY <1>0, <1>2, <2>2, <2>3, NothingStored, ZenonT(60) DEF ScanHit, GroupsTypeOK, InLookUp
<1>3. CASE ScanNext(t)
  <2>1. GroupsTypeOK'
    BY <1>0, <1>3 DEF ScanNext, GroupsTypeOK, data
  <2>2. OwnerInside'
    BY <1>0, <1>3 DEF ScanNext, OwnerInside, GroupsTypeOK, Inside
  <2>3. /\ pc[t] = "scan" /\ pc'[t] = "scan" /\ want' = want /\ UNCHANGED data
        /\ \A u \in Threads : u # t => /\ pc'[u] = pc[u] /\ want'[u] = want[u] /\ i'[u] = i[u]
                                       /\ stores'[u] = stores[u] /\ ret'[u] = ret[u]
    BY <1>0, <1>3 DEF ScanNext, GroupsTypeOK, local
  <2>4. want[t] \in Types
    BY <1>0, <2>3 DEF KnowsExact, InLookUp
  <2> QED
    BY <2>1, <2>2, <2>3, <2>4, NothingStored
<1>4. CASE ScanMiss(t)
  <2>1. GroupsTypeOK'
    BY <1>0, <1>4 DEF ScanMiss, GroupsTypeOK, data, local
  <2>2. OwnerInside'
    BY <1>0, <1>4 DEF ScanMiss, OwnerInside, GroupsTypeOK, Inside
  <2>3. /\ pc[t] = "scan" /\ pc'[t] = "lock" /\ want' = want /\ UNCHANGED data
        /\ \A u \in Threads : u # t => /\ pc'[u] = pc[u] /\ want'[u] = want[u] /\ i'[u] = i[u]
                                       /\ stores'[u] = stores[u] /\ ret'[u] = ret[u]
    BY <1>0, <1>4 DEF ScanMiss, GroupsTypeOK, local
  <2>4. want[t] \in Types
    BY <1>0, <2>3 DEF KnowsExact, InLookUp
  <2> QED
    BY <2>1, <2>2, <2>3, <2>4, NothingStored
<1>5. CASE Lock(t)
  <2>1. GroupsTypeOK'
    BY <1>0, <1>5 DEF Lock, GroupsTypeOK, data, local
  <2>2. OwnerInside'
    BY <1>0, <1>5 DEF Lock, OwnerInside, GroupsTypeOK, Inside
  <2>3. /\ pc[t] = "lock" /\ pc'[t] = "locked" /\ want' = want /\ UNCHANGED data
        /\ \A u \in Threads : u # t => /\ pc'[u] = pc[u] /\ want'[u] = want[u] /\ i'[u] = i[u]
                                       /\ stores'[u] = stores[u] /\ ret'[u] = ret[u]
    BY <1>0, <1>5 DEF Lock, GroupsTypeOK, local
  <2>4. want[t] \in Types
    BY <1>0, <2>3 DEF KnowsExact, InLookUp
  <2> QED
    BY <2>1, <2>2, <2>3, <2>4, NothingStored
<1>6. CASE Finish(t)
  <2>1. GroupsTypeOK'
    BY <1>0, <1>6 DEF Finish, GroupsTypeOK, data
  <2>2. OwnerInside'
    BY <1>0, <1>6 DEF Finish, OwnerInside, GroupsTypeOK, Inside
  <2> QED
    BY <1>0, <1>6, <2>1, <2>2, NothingStored, ZenonT(60) DEF Finish, GroupsTypeOK, InLookUp
<1>7. CASE LockedHit(t)
  <2>1. PICK g \in Groups : /\ fileGroupData[g].type = want[t]
                            /\ ret' = [ret EXCEPT ![t] = g] /\ pc' = [pc EXCEPT ![t] = "unlock"]
    BY <1>7 DEF LockedHit, Registered
  <2>2. GroupsTypeOK'
    BY <1>0, <1>7, <2>1 DEF LockedHit, GroupsTypeOK, data
  <2>3. OwnerInside'
    BY <1>0, <1>7, <2>1 DEF LockedHit, OwnerInside, GroupsTypeOK, Inside
  <2>4. TypeOf(ret'[t]) = want'[t] /\ pc'[t] = "unlock" /\ pc[t] = "locked"
    BY <1>0, <1>7, <2>1 DEF LockedHit, TypeOf, GroupsTypeOK
  <2> QED
    BY <1>0, <1>7, <2>1, <2>2, <2>3, <2>4, NothingStored, ZenonT(60)
       DEF LockedHit, GroupsTypeOK, InLookUp, KnowsExact
<1>8. CASE CannotCreate(t) \/ InitFileListFails(t) \/ InitDaosFails(t)
  <2>1. GroupsTypeOK'
    <3>1. /\ pc' = [pc EXCEPT ![t] = "unlock"] /\ ret' = [ret EXCEPT ![t] = NULL]
          /\ UNCHANGED <<data, mutex, want, i, loaded, stores>>
      BY <1>8 DEF CannotCreate, InitFileListFails, InitDaosFails
    <3> QED
      BY <1>0, <3>1 DEF GroupsTypeOK, data
  <2>2. OwnerInside'
    BY <1>0, <1>8 DEF CannotCreate, InitFileListFails, InitDaosFails, OwnerInside, GroupsTypeOK, Inside
  <2>3. pc[t] = "fill" => (TypeOf(i[t]) # 0 <=> i[t] <= fileGroupsUsed)
    <3> SUFFICES ASSUME pc[t] = "fill" PROVE TypeOf(i[t]) # 0 /\ i[t] <= fileGroupsUsed
      OBVIOUS
    <3>1. stores[t] = {}
      BY <1>8 DEF CannotCreate, InitFileListFails, InitDaosFails
    <3>2. want[t] \in Types /\ FillExact(t)
      BY <1>0 DEF KnowsExact, InLookUp
    <3> QED
      BY <1>0, <3>1, <3>2 DEF FillExact, NoTypeZero
  <2>4. /\ pc'[t] = "unlock" /\ ret'[t] = NULL /\ want' = want
        /\ pc[t] \in InLookUp
    BY <1>0, <1>8 DEF CannotCreate, InitFileListFails, InitDaosFails, GroupsTypeOK, InLookUp
  <2>5. /\ UNCHANGED data
        /\ \A u \in Threads : u # t => /\ pc'[u] = pc[u] /\ want'[u] = want[u] /\ i'[u] = i[u]
                                       /\ stores'[u] = stores[u] /\ ret'[u] = ret[u]
    BY <1>0, <1>8 DEF CannotCreate, InitFileListFails, InitDaosFails, GroupsTypeOK
  <2> QED
    BY <1>0, <2>1, <2>2, <2>3, <2>4, <2>5, NothingStored DEF KnowsExact
<1>9. CASE Create(t)
  <2>1. GroupsTypeOK'
    BY <1>0, <1>9 DEF Create, GroupsTypeOK, data
  <2>2. OwnerInside'
    BY <1>0, <1>9 DEF Create, OwnerInside, GroupsTypeOK, Inside
  <2>3. /\ pc[t] = "locked" /\ pc'[t] = "fill" /\ i'[t] = fileGroupsUsed + 1
        /\ stores'[t] = {"used", "type", "numItemsPerFile"} /\ want' = want /\ UNCHANGED data
        /\ fileGroupsUsed + 1 \in Groups
    BY <1>0, <1>9 DEF Create, GroupsTypeOK, data
  <2>4. \A u \in Threads : pc[u] # "fill"
    BY <1>0, <2>3 DEF OwnerInside, Inside
  <2>5. \A g \in Groups : TypeOf(g) # 0 <=> g <= fileGroupsUsed
    BY <1>0, <2>4 DEF GroupsExact
  <2>6. want[t] \in Types /\ want[t] # 0
    BY <1>0, <2>3 DEF KnowsExact, InLookUp, NoTypeZero
  <2>7. \A g \in Groups : TypeOf(g) # want[t]
    BY <1>9, <2>5, <2>6 DEF Create, Registered, TypeOf
  <2>8. TypeOf(fileGroupsUsed + 1) = 0
    BY <1>0, <2>3, <2>5
  <2>9. FillExact(t)'
    BY <2>3, <2>7, <2>8 DEF FillExact, TypeOf, data
  <2> QED
    BY <1>0, <1>9, <2>1, <2>2, <2>3, <2>6, <2>9, NothingStored DEF Create, GroupsTypeOK
<1>10. CASE Unlock(t)
  <2>1. GroupsTypeOK'
    BY <1>0, <1>10 DEF Unlock, GroupsTypeOK, data, local
  <2>2. OwnerInside'
    BY <1>0, <1>10 DEF Unlock, OwnerInside, GroupsTypeOK, Inside
  <2>3. /\ pc[t] = "unlock" /\ pc'[t] = "done" /\ want' = want /\ UNCHANGED data
        /\ \A u \in Threads : u # t => /\ pc'[u] = pc[u] /\ want'[u] = want[u] /\ i'[u] = i[u]
                                       /\ stores'[u] = stores[u] /\ ret'[u] = ret[u]
    BY <1>0, <1>10 DEF Unlock, GroupsTypeOK, local
  <2> QED
    BY <2>1, <2>2, <2>3, NothingStored DEF InLookUp
<1> QED
  BY <1>1, <1>2, <1>3, <1>4, <1>5, <1>6, <1>7, <1>8, <1>9, <1>10 DEF Search

-----------------------------------------------------------------------------
\* Setting a field of a group keeps the table well typed.
GroupRecords == [type : Types \cup {0}, numItemsPerFile : BOOLEAN,
                 fileList : BOOLEAN, Daos : BOOLEAN]

\* A store into one field leaves a record of the same fields.
LEMMA FieldsTyped ==
  ASSUME GroupsTypeOK, NEW g \in Groups, NEW ty \in Types
  PROVE  /\ [fileGroupData EXCEPT ![g].type = ty] \in [Groups -> GroupRecords]
         /\ [fileGroupData EXCEPT ![g].numItemsPerFile = TRUE] \in [Groups -> GroupRecords]
         /\ [fileGroupData EXCEPT ![g].fileList = TRUE] \in [Groups -> GroupRecords]
         /\ [fileGroupData EXCEPT ![g].Daos = TRUE] \in [Groups -> GroupRecords]
<1> DEFINE r == fileGroupData[g]
<1>1. fileGroupData \in [Groups -> GroupRecords]
  BY DEF GroupsTypeOK, GroupRecords
<1>2. /\ [r EXCEPT !.type = ty] \in GroupRecords
      /\ [r EXCEPT !.numItemsPerFile = TRUE] \in GroupRecords
      /\ [r EXCEPT !.fileList = TRUE] \in GroupRecords
      /\ [r EXCEPT !.Daos = TRUE] \in GroupRecords
  BY <1>1 DEF GroupRecords
<1> QED
  BY <1>1, <1>2

\* The stores of the owner that fills in a group.
LEMMA StoreStep ==
  ASSUME NoTypeZero, GroupsInv, NEW t \in Threads,
         \/ StoreUsed(t) \/ StoreType(t) \/ StoreNumItemsPerFile(t)
         \/ InitFileList(t) \/ InitDaos(t)
  PROVE  GroupsInv'
<1> USE FileGroupsAssumption DEF Goto, Return, Groups
<1>0. /\ GroupsTypeOK /\ OwnerInside /\ KnowsExact /\ GroupsExact
      /\ fileGroupsUsed \in 0 .. MAX_DIFFERENT_ENTRY_TYPES /\ MAX_DIFFERENT_ENTRY_TYPES \in Nat
  BY DEF GroupsInv, GroupsTypeOK
<1>1. /\ pc[t] \in {"fill", "daos"}
      /\ \A u \in Threads : u # t => /\ pc'[u] = pc[u] /\ want'[u] = want[u] /\ i'[u] = i[u]
                                     /\ stores'[u] = stores[u] /\ ret'[u] = ret[u]
      /\ want' = want /\ i' = i /\ mutex' = mutex /\ pc'[t] \in {"fill", "daos", "unlock"}
  BY <1>0
  DEF StoreUsed, StoreType, StoreNumItemsPerFile, StoreField, InitFileList, InitDaos,
      GroupsTypeOK, local
<1>2. want[t] \in Types /\ want[t] # 0 /\ i[t] \in Groups
  BY <1>0, <1>1 DEF KnowsExact, InLookUp, FillExact, NoTypeZero
<1>3. \A u \in Threads : u # t => pc[u] \notin Inside
  BY <1>0, <1>1 DEF OwnerInside, Inside
<1>4. OwnerInside'
  BY <1>0, <1>1 DEF OwnerInside, Inside
<1>5. pc[t] = "fill" => FillExact(t)
  BY <1>0 DEF KnowsExact
<1>6. \A g \in Groups : g # i[t] => (TypeOf(g) # 0 <=> g <= fileGroupsUsed)
  BY <1>0, <1>3 DEF GroupsExact, Inside
<1>7. SUFFICES ASSUME \A u \in Threads : u # t => pc'[u] \notin Inside,
                      \A u \in Threads : u # t /\ pc'[u] \in InLookUp => want'[u] \in Types
               PROVE  GroupsTypeOK' /\ KnowsExact' /\ GroupsExact'
  <2>1. \A u \in Threads : u # t => pc'[u] \notin Inside
    BY <1>1, <1>3
  <2>2. \A u \in Threads : u # t /\ pc'[u] \in InLookUp => want'[u] \in Types
    BY <1>0, <1>1 DEF KnowsExact
  <2> QED
    BY <1>4, <2>1, <2>2 DEF GroupsInv
<1>8. ASSUME pc'[t] = "fill", FillExact(t)' PROVE KnowsExact'
  BY <1>1, <1>2, <1>7, <1>8 DEF KnowsExact, Inside
<1>9. CASE StoreUsed(t)
  <2>1. /\ pc[t] = "fill" /\ pc' = pc /\ stores' = [stores EXCEPT ![t] = stores[t] \ {"used"}]
        /\ "used" \in stores[t] /\ fileGroupsUsed' = fileGroupsUsed + 1
        /\ fileGroupData' = fileGroupData /\ UNCHANGED <<mutex, want, i, loaded, ret>>
    BY <1>9 DEF StoreUsed, StoreField
  <2>2. i[t] = fileGroupsUsed + 1
    BY <1>5, <2>1 DEF FillExact
  <2>3. GroupsTypeOK'
    BY <1>0, <1>2, <2>1, <2>2 DEF GroupsTypeOK
  <2>4. FillExact(t)'
    BY <1>0, <1>2, <1>5, <2>1, <2>2 DEF FillExact, TypeOf, GroupsTypeOK
  <2>5. GroupsExact'
    BY <1>0, <1>6, <2>1, <2>2 DEF GroupsExact, TypeOf
  <2> QED
    BY <1>8, <2>1, <2>3, <2>4, <2>5
<1>10. CASE StoreType(t)
  <2>1. /\ pc[t] = "fill" /\ pc' = pc /\ stores' = [stores EXCEPT ![t] = stores[t] \ {"type"}]
        /\ "type" \in stores[t] /\ fileGroupsUsed' = fileGroupsUsed
        /\ fileGroupData' = [fileGroupData EXCEPT ![i[t]].type = want[t]]
        /\ UNCHANGED <<mutex, want, i, loaded, ret>>
    BY <1>10 DEF StoreType, StoreField
  <2>2. TypeOf(i[t]) = 0 /\ \A g \in Groups : TypeOf(g) # want[t]
    BY <1>5, <2>1 DEF FillExact
  <2>3. TypeOf(i[t])' = want[t] /\ \A g \in Groups : g # i[t] => TypeOf(g)' = TypeOf(g)
    BY <1>0, <1>2, <2>1 DEF TypeOf, GroupsTypeOK
  <2>4. GroupsTypeOK'
    BY <1>0, <1>2, <2>1, FieldsTyped, ZenonT(60) DEF GroupsTypeOK, GroupRecords
  <2>5. FillExact(t)'
    BY <1>0, <1>2, <1>5, <2>1, <2>3 DEF FillExact, GroupsTypeOK
  <2>6. GroupsExact'
    BY <1>0, <1>2, <1>6, <2>1, <2>2, <2>3 DEF GroupsExact
  <2> QED
    BY <1>8, <2>1, <2>4, <2>5, <2>6
<1>11. CASE StoreNumItemsPerFile(t)
  <2>1. /\ pc[t] = "fill" /\ pc' = pc
        /\ stores' = [stores EXCEPT ![t] = stores[t] \ {"numItemsPerFile"}]
        /\ fileGroupsUsed' = fileGroupsUsed
        /\ fileGroupData' = [fileGroupData EXCEPT ![i[t]].numItemsPerFile = TRUE]
        /\ UNCHANGED <<mutex, want, i, loaded, ret>>
    BY <1>11 DEF StoreNumItemsPerFile, StoreField
  <2>2. \A g \in Groups : TypeOf(g)' = TypeOf(g)
    BY <1>0, <1>2, <2>1 DEF TypeOf, GroupsTypeOK
  <2>3. GroupsTypeOK'
    BY <1>0, <1>2, <2>1, FieldsTyped DEF GroupsTypeOK, GroupRecords
  <2>4. TypeOf(i[t])' = TypeOf(i[t])
    BY <1>2, <2>1, <2>2
  <2>5. FillExact(t)'
    BY <1>0, <1>2, <1>5, <2>1, <2>2, <2>4 DEF FillExact, GroupsTypeOK
  <2>6. GroupsExact'
    BY <1>0, <1>6, <2>1, <2>2 DEF GroupsExact
  <2> QED
    BY <1>8, <2>1, <2>3, <2>5, <2>6
<1>12. CASE InitFileList(t)
  <2>1. /\ pc[t] = "fill" /\ pc' = [pc EXCEPT ![t] = "daos"] /\ stores[t] = {}
        /\ fileGroupsUsed' = fileGroupsUsed
        /\ fileGroupData' = [fileGroupData EXCEPT ![i[t]].fileList = TRUE]
        /\ UNCHANGED <<mutex, want, i, loaded, stores, ret>>
    BY <1>12 DEF InitFileList, local
  <2>2. \A g \in Groups : TypeOf(g)' = TypeOf(g)
    BY <1>0, <1>2, <2>1 DEF TypeOf, GroupsTypeOK
  <2>3. GroupsTypeOK'
    BY <1>0, <1>2, <2>1, FieldsTyped DEF GroupsTypeOK, GroupRecords
  <2>4. TypeOf(i[t]) = want[t] /\ i[t] = fileGroupsUsed
    BY <1>5, <2>1 DEF FillExact
  <2>5. pc'[t] = "daos" /\ TypeOf(i[t])' = want'[t]
    BY <1>0, <1>2, <2>1, <2>2, <2>4 DEF GroupsTypeOK
  <2>6. KnowsExact'
    BY <1>1, <1>2, <1>7, <2>5 DEF KnowsExact, Inside
  <2>7. GroupsExact'
    BY <1>0, <1>2, <1>6, <2>1, <2>2, <2>4 DEF GroupsExact
  <2> QED
    BY <2>3, <2>6, <2>7
<1>13. CASE InitDaos(t)
  <2>1. /\ pc[t] = "daos" /\ pc' = [pc EXCEPT ![t] = "unlock"] /\ ret' = [ret EXCEPT ![t] = i[t]]
        /\ fileGroupsUsed' = fileGroupsUsed
        /\ fileGroupData' = [fileGroupData EXCEPT ![i[t]].Daos = TRUE]
        /\ UNCHANGED <<mutex, want, i, loaded, stores>>
    BY <1>13 DEF InitDaos
  <2>2. \A g \in Groups : TypeOf(g)' = TypeOf(g)
    BY <1>0, <1>2, <2>1 DEF TypeOf, GroupsTypeOK
  <2>3. GroupsTypeOK'
    BY <1>0, <1>2, <2>1, FieldsTyped DEF GroupsTypeOK, GroupRecords
  <2>4. TypeOf(i[t]) = want[t]
    BY <1>0, <2>1 DEF KnowsExact
  <2>5. pc'[t] = "unlock" /\ ret'[t] = i[t]
    BY <1>0, <2>1 DEF GroupsTypeOK
  <2>6. TypeOf(ret[t])' = want'[t]
    <3>1. TypeOf(ret[t])' = TypeOf(i[t])'
      BY <2>1, <2>5 DEF TypeOf
    <3> QED
      BY <1>2, <2>1, <2>2, <2>4, <3>1
  <2>7. KnowsExact'
    BY <1>1, <1>2, <1>7, <2>5, <2>6 DEF KnowsExact, Inside
  <2>8. \A u \in Threads : pc[u] # "fill" /\ pc'[u] # "fill"
    BY <1>3, <1>7, <2>1, <2>5 DEF Inside
  <2>9. GroupsExact'
    BY <1>0, <2>1, <2>2, <2>8 DEF GroupsExact
  <2> QED
    BY <2>3, <2>7, <2>9
<1> QED
  BY <1>9, <1>10, <1>11, <1>12, <1>13

\* The invariant is inductive: one step for each action.
LEMMA NextGroupsInv == NoTypeZero /\ GroupsInv /\ [NextGroups]_groupVars => GroupsInv'
<1> SUFFICES ASSUME NoTypeZero, GroupsInv, [NextGroups]_groupVars PROVE GroupsInv'
  OBVIOUS
<1>1. CASE UNCHANGED groupVars
  BY <1>1
  DEF groupVars, data, local, GroupsInv, GroupsTypeOK, OwnerInside, KnowsExact, FillExact,
      GroupsExact, TypeOf
<1>2. ASSUME NEW t \in Threads, \/ \E ty \in Types : Call(t, ty)
                                \/ Search(t) \/ Lock(t) \/ LockedStep(t) \/ Finish(t)
      PROVE  GroupsInv'
  BY <1>2, QuietStep, StoreStep DEF LockedStep
<1> QED
  BY <1>1, <1>2 DEF NextGroups

\* The invariant holds in every reachable state.
THEOREM GroupsInvariant ==
  ASSUME NoTypeZero
  PROVE  SpecGroups => []GroupsInv
BY InitGroupsInv, NextGroupsInv, PTL DEF SpecGroups

\* The table of groups and the state of the look-ups are well typed; the table never
\* overflows and no search reads behind it.
THEOREM GroupsTypeCorrect ==
  ASSUME NoTypeZero
  PROVE  SpecGroups => []GroupsTypeOK
<1>1. GroupsInv => GroupsTypeOK
  BY DEF GroupsInv
<1> QED
  BY <1>1, GroupsInvariant, PTL

-----------------------------------------------------------------------------
(***************************************************************************)
(* The table implements GroupRegistry.                                     *)
(***************************************************************************)
GroupSet    == {<<fileGroupData[g].type, g>> : g \in {h \in Groups : fileGroupData[h].type # 0}}
AskedSet    == {<<t, want[t]>> : t \in {u \in Threads : pc[u] \in InLookUp}}
AnsweredSet == {<<t, want[t], ret[t]>> : t \in {u \in Threads : pc[u] = "done"}}

Others(t) ==
  \A u \in Threads : u # t => pc'[u] = pc[u] /\ want'[u] = want[u] /\ ret'[u] = ret[u]

\* A look-up that returns leaves the open ones and joins those that returned.
LEMMA ReturnIsAnswer ==
  ASSUME GroupsTypeOK, NEW t \in Threads, NEW g,
         pc[t] \in InLookUp, pc'[t] = "done", Others(t), want' = want, ret'[t] = g
  PROVE  /\ AskedSet' = AskedSet \ {<<t, want[t]>>}
         /\ AnsweredSet' = AnsweredSet \cup {<<t, want[t], g>>}
<1>1. /\ \A u \in Threads : u # t => (pc'[u] \in InLookUp <=> pc[u] \in InLookUp)
                                   /\ (pc'[u] = "done" <=> pc[u] = "done")
      /\ pc'[t] \notin InLookUp /\ pc[t] # "done"
  BY DEF Others, InLookUp
<1>2. AskedSet' = AskedSet \ {<<t, want[t]>>}
  BY <1>1 DEF AskedSet
<1>3. AnsweredSet' = AnsweredSet \cup {<<t, want[t], g>>}
  BY <1>1 DEF AnsweredSet, Others
<1> QED
  BY <1>2, <1>3

\* A step inside a look-up is not visible in the registry, except the store of a type.
LEMMA InsideIsSilent ==
  ASSUME NEW t \in Threads, Others(t), want' = want,
         pc[t] \in InLookUp, pc'[t] \in InLookUp
  PROVE  UNCHANGED <<AskedSet, AnsweredSet>>
<1>1. \A u \in Threads : /\ (pc'[u] \in InLookUp <=> pc[u] \in InLookUp)
                         /\ (pc'[u] = "done" <=> pc[u] = "done")
                         /\ pc[u] = "done" => ret'[u] = ret[u]
  BY DEF Others, InLookUp
<1> QED
  BY <1>1 DEF AskedSet, AnsweredSet

\* Who is in which group depends on the types and the count alone.
LEMMA SameTypesSameGroups ==
  ASSUME \A g \in Groups : TypeOf(g)' = TypeOf(g)
  PROVE  GroupSet' = GroupSet
BY DEF GroupSet, TypeOf

\* Every step of the table is a step of the registry, or none.
LEMMA StepRefines ==
  NoTypeZero /\ GroupsInv /\ [NextGroups]_groupVars => [Registry!Next]_(Registry!vars)
<1> SUFFICES ASSUME NoTypeZero, GroupsInv, [NextGroups]_groupVars PROVE [Registry!Next]_(Registry!vars)
  OBVIOUS
<1> USE FileGroupsAssumption
<1>0. /\ GroupsTypeOK /\ OwnerInside /\ KnowsExact /\ GroupsExact
      /\ \A t \in Threads : pc[t] \in InLookUp => want[t] \in Types /\ want[t] # 0
  BY DEF GroupsInv, KnowsExact, NoTypeZero
<1>s. ASSUME UNCHANGED <<GroupSet, AskedSet, AnsweredSet>> PROVE UNCHANGED Registry!vars
  BY <1>s DEF Registry!vars, GroupSet, AskedSet, AnsweredSet
<1>d. ASSUME UNCHANGED data PROVE UNCHANGED GroupSet
  BY <1>d DEF data, GroupSet
<1>1. ASSUME NEW t \in Threads, NEW ty \in Types, Call(t, ty) PROVE Registry!Next
  <2>1. /\ pc[t] = "idle" /\ pc'[t] = "scan" /\ want'[t] = ty /\ Others(t) /\ UNCHANGED GroupSet
    BY <1>0, <1>1, <1>d DEF Call, Goto, Others, GroupsTypeOK
  <2>2. /\ \A r \in AskedSet : r[1] # t
        /\ \A r \in AnsweredSet : r[1] # t
    BY <2>1 DEF AskedSet, AnsweredSet, InLookUp
  <2>3. AskedSet' = AskedSet \cup {<<t, ty>>} /\ AnsweredSet' = AnsweredSet
    BY <2>1 DEF AskedSet, AnsweredSet, Others, InLookUp
  <2>4. Registry!Ask(t, ty)
    BY <2>1, <2>2, <2>3 DEF Registry!Ask, GroupSet, AskedSet, AnsweredSet
  <2> QED
    BY <2>4 DEF Registry!Next
<1>a. ASSUME NEW t \in Threads, NEW ty \in Types, NEW g \in Groups \cup {NULL},
             ty = want[t], pc[t] \in InLookUp, pc'[t] = "done", Others(t), want' = want, ret'[t] = g,
             UNCHANGED data, g = NULL \/ TypeOf(g) = ty
      PROVE  Registry!Next
  <2>1. /\ AskedSet' = AskedSet \ {<<t, ty>>}
        /\ AnsweredSet' = AnsweredSet \cup {<<t, ty, g>>}
    BY <1>0, <1>a, ReturnIsAnswer
  <2>2. <<t, ty>> \in AskedSet
    BY <1>a DEF AskedSet
  <2>3. <<ty, g>> \in GroupSet \/ g = NULL
    BY <1>0, <1>a DEF GroupSet, TypeOf
  <2>4. Registry!Answer(t, ty, g)
    BY <1>a, <1>d, <2>1, <2>2, <2>3 DEF Registry!Answer, GroupSet, AskedSet, AnsweredSet
  <2> QED
    BY <2>4 DEF Registry!Next
<1>2. ASSUME NEW t \in Threads, ScanHit(t) PROVE Registry!Next
  <2>1. /\ pc[t] = "scan" /\ pc'[t] = "done" /\ Others(t) /\ want' = want /\ ret'[t] = i[t]
        /\ UNCHANGED data /\ i[t] \in Groups /\ TypeOf(i[t]) = want[t]
    BY <1>0, <1>2 DEF ScanHit, Return, Goto, Others, GroupsTypeOK, TypeOf, Groups
  <2>2. PICK g, ty : g = i[t] /\ ty = want[t]
    OBVIOUS
  <2>3. TypeOf(g) = ty
    BY <2>1, <2>2
  <2>4. ty \in Types /\ g \in Groups /\ pc[t] \in InLookUp
    BY <1>0, <2>1, <2>2 DEF InLookUp
  <2> QED
    BY <1>a, <2>1, <2>2, <2>3, <2>4
<1>3. ASSUME NEW t \in Threads, Unlock(t) PROVE Registry!Next
  <2>1. /\ pc[t] = "unlock" /\ pc'[t] = "done" /\ Others(t) /\ want' = want /\ ret' = ret
        /\ UNCHANGED data /\ ret[t] \in Groups \cup {NULL}
        /\ ret[t] = NULL \/ TypeOf(ret[t]) = want[t]
    BY <1>0, <1>3 DEF Unlock, Goto, Others, GroupsTypeOK, KnowsExact, local
  <2>2. PICK g, ty : g = ret[t] /\ ty = want[t]
    OBVIOUS
  <2>3. g = NULL \/ TypeOf(g) = ty
    BY <2>1, <2>2
  <2>4. ty \in Types /\ g \in Groups \cup {NULL} /\ pc[t] \in InLookUp
    BY <1>0, <2>1, <2>2 DEF InLookUp
  <2> QED
    BY <1>a, <2>1, <2>2, <2>3, <2>4
<1>4. ASSUME NEW t \in Threads, Finish(t) PROVE Registry!Next
  <2>1. pc[t] = "done" /\ pc'[t] = "idle" /\ Others(t) /\ UNCHANGED GroupSet
    BY <1>0, <1>4, <1>d DEF Finish, Return, Goto, Others, GroupsTypeOK
  <2>2. \E r \in AnsweredSet : r[1] = t
    <3>1. <<t, want[t], ret[t]>> \in AnsweredSet
      BY <2>1 DEF AnsweredSet
    <3>2. <<t, want[t], ret[t]>>[1] = t
      OBVIOUS
    <3> QED
      BY <3>1, <3>2
  <2>3. AnsweredSet' = {r \in AnsweredSet : r[1] # t} /\ AskedSet' = AskedSet
    BY <2>1 DEF AnsweredSet, AskedSet, Others, InLookUp
  <2>4. Registry!Leave(t)
    BY <2>1, <2>2, <2>3 DEF Registry!Leave, GroupSet, AskedSet, AnsweredSet
  <2> QED
    BY <2>4 DEF Registry!Next
<1>5. ASSUME NEW t \in Threads, StoreType(t) PROVE Registry!Next
  <2>1. /\ pc[t] = "fill" /\ pc' = pc /\ want' = want /\ ret' = ret
        /\ fileGroupData' = [fileGroupData EXCEPT ![i[t]].type = want[t]]
        /\ i[t] \in Groups /\ TypeOf(i[t]) = 0 /\ \A g \in Groups : TypeOf(g) # want[t]
        /\ want[t] \in Types /\ want[t] # 0
    BY <1>0, <1>5 DEF StoreType, StoreField, KnowsExact, FillExact, InLookUp
  <2>2. PICK g \in Groups, ty \in Types : g = i[t] /\ ty = want[t]
    BY <2>1
  <2>3. TypeOf(g)' = ty /\ \A h \in Groups : h # g => TypeOf(h)' = TypeOf(h)
    BY <1>0, <2>1, <2>2 DEF TypeOf, GroupsTypeOK
  <2>4. GroupSet' = GroupSet \cup {<<ty, g>>}
    BY <2>1, <2>2, <2>3 DEF GroupSet, TypeOf
  <2>5. \A r \in GroupSet : r[1] # ty /\ r[2] # g
    BY <2>1, <2>2 DEF GroupSet, TypeOf
  <2>6. UNCHANGED <<AskedSet, AnsweredSet>>
    BY <2>1 DEF AskedSet, AnsweredSet
  <2>7. Registry!Register(ty, g)
    BY <2>4, <2>5, <2>6 DEF Registry!Register, GroupSet, AskedSet, AnsweredSet
  <2> QED
    BY <2>7 DEF Registry!Next
<1>6. ASSUME NEW t \in Threads,
             \/ ScanNext(t) \/ ScanMiss(t) \/ Lock(t) \/ LockedHit(t) \/ CannotCreate(t)
             \/ Create(t) \/ StoreUsed(t) \/ InitFileListFails(t) \/ InitDaosFails(t)
      PROVE  UNCHANGED Registry!vars
  <2>1. fileGroupData' = fileGroupData /\ want' = want /\ Others(t)
        /\ pc[t] \in InLookUp /\ pc'[t] \in InLookUp
    BY <1>0, <1>6 DEF ScanNext, ScanMiss, Lock, LockedHit, CannotCreate, Create, StoreUsed, StoreField,
         InitFileListFails, InitDaosFails, Return, Goto, Others, GroupsTypeOK, InLookUp, data, local
  <2>2. UNCHANGED GroupSet
    BY <2>1 DEF GroupSet
  <2> QED
    BY <1>s, <2>1, <2>2, InsideIsSilent
<1>7. ASSUME NEW t \in Threads, StoreNumItemsPerFile(t) \/ InitFileList(t) \/ InitDaos(t)
      PROVE  UNCHANGED Registry!vars
  <2>1. want' = want /\ Others(t) /\ pc[t] \in InLookUp /\ pc'[t] \in InLookUp
    BY <1>0, <1>7 DEF StoreNumItemsPerFile, StoreField, InitFileList, InitDaos, Return, Goto, Others,
         GroupsTypeOK, InLookUp, local
  <2>2. i[t] \in Groups
    BY <1>0, <1>7 DEF StoreNumItemsPerFile, StoreField, InitFileList, InitDaos, KnowsExact, FillExact
  <2>3. \A g \in Groups : TypeOf(g)' = TypeOf(g)
    BY <1>0, <1>7, <2>2 DEF StoreNumItemsPerFile, InitFileList, InitDaos, TypeOf, GroupsTypeOK
  <2> QED
    BY <1>s, <2>1, <2>3, InsideIsSilent, SameTypesSameGroups
<1>8. CASE UNCHANGED groupVars
  <2>1. UNCHANGED <<GroupSet, AskedSet, AnsweredSet>>
    BY <1>8 DEF groupVars, data, local, GroupSet, AskedSet, AnsweredSet
  <2> QED
    BY <1>s, <2>1
<1> QED
  BY <1>1, <1>2, <1>3, <1>4, <1>5, <1>6, <1>7, <1>8 DEF NextGroups, Search, LockedStep

\* One group per type, for good, and every look-up answered with the group of its type
\* or with NULL: for any number of threads and types, although the first search of a
\* look-up races with the thread that fills in a group.
THEOREM RefinesGroupRegistry ==
  ASSUME NoTypeZero
  PROVE  SpecGroups => ImplementsRegistry
<1>1. InitGroups => Registry!Init
  BY DEF InitGroups, Registry!Init, InLookUp
<1>2. GroupsInv /\ [NextGroups]_groupVars => [Registry!Next]_(Registry!vars)
  BY StepRefines
<1>3. GroupsInv /\ [NextGroups]_groupVars => GroupsInv'
  BY NextGroupsInv
<1> QED
  BY <1>1, <1>2, <1>3, InitGroupsInv, PTL DEF SpecGroups, ImplementsRegistry, Registry!Spec
===============================================================================
