-------------------------- MODULE CacheEngineProofs --------------------------
(***************************************************************************)
(* The cache shows what the files contain, and all of it is within reach   *)
(* of the searches; the engine knows how many items there are, and the     *)
(* greatest and the smallest id; no item gives way to an older version:    *)
(* for any ids, files, request threads, loading threads and capacity of    *)
(* the list of pending items, with the exceptions that the properties      *)
(* name, of which one loading thread does not need those about loading.    *)
(***************************************************************************)
EXTENDS CacheEngine, FiniteSetTheorems, SequenceTheorems, WellFoundedInduction, TLAPS

-----------------------------------------------------------------------------
\* The least element of a set of naturals, and the greatest of a finite one.
LEMMA MinIs ==
  ASSUME NEW S \in SUBSET Nat, S # {}
  PROVE  Min(S) \in S /\ \A y \in S : Min(S) <= y
<1>1. \E x \in S : \A y \in S : ~ (<<y, x>> \in OpToRel(<, Nat))
  BY NatLessThanWellFounded, WFMin, ZenonT(30)
<1>2. PICK x \in S : \A y \in S : ~ (<<y, x>> \in OpToRel(<, Nat))
  BY <1>1
<1>3. ASSUME NEW y \in S PROVE x <= y
  <2>1. ~ (y < x)
    BY <1>2, <1>3 DEF OpToRel
  <2> QED
    BY <1>3, <2>1
<1> QED
  BY <1>3 DEF Min

\* Of the finite sets of naturals without a greatest element one of the smallest would
\* have one when an element is taken away, and so have one.
LEMMA MaxExists ==
  ASSUME NEW S \in SUBSET Nat, S # {}, IsFiniteSet(S)
  PROVE  \E x \in S : \A y \in S : x >= y
<1> DEFINE Greatest(T) == \E x \in T : \A y \in T : x >= y
           Bad(n) == \E T \in SUBSET Nat : IsFiniteSet(T) /\ T # {} /\ Cardinality(T) = n /\ ~ Greatest(T)
           sizes == {n \in Nat : Bad(n)}
<1> SUFFICES sizes = {}
  BY FS_CardinalityType
<1> SUFFICES ASSUME sizes # {} PROVE FALSE
  OBVIOUS
<1>1. PICK n \in sizes : \A m \in sizes : n <= m
  <2>1. sizes \in SUBSET Nat
    OBVIOUS
  <2> HIDE DEF sizes
  <2> QED
    BY <2>1, MinIs
<1>2. PICK T \in SUBSET Nat : IsFiniteSet(T) /\ T # {} /\ Cardinality(T) = n /\ ~ Greatest(T)
  BY <1>1
<1>3. PICK a \in T : TRUE
  BY <1>2
<1> DEFINE U == T \ {a}
<1>4. IsFiniteSet(U) /\ Cardinality(U) = n - 1 /\ U \in SUBSET Nat
  BY <1>2, <1>3, FS_RemoveElement
<1>5. CASE U = {}
  <2>1. T = {a}
    BY <1>3, <1>5
  <2> QED
    BY <1>2, <2>1
<1>6. CASE U # {}
  <2>1. n - 1 \in Nat
    BY <1>4, FS_CardinalityType
  <2>2. n - 1 \notin sizes
    BY <1>1, <2>1
  <2>3. Greatest(U)
    <3> HIDE DEF Greatest
    <3> QED
      BY <1>4, <1>6, <2>1, <2>2
  <2>4. PICK x \in U : \A y \in U : x >= y
    BY <2>3
  <2>5. x \in T /\ x \in Nat /\ a \in Nat
    BY <1>2, <1>3, <2>4
  <2>6. CASE x >= a
    BY <1>2, <2>4, <2>5, <2>6
  <2>7. CASE ~ (x >= a)
    <3>1. \A y \in T : a >= y
      BY <2>4, <2>5, <2>7
    <3> QED
      BY <1>2, <1>3, <3>1
  <2> QED
    BY <2>6, <2>7
<1> QED
  BY <1>5, <1>6

LEMMA MaxIs ==
  ASSUME NEW S \in SUBSET Nat, S # {}, IsFiniteSet(S)
  PROVE  Max(S) \in S /\ \A y \in S : Max(S) >= y
BY MaxExists DEF Max

-----------------------------------------------------------------------------
LoaderSet ==
  [at : {"load", "compare", "raise"}, ids : SUBSET Ids, id : {0} \cup Ids,
   found : [min : Nat, max : Nat, count : Nat]]
SaverSet ==
  [at : {"idle", "save", "release", "note", "store", "next"}, id : {0} \cup Ids,
   version : Nat, new : BOOLEAN, list : BOOLEAN]

Types ==
  /\ phase \in {"loading", "running", "failed"}
  /\ disk \in [Ids -> Nat] /\ cache \in [Ids -> Nat] /\ largest \in Nat
  /\ pending \in Seq(Ids \X Nat)
  /\ loader \in Seq(LoaderSet) /\ joined \in Nat
  /\ saver \in [Savers -> SaverSet]
  /\ \A s \in Savers : saver[s].at # "idle" => saver[s].id \in Ids

\* Loading and saving exclude each other.
Phases ==
  /\ phase # "running" => /\ \A s \in Savers : saver[s].at = "idle"
                          /\ pending = <<>>
  /\ phase # "loading" => loader = <<>>

\* While it is loaded an item is in the cache, or in a file that a thread still has to
\* read.  A thread that was joined has nothing left.
Loaded(id) == cache[id] = Cached(id, disk[id])
ToLoad(id) ==
  /\ cache[id] = 0 /\ disk[id] # 0
  /\ FileOf(id) \in todo \/ \E t \in DOMAIN loader : id \in loader[t].ids

LoadInv ==
  phase = "loading" =>
    /\ \A id \in Ids : Loaded(id) \/ ToLoad(id)
    /\ \A t \in DOMAIN loader :
         /\ loader[t].at # "load" => loader[t].id \in Ids
         /\ t <= joined => loader[t].at = "load" /\ loader[t].ids = {} /\ todo = {}
         /\ \A id \in loader[t].ids : disk[id] # 0

\* A saved item is in the cache, or alone in the list, or will be added to it.
InSave(s) == saver[s].at \in {"release", "note", "store"}
SaveOf(id) == \E s \in Savers : saver[s].id = id /\ InSave(s)
OnlyPending(id) == \E k \in DOMAIN pending : PendingAt(id) = {k} /\ pending[k] = <<id, disk[id]>>
Settled(id) == IF PendingAt(id) = {} THEN Loaded(id) ELSE OnlyPending(id)

SaveInv ==
  phase = "running" =>
    /\ \A s \in Savers : InSave(s) => saver[s].version <= disk[saver[s].id]
    /\ \A id \in Ids \ doubtful : SaveOf(id) \/ Settled(id)

CacheInv == Types /\ Phases /\ LoadInv /\ SaveInv /\ Searchable

LEMMA InitCacheInv == Init => CacheInv
<1> SUFFICES ASSUME Init PROVE CacheInv
  OBVIOUS
<1> USE CacheEngineAssumption DEF Init
<1>0. PICK n \in Loaders : loader = [t \in 1 .. n |-> NewLoader]
  OBVIOUS
<1>1. n \in Nat /\ DOMAIN loader = 1 .. n /\ \A t \in DOMAIN loader : loader[t] = NewLoader
  BY <1>0 DEF Loaders
<1>2. NewLoader \in LoaderSet
  BY DEF NewLoader, LoaderSet, NoInfo
<1>3. loader \in Seq(LoaderSet)
  BY <1>0, <1>1, <1>2
<1>4. Types
  BY <1>3 DEF Types, NewSaver, SaverSet, NoItems
<1>5. Phases
  BY DEF Phases, NewSaver
<1>6. LoadInv
  <2>1. \A id \in Ids : Loaded(id) \/ ToLoad(id)
    BY DEF Loaded, ToLoad, Cached, NoItems
  <2>2. \A t \in DOMAIN loader : loader[t].at = "load" /\ loader[t].ids = {} /\ t >= 1
    BY <1>1 DEF NewLoader
  <2> QED
    BY <1>1, <2>1, <2>2 DEF LoadInv
<1>7. SaveInv /\ Searchable
  BY DEF SaveInv, Searchable, NoItems
<1> QED
  BY <1>4, <1>5, <1>6, <1>7 DEF CacheInv

-----------------------------------------------------------------------------
\* A step of a loading thread: the others keep their places.
LEMMA LoaderSteps ==
  ASSUME CacheInv, NEW t, Loading(t), NEW l \in LoaderSet, SetLoader(t, l)
  PROVE  /\ loader \in Seq(LoaderSet) /\ loader' \in Seq(LoaderSet)
         /\ DOMAIN loader' = DOMAIN loader /\ t \in DOMAIN loader
         /\ loader'[t] = l /\ \A u \in DOMAIN loader \ {t} : loader'[u] = loader[u]
         /\ \A u \in DOMAIN loader : loader[u] \in LoaderSet
BY DEF CacheInv, Types, Loading, SetLoader

\* Loading changes nothing that a save has to do with.
LEMMA LoadKeeps ==
  ASSUME CacheInv, phase = "loading", phase' = "loading", UNCHANGED <<pending, saver>>
  PROVE  Phases' /\ SaveInv'
BY DEF CacheInv, Phases, SaveInv

LEMMA TakeFilesKeeps == ASSUME CacheInv, NEW t \in Loaders, TakeFiles(t) PROVE CacheInv'
<1>1. PICK S \in (SUBSET todo) \ {{}} :
        /\ todo' = todo \ S
        /\ SetLoader(t, [loader[t] EXCEPT !.ids = {id \in Ids : disk[id] # 0 /\ FileOf(id) \in S}])
  BY DEF TakeFiles
<1> DEFINE taken == {id \in Ids : disk[id] # 0 /\ FileOf(id) \in S}
           l == [loader[t] EXCEPT !.ids = taken]
<1>2. Loading(t) /\ loader[t].at = "load" /\ loader[t].ids = {} /\ loader[t] \in LoaderSet
  BY DEF TakeFiles, Loading, CacheInv, Types
<1>3. l \in LoaderSet /\ l.at = "load" /\ l.ids = taken /\ l.id = loader[t].id
  BY <1>2 DEF LoaderSet
<1> HIDE DEF l
<1>4. /\ loader' \in Seq(LoaderSet) /\ DOMAIN loader' = DOMAIN loader /\ t \in DOMAIN loader
      /\ loader'[t] = l /\ \A u \in DOMAIN loader \ {t} : loader'[u] = loader[u]
  BY <1>1, <1>2, <1>3, LoaderSteps DEF l
<1>5. UNCHANGED <<phase, disk, deleted, cache, largest, pending, joined, saver, blurred>>
  BY DEF TakeFiles, files, items
<1>6. Types'
  BY <1>4, <1>5 DEF CacheInv, Types
<1>7. Phases' /\ SaveInv'
  BY <1>2, <1>5, LoadKeeps DEF Loading
<1>8. LoadInv'
  <2>1. ASSUME NEW id \in Ids PROVE (Loaded(id) \/ ToLoad(id))'
    <3>1. Loaded(id) \/ ToLoad(id)
      BY <1>2 DEF CacheInv, LoadInv, Loading
    <3>2. CASE Loaded(id)
      BY <1>5, <3>2 DEF Loaded, Cached
    <3>3. CASE ToLoad(id)
      <4>1. CASE FileOf(id) \in S
        <5>1. id \in loader'[t].ids
          BY <1>3, <1>4, <3>3, <4>1 DEF ToLoad
        <5> QED
          BY <1>4, <1>5, <3>3, <5>1 DEF ToLoad
      <4>2. CASE FileOf(id) \in todo \ S
        BY <1>1, <1>5, <3>3, <4>2 DEF ToLoad
      <4>3. CASE FileOf(id) \notin todo
        <5>1. PICK u \in DOMAIN loader : id \in loader[u].ids
          BY <3>3, <4>3 DEF ToLoad
        <5>2. u # t
          BY <1>2, <5>1
        <5> QED
          BY <1>4, <1>5, <3>3, <5>1, <5>2 DEF ToLoad
      <4> QED
        BY <4>1, <4>2, <4>3
    <3> QED
      BY <3>1, <3>2, <3>3
  <2>2. ASSUME NEW u \in DOMAIN loader'
        PROVE  /\ loader'[u].at # "load" => loader'[u].id \in Ids
               /\ u <= joined' => loader'[u].at = "load" /\ loader'[u].ids = {} /\ todo' = {}
               /\ \A id \in loader'[u].ids : disk'[id] # 0
    <3>1. todo # {}
      BY <1>1
    <3>2. ~ (u <= joined)
      BY <1>2, <1>4, <3>1 DEF CacheInv, LoadInv, Loading
    <3> QED
      BY <1>2, <1>3, <1>4, <1>5, <3>2 DEF CacheInv, LoadInv, Loading
  <2> QED
    BY <2>1, <2>2 DEF LoadInv
<1>9. Searchable'
  BY <1>2, <1>3, <1>4, <1>5 DEF CacheInv, Searchable
<1> QED
  BY <1>6, <1>7, <1>8, <1>9 DEF CacheInv

LEMMA LoadItemKeeps == ASSUME CacheInv, NEW t \in Loaders, LoadItem(t) PROVE CacheInv'
<1> DEFINE id == Min(loader[t].ids)
           l == [loader[t] EXCEPT !.ids = @ \ {id}]
           counted == [l EXCEPT !.found.count = @ + 1]
           stored == [l EXCEPT !.at = "compare", !.id = id, !.found = Noted(@, id, id, 1)]
           gone == Cached(id, disk[id]) = 0
           next == IF gone THEN counted ELSE stored
<1>1. Loading(t) /\ loader[t].at = "load" /\ loader[t].ids # {} /\ loader[t] \in LoaderSet
  BY DEF LoadItem, Loading, CacheInv, Types
<1>2. loader[t].ids \in SUBSET Ids /\ Ids \in SUBSET Nat
        /\ loader[t].found \in [min : Nat, max : Nat, count : Nat]
  BY <1>1, CacheEngineAssumption DEF LoaderSet
<1>3. id \in loader[t].ids /\ id \in Ids /\ id \in Nat
  <2>1. loader[t].ids \in SUBSET Nat
    BY <1>2
  <2> QED
    BY <1>1, <1>2, <2>1, MinIs
<1>4. /\ next \in LoaderSet /\ next.ids = loader[t].ids \ {id}
      /\ gone => next.at = "load"
      /\ ~ gone => next.at = "compare" /\ next.id = id
  <2> HIDE DEF id
  <2>1. Noted(loader[t].found, id, id, 1) \in [min : Nat, max : Nat, count : Nat]
    BY <1>2, <1>3 DEF Noted
  <2>2. counted \in LoaderSet /\ counted.ids = loader[t].ids \ {id} /\ counted.at = "load"
    <3>1. l \in LoaderSet /\ l.ids = loader[t].ids \ {id} /\ l.at = "load"
            /\ l.found = loader[t].found
      BY <1>1, <1>2, <1>3 DEF LoaderSet
    <3> DEFINE found == [l.found EXCEPT !.count = @ + 1]
    <3>2. found \in [min : Nat, max : Nat, count : Nat]
      BY <1>2, <3>1
    <3>3. counted = [l EXCEPT !.found = found]
      BY <3>1 DEF LoaderSet
    <3> HIDE DEF found, l
    <3> QED
      BY <3>1, <3>2, <3>3 DEF LoaderSet
  <2>3. stored \in LoaderSet /\ stored.ids = loader[t].ids \ {id} /\ stored.at = "compare"
          /\ stored.id = id
    BY <1>1, <1>2, <1>3, <2>1 DEF LoaderSet
  <2> QED
    BY <2>2, <2>3
<1>5. SetLoader(t, next) /\ cache' = IF gone THEN cache ELSE [cache EXCEPT ![id] = disk[id]]
  BY DEF LoadItem
<1>6. UNCHANGED <<phase, disk, deleted, largest, pending, todo, joined, saver, blurred>>
  BY DEF LoadItem, files
<1> HIDE DEF next, id
<1>7. /\ loader' \in Seq(LoaderSet) /\ DOMAIN loader' = DOMAIN loader /\ t \in DOMAIN loader
      /\ loader'[t] = next /\ \A u \in DOMAIN loader \ {t} : loader'[u] = loader[u]
  BY <1>1, <1>4, <1>5, LoaderSteps
<1>8. disk \in [Ids -> Nat] /\ cache \in [Ids -> Nat]
  BY DEF CacheInv, Types
<1>9. Types'
  BY <1>3, <1>5, <1>6, <1>7, <1>8 DEF CacheInv, Types
<1>10. Phases' /\ SaveInv'
  BY <1>1, <1>6, LoadKeeps DEF Loading
<1>11. LoadInv'
  <2>1. ASSUME NEW k \in Ids PROVE (Loaded(k) \/ ToLoad(k))'
    <3>1. Loaded(k) \/ ToLoad(k)
      BY <1>1 DEF CacheInv, LoadInv, Loading
    <3>2. CASE k = id
      <4>1. gone => cache[id] = 0
        BY <3>1, <3>2 DEF Loaded, ToLoad
      <4>2. ~ gone => Cached(id, disk[id]) = disk[id]
        BY DEF Cached
      <4> QED
        BY <1>3, <1>5, <1>6, <1>8, <3>2, <4>1, <4>2 DEF Loaded, Cached
    <3>3. CASE k # id /\ Loaded(k)
      BY <1>5, <1>6, <1>8, <3>3 DEF Loaded, Cached
    <3>4. CASE k # id /\ ToLoad(k)
      <4>1. \A u \in DOMAIN loader : k \in loader[u].ids => k \in loader'[u].ids
        BY <1>4, <1>7, <3>4
      <4> QED
        BY <1>5, <1>6, <1>7, <1>8, <3>4, <4>1 DEF ToLoad
    <3> QED
      BY <3>1, <3>2, <3>3, <3>4
  <2>2. ASSUME NEW u \in DOMAIN loader'
        PROVE  /\ loader'[u].at # "load" => loader'[u].id \in Ids
               /\ u <= joined' => loader'[u].at = "load" /\ loader'[u].ids = {} /\ todo' = {}
               /\ \A k \in loader'[u].ids : disk'[k] # 0
    <3>1. ~ (t <= joined)
      BY <1>1 DEF CacheInv, LoadInv, Loading
    <3> QED
      BY <1>1, <1>3, <1>4, <1>6, <1>7, <3>1 DEF CacheInv, LoadInv, Loading
  <2> QED
    BY <2>1, <2>2 DEF LoadInv
<1>12. Searchable'
  <2> SUFFICES ASSUME "largest" \notin blurred, NEW k \in Ids, cache'[k] # 0
               PROVE  k <= largest \/ \E u \in DOMAIN loader : loader'[u].id = k /\ loader'[u].at # "load"
    BY <1>6, <1>7 DEF Searchable
  <2>1. CASE k = id /\ ~ gone
    BY <1>4, <1>7, <2>1
  <2>2. CASE ~ (k = id /\ ~ gone)
    <3>1. cache[k] # 0
      BY <1>5, <1>8, <2>2
    <3>2. k <= largest \/ \E u \in DOMAIN loader : loader[u].id = k /\ loader[u].at # "load"
      BY <3>1 DEF CacheInv, Searchable
    <3> QED
      BY <1>1, <1>7, <3>2
  <2> QED
    BY <2>1, <2>2
<1> QED
  BY <1>9, <1>10, <1>11, <1>12 DEF CacheInv

\* Compare and Raise: the thread stays with its item, or leaves it within reach.
LEMMA PlaceKeeps ==
  ASSUME CacheInv, NEW t \in Loaders, Compare(t) \/ Raise(t)
  PROVE  CacheInv'
<1> DEFINE place == IF Compare(t) /\ loader[t].id > largest THEN "raise" ELSE "load"
           l == [loader[t] EXCEPT !.at = place]
<1>1. Loading(t) /\ loader[t].at \in {"compare", "raise"} /\ loader[t] \in LoaderSet
  BY DEF Compare, Raise, Loading, CacheInv, Types
<1>2. loader[t].id \in Ids /\ loader[t].id \in Nat /\ largest \in Nat /\ ~ (t <= joined)
  BY <1>1, CacheEngineAssumption DEF CacheInv, Types, LoadInv, Loading
<1>3. l \in LoaderSet /\ l.at = place /\ l.ids = loader[t].ids /\ l.id = loader[t].id
  BY <1>1 DEF LoaderSet
<1>4. SetLoader(t, l)
  <2>1. CASE Compare(t)
    BY <2>1 DEF Compare
  <2>2. CASE ~ Compare(t)
    BY <2>2 DEF Raise
  <2> QED
    BY <2>1, <2>2
<1>5. /\ UNCHANGED <<phase, disk, deleted, cache, pending, todo, joined, saver>>
      /\ Compare(t) => UNCHANGED <<largest, blurred>>
      /\ ~ Compare(t) => /\ largest' = loader[t].id
                         /\ blurred' = IF loader[t].id < largest THEN blurred \cup {"largest"} ELSE blurred
  BY DEF Compare, Raise, files, items
<1> HIDE DEF l
<1>6. /\ loader' \in Seq(LoaderSet) /\ DOMAIN loader' = DOMAIN loader /\ t \in DOMAIN loader
      /\ loader'[t] = l /\ \A u \in DOMAIN loader \ {t} : loader'[u] = loader[u]
  BY <1>1, <1>3, <1>4, LoaderSteps
<1>7. Types'
  BY <1>2, <1>5, <1>6 DEF CacheInv, Types
<1>8. Phases' /\ SaveInv'
  BY <1>1, <1>5, LoadKeeps DEF Loading
<1>9. LoadInv'
  <2>1. \A k \in Ids : Loaded(k)' = Loaded(k) /\ (ToLoad(k) => ToLoad(k)')
    <3>1. \A u \in DOMAIN loader : loader'[u].ids = loader[u].ids
      BY <1>3, <1>6
    <3> QED
      BY <1>5, <1>6, <3>1 DEF Loaded, ToLoad, Cached
  <2>2. ASSUME NEW u \in DOMAIN loader'
        PROVE  /\ loader'[u].at # "load" => loader'[u].id \in Ids
               /\ u <= joined' => loader'[u].at = "load" /\ loader'[u].ids = {} /\ todo' = {}
               /\ \A k \in loader'[u].ids : disk'[k] # 0
    BY <1>1, <1>2, <1>3, <1>5, <1>6 DEF CacheInv, LoadInv, Loading
  <2> QED
    BY <1>1, <1>5, <2>1, <2>2 DEF CacheInv, LoadInv, Loading
<1>10. Searchable'
  <2> SUFFICES ASSUME "largest" \notin blurred', NEW k \in Ids, cache[k] # 0
               PROVE  k <= largest' \/ \E u \in DOMAIN loader : loader'[u].id = k /\ loader'[u].at # "load"
    BY <1>5, <1>6 DEF Searchable
  <2>1. "largest" \notin blurred /\ largest <= largest' /\ k \in Nat /\ largest' \in Nat
    BY <1>2, <1>5, CacheEngineAssumption
  <2>2. k <= largest \/ \E u \in DOMAIN loader : loader[u].id = k /\ loader[u].at # "load"
    BY <2>1 DEF CacheInv, Searchable
  <2>3. CASE k <= largest
    BY <1>2, <2>1, <2>3
  <2>4. ASSUME NEW u \in DOMAIN loader, loader[u].id = k, loader[u].at # "load"
        PROVE  k <= largest' \/ \E v \in DOMAIN loader : loader'[v].id = k /\ loader'[v].at # "load"
    <3>1. CASE u # t
      BY <1>6, <2>4, <3>1
    <3>2. CASE u = t /\ place = "raise"
      BY <1>3, <1>6, <2>4, <3>2
    <3>3. CASE u = t /\ place = "load"
      BY <1>2, <1>5, <2>4, <3>3
    <3> QED
      BY <3>1, <3>2, <3>3
  <2> QED
    BY <2>2, <2>3, <2>4
<1> QED
  BY <1>7, <1>8, <1>9, <1>10 DEF CacheInv

\* When the last thread was joined nothing is left to load.
LEMMA JoinKeeps == ASSUME CacheInv, Join PROVE CacheInv'
<1> DEFINE t == joined + 1
<1>1. /\ phase = "loading" /\ t \in DOMAIN loader /\ todo = {}
      /\ loader[t].at = "load" /\ loader[t].ids = {}
      /\ loader \in Seq(LoaderSet) /\ Len(loader) \in Nat /\ DOMAIN loader = 1 .. Len(loader)
         /\ joined \in Nat
  BY DEF Join, Loading, CacheInv, Types
<1>2. UNCHANGED <<disk, deleted, cache, largest, pending, todo, saver>>
        /\ (blurred' = blurred \/ blurred' = blurred \cup {"min"})
  BY DEF Join, files, items
<1>3. NewLoader \in LoaderSet /\ NewLoader.at = "load" /\ NewLoader.ids = {}
  BY DEF NewLoader, LoaderSet, NoInfo
<1>4. CASE t # Len(loader)
  <2>1. phase' = "loading" /\ joined' = t /\ loader' = [loader EXCEPT ![t] = NewLoader]
    BY <1>4 DEF Join
  <2>2. /\ loader' \in Seq(LoaderSet) /\ DOMAIN loader' = DOMAIN loader
        /\ loader'[t] = NewLoader /\ \A u \in DOMAIN loader \ {t} : loader'[u] = loader[u]
    BY <1>1, <1>3, <2>1
  <2>3. Types'
    BY <1>1, <1>2, <2>1, <2>2 DEF CacheInv, Types
  <2>4. Phases' /\ SaveInv'
    BY <1>1, <1>2, <2>1, LoadKeeps
  <2>5. LoadInv'
    <3>1. \A k \in Ids : Loaded(k)' = Loaded(k) /\ (ToLoad(k) => ToLoad(k)')
      <4>1. \A u \in DOMAIN loader : loader'[u].ids = loader[u].ids
        BY <1>1, <1>3, <2>2
      <4> QED
        BY <1>2, <2>2, <4>1 DEF Loaded, ToLoad, Cached
    <3>2. ASSUME NEW u \in DOMAIN loader'
          PROVE  /\ loader'[u].at # "load" => loader'[u].id \in Ids
                 /\ u <= joined' => loader'[u].at = "load" /\ loader'[u].ids = {} /\ todo' = {}
                 /\ \A k \in loader'[u].ids : disk'[k] # 0
      BY <1>1, <1>2, <1>3, <2>1, <2>2 DEF CacheInv, LoadInv
    <3> QED
      BY <1>1, <3>1, <3>2 DEF CacheInv, LoadInv
  <2>6. Searchable'
    BY <1>1, <1>2, <2>2 DEF CacheInv, Searchable
  <2> QED
    BY <2>3, <2>4, <2>5, <2>6 DEF CacheInv
<1>5. CASE t = Len(loader)
  <2>1. phase' = "running" /\ joined' = 0 /\ loader' = <<>>
    BY <1>5 DEF Join
  <2>2. \A u \in DOMAIN loader : loader[u].at = "load" /\ loader[u].ids = {}
    <3>1. \A u \in DOMAIN loader : u <= joined \/ u = t
      BY <1>1, <1>5
    <3> QED
      BY <1>1, <3>1 DEF CacheInv, LoadInv
  <2>3. \A k \in Ids : Loaded(k)
    BY <1>1, <2>2 DEF CacheInv, LoadInv, ToLoad
  <2>4. Types' /\ Phases' /\ LoadInv'
    <3>1. Types'
      BY <1>2, <2>1 DEF CacheInv, Types
    <3>2. Phases'
      BY <1>2, <2>1 DEF CacheInv, Phases
    <3> QED
      BY <2>1, <3>1, <3>2 DEF LoadInv
  <2>5. pending = <<>> /\ \A s \in Savers : saver[s].at = "idle"
    BY <1>1 DEF CacheInv, Phases
  <2>6. SaveInv'
    BY <1>2, <2>3, <2>5 DEF SaveInv, Settled, PendingAt, Loaded, Cached, InSave
  <2>7. Searchable'
    BY <1>2, <2>1, <2>2 DEF CacheInv, Searchable
  <2> QED
    BY <2>4, <2>6, <2>7 DEF CacheInv
<1> QED
  BY <1>4, <1>5

LEMMA LoadFailsKeeps == ASSUME CacheInv, LoadFails PROVE CacheInv'
BY DEF LoadFails, CacheInv, Types, Phases, LoadInv, SaveInv, Searchable, NoItems, files

-----------------------------------------------------------------------------
\* The largest index is raised over all that is stored, and of an id that is settled the
\* version of the file is stored.
LEMMA CommitKeeps == ASSUME CacheInv, Commit PROVE CacheInv'
<1>1. /\ phase = "running" /\ loader = <<>> /\ pending \in Seq(Ids \X Nat)
      /\ largest \in Nat /\ cache \in [Ids -> Nat]
  BY DEF Commit, CacheInv, Types, Phases
<1>2. /\ cache' = [id \in Ids |-> CommittedItem(id)] /\ largest' = CommittedLargest
           /\ pending' = <<>>
      /\ UNCHANGED <<phase, disk, deleted, loader, joined, saver, doubtful, blurred>>
  BY DEF Commit, files, loading
<1>3. \A k \in DOMAIN pending : pending[k][1] \in Ids /\ pending[k][2] \in Nat
  BY <1>1
<1>4. ASSUME NEW id \in Ids, PendingAt(id) # {}
      PROVE  Min(PendingAt(id)) \in PendingAt(id)
  <2>1. PendingAt(id) \in SUBSET Nat
    BY <1>1 DEF PendingAt
  <2> QED
    BY <1>4, <2>1, MinIs
<1> DEFINE indices == {largest} \cup {pending[k][1] : k \in DOMAIN pending}
<1>5. largest' \in Nat /\ \A i \in indices : i <= largest'
  <2>1. indices \in SUBSET Nat /\ indices # {}
    BY <1>1, <1>3, CacheEngineAssumption
  <2>2. IsFiniteSet(indices)
    <3>1. {pending[k][1] : k \in DOMAIN pending} \subseteq Ids
      BY <1>3
    <3>2. IsFiniteSet({pending[k][1] : k \in DOMAIN pending})
      BY <3>1, CacheEngineAssumption, FS_Subset
    <3> QED
      BY <3>2, FS_Singleton, FS_Union
  <2>3. largest' = Max(indices)
    BY <1>2 DEF CommittedLargest
  <2> HIDE DEF indices
  <2> QED
    BY <2>1, <2>2, <2>3, MaxIs
<1>6. \A id \in Ids : CommittedItem(id) \in Nat
  BY <1>1, <1>3, <1>4 DEF CommittedItem, Cached, PendingAt
<1>7. Types' /\ Phases' /\ LoadInv'
  BY <1>1, <1>2, <1>5, <1>6 DEF CacheInv, Types, Phases, LoadInv
<1>8. SaveInv'
  <2>1. ASSUME NEW id \in Ids \ doubtful, ~ SaveOf(id) PROVE cache'[id] = Cached(id, disk[id])
    <3>1. Settled(id)
      BY <1>1, <2>1 DEF CacheInv, SaveInv
    <3>2. CASE PendingAt(id) = {}
      BY <1>2, <3>1, <3>2 DEF Settled, Loaded, CommittedItem
    <3>3. CASE PendingAt(id) # {}
      BY <1>2, <1>4, <3>1, <3>3 DEF Settled, OnlyPending, CommittedItem
    <3> QED
      BY <3>2, <3>3
  <2>2. \A id \in Ids : PendingAt(id)' = {} /\ (SaveOf(id) => SaveOf(id)')
    BY <1>2 DEF PendingAt, SaveOf, InSave
  <2>3. \A id \in Ids : Cached(id, disk[id])' = Cached(id, disk[id])
    BY <1>2 DEF Cached
  <2> QED
    BY <1>1, <1>2, <2>1, <2>2, <2>3 DEF CacheInv, SaveInv, Settled, Loaded, InSave
<1>9. Searchable'
  <2>1. ASSUME "largest" \notin blurred, NEW id \in Ids, cache'[id] # 0 PROVE id <= largest'
    <3>1. CASE PendingAt(id) = {}
      <4>1. cache[id] # 0
        BY <1>2, <2>1, <3>1 DEF CommittedItem
      <4>2. id <= largest
        BY <1>1, <2>1, <4>1 DEF CacheInv, Searchable
      <4>3. largest <= largest' /\ id \in Nat
        BY <1>5, CacheEngineAssumption
      <4> QED
        BY <1>1, <1>5, <4>2, <4>3
    <3>2. CASE PendingAt(id) # {}
      BY <1>5, <3>2 DEF PendingAt
    <3> QED
      BY <3>1, <3>2
  <2> QED
    BY <1>2, <2>1 DEF Searchable
<1> QED
  BY <1>7, <1>8, <1>9 DEF CacheInv

-----------------------------------------------------------------------------
\* A step of a save: the cache stays, and loading is over.
LEMMA SaverKeeps ==
  ASSUME CacheInv, NEW s \in Savers, phase = "running",
         UNCHANGED <<phase, cache, largest, loader, joined, blurred>>,
         NEW r \in SaverSet, r.at # "idle" => r.id \in Ids, saver' = [saver EXCEPT ![s] = r],
         disk' \in [Ids -> Nat], pending' \in Seq(Ids \X Nat), SaveInv'
  PROVE  CacheInv'
<1>1. Types'
  BY DEF CacheInv, Types
<1>2. Phases' /\ LoadInv'
  BY DEF CacheInv, Phases, LoadInv
<1>3. Searchable'
  BY DEF CacheInv, Searchable
<1> QED
  BY <1>1, <1>2, <1>3 DEF CacheInv

\* One that stores nothing, neither in a file nor in the list.
LEMMA QuietKeeps ==
  ASSUME CacheInv, NEW s \in Savers, phase = "running",
         UNCHANGED <<phase, disk, deleted, cache, largest, pending, loader, joined, doubtful, blurred>>,
         NEW r \in SaverSet, r.at # "idle" => r.id \in Ids, saver' = [saver EXCEPT ![s] = r],
         InSave(s) <=> r.at \in {"release", "note", "store"},
         InSave(s) => r.id = saver[s].id /\ r.version = saver[s].version
  PROVE  CacheInv'
<1>1. saver \in [Savers -> SaverSet] /\ disk \in [Ids -> Nat] /\ pending \in Seq(Ids \X Nat)
  BY DEF CacheInv, Types
<1>2. ASSUME NEW u \in Savers
      PROVE  /\ InSave(u)' <=> InSave(u)
             /\ InSave(u) => saver'[u].id = saver[u].id /\ saver'[u].version = saver[u].version
  BY <1>1 DEF InSave
<1>3. \A k \in Ids : SaveOf(k)' <=> SaveOf(k)
  BY <1>2 DEF SaveOf
<1>4. \A k \in Ids : Settled(k)' <=> Settled(k)
  BY DEF Settled, OnlyPending, Loaded, PendingAt, Cached
<1>5. SaveInv'
  BY <1>1, <1>2, <1>3, <1>4 DEF CacheInv, SaveInv
<1> QED
  BY <1>1, <1>5, SaverKeeps

LEMMA SaverTyped ==
  ASSUME CacheInv, NEW s \in Savers, saver[s].at # "idle"
  PROVE  saver[s] \in SaverSet /\ saver[s].id \in Ids /\ saver[s].id \in Nat
BY CacheEngineAssumption DEF CacheInv, Types

\* Steps that only change where a save is.
LEMMA QuietStepsKeep ==
  ASSUME CacheInv, NEW s \in Savers,
         \/ \E id \in Ids : NextItem(s, id) \/ \E list \in BOOLEAN : Lock(s, id, list)
         \/ SaveFails(s) \/ Release(s) \/ UpdateInfo(s) \/ ReleaseList(s)
  PROVE  CacheInv'
<1> USE DEF Saving, SetSaver, Goto, Done, files, items, loading
<1>1. ASSUME NEW id \in Ids, NEW list \in BOOLEAN, Lock(s, id, list) PROVE CacheInv'
  <2> DEFINE r == [NewSaver EXCEPT !.at = "save", !.id = id, !.list = list]
  <2>1. r \in SaverSet /\ r.at = "save" /\ r.id = id
    BY DEF NewSaver, SaverSet
  <2>2. phase = "running" /\ saver[s].at = "idle" /\ saver' = [saver EXCEPT ![s] = r]
        /\ UNCHANGED <<phase, disk, deleted, cache, largest, pending, loader, joined, doubtful, blurred>>
    BY <1>1 DEF Lock
  <2> HIDE DEF r
  <2> QED
    BY <2>1, <2>2, QuietKeeps DEF InSave
<1>2. ASSUME NEW id \in Ids, NextItem(s, id) PROVE CacheInv'
  <2> DEFINE r == [saver[s] EXCEPT !.at = "save", !.id = id]
  <2>1. phase = "running" /\ saver[s].at = "next" /\ saver' = [saver EXCEPT ![s] = r]
        /\ UNCHANGED <<phase, disk, deleted, cache, largest, pending, loader, joined, doubtful, blurred>>
    BY <1>2 DEF NextItem
  <2>2. r \in SaverSet /\ r.at = "save" /\ r.id = id
    BY <2>1, SaverTyped DEF SaverSet
  <2> HIDE DEF r
  <2> QED
    BY <2>1, <2>2, QuietKeeps DEF InSave
<1>3. CASE SaveFails(s)
  <2> DEFINE next == [NewSaver EXCEPT !.at = "next", !.id = saver[s].id, !.list = TRUE]
             r == IF saver[s].list THEN next ELSE NewSaver
  <2>1. phase = "running" /\ saver[s].at = "save" /\ saver' = [saver EXCEPT ![s] = r]
        /\ UNCHANGED <<phase, disk, deleted, cache, largest, pending, loader, joined, doubtful, blurred>>
    BY <1>3 DEF SaveFails
  <2>2. next \in SaverSet /\ NewSaver \in SaverSet /\ next.at = "next" /\ next.id = saver[s].id
          /\ NewSaver.at = "idle"
    BY <2>1, SaverTyped DEF SaverSet, NewSaver
  <2>3. r \in SaverSet /\ r.at \in {"next", "idle"} /\ (r.at # "idle" => r.id \in Ids)
    BY <2>1, <2>2, SaverTyped
  <2> HIDE DEF r
  <2> QED
    BY <2>1, <2>3, QuietKeeps DEF InSave
<1>4. CASE Release(s) \/ UpdateInfo(s)
  <2> DEFINE place == IF Release(s) THEN "note" ELSE "store"
             r == [saver[s] EXCEPT !.at = place]
  <2>1. phase = "running" /\ saver[s].at \in {"release", "note"} /\ saver' = [saver EXCEPT ![s] = r]
        /\ UNCHANGED <<phase, disk, deleted, cache, largest, pending, loader, joined, doubtful, blurred>>
    <3>1. CASE Release(s)
      BY <3>1 DEF Release
    <3>2. CASE ~ Release(s)
      BY <1>4, <3>2 DEF UpdateInfo
    <3> QED
      BY <3>1, <3>2
  <2>2. /\ r \in SaverSet /\ r.at \in {"note", "store"}
        /\ r.id = saver[s].id /\ r.version = saver[s].version /\ r.id \in Ids
    BY <2>1, SaverTyped DEF SaverSet
  <2> HIDE DEF r
  <2> QED
    BY <2>1, <2>2, QuietKeeps DEF InSave
<1>5. CASE ReleaseList(s)
  <2>1. phase = "running" /\ saver[s].at = "next" /\ saver' = [saver EXCEPT ![s] = NewSaver]
        /\ UNCHANGED <<phase, disk, deleted, cache, largest, pending, loader, joined, doubtful, blurred>>
    BY <1>5 DEF ReleaseList
  <2>2. NewSaver \in SaverSet /\ NewSaver.at = "idle"
    BY DEF SaverSet, NewSaver
  <2> QED
    BY <2>1, <2>2, QuietKeeps DEF InSave
<1> QED
  BY <1>1, <1>2, <1>3, <1>4, <1>5

LEMMA SettledSame ==
  ASSUME NEW k \in Ids, UNCHANGED <<cache, pending>>, disk'[k] = disk[k],
         Cached(k, disk[k])' = Cached(k, disk[k])
  PROVE  Settled(k)' <=> Settled(k)
<1>1. PendingAt(k)' = PendingAt(k) /\ pending' = pending
  BY DEF PendingAt
<1>2. Loaded(k)' <=> Loaded(k)
  BY DEF Loaded
<1>3. OnlyPending(k)' <=> OnlyPending(k)
  BY <1>1 DEF OnlyPending
<1> QED
  BY <1>1, <1>2, <1>3 DEF Settled

\* What is appended leaves the other ids as they are.
LEMMA SettledByStore ==
  ASSUME NEW id \in Ids, NEW v \in Nat, pending \in Seq(Ids \X Nat),
         pending' = Append(pending, <<id, v>>), UNCHANGED <<cache, disk, deleted>>
  PROVE  /\ pending' \in Seq(Ids \X Nat)
         /\ \A k \in Ids \ {id} : Settled(k) => Settled(k)'
         /\ v = disk[id] /\ PendingAt(id) = {} => Settled(id)'
<1> DEFINE n == Len(pending) + 1
<1>1. /\ pending' \in Seq(Ids \X Nat) /\ DOMAIN pending = 1 .. Len(pending) /\ Len(pending) \in Nat
      /\ DOMAIN pending' = 1 .. n /\ pending'[n] = <<id, v>>
      /\ \A k \in DOMAIN pending : pending'[k] = pending[k]
  OBVIOUS
<1>2. DOMAIN pending' = DOMAIN pending \cup {n} /\ n \notin DOMAIN pending
  BY <1>1
<1> HIDE DEF n
<1>3. ASSUME NEW k \in Ids \ {id} PROVE Settled(k) => Settled(k)'
  <2>1. PendingAt(k)' = PendingAt(k)
    BY <1>1, <1>2 DEF PendingAt
  <2>2. Loaded(k)' <=> Loaded(k)
    BY DEF Loaded, Cached
  <2>3. OnlyPending(k) => OnlyPending(k)'
    BY <1>1, <1>2, <2>1 DEF OnlyPending
  <2> QED
    BY <2>1, <2>2, <2>3 DEF Settled
<1>4. ASSUME v = disk[id], PendingAt(id) = {} PROVE Settled(id)'
  <2>1. PendingAt(id)' = {n}
    BY <1>1, <1>2, <1>4 DEF PendingAt
  <2>2. OnlyPending(id)'
    BY <1>1, <1>2, <1>4, <2>1 DEF OnlyPending
  <2> QED
    BY <2>1, <2>2 DEF Settled
<1> QED
  BY <1>1, <1>3, <1>4

\* A new version of the item in its file: it is on its way now.
LEMMA SaveItemKeeps == ASSUME CacheInv, NEW s \in Savers, SaveItem(s) PROVE CacheInv'
<1> DEFINE id == saver[s].id
           v == disk[id] + 1
           place == IF saver[s].list THEN "note" ELSE "release"
           r == [saver[s] EXCEPT !.at = place, !.version = v, !.new = (v = 1)]
<1>1. /\ phase = "running" /\ saver[s].at = "save" /\ saver' = [saver EXCEPT ![s] = r]
      /\ disk' = [disk EXCEPT ![id] = v] /\ deleted' \in {deleted, deleted \cup {<<id, v>>}}
      /\ UNCHANGED <<phase, cache, largest, pending, loader, joined, doubtful, blurred>>
  BY DEF SaveItem, Saving, SetSaver, items, loading
<1>2. /\ saver[s] \in SaverSet /\ id \in Ids /\ disk \in [Ids -> Nat] /\ v \in Nat
      /\ saver \in [Savers -> SaverSet] /\ pending \in Seq(Ids \X Nat)
  BY <1>1, SaverTyped DEF CacheInv, Types
<1>3. r \in SaverSet /\ r.at \in {"note", "release"} /\ r.id = id /\ r.version = v
  BY <1>2 DEF SaverSet
<1> HIDE DEF r
<1>4. disk' \in [Ids -> Nat] /\ disk'[id] = v /\ \A k \in Ids \ {id} : disk'[k] = disk[k]
  BY <1>1, <1>2
<1>5. saver'[s] = r /\ \A u \in Savers \ {s} : saver'[u] = saver[u]
  BY <1>1, <1>2
<1>6. SaveInv'
  <2>1. ASSUME NEW u \in Savers, InSave(u)' PROVE saver'[u].version <= disk'[saver'[u].id]
    <3>1. CASE u = s
      BY <1>2, <1>3, <1>4, <1>5, <3>1
    <3>2. CASE u # s
      <4>1. InSave(u) /\ saver'[u] = saver[u] /\ saver[u].id \in Ids /\ saver[u].version \in Nat
        BY <1>2, <1>5, <2>1, <3>2, SaverTyped DEF InSave, SaverSet
      <4>2. saver[u].version <= disk[saver[u].id]
        BY <1>1, <4>1 DEF CacheInv, SaveInv
      <4>3. \A k \in Ids : disk[k] <= disk'[k]
        <5>1. ASSUME NEW k \in Ids, k # id PROVE disk[k] <= disk'[k]
          BY <1>2, <1>4, <5>1
        <5>2. disk[id] <= disk'[id]
          BY <1>2, <1>4
        <5> HIDE DEF id
        <5> QED
          BY <5>1, <5>2
      <4> QED
        BY <1>2, <1>4, <4>1, <4>2, <4>3
    <3> QED
      BY <3>1, <3>2
  <2>2. ASSUME NEW k \in Ids \ doubtful PROVE (SaveOf(k) \/ Settled(k))'
    <3>1. CASE k = id
      BY <1>3, <1>5, <3>1 DEF SaveOf, InSave
    <3>2. CASE k # id
      <4>1. SaveOf(k) \/ Settled(k)
        BY <1>1 DEF CacheInv, SaveInv
      <4>2. SaveOf(k) => SaveOf(k)'
        BY <1>1, <1>5 DEF SaveOf, InSave
      <4>3. disk'[k] = disk[k] /\ Cached(k, disk[k])' = Cached(k, disk[k])
        BY <1>1, <1>4, <3>2 DEF Cached
      <4>4. Settled(k)' <=> Settled(k)
        BY <1>1, <4>3, SettledSame
      <4> QED
        BY <4>1, <4>2, <4>4
    <3> QED
      BY <3>1, <3>2
  <2> QED
    BY <1>1, <2>1, <2>2 DEF SaveInv
<1> QED
  BY <1>1, <1>2, <1>3, <1>4, <1>6, SaverKeeps

\* The save is over, its version in the list of pending items, or nowhere.
LEMMA StoreSettles ==
  ASSUME CacheInv, NEW s \in Savers, Store(s) \/ StoreFails(s), saver[s].at = "store", phase = "running",
         NEW id \in Ids, id = saver[s].id, UNCHANGED <<cache, disk, deleted>>
  PROVE  /\ pending' \in Seq(Ids \X Nat)
         /\ \A k \in Ids \ {id} : (k \in doubtful' <=> k \in doubtful) /\ (Settled(k) => Settled(k)')
         /\ id \notin doubtful' => Settled(id)'
<1>1. PICK v \in Nat : v = saver[s].version
  BY DEF CacheInv, Types, SaverSet
<1>2. pending \in Seq(Ids \X Nat) /\ disk[id] \in Nat
  BY DEF CacheInv, Types
<1>3. CASE StoreFails(s)
  <2>1. UNCHANGED pending /\ doubtful' = doubtful \cup {id}
    BY <1>3 DEF StoreFails
  <2>2. \A k \in Ids : Settled(k) => Settled(k)'
    BY <2>1, SettledSame DEF Cached
  <2> QED
    BY <1>2, <2>1, <2>2
<1>4. CASE Store(s)
  <2>1. /\ pending' = Append(pending, <<id, v>>)
        /\ doubtful' = IF v < disk[id] \/ \E k \in DOMAIN pending : pending[k][1] = id
                       THEN doubtful \cup {id} ELSE doubtful \ {id}
    BY <1>1, <1>4 DEF Store
  <2>2. /\ pending' \in Seq(Ids \X Nat)
        /\ \A k \in Ids \ {id} : Settled(k) => Settled(k)'
        /\ v = disk[id] /\ PendingAt(id) = {} => Settled(id)'
    BY <1>1, <1>2, <2>1, SettledByStore
  <2>3. v <= disk[id]
    BY <1>1 DEF CacheInv, SaveInv, InSave
  <2>4. id \notin doubtful' => v = disk[id] /\ PendingAt(id) = {}
    BY <1>1, <1>2, <2>1, <2>3 DEF PendingAt
  <2> QED
    BY <2>1, <2>2, <2>4
<1> QED
  BY <1>3, <1>4

LEMMA StoreKeeps ==
  ASSUME CacheInv, NEW s \in Savers, Store(s) \/ StoreFails(s) PROVE CacheInv'
<1> DEFINE next == [NewSaver EXCEPT !.at = "next", !.id = saver[s].id, !.list = TRUE]
           r == IF saver[s].list THEN next ELSE NewSaver
<1>1. /\ phase = "running" /\ saver[s].at = "store" /\ saver' = [saver EXCEPT ![s] = r]
      /\ UNCHANGED <<phase, disk, deleted, cache, largest, loader, joined, blurred>>
  BY DEF Store, StoreFails, Saving, Done, SetSaver, files, items, loading
<1>2. /\ saver[s] \in SaverSet /\ saver[s].id \in Ids /\ disk \in [Ids -> Nat]
      /\ saver \in [Savers -> SaverSet]
  BY <1>1, SaverTyped DEF CacheInv, Types
<1>3. /\ next \in SaverSet /\ NewSaver \in SaverSet /\ next.at = "next" /\ next.id = saver[s].id
      /\ NewSaver.at = "idle"
  BY <1>2 DEF SaverSet, NewSaver
<1>4. r \in SaverSet /\ r.at \in {"next", "idle"} /\ (r.at # "idle" => r.id \in Ids)
  BY <1>2, <1>3
<1> HIDE DEF r, next
<1>5. saver'[s] = r /\ \A u \in Savers \ {s} : saver'[u] = saver[u]
  BY <1>1, <1>2
<1>6. \A u \in Savers : InSave(u)' => InSave(u) /\ saver'[u] = saver[u]
  BY <1>4, <1>5 DEF InSave
<1>7. PICK id \in Ids : id = saver[s].id
  BY <1>2
<1>8. ASSUME NEW k \in Ids \ {id}, SaveOf(k) PROVE SaveOf(k)'
  BY <1>5, <1>7, <1>8 DEF SaveOf, InSave
<1>9. /\ pending' \in Seq(Ids \X Nat)
      /\ \A k \in Ids \ {id} : (k \in doubtful' <=> k \in doubtful) /\ (Settled(k) => Settled(k)')
      /\ id \notin doubtful' => Settled(id)'
  BY <1>1, <1>7, StoreSettles
<1>10. SaveInv'
  <2>1. ASSUME NEW u \in Savers, InSave(u)' PROVE saver'[u].version <= disk'[saver'[u].id]
    <3>1. InSave(u) /\ saver'[u] = saver[u] /\ disk' = disk
      BY <1>1, <1>6, <2>1
    <3>2. saver[u].version <= disk[saver[u].id]
      BY <1>1, <3>1 DEF CacheInv, SaveInv
    <3> QED
      BY <3>1, <3>2
  <2>2. ASSUME NEW k \in Ids, k \notin doubtful' PROVE SaveOf(k)' \/ Settled(k)'
    <3>1. CASE k = id
      BY <1>9, <2>2, <3>1
    <3>2. CASE k # id
      <4>1. SaveOf(k) \/ Settled(k)
        BY <1>1, <1>9, <2>2, <3>2 DEF CacheInv, SaveInv
      <4> QED
        BY <1>8, <1>9, <3>2, <4>1
    <3> QED
      BY <3>1, <3>2
  <2> QED
    BY <1>1, <2>1, <2>2 DEF SaveInv
<1> QED
  BY <1>1, <1>2, <1>4, <1>9, <1>10, SaverKeeps

-----------------------------------------------------------------------------
LEMMA NextCacheInv == ASSUME CacheInv, [Next]_vars PROVE CacheInv'
<1>1. CASE UNCHANGED vars
  <2>1. UNCHANGED <<phase, disk, deleted, cache, largest, pending, todo, joined, loader, saver, doubtful, blurred>>
    BY <1>1 DEF vars, files, items, loading
  <2>2. Types' /\ Phases' /\ Searchable'
    BY <2>1 DEF CacheInv, Types, Phases, Searchable
  <2>3. LoadInv'
    BY <2>1 DEF CacheInv, LoadInv, Loaded, ToLoad, Cached
  <2>4. \A k \in Ids : (Settled(k)' <=> Settled(k)) /\ (SaveOf(k)' <=> SaveOf(k))
    BY <2>1, SettledSame DEF SaveOf, InSave, Cached
  <2>5. SaveInv'
    BY <2>1, <2>4 DEF CacheInv, SaveInv, InSave
  <2> QED
    BY <2>2, <2>3, <2>5 DEF CacheInv
<1>2. CASE LoadStep
  BY <1>2, TakeFilesKeeps, LoadItemKeeps, PlaceKeeps, JoinKeeps DEF LoadStep
<1>3. CASE LoadFails \/ Commit
  BY <1>3, LoadFailsKeeps, CommitKeeps
<1>4. ASSUME NEW s \in Savers,
             SaveStep(s) \/ \E id \in Ids : NextItem(s, id) \/ \E list \in BOOLEAN : Lock(s, id, list)
      PROVE  CacheInv'
  BY <1>4, QuietStepsKeep, SaveItemKeeps, StoreKeeps DEF SaveStep
<1> QED
  BY <1>1, <1>2, <1>3, <1>4 DEF Next

THEOREM CacheInvariant == Spec => []CacheInv
<1>1. CacheInv /\ [Next]_vars => CacheInv'
  BY NextCacheInv
<1> QED
  BY <1>1, InitCacheInv, PTL DEF Spec

\* Every profile in the cache is within the reach of the searches, unless two loading
\* threads wrote the largest index in the wrong order: for any number of loading threads
\* and files, and any saves and commits afterwards.
THEOREM AllSearchable == Spec => []Searchable
<1>1. CacheInv => Searchable
  BY DEF CacheInv
<1> QED
  BY <1>1, CacheInvariant, PTL

\* The cache has the version that is in the file once no save of the id is under way,
\* unless its last saves crossed or the last was refused: for any number of threads that
\* load and save, and any capacity of the list of pending items.
THEOREM CacheIsFresh == Spec => []CacheFresh
<1>1. ASSUME CacheInv PROVE CacheFresh
  <2> SUFFICES ASSUME phase = "running", NEW id \in Ids, ~ Underway(id), id \notin doubtful
               PROVE  cache[id] = Cached(id, disk[id])
    BY DEF CacheFresh
  <2>1. ~ SaveOf(id) /\ PendingAt(id) = {}
    BY DEF Underway, SaveOf, InSave, PendingAt
  <2>2. Settled(id)
    BY <1>1, <2>1 DEF CacheInv, SaveInv
  <2> QED
    BY <2>1, <2>2 DEF Settled, Loaded
<1>2. CacheInv => CacheFresh
  BY <1>1
<1> QED
  BY <1>2, CacheInvariant, PTL
-----------------------------------------------------------------------------
(***************************************************************************)
(* What the engine knows of the items, and the bounds of TypeOK.  While it *)
(* loads, every item that was read counts for the thread that read it, or, *)
(* once that one was joined, for the engine: by says for which.  When it   *)
(* runs, the items that UpdateInfo has still to count are the new ones.    *)
(* The greatest and the smallest id are those of a set that UpdateInfo     *)
(* extends: an id may be in it while its first UpdateInfo is still to come *)
(* and that of a later version is over.                                    *)
(***************************************************************************)
Saved == {id \in Ids : disk[id] # 0}
Unread(id) == FileOf(id) \in todo \/ \E t \in DOMAIN loader : id \in loader[t].ids
Read == {id \in Saved : ~ Unread(id)}
Part(by, t) == {id \in Read : by[id] = t}

Greatest(x, K) == IF K = {} THEN x = 0 ELSE x \in K /\ \A y \in K : y <= x
\* With 0 among them, which is taken for none, the smallest may be any of them.
Least(x, K) == IF K = {} THEN x = 0 ELSE x \in K /\ (0 \in K \/ \A y \in K : x <= y)

FoundOf(t, by) ==
  LET found == loader[t].found IN
  /\ found.count = Cardinality(Part(by, t))
  /\ Greatest(found.max, Part(by, t) \ skipped)
  /\ Least(found.min, Part(by, t) \ skipped)
  /\ t <= joined => Part(by, t) = {}

Knows(S, K) ==
  /\ info.count = Cardinality(S) /\ Greatest(info.max, K)
  /\ "min" \notin blurred => Least(info.min, K)

LoadInfo ==
  phase = "loading" =>
    /\ skipped \subseteq Read
    /\ \A t \in DOMAIN loader, u \in DOMAIN loader :
         t # u => loader[t].ids \cap loader[u].ids = {}
    /\ \A t \in DOMAIN loader : \A id \in loader[t].ids : FileOf(id) \notin todo
    /\ \E by \in [Ids -> {0} \cup DOMAIN loader] :
         /\ \A t \in DOMAIN loader : FoundOf(t, by)
         /\ Knows(Part(by, 0), Part(by, 0) \ skipped)

\* A request thread that has still to count a new item.
Counts(s) == saver[s].at \in {"release", "note"} /\ saver[s].new
Counted == Saved \ {saver[s].id : s \in {u \in Savers : Counts(u)}}

RunInfo ==
  phase = "running" =>
    /\ \A s \in Savers : saver[s].at \in {"release", "note"} => saver[s].id \in Saved
    /\ \A s \in Savers, u \in Savers :
         Counts(s) /\ Counts(u) /\ saver[s].id = saver[u].id => s = u
    /\ \E K \in SUBSET (Saved \ skipped) : Counted \ skipped \subseteq K /\ Knows(Counted, K)

SaveBound ==
  /\ saves \in 0 .. MaxSaves /\ \A id \in Ids : disk[id] <= saves + 1
  /\ deleted \subseteq Ids \X Versions
CacheBound == cache \in [Ids -> {0} \cup Versions] /\ largest \in {0} \cup Ids
InfoBound ==
  /\ info \in [min : {0} \cup Ids, max : {0} \cup Ids, count : Nat]
  /\ phase = "failed" => info.count <= Cardinality(Ids)
PendingBound == pending \in Seq(Ids \X Versions) /\ Len(pending) <= MaxPending
FileBound == todo \subseteq Files /\ locked \subseteq Files /\ (joined = 0 \/ joined \in DOMAIN loader)
SaverBound ==
  \A s \in Savers : saver[s].version \in {0} \cup Versions /\ (InSave(s) => saver[s].version # 0)
HistoryBound == skipped \subseteq Ids /\ doubtful \subseteq Ids /\ blurred \subseteq {"largest", "min"}

Bounds ==
  SaveBound /\ CacheBound /\ InfoBound /\ PendingBound /\ FileBound /\ SaverBound /\ HistoryBound

KnowInv == CacheInv /\ LoadInfo /\ RunInfo /\ Bounds

LEMMA IdsFinite == IsFiniteSet(Ids) /\ Ids \subseteq Nat /\ Cardinality(Ids) \in Nat
BY CacheEngineAssumption, FS_CardinalityType

LEMMA SubsetCounts ==
  ASSUME NEW S \in SUBSET Ids
  PROVE  IsFiniteSet(S) /\ Cardinality(S) \in Nat /\ Cardinality(S) <= Cardinality(Ids)
BY IdsFinite, FS_Subset, FS_CardinalityType

\* What Noted makes of the extremes of two sets: they are those of both together.
LEMMA GreatestOfBoth ==
  ASSUME NEW K \in SUBSET Nat, NEW L \in SUBSET Nat, NEW x \in Nat, NEW y \in Nat,
         Greatest(x, K), Greatest(y, L)
  PROVE  Greatest(IF y > x THEN y ELSE x, K \cup L)
<1>1. CASE K = {} \/ L = {}
  <2>1. K = {} => (IF y > x THEN y ELSE x) = y /\ K \cup L = L
    BY DEF Greatest
  <2>2. L = {} => (IF y > x THEN y ELSE x) = x /\ K \cup L = K
    BY DEF Greatest
  <2> QED
    BY <1>1, <2>1, <2>2
<1>2. CASE K # {} /\ L # {}
  <2>1. x \in K /\ y \in L /\ (\A z \in K : z <= x) /\ \A z \in L : z <= y
    BY <1>2 DEF Greatest
  <2>2. CASE y > x
    <3>1. \A z \in K \cup L : z <= y
      BY <2>1, <2>2
    <3> QED
      BY <2>1, <2>2, <3>1 DEF Greatest
  <2>3. CASE ~ (y > x)
    <3>1. \A z \in K \cup L : z <= x
      BY <2>1, <2>3
    <3> QED
      BY <2>1, <2>3, <3>1 DEF Greatest
  <2> QED
    BY <2>2, <2>3
<1> QED
  BY <1>1, <1>2

LEMMA LeastOfBoth ==
  ASSUME NEW K \in SUBSET Nat, NEW L \in SUBSET Nat, NEW x \in Nat, NEW y \in Nat,
         Least(x, K), Least(y, L), y = 0 => x = 0 \/ 0 \in L
  PROVE  Least(IF y < x \/ x = 0 THEN y ELSE x, K \cup L)
<1>1. CASE K = {}
  <2>1. x = 0 /\ K \cup L = L
    BY <1>1 DEF Least
  <2> QED
    BY <2>1
<1>2. CASE L = {}
  <2>1. y = 0 /\ x = 0 /\ K \cup L = K
    BY <1>2 DEF Least
  <2> QED
    BY <2>1
<1>3. CASE K # {} /\ L # {}
  <2>1. /\ x \in K /\ (0 \in K \/ \A z \in K : x <= z)
        /\ y \in L /\ (0 \in L \/ \A z \in L : y <= z)
    BY <1>3 DEF Least
  <2>2. CASE 0 \in K \cup L
    BY <2>1, <2>2 DEF Least
  <2>3. CASE 0 \notin K \cup L
    <3>1. x # 0 /\ (\A z \in K : x <= z) /\ \A z \in L : y <= z
      BY <2>1, <2>3
    <3>2. \A z \in K \cup L : IF y < x THEN y <= z ELSE x <= z
      BY <2>1, <3>1
    <3> QED
      BY <2>1, <3>1, <3>2 DEF Least
  <2> QED
    BY <2>2, <2>3
<1> QED
  BY <1>1, <1>2, <1>3

LEMMA ExtremesOfOne == ASSUME NEW id \in Nat PROVE Greatest(id, {id}) /\ Least(id, {id})
BY DEF Greatest, Least

LEMMA NotedIs ==
  ASSUME NEW i, NEW min, NEW max, NEW n
  PROVE  /\ Noted(i, min, max, n).min = IF min < i.min \/ i.min = 0 THEN min ELSE i.min
         /\ Noted(i, min, max, n).max = IF max > i.max THEN max ELSE i.max
         /\ Noted(i, min, max, n).count = i.count + n
BY DEF Noted

LEMMA InitKnows == Init => LoadInfo /\ RunInfo
<1> SUFFICES ASSUME Init PROVE LoadInfo /\ RunInfo
  OBVIOUS
<1>1. /\ phase = "loading" /\ skipped = {} /\ blurred = {} /\ info = NoInfo /\ joined = 0
      /\ todo = {FileOf(id) : id \in {k \in Ids : disk[k] # 0}}
      /\ \A t \in DOMAIN loader : loader[t] = NewLoader
  BY DEF Init
<1>2. \A t \in DOMAIN loader : loader[t].ids = {} /\ loader[t].found = NoInfo
  BY <1>1 DEF NewLoader
<1>3. Read = {}
  BY <1>1 DEF Read, Saved, Unread
<1>4. \A by, t : Part(by, t) = {}
  BY <1>3 DEF Part
<1>5. NoInfo.min = 0 /\ NoInfo.max = 0 /\ NoInfo.count = 0 /\ Cardinality({}) = 0
  BY FS_EmptySet DEF NoInfo
<1> DEFINE by == [id \in Ids |-> 0]
<1>6. by \in [Ids -> {0} \cup DOMAIN loader]
  OBVIOUS
<1>7. \A t \in DOMAIN loader : FoundOf(t, by)
  BY <1>2, <1>4, <1>5 DEF FoundOf, Greatest, Least
<1>8. Knows(Part(by, 0), Part(by, 0) \ skipped)
  BY <1>1, <1>4, <1>5 DEF Knows, Greatest, Least
<1> HIDE DEF by
<1>9. LoadInfo
  BY <1>1, <1>2, <1>6, <1>7, <1>8 DEF LoadInfo
<1> QED
  BY <1>1, <1>9 DEF RunInfo

-----------------------------------------------------------------------------
\* Steps that change nothing of it.
LEMMA LoadInfoStays ==
  ASSUME LoadInfo, UNCHANGED <<phase, disk, todo, joined, skipped, info>>,
         "min" \in blurred' <=> "min" \in blurred,
         DOMAIN loader' = DOMAIN loader,
         \A t \in DOMAIN loader : loader'[t].ids = loader[t].ids /\ loader'[t].found = loader[t].found
  PROVE  LoadInfo'
<1>1. SUFFICES ASSUME phase = "loading" PROVE LoadInfo'
  BY DEF LoadInfo
<1>2. \A id \in Ids : Unread(id)' <=> Unread(id)
  BY DEF Unread
<1>3. Read' = Read
  BY <1>2 DEF Read, Saved
<1>4. \A by, t : Part(by, t)' = Part(by, t)
  BY <1>3 DEF Part
<1>5. PICK by \in [Ids -> {0} \cup DOMAIN loader] :
        /\ \A t \in DOMAIN loader : FoundOf(t, by)
        /\ Knows(Part(by, 0), Part(by, 0) \ skipped)
  BY <1>1 DEF LoadInfo
<1>6. \A t \in DOMAIN loader' : FoundOf(t, by)'
  BY <1>4, <1>5 DEF FoundOf
<1>7. Knows(Part(by, 0), Part(by, 0) \ skipped)'
  BY <1>4, <1>5 DEF Knows
<1>8. skipped \subseteq Read
       /\ (\A t \in DOMAIN loader, u \in DOMAIN loader : t # u => loader[t].ids \cap loader[u].ids = {})
       /\ \A t \in DOMAIN loader : \A id \in loader[t].ids : FileOf(id) \notin todo
  BY <1>1 DEF LoadInfo
<1> QED
  BY <1>3, <1>5, <1>6, <1>7, <1>8 DEF LoadInfo

LEMMA RunInfoStays ==
  ASSUME RunInfo, UNCHANGED <<phase, disk, info, skipped, blurred>>,
         \A s \in Savers :
           /\ saver'[s].at \in {"release", "note"} <=> saver[s].at \in {"release", "note"}
           /\ saver[s].at \in {"release", "note"} =>
                saver'[s].id = saver[s].id /\ saver'[s].new = saver[s].new
  PROVE  RunInfo'
<1>1. SUFFICES ASSUME phase = "running" PROVE RunInfo'
  BY DEF RunInfo
<1>2. \A s \in Savers : (Counts(s)' <=> Counts(s)) /\ (Counts(s) => saver'[s].id = saver[s].id)
  BY DEF Counts
<1>3. Saved' = Saved
  BY DEF Saved
<1>4. Counted' = Counted
  BY <1>2, <1>3 DEF Counted
<1>5. PICK K \in SUBSET (Saved \ skipped) : Counted \ skipped \subseteq K /\ Knows(Counted, K)
  BY <1>1 DEF RunInfo
<1>6. Knows(Counted, K)'
  BY <1>4, <1>5 DEF Knows
<1>7. \A s \in Savers : saver'[s].at \in {"release", "note"} => saver'[s].id \in Saved'
  BY <1>1, <1>3 DEF RunInfo
<1>8. \A s \in Savers, u \in Savers :
        Counts(s)' /\ Counts(u)' /\ saver'[s].id = saver'[u].id => s = u
  BY <1>1, <1>2 DEF RunInfo
<1> QED
  BY <1>3, <1>4, <1>5, <1>6, <1>7, <1>8 DEF RunInfo

-----------------------------------------------------------------------------
\* A loading thread takes files: what they contain was to be read and still is.
LEMMA TakeFilesInfo == ASSUME KnowInv, NEW t \in Loaders, TakeFiles(t) PROVE LoadInfo'
<1>1. PICK S \in (SUBSET todo) \ {{}} :
        /\ todo' = todo \ S
        /\ SetLoader(t, [loader[t] EXCEPT !.ids = {id \in Ids : disk[id] # 0 /\ FileOf(id) \in S}])
  BY DEF TakeFiles
<1> DEFINE taken == {id \in Ids : disk[id] # 0 /\ FileOf(id) \in S}
           l == [loader[t] EXCEPT !.ids = taken]
<1>2. Loading(t) /\ loader[t].ids = {} /\ loader[t] \in LoaderSet /\ phase = "loading"
  BY DEF TakeFiles, Loading, KnowInv, CacheInv, Types
<1>3. l \in LoaderSet /\ l.ids = taken /\ l.found = loader[t].found
  BY <1>2 DEF LoaderSet
<1> HIDE DEF l
<1>4. /\ DOMAIN loader' = DOMAIN loader /\ t \in DOMAIN loader
      /\ loader'[t] = l /\ \A u \in DOMAIN loader \ {t} : loader'[u] = loader[u]
  BY <1>1, <1>2, <1>3, LoaderSteps DEF l, KnowInv
<1>5. UNCHANGED <<phase, disk, joined, skipped, info, blurred>>
  BY DEF TakeFiles, files
<1>6. /\ skipped \subseteq Read
      /\ \A u \in DOMAIN loader, v \in DOMAIN loader : u # v => loader[u].ids \cap loader[v].ids = {}
      /\ \A u \in DOMAIN loader : \A id \in loader[u].ids : FileOf(id) \notin todo
  BY <1>2 DEF KnowInv, LoadInfo
<1>7. \A id \in Saved : Unread(id)' <=> Unread(id)
  <2>1. SUFFICES ASSUME NEW id \in Saved PROVE Unread(id)' <=> Unread(id)
    OBVIOUS
  <2>2. id \in taken <=> FileOf(id) \in S
    BY <2>1 DEF Saved
  <2>3. (\E u \in DOMAIN loader : id \in loader'[u].ids) <=>
          FileOf(id) \in S \/ \E u \in DOMAIN loader : id \in loader[u].ids
    BY <1>2, <1>3, <1>4, <2>2
  <2> QED
    BY <1>1, <1>4, <2>3 DEF Unread
<1>8. Saved' = Saved
  BY <1>5 DEF Saved
<1>9. Read' = Read
  BY <1>7, <1>8 DEF Read
<1>10. \A by, u : Part(by, u)' = Part(by, u)
  BY <1>9 DEF Part
<1>11. PICK by \in [Ids -> {0} \cup DOMAIN loader] :
        /\ \A u \in DOMAIN loader : FoundOf(u, by)
        /\ Knows(Part(by, 0), Part(by, 0) \ skipped)
  BY <1>2 DEF KnowInv, LoadInfo
<1>12. \A u \in DOMAIN loader : loader'[u].found = loader[u].found
  BY <1>3, <1>4
<1>13. \A u \in DOMAIN loader' : FoundOf(u, by)'
  BY <1>4, <1>5, <1>10, <1>11, <1>12 DEF FoundOf
<1>14. Knows(Part(by, 0), Part(by, 0) \ skipped)'
  BY <1>5, <1>10, <1>11 DEF Knows
<1>15. \A u \in DOMAIN loader : \A id \in loader'[u].ids : FileOf(id) \notin todo'
  BY <1>1, <1>3, <1>4, <1>6
<1>16. \A u \in DOMAIN loader \ {t} : taken \cap loader[u].ids = {}
  BY <1>6
<1>17. \A u \in DOMAIN loader, v \in DOMAIN loader : u # v => loader'[u].ids \cap loader'[v].ids = {}
  <2>1. SUFFICES ASSUME NEW u \in DOMAIN loader, NEW v \in DOMAIN loader, u # v
                 PROVE  loader'[u].ids \cap loader'[v].ids = {}
    OBVIOUS
  <2>2. CASE u = t
    BY <1>3, <1>4, <1>16, <2>1, <2>2
  <2>3. CASE v = t
    BY <1>3, <1>4, <1>16, <2>1, <2>3
  <2>4. CASE u # t /\ v # t
    BY <1>4, <1>6, <2>1, <2>4
  <2> QED
    BY <2>2, <2>3, <2>4
<1> QED
  BY <1>4, <1>5, <1>6, <1>9, <1>11, <1>13, <1>14, <1>15, <1>17 DEF LoadInfo

\* An item is read: it counts for the thread that read it.
LEMMA LoadItemInfo == ASSUME KnowInv, NEW t \in Loaders, LoadItem(t) PROVE LoadInfo'
<1>0. PICK id : id = Min(loader[t].ids)
  OBVIOUS
<1> DEFINE l == [loader[t] EXCEPT !.ids = @ \ {id}]
           found == loader[t].found
           counted == [l EXCEPT !.found.count = @ + 1]
           stored == [l EXCEPT !.at = "compare", !.id = id, !.found = Noted(@, id, id, 1)]
           gone == Cached(id, disk[id]) = 0
           next == IF gone THEN counted ELSE stored
<1>1. /\ Loading(t) /\ loader[t].ids # {} /\ loader[t] \in LoaderSet /\ phase = "loading"
      /\ SetLoader(t, next) /\ skipped' = IF gone THEN skipped \cup {id} ELSE skipped
  BY <1>0 DEF LoadItem, Loading, KnowInv, CacheInv, Types
<1>2. UNCHANGED <<phase, disk, joined, info, todo, blurred>>
  BY DEF LoadItem, files
<1>3. loader[t].ids \in SUBSET Ids /\ Ids \in SUBSET Nat
        /\ found \in [min : Nat, max : Nat, count : Nat]
  BY <1>1, IdsFinite DEF LoaderSet
<1>4. id \in loader[t].ids /\ id \in Ids /\ id \in Nat
  <2>1. loader[t].ids \in SUBSET Nat
    BY <1>3
  <2> QED
    BY <1>0, <1>1, <1>3, <2>1, MinIs
<1>5. Noted(found, id, id, 1) \in [min : Nat, max : Nat, count : Nat]
  BY <1>3, <1>4 DEF Noted
<1>6. /\ next \in LoaderSet /\ next.ids = loader[t].ids \ {id}
      /\ gone => next.found = [found EXCEPT !.count = @ + 1]
      /\ ~ gone => next.found = Noted(found, id, id, 1)
  <2> HIDE DEF found
  <2>1. l \in LoaderSet /\ l.ids = loader[t].ids \ {id} /\ l.found = found
    BY <1>1, <1>3 DEF LoaderSet, found
  <2> HIDE DEF l
  <2>2. /\ counted \in LoaderSet /\ counted.ids = loader[t].ids \ {id}
        /\ counted.found = [found EXCEPT !.count = @ + 1]
    <3> DEFINE f == [found EXCEPT !.count = @ + 1]
    <3>1. f \in [min : Nat, max : Nat, count : Nat]
      BY <1>3
    <3>2. counted = [l EXCEPT !.found = f]
      BY <2>1 DEF LoaderSet
    <3> HIDE DEF f
    <3>3. counted \in LoaderSet /\ counted.ids = loader[t].ids \ {id} /\ counted.found = f
      BY <2>1, <3>1, <3>2 DEF LoaderSet
    <3> QED
      BY <3>3 DEF f
  <2>3. /\ stored \in LoaderSet /\ stored.ids = loader[t].ids \ {id}
        /\ stored.found = Noted(found, id, id, 1)
    <3>1. stored = [l EXCEPT !.at = "compare", !.id = id, !.found = Noted(found, id, id, 1)]
      BY <2>1 DEF LoaderSet
    <3> QED
      BY <1>4, <1>5, <2>1, <3>1 DEF LoaderSet
  <2> QED
    BY <2>2, <2>3
<1> HIDE DEF next, gone
<1>7. /\ DOMAIN loader' = DOMAIN loader /\ t \in DOMAIN loader
      /\ loader'[t] = next /\ \A u \in DOMAIN loader \ {t} : loader'[u] = loader[u]
  BY <1>1, <1>6, LoaderSteps DEF KnowInv
<1>8. /\ skipped \subseteq Read
      /\ \A u \in DOMAIN loader, v \in DOMAIN loader : u # v => loader[u].ids \cap loader[v].ids = {}
      /\ \A u \in DOMAIN loader : \A k \in loader[u].ids : FileOf(k) \notin todo
  BY <1>1 DEF KnowInv, LoadInfo
<1>9. id \in Saved /\ id \notin Read /\ t \in Nat \ {0} /\ ~ (t <= joined)
  <2>1. disk[id] # 0 /\ ~ (t <= joined)
    BY <1>1, <1>4, <1>7 DEF KnowInv, CacheInv, LoadInv
  <2>2. Unread(id)
    BY <1>4, <1>7 DEF Unread
  <2>3. t \in Nat \ {0}
    BY CacheEngineAssumption DEF Loaders
  <2> QED
    BY <1>4, <2>1, <2>2, <2>3 DEF Saved, Read
<1>10. Read' = Read \cup {id}
  <2>1. ~ Unread(id)'
    <3>1. FileOf(id) \notin todo
      BY <1>4, <1>7, <1>8
    <3>2. \A u \in DOMAIN loader \ {t} : id \notin loader[u].ids
      BY <1>4, <1>7, <1>8
    <3>3. \A u \in DOMAIN loader : id \notin loader'[u].ids
      BY <1>6, <1>7, <3>2
    <3> QED
      BY <1>2, <1>7, <3>1, <3>3 DEF Unread
  <2>2. ASSUME NEW k \in Ids \ {id} PROVE Unread(k)' <=> Unread(k)
    <3>1. \A u \in DOMAIN loader : k \in loader'[u].ids <=> k \in loader[u].ids
      BY <1>6, <1>7
    <3> QED
      BY <1>2, <1>7, <3>1 DEF Unread
  <2>3. Saved' = Saved
    BY <1>2 DEF Saved
  <2> QED
    BY <1>9, <2>1, <2>2, <2>3 DEF Read, Saved
<1>11. PICK by \in [Ids -> {0} \cup DOMAIN loader] :
        /\ \A u \in DOMAIN loader : FoundOf(u, by)
        /\ Knows(Part(by, 0), Part(by, 0) \ skipped)
  BY <1>1 DEF KnowInv, LoadInfo
<1> DEFINE now == [by EXCEPT ![id] = t]
<1>12. now \in [Ids -> {0} \cup DOMAIN loader']
  BY <1>7
<1>13. /\ Part(now, t)' = Part(by, t) \cup {id}
       /\ \A u : u # t => Part(now, u)' = Part(by, u)
  BY <1>4, <1>9, <1>10 DEF Part, Read, Saved
<1>14. \A u : id \notin Part(by, u)
  BY <1>9 DEF Part
<1>15. Part(by, t) \in SUBSET Ids
  BY DEF Part, Read, Saved
<1> HIDE DEF now
<1>16. FoundOf(t, now)'
  <2>1. /\ found.count = Cardinality(Part(by, t)) /\ Greatest(found.max, Part(by, t) \ skipped)
        /\ Least(found.min, Part(by, t) \ skipped)
    BY <1>7, <1>11 DEF FoundOf
  <2>2. Cardinality(Part(now, t)') = found.count + 1
    <3>1. IsFiniteSet(Part(by, t))
      BY <1>15, SubsetCounts
    <3> QED
      BY <1>13, <1>14, <2>1, <3>1, FS_AddElement
  <2>3. CASE gone
    <3>1. Part(now, t)' \ skipped' = Part(by, t) \ skipped
      BY <1>1, <1>13, <1>14, <2>3
    <3>2. /\ next.found.count = found.count + 1
          /\ next.found.max = found.max /\ next.found.min = found.min
      BY <1>3, <1>6, <2>3
    <3> QED
      BY <1>2, <1>7, <1>9, <2>1, <2>2, <3>1, <3>2 DEF FoundOf
  <2>4. CASE ~ gone
    <3>1. Part(now, t)' \ skipped' = (Part(by, t) \ skipped) \cup {id}
      BY <1>1, <1>8, <1>9, <1>13, <2>4
    <3>2. Greatest(id, {id}) /\ Least(id, {id})
      BY <1>4, ExtremesOfOne
    <3>3. Part(by, t) \ skipped \in SUBSET Nat /\ {id} \in SUBSET Nat
      BY <1>3, <1>4, <1>15
    <3>4. Greatest(next.found.max, (Part(by, t) \ skipped) \cup {id})
      <4>1. next.found.max = IF id > found.max THEN id ELSE found.max
        BY <1>6, <2>4, NotedIs
      <4> QED
        BY <1>3, <1>4, <2>1, <3>2, <3>3, <4>1, GreatestOfBoth
    <3>5. Least(next.found.min, (Part(by, t) \ skipped) \cup {id})
      <4>1. next.found.min = IF id < found.min \/ found.min = 0 THEN id ELSE found.min
        BY <1>6, <2>4, NotedIs
      <4> QED
        BY <1>3, <1>4, <2>1, <3>2, <3>3, <4>1, LeastOfBoth
    <3>6. next.found.count = found.count + 1
      BY <1>6, <2>4, NotedIs
    <3> QED
      BY <1>2, <1>7, <1>9, <2>2, <3>1, <3>4, <3>5, <3>6 DEF FoundOf
  <2> QED
    BY <2>3, <2>4
<1>17. \A u : u # t => Part(now, u)' \ skipped' = Part(by, u) \ skipped
  BY <1>1, <1>13, <1>14
<1>18. ASSUME NEW u \in DOMAIN loader, u # t PROVE FoundOf(u, now)'
  BY <1>2, <1>7, <1>11, <1>13, <1>17, <1>18 DEF FoundOf
<1>19. Knows(Part(now, 0), Part(now, 0) \ skipped)'
  BY <1>2, <1>9, <1>11, <1>13, <1>17 DEF Knows
<1>20. skipped' \subseteq Read'
  BY <1>1, <1>8, <1>10
<1>21. \A u \in DOMAIN loader : loader'[u].ids \subseteq loader[u].ids
  BY <1>6, <1>7
<1>22. /\ \A u \in DOMAIN loader, v \in DOMAIN loader : u # v => loader'[u].ids \cap loader'[v].ids = {}
       /\ \A u \in DOMAIN loader : \A k \in loader'[u].ids : FileOf(k) \notin todo
  BY <1>8, <1>21
<1> QED
  BY <1>2, <1>7, <1>12, <1>16, <1>18, <1>19, <1>20, <1>22 DEF LoadInfo

\* Compare and Raise.
LEMMA PlaceInfo == ASSUME KnowInv, NEW t \in Loaders, Compare(t) \/ Raise(t) PROVE LoadInfo'
<1>1. /\ Loading(t) /\ loader[t] \in LoaderSet
      /\ UNCHANGED <<phase, disk, todo, joined, skipped, info>>
      /\ "min" \in blurred' <=> "min" \in blurred
  BY DEF Compare, Raise, Loading, KnowInv, CacheInv, Types, files
<1>2. PICK p \in {"load", "raise"} : SetLoader(t, [loader[t] EXCEPT !.at = p])
  <2>1. CASE Compare(t)
    BY <2>1 DEF Compare
  <2>2. CASE Raise(t)
    BY <2>2 DEF Raise
  <2> QED
    BY <2>1, <2>2
<1> DEFINE l == [loader[t] EXCEPT !.at = p]
<1>3. l \in LoaderSet /\ l.ids = loader[t].ids /\ l.found = loader[t].found
  BY <1>1 DEF LoaderSet
<1>4. SetLoader(t, l)
  BY <1>2
<1> HIDE DEF l
<1>5. /\ DOMAIN loader' = DOMAIN loader
      /\ loader'[t] = l /\ \A u \in DOMAIN loader \ {t} : loader'[u] = loader[u]
  BY <1>1, <1>3, <1>4, LoaderSteps DEF KnowInv
<1>6. \A u \in DOMAIN loader : loader'[u].ids = loader[u].ids /\ loader'[u].found = loader[u].found
  BY <1>3, <1>5
<1> QED
  BY <1>1, <1>5, <1>6, LoadInfoStays DEF KnowInv

\* A thread is joined: its items count for the engine.
LEMMA JoinKnows ==
  ASSUME NEW by, NEW t \in DOMAIN loader, FoundOf(t, by), loader[t] \in LoaderSet, InfoBound,
         Knows(Part(by, 0), Part(by, 0) \ skipped), t # 0, skipped' = skipped,
         NEW found, found = loader[t].found, info' = Noted(info, found.min, found.max, found.count),
         blurred' = IF found.min = 0 /\ info.min # 0 THEN blurred \cup {"min"} ELSE blurred,
         NEW S, S = Part(by, 0) \cup Part(by, t)
  PROVE  Knows(S, S \ skipped)'
<1>1. /\ Part(by, 0) \in SUBSET Ids /\ Part(by, t) \in SUBSET Ids
      /\ Part(by, 0) \cap Part(by, t) = {}
  BY DEF Part, Read, Saved
<1>2. /\ found.count = Cardinality(Part(by, t)) /\ Greatest(found.max, Part(by, t) \ skipped)
      /\ Least(found.min, Part(by, t) \ skipped)
      /\ info.count = Cardinality(Part(by, 0)) /\ Greatest(info.max, Part(by, 0) \ skipped)
      /\ "min" \notin blurred => Least(info.min, Part(by, 0) \ skipped)
  BY DEF FoundOf, Knows
<1>3. /\ found.min \in Nat /\ found.max \in Nat /\ info.min \in Nat /\ info.max \in Nat
      /\ Ids \subseteq Nat
  <2>1. Ids \subseteq Nat
    BY IdsFinite
  <2>2. loader[t].found \in [min : Nat, max : Nat, count : Nat]
    BY DEF LoaderSet
  <2>3. info.min \in {0} \cup Ids /\ info.max \in {0} \cup Ids
    BY DEF InfoBound
  <2>4. found.min \in Nat /\ found.max \in Nat
    BY <2>2
  <2>5. \A x \in {0} \cup Ids : x \in Nat
    BY <2>1
  <2>6. info.min \in Nat /\ info.max \in Nat
    BY <2>3, <2>5
  <2> QED
    BY <2>1, <2>4, <2>6
<1>4. S \ skipped = (Part(by, 0) \ skipped) \cup (Part(by, t) \ skipped)
      /\ Part(by, 0) \ skipped \in SUBSET Nat /\ Part(by, t) \ skipped \in SUBSET Nat
  BY <1>1, <1>3
<1>5. info'.count = Cardinality(S)
  <2>1. IsFiniteSet(Part(by, 0)) /\ IsFiniteSet(Part(by, t))
    BY <1>1, SubsetCounts
  <2>2. Cardinality(S) = Cardinality(Part(by, 0)) + Cardinality(Part(by, t)) - Cardinality({})
    BY <1>1, <2>1, FS_Union
  <2>3. Cardinality(Part(by, 0)) \in Nat /\ Cardinality(Part(by, t)) \in Nat /\ Cardinality({}) = 0
    BY <2>1, FS_CardinalityType, FS_EmptySet
  <2>4. info'.count = info.count + found.count
    BY NotedIs
  <2> QED
    BY <1>2, <2>2, <2>3, <2>4
<1>6. Greatest(info'.max, S \ skipped)
  <2>1. info'.max = IF found.max > info.max THEN found.max ELSE info.max
    BY NotedIs
  <2> QED
    BY <1>2, <1>3, <1>4, <2>1, GreatestOfBoth
<1>7. ASSUME "min" \notin blurred' PROVE Least(info'.min, S \ skipped)
  <2>1. "min" \notin blurred /\ (found.min = 0 => info.min = 0)
    BY <1>7
  <2>2. info'.min = IF found.min < info.min \/ info.min = 0 THEN found.min ELSE info.min
    BY NotedIs
  <2>3. Least(info.min, Part(by, 0) \ skipped) /\ Least(found.min, Part(by, t) \ skipped)
    BY <1>2, <2>1
  <2>4. Least(IF found.min < info.min \/ info.min = 0 THEN found.min ELSE info.min,
              (Part(by, 0) \ skipped) \cup (Part(by, t) \ skipped))
    BY <1>3, <1>4, <2>1, <2>3, LeastOfBoth
  <2> QED
    BY <1>4, <2>2, <2>4
<1>8. (S \ skipped)' = S \ skipped
  <2>1. skipped' = skipped
    OBVIOUS
  <2> QED
    BY <2>1
<1> QED
  BY <1>5, <1>6, <1>7, <1>8 DEF Knows

LEMMA JoinInfo == ASSUME KnowInv, Join PROVE LoadInfo' /\ RunInfo'
<1>1. PICK t : t = joined + 1
  OBVIOUS
<1>2. PICK found : found = loader[t].found
  OBVIOUS
<1>3. /\ Loading(t) /\ phase = "loading" /\ todo = {} /\ loader[t].ids = {}
      /\ info' = Noted(info, found.min, found.max, found.count)
      /\ blurred' = IF found.min = 0 /\ info.min # 0 THEN blurred \cup {"min"} ELSE blurred
      /\ phase' = IF t = Len(loader) THEN "running" ELSE "loading"
      /\ t = Len(loader) => loader' = <<>>
      /\ t # Len(loader) => joined' = t /\ loader' = [loader EXCEPT ![t] = NewLoader]
      /\ UNCHANGED <<disk, todo, saver, skipped>>
  BY <1>1, <1>2 DEF Join, Loading, files
<1>4. /\ loader \in Seq(LoaderSet) /\ joined \in Nat /\ t \in DOMAIN loader
      /\ loader[t] \in LoaderSet /\ t # 0
  BY <1>1, <1>3 DEF KnowInv, CacheInv, Types, Loading
<1>5. /\ skipped \subseteq Read
      /\ \A u \in DOMAIN loader, v \in DOMAIN loader : u # v => loader[u].ids \cap loader[v].ids = {}
      /\ \A u \in DOMAIN loader : \A id \in loader[u].ids : FileOf(id) \notin todo
      /\ \A s \in Savers : saver[s].at = "idle"
  BY <1>3 DEF KnowInv, LoadInfo, CacheInv, Phases
<1>6. PICK by \in [Ids -> {0} \cup DOMAIN loader] :
        /\ \A u \in DOMAIN loader : FoundOf(u, by)
        /\ Knows(Part(by, 0), Part(by, 0) \ skipped)
  BY <1>3 DEF KnowInv, LoadInfo
<1>7. PICK S : S = Part(by, 0) \cup Part(by, t)
  OBVIOUS
<1>8. Knows(S, S \ skipped)'
  BY <1>2, <1>3, <1>4, <1>6, <1>7, JoinKnows DEF KnowInv, Bounds
<1>9. Saved' = Saved
  BY <1>3 DEF Saved
<1>10. CASE t # Len(loader)
  <2>1. /\ DOMAIN loader' = DOMAIN loader /\ loader'[t] = NewLoader
        /\ \A u \in DOMAIN loader \ {t} : loader'[u] = loader[u]
    BY <1>3, <1>4, <1>10
  <2>2. /\ NewLoader.ids = {} /\ NewLoader.found.count = 0 /\ NewLoader.found.max = 0
        /\ NewLoader.found.min = 0
    BY DEF NewLoader, NoInfo
  <2>3. \A u \in DOMAIN loader : loader'[u].ids = loader[u].ids
    BY <1>3, <2>1, <2>2
  <2>4. \A id \in Ids : Unread(id)' <=> Unread(id)
    BY <1>3, <2>1, <2>3 DEF Unread
  <2>5. Read' = Read
    BY <1>9, <2>4 DEF Read, Saved
  <2> DEFINE now == [id \in Ids |-> IF by[id] = t THEN 0 ELSE by[id]]
  <2>6. now \in [Ids -> {0} \cup DOMAIN loader']
    BY <2>1
  <2>7. \A u \in DOMAIN loader \ {t} : Part(now, u)' = Part(by, u)
    BY <1>4, <2>5 DEF Part, Read, Saved
  <2>8. Part(now, 0)' = S /\ Part(now, t)' = {}
    BY <1>4, <1>7, <2>5 DEF Part, Read, Saved
  <2> HIDE DEF now
  <2>9. ASSUME NEW u \in DOMAIN loader PROVE FoundOf(u, now)'
    <3>1. CASE u = t
      <4>1. Cardinality({}) = 0 /\ {} \ skipped' = {}
        BY FS_EmptySet
      <4> QED
        BY <2>1, <2>2, <2>8, <3>1, <4>1 DEF FoundOf, Greatest, Least
    <3>2. CASE u # t
      <4>1. FoundOf(u, by) /\ Part(now, u)' = Part(by, u) /\ loader'[u] = loader[u]
        BY <1>6, <2>1, <2>7, <3>2
      <4>2. u <= joined' => u <= joined
        <5>1. u \in Nat
          BY <1>4
        <5> QED
          BY <1>1, <1>3, <1>4, <1>10, <3>2, <5>1
      <4> QED
        BY <1>3, <4>1, <4>2 DEF FoundOf
    <3> QED
      BY <3>1, <3>2
  <2>10. Knows(Part(now, 0), Part(now, 0) \ skipped)'
    BY <1>8, <2>8 DEF Knows
  <2>11. LoadInfo'
    BY <1>3, <1>5, <2>1, <2>3, <2>5, <2>6, <2>9, <2>10 DEF LoadInfo
  <2> QED
    BY <1>3, <1>10, <2>11 DEF RunInfo
<1>11. CASE t = Len(loader)
  <2>1. \A u \in DOMAIN loader : u # t => u <= joined
    BY <1>1, <1>4, <1>11
  <2>2. \A u \in DOMAIN loader : loader[u].ids = {}
    BY <1>3, <2>1 DEF KnowInv, CacheInv, LoadInv
  <2>3. Read = Saved
    BY <1>3, <2>2 DEF Read, Saved, Unread
  <2>4. \A u \in DOMAIN loader : u # t => Part(by, u) = {}
    BY <1>6, <2>1 DEF FoundOf
  <2>5. S = Saved
    <3>1. ASSUME NEW id \in Saved PROVE id \in Part(by, by[id]) /\ by[id] \in {0} \cup DOMAIN loader
      BY <1>6, <2>3, <3>1 DEF Part, Saved
    <3>2. \A id \in Saved : by[id] = 0 \/ by[id] = t
      BY <2>4, <3>1
    <3>3. S \subseteq Saved
      BY <1>7, <2>3 DEF Part
    <3> QED
      BY <1>7, <3>1, <3>2, <3>3
  <2>6. \A s \in Savers : saver'[s].at = "idle"
    BY <1>3, <1>5
  <2>7. Counted' = Saved
    BY <1>9, <2>6 DEF Counted, Counts
  <2>8. Knows(Counted, Counted \ skipped)'
    BY <1>8, <2>5, <2>7 DEF Knows
  <2>9. RunInfo'
    <3>0. PICK K : K = Saved \ skipped
      OBVIOUS
    <3>1. K \in SUBSET (Saved' \ skipped') /\ Counted' \ skipped' \subseteq K /\ Knows(Counted, K)'
      BY <1>3, <1>9, <2>7, <2>8, <3>0 DEF Knows
    <3>2. \A s \in Savers : saver'[s].at \notin {"release", "note"} /\ ~ Counts(s)'
      BY <2>6 DEF Counts
    <3> QED
      BY <3>1, <3>2 DEF RunInfo
  <2> QED
    BY <1>3, <1>11, <2>9 DEF LoadInfo
<1> QED
  BY <1>10, <1>11

-----------------------------------------------------------------------------
\* A save: an item that is new in its file is not counted yet.
LEMMA SaveItemInfo == ASSUME KnowInv, NEW s \in Savers, SaveItem(s) PROVE RunInfo'
<1>1. PICK id \in Ids : id = saver[s].id
  BY SaverTyped DEF KnowInv, SaveItem, Saving
<1>2. PICK v : v = disk[id] + 1
  OBVIOUS
<1> DEFINE place == IF saver[s].list THEN "note" ELSE "release"
           r == [saver[s] EXCEPT !.at = place, !.version = v, !.new = (v = 1)]
<1>3. /\ phase = "running" /\ saver[s].at = "save" /\ saver' = [saver EXCEPT ![s] = r]
      /\ disk' = [disk EXCEPT ![id] = v]
      /\ UNCHANGED <<phase, info, skipped, blurred>>
  BY <1>1, <1>2 DEF SaveItem, Saving, SetSaver
<1>4. saver[s] \in SaverSet /\ saver \in [Savers -> SaverSet] /\ disk \in [Ids -> Nat] /\ v # 0
  BY <1>2 DEF KnowInv, CacheInv, Types
<1>5. r.at \in {"note", "release"} /\ r.id = id /\ r.new = (v = 1)
  BY <1>1, <1>4 DEF SaverSet
<1> HIDE DEF r
<1>6. saver'[s] = r /\ \A u \in Savers \ {s} : saver'[u] = saver[u]
  BY <1>3, <1>4
<1>7. /\ \A u \in Savers : saver[u].at \in {"release", "note"} => saver[u].id \in Saved
      /\ \A t \in Savers, u \in Savers :
           Counts(t) /\ Counts(u) /\ saver[t].id = saver[u].id => t = u
  BY <1>3 DEF KnowInv, RunInfo
<1>8. PICK K \in SUBSET (Saved \ skipped) : Counted \ skipped \subseteq K /\ Knows(Counted, K)
  BY <1>3 DEF KnowInv, RunInfo
<1>9. Saved' = Saved \cup {id}
  BY <1>3, <1>4 DEF Saved
<1>10. (v = 1) <=> id \notin Saved
  BY <1>2, <1>4 DEF Saved
<1>11. ~ Counts(s) /\ (Counts(s)' <=> id \notin Saved)
  BY <1>3, <1>5, <1>6, <1>10 DEF Counts
<1>12. \A u \in Savers \ {s} : Counts(u)' <=> Counts(u)
  BY <1>6 DEF Counts
<1>13. Counted' = Counted
  <2>1. \A u \in Savers : Counts(u) => saver[u].id \in Saved
    BY <1>7 DEF Counts
  <2>2. ASSUME NEW k \in Ids PROVE k \in Counted' <=> k \in Counted
    <3>1. CASE k = id
      <4>1. CASE id \in Saved
        <5>1. (\E u \in Savers : Counts(u)' /\ saver'[u].id = k) <=>
                \E u \in Savers : Counts(u) /\ saver[u].id = k
          BY <1>6, <1>11, <1>12, <4>1
        <5> QED
          BY <1>9, <3>1, <4>1, <5>1 DEF Counted
      <4>2. CASE id \notin Saved
        <5>1. Counts(s)' /\ saver'[s].id = k
          BY <1>5, <1>6, <1>11, <3>1, <4>2
        <5> QED
          BY <3>1, <4>2, <5>1 DEF Counted
      <4> QED
        BY <4>1, <4>2
    <3>2. CASE k # id
      <4>1. (\E u \in Savers : Counts(u)' /\ saver'[u].id = k) <=>
              \E u \in Savers : Counts(u) /\ saver[u].id = k
        BY <1>5, <1>6, <1>11, <1>12, <3>2
      <4> QED
        BY <1>9, <3>2, <4>1 DEF Counted
    <3> QED
      BY <3>1, <3>2
  <2> QED
    BY <1>9, <2>2 DEF Counted, Saved
<1>14. Knows(Counted, K)'
  BY <1>3, <1>8, <1>13 DEF Knows
<1>15. K \in SUBSET (Saved' \ skipped') /\ Counted' \ skipped' \subseteq K
  BY <1>3, <1>8, <1>9, <1>13
<1>16. \A u \in Savers : saver'[u].at \in {"release", "note"} => saver'[u].id \in Saved'
  BY <1>5, <1>6, <1>7, <1>9
<1>17. ASSUME NEW t \in Savers, NEW u \in Savers, Counts(t)', Counts(u)', saver'[t].id = saver'[u].id
       PROVE  t = u
  <2>1. ASSUME NEW w \in Savers \ {s}, Counts(w)', Counts(s)' PROVE saver'[w].id # saver'[s].id
    BY <1>5, <1>6, <1>7, <1>11, <1>12, <2>1 DEF Counts
  <2>2. CASE t = s \/ u = s
    BY <1>17, <2>1, <2>2
  <2>3. CASE t # s /\ u # s
    BY <1>6, <1>7, <1>12, <1>17, <2>3
  <2> QED
    BY <2>2, <2>3
<1> QED
  BY <1>14, <1>15, <1>16, <1>17 DEF RunInfo

\* UpdateInfo: the item is known from now on, and counted if it is new.
LEMMA UpdateInfoInfo == ASSUME KnowInv, NEW s \in Savers, UpdateInfo(s) PROVE RunInfo'
<1>1. PICK id \in Ids : id = saver[s].id
  BY SaverTyped DEF KnowInv, UpdateInfo, Saving
<1> DEFINE r == [saver[s] EXCEPT !.at = "store"]
           n == IF saver[s].new THEN 1 ELSE 0
<1>2. /\ phase = "running" /\ saver[s].at = "note" /\ saver' = [saver EXCEPT ![s] = r]
      /\ info' = Noted(info, id, id, n) /\ skipped' = skipped \ {id}
      /\ UNCHANGED <<phase, disk, blurred>>
  BY <1>1 DEF UpdateInfo, Saving, Goto, SetSaver, files
<1>3. saver[s] \in SaverSet /\ saver \in [Savers -> SaverSet]
  BY DEF KnowInv, CacheInv, Types
<1>4. r.at = "store"
  BY <1>3 DEF SaverSet
<1> HIDE DEF r
<1>5. saver'[s] = r /\ \A u \in Savers \ {s} : saver'[u] = saver[u]
  BY <1>2, <1>3
<1>6. /\ \A u \in Savers : saver[u].at \in {"release", "note"} => saver[u].id \in Saved
      /\ \A t \in Savers, u \in Savers :
           Counts(t) /\ Counts(u) /\ saver[t].id = saver[u].id => t = u
  BY <1>2 DEF KnowInv, RunInfo
<1>7. PICK K \in SUBSET (Saved \ skipped) : Counted \ skipped \subseteq K /\ Knows(Counted, K)
  BY <1>2 DEF KnowInv, RunInfo
<1>8. Saved' = Saved /\ id \in Saved
  <2>1. Saved' = Saved
    BY <1>2 DEF Saved
  <2> QED
    BY <1>1, <1>2, <1>6, <2>1
<1>9. ~ Counts(s)' /\ (Counts(s) <=> saver[s].new) /\ \A u \in Savers \ {s} : Counts(u)' <=> Counts(u)
  BY <1>2, <1>4, <1>5 DEF Counts
<1>10. /\ saver[s].new => Counted' = Counted \cup {id} /\ id \notin Counted
       /\ ~ saver[s].new => Counted' = Counted
  <2>1. \A k \in Ids \ {id} : (\E u \in Savers : Counts(u)' /\ saver'[u].id = k) <=>
                                \E u \in Savers : Counts(u) /\ saver[u].id = k
    BY <1>1, <1>5, <1>9
  <2>2. \A k \in Ids \ {id} : k \in Counted' <=> k \in Counted
    BY <1>8, <2>1 DEF Counted
  <2>3. CASE saver[s].new
    <3>1. id \notin Counted
      BY <1>1, <1>9, <2>3 DEF Counted
    <3>2. id \in Counted'
      <4>1. \A u \in Savers : Counts(u)' => saver'[u].id # id
        BY <1>1, <1>5, <1>6, <1>9, <2>3
      <4> QED
        BY <1>8, <4>1 DEF Counted
    <3>3. Counted \subseteq Ids /\ Counted' \subseteq Ids
      BY DEF Counted, Saved
    <3> QED
      BY <2>2, <2>3, <3>1, <3>2, <3>3
  <2>4. CASE ~ saver[s].new
    <3>1. (\E u \in Savers : Counts(u)' /\ saver'[u].id = id) <=>
            \E u \in Savers : Counts(u) /\ saver[u].id = id
      BY <1>5, <1>9, <2>4
    <3>2. id \in Counted' <=> id \in Counted
      BY <1>8, <3>1 DEF Counted
    <3>3. Counted \subseteq Ids /\ Counted' \subseteq Ids
      BY DEF Counted, Saved
    <3> QED
      BY <2>2, <2>4, <3>2, <3>3
  <2> QED
    BY <2>3, <2>4
<1>11. PICK L : L = K \cup {id}
  OBVIOUS
<1>12. L \in SUBSET (Saved' \ skipped') /\ Counted' \ skipped' \subseteq L
  BY <1>2, <1>7, <1>8, <1>10, <1>11
<1>13. /\ info.count = Cardinality(Counted) /\ Greatest(info.max, K)
       /\ "min" \notin blurred => Least(info.min, K)
  BY <1>7 DEF Knows
<1>14. /\ Counted \in SUBSET Ids /\ Ids \subseteq Nat /\ id \in Nat
       /\ K \in SUBSET Nat /\ {id} \in SUBSET Nat
  <2>1. Ids \subseteq Nat /\ Counted \subseteq Saved /\ Saved \subseteq Ids
    BY IdsFinite DEF Counted, Saved
  <2> QED
    BY <1>7, <2>1
<1>15. info.min \in Nat /\ info.max \in Nat
  <2>1. info.min \in {0} \cup Ids /\ info.max \in {0} \cup Ids
    BY DEF KnowInv, Bounds, InfoBound
  <2>2. \A x \in {0} \cup Ids : x \in Nat
    BY <1>14
  <2> QED
    BY <2>1, <2>2
<1>16. Greatest(id, {id}) /\ Least(id, {id})
  BY <1>14, ExtremesOfOne
<1>17. info'.count = Cardinality(Counted')
  <2>1. IsFiniteSet(Counted) /\ Cardinality(Counted) \in Nat
    BY <1>14, SubsetCounts
  <2>2. info'.count = info.count + n
    BY <1>2, NotedIs
  <2>3. CASE saver[s].new
    <3>1. Cardinality(Counted') = Cardinality(Counted) + 1
      BY <1>10, <2>1, <2>3, FS_AddElement
    <3> QED
      BY <1>13, <2>2, <2>3, <3>1
  <2>4. CASE ~ saver[s].new
    BY <1>10, <1>13, <2>1, <2>2, <2>4
  <2> QED
    BY <2>3, <2>4
<1>18. Greatest(info'.max, L)
  <2>1. info'.max = IF id > info.max THEN id ELSE info.max
    BY <1>2, NotedIs
  <2>2. Greatest(IF id > info.max THEN id ELSE info.max, K \cup {id})
    BY <1>13, <1>14, <1>15, <1>16, GreatestOfBoth
  <2> QED
    BY <1>11, <2>1, <2>2
<1>19. ASSUME "min" \notin blurred PROVE Least(info'.min, L)
  <2>1. info'.min = IF id < info.min \/ info.min = 0 THEN id ELSE info.min
    BY <1>2, NotedIs
  <2>2. Least(info.min, K) /\ (id = 0 => 0 \in {id})
    BY <1>13, <1>14, <1>19
  <2>3. Least(IF id < info.min \/ info.min = 0 THEN id ELSE info.min, K \cup {id})
    BY <1>14, <1>15, <1>16, <2>2, LeastOfBoth
  <2> QED
    BY <1>11, <2>1, <2>3
<1>20. Knows(Counted, L)'
  BY <1>2, <1>17, <1>18, <1>19 DEF Knows
<1>21. \A u \in Savers : saver'[u].at \in {"release", "note"} => saver'[u].id \in Saved'
  BY <1>4, <1>5, <1>6, <1>8
<1>22. \A t \in Savers, u \in Savers :
         Counts(t)' /\ Counts(u)' /\ saver'[t].id = saver'[u].id => t = u
  BY <1>5, <1>6, <1>9
<1> QED
  BY <1>12, <1>20, <1>21, <1>22 DEF RunInfo

\* One request thread moves, and is not between its save and its UpdateInfo, or stays there.
LEMMA SaverMoves ==
  ASSUME KnowInv, NEW s \in Savers, NEW r, saver' = [saver EXCEPT ![s] = r],
         UNCHANGED <<phase, disk, info, skipped, blurred>>,
         r.at \in {"release", "note"} <=> saver[s].at \in {"release", "note"},
         r.at \in {"release", "note"} => r.id = saver[s].id /\ r.new = saver[s].new
  PROVE  RunInfo'
<1>1. saver'[s] = r /\ \A u \in Savers \ {s} : saver'[u] = saver[u]
  BY DEF KnowInv, CacheInv, Types
<1>2. \A u \in Savers :
        /\ saver'[u].at \in {"release", "note"} <=> saver[u].at \in {"release", "note"}
        /\ saver[u].at \in {"release", "note"} =>
             saver'[u].id = saver[u].id /\ saver'[u].new = saver[u].new
  BY <1>1
<1> QED
  BY <1>2, RunInfoStays DEF KnowInv

LEMMA QuietStepsInfo ==
  ASSUME KnowInv, NEW s \in Savers,
         \/ \E id \in Ids : NextItem(s, id) \/ \E list \in BOOLEAN : Lock(s, id, list)
         \/ SaveFails(s) \/ Release(s) \/ Store(s) \/ StoreFails(s) \/ ReleaseList(s)
  PROVE  RunInfo'
<1> USE DEF Saving, SetSaver, Goto, files, items, loading
<1>0. saver[s] \in SaverSet
  BY DEF KnowInv, CacheInv, Types
<1>1. ASSUME NEW id \in Ids, NEW list \in BOOLEAN, Lock(s, id, list) PROVE RunInfo'
  <2> DEFINE r == [NewSaver EXCEPT !.at = "save", !.id = id, !.list = list]
  <2>1. r.at = "save"
    BY DEF NewSaver
  <2>2. saver[s].at = "idle" /\ saver' = [saver EXCEPT ![s] = r]
        /\ UNCHANGED <<phase, disk, info, skipped, blurred>>
    BY <1>1 DEF Lock
  <2> HIDE DEF r
  <2> QED
    BY <2>1, <2>2, SaverMoves
<1>2. ASSUME NEW id \in Ids, NextItem(s, id) PROVE RunInfo'
  <2> DEFINE r == [saver[s] EXCEPT !.at = "save", !.id = id]
  <2>1. saver[s].at = "next" /\ saver' = [saver EXCEPT ![s] = r]
        /\ UNCHANGED <<phase, disk, info, skipped, blurred>>
    BY <1>2 DEF NextItem
  <2>2. r.at = "save"
    BY <1>0 DEF SaverSet
  <2> HIDE DEF r
  <2> QED
    BY <2>1, <2>2, SaverMoves
<1>3. CASE SaveFails(s) \/ Store(s) \/ StoreFails(s)
  <2> DEFINE next == [NewSaver EXCEPT !.at = "next", !.id = saver[s].id, !.list = TRUE]
             r == IF saver[s].list THEN next ELSE NewSaver
  <2>1. saver[s].at \in {"save", "store"} /\ saver' = [saver EXCEPT ![s] = r]
        /\ UNCHANGED <<phase, disk, info, skipped, blurred>>
    BY <1>3 DEF SaveFails, Store, StoreFails, Done
  <2>2. next.at = "next" /\ NewSaver.at = "idle"
    BY DEF NewSaver
  <2>3. r.at \in {"next", "idle"}
    BY <2>2
  <2> HIDE DEF r
  <2> QED
    BY <2>1, <2>3, SaverMoves
<1>4. CASE Release(s)
  <2> DEFINE r == [saver[s] EXCEPT !.at = "note"]
  <2>1. saver[s].at = "release" /\ saver' = [saver EXCEPT ![s] = r]
        /\ UNCHANGED <<phase, disk, info, skipped, blurred>>
    BY <1>4 DEF Release
  <2>2. r.at = "note" /\ r.id = saver[s].id /\ r.new = saver[s].new
    BY <1>0 DEF SaverSet
  <2> HIDE DEF r
  <2> QED
    BY <2>1, <2>2, SaverMoves
<1>5. CASE ReleaseList(s)
  <2>1. saver[s].at = "next" /\ saver' = [saver EXCEPT ![s] = NewSaver] /\ NewSaver.at = "idle"
        /\ UNCHANGED <<phase, disk, info, skipped, blurred>>
    BY <1>5 DEF ReleaseList, NewSaver
  <2> QED
    BY <2>1, SaverMoves
<1> QED
  BY <1>1, <1>2, <1>3, <1>4, <1>5

LEMMA SaversInfo ==
  ASSUME KnowInv, NEW s \in Savers,
         SaveStep(s) \/ \E id \in Ids : NextItem(s, id) \/ \E list \in BOOLEAN : Lock(s, id, list)
  PROVE  LoadInfo' /\ RunInfo'
<1>1. phase' # "loading"
  BY DEF SaveStep, SaveItem, SaveFails, Release, UpdateInfo, Store, StoreFails, ReleaseList, NextItem,
         Lock, Saving
<1>2. LoadInfo'
  BY <1>1 DEF LoadInfo
<1>3. RunInfo'
  BY SaveItemInfo, UpdateInfoInfo, QuietStepsInfo DEF SaveStep
<1> QED
  BY <1>2, <1>3

LEMMA NextInfo == ASSUME KnowInv, [Next]_vars PROVE LoadInfo' /\ RunInfo'
<1>1. CASE UNCHANGED vars
  <2>1. UNCHANGED <<phase, disk, todo, loader, joined, skipped, info, blurred, saver>>
    BY <1>1 DEF vars, files, loading
  <2>2. LoadInfo'
    BY <2>1, LoadInfoStays DEF KnowInv
  <2>3. RunInfo'
    BY <2>1, RunInfoStays DEF KnowInv
  <2> QED
    BY <2>2, <2>3
<1>2. CASE LoadStep
  <2>1. CASE Join
    BY <2>1, JoinInfo
  <2>2. ASSUME NEW t \in Loaders, TakeFiles(t) \/ LoadItem(t) \/ Compare(t) \/ Raise(t)
        PROVE  LoadInfo' /\ RunInfo'
    <3>1. phase' # "running"
      BY <2>2 DEF TakeFiles, LoadItem, Compare, Raise, Loading
    <3>2. LoadInfo'
      BY <2>2, TakeFilesInfo, LoadItemInfo, PlaceInfo
    <3> QED
      BY <3>1, <3>2 DEF RunInfo
  <2> QED
    BY <1>2, <2>1, <2>2 DEF LoadStep
<1>3. CASE LoadFails
  BY <1>3 DEF LoadFails, LoadInfo, RunInfo
<1>4. CASE Commit
  <2>1. phase = "running" /\ UNCHANGED <<phase, disk, info, skipped, blurred, saver>>
    BY <1>4 DEF Commit, files
  <2>2. RunInfo'
    BY <2>1, RunInfoStays DEF KnowInv
  <2> QED
    BY <2>1, <2>2 DEF LoadInfo
<1>5. ASSUME NEW s \in Savers,
             SaveStep(s) \/ \E id \in Ids : NextItem(s, id) \/ \E list \in BOOLEAN : Lock(s, id, list)
      PROVE  LoadInfo' /\ RunInfo'
  BY <1>5, SaversInfo
<1> QED
  BY <1>1, <1>2, <1>3, <1>4, <1>5 DEF Next

-----------------------------------------------------------------------------
\* The bounds, each kept by the steps that change what it is about.
LEMMA LoaderStep ==
  ASSUME KnowInv, NEW t \in Loaders, TakeFiles(t) \/ LoadItem(t) \/ Compare(t) \/ Raise(t)
  PROVE  /\ phase = "loading" /\ t \in DOMAIN loader /\ loader[t] \in LoaderSet
         /\ DOMAIN loader' = DOMAIN loader
         /\ UNCHANGED <<phase, disk, deleted, info, pending, joined, locked, saver, saves, doubtful>>
<1>1. /\ phase = "loading" /\ t \in DOMAIN loader /\ loader \in Seq(LoaderSet)
      /\ \E l : loader' = [loader EXCEPT ![t] = l]
      /\ UNCHANGED <<phase, disk, deleted, info, pending, joined, locked, saver, saves, doubtful>>
  <2>1. phase = "loading" /\ t \in DOMAIN loader /\ loader \in Seq(LoaderSet)
    BY DEF TakeFiles, LoadItem, Compare, Raise, Loading, KnowInv, CacheInv, Types
  <2>2. UNCHANGED <<phase, disk, deleted, info, pending, joined, locked, saver, saves, doubtful>>
    BY DEF TakeFiles, LoadItem, Compare, Raise, files
  <2>3. \E l : SetLoader(t, l)
    <3>1. CASE TakeFiles(t)
      BY <3>1, Zenon DEF TakeFiles
    <3>2. CASE LoadItem(t)
      BY <3>2, Zenon DEF LoadItem
    <3>3. CASE Compare(t)
      BY <3>3, Zenon DEF Compare
    <3>4. CASE Raise(t)
      BY <3>4, Zenon DEF Raise
    <3> QED
      BY <3>1, <3>2, <3>3, <3>4
  <2> QED
    BY <2>1, <2>2, <2>3 DEF SetLoader
<1> QED
  BY <1>1

LEMMA SaveItemBounds ==
  ASSUME KnowInv, NEW s \in Savers, SaveItem(s)
  PROVE  SaveBound' /\ disk[saver[s].id] + 1 \in Versions
<1>1. PICK id \in Ids : id = saver[s].id
  BY SaverTyped DEF KnowInv, SaveItem, Saving
<1>2. PICK v : v = disk[id] + 1
  OBVIOUS
<1>3. /\ saves < MaxSaves /\ saves' = saves + 1 /\ disk' = [disk EXCEPT ![id] = v]
      /\ deleted' \in {deleted, deleted \cup {<<id, v>>}}
  BY <1>1, <1>2 DEF SaveItem
<1>4. /\ saves \in Nat /\ MaxSaves \in Nat /\ disk \in [Ids -> Nat]
      /\ \A k \in Ids : disk[k] <= saves + 1
      /\ deleted \subseteq Ids \X Versions
  BY CacheEngineAssumption DEF KnowInv, CacheInv, Types, Bounds, SaveBound
<1>5. v \in Versions /\ v <= saves + 2
  BY <1>2, <1>3, <1>4 DEF Versions
<1>6. ASSUME NEW k \in Ids PROVE disk'[k] <= saves' + 1
  <2>1. disk'[k] = IF k = id THEN v ELSE disk[k]
    BY <1>3, <1>4
  <2>2. v <= saves' + 1 /\ disk[k] <= saves' + 1
    <3>1. disk[k] \in Nat /\ disk[k] <= saves + 1 /\ v \in Nat
      BY <1>4, <1>5 DEF Versions
    <3> QED
      BY <1>3, <1>4, <1>5, <3>1
  <2> QED
    BY <2>1, <2>2
<1>7. deleted' \subseteq Ids \X Versions
  BY <1>3, <1>4, <1>5
<1>8. saves' \in 0 .. MaxSaves
  BY <1>3, <1>4
<1> QED
  BY <1>1, <1>2, <1>5, <1>6, <1>7, <1>8 DEF SaveBound

LEMMA VersionOnDisk ==
  ASSUME KnowInv, NEW id \in Ids
  PROVE  disk[id] \in {0} \cup Versions
<1>1. /\ saves \in 0 .. MaxSaves /\ MaxSaves \in Nat /\ disk[id] \in Nat /\ disk[id] <= saves + 1
  BY CacheEngineAssumption DEF KnowInv, CacheInv, Types, Bounds, SaveBound
<1> QED
  BY <1>1 DEF Versions

LEMMA LoaderBounds ==
  ASSUME KnowInv, NEW t \in Loaders, TakeFiles(t) \/ LoadItem(t) \/ Compare(t) \/ Raise(t)
  PROVE  Bounds'
<1>1. /\ phase = "loading" /\ t \in DOMAIN loader /\ loader[t] \in LoaderSet
      /\ DOMAIN loader' = DOMAIN loader
      /\ UNCHANGED <<phase, disk, deleted, info, pending, joined, locked, saver, saves, doubtful>>
  BY LoaderStep
<1>2. SaveBound' /\ InfoBound' /\ PendingBound' /\ SaverBound'
  BY <1>1 DEF KnowInv, Bounds, SaveBound, InfoBound, PendingBound, SaverBound, InSave
<1>3. todo' \subseteq todo
  BY DEF TakeFiles, LoadItem, Compare, Raise
<1>4. FileBound'
  BY <1>1, <1>3 DEF KnowInv, Bounds, FileBound
<1>5. CASE TakeFiles(t) \/ Compare(t)
  BY <1>2, <1>4, <1>5 DEF TakeFiles, Compare, items, KnowInv, Bounds, CacheBound, HistoryBound
<1>6. CASE LoadItem(t)
  <2>1. PICK id : id = Min(loader[t].ids)
    OBVIOUS
  <2>2. id \in Ids
    <3>1. loader[t].ids # {} /\ loader[t].ids \in SUBSET Ids /\ loader[t].ids \in SUBSET Nat
      BY <1>1, <1>6, IdsFinite DEF LoadItem, LoaderSet
    <3> QED
      BY <2>1, <3>1, MinIs
  <2>3. /\ cache' \in {cache, [cache EXCEPT ![id] = disk[id]]}
        /\ skipped' \subseteq skipped \cup {id}
        /\ UNCHANGED <<largest, blurred>>
    BY <1>6, <2>1 DEF LoadItem
  <2>4. disk[id] \in {0} \cup Versions
    BY <2>2, VersionOnDisk
  <2>5. CacheBound' /\ HistoryBound'
    BY <1>1, <2>2, <2>3, <2>4 DEF KnowInv, Bounds, CacheBound, HistoryBound
  <2> QED
    BY <1>2, <1>4, <2>5 DEF Bounds
<1>7. CASE Raise(t)
  <2>1. /\ largest' = loader[t].id /\ UNCHANGED <<cache, skipped>>
        /\ blurred' \in {blurred, blurred \cup {"largest"}} /\ loader[t].at = "raise"
    BY <1>7 DEF Raise
  <2>2. largest' \in Ids
    BY <1>1, <2>1 DEF KnowInv, CacheInv, LoadInv
  <2>3. CacheBound' /\ HistoryBound'
    BY <1>1, <2>1, <2>2 DEF KnowInv, Bounds, CacheBound, HistoryBound
  <2> QED
    BY <1>2, <1>4, <2>3 DEF Bounds
<1> QED
  BY <1>5, <1>6, <1>7

LEMMA ExtremeIn ==
  ASSUME NEW K \in SUBSET Ids, NEW x, Greatest(x, K) \/ Least(x, K)
  PROVE  x \in {0} \cup Ids
BY DEF Greatest, Least

LEMMA NotedTyped ==
  ASSUME NEW i \in [min : {0} \cup Ids, max : {0} \cup Ids, count : Nat],
         NEW x \in {0} \cup Ids, NEW y \in {0} \cup Ids, NEW n \in Nat
  PROVE  Noted(i, x, y, n) \in [min : {0} \cup Ids, max : {0} \cup Ids, count : Nat]
BY DEF Noted

LEMMA JoinBounds == ASSUME KnowInv, Join PROVE Bounds'
<1>1. PICK t : t = joined + 1
  OBVIOUS
<1>2. PICK found : found = loader[t].found
  OBVIOUS
<1>3. /\ Loading(t) /\ phase = "loading"
      /\ info' = Noted(info, found.min, found.max, found.count)
      /\ blurred' \in {blurred, blurred \cup {"min"}}
      /\ phase' \in {"running", "loading"}
      /\ joined' = 0 \/ (joined' = t /\ loader' = [loader EXCEPT ![t] = NewLoader])
      /\ UNCHANGED <<disk, deleted, cache, largest, pending, todo, locked, saver, saves, skipped,
                     doubtful>>
  BY <1>1, <1>2 DEF Join, Loading, files, items
<1>4. t \in DOMAIN loader /\ loader \in Seq(LoaderSet) /\ loader[t] \in LoaderSet
  BY <1>3 DEF KnowInv, CacheInv, Types, Loading
<1>5. PICK by : FoundOf(t, by)
  BY <1>3, <1>4 DEF KnowInv, LoadInfo
<1>6. found.min \in {0} \cup Ids /\ found.max \in {0} \cup Ids /\ found.count \in Nat
  <2>1. Part(by, t) \ skipped \in SUBSET Ids
    BY DEF Part, Read, Saved
  <2>2. Greatest(found.max, Part(by, t) \ skipped) /\ Least(found.min, Part(by, t) \ skipped)
    BY <1>2, <1>5 DEF FoundOf
  <2>3. found.max \in {0} \cup Ids
    BY <2>1, <2>2, ExtremeIn
  <2>4. found.min \in {0} \cup Ids
    BY <2>1, <2>2, ExtremeIn
  <2> QED
    BY <1>2, <1>4, <2>3, <2>4 DEF LoaderSet
<1>7. InfoBound'
  <2>1. info \in [min : {0} \cup Ids, max : {0} \cup Ids, count : Nat]
    BY DEF KnowInv, Bounds, InfoBound
  <2>2. Noted(info, found.min, found.max, found.count) \in
          [min : {0} \cup Ids, max : {0} \cup Ids, count : Nat]
    BY <1>6, <2>1, NotedTyped
  <2> QED
    BY <1>3, <2>2 DEF InfoBound
<1>8. FileBound'
  BY <1>3, <1>4 DEF KnowInv, Bounds, FileBound
<1> QED
  BY <1>3, <1>7, <1>8 DEF KnowInv, Bounds, SaveBound, CacheBound, PendingBound, SaverBound,
                        HistoryBound, InSave

LEMMA LoadFailsBounds == ASSUME KnowInv, LoadFails PROVE Bounds'
<1>1. /\ phase = "loading" /\ cache' = NoItems /\ largest' = 0 /\ todo' = {} /\ joined' = 0
      /\ UNCHANGED <<disk, deleted, info, pending, locked, saver, saves, skipped, doubtful, blurred>>
  BY DEF LoadFails, files
<1>2. PICK S \in SUBSET Ids : info.count = Cardinality(S)
  <2>1. PICK by : Knows(Part(by, 0), Part(by, 0) \ skipped)
    BY <1>1 DEF KnowInv, LoadInfo
  <2>2. Part(by, 0) \in SUBSET Ids
    BY DEF Part, Read, Saved
  <2> QED
    BY <2>1, <2>2 DEF Knows
<1>3. info'.count <= Cardinality(Ids)
  BY <1>1, <1>2, SubsetCounts
<1>4. InfoBound' /\ CacheBound'
  BY <1>1, <1>3 DEF KnowInv, Bounds, InfoBound, CacheBound, NoItems
<1> QED
  BY <1>1, <1>4 DEF KnowInv, Bounds, SaveBound, PendingBound, FileBound, SaverBound,
                   HistoryBound, InSave

LEMMA CommitBounds == ASSUME KnowInv, Commit PROVE Bounds'
<1>1. /\ phase = "running" /\ cache' = [id \in Ids |-> CommittedItem(id)] /\ largest' = CommittedLargest
      /\ pending' = <<>>
      /\ UNCHANGED <<phase, disk, deleted, info, todo, loader, joined, locked, saver, saves,
                     skipped, doubtful, blurred>>
  BY DEF Commit, files, loading
<1>2. /\ pending \in Seq(Ids \X Versions) /\ cache \in [Ids -> {0} \cup Versions]
      /\ largest \in {0} \cup Ids /\ Len(pending) \in Nat /\ DOMAIN pending = 1 .. Len(pending)
      /\ \A k \in DOMAIN pending : pending[k] \in Ids \X Versions
  BY DEF KnowInv, Bounds, PendingBound, CacheBound
<1>3. ASSUME NEW id \in Ids PROVE CommittedItem(id) \in {0} \cup Versions
  <2>1. CASE PendingAt(id) = {}
    BY <1>2, <2>1 DEF CommittedItem
  <2>2. CASE PendingAt(id) # {}
    <3>1. PICK k : k = Min(PendingAt(id))
      OBVIOUS
    <3>2. k \in DOMAIN pending
      <4>1. PendingAt(id) \in SUBSET Nat /\ PendingAt(id) \subseteq DOMAIN pending
        BY <1>2 DEF PendingAt
      <4> QED
        BY <2>2, <3>1, <4>1, MinIs
    <3>3. pending[k][2] \in Versions
      BY <1>2, <3>2
    <3> QED
      BY <2>2, <3>1, <3>3 DEF CommittedItem, Cached
  <2> QED
    BY <2>1, <2>2
<1>4. CommittedLargest \in {0} \cup Ids
  <2> DEFINE R == {pending[k][1] : k \in DOMAIN pending}
             S == {largest} \cup R
  <2>1. R \subseteq Ids
    BY <1>2
  <2>2. S \subseteq {0} \cup Ids /\ S # {}
    BY <1>2, <2>1
  <2>3. IsFiniteSet({0} \cup Ids)
    BY IdsFinite, FS_AddElement
  <2>4. CommittedLargest = Max(S)
    BY DEF CommittedLargest
  <2> HIDE DEF S, R
  <2>5. IsFiniteSet(S) /\ S \in SUBSET Nat
    <3>1. IsFiniteSet(S)
      BY <2>2, <2>3, FS_Subset
    <3>2. \A x \in {0} \cup Ids : x \in Nat
      BY IdsFinite
    <3> QED
      BY <2>2, <3>1, <3>2
  <2>6. Max(S) \in S
    BY <2>2, <2>5, MaxIs
  <2> QED
    BY <2>2, <2>4, <2>6
<1>5. CacheBound'
  BY <1>1, <1>3, <1>4 DEF CacheBound
<1>6. PendingBound'
  <2>1. MaxPending \in Nat
    BY CacheEngineAssumption
  <2> QED
    BY <1>1, <2>1 DEF PendingBound
<1> QED
  BY <1>1, <1>5, <1>6 DEF KnowInv, Bounds, SaveBound, InfoBound, FileBound, SaverBound,
                        HistoryBound, InSave

LEMMA InitBounds == Init => Bounds
<1> SUFFICES ASSUME Init PROVE Bounds
  OBVIOUS
<1> USE CacheEngineAssumption
<1>1. SaveBound
  <2>1. saves = 0 /\ disk \in [Ids -> 0 .. 1] /\ deleted \in SUBSET {<<id, 1>> : id \in Ids}
    BY DEF Init
  <2>2. 1 \in Versions /\ 0 \in 0 .. MaxSaves
    BY DEF Versions
  <2>3. \A id \in Ids : disk[id] <= saves + 1
    BY <2>1
  <2> QED
    BY <2>1, <2>2, <2>3 DEF SaveBound
<1>2. CacheBound /\ InfoBound
  BY DEF Init, CacheBound, InfoBound, NoItems, NoInfo
<1>3. PendingBound /\ HistoryBound
  BY DEF Init, PendingBound, HistoryBound
<1>4. FileBound
  BY DEF Init, FileBound, Files
<1>5. SaverBound
  BY DEF Init, SaverBound, NewSaver, InSave
<1> QED
  BY <1>1, <1>2, <1>3, <1>4, <1>5 DEF Bounds

\* A step of a request thread: where it goes, and what version it has then.
LEMMA SaverBoundStep ==
  ASSUME KnowInv, NEW s \in Savers, NEW r, saver' = [saver EXCEPT ![s] = r],
         r.version \in {0} \cup Versions,
         r.at \in {"release", "note", "store"} => r.version # 0
  PROVE  SaverBound'
<1>1. saver'[s] = r /\ \A u \in Savers \ {s} : saver'[u] = saver[u]
  BY DEF KnowInv, CacheInv, Types
<1> QED
  BY <1>1 DEF KnowInv, Bounds, SaverBound, InSave

LEMMA SaveStepBounds ==
  ASSUME KnowInv, NEW s \in Savers, SaveItem(s) \/ UpdateInfo(s) \/ Store(s) \/ StoreFails(s)
  PROVE  Bounds'
<1> USE DEF Saving, SetSaver, Goto, files, items, loading
<1>1. PICK id \in Ids : id = saver[s].id
  BY SaverTyped DEF KnowInv, SaveItem, UpdateInfo, Store, StoreFails
<1>2. /\ saver[s] \in SaverSet /\ saver[s].version \in {0} \cup Versions
      /\ InSave(s) => saver[s].version \in Versions
  BY DEF KnowInv, CacheInv, Types, Bounds, SaverBound
<1>3. /\ phase = "running" /\ phase' = "running"
      /\ UNCHANGED <<cache, largest, todo, loader, joined, locked>>
  BY DEF SaveItem, UpdateInfo, Store, StoreFails
<1>4. CacheBound' /\ FileBound'
  BY <1>3 DEF KnowInv, Bounds, CacheBound, FileBound
<1>5. CASE SaveItem(s)
  <2> DEFINE v == disk[id] + 1
             place == IF saver[s].list THEN "note" ELSE "release"
             r == [saver[s] EXCEPT !.at = place, !.version = v, !.new = (v = 1)]
  <2>1. SaveBound' /\ v \in Versions
    BY <1>1, <1>5, SaveItemBounds
  <2>2. saver' = [saver EXCEPT ![s] = r] /\ UNCHANGED <<info, pending, skipped, doubtful, blurred>>
    BY <1>1, <1>5 DEF SaveItem
  <2>3. r.version \in Versions /\ r.version # 0
    BY <1>2, <2>1 DEF SaverSet, Versions
  <2> HIDE DEF r, v
  <2>4. SaverBound'
    BY <2>2, <2>3, SaverBoundStep
  <2> QED
    BY <1>3, <1>4, <2>1, <2>2, <2>4 DEF KnowInv, Bounds, InfoBound, PendingBound, HistoryBound
<1>6. CASE UpdateInfo(s)
  <2> DEFINE r == [saver[s] EXCEPT !.at = "store"]
             n == IF saver[s].new THEN 1 ELSE 0
  <2>1. /\ saver' = [saver EXCEPT ![s] = r] /\ saver[s].at = "note"
        /\ info' = Noted(info, id, id, n) /\ skipped' \subseteq skipped
        /\ UNCHANGED <<disk, deleted, saves, pending, doubtful, blurred>>
    BY <1>1, <1>6 DEF UpdateInfo
  <2>2. r.version = saver[s].version /\ saver[s].version \in Versions
    BY <1>2, <2>1 DEF SaverSet, InSave
  <2> HIDE DEF r
  <2>3. SaverBound'
    <3>1. r.version \in {0} \cup Versions /\ r.version # 0
      BY <2>2 DEF Versions
    <3> QED
      BY <2>1, <3>1, SaverBoundStep
  <2>4. InfoBound'
    <3>1. info \in [min : {0} \cup Ids, max : {0} \cup Ids, count : Nat]
      BY DEF KnowInv, Bounds, InfoBound
    <3>2. n \in Nat
      OBVIOUS
    <3> HIDE DEF n
    <3>3. Noted(info, id, id, n) \in [min : {0} \cup Ids, max : {0} \cup Ids, count : Nat]
      BY <3>1, <3>2, NotedTyped
    <3> QED
      BY <1>3, <2>1, <3>3 DEF InfoBound
  <2> QED
    BY <1>4, <2>1, <2>3, <2>4 DEF KnowInv, Bounds, SaveBound, PendingBound, HistoryBound
<1>7. CASE Store(s) \/ StoreFails(s)
  <2> DEFINE next == [NewSaver EXCEPT !.at = "next", !.id = saver[s].id, !.list = TRUE]
             r == IF saver[s].list THEN next ELSE NewSaver
  <2>1. /\ saver' = [saver EXCEPT ![s] = r] /\ saver[s].at = "store"
        /\ doubtful' \subseteq doubtful \cup {id}
        /\ UNCHANGED <<disk, deleted, saves, info, skipped, blurred>>
    BY <1>1, <1>7 DEF Store, StoreFails, Done
  <2>2. next.version = 0 /\ NewSaver.version = 0 /\ next.at = "next" /\ NewSaver.at = "idle"
    BY DEF NewSaver
  <2>3. r.version = 0 /\ r.at \in {"next", "idle"}
    BY <2>2
  <2> HIDE DEF r
  <2>4. SaverBound'
    BY <2>1, <2>3, SaverBoundStep
  <2>5. PendingBound'
    <3>1. pending \in Seq(Ids \X Versions) /\ Len(pending) <= MaxPending
      BY DEF KnowInv, Bounds, PendingBound
    <3>2. CASE StoreFails(s)
      BY <3>1, <3>2 DEF StoreFails, PendingBound
    <3>3. CASE Store(s)
      <4>1. pending' = Append(pending, <<id, saver[s].version>>) /\ Len(pending) < MaxPending
        BY <1>1, <3>3 DEF Store
      <4>2. <<id, saver[s].version>> \in Ids \X Versions
        BY <1>2, <2>1 DEF InSave
      <4>3. MaxPending \in Nat /\ Len(pending) \in Nat
        BY <3>1, CacheEngineAssumption
      <4>4. pending' \in Seq(Ids \X Versions) /\ Len(pending') = Len(pending) + 1
        BY <3>1, <4>1, <4>2, AppendProperties
      <4> QED
        BY <4>1, <4>3, <4>4 DEF PendingBound
    <3> QED
      BY <1>7, <3>2, <3>3
  <2>6. HistoryBound'
    BY <2>1 DEF KnowInv, Bounds, HistoryBound
  <2> QED
    BY <1>3, <1>4, <2>1, <2>4, <2>5, <2>6 DEF KnowInv, Bounds, SaveBound, InfoBound
<1> QED
  BY <1>5, <1>6, <1>7

LEMMA QuietStepsBounds ==
  ASSUME KnowInv, NEW s \in Savers,
         \/ \E id \in Ids : NextItem(s, id) \/ \E list \in BOOLEAN : Lock(s, id, list)
         \/ SaveFails(s) \/ Release(s) \/ ReleaseList(s)
  PROVE  Bounds'
<1> USE DEF Saving, SetSaver, Goto, files, items, loading
<1>0. /\ saver[s] \in SaverSet /\ saver[s].version \in {0} \cup Versions
      /\ InSave(s) => saver[s].version # 0
  BY DEF KnowInv, CacheInv, Types, Bounds, SaverBound
<1>1. UNCHANGED <<phase, disk, deleted, cache, largest, info, pending, todo, loader, joined, saves,
                  skipped, doubtful, blurred>>
  BY DEF NextItem, Lock, SaveFails, Release, ReleaseList
<1>2. locked' \subseteq locked \cup Files
  BY DEF NextItem, Lock, SaveFails, Release, ReleaseList, Files
<1>3. PICK r : /\ saver' = [saver EXCEPT ![s] = r] /\ r.version \in {0} \cup Versions
               /\ r.at \in {"release", "note", "store"} => r.version # 0
  <2> DEFINE Moves(r) == /\ saver' = [saver EXCEPT ![s] = r] /\ r.version \in {0} \cup Versions
                         /\ r.at \in {"release", "note", "store"} => r.version # 0
  <2>1. ASSUME NEW id \in Ids, NEW list \in BOOLEAN, Lock(s, id, list) PROVE \E r : Moves(r)
    <3> DEFINE r == [NewSaver EXCEPT !.at = "save", !.id = id, !.list = list]
    <3>1. r.at = "save" /\ r.version = 0 /\ saver' = [saver EXCEPT ![s] = r]
      BY <2>1 DEF Lock, NewSaver
    <3>2. Moves(r)
      BY <3>1
    <3> QED
      BY <3>2
  <2>2. ASSUME NEW id \in Ids, NextItem(s, id) PROVE \E r : Moves(r)
    <3> DEFINE r == [saver[s] EXCEPT !.at = "save", !.id = id]
    <3>1. r.at = "save" /\ r.version = saver[s].version /\ saver' = [saver EXCEPT ![s] = r]
      BY <1>0, <2>2 DEF NextItem, SaverSet
    <3>2. Moves(r)
      BY <1>0, <3>1
    <3> QED
      BY <3>2
  <2>3. CASE Release(s)
    <3> DEFINE r == [saver[s] EXCEPT !.at = "note"]
    <3>1. /\ r.at = "note" /\ r.version = saver[s].version /\ saver' = [saver EXCEPT ![s] = r]
          /\ InSave(s)
      BY <1>0, <2>3 DEF Release, SaverSet, InSave
    <3>2. Moves(r)
      BY <1>0, <3>1
    <3> QED
      BY <3>2
  <2>4. CASE SaveFails(s) \/ ReleaseList(s)
    <3> DEFINE next == [NewSaver EXCEPT !.at = "next", !.id = saver[s].id, !.list = TRUE]
               r == IF SaveFails(s) /\ saver[s].list THEN next ELSE NewSaver
    <3>1. next.version = 0 /\ NewSaver.version = 0 /\ next.at = "next" /\ NewSaver.at = "idle"
      BY DEF NewSaver
    <3>2. r.version = 0 /\ r.at \in {"next", "idle"}
      BY <3>1
    <3>3. saver' = [saver EXCEPT ![s] = r]
      BY <2>4 DEF SaveFails, ReleaseList, Done
    <3>4. Moves(r)
      BY <3>2, <3>3
    <3> QED
      BY <3>4
  <2> QED
    BY <2>1, <2>2, <2>3, <2>4
<1>4. SaverBound'
  BY <1>3, SaverBoundStep
<1>5. FileBound'
  BY <1>1, <1>2 DEF KnowInv, Bounds, FileBound
<1> QED
  BY <1>1, <1>4, <1>5 DEF KnowInv, Bounds, SaveBound, CacheBound, InfoBound, PendingBound, HistoryBound

LEMMA NextBounds == ASSUME KnowInv, [Next]_vars PROVE Bounds'
<1>1. CASE UNCHANGED vars
  <2>1. UNCHANGED <<phase, disk, deleted, cache, largest, info, pending, todo, loader, joined, locked,
                    saver, saves, skipped, doubtful, blurred>>
    BY <1>1 DEF vars, files, items, loading
  <2> QED
    BY <2>1 DEF KnowInv, Bounds, SaveBound, CacheBound, InfoBound, PendingBound, FileBound, SaverBound,
                HistoryBound, InSave
<1>2. CASE LoadStep
  BY <1>2, LoaderBounds, JoinBounds DEF LoadStep
<1>3. CASE LoadFails \/ Commit
  BY <1>3, LoadFailsBounds, CommitBounds
<1>4. ASSUME NEW s \in Savers,
             SaveStep(s) \/ \E id \in Ids : NextItem(s, id) \/ \E list \in BOOLEAN : Lock(s, id, list)
      PROVE  Bounds'
  BY <1>4, SaveStepBounds, QuietStepsBounds DEF SaveStep
<1> QED
  BY <1>1, <1>2, <1>3, <1>4 DEF Next

THEOREM KnowInvariant == Spec => []KnowInv
<1>1. Init => KnowInv
  BY InitCacheInv, InitKnows, InitBounds DEF KnowInv
<1>2. KnowInv /\ [Next]_vars => KnowInv'
  <2> SUFFICES ASSUME KnowInv, [Next]_vars PROVE KnowInv'
    OBVIOUS
  <2>1. CacheInv'
    BY NextCacheInv DEF KnowInv
  <2> QED
    BY <2>1, NextInfo, NextBounds DEF KnowInv
<1> QED
  BY <1>1, <1>2, PTL DEF Spec

\* A set has one greatest and one smallest element.
LEMMA GreatestIsMax ==
  ASSUME NEW K \in SUBSET Nat, K # {}, NEW x, Greatest(x, K)
  PROVE  x = Max(K)
<1>1. x \in K /\ \A y \in K : x >= y
  BY DEF Greatest
<1>2. \A z \in K : (\A y \in K : z >= y) => z = x
  BY <1>1
<1> QED
  BY <1>1, <1>2 DEF Max

LEMMA LeastIsMin ==
  ASSUME NEW K \in SUBSET Nat, K # {}, NEW x, Least(x, K), 0 \notin K
  PROVE  x = Min(K)
<1>1. x \in K /\ \A y \in K : x <= y
  BY DEF Least
<1>2. \A z \in K : (\A y \in K : z <= y) => z = x
  BY <1>1
<1> QED
  BY <1>1, <1>2 DEF Min

\* However many threads load the items, and in whatever order they are joined, and however
\* many request threads save items at the same time: when no item is between its file and
\* UpdateInfo, the engine knows how many ids have an item, and the greatest and the smallest
\* of those it knows, but for the exceptions that InfoExact names.
THEOREM InfoIsExact == Spec => []InfoExact
<1>1. ASSUME KnowInv PROVE InfoExact
  <2>1. SUFFICES ASSUME phase = "running", \A s \in Savers : saver[s].at \notin {"release", "note"},
                        NEW known, known = Saved \ skipped
                 PROVE  /\ info.count = Cardinality(Saved)
                        /\ known # {} => info.max = Max(known)
                        /\ known # {} /\ "min" \notin blurred =>
                             info.min \in known /\ (0 \in known \/ info.min = Min(known))
    BY DEF InfoExact, Saved
  <2>2. Counted = Saved
    BY <2>1 DEF Counted, Counts
  <2>3. PICK K \in SUBSET (Saved \ skipped) : Counted \ skipped \subseteq K /\ Knows(Counted, K)
    BY <1>1, <2>1 DEF KnowInv, RunInfo
  <2>4. K = known
    BY <2>1, <2>2, <2>3
  <2>5. /\ info.count = Cardinality(Saved) /\ Greatest(info.max, known)
        /\ "min" \notin blurred => Least(info.min, known)
    BY <2>2, <2>3, <2>4 DEF Knows
  <2>6. known \in SUBSET Nat
    BY <2>1, IdsFinite DEF Saved
  <2> QED
    <3>1. known # {} => info.max = Max(known)
      BY <2>5, <2>6, GreatestIsMax
    <3>2. known # {} /\ "min" \notin blurred => info.min \in known
      BY <2>5 DEF Least
    <3>3. known # {} /\ "min" \notin blurred /\ 0 \notin known => info.min = Min(known)
      BY <2>5, <2>6, LeastIsMin
    <3> QED
      BY <2>5, <3>1, <3>2, <3>3
<1>2. KnowInv => InfoExact
  BY <1>1
<1> QED
  BY <1>2, KnowInvariant, PTL

\* No version, id or file that does not exist gets into the cache, into the list of pending
\* items or into what the engine knows, and the list never exceeds its capacity.
THEOREM CacheTypeCorrect == Spec => []TypeOK
<1>1. ASSUME KnowInv PROVE TypeOK
  <2>1. Types /\ Bounds
    BY <1>1 DEF KnowInv, CacheInv
  <2>2. disk \in [Ids -> {0} \cup Versions]
    BY <1>1, <2>1, VersionOnDisk DEF Types
  <2>3. \A S \in SUBSET Ids : Cardinality(S) \in 0 .. Cardinality(Ids)
    BY SubsetCounts, IdsFinite
  <2>4. info \in Infos
    <3>1. info \in [min : {0} \cup Ids, max : {0} \cup Ids, count : Nat]
      BY <2>1 DEF Bounds, InfoBound
    <3>2. info.count \in 0 .. Cardinality(Ids)
      <4>1. CASE phase = "failed"
        <5>1. info.count <= Cardinality(Ids) /\ info.count \in Nat /\ Cardinality(Ids) \in Nat
          BY <2>1, <3>1, <4>1, IdsFinite DEF Bounds, InfoBound
        <5> QED
          BY <5>1
      <4>2. CASE phase = "loading"
        <5>1. PICK by : Knows(Part(by, 0), Part(by, 0) \ skipped)
          BY <1>1, <4>2 DEF KnowInv, LoadInfo
        <5>2. Part(by, 0) \in SUBSET Ids
          BY DEF Part, Read, Saved
        <5> QED
          BY <2>3, <5>1, <5>2 DEF Knows
      <4>3. CASE phase = "running"
        <5>1. info.count = Cardinality(Counted)
          BY <1>1, <4>3 DEF KnowInv, RunInfo, Knows
        <5>2. Counted \in SUBSET Ids
          BY DEF Counted, Saved
        <5> QED
          BY <2>3, <5>1, <5>2
      <4> QED
        BY <2>1, <4>1, <4>2, <4>3 DEF Types
    <3> QED
      BY <3>1, <3>2 DEF Infos
  <2>5. loader \in Seq([at : {"load", "compare", "raise"}, ids : SUBSET Ids,
                        id : {0} \cup Ids, found : Infos])
    <3> DEFINE S == [at : {"load", "compare", "raise"}, ids : SUBSET Ids,
                     id : {0} \cup Ids, found : Infos]
    <3>1. loader \in Seq(LoaderSet)
      BY <2>1 DEF Types
    <3>2. ASSUME NEW t \in DOMAIN loader PROVE loader[t] \in S
      <4>1. phase = "loading"
        BY <1>1, <3>2 DEF KnowInv, CacheInv, Phases
      <4>2. PICK by : FoundOf(t, by)
        BY <1>1, <3>2, <4>1 DEF KnowInv, LoadInfo
      <4>3. loader[t] \in LoaderSet
        BY <3>1
      <4>4. PICK found : found = loader[t].found
        OBVIOUS
      <4>5. found \in [min : Nat, max : Nat, count : Nat]
        BY <4>3, <4>4 DEF LoaderSet
      <4>6. Part(by, t) \in SUBSET Ids /\ Part(by, t) \ skipped \in SUBSET Ids
        BY DEF Part, Read, Saved
      <4>7. /\ found.count = Cardinality(Part(by, t)) /\ Greatest(found.max, Part(by, t) \ skipped)
            /\ Least(found.min, Part(by, t) \ skipped)
        BY <4>2, <4>4 DEF FoundOf
      <4>8. found.count \in 0 .. Cardinality(Ids)
        BY <2>3, <4>6, <4>7
      <4>9. found.max \in {0} \cup Ids
        BY <4>6, <4>7, ExtremeIn
      <4>10. found.min \in {0} \cup Ids
        BY <4>6, <4>7, ExtremeIn
      <4>11. found \in Infos
        BY <4>5, <4>8, <4>9, <4>10 DEF Infos
      <4> QED
        BY <4>3, <4>4, <4>11 DEF LoaderSet
    <3> HIDE DEF S
    <3>3. loader \in Seq(S)
      BY <3>1, <3>2
    <3> QED
      BY <3>3 DEF S
  <2>6. joined \in 0 .. Len(loader)
    <3>1. loader \in Seq(LoaderSet) /\ (joined = 0 \/ joined \in DOMAIN loader)
      BY <2>1 DEF Types, Bounds, FileBound
    <3> QED
      BY <3>1
  <2>7. saver \in [Savers -> [at : {"idle", "save", "release", "note", "store", "next"},
                              id : {0} \cup Ids, version : {0} \cup Versions,
                              new : BOOLEAN, list : BOOLEAN]]
    <3>1. \A s \in Savers : saver[s] \in SaverSet /\ saver[s].version \in {0} \cup Versions
      BY <2>1 DEF Types, Bounds, SaverBound
    <3> QED
      BY <2>1, <3>1 DEF Types, SaverSet
  <2> QED
    BY <2>1, <2>2, <2>4, <2>5, <2>6, <2>7 DEF TypeOK, Types, Bounds, SaveBound, CacheBound,
                                              PendingBound, FileBound, HistoryBound
<1>2. KnowInv => TypeOK
  BY <1>1
<1> QED
  BY <1>2, KnowInvariant, PTL
-----------------------------------------------------------------------------
(***************************************************************************)
(* What a step does to an item of the cache.  No version is newer than the *)
(* one in the file, and a pending one is not older than the one in the     *)
(* cache unless the id is doubtful.                                        *)
(***************************************************************************)
Newest ==
  /\ \A id \in Ids : cache[id] <= disk[id]
  /\ \A k \in DOMAIN pending :
       LET id == pending[k][1]
           v  == pending[k][2] IN
       v <= disk[id] /\ (id \notin doubtful => cache[id] <= v)

\* An item is replaced by a newer one, or by nothing.
OnlyNewer == \A id \in Ids : id \notin doubtful /\ cache'[id] # 0 => cache'[id] >= cache[id]

LEMMA InitNewest == Init => Newest
BY DEF Init, Newest, NoItems

LEMMA PendingTyped ==
  ASSUME CacheInv
  PROVE  /\ cache \in [Ids -> Nat] /\ disk \in [Ids -> Nat] /\ pending \in Seq(Ids \X Nat)
         /\ \A k \in DOMAIN pending : pending[k][1] \in Ids /\ pending[k][2] \in Nat
<1>1. cache \in [Ids -> Nat] /\ disk \in [Ids -> Nat] /\ pending \in Seq(Ids \X Nat)
  BY DEF CacheInv, Types
<1>2. \A k \in DOMAIN pending : pending[k] \in Ids \X Nat
  BY <1>1
<1>3. \A k \in DOMAIN pending : pending[k][1] \in Ids /\ pending[k][2] \in Nat
  BY <1>2
<1> QED
  BY <1>1, <1>3

\* The files may have got newer, and the cache is as it was.
LEMMA NewerFiles ==
  ASSUME CacheInv, CacheInv', Newest, UNCHANGED <<cache, pending, doubtful>>,
         \A id \in Ids : disk[id] <= disk'[id]
  PROVE  Newest' /\ OnlyNewer
<1>1. /\ cache \in [Ids -> Nat] /\ disk \in [Ids -> Nat] /\ disk' \in [Ids -> Nat]
      /\ \A k \in DOMAIN pending : pending[k][1] \in Ids /\ pending[k][2] \in Nat
  <2>1. disk' \in [Ids -> Nat]
    BY DEF CacheInv, Types
  <2> QED
    BY <2>1, PendingTyped
<1>2. ASSUME NEW id \in Ids PROVE cache[id] <= disk'[id] /\ cache'[id] >= cache[id]
  <2>1. cache[id] <= disk[id] /\ disk[id] <= disk'[id]
    BY DEF Newest
  <2> QED
    BY <1>1, <2>1
<1>3. ASSUME NEW k \in DOMAIN pending PROVE pending[k][2] <= disk'[pending[k][1]]
  <2>1. PICK id \in Ids, v \in Nat : id = pending[k][1] /\ v = pending[k][2]
    BY <1>1
  <2>2. v <= disk[id] /\ disk[id] <= disk'[id]
    BY <2>1 DEF Newest
  <2> QED
    BY <1>1, <2>1, <2>2
<1> QED
  BY <1>2, <1>3 DEF Newest, OnlyNewer

LEMMA LoadItemNewest ==
  ASSUME CacheInv, CacheInv', Newest, NEW t \in Loaders, LoadItem(t)
  PROVE  Newest' /\ OnlyNewer
<1>1. pending = <<>> /\ cache \in [Ids -> Nat] /\ disk \in [Ids -> Nat] /\ disk' = disk
      /\ pending' = pending
  BY DEF LoadItem, Loading, CacheInv, Types, Phases, files
<1>2. PICK id : cache' = cache \/ cache' = [cache EXCEPT ![id] = disk[id]]
  BY DEF LoadItem
<1>3. \A k \in Ids : cache[k] <= disk[k] /\ (cache'[k] = cache[k] \/ cache'[k] = disk[k])
  BY <1>1, <1>2 DEF Newest
<1>4. \A k \in Ids : cache'[k] >= cache[k] /\ cache'[k] <= disk[k]
  BY <1>1, <1>3
<1>5. DOMAIN pending' = {}
  BY <1>1
<1> QED
  BY <1>1, <1>4, <1>5 DEF Newest, OnlyNewer

LEMMA CommitNewest ==
  ASSUME CacheInv, CacheInv', Newest, Commit
  PROVE  Newest' /\ OnlyNewer
<1>1. /\ cache' = [id \in Ids |-> CommittedItem(id)] /\ pending' = <<>> /\ disk' = disk
      /\ cache \in [Ids -> Nat] /\ disk \in [Ids -> Nat] /\ pending \in Seq(Ids \X Nat)
  BY DEF Commit, files, CacheInv, Types
<1>2. ASSUME NEW id \in Ids
      PROVE  cache'[id] <= disk[id] /\ (id \notin doubtful /\ cache'[id] # 0 => cache'[id] >= cache[id])
  <2>1. CASE PendingAt(id) = {}
    <3>1. cache'[id] = cache[id] /\ cache[id] <= disk[id] /\ cache[id] \in Nat
      BY <1>1, <2>1 DEF CommittedItem, Newest
    <3> QED
      BY <3>1
  <2>2. CASE PendingAt(id) # {}
    <3>1. PICK k : k = Min(PendingAt(id))
      OBVIOUS
    <3>2. k \in PendingAt(id)
      <4>1. PendingAt(id) \in SUBSET Nat
        BY <1>1 DEF PendingAt
      <4> QED
        BY <2>2, <3>1, <4>1, MinIs
    <3>3. PICK v \in Nat : v = pending[k][2] /\ pending[k][1] = id /\ k \in DOMAIN pending
      BY <1>1, <3>2 DEF PendingAt
    <3>4. v <= disk[id] /\ (id \notin doubtful => cache[id] <= v)
      BY <3>3 DEF Newest
    <3>5. cache'[id] \in {0, v}
      BY <1>1, <2>2, <3>1, <3>3 DEF CommittedItem, Cached
    <3>6. disk[id] \in Nat /\ cache[id] \in Nat
      BY <1>1
    <3> QED
      BY <3>4, <3>5, <3>6
  <2> QED
    BY <2>1, <2>2
<1>3. DOMAIN pending' = {}
  BY <1>1
<1> QED
  BY <1>1, <1>2, <1>3 DEF Newest, OnlyNewer

\* A version is appended that is not newer than the file.  If the id is not doubtful after
\* that, it is the one of the file.
LEMMA StoreNewest ==
  ASSUME CacheInv, Newest, NEW s \in Savers, Store(s)
  PROVE  Newest' /\ OnlyNewer
<1>1. phase = "running" /\ saver[s].at = "store" /\ UNCHANGED <<cache, disk>>
  BY DEF Store, Saving, files, items
<1>2. PICK id \in Ids, v \in Nat : id = saver[s].id /\ v = saver[s].version
  BY <1>1 DEF CacheInv, Types, SaverSet
<1>3. /\ pending' = Append(pending, <<id, v>>) /\ v <= disk[id]
      /\ doubtful' = IF v < disk[id] \/ \E k \in DOMAIN pending : pending[k][1] = id
                     THEN doubtful \cup {id} ELSE doubtful \ {id}
  BY <1>1, <1>2 DEF Store, CacheInv, SaveInv, InSave
<1>4. /\ cache \in [Ids -> Nat] /\ disk \in [Ids -> Nat] /\ pending \in Seq(Ids \X Nat)
      /\ \A k \in DOMAIN pending : pending[k][1] \in Ids /\ pending[k][2] \in Nat
  BY PendingTyped
<1>5. PICK n \in Nat : DOMAIN pending = 1 .. n /\ DOMAIN pending' = 1 .. n + 1
                       /\ pending'[n + 1] = <<id, v>>
                       /\ \A k \in DOMAIN pending : pending'[k] = pending[k]
  <2>1. PICK n \in Nat : n = Len(pending) /\ DOMAIN pending = 1 .. n
    <3>1. pending \in Seq(Ids \X Nat)
      BY <1>4
    <3> QED
      BY <3>1, LenProperties
  <2>2. PICK e \in Ids \X Nat : e = <<id, v>>
    OBVIOUS
  <2>3. pending' = Append(pending, e)
    BY <1>3, <2>2
  <2>4. /\ DOMAIN pending' = 1 .. n + 1 /\ pending'[n + 1] = e
        /\ \A k \in DOMAIN pending : pending'[k] = pending[k]
    BY <1>4, <2>1, <2>3, AppendProperties
  <2> QED
    BY <2>1, <2>2, <2>4
<1>6. ASSUME NEW k \in DOMAIN pending
      PROVE  /\ pending'[k][2] <= disk[pending'[k][1]]
             /\ pending'[k][1] \notin doubtful' => cache[pending'[k][1]] <= pending'[k][2]
  <2>1. pending[k][1] \notin doubtful' => pending[k][1] \notin doubtful
    BY <1>3
  <2> QED
    BY <1>5, <2>1 DEF Newest
<1>7. id \notin doubtful' => cache[id] <= v
  <2>1. id \notin doubtful' => ~ (v < disk[id])
    BY <1>3
  <2>2. cache[id] <= disk[id] /\ cache[id] \in Nat /\ disk[id] \in Nat
    BY <1>4 DEF Newest
  <2> QED
    BY <1>3, <2>1, <2>2
<1>8. \A k \in DOMAIN pending' : k \in DOMAIN pending \/ k = n + 1
  BY <1>5
<1>9. \A k \in DOMAIN pending' :
        /\ pending'[k][2] <= disk[pending'[k][1]]
        /\ pending'[k][1] \notin doubtful' => cache[pending'[k][1]] <= pending'[k][2]
  BY <1>3, <1>5, <1>6, <1>7, <1>8
<1>10. \A k \in Ids : cache[k] >= cache[k]
  BY <1>4
<1> QED
  BY <1>1, <1>9, <1>10 DEF Newest, OnlyNewer

LEMMA SaverNewest ==
  ASSUME CacheInv, CacheInv', Newest, NEW s \in Savers,
         SaveStep(s) \/ \E id \in Ids : NextItem(s, id) \/ \E list \in BOOLEAN : Lock(s, id, list)
  PROVE  Newest' /\ OnlyNewer
<1>1. disk \in [Ids -> Nat] /\ cache \in [Ids -> Nat]
  BY DEF CacheInv, Types
<1>2. \A id \in Ids : disk[id] <= disk[id] /\ cache[id] >= cache[id]
  BY <1>1
<1>3. CASE SaveItem(s)
  <2>1. PICK id : disk' = [disk EXCEPT ![id] = disk[id] + 1] /\ UNCHANGED <<cache, pending, doubtful>>
    BY <1>3 DEF SaveItem, items
  <2>2. \A k \in Ids : disk[k] <= disk'[k]
    BY <1>1, <1>2, <2>1
  <2> QED
    BY <2>1, <2>2, NewerFiles
<1>4. CASE Store(s)
  BY <1>4, StoreNewest
<1>5. CASE StoreFails(s)
  <2>1. UNCHANGED <<cache, disk, pending>> /\ doubtful \subseteq doubtful'
    BY <1>5 DEF StoreFails, items, files
  <2> QED
    BY <1>2, <2>1 DEF Newest, OnlyNewer
<1>6. CASE \/ SaveFails(s) \/ Release(s) \/ UpdateInfo(s) \/ ReleaseList(s)
           \/ \E id \in Ids : NextItem(s, id) \/ \E list \in BOOLEAN : Lock(s, id, list)
  <2>1. UNCHANGED <<cache, disk, pending, doubtful>>
    BY <1>6 DEF SaveFails, Release, UpdateInfo, ReleaseList, NextItem, Lock, items, files
  <2> QED
    BY <1>2, <2>1, NewerFiles
<1> QED
  BY <1>3, <1>4, <1>5, <1>6 DEF SaveStep

LEMMA NextNewest == ASSUME CacheInv, CacheInv', Newest, [Next]_vars PROVE Newest' /\ OnlyNewer
<1>1. disk \in [Ids -> Nat] /\ cache \in [Ids -> Nat]
  BY DEF CacheInv, Types
<1>2. \A id \in Ids : disk[id] <= disk[id] /\ 0 <= disk[id]
  BY <1>1
<1>3. ASSUME NEW t \in Loaders, TakeFiles(t) \/ Compare(t) \/ Raise(t) PROVE Newest' /\ OnlyNewer
  <2>1. UNCHANGED <<cache, disk, pending, doubtful>>
    BY <1>3 DEF TakeFiles, Compare, Raise, items, files
  <2> QED
    BY <1>2, <2>1, NewerFiles
<1>4. CASE Join \/ UNCHANGED vars
  <2>1. UNCHANGED <<cache, disk, pending, doubtful>>
    BY <1>4 DEF Join, vars, items, files
  <2> QED
    BY <1>2, <2>1, NewerFiles
<1>5. CASE LoadFails
  <2>1. UNCHANGED <<disk, pending, doubtful>> /\ cache' = NoItems /\ pending = <<>>
    BY <1>5 DEF LoadFails, files, CacheInv, Phases
  <2>2. \A id \in Ids : cache'[id] = 0
    BY <2>1 DEF NoItems
  <2>3. DOMAIN pending' = {}
    BY <2>1
  <2> QED
    BY <1>2, <2>1, <2>2, <2>3 DEF Newest, OnlyNewer
<1> QED
  BY <1>3, <1>4, <1>5, LoadItemNewest, CommitNewest, SaverNewest DEF Next, LoadStep

\* What the searches see of an item does not go back: a commit or a loading thread never
\* replaces it by an older version, unless the last saves of the id crossed or the last was
\* refused.
THEOREM NeverOlder == Spec => [][OnlyNewer]_vars
<1>1. CacheInv /\ CacheInv' /\ Newest /\ [Next]_vars => Newest' /\ [OnlyNewer]_vars
  BY NextNewest
<1> QED
  BY <1>1, InitNewest, CacheInvariant, PTL DEF Spec

-----------------------------------------------------------------------------
(***************************************************************************)
(* One loading thread, as in the tests.                                    *)
(***************************************************************************)
\* It is the only one that raises the largest index, and finds all the items there are.
Alone ==
  /\ blurred = {}
  /\ phase = "loading" => /\ Len(loader) = 1 /\ info = NoInfo
                          /\ loader[1].at = "raise" => loader[1].id > largest

LEMMA NextAlone == ASSUME MaxLoaders = 1, CacheInv, Alone, [Next]_vars PROVE Alone'
<1>1. /\ \A t \in Loaders : t = 1
      /\ phase = "loading" => DOMAIN loader = {1} /\ loader[1] \in LoaderSet
  BY DEF Loaders, Alone, CacheInv, Types
<1>2. ASSUME NEW t \in Loaders, TakeFiles(t) \/ LoadItem(t) \/ Compare(t) PROVE Alone'
  <2>1. /\ phase = "loading" /\ t = 1 /\ loader \in Seq(LoaderSet) /\ Len(loader) = 1
        /\ UNCHANGED <<phase, info, largest, blurred>>
    BY <1>1, <1>2 DEF TakeFiles, LoadItem, Compare, Loading, items, CacheInv, Types, Alone
  <2>2. PICK l : /\ loader' = [loader EXCEPT ![1] = l]
                 /\ l.at = "raise" => l.id > largest
    <3>1. CASE TakeFiles(t)
      <4>1. PICK S : loader' = [loader EXCEPT ![1] = [loader[1] EXCEPT !.ids = S]]
        BY <2>1, <3>1 DEF TakeFiles, SetLoader
      <4>2. PICK l : l = [loader[1] EXCEPT !.ids = S]
        OBVIOUS
      <4>3. l.at = "load"
        BY <1>1, <2>1, <3>1, <4>2 DEF TakeFiles, LoaderSet
      <4> QED
        BY <4>1, <4>2, <4>3
    <3>2. CASE LoadItem(t)
      <4>1. PICK id, l : id = Min(loader[1].ids) /\ l = [loader[1] EXCEPT !.ids = @ \ {id}]
        OBVIOUS
      <4>2. \/ loader' = [loader EXCEPT ![1] = [l EXCEPT !.found.count = @ + 1]]
            \/ loader' = [loader EXCEPT ![1] = [l EXCEPT !.at = "compare", !.id = id,
                                                        !.found = Noted(@, id, id, 1)]]
        BY <2>1, <3>2, <4>1 DEF LoadItem, SetLoader
      <4>3. loader[1].at = "load" /\ loader[1] \in LoaderSet
        BY <1>1, <2>1, <3>2 DEF LoadItem
      <4>4. PICK m, n : /\ m = [l EXCEPT !.found.count = @ + 1]
                        /\ n = [l EXCEPT !.at = "compare", !.id = id, !.found = Noted(@, id, id, 1)]
        OBVIOUS
      <4>5. m.at = "load" /\ n.at = "compare"
        BY <4>1, <4>3, <4>4 DEF LoaderSet
      <4> QED
        BY <4>2, <4>4, <4>5
    <3>3. CASE Compare(t)
      <4>1. PICK l : l = [loader[1] EXCEPT !.at = IF loader[1].id > largest THEN "raise" ELSE "load"]
        OBVIOUS
      <4>2. l.at = "raise" => l.id > largest
        BY <1>1, <2>1, <4>1 DEF LoaderSet
      <4> QED
        BY <2>1, <3>3, <4>1, <4>2 DEF Compare, SetLoader
    <3> QED
      BY <1>2, <3>1, <3>2, <3>3
  <2>3. Len(loader') = 1 /\ loader'[1] = l
    BY <1>1, <2>1, <2>2
  <2> QED
    BY <2>1, <2>2, <2>3 DEF Alone
<1>3. ASSUME NEW t \in Loaders, Raise(t) PROVE Alone'
  <2>1. /\ phase = "loading" /\ t = 1 /\ loader[1].at = "raise" /\ loader[1].id > largest
        /\ loader \in Seq(LoaderSet) /\ Len(loader) = 1 /\ info = NoInfo /\ largest \in Nat
        /\ loader[1] \in LoaderSet
    BY <1>1, <1>3 DEF Raise, Loading, Alone, CacheInv, Types
  <2>2. ~ (loader[1].id < largest)
    <3>1. PICK x \in Nat, y \in Nat : x = loader[1].id /\ y = largest
      BY <2>1, CacheEngineAssumption DEF LoaderSet
    <3> QED
      BY <2>1, <3>1
  <2>3. /\ loader' = [loader EXCEPT ![1] = [loader[1] EXCEPT !.at = "load"]]
        /\ UNCHANGED <<phase, info, blurred>>
    BY <1>3, <2>1, <2>2 DEF Raise, SetLoader
  <2>4. Len(loader') = 1 /\ loader'[1].at = "load"
    BY <1>1, <2>1, <2>3 DEF LoaderSet
  <2> QED
    BY <2>1, <2>3, <2>4 DEF Alone
<1>4. CASE Join
  <2>1. phase = "loading" /\ Len(loader) = 1 /\ info = NoInfo /\ joined + 1 = 1
    BY <1>1, <1>4 DEF Join, Loading, Alone
  <2>2. phase' = "running" /\ blurred' = blurred
    BY <1>4, <2>1 DEF Join, NoInfo
  <2> QED
    BY <2>2 DEF Alone
<1>5. CASE LoadFails
  BY <1>5 DEF LoadFails, Alone
<1>6. CASE Commit
  BY <1>6 DEF Commit, Alone
<1>7. ASSUME NEW s \in Savers,
             SaveStep(s) \/ \E id \in Ids : NextItem(s, id) \/ \E list \in BOOLEAN : Lock(s, id, list)
      PROVE  Alone'
  <2>1. phase' = "running" /\ blurred' = blurred
    BY <1>7 DEF SaveStep, SaveItem, SaveFails, Release, UpdateInfo, Store, StoreFails, ReleaseList,
                NextItem, Lock, Saving
  <2> QED
    BY <2>1 DEF Alone
<1>8. CASE UNCHANGED vars
  BY <1>8 DEF vars, items, loading, Alone
<1> QED
  BY <1>2, <1>3, <1>4, <1>5, <1>6, <1>7, <1>8 DEF Next, LoadStep

\* With one loading thread neither the largest index nor the smallest id is ever
\* overwritten by another thread: Searchable and InfoExact need no exception for blurred values.
THEOREM OneThreadLoadsRight ==
  ASSUME MaxLoaders = 1
  PROVE  Spec => [](blurred = {})
<1>1. Init => Alone
  <2> SUFFICES ASSUME Init PROVE Alone
    OBVIOUS
  <2>1. PICK n \in 1 .. 1 : loader = [t \in 1 .. n |-> NewLoader]
    BY DEF Init, Loaders
  <2>2. n = 1 /\ Len(loader) = 1 /\ loader[1] = NewLoader
    BY <2>1
  <2> QED
    BY <2>2 DEF Init, Alone, NewLoader
<1>2. CacheInv /\ Alone /\ [Next]_vars => Alone'
  BY NextAlone
<1>3. Alone => blurred = {}
  BY DEF Alone
<1> QED
  BY <1>1, <1>2, <1>3, CacheInvariant, PTL DEF Spec
=============================================================================
