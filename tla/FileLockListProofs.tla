-------------------------- MODULE FileLockListProofs --------------------------
(***************************************************************************)
(* The lock list is correct for any number of threads, entries and files,  *)
(* under the two conditions of FileLockList: no file id is the marker of a *)
(* free entry, and there are at least as many entries as threads.          *)
(*                                                                         *)
(* The inductive invariant says that the table is exact (who uses which    *)
(* entry is what the counters say) and that the rwlocks are.               *)
(***************************************************************************)
EXTENDS FileLockList, FiniteSetTheorems, TLAPS

NoBare == \A t \in Threads : pc[t] # "bare"

IInv == TypeOK /\ TableExact /\ HoldersExact /\ NoBare

\* The 16-bit counter neither overflows nor underflows in the range it is used in.
LEMMA WrapFacts ==
  /\ UINT16_MAX \in Nat
  /\ \A n \in Nat : n < UINT16_MAX => Wrap16(n + 1) = n + 1
  /\ \A n \in Nat : 0 < n /\ n <= UINT16_MAX => Wrap16(n + UINT16_MAX) = n - 1
BY SMT DEF Wrap16, UINT16_MAX

\* The users of an entry are finitely many, and fit the counter.
LEMMA UsersFinite ==
  ASSUME EnoughEntries, NEW S \in SUBSET Threads
  PROVE  /\ IsFiniteSet(S)
         /\ Cardinality(S) \in 0 .. UINT16_MAX
<1>1. IsFiniteSet(Threads) /\ NumEntries \in 1 .. UINT16_MAX
  BY LockListAssumption
<1>2. IsFiniteSet(S) /\ Cardinality(S) <= Cardinality(Threads)
  BY <1>1, FS_Subset
<1>3. Cardinality(S) \in Nat /\ Cardinality(Threads) \in Nat
  BY <1>1, <1>2, FS_CardinalityType
<1> QED
  BY <1>1, <1>2, <1>3, WrapFacts DEF EnoughEntries

\* Pigeonhole: when a thread uses no entry, some entry has no user.
LEMMA SomeEntryUnused ==
  ASSUME EnoughEntries, TypeOK, NEW t \in Threads, ent[t] = NoEntry
  PROVE  \E e \in Entries : Users(e) = {}
<1> SUFFICES ASSUME \A e \in Entries : Users(e) # {}
             PROVE  FALSE
  OBVIOUS
<1> DEFINE Others == Threads \ {t}
           user == [e \in Entries |-> CHOOSE u \in Users(e) : TRUE]
<1>1. \A e \in Entries : user[e] \in Users(e)
  OBVIOUS
<1>2. \A e \in Entries : user[e] \in Others /\ ent[user[e]] = e
  BY <1>1, LockListAssumption DEF Users, Entries
<1>3. user \in Injection(Entries, Others)
  BY <1>2 DEF Injection, IsInjective
<1>4. IsFiniteSet(Threads) /\ NumEntries \in 1 .. UINT16_MAX
  BY LockListAssumption
<1>5. /\ IsFiniteSet(Others)
      /\ Cardinality(Others) = Cardinality(Threads) - 1
  BY <1>4, FS_RemoveElement
<1>6. Cardinality(Entries) <= Cardinality(Others)
  BY <1>3, <1>5, FS_Injection
<1>7. Cardinality(Entries) = NumEntries
  BY <1>4, WrapFacts, FS_Interval DEF Entries
<1>8. Cardinality(Threads) \in Nat
  BY <1>4, FS_CardinalityType
<1> QED
  BY <1>4, <1>5, <1>6, <1>7, <1>8, WrapFacts DEF EnoughEntries

-----------------------------------------------------------------------------
\* The invariant holds when fileLockList_init returns.
LEMMA InitIInv == Init => IInv
<1> SUFFICES ASSUME Init PROVE IInv
  OBVIOUS
<1> USE DEF Init
<1>1. TypeOK
  BY LockListAssumption, WrapFacts DEF TypeOK, Modes
<1>2. \A e \in Entries : Users(e) = {}
  BY LockListAssumption DEF Users, Entries
<1>3. TableExact
  BY <1>2, FS_EmptySet DEF TableExact
<1>4. HoldersExact
  BY <1>2 DEF HoldersExact
<1> QED
  BY <1>1, <1>3, <1>4 DEF IInv, NoBare

-----------------------------------------------------------------------------
\* What a request does to the table, in a state that satisfies the invariant: it
\* joins the entry of its file or claims a free one, and it never fails.
LEMMA LockFileEffect ==
  ASSUME NoSentinelId, EnoughEntries, IInv,
         NEW t \in Threads, NEW f \in FileIds, NEW m \in Modes, LockFile(t, f, m)
  PROVE  /\ pc[t] = "idle"
         /\ file' = [file EXCEPT ![t] = f]
         /\ mode' = [mode EXCEPT ![t] = m]
         /\ pc' = [pc EXCEPT ![t] = "wait"]
         /\ UNCHANGED rwlocks
         /\ \E e \in Entries :
              /\ fileId' = [fileId EXCEPT ![e] = f]
              /\ ent' = [ent EXCEPT ![t] = e]
              /\ \/ /\ fileId[e] = f
                    /\ useCount' = [useCount EXCEPT ![e] = Wrap16(useCount[e] + 1)]
                 \/ /\ fileId[e] = FILEID_MAX
                    /\ \A x \in Entries : fileId[x] # f
                    /\ useCount' = [useCount EXCEPT ![e] = 1]
<1> DEFINE candidates == IF Matching(f) # {} THEN Matching(f) ELSE FreeEntries
<1>1. pc[t] = "idle" /\ ent[t] = NoEntry
  BY DEF LockFile, IInv, HoldersExact
<1>2. FreeEntries # {}
  <2>1. PICK e \in Entries : Users(e) = {}
    BY <1>1, SomeEntryUnused DEF IInv
  <2> QED
    BY <2>1 DEF FreeEntries, IInv, TableExact
<1>3. Matching(f) = {e \in Entries : fileId[e] = f}
  BY DEF Matching, IsFirst, FreeEntries, NoSentinelId
<1>4. candidates # {}
  BY <1>2
<1>5. PICK e \in candidates :
        /\ fileId' = [fileId EXCEPT ![e] = f]
        /\ useCount' = [useCount EXCEPT ![e] =
                          IF Matching(f) # {} THEN Wrap16(useCount[e] + 1) ELSE 1]
        /\ ent' = [ent EXCEPT ![t] = e]
        /\ pc' = [pc EXCEPT ![t] = "wait"]
  BY <1>4, Zenon DEF LockFile
<1>6. CASE Matching(f) # {}
  <2>1. e \in Entries /\ fileId[e] = f
    BY <1>3, <1>6
  <2> QED
    BY <1>1, <1>5, <1>6, <2>1 DEF LockFile
<1>7. CASE Matching(f) = {}
  <2>1. e \in Entries /\ fileId[e] = FILEID_MAX
    BY <1>7 DEF FreeEntries
  <2>2. \A x \in Entries : fileId[x] # f
    BY <1>3, <1>7
  <2> QED
    BY <1>1, <1>5, <1>7, <2>1, <2>2 DEF LockFile
<1> QED
  BY <1>6, <1>7

\* What a release does: it finds the entry the thread locked, takes the thread out
\* of its count and unlocks the rwlock that the thread holds.
LEMMA ReleaseFileEffect ==
  ASSUME NoSentinelId, EnoughEntries, IInv, NEW t \in Threads, ReleaseFile(t)
  PROVE  /\ pc[t] = "hold"
         /\ ent[t] \in Entries
         /\ useCount[ent[t]] \in 1 .. UINT16_MAX
         /\ useCount' = [useCount EXCEPT ![ent[t]] = useCount[ent[t]] - 1]
         /\ fileId' = [fileId EXCEPT ![ent[t]] =
                         IF useCount[ent[t]] = 1 THEN FILEID_MAX ELSE fileId[ent[t]]]
         /\ readers' = [readers EXCEPT ![ent[t]] = readers[ent[t]] \ {t}]
         /\ writers' = [writers EXCEPT ![ent[t]] = writers[ent[t]] \ {t}]
         /\ pc' = [pc EXCEPT ![t] = "idle"]
         /\ file' = [file EXCEPT ![t] = NoFile]
         /\ mode' = [mode EXCEPT ![t] = "read"]
         /\ ent' = [ent EXCEPT ![t] = NoEntry]
<1> DEFINE found == {e \in Entries : fileId[e] = file[t]}
           d == ent[t]
<1>1. pc[t] = "hold" /\ d # NoEntry /\ file[t] \in FileIds
  BY DEF ReleaseFile, IInv, NoBare, HoldersExact
<1>2. d \in Entries /\ t \in Users(d)
  BY <1>1 DEF IInv, TypeOK, Users
<1>3. fileId[d] = file[t] /\ fileId[d] # FILEID_MAX
  BY <1>1, <1>2 DEF IInv, TableExact, NoSentinelId
<1>4. found = {d}
  BY <1>2, <1>3 DEF IInv, TableExact
<1>5. t \in readers[d] \cup writers[d]
  BY <1>1, <1>2 DEF IInv, HoldersExact, TypeOK, Modes
<1>6. useCount[d] \in 1 .. UINT16_MAX
  <2>1. useCount[d] = Cardinality(Users(d)) /\ useCount[d] \in 0 .. UINT16_MAX
    BY <1>2 DEF IInv, TableExact, TypeOK
  <2>2. IsFiniteSet(Users(d))
    BY UsersFinite DEF Users
  <2>3. Cardinality(Users(d)) # 0
    BY <1>2, <2>2, FS_EmptySet
  <2> QED
    BY <2>1, <2>3, WrapFacts
<1>7. /\ useCount' = [useCount EXCEPT ![d] = Wrap16(useCount[d] + UINT16_MAX)]
      /\ fileId' = [fileId EXCEPT ![d] = IF useCount'[d] = 0 THEN FILEID_MAX ELSE fileId[d]]
      /\ Unlock(t, d)
  BY <1>4, Zenon DEF ReleaseFile
<1>8. Wrap16(useCount[d] + UINT16_MAX) = useCount[d] - 1
  BY <1>6, WrapFacts
<1>9. useCount'[d] = useCount[d] - 1
  BY <1>2, <1>7, <1>8 DEF IInv, TypeOK
<1>10. useCount'[d] = 0 <=> useCount[d] = 1
  BY <1>6, <1>9, WrapFacts
<1> QED
  BY <1>1, <1>2, <1>5, <1>6, <1>7, <1>8, <1>10 DEF ReleaseFile, Unlock

-----------------------------------------------------------------------------
\* The invariant is preserved when a thread asks for a file.
LEMMA LockFileIInv ==
  ASSUME NoSentinelId, EnoughEntries, IInv,
         NEW t \in Threads, NEW f \in FileIds, NEW m \in Modes, LockFile(t, f, m)
  PROVE  IInv'
<1>1. /\ pc[t] = "idle"
      /\ file' = [file EXCEPT ![t] = f]
      /\ mode' = [mode EXCEPT ![t] = m]
      /\ pc' = [pc EXCEPT ![t] = "wait"]
      /\ UNCHANGED rwlocks
  BY LockFileEffect
<1>2. PICK e \in Entries :
        /\ fileId' = [fileId EXCEPT ![e] = f]
        /\ ent' = [ent EXCEPT ![t] = e]
        /\ \/ /\ fileId[e] = f
              /\ useCount' = [useCount EXCEPT ![e] = Wrap16(useCount[e] + 1)]
           \/ /\ fileId[e] = FILEID_MAX
              /\ \A x \in Entries : fileId[x] # f
              /\ useCount' = [useCount EXCEPT ![e] = 1]
  BY LockFileEffect
<1>3. TypeOK /\ ent[t] = NoEntry /\ e # NoEntry /\ f # FILEID_MAX
  BY <1>1, LockListAssumption DEF IInv, HoldersExact, NoSentinelId, Entries
<1>4. /\ Users(e)' = Users(e) \cup {t}
      /\ t \notin Users(e)
      /\ \A x \in Entries : x # e => Users(x)' = Users(x)
  <2>1. \A u \in Threads : ent'[u] = IF u = t THEN e ELSE ent[u]
    BY <1>2, <1>3 DEF TypeOK
  <2>2. \A x \in Entries : x # NoEntry
    BY LockListAssumption DEF Entries
  <2> QED
    BY <1>3, <2>1, <2>2 DEF Users
<1>5. useCount'[e] = Cardinality(Users(e)') /\ useCount'[e] \in 0 .. UINT16_MAX
  <2>1. IsFiniteSet(Users(e)) /\ Cardinality(Users(e)) \in 0 .. UINT16_MAX
    BY UsersFinite DEF Users
  <2>2. /\ Cardinality(Users(e) \cup {t}) = Cardinality(Users(e)) + 1
        /\ Cardinality(Users(e) \cup {t}) \in 0 .. UINT16_MAX
    <3>1. Users(e) \cup {t} \in SUBSET Threads
      BY DEF Users
    <3> QED
      BY <2>1, <3>1, <1>4, FS_AddElement, UsersFinite
  <2>3. useCount[e] = Cardinality(Users(e)) /\ useCount[e] \in 0 .. UINT16_MAX
    BY DEF IInv, TableExact, TypeOK
  <2>4. CASE useCount' = [useCount EXCEPT ![e] = Wrap16(useCount[e] + 1)]
    BY <1>3, <1>4, <2>2, <2>3, <2>4, WrapFacts DEF TypeOK
  <2>5. CASE fileId[e] = FILEID_MAX /\ useCount' = [useCount EXCEPT ![e] = 1]
    <3>1. Users(e) = {}
      BY <2>5 DEF IInv, TableExact
    <3> QED
      BY <1>3, <1>4, <2>2, <2>5, <3>1, FS_EmptySet DEF TypeOK
  <2> QED
    BY <1>2, <2>4, <2>5
<1>6. \A x \in Entries : x # e => useCount'[x] = useCount[x] /\ fileId'[x] = fileId[x]
  BY <1>2, <1>3 DEF TypeOK
<1>7. fileId'[e] = f
  BY <1>2, <1>3 DEF TypeOK
<1>8. TypeOK'
  <2>1. useCount' \in [Entries -> 0 .. UINT16_MAX]
    <3>1. useCount' = [useCount EXCEPT ![e] = useCount'[e]]
      BY <1>2, <1>3 DEF TypeOK
    <3> QED
      BY <1>3, <1>5, <3>1 DEF TypeOK
  <2> QED
    BY <1>1, <1>2, <1>3, <2>1 DEF TypeOK, rwlocks
<1>9. TableExact'
  <2>1. \A x \in Entries :
          /\ useCount'[x] = Cardinality(Users(x)')
          /\ (fileId'[x] = FILEID_MAX) <=> (Users(x)' = {})
    BY <1>3, <1>4, <1>5, <1>6, <1>7 DEF IInv, TableExact
  <2>2. \A u \in Threads : ent'[u] # NoEntry => fileId'[ent'[u]] = file'[u]
    <3> SUFFICES ASSUME NEW u \in Threads, ent'[u] # NoEntry
                 PROVE  fileId'[ent'[u]] = file'[u]
      OBVIOUS
    <3>1. CASE u = t
      BY <1>1, <1>2, <1>3, <1>7, <3>1 DEF TypeOK
    <3>2. CASE u # t
      <4>1. /\ ent'[u] = ent[u] /\ file'[u] = file[u]
            /\ ent[u] \in Entries
            /\ fileId[ent[u]] = file[u]
        BY <1>1, <1>2, <1>3, <3>2 DEF TypeOK, IInv, TableExact
      <4>2. u \in Users(ent[u])
        BY DEF Users
      <4>3. ent[u] = e => fileId[e] = f
        BY <1>2, <4>2 DEF IInv, TableExact
      <4> QED
        BY <1>6, <1>7, <4>1, <4>3
    <3> QED
      BY <3>1, <3>2
  <2>3. \A e1, e2 \in Entries :
          fileId'[e1] = fileId'[e2] /\ fileId'[e1] # FILEID_MAX => e1 = e2
    BY <1>2, <1>3, <1>6, <1>7 DEF IInv, TableExact
  <2> QED
    BY <2>1, <2>2, <2>3 DEF TableExact, Users
<1>10. HoldersExact'
  <2>1. readers' = readers /\ writers' = writers
    BY <1>1 DEF rwlocks
  <2>2. \A u \in Threads : u # t => pc'[u] = pc[u] /\ mode'[u] = mode[u]
                                  /\ ent'[u] = ent[u] /\ file'[u] = file[u]
    BY <1>1, <1>2, <1>3 DEF TypeOK
  <2>3. pc'[t] = "wait" /\ ent'[t] = e /\ file'[t] = f
    BY <1>1, <1>2, <1>3 DEF TypeOK
  <2>4. ASSUME NEW x \in Entries
        PROVE  /\ {u \in Users(x)' : pc'[u] = "hold" /\ mode'[u] = "read"}
                    = {u \in Users(x) : pc[u] = "hold" /\ mode[u] = "read"}
               /\ {u \in Users(x)' : pc'[u] = "hold" /\ mode'[u] = "write"}
                    = {u \in Users(x) : pc[u] = "hold" /\ mode[u] = "write"}
    BY <1>1, <2>2, <2>3 DEF Users
  <2>5. ASSUME NEW x \in Entries
        PROVE  /\ readers'[x] = {u \in Users(x)' : pc'[u] = "hold" /\ mode'[u] = "read"}
               /\ writers'[x] = {u \in Users(x)' : pc'[u] = "hold" /\ mode'[u] = "write"}
               /\ \A u \in writers'[x] : readers'[x] = {} /\ writers'[x] = {u}
    BY <2>1, <2>4 DEF IInv, HoldersExact
  <2>6. ASSUME NEW u \in Threads
        PROVE  /\ pc'[u] \in {"wait", "hold"} => ent'[u] # NoEntry /\ file'[u] \in FileIds
               /\ pc'[u] = "idle" => ent'[u] = NoEntry /\ file'[u] = NoFile
    BY <1>3, <2>2, <2>3 DEF IInv, HoldersExact
  <2> QED
    BY <2>5, <2>6 DEF HoldersExact
<1>11. NoBare'
  BY <1>1, <1>3 DEF NoBare, IInv, TypeOK
<1> QED
  BY <1>8, <1>9, <1>10, <1>11 DEF IInv

\* The invariant is preserved when a thread enters the rwlock it waits for.
LEMMA AcquireIInv ==
  ASSUME IInv, NEW t \in Threads, Acquire(t)
  PROVE  IInv'
<1> DEFINE d == ent[t]
<1>1. /\ pc[t] = "wait" /\ d \in Entries /\ mode[t] \in Modes
      /\ pc' = [pc EXCEPT ![t] = "hold"]
      /\ UNCHANGED <<fileId, useCount, file, mode, ent>>
      /\ TypeOK
  BY DEF IInv, HoldersExact, TypeOK, Acquire, table, request
<1>2. \A e \in Entries : Users(e)' = Users(e)
  BY <1>1 DEF Users
<1>3. \A u \in Threads : pc'[u] = IF u = t THEN "hold" ELSE pc[u]
  BY <1>1 DEF TypeOK
<1>4. /\ \A e \in Entries : e # d => readers'[e] = readers[e] /\ writers'[e] = writers[e]
      /\ readers' \in [Entries -> SUBSET (Threads \cup {NoThread})]
      /\ writers' \in [Entries -> SUBSET Threads]
      /\ writers[d] = {}
  BY <1>1 DEF Acquire, TypeOK, MayEnter
<1>5. TypeOK'
  BY <1>1, <1>4 DEF TypeOK
<1>6. TableExact'
  BY <1>1, <1>2 DEF IInv, TableExact
<1>7. HoldersExact'
  <2> DEFINE Holding(e, m) == {u \in Users(e) : pc[u] = "hold" /\ mode[u] = m}
             HoldingNext(e, m) == {u \in Users(e) : pc'[u] = "hold" /\ mode[u] = m}
  <2>1. ASSUME NEW e \in Entries
        PROVE  readers[e] = Holding(e, "read") /\ writers[e] = Holding(e, "write")
    BY DEF IInv, HoldersExact
  <2>2. ASSUME NEW e \in Entries, e # d
        PROVE  HoldingNext(e, "read") = readers'[e] /\ HoldingNext(e, "write") = writers'[e]
    <3>1. t \notin Users(e)
      BY <2>2 DEF Users
    <3> QED
      BY <1>3, <1>4, <2>1, <2>2, <3>1 DEF Users
  <2>3. t \in Users(d)
    BY <1>1 DEF Users
  <2>4. /\ HoldingNext(d, "read") = readers'[d] /\ HoldingNext(d, "write") = writers'[d]
        /\ \A u \in writers'[d] : readers'[d] = {} /\ writers'[d] = {u}
    <3>1. CASE mode[t] = "read"
      BY <1>1, <1>3, <1>4, <2>1, <2>3, <3>1 DEF Acquire, TypeOK, Users
    <3>2. CASE mode[t] = "write"
      <4>1. readers'[d] = {} /\ writers'[d] = {t}
        BY <1>1, <1>4, <3>2 DEF Acquire, TypeOK, MayEnter
      <4>2. readers[d] = {} /\ writers[d] = {}
        BY <1>1, <3>2 DEF Acquire, MayEnter
      <4>3. HoldingNext(d, "read") = {} /\ HoldingNext(d, "write") = {t}
        BY <1>1, <1>3, <2>1, <2>3, <3>2, <4>2 DEF Users
      <4> QED
        BY <4>1, <4>3
    <3> QED
      BY <1>1, <3>1, <3>2 DEF Modes
  <2>5. ASSUME NEW e \in Entries
        PROVE  /\ readers'[e] = {u \in Users(e)' : pc'[u] = "hold" /\ mode'[u] = "read"}
               /\ writers'[e] = {u \in Users(e)' : pc'[u] = "hold" /\ mode'[u] = "write"}
               /\ \A u \in writers'[e] : readers'[e] = {} /\ writers'[e] = {u}
    <3>1. CASE e = d
      BY <1>1, <1>2, <2>4, <3>1
    <3>2. CASE e # d
      BY <1>1, <1>2, <1>4, <2>2, <3>2 DEF IInv, HoldersExact
    <3> QED
      BY <3>1, <3>2
  <2>6. ASSUME NEW u \in Threads
        PROVE  /\ pc'[u] \in {"wait", "hold"} => ent'[u] # NoEntry /\ file'[u] \in FileIds
               /\ pc'[u] = "idle" => ent'[u] = NoEntry /\ file'[u] = NoFile
    BY <1>1, <1>3 DEF IInv, HoldersExact
  <2> QED
    BY <2>5, <2>6 DEF HoldersExact
<1>8. NoBare'
  BY <1>3 DEF IInv, NoBare
<1> QED
  BY <1>5, <1>6, <1>7, <1>8 DEF IInv

\* The invariant is preserved when a thread releases its file.
LEMMA ReleaseFileIInv ==
  ASSUME NoSentinelId, EnoughEntries, IInv, NEW t \in Threads, ReleaseFile(t)
  PROVE  IInv'
<1>1. PICK d \in Entries :
      /\ d = ent[t] /\ pc[t] = "hold" /\ TypeOK
      /\ useCount[d] \in 1 .. UINT16_MAX
      /\ useCount' = [useCount EXCEPT ![d] = useCount[d] - 1]
      /\ fileId' = [fileId EXCEPT ![d] = IF useCount[d] = 1 THEN FILEID_MAX ELSE fileId[d]]
      /\ readers' = [readers EXCEPT ![d] = readers[d] \ {t}]
      /\ writers' = [writers EXCEPT ![d] = writers[d] \ {t}]
      /\ pc' = [pc EXCEPT ![t] = "idle"]
      /\ file' = [file EXCEPT ![t] = NoFile]
      /\ mode' = [mode EXCEPT ![t] = "read"]
      /\ ent' = [ent EXCEPT ![t] = NoEntry]
  BY ReleaseFileEffect DEF IInv
<1>2. \A u \in Threads :
        /\ pc'[u] = IF u = t THEN "idle" ELSE pc[u]
        /\ file'[u] = IF u = t THEN NoFile ELSE file[u]
        /\ mode'[u] = IF u = t THEN "read" ELSE mode[u]
        /\ ent'[u] = IF u = t THEN NoEntry ELSE ent[u]
  BY <1>1 DEF TypeOK
<1>3. \A e \in Entries : e # NoEntry
  BY LockListAssumption DEF Entries
<1>4. /\ Users(d)' = Users(d) \ {t} /\ t \in Users(d)
      /\ \A e \in Entries : e # d => Users(e)' = Users(e) /\ t \notin Users(e)
  <2>1. t \in Threads /\ d # NoEntry /\ ent'[t] = NoEntry
    BY <1>1, <1>2, <1>3
  <2>2. t \in Users(d)
    BY <1>1 DEF Users
  <2>3. Users(d)' = Users(d) \ {t}
    BY <1>2, <2>1 DEF Users
  <2>4. ASSUME NEW e \in Entries, e # d
        PROVE  Users(e)' = Users(e) /\ t \notin Users(e)
    BY <1>1, <1>2, <1>3, <2>4 DEF Users
  <2> QED
    BY <2>2, <2>3, <2>4
<1>5. /\ IsFiniteSet(Users(d)) /\ useCount[d] = Cardinality(Users(d))
      /\ useCount'[d] = Cardinality(Users(d)')
  <2>1. IsFiniteSet(Users(d))
    BY UsersFinite DEF Users
  <2>2. useCount[d] = Cardinality(Users(d))
    BY <1>1 DEF IInv, TableExact
  <2> QED
    BY <1>1, <1>4, <2>1, <2>2, FS_RemoveElement DEF TypeOK
<1>6. useCount[d] = 1 <=> Users(d)' = {}
  <2>1. IsFiniteSet(Users(d)')
    BY <1>4, <1>5, FS_RemoveElement
  <2>2. useCount'[d] = 0 <=> Users(d)' = {}
    BY <1>5, <2>1, FS_EmptySet
  <2>3. useCount'[d] = useCount[d] - 1
    BY <1>1 DEF TypeOK
  <2> QED
    BY <1>1, <2>2, <2>3, WrapFacts
<1>7. /\ fileId[d] = file[t] /\ fileId[d] # FILEID_MAX
      /\ fileId'[d] = IF Users(d)' = {} THEN FILEID_MAX ELSE fileId[d]
      /\ \A e \in Entries : e # d => fileId'[e] = fileId[e] /\ useCount'[e] = useCount[e]
  BY <1>1, <1>3, <1>4, <1>6 DEF IInv, TableExact, TypeOK
<1>8. TypeOK'
  <2>1. useCount[d] - 1 \in 0 .. UINT16_MAX
    BY <1>1, WrapFacts
  <2> QED
    BY <1>1, <2>1 DEF TypeOK, Modes
<1>9. TableExact'
  <2>1. ASSUME NEW e \in Entries
        PROVE  /\ useCount'[e] = Cardinality(Users(e)')
               /\ (fileId'[e] = FILEID_MAX) <=> (Users(e)' = {})
    <3>1. CASE e = d
      BY <1>5, <1>7, <3>1
    <3>2. CASE e # d
      BY <1>4, <1>7, <3>2 DEF IInv, TableExact
    <3> QED
      BY <3>1, <3>2
  <2>2. ASSUME NEW u \in Threads, ent'[u] # NoEntry
        PROVE  fileId'[ent'[u]] = file'[u]
    <3>1. u # t /\ ent'[u] = ent[u] /\ file'[u] = file[u] /\ ent[u] \in Entries
      BY <1>1, <1>2, <2>2 DEF TypeOK
    <3>2. u \in Users(ent[u]) /\ fileId[ent[u]] = file[u]
      BY <2>2, <3>1 DEF Users, IInv, TableExact
    <3>3. CASE ent[u] = d
      BY <1>4, <1>7, <3>1, <3>2, <3>3
    <3>4. CASE ent[u] # d
      BY <1>7, <3>1, <3>2, <3>4
    <3> QED
      BY <3>3, <3>4
  <2>3. ASSUME NEW e1 \in Entries, NEW e2 \in Entries,
               fileId'[e1] = fileId'[e2], fileId'[e1] # FILEID_MAX
        PROVE  e1 = e2
    <3>1. fileId[e1] = fileId'[e1] /\ fileId[e2] = fileId'[e2]
      BY <1>7, <2>3
    <3> QED
      BY <2>3, <3>1 DEF IInv, TableExact
  <2> QED
    BY <2>1, <2>2, <2>3 DEF TableExact, Users
<1>10. HoldersExact'
  <2>1. ASSUME NEW e \in Entries
        PROVE  /\ readers[e] = {u \in Users(e) : pc[u] = "hold" /\ mode[u] = "read"}
               /\ writers[e] = {u \in Users(e) : pc[u] = "hold" /\ mode[u] = "write"}
               /\ \A u \in writers[e] : readers[e] = {} /\ writers[e] = {u}
    BY DEF IInv, HoldersExact
  <2>2. ASSUME NEW e \in Entries
        PROVE  /\ readers'[e] = readers[e] \ {t} /\ writers'[e] = writers[e] \ {t}
               /\ Users(e)' = Users(e) \ {t}
    <3>1. CASE e = d
      BY <1>1, <1>4, <3>1 DEF TypeOK
    <3>2. CASE e # d
      <4>1. t \notin readers[e] /\ t \notin writers[e]
        BY <1>4, <2>1, <3>2
      <4> QED
        BY <1>1, <1>4, <3>2, <4>1 DEF TypeOK
    <3> QED
      BY <3>1, <3>2
  <2>3. ASSUME NEW e \in Entries
        PROVE  /\ readers'[e] = {u \in Users(e)' : pc'[u] = "hold" /\ mode'[u] = "read"}
               /\ writers'[e] = {u \in Users(e)' : pc'[u] = "hold" /\ mode'[u] = "write"}
               /\ \A u \in writers'[e] : readers'[e] = {} /\ writers'[e] = {u}
    <3>1. \A u \in Users(e)' : u \in Threads /\ pc'[u] = pc[u] /\ mode'[u] = mode[u]
      BY <1>2, <2>2 DEF Users
    <3> QED
      BY <2>1, <2>2, <3>1
  <2>4. ASSUME NEW u \in Threads
        PROVE  /\ pc'[u] \in {"wait", "hold"} => ent'[u] # NoEntry /\ file'[u] \in FileIds
               /\ pc'[u] = "idle" => ent'[u] = NoEntry /\ file'[u] = NoFile
    BY <1>2 DEF IInv, HoldersExact
  <2> QED
    BY <2>3, <2>4 DEF HoldersExact
<1>11. NoBare'
  BY <1>2 DEF IInv, NoBare
<1> QED
  BY <1>8, <1>9, <1>10, <1>11 DEF IInv

-----------------------------------------------------------------------------
\* Every lockFile, grant of a rwlock and releaseFile preserves it.
LEMMA NextIInv ==
  ASSUME NoSentinelId, EnoughEntries, IInv, [Next]_vars
  PROVE  IInv'
<1>1. ASSUME NEW t \in Threads, NEW f \in FileIds, NEW m \in Modes, LockFile(t, f, m)
      PROVE  IInv'
  BY <1>1, LockFileIInv
<1>2. ASSUME NEW t \in Threads, Acquire(t)
      PROVE  IInv'
  BY <1>2, AcquireIInv
<1>3. ASSUME NEW t \in Threads, ReleaseFile(t)
      PROVE  IInv'
  BY <1>3, ReleaseFileIInv
<1>4. CASE UNCHANGED vars
  <2>1. UNCHANGED <<fileId, useCount, readers, writers, pc, file, mode, ent>>
    BY <1>4 DEF vars, table, rwlocks, request
  <2>2. \A e \in Entries : Users(e)' = Users(e)
    BY <2>1 DEF Users
  <2>3. TypeOK' /\ NoBare'
    BY <2>1 DEF IInv, TypeOK, NoBare
  <2>4. TableExact'
    BY <2>1, <2>2 DEF IInv, TableExact
  <2>5. HoldersExact'
    BY <2>1, <2>2 DEF IInv, HoldersExact
  <2> QED
    BY <2>3, <2>4, <2>5 DEF IInv
<1> QED
  BY <1>1, <1>2, <1>3, <1>4 DEF Next

\* The table and the rwlocks are exact in every reachable state.
THEOREM InductiveInvariant ==
  ASSUME NoSentinelId, EnoughEntries
  PROVE  Spec => []IInv
<1>1. Init => IInv
  BY InitIInv
<1>2. IInv /\ [Next]_vars => IInv'
  BY NextIInv
<1> QED
  BY <1>1, <1>2, PTL DEF Spec

\* file_lock_list.c keeps its data well typed; useCount never wraps round.
THEOREM TypeCorrect ==
  ASSUME NoSentinelId, EnoughEntries
  PROVE  Spec => []TypeOK
<1>1. IInv => TypeOK
  BY DEF IInv
<1> QED
  BY <1>1, InductiveInvariant, PTL

\* lockFile and releaseFile keep the table exact: entries are counted by their
\* users, never shared by two files, and free exactly when unused.
THEOREM TableIsExact ==
  ASSUME NoSentinelId, EnoughEntries
  PROVE  Spec => []TableExact
<1>1. IInv => TableExact
  BY DEF IInv
<1> QED
  BY <1>1, InductiveInvariant, PTL

\* lockFile never returns 1: with as many entries as threads there is always an
\* entry left for a thread that asks.
THEOREM NeverOutOfEntries ==
  ASSUME NoSentinelId, EnoughEntries
  PROVE  Spec => []LockNeverFails
<1>1. IInv => LockNeverFails
  BY DEF IInv, NoBare, LockNeverFails
<1> QED
  BY <1>1, InductiveInvariant, PTL

\* Who holds the lock of a file is a user of the one entry that carries its id.
LEMMA IInvExcludes == ASSUME NoSentinelId, IInv PROVE FileExclusion
<1> SUFFICES ASSUME NEW t \in Threads, NEW u \in Threads,
                    pc[t] \in {"hold", "bare"}, pc[u] \in {"hold", "bare"},
                    t # u, file[t] = file[u]
             PROVE  mode[t] = "read" /\ mode[u] = "read"
  BY DEF FileExclusion
<1>1. /\ pc[t] = "hold" /\ pc[u] = "hold"
      /\ ent[t] \in Entries /\ ent[u] \in Entries /\ ent[t] # NoEntry /\ ent[u] # NoEntry
      /\ file[t] \in FileIds /\ mode[t] \in Modes /\ mode[u] \in Modes
  BY DEF IInv, NoBare, HoldersExact, TypeOK
<1>2. fileId[ent[t]] = fileId[ent[u]] /\ fileId[ent[t]] # FILEID_MAX
  BY <1>1 DEF IInv, TableExact, NoSentinelId
<1>3. ent[t] = ent[u]
  BY <1>1, <1>2 DEF IInv, TableExact
<1>4. t \in Users(ent[t]) /\ u \in Users(ent[t])
  BY <1>3 DEF Users
<1> QED
  BY <1>1, <1>4 DEF IInv, HoldersExact, Modes

\* Two threads work on the same file at once only when both read it, although the
\* lock they use is found by file id in a table of recycled entries.
THEOREM MutualExclusionPerFile ==
  ASSUME NoSentinelId, EnoughEntries
  PROVE  Spec => []FileExclusion
<1>1. IInv => FileExclusion
  BY IInvExcludes
<1> QED
  BY <1>1, InductiveInvariant, PTL

\* An rwlock is held by exactly the threads that work on the entry's file, for any
\* number of threads, entries and files.
THEOREM RwlocksAreExact ==
  ASSUME NoSentinelId, EnoughEntries
  PROVE  Spec => []HoldersExact
<1>1. IInv => HoldersExact
  BY DEF IInv
<1> QED
  BY <1>1, InductiveInvariant, PTL

-----------------------------------------------------------------------------
(***************************************************************************)
(* The lock list implements one readers-writer lock for every file id.     *)
(***************************************************************************)
Request(t) == <<t, file[t], mode[t]>>
InPc(place) == {Request(t) : t \in {u \in Threads : pc[u] = place}}

\* When a rwlock lets a thread in, no other thread holds its file in a mode that
\* conflicts, through whichever entry.
LEMMA AcquireIsCompatible ==
  ASSUME NoSentinelId, IInv, NEW t \in Threads, Acquire(t),
         NEW u \in Threads, pc[u] = "hold", file[u] = file[t]
  PROVE  mode[u] = "read" /\ mode[t] = "read"
<1>1. /\ ent[t] # NoEntry /\ ent[u] # NoEntry /\ file[t] \in FileIds
      /\ ent[t] \in Entries /\ ent[u] \in Entries
  BY DEF Acquire, IInv, HoldersExact, TypeOK
<1>2. fileId[ent[t]] = file[t] /\ fileId[ent[u]] = file[t] /\ file[t] # FILEID_MAX
  BY <1>1 DEF IInv, TableExact, NoSentinelId
<1>3. ent[u] = ent[t]
  BY <1>1, <1>2 DEF IInv, TableExact
<1>4. u \in Users(ent[t])
  BY <1>3 DEF Users
<1>5. /\ readers[ent[t]] = {x \in Users(ent[t]) : pc[x] = "hold" /\ mode[x] = "read"}
      /\ writers[ent[t]] = {x \in Users(ent[t]) : pc[x] = "hold" /\ mode[x] = "write"}
  BY <1>1 DEF IInv, HoldersExact
<1>6. mode[u] \in {"read", "write"} /\ mode[t] \in {"read", "write"}
  BY DEF IInv, TypeOK, Modes
<1>7. writers[ent[t]] = {} /\ (mode[t] = "write" => readers[ent[t]] = {})
  BY DEF Acquire, MayEnter
<1> QED
  BY <1>4, <1>5, <1>6, <1>7

\* Every step of the list is a step of FileRWLocks, or none.
LEMMA StepRefines ==
  ASSUME NoSentinelId, EnoughEntries, IInv, [Next]_vars
  PROVE  [RWLocks!Next]_(RWLocks!lockVars)
<1> DEFINE asked == InPc("wait")
           held  == InPc("hold")
<1>0. /\ pc \in [Threads -> {"idle", "wait", "hold", "bare"}]
      /\ file \in [Threads -> FileIds \cup {NoFile}] /\ mode \in [Threads -> Modes]
  BY DEF IInv, TypeOK
<1>1. ASSUME NEW t \in Threads, NEW f \in FileIds, NEW m \in Modes, LockFile(t, f, m)
      PROVE  RWLocks!Ask(t, f, m)
  <2>1. /\ pc[t] = "idle" /\ pc' = [pc EXCEPT ![t] = "wait"]
        /\ file' = [file EXCEPT ![t] = f] /\ mode' = [mode EXCEPT ![t] = m]
    BY <1>1, LockFileEffect
  <2>2. \A r \in asked \cup held : r[1] # t
    BY <2>1 DEF InPc, Request
  <2>3. asked' = asked \cup {<<t, f, m>>}
    <3>1. Request(t)' = <<t, f, m>> /\ pc'[t] = "wait"
      BY <1>0, <2>1 DEF Request
    <3>2. \A u \in Threads : u # t => Request(u)' = Request(u) /\ pc'[u] = pc[u]
      BY <1>0, <2>1 DEF Request
    <3> QED
      BY <2>1, <3>1, <3>2 DEF InPc
  <2>4. held' = held
    <3>1. \A u \in Threads : u # t => Request(u)' = Request(u) /\ pc'[u] = pc[u]
      BY <1>0, <2>1 DEF Request
    <3> QED
      BY <1>0, <2>1, <3>1 DEF InPc
  <2> QED
    BY <2>2, <2>3, <2>4 DEF RWLocks!Ask, InPc, Request
<1>2. ASSUME NEW t \in Threads, Acquire(t), NEW r, r = Request(t)
      PROVE  RWLocks!Grant(r)
  <2>1. pc[t] = "wait" /\ pc' = [pc EXCEPT ![t] = "hold"] /\ file' = file /\ mode' = mode
    BY <1>2 DEF Acquire, request
  <2>2. \A u \in Threads : Request(u)' = Request(u)
    BY <2>1 DEF Request
  <2>3. Request(t) \in asked
    BY <2>1 DEF InPc
  <2>4. \A h \in held : h[2] = Request(t)[2] => ~ RWLocks!Conflict(h[3], Request(t)[3])
    BY <1>2, AcquireIsCompatible DEF InPc, Request, RWLocks!Conflict
  <2>5. \A u \in Threads : Request(u) = Request(t) => u = t
    BY DEF Request
  <2>6. asked' = asked \ {Request(t)}
    BY <1>0, <2>1, <2>2, <2>5 DEF InPc
  <2>7. held' = held \cup {Request(t)}
    BY <1>0, <2>1, <2>2, <2>5 DEF InPc
  <2> QED
    BY <1>2, <2>3, <2>4, <2>6, <2>7 DEF RWLocks!Grant, InPc, Request
<1>3. ASSUME NEW t \in Threads, ReleaseFile(t), NEW r, r = Request(t)
      PROVE  RWLocks!Release(r)
  <2>1. /\ pc[t] = "hold" /\ pc' = [pc EXCEPT ![t] = "idle"]
        /\ file' = [file EXCEPT ![t] = NoFile] /\ mode' = [mode EXCEPT ![t] = "read"]
    BY <1>3, ReleaseFileEffect
  <2>2. \A u \in Threads : u # t => Request(u)' = Request(u) /\ pc'[u] = pc[u]
    BY <1>0, <2>1 DEF Request
  <2>3. \A u \in Threads : Request(u) = Request(t) => u = t
    BY DEF Request
  <2>4. Request(t) \in held
    BY <2>1 DEF InPc
  <2>5. held' = held \ {Request(t)}
    BY <1>0, <2>1, <2>2, <2>3 DEF InPc
  <2>6. asked' = asked
    BY <1>0, <2>1, <2>2 DEF InPc
  <2> QED
    BY <1>3, <2>4, <2>5, <2>6 DEF RWLocks!Release, InPc, Request
<1>4. CASE UNCHANGED vars
  BY <1>4 DEF vars, request, RWLocks!lockVars
<1>5. ASSUME NEW t \in Threads, pc[t] \in {"wait", "hold"}
      PROVE  Request(t) \in Threads \X FileIds \X Modes
  BY <1>0, <1>5 DEF Request, IInv, HoldersExact
<1>6. ASSUME NEW t \in Threads, Acquire(t) \/ ReleaseFile(t)
      PROVE  pc[t] \in {"wait", "hold"}
  BY <1>6 DEF Acquire, ReleaseFile, IInv, NoBare
<1>7. ASSUME NEW t \in Threads, Acquire(t) \/ ReleaseFile(t)
      PROVE  RWLocks!Next
  <2>1. PICK r : r = Request(t)
    OBVIOUS
  <2>2. r \in Threads \X FileIds \X Modes
    BY <1>5, <1>6, <1>7, <2>1
  <2>3. RWLocks!Grant(r) \/ RWLocks!Release(r)
    BY <1>2, <1>3, <1>7, <2>1
  <2> QED
    BY <2>2, <2>3 DEF RWLocks!Next
<1>8. ASSUME NEW t \in Threads, NEW f \in FileIds, NEW m \in Modes, LockFile(t, f, m)
      PROVE  RWLocks!Next
  BY <1>1, <1>8 DEF RWLocks!Next
<1> QED
  BY <1>4, <1>7, <1>8 DEF Next

\* The lock list is as good as one readers-writer lock for every file id, for any
\* number of threads, entries and files.
THEOREM RefinesFileRWLocks ==
  ASSUME NoSentinelId, EnoughEntries
  PROVE  Spec => ImplementsRWLocks
<1>1. Init => IInv
  BY InitIInv
<1>2. IInv /\ [Next]_vars => IInv'
  BY NextIInv
<1>3. Init => RWLocks!Init
  BY DEF Init, RWLocks!Init
<1>4. IInv /\ [Next]_vars => [RWLocks!Next]_(RWLocks!lockVars)
  BY StepRefines
<1> QED
  BY <1>1, <1>2, <1>3, <1>4, PTL DEF Spec, ImplementsRWLocks, RWLocks!Spec
-----------------------------------------------------------------------------
(***************************************************************************)
(* No deadlock, said of a state: fairness makes NeverBlockedByNobody of it.*)
(***************************************************************************)
\* On a file somebody waits for, somebody is at work, or may begin to.
SomebodyProceeds ==
  \A t \in Threads : pc[t] = "wait" =>
    \E u \in Threads : /\ file[u] = file[t]
                       /\ pc[u] = "hold" \/ (pc[u] = "wait" /\ MayEnter(u, ent[u]))

\* Threads never wait for each other in a circle, nor for a lock that nobody releases: of the
\* threads that wait for a file a reader may enter, or if there is none any writer, unless
\* the rwlock is held; and who holds it works on that very file and waits for nothing.
THEOREM NeverAllWait ==
  ASSUME NoSentinelId, EnoughEntries
  PROVE  Spec => []SomebodyProceeds
<1>1. ASSUME IInv PROVE SomebodyProceeds
  <2> SUFFICES ASSUME NEW t \in Threads, pc[t] = "wait"
               PROVE  \E u \in Threads : /\ file[u] = file[t]
                                         /\ pc[u] = "hold" \/ (pc[u] = "wait" /\ MayEnter(u, ent[u]))
    BY DEF SomebodyProceeds
  <2>1. PICK e \in Entries : e = ent[t]
    BY <1>1 DEF IInv, TypeOK, HoldersExact
  <2>2. \A u \in Users(e) : u \in Threads /\ ent[u] = e /\ file[u] = file[t]
    <3>1. e # NoEntry
      BY <2>1, LockListAssumption DEF Entries
    <3> QED
      BY <1>1, <2>1, <3>1 DEF IInv, TableExact, Users
  <2>3. /\ readers[e] = {u \in Users(e) : pc[u] = "hold" /\ mode[u] = "read"}
        /\ writers[e] = {u \in Users(e) : pc[u] = "hold" /\ mode[u] = "write"}
    BY <1>1 DEF IInv, HoldersExact
  <2>4. CASE readers[e] \cup writers[e] # {}
    BY <2>2, <2>3, <2>4
  <2>5. CASE readers[e] \cup writers[e] = {} /\ WaitingReaders(e) # {}
    <3>1. PICK u \in Threads : pc[u] = "wait" /\ ent[u] = e /\ mode[u] = "read"
      BY <2>5 DEF WaitingReaders
    <3>2. MayEnter(u, e)
      BY <2>5, <3>1 DEF MayEnter
    <3> QED
      BY <2>2, <3>1, <3>2 DEF Users
  <2>6. CASE readers[e] \cup writers[e] = {} /\ WaitingReaders(e) = {}
    <3>1. MayEnter(t, e)
      BY <2>6 DEF MayEnter
    <3> QED
      BY <2>1, <3>1
  <2> QED
    BY <2>4, <2>5, <2>6
<1>2. IInv => SomebodyProceeds
  BY <1>1
<1> QED
  BY <1>2, InductiveInvariant, PTL
=============================================================================
