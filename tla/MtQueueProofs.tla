----------------------------- MODULE MtQueueProofs -----------------------------
(***************************************************************************)
(* The queue for any capacity, and any finite sets of producers and        *)
(* consumers: its indices stay in the ring, no signal is lost, and items   *)
(* leave in the order in which they came.                                  *)
(*                                                                         *)
(* That no wakeup is lost is a count: while a consumer sleeps there are at *)
(* least as many awake as there are items, and the same for producers and  *)
(* free slots.  A push that takes a producer off that count takes a free   *)
(* slot too, and wakes a consumer for the item, if one sleeps.             *)
(***************************************************************************)
EXTENDS MtQueue, FiniteSetTheorems, SequenceTheorems, TLAPS

\* The steps of the ring keep back count slots after front.
LEMMA Geometry ==
  ASSUME NEW f \in Slots, NEW n \in 0 .. Capacity
  PROVE  /\ (f + n) % Capacity \in Slots
         /\ Advance(f) \in Slots
         /\ n < Capacity => Advance((f + n) % Capacity) = (f + (n + 1)) % Capacity
         /\ n > 0 => (f + n) % Capacity = (Advance(f) + (n - 1)) % Capacity
<1>1. Capacity \in Nat /\ Capacity > 0
  BY QueueAssumption
<1>2. f + n \in Nat /\ f + n < 2 * Capacity
  BY <1>1 DEF Slots
<1>3. (f + n) % Capacity = IF f + n < Capacity THEN f + n ELSE f + n - Capacity
  BY <1>1, <1>2, SMTT(30) DEF Slots
<1>4. \A i \in Slots : Advance(i) = IF i + 1 < Capacity THEN i + 1 ELSE 0
  <2> TAKE i \in Slots
  <2>1. i + 1 \in Nat /\ i + 1 < 2 * Capacity
    BY <1>1 DEF Slots
  <2>2. (i + 1) % Capacity = IF i + 1 < Capacity THEN i + 1 ELSE i + 1 - Capacity
    BY <1>1, <2>1, SMTT(30) DEF Slots
  <2> QED
    BY <1>1, <2>2 DEF Advance, Slots
<1>5. (f + n) % Capacity \in Slots /\ Advance(f) \in Slots
  BY <1>1, <1>2, <1>3, <1>4 DEF Slots
<1>6. ASSUME n < Capacity
      PROVE  Advance((f + n) % Capacity) = (f + (n + 1)) % Capacity
  <2>1. f + (n + 1) \in Nat /\ f + (n + 1) < 2 * Capacity
    BY <1>1, <1>6 DEF Slots
  <2>2. (f + (n + 1)) % Capacity =
          IF f + (n + 1) < Capacity THEN f + (n + 1) ELSE f + (n + 1) - Capacity
    BY <1>1, <1>5, <2>1, SMTT(30) DEF Slots
  <2> QED
    BY <1>1, <1>3, <1>4, <1>5, <1>6, <2>2 DEF Slots
<1>7. ASSUME n > 0
      PROVE  (f + n) % Capacity = (Advance(f) + (n - 1)) % Capacity
  <2>1. Advance(f) + (n - 1) \in Nat /\ Advance(f) + (n - 1) < 2 * Capacity
    BY <1>1, <1>5, <1>7 DEF Slots
  <2>2. (Advance(f) + (n - 1)) % Capacity =
          IF Advance(f) + (n - 1) < Capacity THEN Advance(f) + (n - 1)
                                             ELSE Advance(f) + (n - 1) - Capacity
    BY <1>1, <1>5, <2>1, SMTT(30) DEF Slots
  <2> QED
    BY <1>1, <1>3, <1>4, <1>5, <1>7, <2>2 DEF Slots
<1> QED
  BY <1>5, <1>6, <1>7

-----------------------------------------------------------------------------
\* Once the server stops no thread is inside mtQueue_push.
QuietAfterStop == server # "running" => \A p \in Producers : pc[p] = "out"

IInv == TypeOK /\ QuietAfterStop /\ NoLostWakeup

AwakeIn(S) == {t \in S : pc[t] \in Awake}

\* A set with at least the elements of another one is as large; one element more
\* or less counts for one.
LEMMA Counting ==
  ASSUME NEW U, IsFiniteSet(U), NEW A \in SUBSET U, NEW B \in SUBSET U
  PROVE  /\ Cardinality(A) \in Nat /\ Cardinality(B) \in Nat
         /\ A \subseteq B => Cardinality(A) <= Cardinality(B)
         /\ \A x \in B : x \notin A /\ A \subseteq B => Cardinality(A) + 1 <= Cardinality(B)
         /\ \A x : A \ {x} \subseteq B => Cardinality(A) <= Cardinality(B) + 1
<1>1. IsFiniteSet(A) /\ IsFiniteSet(B)
  BY FS_Subset
<1>2. Cardinality(A) \in Nat /\ Cardinality(B) \in Nat
  BY <1>1, FS_CardinalityType
<1>3. ASSUME A \subseteq B PROVE Cardinality(A) <= Cardinality(B)
  BY <1>1, <1>3, FS_Subset
<1>4. ASSUME NEW x \in B, x \notin A, A \subseteq B
      PROVE  Cardinality(A) + 1 <= Cardinality(B)
  <2>1. IsFiniteSet(A \cup {x}) /\ Cardinality(A \cup {x}) = Cardinality(A) + 1
    BY <1>1, <1>4, FS_AddElement
  <2>2. A \cup {x} \in SUBSET B
    BY <1>4
  <2> QED
    BY <1>1, <2>1, <2>2, FS_Subset
<1>5. ASSUME NEW x, A \ {x} \subseteq B
      PROVE  Cardinality(A) <= Cardinality(B) + 1
  <2>1. /\ IsFiniteSet(A \ {x})
        /\ Cardinality(A \ {x}) = IF x \in A THEN Cardinality(A) - 1 ELSE Cardinality(A)
    BY <1>1, FS_RemoveElement
  <2>2. Cardinality(A \ {x}) <= Cardinality(B)
    BY <1>1, <1>5, FS_Subset
  <2> QED
    BY <1>2, <2>1, <2>2
<1> QED
  BY <1>2, <1>3, <1>4, <1>5

-----------------------------------------------------------------------------
\* The queue of createMtQueue is empty and nobody is inside it.
LEMMA InitIInv == Init => IInv
<1> SUFFICES ASSUME Init PROVE IInv
  OBVIOUS
<1>1. TypeOK
  <2>1. 0 \in Slots /\ 0 \in 0 .. Capacity /\ (0 + 0) % Capacity = 0
    BY QueueAssumption, SMTT(30) DEF Slots
  <2> QED
    BY <2>1, QueueAssumption DEF Init, TypeOK, Threads, ConsumerPcs, ProducerPcs
<1>2. QuietAfterStop /\ NoLostWakeup
  BY DEF Init, QuietAfterStop, NoLostWakeup
<1> QED
  BY <1>1, <1>2 DEF IInv

\* The types and the geometry of the ring.
LEMMA NextTypeOK == TypeOK /\ [Next]_vars => TypeOK'
<1> SUFFICES ASSUME TypeOK, [Next]_vars PROVE TypeOK'
  OBVIOUS
<1> USE QueueAssumption DEF TypeOK, Threads, ConsumerPcs, ProducerPcs, ring, conds, env
<1>1. ASSUME NEW p \in Producers, NEW v \in Items, Push(p, v) PROVE TypeOK'
  BY <1>1 DEF Push
<1>2. ASSUME NEW t \in Threads, Lock(t) PROVE TypeOK'
  BY <1>2 DEF Lock
<1>3. ASSUME NEW p \in Producers, PushWait(p) PROVE TypeOK'
  BY <1>3 DEF PushWait
<1>4. ASSUME NEW p \in Producers, PushStore(p) PROVE TypeOK'
  <2>1. PICK woken \in Signal(readCond) :
          readCond' = readCond \ woken /\ ReturnAndWake(p, woken)
    BY <1>4 DEF PushStore
  <2>2. woken \subseteq readCond
    BY DEF Signal
  <2>3. count \in 0 .. Capacity /\ count < Capacity
    BY <1>4 DEF PushStore
  <2>4. front \in Slots /\ back \in Slots
    OBVIOUS
  <2>5. Advance(back) \in Slots /\ back' = Advance(back) /\ front' = front /\ count' = count + 1
    BY <1>4, <2>3, <2>4, Geometry DEF PushStore
  <2>6. server = "freed" \/ Advance(back) = (front + (count + 1)) % Capacity
    BY <2>3, <2>4, Geometry
  <2>7. /\ queue' \in [Slots -> Items \cup {NoItem}]
        /\ arg' \in [Producers -> Items \cup {NoItem}]
    BY <1>4, <2>4 DEF PushStore
  <2>8. /\ pc' \in [Threads -> ConsumerPcs]
        /\ \A q \in Producers : pc'[q] \in ProducerPcs
        /\ readCond' = {c \in Consumers : pc'[c] = "wait"}
        /\ writeCond' = {q \in Producers : pc'[q] = "wait"}
    BY <1>4, <2>1, <2>2 DEF PushStore, ReturnAndWake
  <2>9. /\ mutex' = NoThread /\ UNCHANGED env
        /\ count' \in 0 .. Capacity
    BY <1>4, <2>3, <2>5 DEF PushStore
  <2>10. server' = "freed" \/ back' = (front' + count') % Capacity
    BY <2>5, <2>6, <2>9
  <2> QED
    BY <2>4, <2>5, <2>7, <2>8, <2>9, <2>10
<1>5. ASSUME NEW c \in Consumers, Pop(c) PROVE TypeOK'
  BY <1>5 DEF Pop
<1>6. ASSUME NEW c \in Consumers, PopWait(c) PROVE TypeOK'
  BY <1>6 DEF PopWait
<1>7. ASSUME NEW c \in Consumers, PopTake(c) PROVE TypeOK'
  <2>1. PICK woken \in Signal(writeCond) :
          writeCond' = writeCond \ woken /\ ReturnAndWake(c, woken)
    BY <1>7 DEF PopTake
  <2>2. woken \subseteq writeCond
    BY DEF Signal
  <2>3. count \in 0 .. Capacity /\ count > 0
    BY <1>7 DEF PopTake
  <2>4. front \in Slots /\ back \in Slots
    OBVIOUS
  <2>5. Advance(front) \in Slots /\ front' = Advance(front) /\ back' = back /\ count' = count - 1
    BY <1>7, <2>3, <2>4, Geometry DEF PopTake
  <2>6. server = "freed" \/ back = (Advance(front) + (count - 1)) % Capacity
    BY <2>3, <2>4, Geometry
  <2>7. UNCHANGED <<queue, arg>>
    BY <1>7 DEF PopTake
  <2>8. /\ pc' \in [Threads -> ConsumerPcs]
        /\ \A q \in Producers : pc'[q] \in ProducerPcs
        /\ readCond' = {d \in Consumers : pc'[d] = "wait"}
        /\ writeCond' = {q \in Producers : pc'[q] = "wait"}
    BY <1>7, <2>1, <2>2 DEF PopTake, ReturnAndWake
  <2>9. /\ mutex' = NoThread /\ UNCHANGED env
        /\ count' \in 0 .. Capacity
    BY <1>7, <2>3, <2>5 DEF PopTake
  <2>10. server' = "freed" \/ back' = (front' + count') % Capacity
    BY <2>5, <2>6, <2>9
  <2> QED
    BY <2>4, <2>5, <2>7, <2>8, <2>9, <2>10
<1>8. ASSUME NEW c \in Consumers, CancelInWait(c) PROVE TypeOK'
  BY <1>8 DEF CancelInWait
<1>9. ASSUME NEW c \in Consumers, UnwindLock(c) PROVE TypeOK'
  BY <1>9 DEF UnwindLock
<1>10. ASSUME NEW c \in Consumers, Cleanup(c) PROVE TypeOK'
  BY <1>10 DEF Cleanup
<1>11. ASSUME NEW c \in Consumers, CancelOutside(c) PROVE TypeOK'
  BY <1>11 DEF CancelOutside
<1>12. ASSUME NEW t \in Threads, SpuriousWakeup(t) PROVE TypeOK'
  BY <1>12 DEF SpuriousWakeup
<1>13. CASE Stop
  BY <1>13 DEF Stop
<1>14. ASSUME NEW c \in Consumers, Cancel(c) PROVE TypeOK'
  BY <1>14 DEF Cancel
<1>15. CASE Free
  <2>1. (front + count) % Capacity \in Slots
    BY Geometry
  <2> QED
    BY <1>15, <2>1 DEF Free
<1>16. CASE UNCHANGED vars
  BY <1>16 DEF vars
<1> QED
  BY <1>1, <1>2, <1>3, <1>4, <1>5, <1>6, <1>7, <1>8, <1>9, <1>10, <1>11, <1>12, <1>13,
     <1>14, <1>15, <1>16 DEF Next, ProducerStep, ConsumerStep, ShutdownStep

\* The accept loop is the only producer, and has left it when the threads are cancelled.
LEMMA NextQuiet == TypeOK /\ QuietAfterStop /\ [Next]_vars => QuietAfterStop'
<1> SUFFICES ASSUME TypeOK, QuietAfterStop, [Next]_vars PROVE QuietAfterStop'
  OBVIOUS
<1> USE QueueAssumption DEF TypeOK, QuietAfterStop, Threads, ring, conds, env
<1>1. CASE Stop
  BY <1>1 DEF Stop
<1>2. ASSUME NEW p \in Producers, NEW v \in Items, Push(p, v) PROVE QuietAfterStop'
  BY <1>2 DEF Push
<1>3. ASSUME NEW p \in Producers, ProducerStep(p) PROVE QuietAfterStop'
  BY <1>3 DEF ProducerStep, Lock, PushWait, PushStore
<1>4. ASSUME NEW c \in Consumers, PopTake(c) PROVE QuietAfterStop'
  <2>1. PICK woken \in Signal(writeCond) : ReturnAndWake(c, woken)
    BY <1>4 DEF PopTake
  <2>2. woken \subseteq writeCond
    BY DEF Signal
  <2> QED
    BY <1>4, <2>1, <2>2 DEF PopTake, ReturnAndWake
<1>5. ASSUME NEW c \in Consumers, ConsumerStep(c), ~ PopTake(c) PROVE QuietAfterStop'
  BY <1>5 DEF ConsumerStep, Pop, Lock, PopWait, CancelInWait, UnwindLock, Cleanup, CancelOutside
<1>6. ASSUME NEW t \in Threads, SpuriousWakeup(t) PROVE QuietAfterStop'
  BY <1>6 DEF SpuriousWakeup
<1>7. CASE ShutdownStep
  BY <1>7 DEF ShutdownStep, Cancel, Free
<1>8. CASE UNCHANGED vars
  BY <1>8 DEF vars
<1> QED
  BY <1>1, <1>2, <1>3, <1>4, <1>5, <1>6, <1>7, <1>8 DEF Next

\* NoLostWakeup is kept by a step in which nobody falls asleep or leaves push or pop,
\* and which leaves count alone.
LEMMA NobodyLeaves ==
  ASSUME TypeOK, NoLostWakeup,
         readCond' \subseteq readCond, writeCond' \subseteq writeCond, count' = count,
         \A t \in Threads : pc[t] \in Awake => pc'[t] \in Awake
  PROVE  NoLostWakeup'
<1>1. /\ AwakeIn(Consumers) \in SUBSET Consumers /\ AwakeIn(Consumers)' \in SUBSET Consumers
      /\ AwakeIn(Producers) \in SUBSET Producers /\ AwakeIn(Producers)' \in SUBSET Producers
      /\ AwakeIn(Consumers) \subseteq AwakeIn(Consumers)'
      /\ AwakeIn(Producers) \subseteq AwakeIn(Producers)'
  BY DEF AwakeIn, Threads
<1>2. /\ Cardinality(AwakeIn(Consumers)) \in Nat /\ Cardinality(AwakeIn(Consumers)') \in Nat
      /\ Cardinality(AwakeIn(Producers)) \in Nat /\ Cardinality(AwakeIn(Producers)') \in Nat
      /\ Cardinality(AwakeIn(Consumers)) <= Cardinality(AwakeIn(Consumers)')
      /\ Cardinality(AwakeIn(Producers)) <= Cardinality(AwakeIn(Producers)')
  BY <1>1, Counting, QueueAssumption
<1>3. count \in Nat /\ Capacity - count \in Nat
  BY QueueAssumption DEF TypeOK
<1>4. /\ readCond # {} => Cardinality(AwakeIn(Consumers)) >= count
      /\ writeCond # {} => Cardinality(AwakeIn(Producers)) >= Capacity - count
  BY DEF NoLostWakeup, AwakeIn
<1>5. /\ readCond' # {} => Cardinality(AwakeIn(Consumers)') >= count'
      /\ writeCond' # {} => Cardinality(AwakeIn(Producers)') >= Capacity - count'
  BY <1>2, <1>3, <1>4
<1> QED
  BY <1>5 DEF NoLostWakeup, AwakeIn

\* A store or a take wakes whoever it makes room or work for.
LEMMA NextNoLostWakeup == IInv /\ [Next]_vars => NoLostWakeup'
<1> SUFFICES ASSUME IInv, [Next]_vars PROVE NoLostWakeup'
  OBVIOUS
<1> DEFINE AC == AwakeIn(Consumers)
           AP == AwakeIn(Producers)
<1>0. /\ TypeOK /\ NoLostWakeup /\ QuietAfterStop
      /\ count \in Nat /\ count <= Capacity /\ Capacity \in Nat
      /\ AC \in SUBSET Consumers /\ AC' \in SUBSET Consumers
      /\ AP \in SUBSET Producers /\ AP' \in SUBSET Producers
  BY QueueAssumption DEF IInv, TypeOK, AwakeIn
<1>a. /\ Cardinality(AC) \in Nat /\ Cardinality(AC') \in Nat
      /\ Cardinality(AP) \in Nat /\ Cardinality(AP') \in Nat
  BY <1>0, Counting, QueueAssumption
<1>b. /\ readCond # {} => Cardinality(AC) >= count
      /\ writeCond # {} => Cardinality(AP) >= Capacity - count
  BY <1>0 DEF NoLostWakeup, AwakeIn
<1> USE QueueAssumption DEF Threads
<1>1. ASSUME NEW p \in Producers, NEW v \in Items, Push(p, v) PROVE NoLostWakeup'
  BY <1>0, <1>1, NobodyLeaves DEF Push, Awake, TypeOK, conds, ring
<1>2. ASSUME NEW t \in Threads, Lock(t) PROVE NoLostWakeup'
  BY <1>0, <1>2, NobodyLeaves DEF Lock, Awake, TypeOK, conds, ring
<1>3. ASSUME NEW p \in Producers, PushWait(p) PROVE NoLostWakeup'
  <2>1. count' = Capacity /\ count' = count /\ readCond' = readCond
    BY <1>3 DEF PushWait, ring
  <2>2. AC \subseteq AC'
    BY <1>0, <1>3 DEF PushWait, AwakeIn, TypeOK
  <2>3. Cardinality(AC) <= Cardinality(AC')
    BY <1>0, <2>2, Counting
  <2>4. /\ readCond' # {} => Cardinality(AC') >= count'
        /\ Cardinality(AP') >= Capacity - count'
    BY <1>0, <1>a, <1>b, <2>1, <2>3
  <2> QED
    BY <2>4 DEF NoLostWakeup, AwakeIn
<1>4. ASSUME NEW c \in Consumers, PopWait(c) PROVE NoLostWakeup'
  <2>1. count' = 0 /\ count' = count /\ writeCond' = writeCond
    BY <1>4 DEF PopWait, ring
  <2>2. AP \subseteq AP'
    BY <1>0, <1>4 DEF PopWait, AwakeIn, TypeOK
  <2>3. Cardinality(AP) <= Cardinality(AP')
    BY <1>0, <2>2, Counting
  <2>4. /\ Cardinality(AC') >= count'
        /\ writeCond' # {} => Cardinality(AP') >= Capacity - count'
    BY <1>0, <1>a, <1>b, <2>1, <2>3
  <2> QED
    BY <2>4 DEF NoLostWakeup, AwakeIn
<1>5. ASSUME NEW p \in Producers, PushStore(p) PROVE NoLostWakeup'
  <2>1. PICK woken \in Signal(readCond) :
          readCond' = readCond \ woken /\ ReturnAndWake(p, woken)
    BY <1>5 DEF PushStore
  <2>2. count' = count + 1 /\ writeCond' = writeCond
    BY <1>5 DEF PushStore
  <2>3. woken \subseteq readCond /\ readCond \subseteq Consumers
    BY <1>0 DEF Signal, TypeOK
  <2>4. AP \ {p} \subseteq AP'
    BY <1>0, <1>5, <2>1, <2>3 DEF ReturnAndWake, AwakeIn, TypeOK
  <2>5. Cardinality(AP) <= Cardinality(AP') + 1
    BY <1>0, <2>4, Counting
  <2>6. writeCond' # {} => Cardinality(AP') >= Capacity - count'
    BY <1>0, <1>a, <1>b, <2>2, <2>5
  <2>7. ASSUME readCond' # {} PROVE Cardinality(AC') >= count'
    <3>1. PICK w \in readCond : woken = {w}
      BY <2>1, <2>7 DEF Signal
    <3>2. w \in AC' /\ w \notin AC /\ AC \subseteq AC'
      BY <1>0, <1>5, <2>1, <2>3, <3>1 DEF ReturnAndWake, AwakeIn, TypeOK, Awake
    <3>3. Cardinality(AC) + 1 <= Cardinality(AC')
      BY <1>0, <3>2, Counting
    <3>4. readCond # {}
      BY <3>1
    <3> QED
      BY <1>0, <1>a, <1>b, <2>2, <3>3, <3>4
  <2> QED
    BY <2>6, <2>7 DEF NoLostWakeup, AwakeIn
<1>6. ASSUME NEW c \in Consumers, PopTake(c) PROVE NoLostWakeup'
  <2>1. PICK woken \in Signal(writeCond) :
          writeCond' = writeCond \ woken /\ ReturnAndWake(c, woken)
    BY <1>6 DEF PopTake
  <2>2. count' = count - 1 /\ count > 0 /\ readCond' = readCond
    BY <1>0, <1>6 DEF PopTake
  <2>3. woken \subseteq writeCond /\ writeCond \subseteq Producers
    BY <1>0 DEF Signal, TypeOK
  <2>4. AC \ {c} \subseteq AC'
    BY <1>0, <1>6, <2>1, <2>3 DEF ReturnAndWake, AwakeIn, TypeOK
  <2>5. Cardinality(AC) <= Cardinality(AC') + 1
    BY <1>0, <2>4, Counting
  <2>6. readCond' # {} => Cardinality(AC') >= count'
    BY <1>0, <1>a, <1>b, <2>2, <2>5
  <2>7. ASSUME writeCond' # {} PROVE Cardinality(AP') >= Capacity - count'
    <3>1. PICK w \in writeCond : woken = {w}
      BY <2>1, <2>7 DEF Signal
    <3>2. w \in AP' /\ w \notin AP /\ AP \subseteq AP'
      BY <1>0, <1>6, <2>1, <2>3, <3>1 DEF ReturnAndWake, AwakeIn, TypeOK, Awake
    <3>3. Cardinality(AP) + 1 <= Cardinality(AP')
      BY <1>0, <3>2, Counting
    <3>4. writeCond # {}
      BY <3>1
    <3> QED
      BY <1>0, <1>a, <1>b, <2>2, <3>3, <3>4
  <2> QED
    BY <2>6, <2>7 DEF NoLostWakeup, AwakeIn
<1>7. ASSUME NEW c \in Consumers,
             \/ Pop(c) \/ CancelInWait(c) \/ UnwindLock(c) \/ Cleanup(c) \/ CancelOutside(c)
      PROVE  NoLostWakeup'
  BY <1>0, <1>7, NobodyLeaves
     DEF Pop, CancelInWait, UnwindLock, Cleanup, CancelOutside, Awake, TypeOK, conds, ring
<1>8. ASSUME NEW t \in Threads, SpuriousWakeup(t) PROVE NoLostWakeup'
  BY <1>0, <1>8, NobodyLeaves DEF SpuriousWakeup, Awake, TypeOK, ring
<1>9. CASE Stop \/ \E c \in Consumers : Cancel(c)
  BY <1>0, <1>9, NobodyLeaves DEF Stop, Cancel, conds, ring
<1>10. CASE Free
  <2>1. readCond' = {} /\ writeCond' = {}
    BY <1>0, <1>10 DEF Free, TypeOK, QuietAfterStop, conds
  <2> QED
    BY <2>1 DEF NoLostWakeup
<1>11. CASE UNCHANGED vars
  BY <1>0, <1>11, NobodyLeaves DEF vars, conds, ring
<1> QED
  BY <1>1, <1>2, <1>3, <1>4, <1>5, <1>6, <1>7, <1>8, <1>9, <1>10, <1>11
     DEF Next, ProducerStep, ConsumerStep, ShutdownStep

\* The invariant holds in every reachable state of the queue.
THEOREM InductiveInvariant == Spec => []IInv
<1>1. IInv /\ [Next]_vars => IInv'
  BY NextTypeOK, NextQuiet, NextNoLostWakeup DEF IInv
<1> QED
  BY InitIInv, <1>1, PTL DEF Spec

\* The types and the geometry of the ring, for any capacity: back is count slots after
\* front, modulo the capacity.
THEOREM TypeCorrect == Spec => []TypeOK
<1>1. IInv => TypeOK
  BY DEF IInv
<1> QED
  BY <1>1, InductiveInvariant, PTL

\* No wake-up is lost, for any number of producers and consumers, although a push or a
\* pop wakes one thread, threads that arrive may overtake it, and waits may be cancelled.
THEOREM NoWakeupLost == Spec => []NoLostWakeup
<1>1. IInv => NoLostWakeup
  BY DEF IInv
<1> QED
  BY <1>1, InductiveInvariant, PTL

-----------------------------------------------------------------------------
(***************************************************************************)
(* The queue implements BoundedFifo, as far as safety goes.                *)
(***************************************************************************)
\* The slots of the ring, counted from 1.
LEMMA SlotOf ==
  ASSUME NEW f \in Slots, NEW i \in 1 .. Capacity
  PROVE  (f + i - 1) % Capacity = (f + (i - 1)) % Capacity /\ (f + i - 1) % Capacity \in Slots
<1>1. f + i - 1 = f + (i - 1) /\ i - 1 \in 0 .. Capacity
  BY QueueAssumption DEF Slots
<1> QED
  BY <1>1, Geometry

\* Less than a turn apart, two slots differ.
LEMMA Distinct ==
  ASSUME NEW f \in Slots, NEW i \in 0 .. Capacity - 1, NEW j \in 0 .. Capacity - 1, i # j
  PROVE  (f + i) % Capacity # (f + j) % Capacity
<1>1. (f + i) % Capacity = IF f + i < Capacity THEN f + i ELSE f + i - Capacity
  BY QueueAssumption, SMTT(30) DEF Slots
<1>2. (f + j) % Capacity = IF f + j < Capacity THEN f + j ELSE f + j - Capacity
  BY QueueAssumption, SMTT(30) DEF Slots
<1> QED
  BY <1>1, <1>2, QueueAssumption DEF Slots

\* The items in the ring, the oldest first.
LEMMA ContentsSeq ==
  ASSUME TypeOK
  PROVE  Contents \in Seq(Items \cup {NoItem}) /\ Len(Contents) = count
         /\ DOMAIN Contents = 1 .. count
<1>1. count \in 0 .. Capacity /\ Capacity \in Nat /\ front \in Slots /\ queue \in [Slots -> Items \cup {NoItem}]
  BY QueueAssumption DEF TypeOK
<1>2. \A i \in 1 .. count : queue[(front + i - 1) % Capacity] \in Items \cup {NoItem}
  BY <1>1, SlotOf
<1>3. Contents \in [1 .. count -> Items \cup {NoItem}]
  BY <1>2 DEF Contents
<1>4. count \in Nat
  BY <1>1
<1> QED
  BY <1>3, <1>4

\* A push appends to the contents: it writes the one slot after them.
LEMMA StoreAppends ==
  ASSUME TypeOK, server # "freed", NEW p \in Producers, PushStore(p)
  PROVE  Contents' = Append(Contents, arg[p])
<1> DEFINE S == Items \cup {NoItem}
<1>1. /\ count \in Nat /\ count < Capacity /\ Capacity \in Nat /\ count' = count + 1
      /\ front \in Slots /\ front' = front /\ back = (front + count) % Capacity
      /\ queue \in [Slots -> S] /\ queue' = [queue EXCEPT ![back] = arg[p]]
      /\ arg[p] \in S
  BY QueueAssumption DEF TypeOK, PushStore
<1>2. Contents \in Seq(S) /\ Len(Contents) = count
  BY ContentsSeq
<1>3. \A i \in 1 .. count : queue'[(front' + i - 1) % Capacity] = Contents[i]
  <2> TAKE i \in 1 .. count
  <2>1. i \in 1 .. Capacity /\ i - 1 \in 0 .. Capacity - 1 /\ count \in 0 .. Capacity - 1 /\ i - 1 # count
    BY <1>1
  <2>2. (front + i - 1) % Capacity = (front + (i - 1)) % Capacity
        /\ (front + i - 1) % Capacity \in Slots
    BY <1>1, <2>1, SlotOf
  <2>3. (front + (i - 1)) % Capacity # (front + count) % Capacity
    BY <1>1, <2>1, Distinct
  <2>4. Contents[i] = queue[(front + i - 1) % Capacity]
    BY DEF Contents
  <2> QED
    BY <1>1, <2>2, <2>3, <2>4
<1>4. queue'[(front' + (count + 1) - 1) % Capacity] = arg[p]
  <2>1. front + (count + 1) - 1 = front + count /\ count \in 0 .. Capacity
    BY <1>1 DEF Slots
  <2>2. back \in Slots
    BY <1>1, <2>1, Geometry
  <2> QED
    BY <1>1, <2>1, <2>2
<1>5. Contents' = [i \in 1 .. count + 1 |-> queue'[(front' + i - 1) % Capacity]]
  BY <1>1 DEF Contents
<1>6. /\ Append(Contents, arg[p]) \in Seq(S) /\ Len(Append(Contents, arg[p])) = count + 1
      /\ \A i \in 1 .. count : Append(Contents, arg[p])[i] = Contents[i]
      /\ Append(Contents, arg[p])[count + 1] = arg[p]
  BY <1>1, <1>2, AppendProperties
<1>7. Append(Contents, arg[p]) \in [1 .. count + 1 -> S]
  BY <1>6, LenProperties
<1>8. \A i \in 1 .. count + 1 : Append(Contents, arg[p])[i] = queue'[(front' + i - 1) % Capacity]
  <2> TAKE i \in 1 .. count + 1
  <2>1. i \in 1 .. count \/ i = count + 1
    BY <1>1
  <2> QED
    BY <1>3, <1>4, <1>6, <2>1
<1> QED
  BY <1>5, <1>7, <1>8

\* A pop takes the oldest item off the contents.
LEMMA TakeIsTail ==
  ASSUME TypeOK, NEW c \in Consumers, PopTake(c)
  PROVE  Contents # <<>> /\ Contents' = Tail(Contents)
<1> DEFINE S == Items \cup {NoItem}
<1>1. /\ count \in 0 .. Capacity /\ count > 0 /\ Capacity \in Nat /\ count' = count - 1
      /\ front \in Slots /\ front' = Advance(front) /\ queue' = queue
  BY QueueAssumption DEF TypeOK, PopTake
<1>2. Contents \in Seq(S) /\ Len(Contents) = count
  BY ContentsSeq
<1>3. Contents # <<>>
  BY <1>1, <1>2
<1>4. /\ Tail(Contents) \in Seq(S) /\ Len(Tail(Contents)) = count - 1
      /\ \A i \in 1 .. count - 1 : Tail(Contents)[i] = Contents[i + 1]
  BY <1>2, <1>3, HeadTailProperties
<1>5. \A i \in 1 .. count - 1 : Contents[i + 1] = queue[(Advance(front) + i - 1) % Capacity]
  <2> TAKE i \in 1 .. count - 1
  <2>1. i + 1 \in 1 .. count /\ i + 1 \in 1 .. Capacity /\ i \in 1 .. Capacity
        /\ i \in 0 .. Capacity /\ i > 0 /\ (i + 1) - 1 = i
    BY <1>1
  <2>2. Contents[i + 1] = queue[(front + (i + 1) - 1) % Capacity]
    BY <2>1 DEF Contents
  <2>3. (front + (i + 1) - 1) % Capacity = (front + ((i + 1) - 1)) % Capacity
    BY <1>1, <2>1, SlotOf
  <2>4. (front + i) % Capacity = (Advance(front) + (i - 1)) % Capacity /\ Advance(front) \in Slots
    BY <1>1, <2>1, Geometry
  <2>5. (Advance(front) + i - 1) % Capacity = (Advance(front) + (i - 1)) % Capacity
    BY <2>1, <2>4, SlotOf
  <2> QED
    BY <2>1, <2>2, <2>3, <2>4, <2>5
<1>6. Contents' = [i \in 1 .. count - 1 |-> queue[(Advance(front) + i - 1) % Capacity]]
  BY <1>1 DEF Contents
<1>7. Tail(Contents) \in [1 .. count - 1 -> S]
  BY <1>4, LenProperties
<1> QED
  BY <1>3, <1>4, <1>5, <1>6, <1>7

\* Besides the invariant: a push that is open has an item of the clients, and after the
\* queue was freed no request thread is left.
Armed == \A p \in Producers : pc[p] # "out" => arg[p] \in Items
Ended == server = "freed" => \A c \in Consumers : pc[c] = "dead"
FifoInv == IInv /\ Armed /\ Ended

\* Only Push opens a push, and only Free, which joins the threads, ends the queue.
LEMMA NextArmedEnded == FifoInv /\ [Next]_vars => Armed' /\ Ended'
<1> SUFFICES ASSUME FifoInv, [Next]_vars PROVE Armed' /\ Ended'
  OBVIOUS
<1>1. TypeOK /\ QuietAfterStop /\ Armed /\ Ended
  BY DEF FifoInv, IInv
<1> USE <1>1, QueueAssumption DEF TypeOK, QuietAfterStop, Threads, ring, conds, env, Armed, Ended
<1>2. ASSUME NEW p \in Producers, NEW v \in Items, Push(p, v) PROVE Armed' /\ Ended'
  BY <1>2 DEF Push
<1>3. ASSUME NEW p \in Producers, Lock(p) \/ PushWait(p) PROVE Armed' /\ Ended'
  BY <1>3 DEF Lock, PushWait
<1>4. ASSUME NEW p \in Producers, PushStore(p) PROVE Armed' /\ Ended'
  <2>1. PICK woken \in Signal(readCond) : ReturnAndWake(p, woken)
    BY <1>4 DEF PushStore
  <2>2. woken \subseteq readCond
    BY DEF Signal
  <2> QED
    BY <1>4, <2>1, <2>2 DEF PushStore, ReturnAndWake
<1>5. ASSUME NEW c \in Consumers, PopTake(c) PROVE Armed' /\ Ended'
  <2>1. PICK woken \in Signal(writeCond) : ReturnAndWake(c, woken)
    BY <1>5 DEF PopTake
  <2>2. woken \subseteq writeCond
    BY DEF Signal
  <2> QED
    BY <1>5, <2>1, <2>2 DEF PopTake, ReturnAndWake
<1>6. ASSUME NEW c \in Consumers, ConsumerStep(c), ~ PopTake(c) PROVE Armed' /\ Ended'
  BY <1>6 DEF ConsumerStep, Pop, Lock, PopWait, CancelInWait, UnwindLock, Cleanup, CancelOutside
<1>7. ASSUME NEW t \in Threads, SpuriousWakeup(t) PROVE Armed' /\ Ended'
  BY <1>7 DEF SpuriousWakeup
<1>8. CASE Stop \/ ShutdownStep
  BY <1>8 DEF Stop, ShutdownStep, Cancel, Free
<1>9. CASE UNCHANGED vars
  BY <1>9 DEF vars
<1> HIDE DEF TypeOK, QuietAfterStop, Armed, Ended
<1> QED
  BY <1>2, <1>3, <1>4, <1>5, <1>6, <1>7, <1>8, <1>9 DEF Next, ProducerStep

\* The invariant that the refinement needs is inductive.
LEMMA NextFifoInv == FifoInv /\ [Next]_vars => FifoInv'
<1>1. IInv /\ [Next]_vars => IInv'
  BY NextTypeOK, NextQuiet, NextNoLostWakeup DEF IInv
<1> QED
  BY <1>1, NextArmedEnded DEF FifoInv

\* Every step of the queue is a step of BoundedFifo, or none.
LEMMA StepRefines == FifoInv /\ [Next]_vars => [Fifo!Next]_(Fifo!fifoVars)
<1> SUFFICES ASSUME FifoInv, [Next]_vars PROVE [Fifo!Next]_(Fifo!fifoVars)
  OBVIOUS
<1> USE QueueAssumption DEF Threads
<1>0. TypeOK /\ QuietAfterStop /\ Armed
  BY DEF FifoInv, IInv
<1>s. ASSUME UNCHANGED Contents, UNCHANGED PushingCalls, UNCHANGED PoppingCalls
      PROVE  UNCHANGED Fifo!fifoVars
  BY <1>s DEF Fifo!fifoVars
<1>r. ASSUME UNCHANGED ring PROVE UNCHANGED Contents
  BY <1>r DEF ring, Contents
<1>1. ASSUME NEW p \in Producers, NEW v \in Items, Push(p, v) PROVE Fifo!CallPush(p, v)
  <2>1. PushingCalls' = PushingCalls \cup {<<p, v>>}
    BY <1>0, <1>1 DEF Push, PushingCalls, TypeOK
  <2>2. \A c \in PushingCalls : c[1] # p
    BY <1>1 DEF Push, PushingCalls
  <2>3. UNCHANGED PoppingCalls
    BY <1>0, <1>1 DEF Push, PoppingCalls, TypeOK
  <2> QED
    BY <1>1, <1>r, <2>1, <2>2, <2>3 DEF Push, Fifo!CallPush
<1>2. ASSUME NEW t \in Threads, Lock(t) PROVE UNCHANGED Fifo!fifoVars
  BY <1>0, <1>2, <1>r, <1>s DEF Lock, PushingCalls, PoppingCalls, TypeOK
<1>3. ASSUME NEW p \in Producers, PushWait(p) PROVE UNCHANGED Fifo!fifoVars
  BY <1>0, <1>3, <1>r, <1>s DEF PushWait, PushingCalls, PoppingCalls, TypeOK
<1>4. ASSUME NEW p \in Producers, PushStore(p) PROVE Fifo!Put(<<p, arg[p]>>)
  <2>1. PICK woken \in Signal(readCond) :
          readCond' = readCond \ woken /\ ReturnAndWake(p, woken)
    BY <1>4 DEF PushStore
  <2>2. woken \subseteq readCond
    BY DEF Signal
  <2>3. server # "freed"
    BY <1>0, <1>4 DEF PushStore, QuietAfterStop
  <2>4. Contents' = Append(Contents, arg[p])
    BY <1>0, <1>4, <2>3, StoreAppends
  <2>5. Len(Contents) < Capacity
    BY <1>0, <1>4, ContentsSeq DEF TypeOK, PushStore
  <2>6. /\ pc[p] # "out" /\ pc'[p] = "out"
        /\ \A q \in Producers : q # p => pc'[q] = pc[q] /\ arg'[q] = arg[q]
        /\ \A c \in Consumers : pc'[c] # pc[c] => pc[c] = "wait" /\ pc'[c] = "relock"
    BY <1>0, <1>4, <2>1, <2>2 DEF PushStore, ReturnAndWake, TypeOK
  <2>8. <<p, arg[p]>> \in PushingCalls
    BY <2>6 DEF PushingCalls
  <2>9. PushingCalls' = PushingCalls \ {<<p, arg[p]>>}
    BY <2>6 DEF PushingCalls
  <2>7. UNCHANGED PoppingCalls
    BY <2>6 DEF PoppingCalls
  <2> QED
    BY <2>4, <2>5, <2>7, <2>8, <2>9 DEF Fifo!Put
<1>5. ASSUME NEW c \in Consumers, Pop(c) PROVE Fifo!CallPop(c)
  BY <1>0, <1>5, <1>r DEF Pop, Fifo!CallPop, PushingCalls, PoppingCalls, TypeOK
<1>6. ASSUME NEW c \in Consumers, PopWait(c) PROVE UNCHANGED Fifo!fifoVars
  BY <1>0, <1>6, <1>r, <1>s DEF PopWait, PushingCalls, PoppingCalls, TypeOK
<1>7. ASSUME NEW c \in Consumers, PopTake(c) PROVE Fifo!Take(c)
  <2>1. PICK woken \in Signal(writeCond) :
          writeCond' = writeCond \ woken /\ ReturnAndWake(c, woken)
    BY <1>7 DEF PopTake
  <2>2. woken \subseteq writeCond
    BY DEF Signal
  <2>3. Contents # <<>> /\ Contents' = Tail(Contents)
    BY <1>0, <1>7, TakeIsTail
  <2>4. /\ pc[c] = "test" /\ pc'[c] = "out" /\ arg' = arg
        /\ \A d \in Consumers : d # c => pc'[d] = pc[d]
        /\ \A p \in Producers : pc'[p] # pc[p] => pc[p] = "wait" /\ pc'[p] = "relock"
    BY <1>0, <1>7, <2>1, <2>2 DEF PopTake, ReturnAndWake, TypeOK
  <2>5. c \in PoppingCalls /\ PoppingCalls' = PoppingCalls \ {c}
    BY <2>4 DEF PoppingCalls
  <2>6. UNCHANGED PushingCalls
    <3>1. \A p \in Producers : pc'[p] # "out" <=> pc[p] # "out"
      BY <2>4
    <3> QED
      BY <2>4, <3>1 DEF PushingCalls
  <2> QED
    BY <2>3, <2>5, <2>6 DEF Fifo!Take
<1>8. ASSUME NEW c \in Consumers, CancelInWait(c) PROVE Fifo!Abandon(c)
  BY <1>0, <1>8, <1>r DEF CancelInWait, Fifo!Abandon, PushingCalls, PoppingCalls, TypeOK
<1>9. ASSUME NEW c \in Consumers, UnwindLock(c) \/ Cleanup(c) \/ CancelOutside(c)
      PROVE  UNCHANGED Fifo!fifoVars
  BY <1>0, <1>9, <1>r, <1>s
     DEF UnwindLock, Cleanup, CancelOutside, PushingCalls, PoppingCalls, TypeOK
<1>10. ASSUME NEW t \in Threads, SpuriousWakeup(t) PROVE UNCHANGED Fifo!fifoVars
  BY <1>0, <1>10, <1>r, <1>s DEF SpuriousWakeup, PushingCalls, PoppingCalls, TypeOK
<1>11. ASSUME Stop \/ \E c \in Consumers : Cancel(c) PROVE UNCHANGED Fifo!fifoVars
  BY <1>11, <1>r, <1>s DEF Stop, Cancel, PushingCalls, PoppingCalls
<1>12. ASSUME Free PROVE Fifo!Destroy
  <2>1. PushingCalls = {} /\ PoppingCalls = {}
    BY <1>0, <1>12 DEF Free, PushingCalls, PoppingCalls, QuietAfterStop
  <2>2. UNCHANGED <<PushingCalls, PoppingCalls>>
    BY <1>12 DEF Free, PushingCalls, PoppingCalls
  <2>3. Contents' = <<>>
    <3>1. count' = 0
      BY <1>12 DEF Free
    <3> QED
      BY <3>1 DEF Contents
  <2> QED
    BY <2>1, <2>2, <2>3 DEF Fifo!Destroy
<1>13. ASSUME UNCHANGED vars PROVE UNCHANGED Fifo!fifoVars
  BY <1>13, <1>r, <1>s DEF vars, PushingCalls, PoppingCalls
<1>14. ASSUME NEW p \in Producers, pc[p] # "out" PROVE <<p, arg[p]>> \in Producers \X Items
  BY <1>0, <1>14 DEF Armed
<1> QED
  BY <1>1, <1>2, <1>3, <1>4, <1>5, <1>6, <1>7, <1>8, <1>9, <1>10, <1>11, <1>12, <1>13, <1>14
     DEF Next, ProducerStep, ConsumerStep, ShutdownStep, PushStore,
         Fifo!Next, Fifo!PutSome, Fifo!TakeSome

\* The queue is a bounded FIFO queue, for any capacity, producers and consumers: each
\* push and pop takes effect once, and items leave in the order in which they came.
THEOREM FifoOrder == Spec => Fifo!Init /\ [][Fifo!Next]_(Fifo!fifoVars)
<1>1. Init => FifoInv
  BY InitIInv DEF FifoInv, Armed, Ended, Init, Threads
<1>2. Init => Fifo!Init
  BY DEF Init, Fifo!Init, Contents, PushingCalls, PoppingCalls, Threads
<1> QED
  BY <1>1, <1>2, NextFifoInv, StepRefines, PTL DEF Spec
=============================================================================
