------------------------- MODULE ThreadQueueProofs -------------------------
(***************************************************************************)
(* Proofs about ThreadQueue, for any number of producers, consumers and    *)
(* closers, any capacity, any bound on the frames and any set of faults.   *)
(***************************************************************************)
EXTENDS ThreadQueue, SequenceTheorems, FiniteSetTheorems, TLAPS

-----------------------------------------------------------------------------
(* Arithmetic of the ring.                                                 *)

\* Below the capacity the modulo changes nothing.
LEMMA ModSmall == ASSUME NEW C \in Nat \ {0}, NEW a \in 0..(C - 1)
                  PROVE  a % C = a
OBVIOUS

\* One turn round the ring takes one capacity off.
LEMMA ModWrap == ASSUME NEW C \in Nat \ {0}, NEW a \in C..(2 * C - 1)
                 PROVE  a % C = a - C
OBVIOUS

\* Advancing an index gives an index.
LEMMA Advance == ASSUME NEW r \in Slots
                 PROVE  /\ (r + 1) % Capacity \in Slots
                        /\ (r + 1) % Capacity = IF r + 1 = Capacity THEN 0 ELSE r + 1
BY CapacityAssumption, ModSmall, ModWrap DEF Slots

\* Going one slot further commutes with adding up to a full turn less one.
LEMMA AddOne == ASSUME NEW r \in Slots, NEW n \in 0..(Capacity - 1)
                PROVE  /\ (((r + n) % Capacity) + 1) % Capacity = (r + n + 1) % Capacity
                       /\ (((r + 1) % Capacity) + n) % Capacity = (r + n + 1) % Capacity
                       /\ (r + n) % Capacity \in Slots
<1> USE CapacityAssumption DEF Slots
<1>1. (r + n) % Capacity = IF r + n < Capacity THEN r + n ELSE r + n - Capacity
  BY ModSmall, ModWrap
<1>2. (r + 1) % Capacity = IF r + 1 < Capacity THEN r + 1 ELSE r + 1 - Capacity
  BY ModSmall, ModWrap
<1>3. (r + n + 1) % Capacity =
         IF r + n + 1 < Capacity THEN r + n + 1 ELSE r + n + 1 - Capacity
  BY ModSmall, ModWrap
<1>4. (((r + n) % Capacity) + 1) % Capacity = (r + n + 1) % Capacity
  <2>1. CASE r + n < Capacity
    BY <1>1, <2>1
  <2>2. CASE r + n >= Capacity
    BY <1>1, <1>3, <2>2, ModSmall
  <2> QED
    BY <2>1, <2>2
<1>5. (((r + 1) % Capacity) + n) % Capacity = (r + n + 1) % Capacity
  <2>1. CASE r + 1 < Capacity
    BY <1>2, <2>1
  <2>2. CASE r + 1 = Capacity
    BY <1>2, <1>3, <2>2, ModSmall
  <2> QED
    BY <2>1, <2>2
<1> QED
  BY <1>1, <1>4, <1>5

\* When the read index moves on by one slot, every other slot gets one closer.
LEMMA Rotate ==
    ASSUME NEW C \in Nat \ {0}, NEW r \in 0..(C - 1), NEW s \in 0..(C - 1),
           NEW q, q = IF r + 1 = C THEN 0 ELSE r + 1
    PROVE  (IF s >= q THEN s - q ELSE s - q + C) =
               IF s = r THEN C - 1 ELSE (IF s >= r THEN s - r ELSE s - r + C) - 1
<1>1. CASE r + 1 = C
  BY <1>1
<1>2. CASE r + 1 # C /\ s = r
  BY <1>2
<1>3. CASE r + 1 # C /\ s # r
  BY <1>3
<1> QED
  BY <1>1, <1>2, <1>3

\* The slot n places behind the read index is the one whose offset is n.
LEMMA OffsetOfPlace ==
    ASSUME read_index \in Slots, NEW n \in 0..(Capacity - 1), NEW s \in Slots
    PROVE  Offset(s) = n <=> s = (read_index + n) % Capacity
<1>1. (read_index + n) % Capacity =
         IF read_index + n < Capacity THEN read_index + n ELSE read_index + n - Capacity
  BY CapacityAssumption, ModSmall, ModWrap DEF Slots
<1> QED
  BY <1>1, CapacityAssumption DEF Offset, Slots

-----------------------------------------------------------------------------
(* Type correctness.                                                       *)

\* The ranges hold in the initial state.
LEMMA TypeInit == Init => TypeOK
<1> SUFFICES ASSUME Init PROVE TypeOK
    OBVIOUS
<1> USE CapacityAssumption, BoundAssumption DEF Init, Slots, Frames, Null
<1>1. items \in [Slots -> Frames \cup {Null}] /\ frame \in [Threads -> Frames \cup {Null}]
  OBVIOUS
<1>2. read_index \in Slots /\ write_index \in Slots /\ count \in 0..Capacity
  OBVIOUS
<1>3. mutex \in {{}} \cup {{t} : t \in Threads}
  OBVIOUS
<1>4. pc \in [Threads -> Pcs] /\ ret \in [Threads -> {"none", "OK", "EOF", "ERROR"}]
  BY DEF Pcs, CloserPcs
<1>5. next_frame \in 1..(MaxFrames + 1) /\ heap \subseteq Frames
  OBVIOUS
<1>6. closed \in BOOLEAN /\ stop \in BOOLEAN /\ inited \in BOOLEAN
  OBVIOUS
<1> QED
  BY <1>1, <1>2, <1>3, <1>4, <1>5, <1>6 DEF TypeOK

\* Every operation keeps every variable in its range; the indices stay below
\* the capacity because of the modulo, the counter because push tests for
\* full and pop for empty.
LEMMA TypeNext == TypeOK /\ [Next]_vars => TypeOK'
<1> SUFFICES ASSUME TypeOK, [Next]_vars PROVE TypeOK'
    OBVIOUS
<1> USE DEF TypeOK, Threads, ring, Pcs, ProducerPcs, ConsumerPcs, CloserPcs,
            Null, Frames, Slots
<1>1. ASSUME NEW p \in Producers, ProducerStep(p) PROVE TypeOK'
  <2>1. CASE PushClone(p)
    BY <2>1, CapacityAssumption, BoundAssumption DEF PushClone, Goto
  <2>2. CASE PushCloneFails(p)
    BY <2>2, CapacityAssumption, BoundAssumption
       DEF PushCloneFails, Goto, Return
  <2>3. CASE PushLock(p)
    BY <2>3, CapacityAssumption, BoundAssumption DEF PushLock, Goto, Acquire
  <2>4. CASE PushLockFails(p)
    BY <2>4, CapacityAssumption, BoundAssumption
       DEF PushLockFails, Goto, Return, Unref
  <2>5. CASE PushWait(p)
    BY <2>5, CapacityAssumption, BoundAssumption DEF PushWait, Goto, Release
  <2>6. CASE PushWaitFails(p)
    BY <2>6, CapacityAssumption, BoundAssumption
       DEF PushWaitFails, Goto, Release, Unref, Return
  <2>7. CASE PushClosed(p)
    BY <2>7, CapacityAssumption, BoundAssumption
       DEF PushClosed, Goto, Release, Unref, Return
  <2>8. CASE PushStore(p)
    BY <2>8, CapacityAssumption, BoundAssumption DEF PushStore, After, Goto
  <2>9. CASE PushSignal(p)
    BY <2>9, CapacityAssumption, BoundAssumption
       DEF PushSignal, Signal, Goto, Release, Return, At
  <2>10. CASE ProducerLeaves(p)
    BY <2>10, CapacityAssumption, BoundAssumption DEF ProducerLeaves, Goto
  <2> QED
    BY <1>1, <2>1, <2>2, <2>3, <2>4, <2>5, <2>6, <2>7, <2>8, <2>9, <2>10 DEF ProducerStep
<1>2. ASSUME NEW c \in Consumers, ConsumerStep(c) PROVE TypeOK'
  <2>1. CASE PopCall(c)
    BY <2>1, CapacityAssumption, BoundAssumption DEF PopCall, Goto
  <2>2. CASE PopLock(c)
    BY <2>2, CapacityAssumption, BoundAssumption DEF PopLock, Goto, Acquire
  <2>3. CASE PopLockFails(c)
    BY <2>3, CapacityAssumption, BoundAssumption
       DEF PopLockFails, Goto, Return
  <2>4. CASE PopWait(c)
    BY <2>4, CapacityAssumption, BoundAssumption DEF PopWait, Goto, Release
  <2>5. CASE PopWaitFails(c)
    BY <2>5, CapacityAssumption, BoundAssumption
       DEF PopWaitFails, Goto, Release, Return
  <2>6. CASE PopEnd(c)
    BY <2>6, CapacityAssumption, BoundAssumption
       DEF PopEnd, Goto, Release, Return
  <2>7. CASE PopTake(c)
    BY <2>7, CapacityAssumption, BoundAssumption DEF PopTake, After, Goto
  <2>8. CASE PopSignal(c)
    BY <2>8, CapacityAssumption, BoundAssumption
       DEF PopSignal, Signal, Goto, Release, Return, At
  <2>9. CASE PopUnref(c)
    BY <2>9, CapacityAssumption, BoundAssumption DEF PopUnref, Unref, Goto
  <2>10. CASE ConsumerLeaves(c)
    BY <2>10, CapacityAssumption, BoundAssumption DEF ConsumerLeaves, Goto
  <2> QED
    BY <1>2, <2>1, <2>2, <2>3, <2>4, <2>5, <2>6, <2>7, <2>8, <2>9, <2>10 DEF ConsumerStep
<1>3. ASSUME NEW t \in Threads, CloseStep(t) PROVE TypeOK'
  <2>1. CASE CloseLock(t)
    BY <2>1, CapacityAssumption, BoundAssumption DEF CloseLock, Goto, Acquire
  <2>2. CASE CloseSet(t)
    BY <2>2, CapacityAssumption, BoundAssumption DEF CloseSet, Goto
  <2>3. CASE CloseBroadcast(t)
    BY <2>3, CapacityAssumption, BoundAssumption
       DEF CloseBroadcast, BroadcastBoth, Release
  <2> QED
    BY <1>3, <2>1, <2>2, <2>3 DEF CloseStep
<1>4. ASSUME NEW t \in Closers, RequestStop(t) PROVE TypeOK'
  BY <1>4, CapacityAssumption, BoundAssumption DEF RequestStop, Goto
<1>5. ASSUME NEW t \in Threads, SpuriousWakeup(t) PROVE TypeOK'
  BY <1>5, CapacityAssumption, BoundAssumption DEF SpuriousWakeup, Goto
<1>6. CASE Deinit
  <2>1. items' \in [Slots -> Frames \cup {Null}]
    BY <1>6 DEF Deinit
  <2>2. read_index' \in Slots /\ write_index' \in Slots /\ count' \in 0..Capacity
    BY <1>6, CapacityAssumption DEF Deinit
  <2>3. heap' \subseteq Frames
    BY <1>6 DEF Deinit
  <2>4. closed' \in BOOLEAN /\ inited' \in BOOLEAN
    BY <1>6 DEF Deinit
  <2> QED
    BY <1>6, <2>1, <2>2, <2>3, <2>4 DEF Deinit
<1>7. CASE UNCHANGED vars
  BY <1>7 DEF vars
<1> QED
  BY <1>1, <1>2, <1>3, <1>4, <1>5, <1>6, <1>7 DEF Next, Terminated

\* Mutual exclusion is kept: whoever enters a critical section took the free
\* mutex, whoever leaves one, cond_wait included, gives it back.
LEMMA LockNext == TypeOK /\ LockInv /\ [Next]_vars => LockInv'
<1> SUFFICES ASSUME TypeOK, LockInv, [Next]_vars PROVE LockInv'
    OBVIOUS
<1> USE DEF TypeOK, LockInv, Threads, ring, Critical, ProducerPcs,
            ConsumerPcs
<1>1. ASSUME NEW p \in Producers, ProducerStep(p) PROVE LockInv'
  <2>1. CASE PushClone(p)
    BY <2>1, ThreadsAssumption DEF PushClone, Goto
  <2>2. CASE PushCloneFails(p)
    BY <2>2, ThreadsAssumption DEF PushCloneFails, Goto, Return
  <2>3. CASE PushLock(p)
    BY <2>3, ThreadsAssumption DEF PushLock, Goto, Acquire
  <2>4. CASE PushLockFails(p)
    BY <2>4, ThreadsAssumption DEF PushLockFails, Goto, Return, Unref
  <2>5. CASE PushWait(p)
    BY <2>5, ThreadsAssumption DEF PushWait, Goto, Release
  <2>6. CASE PushWaitFails(p)
    BY <2>6, ThreadsAssumption DEF PushWaitFails, Goto, Release, Unref, Return
  <2>7. CASE PushClosed(p)
    BY <2>7, ThreadsAssumption DEF PushClosed, Goto, Release, Unref, Return
  <2>8. CASE PushStore(p)
    BY <2>8, ThreadsAssumption DEF PushStore, After, Goto
  <2>9. CASE PushSignal(p)
    BY <2>9, ThreadsAssumption
       DEF PushSignal, Signal, Goto, Release, Return, At
  <2>10. CASE ProducerLeaves(p)
    BY <2>10, ThreadsAssumption DEF ProducerLeaves, Goto
  <2> QED
    BY <1>1, <2>1, <2>2, <2>3, <2>4, <2>5, <2>6, <2>7, <2>8, <2>9, <2>10 DEF ProducerStep
<1>2. ASSUME NEW c \in Consumers, ConsumerStep(c) PROVE LockInv'
  <2>1. CASE PopCall(c)
    BY <2>1, ThreadsAssumption DEF PopCall, Goto
  <2>2. CASE PopLock(c)
    BY <2>2, ThreadsAssumption DEF PopLock, Goto, Acquire
  <2>3. CASE PopLockFails(c)
    BY <2>3, ThreadsAssumption DEF PopLockFails, Goto, Return
  <2>4. CASE PopWait(c)
    BY <2>4, ThreadsAssumption DEF PopWait, Goto, Release
  <2>5. CASE PopWaitFails(c)
    BY <2>5, ThreadsAssumption DEF PopWaitFails, Goto, Release, Return
  <2>6. CASE PopEnd(c)
    BY <2>6, ThreadsAssumption DEF PopEnd, Goto, Release, Return
  <2>7. CASE PopTake(c)
    BY <2>7, ThreadsAssumption DEF PopTake, After, Goto
  <2>8. CASE PopSignal(c)
    BY <2>8, ThreadsAssumption
       DEF PopSignal, Signal, Goto, Release, Return, At
  <2>9. CASE PopUnref(c)
    BY <2>9, ThreadsAssumption DEF PopUnref, Unref, Goto
  <2>10. CASE ConsumerLeaves(c)
    BY <2>10, ThreadsAssumption DEF ConsumerLeaves, Goto
  <2> QED
    BY <1>2, <2>1, <2>2, <2>3, <2>4, <2>5, <2>6, <2>7, <2>8, <2>9, <2>10 DEF ConsumerStep
<1>3. ASSUME NEW t \in Threads, CloseStep(t) PROVE LockInv'
  <2>1. CASE CloseLock(t)
    BY <2>1, ThreadsAssumption DEF CloseLock, Goto, Acquire
  <2>2. CASE CloseSet(t)
    BY <2>2, ThreadsAssumption DEF CloseSet, Goto
  <2>3. CASE CloseBroadcast(t)
    BY <2>3, ThreadsAssumption DEF CloseBroadcast, BroadcastBoth, Release
  <2> QED
    BY <1>3, <2>1, <2>2, <2>3 DEF CloseStep
<1>4. ASSUME NEW t \in Closers, RequestStop(t) PROVE LockInv'
  BY <1>4, ThreadsAssumption DEF RequestStop, Goto
<1>5. ASSUME NEW t \in Threads, SpuriousWakeup(t) PROVE LockInv'
  BY <1>5, ThreadsAssumption DEF SpuriousWakeup, Goto
<1>6. CASE Deinit
  BY <1>6, ThreadsAssumption DEF Deinit
<1>7. CASE UNCHANGED vars
  BY <1>7 DEF vars
<1> QED
  BY <1>1, <1>2, <1>3, <1>4, <1>5, <1>6, <1>7 DEF Next, Terminated

\* A thread that is past the clone or past the take has a frame in hand: the
\* slot a pop reads is inside the run of occupied slots.
LEMMA HoldNext ==
    TypeOK /\ LockInv /\ RingInv /\ HoldInv /\ [Next]_vars => HoldInv'
<1> SUFFICES ASSUME TypeOK, LockInv, RingInv, HoldInv, [Next]_vars PROVE HoldInv'
    OBVIOUS
<1> USE DEF TypeOK, LockInv, HoldInv, Threads, ring, Critical, ProducerPcs,
            ConsumerPcs, Null, Frames, Slots
<1>1. ASSUME NEW p \in Producers, ProducerStep(p) PROVE HoldInv'
  <2>1. CASE PushClone(p)
    BY <2>1, ThreadsAssumption, BoundAssumption DEF PushClone, Goto
  <2>2. CASE PushCloneFails(p)
    BY <2>2, ThreadsAssumption DEF PushCloneFails, Goto, Return
  <2>3. CASE PushLock(p)
    BY <2>3, ThreadsAssumption DEF PushLock, Goto, Acquire
  <2>4. CASE PushLockFails(p)
    BY <2>4, ThreadsAssumption DEF PushLockFails, Goto, Return, Unref
  <2>5. CASE PushWait(p)
    BY <2>5, ThreadsAssumption DEF PushWait, Goto, Release
  <2>6. CASE PushWaitFails(p)
    BY <2>6, ThreadsAssumption DEF PushWaitFails, Goto, Release, Unref, Return
  <2>7. CASE PushClosed(p)
    BY <2>7, ThreadsAssumption DEF PushClosed, Goto, Release, Unref, Return
  <2>8. CASE PushStore(p)
    BY <2>8, ThreadsAssumption DEF PushStore, After, Goto
  <2>9. CASE PushSignal(p)
    BY <2>9, ThreadsAssumption
       DEF PushSignal, Signal, Goto, Release, Return, At
  <2>10. CASE ProducerLeaves(p)
    BY <2>10, ThreadsAssumption DEF ProducerLeaves, Goto
  <2> QED
    BY <1>1, <2>1, <2>2, <2>3, <2>4, <2>5, <2>6, <2>7, <2>8, <2>9, <2>10 DEF ProducerStep
<1>2. ASSUME NEW c \in Consumers, ConsumerStep(c) PROVE HoldInv'
  <2>1. CASE PopCall(c)
    BY <2>1, ThreadsAssumption DEF PopCall, Goto
  <2>2. CASE PopLock(c)
    BY <2>2, ThreadsAssumption DEF PopLock, Goto, Acquire
  <2>3. CASE PopLockFails(c)
    BY <2>3, ThreadsAssumption DEF PopLockFails, Goto, Return
  <2>4. CASE PopWait(c)
    BY <2>4, ThreadsAssumption DEF PopWait, Goto, Release
  <2>5. CASE PopWaitFails(c)
    BY <2>5, ThreadsAssumption DEF PopWaitFails, Goto, Release, Return
  <2>6. CASE PopEnd(c)
    BY <2>6, ThreadsAssumption DEF PopEnd, Goto, Release, Return
  <2>7. CASE PopTake(c)
    BY <2>7, ThreadsAssumption, CapacityAssumption
       DEF PopTake, After, Goto, RingInv, Offset
  <2>8. CASE PopSignal(c)
    BY <2>8, ThreadsAssumption
       DEF PopSignal, Signal, Goto, Release, Return, At
  <2>9. CASE PopUnref(c)
    BY <2>9, ThreadsAssumption DEF PopUnref, Unref, Goto
  <2>10. CASE ConsumerLeaves(c)
    BY <2>10, ThreadsAssumption DEF ConsumerLeaves, Goto
  <2> QED
    BY <1>2, <2>1, <2>2, <2>3, <2>4, <2>5, <2>6, <2>7, <2>8, <2>9, <2>10 DEF ConsumerStep
<1>3. ASSUME NEW t \in Threads, CloseStep(t) PROVE HoldInv'
  <2>1. CASE CloseLock(t)
    BY <2>1, ThreadsAssumption DEF CloseLock, Goto, Acquire
  <2>2. CASE CloseSet(t)
    BY <2>2, ThreadsAssumption DEF CloseSet, Goto
  <2>3. CASE CloseBroadcast(t)
    BY <2>3, ThreadsAssumption DEF CloseBroadcast, BroadcastBoth, Release
  <2> QED
    BY <1>3, <2>1, <2>2, <2>3 DEF CloseStep
<1>4. ASSUME NEW t \in Closers, RequestStop(t) PROVE HoldInv'
  BY <1>4, ThreadsAssumption DEF RequestStop, Goto
<1>5. ASSUME NEW t \in Threads, SpuriousWakeup(t) PROVE HoldInv'
  BY <1>5, ThreadsAssumption DEF SpuriousWakeup, Goto
<1>6. CASE Deinit
  BY <1>6, ThreadsAssumption DEF Deinit
<1>7. CASE UNCHANGED vars
  BY <1>7 DEF vars
<1> QED
  BY <1>1, <1>2, <1>3, <1>4, <1>5, <1>6, <1>7 DEF Next, Terminated

\* The counter and the indices keep describing one run of occupied slots: a
\* store extends it at the write index, a take shortens it at the read index.
LEMMA RingNext ==
    TypeOK /\ LockInv /\ RingInv /\ HoldInv /\ [Next]_vars => RingInv'
<1> SUFFICES ASSUME TypeOK, LockInv, RingInv, HoldInv, [Next]_vars PROVE RingInv'
    OBVIOUS
<1> USE DEF TypeOK, LockInv, RingInv, Place, Threads, ring, Null
<1>1. ASSUME NEW p \in Producers, ProducerStep(p) PROVE RingInv'
  <2>1. CASE PushClone(p)
    BY <2>1 DEF PushClone, Goto, Offset
  <2>2. CASE PushCloneFails(p)
    BY <2>2 DEF PushCloneFails, Goto, Return, Offset
  <2>3. CASE PushLock(p)
    BY <2>3 DEF PushLock, Goto, Acquire, Offset
  <2>4. CASE PushLockFails(p)
    BY <2>4 DEF PushLockFails, Goto, Return, Unref, Offset
  <2>5. CASE PushWait(p)
    BY <2>5 DEF PushWait, Goto, Release, Offset
  <2>6. CASE PushWaitFails(p)
    BY <2>6 DEF PushWaitFails, Goto, Release, Unref, Return, Offset
  <2>7. CASE PushClosed(p)
    BY <2>7 DEF PushClosed, Goto, Release, Unref, Return, Offset
  <2>8. CASE PushStore(p)
    <3> USE <2>8 DEF PushStore, After, Goto
    <3>1. frame[p] # Null
      BY DEF HoldInv
    <3>2. count \in 0..(Capacity - 1)
      BY CapacityAssumption
    <3>3. write_index' = (read_index' + count') % Capacity
      <4>1. write_index' = (read_index + count + 1) % Capacity
        BY <3>2, AddOne
      <4>2. read_index + (count + 1) = read_index + count + 1
        BY <3>2 DEF Slots
      <4> QED
        BY <4>1, <4>2
    <3>4. \A s \in Slots : Offset(s)' = Offset(s)
      BY DEF Offset
    <3>5. \A s \in Slots : Offset(s) = count <=> s = write_index
      BY <3>2, OffsetOfPlace
    <3>6. \A s \in Slots : Offset(s) \in 0..(Capacity - 1)
      BY CapacityAssumption DEF Offset, Slots
    <3>7. \A s \in Slots : items'[s] # Null <=> Offset(s) <= count
      BY <3>1, <3>2, <3>5, <3>6
    <3> QED
      BY <3>2, <3>3, <3>4, <3>6, <3>7
  <2>9. CASE PushSignal(p)
    BY <2>9 DEF PushSignal, Signal, Goto, Release, Return, At, Offset
  <2>10. CASE ProducerLeaves(p)
    BY <2>10 DEF ProducerLeaves, Goto, Offset
  <2> QED
    BY <1>1, <2>1, <2>2, <2>3, <2>4, <2>5, <2>6, <2>7, <2>8, <2>9, <2>10 DEF ProducerStep
<1>2. ASSUME NEW c \in Consumers, ConsumerStep(c) PROVE RingInv'
  <2>1. CASE PopCall(c)
    BY <2>1 DEF PopCall, Goto, Offset
  <2>2. CASE PopLock(c)
    BY <2>2 DEF PopLock, Goto, Acquire, Offset
  <2>3. CASE PopLockFails(c)
    BY <2>3 DEF PopLockFails, Goto, Return, Offset
  <2>4. CASE PopWait(c)
    BY <2>4 DEF PopWait, Goto, Release, Offset
  <2>5. CASE PopWaitFails(c)
    BY <2>5 DEF PopWaitFails, Goto, Release, Return, Offset
  <2>6. CASE PopEnd(c)
    BY <2>6 DEF PopEnd, Goto, Release, Return, Offset
  <2>7. CASE PopTake(c)
    <3>1. count \in 1..Capacity /\ count' = count - 1
      BY <2>7, CapacityAssumption DEF PopTake, After
    <3>2. read_index' = (read_index + 1) % Capacity
      BY <2>7 DEF PopTake, After
    <3>5. read_index' = IF read_index + 1 = Capacity THEN 0 ELSE read_index + 1
      BY <3>2, Advance
    <3>3. write_index' = (read_index' + count') % Capacity
      <4>1. count - 1 \in 0..(Capacity - 1)
        BY <3>1, CapacityAssumption
      <4>2. (read_index' + (count - 1)) % Capacity = (read_index + (count - 1) + 1) % Capacity
        BY <3>2, <4>1, AddOne
      <4>3. read_index + (count - 1) + 1 = read_index + count
        BY <3>1 DEF Slots
      <4> QED
        BY <2>7, <3>1, <4>2, <4>3 DEF PopTake, After
    <3>4. ASSUME NEW s \in Slots PROVE items'[s] # Null <=> Offset(s)' < count'
      <4>1. items'[s] = IF s = read_index THEN Null ELSE items[s]
        BY <2>7 DEF PopTake, After
      <4>2. Offset(s)' = IF s = read_index THEN Capacity - 1 ELSE Offset(s) - 1
        BY <3>5, Rotate, CapacityAssumption DEF Offset, Slots
      <4>3. Offset(s) \in 0..(Capacity - 1)
        BY CapacityAssumption DEF Offset, Slots
      <4> QED
        BY <3>1, <4>1, <4>2, <4>3, CapacityAssumption
    <3> QED
      BY <3>3, <3>4
  <2>8. CASE PopSignal(c)
    BY <2>8 DEF PopSignal, Signal, Goto, Release, Return, At, Offset
  <2>9. CASE PopUnref(c)
    BY <2>9 DEF PopUnref, Unref, Goto, Offset
  <2>10. CASE ConsumerLeaves(c)
    BY <2>10 DEF ConsumerLeaves, Goto, Offset
  <2> QED
    BY <1>2, <2>1, <2>2, <2>3, <2>4, <2>5, <2>6, <2>7, <2>8, <2>9, <2>10 DEF ConsumerStep
<1>3. ASSUME NEW t \in Threads, CloseStep(t) PROVE RingInv'
  <2>1. CASE CloseLock(t)
    BY <2>1 DEF CloseLock, Goto, Acquire, Offset
  <2>2. CASE CloseSet(t)
    BY <2>2 DEF CloseSet, Goto, Offset
  <2>3. CASE CloseBroadcast(t)
    BY <2>3 DEF CloseBroadcast, BroadcastBoth, Release, Offset
  <2> QED
    BY <1>3, <2>1, <2>2, <2>3 DEF CloseStep
<1>4. ASSUME NEW t \in Closers, RequestStop(t) PROVE RingInv'
  BY <1>4 DEF RequestStop, Goto, Offset
<1>5. ASSUME NEW t \in Threads, SpuriousWakeup(t) PROVE RingInv'
  BY <1>5 DEF SpuriousWakeup, Goto, Offset
<1>6. CASE Deinit
  <2>1. \A s \in Slots : Offset(s)' \in Nat
    BY <1>6, CapacityAssumption DEF Deinit, Offset, Slots
  <2>2. write_index' = (read_index' + count') % Capacity
    BY <1>6, CapacityAssumption, ModSmall DEF Deinit
  <2> QED
    BY <1>6, <2>1, <2>2 DEF Deinit
<1>7. CASE UNCHANGED vars
  BY <1>7 DEF vars, Offset
<1> QED
  BY <1>1, <1>2, <1>3, <1>4, <1>5, <1>6, <1>7 DEF Next, Terminated

\* No buffer gets a second owner: a clone is a fresh buffer, a store moves it
\* from the thread to the ring, a take moves it back and zeroes the slot.
LEMMA OwnedNext ==
    TypeOK /\ LockInv /\ RingInv /\ HoldInv /\ OwnedOnce /\ [Next]_vars
    => OwnedOnce'
<1> SUFFICES ASSUME TypeOK, LockInv, RingInv, HoldInv, OwnedOnce, [Next]_vars PROVE OwnedOnce'
    OBVIOUS
<1> USE DEF TypeOK, LockInv, HoldInv, OwnedOnce, Owned, Threads, ring, Null,
            Frames, Slots
<1>1. ASSUME NEW p \in Producers, ProducerStep(p) PROVE OwnedOnce'
  <2>1. CASE PushClone(p)
    <3> USE <2>1 DEF PushClone, Goto
    <3>1. next_frame \notin heap
      OBVIOUS
    <3>2. \A s \in Slots : items[s] # Null => items[s] \in heap
      OBVIOUS
    <3>3. \A t \in Threads : frame[t] # Null => frame[t] \in heap
      OBVIOUS
    <3>4. Owned' \subseteq heap' /\ \A f \in heap' : f < next_frame'
      BY <3>2, <3>3
    <3> QED
      BY <3>1, <3>2, <3>3, <3>4
  <2>2. CASE PushCloneFails(p)
    BY <2>2 DEF PushCloneFails, Goto, Return
  <2>3. CASE PushLock(p)
    BY <2>3 DEF PushLock, Goto, Acquire
  <2>4. CASE PushLockFails(p)
    BY <2>4 DEF PushLockFails, Goto, Return, Unref
  <2>5. CASE PushWait(p)
    BY <2>5 DEF PushWait, Goto, Release
  <2>6. CASE PushWaitFails(p)
    BY <2>6 DEF PushWaitFails, Goto, Release, Unref, Return
  <2>7. CASE PushClosed(p)
    BY <2>7 DEF PushClosed, Goto, Release, Unref, Return
  <2>8. CASE PushStore(p)
    BY <2>8 DEF PushStore, After, Goto
  <2>9. CASE PushSignal(p)
    BY <2>9 DEF PushSignal, Signal, Goto, Release, Return, At
  <2>10. CASE ProducerLeaves(p)
    BY <2>10 DEF ProducerLeaves, Goto
  <2> QED
    BY <1>1, <2>1, <2>2, <2>3, <2>4, <2>5, <2>6, <2>7, <2>8, <2>9, <2>10 DEF ProducerStep
<1>2. ASSUME NEW c \in Consumers, ConsumerStep(c) PROVE OwnedOnce'
  <2>1. CASE PopCall(c)
    BY <2>1 DEF PopCall, Goto
  <2>2. CASE PopLock(c)
    BY <2>2 DEF PopLock, Goto, Acquire
  <2>3. CASE PopLockFails(c)
    BY <2>3 DEF PopLockFails, Goto, Return
  <2>4. CASE PopWait(c)
    BY <2>4 DEF PopWait, Goto, Release
  <2>5. CASE PopWaitFails(c)
    BY <2>5 DEF PopWaitFails, Goto, Release, Return
  <2>6. CASE PopEnd(c)
    BY <2>6 DEF PopEnd, Goto, Release, Return
  <2>7. CASE PopTake(c)
    BY <2>7 DEF PopTake, After, Goto
  <2>8. CASE PopSignal(c)
    BY <2>8 DEF PopSignal, Signal, Goto, Release, Return, At
  <2>9. CASE PopUnref(c)
    BY <2>9 DEF PopUnref, Unref, Goto
  <2>10. CASE ConsumerLeaves(c)
    BY <2>10 DEF ConsumerLeaves, Goto
  <2> QED
    BY <1>2, <2>1, <2>2, <2>3, <2>4, <2>5, <2>6, <2>7, <2>8, <2>9, <2>10 DEF ConsumerStep
<1>3. ASSUME NEW t \in Threads, CloseStep(t) PROVE OwnedOnce'
  <2>1. CASE CloseLock(t)
    BY <2>1 DEF CloseLock, Goto, Acquire
  <2>2. CASE CloseSet(t)
    BY <2>2 DEF CloseSet, Goto
  <2>3. CASE CloseBroadcast(t)
    BY <2>3 DEF CloseBroadcast, BroadcastBoth, Release
  <2> QED
    BY <1>3, <2>1, <2>2, <2>3 DEF CloseStep
<1>4. ASSUME NEW t \in Closers, RequestStop(t) PROVE OwnedOnce'
  BY <1>4 DEF RequestStop, Goto
<1>5. ASSUME NEW t \in Threads, SpuriousWakeup(t) PROVE OwnedOnce'
  BY <1>5 DEF SpuriousWakeup, Goto
<1>6. CASE Deinit
  BY <1>6 DEF Deinit
<1>7. CASE UNCHANGED vars
  BY <1>7 DEF vars
<1> QED
  BY <1>1, <1>2, <1>3, <1>4, <1>5, <1>6, <1>7 DEF Next, Terminated

\* Once a popper was told IPC_EOF the queue stays closed and empty, because
\* no store happens in a closed queue.
LEMMA ShutNext == TypeOK /\ LockInv /\ ShutInv /\ [Next]_vars => ShutInv'
<1> SUFFICES ASSUME TypeOK, LockInv, ShutInv, [Next]_vars PROVE ShutInv'
    OBVIOUS
<1> USE DEF TypeOK, LockInv, ShutInv, Threads, ring, Critical
<1>1. ASSUME NEW p \in Producers, ProducerStep(p) PROVE ShutInv'
  <2>1. CASE PushClone(p)
    BY <2>1, ThreadsAssumption DEF PushClone, Goto
  <2>2. CASE PushCloneFails(p)
    BY <2>2, ThreadsAssumption DEF PushCloneFails, Goto, Return
  <2>3. CASE PushLock(p)
    BY <2>3, ThreadsAssumption DEF PushLock, Goto, Acquire
  <2>4. CASE PushLockFails(p)
    BY <2>4, ThreadsAssumption DEF PushLockFails, Goto, Return, Unref
  <2>5. CASE PushWait(p)
    BY <2>5, ThreadsAssumption DEF PushWait, Goto, Release
  <2>6. CASE PushWaitFails(p)
    BY <2>6, ThreadsAssumption DEF PushWaitFails, Goto, Release, Unref, Return
  <2>7. CASE PushClosed(p)
    BY <2>7, ThreadsAssumption DEF PushClosed, Goto, Release, Unref, Return
  <2>8. CASE PushStore(p)
    BY <2>8, ThreadsAssumption DEF PushStore, After, Goto
  <2>9. CASE PushSignal(p)
    BY <2>9, ThreadsAssumption
       DEF PushSignal, Signal, Goto, Release, Return, At
  <2>10. CASE ProducerLeaves(p)
    BY <2>10, ThreadsAssumption DEF ProducerLeaves, Goto
  <2> QED
    BY <1>1, <2>1, <2>2, <2>3, <2>4, <2>5, <2>6, <2>7, <2>8, <2>9, <2>10 DEF ProducerStep
<1>2. ASSUME NEW c \in Consumers, ConsumerStep(c) PROVE ShutInv'
  <2>1. CASE PopCall(c)
    BY <2>1, ThreadsAssumption DEF PopCall, Goto
  <2>2. CASE PopLock(c)
    BY <2>2, ThreadsAssumption DEF PopLock, Goto, Acquire
  <2>3. CASE PopLockFails(c)
    BY <2>3, ThreadsAssumption DEF PopLockFails, Goto, Return
  <2>4. CASE PopWait(c)
    BY <2>4, ThreadsAssumption DEF PopWait, Goto, Release
  <2>5. CASE PopWaitFails(c)
    BY <2>5, ThreadsAssumption DEF PopWaitFails, Goto, Release, Return
  <2>6. CASE PopEnd(c)
    BY <2>6, ThreadsAssumption DEF PopEnd, Goto, Release, Return
  <2>7. CASE PopTake(c)
    BY <2>7, ThreadsAssumption DEF PopTake, After, Goto
  <2>8. CASE PopSignal(c)
    BY <2>8, ThreadsAssumption
       DEF PopSignal, Signal, Goto, Release, Return, At
  <2>9. CASE PopUnref(c)
    BY <2>9, ThreadsAssumption DEF PopUnref, Unref, Goto
  <2>10. CASE ConsumerLeaves(c)
    BY <2>10, ThreadsAssumption DEF ConsumerLeaves, Goto
  <2> QED
    BY <1>2, <2>1, <2>2, <2>3, <2>4, <2>5, <2>6, <2>7, <2>8, <2>9, <2>10 DEF ConsumerStep
<1>3. ASSUME NEW t \in Threads, CloseStep(t) PROVE ShutInv'
  <2>1. CASE CloseLock(t)
    BY <2>1, ThreadsAssumption DEF CloseLock, Goto, Acquire
  <2>2. CASE CloseSet(t)
    BY <2>2, ThreadsAssumption DEF CloseSet, Goto
  <2>3. CASE CloseBroadcast(t)
    BY <2>3, ThreadsAssumption DEF CloseBroadcast, BroadcastBoth, Release
  <2> QED
    BY <1>3, <2>1, <2>2, <2>3 DEF CloseStep
<1>4. ASSUME NEW t \in Closers, RequestStop(t) PROVE ShutInv'
  BY <1>4, ThreadsAssumption DEF RequestStop, Goto
<1>5. ASSUME NEW t \in Threads, SpuriousWakeup(t) PROVE ShutInv'
  BY <1>5, ThreadsAssumption DEF SpuriousWakeup, Goto
<1>6. CASE Deinit
  BY <1>6, ThreadsAssumption DEF Deinit
<1>7. CASE UNCHANGED vars
  BY <1>7 DEF vars
<1> QED
  BY <1>1, <1>2, <1>3, <1>4, <1>5, <1>6, <1>7 DEF Next, Terminated

\* Every buffer allocated and not yet freed stays reachable from the ring or
\* from a thread, also on the error paths.
LEMMA LeakNext ==
    TypeOK /\ LockInv /\ RingInv /\ HoldInv /\ OwnedOnce /\ NoLeak
        /\ [Next]_vars => NoLeak'
<1> SUFFICES ASSUME TypeOK, LockInv, RingInv, HoldInv, OwnedOnce, NoLeak, [Next]_vars PROVE NoLeak'
    OBVIOUS
<1> USE DEF TypeOK, LockInv, HoldInv, OwnedOnce, NoLeak, Owned, Threads,
            ring, Null, Frames, Slots
<1>1. ASSUME NEW p \in Producers, ProducerStep(p) PROVE NoLeak'
  <2>1. CASE PushClone(p)
    BY <2>1 DEF PushClone, Goto
  <2>2. CASE PushCloneFails(p)
    BY <2>2 DEF PushCloneFails, Goto, Return
  <2>3. CASE PushLock(p)
    BY <2>3 DEF PushLock, Goto, Acquire
  <2>4. CASE PushLockFails(p)
    BY <2>4 DEF PushLockFails, Goto, Return, Unref
  <2>5. CASE PushWait(p)
    BY <2>5 DEF PushWait, Goto, Release
  <2>6. CASE PushWaitFails(p)
    BY <2>6 DEF PushWaitFails, Goto, Release, Unref, Return
  <2>7. CASE PushClosed(p)
    BY <2>7 DEF PushClosed, Goto, Release, Unref, Return
  <2>8. CASE PushStore(p)
    <3>1. items[write_index] = Null
      <4>1. count \in 0..(Capacity - 1)
        BY <2>8, CapacityAssumption DEF PushStore, After
      <4>2. Offset(write_index) = count
        BY <4>1, OffsetOfPlace DEF RingInv, Place
      <4> QED
        BY <4>1, <4>2 DEF RingInv
    <3>2. ASSUME NEW f \in heap' PROVE f \in Owned'
      <4>1. CASE \E s \in Slots : items[s] = f
        BY <2>8, <3>1, <4>1 DEF PushStore, After
      <4>2. CASE \E t \in Threads : frame[t] = f
        BY <2>8, <4>2 DEF PushStore, After
      <4> QED
        BY <2>8, <4>1, <4>2 DEF PushStore, After
    <3> QED
      BY <3>2
  <2>9. CASE PushSignal(p)
    BY <2>9 DEF PushSignal, Signal, Goto, Release, Return, At
  <2>10. CASE ProducerLeaves(p)
    BY <2>10 DEF ProducerLeaves, Goto
  <2> QED
    BY <1>1, <2>1, <2>2, <2>3, <2>4, <2>5, <2>6, <2>7, <2>8, <2>9, <2>10 DEF ProducerStep
<1>2. ASSUME NEW c \in Consumers, ConsumerStep(c) PROVE NoLeak'
  <2>1. CASE PopCall(c)
    BY <2>1 DEF PopCall, Goto
  <2>2. CASE PopLock(c)
    BY <2>2 DEF PopLock, Goto, Acquire
  <2>3. CASE PopLockFails(c)
    BY <2>3 DEF PopLockFails, Goto, Return
  <2>4. CASE PopWait(c)
    BY <2>4 DEF PopWait, Goto, Release
  <2>5. CASE PopWaitFails(c)
    BY <2>5 DEF PopWaitFails, Goto, Release, Return
  <2>6. CASE PopEnd(c)
    BY <2>6 DEF PopEnd, Goto, Release, Return
  <2>7. CASE PopTake(c)
    BY <2>7 DEF PopTake, After, Goto
  <2>8. CASE PopSignal(c)
    BY <2>8 DEF PopSignal, Signal, Goto, Release, Return, At
  <2>9. CASE PopUnref(c)
    <3>1. ASSUME NEW f \in heap' PROVE f \in Owned'
      <4>1. CASE \E s \in Slots : items[s] = f
        BY <2>9, <4>1 DEF PopUnref, Unref
      <4>2. CASE \E t \in Threads : frame[t] = f
        BY <2>9, <4>2 DEF PopUnref, Unref
      <4> QED
        BY <2>9, <4>1, <4>2 DEF PopUnref, Unref
    <3> QED
      BY <3>1
  <2>10. CASE ConsumerLeaves(c)
    BY <2>10 DEF ConsumerLeaves, Goto
  <2> QED
    BY <1>2, <2>1, <2>2, <2>3, <2>4, <2>5, <2>6, <2>7, <2>8, <2>9, <2>10 DEF ConsumerStep
<1>3. ASSUME NEW t \in Threads, CloseStep(t) PROVE NoLeak'
  <2>1. CASE CloseLock(t)
    BY <2>1 DEF CloseLock, Goto, Acquire
  <2>2. CASE CloseSet(t)
    BY <2>2 DEF CloseSet, Goto
  <2>3. CASE CloseBroadcast(t)
    BY <2>3 DEF CloseBroadcast, BroadcastBoth, Release
  <2> QED
    BY <1>3, <2>1, <2>2, <2>3 DEF CloseStep
<1>4. ASSUME NEW t \in Closers, RequestStop(t) PROVE NoLeak'
  BY <1>4 DEF RequestStop, Goto
<1>5. ASSUME NEW t \in Threads, SpuriousWakeup(t) PROVE NoLeak'
  BY <1>5 DEF SpuriousWakeup, Goto
<1>6. CASE Deinit
  BY <1>6 DEF Deinit
<1>7. CASE UNCHANGED vars
  BY <1>7 DEF vars
<1> QED
  BY <1>1, <1>2, <1>3, <1>4, <1>5, <1>6, <1>7 DEF Next, Terminated

-----------------------------------------------------------------------------
(* The inductive invariant.                                                *)

IInv == TypeOK /\ QueueInv /\ NoLeak

\* The inductive invariant holds in the initial state.
LEMMA IInvInit == Init => IInv
<1> SUFFICES ASSUME Init PROVE IInv
    OBVIOUS
<1> USE DEF Init
<1>1. TypeOK
  BY TypeInit
<1>2. LockInv
  BY DEF LockInv, Critical, ProducerPcs, ConsumerPcs
<1>3. RingInv
  <2>1. write_index = Place(count)
    BY CapacityAssumption, ModSmall DEF Place
  <2>2. \A s \in Slots : Offset(s) \in Nat /\ items[s] = Null
    BY CapacityAssumption DEF Offset, Slots
  <2> QED
    BY <2>1, <2>2 DEF RingInv
<1>4. HoldInv
  BY DEF HoldInv
<1>5. OwnedOnce /\ NoLeak
  BY DEF OwnedOnce, NoLeak, Owned, Null
<1>6. ShutInv
  BY ThreadsAssumption DEF ShutInv, Threads
<1> QED
  BY <1>1, <1>2, <1>3, <1>4, <1>5, <1>6 DEF IInv, QueueInv

\* The inductive invariant is kept by every operation.
LEMMA IInvNext == IInv /\ [Next]_vars => IInv'
BY TypeNext, LockNext, RingNext, HoldNext, OwnedNext, ShutNext, LeakNext
   DEF IInv, QueueInv

\* The inductive invariant holds in every reachable state.
LEMMA Invariance == Spec => []IInv
BY IInvInit, IInvNext, PTL DEF Spec

\* Every variable keeps its type, the indices stay inside the ring and the
\* counter between zero and the capacity.
THEOREM TypeCorrect == Spec => []TypeOK
BY Invariance, PTL DEF IInv

\* At every step of every interleaving the mutex excludes, the ring describes
\* what it holds, every buffer has one owner, and IPC_EOF is final.
THEOREM QueueCorrect == Spec => []QueueInv
BY Invariance, PTL DEF IInv

\* No path through push, pop, close or teardown loses a buffer.
THEOREM LeakFree == Spec => []NoLeak
BY Invariance, PTL DEF IInv

-----------------------------------------------------------------------------
(* The queue implements the bounded channel.                               *)

\* A place behind the read index is a slot of the ring.
LEMMA PlaceType ==
    ASSUME TypeOK, RingInv, NEW n \in 0..(Capacity - 1)
    PROVE  Place(n) \in Slots /\ (items[Place(n)] # Null <=> n < count)
<1>1. Place(n) \in Slots
  BY AddOne DEF TypeOK, Place
<1>2. Offset(Place(n)) = n
  BY <1>1, OffsetOfPlace DEF TypeOK, Place
<1> QED
  BY <1>1, <1>2 DEF RingInv

\* The places behind the read index are distinct slots.
LEMMA PlaceInjective ==
    ASSUME TypeOK, NEW m \in 0..(Capacity - 1), NEW n \in 0..(Capacity - 1), m # n
    PROVE  Place(m) # Place(n)
<1>1. Place(m) \in Slots
  BY AddOne DEF TypeOK, Place
<1>2. Offset(Place(m)) = m
  BY <1>1, OffsetOfPlace DEF TypeOK, Place
<1> QED
  BY <1>1, <1>2, OffsetOfPlace DEF TypeOK, Place

ContentsOK ==
    /\ Contents \in Seq(Frames)
    /\ Len(Contents) = count
    /\ \A i \in 1..count : Contents[i] = items[Place(i - 1)]

\* What the ring holds is a sequence of frames no longer than the capacity.
LEMMA ContentsType == TypeOK /\ RingInv => ContentsOK
<1> SUFFICES ASSUME TypeOK, RingInv PROVE ContentsOK
    OBVIOUS
<1>1. count \in Nat /\ count <= Capacity
  BY CapacityAssumption DEF TypeOK
<1>2. ASSUME NEW i \in 1..count PROVE items[Place(i - 1)] \in Frames
  <2>1. i - 1 \in 0..(Capacity - 1) /\ i - 1 < count
    BY <1>1, CapacityAssumption
  <2> QED
    BY <2>1, PlaceType DEF TypeOK
<1>3. Contents \in [1..count -> Frames]
  BY <1>2 DEF Contents
<1>4. Contents \in Seq(Frames)
  BY <1>1, <1>3, SeqDef
<1>5. Len(Contents) = count
  BY <1>1, <1>3, <1>4, LenProperties
<1> QED
  BY <1>4, <1>5 DEF Contents, ContentsOK

\* The same after a step.
LEMMA ContentsTypeNext == TypeOK' /\ RingInv' => ContentsOK'
BY ContentsType, PTL

\* A store appends to the contents.
LEMMA StoreAppends ==
    ASSUME IInv, IInv', NEW p \in Producers, PushStore(p)
    PROVE  Contents' = Append(Contents, frame[p])
<1> USE DEF IInv, QueueInv
<1>1. frame[p] \in Frames
  BY DEF TypeOK, HoldInv, PushStore, After, Threads
<1>2. count \in 0..(Capacity - 1) /\ count' = count + 1
  BY CapacityAssumption DEF TypeOK, PushStore, After
<1>3. /\ Contents \in Seq(Frames) /\ Len(Contents) = count
      /\ \A i \in 1..count : Contents[i] = items[Place(i - 1)]
  BY ContentsType DEF ContentsOK
<1>4. /\ Contents' \in Seq(Frames) /\ Len(Contents') = count'
      /\ \A i \in 1..count' : Contents'[i] = items'[Place(i - 1)']
  BY ContentsTypeNext DEF ContentsOK
<1>5. /\ Append(Contents, frame[p]) \in Seq(Frames)
      /\ Len(Append(Contents, frame[p])) = count + 1
      /\ \A i \in 1..count : Append(Contents, frame[p])[i] = Contents[i]
      /\ Append(Contents, frame[p])[count + 1] = frame[p]
  BY <1>1, <1>2, <1>3
<1>6. ASSUME NEW i \in 1..(count + 1)
      PROVE  Contents'[i] = Append(Contents, frame[p])[i]
  <2>1. i - 1 \in 0..(Capacity - 1) /\ Place(i - 1)' = Place(i - 1)
    BY <1>2, CapacityAssumption DEF PushStore, After, Place
  <2>2. Contents'[i] = items'[Place(i - 1)]
    BY <1>2, <1>4, <2>1
  <2>3. Place(i - 1) \in Slots /\ write_index = Place(count)
    BY <2>1, PlaceType DEF RingInv
  <2>4. CASE i = count + 1
    BY <1>2, <1>5, <2>2, <2>3, <2>4 DEF PushStore, After, TypeOK
  <2>5. CASE i # count + 1
    <3>1. i \in 1..count /\ i - 1 # count
      BY <1>2, <2>5
    <3>2. Place(i - 1) # write_index
      BY <1>2, <2>1, <2>3, <3>1, PlaceInjective
    <3> QED
      BY <1>3, <1>5, <2>2, <2>3, <3>1, <3>2 DEF PushStore, After, TypeOK
  <2> QED
    BY <2>4, <2>5
<1> QED
  BY <1>2, <1>4, <1>5, <1>6, SeqEqual

\* A take drops the oldest frame, which is the one it hands out.
LEMMA TakeDropsOldest ==
    ASSUME IInv, IInv', NEW c \in Consumers, PopTake(c)
    PROVE  Contents # <<>> /\ Contents' = Tail(Contents)
<1> USE DEF IInv, QueueInv
<1>1. count \in 1..Capacity /\ count' = count - 1
  BY CapacityAssumption DEF TypeOK, PopTake, After
<1>2. /\ Contents \in Seq(Frames) /\ Len(Contents) = count
      /\ \A i \in 1..count : Contents[i] = items[Place(i - 1)]
  BY ContentsType DEF ContentsOK
<1>3. /\ Contents' \in Seq(Frames) /\ Len(Contents') = count'
      /\ \A i \in 1..count' : Contents'[i] = items'[Place(i - 1)']
  BY ContentsTypeNext DEF ContentsOK
<1>4. Contents # <<>>
  BY <1>1, <1>2, EmptySeq, CapacityAssumption
<1>5. /\ Tail(Contents) \in Seq(Frames)
      /\ Len(Tail(Contents)) = count - 1
      /\ \A i \in 1..(count - 1) : Tail(Contents)[i] = Contents[i + 1]
  BY <1>2, <1>4, HeadTailProperties
<1>6. ASSUME NEW i \in 1..(count - 1)
      PROVE  Contents'[i] = Tail(Contents)[i]
  <2>1. i \in 1..(Capacity - 1) /\ i - 1 \in 0..(Capacity - 1) /\ i + 1 \in 1..count
    BY <1>1, CapacityAssumption
  <2>2. Place(i - 1)' = Place(i)
    <3>1. (((read_index + 1) % Capacity) + (i - 1)) % Capacity
             = (read_index + (i - 1) + 1) % Capacity
      BY <2>1, AddOne DEF TypeOK
    <3>2. read_index + (i - 1) + 1 = read_index + i
      BY <2>1, CapacityAssumption DEF TypeOK, Slots
    <3> QED
      BY <3>1, <3>2 DEF PopTake, After, Place
  <2>3. Contents[i + 1] = items[Place(i)]
    <3>1. (i + 1) - 1 = i
      BY <2>1
    <3> QED
      BY <1>2, <2>1, <3>1
  <2>4. Place(i) # read_index /\ Place(i) \in Slots
    <3>1. Place(0) = read_index
      <4>1. read_index + 0 = read_index /\ read_index \in 0..(Capacity - 1)
        BY CapacityAssumption DEF TypeOK, Slots
      <4> QED
        BY <4>1, CapacityAssumption, ModSmall DEF Place
    <3>2. 0 \in 0..(Capacity - 1) /\ i \in 0..(Capacity - 1) /\ i # 0
      BY <2>1, CapacityAssumption
    <3> QED
      BY <3>1, <3>2, PlaceInjective, PlaceType
  <2>5. items'[Place(i)] = items[Place(i)]
    BY <2>4 DEF PopTake, After, TypeOK
  <2> QED
    BY <1>1, <1>3, <1>5, <2>2, <2>3, <2>5
<1> QED
  BY <1>1, <1>3, <1>4, <1>5, <1>6, SeqEqual

\* The initial state of the ring is that of an empty, open channel.
LEMMA ChannelInit == Init => Channel!Init
<1> SUFFICES ASSUME Init PROVE Channel!Init
    OBVIOUS
<1>1. Contents = <<>>
  BY DEF Init, Contents
<1>2. Refuses = FALSE /\ EndTold = FALSE
  BY DEF Init, Refuses, EndTold, Threads
<1> QED
  BY <1>1, <1>2 DEF Channel!Init

\* A step that changes neither the ring nor what a popper was told is no step of
\* the channel.
LEMMA Quiet ==
    ASSUME UNCHANGED <<ring, closed, inited>>, EndTold' = EndTold
    PROVE  UNCHANGED Channel!vars
<1>1. Contents' = Contents
  BY DEF Contents, Place, ring
<1>2. Refuses' = Refuses
  BY DEF Refuses
<1> QED
  BY <1>1, <1>2 DEF Channel!vars

\* Results other than IPC_EOF, and results of other threads, tell no end.
LEMMA NothingTold ==
    ASSUME IInv, NEW t \in Threads, pc[t] # "done",
           \/ UNCHANGED ret
           \/ \E code \in {"OK", "ERROR"} : Return(t, code)
           \/ t \notin Consumers /\ Return(t, "EOF")
    PROVE  EndTold' = EndTold
BY DEF IInv, QueueInv, TypeOK, ShutInv, Return, EndTold, Threads

\* Every step of the threads is a step of the abstract channel or changes
\* nothing of it.
LEMMA ChannelStep ==
    IInv /\ IInv' /\ [Next]_vars => [Channel!Next]_(Channel!vars)
<1> SUFFICES ASSUME IInv, IInv', [Next]_vars PROVE [Channel!Next]_(Channel!vars)
    OBVIOUS
<1> USE DEF Threads
<1>1. ASSUME NEW p \in Producers, ProducerStep(p) PROVE [Channel!Next]_(Channel!vars)
  <2>1. CASE PushClone(p)
    BY <2>1, ThreadsAssumption, Quiet, NothingTold DEF PushClone
  <2>2. CASE PushCloneFails(p)
    BY <2>2, ThreadsAssumption, Quiet, NothingTold DEF PushCloneFails
  <2>3. CASE PushLock(p)
    BY <2>3, ThreadsAssumption, Quiet, NothingTold DEF PushLock
  <2>4. CASE PushLockFails(p)
    BY <2>4, ThreadsAssumption, Quiet, NothingTold DEF PushLockFails
  <2>5. CASE PushWait(p)
    BY <2>5, ThreadsAssumption, Quiet, NothingTold DEF PushWait
  <2>6. CASE PushWaitFails(p)
    BY <2>6, ThreadsAssumption, Quiet, NothingTold DEF PushWaitFails
  <2>7. CASE PushClosed(p)
    BY <2>7, ThreadsAssumption, Quiet, NothingTold DEF PushClosed
  <2>8. CASE PushStore(p)
    <3>1. Contents' = Append(Contents, frame[p]) /\ frame[p] \in Frames
      BY <2>8, StoreAppends DEF PushStore, After, IInv, QueueInv, TypeOK, HoldInv
    <3>2. Len(Contents) < Capacity
      BY <2>8, ContentsType DEF PushStore, After, IInv, QueueInv, ContentsOK
    <3>3. ~Refuses /\ Refuses' = Refuses /\ EndTold' = EndTold
      BY <2>8 DEF PushStore, After, Refuses, EndTold, IInv, QueueInv, ShutInv
    <3>4. Channel!Put(frame[p])
      BY <3>1, <3>2, <3>3 DEF Channel!Put
    <3> QED
      BY <3>1, <3>4 DEF Channel!Next
  <2>9. CASE PushSignal(p)
    BY <2>9, ThreadsAssumption, Quiet, NothingTold DEF PushSignal
  <2>10. CASE ProducerLeaves(p)
    BY <2>10, ThreadsAssumption, Quiet, NothingTold DEF ProducerLeaves
  <2> QED
    BY <1>1, <2>1, <2>2, <2>3, <2>4, <2>5, <2>6, <2>7, <2>8, <2>9, <2>10 DEF ProducerStep
<1>2. ASSUME NEW c \in Consumers, ConsumerStep(c) PROVE [Channel!Next]_(Channel!vars)
  <2>1. CASE PopCall(c)
    BY <2>1, Quiet, NothingTold DEF PopCall
  <2>2. CASE PopLock(c)
    BY <2>2, Quiet, NothingTold DEF PopLock
  <2>3. CASE PopLockFails(c)
    BY <2>3, Quiet, NothingTold DEF PopLockFails
  <2>4. CASE PopWait(c)
    BY <2>4, Quiet, NothingTold DEF PopWait
  <2>5. CASE PopWaitFails(c)
    BY <2>5, Quiet, NothingTold DEF PopWaitFails
  <2>6. CASE PopEnd(c)
    <3>1. Contents = <<>> /\ Contents' = Contents
      BY <2>6 DEF PopEnd, ring, Contents, Place
    <3>2. Refuses /\ Refuses' = Refuses
      BY <2>6 DEF PopEnd, Refuses
    <3>3. EndTold'
      BY <2>6 DEF PopEnd, Return, EndTold, IInv, TypeOK
    <3>4. Channel!TellEnd
      BY <3>1, <3>2, <3>3 DEF Channel!TellEnd
    <3> QED
      BY <3>4 DEF Channel!Next
  <2>7. CASE PopTake(c)
    <3>1. Contents # <<>> /\ Contents' = Tail(Contents)
      BY <2>7, TakeDropsOldest
    <3>2. Refuses' = Refuses /\ EndTold' = EndTold
      BY <2>7 DEF PopTake, After, Refuses, EndTold
    <3>3. Channel!Take
      BY <3>1, <3>2 DEF Channel!Take
    <3> QED
      BY <3>3 DEF Channel!Next
  <2>8. CASE PopSignal(c)
    BY <2>8, Quiet, NothingTold DEF PopSignal
  <2>9. CASE PopUnref(c)
    BY <2>9, Quiet, NothingTold DEF PopUnref
  <2>10. CASE ConsumerLeaves(c)
    BY <2>10, Quiet, NothingTold DEF ConsumerLeaves
  <2> QED
    BY <1>2, <2>1, <2>2, <2>3, <2>4, <2>5, <2>6, <2>7, <2>8, <2>9, <2>10 DEF ConsumerStep
<1>3. ASSUME NEW t \in Threads, CloseStep(t) PROVE [Channel!Next]_(Channel!vars)
  <2>1. CASE CloseLock(t)
    BY <2>1, Quiet, NothingTold DEF CloseLock
  <2>2. CASE CloseSet(t)
    <3>1. Contents' = Contents /\ EndTold' = EndTold
      BY <2>2 DEF CloseSet, ring, Contents, Place, EndTold
    <3>2. Refuses' = TRUE
      BY <2>2 DEF CloseSet, Refuses
    <3>3. Channel!Shut
      BY <3>1, <3>2 DEF Channel!Shut
    <3> QED
      BY <3>3 DEF Channel!Next
  <2>3. CASE CloseBroadcast(t)
    BY <2>3, Quiet, NothingTold DEF CloseBroadcast
  <2> QED
    BY <1>3, <2>1, <2>2, <2>3 DEF CloseStep
<1>4. ASSUME NEW t \in Closers, RequestStop(t) PROVE [Channel!Next]_(Channel!vars)
  BY <1>4, Quiet, NothingTold DEF RequestStop
<1>5. ASSUME NEW t \in Threads, SpuriousWakeup(t) PROVE [Channel!Next]_(Channel!vars)
  BY <1>5, Quiet, NothingTold DEF SpuriousWakeup
<1>6. CASE Deinit
  <2>1. Refuses /\ Refuses'
    BY <1>6, ThreadsAssumption DEF Deinit, Refuses, IInv, QueueInv, ShutInv
  <2>2. Contents' = <<>> /\ EndTold' = EndTold
    BY <1>6 DEF Deinit, Contents, EndTold
  <2>3. Channel!Discard
    BY <2>1, <2>2 DEF Channel!Discard, Refuses
  <2> QED
    BY <2>3 DEF Channel!Next
<1>7. CASE UNCHANGED vars
  BY <1>7, Quiet DEF vars, EndTold
<1> QED
  BY <1>1, <1>2, <1>3, <1>4, <1>5, <1>6, <1>7 DEF Next, Terminated

\* The fine-grained queue implements the channel: frames leave in the order in
\* which they were accepted, none is accepted after the close, no more than
\* Capacity are held, and IPC_EOF is told only once the queue is closed and
\* drained.
THEOREM QueueImplementsChannel == Spec => ImplementsChannel
<1>1. Init => Channel!Init
  BY ChannelInit
<1>2. IInv /\ IInv' /\ [Next]_vars => [Channel!Next]_(Channel!vars)
  BY ChannelStep
<1> QED
  BY <1>1, <1>2, Invariance, PTL DEF Spec, ImplementsChannel, Channel!Spec

-----------------------------------------------------------------------------
(* No wakeup is lost.                                                      *)

AwakeOK == IsFiniteSet(Takers) /\ IsFiniteSet(Storers)

\* The sets of threads that are counted are finite, so that they can be
\* counted.
LEMMA AwakeFinite == TypeOK /\ LockInv => AwakeOK
<1> SUFFICES ASSUME TypeOK, LockInv PROVE AwakeOK
    OBVIOUS
<1>1. IsFiniteSet(Producers \cup Consumers)
  BY ThreadsAssumption, FS_Union
<1>2. Takers \subseteq Producers \cup Consumers /\ Storers \subseteq Producers \cup Consumers
  BY DEF LockInv, Takers, Storers, At, ProducerPcs, ConsumerPcs
<1> QED
  BY <1>1, <1>2, FS_Subset DEF AwakeOK

\* The same after a step.
LEMMA AwakeFiniteNext == TypeOK' /\ LockInv' => AwakeOK'
BY AwakeFinite, PTL

\* No step takes away the last wakeup a sleeping popper depends on: a store
\* is followed by its signal, a close by its broadcast.
LEMMA ConsumersAwakeNext ==
    TypeOK /\ TypeOK' /\ LockInv /\ LockInv' /\ ConsumersAwake
        /\ [Next]_vars => ConsumersAwake'
<1> SUFFICES ASSUME TypeOK, TypeOK', LockInv, LockInv', ConsumersAwake, [Next]_vars
             PROVE  ConsumersAwake'
    OBVIOUS
<1> USE DEF Threads
<1>1. IsFiniteSet(Takers) /\ IsFiniteSet(Takers')
  BY AwakeFinite, AwakeFiniteNext DEF AwakeOK
<1>2. Cardinality(Takers) \in Nat /\ Cardinality(Takers') \in Nat /\ count \in Nat /\ count' \in Nat
  BY <1>1, FS_CardinalityType, CapacityAssumption DEF TypeOK
<1>3. ASSUME UNCHANGED <<count, closed>>, Takers \subseteq Takers',
             At("pop_wait")' \subseteq At("pop_wait"),
             At("close_broadcast") \subseteq At("close_broadcast")'
      PROVE  ConsumersAwake'
  <2>1. Cardinality(Takers) <= Cardinality(Takers')
    BY <1>1, <1>3, FS_Subset
  <2> QED
    BY <1>2, <1>3, <2>1, CapacityAssumption DEF ConsumersAwake
<1>4. ASSUME NEW p \in Producers, ProducerStep(p) PROVE ConsumersAwake'
  <2>1. CASE PushClone(p)
    BY <2>1, <1>3 DEF PushClone, Goto, ring, TypeOK, Takers, At
  <2>2. CASE PushCloneFails(p)
    BY <2>2, <1>3 DEF PushCloneFails, Goto, Return, ring, TypeOK, Takers, At
  <2>3. CASE PushLock(p)
    BY <2>3, <1>3 DEF PushLock, Goto, Acquire, ring, TypeOK, Takers, At
  <2>4. CASE PushLockFails(p)
    BY <2>4, <1>3 DEF PushLockFails, Goto, Return, Unref, ring, TypeOK, Takers, At
  <2>5. CASE PushWait(p)
    BY <2>5, <1>3 DEF PushWait, Goto, Release, ring, TypeOK, Takers, At
  <2>6. CASE PushWaitFails(p)
    BY <2>6, <1>3 DEF PushWaitFails, Goto, Release, Unref, Return, ring, TypeOK, Takers, At
  <2>7. CASE PushClosed(p)
    BY <2>7, <1>3 DEF PushClosed, Goto, Release, Unref, Return, ring, TypeOK, Takers, At
  <2>8. CASE PushStore(p)
    <3>1. Takers' = Takers \cup {p} /\ p \notin Takers
      BY <2>8 DEF PushStore, After, Goto, TypeOK, Takers, At
    <3>2. Cardinality(Takers') = Cardinality(Takers) + 1
      BY <1>1, <3>1, FS_AddElement
    <3>3. At("pop_wait")' = At("pop_wait")
      BY <2>8 DEF PushStore, After, Goto, TypeOK, At
    <3> QED
      BY <2>8, <1>2, <3>2, <3>3 DEF PushStore, After, ConsumersAwake
  <2>9. CASE PushSignal(p)
    <3>1. CASE At("pop_wait") = {}
      <4>1. At("pop_wait")' = {}
        BY <2>9, <3>1 DEF PushSignal, Signal, Goto, TypeOK, At
      <4> QED
        BY <4>1 DEF ConsumersAwake
    <3>2. CASE At("pop_wait") # {}
      <4>1. PICK w \in At("pop_wait") : pc' = [pc EXCEPT ![p] = "idle", ![w] = "pop_woken"]
        BY <2>9, <3>2 DEF PushSignal, Signal
      <4>2. Takers' = (Takers \ {p}) \cup {w} /\ p \in Takers /\ w \notin Takers
        BY <2>9, <4>1 DEF PushSignal, TypeOK, Takers, At
      <4>3. Cardinality(Takers') = Cardinality(Takers)
        <5>1. IsFiniteSet(Takers \ {p}) /\ Cardinality(Takers \ {p}) = Cardinality(Takers) - 1
          BY <1>1, <4>2, FS_RemoveElement
        <5>2. Cardinality(Takers') = Cardinality(Takers \ {p}) + 1
          BY <4>2, <5>1, FS_AddElement
        <5> QED
          BY <1>2, <5>1, <5>2
      <4>4. At("close_broadcast")' = At("close_broadcast")
        BY <2>9, <4>1 DEF PushSignal, TypeOK, At
      <4> QED
        BY <2>9, <3>2, <4>3, <4>4 DEF PushSignal, ring, ConsumersAwake
    <3> QED
      BY <3>1, <3>2
  <2>10. CASE ProducerLeaves(p)
    BY <2>10, <1>3 DEF ProducerLeaves, Goto, ring, TypeOK, Takers, At
  <2> QED
    BY <1>4, <2>1, <2>2, <2>3, <2>4, <2>5, <2>6, <2>7, <2>8, <2>9, <2>10 DEF ProducerStep
<1>5. ASSUME NEW c \in Consumers, ConsumerStep(c) PROVE ConsumersAwake'
  <2>1. CASE PopCall(c)
    BY <2>1, <1>3 DEF PopCall, Goto, ring, TypeOK, Takers, At
  <2>2. CASE PopLock(c)
    BY <2>2, <1>3 DEF PopLock, Goto, Acquire, ring, TypeOK, Takers, At
  <2>3. CASE PopLockFails(c)
    BY <2>3, <1>3 DEF PopLockFails, Goto, Return, ring, TypeOK, Takers, At
  <2>4. CASE PopWait(c)
    BY <2>4, <1>2 DEF PopWait, ring, ConsumersAwake
  <2>5. CASE PopWaitFails(c)
    BY <2>5, <1>2 DEF PopWaitFails, ring, ConsumersAwake
  <2>6. CASE PopEnd(c)
    <3>1. At("pop_wait")' = At("pop_wait") /\ At("close_broadcast")' = At("close_broadcast")
      BY <2>6 DEF PopEnd, Goto, TypeOK, At
    <3> QED
      BY <2>6, <3>1 DEF PopEnd, ConsumersAwake
  <2>7. CASE PopTake(c)
    <3>1. Takers' = Takers \ {c} /\ c \in Takers
      BY <2>7 DEF PopTake, After, Goto, TypeOK, Takers, At
    <3>2. Cardinality(Takers') = Cardinality(Takers) - 1
      BY <1>1, <3>1, FS_RemoveElement
    <3>3. At("pop_wait")' = At("pop_wait") /\ At("close_broadcast")' = At("close_broadcast")
      BY <2>7 DEF PopTake, After, Goto, TypeOK, At
    <3> QED
      BY <2>7, <1>2, <3>2, <3>3 DEF PopTake, After, ConsumersAwake
  <2>8. CASE PopSignal(c)
    BY <2>8, <1>3 DEF PopSignal, Signal, Goto, Release, Return, At, ring, TypeOK, Takers, At
  <2>9. CASE PopUnref(c)
    BY <2>9, <1>3 DEF PopUnref, Unref, Goto, ring, TypeOK, Takers, At
  <2>10. CASE ConsumerLeaves(c)
    BY <2>10, <1>3 DEF ConsumerLeaves, Goto, ring, TypeOK, Takers, At
  <2> QED
    BY <1>5, <2>1, <2>2, <2>3, <2>4, <2>5, <2>6, <2>7, <2>8, <2>9, <2>10 DEF ConsumerStep
<1>6. ASSUME NEW t \in Threads, CloseStep(t) PROVE ConsumersAwake'
  <2>1. CASE CloseLock(t)
    BY <2>1, <1>3 DEF CloseLock, Goto, Acquire, ring, TypeOK, Takers, At
  <2>2. CASE CloseSet(t)
    <3>1. t \in At("close_broadcast")'
      BY <2>2 DEF CloseSet, Goto, At, TypeOK
    <3> QED
      BY <2>2, <3>1 DEF CloseSet, ConsumersAwake
  <2>3. CASE CloseBroadcast(t)
    <3>1. At("pop_wait")' = {}
      BY <2>3 DEF CloseBroadcast, BroadcastBoth, At
    <3> QED
      BY <3>1 DEF ConsumersAwake
  <2> QED
    BY <1>6, <2>1, <2>2, <2>3 DEF CloseStep
<1>7. ASSUME NEW t \in Closers, RequestStop(t) PROVE ConsumersAwake'
  BY <1>7, <1>3 DEF RequestStop, Goto, ring, TypeOK, Takers, At
<1>8. ASSUME NEW t \in Threads, SpuriousWakeup(t) PROVE ConsumersAwake'
  BY <1>8, <1>3 DEF SpuriousWakeup, Goto, ring, TypeOK, Takers, At
<1>9. CASE Deinit
  BY <1>9 DEF Deinit, ConsumersAwake, At
<1>10. CASE UNCHANGED vars
  BY <1>10, <1>3 DEF vars, ring, Takers, At
<1> QED
  BY <1>4, <1>5, <1>6, <1>7, <1>8, <1>9, <1>10 DEF Next, Terminated

\* No step takes away the last wakeup a sleeping pusher depends on: a take is
\* followed by its signal, a close by its broadcast.
LEMMA ProducersAwakeNext ==
    TypeOK /\ TypeOK' /\ LockInv /\ LockInv' /\ ProducersAwake
        /\ [Next]_vars => ProducersAwake'
<1> SUFFICES ASSUME TypeOK, TypeOK', LockInv, LockInv', ProducersAwake, [Next]_vars
             PROVE  ProducersAwake'
    OBVIOUS
<1> USE DEF Threads
<1>1. IsFiniteSet(Storers) /\ IsFiniteSet(Storers')
  BY AwakeFinite, AwakeFiniteNext DEF AwakeOK
<1>2. Cardinality(Storers) \in Nat /\ Cardinality(Storers') \in Nat /\ count \in Nat /\ count' \in Nat
  BY <1>1, FS_CardinalityType, CapacityAssumption DEF TypeOK
<1>3. ASSUME UNCHANGED <<count, closed>>, Storers \subseteq Storers',
             At("push_wait")' \subseteq At("push_wait"),
             At("close_broadcast") \subseteq At("close_broadcast")'
      PROVE  ProducersAwake'
  <2>1. Cardinality(Storers) <= Cardinality(Storers')
    BY <1>1, <1>3, FS_Subset
  <2> QED
    BY <1>2, <1>3, <2>1, CapacityAssumption DEF ProducersAwake
<1>4. ASSUME NEW p \in Producers, ProducerStep(p) PROVE ProducersAwake'
  <2>1. CASE PushClone(p)
    BY <2>1, <1>3 DEF PushClone, Goto, ring, TypeOK, Storers, At
  <2>2. CASE PushCloneFails(p)
    BY <2>2, <1>3 DEF PushCloneFails, Goto, Return, ring, TypeOK, Storers, At
  <2>3. CASE PushLock(p)
    BY <2>3, <1>3 DEF PushLock, Goto, Acquire, ring, TypeOK, Storers, At
  <2>4. CASE PushLockFails(p)
    BY <2>4, <1>3 DEF PushLockFails, Goto, Return, Unref, ring, TypeOK, Storers, At
  <2>5. CASE PushWait(p)
    BY <2>5, <1>2, CapacityAssumption DEF PushWait, ring, ProducersAwake
  <2>6. CASE PushWaitFails(p)
    BY <2>6, <1>2, CapacityAssumption DEF PushWaitFails, ring, ProducersAwake
  <2>7. CASE PushClosed(p)
    <3>1. At("push_wait")' = At("push_wait") /\ At("close_broadcast")' = At("close_broadcast")
      BY <2>7 DEF PushClosed, Goto, TypeOK, At
    <3> QED
      BY <2>7, <3>1 DEF PushClosed, ProducersAwake
  <2>8. CASE PushStore(p)
    <3>1. Storers' = Storers \ {p} /\ p \in Storers
      BY <2>8 DEF PushStore, After, Goto, TypeOK, Storers, At
    <3>2. Cardinality(Storers') = Cardinality(Storers) - 1
      BY <1>1, <3>1, FS_RemoveElement
    <3>3. At("push_wait")' = At("push_wait")
      BY <2>8 DEF PushStore, After, Goto, TypeOK, At
    <3> QED
      BY <2>8, <1>2, <3>2, <3>3, CapacityAssumption DEF PushStore, After, ProducersAwake
  <2>9. CASE PushSignal(p)
    BY <2>9, <1>3 DEF PushSignal, Signal, Goto, Release, Return, At, ring, TypeOK, Storers, At
  <2>10. CASE ProducerLeaves(p)
    BY <2>10, <1>3 DEF ProducerLeaves, Goto, ring, TypeOK, Storers, At
  <2> QED
    BY <1>4, <2>1, <2>2, <2>3, <2>4, <2>5, <2>6, <2>7, <2>8, <2>9, <2>10 DEF ProducerStep
<1>5. ASSUME NEW c \in Consumers, ConsumerStep(c) PROVE ProducersAwake'
  <2>1. CASE PopCall(c)
    BY <2>1, <1>3 DEF PopCall, Goto, ring, TypeOK, Storers, At
  <2>2. CASE PopLock(c)
    BY <2>2, <1>3 DEF PopLock, Goto, Acquire, ring, TypeOK, Storers, At
  <2>3. CASE PopLockFails(c)
    BY <2>3, <1>3 DEF PopLockFails, Goto, Return, ring, TypeOK, Storers, At
  <2>4. CASE PopWait(c)
    BY <2>4, <1>3 DEF PopWait, Goto, Release, ring, TypeOK, Storers, At
  <2>5. CASE PopWaitFails(c)
    BY <2>5, <1>3 DEF PopWaitFails, Goto, Release, Return, ring, TypeOK, Storers, At
  <2>6. CASE PopEnd(c)
    BY <2>6, <1>3 DEF PopEnd, Goto, Release, Return, ring, TypeOK, Storers, At
  <2>7. CASE PopTake(c)
    <3>1. Storers' = Storers \cup {c} /\ c \notin Storers
      BY <2>7 DEF PopTake, After, Goto, TypeOK, Storers, At
    <3>2. Cardinality(Storers') = Cardinality(Storers) + 1
      BY <1>1, <3>1, FS_AddElement
    <3>3. At("push_wait")' = At("push_wait") /\ At("close_broadcast")' = At("close_broadcast")
      BY <2>7 DEF PopTake, After, Goto, TypeOK, At
    <3> QED
      BY <2>7, <1>2, <3>2, <3>3, CapacityAssumption DEF PopTake, After, ProducersAwake
  <2>8. CASE PopSignal(c)
    <3>1. CASE At("push_wait") = {}
      <4>1. At("push_wait")' = {}
        BY <2>8, <3>1 DEF PopSignal, Signal, Goto, TypeOK, At
      <4> QED
        BY <4>1 DEF ProducersAwake
    <3>2. CASE At("push_wait") # {}
      <4>1. PICK w \in At("push_wait") : pc' = [pc EXCEPT ![c] = "pop_use", ![w] = "push_woken"]
        BY <2>8, <3>2 DEF PopSignal, Signal
      <4>2. Storers' = (Storers \ {c}) \cup {w} /\ c \in Storers /\ w \notin Storers
        BY <2>8, <4>1 DEF PopSignal, TypeOK, Storers, At
      <4>3. Cardinality(Storers') = Cardinality(Storers)
        <5>1. IsFiniteSet(Storers \ {c}) /\ Cardinality(Storers \ {c}) = Cardinality(Storers) - 1
          BY <1>1, <4>2, FS_RemoveElement
        <5>2. Cardinality(Storers') = Cardinality(Storers \ {c}) + 1
          BY <4>2, <5>1, FS_AddElement
        <5> QED
          BY <1>2, <5>1, <5>2
      <4>4. At("close_broadcast")' = At("close_broadcast")
        BY <2>8, <4>1 DEF PopSignal, TypeOK, At
      <4> QED
        BY <2>8, <3>2, <4>3, <4>4 DEF PopSignal, ring, ProducersAwake
    <3> QED
      BY <3>1, <3>2
  <2>9. CASE PopUnref(c)
    BY <2>9, <1>3 DEF PopUnref, Unref, Goto, ring, TypeOK, Storers, At
  <2>10. CASE ConsumerLeaves(c)
    BY <2>10, <1>3 DEF ConsumerLeaves, Goto, ring, TypeOK, Storers, At
  <2> QED
    BY <1>5, <2>1, <2>2, <2>3, <2>4, <2>5, <2>6, <2>7, <2>8, <2>9, <2>10 DEF ConsumerStep
<1>6. ASSUME NEW t \in Threads, CloseStep(t) PROVE ProducersAwake'
  <2>1. CASE CloseLock(t)
    BY <2>1, <1>3 DEF CloseLock, Goto, Acquire, ring, TypeOK, Storers, At
  <2>2. CASE CloseSet(t)
    <3>1. t \in At("close_broadcast")'
      BY <2>2 DEF CloseSet, Goto, At, TypeOK
    <3> QED
      BY <2>2, <3>1 DEF CloseSet, ProducersAwake
  <2>3. CASE CloseBroadcast(t)
    <3>1. At("push_wait")' = {}
      BY <2>3 DEF CloseBroadcast, BroadcastBoth, At
    <3> QED
      BY <3>1 DEF ProducersAwake
  <2> QED
    BY <1>6, <2>1, <2>2, <2>3 DEF CloseStep
<1>7. ASSUME NEW t \in Closers, RequestStop(t) PROVE ProducersAwake'
  BY <1>7, <1>3 DEF RequestStop, Goto, ring, TypeOK, Storers, At
<1>8. ASSUME NEW t \in Threads, SpuriousWakeup(t) PROVE ProducersAwake'
  BY <1>8, <1>3 DEF SpuriousWakeup, Goto, ring, TypeOK, Storers, At
<1>9. CASE Deinit
  BY <1>9 DEF Deinit, ProducersAwake, At
<1>10. CASE UNCHANGED vars
  BY <1>10, <1>3 DEF vars, ring, Storers, At
<1> QED
  BY <1>4, <1>5, <1>6, <1>7, <1>8, <1>9, <1>10 DEF Next, Terminated

\* A thread asleep in push or pop always has somebody awake on its behalf.
THEOREM NoWakeupIsLost == Spec => []NoLostWakeup
<1>1. Init => NoLostWakeup
  BY DEF Init, NoLostWakeup, ConsumersAwake, ProducersAwake, At
<1>2. IInv /\ IInv' /\ NoLostWakeup /\ [Next]_vars => NoLostWakeup'
  BY ConsumersAwakeNext, ProducersAwakeNext DEF IInv, QueueInv, NoLostWakeup
<1> QED
  BY <1>1, <1>2, Invariance, PTL DEF Spec

=============================================================================
