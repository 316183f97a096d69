---------------------------- MODULE RWLockProofs ----------------------------
(***************************************************************************)
(* The safety properties of RWLock, proved for every finite set of threads.*)
(*                                                                         *)
(* None of the invariants is inductive alone: that counter_ stays in its   *)
(* range needs that it counts the holders, that it counts them needs that  *)
(* a writer is alone, and that no wake-up is lost needs the exact waiting  *)
(* counts, because the destructors decide from them whom to notify.        *)
(* Together they are: IInv is their conjunction.                           *)
(***************************************************************************)
EXTENDS RWLock, FiniteSetTheorems, TLAPS

USE DEF Idle, ReaderAsleep, ReaderAwake, Reading,
        WriterAsleep, WriterAwake, Writing

IInv ==
  /\ TypeOK
  /\ Exclusion
  /\ CounterCountsHolders
  /\ WaitingCountsExact
  /\ NoLostWriterWakeup
  /\ NoLostReaderWakeup

-----------------------------------------------------------------------------
(* Every set of threads is finite, and an empty one has no elements.       *)
LEMMA FiniteParts ==
  ASSUME NEW S \in SUBSET Thread
  PROVE  /\ IsFiniteSet(S)
         /\ Cardinality(S) \in Nat
         /\ Cardinality(S) = 0 <=> S = {}
<1>1. IsFiniteSet(S)
  BY ThreadAssumption, FS_Subset
<1>2. Cardinality(S) \in Nat
  BY <1>1, FS_CardinalityType
<1>. QED  BY <1>1, <1>2, FS_EmptySet

(* What a thread's joining or leaving a set does to its size.              *)
LEMMA JoinLeave ==
  ASSUME NEW S \in SUBSET Thread, NEW t \in Thread
  PROVE  /\ t \notin S => Cardinality(S \cup {t}) = Cardinality(S) + 1
         /\ t \in S => Cardinality(S \ {t}) = Cardinality(S) - 1
  BY FiniteParts, FS_AddElement, FS_RemoveElement

(* The sets of threads stay sets of threads.                               *)
LEMMA PartsOfThread ==
  /\ At(Reading) \in SUBSET Thread
  /\ At(Writing) \in SUBSET Thread
  /\ WaitingReaders \in SUBSET Thread
  /\ WaitingWriters \in SUBSET Thread
  BY DEF At, WaitingReaders, WaitingWriters

(* A thread that moves to another label leaves the set it was in, joins    *)
(* the set of the label, and disturbs no other.                            *)
LEMMA GotoEffect ==
  ASSUME TypeOK, NEW t \in Thread, NEW l \in Labels, Goto(t, l)
  PROVE  /\ pc' \in [Thread -> Labels]
         /\ \A m \in Labels :
              At(m)' = IF m = l THEN At(m) \cup {t} ELSE At(m) \ {t}
<1>1. pc' \in [Thread -> Labels]
  BY DEF TypeOK, Goto
<1>2. \A u \in Thread : pc'[u] = IF u = t THEN l ELSE pc[u]
  BY DEF TypeOK, Goto
<1>3. ASSUME NEW m \in Labels
      PROVE  At(m)' = IF m = l THEN At(m) \cup {t} ELSE At(m) \ {t}
  BY <1>2 DEF At
<1>. QED  BY <1>1, <1>3

(* A destructor's notification of a writer moves nobody but the thread     *)
(* that leaves and one sleeper, who is then awake.                         *)
LEMMA NotifyOneEffect ==
  ASSUME TypeOK, NEW t \in Thread, pc[t] \in {Reading, Writing},
         NotifyOneWriter(t, Idle)
  PROVE  /\ pc' \in [Thread -> Labels]
         /\ At(Reading)' = At(Reading) \ {t}
         /\ At(Writing)' = At(Writing) \ {t}
         /\ WaitingReaders' = WaitingReaders
         /\ WaitingWriters' = WaitingWriters
         /\ At(ReaderAsleep)' = At(ReaderAsleep)
         /\ WaitingWriters # {} => At(WriterAwake)' # {}
<1>1. CASE At(WriterAsleep) = {} /\ Goto(t, Idle)
  BY <1>1 DEF TypeOK, Labels, Goto, At, WaitingReaders, WaitingWriters
<1>2. CASE \E w \in At(WriterAsleep) :
             pc' = [pc EXCEPT ![t] = Idle, ![w] = WriterAwake]
  <2>. PICK w \in At(WriterAsleep) :
         pc' = [pc EXCEPT ![t] = Idle, ![w] = WriterAwake]
    BY <1>2
  <2>1. w \in Thread /\ pc[w] = WriterAsleep /\ w # t
    BY DEF At
  <2>2. pc'[w] = WriterAwake /\ pc'[t] = Idle
        /\ \A u \in Thread : u # t /\ u # w => pc'[u] = pc[u]
    BY <2>1 DEF TypeOK
  <2>3. w \in At(WriterAwake)'
    BY <2>1, <2>2 DEF At
  <2>. QED
    BY <2>1, <2>2, <2>3 DEF TypeOK, Labels, At, WaitingReaders, WaitingWriters
<1>. QED  BY <1>1, <1>2 DEF NotifyOneWriter

-----------------------------------------------------------------------------
(* Nobody is anywhere when the lock is made.                               *)
LEMMA InitIInv == Init => IInv
<1>. SUFFICES ASSUME Init PROVE IInv
  OBVIOUS
<1>1. /\ At(Reading) = {} /\ At(Writing) = {}
      /\ WaitingReaders = {} /\ WaitingWriters = {}
      /\ At(ReaderAsleep) = {}
  BY DEF Init, At, WaitingReaders, WaitingWriters
<1>2. Cardinality({}) = 0
  BY FS_EmptySet
<1>. QED
  BY <1>1, <1>2 DEF Init, IInv, TypeOK, Labels, Exclusion, CounterCountsHolders,
     WaitingCountsExact, NoLostWriterWakeup, NoLostReaderWakeup

(* Each step of the guards preserves the invariant.  Under each action,    *)
(* the first steps say what becomes of the sets of threads, of the sizes   *)
(* of those that changed and of the counters; then comes each conjunct.    *)
LEMMA NextIInv == IInv /\ [Next]_vars => IInv'
<1>s. SUFFICES ASSUME IInv, [Next]_vars PROVE IInv'
  OBVIOUS
<1>i. /\ TypeOK /\ Exclusion /\ CounterCountsHolders /\ WaitingCountsExact
      /\ NoLostWriterWakeup /\ NoLostReaderWakeup
  BY <1>s DEF IInv
<1>n. /\ Cardinality(At(Reading)) \in Nat
      /\ Cardinality(WaitingReaders) \in Nat
      /\ Cardinality(WaitingWriters) \in Nat
      /\ Cardinality(At(Reading)) = 0 <=> At(Reading) = {}
      /\ Cardinality(WaitingReaders) = 0 <=> WaitingReaders = {}
      /\ Cardinality(WaitingWriters) = 0 <=> WaitingWriters = {}
  BY FiniteParts, PartsOfThread
<1>1. ASSUME NEW t \in Thread, ReadLock(t) PROVE IInv'
  <2>1. CASE ReaderMayEnter
    <3>1. pc[t] = Idle /\ Goto(t, Reading)
      BY <1>1, <2>1 DEF ReadLock
    <3>2. /\ pc' \in [Thread -> Labels]
          /\ At(Reading)' = At(Reading) \cup {t} /\ t \notin At(Reading)
          /\ At(Writing)' = At(Writing)
          /\ WaitingReaders' = WaitingReaders
          /\ WaitingWriters' = WaitingWriters
          /\ At(ReaderAsleep)' = At(ReaderAsleep)
          /\ At(WriterAwake)' = At(WriterAwake)
      BY <1>i, <3>1, GotoEffect DEF Labels, At, WaitingReaders, WaitingWriters
    <3>3. Cardinality(At(Reading)') = Cardinality(At(Reading)) + 1
      BY <3>2, JoinLeave, PartsOfThread
    <3>4. /\ counter >= 0 /\ waiting_writers = 0
          /\ counter' = counter + 1
          /\ UNCHANGED <<waiting_readers, waiting_writers>>
      BY <1>1, <2>1 DEF ReadLock, ReaderMayEnter
    <3>t. TypeOK'
      BY <1>i, <1>n, <3>2, <3>3, <3>4 DEF TypeOK, WaitingCountsExact
    <3>c. Exclusion' /\ CounterCountsHolders'
      BY <1>i, <1>n, <3>2, <3>3, <3>4 DEF TypeOK, Exclusion, CounterCountsHolders
    <3>w. WaitingCountsExact'
      BY <1>i, <1>n, <3>2, <3>3, <3>4 DEF WaitingCountsExact
    <3>l. NoLostWriterWakeup' /\ NoLostReaderWakeup'
      BY <1>i, <1>n, <3>2, <3>3, <3>4 DEF TypeOK, CounterCountsHolders, WaitingCountsExact,
         NoLostWriterWakeup, NoLostReaderWakeup, ReaderMayEnter
    <3>. QED  BY <3>t, <3>c, <3>w, <3>l DEF IInv
  <2>2. CASE ~ReaderMayEnter
    <3>1. pc[t] = Idle /\ Goto(t, ReaderAsleep)
      BY <1>1, <2>2 DEF ReadLock
    <3>2. /\ pc' \in [Thread -> Labels]
          /\ WaitingReaders' = WaitingReaders \cup {t} /\ t \notin WaitingReaders
          /\ At(Reading)' = At(Reading)
          /\ At(Writing)' = At(Writing)
          /\ WaitingWriters' = WaitingWriters
          /\ At(WriterAwake)' = At(WriterAwake)
      BY <1>i, <3>1, GotoEffect DEF Labels, At, WaitingReaders, WaitingWriters
    <3>3. Cardinality(WaitingReaders') = Cardinality(WaitingReaders) + 1
      BY <3>2, JoinLeave, PartsOfThread
    <3>4. /\ ~(counter >= 0 /\ waiting_writers = 0)
          /\ waiting_readers' = waiting_readers + 1
          /\ UNCHANGED <<counter, waiting_writers>>
      BY <1>1, <2>2 DEF ReadLock, ReaderMayEnter
    <3>t. TypeOK'
      BY <1>i, <1>n, <3>2, <3>3, <3>4 DEF TypeOK, WaitingCountsExact
    <3>c. Exclusion' /\ CounterCountsHolders'
      BY <1>i, <1>n, <3>2, <3>3, <3>4 DEF TypeOK, Exclusion, CounterCountsHolders
    <3>w. WaitingCountsExact'
      BY <1>i, <1>n, <3>2, <3>3, <3>4 DEF WaitingCountsExact
    <3>l. NoLostWriterWakeup' /\ NoLostReaderWakeup'
      BY <1>i, <1>n, <3>2, <3>3, <3>4 DEF TypeOK, CounterCountsHolders, WaitingCountsExact,
         NoLostWriterWakeup, NoLostReaderWakeup, ReaderMayEnter
    <3>. QED  BY <3>t, <3>c, <3>w, <3>l DEF IInv
  <2>. QED  BY <2>1, <2>2
<1>2. ASSUME NEW t \in Thread, ReadLockResume(t) PROVE IInv'
  <2>1. CASE ReaderMayEnter
    <3>1. pc[t] = ReaderAwake /\ Goto(t, Reading)
      BY <1>2, <2>1 DEF ReadLockResume
    <3>2. /\ pc' \in [Thread -> Labels]
          /\ At(Reading)' = At(Reading) \cup {t} /\ t \notin At(Reading)
          /\ WaitingReaders' = WaitingReaders \ {t} /\ t \in WaitingReaders
          /\ At(Writing)' = At(Writing)
          /\ WaitingWriters' = WaitingWriters
          /\ At(ReaderAsleep)' = At(ReaderAsleep)
          /\ At(WriterAwake)' = At(WriterAwake)
      BY <1>i, <3>1, GotoEffect DEF Labels, At, WaitingReaders, WaitingWriters
    <3>3. /\ Cardinality(At(Reading)') = Cardinality(At(Reading)) + 1
          /\ Cardinality(WaitingReaders') = Cardinality(WaitingReaders) - 1
      BY <3>2, JoinLeave, PartsOfThread
    <3>4. /\ counter >= 0 /\ waiting_writers = 0
          /\ counter' = counter + 1
          /\ waiting_readers' = waiting_readers - 1
          /\ UNCHANGED waiting_writers
      BY <1>2, <2>1 DEF ReadLockResume, ReaderMayEnter
    <3>t. TypeOK'
      BY <1>i, <1>n, <3>2, <3>3, <3>4 DEF TypeOK, WaitingCountsExact
    <3>c. Exclusion' /\ CounterCountsHolders'
      BY <1>i, <1>n, <3>2, <3>3, <3>4 DEF TypeOK, Exclusion, CounterCountsHolders
    <3>w. WaitingCountsExact'
      BY <1>i, <1>n, <3>2, <3>3, <3>4 DEF WaitingCountsExact
    <3>l. NoLostWriterWakeup' /\ NoLostReaderWakeup'
      BY <1>i, <1>n, <3>2, <3>3, <3>4 DEF TypeOK, CounterCountsHolders, WaitingCountsExact,
         NoLostWriterWakeup, NoLostReaderWakeup, ReaderMayEnter
    <3>. QED  BY <3>t, <3>c, <3>w, <3>l DEF IInv
  <2>2. CASE ~ReaderMayEnter
    <3>1. pc[t] = ReaderAwake /\ Goto(t, ReaderAsleep)
      BY <1>2, <2>2 DEF ReadLockResume
    <3>2. /\ pc' \in [Thread -> Labels]
          /\ At(Reading)' = At(Reading)
          /\ At(Writing)' = At(Writing)
          /\ WaitingReaders' = WaitingReaders
          /\ WaitingWriters' = WaitingWriters
          /\ At(WriterAwake)' = At(WriterAwake)
      BY <1>i, <3>1, GotoEffect DEF Labels, At, WaitingReaders, WaitingWriters
    <3>4. /\ ~(counter >= 0 /\ waiting_writers = 0)
          /\ UNCHANGED <<counter, waiting_readers, waiting_writers>>
      BY <1>2, <2>2 DEF ReadLockResume, ReaderMayEnter
    <3>t. TypeOK'
      BY <1>i, <1>n, <3>2, <3>4 DEF TypeOK, WaitingCountsExact
    <3>c. Exclusion' /\ CounterCountsHolders'
      BY <1>i, <1>n, <3>2, <3>4 DEF TypeOK, Exclusion, CounterCountsHolders
    <3>w. WaitingCountsExact'
      BY <1>i, <1>n, <3>2, <3>4 DEF WaitingCountsExact
    <3>l. NoLostWriterWakeup' /\ NoLostReaderWakeup'
      BY <1>i, <1>n, <3>2, <3>4 DEF TypeOK, CounterCountsHolders, WaitingCountsExact,
         NoLostWriterWakeup, NoLostReaderWakeup, ReaderMayEnter
    <3>. QED  BY <3>t, <3>c, <3>w, <3>l DEF IInv
  <2>. QED  BY <2>1, <2>2
<1>3. ASSUME NEW t \in Thread, ReadUnlock(t) PROVE IInv'
  <2>1. /\ t \in At(Reading) /\ pc[t] = Reading
        /\ counter' = counter - 1
        /\ UNCHANGED <<waiting_readers, waiting_writers>>
    BY <1>3 DEF ReadUnlock, At
  <2>2. /\ Cardinality(At(Reading) \ {t}) = Cardinality(At(Reading)) - 1
        /\ At(Writing) = {} /\ counter' \in Nat
    <3>1. Cardinality(At(Reading) \ {t}) = Cardinality(At(Reading)) - 1
      BY <2>1, JoinLeave, PartsOfThread
    <3>2. At(Writing) = {}
      BY <1>i, <2>1 DEF Exclusion
    <3>3. counter' = Cardinality(At(Reading)) - 1 /\ Cardinality(At(Reading)) # 0
      BY <1>i, <1>n, <2>1, <3>2 DEF CounterCountsHolders
    <3>. QED  BY <1>n, <3>1, <3>2, <3>3
  <2>3. /\ pc' \in [Thread -> Labels]
        /\ At(Reading)' = At(Reading) \ {t}
        /\ At(Writing)' = At(Writing)
        /\ WaitingReaders' = WaitingReaders
        /\ WaitingWriters' = WaitingWriters
        /\ At(ReaderAsleep)' = At(ReaderAsleep)
        /\ counter' = 0 /\ waiting_writers > 0 => At(WriterAwake)' # {}
    <3>1. CASE waiting_writers > 0 /\ counter' = 0
      <4>1. NotifyOneWriter(t, Idle)
        BY <1>3, <3>1 DEF ReadUnlock
      <4>2. WaitingWriters # {}
        BY <1>i, <1>n, <3>1 DEF WaitingCountsExact
      <4>. QED  BY <1>i, <2>1, <2>2, <4>1, <4>2, NotifyOneEffect
    <3>2. CASE ~(waiting_writers > 0 /\ counter' = 0)
      <4>1. Goto(t, Idle)
        BY <1>3, <3>2 DEF ReadUnlock
      <4>. QED  BY <1>i, <2>1, <3>2, <4>1, GotoEffect
                DEF Labels, At, WaitingReaders, WaitingWriters
    <3>. QED  BY <3>1, <3>2
  <2>t. TypeOK'
    BY <1>i, <1>n, <2>1, <2>2, <2>3 DEF TypeOK, WaitingCountsExact
  <2>c. Exclusion' /\ CounterCountsHolders'
    BY <1>i, <1>n, <2>1, <2>2, <2>3 DEF TypeOK, Exclusion, CounterCountsHolders
  <2>w. WaitingCountsExact'
    BY <1>i, <1>n, <2>1, <2>2, <2>3 DEF WaitingCountsExact
  <2>l. NoLostWriterWakeup' /\ NoLostReaderWakeup'
    BY <1>i, <1>n, <2>1, <2>2, <2>3 DEF TypeOK, CounterCountsHolders, WaitingCountsExact,
       NoLostWriterWakeup, NoLostReaderWakeup, ReaderMayEnter
  <2>. QED  BY <2>t, <2>c, <2>w, <2>l DEF IInv
<1>4. ASSUME NEW t \in Thread, WriteLock(t) PROVE IInv'
  <2>1. CASE WriterMayEnter
    <3>1. pc[t] = Idle /\ Goto(t, Writing)
      BY <1>4, <2>1 DEF WriteLock
    <3>2. /\ pc' \in [Thread -> Labels]
          /\ At(Writing)' = At(Writing) \cup {t}
          /\ At(Reading)' = At(Reading)
          /\ WaitingReaders' = WaitingReaders
          /\ WaitingWriters' = WaitingWriters
          /\ At(ReaderAsleep)' = At(ReaderAsleep)
      BY <1>i, <3>1, GotoEffect DEF Labels, At, WaitingReaders, WaitingWriters
    <3>4. /\ counter = 0 /\ counter' = -1
          /\ UNCHANGED <<waiting_readers, waiting_writers>>
      BY <1>4, <2>1 DEF WriteLock, WriterMayEnter
    <3>t. TypeOK'
      BY <1>i, <1>n, <3>2, <3>4 DEF TypeOK, WaitingCountsExact
    <3>c. Exclusion' /\ CounterCountsHolders'
      BY <1>i, <1>n, <3>2, <3>4 DEF TypeOK, Exclusion, CounterCountsHolders
    <3>w. WaitingCountsExact'
      BY <1>i, <1>n, <3>2, <3>4 DEF WaitingCountsExact
    <3>l. NoLostWriterWakeup' /\ NoLostReaderWakeup'
      BY <1>i, <1>n, <3>2, <3>4 DEF TypeOK, CounterCountsHolders, WaitingCountsExact,
         NoLostWriterWakeup, NoLostReaderWakeup, ReaderMayEnter
    <3>. QED  BY <3>t, <3>c, <3>w, <3>l DEF IInv
  <2>2. CASE ~WriterMayEnter
    <3>1. pc[t] = Idle /\ Goto(t, WriterAsleep)
      BY <1>4, <2>2 DEF WriteLock
    <3>2. /\ pc' \in [Thread -> Labels]
          /\ WaitingWriters' = WaitingWriters \cup {t} /\ t \notin WaitingWriters
          /\ At(Reading)' = At(Reading)
          /\ At(Writing)' = At(Writing)
          /\ WaitingReaders' = WaitingReaders
          /\ At(ReaderAsleep)' = At(ReaderAsleep)
      BY <1>i, <3>1, GotoEffect DEF Labels, At, WaitingReaders, WaitingWriters
    <3>3. Cardinality(WaitingWriters') = Cardinality(WaitingWriters) + 1
      BY <3>2, JoinLeave, PartsOfThread
    <3>4. /\ counter # 0
          /\ waiting_writers' = waiting_writers + 1
          /\ UNCHANGED <<counter, waiting_readers>>
      BY <1>4, <2>2 DEF WriteLock, WriterMayEnter
    <3>t. TypeOK'
      BY <1>i, <1>n, <3>2, <3>3, <3>4 DEF TypeOK, WaitingCountsExact
    <3>c. Exclusion' /\ CounterCountsHolders'
      BY <1>i, <1>n, <3>2, <3>3, <3>4 DEF TypeOK, Exclusion, CounterCountsHolders
    <3>w. WaitingCountsExact'
      BY <1>i, <1>n, <3>2, <3>3, <3>4 DEF WaitingCountsExact
    <3>l. NoLostWriterWakeup' /\ NoLostReaderWakeup'
      BY <1>i, <1>n, <3>2, <3>3, <3>4 DEF TypeOK, CounterCountsHolders, WaitingCountsExact,
         NoLostWriterWakeup, NoLostReaderWakeup, ReaderMayEnter
    <3>. QED  BY <3>t, <3>c, <3>w, <3>l DEF IInv
  <2>. QED  BY <2>1, <2>2
<1>5. ASSUME NEW t \in Thread, WriteLockResume(t) PROVE IInv'
  <2>1. CASE WriterMayEnter
    <3>1. pc[t] = WriterAwake /\ Goto(t, Writing)
      BY <1>5, <2>1 DEF WriteLockResume
    <3>2. /\ pc' \in [Thread -> Labels]
          /\ At(Writing)' = At(Writing) \cup {t}
          /\ WaitingWriters' = WaitingWriters \ {t} /\ t \in WaitingWriters
          /\ At(Reading)' = At(Reading)
          /\ WaitingReaders' = WaitingReaders
          /\ At(ReaderAsleep)' = At(ReaderAsleep)
      BY <1>i, <3>1, GotoEffect DEF Labels, At, WaitingReaders, WaitingWriters
    <3>3. Cardinality(WaitingWriters') = Cardinality(WaitingWriters) - 1
      BY <3>2, JoinLeave, PartsOfThread
    <3>4. /\ counter = 0 /\ counter' = -1
          /\ waiting_writers' = waiting_writers - 1
          /\ UNCHANGED waiting_readers
      BY <1>5, <2>1 DEF WriteLockResume, WriterMayEnter
    <3>t. TypeOK'
      BY <1>i, <1>n, <3>2, <3>3, <3>4 DEF TypeOK, WaitingCountsExact
    <3>c. Exclusion' /\ CounterCountsHolders'
      BY <1>i, <1>n, <3>2, <3>3, <3>4 DEF TypeOK, Exclusion, CounterCountsHolders
    <3>w. WaitingCountsExact'
      BY <1>i, <1>n, <3>2, <3>3, <3>4 DEF WaitingCountsExact
    <3>l. NoLostWriterWakeup' /\ NoLostReaderWakeup'
      BY <1>i, <1>n, <3>2, <3>3, <3>4 DEF TypeOK, CounterCountsHolders, WaitingCountsExact,
         NoLostWriterWakeup, NoLostReaderWakeup, ReaderMayEnter
    <3>. QED  BY <3>t, <3>c, <3>w, <3>l DEF IInv
  <2>2. CASE ~WriterMayEnter
    <3>1. pc[t] = WriterAwake /\ Goto(t, WriterAsleep)
      BY <1>5, <2>2 DEF WriteLockResume
    <3>2. /\ pc' \in [Thread -> Labels]
          /\ At(Reading)' = At(Reading)
          /\ At(Writing)' = At(Writing)
          /\ WaitingReaders' = WaitingReaders
          /\ WaitingWriters' = WaitingWriters
          /\ At(ReaderAsleep)' = At(ReaderAsleep)
      BY <1>i, <3>1, GotoEffect DEF Labels, At, WaitingReaders, WaitingWriters
    <3>4. /\ counter # 0
          /\ UNCHANGED <<counter, waiting_readers, waiting_writers>>
      BY <1>5, <2>2 DEF WriteLockResume, WriterMayEnter
    <3>t. TypeOK'
      BY <1>i, <1>n, <3>2, <3>4 DEF TypeOK, WaitingCountsExact
    <3>c. Exclusion' /\ CounterCountsHolders'
      BY <1>i, <1>n, <3>2, <3>4 DEF TypeOK, Exclusion, CounterCountsHolders
    <3>w. WaitingCountsExact'
      BY <1>i, <1>n, <3>2, <3>4 DEF WaitingCountsExact
    <3>l. NoLostWriterWakeup' /\ NoLostReaderWakeup'
      BY <1>i, <1>n, <3>2, <3>4 DEF TypeOK, CounterCountsHolders, WaitingCountsExact,
         NoLostWriterWakeup, NoLostReaderWakeup, ReaderMayEnter
    <3>. QED  BY <3>t, <3>c, <3>w, <3>l DEF IInv
  <2>. QED  BY <2>1, <2>2
<1>6. ASSUME NEW t \in Thread, WriteUnlock(t) PROVE IInv'
  <2>1. /\ t \in Thread /\ pc[t] = Writing
        /\ counter' = 0
        /\ UNCHANGED <<waiting_readers, waiting_writers>>
    BY <1>6 DEF WriteUnlock
  <2>2. At(Writing) = {t} /\ At(Reading) = {} /\ Cardinality(At(Reading)) = 0
    BY <1>i, <1>n, <2>1 DEF Exclusion, At
  <2>3. /\ pc' \in [Thread -> Labels]
        /\ At(Reading)' = At(Reading)
        /\ At(Writing)' = {}
        /\ WaitingReaders' = WaitingReaders
        /\ WaitingWriters' = WaitingWriters
        /\ IF waiting_writers > 0 THEN At(WriterAwake)' # {}
                                  ELSE At(ReaderAsleep)' = {}
    <3>1. CASE waiting_writers > 0
      <4>1. NotifyOneWriter(t, Idle)
        BY <1>6, <3>1 DEF WriteUnlock
      <4>2. WaitingWriters # {}
        BY <1>i, <1>n, <3>1 DEF WaitingCountsExact
      <4>. QED  BY <1>i, <2>1, <2>2, <3>1, <4>1, <4>2, NotifyOneEffect
    <3>2. CASE ~(waiting_writers > 0)
      <4>1. NotifyAllReaders(t, Idle)
        BY <1>6, <3>2 DEF WriteUnlock
      <4>2. pc' \in [Thread -> Labels]
        BY <1>i, <4>1 DEF TypeOK, Labels, NotifyAllReaders
      <4>3. \A u \in Thread :
              pc'[u] = IF u = t THEN Idle
                       ELSE IF pc[u] = ReaderAsleep THEN ReaderAwake ELSE pc[u]
        BY <4>1 DEF NotifyAllReaders
      <4>. QED  BY <2>1, <2>2, <3>2, <4>2, <4>3
                DEF At, WaitingReaders, WaitingWriters
    <3>. QED  BY <3>1, <3>2
  <2>t. TypeOK'
    BY <1>i, <1>n, <2>1, <2>2, <2>3 DEF TypeOK, WaitingCountsExact
  <2>c. Exclusion' /\ CounterCountsHolders'
    BY <1>i, <1>n, <2>1, <2>2, <2>3 DEF TypeOK, Exclusion, CounterCountsHolders
  <2>w. WaitingCountsExact'
    BY <1>i, <1>n, <2>1, <2>2, <2>3 DEF WaitingCountsExact
  <2>l. NoLostWriterWakeup' /\ NoLostReaderWakeup'
    BY <1>i, <1>n, <2>1, <2>2, <2>3 DEF TypeOK, CounterCountsHolders, WaitingCountsExact,
       NoLostWriterWakeup, NoLostReaderWakeup, ReaderMayEnter
  <2>. QED  BY <2>t, <2>c, <2>w, <2>l DEF IInv
<1>7. ASSUME NEW t \in Thread, SpuriousWakeup(t) PROVE IInv'
  <2>1. UNCHANGED <<counter, waiting_readers, waiting_writers>>
    BY <1>7 DEF SpuriousWakeup
  <2>2. /\ pc' \in [Thread -> Labels]
        /\ At(Reading)' = At(Reading)
        /\ At(Writing)' = At(Writing)
        /\ WaitingReaders' = WaitingReaders
        /\ WaitingWriters' = WaitingWriters
        /\ At(ReaderAsleep)' \subseteq At(ReaderAsleep)
        /\ At(WriterAwake) \subseteq At(WriterAwake)'
    <3>1. CASE pc[t] = ReaderAsleep /\ Goto(t, ReaderAwake)
      BY <1>i, <3>1, GotoEffect DEF Labels, At, WaitingReaders, WaitingWriters
    <3>2. CASE pc[t] = WriterAsleep /\ Goto(t, WriterAwake)
      BY <1>i, <3>2, GotoEffect DEF Labels, At, WaitingReaders, WaitingWriters
    <3>. QED  BY <1>7, <3>1, <3>2 DEF SpuriousWakeup
  <2>t. TypeOK'
    BY <1>i, <1>n, <2>1, <2>2 DEF TypeOK, WaitingCountsExact
  <2>c. Exclusion' /\ CounterCountsHolders'
    BY <1>i, <1>n, <2>1, <2>2 DEF TypeOK, Exclusion, CounterCountsHolders
  <2>w. WaitingCountsExact'
    BY <1>i, <1>n, <2>1, <2>2 DEF WaitingCountsExact
  <2>l. NoLostWriterWakeup' /\ NoLostReaderWakeup'
    BY <1>i, <1>n, <2>1, <2>2 DEF TypeOK, CounterCountsHolders, WaitingCountsExact,
       NoLostWriterWakeup, NoLostReaderWakeup, ReaderMayEnter
  <2>. QED  BY <2>t, <2>c, <2>w, <2>l DEF IInv
<1>8. CASE UNCHANGED vars
  BY <1>i, <1>8 DEF vars, IInv, TypeOK, Exclusion, CounterCountsHolders,
     WaitingCountsExact, NoLostWriterWakeup, NoLostReaderWakeup,
     ReaderMayEnter, At, WaitingReaders, WaitingWriters
<1>. QED
  BY <1>s, <1>1, <1>2, <1>3, <1>4, <1>5, <1>6, <1>7, <1>8 DEF Next, Step

-----------------------------------------------------------------------------
(* The inductive invariant holds in every reachable state.                 *)
THEOREM Safety == SafeSpec => []IInv
  BY InitIInv, NextIInv, PTL DEF SafeSpec

(* counter_ and the waiting counters keep their ranges: none of the        *)
(* decrements of rwlock.h goes below what its comment allows.              *)
THEOREM TypeCorrect == SafeSpec => []TypeOK
<1>1. IInv => TypeOK
  BY DEF IInv
<1>. QED  BY <1>1, Safety, PTL

(* A writer is alone, although the code only compares one integer.         *)
THEOREM LockExcludes == SafeSpec => []Exclusion
<1>1. IInv => Exclusion
  BY DEF IInv
<1>. QED  BY <1>1, Safety, PTL

(* counter_ says who is inside, as the comment at rwlock.h:34 has it.      *)
THEOREM CounterAgrees == SafeSpec => []CounterCountsHolders
<1>1. IInv => CounterCountsHolders
  BY DEF IInv
<1>. QED  BY <1>1, Safety, PTL

(* The waiting counters, by which the destructors decide whom to wake, are *)
(* the numbers of threads inside a wait, at every moment mutex_ is free.   *)
THEOREM WaitersCounted == SafeSpec => []WaitingCountsExact
<1>1. IInv => WaitingCountsExact
  BY DEF IInv
<1>. QED  BY <1>1, Safety, PTL

(* No wake-up of a writer is lost: ~ReadLock and ~WriteLock notify one of  *)
(* them when they leave the lock free, and whoever was notified and loses  *)
(* the race for mutex_ loses it to somebody who will notify again.         *)
THEOREM WakeupsNotLost == SafeSpec => []NoLostWriterWakeup
<1>1. IInv => NoLostWriterWakeup
  BY DEF IInv
<1>. QED  BY <1>1, Safety, PTL

(* No reader sleeps that could enter.                                      *)
THEOREM ReadersWoken == SafeSpec => []NoLostReaderWakeup
<1>1. IInv => NoLostReaderWakeup
  BY DEF IInv
<1>. QED  BY <1>1, Safety, PTL

(* No thread is left asleep when nobody is inside and nobody is about to   *)
(* be: the lock alone cannot stop every thread that uses it.               *)
THEOREM NotAllAsleep ==
  SafeSpec => []~(/\ At(Reading) \cup At(Writing) = {}
                  /\ At(ReaderAwake) \cup At(WriterAwake) = {}
                  /\ At(ReaderAsleep) \cup At(WriterAsleep) # {})
<1>1. IInv => ~(/\ At(Reading) \cup At(Writing) = {}
                /\ At(ReaderAwake) \cup At(WriterAwake) = {}
                /\ At(ReaderAsleep) \cup At(WriterAsleep) # {})
  <2>. SUFFICES ASSUME IInv, At(Reading) = {}, At(Writing) = {},
                       At(WriterAwake) = {}
                PROVE  At(ReaderAsleep) \cup At(WriterAsleep) = {}
    BY Zenon
  <2>0. /\ TypeOK /\ CounterCountsHolders /\ WaitingCountsExact
        /\ NoLostWriterWakeup /\ NoLostReaderWakeup
    BY DEF IInv
  <2>1. counter = 0
    BY <2>0, FS_EmptySet DEF CounterCountsHolders
  <2>2. WaitingWriters = {}
    BY <2>0, <2>1 DEF NoLostWriterWakeup
  <2>3. waiting_writers = 0
    BY <2>0, <2>2, FS_EmptySet DEF WaitingCountsExact
  <2>4. At(ReaderAsleep) = {}
    BY <2>0, <2>1, <2>3 DEF NoLostReaderWakeup, ReaderMayEnter
  <2>. QED  BY <2>2, <2>4 DEF WaitingWriters
<1>. QED  BY <1>1, Safety, PTL

-----------------------------------------------------------------------------
(* Who reads, writes or waits to write in the abstract lock.               *)
LEMMA AbsSets ==
  ASSUME TypeOK
  PROVE  /\ AbsPhase \in [Thread -> Abs!Phases]
         /\ Abs!In(Abs!Reads) = At(Reading)
         /\ Abs!In(Abs!Writes) = At(Writing)
         /\ Abs!In(Abs!WantWrite) = WaitingWriters
  BY DEF TypeOK, Labels, AbsPhase, Abs!Phases, Abs!In, Abs!Idle, Abs!Reads,
     Abs!Writes, Abs!WantRead, Abs!WantWrite, At, WaitingWriters

(* Each step of the lock is a step of the abstract lock or none at all.    *)
LEMMA StepRefines == IInv /\ IInv' /\ [Next]_vars => [Abs!Next]_AbsPhase
<1>s. SUFFICES ASSUME IInv, IInv', [Next]_vars PROVE [Abs!Next]_AbsPhase
  OBVIOUS
<1>i. /\ TypeOK /\ TypeOK' /\ CounterCountsHolders /\ WaitingCountsExact
  BY <1>s DEF IInv
<1>e. /\ ReaderMayEnter <=> Abs!ReaderMayEnter
      /\ WriterMayEnter <=> Abs!WriterMayEnter
  <2>1. /\ Cardinality(At(Reading)) \in Nat
        /\ Cardinality(At(Reading)) = 0 <=> At(Reading) = {}
        /\ Cardinality(WaitingWriters) = 0 <=> WaitingWriters = {}
    BY FiniteParts, PartsOfThread
  <2>2. /\ Abs!In(Abs!Reads) = At(Reading)
        /\ Abs!In(Abs!Writes) = At(Writing)
        /\ Abs!In(Abs!WantWrite) = WaitingWriters
    BY <1>i, AbsSets
  <2>. QED
    BY <1>i, <2>1, <2>2 DEF ReaderMayEnter, WriterMayEnter,
       Abs!ReaderMayEnter, Abs!WriterMayEnter, CounterCountsHolders,
       WaitingCountsExact, TypeOK
<1>. DEFINE P(l) == CASE l = Idle                         -> "idle"
                      [] l \in {ReaderAsleep, ReaderAwake} -> "want_read"
                      [] l \in {WriterAsleep, WriterAwake} -> "want_write"
                      [] l = Reading                       -> "reads"
                      [] l = Writing                       -> "writes"
<1>p. /\ AbsPhase = [t \in Thread |-> P(pc[t])]
      /\ AbsPhase' = [t \in Thread |-> P(pc'[t])]
  BY DEF AbsPhase
<1>g. ASSUME NEW t \in Thread, NEW l \in Labels,
             \A u \in Thread : u # t => P(pc'[u]) = P(pc[u]),
             pc'[t] = l
      PROVE  Abs!Go(t, P(l))
  <2>. HIDE DEF P
  <2>. QED  BY <1>g, <1>p DEF Abs!Go
<1>m. ASSUME NEW t \in Thread, NEW l \in Labels, Goto(t, l)
      PROVE  Abs!Go(t, P(l))
  <2>1. pc'[t] = l /\ \A u \in Thread : u # t => pc'[u] = pc[u]
    BY <1>i, <1>m DEF TypeOK, Goto
  <2>. HIDE DEF P
  <2>. QED  BY <2>1, <1>g
<1>1. ASSUME NEW t \in Thread, ReadLock(t) PROVE Abs!AskRead(t)
  BY <1>1, <1>e, <1>m, <1>p DEF ReadLock, Abs!AskRead, Labels, Abs!Idle,
     Abs!Reads, Abs!WantRead
<1>2. ASSUME NEW t \in Thread, ReadLockResume(t)
      PROVE  [Abs!EnterRead(t)]_AbsPhase
  <2>1. CASE ReaderMayEnter
    BY <1>2, <2>1, <1>e, <1>m, <1>p DEF ReadLockResume, Abs!EnterRead, Labels,
       Abs!Reads, Abs!WantRead
  <2>2. CASE ~ReaderMayEnter
    <3>1. pc[t] = ReaderAwake /\ Goto(t, ReaderAsleep)
      BY <1>2, <2>2 DEF ReadLockResume
    <3>2. \A u \in Thread : P(pc'[u]) = P(pc[u])
      BY <1>i, <3>1 DEF Goto, TypeOK
    <3>. QED  BY <3>2, <1>p
  <2>. QED  BY <2>1, <2>2
<1>4. ASSUME NEW t \in Thread, WriteLock(t) PROVE Abs!AskWrite(t)
  BY <1>4, <1>e, <1>m, <1>p DEF WriteLock, Abs!AskWrite, Labels, Abs!Idle,
     Abs!Writes, Abs!WantWrite
<1>5. ASSUME NEW t \in Thread, WriteLockResume(t)
      PROVE  [Abs!EnterWrite(t)]_AbsPhase
  <2>1. CASE WriterMayEnter
    BY <1>5, <2>1, <1>e, <1>m, <1>p DEF WriteLockResume, Abs!EnterWrite,
       Labels, Abs!Writes, Abs!WantWrite
  <2>2. CASE ~WriterMayEnter
    <3>1. pc[t] = WriterAwake /\ Goto(t, WriterAsleep)
      BY <1>5, <2>2 DEF WriteLockResume
    <3>2. \A u \in Thread : P(pc'[u]) = P(pc[u])
      BY <1>i, <3>1 DEF Goto, TypeOK
    <3>. QED  BY <3>2, <1>p
  <2>. QED  BY <2>1, <2>2
<1>n. ASSUME NEW t \in Thread, pc[t] \in {Reading, Writing},
             NotifyOneWriter(t, Idle)
      PROVE  Abs!Go(t, "idle")
  <2>1. CASE Goto(t, Idle)
    BY <2>1, <1>m DEF Labels
  <2>2. ASSUME NEW w \in At(WriterAsleep),
               pc' = [pc EXCEPT ![t] = Idle, ![w] = WriterAwake]
        PROVE  Abs!Go(t, "idle")
    <3>1. w \in Thread /\ pc[w] = WriterAsleep /\ w # t
      BY <1>n DEF At
    <3>2. pc'[t] = Idle /\ \A u \in Thread : u # t => P(pc'[u]) = P(pc[u])
      BY <1>i, <2>2, <3>1 DEF TypeOK
    <3>. QED  BY <3>2, <1>g DEF Labels
  <2>. QED  BY <1>n, <2>1, <2>2 DEF NotifyOneWriter
<1>3. ASSUME NEW t \in Thread, ReadUnlock(t) PROVE Abs!Leave(t)
  <2>1. Abs!Go(t, "idle")
    BY <1>3, <1>n, <1>m DEF ReadUnlock, Labels
  <2>. QED  BY <1>3, <1>p, <2>1 DEF ReadUnlock, Abs!Leave, Abs!Idle, Abs!Reads
<1>6. ASSUME NEW t \in Thread, WriteUnlock(t) PROVE Abs!Leave(t)
  <2>3. Abs!Go(t, "idle")
    <3>1. CASE waiting_writers > 0
      BY <1>6, <3>1, <1>n DEF WriteUnlock
    <3>2. CASE ~(waiting_writers > 0)
      <4>1. pc'[t] = Idle /\ \A u \in Thread : u # t => P(pc'[u]) = P(pc[u])
        BY <1>6, <3>2 DEF WriteUnlock, NotifyAllReaders
      <4>. QED  BY <4>1, <1>g DEF Labels
    <3>. QED  BY <3>1, <3>2
  <2>. QED  BY <1>6, <1>p, <2>3 DEF WriteUnlock, Abs!Leave, Abs!Idle, Abs!Writes
<1>7. ASSUME NEW t \in Thread, SpuriousWakeup(t) PROVE UNCHANGED AbsPhase
  <2>1. \A u \in Thread : P(pc'[u]) = P(pc[u])
    BY <1>7, <1>i DEF SpuriousWakeup, Goto, TypeOK
  <2>. QED  BY <2>1, <1>p
<1>8. CASE UNCHANGED vars
  BY <1>8 DEF vars, AbsPhase
<1>. QED
  BY <1>s, <1>1, <1>2, <1>3, <1>4, <1>5, <1>6, <1>7, <1>8
     DEF Next, Step, Abs!Next

(* The lock of rwlock.h implements the abstract readers/writers lock       *)
(* (safety part), for every finite set of threads.                         *)
THEOREM Refinement == SafeSpec => Abs!SafeSpec
<1>1. Init => Abs!Init
  BY DEF Init, Abs!Init, AbsPhase, Abs!Idle
<1>. QED
  BY <1>1, StepRefines, Safety, PTL DEF SafeSpec, Abs!SafeSpec
=============================================================================
