------------------------------- MODULE RWLock -------------------------------
(***************************************************************************)
(* The readers/writer lock of mace/utils/rwlock.h: RWMutex and its two     *)
(* scoped guards, ReadLock and WriteLock.                                  *)
(*                                                                         *)
(* Every constructor and destructor runs under RWMutex::mutex_, which the  *)
(* only blocking call, condition_variable::wait, gives back.  One action   *)
(* is therefore one stretch of code between two releases of mutex_: up to  *)
(* the wait, from a wake-up to the next wait or to the end, or a whole     *)
(* destructor.  A thread inside wait() is ASLEEP until a notification or a *)
(* spurious wake-up, then AWAKE: it still has to get mutex_ back and to    *)
(* evaluate the predicate again, and other threads may be faster.          *)
(***************************************************************************)
EXTENDS Integers, FiniteSets

CONSTANT Thread

ASSUME ThreadAssumption == IsFiniteSet(Thread)

VARIABLES
  counter,            \* RWMutex::counter_: -1 writer, 0 nobody, 1..n readers
  waiting_readers,    \* RWMutex::waiting_readers_
  waiting_writers,    \* RWMutex::waiting_writers_
  pc                  \* where each thread is in the guards' code

vars == <<counter, waiting_readers, waiting_writers, pc>>

Idle         == "idle"
ReaderAsleep == "reader_asleep"
ReaderAwake  == "reader_awake"
Reading      == "reading"
WriterAsleep == "writer_asleep"
WriterAwake  == "writer_awake"
Writing      == "writing"

Labels == {Idle, ReaderAsleep, ReaderAwake, Reading,
           WriterAsleep, WriterAwake, Writing}

At(l)          == {t \in Thread : pc[t] = l}
WaitingReaders == At(ReaderAsleep) \cup At(ReaderAwake)
WaitingWriters == At(WriterAsleep) \cup At(WriterAwake)

Init ==
  /\ counter = 0
  /\ waiting_readers = 0
  /\ waiting_writers = 0
  /\ pc = [t \in Thread |-> Idle]

-----------------------------------------------------------------------------
(* Bugs: the reader's predicate without the waiting writers, or without    *)
(* the writer inside; the writer's predicate with the wrong comparison.    *)
BugReaderIgnoresWaiting == counter >= 0
BugReaderIgnoresWriter  == waiting_writers = 0
BugWriterIgnoresWriter  == counter <= 0

ReaderMayEnter == waiting_writers = 0 /\ counter >= 0
WriterMayEnter == counter = 0

Goto(t, l) == pc' = [pc EXCEPT ![t] = l]

(* ReadLock::ReadLock up to its wait, or to its end if the predicate       *)
(* holds at once: waiting_readers_ then goes up and down again.            *)
ReadLock(t) ==
  /\ pc[t] = Idle
  /\ \/ /\ ReaderMayEnter
        /\ counter' = counter + 1
        /\ Goto(t, Reading)
        /\ UNCHANGED waiting_readers
     \/ /\ ~ReaderMayEnter
        /\ waiting_readers' = waiting_readers + 1
        /\ Goto(t, ReaderAsleep)
        /\ UNCHANGED counter
  /\ UNCHANGED waiting_writers

(* Bug: waiting_readers_ goes down on every wake-up.                       *)
BugResumeUncounts(t) ==
  /\ pc[t] = ReaderAwake
  /\ waiting_readers' = waiting_readers - 1
  /\ \/ ReaderMayEnter /\ counter' = counter + 1 /\ Goto(t, Reading)
     \/ ~ReaderMayEnter /\ Goto(t, ReaderAsleep) /\ UNCHANGED counter
  /\ UNCHANGED waiting_writers

(* A woken reader gets mutex_ back, evaluates the predicate, and enters or *)
(* goes back to sleep.                                                     *)
ReadLockResume(t) ==
  /\ pc[t] = ReaderAwake
  /\ \/ /\ ReaderMayEnter
        /\ waiting_readers' = waiting_readers - 1
        /\ counter' = counter + 1
        /\ Goto(t, Reading)
     \/ /\ ~ReaderMayEnter
        /\ Goto(t, ReaderAsleep)
        /\ UNCHANGED <<counter, waiting_readers>>
  /\ UNCHANGED waiting_writers

(* writer_cv_.notify_one() by thread t, which then is at label l: any one  *)
(* sleeping writer wakes; with none asleep the notification is lost.       *)
NotifyOneWriter(t, l) ==
  \/ At(WriterAsleep) = {} /\ Goto(t, l)
  \/ \E w \in At(WriterAsleep) :
        pc' = [pc EXCEPT ![t] = l, ![w] = WriterAwake]

(* Bug: reader_cv_.notify_one().                                           *)
BugNotifyOneReader(t, l) ==
  \/ At(ReaderAsleep) = {} /\ Goto(t, l)
  \/ \E r \in At(ReaderAsleep) : pc' = [pc EXCEPT ![t] = l, ![r] = ReaderAwake]

(* reader_cv_.notify_all() by thread t, which then is at label l.          *)
NotifyAllReaders(t, l) ==
  pc' = [u \in Thread |->
           IF u = t THEN l
           ELSE IF pc[u] = ReaderAsleep THEN ReaderAwake ELSE pc[u]]

(* Bug: counter_ is compared with 0 before it goes down.                   *)
BugNotifyTooLate(t) ==
  /\ pc[t] = Reading
  /\ counter' = counter - 1
  /\ IF waiting_writers > 0 /\ counter = 0
     THEN NotifyOneWriter(t, Idle)
     ELSE Goto(t, Idle)
  /\ UNCHANGED <<waiting_readers, waiting_writers>>

(* ReadLock::~ReadLock.                                                    *)
ReadUnlock(t) ==
  /\ pc[t] = Reading
  /\ counter' = counter - 1
  /\ IF waiting_writers > 0 /\ counter' = 0
     THEN NotifyOneWriter(t, Idle)
     ELSE Goto(t, Idle)
  /\ UNCHANGED <<waiting_readers, waiting_writers>>

(* WriteLock::WriteLock up to its wait, or to its end.                     *)
WriteLock(t) ==
  /\ pc[t] = Idle
  /\ \/ /\ WriterMayEnter
        /\ counter' = counter - 1
        /\ Goto(t, Writing)
        /\ UNCHANGED waiting_writers
     \/ /\ ~WriterMayEnter
        /\ waiting_writers' = waiting_writers + 1
        /\ Goto(t, WriterAsleep)
        /\ UNCHANGED counter
  /\ UNCHANGED waiting_readers

(* Bug: waiting_writers_ stays up when the writer gets in.                 *)
BugWriterStaysCounted(t) ==
  /\ pc[t] = WriterAwake
  /\ \/ WriterMayEnter /\ counter' = counter - 1 /\ Goto(t, Writing)
     \/ ~WriterMayEnter /\ Goto(t, WriterAsleep) /\ UNCHANGED counter
  /\ UNCHANGED <<waiting_readers, waiting_writers>>

(* A woken writer: the same.                                               *)
WriteLockResume(t) ==
  /\ pc[t] = WriterAwake
  /\ \/ /\ WriterMayEnter
        /\ waiting_writers' = waiting_writers - 1
        /\ counter' = counter - 1
        /\ Goto(t, Writing)
     \/ /\ ~WriterMayEnter
        /\ Goto(t, WriterAsleep)
        /\ UNCHANGED <<counter, waiting_writers>>
  /\ UNCHANGED waiting_readers

(* WriteLock::~WriteLock: the next writer if there is one, else everybody  *)
(* who wants to read.                                                      *)
WriteUnlock(t) ==
  /\ pc[t] = Writing
  /\ counter' = 0
  /\ IF waiting_writers > 0
     THEN NotifyOneWriter(t, Idle)
     ELSE NotifyAllReaders(t, Idle)
  /\ UNCHANGED <<waiting_readers, waiting_writers>>

(* condition_variable::wait may return without a notification.             *)
SpuriousWakeup(t) ==
  /\ \/ pc[t] = ReaderAsleep /\ Goto(t, ReaderAwake)
     \/ pc[t] = WriterAsleep /\ Goto(t, WriterAwake)
  /\ UNCHANGED <<counter, waiting_readers, waiting_writers>>

-----------------------------------------------------------------------------
Step(t) ==
  \/ ReadLock(t)  \/ ReadLockResume(t)  \/ ReadUnlock(t)
  \/ WriteLock(t) \/ WriteLockResume(t) \/ WriteUnlock(t)

Next == \E t \in Thread : Step(t) \/ SpuriousWakeup(t)

(* A thread that was woken eventually gets mutex_ back (it is held for a   *)
(* few statements only), and a section eventually ends (no user of the     *)
(* lock blocks inside one).  Nothing makes a thread ask for the lock, and  *)
(* a spurious wake-up may always or never come.                            *)
Fairness == \A t \in Thread :
  /\ WF_vars(ReadLockResume(t))
  /\ WF_vars(WriteLockResume(t))
  /\ WF_vars(ReadUnlock(t))
  /\ WF_vars(WriteUnlock(t))

SafeSpec == Init /\ [][Next]_vars
Spec     == SafeSpec /\ Fairness

-----------------------------------------------------------------------------
(* Types: the counters never leave the ranges their comments give, as far  *)
(* as the number of threads is known to be finite.                         *)
TypeOK ==
  /\ counter \in Nat \cup {-1}
  /\ waiting_readers \in Nat
  /\ waiting_writers \in Nat
  /\ pc \in [Thread -> Labels]

(* A writer is alone, although the code only compares one integer.         *)
Exclusion ==
  \A t \in At(Writing) : At(Writing) = {t} /\ At(Reading) = {}

(* rwlock.h:34 says of counter_ "-1 for writer, 0 for nobody, 1~n for      *)
(* reader": it always agrees with who is inside.                           *)
CounterCountsHolders ==
  counter = IF At(Writing) # {} THEN -1 ELSE Cardinality(At(Reading))

(* The two waiting counters agree with who is inside a wait, through every *)
(* wake-up, failed predicate and entry; ~WriteLock and ~ReadLock decide    *)
(* from them whom to wake.                                                 *)
WaitingCountsExact ==
  /\ waiting_readers = Cardinality(WaitingReaders)
  /\ waiting_writers = Cardinality(WaitingWriters)

(* No writer's wake-up is lost: while the lock is free and writers wait,   *)
(* one of them is on its way (~ReadLock wakes only at counter_ = 0, and    *)
(* only one writer, which may lose the race for mutex_).                   *)
NoLostWriterWakeup ==
  counter = 0 /\ WaitingWriters # {} => At(WriterAwake) # {}

(* No reader's wake-up is lost: a reader sleeps only while the predicate   *)
(* keeps it out.  ~WriteLock does not wake readers when it leaves the lock *)
(* to a waiting writer; that writer then answers for them.                 *)
NoLostReaderWakeup ==
  At(ReaderAsleep) # {} => ~ReaderMayEnter

-----------------------------------------------------------------------------
(* The lock implements the abstract one: labels of sleep and wake-up are   *)
(* forgotten, the counters are not needed.                                 *)
AbsPhase ==
  [t \in Thread |-> CASE pc[t] = Idle                         -> "idle"
                     [] pc[t] \in {ReaderAsleep, ReaderAwake} -> "want_read"
                     [] pc[t] \in {WriterAsleep, WriterAwake} -> "want_write"
                     [] pc[t] = Reading                       -> "reads"
                     [] pc[t] = Writing                       -> "writes"]

Abs == INSTANCE ReadersWriters WITH phase <- AbsPhase

(* Every behaviour of the lock is one of ReadersWriters, its fairness      *)
(* included: writer first, one writer at a time, readers that may enter do *)
(* enter, and among the writers that may enter one does.                   *)
ImplementsReadersWriters == Abs!Spec

(* Readers starve only under an endless supply of writers, waiting or not  *)
(* (a writer that finds counter_ = 0 overtakes the readers ~WriteLock has  *)
(* just woken): once writers stop coming, every waiting reader gets in.    *)
ReadersEnter ==
  <>[](WaitingWriters \cup At(Writing) = {}) =>
     \A t \in Thread : t \in WaitingReaders ~> pc[t] = Reading
=============================================================================
