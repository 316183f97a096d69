--------------------------- MODULE ReadersWriters ---------------------------
(***************************************************************************)
(* What a user of mace/utils/rwlock.h is promised, without counters,       *)
(* condition variables or wake-ups: a thread asks for a section, enters it *)
(* when the readers/writers rule lets it, and leaves it.  The rule is the  *)
(* one the header announces, "Writer first": a reader enters only while no *)
(* writer holds the lock and none waits for it.                            *)
(*                                                                         *)
(* RWLock.tla is shown to implement this module, and FileStorage.tla is    *)
(* built on top of it.                                                     *)
(***************************************************************************)

CONSTANT Thread

VARIABLE phase        \* what each thread does with the lock

Idle      == "idle"
WantRead  == "want_read"
WantWrite == "want_write"
Reads     == "reads"
Writes    == "writes"

Phases == {Idle, WantRead, WantWrite, Reads, Writes}

In(p) == {t \in Thread : phase[t] = p}

TypeOK == phase \in [Thread -> Phases]

Init == phase = [t \in Thread |-> Idle]

Go(t, p) == phase' = [phase EXCEPT ![t] = p]

-----------------------------------------------------------------------------
ReaderMayEnter == In(Writes) = {} /\ In(WantWrite) = {}
WriterMayEnter == In(Writes) = {} /\ In(Reads) = {}

(* The constructor of ReadLock: enter at once, or wait.                    *)
AskRead(t) ==
  /\ phase[t] = Idle
  /\ IF ReaderMayEnter THEN Go(t, Reads) ELSE Go(t, WantRead)

EnterRead(t) ==
  /\ phase[t] = WantRead
  /\ ReaderMayEnter
  /\ Go(t, Reads)

(* The constructor of WriteLock.                                           *)
AskWrite(t) ==
  /\ phase[t] = Idle
  /\ IF WriterMayEnter THEN Go(t, Writes) ELSE Go(t, WantWrite)

EnterWrite(t) ==
  /\ phase[t] = WantWrite
  /\ WriterMayEnter
  /\ Go(t, Writes)

(* The destructors.                                                        *)
Leave(t) ==
  /\ phase[t] \in {Reads, Writes}
  /\ Go(t, Idle)

Next == \E t \in Thread :
  AskRead(t) \/ EnterRead(t) \/ AskWrite(t) \/ EnterWrite(t) \/ Leave(t)

(* A reader that may enter for good does enter; when writers may enter,    *)
(* one of them does.  Nothing is promised to one given writer: the lock    *)
(* has no queue.                                                           *)
Fairness ==
  /\ \A t \in Thread : WF_phase(EnterRead(t))
  /\ WF_phase(\E t \in Thread : EnterWrite(t))

SafeSpec == Init /\ [][Next]_phase
Spec     == SafeSpec /\ Fairness

-----------------------------------------------------------------------------
(* A writer is alone in its section: what every user of the lock relies on *)
(* (file_storage.cc guards data_ and data_changed_ with it).               *)
Exclusion ==
  \A t \in In(Writes) : In(Writes) = {t} /\ In(Reads) = {}
=============================================================================
