----------------------------- MODULE FileStorage -----------------------------
(***************************************************************************)
(* FileStorage (mace/core/file_storage.cc): a map in memory behind a       *)
(* readers/writer lock, loaded from a file and flushed to it.              *)
(*                                                                         *)
(* The lock is used through ReadersWriters, which rwlock.h is shown to     *)
(* implement (RWLock.tla).  An operation asks for the lock, works on the   *)
(* shared state in one or more steps, and returns; the steps of Flush are  *)
(* kept apart because it walks the map twice, and because the process may  *)
(* die between two of them.                                                *)
(***************************************************************************)
EXTENDS KVStore, Integers

CONSTANT Thread

VARIABLES
  phase,       \* what each thread does with data_mutex_
  pc,          \* the operation each thread is in, and how far
  arg,         \* its key and value
  buffer,      \* Flush: the keys measured and the entries copied
  node,        \* the entry a thread got from Find, by address
  result       \* what the last operation of the thread returned

callvars == <<phase, pc, arg, buffer, node, result>>
vars     == <<kvvars, callvars>>

Lock == INSTANCE ReadersWriters

Present(m) == {k \in Key : m[k] # None}

NoBuffer == [measured |-> {}, copied |-> Empty]
NoArg    == [key |-> None, value |-> None]
NoNode   == [key |-> None, value |-> None]

Flushing == {"flush_measure", "flush_fill", "flush_write"}
Labels   == {"idle", "insert", "find", "flush", "return"} \cup Flushing

(* The process is down, or just up: no thread has called anything yet.     *)
InitCalls ==
  /\ phase = [t \in Thread |-> Lock!Idle]
  /\ pc = [t \in Thread |-> "idle"]
  /\ arg = [t \in Thread |-> NoArg]
  /\ buffer = [t \in Thread |-> NoBuffer]
  /\ node = [t \in Thread |-> NoNode]
  /\ result = [t \in Thread |-> 0]

FSInit == Init /\ InitCalls

Goto(t, l) == pc' = [pc EXCEPT ![t] = l]

-----------------------------------------------------------------------------
(* FileStorage::Load, called while no other thread can have the object     *)
(* (OpenCLRuntime's constructor): it takes the lock and gives it back.     *)
FSLoad == Load /\ UNCHANGED callvars

(* Bug: Insert does not wait for the lock.                                 *)
BugInsertUnlocked(t, k, v) ==
  /\ loaded /\ pc[t] = "idle"
  /\ Goto(t, "insert")
  /\ arg' = [arg EXCEPT ![t] = [key |-> k, value |-> v]]
  /\ phase' = [phase EXCEPT ![t] = Lock!Writes]
  /\ UNCHANGED <<kvvars, buffer, node, result>>

(* Entering an operation: its first statement is the scoped lock.          *)
CallInsert(t, k, v) ==
  /\ loaded /\ pc[t] = "idle"
  /\ Goto(t, "insert")
  /\ arg' = [arg EXCEPT ![t] = [key |-> k, value |-> v]]
  /\ Lock!AskWrite(t)
  /\ UNCHANGED <<kvvars, buffer, node, result>>

CallFind(t, k) ==
  /\ loaded /\ pc[t] = "idle"
  /\ Goto(t, "find")
  /\ arg' = [arg EXCEPT ![t] = [key |-> k, value |-> None]]
  /\ Lock!AskRead(t)
  /\ UNCHANGED <<kvvars, buffer, node, result>>

CallFlush(t) ==
  /\ loaded /\ pc[t] = "idle"
  /\ Goto(t, "flush")
  /\ Lock!AskWrite(t)
  /\ UNCHANGED <<kvvars, arg, buffer, node, result>>

(* The lock lets a waiting thread in.                                      *)
Acquire(t) ==
  /\ Lock!EnterRead(t) \/ Lock!EnterWrite(t)
  /\ UNCHANGED <<kvvars, pc, arg, buffer, node, result>>

Inside(t, l) == pc[t] = l /\ phase[t] \in {Lock!Reads, Lock!Writes}

(* Bug: data_[key] = value, but data_changed_ only for a new key.          *)
BugInsertReplaces(t) ==
  LET k == arg[t].key IN
  /\ Inside(t, "insert")
  /\ data' = [data EXCEPT ![k] = arg[t].value]
  /\ data_changed' = (data_changed \/ data[k] = None)
  /\ result' = [result EXCEPT ![t] = 1]
  /\ Goto(t, "return")
  /\ UNCHANGED <<loaded, flushing, file, phase, arg, buffer, node>>

(* FileStorage::Insert: data_.emplace, which adds nothing when the key is  *)
(* there; it returns true in either case.                                  *)
InsertBody(t) ==
  LET k == arg[t].key IN
  /\ Inside(t, "insert")
  /\ data' = Emplace(data, k, arg[t].value)
  /\ data_changed' = (data_changed \/ data[k] = None)
  /\ result' = [result EXCEPT ![t] = 1]
  /\ Goto(t, "return")
  /\ UNCHANGED <<loaded, flushing, file, phase, arg, buffer, node>>

(* FileStorage::Find returns the address of the entry, not a copy of it.   *)
FindBody(t) ==
  LET k == arg[t].key IN
  /\ Inside(t, "find")
  /\ node' = [node EXCEPT ![t] = IF data[k] = None THEN NoNode
                                 ELSE [key |-> k, value |-> data[k]]]
  /\ Goto(t, "return")
  /\ UNCHANGED <<kvvars, phase, arg, buffer, result>>

(* Bug: the error number itself is returned, here as 2.                    *)
BugFlushReturnsErrno(t) ==
  /\ Inside(t, "flush")
  /\ result' = [result EXCEPT ![t] = IF data_changed THEN 2 ELSE 0]
  /\ Goto(t, "return")
  /\ UNCHANGED <<kvvars, phase, arg, buffer, node>>

(* FileStorage::Flush up to the opening of the file, which empties it.     *)
FlushBody(t) ==
  /\ Inside(t, "flush")
  /\ \/ /\ ~data_changed
        /\ result' = [result EXCEPT ![t] = 0]
        /\ Goto(t, "return")
        /\ UNCHANGED kvvars
     \/ /\ data_changed
        /\ "open" \in Faults
        /\ result' = [result EXCEPT ![t] = -1]
        /\ Goto(t, "return")
        /\ UNCHANGED kvvars
     \/ /\ data_changed
        /\ file' = [state |-> "torn", kv |-> Empty]
        /\ flushing' = TRUE
        /\ Goto(t, "flush_measure")
        /\ UNCHANGED <<loaded, data, data_changed, result>>
  /\ UNCHANGED <<phase, arg, buffer, node>>

(* The first walk over data_ adds up the sizes, and the buffer is made.    *)
FlushMeasure(t) ==
  /\ Inside(t, "flush_measure")
  /\ buffer' = [buffer EXCEPT ![t].measured = Present(data)]
  /\ Goto(t, "flush_fill")
  /\ UNCHANGED <<kvvars, phase, arg, node, result>>

(* The second walk copies the entries into it.                             *)
FlushFill(t) ==
  /\ Inside(t, "flush_fill")
  /\ buffer' = [buffer EXCEPT ![t].copied = data]
  /\ Goto(t, "flush_write")
  /\ UNCHANGED <<kvvars, phase, arg, node, result>>

(* Bug: data_changed_ is not cleared.                                      *)
BugStaysChanged(t) ==
  /\ Inside(t, "flush_write")
  /\ file' = [state |-> "whole", kv |-> buffer[t].copied]
  /\ flushing' = FALSE
  /\ result' = [result EXCEPT ![t] = 0]
  /\ buffer' = [buffer EXCEPT ![t] = NoBuffer]
  /\ Goto(t, "return")
  /\ UNCHANGED <<loaded, data, data_changed, phase, arg, node>>

(* fd.write and what follows: the state of the stream is not looked at, so *)
(* that a write that fails (disk full) also clears data_changed_ and       *)
(* returns 0.                                                              *)
FlushWriteBody(t) ==
  /\ Inside(t, "flush_write")
  /\ \/ file' = [state |-> "whole", kv |-> buffer[t].copied]
     \/ /\ "write" \in Faults
        /\ \E p \in Parts(buffer[t].copied) :
             file' = [state |-> "torn", kv |-> p]
  /\ data_changed' = FALSE
  /\ flushing' = FALSE
  /\ result' = [result EXCEPT ![t] = 0]
  /\ buffer' = [buffer EXCEPT ![t] = NoBuffer]
  /\ Goto(t, "return")
  /\ UNCHANGED <<loaded, data, phase, arg, node>>

(* The end of each operation: the scoped lock is left.                     *)
Return(t) ==
  /\ pc[t] = "return"
  /\ Lock!Leave(t)
  /\ Goto(t, "idle")
  /\ arg' = [arg EXCEPT ![t] = NoArg]
  /\ UNCHANGED <<kvvars, buffer, node, result>>

(* The process ends between operations or, if it crashes, anywhere; its    *)
(* memory is gone and the file stays as far as fd.write has brought it.    *)
FSStop ==
  /\ Stop
  /\ (\E t \in Thread : pc[t] # "idle") => "crash" \in Faults
  /\ file' # file => \E t \in Thread : pc[t] = "flush_write"
  /\ phase' = [t \in Thread |-> Lock!Idle]
  /\ pc' = [t \in Thread |-> "idle"]
  /\ arg' = [t \in Thread |-> NoArg]
  /\ buffer' = [t \in Thread |-> NoBuffer]
  /\ node' = [t \in Thread |-> NoNode]
  /\ result' = [t \in Thread |-> 0]

FSNext ==
  \/ FSLoad
  \/ FSStop
  \/ \E t \in Thread :
       \/ \E k \in Key, v \in Value : CallInsert(t, k, v)
       \/ \E k \in Key : CallFind(t, k)
       \/ CallFlush(t) \/ Acquire(t) \/ Return(t)
       \/ InsertBody(t) \/ FindBody(t) \/ FlushBody(t)
       \/ FlushMeasure(t) \/ FlushFill(t) \/ FlushWriteBody(t)

FSSpec == FSInit /\ [][FSNext]_vars

-----------------------------------------------------------------------------
(* Types of the store's state and of the calls in progress.                *)
FSTypeOK ==
  /\ TypeOK
  /\ phase \in [Thread -> Lock!Phases]
  /\ pc \in [Thread -> Labels]
  /\ arg \in [Thread -> [key : Key \cup {None}, value : Value \cup {None}]]
  /\ buffer \in [Thread -> [measured : SUBSET Key, copied : Content]]
  /\ node \in [Thread -> [key : Key \cup {None},
                          value : Value \cup {None, Garbage}]]
  /\ result \in [Thread -> {-1, 0, 1}]

(* Flush allocates its buffer from one walk over data_ and fills it in     *)
(* another: what is copied is what was measured, or memory behind the      *)
(* buffer is overwritten (file_storage.cc:203-227).                        *)
BufferFits ==
  \A t \in Thread :
    pc[t] = "flush_write" => Present(buffer[t].copied) = buffer[t].measured

(* Find's caller reads the entry after the lock is released                *)
(* (opencl_runtime.cc:514-519): the entry stays where and what it was as   *)
(* long as the process lives, whatever is inserted meanwhile.              *)
NodesStay ==
  \A t \in Thread : node[t] # NoNode => data[node[t].key] = node[t].value

(* data_changed_ is exact enough to skip writing: while it is false and no *)
(* Flush is under way, every entry in memory is on disk, also after a      *)
(* crash in the middle of a Flush and a restart from what it left.  (Not   *)
(* if writes may fail; run storage_write_error.)                           *)
CleanMeansSaved ==
  loaded /\ ~data_changed /\ ~flushing =>
    \A k \in Key : data[k] \in Value => file.kv[k] = data[k]

(* The storage is a KVStore: each operation takes effect at once, between  *)
(* its call and its return, in spite of the others.                        *)
ImplementsKVStore == Spec

(* mace_runtime.h:57 says of Flush "return: 0 for success, -1 for error":  *)
(* when a Flush that had something to write returns 0, the file holds it.  *)
FlushZeroMeansSaved ==
  [][\A t \in Thread :
       pc[t] = "flush_write" /\ pc'[t] = "return" /\ result'[t] = 0
         => file' = [state |-> "whole", kv |-> data]]_vars
=============================================================================
