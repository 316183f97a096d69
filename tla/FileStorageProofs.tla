-------------------------- MODULE FileStorageProofs --------------------------
(***************************************************************************)
(* The file storage, proved for all sets of threads, keys and values.      *)
(*                                                                         *)
(* That Flush writes what it measured, and that nobody inserts meanwhile,  *)
(* rests on three facts none of which holds by itself: a writer is alone,  *)
(* a thread's position in an operation fixes what it does with the lock,   *)
(* and flushing says exactly that some thread is inside Flush.  FSInv is   *)
(* their conjunction with the types and the properties.                    *)
(***************************************************************************)
EXTENDS FileStorage, TLAPS

OneWriter ==
  \A t, u \in Thread :
    phase[t] = "writes" /\ u # t => phase[u] \notin {"reads", "writes"}

(* What a thread in an operation does with the lock.                       *)
Positions ==
  \A t \in Thread :
    /\ pc[t] = "idle" => phase[t] = "idle"
    /\ pc[t] \in {"insert", "flush"} => phase[t] \in {"want_write", "writes"}
    /\ pc[t] = "find" => phase[t] \in {"want_read", "reads"}
    /\ pc[t] = "return" => phase[t] \in {"reads", "writes"}
    /\ pc[t] \in Flushing => phase[t] = "writes"

Arguments ==
  \A t \in Thread :
    /\ pc[t] \in {"insert", "find"} => arg[t].key \in Key
    /\ pc[t] = "insert" => arg[t].value \in Value

FlushingExact == flushing <=> \E t \in Thread : pc[t] \in Flushing

BuffersCurrent ==
  \A t \in Thread :
    /\ pc[t] \in {"flush_fill", "flush_write"} => buffer[t].measured = Present(data)
    /\ pc[t] = "flush_write" => buffer[t].copied = data

NodesCurrent ==
  \A t \in Thread :
    node[t] # NoNode =>
      /\ node[t].key \in Key /\ node[t].value # None
      /\ data[node[t].key] = node[t].value

DownIsIdle == ~loaded => \A t \in Thread : pc[t] = "idle" /\ node[t] = NoNode

FSInv ==
  /\ FSTypeOK /\ OneWriter /\ Positions /\ Arguments
  /\ FlushingExact /\ BuffersCurrent /\ NodesCurrent /\ DownIsIdle
-----------------------------------------------------------------------------
USE DEF Lock!Idle, Lock!WantRead, Lock!WantWrite, Lock!Reads, Lock!Writes

(* How the lock answers: the caller alone moves, and a writer is alone.    *)
LEMMA LockSteps ==
  ASSUME phase \in [Thread -> Lock!Phases], OneWriter, NEW t \in Thread
  PROVE  /\ Lock!AskRead(t) =>
              /\ phase[t] = "idle" /\ OneWriter'
              /\ \E p \in {"want_read", "reads"} : phase' = [phase EXCEPT ![t] = p]
         /\ Lock!AskWrite(t) =>
              /\ phase[t] = "idle" /\ OneWriter'
              /\ \E p \in {"want_write", "writes"} : phase' = [phase EXCEPT ![t] = p]
         /\ Lock!EnterRead(t) =>
              /\ phase[t] = "want_read" /\ OneWriter'
              /\ phase' = [phase EXCEPT ![t] = "reads"]
         /\ Lock!EnterWrite(t) =>
              /\ phase[t] = "want_write" /\ OneWriter'
              /\ phase' = [phase EXCEPT ![t] = "writes"]
         /\ Lock!Leave(t) =>
              /\ phase[t] \in {"reads", "writes"} /\ OneWriter'
              /\ phase' = [phase EXCEPT ![t] = "idle"]
<1>a. ASSUME Lock!AskRead(t)
      PROVE  /\ phase[t] = "idle" /\ OneWriter'
             /\ \E p \in {"want_read", "reads"} : phase' = [phase EXCEPT ![t] = p]
  BY <1>a DEF Lock!AskRead, Lock!ReaderMayEnter, Lock!In, Lock!Go, OneWriter, Lock!Phases
<1>b. ASSUME Lock!AskWrite(t)
      PROVE  /\ phase[t] = "idle" /\ OneWriter'
             /\ \E p \in {"want_write", "writes"} : phase' = [phase EXCEPT ![t] = p]
  BY <1>b DEF Lock!AskWrite, Lock!WriterMayEnter, Lock!In, Lock!Go, OneWriter, Lock!Phases
<1>c. ASSUME Lock!EnterRead(t)
      PROVE  /\ phase[t] = "want_read" /\ OneWriter'
             /\ phase' = [phase EXCEPT ![t] = "reads"]
  BY <1>c DEF Lock!EnterRead, Lock!ReaderMayEnter, Lock!In, Lock!Go, OneWriter, Lock!Phases
<1>d. ASSUME Lock!EnterWrite(t)
      PROVE  /\ phase[t] = "want_write" /\ OneWriter'
             /\ phase' = [phase EXCEPT ![t] = "writes"]
  BY <1>d DEF Lock!EnterWrite, Lock!WriterMayEnter, Lock!In, Lock!Go, OneWriter, Lock!Phases
<1>e. ASSUME Lock!Leave(t)
      PROVE  /\ phase[t] \in {"reads", "writes"} /\ OneWriter'
             /\ phase' = [phase EXCEPT ![t] = "idle"]
  BY <1>e DEF Lock!Leave, Lock!Go, OneWriter, Lock!Phases
<1>. QED  BY <1>a, <1>b, <1>c, <1>d, <1>e

(* The data an entry is made of.                                           *)
LEMMA EmplaceContent ==
  ASSUME NEW d \in Content, NEW k \in Key, NEW v \in Value
  PROVE  /\ Emplace(d, k, v) \in Content
         /\ d[k] # None => Emplace(d, k, v) = d
         /\ \A j \in Key : d[j] # None => Emplace(d, k, v)[j] = d[j]
  BY DEF Emplace, Content

(* Whoever is inside a section of the store: the store is loaded, and no   *)
(* Flush is under way but perhaps his own.                                 *)
LEMMA InsideFacts ==
  ASSUME FSInv, NEW t \in Thread, pc[t] # "idle"
  PROVE  /\ loaded
         /\ pc[t] \in {"insert", "find", "flush"}
              /\ phase[t] \in {"reads", "writes"} => ~flushing
         /\ pc[t] \in {"insert", "flush"} /\ phase[t] \in {"reads", "writes"}
              => \A u \in Thread : u # t => pc[u] \notin Flushing
<1>1. loaded
  BY DEF FSInv, DownIsIdle
<1>2. \A u \in Thread : pc[u] \in Flushing => phase[u] = "writes"
  BY DEF FSInv, Positions, Flushing
<1>3. phase[t] \in {"reads", "writes"} => \A u \in Thread : u # t => pc[u] \notin Flushing
  BY <1>2 DEF FSInv, OneWriter
<1>4. pc[t] \in {"insert", "find", "flush"} => pc[t] \notin Flushing
  BY DEF Flushing
<1>. QED  BY <1>1, <1>3, <1>4 DEF FSInv, FlushingExact

(* A call of an operation leaves the store alone.                          *)
LEMMA CallsKeep ==
  ASSUME FSInv, NEW t \in Thread,
         \/ \E k \in Key, v \in Value : CallInsert(t, k, v)
         \/ \E k \in Key : CallFind(t, k)
         \/ CallFlush(t)
  PROVE  FSInv'
<1>. USE DEF FSInv
<1>1. ASSUME NEW k \in Key, NEW v \in Value, CallInsert(t, k, v)
      PROVE  FSInv'
  <2>1. /\ loaded /\ pc[t] = "idle" /\ OneWriter'
        /\ pc' = [pc EXCEPT ![t] = "insert"]
        /\ arg' = [arg EXCEPT ![t] = [key |-> k, value |-> v]]
        /\ \E p \in {"want_write", "writes"} : phase' = [phase EXCEPT ![t] = p]
        /\ UNCHANGED <<loaded, data, data_changed, flushing, file, buffer, node, result>>
    BY <1>1, LockSteps DEF CallInsert, Goto, FSTypeOK, kvvars
  <2>2. FSTypeOK'
    BY <2>1 DEF FSTypeOK, TypeOK, Labels, Lock!Phases
  <2>3. Positions' /\ Arguments' /\ FlushingExact'
    BY <2>1 DEF FSTypeOK, Positions, Arguments, FlushingExact, Flushing
  <2>4. BuffersCurrent' /\ NodesCurrent' /\ DownIsIdle'
    BY <2>1 DEF FSTypeOK, BuffersCurrent, NodesCurrent, DownIsIdle, Present
  <2>. QED  BY <2>1, <2>2, <2>3, <2>4
<1>2. ASSUME NEW k \in Key, CallFind(t, k)
      PROVE  FSInv'
  <2>1. /\ loaded /\ pc[t] = "idle" /\ OneWriter'
        /\ pc' = [pc EXCEPT ![t] = "find"]
        /\ arg' = [arg EXCEPT ![t] = [key |-> k, value |-> None]]
        /\ \E p \in {"want_read", "reads"} : phase' = [phase EXCEPT ![t] = p]
        /\ UNCHANGED <<loaded, data, data_changed, flushing, file, buffer, node, result>>
    BY <1>2, LockSteps DEF CallFind, Goto, FSTypeOK, kvvars
  <2>2. FSTypeOK'
    BY <2>1 DEF FSTypeOK, TypeOK, Labels, Lock!Phases
  <2>3. Positions' /\ Arguments' /\ FlushingExact'
    BY <2>1 DEF FSTypeOK, Positions, Arguments, FlushingExact, Flushing
  <2>4. BuffersCurrent' /\ NodesCurrent' /\ DownIsIdle'
    BY <2>1 DEF FSTypeOK, BuffersCurrent, NodesCurrent, DownIsIdle, Present
  <2>. QED  BY <2>1, <2>2, <2>3, <2>4
<1>3. ASSUME CallFlush(t)
      PROVE  FSInv'
  <2>1. /\ loaded /\ pc[t] = "idle" /\ OneWriter'
        /\ pc' = [pc EXCEPT ![t] = "flush"]
        /\ \E p \in {"want_write", "writes"} : phase' = [phase EXCEPT ![t] = p]
        /\ UNCHANGED <<loaded, data, data_changed, flushing, file, arg, buffer, node, result>>
    BY <1>3, LockSteps DEF CallFlush, Goto, FSTypeOK, kvvars
  <2>2. FSTypeOK'
    BY <2>1 DEF FSTypeOK, TypeOK, Labels, Lock!Phases
  <2>3. Positions' /\ Arguments' /\ FlushingExact'
    BY <2>1 DEF FSTypeOK, Positions, Arguments, FlushingExact, Flushing
  <2>4. BuffersCurrent' /\ NodesCurrent' /\ DownIsIdle'
    BY <2>1 DEF FSTypeOK, BuffersCurrent, NodesCurrent, DownIsIdle, Present
  <2>. QED  BY <2>1, <2>2, <2>3, <2>4
<1>. QED  BY <1>1, <1>2, <1>3

(* Entering and leaving a section.                                         *)
LEMMA AcquireKeeps ==
  ASSUME FSInv, NEW t \in Thread, Acquire(t)
  PROVE  FSInv'
<1>. USE DEF FSInv
<1>1. /\ OneWriter'
      /\ \/ phase[t] = "want_read" /\ phase' = [phase EXCEPT ![t] = "reads"]
         \/ phase[t] = "want_write" /\ phase' = [phase EXCEPT ![t] = "writes"]
      /\ UNCHANGED <<kvvars, pc, arg, buffer, node, result>>
  BY LockSteps DEF Acquire, FSTypeOK
<1>2. FSTypeOK' /\ Positions'
  BY <1>1 DEF FSTypeOK, TypeOK, Lock!Phases, kvvars, Positions, Labels, Flushing
<1>3. Arguments' /\ FlushingExact' /\ BuffersCurrent' /\ NodesCurrent' /\ DownIsIdle'
  BY <1>1 DEF kvvars, Arguments, FlushingExact, BuffersCurrent, NodesCurrent, DownIsIdle,
              Present
<1>. QED  BY <1>1, <1>2, <1>3

LEMMA ReturnKeeps ==
  ASSUME FSInv, NEW t \in Thread, Return(t)
  PROVE  FSInv'
<1>. USE DEF FSInv
<1>1. /\ OneWriter' /\ pc[t] = "return"
      /\ phase' = [phase EXCEPT ![t] = "idle"]
      /\ pc' = [pc EXCEPT ![t] = "idle"]
      /\ arg' = [arg EXCEPT ![t] = NoArg]
      /\ UNCHANGED <<kvvars, buffer, node, result>>
  BY LockSteps DEF Return, Goto, FSTypeOK
<1>2. FSTypeOK'
  BY <1>1 DEF FSTypeOK, TypeOK, Lock!Phases, Labels, kvvars, NoArg
<1>3. Positions' /\ Arguments' /\ FlushingExact'
  BY <1>1 DEF FSTypeOK, kvvars, Positions, Arguments, FlushingExact, Flushing
<1>4. BuffersCurrent' /\ NodesCurrent' /\ DownIsIdle'
  BY <1>1, InsideFacts DEF FSTypeOK, kvvars, BuffersCurrent, NodesCurrent, DownIsIdle, Present
<1>. QED  BY <1>1, <1>2, <1>3, <1>4

(* Insert adds at most one entry, and none that a Flush under way has not  *)
(* counted.                                                                *)
LEMMA InsertKeeps ==
  ASSUME FSInv, NEW t \in Thread, InsertBody(t)
  PROVE  FSInv'
<1>. USE DEF FSInv
<1>. DEFINE k == arg[t].key
            v == arg[t].value
<1>1. /\ pc[t] = "insert" /\ phase[t] \in {"reads", "writes"}
      /\ k \in Key /\ v \in Value /\ data \in Content
      /\ data' = Emplace(data, k, v)
      /\ data_changed' = (data_changed \/ data[k] = None)
      /\ result' = [result EXCEPT ![t] = 1]
      /\ pc' = [pc EXCEPT ![t] = "return"]
      /\ UNCHANGED <<loaded, flushing, file, phase, arg, buffer, node>>
  BY DEF InsertBody, Inside, Goto, Arguments, FSTypeOK, TypeOK
<1>2. /\ loaded /\ ~flushing
      /\ \A u \in Thread : u # t => pc[u] \notin Flushing
  BY <1>1, InsideFacts
<1>3. data' \in Content /\ \A j \in Key : data[j] # None => data'[j] = data[j]
  BY <1>1, EmplaceContent
<1>4. FSTypeOK'
  BY <1>1, <1>3 DEF FSTypeOK, TypeOK, Labels
<1>5. Positions' /\ Arguments' /\ FlushingExact' /\ OneWriter'
  BY <1>1 DEF FSTypeOK, Positions, Arguments, FlushingExact, Flushing, OneWriter
<1>6. BuffersCurrent'
  BY <1>1, <1>2 DEF FSTypeOK, BuffersCurrent, Flushing
<1>7. NodesCurrent' /\ DownIsIdle'
  BY <1>1, <1>2, <1>3 DEF NodesCurrent, DownIsIdle
<1>. QED  BY <1>4, <1>5, <1>6, <1>7

LEMMA FindKeeps ==
  ASSUME FSInv, NEW t \in Thread, FindBody(t)
  PROVE  FSInv'
<1>. USE DEF FSInv
<1>1. /\ pc[t] = "find" /\ phase[t] \in {"reads", "writes"}
      /\ arg[t].key \in Key /\ data \in Content
      /\ node' = [node EXCEPT ![t] = IF data[arg[t].key] = None THEN NoNode
                                     ELSE [key |-> arg[t].key, value |-> data[arg[t].key]]]
      /\ pc' = [pc EXCEPT ![t] = "return"]
      /\ UNCHANGED <<kvvars, phase, arg, buffer, result>>
  BY DEF FindBody, Inside, Goto, Arguments, FSTypeOK, TypeOK
<1>2. loaded
  BY <1>1, InsideFacts
<1>3. FSTypeOK'
  BY <1>1 DEF FSTypeOK, TypeOK, Labels, kvvars, Content, NoNode
<1>4. Positions' /\ Arguments' /\ FlushingExact' /\ OneWriter'
  BY <1>1 DEF FSTypeOK, kvvars, Positions, Arguments, FlushingExact, Flushing, OneWriter
<1>5. BuffersCurrent' /\ DownIsIdle'
  BY <1>1, <1>2 DEF FSTypeOK, kvvars, BuffersCurrent, DownIsIdle, Present
<1>6. NodesCurrent'
  BY <1>1 DEF FSTypeOK, kvvars, NodesCurrent, NoNode
<1>. QED  BY <1>3, <1>4, <1>5, <1>6

(* The steps of Flush, by the only writer.                                 *)
LEMMA FlushKeeps ==
  ASSUME FSInv, NEW t \in Thread,
         FlushBody(t) \/ FlushMeasure(t) \/ FlushFill(t) \/ FlushWriteBody(t)
  PROVE  FSInv'
<1>. USE DEF FSInv
<1>0. /\ data \in Content /\ Empty \in Content /\ Present(data) \subseteq Key
      /\ NoBuffer.measured = {} /\ NoBuffer.copied = Empty
  BY DEF FSTypeOK, TypeOK, Content, Empty, Present, NoBuffer
<1>w. ASSUME NEW l \in Flushing, pc[t] = l
      PROVE  /\ loaded /\ flushing /\ phase[t] = "writes"
             /\ \A u \in Thread : u # t => pc[u] \notin Flushing
  BY <1>w, InsideFacts DEF Positions, FlushingExact, OneWriter, Flushing
<1>1. ASSUME FlushBody(t) PROVE FSInv'
  <2>1. /\ pc[t] = "flush" /\ phase[t] = "writes" /\ loaded /\ ~flushing
        /\ \A u \in Thread : u # t => pc[u] \notin Flushing
    BY <1>1, InsideFacts DEF FlushBody, Inside, Positions
  <2>2. CASE /\ pc' = [pc EXCEPT ![t] = "return"]
             /\ \E r \in {-1, 0} : result' = [result EXCEPT ![t] = r]
             /\ UNCHANGED <<kvvars, phase, arg, buffer, node>>
    <3>1. FSTypeOK'
      BY <2>2 DEF FSTypeOK, TypeOK, Labels, kvvars
    <3>2. Positions' /\ Arguments' /\ FlushingExact' /\ OneWriter'
      BY <2>1, <2>2 DEF FSTypeOK, kvvars, Positions, Arguments, FlushingExact, Flushing, OneWriter
    <3>3. BuffersCurrent' /\ NodesCurrent' /\ DownIsIdle'
      BY <2>1, <2>2 DEF FSTypeOK, kvvars, BuffersCurrent, NodesCurrent, DownIsIdle, Present
    <3>. QED  BY <3>1, <3>2, <3>3
  <2>3. CASE /\ file' = [state |-> "torn", kv |-> Empty] /\ flushing' = TRUE
             /\ pc' = [pc EXCEPT ![t] = "flush_measure"]
             /\ UNCHANGED <<loaded, data, data_changed, result, phase, arg, buffer, node>>
    <3>1. FSTypeOK'
      BY <1>0, <2>3 DEF FSTypeOK, TypeOK, Labels, Flushing, FileStates
    <3>2. Positions' /\ Arguments' /\ FlushingExact' /\ OneWriter'
      BY <2>1, <2>3 DEF FSTypeOK, Positions, Arguments, FlushingExact, Flushing, OneWriter
    <3>3. BuffersCurrent' /\ NodesCurrent' /\ DownIsIdle'
      BY <2>1, <2>3 DEF FSTypeOK, BuffersCurrent, NodesCurrent, DownIsIdle, Present
    <3>. QED  BY <3>1, <3>2, <3>3
  <2>. QED  BY <1>1, <2>2, <2>3 DEF FlushBody, Goto
<1>2. ASSUME FlushMeasure(t) PROVE FSInv'
  <2>1. /\ pc[t] = "flush_measure"
        /\ buffer' = [buffer EXCEPT ![t].measured = Present(data)]
        /\ pc' = [pc EXCEPT ![t] = "flush_fill"]
        /\ UNCHANGED <<kvvars, phase, arg, node, result>>
    BY <1>2 DEF FlushMeasure, Inside, Goto
  <2>2. FSTypeOK'
    BY <1>0, <2>1 DEF FSTypeOK, TypeOK, Labels, Flushing, kvvars
  <2>3. Positions' /\ Arguments' /\ FlushingExact' /\ OneWriter'
    BY <1>w, <2>1 DEF FSTypeOK, kvvars, Positions, Arguments, FlushingExact, Flushing, OneWriter
  <2>4. BuffersCurrent' /\ NodesCurrent' /\ DownIsIdle'
    BY <1>w, <2>1 DEF FSTypeOK, kvvars, BuffersCurrent, NodesCurrent, DownIsIdle, Present, Flushing
  <2>. QED  BY <2>2, <2>3, <2>4
<1>3. ASSUME FlushFill(t) PROVE FSInv'
  <2>1. /\ pc[t] = "flush_fill"
        /\ buffer' = [buffer EXCEPT ![t].copied = data]
        /\ pc' = [pc EXCEPT ![t] = "flush_write"]
        /\ UNCHANGED <<kvvars, phase, arg, node, result>>
    BY <1>3 DEF FlushFill, Inside, Goto
  <2>2. FSTypeOK'
    BY <1>0, <2>1 DEF FSTypeOK, TypeOK, Labels, Flushing, kvvars
  <2>3. Positions' /\ Arguments' /\ FlushingExact' /\ OneWriter'
    BY <1>w, <2>1 DEF FSTypeOK, kvvars, Positions, Arguments, FlushingExact, Flushing, OneWriter
  <2>4. BuffersCurrent' /\ NodesCurrent' /\ DownIsIdle'
    BY <1>w, <2>1 DEF FSTypeOK, kvvars, BuffersCurrent, NodesCurrent, DownIsIdle, Present, Flushing
  <2>. QED  BY <2>2, <2>3, <2>4
<1>4. ASSUME FlushWriteBody(t) PROVE FSInv'
  <2>1. /\ pc[t] = "flush_write"
        /\ file' \in [state : FileStates, kv : Content]
        /\ data_changed' = FALSE /\ flushing' = FALSE
        /\ result' = [result EXCEPT ![t] = 0]
        /\ buffer' = [buffer EXCEPT ![t] = NoBuffer]
        /\ pc' = [pc EXCEPT ![t] = "return"]
        /\ UNCHANGED <<loaded, data, phase, arg, node>>
    BY <1>4 DEF FlushWriteBody, Inside, Goto, FSTypeOK, Parts, FileStates
  <2>2. FSTypeOK'
    BY <1>0, <2>1 DEF FSTypeOK, TypeOK, Labels, NoBuffer
  <2>3. Positions' /\ Arguments' /\ FlushingExact' /\ OneWriter'
    BY <1>w, <2>1 DEF FSTypeOK, Positions, Arguments, FlushingExact, Flushing, OneWriter
  <2>4. BuffersCurrent' /\ NodesCurrent' /\ DownIsIdle'
    BY <1>w, <2>1 DEF FSTypeOK, BuffersCurrent, NodesCurrent, DownIsIdle, Flushing
  <2>. QED  BY <2>2, <2>3, <2>4
<1>. QED  BY <1>1, <1>2, <1>3, <1>4

(* The store is loaded while nobody is inside, and stops for everybody.    *)
LEMMA LoadStopKeep ==
  ASSUME FSInv, FSLoad \/ FSStop
  PROVE  FSInv'
<1>. USE DEF FSInv
<1>1. ASSUME FSLoad PROVE FSInv'
  <2>1. /\ ~loaded /\ loaded' = TRUE /\ data' \in Content
        /\ UNCHANGED <<data_changed, flushing, file>>
        /\ UNCHANGED callvars
    BY <1>1 DEF FSLoad, Load, FSTypeOK, TypeOK, Content, Empty, TornReadings
  <2>2. FSTypeOK'
    BY <2>1 DEF FSTypeOK, TypeOK, callvars
  <2>3. Positions' /\ Arguments' /\ FlushingExact' /\ OneWriter'
    BY <2>1 DEF callvars, Positions, Arguments, FlushingExact, OneWriter
  <2>4. BuffersCurrent' /\ NodesCurrent' /\ DownIsIdle'
    BY <2>1 DEF callvars, BuffersCurrent, NodesCurrent, DownIsIdle
  <2>. QED  BY <2>2, <2>3, <2>4
<1>2. ASSUME FSStop PROVE FSInv'
  <2>1. /\ loaded' = FALSE /\ data_changed' = FALSE /\ flushing' = FALSE
        /\ data' = Empty /\ file' \in [state : FileStates, kv : Content]
        /\ InitCalls'
    BY <1>2 DEF FSStop, Stop, FSTypeOK, TypeOK, Parts, FileStates, InitCalls
  <2>2. FSTypeOK'
    BY <2>1 DEF FSTypeOK, TypeOK, InitCalls, Lock!Phases, Labels, NoArg, NoBuffer, NoNode,
                Content, Empty
  <2>3. Positions' /\ Arguments' /\ FlushingExact' /\ OneWriter'
    BY <2>1 DEF InitCalls, Positions, Arguments, FlushingExact, OneWriter, Flushing
  <2>4. BuffersCurrent' /\ NodesCurrent' /\ DownIsIdle'
    BY <2>1 DEF InitCalls, BuffersCurrent, NodesCurrent, DownIsIdle
  <2>. QED  BY <2>2, <2>3, <2>4
<1>. QED  BY <1>1, <1>2

(* The storage starts empty, with nobody in it.                            *)
LEMMA InitHolds == FSInit => FSInv
<1>. SUFFICES ASSUME FSInit PROVE FSInv
  OBVIOUS
<1>1. FSTypeOK
  BY DEF FSInit, Init, InitCalls, FSTypeOK, TypeOK, Lock!Phases, Labels, NoArg, NoBuffer,
         NoNode, Content, Empty, FileStates
<1>2. Positions /\ Arguments /\ FlushingExact /\ OneWriter
  BY DEF FSInit, Init, InitCalls, Positions, Arguments, FlushingExact, OneWriter, Flushing
<1>3. BuffersCurrent /\ NodesCurrent /\ DownIsIdle
  BY DEF FSInit, Init, InitCalls, BuffersCurrent, NodesCurrent, DownIsIdle
<1>. QED  BY <1>1, <1>2, <1>3 DEF FSInv

(* Every step keeps the invariant.                                         *)
LEMMA StepKeeps == FSInv /\ [FSNext]_vars => FSInv'
<1>. SUFFICES ASSUME FSInv, [FSNext]_vars PROVE FSInv'
  OBVIOUS
<1>1. CASE UNCHANGED vars
  BY <1>1 DEF vars, kvvars, callvars, FSInv, FSTypeOK, TypeOK, OneWriter, Positions, Arguments,
              FlushingExact, BuffersCurrent, NodesCurrent, DownIsIdle, Present
<1>. QED
  BY <1>1, CallsKeep, AcquireKeeps, ReturnKeeps, InsertKeeps, FindKeeps, FlushKeeps,
     LoadStopKeep DEF FSNext

-----------------------------------------------------------------------------
(* The invariant, from which the properties below follow.                  *)
THEOREM Consistent == FSSpec => []FSInv
  BY InitHolds, StepKeeps, PTL DEF FSSpec

(* Flush never writes behind its buffer: between the walk that measures    *)
(* data_ and the one that copies it, nothing is inserted, by whatever      *)
(* number of threads.                                                      *)
THEOREM FlushFits == FSSpec => []BufferFits
<1>1. FSInv => BufferFits
  BY DEF FSInv, BuffersCurrent, BufferFits, Flushing
<1>. QED  BY <1>1, Consistent, PTL

(* What Find returned stays valid and unchanged until the process ends.    *)
THEOREM FoundStays == FSSpec => []NodesStay
<1>1. FSInv => NodesStay
  BY DEF FSInv, NodesCurrent, NodesStay
<1>. QED  BY <1>1, Consistent, PTL

(* The state of the storage and of the calls in progress keeps its type.   *)
THEOREM StorageTypes == FSSpec => []FSTypeOK
<1>1. FSInv => FSTypeOK
  BY DEF FSInv
<1>. QED  BY <1>1, Consistent, PTL

-----------------------------------------------------------------------------
(* If writes do not fail, a step from a store that is clean only if it is  *)
(* saved leads to one.                                                     *)
LEMMA CleanStep ==
  ASSUME "write" \notin Faults, FSInv, CleanMeansSaved, [FSNext]_vars
  PROVE  CleanMeansSaved'
<1>. USE DEF CleanMeansSaved
<1>1. CASE UNCHANGED kvvars
  BY <1>1 DEF kvvars
<1>2. CASE FSLoad
  <2>1. /\ UNCHANGED file /\ file.kv \in Content
        /\ \/ data' = Empty \/ data' = file.kv \/ data' \in TornReadings(file.kv)
    BY <1>2 DEF FSLoad, Load, FSInv, FSTypeOK, TypeOK
  <2>. QED  BY <2>1, KVStoreAssumption DEF Empty, TornReadings
<1>3. CASE FSStop
  BY <1>3 DEF FSStop, Stop
<1>4. ASSUME NEW t \in Thread, InsertBody(t) PROVE CleanMeansSaved'
  <2>1. /\ arg[t].key \in Key /\ arg[t].value \in Value /\ data \in Content
        /\ data' = Emplace(data, arg[t].key, arg[t].value)
        /\ data_changed' = (data_changed \/ data[arg[t].key] = None)
        /\ UNCHANGED <<loaded, flushing, file>>
    BY <1>4 DEF InsertBody, Inside, FSInv, FSTypeOK, TypeOK, Arguments
  <2>2. data_changed' = FALSE => data' = data /\ data_changed = FALSE
    BY <2>1, EmplaceContent DEF FSInv, FSTypeOK, TypeOK
  <2>. QED  BY <2>1, <2>2 DEF FSInv, FSTypeOK, TypeOK
<1>5. ASSUME NEW t \in Thread, FlushBody(t) PROVE CleanMeansSaved'
  <2>1. UNCHANGED kvvars \/ flushing' = TRUE
    BY <1>5 DEF FlushBody
  <2>. QED  BY <1>1, <2>1
<1>6. ASSUME NEW t \in Thread, FlushWriteBody(t) PROVE CleanMeansSaved'
  <2>1. file'.kv = data /\ data' = data
    BY <1>6 DEF FlushWriteBody, Inside, FSInv, BuffersCurrent
  <2>. QED  BY <2>1
<1>. QED
  BY <1>1, <1>2, <1>3, <1>4, <1>5, <1>6
     DEF FSNext, vars, CallInsert, CallFind, CallFlush, Acquire, Return, FindBody,
         FlushMeasure, FlushFill

(* If writes do not fail, what a clean store has in memory is on disk,     *)
(* through crashes in the middle of a Flush and restarts from what they    *)
(* left, so that Flush may return at once (file_storage.cc:191).       *)
THEOREM CleanIsSaved ==
  ASSUME "write" \notin Faults
  PROVE  FSSpec => []CleanMeansSaved
<1>1. FSInit => CleanMeansSaved
  BY DEF FSInit, Init, CleanMeansSaved
<1>2. FSInv /\ CleanMeansSaved /\ [FSNext]_vars => CleanMeansSaved'
  BY CleanStep
<1>. QED  BY <1>1, <1>2, Consistent, PTL DEF FSSpec

-----------------------------------------------------------------------------
(* Every step of the storage is a step of the abstract one or changes      *)
(* nothing of it: an operation takes effect where its body runs.           *)
LEMMA StepImplements ==
  ASSUME FSInv, [FSNext]_vars
  PROVE  [Next]_kvvars
<1>1. CASE FSLoad
  BY <1>1 DEF FSLoad, Next
<1>2. CASE FSStop
  BY <1>2 DEF FSStop, Next
<1>3. ASSUME NEW t \in Thread, InsertBody(t) PROVE Next
  <2>1. /\ arg[t].key \in Key /\ arg[t].value \in Value /\ loaded /\ ~flushing
    BY <1>3, InsideFacts DEF InsertBody, Inside, FSInv, Arguments
  <2>2. Insert(arg[t].key, arg[t].value)
    BY <1>3, <2>1 DEF InsertBody, Insert
  <2>. QED  BY <2>1, <2>2 DEF Next
<1>4. ASSUME NEW t \in Thread, FlushBody(t) PROVE [Next]_kvvars
  <2>1. loaded /\ ~flushing
    BY <1>4, InsideFacts DEF FlushBody, Inside
  <2>2. CASE UNCHANGED kvvars
    BY <2>2
  <2>3. CASE ~UNCHANGED kvvars
    <3>1. FlushOpen
      BY <1>4, <2>1, <2>3 DEF FlushBody, FlushOpen
    <3>. QED  BY <3>1 DEF Next
  <2>. QED  BY <2>2, <2>3
<1>5. ASSUME NEW t \in Thread, FlushWriteBody(t) PROVE Next
  <2>1. flushing /\ buffer[t].copied = data
    BY <1>5 DEF FlushWriteBody, Inside, FSInv, FlushingExact, BuffersCurrent, Flushing
  <2>2. FlushWrite
    BY <1>5, <2>1 DEF FlushWriteBody, FlushWrite
  <2>. QED  BY <2>2 DEF Next
<1>. QED
  BY <1>1, <1>2, <1>3, <1>4, <1>5
     DEF FSNext, vars, CallInsert, CallFind, CallFlush, Acquire, Return, FindBody,
         FlushMeasure, FlushFill

(* The storage behind its lock is a KVStore, for any number of threads.    *)
THEOREM StorageRefines == FSSpec => ImplementsKVStore
<1>1. FSInit => Init
  BY DEF FSInit
<1>. QED  BY <1>1, StepImplements, Consistent, PTL DEF FSSpec, Spec, ImplementsKVStore
=============================================================================
