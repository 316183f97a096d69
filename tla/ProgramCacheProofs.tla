-------------------------- MODULE ProgramCacheProofs --------------------------
(***************************************************************************)
(* What holds of the programs and of the store below them, for any number  *)
(* of threads, kernels, drivers and restarts.                              *)
(***************************************************************************)
EXTENDS ProgramCache, TLAPS

Labels == {"idle", "lock", "cache", "precompiled", "source",
           "insert_binary", "insert_info", "record", "save"}

(* Between taking and giving back program_build_mutex_.                    *)
Inside == {"cache", "precompiled", "source", "insert_binary", "insert_info", "record"}

Keys    == Kernel \cup {InfoKey}
Entries == Platform \cup {None, Garbage}

(* Types, with those of the positions.                                     *)
Types == TypeOK /\ pc \in [Thread -> Labels]

(* The mutex: who is inside is its owner, and has the kernel to itself.    *)
Mutex ==
  /\ \A t \in Thread : pc[t] \in Inside <=> owner = t
  /\ \A t \in Thread : pc[t] \in Inside \cup {"lock"} => want[t] \in Kernel
  /\ \A t \in Thread : pc[t] \in Inside => built[want[t]] = NoProgram

(* What a thread has when its build is over is what the map has.           *)
Shared ==
  \A t \in Thread :
    pc[t] \in {"idle", "save"} /\ want[t] # None /\ prog[t] # NoProgram => prog[t] = built[want[t]]

(* Nothing is under way while the process does not run.                    *)
Quiet ==
  ~loaded =>
    /\ built = [k \in Kernel |-> NoProgram] /\ cached_info = None
    /\ data = Store!Empty /\ ~flushing
    /\ \A t \in Thread : pc[t] = "idle"

Builds == Types /\ Mutex /\ Shared /\ Quiet

(* A kernel of this platform is not compiled while the store has it, and   *)
(* what the store has includes what is on disk, unless the file could not  *)
(* be read and the store says so.                                          *)
Reusing ==
  /\ cached_info \in Platform =>
       \A k \in Keys : file.kv[k] \in Platform => data[k] = file.kv[k]
  /\ \A t \in Thread :
       pc[t] \in {"precompiled", "source"} /\ cached_info = platform => data[want[t]] # platform

(* As long as there was one driver: everything is for it, and a program    *)
(* that was compiled is stored before it is recorded.                      *)
OneDriver ==
  /\ \A k \in Keys : data[k] \in {platform, None, Garbage} /\ file.kv[k] \in {platform, None, Garbage}
  /\ \A t \in Thread :
       /\ pc[t] = "insert_info" => data[want[t]] # None
       /\ pc[t] = "record" /\ prog[t].from = "source" => data[want[t]] # None /\ data[InfoKey] # None
  /\ \A k \in Kernel : built[k].from = "source" => data[k] # None /\ data[InfoKey] # None
-----------------------------------------------------------------------------
USE DEF Keys, Entries

Unmoved == <<loaded, flushing, file>>

(* What the operations of the store do to it, and that they keep its types.*)
LEMMA LoadStep ==
  ASSUME Store!TypeOK, Store!Load
  PROVE  /\ Store!TypeOK' /\ ~loaded /\ loaded' = TRUE
         /\ UNCHANGED <<data_changed, flushing, file>>
         /\ \/ data' = Store!Empty
            \/ data' = file.kv
            \/ /\ file.state = "torn"
               /\ \A k \in Keys :
                    data'[k] = file.kv[k] \/ (file.kv[k] = None /\ data'[k] = Garbage)
<1>1. Store!Empty \in Store!Content
  BY DEF Store!Empty, Store!Content
<1>2. Store!TornReadings(file.kv) \subseteq Store!Content
  BY DEF Store!TornReadings
<1>3. file.kv \in Store!Content
  BY DEF Store!TypeOK
<1>4. data' \in Store!Content
  BY <1>1, <1>2, <1>3 DEF Store!Load
<1>5. \/ data' = Store!Empty
      \/ data' = file.kv
      \/ /\ file.state = "torn"
         /\ \A k \in Keys :
              data'[k] = file.kv[k] \/ (file.kv[k] = None /\ data'[k] = Garbage)
  <2>1. CASE file.state = "torn" /\ data' \in Store!TornReadings(file.kv)
    BY <2>1 DEF Store!TornReadings
  <2>2. CASE data' \in {Store!Empty, file.kv}
    BY <2>2
  <2> QED
    BY <2>1, <2>2 DEF Store!Load
<1> QED
  BY <1>4, <1>5 DEF Store!Load, Store!TypeOK

LEMMA InsertStep ==
  ASSUME Store!TypeOK, NEW k \in Keys, NEW v \in Platform, Store!Insert(k, v)
  PROVE  /\ Store!TypeOK' /\ loaded /\ ~flushing
         /\ UNCHANGED Unmoved
         /\ \A j \in Keys : data'[j] = IF j = k /\ data[k] = None THEN v ELSE data[j]
<1>1. data' = Store!Emplace(data, k, v) /\ data \in Store!Content
  BY DEF Store!Insert, Store!TypeOK
<1>2. data' \in Store!Content
  BY <1>1 DEF Store!Emplace, Store!Content
<1>3. \A j \in Keys : data'[j] = IF j = k /\ data[k] = None THEN v ELSE data[j]
  BY <1>1 DEF Store!Emplace, Store!Content
<1> QED
  BY <1>2, <1>3 DEF Store!Insert, Store!TypeOK, Unmoved

LEMMA FlushOpenStep ==
  ASSUME Store!TypeOK, Store!FlushOpen
  PROVE  /\ Store!TypeOK' /\ loaded /\ ~flushing /\ flushing'
         /\ UNCHANGED <<loaded, data, data_changed>>
         /\ file'.state = "torn" /\ file'.kv = Store!Empty
<1>1. file' = [state |-> "torn", kv |-> Store!Empty]
  BY DEF Store!FlushOpen
<1>2. Store!Empty \in Store!Content
  BY DEF Store!Empty, Store!Content
<1>3. file' \in [state : Store!FileStates, kv : Store!Content]
  BY <1>1, <1>2 DEF Store!FileStates
<1> QED
  BY <1>1, <1>3 DEF Store!FlushOpen, Store!TypeOK

(* A file that was written in part, from the memory m.                     *)
InPart(m) ==
  /\ file'.state = "torn"
  /\ \A k \in Keys : file'.kv[k] \in {None, m[k]}

LEMMA PartIsContent ==
  ASSUME NEW m \in Store!Content, NEW p \in Store!Parts(m),
         file' = [state |-> "torn", kv |-> p]
  PROVE  file' \in [state : Store!FileStates, kv : Store!Content] /\ InPart(m)
BY DEF Store!Parts, Store!FileStates, InPart

LEMMA FlushWriteStep ==
  ASSUME Store!TypeOK, Store!FlushWrite
  PROVE  /\ Store!TypeOK' /\ flushing /\ ~flushing'
         /\ UNCHANGED <<loaded, data>>
         /\ \/ file'.state = "whole" /\ file'.kv = data
            \/ "write" \in Faults /\ InPart(data)
<1>0. data \in Store!Content
  BY DEF Store!TypeOK
<1>1. CASE file' = [state |-> "whole", kv |-> data]
  BY <1>0, <1>1 DEF Store!FlushWrite, Store!TypeOK, Store!FileStates
<1>2. CASE "write" \in Faults /\ \E p \in Store!Parts(data) : file' = [state |-> "torn", kv |-> p]
  BY <1>0, <1>2, PartIsContent DEF Store!FlushWrite, Store!TypeOK
<1> QED
  BY <1>1, <1>2 DEF Store!FlushWrite

LEMMA StopStep ==
  ASSUME Store!TypeOK, Store!Stop
  PROVE  /\ Store!TypeOK' /\ loaded /\ ~loaded' /\ ~flushing'
         /\ flushing => "crash" \in Faults
         /\ data' = Store!Empty
         /\ UNCHANGED file \/ (flushing /\ InPart(data))
<1>0. data \in Store!Content /\ Store!Empty \in Store!Content
  BY DEF Store!TypeOK, Store!Empty, Store!Content
<1>1. /\ loaded /\ ~loaded' /\ ~flushing' /\ data' = Store!Empty
      /\ loaded' \in BOOLEAN /\ flushing' \in BOOLEAN /\ data_changed' \in BOOLEAN
      /\ flushing => "crash" \in Faults
  BY DEF Store!Stop
<1>2. CASE UNCHANGED file
  BY <1>0, <1>1, <1>2 DEF Store!TypeOK
<1>3. CASE flushing /\ \E p \in Store!Parts(data) : file' = [state |-> "torn", kv |-> p]
  BY <1>0, <1>1, <1>3, PartIsContent DEF Store!TypeOK
<1> QED
  BY <1>2, <1>3 DEF Store!Stop
-----------------------------------------------------------------------------
(* What is decided on the way in: nothing moves but the thread's own       *)
(* position, and the program it comes back with is one of three.           *)
Decide(t) == FromCache(t) \/ FromPrecompiled(t) \/ FromSource(t)

(* One thread's steps, and those of the process.                           *)
Moves(t) ==
  \/ \E k \in Kernel : BuildKernel(t, k)
  \/ LockAndLookUp(t) \/ Build(t) \/ Save(t)

LEMMA NextIs == Next <=> Start \/ UpdateDriver \/ Stop \/ \E t \in Thread : Moves(t)
BY DEF Next, Moves

(* Each way to decide, with what it leaves alone.                          *)
LEMMA DecideStep ==
  ASSUME Types, NEW t \in Thread, Decide(t)
  PROVE  /\ pc[t] \in {"cache", "precompiled", "source"}
         /\ UNCHANGED <<loaded, data, data_changed, flushing, file, platform, past,
                        cached_info, built, owner, want>>
         /\ \E l \in {"precompiled", "source", "insert_binary", "record"} :
              pc' = [pc EXCEPT ![t] = l]
         /\ \E p \in Programs \cup {NoProgram} : prog' = [prog EXCEPT ![t] = p]
<1>0. prog = [prog EXCEPT ![t] = prog[t]] /\ prog[t] \in Programs \cup {NoProgram}
  BY DEF Types, TypeOK
<1>1. ASSUME FromCache(t)
      PROVE  /\ \E l \in {"precompiled", "record"} : pc' = [pc EXCEPT ![t] = l]
             /\ \E p \in Programs \cup {NoProgram} : prog' = [prog EXCEPT ![t] = p]
  <2>1. DriverMayTake(data[want[t]]) => Program("cache", data[want[t]], t) \in Programs
    BY DEF DriverMayTake, Program, Programs, Origins
  <2> QED
    BY <1>0, <1>1, <2>1 DEF FromCache, Goto
<1>2. ASSUME FromPrecompiled(t)
      PROVE  /\ \E l \in {"source", "record"} : pc' = [pc EXCEPT ![t] = l]
             /\ \E p \in Programs \cup {NoProgram} : prog' = [prog EXCEPT ![t] = p]
  <2>1. PrecompiledFor = platform => Program("precompiled", PrecompiledFor, t) \in Programs
    BY DEF Program, Programs, Origins, Types, TypeOK
  <2> QED
    BY <1>0, <1>2, <2>1 DEF FromPrecompiled, Goto
<1>3. ASSUME FromSource(t)
      PROVE  /\ \E l \in {"insert_binary", "record"} : pc' = [pc EXCEPT ![t] = l]
             /\ \E p \in Programs \cup {NoProgram} : prog' = [prog EXCEPT ![t] = p]
  <2>1. Program("source", platform, t) \in Programs /\ Program("failed", platform, t) \in Programs
    BY DEF Program, Programs, Origins, Types, TypeOK
  <2> QED
    BY <1>3, <2>1 DEF FromSource, Goto
<1>4. /\ pc[t] \in {"cache", "precompiled", "source"}
      /\ UNCHANGED <<loaded, data, data_changed, flushing, file, platform, past,
                     cached_info, built, owner, want>>
  BY DEF Decide, FromCache, FromPrecompiled, FromSource, storevars
<1> QED
  BY <1>1, <1>2, <1>3, <1>4 DEF Decide

(* A step of a thread is taken while the process runs.                     *)
LEMMA MovesWhileLoaded ==
  ASSUME Types, Quiet, NEW t \in Thread, Moves(t)
  PROVE  loaded /\ loaded' = loaded
<1>1. CASE pc[t] # "idle"
  <2>1. loaded
    BY <1>1 DEF Quiet
  <2>2. loaded' = loaded
    BY DEF Moves, Build, BuildKernel, LockAndLookUp, FromCache, FromPrecompiled, FromSource,
           InsertBinary, InsertInfo, Record, Save, EndSave, storevars,
           Store!Insert, Store!FlushOpen, Store!FlushWrite
  <2> QED
    BY <2>1, <2>2
<1>2. CASE pc[t] = "idle"
  BY <1>2 DEF Moves, Build, BuildKernel, LockAndLookUp, FromCache, FromPrecompiled, FromSource,
              InsertBinary, InsertInfo, Record, Save, EndSave, storevars, Store!FlushOpen
<1> QED
  BY <1>1, <1>2
-----------------------------------------------------------------------------
(* The invariant of the builds, part by part.                              *)
LEMMA BuildsInit == Init => Builds
<1> SUFFICES ASSUME Init PROVE Builds
  OBVIOUS
<1>1. Store!Empty \in Store!Content /\ Store!TypeOK
  BY DEF Init, Store!Init, Store!TypeOK, Store!Empty, Store!Content, Store!FileStates
<1>2. Types
  BY <1>1 DEF Types, TypeOK, Init, Labels
<1>3. Mutex /\ Shared /\ Quiet
  BY ProgramCacheAssumption DEF Mutex, Shared, Quiet, Init, Store!Init, Inside
<1> QED
  BY <1>2, <1>3 DEF Builds

LEMMA TypesStep ==
  ASSUME Types, Mutex, Next
  PROVE  Types'
<1> USE DEF Types, TypeOK, Labels
<1>1. CASE Start
  <2>1. data' \in Store!Content /\ data'[InfoKey] \in Platform \cup {None, Garbage}
    BY <1>1, LoadStep DEF Start, Store!TypeOK, Store!Content
  <2> QED
    BY <1>1, <2>1, LoadStep DEF Start, runvars
<1>2. CASE UpdateDriver
  BY <1>2 DEF UpdateDriver, storevars, runvars, Store!TypeOK
<1>3. CASE Stop
  BY <1>3, StopStep DEF Stop, FreshRun
<1>4. ASSUME NEW t \in Thread, Moves(t) PROVE Types'
  <2>1. ASSUME NEW k \in Kernel, BuildKernel(t, k) PROVE Types'
    BY <2>1 DEF BuildKernel, Goto, storevars, Store!TypeOK
  <2>2. CASE LockAndLookUp(t)
    <3>1. want[t] \in Kernel
      BY <2>2 DEF LockAndLookUp, Mutex
    <3> QED
      BY <2>2, <3>1 DEF LockAndLookUp, Goto, storevars, Store!TypeOK
  <2>3. CASE Decide(t)
    BY <2>3, DecideStep DEF Store!TypeOK
  <2>4. CASE InsertBinary(t)
    <3>1. want[t] \in Keys
      BY <2>4 DEF InsertBinary, Mutex, Inside
    <3>2. Store!TypeOK'
      BY <2>4, <3>1, InsertStep DEF InsertBinary
    <3> QED
      BY <2>4, <3>2 DEF InsertBinary, Goto
  <2>5. CASE InsertInfo(t)
    <3>1. Store!TypeOK'
      BY <2>5, InsertStep DEF InsertInfo
    <3> QED
      BY <2>5, <3>1 DEF InsertInfo, Goto
  <2>6. CASE Record(t)
    <3>1. want[t] \in Kernel
      BY <2>6 DEF Record, Mutex, Inside
    <3> QED
      BY <2>6, <3>1 DEF Record, Goto, storevars, Store!TypeOK
  <2>7. CASE Save(t)
    BY <2>7, FlushOpenStep DEF Save, Goto
  <2>8. CASE EndSave(t)
    BY <2>8, FlushWriteStep DEF EndSave, Goto
  <2> QED
    BY <1>4, <2>1, <2>2, <2>3, <2>4, <2>5, <2>6, <2>7, <2>8 DEF Moves, Build, Decide
<1> QED
  BY <1>1, <1>2, <1>3, <1>4, NextIs

(* Whoever moves, the mutex stays with whom is inside.                     *)
LEMMA MutexStep ==
  ASSUME Types, Types', Mutex, Next
  PROVE  Mutex'
<1> USE DEF Mutex, Inside
<1>1. CASE Start \/ UpdateDriver
  BY <1>1 DEF Start, UpdateDriver, runvars
<1>2. CASE Stop
  BY <1>2, ProgramCacheAssumption DEF Stop, FreshRun
<1>3. ASSUME NEW t \in Thread, Moves(t) PROVE Mutex'
  <2> USE DEF Types, TypeOK
  <2>1. ASSUME NEW k \in Kernel, BuildKernel(t, k) PROVE Mutex'
    BY <2>1 DEF BuildKernel, Goto
  <2>2. CASE LockAndLookUp(t)
    BY <2>2, ProgramCacheAssumption DEF LockAndLookUp, Goto
  <2>3. CASE Decide(t)
    BY <2>3, DecideStep
  <2>4. CASE InsertBinary(t)
    BY <2>4 DEF InsertBinary, Goto
  <2>5. CASE InsertInfo(t)
    BY <2>5 DEF InsertInfo, Goto
  <2>6. CASE Record(t)
    <3>1. owner = t /\ owner' = None /\ \A u \in Thread : u # t => pc[u] \notin Inside
      BY <2>6 DEF Record
    <3> QED
      BY <2>6, <3>1, ProgramCacheAssumption DEF Record, Goto
  <2>7. CASE Save(t)
    BY <2>7 DEF Save, Goto
  <2>8. CASE EndSave(t)
    BY <2>8 DEF EndSave, Goto
  <2> QED
    BY <1>3, <2>1, <2>2, <2>3, <2>4, <2>5, <2>6, <2>7, <2>8 DEF Moves, Build, Decide
<1> QED
  BY <1>1, <1>2, <1>3, NextIs

(* What a finished build gave a thread is not replaced in the map.         *)
LEMMA SharedStep ==
  ASSUME Types, Types', Mutex, Shared, Next
  PROVE  Shared'
<1> USE DEF Shared
<1>1. CASE Start \/ UpdateDriver
  BY <1>1 DEF Start, UpdateDriver, runvars
<1>2. CASE Stop
  BY <1>2 DEF Stop, FreshRun
<1>3. ASSUME NEW t \in Thread, Moves(t) PROVE Shared'
  <2> USE DEF Types, TypeOK
  <2>1. ASSUME NEW k \in Kernel, BuildKernel(t, k) PROVE Shared'
    BY <2>1 DEF BuildKernel, Goto
  <2>2. CASE LockAndLookUp(t)
    BY <2>2 DEF LockAndLookUp, Goto
  <2>3. CASE Decide(t)
    BY <2>3, DecideStep
  <2>4. CASE InsertBinary(t)
    BY <2>4 DEF InsertBinary, Goto
  <2>5. CASE InsertInfo(t)
    BY <2>5 DEF InsertInfo, Goto
  <2>6. CASE Record(t)
    <3>1. want[t] \in Kernel /\ built[want[t]] = NoProgram
      BY <2>6 DEF Record, Mutex, Inside
    <3>2. built' = [built EXCEPT ![want[t]] = prog[t]] /\ UNCHANGED <<want, prog>>
      BY <2>6, <3>1 DEF Record
    <3>3. \A u \in Thread \ {t} : pc'[u] = pc[u]
      BY <2>6 DEF Record, Goto
    <3> QED
      BY <3>1, <3>2, <3>3
  <2>7. CASE Save(t)
    BY <2>7 DEF Save, Goto
  <2>8. CASE EndSave(t)
    BY <2>8 DEF EndSave, Goto
  <2> QED
    BY <1>3, <2>1, <2>2, <2>3, <2>4, <2>5, <2>6, <2>7, <2>8 DEF Moves, Build, Decide
<1> QED
  BY <1>1, <1>2, <1>3, NextIs

LEMMA QuietStep ==
  ASSUME Types, Quiet, Next
  PROVE  Quiet'
<1>1. CASE Start
  BY <1>1, LoadStep DEF Start, Quiet, Types, TypeOK
<1>2. CASE UpdateDriver
  BY <1>2 DEF UpdateDriver, Quiet, storevars, runvars, Store!Empty
<1>3. CASE Stop
  BY <1>3, StopStep DEF Stop, FreshRun, Quiet, Types, TypeOK
<1>4. ASSUME NEW t \in Thread, Moves(t) PROVE Quiet'
  BY <1>4, MovesWhileLoaded DEF Quiet
<1> QED
  BY <1>1, <1>2, <1>3, <1>4, NextIs

LEMMA BuildsStep == Builds /\ [Next]_vars => Builds'
<1>1. Builds /\ Next => Builds'
  BY TypesStep, MutexStep, SharedStep, QuietStep DEF Builds
<1>2. Builds /\ UNCHANGED vars => Builds'
  BY DEF Builds, Types, TypeOK, Mutex, Shared, Quiet, vars, storevars, runvars,
         Store!TypeOK, Store!Empty
<1> QED
  BY <1>1, <1>2

(* The inductive invariant of builds holds in every reachable state.       *)
THEOREM BuildsHold == Spec => []Builds
BY BuildsInit, BuildsStep, PTL DEF Spec

(* The types of the program cache, as every reachable state has them.      *)
THEOREM CacheTypes == Spec => []TypeOK
<1>1. Builds => TypeOK
  BY DEF Builds, Types
<1> QED
  BY <1>1, BuildsHold, PTL

(* Threads that build the same kernel get the same cl::Program.            *)
THEOREM OneProgram == Spec => []OneProgramPerKernel
<1>1. Builds => OneProgramPerKernel
  BY DEF Builds, Shared, OneProgramPerKernel
<1> QED
  BY <1>1, BuildsHold, PTL
-----------------------------------------------------------------------------
(* What is on disk for this platform is not compiled again.                *)
LEMMA ReusingInit == Init => Reusing
BY ProgramCacheAssumption DEF Init, Reusing

LEMMA ReusingStep ==
  ASSUME Builds, Reusing, Next
  PROVE  Reusing'
<1> DEFINE Kept     == cached_info \in Platform =>
                         \A k \in Keys : file.kv[k] \in Platform => data[k] = file.kv[k]
           Asked(t) == pc[t] \in {"precompiled", "source"} /\ cached_info = platform
                         => data[want[t]] # platform
<1>0. Types /\ Mutex /\ Kept /\ \A t \in Thread : Asked(t)
  BY DEF Builds, Reusing
<1>1. CASE Start
  <2>1. \A k \in Keys : Store!Empty[k] = None
    BY DEF Store!Empty
  <2>2. Kept'
    <3>1. CASE data' = Store!Empty
      BY <1>1, <3>1, <2>1, ProgramCacheAssumption DEF Start
    <3>2. CASE data' = file.kv
      BY <1>0, <1>1, <3>2, LoadStep DEF Start, Types, TypeOK
    <3>3. CASE \A k \in Keys :
                 data'[k] = file.kv[k] \/ (file.kv[k] = None /\ data'[k] = Garbage)
      BY <1>0, <1>1, <3>3, LoadStep, ProgramCacheAssumption DEF Start, Types, TypeOK
    <3> QED
      BY <1>0, <1>1, <3>1, <3>2, <3>3, LoadStep DEF Start, Types, TypeOK
  <2>3. \A t \in Thread : pc'[t] = "idle"
    BY <1>1 DEF Start, runvars, Builds, Quiet, Store!Load
  <2> QED
    BY <2>2, <2>3 DEF Reusing
<1>2. CASE UpdateDriver
  <2>1. \A t \in Thread : pc'[t] = "idle"
    BY <1>2 DEF UpdateDriver, runvars, Builds, Quiet
  <2> QED
    BY <1>0, <1>2, <2>1 DEF UpdateDriver, storevars, Reusing
<1>3. CASE Stop
  BY <1>3, ProgramCacheAssumption DEF Stop, FreshRun, Reusing
<1>4. ASSUME NEW t \in Thread, Moves(t) PROVE Reusing'
  <2> USE DEF Types, TypeOK
  <2>1. ASSUME NEW k \in Kernel, BuildKernel(t, k) PROVE Reusing'
    BY <1>0, <2>1 DEF BuildKernel, Goto, storevars, Reusing
  <2>2. CASE LockAndLookUp(t)
    BY <1>0, <2>2 DEF LockAndLookUp, Goto, storevars, Reusing
  <2>3. CASE Decide(t)
    <3>1. Asked(t)'
      BY <1>0, <2>3 DEF Decide, FromCache, FromPrecompiled, FromSource, Goto, DriverMayRefuse, storevars
    <3>2. \A u \in Thread \ {t} : pc'[u] = pc[u]
      BY <1>0, <2>3, DecideStep
    <3> QED
      BY <1>0, <2>3, <3>1, <3>2, DecideStep DEF Reusing
  <2>4. ASSUME NEW k \in Keys, Store!Insert(k, platform), pc[t] \in Inside, UNCHANGED <<cached_info, platform, want>>,
               \E l \in {"insert_info", "record"} : pc' = [pc EXCEPT ![t] = l]
        PROVE  Reusing'
    <3>1. /\ UNCHANGED file
          /\ \A j \in Keys : data'[j] = IF j = k /\ data[k] = None THEN platform ELSE data[j]
      BY <1>0, <2>4, InsertStep DEF Unmoved
    <3>2. Kept'
      BY <1>0, <2>4, <3>1, ProgramCacheAssumption
    <3>3. \A u \in Thread : pc'[u] \notin {"precompiled", "source"}
      BY <1>0, <2>4 DEF Mutex, Inside
    <3> QED
      BY <3>2, <3>3 DEF Reusing
  <2>5. CASE InsertBinary(t)
    BY <1>0, <2>4, <2>5 DEF InsertBinary, Mutex, Inside, Goto
  <2>6. CASE InsertInfo(t)
    BY <1>0, <2>4, <2>6 DEF InsertInfo, Mutex, Inside, Goto
  <2>7. CASE Record(t)
    BY <1>0, <2>7 DEF Record, Goto, storevars, Reusing
  <2>8. CASE Save(t)
    <3>1. \A k \in Keys : file'.kv[k] = None
      BY <1>0, <2>8, FlushOpenStep DEF Save, Store!Empty
    <3> QED
      BY <1>0, <2>8, <3>1, FlushOpenStep, ProgramCacheAssumption DEF Save, Goto, Reusing
  <2>9. CASE EndSave(t)
    <3>1. \A k \in Keys : file'.kv[k] \in {None, data[k]}
      BY <1>0, <2>9, FlushWriteStep DEF EndSave, InPart
    <3> QED
      BY <1>0, <2>9, <3>1, FlushWriteStep, ProgramCacheAssumption DEF EndSave, Goto, Reusing
  <2> QED
    BY <1>4, <2>1, <2>2, <2>3, <2>5, <2>6, <2>7, <2>8, <2>9 DEF Moves, Build, Decide
<1> QED
  BY <1>1, <1>2, <1>3, <1>4, NextIs

LEMMA ReusingStutter == Reusing /\ UNCHANGED vars => Reusing'
BY DEF Reusing, vars, storevars, runvars

(* While the platform of the store is known the store has what is on disk, *)
(* and who is about to compile a kernel did not find it there.             *)
THEOREM ReusingHolds == Spec => [](Builds /\ Reusing)
<1>1. Builds /\ Reusing /\ [Next]_vars => Reusing'
  BY ReusingStep, ReusingStutter
<1> QED
  BY <1>1, ReusingInit, BuildsInit, BuildsStep, PTL DEF Spec

(* No step compiles a kernel whose binary is on disk for this platform: in *)
(* whatever order threads build and flush, and whatever is in a torn file. *)
THEOREM ReusedNotCompiled == Spec => SavedIsReused
<1> DEFINE Reused == \A t \in Thread :
                       FromSource(t) => ~(cached_info = platform /\ file.kv[want[t]] = platform)
<1>1. Builds /\ Reusing => Reused
  <2> SUFFICES ASSUME Builds, Reusing, NEW t \in Thread, FromSource(t),
                      cached_info = platform, file.kv[want[t]] = platform
               PROVE  FALSE
    OBVIOUS
  <2>1. pc[t] = "source" /\ want[t] \in Kernel /\ platform \in Platform
    BY DEF FromSource, Builds, Mutex, Inside, Types, TypeOK
  <2> QED
    BY <2>1 DEF Reusing
<1>2. Builds /\ Reusing /\ [Next]_vars => [Reused]_vars
  BY <1>1
<1> QED
  BY <1>2, ReusingHolds, PTL DEF Spec, SavedIsReused
-----------------------------------------------------------------------------
(* One driver: a program compiled in this process is in the store.         *)
Known(kv) == \A k \in Keys : kv[k] \in {platform, None, Garbage}

Held(t) ==
  /\ pc[t] = "insert_info" => data[want[t]] # None
  /\ pc[t] = "record" /\ prog[t].from = "source" => data[want[t]] # None /\ data[InfoKey] # None

Stored(k) == built[k].from = "source" => data[k] # None /\ data[InfoKey] # None

LEMMA OneDriverIs ==
  /\ OneDriver <=> Known(data) /\ Known(file.kv) /\ (\A t \in Thread : Held(t)) /\ (\A k \in Kernel : Stored(k))
  /\ OneDriver' <=> /\ Known(data)' /\ Known(file.kv)'
                    /\ (\A t \in Thread : Held(t)') /\ (\A k \in Kernel : Stored(k)')
BY DEF OneDriver, Known, Held, Stored

LEMMA OneDriverInit == Init => OneDriver
BY DEF Init, OneDriver, Store!Init, Store!Empty, NoProgram

LEMMA OneDriverStep ==
  ASSUME Updates = "no", Builds, OneDriver, Next
  PROVE  OneDriver'
<1>0. /\ Types /\ Mutex
      /\ Known(data) /\ Known(file.kv)
      /\ \A t \in Thread : Held(t)
      /\ \A k \in Kernel : Stored(k)
  BY OneDriverIs DEF Builds
<1>1. CASE Start
  <2>1. Known(data)' /\ Known(file.kv)'
    BY <1>0, <1>1, LoadStep DEF Start, Known, Store!Empty, Types, TypeOK
  <2>2. \A t \in Thread : pc'[t] = "idle"
    BY <1>1 DEF Start, runvars, Builds, Quiet, Store!Load
  <2>3. \A k \in Kernel : built'[k] = NoProgram
    BY <1>1 DEF Start, runvars, Builds, Quiet, Store!Load
  <2> QED
    BY <2>1, <2>2, <2>3, OneDriverIs DEF Held, Stored, NoProgram
<1>2. CASE UpdateDriver
  BY <1>2 DEF UpdateDriver
<1>3. CASE Stop
  <2>1. Known(data)' /\ Known(file.kv)'
    BY <1>0, <1>3, StopStep DEF Stop, Known, Store!Empty, InPart, Types, TypeOK
  <2> QED
    BY <1>3, <2>1, OneDriverIs DEF Stop, FreshRun, Held, Stored, NoProgram
<1>4. ASSUME NEW t \in Thread, Moves(t) PROVE OneDriver'
  <2> USE DEF Types, TypeOK
  <2>0. ASSUME UNCHANGED <<storevars, platform>>, \A u \in Thread : Held(u)', \A k \in Kernel : Stored(k)'
        PROVE  OneDriver'
    BY <1>0, <2>0, OneDriverIs DEF storevars, Known
  <2>1. ASSUME NEW k \in Kernel, BuildKernel(t, k) PROVE OneDriver'
    BY <1>0, <2>0, <2>1 DEF BuildKernel, Goto, storevars, Held, Stored
  <2>2. CASE LockAndLookUp(t)
    BY <1>0, <2>0, <2>2 DEF LockAndLookUp, Goto, storevars, Held, Stored
  <2>3. CASE Decide(t)
    <3>1. Held(t)'
      BY <1>0, <2>3 DEF Decide, FromCache, FromPrecompiled, FromSource, Goto, Program, Held
    <3>2. \A u \in Thread \ {t} : pc'[u] = pc[u] /\ prog'[u] = prog[u]
      BY <1>0, <2>3, DecideStep
    <3> QED
      BY <1>0, <2>0, <2>3, <3>1, <3>2, DecideStep DEF storevars, Held, Stored
  <2>4. ASSUME NEW k \in Keys, Store!Insert(k, platform), UNCHANGED platform
        PROVE  /\ Known(data)' /\ Known(file.kv)' /\ data'[k] # None
               /\ \A j \in Keys : data[j] # None => data'[j] # None
    <3>1. /\ UNCHANGED file
          /\ \A j \in Keys : data'[j] = IF j = k /\ data[k] = None THEN platform ELSE data[j]
      BY <1>0, <2>4, InsertStep DEF Unmoved
    <3> QED
      BY <1>0, <2>4, <3>1, ProgramCacheAssumption DEF Known
  <2>5. CASE InsertBinary(t)
    <3>1. /\ want[t] \in Keys /\ Store!Insert(want[t], platform)
          /\ UNCHANGED <<platform, built, want, prog>>
          /\ pc' = [pc EXCEPT ![t] = "insert_info"]
      BY <1>0, <2>5 DEF InsertBinary, Goto, Mutex, Inside
    <3>2. \A u \in Thread : pc[u] \in {"insert_info", "record"} => want[u] \in Keys
      BY <1>0 DEF Mutex, Inside
    <3>3. \A u \in Thread : Held(u)'
      BY <1>0, <2>4, <3>1, <3>2 DEF Held
    <3> QED
      BY <1>0, <2>4, <3>1, <3>3, OneDriverIs DEF Stored
  <2>6. CASE InsertInfo(t)
    <3>1. /\ Store!Insert(InfoKey, platform)
          /\ UNCHANGED <<platform, built, want, prog>>
          /\ pc[t] = "insert_info" /\ pc' = [pc EXCEPT ![t] = "record"]
      BY <2>6 DEF InsertInfo, Goto
    <3>2. \A u \in Thread : pc[u] \in {"insert_info", "record"} => want[u] \in Keys
      BY <1>0 DEF Mutex, Inside
    <3>3. \A u \in Thread : Held(u)'
      BY <1>0, <2>4, <3>1, <3>2 DEF Held
    <3> QED
      BY <1>0, <2>4, <3>1, <3>3, OneDriverIs DEF Stored
  <2>7. CASE Record(t)
    <3>1. want[t] \in Kernel /\ built' = [built EXCEPT ![want[t]] = prog[t]]
      BY <1>0, <2>7 DEF Record, Mutex, Inside
    <3>2. \A k \in Kernel : Stored(k)'
      BY <1>0, <2>7, <3>1 DEF Record, storevars, Stored, Held
    <3> QED
      BY <1>0, <2>0, <2>7, <3>2 DEF Record, Goto, storevars, Held
  <2>8. CASE Save(t)
    <3>1. Known(file.kv)'
      BY <1>0, <2>8, FlushOpenStep DEF Save, Known, Store!Empty
    <3> QED
      BY <1>0, <2>8, <3>1, FlushOpenStep, OneDriverIs DEF Save, Goto, Known, Held, Stored
  <2>9. CASE EndSave(t)
    <3>1. Known(file.kv)'
      BY <1>0, <2>9, FlushWriteStep DEF EndSave, Known, InPart
    <3> QED
      BY <1>0, <2>9, <3>1, FlushWriteStep, OneDriverIs DEF EndSave, Goto, Known, Held, Stored
  <2> QED
    BY <1>4, <2>1, <2>2, <2>3, <2>5, <2>6, <2>7, <2>8, <2>9 DEF Moves, Build, Decide
<1> QED
  BY <1>1, <1>2, <1>3, <1>4, NextIs

(* As long as the driver stays, a program compiled in this process is in   *)
(* the store with the platform beside it: BuildProgramFromSource's two     *)
(* Inserts are not lost, whatever other threads insert or flush.           *)
THEOREM CompiledStored == ASSUME Updates = "no" PROVE Spec => []CompiledIsStored
<1>1. OneDriver /\ UNCHANGED vars => OneDriver'
  BY DEF OneDriver, vars, storevars, runvars
<1>2. Builds /\ OneDriver /\ [Next]_vars => OneDriver'
  BY <1>1, OneDriverStep
<1>3. OneDriver => CompiledIsStored
  BY DEF OneDriver, CompiledIsStored
<1> QED
  BY <1>2, <1>3, BuildsInit, BuildsStep, OneDriverInit, PTL DEF Spec
=============================================================================
