---------------------------- MODULE ProgramCache ----------------------------
(***************************************************************************)
(* How OpenCLRuntime (mace/core/runtime/opencl/opencl_runtime.cc) comes by *)
(* compiled OpenCL programs: from the ones built in this process, from the *)
(* store of binaries kept from earlier processes, from a binary shipped    *)
(* with the application, or from source, which then enters the store.      *)
(*                                                                         *)
(* A binary is represented by the platform (name and version of the OpenCL *)
(* driver) it was compiled for: that is all the properties tell apart, and *)
(* the platform_info_ string stored beside the binaries is then a value of *)
(* the same kind.                                                          *)
(***************************************************************************)
EXTENDS Naturals

CONSTANTS
  Thread,             \* threads that run inference
  Kernel,             \* the keys of programs: name and build options
  InfoKey,            \* kOpenCLPlatformInfoKey
  Platform,
  PrecompiledFor,     \* the platform of the shipped binary, or None
  Updates,            \* "no", "new" or "any": may the driver change, and back
  None, Garbage, Faults

ASSUME ProgramCacheAssumption ==
  /\ InfoKey \notin Kernel
  /\ None \notin Kernel \cup Platform \cup Thread
  /\ Garbage \notin Platform /\ None # Garbage
  /\ PrecompiledFor \in Platform \cup {None}
  /\ Updates \in {"no", "new", "any"}

VARIABLES
  loaded, data, data_changed, flushing, file,       \* of the store
  platform,       \* the driver installed: platform_info_ of this process
  past,           \* the drivers there have been before it
  cached_info,    \* cached_binary_platform_info_
  built,          \* built_program_map_
  owner,          \* who holds program_build_mutex_
  pc, want,       \* where each thread is, and the kernel it builds
  prog            \* the program each thread has

storevars == <<loaded, data, data_changed, flushing, file>>
runvars   == <<built, owner, pc, want, prog>>
vars      == <<storevars, platform, past, cached_info, runvars>>

Store == INSTANCE KVStore WITH
           Key <- Kernel \cup {InfoKey}, Value <- Platform

NoProgram == [from |-> "none", platform |-> None, by |-> None]
Origins   == {"cache", "precompiled", "source", "failed"}
Programs  == [from : Origins, platform : Platform, by : Thread]

Program(o, p, t) == [from |-> o, platform |-> p, by |-> t]

FreshRun ==
  /\ built' = [k \in Kernel |-> NoProgram]
  /\ owner' = None
  /\ pc' = [t \in Thread |-> "idle"]
  /\ want' = [t \in Thread |-> None]
  /\ prog' = [t \in Thread |-> NoProgram]

Init ==
  /\ Store!Init
  /\ platform \in Platform
  /\ past = {}
  /\ cached_info = None
  /\ built = [k \in Kernel |-> NoProgram]
  /\ owner = None
  /\ pc = [t \in Thread |-> "idle"]
  /\ want = [t \in Thread |-> None]
  /\ prog = [t \in Thread |-> NoProgram]

Goto(t, l) == pc' = [pc EXCEPT ![t] = l]

-----------------------------------------------------------------------------
(* OpenCLRuntime::OpenCLRuntime: load the store and read once, for the     *)
(* life of the process, for which platform its binaries are.               *)
Start ==
  /\ Store!Load
  /\ cached_info' = data'[InfoKey]
  /\ UNCHANGED <<platform, past, runvars>>

(* The driver changes while the application does not run.                  *)
UpdateDriver ==
  /\ ~loaded
  /\ Updates # "no"
  /\ past' = past \cup {platform}
  /\ platform' \in Platform \ {platform}
  /\ Updates = "new" => platform' \notin past
  /\ UNCHANGED <<storevars, cached_info, runvars>>

(* BuildKernel takes program_build_mutex_ and keeps it until it returns.   *)
BuildKernel(t, k) ==
  /\ loaded /\ pc[t] = "idle"
  /\ want' = [want EXCEPT ![t] = k]
  /\ Goto(t, "lock")
  /\ UNCHANGED <<storevars, platform, past, cached_info, built, owner, prog>>

(* Bug: without program_build_mutex_.                                      *)
BugNoMutex(t) ==
  /\ pc[t] = "lock"
  /\ IF built[want[t]] # NoProgram
     THEN /\ prog' = [prog EXCEPT ![t] = built[want[t]]]
          /\ Goto(t, "idle")
          /\ UNCHANGED owner
     ELSE /\ owner' = t
          /\ Goto(t, "cache")
          /\ UNCHANGED prog
  /\ UNCHANGED <<storevars, platform, past, cached_info, built, want>>

(* The mutex, and the look-up in built_program_map_.                       *)
LockAndLookUp(t) ==
  /\ pc[t] = "lock" /\ owner = None
  /\ IF built[want[t]] # NoProgram
     THEN /\ prog' = [prog EXCEPT ![t] = built[want[t]]]
          /\ Goto(t, "idle")
          /\ UNCHANGED owner
     ELSE /\ owner' = t
          /\ Goto(t, "cache")
          /\ UNCHANGED prog
  /\ UNCHANGED <<storevars, platform, past, cached_info, built, want>>

(* The driver's answer to a binary: it takes its own, refuses what is no   *)
(* binary, and may or may not take one of another version.                 *)
DriverMayTake(b)   == b \in Platform
DriverMayRefuse(b) == b # platform

(* Bugs: the store is never asked; its platform is not looked at.          *)
BugCacheSkipped(t) ==
  /\ pc[t] = "cache"
  /\ Goto(t, "precompiled")
  /\ UNCHANGED <<storevars, platform, past, cached_info, built, owner, want, prog>>

BugCacheUnchecked(t) ==
  LET b == data[want[t]] IN
  /\ pc[t] = "cache"
  /\ \/ /\ DriverMayTake(b)
        /\ prog' = [prog EXCEPT ![t] = Program("cache", b, t)]
        /\ Goto(t, "record")
     \/ /\ DriverMayRefuse(b)
        /\ Goto(t, "precompiled")
        /\ UNCHANGED prog
  /\ UNCHANGED <<storevars, platform, past, cached_info, built, owner, want>>

(* BuildProgramFromCache.                                                  *)
FromCache(t) ==
  LET b == data[want[t]] IN
  /\ pc[t] = "cache"
  /\ cached_info = platform => ~flushing          \* Find waits for a Flush
  /\ \/ /\ cached_info = platform /\ DriverMayTake(b)
        /\ prog' = [prog EXCEPT ![t] = Program("cache", b, t)]
        /\ Goto(t, "record")
     \/ /\ cached_info = platform => DriverMayRefuse(b)
        /\ Goto(t, "precompiled")
        /\ UNCHANGED prog
  /\ UNCHANGED <<storevars, platform, past, cached_info, built, owner, want>>

(* BuildProgramFromPrecompiledBinary: the shipped storage is opened only   *)
(* if the store was not for this platform, and names its own platform.     *)
FromPrecompiled(t) ==
  /\ pc[t] = "precompiled"
  /\ \/ /\ cached_info # platform /\ PrecompiledFor = platform
        /\ prog' = [prog EXCEPT ![t] = Program("precompiled", PrecompiledFor, t)]
        /\ Goto(t, "record")
     \/ Goto(t, "source") /\ UNCHANGED prog      \* none, or not this kernel
  /\ UNCHANGED <<storevars, platform, past, cached_info, built, owner, want>>

(* Bug: the program is labelled with cached_binary_platform_info_.         *)
BugStalePlatform(t) ==
  /\ pc[t] = "source"
  /\ prog' = [prog EXCEPT ![t] = Program("source", cached_info, t)]
  /\ Goto(t, "insert_binary")
  /\ UNCHANGED <<storevars, platform, past, cached_info, built, owner, want>>

(* BuildProgramFromSource; when the build fails it just returns.           *)
FromSource(t) ==
  /\ pc[t] = "source"
  /\ \/ /\ prog' = [prog EXCEPT ![t] = Program("source", platform, t)]
        /\ Goto(t, "insert_binary")
     \/ /\ prog' = [prog EXCEPT ![t] = Program("failed", platform, t)]
        /\ Goto(t, "record")
  /\ UNCHANGED <<storevars, platform, past, cached_info, built, owner, want>>

InsertBinary(t) ==
  /\ pc[t] = "insert_binary"
  /\ Store!Insert(want[t], platform)
  /\ Goto(t, "insert_info")
  /\ UNCHANGED <<platform, past, cached_info, built, owner, want, prog>>

(* Bug: cached_binary_platform_info_ is stored as the platform.            *)
BugStoresStaleInfo(t) ==
  /\ pc[t] = "insert_info"
  /\ Store!Insert(InfoKey, cached_info)
  /\ Goto(t, "record")
  /\ UNCHANGED <<platform, past, cached_info, built, owner, want, prog>>

(* "update platform info"                                                  *)
InsertInfo(t) ==
  /\ pc[t] = "insert_info"
  /\ Store!Insert(InfoKey, platform)
  /\ Goto(t, "record")
  /\ UNCHANGED <<platform, past, cached_info, built, owner, want, prog>>

(* Bug: BuildKernel leaves early, mutex held, when the build failed.       *)
BugFailureKeepsMutex(t) ==
  LET k == want[t] IN
  /\ pc[t] = "record"
  /\ built' = IF built[k] = NoProgram THEN [built EXCEPT ![k] = prog[t]] ELSE built
  /\ owner' = IF prog[t].from = "failed" THEN owner ELSE None
  /\ Goto(t, "idle")
  /\ UNCHANGED <<storevars, platform, past, cached_info, want, prog>>

(* built_program_map_.emplace, whatever came out, and BuildKernel returns. *)
Record(t) ==
  LET k == want[t] IN
  /\ pc[t] = "record"
  /\ built' = IF built[k] = NoProgram THEN [built EXCEPT ![k] = prog[t]] ELSE built
  /\ owner' = None
  /\ Goto(t, "idle")
  /\ UNCHANGED <<storevars, platform, past, cached_info, want, prog>>

(* SaveBuiltCLProgram, at the end of a thread's MaceEngine::Run.           *)
Save(t) ==
  /\ pc[t] = "idle"
  /\ Store!FlushOpen
  /\ Goto(t, "save")
  /\ UNCHANGED <<platform, past, cached_info, built, owner, want, prog>>

EndSave(t) ==
  /\ pc[t] = "save"
  /\ Store!FlushWrite
  /\ Goto(t, "idle")
  /\ UNCHANGED <<platform, past, cached_info, built, owner, want, prog>>

(* The process ends: regularly when no call is under way, in a crash       *)
(* anywhere, or in SaveBuiltCLProgram's LOG(FATAL) when the file cannot be *)
(* opened, whatever the other threads are doing.                           *)
Stop ==
  /\ Store!Stop
  /\ \/ \A t \in Thread : pc[t] = "idle"
     \/ "crash" \in Faults
     \/ "open" \in Faults /\ data_changed /\ \E t \in Thread : pc[t] = "idle"
  /\ FreshRun
  /\ cached_info' = None
  /\ UNCHANGED <<platform, past>>

Build(t) ==
  \/ FromCache(t) \/ FromPrecompiled(t) \/ FromSource(t)
  \/ InsertBinary(t) \/ InsertInfo(t) \/ Record(t) \/ EndSave(t)

Next ==
  \/ Start \/ UpdateDriver \/ Stop
  \/ \E t \in Thread :
       \/ \E k \in Kernel : BuildKernel(t, k)
       \/ LockAndLookUp(t) \/ Build(t) \/ Save(t)

(* A build goes on once it has the mutex, and a Flush ends.  A thread that *)
(* waits for program_build_mutex_ gets it if it is free again and again.   *)
Fairness == \A t \in Thread : WF_vars(Build(t)) /\ SF_vars(LockAndLookUp(t))

Spec == Init /\ [][Next]_vars /\ Fairness

-----------------------------------------------------------------------------
(* Types.                                                                  *)
TypeOK ==
  /\ Store!TypeOK
  /\ platform \in Platform /\ past \subseteq Platform
  /\ cached_info \in Platform \cup {None, Garbage}
  /\ built \in [Kernel -> Programs \cup {NoProgram}]
  /\ owner \in Thread \cup {None}
  /\ want \in [Thread -> Kernel \cup {None}]
  /\ prog \in [Thread -> Programs \cup {NoProgram}]

(* Threads that build the same kernel get the same cl::Program: once       *)
(* program_build_mutex_ is released, what a thread has is what the map has.*)
OneProgramPerKernel ==
  \A t \in Thread :
    pc[t] = "idle" /\ want[t] # None /\ prog[t] # NoProgram =>
      prog[t] = built[want[t]]

(* A program compiled in this process is in the store, with the platform   *)
(* beside it, so that the next Flush keeps it: BuildProgramFromSource's    *)
(* two Inserts are not lost although Insert does not replace and another   *)
(* thread may be flushing.  Only what was read from a torn file stays in   *)
(* the way.  (As long as the driver stays the same.)                       *)
CompiledIsStored ==
  \A k \in Kernel : built[k].from = "source" =>
    /\ data[k] \in {platform, Garbage}
    /\ data[InfoKey] \in {platform, Garbage}

(* What is on disk for this platform is not compiled again: the build      *)
(* flow "cache -> precompiled binary -> source" (opencl_runtime.cc:644).   *)
SavedIsReused ==
  [][\A t \in Thread :
       FromSource(t) =>
         ~(cached_info = platform /\ file.kv[want[t]] = platform)]_vars

(* No program in use was compiled for another driver: what the check at    *)
(* opencl_runtime.cc:509 ("cached OpenCL binary version is not same with   *)
(* current version") is for.                                               *)
ProgramsMatchDriver == \A k \in Kernel : built[k].platform \in {None, platform}

(* Every BuildKernel call returns, also when the build fails.              *)
CallsReturn == \A t \in Thread : pc[t] = "lock" ~> pc[t] = "idle"
=============================================================================
