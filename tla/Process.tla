-------------------------------- MODULE Process --------------------------------
(***************************************************************************)
(* A process of the application: a few threads, each with an engine, from  *)
(* its start to its end, and the next process after it.                    *)
(*                                                                         *)
(* What the engines share is in the modules this one composes: the table   *)
(* of tuned parameters, the threads of the CPU and the DSP.  Its own part  *)
(* is the life of an engine (mace/libmace/mace.cc) and of the data of its  *)
(* model, which is read from a file, referred to by the tensors of the     *)
(* CPU, and copied for the other devices.                                  *)
(***************************************************************************)
EXTENDS Tuner, CpuThreads, Hexagon

CONSTANTS
  Setups,      \* records [devices, chip]: what each thread's engine runs on, and where
  MaxLives     \* bound: processes one after another

ASSUME ThreadsAssumption == Users \subseteq Threads /\ Wrappers \subseteq Threads

ASSUME SetupsAssumption ==
  \A s \in Setups : s.devices \in [Threads -> {"CPU", "GPU", "HEXAGON"}]

VARIABLES
  phase,     \* "up", "ending" by itself, "writing" (static destructors) or "down"
  lives,
  settings,  \* environment: MACE_TUNING is set, the path of the file is
  engine     \* of each thread

ownVars == <<phase, lives, settings, engine>>
vars == <<tunerVars, cpuVars, hexVars, ownVars>>

NoEngine == [at |-> "none", device |-> "none", data |-> "none", refers |-> FALSE, frees |-> 0]

Settings == [tuning : BOOLEAN, path : BOOLEAN]

Init ==
  /\ TunerInit /\ CpuInit /\ HexInit
  /\ phase = "up"
  /\ lives = 1
  /\ settings \in Settings
  /\ \E s \in Setups : chip = s.chip /\ engine = [t \in Threads |-> [NoEngine EXCEPT !.device = s.devices[t]]]

On(t, devices, at) == phase = "up" /\ engine[t].device \in devices /\ engine[t].at = at

At(t, at) == engine' = [engine EXCEPT ![t].at = at]

OwnOnly == UNCHANGED <<tunerVars, cpuVars, hexVars, phase, lives, settings>>

Devices == {"CPU", "GPU", "HEXAGON"}

-----------------------------------------------------------------------------
(* MaceEngine::Impl.                                                       *)
Create(t) == On(t, Devices, "none") /\ At(t, "created") /\ OwnOnly

(* LoadModelData, by the first Init or one after it failed: then the data  *)
(* loaded before are lost.  (A file that is too short ends the process.)   *)
LoadModelData(t) ==
  /\ \E at \in {"created", "failed"} : On(t, Devices, at)
  /\ engine' = [engine EXCEPT ![t].at = "loaded", ![t].data = "live"]
  /\ OwnOnly

(* LoadModelTensor: the tensors of the CPU refer to the data.              *)
LoadModelTensor(t) ==
  /\ On(t, {"CPU", "GPU"}, "loaded")
  /\ \/ engine' = [engine EXCEPT ![t].at = "tensors", ![t].refers = engine[t].device = "CPU"]
     \/ engine[t].device = "GPU" /\ At(t, "failed")
     \/ engine[t].device = "CPU" /\ engine' = [engine EXCEPT ![t].at = "failed", ![t].refers = TRUE]
  /\ OwnOnly

Unloaded(e) == [e EXCEPT !.data = "freed", !.frees = @ + 1]

(* Bug: the data are freed after Init whatever the device.                 *)
BugInitialized(e) == [Unloaded(e) EXCEPT !.at = "ready"]

Initialized(e) ==
  [(IF e.device \in {"GPU", "HEXAGON"} THEN Unloaded(e) ELSE e) EXCEPT !.at = "ready"]

(* The nets.                                                               *)
RunInit(t) ==
  /\ On(t, {"CPU", "GPU"}, "tensors")
  /\ \/ engine' = [engine EXCEPT ![t] = Initialized(@)]
     \/ At(t, "failed")
  /\ OwnOnly

Destroyed(e) ==
  LET freed == IF e.device = "CPU" /\ e.data # "none" THEN Unloaded(e) ELSE e IN
  [freed EXCEPT !.at = "gone", !.refers = FALSE]

Destroy(t) ==
  /\ \E at \in {"created", "failed", "ready"} : On(t, {"CPU", "GPU"}, at)
  /\ access[t] = Idle
  /\ engine' = [engine EXCEPT ![t] = Destroyed(@)]
  /\ OwnOnly

-----------------------------------------------------------------------------
(* On the DSP.                                                             *)
StartDsp(t) ==
  /\ On(t, {"HEXAGON"}, "loaded") /\ StartHexagon(t)
  /\ At(t, "sending")
  /\ UNCHANGED <<tunerVars, cpuVars, phase, lives, settings>>

DspOnly == UNCHANGED <<tunerVars, cpuVars, ownVars>>

SendConstList(t) == On(t, {"HEXAGON"}, "sending") /\ SendConsts(t, engine[t].data = "live") /\ DspOnly
SendOpList(t)    == On(t, {"HEXAGON"}, "sending") /\ SendOps(t) /\ DspOnly

PrepareDsp(t) ==
  /\ On(t, {"HEXAGON"}, "sending") /\ Prepare(t)
  /\ engine' = [engine EXCEPT ![t] = Initialized(@)]
  /\ UNCHANGED <<tunerVars, cpuVars, phase, lives, settings>>

DestroyDsp(t) ==
  /\ On(t, {"HEXAGON"}, "ready") /\ StopHexagon(t)
  /\ engine' = [engine EXCEPT ![t] = Destroyed(@)]
  /\ UNCHANGED <<tunerVars, cpuVars, phase, lives, settings>>

(* The destructor reaches for a controller that only Init makes.           *)
DestroyUnused(t) ==
  /\ On(t, {"HEXAGON"}, "created")
  /\ phase' = "ending"
  /\ UNCHANGED <<tunerVars, cpuVars, hexVars, lives, settings, engine>>

-----------------------------------------------------------------------------
(* A kernel of the GPU looks its parameters up, or tunes them; one of the  *)
(* CPU runs in the team of its thread, which the application may have      *)
(* changed.                                                                *)
GpuOnly == UNCHANGED <<cpuVars, hexVars, ownVars>>

TuneKernel(t) == On(t, {"GPU"}, "ready") /\ settings.tuning /\ (\E k \in Keys : Tune(t, k)) /\ GpuOnly
StoreTuned(t) == On(t, {"GPU"}, "ready") /\ Store(t) /\ GpuOnly
FindTuned(t)  == On(t, {"GPU"}, "ready") /\ ~settings.tuning /\ (\E k \in Keys : Find(t, k)) /\ GpuOnly

(* Groups that cannot be run end the process.                              *)
GetTuned(t) ==
  /\ On(t, {"GPU"}, "ready") /\ Get(t)
  /\ phase' = IF CanRun(ran'[t].params) THEN "up" ELSE "ending"
  /\ UNCHANGED <<cpuVars, hexVars, lives, settings, engine>>

CpuOnly == UNCHANGED <<tunerVars, hexVars, ownVars>>

SetPolicy(t) ==
  /\ phase = "up" /\ t \in Users /\ engine[t].device = "CPU"   \* bound: where it matters
  /\ SetOpenMPThreadPolicy(t) \/ SetOpenMPThreadAffinity(t)
  /\ CpuOnly

BindingFails(t) ==
  /\ phase = "up" /\ t \in Users /\ engine[t].device = "CPU"
  /\ SetThreadAffinityDies(t)
  /\ phase' = "ending"
  /\ UNCHANGED <<tunerVars, hexVars, lives, settings, engine>>

RunOnCpu(t)  == On(t, {"CPU"}, "ready") /\ t \in Users /\ ParallelRegion(t) /\ CpuOnly

-----------------------------------------------------------------------------
(* The end.  Nothing remains of a process but the file and the power that *)
(* the DSP was left with.                                                  *)
Gone ==
  /\ phase' = "down"
  /\ table' = <<>>
  /\ access' = [t \in Threads |-> Idle]
  /\ ran' = [t \in Threads |-> NotRun]
  /\ teams' = [u \in Users |-> FreshTeam]
  /\ asked' = [u \in Users |-> Nothing]
  /\ graph' = [w \in Wrappers |-> NoGraph]
  /\ wrapper' = [w \in Wrappers |-> NoSetup]
  /\ engine' = [t \in Threads |-> [NoEngine EXCEPT !.device = engine[t].device]]
  /\ settings' = [tuning |-> FALSE, path |-> FALSE]
  /\ UNCHANGED <<disk, tuned, chip, power, lives>>

(* At exit the destructor writes the table, if the file's path is set.     *)
Exit ==
  /\ phase = "up"
  /\ \A t \in Threads : access[t] = Idle
  /\ IF settings.path
     THEN /\ phase' = "writing"
          /\ \E o \in Listings(table) :
               disk' = [count |-> Len(o), entries |-> o, whole |-> 0, words |-> 0]
          /\ UNCHANGED <<table, access, ran, tuned, cuts, cpuVars, hexVars, lives, settings, engine>>
     ELSE Gone /\ UNCHANGED cuts

Write ==
  /\ phase = "writing"
  /\ IF Written(disk) THEN Gone /\ UNCHANGED cuts
     ELSE /\ disk' = WriteWord(disk)
          /\ UNCHANGED <<table, access, ran, tuned, cuts, cpuVars, hexVars, ownVars>>

(* The process may be killed, or end itself, at any time.                  *)
Killed ==
  /\ phase # "down"
  /\ Gone
  /\ cuts' = IF phase = "writing" /\ ~Written(disk) THEN cuts + 1 ELSE cuts

Restart ==
  /\ phase = "down" /\ lives < MaxLives
  /\ phase' = "up"
  /\ lives' = lives + 1
  /\ settings' \in Settings
  /\ table' = ReadRunParameters(disk)
  /\ UNCHANGED <<disk, access, ran, tuned, cuts, cpuVars, hexVars, engine>>

Over == phase = "down" /\ lives = MaxLives /\ UNCHANGED vars

Step(t) ==
  \/ Create(t) \/ LoadModelData(t) \/ LoadModelTensor(t) \/ RunInit(t) \/ Destroy(t)
  \/ StartDsp(t) \/ SendConstList(t) \/ SendOpList(t) \/ PrepareDsp(t) \/ DestroyDsp(t) \/ DestroyUnused(t)
  \/ TuneKernel(t) \/ StoreTuned(t) \/ FindTuned(t) \/ GetTuned(t) \/ SetPolicy(t) \/ BindingFails(t)
  \/ RunOnCpu(t)

Next == (\E t \in Threads : Step(t)) \/ Exit \/ Write \/ Killed \/ Restart \/ Over

Spec == Init /\ [][Next]_vars

-----------------------------------------------------------------------------
(* The data of a model are there as long as a tensor refers to them, and   *)
(* when the DSP's thread of constants reads them; they are freed once at   *)
(* most, and when an engine is gone they have been freed, unless Init had  *)
(* failed on the GPU or was called again; and the DSP got the model whole  *)
(* (mace.cc:240-278, hexagon_control_wrapper.cc:74-240).                   *)
ModelArrives ==
  /\ \A t \in Threads :
       LET e == engine[t] IN
       /\ e.refers => e.data = "live"
       /\ e.at \in {"loaded", "tensors", "sending"} => e.data = "live"
       /\ e.frees <= 1
       /\ e.at = "gone" /\ e.device = "CPU" => e.data # "live"
       /\ e.at = "ready" /\ e.device # "CPU" => e.data = "freed"
  /\ \A w \in Wrappers : GraphIsWhole(w)
=============================================================================
