------------------------------- MODULE WorkSizes -------------------------------
(***************************************************************************)
(* How the items of an OpenCL kernel are cut into work groups and blocks   *)
(* (mace/kernels/opencl/helper.cc).                                        *)
(*                                                                         *)
(* gws is the number of items per dimension, params the size of a group    *)
(* per dimension and then the block (0 for all).  A range is what one      *)
(* enqueue runs: [offset, items, group].  A device is [maxGroup, base,     *)
(* nonUniform]: its largest group for this kernel, its cache in units of   *)
(* kBaseGPUMemCacheSize, and whether groups may be of different size.      *)
(***************************************************************************)
EXTENDS Windows

LOCAL INSTANCE SequencesExt

Group(params) == SubSeq(params, 1, Len(params) - 1)

Default3DLocalWS(gws, device) ==
  LET base == Larger(device.base, 1)
      l2 == Smaller(gws[2], device.maxGroup)
      l3 == Smaller(Smaller(gws[3], base), device.maxGroup \div l2)
      l1 == Larger(Smaller(base, device.maxGroup \div (l2 * l3)), 1)
  IN  <<l1, l2, l3, 0>>

(* The sizes of groups that are tried when tuning.                         *)
Fitting(candidates, device) ==
  {p \in candidates : Elements(Group(p)) > 0 /\ Elements(Group(p)) <= device.maxGroup}

Candidates3D(gws, device) ==
  Fitting({<<g1, gws[2], g3, 0>> : g1 \in {gws[1], gws[1] \div 4, gws[1] \div 8, 4, 1},
                                   g3 \in {gws[3], gws[3] \div 8, gws[3] \div 4, 8, 4, 1}},
          device)

Candidates2D(gws, device) ==
  LET k == device.maxGroup IN
  Fitting({<<k \div d, d, 0>> : d \in {1, 2, 4, 8, 16, 32, 64, 128, 256}} \cup {<<1, k, 0>>},
          device)

-----------------------------------------------------------------------------
(* Where all groups are equally large, more items are run than asked for:  *)
(* the kernel returns at once for those.                                   *)
InternalGws(gws, params, device) ==
  IF device.nonUniform THEN gws ELSE [i \in DOMAIN gws |-> RoundUp(gws[i], params[i])]

(* Blocks of the last dimension, one enqueue each.                         *)
InBlocks(all, block, params, device) ==
  LET n == Len(all)
      blocks == RoundUpDiv(all[n], block)
      size(i) == IF device.nonUniform /\ i = blocks - 1 THEN all[n] - i * block ELSE block
  IN  {[offset |-> [d \in 1..n |-> IF d = n THEN i * block ELSE 0],
        items  |-> [all EXCEPT ![n] = size(i)],
        group  |-> Group(params)] : i \in 0..(blocks - 1)}

(* Without a timer: what the parameters say.                               *)
RunKernel(gws, params, device) ==
  LET all == InternalGws(gws, params, device)
      n == Len(gws)
  IN  InBlocks(all, IF params[n + 1] = 0 THEN all[n] ELSE params[n + 1], params, device)

(* Bug: where groups are equal, a block is not a multiple of them.         *)
BugTunedBlock(gws, params, device, slow) ==
  LET n == Len(gws) IN gws[n] \div Smaller(slow + 1, gws[n])

(* With a timer, when the time of kernels is limited: so many blocks as    *)
(* the whole takes longer than the limit.                                  *)
TunedBlock(gws, params, device, slow) ==
  LET n == Len(gws)
      block == gws[n] \div Smaller(slow + 1, gws[n])
  IN  IF device.nonUniform THEN block ELSE RoundUp(block, params[n])

(* What tuning runs with one candidate, and what it remembers.             *)
TuneKernel(gws, params, device, limit, slow) ==
  LET all == InternalGws(gws, params, device)
      n == Len(gws)
      block == TunedBlock(gws, params, device, slow)
  IN  [first  |-> InBlocks(all, all[n], params, device),
       again  |-> IF limit THEN InBlocks(all, block, params, device) ELSE {},
       result |-> IF limit THEN [params EXCEPT ![n + 1] = block] ELSE params]

(* All ranges enqueued by a run of a kernel, as a set of sets: each of     *)
(* them is the whole kernel.  The parameters are the default ones, those   *)
(* of an earlier tuning, or being tuned.                                   *)
TuningOrRun3DKernel(gws, device, mode) ==
  CASE mode.how = "default" -> {RunKernel(gws, Default3DLocalWS(gws, device), device)}
    [] mode.how = "table" ->
         {RunKernel(gws, TuneKernel(mode.gws, p, device, mode.limit, mode.slow).result, device) :
            p \in Candidates3D(mode.gws, device)}
    [] mode.how = "tune" ->
         UNION {LET t == TuneKernel(gws, p, device, mode.limit, mode.slow) IN
                IF mode.limit THEN {t.first, t.again} ELSE {t.first} :
                  p \in Candidates3D(gws, device)}

TuningOrRun2DKernel(gws, lws, device, mode) ==
  CASE mode.how = "default" -> {RunKernel(gws, lws, device)}
    [] mode.how = "table" ->
         {RunKernel(gws, TuneKernel(mode.gws, p, device, mode.limit, mode.slow).result, device) :
            p \in Candidates2D(mode.gws, device)}
    [] mode.how = "tune" ->
         UNION {LET t == TuneKernel(gws, p, device, mode.limit, mode.slow) IN
                IF mode.limit THEN {t.first, t.again} ELSE {t.first} :
                  p \in Candidates2D(gws, device)}

-----------------------------------------------------------------------------
(* What kernels ask for: items in two or three dimensions on a device that *)
(* runs groups; those of two dimensions say which group they want, those   *)
(* of three have one computed.  What is in the tuner's table was tuned for *)
(* the same number of dimensions, perhaps not for as many items.           *)
IsEnqueue(a) ==
  LET sizes == [1..Len(a.gws) -> Nat \ {0}] IN
  /\ Len(a.gws) \in {2, 3} /\ a.gws \in sizes /\ a.mode.gws \in sizes
  /\ a.device.maxGroup \in Nat \ {0} /\ a.device.base \in Nat
  /\ a.mode.how \in {"default", "table", "tune"} /\ a.mode.slow \in Nat
  /\ Len(a.gws) = 2 => /\ a.lws \in [1..3 -> Nat] /\ a.lws[3] = 0
                       /\ a.lws[1] * a.lws[2] \in 1..a.device.maxGroup
===============================================================================
