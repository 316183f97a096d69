---------------------------- MODULE FunctorsProofs ----------------------------
(***************************************************************************)
(* What an OpenCL functor enqueues is right for this call, for any inputs, *)
(* any order of the calls and memory refused at any of them.               *)
(*                                                                         *)
(* The arguments a kernel has are those of the call they were set for, and *)
(* the shape noted is that call's (Settled); the plan of a call depends on *)
(* nothing but the shape noted and what is the same at every call          *)
(* (SamePlan); and what a call always sets anew does not matter.           *)
(*                                                                         *)
(* And it makes up all of the output: the plan of every kind of functor    *)
(* has an item for each pixel of the image, and none too many, in groups   *)
(* that the device can run (PlansRight), and what a call enqueues is its   *)
(* plan's (LaunchIs).                                                      *)
(***************************************************************************)
EXTENDS WorkSizesProofs, Functors

-----------------------------------------------------------------------------
(* The plans.                                                              *)
ResizedInside == {"resize", "addn", "pooling", "winograd", "winogradinverse"}
AlwaysSet     == {"slice", "matmul", "buffertoimage", "imagetobuffer"}
FromTwo       == {"concat", "crop", "eltwise"}

(* What of a plan is decided by the kind of the functor.                   *)
GoodPlan(p, ins) ==
  /\ p.legal = TRUE
  /\ p.resize \in {"first", "inside", "buffer"}
  /\ p.resize = "inside" <=> functor.kind \in ResizedInside
  /\ p.always \in BOOLEAN /\ p.rebuilt \in BOOLEAN
  /\ p.rebuilt => p.always /\ p.resize # "inside"
  /\ functor.kind # "concat" => (p.always <=> functor.kind \in AlwaysSet)
  /\ ~p.always => p.key # <<>>
  /\ p.always \/ functor.kind \in FromTwo \cup {"spacetobatch"} \/ p.key = ins[1]
  /\ functor.kind \notin {"concat", "eltwise"} => p.options = {}
  /\ p.gws \in {"now", "output", "kept"}
  /\ p.gws = "output" => p.resize = "inside"

PerPixel == {"activation", "batchnorm", "biasadd", "softmax", "addn", "eltwise"}
Moving   == {"pad", "resize", "shuffle", "concat", "slice", "crop", "depthtospace", "spacetobatch"}
Window   == {"conv2d", "depthwise", "pooling", "deconv2d", "depthwisedeconv"}
Product  == {"matmul", "fullyconnected", "reducemean", "winograd", "winogradinverse"}
TransferKinds == {"buffertoimage", "imagetobuffer"}
Kinds    == PerPixel \cup Moving \cup Window \cup Product \cup TransferKinds

(* Of any plan that is legal.                                              *)
LEMMA PlansAreGood ==
  ASSUME functor.kind \in Kinds, NEW ins, PlanFor(ins).legal,
         ins[1] # <<>>, Len(ins) = 1 \/ ins[2] # <<>>
  PROVE  GoodPlan(PlanFor(ins), ins)
<1>1. CASE functor.kind = "activation"
  BY <1>1 DEF PlanFor, PlanOf, GpuActivation, Plan, GoodPlan, ResizedInside, AlwaysSet, FromTwo
<1>2. CASE functor.kind = "batchnorm"
  BY <1>2 DEF PlanFor, PlanOf, GpuBatchNorm, Plan, GoodPlan, ResizedInside, AlwaysSet, FromTwo
<1>3. CASE functor.kind = "biasadd"
  BY <1>3 DEF PlanFor, PlanOf, GpuBiasAdd, Plan, GoodPlan, ResizedInside, AlwaysSet, FromTwo
<1>4. CASE functor.kind = "softmax"
  BY <1>4 DEF PlanFor, PlanOf, GpuSoftmax, Plan, GoodPlan, ResizedInside, AlwaysSet, FromTwo
<1>5. CASE functor.kind = "pad"
  BY <1>5 DEF PlanFor, PlanOf, GpuPad, Plan, GoodPlan, ResizedInside, AlwaysSet, FromTwo
<1>6. CASE functor.kind = "resize"
  BY <1>6 DEF PlanFor, PlanOf, GpuResizeBilinear, Plan, GoodPlan, ResizedInside, AlwaysSet, FromTwo
<1>7. CASE functor.kind = "shuffle"
  BY <1>7 DEF PlanFor, PlanOf, GpuChannelShuffle, Plan, GoodPlan, ResizedInside, AlwaysSet, FromTwo
<1>8. CASE functor.kind = "addn"
  BY <1>8 DEF PlanFor, PlanOf, GpuAddN, Plan, GoodPlan, ResizedInside, AlwaysSet, FromTwo
<1>9. CASE functor.kind = "eltwise"
  <2>1. PlanFor(ins) = GpuEltwise(functor, ins, device)
    BY <1>9 DEF PlanFor, PlanOf
  <2>2. CASE Len(ins) = 1
    BY <1>9, <2>1, <2>2 DEF GpuEltwise, Plan, GoodPlan, ResizedInside, AlwaysSet, FromTwo
  <2>3. CASE Len(ins) # 1
    <3> DEFINE swapped == Elements(ins[1]) < Elements(ins[2])
               a == IF swapped THEN ins[2] ELSE ins[1]
               b == IF swapped THEN ins[1] ELSE ins[2]
               whole == Plan(a, a, <<IF swapped THEN 2 ELSE 1, a[2], a[3], a[4]>>, PixelJob(a, device))
    <3>1. LegalBroadcast(a, b) /\ PlanFor(ins) = [whole EXCEPT !.options = EltwiseOptions(a, b, swapped)]
      BY <2>1, <2>3 DEF GpuEltwise
    <3>2. a # <<>>
      BY <2>3
    <3> QED BY <1>9, <3>1, <3>2 DEF Plan, GoodPlan, ResizedInside, AlwaysSet, FromTwo
  <2> QED BY <2>2, <2>3
<1>10. CASE functor.kind = "concat"
  BY <1>10 DEF PlanFor, PlanOf, GpuConcat, Concat2, ConcatN, Plan, GoodPlan, ResizedInside, AlwaysSet, FromTwo
<1>11. CASE functor.kind = "slice"
  BY <1>11 DEF PlanFor, PlanOf, GpuSlice, Plan, GoodPlan, ResizedInside, AlwaysSet, FromTwo
<1>12. CASE functor.kind = "crop"
  BY <1>12 DEF PlanFor, PlanOf, GpuCrop, Plan, GoodPlan, ResizedInside, AlwaysSet, FromTwo
<1>13. CASE functor.kind = "depthtospace"
  BY <1>13 DEF PlanFor, PlanOf, GpuDepthToSpace, Plan, GoodPlan, ResizedInside, AlwaysSet, FromTwo
<1>14. CASE functor.kind = "spacetobatch"
  BY <1>14 DEF PlanFor, PlanOf, GpuSpaceToBatch, ToNHWC, Plan, GoodPlan, ResizedInside, AlwaysSet, FromTwo
<1>15. CASE functor.kind = "conv2d"
  BY <1>15 DEF PlanFor, PlanOf, GpuConv2d, Conv2dOpenclK1x1, Conv2dOpenclK3x3, Conv2dOpencl, Plan, GoodPlan, ResizedInside, AlwaysSet, FromTwo
<1>16. CASE functor.kind = "depthwise"
  BY <1>16 DEF PlanFor, PlanOf, GpuDepthwiseConv2d, Plan, GoodPlan, ResizedInside, AlwaysSet, FromTwo
<1>17. CASE functor.kind = "pooling"
  BY <1>17 DEF PlanFor, PlanOf, GpuPooling, Plan, GoodPlan, ResizedInside, AlwaysSet, FromTwo
<1>18. CASE functor.kind = "deconv2d"
  BY <1>18 DEF PlanFor, PlanOf, GpuDeconv2d, Plan, GoodPlan, ResizedInside, AlwaysSet, FromTwo
<1>19. CASE functor.kind = "depthwisedeconv"
  BY <1>19 DEF PlanFor, PlanOf, GpuDepthwiseDeconv2d, Plan, GoodPlan, ResizedInside, AlwaysSet, FromTwo
<1>20. CASE functor.kind = "matmul"
  BY <1>20 DEF PlanFor, PlanOf, GpuMatMul, Plan, GoodPlan, ResizedInside, AlwaysSet, FromTwo
<1>21. CASE functor.kind = "fullyconnected"
  BY <1>21 DEF PlanFor, PlanOf, GpuFullyConnected, Plan, GoodPlan, ResizedInside, AlwaysSet, FromTwo
<1>22. CASE functor.kind = "reducemean"
  BY <1>22 DEF PlanFor, PlanOf, GpuReduceMean, Plan, GoodPlan, ResizedInside, AlwaysSet, FromTwo
<1>23. CASE functor.kind = "winograd"
  BY <1>23 DEF PlanFor, PlanOf, WinogradTransform, Plan, GoodPlan, ResizedInside, AlwaysSet, FromTwo
<1>24. CASE functor.kind = "winogradinverse"
  BY <1>24 DEF PlanFor, PlanOf, WinogradInverseTransform, Plan, GoodPlan, ResizedInside, AlwaysSet, FromTwo
<1>25. CASE functor.kind = "buffertoimage"
  BY <1>25 DEF PlanFor, PlanOf, BufferToImage, Transfer, Plan, GoodPlan, ResizedInside, AlwaysSet, FromTwo
<1>26. CASE functor.kind = "imagetobuffer"
  BY <1>26 DEF PlanFor, PlanOf, ImageToBuffer, Transfer, Plan, GoodPlan, ResizedInside, AlwaysSet, FromTwo
<1> QED BY <1>1, <1>2, <1>3, <1>4, <1>5, <1>6, <1>7, <1>8, <1>9, <1>10, <1>11, <1>12, <1>13, <1>14,
           <1>15, <1>16, <1>17, <1>18, <1>19, <1>20, <1>21, <1>22, <1>23, <1>24, <1>25, <1>26
        DEF Kinds, PerPixel, Moving, Window, Product, TransferKinds

(* But for the kinds with two inputs that differ, a plan depends on the    *)
(* first input.                                                            *)
LEMMA PlanOfFirst ==
  ASSUME functor.kind \in Kinds \ (FromTwo \cup AlwaysSet), NEW i, NEW j, i[1] = j[1],
         functor.kind \in HasFilter => i[2] = j[2],
         PlanFor(i).legal, PlanFor(j).legal
  PROVE  PlanFor(i) = PlanFor(j)
<1>1. CASE functor.kind = "activation"
  BY <1>1 DEF PlanFor, PlanOf, GpuActivation
<1>2. CASE functor.kind = "batchnorm"
  BY <1>2 DEF PlanFor, PlanOf, GpuBatchNorm
<1>3. CASE functor.kind = "biasadd"
  BY <1>3 DEF PlanFor, PlanOf, GpuBiasAdd
<1>4. CASE functor.kind = "softmax"
  BY <1>4 DEF PlanFor, PlanOf, GpuSoftmax
<1>5. CASE functor.kind = "pad"
  BY <1>5 DEF PlanFor, PlanOf, GpuPad
<1>6. CASE functor.kind = "resize"
  BY <1>6 DEF PlanFor, PlanOf, GpuResizeBilinear
<1>7. CASE functor.kind = "shuffle"
  BY <1>7 DEF PlanFor, PlanOf, GpuChannelShuffle
<1>8. CASE functor.kind = "addn"
  <2>1. /\ PlanFor(i) = GpuAddN(functor, i, device) /\ PlanFor(j) = GpuAddN(functor, j, device)
    BY <1>8 DEF PlanFor, PlanOf
  <2>2. /\ Len(i) \in 2..4 /\ \A n \in DOMAIN i : i[n] = i[1]
        /\ Len(j) \in 2..4 /\ \A n \in DOMAIN j : j[n] = j[1]
    BY <2>1 DEF GpuAddN, Plan
  <2>3. /\ (Len(i) \in 2..4 /\ \A n \in DOMAIN i : i[n] = i[1]) = TRUE
        /\ (Len(j) \in 2..4 /\ \A n \in DOMAIN j : j[n] = j[1]) = TRUE
    BY <2>2
  <2> QED BY <2>1, <2>3 DEF GpuAddN
<1>9. CASE functor.kind = "depthtospace"
  BY <1>9 DEF PlanFor, PlanOf, GpuDepthToSpace
<1>10. CASE functor.kind = "spacetobatch"
  BY <1>10 DEF PlanFor, PlanOf, GpuSpaceToBatch
<1>11. CASE functor.kind = "conv2d"
  BY <1>11 DEF PlanFor, PlanOf, GpuConv2d, HasFilter
<1>12. CASE functor.kind = "depthwise"
  <2> DEFINE
        sized(ins) == Sized(functor, ins[1], <<ins[2][1] * ins[2][2], ins[2][2], ins[2][3], ins[2][4]>>, "FLOOR")
        wide(ins)  == <<ins[1][2], ins[1][3], RoundUpDiv4(ins[1][4]), sized(ins).output[2],
                        sized(ins).output[3], ins[2][3], ins[2][4]>> \o Halves(sized(ins).paddings)
        args(ins)  == [n \in DOMAIN wide(ins) |-> Short(wide(ins)[n])]
        gws(ins)   == InColumns(sized(ins).output, 4)
        plan(ins)  == [Plan(ins[1], sized(ins).output, args(ins),
                            Job(gws(ins), DepthwiseLocalWS(gws(ins), device), <<1, 4, 1>>, <<>>))
                         EXCEPT !.legal = /\ functor.strides[1] = functor.strides[2] /\ ins[2][1] = 1
                                          /\ ins[2][2] = ins[1][4] /\ sized(ins).output[4] = ins[1][4]]
  <2>1. PlanFor(i) = plan(i) /\ PlanFor(j) = plan(j)
    BY <1>12 DEF PlanFor, PlanOf, GpuDepthwiseConv2d
  <2>2. i[2] = j[2] /\ sized(i) = sized(j)
    BY <1>12 DEF HasFilter
  <2> HIDE DEF sized
  <2>3. wide(i) = wide(j) /\ gws(i) = gws(j)
    BY <2>2
  <2> HIDE DEF wide, gws
  <2>4. args(i) = args(j)
    BY <2>3
  <2> HIDE DEF args
  <2> QED BY <2>1, <2>2, <2>3, <2>4
<1>13. CASE functor.kind = "pooling"
  BY <1>13 DEF PlanFor, PlanOf, GpuPooling
<1>14. CASE functor.kind = "deconv2d"
  BY <1>14 DEF PlanFor, PlanOf, GpuDeconv2d, DeconvCall, HasFilter
<1>15. CASE functor.kind = "depthwisedeconv"
  BY <1>15 DEF PlanFor, PlanOf, GpuDepthwiseDeconv2d, DeconvCall, HasFilter
<1>16. CASE functor.kind = "fullyconnected"
  BY <1>16 DEF PlanFor, PlanOf, GpuFullyConnected, HasFilter
<1>17. CASE functor.kind = "reducemean"
  BY <1>17 DEF PlanFor, PlanOf, GpuReduceMean
<1>18. CASE functor.kind = "winograd"
  BY <1>18 DEF PlanFor, PlanOf, WinogradTransform
<1>19. CASE functor.kind = "winogradinverse"
  BY <1>19 DEF PlanFor, PlanOf, WinogradInverseTransform
<1> QED BY <1>1, <1>2, <1>3, <1>4, <1>5, <1>6, <1>7, <1>8, <1>9, <1>10, <1>11, <1>12, <1>13, <1>14,
           <1>15, <1>16, <1>17, <1>18, <1>19
        DEF Kinds, PerPixel, Moving, Window, Product, TransferKinds, FromTwo, AlwaysSet

-----------------------------------------------------------------------------
(* The parts of a call.                                                    *)
IsKernel(k) ==
  k = [built |-> k.built, options |-> k.options, args |-> k.args, gws |-> k.gws,
       error |-> k.error, argsFor |-> k.argsFor]

IsOutput(o) == o = [mem |-> o.mem, phys |-> o.phys, shape |-> o.shape]

IsState(st) ==
  /\ st = [kernel |-> st.kernel, seen |-> st.seen, output |-> st.output, launch |-> st.launch,
           result |-> st.result]
  /\ IsKernel(st.kernel) /\ IsOutput(st.output)

(* What was set up for earlier calls: everything but the tensor.           *)
SameKernel(st, t) ==
  /\ t.seen = st.seen /\ t.launch = st.launch
  /\ t.kernel.built = st.kernel.built /\ t.kernel.options = st.kernel.options
  /\ t.kernel.args = st.kernel.args /\ t.kernel.gws = st.kernel.gws
  /\ t.kernel.argsFor = st.kernel.argsFor

(* Several fields of a state at a time.                                    *)
LEMMA KernelSet ==
  ASSUME NEW k, IsKernel(k), NEW args, NEW gws, NEW ins
  PROVE  [k EXCEPT !.args = args, !.gws = gws, !.argsFor = ins]
           = [built |-> k.built, options |-> k.options, args |-> args, gws |-> gws,
              error |-> k.error, argsFor |-> ins]
<1> DEFINE b == k.built  o == k.options  e == k.error  f == k.argsFor  g == k.gws  a == k.args
<1>1. k = [built |-> b, options |-> o, args |-> a, gws |-> g, error |-> e, argsFor |-> f]
  BY DEF IsKernel
<1> SUFFICES [k EXCEPT !.args = args, !.gws = gws, !.argsFor = ins]
               = [built |-> b, options |-> o, args |-> args, gws |-> gws, error |-> e, argsFor |-> ins]
  OBVIOUS
<1> HIDE DEF b, o, e, f, g, a
<1>2. [k EXCEPT !.args = args, !.gws = gws, !.argsFor = ins]
        = [[[k EXCEPT !.args = args] EXCEPT !.gws = gws] EXCEPT !.argsFor = ins]
  OBVIOUS
<1>3. [k EXCEPT !.args = args]
        = [built |-> b, options |-> o, args |-> args, gws |-> g, error |-> e, argsFor |-> f]
  BY <1>1
<1>4. [[built |-> b, options |-> o, args |-> args, gws |-> g, error |-> e, argsFor |-> f] EXCEPT !.gws = gws]
        = [built |-> b, options |-> o, args |-> args, gws |-> gws, error |-> e, argsFor |-> f]
  OBVIOUS
<1>5. [[built |-> b, options |-> o, args |-> args, gws |-> gws, error |-> e, argsFor |-> f] EXCEPT !.argsFor = ins]
        = [built |-> b, options |-> o, args |-> args, gws |-> gws, error |-> e, argsFor |-> ins]
  OBVIOUS
<1> QED BY <1>2, <1>3, <1>4, <1>5, Zenon

WithArguments(st, args, gws, ins, key) ==
  [st EXCEPT !.kernel.args = args, !.kernel.gws = gws, !.kernel.argsFor = ins, !.seen = key]

(* The arguments of a call are set, and for which call it was is noted.    *)
LEMMA StateSet ==
  ASSUME NEW st, IsState(st), NEW args, NEW gws, NEW ins, NEW key
  PROVE  LET t == WithArguments(st, args, gws, ins, key) IN
         /\ IsState(t) /\ t.seen = key /\ t.output = st.output /\ t.launch = st.launch
         /\ t.result = st.result /\ t.kernel.built = st.kernel.built
         /\ t.kernel.options = st.kernel.options /\ t.kernel.args = args /\ t.kernel.gws = gws
         /\ t.kernel.argsFor = ins
<1> DEFINE s == st.seen  u == st.output  l == st.launch  r == st.result
           n == [st.kernel EXCEPT !.args = args, !.gws = gws, !.argsFor = ins]
<1>1. st = [kernel |-> st.kernel, seen |-> s, output |-> u, launch |-> l, result |-> r]
  BY DEF IsState
<1>2. n = [built |-> st.kernel.built, options |-> st.kernel.options, args |-> args,
           gws |-> gws, error |-> st.kernel.error, argsFor |-> ins]
  BY KernelSet DEF IsState
<1>3. [st EXCEPT !.kernel.args = args, !.kernel.gws = gws, !.kernel.argsFor = ins, !.seen = key]
        = [[st EXCEPT !.kernel = [@ EXCEPT !.args = args, !.gws = gws, !.argsFor = ins]] EXCEPT !.seen = key]
  BY <1>1
<1>4. [st EXCEPT !.kernel = [@ EXCEPT !.args = args, !.gws = gws, !.argsFor = ins]] = [st EXCEPT !.kernel = n]
  OBVIOUS
<1> HIDE DEF n, s, u, l, r
<1>5. [st EXCEPT !.kernel = n] = [kernel |-> n, seen |-> s, output |-> u, launch |-> l, result |-> r]
  BY <1>1
<1>6. [[kernel |-> n, seen |-> s, output |-> u, launch |-> l, result |-> r] EXCEPT !.seen = key]
        = [kernel |-> n, seen |-> key, output |-> u, launch |-> l, result |-> r]
  OBVIOUS
<1>7. [st EXCEPT !.kernel.args = args, !.kernel.gws = gws, !.kernel.argsFor = ins, !.seen = key]
        = [kernel |-> n, seen |-> key, output |-> u, launch |-> l, result |-> r]
  BY <1>3, <1>4, <1>5, <1>6, Zenon
<1>8. WithArguments(st, args, gws, ins, key)
        = [kernel |-> [built |-> st.kernel.built, options |-> st.kernel.options, args |-> args,
                       gws |-> gws, error |-> st.kernel.error, argsFor |-> ins],
           seen |-> key, output |-> u, launch |-> l, result |-> r]
  BY <1>7, <1>2, Zenon DEF WithArguments
<1>9. IsOutput(u)
  BY DEF IsState, u
<1>10. LET t == WithArguments(st, args, gws, ins, key) IN
       /\ IsState(t) /\ t.seen = key /\ t.output = u /\ t.launch = l /\ t.result = r
       /\ t.kernel.built = st.kernel.built /\ t.kernel.options = st.kernel.options
       /\ t.kernel.args = args /\ t.kernel.gws = gws /\ t.kernel.argsFor = ins
  BY <1>8, <1>9 DEF IsState, IsKernel
<1> QED BY <1>10 DEF s, u, l, r

(* Tensor::ResizeImage changes the output and nothing else.                *)
LEMMA ImageResized ==
  ASSUME NEW st, IsState(st), st.result = "ok", NEW p, NEW got \in BOOLEAN
  PROVE  LET t == ResizeImage(st, p, got) IN
         /\ IsState(t) /\ t.kernel = st.kernel /\ SameKernel(st, t)
         /\ t.result \in {"ok", "oom", "fatal"}
         /\ t.result = "oom" => st.output.mem = "none"
         /\ t.result = "ok" => t.output.shape = p.out /\ t.output.mem # "none"
         /\ st.output.mem = "none" /\ got => t.result = "ok" /\ t.output.mem = "live"
<1> DEFINE i == CalImage2DShape(p.image, p.type, p.block)
           o == st.output
<1>1. CASE o.mem = "none"
  <2>1. ResizeImage(st, p, got) = [st EXCEPT !.output = [mem |-> IF got THEN "live" ELSE "hollow", phys |-> i, shape |-> p.out],
                       !.result = IF got THEN "ok" ELSE "oom"]
    BY <1>1 DEF ResizeImage
  <2> HIDE DEF i
  <2>2. ResizeImage(st, p, got)
          = [kernel |-> st.kernel, seen |-> st.seen,
             output |-> [mem |-> IF got THEN "live" ELSE "hollow", phys |-> i, shape |-> p.out],
             launch |-> st.launch, result |-> IF got THEN "ok" ELSE "oom"]
    BY <2>1 DEF IsState
  <2> QED BY <1>1, <2>2 DEF IsState, IsOutput, SameKernel
<1>2. CASE o.mem # "none" /\ i[1] <= o.phys[1] /\ i[2] <= o.phys[2]
  <2>1. ResizeImage(st, p, got) = [st EXCEPT !.output.shape = p.out]
    BY <1>2 DEF ResizeImage
  <2> HIDE DEF i
  <2> QED BY <1>2, <2>1 DEF IsState, IsKernel, IsOutput, SameKernel
<1>3. CASE o.mem # "none" /\ ~(i[1] <= o.phys[1] /\ i[2] <= o.phys[2])
  <2>1. ResizeImage(st, p, got) = [st EXCEPT !.result = "fatal"]
    BY <1>3 DEF ResizeImage, Ends
  <2> HIDE DEF i
  <2> QED BY <1>3, <2>1 DEF IsState, IsKernel, IsOutput, SameKernel
<1> QED BY <1>1, <1>2, <1>3

(* Resized first or not, the kernel stays.                                 *)
LEMMA FirstResized ==
  ASSUME NEW st, IsState(st), st.result = "ok", NEW p, NEW got \in BOOLEAN,
         p.resize \in {"first", "inside", "buffer"}
  PROVE  LET t == ResizeFirst(st, p, got) IN
         /\ IsState(t) /\ t.kernel = st.kernel /\ SameKernel(st, t)
         /\ t.result \in {"ok", "oom", "fatal"}
         /\ p.resize = "inside" => t = st
         /\ t.result = "ok" /\ p.resize # "inside" => t.output.shape = p.out
<1>1. CASE p.resize = "first"
  <2>1. ResizeFirst(st, p, got) = ResizeImage(st, p, got)
    BY <1>1 DEF ResizeFirst
  <2> QED BY <1>1, <2>1, ImageResized
<1>2. CASE p.resize = "buffer"
  <2> DEFINE n == Elements(p.out)
  <2>1. CASE st.output.mem # "none" /\ n <= st.output.phys[1]
    <3>1. ResizeFirst(st, p, got) = [st EXCEPT !.output.shape = p.out]
      BY <1>2, <2>1 DEF ResizeFirst, ResizeBuffer
    <3> HIDE DEF n
    <3> QED BY <1>2, <3>1 DEF IsState, IsKernel, IsOutput, SameKernel
  <2>2. CASE ~(st.output.mem # "none" /\ n <= st.output.phys[1])
    <3>1. ResizeFirst(st, p, got)
            = [st EXCEPT !.output = [mem |-> IF got THEN "live" ELSE "hollow", phys |-> <<n, 1>>, shape |-> p.out],
                         !.result = IF got THEN "ok" ELSE "oom"]
      BY <1>2, <2>2 DEF ResizeFirst, ResizeBuffer
    <3> HIDE DEF n
    <3>2. ResizeFirst(st, p, got)
            = [kernel |-> st.kernel, seen |-> st.seen,
               output |-> [mem |-> IF got THEN "live" ELSE "hollow", phys |-> <<n, 1>>, shape |-> p.out],
               launch |-> st.launch, result |-> IF got THEN "ok" ELSE "oom"]
      BY <3>1 DEF IsState
    <3> QED BY <1>2, <3>2 DEF IsState, IsOutput, SameKernel
  <2> QED BY <2>1, <2>2
<1>3. CASE p.resize = "inside"
  BY <1>3 DEF ResizeFirst, SameKernel
<1> QED BY <1>1, <1>2, <1>3

(* Built once, or at each call by the transfers.                           *)
BuiltFrom(st, p, t) ==
  /\ IsState(t) /\ t.output = st.output
  /\ t.result \in {"ok", "oom", "fatal"}
  /\ st.result # "ok" => t = st
  /\ t.seen = st.seen /\ t.launch = st.launch
  /\ t.kernel.args = st.kernel.args /\ t.kernel.argsFor = st.kernel.argsFor
  /\ t.result # "ok" => SameKernel(st, t)
  /\ t.result = "ok" =>
       \/ st.kernel.built /\ ~p.rebuilt /\ t.kernel = st.kernel
       \/ /\ ~st.kernel.built \/ p.rebuilt
          /\ t.kernel.built = TRUE /\ t.kernel.options = p.options /\ t.kernel.gws = p.runs[1].gws

(* A kernel is built if there is none, and keeps its arguments.            *)
LEMMA KernelBuilt ==
  ASSUME NEW st, IsState(st), NEW p, NEW got \in BOOLEAN, st.result \in {"ok", "oom", "fatal"}
  PROVE  BuiltFrom(st, p, Build(st, p, got))
<1> DEFINE k == st.kernel
           error == IF ~device.check THEN "none"
                    ELSE IF p.rebuilt /\ k.error # "none" THEN k.error
                    ELSE IF got THEN "live" ELSE "hollow"
           refused == device.check /\ ~got /\ (~p.rebuilt \/ k.error = "none")
<1>1. CASE st.result # "ok" \/ (k.built /\ ~p.rebuilt)
  <2>1. Build(st, p, got) = st
    BY <1>1 DEF Build
  <2> QED BY <1>1, <2>1 DEF BuiltFrom, SameKernel
<1>2. CASE ~(st.result # "ok" \/ (k.built /\ ~p.rebuilt)) /\ refused
  <2>1. Build(st, p, got) = [st EXCEPT !.kernel.error = error, !.result = "oom"]
    BY <1>2 DEF Build
  <2> HIDE DEF error
  <2>2. Build(st, p, got)
          = [kernel |-> [st.kernel EXCEPT !.error = error], seen |-> st.seen, output |-> st.output,
             launch |-> st.launch, result |-> "oom"]
    BY <2>1 DEF IsState
  <2>3. [st.kernel EXCEPT !.error = error]
          = [built |-> k.built, options |-> k.options, args |-> k.args, gws |-> k.gws,
             error |-> error, argsFor |-> k.argsFor]
    BY DEF IsState, IsKernel
  <2> QED BY <1>2, <2>2, <2>3 DEF BuiltFrom, IsState, IsKernel, SameKernel
<1>3. CASE ~(st.result # "ok" \/ (k.built /\ ~p.rebuilt)) /\ ~refused
  <2>1. Build(st, p, got) = [st EXCEPT !.kernel.built = TRUE, !.kernel.options = p.options, !.kernel.error = error,
                       !.kernel.gws = p.runs[1].gws]
    BY <1>3 DEF Build
  <2> HIDE DEF error
  <2>2. Build(st, p, got)
          = [kernel |-> [built |-> TRUE, options |-> p.options, args |-> k.args, gws |-> p.runs[1].gws,
                         error |-> error, argsFor |-> k.argsFor],
             seen |-> st.seen, output |-> st.output, launch |-> st.launch, result |-> st.result]
    BY <2>1 DEF IsState, IsKernel
  <2> QED BY <1>3, <2>2 DEF BuiltFrom, IsState, IsKernel, SameKernel
<1> QED BY <1>1, <1>2, <1>3

(* The arguments that count the items.                                     *)
Items(p) == IF device.nonUniform \/ p.always THEN <<>> ELSE p.runs[1].gws

(* Arguments are set for this call, or the shape noted was this call's.    *)
LEMMA ArgumentsSet ==
  ASSUME NEW st, IsState(st), NEW p, NEW ins, NEW got \in BOOLEAN, st.result \in {"ok", "oom", "fatal"},
         p.always \in BOOLEAN
  PROVE  LET t == Arguments(st, p, ins, got) IN
         /\ IsState(t) /\ t.result \in {"ok", "oom", "fatal"}
         /\ st.result # "ok" => t = st
         /\ t.kernel.built = st.kernel.built /\ t.kernel.options = st.kernel.options /\ t.launch = st.launch
         /\ t.result # "ok" => SameKernel(st, t)
         /\ p.resize # "inside" => t.output = st.output
         /\ t.result = "oom" /\ st.result = "ok" => p.resize = "inside" /\ st.output.mem = "none"
         /\ t.result = "ok" =>
              \/ ~p.always /\ st.seen = p.key /\ t = st
              \/ /\ t.kernel.args = Items(p) \o p.args /\ t.kernel.gws = p.runs[1].gws
                 /\ t.kernel.argsFor = ins /\ t.seen = p.key
                 /\ p.resize = "inside" => t.output.shape = p.out /\ t.output.mem # "none"
<1> DEFINE sized == IF p.resize = "inside" THEN ResizeImage(st, p, got) ELSE st
           set == [sized EXCEPT !.kernel.args = Items(p) \o p.args, !.kernel.gws = p.runs[1].gws,
                                !.kernel.argsFor = ins, !.seen = p.key]
<1>1. CASE st.result # "ok" \/ ~(p.always \/ st.seen # p.key)
  <2>1. Arguments(st, p, ins, got) = st
    BY <1>1 DEF Arguments
  <2> QED BY <1>1, <2>1 DEF SameKernel
<1>2. CASE st.result = "ok" /\ (p.always \/ st.seen # p.key)
  <2>1. Arguments(st, p, ins, got) = IF sized.result # "ok" THEN sized
            ELSE IF "hollow" \in {sized.output.mem, sized.kernel.error} THEN Ends(sized, "fatal")
            ELSE set
    BY <1>2 DEF Arguments, Items
  <2>2. /\ IsState(sized) /\ SameKernel(st, sized) /\ sized.result \in {"ok", "oom", "fatal"}
        /\ sized.result = "oom" => p.resize = "inside" /\ st.output.mem = "none"
        /\ p.resize = "inside" /\ sized.result = "ok" => sized.output.shape = p.out /\ sized.output.mem # "none"
        /\ p.resize # "inside" => sized.output = st.output
    <3>1. CASE p.resize = "inside"
      BY <1>2, <3>1, ImageResized
    <3>2. CASE p.resize # "inside"
      BY <1>2, <3>2 DEF SameKernel
    <3> QED BY <3>1, <3>2
  <2> HIDE DEF sized
  <2>3. CASE sized.result # "ok"
    BY <1>2, <2>1, <2>2, <2>3 DEF SameKernel
  <2>4. CASE sized.result = "ok" /\ "hollow" \in {sized.output.mem, sized.kernel.error}
    <3>1. Arguments(st, p, ins, got) = [sized EXCEPT !.result = "fatal"]
      BY <2>1, <2>4 DEF Ends
    <3> QED BY <1>2, <2>2, <3>1 DEF IsState, IsKernel, IsOutput, SameKernel
  <2>5. CASE sized.result = "ok" /\ ~("hollow" \in {sized.output.mem, sized.kernel.error})
    <3>1. Arguments(st, p, ins, got) = set
      BY <2>1, <2>5
    <3> DEFINE args == Items(p) \o p.args
               gws  == p.runs[1].gws
    <3>2. set = WithArguments(sized, args, gws, ins, p.key)
      BY Zenon DEF WithArguments
    <3> HIDE DEF set, args, gws
    <3>3. Arguments(st, p, ins, got) = WithArguments(sized, args, gws, ins, p.key)
      BY <3>1, <3>2
    <3>4. IsState(sized)
      BY <2>2
    <3>5. LET t == Arguments(st, p, ins, got) IN
          /\ IsState(t) /\ t.kernel.args = args /\ t.kernel.gws = gws /\ t.kernel.argsFor = ins
          /\ t.seen = p.key /\ t.output = sized.output /\ t.launch = sized.launch /\ t.result = sized.result
          /\ t.kernel.built = sized.kernel.built /\ t.kernel.options = sized.kernel.options
      BY <3>3, <3>4, StateSet
    <3> QED BY <1>2, <2>2, <2>5, <3>5 DEF SameKernel, args, gws
  <2> QED BY <2>3, <2>4, <2>5
<1> QED BY <1>1, <1>2

-----------------------------------------------------------------------------
(* What is enqueued.                                                       *)
Job1(p, job, options, args, kept, shape) ==
  [options |-> options,
   args    |-> args \o (IF device.nonUniform \/ ~p.always THEN job.each ELSE job.gws \o job.each),
   gws     |-> CASE p.gws = "now" -> job.gws [] p.gws = "output" -> Pixels(shape) [] p.gws = "kept" -> kept,
   lws |-> job.lws, per |-> job.per, apart |-> job.apart]

Enqueued(p, ins, options, args, kept, shape) ==
  [ins |-> ins, runs |-> [i \in DOMAIN p.runs |-> Job1(p, p.runs[i], options, args, kept, shape)]]

(* A call enqueues what the kernel has then, if nothing failed before.     *)
LEMMA EnqueueIs ==
  ASSUME NEW st, IsState(st), NEW p, NEW ins
  PROVE  LET t == Enqueue(st, p, ins) IN
         /\ st.result # "ok" => t = st
         /\ st.result = "ok" =>
              /\ IsState(t)
              /\ t.kernel = st.kernel /\ t.seen = st.seen /\ t.output = st.output /\ t.result = "ok"
              /\ t.launch = Enqueued(p, ins, st.kernel.options, st.kernel.args, st.kernel.gws, st.output.shape)
<1>1. CASE st.result # "ok"
  BY <1>1 DEF Enqueue
<1>2. CASE st.result = "ok"
  <2>1. Enqueue(st, p, ins)
          = [st EXCEPT !.launch = Enqueued(p, ins, st.kernel.options, st.kernel.args, st.kernel.gws,
                                           st.output.shape)]
    BY <1>2, Zenon DEF Enqueue, Enqueued, Job1
  <2> DEFINE l == Enqueued(p, ins, st.kernel.options, st.kernel.args, st.kernel.gws, st.output.shape)
  <2> HIDE DEF l
  <2>2. Enqueue(st, p, ins) = [st EXCEPT !.launch = l]
    BY <2>1 DEF l
  <2>3. [st EXCEPT !.launch = l]
          = [kernel |-> st.kernel, seen |-> st.seen, output |-> st.output, launch |-> l, result |-> st.result]
    BY DEF IsState
  <2> QED BY <1>2, <2>2, <2>3 DEF IsState, l
<1> QED BY <1>1, <1>2

(* An image or a buffer that is new holds the output.                      *)
New == [kernel |-> Unbuilt, seen |-> <<>>, output |-> NoOutput, launch |-> NoLaunch, result |-> "ok"]

(* What a new functor enqueues, by the plan alone.                         *)
LEMMA FreshIs ==
  ASSUME NEW ins, GoodPlan(PlanFor(ins), ins)
  PROVE  LET p == PlanFor(ins) IN
         \E kept, shape :
           /\ p.gws = "output" => shape = p.out
           /\ p.gws = "kept" => kept = p.runs[1].gws
           /\ Fresh(ins) = Enqueued(p, ins, p.options, Items(p) \o p.args, kept, shape)
<1> DEFINE p == PlanFor(ins)
           a == ResizeFirst(New, p, TRUE)
           b == Build(a, p, TRUE)
           c == Arguments(b, p, ins, TRUE)
<1>1. IsState(New) /\ New.result = "ok"
  BY DEF New, IsState, IsKernel, IsOutput, Unbuilt, NoOutput
<1>2. Fresh(ins) = Enqueue(c, p, ins).launch
  BY DEF Fresh, Called, New, GoodPlan
<1>p. /\ p.resize \in {"first", "inside", "buffer"} /\ p.always \in BOOLEAN
      /\ ~p.always => p.key # <<>>
      /\ p.gws = "output" => p.resize = "inside"
  BY DEF GoodPlan
<1> HIDE DEF p
<1>3. /\ IsState(a) /\ a.kernel = Unbuilt /\ a.seen = <<>> /\ a.result = "ok" /\ a.output.mem # "hollow"
      /\ p.resize = "inside" => a.output.mem = "none"
  <2>1. New.kernel = Unbuilt /\ New.seen = <<>>
    BY DEF New
  <2>2. IsState(a) /\ a.kernel = Unbuilt /\ a.seen = <<>> /\ (p.resize = "inside" => a = New)
    <3>1. IsState(a) /\ a.kernel = New.kernel /\ SameKernel(New, a) /\ (p.resize = "inside" => a = New)
      BY <1>1, <1>p, FirstResized
    <3> QED BY <2>1, <3>1 DEF SameKernel
  <2>3. a.result = "ok" /\ a.output.mem # "hollow"
    BY <1>p DEF New, NoOutput, ResizeFirst, ResizeImage, ResizeBuffer
  <2>4. New.output.mem = "none"
    BY DEF New, NoOutput
  <2> QED BY <2>2, <2>3, <2>4
<1> HIDE DEF a
<1>4. b.kernel.error # "hollow" /\ b.result = "ok"
  BY <1>3 DEF Build, IsState, IsKernel, Unbuilt
<1>5. /\ IsState(b) /\ b.seen = <<>> /\ b.output = a.output
      /\ b.kernel.options = p.options
  <2>1. a.kernel.built = FALSE
    BY <1>3 DEF Unbuilt
  <2> QED BY <1>3, <1>4, <2>1, KernelBuilt DEF BuiltFrom
<1> HIDE DEF b
<1>6. c.result = "ok"
  <2> DEFINE sized == IF p.resize = "inside" THEN ResizeImage(b, p, TRUE) ELSE b
  <2>1. IsState(sized) /\ sized.result = "ok" /\ sized.output.mem # "hollow" /\ sized.kernel = b.kernel
    <3>1. CASE p.resize = "inside"
      <4>1. b.output.mem = "none" /\ sized = ResizeImage(b, p, TRUE)
        BY <1>3, <1>5, <3>1
      <4> HIDE DEF sized
      <4> QED BY <1>4, <1>5, <4>1, ImageResized
    <3>2. CASE p.resize # "inside"
      BY <1>3, <1>4, <1>5, <3>2
    <3> QED BY <3>1, <3>2
  <2>2. c = WithArguments(sized, Items(p) \o p.args, p.runs[1].gws, ins, p.key)
    <3>1. p.always \/ b.seen # p.key
      BY <1>p, <1>5
    <3>2. c = IF sized.result # "ok" THEN sized
              ELSE IF "hollow" \in {sized.output.mem, sized.kernel.error} THEN Ends(sized, "fatal")
              ELSE WithArguments(sized, Items(p) \o p.args, p.runs[1].gws, ins, p.key)
      BY <1>4, <3>1, Zenon DEF Arguments, Items, WithArguments
    <3> HIDE DEF c, sized
    <3> QED BY <1>4, <2>1, <3>2
  <2> HIDE DEF c, sized
  <2> QED BY <2>1, <2>2, StateSet
<1>7. /\ IsState(c) /\ c.kernel.options = p.options
      /\ c.kernel.args = Items(p) \o p.args /\ c.kernel.gws = p.runs[1].gws
      /\ p.resize = "inside" => c.output.shape = p.out
  BY <1>p, <1>4, <1>5, <1>6, ArgumentsSet
<1> HIDE DEF c
<1>8. Fresh(ins) = Enqueued(p, ins, p.options, Items(p) \o p.args, c.kernel.gws, c.output.shape)
  BY <1>2, <1>6, <1>7, EnqueueIs
<1> QED BY <1>p, <1>7, <1>8 DEF p

-----------------------------------------------------------------------------
(* The shape noted tells the plan.                                         *)
LEMMA Cancel ==
  ASSUME NEW a \in Int, NEW c \in Int, NEW b \in Nat \ {0}, a * b = c * b
  PROVE  a = c
<1>1. ASSUME NEW x \in Int, NEW y \in Int, x < y PROVE x * b < y * b
  <2>1. PICK n \in Nat \ {0} : y = x + n
    <3>1. y - x \in Nat \ {0} /\ y = x + (y - x)
      BY <1>1
    <3> QED BY <3>1
  <2>2. y * b = x * b + n * b
    BY <2>1
  <2>3. n * b >= 1 /\ n * b \in Nat /\ x * b \in Int
    BY <2>1
  <2> QED BY <2>2, <2>3
<1>2. a < c => a * b < c * b
  BY <1>1
<1>3. c < a => c * b < a * b
  BY <1>1
<1>4. a * b \in Int
  OBVIOUS
<1> QED BY <1>2, <1>3, <1>4

(* A multiple of a block is known by the number of blocks.                 *)
LEMMA MultipleOf ==
  ASSUME NEW n \in Nat, NEW b \in Nat \ {0}, NEW c \in Nat \ {0}, n % (b * c) = 0
  PROVE  n = ((n \div b) \div c) * (b * c)
<1>1. b * c \in Nat \ {0}
  OBVIOUS
<1> DEFINE m == b * c
<1>2. PICK k \in Nat : n = k * m
  <2> HIDE DEF m
  <2>1. m \in Nat \ {0} /\ n % m = 0
    BY <1>1 DEF m
  <2>2. n \div m \in Nat /\ n = (n \div m) * m + (n % m)
    BY <2>1
  <2>3. n = (n \div m) * m
    BY <2>1, <2>2
  <2> QED BY <2>2, <2>3
<1>3. n = (k * c) * b
  BY <1>2
<1>4. ASSUME NEW x \in Nat, NEW y \in Nat \ {0} PROVE (x * y) \div y = x
  <2> DEFINE q == (x * y) \div y
  <2>1. q \in Nat /\ q * y <= x * y /\ x * y < q * y + y
    BY <1>4
  <2>2. ASSUME NEW u \in Nat, NEW v \in Nat, u < v PROVE u * y + y <= v * y
    <3>1. v = (v - u - 1) + u + 1 /\ v - u - 1 \in Nat
      BY <2>2
    <3>2. PICK w \in Nat : v = w + u + 1
      BY <3>1
    <3>3. v * y = w * y + u * y + y /\ w * y \in Nat
      BY <3>2
    <3>4. u * y \in Nat /\ y \in Nat
      BY <2>2
    <3> QED BY <3>3, <3>4
  <2> HIDE DEF q
  <2>3. ~(q < x)
    BY <2>1, <2>2
  <2>4. ~(x < q)
    <3>1. x < q => x * y + y <= q * y
      BY <2>1, <2>2
    <3>2. x * y \in Nat /\ q * y \in Nat /\ y \in Nat \ {0}
      BY <2>1
    <3> QED BY <2>1, <3>1, <3>2
  <2>5. q = x
    BY <2>1, <2>3, <2>4
  <2> QED BY <2>5 DEF q
<1>5. n \div b = k * c /\ (n \div b) \div c = k
  <2>1. k * c \in Nat
    BY <1>2
  <2>2. n \div b = k * c
    BY <1>3, <1>4, <2>1
  <2>3. (k * c) \div c = k
    BY <1>2, <1>4
  <2> QED BY <2>2, <2>3
<1> QED BY <1>2, <1>5

(* A batch that is put back: the picture it makes tells which it was.      *)
LEMMA OtherSide ==
  ASSUME NEW f, f.b2s \in BOOLEAN, IsBatched(f), NEW i \in f.calls, NEW j \in f.calls, NEW d,
         GpuSpaceToBatch(f, i, d).legal, GpuSpaceToBatch(f, j, d).legal,
         GpuSpaceToBatch(f, i, d).key = GpuSpaceToBatch(f, j, d).key
  PROVE  i[1] = j[1]
<1> DEFINE Picture(s) == ToNHWC(BatchToSpaceShape(ToNCHW(s), f.block, f.paddings))
<1>1. \A ins : GpuSpaceToBatch(f, ins, d).key = IF f.b2s THEN Picture(ins[1]) ELSE ins[1]
  BY DEF GpuSpaceToBatch, Plan
<1>2. CASE ~f.b2s
  BY <1>1, <1>2
<1>3. CASE f.b2s
  <2> DEFINE s == i[1]  t == j[1]  b == f.block  p == f.paddings
  <2>1. /\ s \in [1..4 -> Nat] /\ t \in [1..4 -> Nat] /\ p \in [1..4 -> Nat]
        /\ b[1] \in Nat \ {0, 1} /\ b[2] \in Nat \ {0, 1}
        /\ s[1] % (b[1] * b[2]) = 0 /\ t[1] % (b[1] * b[2]) = 0
    <3>1. \A ins \in f.calls : ins[1] \in [1..4 -> Nat] /\ ins[1][1] % (b[1] * b[2]) = 0
      BY <1>3 DEF IsBatched
    <3>2. p \in [1..4 -> Nat] /\ b[1] \in Nat \ {0, 1} /\ b[2] \in Nat \ {0, 1}
      BY DEF IsBatched
    <3> HIDE DEF b, p
    <3> QED BY <3>1, <3>2
  <2>2. Picture(s) = Picture(t)
    BY <1>1, <1>3
  <2> HIDE DEF s, t, b, p
  <2>3. \A x : Picture(x) = <<(x[1] \div b[1]) \div b[2], x[2] * b[1] - p[1] - p[2],
                              x[3] * b[2] - p[3] - p[4], x[4]>>
    BY DEF ToNHWC, ToNCHW, BatchToSpaceShape, b, p
  <2> HIDE DEF Picture
  <2>4. /\ (s[1] \div b[1]) \div b[2] = (t[1] \div b[1]) \div b[2]
        /\ s[2] * b[1] - p[1] - p[2] = t[2] * b[1] - p[1] - p[2]
        /\ s[3] * b[2] - p[3] - p[4] = t[3] * b[2] - p[3] - p[4]
        /\ s[4] = t[4]
    <3>1. /\ Picture(s)[1] = (s[1] \div b[1]) \div b[2] /\ Picture(t)[1] = (t[1] \div b[1]) \div b[2]
          /\ Picture(s)[2] = s[2] * b[1] - p[1] - p[2] /\ Picture(t)[2] = t[2] * b[1] - p[1] - p[2]
          /\ Picture(s)[3] = s[3] * b[2] - p[3] - p[4] /\ Picture(t)[3] = t[3] * b[2] - p[3] - p[4]
          /\ Picture(s)[4] = s[4] /\ Picture(t)[4] = t[4]
      BY <2>3
    <3> QED BY <2>2, <3>1
  <2>5. s[1] = t[1]
    <3>1. /\ s[1] = ((s[1] \div b[1]) \div b[2]) * (b[1] * b[2])
          /\ t[1] = ((t[1] \div b[1]) \div b[2]) * (b[1] * b[2])
      BY <2>1, MultipleOf
    <3> QED BY <2>4, <3>1
  <2>6. s[2] = t[2] /\ s[3] = t[3]
    <3>1. s[2] * b[1] = t[2] * b[1] /\ s[3] * b[2] = t[3] * b[2]
      <4> DEFINE x == s[2] * b[1]  y == t[2] * b[1]  u == s[3] * b[2]  v == t[3] * b[2]
      <4>1. /\ x \in Int /\ y \in Int /\ u \in Int /\ v \in Int
            /\ p[1] \in Int /\ p[2] \in Int /\ p[3] \in Int /\ p[4] \in Int
        BY <2>1
      <4>2. x - p[1] - p[2] = y - p[1] - p[2] /\ u - p[3] - p[4] = v - p[3] - p[4]
        BY <2>4
      <4> HIDE DEF x, y, u, v
      <4>3. PICK p1 \in Int, p2 \in Int, p3 \in Int, p4 \in Int :
              p1 = p[1] /\ p2 = p[2] /\ p3 = p[3] /\ p4 = p[4]
        BY <4>1
      <4>4. x - p1 - p2 = y - p1 - p2 /\ u - p3 - p4 = v - p3 - p4
        BY <4>2, <4>3
      <4>5. x = y /\ u = v
        BY <4>1, <4>4
      <4> QED BY <4>5 DEF x, y, u, v
    <3>2. s[2] \in Int /\ t[2] \in Int /\ s[3] \in Int /\ t[3] \in Int /\ b[1] \in Nat \ {0} /\ b[2] \in Nat \ {0}
      BY <2>1
    <3> QED BY <3>1, <3>2, Cancel
  <2>7. s = t
    <3>1. \A n \in 1..4 : s[n] = t[n]
      BY <2>4, <2>5, <2>6
    <3> QED BY <2>1, <3>1
  <2> QED BY <2>7 DEF s, t
<1> QED BY <1>2, <1>3

(* What the noted shape decides.                                           *)
LEMMA SamePlan ==
  ASSUME functor \in FunctorSet, functor.kind \in Kinds \ FromTwo,
         NEW i \in functor.calls, NEW j \in functor.calls,
         GoodPlan(PlanFor(i), i), GoodPlan(PlanFor(j), j),
         ~PlanFor(j).always, PlanFor(i).key = PlanFor(j).key
  PROVE  PlanFor(i) = PlanFor(j)
<1>1. functor.kind \notin AlwaysSet /\ ~PlanFor(i).always
  BY DEF GoodPlan, FromTwo
<1>2. i[1] = j[1]
  <2>1. CASE functor.kind = "spacetobatch"
    <3>1. PlanFor(i) = GpuSpaceToBatch(functor, i, device) /\ PlanFor(j) = GpuSpaceToBatch(functor, j, device)
      BY <2>1 DEF PlanFor, PlanOf
    <3>2. functor.b2s \in BOOLEAN /\ IsBatched(functor)
      BY <2>1, FunctorsAssumption
    <3> QED BY <3>1, <3>2, OtherSide DEF GoodPlan
  <2>2. CASE functor.kind # "spacetobatch"
    BY <1>1, <2>2 DEF GoodPlan
  <2> QED BY <2>1, <2>2
<1>3. functor.kind \in HasFilter => i[2] = j[2]
  BY FunctorsAssumption
<1> QED BY <1>1, <1>2, <1>3, PlanOfFirst DEF GoodPlan

-----------------------------------------------------------------------------
(* The invariant.                                                          *)
SettledAt(k, s, o) ==
  /\ k.built => \E ins \in functor.calls : PlanFor(ins).legal /\ k.options = PlanFor(ins).options
  /\ k.argsFor # <<>> =>
       LET p == PlanFor(k.argsFor) IN
       /\ k.argsFor \in functor.calls /\ p.legal /\ k.built
       /\ k.args = Items(p) \o p.args
       /\ k.gws = p.runs[1].gws
       /\ s = p.key
       /\ p.resize = "inside" => o.mem # "none" /\ o.shape = p.out
  /\ k.argsFor = <<>> => s = <<>>

Settled ==
  /\ functor \in FunctorSet
  /\ IsKernel(kernel) /\ IsOutput(output)
  /\ result # "fatal" => SettledAt(kernel, seen, output)

(* The plan of any call of the functor's.                                  *)
LEMMA GoodCall ==
  ASSUME functor \in FunctorSet, functor.kind \in Kinds, NEW ins \in functor.calls, PlanFor(ins).legal
  PROVE  GoodPlan(PlanFor(ins), ins) /\ ins # <<>>
<1>1. Len(ins) \in Nat \ {0} /\ \A i \in 1..Len(ins) : ins[i] # <<>>
  BY FunctorsAssumption
<1>2. ins[1] # <<>> /\ (Len(ins) = 1 \/ ins[2] # <<>>)
  <2>1. PICK n \in Nat \ {0} : n = Len(ins)
    BY <1>1
  <2>2. 1 \in 1..n /\ (n = 1 \/ 2 \in 1..n)
    BY <2>1
  <2> QED BY <1>1, <2>1, <2>2
<1>3. ins # <<>>
  BY <1>1
<1> QED BY <1>2, <1>3, PlansAreGood

-----------------------------------------------------------------------------
(* What does not change with the state.                                    *)
LEMMA PlanSame ==
  ASSUME functor' = functor, device' = device, NEW i
  PROVE  PlanFor(i)' = PlanFor(i)
BY DEF PlanFor, PlanOf

LEMMA BuildSame ==
  ASSUME functor' = functor, device' = device, NEW st, NEW p, NEW g
  PROVE  Build(st, p, g)' = Build(st, p, g)
BY DEF Build

LEMMA ArgumentsSame ==
  ASSUME functor' = functor, device' = device, NEW st, NEW p, NEW g, NEW ins
  PROVE  Arguments(st, p, ins, g)' = Arguments(st, p, ins, g)
BY DEF Arguments

LEMMA EnqueueSame ==
  ASSUME functor' = functor, device' = device, NEW st, NEW p, NEW ins
  PROVE  Enqueue(st, p, ins)' = Enqueue(st, p, ins)
BY DEF Enqueue

LEMMA CalledSame ==
  ASSUME functor' = functor, device' = device, NEW st, NEW p, NEW g1, NEW g2, NEW ins
  PROVE  Called(st, p, ins, g1, g2)' = Called(st, p, ins, g1, g2)
BY BuildSame, ArgumentsSame, EnqueueSame DEF Called

LEMMA FreshSame ==
  ASSUME functor' = functor, device' = device, NEW ins
  PROVE  Fresh(ins)' = Fresh(ins)
BY CalledSame, PlanSame DEF Fresh

LEMMA SettledSame ==
  ASSUME functor' = functor, device' = device, NEW k, NEW s, NEW o
  PROVE  SettledAt(k, s, o)' = SettledAt(k, s, o)
<1>1. \A i : PlanFor(i)' = PlanFor(i)
  BY PlanSame
<1>2. \A p : Items(p)' = Items(p)
  BY DEF Items
<1> QED BY <1>1, <1>2 DEF SettledAt

(* A call leaves arguments, number of items and shape of one call, and     *)
(* enqueues what a functor made for this call would.                       *)
LEMMA CallRight ==
  ASSUME Settled, functor.kind \in Kinds, result # "fatal",
         NEW ins \in functor.calls, NEW g1 \in BOOLEAN, NEW g2 \in BOOLEAN
  PROVE  LET p == PlanFor(ins)
             t == Called(Now, p, ins, g1, g2)
         IN  /\ IsState(t)
             /\ t.result # "fatal" => SettledAt(t.kernel, t.seen, t.output)
             /\ t.launch # NoLaunch =>
                  /\ t.launch.ins = ins
                  /\ \/ t.launch = Fresh(ins)
                     \/ functor.kind \in FromTwo /\ (t.kernel.argsFor # ins \/ t.kernel.options # p.options)
                  /\ p.legal /\ t.output.shape = p.out
                  /\ \E options, args, kept : t.launch = Enqueued(p, ins, options, args, kept, p.out)
<1> DEFINE p == PlanFor(ins)
           a == ResizeFirst(Now, p, g1)
           b == Build(a, p, g2)
           c == Arguments(b, p, ins, g1)
           t == Called(Now, p, ins, g1, g2)
<1> SUFFICES /\ IsState(t)
             /\ t.result # "fatal" => SettledAt(t.kernel, t.seen, t.output)
             /\ t.launch # NoLaunch =>
                  /\ t.launch.ins = ins
                  /\ \/ t.launch = Fresh(ins)
                     \/ functor.kind \in FromTwo /\ (t.kernel.argsFor # ins \/ t.kernel.options # p.options)
                  /\ p.legal /\ t.output.shape = p.out
                  /\ \E options, args, kept : t.launch = Enqueued(p, ins, options, args, kept, p.out)
  OBVIOUS
<1>1. /\ IsState(Now) /\ Now.result = "ok" /\ Now.launch = NoLaunch
      /\ Now.kernel = kernel /\ Now.seen = seen /\ Now.output = output
      /\ SettledAt(kernel, seen, output)
  BY DEF Now, IsState, Settled
<1>2. CASE ~p.legal
  <2>1. t = [Now EXCEPT !.result = "fatal"]
    BY <1>2 DEF Called, Ends
  <2>2. IsState(t) /\ t.result = "fatal" /\ t.launch = NoLaunch
    BY <1>1, <2>1 DEF IsState
  <2> QED BY <2>2
<1>3. CASE p.legal
  <2>1. GoodPlan(p, ins) /\ ins # <<>>
    BY <1>3, GoodCall DEF Settled
  <2>2. /\ p.resize \in {"first", "inside", "buffer"} /\ p.always \in BOOLEAN
        /\ p.rebuilt => p.always /\ p.resize # "inside"
        /\ p.resize = "inside" <=> functor.kind \in ResizedInside
        /\ p.gws = "output" => p.resize = "inside"
        /\ p.gws \in {"now", "output", "kept"}
        /\ functor.kind \notin {"concat", "eltwise"} => p.options = {}
        /\ ~p.always => p.key # <<>>
    BY <2>1 DEF GoodPlan
  <2>t. t = Enqueue(c, p, ins)
    BY <1>3 DEF Called
  <2> HIDE DEF p
  <2> HIDE DEF t
  <2>3. /\ IsState(a) /\ a.kernel = kernel /\ a.seen = seen /\ a.launch = NoLaunch
        /\ a.result \in {"ok", "oom", "fatal"}
        /\ p.resize = "inside" => a = Now
        /\ a.result = "ok" /\ p.resize # "inside" => a.output.shape = p.out
    BY <1>1, <2>2, FirstResized DEF SameKernel
  <2> HIDE DEF a
  <2>4. /\ IsState(b) /\ b.output = a.output /\ b.seen = seen /\ b.launch = NoLaunch
        /\ b.result \in {"ok", "oom", "fatal"}
        /\ b.kernel.args = kernel.args /\ b.kernel.argsFor = kernel.argsFor
        /\ b.result # "ok" => SameKernel(a, b)
        /\ a.result # "ok" => b = a
        /\ b.result = "ok" =>
             \/ kernel.built /\ ~p.rebuilt /\ b.kernel = kernel
             \/ /\ ~kernel.built \/ p.rebuilt
                /\ b.kernel.built = TRUE /\ b.kernel.options = p.options /\ b.kernel.gws = p.runs[1].gws
    <3>1. BuiltFrom(a, p, b)
      BY <2>3, KernelBuilt
    <3> HIDE DEF b
    <3> QED BY <2>3, <3>1 DEF BuiltFrom
  <2> HIDE DEF b
  <2>5. /\ IsState(c) /\ c.result \in {"ok", "oom", "fatal"} /\ c.launch = NoLaunch
        /\ b.result # "ok" => c = b
        /\ p.resize # "inside" => c.output = b.output
        /\ c.kernel.built = b.kernel.built /\ c.kernel.options = b.kernel.options
        /\ c.result # "ok" => SameKernel(b, c)
        /\ c.result = "oom" /\ b.result = "ok" => p.resize = "inside" /\ b.output.mem = "none"
        /\ c.result = "ok" =>
             \/ ~p.always /\ b.seen = p.key /\ c = b
             \/ /\ c.kernel.args = Items(p) \o p.args /\ c.kernel.gws = p.runs[1].gws
                /\ c.kernel.argsFor = ins /\ c.seen = p.key
                /\ p.resize = "inside" => c.output.shape = p.out /\ c.output.mem # "none"
    BY <2>2, <2>4, ArgumentsSet
  <2> HIDE DEF c
  \* The kinds with the output resized inside are the same at each call.
  <2>6. ASSUME NEW i \in functor.calls, PlanFor(i).legal
        PROVE  GoodPlan(PlanFor(i), i) /\ (PlanFor(i).resize = "inside" <=> p.resize = "inside")
    <3>1. GoodPlan(PlanFor(i), i)
      BY <2>6, GoodCall DEF Settled
    <3> QED BY <2>2, <3>1 DEF GoodPlan
  <2>7. c.result # "fatal" => SettledAt(c.kernel, c.seen, c.output)
    <3>a. b.kernel.built => \E i \in functor.calls : PlanFor(i).legal /\ b.kernel.options = PlanFor(i).options
      <4>1. CASE b.kernel.built = kernel.built /\ b.kernel.options = kernel.options
        BY <1>1, <4>1 DEF SettledAt
      <4>2. CASE b.kernel.options = p.options
        BY <1>3, <4>2 DEF p
      <4> QED BY <2>3, <2>4, <4>1, <4>2 DEF SameKernel
    <3>b. kernel.argsFor # <<>> =>
            /\ kernel.argsFor \in functor.calls /\ PlanFor(kernel.argsFor).legal /\ kernel.built
            /\ kernel.args = Items(PlanFor(kernel.argsFor)) \o PlanFor(kernel.argsFor).args
            /\ kernel.gws = PlanFor(kernel.argsFor).runs[1].gws
            /\ seen = PlanFor(kernel.argsFor).key
            /\ p.resize = "inside" => /\ output.mem # "none" /\ output.shape = PlanFor(kernel.argsFor).out
                                     /\ a.output = output
            /\ PlanFor(kernel.argsFor).resize = "inside" => p.resize = "inside"
      BY <1>1, <2>3, <2>6 DEF SettledAt
    <3>c. kernel.argsFor = <<>> => seen = <<>>
      BY <1>1 DEF SettledAt
    <3>1. CASE c.result = "ok" /\ c.kernel.argsFor = ins /\ c.kernel.args = Items(p) \o p.args
               /\ c.kernel.gws = p.runs[1].gws /\ c.seen = p.key
               /\ (p.resize = "inside" => c.output.shape = p.out /\ c.output.mem # "none")
      <4>1. c.kernel.built
        BY <2>4, <2>5, <3>1
      <4> QED BY <1>3, <2>1, <2>5, <3>1, <3>a, <4>1 DEF SettledAt, p
    <3>2. CASE c.result = "ok" /\ ~p.always /\ b.seen = p.key /\ c = b
      <4>1. kernel.argsFor # <<>>
        BY <2>2, <2>4, <3>2, <3>c
      <4>2. b.kernel = kernel
        BY <2>2, <2>4, <3>2, <3>b, <4>1
      <4> QED BY <2>4, <3>2, <3>a, <3>b, <4>1, <4>2 DEF SettledAt
    <3>3. CASE c.result = "oom"
      <4>1. CASE b.result # "ok"
        <5>1. c = b /\ SameKernel(a, b) /\ b.output = a.output
          BY <2>4, <2>5, <4>1
        <5> QED BY <2>3, <3>a, <3>b, <3>c, <5>1 DEF SettledAt, SameKernel
      <4>2. CASE b.result = "ok"
        <5>1. p.resize = "inside" /\ output.mem = "none"
          BY <1>1, <2>3, <2>4, <2>5, <3>3, <4>2
        <5>2. kernel.argsFor = <<>> /\ seen = <<>>
          BY <3>b, <3>c, <5>1
        <5>3. c.kernel.argsFor = <<>> /\ c.seen = <<>>
          BY <2>4, <2>5, <3>3, <5>2 DEF SameKernel
        <5> QED BY <2>5, <3>a, <5>3 DEF SettledAt
      <4> QED BY <4>1, <4>2
    <3> QED BY <2>5, <3>1, <3>2, <3>3
  <2>8. c.result = "ok" =>
          \/ c.kernel.argsFor = ins
          \/ /\ ~p.always /\ c.kernel.argsFor # <<>> /\ c.kernel.argsFor \in functor.calls
             /\ PlanFor(c.kernel.argsFor).legal /\ PlanFor(c.kernel.argsFor).key = p.key
    <3> SUFFICES ASSUME c.result = "ok", c.kernel.argsFor # ins
                 PROVE  /\ ~p.always /\ c.kernel.argsFor # <<>> /\ c.kernel.argsFor \in functor.calls
                        /\ PlanFor(c.kernel.argsFor).legal /\ PlanFor(c.kernel.argsFor).key = p.key
      OBVIOUS
    <3>1. ~p.always /\ c.seen = p.key
      BY <2>4, <2>5
    <3>2. c.kernel.argsFor # <<>>
      BY <2>2, <2>5, <2>7, <3>1 DEF SettledAt
    <3> QED BY <2>5, <2>7, <3>1, <3>2 DEF SettledAt
  \* What is enqueued.
  <2>9. CASE c.result # "ok"
    <3>1. t = c
      BY <2>t, <2>5, <2>9, EnqueueIs
    <3> QED BY <2>5, <2>7, <3>1
  <2>10. CASE c.result = "ok"
    <3>1. /\ IsState(t) /\ t.kernel = c.kernel /\ t.seen = c.seen /\ t.output = c.output
          /\ t.launch = Enqueued(p, ins, c.kernel.options, c.kernel.args, c.kernel.gws, c.output.shape)
      BY <2>t, <2>5, <2>10, EnqueueIs
    <3>2. t.launch.ins = ins
      BY <3>1 DEF Enqueued
    <3>3. SettledAt(t.kernel, t.seen, t.output)
      BY <2>7, <2>10, <3>1
    <3>p. functor.kind \notin FromTwo \/ c.kernel.argsFor = ins =>
            /\ c.kernel.argsFor # <<>> /\ c.kernel.argsFor \in functor.calls
            /\ PlanFor(c.kernel.argsFor).legal /\ PlanFor(c.kernel.argsFor) = p
      <4> SUFFICES ASSUME functor.kind \notin FromTwo \/ c.kernel.argsFor = ins
                   PROVE  /\ c.kernel.argsFor # <<>> /\ c.kernel.argsFor \in functor.calls
                          /\ PlanFor(c.kernel.argsFor).legal /\ PlanFor(c.kernel.argsFor) = p
        OBVIOUS
      <4>1. CASE c.kernel.argsFor = ins
        BY <1>3, <2>1, <4>1 DEF p
      <4>2. CASE c.kernel.argsFor # ins
        <5> DEFINE i == c.kernel.argsFor
        <5>1. /\ ~p.always /\ i # <<>> /\ i \in functor.calls /\ PlanFor(i).legal /\ PlanFor(i).key = p.key
          BY <2>8, <2>10, <4>2
        <5> HIDE DEF i
        <5>2. functor \in FunctorSet /\ functor.kind \in Kinds \ FromTwo
          BY <4>2 DEF Settled
        <5>3. GoodPlan(PlanFor(i), i) /\ GoodPlan(PlanFor(ins), ins)
          BY <2>1, <2>6, <5>1 DEF p
        <5>4. PlanFor(i) = PlanFor(ins)
          BY <5>1, <5>2, <5>3, SamePlan DEF p
        <5> QED BY <5>1, <5>4 DEF p, i
      <4> QED BY <4>1, <4>2
    <3>s. t.output.shape = p.out
      <4>1. CASE p.resize = "inside"
        <5>1. functor.kind \notin FromTwo
          BY <2>2, <4>1 DEF ResizedInside, FromTwo
        <5> QED BY <2>7, <2>10, <3>1, <3>p, <4>1, <5>1 DEF SettledAt
      <4>2. CASE p.resize # "inside"
        <5>1. b.result = "ok" /\ a.result = "ok"
          BY <2>4, <2>5, <2>10
        <5> QED BY <2>3, <2>4, <2>5, <3>1, <4>2, <5>1
      <4> QED BY <4>1, <4>2
    <3>4. \/ t.launch = Fresh(ins)
          \/ functor.kind \in FromTwo /\ (t.kernel.argsFor # ins \/ t.kernel.options # p.options)
      <4> SUFFICES ASSUME functor.kind \in FromTwo => c.kernel.argsFor = ins /\ c.kernel.options = p.options
                   PROVE  t.launch = Fresh(ins)
        BY <3>1
      <4>1. /\ c.kernel.argsFor # <<>> /\ c.kernel.argsFor \in functor.calls
            /\ PlanFor(c.kernel.argsFor).legal /\ PlanFor(c.kernel.argsFor) = p
        BY <3>p
      <4>2. c.kernel.options = p.options
        <5>1. CASE functor.kind \in FromTwo
          BY <5>1
        <5>2. CASE functor.kind \notin FromTwo
          <6>1. c.kernel.built
            BY <2>7, <2>10, <4>1 DEF SettledAt
          <6>2. PICK i \in functor.calls : PlanFor(i).legal /\ c.kernel.options = PlanFor(i).options
            BY <2>7, <2>10, <6>1 DEF SettledAt
          <6>3. GoodPlan(PlanFor(i), i)
            BY <2>6, <6>2
          <6>4. PlanFor(i).options = {} /\ p.options = {}
            BY <2>2, <5>2, <6>3 DEF GoodPlan, FromTwo
          <6> QED BY <6>2, <6>4
        <5> QED BY <5>1, <5>2
      <4>3. /\ c.kernel.args = Items(p) \o p.args /\ c.kernel.gws = p.runs[1].gws
            /\ p.gws = "output" => c.output.shape = p.out
        BY <2>2, <2>7, <2>10, <4>1 DEF SettledAt
      <4>4. PICK kept, shape :
              /\ p.gws = "output" => shape = p.out
              /\ p.gws = "kept" => kept = p.runs[1].gws
              /\ Fresh(ins) = Enqueued(p, ins, p.options, Items(p) \o p.args, kept, shape)
        BY <2>1, FreshIs DEF p
      <4>5. Enqueued(p, ins, p.options, Items(p) \o p.args, kept, shape)
              = Enqueued(p, ins, p.options, Items(p) \o p.args, c.kernel.gws, c.output.shape)
        <5>1. ASSUME NEW job
              PROVE  Job1(p, job, p.options, Items(p) \o p.args, kept, shape)
                       = Job1(p, job, p.options, Items(p) \o p.args, c.kernel.gws, c.output.shape)
          <6>1. CASE p.gws = "now"
            BY <6>1 DEF Job1
          <6>2. CASE p.gws = "output"
            BY <4>3, <4>4, <6>2 DEF Job1
          <6>3. CASE p.gws = "kept"
            BY <4>3, <4>4, <6>3 DEF Job1
          <6> QED BY <2>2, <6>1, <6>2, <6>3
        <5> QED BY <5>1 DEF Enqueued
      <4> QED BY <3>1, <4>2, <4>3, <4>4, <4>5
    <3>5. \E options, args, kept : t.launch = Enqueued(p, ins, options, args, kept, p.out)
      BY <3>1, <3>s
    <3> QED BY <1>3, <3>1, <3>2, <3>3, <3>s, <3>4, <3>5
  <2> QED BY <2>9, <2>10 DEF p
<1> QED BY <1>2, <1>3

(* A functor starts with nothing set.                                      *)
LEMMA InitSettled == Init => Settled /\ LaunchedAsFresh
<1> SUFFICES ASSUME Init PROVE Settled /\ LaunchedAsFresh
  OBVIOUS
<1>1. functor \in FunctorSet /\ kernel = Unbuilt /\ seen = <<>> /\ output \in {NoOutput, Arena} /\ launch = NoLaunch
  BY DEF Init
<1>2. IsKernel(kernel) /\ IsOutput(output)
  BY <1>1 DEF IsKernel, IsOutput, Unbuilt, NoOutput, Arena
<1>3. ~kernel.built /\ kernel.argsFor = <<>>
  BY <1>1 DEF Unbuilt
<1>4. SettledAt(kernel, seen, output)
  BY <1>1, <1>3 DEF SettledAt
<1> QED BY <1>1, <1>2, <1>4 DEF Settled, LaunchedAsFresh

(* A call of any of the kinds keeps the invariant.                         *)
LEMMA CallSettled ==
  ASSUME Settled, NEW kinds \in SUBSET Kinds, CallOne(kinds)
  PROVE  Settled' /\ LaunchedAsFresh'
<1>1. PICK ins \in functor.calls : Call(ins)
  BY DEF CallOne
<1>2. functor.kind \in Kinds /\ result # "fatal" /\ functor' = functor /\ device' = device
  BY <1>1 DEF CallOne, Call
<1> DEFINE p == PlanFor(ins)
<1>3. PICK g1 \in Grant, g2 \in Grant :
        LET st == Called(Now, p, ins, g1, g2) IN
        /\ kernel' = st.kernel /\ seen' = st.seen /\ output' = st.output
        /\ launch' = st.launch /\ result' = st.result
  BY <1>1, Zenon DEF Call
<1> DEFINE t == Called(Now, p, ins, g1, g2)
<1>4. g1 \in BOOLEAN /\ g2 \in BOOLEAN
  BY DEF Grant
<1>5. /\ IsState(t)
      /\ t.result # "fatal" => SettledAt(t.kernel, t.seen, t.output)
      /\ t.launch # NoLaunch =>
           /\ t.launch.ins = ins
           /\ \/ t.launch = Fresh(ins)
              \/ functor.kind \in FromTwo /\ (t.kernel.argsFor # ins \/ t.kernel.options # p.options)
  BY <1>2, <1>4, CallRight
<1>6. /\ kernel' = t.kernel /\ seen' = t.seen /\ output' = t.output
      /\ launch' = t.launch /\ result' = t.result
  BY <1>3
<1> HIDE DEF t
<1>7. Settled'
  <2>2. IsKernel(kernel') /\ IsOutput(output')
    BY <1>5, <1>6 DEF IsState
  <2>3. result' # "fatal" => SettledAt(kernel, seen, output)'
    <3>1. SettledAt(t.kernel, t.seen, t.output) => SettledAt(kernel', seen', output')
      BY <1>6
    <3>2. SettledAt(kernel', seen', output') => SettledAt(kernel, seen, output)'
      <4>1. \A i : PlanFor(i)' = PlanFor(i)
        BY <1>2, PlanSame
      <4>2. \A q : Items(q)' = Items(q)
        BY <1>2 DEF Items
      <4> QED BY <1>2, <4>1, <4>2 DEF SettledAt
    <3> QED BY <1>5, <1>6, <3>1, <3>2
  <2> QED BY <1>2, <2>2, <2>3 DEF Settled, IsKernel, IsOutput
<1>8. LaunchedAsFresh'
  <2> SUFFICES ASSUME launch' # NoLaunch
               PROVE  launch' = Fresh(launch.ins)' \/ OtherInputMatters'
    BY DEF LaunchedAsFresh, NoLaunch
  <2>1. /\ launch'.ins = ins
        /\ \/ launch' = Fresh(ins)
           \/ functor'.kind \in FromTwo /\ (kernel'.argsFor # ins \/ kernel'.options # p.options)
    BY <1>2, <1>5, <1>6 DEF NoLaunch
  <2>2. Fresh(launch.ins)' = Fresh(ins)
    <3>1. Fresh(ins)' = Fresh(ins)
      BY <1>2, FreshSame
    <3> QED BY <2>1, <3>1
  <2>3. PlanFor(launch.ins)' = p
    BY <1>2, <2>1, PlanSame
  <2> QED BY <2>1, <2>2, <2>3 DEF OtherInputMatters, FromTwo
<1> QED BY <1>7, <1>8

(* So does every step.                                                     *)
LEMMA StepSettled ==
  ASSUME Settled, LaunchedAsFresh, [Next]_vars
  PROVE  Settled' /\ LaunchedAsFresh'
<1>1. CASE CallPerPixel
  BY <1>1, CallSettled DEF CallPerPixel, Kinds, PerPixel
<1>2. CASE CallMoving
  BY <1>2, CallSettled DEF CallMoving, Kinds, Moving
<1>3. CASE CallWindow
  BY <1>3, CallSettled DEF CallWindow, Kinds, Window
<1>4. CASE CallProduct
  BY <1>4, CallSettled DEF CallProduct, Kinds, Product
<1>5. CASE CallTransfer
  BY <1>5, CallSettled DEF CallTransfer, Kinds, TransferKinds
<1>6. CASE UNCHANGED vars
  <2>1. /\ functor' = functor /\ device' = device /\ kernel' = kernel /\ seen' = seen
        /\ output' = output /\ launch' = launch /\ result' = result
    BY <1>6 DEF vars
  <2>2. \A i : PlanFor(i)' = PlanFor(i) /\ Fresh(i)' = Fresh(i)
    BY <2>1, PlanSame, FreshSame
  <2>3. \A q : Items(q)' = Items(q)
    BY <2>1 DEF Items
  <2>4. Settled'
    BY <2>1, <2>2, <2>3 DEF Settled, SettledAt, IsKernel, IsOutput
  <2>5. LaunchedAsFresh'
    BY <2>1, <2>2 DEF LaunchedAsFresh, OtherInputMatters, NoLaunch
  <2> QED BY <2>4, <2>5
<1> QED BY <1>1, <1>2, <1>3, <1>4, <1>5, <1>6 DEF Next, Ended

-----------------------------------------------------------------------------
(* However often and with whatever shapes an OpenCL functor was called,    *)
(* and whatever memory was refused it in between, what it enqueues         *)
(* (options, arguments, items, groups) is what a functor made for this     *)
(* call alone enqueues, except in concat, crop and eltwise where the       *)
(* second input was another or the options are those of an earlier call:   *)
(* comparing the shape of one input with input_shape_ decides rightly      *)
(* whether the arguments set are still the call's.                         *)
THEOREM CallsNeedNoHistory == Spec => []LaunchedAsFresh
<1>1. Settled /\ LaunchedAsFresh /\ [Next]_vars => (Settled /\ LaunchedAsFresh)'
  BY StepSettled
<1> QED BY InitSettled, <1>1, PTL DEF Spec
-----------------------------------------------------------------------------
(* The shapes.                                                             *)
LEMMA Shape4 ==
  ASSUME NEW s, IsShape(s), Len(s) = 4
  PROVE  /\ s[1] \in Pos /\ s[2] \in Pos /\ s[3] \in Pos /\ s[4] \in Pos
         /\ s = <<s[1], s[2], s[3], s[4]>>
<1>1. s \in [1..4 -> Pos] /\ s \in Seq(Pos)
  <2>1. s \in Seq(Pos)
    BY DEF IsShape, Pos
  <2> QED BY <2>1, LenProperties
<1>2. s = <<s[1], s[2], s[3], s[4]>>
  <2>1. PICK t : t = <<s[1], s[2], s[3], s[4]>>
    OBVIOUS
  <2>2. Len(t) = 4 /\ t[1] = s[1] /\ t[2] = s[2] /\ t[3] = s[3] /\ t[4] = s[4] /\ t \in [1..4 -> Pos]
    BY <1>1, <2>1
  <2>3. \A i \in 1..4 : t[i] = s[i]
    BY <2>2
  <2> QED BY <1>1, <2>1, <2>2, <2>3
<1> QED BY <1>1, <1>2

LEMMA MadeShape ==
  ASSUME NEW a \in Pos, NEW b \in Pos, NEW c \in Pos, NEW d \in Pos
  PROVE  IsShape(<<a, b, c, d>>) /\ Len(<<a, b, c, d>>) = 4
BY DEF IsShape, Pos

LEMMA Quarter ==
  ASSUME NEW x \in Nat
  PROVE  /\ RoundUpDiv4(x) \in Nat /\ x <= RoundUpDiv4(x) * 4
         /\ x \in Pos => RoundUpDiv4(x) \in Pos /\ (RoundUpDiv4(x) - 1) * 4 < x
         /\ x % 4 = 0 => RoundUpDiv4(x) * 4 = x
BY DEF RoundUpDiv4, Pos

LEMMA PixelsAre ==
  ASSUME NEW s, IsShape(s), Len(s) = 4
  PROVE  /\ IsSizes(Pixels(s), 3)
         /\ Pixels(s) = <<RoundUpDiv4(s[4]), s[3], s[1] * s[2]>>
         /\ RoundUpDiv4(s[4]) \in Pos /\ s[3] \in Pos /\ s[1] * s[2] \in Pos
<1>1. s[1] \in Pos /\ s[2] \in Pos /\ s[3] \in Pos /\ s[4] \in Pos
  BY Shape4
<1>2. RoundUpDiv4(s[4]) \in Pos /\ s[1] * s[2] \in Pos
  <2>1. \A a, b \in Pos : a * b \in Pos
    BY DEF Pos
  <2>2. s[4] \in Nat
    BY <1>1 DEF Pos
  <2> QED BY <1>1, <2>1, <2>2, Quarter
<1> QED BY <1>1, <1>2 DEF Pixels, IsSizes

(* Groups that run on the functor's device.                                *)
LEMMA RunsFit ==
  ASSUME NEW n \in {2, 3}, NEW run, Runs(run.lws, n, device)
  PROVE  GroupFits(run)
<1>1. /\ DOMAIN Group(run.lws) = 1..n /\ \A i \in 1..n : run.lws[i] \in Pos
  BY RunsMeans
<1>2. Elements(Group(run.lws)) \in 1..device.maxGroup /\ device.maxGroup \in Pos
  BY DEF Runs
<1> QED BY <1>1, <1>2 DEF GroupFits, Pos

LEMMA GroupsFit ==
  ASSUME NEW run, AreGroups(run.lws, device)
  PROVE  GroupFits(run)
BY RunsFit DEF AreGroups

LEMMA TwoFit ==
  ASSUME NEW a \in Pos, NEW run, device \in DeviceSet, run.lws = <<device.maxGroup \div a, a, 0>>, a <= 64
  PROVE  GroupFits(run)
<1>1. device.maxGroup \in Pos /\ a <= device.maxGroup
  BY DevicesAssumption DEF Pos
<1>2. PICK q : q = device.maxGroup \div a
  OBVIOUS
<1>3. q \in Pos /\ q * a <= device.maxGroup
  BY <1>1, <1>2, Fits DEF Pos
<1>4. q * a \in Pos /\ q \in Nat /\ a \in Nat
  BY <1>3 DEF Pos
<1>5. Runs(run.lws, 2, device)
  BY <1>1, <1>2, <1>3, <1>4, GroupOfTwo DEF Runs, Pos
<1> QED BY <1>5, RunsFit

(* What is right about a plan: its items make up the image, its groups     *)
(* run, and where the number of items does not come from the plan itself,  *)
(* it comes to the same.                                                   *)
RightPlan(p) ==
  /\ Covered(p, p.runs, p.out)
  /\ \A i \in DOMAIN p.runs : GroupFits(p.runs[i])
  /\ p.gws # "now" => DOMAIN p.runs = {1}
  /\ p.gws = "output" => p.runs[1].gws = Pixels(p.out)
  /\ p.cover = "joined" => Len(p.runs) \in Nat /\ DOMAIN p.runs = 1..Len(p.runs)
  /\ p.cover \in {"pixels", "image", "moved", "sums", "tiles", "each", "joined"}
  /\ p.cover \notin {"each", "joined"} => DOMAIN p.runs = {1}

LEMMA TightOne ==
  ASSUME NEW n \in Int
  PROVE  Tight(n, 1, n, 1)
BY DEF Tight

(* A kernel with an item per pixel.                                        *)
LEMMA RightPixels ==
  ASSUME NEW p, NEW run, NEW s, IsShape(s), Len(s) = 4, p.runs = <<run>>, p.cover = "pixels",
         p.image = s, run.gws = Pixels(s), run.per = <<1, 1, 1>>, run.apart = 1,
         AreGroups(run.lws, device), p.gws = "output" => p.out = s
  PROVE  RightPlan(p)
<1>1. IsSizes(Pixels(s), 3)
  BY PixelsAre
<1>2. \A i \in 1..3 : Tight(run.gws[i], run.per[i], Pixels(s)[i], IF i = 2 THEN run.apart ELSE 1)
  BY <1>1, TightOne DEF IsSizes, Pos
<1>3. p.runs[1] = run /\ DOMAIN p.runs = {1}
  OBVIOUS
<1>4. Covered(p, p.runs, p.out)
  BY <1>2, <1>3 DEF Covered, PixelsCovered
<1>5. GroupFits(run)
  BY GroupsFit
<1> QED BY <1>3, <1>4, <1>5 DEF RightPlan

LEMMA PixelJobIs ==
  ASSUME NEW s, IsShape(s), Len(s) = 4, device \in DeviceSet
  PROVE  /\ PixelJob(s, device).gws = Pixels(s) /\ PixelJob(s, device).per = <<1, 1, 1>>
         /\ PixelJob(s, device).apart = 1 /\ AreGroups(PixelJob(s, device).lws, device)
<1>1. IsSizes(Pixels(s), 3)
  BY PixelsAre
<1>2. device.maxGroup \in Pos /\ device.base \in Nat
  BY DevicesAssumption DEF Pos
<1>3. AreGroups(Default3DLocalWS(Pixels(s), device), device)
  BY <1>1, <1>2, DefaultRuns DEF AreGroups
<1> QED BY <1>3 DEF PixelJob, Job

-----------------------------------------------------------------------------
(* A call that does not end the process.                                   *)
LegalCall(ins) ==
  /\ functor \in FunctorSet /\ device \in DeviceSet
  /\ ins \in functor.calls /\ PlanFor(ins).legal

LEMMA CallIs ==
  ASSUME NEW ins, LegalCall(ins)
  PROVE  /\ AreInputs(functor, ins) /\ IsShape(PlanFor(ins).out)
         /\ Len(ins) \in Nat \ {0} /\ DOMAIN ins = 1..Len(ins) /\ \A i \in 1..Len(ins) : IsShape(ins[i])
         /\ IsShape(ins[1])
         /\ functor.kind \notin OfAnyRank => Len(ins[1]) = 4
         /\ device.maxGroup \in Pos /\ device.base \in Nat /\ device.cache \in Nat /\ device.units \in Pos
<1>1. AreInputs(functor, ins) /\ IsShape(PlanFor(ins).out)
  BY ShapesAssumption DEF LegalCall, PlanFor
<1>2. Len(ins) \in Nat \ {0}
  BY FunctorsAssumption DEF LegalCall
<1>3. /\ DOMAIN ins = 1..Len(ins) /\ \A i \in 1..Len(ins) : IsShape(ins[i])
      /\ IsShape(ins[1])
  <2>1. PICK n \in Nat \ {0} : n = Len(ins)
    BY <1>2
  <2>2. ins \in [1..n -> Seq(Nat \ {0})]
    BY <1>1, <2>1, LenProperties DEF AreInputs
  <2>3. 1 \in 1..n
    BY <2>1
  <2> QED BY <2>1, <2>2, <2>3 DEF IsShape
<1>4. functor.kind \notin OfAnyRank => Len(ins[1]) = 4
  BY <1>1 DEF AreInputs
<1>5. device.maxGroup \in Pos /\ device.base \in Nat /\ device.cache \in Nat /\ device.units \in Pos
  BY DevicesAssumption DEF LegalCall, Pos
<1> QED BY <1>1, <1>2, <1>3, <1>4, <1>5

(* The kernels with an item per pixel of the output.                       *)
LEMMA RightPixelJob ==
  ASSUME NEW p, NEW s, IsShape(s), Len(s) = 4, device \in DeviceSet,
         p.runs = <<PixelJob(s, device)>>, p.cover = "pixels", p.image = s, p.gws = "now"
  PROVE  RightPlan(p)
BY PixelJobIs, RightPixels

LEMMA PerPixelRight ==
  ASSUME NEW ins, LegalCall(ins), functor.kind \in {"activation", "batchnorm", "biasadd"}
  PROVE  RightPlan(PlanFor(ins))
<1> DEFINE p == PlanFor(ins)
<1>1. IsShape(ins[1]) /\ device \in DeviceSet
  BY CallIs DEF LegalCall
<1>2. Len(ins[1]) = 4 /\ p = Plan(ins[1], ins[1], <<>>, PixelJob(ins[1], device))
  <2>1. CASE functor.kind = "biasadd"
    BY <2>1 DEF LegalCall, PlanFor, PlanOf, GpuBiasAdd
  <2>2. CASE functor.kind \in {"activation", "batchnorm"}
    BY <2>2, CallIs DEF PlanFor, PlanOf, GpuActivation, GpuBatchNorm, OfAnyRank
  <2> QED BY <2>1, <2>2
<1> HIDE DEF p
<1>3. /\ p.runs = <<PixelJob(ins[1], device)>> /\ p.cover = "pixels" /\ p.image = ins[1] /\ p.gws = "now"
  BY <1>2 DEF Plan
<1> QED BY <1>1, <1>2, <1>3, RightPixelJob DEF p

LEMMA PadRight ==
  ASSUME NEW ins, LegalCall(ins), functor.kind = "pad"
  PROVE  RightPlan(PlanFor(ins))
<1> DEFINE p == PlanFor(ins)
           in == ins[1]
           q == functor.paddings
           out == <<in[1], in[2] + q[3] + q[4], in[3] + q[5] + q[6], in[4]>>
<1>1. p = GpuPad(functor, ins, device)
  BY DEF PlanFor, PlanOf
<1> HIDE DEF p
<1>2. p.runs = <<PixelJob(out, device)>> /\ p.cover = "pixels" /\ p.image = out /\ p.gws = "now" /\ p.out = out
  BY <1>1 DEF GpuPad, Plan
<1>3. Len(out) = 4 /\ IsShape(out) /\ device \in DeviceSet
  BY <1>2, CallIs DEF p, LegalCall
<1> QED BY <1>2, <1>3, RightPixelJob DEF p

(* Kernels that compute the size of their groups.                          *)
LEMMA RightOwnJob ==
  ASSUME NEW p, NEW s, NEW lws, IsShape(s), Len(s) = 4, AreGroups(lws, device),
         p.runs = <<Job(Pixels(s), lws, <<1, 1, 1>>, <<>>)>>, p.cover = "pixels", p.image = s,
         p.gws = "output" => p.out = s
  PROVE  RightPlan(p)
<1> DEFINE run == Job(Pixels(s), lws, <<1, 1, 1>>, <<>>)
<1>1. run.gws = Pixels(s) /\ run.per = <<1, 1, 1>> /\ run.apart = 1 /\ run.lws = lws
  BY DEF Job
<1>2. p.runs = <<run>>
  OBVIOUS
<1> HIDE DEF run
<1> QED BY <1>1, <1>2, RightPixels

LEMMA OwnGroupsOf ==
  ASSUME NEW ins, LegalCall(ins), NEW gws, IsSizes(gws, 3)
  PROVE  /\ AreGroups(ConcatLocalWS(gws, device), device)
         /\ AreGroups(CropLocalWS(gws, device), device)
         /\ AreGroups(PoolingLocalWS(gws, device), device)
         /\ AreGroups(SoftmaxLocalWS(gws, device), device)
         /\ AreGroups(ResizeLocalWS(gws, device), device)
         /\ AreGroups(Conv1x1LocalWS(gws, device), device)
         /\ AreGroups(Conv3x3LocalWS(gws, device), device)
         /\ \A taps \in Pos : AreGroups(ConvLocalWS(gws, taps, device), device)
         /\ AreGroups(DepthwiseLocalWS(gws, device), device)
         /\ AreGroups(Default3DLocalWS(gws, device), device)
<1>1. device.maxGroup \in Pos /\ device.base \in Nat /\ device.cache \in Nat /\ device.units \in Pos
  BY CallIs
<1>2. 1 \in Pos
  BY DEF Pos
<1>3. AreGroups(Default3DLocalWS(gws, device), device)
  BY <1>1, DefaultRuns DEF AreGroups
<1>4. \A taps \in Pos : AreGroups(ConvLocalWS(gws, taps, device), device)
  BY <1>1, OwnGroupsFit
<1> QED BY <1>1, <1>2, <1>3, <1>4, OwnGroupsFit

LEMMA SoftmaxRight ==
  ASSUME NEW ins, LegalCall(ins), functor.kind = "softmax"
  PROVE  RightPlan(PlanFor(ins))
<1> DEFINE p == PlanFor(ins)
           in == FormatBufferShape(ins[1], "IN_OUT_CHANNEL")
           lws == SoftmaxLocalWS(Pixels(in), device)
<1>1. p = GpuSoftmax(functor, ins, device) /\ p.legal
  BY DEF PlanFor, PlanOf, LegalCall
<1> HIDE DEF p
<1>2. Len(ins[1]) \in {2, 4}
  BY <1>1 DEF GpuSoftmax
<1>3. Len(in) = 4 /\ IsShape(in)
  <2>1. CASE Len(ins[1]) = 4
    BY <2>1, CallIs DEF FormatBufferShape
  <2>2. CASE Len(ins[1]) = 2
    <3>1. in = <<ins[1][1], 1, 1, ins[1][2]>>
      BY <2>2 DEF FormatBufferShape
    <3>2. ins[1][1] \in Pos /\ ins[1][2] \in Pos /\ 1 \in Pos
      BY <2>2, CallIs DEF IsShape, Pos
    <3> QED BY <3>1, <3>2, MadeShape
  <2> HIDE DEF in
  <2> QED BY <1>2, <2>1, <2>2
<1> HIDE DEF in
<1>4. /\ p.runs = <<Job(Pixels(in), lws, <<1, 1, 1>>, <<>>)>> /\ p.cover = "pixels" /\ p.image = in
      /\ p.gws = "now"
  BY <1>1, <1>2 DEF GpuSoftmax, Plan, in
<1>5. AreGroups(lws, device)
  BY <1>3, PixelsAre, OwnGroupsOf
<1> HIDE DEF lws
<1> QED BY <1>3, <1>4, <1>5, RightOwnJob DEF p

LEMMA ResizeRight ==
  ASSUME NEW ins, LegalCall(ins), functor.kind = "resize"
  PROVE  RightPlan(PlanFor(ins))
<1> DEFINE p == PlanFor(ins)
           out == <<ins[1][1], functor.size[1], functor.size[2], ins[1][4]>>
           lws == ResizeLocalWS(Pixels(out), device)
<1>1. p = GpuResizeBilinear(functor, ins, device)
  BY DEF PlanFor, PlanOf
<1> HIDE DEF p
<1>2. /\ p.runs = <<Job(Pixels(out), lws, <<1, 1, 1>>, <<>>)>> /\ p.cover = "pixels" /\ p.image = out
      /\ p.gws = "now" /\ p.out = out
  BY <1>1 DEF GpuResizeBilinear, Plan
<1>3. Len(out) = 4 /\ IsShape(out)
  BY <1>2, CallIs DEF p
<1> HIDE DEF out
<1>4. AreGroups(lws, device)
  BY <1>3, PixelsAre, OwnGroupsOf
<1> HIDE DEF lws
<1> QED BY <1>2, <1>3, <1>4, RightOwnJob DEF p

LEMMA CropRight ==
  ASSUME NEW ins, LegalCall(ins), functor.kind = "crop"
  PROVE  RightPlan(PlanFor(ins))
<1> DEFINE p == PlanFor(ins)
           out == [i \in 1..4 |-> IF i \in CropAll(functor.axis) THEN ins[2][i] ELSE ins[1][i]]
           lws == CropLocalWS(Pixels(out), device)
<1>1. p = GpuCrop(functor, ins, device)
  BY DEF PlanFor, PlanOf
<1> HIDE DEF p
<1>2. /\ p.runs = <<Job(Pixels(out), lws, <<1, 1, 1>>, <<>>)>> /\ p.cover = "pixels" /\ p.image = out
      /\ p.gws = "now" /\ p.out = out
  BY <1>1 DEF GpuCrop, Plan
<1>3. IsShape(out)
  BY <1>2, CallIs DEF p
<1>4. Len(out) = 4
  <2>1. DOMAIN out = 1..4
    OBVIOUS
  <2> HIDE DEF out
  <2> QED BY <1>3, <2>1, LenProperties DEF IsShape
<1> HIDE DEF out
<1>5. AreGroups(lws, device)
  BY <1>3, <1>4, PixelsAre, OwnGroupsOf
<1> HIDE DEF lws
<1> QED BY <1>2, <1>3, <1>4, <1>5, RightOwnJob DEF p

LEMMA PoolingRight ==
  ASSUME NEW ins, LegalCall(ins), functor.kind = "pooling"
  PROVE  RightPlan(PlanFor(ins))
<1> DEFINE p == PlanFor(ins)
           s == Sized(functor, ins[1], <<ins[1][4], ins[1][4], functor.kernels[1], functor.kernels[2]>>, "CEIL")
           out == s.output
           lws == PoolingLocalWS(Pixels(out), device)
<1>1. p = GpuPooling(functor, ins, device) /\ p.legal
  BY DEF PlanFor, PlanOf, LegalCall
<1> HIDE DEF p
<1>2. /\ p.runs = <<Job(Pixels(out), lws, <<1, 1, 1>>, <<>>)>> /\ p.cover = "pixels" /\ p.image = out
      /\ p.out = out
  BY <1>1 DEF GpuPooling, Plan
<1>3. IsShape(out)
  BY <1>2, CallIs DEF p
<1>4. Len(out) = 4
  BY DEF Sized, CalcOutputSize, CalcNHWCPaddingAndOutputSize
<1> HIDE DEF out
<1>5. AreGroups(lws, device)
  BY <1>3, <1>4, PixelsAre, OwnGroupsOf
<1> HIDE DEF lws
<1> QED BY <1>2, <1>3, <1>4, <1>5, RightOwnJob DEF p

(* A shape in which some dimensions are set.                               *)
LEMMA SetShape ==
  ASSUME NEW s, DOMAIN s = 1..4, IsShape(s)
  PROVE  Len(s) = 4
BY LenProperties DEF IsShape

LEMMA ConcatOutIs ==
  ASSUME NEW ins, IsShape(ins[1]), Len(ins[1]) = 4, IsShape(ConcatOut(ins))
  PROVE  Len(ConcatOut(ins)) = 4
<1>1. DOMAIN ins[1] = 1..4
  BY LenProperties DEF IsShape
<1>2. DOMAIN ConcatOut(ins) = 1..4
  BY <1>1 DEF ConcatOut
<1> QED BY <1>2, SetShape

LEMMA EltwiseRight ==
  ASSUME NEW ins, LegalCall(ins), functor.kind = "eltwise"
  PROVE  RightPlan(PlanFor(ins))
<1> DEFINE p == PlanFor(ins)
<1>1. p = GpuEltwise(functor, ins, device) /\ p.legal
  BY DEF PlanFor, PlanOf, LegalCall
<1> HIDE DEF p
<1>2. IsShape(ins[1]) /\ device \in DeviceSet /\ Len(ins) \in Nat \ {0} /\ (Len(ins) = 1 => Len(ins[1]) = 4)
  BY CallIs DEF AreInputs, LegalCall
<1>3. CASE Len(ins) = 1
  <2>1. p.runs = <<PixelJob(ins[1], device)>> /\ p.cover = "pixels" /\ p.image = ins[1] /\ p.gws = "now"
    BY <1>1, <1>3 DEF GpuEltwise, Plan
  <2>2. Len(ins[1]) = 4
    BY <1>2, <1>3
  <2> QED BY <1>2, <2>1, <2>2, RightPixelJob DEF p
<1>4. CASE Len(ins) # 1
  <2> DEFINE swapped == Elements(ins[1]) < Elements(ins[2])
             a == IF swapped THEN ins[2] ELSE ins[1]
             b == IF swapped THEN ins[1] ELSE ins[2]
             whole == Plan(a, a, <<IF swapped THEN 2 ELSE 1, a[2], a[3], a[4]>>, PixelJob(a, device))
  <2>1. p = IF ~LegalBroadcast(a, b) THEN [legal |-> FALSE]
            ELSE [whole EXCEPT !.options = EltwiseOptions(a, b, swapped)]
    BY <1>1, <1>4 DEF GpuEltwise
  <2>2. LegalBroadcast(a, b)
    BY <1>1, <2>1
  <2>3. p.runs = <<PixelJob(a, device)>> /\ p.cover = "pixels" /\ p.image = a /\ p.gws = "now"
    BY <2>1, <2>2 DEF Plan
  <2>4. IsShape(ins[2])
    <3>1. 2 \in 1..Len(ins)
      <4>1. PICK n \in Nat \ {0} : n = Len(ins)
        BY <1>2
      <4> QED BY <1>4, <4>1
    <3> QED BY <3>1, CallIs
  <2>5. Len(a) = 4
    BY <2>2 DEF LegalBroadcast
  <2>6. IsShape(a)
    BY <1>2, <2>4
  <2> HIDE DEF a
  <2> QED BY <1>2, <2>3, <2>5, <2>6, RightPixelJob DEF p
<1> QED BY <1>3, <1>4 DEF p

LEMMA DepthwiseDeconvRight ==
  ASSUME NEW ins, LegalCall(ins), functor.kind = "depthwisedeconv"
  PROVE  RightPlan(PlanFor(ins))
<1> DEFINE p == PlanFor(ins)
           x == DeconvCall(functor, ins)
           out == ToNHWC(CalcDepthwiseDeconvOutputSize(x.in, x.filter, x.strides, x.paddings))
<1>1. p = GpuDepthwiseDeconv2d(functor, ins, device) /\ p.legal
  BY DEF PlanFor, PlanOf, LegalCall
<1> HIDE DEF p, x
<1>2. /\ p.runs = <<PixelJob(out, device)>> /\ p.cover = "pixels" /\ p.image = out
      /\ p.gws = "now" /\ p.out = out
  BY <1>1 DEF GpuDepthwiseDeconv2d, Plan, x
<1>3. IsShape(out) /\ Len(out) = 4 /\ device \in DeviceSet
  BY <1>2, CallIs DEF p, ToNHWC, LegalCall
<1> HIDE DEF out
<1> QED BY <1>2, <1>3, RightPixelJob DEF p

-----------------------------------------------------------------------------
(* Sums over the inputs of Concat.                                         *)
Adds(f, s, m) == f \in [0..m -> Nat] /\ f[0] = 0 /\ \A k \in 1..m : f[k] = f[k - 1] + s[k]

LEMMA SumGrows ==
  ASSUME NEW s, Len(s) \in Nat, \A m \in 1..Len(s) : s[m] \in Nat
  PROVE  \E f : Adds(f, s, Len(s)) /\ Sum(s) = f[Len(s)]
<1> DEFINE n == Len(s)
           G(g) == [m \in 0..n |-> IF m = 0 THEN 0 ELSE g[m - 1] + s[m]]
           S == {m \in 0..n : \E f : Adds(f, s, m)}
<1>0. n \in Nat /\ \A m \in 1..n : s[m] \in Nat
  OBVIOUS
<1>s. Sum(s) = (CHOOSE g : g = G(g))[n]
  BY DEF Sum
<1> HIDE DEF n
<1>1. 0 \in S
  <2>1. Adds([m \in 0..0 |-> 0], s, 0)
    BY DEF Adds
  <2> QED BY <1>0, <2>1
<1>2. ASSUME NEW k \in 0..(n - 1), k \in S PROVE k + 1 \in S
  <2>1. PICK f : Adds(f, s, k)
    BY <1>2
  <2> DEFINE g == [m \in 0..(k + 1) |-> IF m = k + 1 THEN f[k] + s[k + 1] ELSE f[m]]
  <2>2. f \in [0..k -> Nat] /\ f[0] = 0 /\ \A m \in 1..k : f[m] = f[m - 1] + s[m]
    BY <2>1 DEF Adds
  <2>3. k \in Nat /\ k + 1 \in 1..n /\ s[k + 1] \in Nat /\ f[k] \in Nat
    BY <1>0, <2>2
  <2>4. f[k] + s[k + 1] \in Nat
    BY <2>3
  <2>5. g \in [0..(k + 1) -> Nat]
    BY <2>2, <2>3, <2>4
  <2>6. g[0] = 0
    BY <2>2, <2>3
  <2>7. ASSUME NEW m \in 1..(k + 1) PROVE g[m] = g[m - 1] + s[m]
    <3>1. CASE m = k + 1
      <4>1. g[m] = f[k] + s[k + 1] /\ g[m - 1] = f[k]
        BY <2>3, <3>1
      <4> QED BY <3>1, <4>1
    <3>2. CASE m # k + 1
      <4>1. m \in 1..k /\ m - 1 \in 0..k
        BY <2>3, <3>2
      <4>2. g[m] = f[m] /\ g[m - 1] = f[m - 1]
        BY <2>3, <4>1
      <4> QED BY <2>2, <4>1, <4>2
    <3> QED BY <3>1, <3>2
  <2> HIDE DEF g
  <2>8. Adds(g, s, k + 1)
    BY <2>5, <2>6, <2>7 DEF Adds
  <2> QED BY <1>0, <2>3, <2>8
<1>3. n \in S
  <2> HIDE DEF S
  <2>1. \A k \in 0..n : k \in S
    BY <1>0, <1>1, <1>2, Counting
  <2> QED BY <1>0, <2>1
<1>4. PICK f : Adds(f, s, n)
  BY <1>3
<1>5. f = G(f)
  BY <1>0, <1>4 DEF Adds
<1>6. PICK h : h = G(h) /\ Sum(s) = h[n]
  BY <1>s, <1>5
<1>7. h[0] = 0 /\ \A m \in 1..n : h[m] = h[m - 1] + s[m]
  <2>1. \A m \in 0..n : h[m] = IF m = 0 THEN 0 ELSE h[m - 1] + s[m]
    BY <1>6
  <2> QED BY <1>0, <2>1
<1> DEFINE T == {m \in 0..n : h[m] \in Nat}
<1>8. 0 \in T
  BY <1>0, <1>7
<1>9. ASSUME NEW k \in 0..(n - 1), k \in T PROVE k + 1 \in T
  <2>1. h[k] \in Nat /\ s[k + 1] \in Nat /\ k + 1 \in 1..n /\ (k + 1) - 1 = k
    BY <1>0, <1>9
  <2>2. h[k + 1] = h[k] + s[k + 1]
    BY <1>7, <2>1
  <2> QED BY <2>1, <2>2
<1>10. \A k \in 0..n : h[k] \in Nat
  <2>1. \A k \in 0..n : k \in T
    <3> HIDE DEF T
    <3> QED BY <1>0, <1>8, <1>9, Counting
  <2> QED BY <2>1
<1>11. h \in [0..n -> Nat]
  <2>1. h = [m \in 0..n |-> h[m]]
    BY <1>6
  <2> QED BY <1>10, <2>1
<1> QED BY <1>6, <1>7, <1>11 DEF Adds, n

(* A sum of multiples of four, and the sum of their quarters.              *)
LEMMA SumOfQuarters ==
  ASSUME NEW n \in Nat, NEW x \in [1..n -> Nat], \A i \in 1..n : x[i] % 4 = 0
  PROVE  LET q == [i \in 1..n |-> x[i] \div 4] IN
         Sum(x) \in Nat /\ Sum(q) \in Nat /\ Sum(x) = 4 * Sum(q)
<1> DEFINE q == [i \in 1..n |-> x[i] \div 4]
<1>1. Len(x) = n /\ Len(q) = n
  OBVIOUS
<1>2. \A i \in 1..n : x[i] \in Nat /\ q[i] \in Nat /\ x[i] = 4 * q[i]
  OBVIOUS
<1> HIDE DEF q
<1>3. PICK f : Adds(f, x, n) /\ Sum(x) = f[n]
  BY <1>1, <1>2, SumGrows
<1>4. PICK g : Adds(g, q, n) /\ Sum(q) = g[n]
  BY <1>1, <1>2, SumGrows
<1>5. /\ f \in [0..n -> Nat] /\ f[0] = 0 /\ \A k \in 1..n : f[k] = f[k - 1] + x[k]
      /\ g \in [0..n -> Nat] /\ g[0] = 0 /\ \A k \in 1..n : g[k] = g[k - 1] + q[k]
  BY <1>3, <1>4 DEF Adds
<1> DEFINE S == {k \in 0..n : f[k] = 4 * g[k]}
<1>6. 0 \in S
  BY <1>5
<1>7. ASSUME NEW k \in 0..(n - 1), k \in S PROVE k + 1 \in S
  <2>1. /\ f[k] \in Nat /\ g[k] \in Nat /\ x[k + 1] \in Nat /\ q[k + 1] \in Nat
        /\ k + 1 \in 1..n /\ (k + 1) - 1 = k
    <3>1. k \in 0..n /\ k + 1 \in 1..n /\ (k + 1) - 1 = k
      OBVIOUS
    <3>2. f[k] \in Nat /\ g[k] \in Nat
      BY <1>5, <3>1
    <3>3. x[k + 1] \in Nat /\ q[k + 1] \in Nat
      BY <1>2, <3>1
    <3> QED BY <3>1, <3>2, <3>3
  <2>2. f[k + 1] = f[k] + x[k + 1] /\ g[k + 1] = g[k] + q[k + 1] /\ x[k + 1] = 4 * q[k + 1]
    BY <1>2, <1>5, <2>1
  <2>3. f[k] = 4 * g[k]
    BY <1>7
  <2> QED BY <2>1, <2>2, <2>3
<1>8. n \in S
  <2>1. \A k \in 0..n : k \in S
    <3> HIDE DEF S
    <3> QED BY <1>6, <1>7, Counting
  <2> QED BY <2>1
<1>9. f[n] \in Nat /\ g[n] \in Nat
  BY <1>5
<1> QED BY <1>3, <1>4, <1>8, <1>9 DEF q

LEMMA Concat2Right ==
  ASSUME NEW ins, LegalCall(ins), functor.kind = "concat", Len(ins) = 2
  PROVE  RightPlan(PlanFor(ins))
<1> DEFINE p == PlanFor(ins)
           out == ConcatOut(ins)
           lws == ConcatLocalWS(Pixels(out), device)
<1>1. p = GpuConcat(functor, ins, device) /\ p.legal
  BY DEF PlanFor, PlanOf, LegalCall
<1> HIDE DEF p
<1>2. p = Concat2(functor, ins, device)
  BY <1>1 DEF GpuConcat
<1>3. /\ p.runs = <<Job(Pixels(out), lws, <<1, 1, 1>>, <<>>)>> /\ p.cover = "pixels" /\ p.image = out
      /\ p.gws = "now" /\ p.out = out
  BY <1>2 DEF Concat2, Plan
<1>4. IsShape(out)
  BY <1>3, CallIs DEF p
<1>5. Len(out) = 4
  BY <1>4, CallIs, ConcatOutIs DEF OfAnyRank
<1> HIDE DEF out
<1>6. AreGroups(lws, device)
  BY <1>4, <1>5, PixelsAre, OwnGroupsOf
<1> HIDE DEF lws
<1> QED BY <1>3, <1>4, <1>5, <1>6, RightOwnJob DEF p

LEMMA ConcatNRight ==
  ASSUME NEW ins, LegalCall(ins), functor.kind = "concat", Len(ins) # 2
  PROVE  RightPlan(PlanFor(ins))
<1> DEFINE p == PlanFor(ins)
           out == ConcatOut(ins)
           gws(i) == <<ins[i][4] \div 4, ins[1][3], ins[1][1] * ins[1][2]>>
           job(i) == Job(gws(i), ConcatLocalWS(gws(i), device), <<1, 1, 1>>,
                         <<Sum([j \in 1..(i - 1) |-> ins[j][4] \div 4])>>)
<1>1. p = GpuConcat(functor, ins, device) /\ p.legal
  BY DEF PlanFor, PlanOf, LegalCall
<1> HIDE DEF p
<1>2. p = ConcatN(functor, ins, device) /\ \A i \in DOMAIN ins : ins[i][4] % 4 = 0
  BY <1>1 DEF GpuConcat
<1>3. PICK n \in Nat \ {0} : n = Len(ins) /\ DOMAIN ins = 1..n
  BY CallIs
<1>4. p.runs = [i \in 1..n |-> job(i)] /\ p.cover = "joined" /\ p.gws = "now" /\ p.out = out
  BY <1>2, <1>3 DEF ConcatN, Plan
<1>5. /\ \A i \in 1..n : IsShape(ins[i]) /\ Len(ins[i]) = 4 /\ ins[i][4] % 4 = 0
      /\ IsShape(ins[1]) /\ Len(ins[1]) = 4
  BY <1>2, <1>3, CallIs DEF AreInputs, OfAnyRank
<1>6. ins[1][3] \in Pos /\ ins[1][1] * ins[1][2] \in Pos
  BY <1>5, PixelsAre
<1>7. ASSUME NEW i \in 1..n
      PROVE  /\ ins[i][4] \in Pos /\ ins[i][4] % 4 = 0 /\ ins[i][4] \div 4 \in Pos
             /\ job(i).gws[1] = ins[i][4] \div 4 /\ GroupFits(job(i))
  <2>1. ins[i][4] \in Pos /\ ins[i][4] % 4 = 0
    BY <1>5, Shape4
  <2>2. PICK q : q = ins[i][4] \div 4
    OBVIOUS
  <2>3. q \in Pos
    BY <2>1, <2>2 DEF Pos
  <2>4. IsSizes(gws(i), 3)
    BY <1>6, <2>2, <2>3 DEF IsSizes
  <2>5. AreGroups(ConcatLocalWS(gws(i), device), device)
    <3> HIDE DEF gws
    <3> QED BY <2>4, OwnGroupsOf
  <2>6. job(i).lws = ConcatLocalWS(gws(i), device) /\ job(i).gws = gws(i)
    BY DEF Job
  <2>7. GroupFits(job(i))
    <3> HIDE DEF gws, job
    <3> QED BY <2>5, <2>6, GroupsFit
  <2>8. job(i).gws[1] = ins[i][4] \div 4
    <3>1. gws(i)[1] = ins[i][4] \div 4
      OBVIOUS
    <3> HIDE DEF gws, job
    <3> QED BY <2>6, <3>1
  <2> HIDE DEF gws, job
  <2> QED BY <2>1, <2>2, <2>3, <2>7, <2>8
<1> HIDE DEF gws, job
<1> DEFINE x == [i \in 1..n |-> ins[i][4]]
           q == [i \in 1..n |-> x[i] \div 4]
<1>8. Sum(x) \in Nat /\ Sum(q) \in Nat /\ Sum(x) = 4 * Sum(q)
  <2>1. x \in [1..n -> Nat] /\ \A i \in 1..n : x[i] % 4 = 0
    BY <1>7 DEF Pos
  <2> HIDE DEF x
  <2> QED BY <2>1, SumOfQuarters
<1>9. out[4] = Sum(x)
  <2>1. DOMAIN ins[1] = 1..4
    BY <1>5, LenProperties DEF IsShape
  <2> QED BY <1>3, <2>1 DEF ConcatOut
<1>10. Pixels(out)[1] = Sum(q)
  <2> HIDE DEF x, q, out
  <2>1. RoundUpDiv4(Sum(x)) = Sum(q)
    BY <1>8 DEF RoundUpDiv4
  <2> QED BY <1>9, <2>1 DEF Pixels
<1>11. [i \in 1..n |-> p.runs[i].gws[1]] = q /\ Len(p.runs) = n
  BY <1>4, <1>7
<1>12. Covered(p, p.runs, out)
  <2>1. Tight(Sum(q), 1, Sum(q), 1)
    BY <1>8, TightOne
  <2>2. [i \in 1..Len(p.runs) |-> p.runs[i].gws[1]] = q
    BY <1>11
  <2> HIDE DEF x, q, out
  <2> QED BY <1>4, <1>10, <2>1, <2>2 DEF Covered
<1>13. \A i \in DOMAIN p.runs : GroupFits(p.runs[i])
  BY <1>4, <1>7
<1> QED BY <1>4, <1>12, <1>13 DEF RightPlan, p

-----------------------------------------------------------------------------
(* Equal parts.                                                            *)
LEMMA SliceRight ==
  ASSUME NEW ins, LegalCall(ins), functor.kind = "slice"
  PROVE  RightPlan(PlanFor(ins))
<1> DEFINE p == PlanFor(ins)
           out == [ins[1] EXCEPT ![4] = @ \div functor.outputs]
           job(i) == [PixelJob(out, device) EXCEPT !.each = <<RoundUpDiv4(out[4]) * (i - 1)>>]
<1>1. p = GpuSlice(functor, ins, device) /\ p.legal
  BY DEF PlanFor, PlanOf, LegalCall
<1> HIDE DEF p
<1>2. out[4] % 4 = 0
  BY <1>1 DEF GpuSlice
<1>3. /\ p.runs = [i \in 1..functor.outputs |-> job(i)] /\ p.cover = "each" /\ p.gws = "now"
      /\ p.out = out
  BY <1>1, <1>2 DEF GpuSlice, Plan
<1>4. IsShape(out) /\ device \in DeviceSet
  BY <1>3, CallIs DEF p, LegalCall
<1>5. Len(out) = 4
  <2>1. DOMAIN ins[1] = 1..4
    BY CallIs, LenProperties DEF IsShape, OfAnyRank
  <2>2. DOMAIN out = 1..4
    BY <2>1
  <2> HIDE DEF out
  <2> QED BY <1>4, <2>2, SetShape
<1> HIDE DEF out
<1>6. ASSUME NEW i PROVE PixelsCovered(job(i), out) /\ GroupFits(job(i))
  <2> DEFINE run == PixelJob(out, device)
  <2>1. /\ run.gws = Pixels(out) /\ run.per = <<1, 1, 1>> /\ run.apart = 1 /\ AreGroups(run.lws, device)
    BY <1>4, <1>5, PixelJobIs
  <2>2. /\ job(i).gws = run.gws /\ job(i).per = run.per /\ job(i).apart = run.apart
        /\ job(i).lws = run.lws
    BY DEF PixelJob, Job
  <2>3. IsSizes(Pixels(out), 3)
    BY <1>4, <1>5, PixelsAre
  <2> HIDE DEF run, job
  <2>4. \A d \in 1..3 : Tight(job(i).gws[d], job(i).per[d], Pixels(out)[d], IF d = 2 THEN job(i).apart ELSE 1)
    BY <2>1, <2>2, <2>3, TightOne DEF IsSizes, Pos
  <2>5. AreGroups(job(i).lws, device)
    BY <2>1, <2>2
  <2> QED BY <2>4, <2>5, GroupsFit DEF PixelsCovered
<1> HIDE DEF job
<1>7. \A i \in DOMAIN p.runs : p.runs[i] = job(i)
  BY <1>3
<1>8. Covered(p, p.runs, out)
  BY <1>3, <1>6, <1>7 DEF Covered
<1> QED BY <1>3, <1>6, <1>7, <1>8 DEF RightPlan, p

(* Some arithmetic.                                                        *)
LEMMA Divided ==
  ASSUME NEW c \in Nat, NEW g \in Pos
  PROVE  c \div g \in Nat /\ c = (c \div g) * g + (c % g)
BY DEF Pos

LEMMA OneFewer ==
  ASSUME NEW r \in Int, NEW g \in Int
  PROVE  (r - 1) * g = r * g - g /\ r * g \in Int
OBVIOUS

(* An item writes a pixel to each group.                                   *)
LEMMA ShuffleRight ==
  ASSUME NEW ins, LegalCall(ins), functor.kind = "shuffle"
  PROVE  RightPlan(PlanFor(ins))
<1> DEFINE p == PlanFor(ins)
           in == ins[1]
           group == in[4] \div functor.groups
           gws == <<RoundUpDiv4(group), in[3], in[1] * in[2]>>
           lws == Default3DLocalWS(gws, device)
           run == Job(gws, lws, <<functor.groups, 1, 1>>, <<>>)
<1>1. p = GpuChannelShuffle(functor, ins, device) /\ p.legal
  BY DEF PlanFor, PlanOf, LegalCall
<1> HIDE DEF p
<1>2. /\ p.runs = <<run>> /\ p.cover = "pixels" /\ p.image = in /\ p.gws = "now" /\ p.out = in
      /\ group % 4 = 0
  BY <1>1 DEF GpuChannelShuffle, Plan
<1>3. IsShape(in) /\ Len(in) = 4 /\ functor.groups \in Pos /\ in[4] % functor.groups = 0
  BY CallIs DEF OfAnyRank, AreInputs, Pos
<1>4. in[4] \in Pos /\ in[3] \in Pos /\ in[1] * in[2] \in Pos
  BY <1>3, Shape4, PixelsAre
<1>5. /\ RoundUpDiv4(group) \in Pos
      /\ Tight(RoundUpDiv4(group), functor.groups, RoundUpDiv4(in[4]), 1)
  <2>1. PICK g \in Pos, c \in Pos : g = functor.groups /\ c = in[4]
    BY <1>3, <1>4
  <2>2. PICK q \in Nat : q = group /\ c = q * g /\ q % 4 = 0
    <3>1. c \div g \in Nat /\ c = (c \div g) * g + (c % g)
      BY <2>1, Divided DEF Pos
    <3>2. (c \div g) * g \in Nat
      BY <2>1, <3>1 DEF Pos
    <3> QED BY <1>2, <1>3, <2>1, <3>1, <3>2
  <2>3. PICK r \in Nat : q = r * 4 /\ r = RoundUpDiv4(q)
    BY <2>2, Quarter
  <2>4. r \in Pos
    BY <2>1, <2>2, <2>3 DEF Pos
  <2>5. c = (r * g) * 4 /\ r * g \in Nat
    BY <2>1, <2>2, <2>3 DEF Pos
  <2>6. RoundUpDiv4(c) = r * g
    <3>1. PICK m \in Nat : m = r * g
      BY <2>5
    <3>2. RoundUpDiv4(c) = m
      BY <2>5, <3>1 DEF RoundUpDiv4
    <3> QED BY <3>1, <3>2
  <2>7. r * g >= r * g /\ (r - 1) * g < r * g
    <3>1. r \in Int /\ g \in Int /\ g > 0
      BY <2>1, <2>3 DEF Pos
    <3>2. (r - 1) * g = r * g - g
      BY <3>1, OneFewer
    <3> QED BY <2>5, <3>1, <3>2
  <2> HIDE DEF group, in
  <2> QED BY <2>1, <2>2, <2>3, <2>4, <2>6, <2>7 DEF Tight
<1>6. IsSizes(gws, 3)
  <2> HIDE DEF in, group
  <2>1. PICK b : b = in[1] * in[2]
    OBVIOUS
  <2>2. PICK r : r = RoundUpDiv4(group)
    OBVIOUS
  <2> QED BY <1>4, <1>5, <2>1, <2>2 DEF IsSizes
<1>7. AreGroups(lws, device)
  <2> HIDE DEF gws
  <2> QED BY <1>6, OwnGroupsOf
<1>8. \A i \in 1..3 : Tight(run.gws[i], run.per[i], Pixels(in)[i], IF i = 2 THEN run.apart ELSE 1)
  <2>1. run.gws = gws /\ run.per = <<functor.groups, 1, 1>> /\ run.apart = 1
    BY DEF Job
  <2>2. Pixels(in) = <<RoundUpDiv4(in[4]), in[3], in[1] * in[2]>>
    BY DEF Pixels
  <2>3. Tight(in[3], 1, in[3], 1) /\ Tight(in[1] * in[2], 1, in[1] * in[2], 1)
    BY <1>4, TightOne DEF Pos
  <2> HIDE DEF run, in, group
  <2> QED BY <1>5, <2>1, <2>2, <2>3
<1>9. run.lws = lws
  BY DEF Job
<1> HIDE DEF run, lws
<1>10. GroupFits(run)
  BY <1>7, <1>9, GroupsFit
<1>11. p.runs[1] = run /\ DOMAIN p.runs = {1}
  BY <1>2
<1> HIDE DEF in
<1>12. Covered(p, p.runs, p.out)
  BY <1>2, <1>8, <1>11 DEF Covered, PixelsCovered
<1> QED BY <1>2, <1>10, <1>11, <1>12 DEF RightPlan, p

(* An image as it is.                                                      *)
LEMMA RightImage ==
  ASSUME NEW p, NEW run, p.runs = <<run>>, p.cover = "image", p.gws = "now", GroupFits(run),
         \A i \in 1..2 : Tight(run.gws[i], run.per[i], CalImage2DShape(p.image, p.type, p.block)[i], 1)
  PROVE  RightPlan(p)
<1>1. p.runs[1] = run /\ DOMAIN p.runs = {1}
  OBVIOUS
<1>2. Covered(p, p.runs, p.out)
  BY <1>1 DEF Covered
<1> QED BY <1>1, <1>2 DEF RightPlan

LEMMA ImageIs ==
  ASSUME NEW s, IsShape(s), Len(s) = 4, NEW b
  PROVE  /\ CalImage2DShape(s, "IN_OUT_CHANNEL", b) = <<RoundUpDiv4(s[4]) * s[3], s[1] * s[2]>>
         /\ RoundUpDiv4(s[4]) * s[3] \in Pos /\ s[1] * s[2] \in Pos
<1>1. RoundUpDiv4(s[4]) \in Pos /\ s[3] \in Pos /\ s[1] * s[2] \in Pos
  BY PixelsAre
<1>2. \A x, y \in Pos : x * y \in Pos
  BY DEF Pos
<1> QED BY <1>1, <1>2 DEF CalImage2DShape, Rank, CalInOutputImageShape

LEMMA AddNRight ==
  ASSUME NEW ins, LegalCall(ins), functor.kind = "addn"
  PROVE  RightPlan(PlanFor(ins))
<1> DEFINE p == PlanFor(ins)
           image == CalInOutputImageShape(ins[1])
           run == Job(image, <<device.maxGroup \div 16, 16, 0>>, <<1, 1>>, <<>>)
<1>1. p = GpuAddN(functor, ins, device)
  BY DEF PlanFor, PlanOf
<1> HIDE DEF p
<1>2. /\ p.runs = <<run>> /\ p.cover = "image" /\ p.gws = "now"
      /\ p.image = ins[1] /\ p.type = "IN_OUT_CHANNEL"
  BY <1>1 DEF GpuAddN, Plan
<1>3. IsShape(ins[1]) /\ Len(ins[1]) = 4 /\ device \in DeviceSet
  BY CallIs DEF OfAnyRank, LegalCall
<1>4. /\ image = CalImage2DShape(p.image, p.type, p.block) /\ image[1] \in Int /\ image[2] \in Int
  BY <1>2, <1>3, ImageIs DEF CalInOutputImageShape, Pos
<1> HIDE DEF image
<1>5. \A i \in 1..2 : Tight(run.gws[i], run.per[i], CalImage2DShape(p.image, p.type, p.block)[i], 1)
  <2>1. run.gws = image /\ run.per = <<1, 1>>
    BY DEF Job
  <2> HIDE DEF run
  <2> QED BY <1>4, <2>1, TightOne
<1>6. GroupFits(run)
  <2>1. run.lws = <<device.maxGroup \div 16, 16, 0>>
    BY DEF Job
  <2>2. 16 \in Pos
    BY DEF Pos
  <2> HIDE DEF run
  <2> QED BY <1>3, <2>1, <2>2, TwoFit
<1> HIDE DEF run
<1> QED BY <1>2, <1>5, <1>6, RightImage DEF p

(* The items of a block write every so manieth pixel of a row.             *)
LEMMA RightRows ==
  ASSUME NEW p, NEW run, NEW s, IsShape(s), Len(s) = 4, p.runs = <<run>>, p.cover = "pixels",
         p.image = s, p.gws = "now", NEW m, run.gws = <<Pixels(s)[1], m, Pixels(s)[3]>>,
         NEW n, run.per = <<1, n, 1>>, Tight(m, n, Pixels(s)[2], run.apart),
         AreGroups(run.lws, device)
  PROVE  RightPlan(p)
<1>1. IsSizes(Pixels(s), 3)
  BY PixelsAre
<1>2. Pixels(s)[1] \in Int /\ Pixels(s)[3] \in Int
  BY <1>1 DEF IsSizes, Pos
<1>3. /\ Tight(run.gws[1], run.per[1], Pixels(s)[1], 1)
      /\ Tight(run.gws[2], run.per[2], Pixels(s)[2], run.apart)
      /\ Tight(run.gws[3], run.per[3], Pixels(s)[3], 1)
  BY <1>2, TightOne
<1>4. PixelsCovered(run, s)
  <2>1. ASSUME NEW i \in 1..3
        PROVE  Tight(run.gws[i], run.per[i], Pixels(s)[i], IF i = 2 THEN run.apart ELSE 1)
    <3>1. i = 1 \/ i = 2 \/ i = 3
      OBVIOUS
    <3> QED BY <1>3, <3>1
  <2> QED BY <2>1 DEF PixelsCovered
<1>5. p.runs[1] = run /\ DOMAIN p.runs = {1}
  OBVIOUS
<1>6. Covered(p, p.runs, p.out)
  BY <1>4, <1>5 DEF Covered
<1>7. GroupFits(run)
  BY GroupsFit
<1> QED BY <1>5, <1>6, <1>7 DEF RightPlan

LEMMA ColumnsAre ==
  ASSUME NEW s, IsShape(s), Len(s) = 4, NEW n \in Pos
  PROVE  /\ IsSizes(InColumns(s, n), 3)
         /\ InColumns(s, n) = <<Pixels(s)[1], RoundUpDiv(s[3], n), Pixels(s)[3]>>
         /\ Tight(RoundUpDiv(s[3], n), n, Pixels(s)[2], 1)
<1>1. /\ Pixels(s) = <<RoundUpDiv4(s[4]), s[3], s[1] * s[2]>>
      /\ RoundUpDiv4(s[4]) \in Pos /\ s[3] \in Pos /\ s[1] * s[2] \in Pos
  BY PixelsAre
<1>2. PICK k \in Pos : k = RoundUpDiv(s[3], n) /\ s[3] <= k * n /\ (k - 1) * n < s[3]
  BY <1>1, Blocks
<1>3. Tight(k, n, Pixels(s)[2], 1)
  <2>1. k * n \in Int /\ s[3] \in Int
    BY <1>1 DEF Pos
  <2> QED BY <1>1, <1>2, <2>1 DEF Tight
<1>4. InColumns(s, n) = <<RoundUpDiv4(s[4]), k, s[1] * s[2]>>
  BY <1>2 DEF InColumns
<1>5. IsSizes(InColumns(s, n), 3)
  <2>1. PICK b : b = s[1] * s[2]
    OBVIOUS
  <2>2. PICK r : r = RoundUpDiv4(s[4])
    OBVIOUS
  <2> QED BY <1>1, <1>4, <2>1, <2>2 DEF IsSizes
<1> QED BY <1>1, <1>2, <1>3, <1>4, <1>5

LEMMA RightColumns ==
  ASSUME NEW p, NEW s, NEW n \in Pos, NEW lws, IsShape(s), Len(s) = 4, p.cover = "pixels",
         p.runs = <<Job(InColumns(s, n), lws, <<1, n, 1>>, <<>>)>>,
         p.image = s, p.gws = "now", AreGroups(lws, device)
  PROVE  RightPlan(p)
<1> DEFINE run == Job(InColumns(s, n), lws, <<1, n, 1>>, <<>>)
<1>1. /\ run.gws = InColumns(s, n) /\ run.per = <<1, n, 1>> /\ run.apart = 1 /\ run.lws = lws
      /\ p.runs = <<run>>
  BY DEF Job
<1>2. PICK m : m = RoundUpDiv(s[3], n)
  OBVIOUS
<1>3. run.gws = <<Pixels(s)[1], m, Pixels(s)[3]>> /\ Tight(m, n, Pixels(s)[2], run.apart)
  BY <1>1, <1>2, ColumnsAre
<1> HIDE DEF run
<1> QED BY <1>1, <1>3, RightRows

LEMMA SizedHasFour ==
  ASSUME NEW f, NEW in, NEW filter, NEW round
  PROVE  Len(Sized(f, in, filter, round).output) = 4
BY DEF Sized, CalcOutputSize, CalcNHWCPaddingAndOutputSize

LEMMA FilterIs ==
  ASSUME NEW ins, LegalCall(ins), functor.kind \in HasFilter
  PROVE  IsShape(ins[2]) /\ Len(ins[2]) = 4
<1>1. Len(ins) >= 2 /\ Len(ins[2]) = 4
  BY CallIs DEF AreInputs
<1>2. PICK n \in Nat : n = Len(ins)
  BY CallIs
<1>3. 2 \in 1..Len(ins)
  BY <1>1, <1>2
<1> QED BY <1>1, <1>3, CallIs

LEMMA ConvRight ==
  ASSUME NEW ins, LegalCall(ins), functor.kind = "conv2d"
  PROVE  RightPlan(PlanFor(ins))
<1> DEFINE p == PlanFor(ins)
           filter == ins[2]
           s == Sized(functor, ins[1], filter, "FLOOR")
           out == s.output
           taps == filter[3] * filter[4]
           four == InColumns(out, 4)
           five == InColumns(out, 5)
<1>1. p = GpuConv2d(functor, ins, device) /\ p.legal
  BY DEF PlanFor, PlanOf, LegalCall
<1>2. Len(out) = 4
  BY SizedHasFour
<1> HIDE DEF p, s
<1>3. \/ p = Conv2dOpenclK1x1(ins[1], s, device)
      \/ p = Conv2dOpenclK3x3(ins[1], s, device)
      \/ p = Conv2dOpencl(ins[1], filter, s, device)
  BY <1>1 DEF GpuConv2d, s
<1>4. p.out = out /\ p.cover = "pixels" /\ p.image = out /\ p.gws = "now"
  BY <1>3 DEF Conv2dOpenclK1x1, Conv2dOpenclK3x3, Conv2dOpencl, Plan
<1>5. \/ p.runs = <<Job(four, Conv1x1LocalWS(four, device), <<1, 4, 1>>, <<>>)>>
      \/ p.runs = <<Job(five, Conv3x3LocalWS(five, device), <<1, 5, 1>>, <<>>)>>
      \/ p.runs = <<Job(four, ConvLocalWS(four, taps, device), <<1, 4, 1>>, <<>>)>>
  BY <1>3 DEF Conv2dOpenclK1x1, Conv2dOpenclK3x3, Conv2dOpencl, Plan, Conv1x1Job, Conv3x3Job, ConvJob
<1>6. IsShape(out)
  BY <1>4, CallIs DEF p
<1>7. taps \in Pos
  <2>1. IsShape(filter) /\ Len(filter) = 4
    BY FilterIs DEF HasFilter
  <2>2. filter[3] \in Pos /\ filter[4] \in Pos
    BY <2>1, Shape4
  <2>3. \A a, b \in Pos : a * b \in Pos
    BY DEF Pos
  <2> QED BY <2>2, <2>3
<1> HIDE DEF out, taps
<1>8. IsSizes(four, 3) /\ IsSizes(five, 3) /\ 4 \in Pos /\ 5 \in Pos
  <2>1. 4 \in Pos /\ 5 \in Pos
    BY DEF Pos
  <2> QED BY <1>2, <1>6, <2>1, ColumnsAre
<1> DEFINE one == Conv1x1LocalWS(four, device)
           three == Conv3x3LocalWS(five, device)
           any == ConvLocalWS(four, taps, device)
<1>9. AreGroups(one, device) /\ AreGroups(three, device) /\ AreGroups(any, device)
  <2> HIDE DEF four, five
  <2> QED BY <1>7, <1>8, OwnGroupsOf
<1> HIDE DEF one, three, any
<1>10. \/ p.runs = <<Job(four, one, <<1, 4, 1>>, <<>>)>>
       \/ p.runs = <<Job(five, three, <<1, 5, 1>>, <<>>)>>
       \/ p.runs = <<Job(four, any, <<1, 4, 1>>, <<>>)>>
  BY <1>5 DEF one, three, any
<1>11. RightPlan(p)
  BY <1>2, <1>4, <1>6, <1>8, <1>9, <1>10, RightColumns
<1> QED BY <1>11 DEF p

LEMMA DepthwiseRight ==
  ASSUME NEW ins, LegalCall(ins), functor.kind = "depthwise"
  PROVE  RightPlan(PlanFor(ins))
<1> DEFINE p == PlanFor(ins)
           filter == ins[2]
           s == Sized(functor, ins[1], <<filter[1] * filter[2], filter[2], filter[3], filter[4]>>, "FLOOR")
           out == s.output
           gws == InColumns(out, 4)
           lws == DepthwiseLocalWS(gws, device)
<1>1. p = GpuDepthwiseConv2d(functor, ins, device)
  BY DEF PlanFor, PlanOf
<1>2. Len(out) = 4
  BY SizedHasFour
<1> HIDE DEF p
<1>3. /\ p.out = out /\ p.cover = "pixels" /\ p.image = out /\ p.gws = "now"
      /\ p.runs = <<Job(gws, lws, <<1, 4, 1>>, <<>>)>>
  BY <1>1 DEF GpuDepthwiseConv2d, Plan
<1>4. IsShape(out)
  BY <1>3, CallIs DEF p
<1> HIDE DEF out
<1>5. IsSizes(gws, 3) /\ 4 \in Pos
  <2>1. 4 \in Pos
    BY DEF Pos
  <2> QED BY <1>2, <1>4, <2>1, ColumnsAre
<1>6. AreGroups(lws, device)
  <2> HIDE DEF gws
  <2> QED BY <1>5, OwnGroupsOf
<1> HIDE DEF lws
<1>7. RightPlan(p)
  BY <1>2, <1>3, <1>4, <1>5, <1>6, RightColumns
<1> QED BY <1>7 DEF p

(* Rows in strides, strides in blocks.                                     *)
LEMMA Strided ==
  ASSUME NEW w \in Pos, NEW stride \in Pos, NEW n \in Pos
  PROVE  /\ Tight(RoundUpDiv(RoundUpDiv(w, stride), n) * stride, n, w, stride)
         /\ RoundUpDiv(RoundUpDiv(w, stride), n) * stride \in Pos
<1>1. PICK c \in Pos : c = RoundUpDiv(w, stride) /\ w <= c * stride /\ (c - 1) * stride < w
  BY Blocks
<1>2. PICK k \in Pos : k = RoundUpDiv(c, n) /\ c <= k * n /\ (k - 1) * n < c
  BY Blocks
<1>3. k * stride \in Pos
  BY <1>2 DEF Pos
<1>4. c * stride <= (k * n) * stride /\ ((k - 1) * n) * stride <= (c - 1) * stride
  <2>1. c \in Nat /\ k * n \in Nat /\ stride \in Nat /\ (k - 1) * n \in Nat /\ c - 1 \in Nat
    BY <1>1, <1>2 DEF Pos
  <2>2. (k - 1) * n <= c - 1
    BY <1>2, <2>1
  <2> QED BY <1>2, <2>1, <2>2, Monotone
<1>5. (k * n) * stride = (k * stride) * n /\ ((k - 1) * n) * stride = (k * stride - stride) * n
  BY <1>2 DEF Pos
<1>6. /\ c * stride \in Int /\ (k * stride) * n \in Int /\ w \in Int /\ (c - 1) * stride \in Int
      /\ (k * stride - stride) * n \in Int
  BY <1>1, <1>2 DEF Pos
<1>7. (k * stride) * n >= w /\ (k * stride - stride) * n < w
  BY <1>1, <1>4, <1>5, <1>6
<1> QED BY <1>1, <1>2, <1>3, <1>7 DEF Tight

LEMMA DeconvRight ==
  ASSUME NEW ins, LegalCall(ins), functor.kind = "deconv2d"
  PROVE  RightPlan(PlanFor(ins))
<1> DEFINE p == PlanFor(ins)
           x == DeconvCall(functor, ins)
           s == DeconvSizes(x)
           out == ToNHWC(s.output)
           stride == functor.strides[1]
           m == RoundUpDiv(RoundUpDiv(out[3], stride), 5) * stride
           gws == <<RoundUpDiv4(out[4]), m, out[1] * out[2]>>
           lws == Default3DLocalWS(gws, device)
           run == [Job(gws, lws, <<1, 5, 1>>, <<>>) EXCEPT !.apart = stride]
<1>1. p = GpuDeconv2d(functor, ins, device) /\ p.legal
  BY DEF PlanFor, PlanOf, LegalCall
<1>2. Len(out) = 4
  BY DEF ToNHWC
<1> HIDE DEF p
<1>3. stride # 0 /\ LegalDeconv(x)
  BY <1>1 DEF GpuDeconv2d
<1>4. p.out = out /\ p.cover = "pixels" /\ p.image = out /\ p.gws = "now" /\ p.runs = <<run>>
  BY <1>1, <1>3 DEF GpuDeconv2d, Plan
<1>5. IsShape(out)
  BY <1>4, CallIs DEF p
<1>6. stride \in Pos
  BY <1>3, CallIs DEF AreInputs, Pos
<1> HIDE DEF out, stride
<1>7. /\ Pixels(out) = <<RoundUpDiv4(out[4]), out[3], out[1] * out[2]>>
      /\ RoundUpDiv4(out[4]) \in Pos /\ out[3] \in Pos /\ out[1] * out[2] \in Pos
  BY <1>2, <1>5, PixelsAre
<1>8. Tight(m, 5, out[3], stride) /\ m \in Pos
  <2>1. 5 \in Pos
    BY DEF Pos
  <2> QED BY <1>6, <1>7, <2>1, Strided
<1> HIDE DEF m
<1>9. IsSizes(gws, 3) /\ gws = <<Pixels(out)[1], m, Pixels(out)[3]>> /\ Pixels(out)[2] = out[3]
  <2>1. PICK b : b = out[1] * out[2]
    OBVIOUS
  <2>2. PICK r : r = RoundUpDiv4(out[4])
    OBVIOUS
  <2> QED BY <1>7, <1>8, <2>1, <2>2 DEF IsSizes
<1> HIDE DEF gws
<1>10. AreGroups(lws, device)
  BY <1>9, OwnGroupsOf
<1>11. run.gws = gws /\ run.per = <<1, 5, 1>> /\ run.apart = stride /\ run.lws = lws
  BY DEF Job
<1> HIDE DEF run, lws
<1>12. RightPlan(p)
  BY <1>2, <1>4, <1>5, <1>8, <1>9, <1>10, <1>11, RightRows
<1> QED BY <1>12 DEF p

-----------------------------------------------------------------------------
(* Elements that are put elsewhere.                                        *)
LEMMA PixelsCounted ==
  ASSUME NEW s, IsShape(s), Len(s) = 4
  PROVE  Elements(Pixels(s)) = RoundUpDiv4(s[4]) * s[3] * (s[1] * s[2])
<1>1. /\ Pixels(s) = <<RoundUpDiv4(s[4]), s[3], s[1] * s[2]>> /\ IsSizes(Pixels(s), 3)
  BY PixelsAre
<1>2. Pixels(s) \in [1..3 -> Nat] /\ Len(Pixels(s)) = 3
  BY <1>1 DEF IsSizes, Pos
<1>3. Elements(Pixels(s)) = Pixels(s)[1] * Pixels(s)[2] * Pixels(s)[3]
  BY <1>2, ThreeElements
<1> QED BY <1>1, <1>3

LEMMA RightMoved ==
  ASSUME NEW p, NEW s, NEW g, IsShape(s), Len(s) = 4, IsShape(g), Len(g) = 4, p.cover = "moved",
         p.runs = <<Job(Pixels(g), Default3DLocalWS(Pixels(g), device), <<1, 1, 1>>, <<>>)>>,
         p.image = s, p.type = "IN_OUT_CHANNEL", p.gws = "now", device \in DeviceSet,
         RoundUpDiv4(g[4]) * g[3] * (g[1] * g[2]) >= RoundUpDiv4(s[4]) * s[3] * (s[1] * s[2])
  PROVE  RightPlan(p)
<1> DEFINE lws == Default3DLocalWS(Pixels(g), device)
           run == Job(Pixels(g), lws, <<1, 1, 1>>, <<>>)
           image == CalImage2DShape(p.image, p.type, p.block)
<1>1. run.gws = Pixels(g) /\ run.lws = lws
  BY DEF Job
<1>2. p.runs[1] = run /\ DOMAIN p.runs = {1}
  OBVIOUS
<1> HIDE DEF run
<1>3. image = <<RoundUpDiv4(s[4]) * s[3], s[1] * s[2]>>
  BY ImageIs
<1>4. image[1] * image[2] = RoundUpDiv4(s[4]) * s[3] * (s[1] * s[2])
  <2> HIDE DEF image
  <2> QED BY <1>3
<1>5. Elements(run.gws) >= image[1] * image[2]
  BY <1>1, <1>4, PixelsCounted
<1>6. Covered(p, p.runs, p.out)
  BY <1>2, <1>5 DEF Covered
<1>7. GroupFits(run)
  <2>1. device.maxGroup \in Pos /\ device.base \in Nat
    BY DevicesAssumption DEF Pos
  <2>2. AreGroups(lws, device)
    BY <2>1, PixelsAre, DefaultRuns DEF AreGroups
  <2> QED BY <1>1, <2>2, GroupsFit
<1> QED BY <1>2, <1>6, <1>7 DEF RightPlan

LEMMA Products ==
  ASSUME NEW q \in Nat, NEW a \in Nat, NEW b \in Nat, NEW c \in Nat, NEW x \in Nat, NEW y \in Nat,
         NEW z \in Nat, a <= x, b <= y, c <= z
  PROVE  q * a * (b * c) <= q * x * (y * z)
<1>1. a * (q * b * c) <= x * (q * b * c)
  BY Monotone
<1>2. b * (q * x * c) <= y * (q * x * c)
  BY Monotone
<1>3. c * (q * x * y) <= z * (q * x * y)
  BY Monotone
<1>4. /\ a * (q * b * c) = q * a * (b * c) /\ x * (q * b * c) = b * (q * x * c)
      /\ y * (q * x * c) = c * (q * x * y) /\ z * (q * x * y) = q * x * (y * z)
  OBVIOUS
<1>5. /\ q * a * (b * c) \in Int /\ b * (q * x * c) \in Int /\ c * (q * x * y) \in Int
      /\ q * x * (y * z) \in Int
  OBVIOUS
<1> QED BY <1>1, <1>2, <1>3, <1>4, <1>5

(* Some products in another order.                                         *)
LEMMA Fourfold ==
  ASSUME NEW q \in Int, NEW e \in Int
  PROVE  q * 4 * e * e = 4 * (q * e * e)
<1>1. PICK m \in Int : m = q * e
  OBVIOUS
<1>2. q * 4 * e = 4 * m
  BY <1>1
<1>3. (4 * m) * e = 4 * (m * e)
  BY <1>1
<1> QED BY <1>1, <1>2, <1>3

LEMMA Reordered ==
  ASSUME NEW q \in Int, NEW w \in Int, NEW y \in Int, NEW o \in Int, NEW h \in Int, NEW x \in Int
  PROVE  q * (w * y) * (o * (h * x)) = q * w * (((o * x) * y) * h)
<1>1. PICK a, b, c \in Int : a = q * w /\ b = o * x /\ c = y * h
  OBVIOUS
<1>2. q * (w * y) = a * y /\ o * (h * x) = b * h /\ (o * x) * y = b * y
  BY <1>1
<1>3. (a * y) * (b * h) = a * ((b * y) * h)
  OBVIOUS
<1> QED BY <1>1, <1>2, <1>3

LEMMA DepthToSpaceRight ==
  ASSUME NEW ins, LegalCall(ins), functor.kind = "depthtospace"
  PROVE  RightPlan(PlanFor(ins))
<1> DEFINE p == PlanFor(ins)
           in == ins[1]
           b == functor.block
           deep == <<in[1], in[2] \div b, in[3] \div b, in[4] * b * b>>
           wide == <<in[1], in[2] * b, in[3] * b, in[4] \div (b * b)>>
           out == IF functor.d2s THEN wide ELSE deep
           g == IF functor.d2s THEN wide ELSE in
<1>1. p = GpuDepthToSpace(functor, ins, device) /\ p.legal
  BY DEF PlanFor, PlanOf, LegalCall
<1> HIDE DEF p
<1>2. functor.d2s \in BOOLEAN /\ b \in Pos
  BY CallIs DEF AreInputs, Pos
<1>3. /\ p.out = out /\ p.cover = "moved" /\ p.image = out /\ p.gws = "now" /\ p.type = "IN_OUT_CHANNEL"
      /\ p.runs = <<Job(Pixels(g), Default3DLocalWS(Pixels(g), device), <<1, 1, 1>>, <<>>)>>
  <2>1. CASE functor.d2s
    BY <1>1, <2>1 DEF GpuDepthToSpace, Plan
  <2>2. CASE ~functor.d2s
    BY <1>1, <2>2 DEF GpuDepthToSpace, Plan
  <2> QED BY <2>1, <2>2
<1>4. ~functor.d2s => in[4] % 4 = 0
  BY <1>1 DEF GpuDepthToSpace, Plan
<1>5. IsShape(out) /\ IsShape(in) /\ Len(in) = 4 /\ device \in DeviceSet
  BY <1>3, CallIs DEF p, OfAnyRank, LegalCall
<1>6. Len(out) = 4
  OBVIOUS
<1>7. /\ IsShape(g) /\ Len(g) = 4
      /\ RoundUpDiv4(g[4]) * g[3] * (g[1] * g[2]) >= RoundUpDiv4(out[4]) * out[3] * (out[1] * out[2])
  <2>1. CASE functor.d2s
    <3>1. g = out
      BY <2>1
    <3>2. RoundUpDiv4(out[4]) * out[3] * (out[1] * out[2]) \in Int
      <4>1. RoundUpDiv4(out[4]) \in Pos /\ out[3] \in Pos /\ out[1] * out[2] \in Pos
        BY <1>5, <1>6, PixelsAre
      <4> HIDE DEF out
      <4>2. PICK u, v, w \in Pos : u = RoundUpDiv4(out[4]) /\ v = out[3] /\ w = out[1] * out[2]
        BY <4>1
      <4>3. u * v * w \in Int
        BY DEF Pos
      <4> QED BY <4>2, <4>3
    <3> HIDE DEF g, out
    <3> QED BY <1>5, <1>6, <3>1, <3>2
  <2>2. CASE ~functor.d2s
    <3>1. g = in /\ out = deep
      BY <2>2
    <3>2. PICK c1, c2, c3, c4 \in Pos : c1 = in[1] /\ c2 = in[2] /\ c3 = in[3] /\ c4 = in[4]
      BY <1>5, Shape4
    <3>3. PICK e \in Pos : e = b
      BY <1>2
    <3>4. PICK q \in Nat : q = RoundUpDiv4(c4) /\ q * 4 = c4
      BY <1>4, <2>2, <3>2, Quarter DEF Pos
    <3>5. PICK r2, r3 \in Nat : /\ r2 = c2 \div e /\ r3 = c3 \div e /\ r2 * e <= c2 /\ r3 * e <= c3
      BY <3>2, <3>3, Division DEF Pos
    <3>6. RoundUpDiv4(c4 * e * e) = q * e * e
      <4>0. q * 4 * e * e = 4 * (q * e * e)
        <5>1. q \in Int /\ e \in Int
          BY <3>3, <3>4 DEF Pos
        <5> QED BY <5>1, Fourfold
      <4>1. c4 * e * e = 4 * (q * e * e)
        BY <3>4, <4>0
      <4>2. PICK t \in Nat : t = q * e * e
        BY <3>3, <3>4 DEF Pos
      <4>3. RoundUpDiv4(4 * t) = t
        BY DEF RoundUpDiv4
      <4> QED BY <4>1, <4>2, <4>3
    <3>7. q * (r3 * e) * (c1 * (r2 * e)) <= q * c3 * (c1 * c2)
      <4>1. r3 * e \in Nat /\ r2 * e \in Nat /\ c1 \in Nat /\ c2 \in Nat /\ c3 \in Nat /\ c1 <= c1
        BY <3>2, <3>3, <3>5 DEF Pos
      <4> QED BY <3>4, <3>5, <4>1, Products
    <3>8. q * (r3 * e) * (c1 * (r2 * e)) = (q * e * e) * r3 * (c1 * r2)
      BY <3>2, <3>3, <3>4, <3>5 DEF Pos
    <3>9. out[1] = c1 /\ out[2] = r2 /\ out[3] = r3 /\ out[4] = c4 * e * e
      BY <3>1, <3>2, <3>3, <3>5
    <3>10. RoundUpDiv4(out[4]) * out[3] * (out[1] * out[2]) = (q * e * e) * r3 * (c1 * r2)
      BY <3>6, <3>9
    <3>11. RoundUpDiv4(g[4]) * g[3] * (g[1] * g[2]) = q * c3 * (c1 * c2)
      BY <3>1, <3>2, <3>4
    <3>12. q * c3 * (c1 * c2) \in Int /\ (q * e * e) * r3 * (c1 * r2) \in Int
      BY <3>2, <3>3, <3>4, <3>5 DEF Pos
    <3>13. q * c3 * (c1 * c2) >= (q * e * e) * r3 * (c1 * r2)
      <4>1. PICK u, v \in Int : u = q * c3 * (c1 * c2) /\ v = (q * e * e) * r3 * (c1 * r2)
        BY <3>12
      <4>2. v <= u
        BY <3>7, <3>8, <4>1
      <4>3. u >= v
        BY <4>2
      <4> QED BY <4>1, <4>3
    <3>14. RoundUpDiv4(g[4]) * g[3] * (g[1] * g[2]) >= RoundUpDiv4(out[4]) * out[3] * (out[1] * out[2])
      BY <3>10, <3>11, <3>13
    <3>15. IsShape(g) /\ Len(g) = 4
      BY <1>5, <3>1
    <3> QED BY <3>14, <3>15
  <2> HIDE DEF g, out
  <2> QED BY <1>2, <2>1, <2>2
<1> HIDE DEF out, g
<1>8. RightPlan(p)
  BY <1>3, <1>5, <1>6, <1>7, RightMoved
<1> QED BY <1>8 DEF p

LEMMA SpaceToBatchRight ==
  ASSUME NEW ins, LegalCall(ins), functor.kind = "spacetobatch"
  PROVE  RightPlan(PlanFor(ins))
<1> DEFINE p == PlanFor(ins)
           in == ins[1]
           back == ToNHWC(BatchToSpaceShape(ToNCHW(in), functor.block, functor.paddings))
           apart == ToNHWC(SpaceToBatchShape(ToNCHW(in), functor.block, functor.paddings))
           out == IF functor.b2s THEN back ELSE apart
           g == IF functor.b2s THEN in ELSE out
<1>1. p = GpuSpaceToBatch(functor, ins, device)
  BY DEF PlanFor, PlanOf
<1> HIDE DEF p
<1>2. functor.b2s \in BOOLEAN /\ IsBatched(functor) /\ ins \in functor.calls
  BY FunctorsAssumption DEF LegalCall
<1>3. out = ToNHWC(IF functor.b2s THEN BatchToSpaceShape(ToNCHW(in), functor.block, functor.paddings)
                   ELSE SpaceToBatchShape(ToNCHW(in), functor.block, functor.paddings))
  OBVIOUS
<1>4. Len(out) = 4
  BY DEF ToNHWC
<1>5. functor.b2s => out = back
  OBVIOUS
<1> HIDE DEF out
<1>6. /\ p.out = out /\ p.cover = "moved" /\ p.image = out /\ p.gws = "now" /\ p.type = "IN_OUT_CHANNEL"
      /\ p.runs = <<Job(Pixels(g), Default3DLocalWS(Pixels(g), device), <<1, 1, 1>>, <<>>)>>
  BY <1>1, <1>3 DEF GpuSpaceToBatch, Plan
<1>7. IsShape(out) /\ IsShape(in) /\ Len(in) = 4 /\ device \in DeviceSet
  BY <1>6, CallIs DEF p, OfAnyRank, LegalCall
<1>8. /\ IsShape(g) /\ Len(g) = 4
      /\ RoundUpDiv4(g[4]) * g[3] * (g[1] * g[2]) >= RoundUpDiv4(out[4]) * out[3] * (out[1] * out[2])
  <2>1. CASE ~functor.b2s
    <3>1. g = out
      BY <2>1
    <3>2. RoundUpDiv4(out[4]) * out[3] * (out[1] * out[2]) \in Int
      <4>1. RoundUpDiv4(out[4]) \in Pos /\ out[3] \in Pos /\ out[1] * out[2] \in Pos
        BY <1>4, <1>7, PixelsAre
      <4>2. PICK u, v, w \in Pos : u = RoundUpDiv4(out[4]) /\ v = out[3] /\ w = out[1] * out[2]
        BY <4>1
      <4>3. u * v * w \in Int
        BY DEF Pos
      <4> QED BY <4>2, <4>3
    <3> HIDE DEF g
    <3> QED BY <1>4, <1>7, <3>1, <3>2
  <2>2. CASE functor.b2s
    <3>1. g = in /\ out = back
      BY <1>5, <2>2
    <3>2. PICK n, h, w, c \in Pos : n = in[1] /\ h = in[2] /\ w = in[3] /\ c = in[4]
      BY <1>7, Shape4
    <3>3. PICK x, y \in Pos : x = functor.block[1] /\ y = functor.block[2]
      BY <1>2 DEF IsBatched, Pos
    <3>4. PICK a1, a2, a3, a4 \in Nat : /\ a1 = functor.paddings[1] /\ a2 = functor.paddings[2]
                                         /\ a3 = functor.paddings[3] /\ a4 = functor.paddings[4]
      BY <1>2 DEF IsBatched
    <3>5. out[1] = (n \div x) \div y /\ out[2] = h * x - a1 - a2 /\ out[3] = w * y - a3 - a4 /\ out[4] = c
      BY <3>1, <3>2, <3>3, <3>4 DEF ToNHWC, ToNCHW, BatchToSpaceShape
    <3>6. PICK o1, o2, o3 \in Pos : o1 = out[1] /\ o2 = out[2] /\ o3 = out[3]
      BY <1>4, <1>7, Shape4
    <3>7. (o1 * x) * y <= n
      <4>1. n \in Nat /\ n \div x \in Nat /\ (n \div x) * x <= n
        BY <3>2, <3>3, Division DEF Pos
      <4>2. PICK m \in Nat : m = n \div x
        BY <4>1
      <4>3. o1 * y <= m
        BY <3>3, <3>5, <3>6, <4>2, Division
      <4>4. (o1 * y) * x <= m * x
        <5>1. o1 * y \in Nat /\ x \in Nat
          BY <3>3, <3>6 DEF Pos
        <5> QED BY <4>2, <4>3, <5>1, Monotone
      <4>5. (o1 * y) * x = (o1 * x) * y /\ (o1 * x) * y \in Int /\ m * x \in Int
        BY <3>3, <3>6, <4>2 DEF Pos
      <4> QED BY <4>1, <4>2, <4>4, <4>5
    <3>8. o2 <= h * x /\ o3 <= w * y
      <4>1. h * x \in Int /\ w * y \in Int
        BY <3>2, <3>3 DEF Pos
      <4> QED BY <3>4, <3>5, <3>6, <4>1
    <3>9. PICK q \in Nat : q = RoundUpDiv4(c)
      BY <3>2, Quarter DEF Pos
    <3>10. q * o3 * (o1 * o2) <= q * (w * y) * (o1 * (h * x))
      <4>1. o1 \in Nat /\ o2 \in Nat /\ o3 \in Nat /\ w * y \in Nat /\ h * x \in Nat /\ o1 <= o1
        BY <3>2, <3>3, <3>6 DEF Pos
      <4> QED BY <3>8, <3>9, <4>1, Products
    <3>11. q * w * (((o1 * x) * y) * h) <= q * w * (n * h)
      <4>1. /\ w \in Nat /\ (o1 * x) * y \in Nat /\ h \in Nat /\ n \in Nat
            /\ w <= w /\ h <= h
        BY <3>2, <3>3, <3>6 DEF Pos
      <4> QED BY <3>7, <3>9, <4>1, Products
    <3>12. /\ q * (w * y) * (o1 * (h * x)) = q * w * (((o1 * x) * y) * h)
           /\ q * o3 * (o1 * o2) \in Int /\ q * (w * y) * (o1 * (h * x)) \in Int
           /\ q * w * (n * h) \in Int
      <4>1. /\ q \in Int /\ w \in Int /\ y \in Int /\ o1 \in Int /\ h \in Int /\ x \in Int
            /\ o2 \in Int /\ o3 \in Int /\ n \in Int
        BY <3>2, <3>3, <3>6, <3>9 DEF Pos
      <4>2. q * (w * y) * (o1 * (h * x)) = q * w * (((o1 * x) * y) * h)
        BY <4>1, Reordered
      <4>3. /\ q * o3 * (o1 * o2) \in Int /\ q * (w * y) * (o1 * (h * x)) \in Int
            /\ q * w * (n * h) \in Int
        BY <4>1
      <4> QED BY <4>2, <4>3
    <3>13. q * w * (n * h) >= q * o3 * (o1 * o2)
      <4>1. PICK u, v, t \in Int : /\ u = q * o3 * (o1 * o2) /\ v = q * (w * y) * (o1 * (h * x))
                                   /\ t = q * w * (n * h)
        BY <3>12
      <4>2. u <= v /\ v <= t
        BY <3>10, <3>11, <3>12, <4>1
      <4>3. t >= u
        BY <4>2
      <4> QED BY <4>1, <4>3
    <3>14. /\ RoundUpDiv4(g[4]) * g[3] * (g[1] * g[2]) = q * w * (n * h)
           /\ RoundUpDiv4(out[4]) * out[3] * (out[1] * out[2]) = q * o3 * (o1 * o2)
      <4>1. g[1] = n /\ g[2] = h /\ g[3] = w /\ g[4] = c
        BY <3>1, <3>2
      <4> HIDE DEF g
      <4> QED BY <3>5, <3>6, <3>9, <4>1
    <3>15. IsShape(g) /\ Len(g) = 4
      BY <1>7, <3>1
    <3> HIDE DEF g
    <3> QED BY <3>13, <3>14, <3>15
  <2> HIDE DEF g
  <2> QED BY <1>2, <2>1, <2>2
<1> HIDE DEF g
<1>9. RightPlan(p)
  BY <1>4, <1>6, <1>7, <1>8, RightMoved
<1> QED BY <1>9 DEF p

-----------------------------------------------------------------------------
(* Products.                                                               *)
LEMMA Reached ==
  ASSUME NEW x \in Pos
  PROVE  Tight(RoundUpDiv4(x), 4, x, 1)
<1>1. PICK r \in Pos : r = RoundUpDiv4(x) /\ x <= r * 4 /\ (r - 1) * 4 < x
  BY Quarter DEF Pos
<1>2. r * 4 >= x /\ (r - 1) * 4 < x
  BY <1>1 DEF Pos
<1> QED BY <1>1, <1>2 DEF Tight

LEMMA Filled ==
  ASSUME NEW n \in Pos, NEW m \in Pos
  PROVE  Tight(n, m, m * n, 1) /\ Tight(n, m, n * m, 1)
<1>1. (n - 1) * m = n * m - m /\ n * m \in Int /\ m * n = n * m /\ m > 0 /\ m \in Int
  BY OneFewer DEF Pos
<1>2. PICK t \in Int : t = n * m
  BY <1>1
<1>3. n * m >= m * n /\ (n - 1) * m < n * m
  BY <1>1, <1>2
<1> QED BY <1>1, <1>3 DEF Tight

LEMMA MatMulRight ==
  ASSUME NEW ins, LegalCall(ins), functor.kind = "matmul"
  PROVE  RightPlan(PlanFor(ins))
<1> DEFINE p == PlanFor(ins)
           a == ins[1]
           r == Len(a)
           h == a[r - 1]
           w == ins[2][r]
           batch == Elements(SubSeq(a, 1, r - 2))
           gws == <<RoundUpDiv4(w), RoundUpDiv4(h) * batch>>
           lws == <<device.maxGroup \div 64, 64, 0>>
           run == Job(gws, lws, <<4, 1>>, <<h, w, a[r], RoundUpDiv4(h), RoundUpDiv4(a[r])>>)
           image == CalImage2DShape(p.image, p.type, p.block)
<1>1. p = GpuMatMul(functor, ins, device) /\ device \in DeviceSet
  BY DEF PlanFor, PlanOf, LegalCall
<1> HIDE DEF p
<1>2. /\ p.runs = <<run>> /\ p.cover = "image" /\ p.gws = "now" /\ p.type = "IN_OUT_HEIGHT"
      /\ p.image = <<batch, h, w, 1>>
  BY <1>1 DEF GpuMatMul, Plan
<1>3. a \in Seq(Pos) /\ r \in Nat /\ r >= 2
  BY CallIs DEF AreInputs, IsShape, Pos
<1>4. IsShape(ins[2]) /\ Len(ins[2]) = r
  <2>1. Len(ins) >= 2 /\ Len(ins[2]) = r
    BY CallIs DEF AreInputs
  <2>2. PICK n \in Nat : n = Len(ins)
    BY CallIs
  <2>3. 2 \in 1..Len(ins)
    BY <2>1, <2>2
  <2> QED BY <2>1, <2>3, CallIs
<1>5. h \in Pos /\ w \in Pos
  <2> HIDE DEF a
  <2>1. r - 1 \in 1..r /\ r \in 1..r
    BY <1>3
  <2>2. a[r - 1] \in Pos
    BY <1>3, <2>1
  <2>3. ins[2][r] \in Pos
    <3>1. PICK b : b = ins[2]
      OBVIOUS
    <3>2. b \in Seq(Pos) /\ Len(b) = r
      BY <1>4, <3>1 DEF IsShape, Pos
    <3> QED BY <2>1, <3>1, <3>2
  <2> QED BY <2>2, <2>3
<1>6. batch \in Pos
  <2> HIDE DEF a
  <2>1. r - 2 \in 0..r
    BY <1>3
  <2>2. SubSeq(a, 1, r - 2) \in Seq(Pos)
    BY <1>3, <2>1
  <2> QED BY <2>2, ElementsCounted
<1> HIDE DEF batch, a, w
<1>7. image = <<w * 1, batch * RoundUpDiv4(h)>>
  <2>1. Len(p.image) = 4
    BY <1>2
  <2>2. image = CalInOutHeightImageShape(p.image)
    BY <1>2, <2>1 DEF CalImage2DShape, Rank
  <2> QED BY <1>2, <2>2 DEF CalInOutHeightImageShape
<1>8. PICK q \in Pos : q = RoundUpDiv4(h)
  BY <1>5, Quarter DEF Pos
<1>9. Tight(RoundUpDiv4(w), 4, w * 1, 1) /\ Tight(q * batch, 1, batch * q, 1)
  <2>1. w * 1 = w
    BY <1>5 DEF Pos
  <2>2. q * batch \in Int /\ q * batch = batch * q
    BY <1>6, <1>8 DEF Pos
  <2>3. Tight(q * batch, 1, q * batch, 1)
    BY <2>2, TightOne
  <2> QED BY <1>5, <2>1, <2>2, <2>3, Reached
<1> HIDE DEF image
<1>10. \A i \in 1..2 : Tight(run.gws[i], run.per[i], image[i], 1)
  <2>1. run.gws = gws /\ run.per = <<4, 1>>
    BY DEF Job
  <2> HIDE DEF run
  <2>2. Tight(run.gws[1], run.per[1], image[1], 1)
    BY <1>7, <1>9, <2>1
  <2>3. Tight(run.gws[2], run.per[2], image[2], 1)
    BY <1>7, <1>8, <1>9, <2>1
  <2>4. ASSUME NEW i \in 1..2 PROVE Tight(run.gws[i], run.per[i], image[i], 1)
    <3>1. i = 1 \/ i = 2
      OBVIOUS
    <3> QED BY <2>2, <2>3, <3>1
  <2> QED BY <2>4
<1>11. GroupFits(run)
  <2>1. run.lws = lws
    BY DEF Job
  <2>2. 64 \in Pos
    BY DEF Pos
  <2> HIDE DEF run
  <2> QED BY <1>1, <2>1, <2>2, TwoFit
<1> HIDE DEF run
<1> QED BY <1>2, <1>10, <1>11, RightImage DEF p, image

LEMMA OneMore ==
  ASSUME NEW a \in Int, NEW b \in Int, NEW c \in Int
  PROVE  <<a, b, c>> \o <<1>> = <<a, b, c, 1>>
<1>1. <<a, b, c>> \in Seq(Int) /\ <<1>> \in Seq(Int) /\ <<a, b, c, 1>> \in Seq(Int)
  OBVIOUS
<1>2. PICK s, t, u \in Seq(Int) : s = <<a, b, c>> /\ t = <<1>> /\ u = <<a, b, c, 1>>
  BY <1>1
<1>3. Len(s) = 3 /\ Len(t) = 1 /\ Len(u) = 4
  BY <1>2
<1>4. /\ s \o t \in Seq(Int) /\ Len(s \o t) = Len(s) + Len(t)
      /\ \A i \in 1..(Len(s) + Len(t)) : (s \o t)[i] = IF i <= Len(s) THEN s[i] ELSE t[i - Len(s)]
  BY ConcatProperties
<1>5. PICK v \in Seq(Int) : v = s \o t
  BY <1>4
<1>6. Len(v) = 4 /\ \A i \in 1..4 : v[i] = IF i <= 3 THEN s[i] ELSE t[i - 3]
  BY <1>3, <1>4, <1>5
<1>7. \A i \in 1..4 : v[i] = u[i]
  <2>1. s[1] = a /\ s[2] = b /\ s[3] = c /\ t[1] = 1 /\ u[1] = a /\ u[2] = b /\ u[3] = c /\ u[4] = 1
    BY <1>2
  <2>2. v[1] = s[1] /\ v[2] = s[2] /\ v[3] = s[3] /\ v[4] = t[1]
    BY <1>6
  <2>3. v[1] = u[1] /\ v[2] = u[2] /\ v[3] = u[3] /\ v[4] = u[4]
    BY <2>1, <2>2
  <2>4. \A i \in 1..4 : i = 1 \/ i = 2 \/ i = 3 \/ i = 4
    OBVIOUS
  <2> QED BY <2>3, <2>4, Zenon
<1>8. v = u
  BY <1>3, <1>6, <1>7, SeqEqual
<1> QED BY <1>2, <1>5, <1>8

LEMMA WinogradRight ==
  ASSUME NEW ins, LegalCall(ins), functor.kind = "winograd"
  PROVE  RightPlan(PlanFor(ins))
<1> DEFINE p == PlanFor(ins)
           in == ins[1]
           b == functor.block
           s == Sized(functor, in, <<1, in[4], 3, 3>>, "FLOOR")
           area == (b + 2) * (b + 2)
           tiles == in[1] * RoundUpDiv(s.output[2], b) * RoundUpDiv(s.output[3], b)
           out == <<area, in[4], tiles>>
           gws == <<tiles, RoundUpDiv4(in[4])>>
           lws == <<device.maxGroup \div 8, 8, 0>>
           run == Job(gws, lws, <<1, area>>, <<>>)
           image == CalImage2DShape(p.image, p.type, p.block)
<1>1. p = WinogradTransform(functor, ins, device) /\ device \in DeviceSet /\ p.legal
  BY DEF PlanFor, PlanOf, LegalCall
<1> HIDE DEF p
<1>2. /\ p.runs = <<run>> /\ p.cover = "image" /\ p.gws = "now" /\ p.type = "IN_OUT_HEIGHT"
      /\ p.image = out \o <<1>> /\ p.out = out /\ b \in {2, 4}
  BY <1>1 DEF WinogradTransform, Plan
<1>3. IsShape(out) /\ IsShape(in) /\ Len(in) = 4
  BY <1>2, CallIs DEF p, OfAnyRank
<1>4. PICK c, t, x \in Pos : c = in[4] /\ t = tiles /\ x = area
  <2>1. tiles \in Pos /\ area \in Pos
    <3>1. PICK e, f : e = area /\ f = tiles
      OBVIOUS
    <3>2. <<e, in[4], f>> \in Seq(Pos)
      BY <1>3, <3>1 DEF IsShape, Pos
    <3> QED BY <3>1, <3>2
  <2> QED BY <1>3, <2>1, Shape4
<1> HIDE DEF in, tiles, area
<1>5. p.image = <<x, c, t, 1>>
  BY <1>2, <1>4, OneMore DEF Pos
<1>6. image = <<t * 1, x * RoundUpDiv4(c)>>
  <2>1. Len(p.image) = 4
    BY <1>5
  <2>2. image = CalInOutHeightImageShape(p.image)
    BY <1>2, <2>1 DEF CalImage2DShape, Rank
  <2> QED BY <1>5, <2>2 DEF CalInOutHeightImageShape
<1>7. PICK q \in Pos : q = RoundUpDiv4(c)
  BY Quarter DEF Pos
<1>8. Tight(t, 1, t * 1, 1) /\ Tight(q, x, x * q, 1)
  <2>1. t * 1 = t /\ t \in Int
    BY DEF Pos
  <2>2. Tight(t, 1, t, 1)
    BY <2>1, TightOne
  <2> QED BY <2>1, <2>2, Filled
<1> HIDE DEF image
<1>9. \A i \in 1..2 : Tight(run.gws[i], run.per[i], image[i], 1)
  <2>1. run.gws = <<t, q>> /\ run.per = <<1, x>>
    BY <1>4, <1>7 DEF Job
  <2> HIDE DEF run
  <2>2. Tight(run.gws[1], run.per[1], image[1], 1)
    BY <1>6, <1>8, <2>1
  <2>3. Tight(run.gws[2], run.per[2], image[2], 1)
    BY <1>6, <1>7, <1>8, <2>1
  <2>4. ASSUME NEW i \in 1..2 PROVE Tight(run.gws[i], run.per[i], image[i], 1)
    <3>1. i = 1 \/ i = 2
      OBVIOUS
    <3> QED BY <2>2, <2>3, <3>1
  <2> QED BY <2>4
<1>10. GroupFits(run)
  <2>1. run.lws = lws
    BY DEF Job
  <2>2. 8 \in Pos
    BY DEF Pos
  <2> HIDE DEF run
  <2> QED BY <1>1, <2>1, <2>2, TwoFit
<1> HIDE DEF run
<1> QED BY <1>2, <1>9, <1>10, RightImage DEF p, image

(* Tiles, where the picture's size is the one the operator was given.      *)
LEMMA WinogradInverseRight ==
  ASSUME NEW ins, LegalCall(ins), functor.kind = "winogradinverse", launch.ins = ins
  PROVE  RightPlan(PlanFor(ins))
<1> DEFINE p == PlanFor(ins)
           in == ins[1]
           out == <<functor.batch, functor.height, functor.width, in[2]>>
           gws == <<in[3], RoundUpDiv4(in[2])>>
           lws == <<device.maxGroup \div 8, 8, 0>>
           run == Job(gws, lws, <<1, 1>>, <<>>)
<1>1. p = WinogradInverseTransform(functor, ins, device) /\ device \in DeviceSet
  BY DEF PlanFor, PlanOf, LegalCall
<1> HIDE DEF p
<1>2. p.runs = <<run>> /\ p.cover = "tiles" /\ p.gws = "now" /\ p.out = out
  BY <1>1 DEF WinogradInverseTransform, Plan
<1>3. p.runs[1].gws = gws /\ DOMAIN p.runs = {1} /\ p.runs[1] = run /\ run.lws = lws
  BY <1>2 DEF Job
<1>4. Pixels(out)[1] = RoundUpDiv4(in[2]) /\ launch.ins[1][3] = in[3]
  BY DEF Pixels
<1> HIDE DEF run, out
<1>5. Covered(p, p.runs, p.out)
  BY <1>2, <1>3, <1>4 DEF Covered
<1>6. GroupFits(run)
  <2>1. 8 \in Pos
    BY DEF Pos
  <2> QED BY <1>1, <1>3, <2>1, TwoFit
<1>7. RightPlan(p)
  BY <1>2, <1>3, <1>5, <1>6 DEF RightPlan
<1> QED BY <1>7 DEF p

(* A group sums up a pixel.                                                *)
LEMMA SideIs ==
  ASSUME device \in DeviceSet, NEW n \in {8, 16}, NEW side,
         side = IF device.adreno THEN device.wave \div 4 ELSE n
  PROVE  side \in Pos /\ 4 * side <= device.maxGroup
<1>1. /\ device.maxGroup \in Nat /\ device.maxGroup >= 64 /\ device.adreno \in BOOLEAN
      /\ device.adreno => device.wave \in 4..device.maxGroup
  BY DevicesAssumption
<1>2. CASE device.adreno
  <2>1. PICK w \in Nat, k \in Nat : w = device.wave /\ k = device.maxGroup /\ w >= 4 /\ w <= k
    BY <1>1, <1>2
  <2>2. w \div 4 >= 1 /\ w \div 4 \in Nat /\ 4 * (w \div 4) <= w
    BY <2>1
  <2>3. side = w \div 4
    BY <1>2, <2>1
  <2> QED BY <2>1, <2>2, <2>3 DEF Pos
<1>3. CASE ~device.adreno
  BY <1>1, <1>3 DEF Pos
<1> QED BY <1>1, <1>2, <1>3

LEMMA RightSums ==
  ASSUME NEW p, NEW run, NEW out, NEW side, NEW last \in Pos, IsShape(out), Len(out) = 4,
         out[2] = 1, out[3] = 1,
         device \in DeviceSet, side \in Pos, last * (4 * side) <= device.maxGroup,
         p.runs = <<run>>, p.cover = "sums", p.image = out, p.type = "IN_OUT_CHANNEL",
         p.gws # "output", run.gws = <<4, side, out[1] * RoundUpDiv4(out[4])>>,
         run.lws = <<4, side, last, 0>>
  PROVE  RightPlan(p)
<1> DEFINE image == CalImage2DShape(p.image, p.type, p.block)
<1>1. p.runs[1] = run /\ DOMAIN p.runs = {1}
  OBVIOUS
<1>2. image = <<RoundUpDiv4(out[4]) * out[3], out[1] * out[2]>>
  BY ImageIs
<1>3. PICK q, n \in Pos : q = RoundUpDiv4(out[4]) /\ n = out[1]
  <2>1. out[4] \in Pos /\ out[1] \in Pos
    BY Shape4
  <2> QED BY <2>1, Quarter DEF Pos
<1>4. image[1] = q /\ image[2] = n
  <2>1. q * 1 = q /\ n * 1 = n
    BY DEF Pos
  <2> HIDE DEF image
  <2> QED BY <1>2, <1>3, <2>1
<1>5. run.gws[3] = image[1] * image[2] /\ run.gws[1] = run.lws[1] /\ run.gws[2] = run.lws[2]
  <2>1. n * q = q * n
    BY DEF Pos
  <2> HIDE DEF image
  <2> QED BY <1>3, <1>4, <2>1
<1>6. \A i \in 1..2 : run.gws[i] = run.lws[i]
  <2>1. \A i \in 1..2 : i = 1 \/ i = 2
    OBVIOUS
  <2> QED BY <1>5, <2>1, Zenon
<1>7. Covered(p, p.runs, p.out)
  BY <1>1, <1>5, <1>6 DEF Covered
<1>8. GroupFits(run)
  <2>1. 4 \in Pos /\ device.maxGroup \in Pos
    BY DevicesAssumption DEF Pos
  <2>2. AreGroups(run.lws, device)
    BY <2>1, GroupRuns DEF AreGroups
  <2> QED BY <2>2, GroupsFit
<1> QED BY <1>1, <1>7, <1>8 DEF RightPlan

LEMMA FullyConnectedRight ==
  ASSUME NEW ins, LegalCall(ins), functor.kind = "fullyconnected"
  PROVE  RightPlan(PlanFor(ins))
<1> DEFINE p == PlanFor(ins)
           in == ins[1]
           out == <<in[1], 1, 1, ins[2][1]>>
           blocks == RoundUpDiv4(out[4])
           side == IF device.adreno THEN device.wave \div 4 ELSE 8
           gws == <<4, side, in[1] * blocks>>
           last == device.maxGroup \div (4 * side)
           lws == <<4, side, last, 0>>
           run == Job(gws, lws, <<1, 1, 1>>, <<>>)
<1>1. p = GpuFullyConnected(functor, ins, device) /\ device \in DeviceSet
  BY DEF PlanFor, PlanOf, LegalCall
<1> HIDE DEF p
<1>2. /\ p.runs = <<run>> /\ p.cover = "sums" /\ p.gws = "kept" /\ p.type = "IN_OUT_CHANNEL"
      /\ p.image = out /\ p.out = out
  BY <1>1 DEF GpuFullyConnected, Plan
<1>3. IsShape(out)
  BY <1>2, CallIs DEF p
<1>4. side \in Pos /\ 4 * side <= device.maxGroup
  BY <1>1, SideIs
<1> HIDE DEF side
<1>5. last \in Pos /\ last * (4 * side) <= device.maxGroup
  <2>1. 4 * side \in Pos /\ device.maxGroup \in Pos
    BY <1>1, <1>4, DevicesAssumption DEF Pos
  <2>2. PICK q, k \in Pos : q = 4 * side /\ k = device.maxGroup
    BY <2>1
  <2>3. k \div q \in Pos /\ (k \div q) * q <= k
    BY <1>4, <2>2, Fits DEF Pos
  <2> QED BY <2>2, <2>3
<1> HIDE DEF last
<1>6. run.gws = <<4, side, out[1] * RoundUpDiv4(out[4])>> /\ run.lws = lws
  BY DEF Job
<1>7. Len(out) = 4 /\ out[2] = 1 /\ out[3] = 1
  OBVIOUS
<1> HIDE DEF run, out
<1> QED BY <1>1, <1>2, <1>3, <1>4, <1>5, <1>6, <1>7, RightSums DEF p

LEMMA ReduceMeanRight ==
  ASSUME NEW ins, LegalCall(ins), functor.kind = "reducemean"
  PROVE  RightPlan(PlanFor(ins))
<1> DEFINE p == PlanFor(ins)
           in == ins[1]
           out == <<in[1], 1, 1, in[4]>>
           side == IF device.adreno THEN device.wave \div 4 ELSE 16
           gws == <<4, side, in[1] * RoundUpDiv4(in[4])>>
           run == Job(gws, <<4, side, 1, 0>>, <<1, 1, 1>>, <<>>)
<1>1. p = GpuReduceMean(functor, ins, device) /\ device \in DeviceSet
  BY DEF PlanFor, PlanOf, LegalCall
<1> HIDE DEF p
<1>2. /\ p.runs = <<run>> /\ p.cover = "sums" /\ p.gws = "now" /\ p.type = "IN_OUT_CHANNEL"
      /\ p.image = out /\ p.out = out
  BY <1>1 DEF GpuReduceMean, Plan
<1>3. IsShape(out)
  BY <1>2, CallIs DEF p
<1>4. side \in Pos /\ 4 * side <= device.maxGroup
  BY <1>1, SideIs
<1> HIDE DEF side
<1>5. 1 \in Pos /\ 1 * (4 * side) <= device.maxGroup
  BY <1>4 DEF Pos
<1>6. run.gws = <<4, side, out[1] * RoundUpDiv4(out[4])>> /\ run.lws = <<4, side, 1, 0>>
  BY DEF Job
<1>7. Len(out) = 4 /\ out[2] = 1 /\ out[3] = 1
  OBVIOUS
<1> HIDE DEF run, out
<1> QED BY <1>1, <1>2, <1>3, <1>4, <1>5, <1>6, <1>7, RightSums DEF p

-----------------------------------------------------------------------------
(* Between buffers and images.                                             *)
LEMMA FormattedIs ==
  ASSUME NEW s, IsShape(s), NEW type \in BufferType, NEW t, t = FormatBufferShape(s, type),
         Len(t) = Rank(type)
  PROVE  IsShape(t)
<1>1. CASE type = "IN_OUT_CHANNEL"
  <2>1. Rank(type) = 4
    BY <1>1 DEF Rank
  <2>2. CASE Len(s) = 4
    <3>1. t = s
      BY <1>1, <2>2 DEF FormatBufferShape
    <3> QED BY <3>1
  <2>3. CASE Len(s) = 2
    <3>1. t = <<s[1], 1, 1, s[2]>>
      BY <1>1, <2>3 DEF FormatBufferShape
    <3>2. s[1] \in Pos /\ s[2] \in Pos /\ 1 \in Pos
      BY <2>3 DEF IsShape, Pos
    <3> QED BY <3>1, <3>2, MadeShape
  <2>4. CASE Len(s) \notin {2, 4}
    <3>1. t = <<>>
      BY <1>1, <2>4 DEF FormatBufferShape, Bad
    <3> QED BY <3>1, <2>1
  <2> QED BY <2>2, <2>3, <2>4
<1>2. CASE type \in {"IN_OUT_HEIGHT", "IN_OUT_WIDTH"}
  <2>1. Rank(type) = 4
    BY <1>2 DEF Rank
  <2>2. CASE Len(s) = 3
    <3>1. t = s \o <<1>>
      BY <1>2, <2>2 DEF FormatBufferShape
    <3>2. s \in Seq(Nat \ {0}) /\ <<1>> \in Seq(Nat \ {0})
      BY DEF IsShape
    <3>3. s \o <<1>> \in Seq(Nat \ {0})
      BY <3>2, ConcatProperties
    <3> QED BY <3>1, <3>3 DEF IsShape
  <2>3. CASE Len(s) = 4
    <3>1. t = s
      BY <1>2, <2>3 DEF FormatBufferShape
    <3> QED BY <3>1
  <2>4. CASE Len(s) \notin {3, 4}
    <3>1. t = <<>>
      BY <1>2, <2>4 DEF FormatBufferShape, Bad
    <3> QED BY <3>1, <2>1
  <2> QED BY <2>2, <2>3, <2>4
<1>3. CASE type \notin {"IN_OUT_CHANNEL", "IN_OUT_HEIGHT", "IN_OUT_WIDTH"}
  <2>1. t = s
    BY <1>3 DEF FormatBufferShape
  <2> QED BY <2>1
<1> QED BY <1>1, <1>2, <1>3

LEMMA ImagesAre ==
  ASSUME NEW t, IsShape(t), NEW type \in BufferType, Len(t) = Rank(type), NEW b \in Nat,
         NEW image, image = CalImage2DShape(t, type, b)
  PROVE  /\ image[1] \in Pos /\ image[2] \in Pos
         /\ type = "WINOGRAD_FILTER" => \E n \in Pos : image[2] = n * (b + 2) * (b + 2)
<1>1. \A x, y \in Pos : x * y \in Pos
  BY DEF Pos
<1>2. 1 \in Pos /\ b + 2 \in Pos
  BY DEF Pos
<1>3. \A x \in Pos : RoundUpDiv4(x) \in Pos
  BY Quarter DEF Pos
<1>4. CASE type = "ARGUMENT"
  <2>1. t[1] \in Pos
    <3>1. Len(t) = 1
      BY <1>4 DEF Rank
    <3>2. t \in Seq(Pos)
      BY DEF IsShape, Pos
    <3> QED BY <3>1, <3>2
  <2>2. image = <<RoundUpDiv4(t[1]), 1>>
    BY <1>4 DEF CalImage2DShape, CalArgImageShape
  <2> QED BY <1>2, <1>3, <1>4, <2>1, <2>2
<1>5. CASE type # "ARGUMENT"
  <2>1. Len(t) = 4 /\ t[1] \in Pos /\ t[2] \in Pos /\ t[3] \in Pos /\ t[4] \in Pos
    <3>1. Len(t) = 4
      BY <1>5 DEF Rank
    <3> QED BY <3>1, Shape4
  <2>2. PICK x, y, z, w \in Pos : x = t[1] /\ y = t[2] /\ z = t[3] /\ w = t[4]
    BY <2>1
  <2>3. PICK qx, qy, qz, qw \in Pos : /\ qx = RoundUpDiv4(x) /\ qy = RoundUpDiv4(y)
                                      /\ qz = RoundUpDiv4(z) /\ qw = RoundUpDiv4(w)
    BY <1>3
  <2>4. \/ image = <<y, z * w * qx>> /\ type # "WINOGRAD_FILTER"
        \/ image = <<x * z * w, qy>> /\ type # "WINOGRAD_FILTER"
        \/ image = <<qw * z, x * y>> /\ type # "WINOGRAD_FILTER"
        \/ image = <<z * w, x * qy>> /\ type # "WINOGRAD_FILTER"
        \/ image = <<qz * w, x * y>> /\ type # "WINOGRAD_FILTER"
        \/ image = <<qy, x * (b + 2) * (b + 2)>>
        \/ image = <<y * z * w, qx>> /\ type # "WINOGRAD_FILTER"
        \/ image = <<qy * z * w, x>> /\ type # "WINOGRAD_FILTER"
    <3>1. Len(t) = Rank(type)
      OBVIOUS
    <3>2. CASE type = "CONV2D_FILTER"
      BY <2>2, <2>3, <3>1, <3>2 DEF CalImage2DShape, CalConv2dFilterImageShape
    <3>3. CASE type = "DW_CONV2D_FILTER"
      BY <2>2, <2>3, <3>1, <3>3 DEF CalImage2DShape, CalDepthwiseConv2dFilterImageShape
    <3>4. CASE type = "IN_OUT_CHANNEL"
      BY <2>2, <2>3, <3>1, <3>4 DEF CalImage2DShape, CalInOutputImageShape
    <3>5. CASE type = "IN_OUT_HEIGHT"
      BY <2>2, <2>3, <3>1, <3>5 DEF CalImage2DShape, CalInOutHeightImageShape
    <3>6. CASE type = "IN_OUT_WIDTH"
      BY <2>2, <2>3, <3>1, <3>6 DEF CalImage2DShape, CalInOutWidthImageShape
    <3>7. CASE type = "WINOGRAD_FILTER"
      BY <2>2, <2>3, <3>1, <3>7 DEF CalImage2DShape, CalWinogradFilterImageShape
    <3>8. CASE type = "WEIGHT_HEIGHT"
      BY <2>2, <2>3, <3>1, <3>8 DEF CalImage2DShape, CalWeightHeightImageShape
    <3>9. CASE type = "WEIGHT_WIDTH"
      BY <2>2, <2>3, <3>1, <3>9 DEF CalImage2DShape, CalWeightWidthImageShape
    <3> QED BY <1>5, <3>2, <3>3, <3>4, <3>5, <3>6, <3>7, <3>8, <3>9 DEF BufferType
  <2>5. /\ z * w * qx \in Pos /\ x * z * w \in Pos /\ qw * z \in Pos /\ x * y \in Pos /\ z * w \in Pos
        /\ x * qy \in Pos /\ qz * w \in Pos /\ x * (b + 2) * (b + 2) \in Pos /\ y * z * w \in Pos
        /\ qy * z * w \in Pos
    <3>1. z * w \in Pos /\ x * z \in Pos /\ y * z \in Pos /\ qy * z \in Pos /\ x * (b + 2) \in Pos
      BY <1>1, <1>2
    <3>2. z * w * qx \in Pos /\ x * z * w \in Pos /\ y * z * w \in Pos /\ qy * z * w \in Pos
      BY <1>1, <3>1
    <3>3. x * (b + 2) * (b + 2) \in Pos
      BY <1>1, <1>2, <3>1
    <3>4. qw * z \in Pos /\ x * y \in Pos /\ x * qy \in Pos /\ qz * w \in Pos
      BY <1>1
    <3> QED BY <3>1, <3>2, <3>3, <3>4
  <2>6. PICK a1, a2, a3, a4, a5, a6, a7, a8, a9, a10 \in Pos :
          /\ a1 = z * w * qx /\ a2 = x * z * w /\ a3 = qw * z /\ a4 = x * y /\ a5 = z * w
          /\ a6 = x * qy /\ a7 = qz * w /\ a8 = x * (b + 2) * (b + 2) /\ a9 = y * z * w
          /\ a10 = qy * z * w
    BY <2>5
  <2>7. image[1] \in Pos /\ image[2] \in Pos /\ (type = "WINOGRAD_FILTER" => image[2] = a8)
    BY <2>4, <2>6
  <2> QED BY <2>6, <2>7
<1> QED BY <1>4, <1>5

LEMMA Associated ==
  ASSUME NEW a \in Int, NEW b \in Int
  PROVE  a * b * b = a * (b * b)
OBVIOUS

LEMMA RightTransfer ==
  ASSUME NEW ins, LegalCall(ins), functor.kind \in {"buffertoimage", "imagetobuffer"},
         NEW p, NEW x, NEW out, x = Transfer(functor, ins[1], out, device), p.legal,
         p = x \/ p = [x EXCEPT !.resize = "buffer"]
  PROVE  RightPlan(p)
<1> DEFINE type == functor.type
           b == functor.block
           formatted == FormatBufferShape(ins[1], type)
           image == CalImage2DShape(formatted, type, b)
           area == IF type = "WINOGRAD_FILTER" THEN (b + 2) * (b + 2) ELSE 1
           lws == <<16, device.maxGroup \div 16, 0>>
           run == Job(<<image[1], image[2] \div area>>, lws, <<1, area>>,
                      TransferArgs(type, ins[1], formatted))
<1>1. image # Bad
  BY DEF Transfer
<1>2. /\ p.runs = <<run>> /\ p.cover = "image" /\ p.gws = "now" /\ p.type = type
      /\ p.image = formatted /\ p.block = b
  BY <1>1 DEF Transfer, Plan
<1>3. IsShape(ins[1]) /\ type \in BufferType /\ b \in Nat /\ device \in DeviceSet
  BY CallIs DEF AreInputs, LegalCall
<1>4. IsShape(formatted) /\ Len(formatted) = Rank(type)
  <2>1. Len(formatted) = Rank(type)
    BY <1>1 DEF CalImage2DShape
  <2> QED BY <1>3, <2>1, FormattedIs
<1> HIDE DEF formatted, b, type
<1>5. /\ image[1] \in Pos /\ image[2] \in Pos
      /\ type = "WINOGRAD_FILTER" => \E n \in Pos : image[2] = n * (b + 2) * (b + 2)
  BY <1>3, <1>4, ImagesAre
<1> HIDE DEF image
<1>6. Tight(image[2] \div area, area, image[2], 1)
  <2>1. PICK i \in Pos : i = image[2]
    BY <1>5
  <2>2. CASE type = "WINOGRAD_FILTER"
    <3>1. PICK n \in Pos : i = n * (b + 2) * (b + 2)
      BY <1>5, <2>1, <2>2
    <3>2. PICK e \in Pos : e = (b + 2) * (b + 2)
      BY <1>3 DEF Pos
    <3>3. i = n * e
      <4>1. b + 2 \in Int /\ n \in Int
        BY <1>3 DEF Pos
      <4>2. n * (b + 2) * (b + 2) = n * ((b + 2) * (b + 2))
        BY <4>1, Associated
      <4> QED BY <3>1, <3>2, <4>2
    <3>4. i \div e = n
      <4>1. i \in Nat /\ n \in Nat
        BY DEF Pos
      <4>2. PICK k \in Nat : k = i \div e /\ k * e <= i /\ i < k * e + e
        BY <4>1, Division
      <4>3. n * e <= i /\ i < n * e + e
        BY <3>3, <4>1 DEF Pos
      <4>4. k = n
        BY <4>1, <4>2, <4>3, OneBlock
      <4> QED BY <4>2, <4>4
    <3>5. Tight(n, e, n * e, 1)
      BY Filled
    <3> QED BY <2>1, <2>2, <3>2, <3>3, <3>4, <3>5
  <2>3. CASE type # "WINOGRAD_FILTER"
    <3>1. i \div 1 = i
      BY DEF Pos
    <3>2. Tight(i, 1, i, 1)
      BY TightOne DEF Pos
    <3> QED BY <2>1, <2>3, <3>1, <3>2
  <2> QED BY <2>2, <2>3
<1>7. Tight(image[1], 1, image[1], 1)
  BY <1>5, TightOne DEF Pos
<1>8. \A j \in 1..2 : Tight(run.gws[j], run.per[j], CalImage2DShape(p.image, p.type, p.block)[j], 1)
  <2>1. CalImage2DShape(p.image, p.type, p.block) = image
    BY <1>2 DEF image
  <2>2. run.gws = <<image[1], image[2] \div area>> /\ run.per = <<1, area>>
    BY DEF Job
  <2> HIDE DEF run
  <2>3. /\ Tight(run.gws[1], run.per[1], image[1], 1) /\ Tight(run.gws[2], run.per[2], image[2], 1)
    BY <1>6, <1>7, <2>2
  <2>4. \A j \in 1..2 : j = 1 \/ j = 2
    OBVIOUS
  <2> QED BY <2>1, <2>3, <2>4, Zenon
<1>9. GroupFits(run)
  <2>1. run.lws = lws
    BY DEF Job
  <2>2. device.maxGroup \in Pos /\ 16 <= device.maxGroup /\ 16 \in Pos
    BY <1>3, DevicesAssumption DEF Pos
  <2>3. PICK q : q = device.maxGroup \div 16
    OBVIOUS
  <2>4. q \in Pos /\ q * 16 <= device.maxGroup
    BY <2>2, <2>3, Fits DEF Pos
  <2>5. 16 * q = q * 16 /\ 16 * q \in Pos /\ q \in Nat /\ 16 \in Nat
    BY <2>4 DEF Pos
  <2>6. Runs(lws, 2, device)
    <3>1. /\ Elements(Group(<<16, q, 0>>)) = 16 * q /\ <<16, q, 0>> \in [1..3 -> Nat]
          /\ Len(<<16, q, 0>>) = 3
      BY <2>5, GroupOfTwo
    <3>2. 16 * q \in 1..device.maxGroup
      BY <2>2, <2>4, <2>5 DEF Pos
    <3> QED BY <2>2, <2>3, <3>1, <3>2 DEF Runs
  <2> HIDE DEF run, lws
  <2> QED BY <2>1, <2>6, RunsFit
<1> HIDE DEF run
<1> QED BY <1>2, <1>8, <1>9, RightImage

LEMMA TransferRight ==
  ASSUME NEW ins, LegalCall(ins), functor.kind \in {"buffertoimage", "imagetobuffer"}
  PROVE  RightPlan(PlanFor(ins))
<1> DEFINE p == PlanFor(ins)
<1>1. p.legal
  BY DEF LegalCall
<1>2. \E out : \/ p = Transfer(functor, ins[1], out, device)
               \/ p = [Transfer(functor, ins[1], out, device) EXCEPT !.resize = "buffer"]
  <2>1. CASE functor.kind = "buffertoimage"
    BY <2>1 DEF PlanFor, PlanOf, BufferToImage
  <2>2. CASE functor.kind = "imagetobuffer"
    <3>1. p = ImageToBuffer(functor, ins, device)
      BY <2>2 DEF PlanFor, PlanOf
    <3> QED BY <1>1, <3>1 DEF ImageToBuffer
  <2> QED BY <2>1, <2>2
<1> HIDE DEF p
<1>3. RightPlan(p)
  BY <1>1, <1>2, RightTransfer
<1> QED BY <1>3 DEF p

-----------------------------------------------------------------------------
(* Every plan is right.                                                    *)
LEMMA PlansRight ==
  ASSUME NEW ins, LegalCall(ins), functor.kind \in Kinds, launch.ins = ins
  PROVE  RightPlan(PlanFor(ins))
<1>1. CASE functor.kind \in PerPixel
  BY <1>1, PerPixelRight, SoftmaxRight, AddNRight, EltwiseRight DEF PerPixel
<1>2. CASE functor.kind \in Moving
  BY <1>2, PadRight, ResizeRight, ShuffleRight, Concat2Right, ConcatNRight, SliceRight, CropRight,
     DepthToSpaceRight, SpaceToBatchRight DEF Moving
<1>3. CASE functor.kind \in Window
  BY <1>3, ConvRight, DepthwiseRight, PoolingRight, DeconvRight, DepthwiseDeconvRight DEF Window
<1>4. CASE functor.kind \in Product
  BY <1>4, MatMulRight, FullyConnectedRight, ReduceMeanRight, WinogradRight, WinogradInverseRight
  DEF Product
<1>5. CASE functor.kind \in TransferKinds
  BY <1>5, TransferRight DEF TransferKinds
<1> QED BY <1>1, <1>2, <1>3, <1>4, <1>5 DEF Kinds

-----------------------------------------------------------------------------
(* What was enqueued last is the plan's for those tensors, though it may   *)
(* have the options, arguments and number of items of another call.        *)
LaunchIs ==
  launch # NoLaunch =>
    LET p == PlanFor(launch.ins) IN
    /\ functor.kind \in Kinds /\ launch.ins \in functor.calls /\ p.legal
    /\ output.shape = p.out
    /\ \E options, args, kept : launch = Enqueued(p, launch.ins, options, args, kept, p.out)

LEMMA CallLaunches ==
  ASSUME Settled, NEW kinds \in SUBSET Kinds, CallOne(kinds)
  PROVE  LaunchIs' /\ device' = device
<1>1. PICK ins \in functor.calls : Call(ins)
  BY DEF CallOne
<1>2. functor.kind \in Kinds /\ result # "fatal" /\ functor' = functor /\ device' = device
  BY <1>1 DEF CallOne, Call
<1> DEFINE p == PlanFor(ins)
<1>3. PICK g1 \in Grant, g2 \in Grant :
        LET st == Called(Now, p, ins, g1, g2) IN
        /\ kernel' = st.kernel /\ seen' = st.seen /\ output' = st.output
        /\ launch' = st.launch /\ result' = st.result
  BY <1>1, Zenon DEF Call
<1> DEFINE t == Called(Now, p, ins, g1, g2)
<1>4. g1 \in BOOLEAN /\ g2 \in BOOLEAN
  BY DEF Grant
<1>5. t.launch # NoLaunch =>
        /\ t.launch.ins = ins /\ p.legal /\ t.output.shape = p.out
        /\ \E options, args, kept : t.launch = Enqueued(p, ins, options, args, kept, p.out)
  BY <1>2, <1>4, CallRight
<1>6. launch' = t.launch /\ output' = t.output
  BY <1>3
<1> HIDE DEF t
<1>7. LaunchIs'
  <2> SUFFICES ASSUME launch' # NoLaunch
               PROVE  LET q == PlanFor(launch.ins)' IN
                      /\ functor'.kind \in Kinds /\ launch'.ins \in functor'.calls /\ q.legal
                      /\ output'.shape = q.out
                      /\ (\E options, args, kept :
                            launch = Enqueued(PlanFor(launch.ins), launch.ins, options, args, kept,
                                              PlanFor(launch.ins).out))'
    BY DEF LaunchIs, NoLaunch
  <2>1. launch'.ins = ins /\ p.legal /\ output'.shape = p.out
    BY <1>5, <1>6
  <2>2. PICK options, args, kept : launch' = Enqueued(p, ins, options, args, kept, p.out)
    BY <1>5, <1>6
  <2>3. PlanFor(launch.ins)' = p
    BY <1>2, <2>1, PlanSame
  <2> HIDE DEF p
  <2>4. launch' = Enqueued(PlanFor(launch.ins), launch.ins, options, args, kept, PlanFor(launch.ins).out)'
    BY <1>2, <2>1, <2>2, <2>3 DEF Enqueued, Job1
  <2> QED BY <1>2, <2>1, <2>3, <2>4
<1> QED BY <1>2, <1>7

LEMMA StepLaunches ==
  ASSUME Settled, LaunchIs, [Next]_vars
  PROVE  LaunchIs' /\ device' = device
<1>1. CASE CallPerPixel
  BY <1>1, CallLaunches DEF CallPerPixel, Kinds, PerPixel
<1>2. CASE CallMoving
  BY <1>2, CallLaunches DEF CallMoving, Kinds, Moving
<1>3. CASE CallWindow
  BY <1>3, CallLaunches DEF CallWindow, Kinds, Window
<1>4. CASE CallProduct
  BY <1>4, CallLaunches DEF CallProduct, Kinds, Product
<1>5. CASE CallTransfer
  BY <1>5, CallLaunches DEF CallTransfer, Kinds, TransferKinds
<1>6. CASE UNCHANGED vars
  <2>1. functor' = functor /\ device' = device /\ output' = output /\ launch' = launch
    BY <1>6 DEF vars
  <2>2. PlanFor(launch.ins)' = PlanFor(launch.ins)
    BY <2>1, PlanSame
  <2> QED BY <2>1, <2>2 DEF LaunchIs, NoLaunch, Enqueued, Job1
<1> QED BY <1>1, <1>2, <1>3, <1>4, <1>5, <1>6 DEF Next, Ended

(* Runs that are the plan's in all that matters here.                      *)
LEMMA CoveredAlike ==
  ASSUME NEW p, NEW runs, RightPlan(p), DOMAIN runs = DOMAIN p.runs,
         p.cover = "joined" => Len(runs) = Len(p.runs),
         \A i \in DOMAIN runs : /\ runs[i].gws = p.runs[i].gws /\ runs[i].per = p.runs[i].per
                                /\ runs[i].apart = p.runs[i].apart /\ runs[i].lws = p.runs[i].lws
  PROVE  Covered(p, runs, p.out)
<1> DEFINE image == CalImage2DShape(p.image, p.type, p.block)
<1>1. Covered(p, p.runs, p.out) /\ (p.cover \notin {"each", "joined"} => DOMAIN p.runs = {1})
  BY DEF RightPlan
<1>2. CASE p.cover = "pixels"
  BY <1>1, <1>2 DEF Covered, PixelsCovered
<1>3. CASE p.cover = "image"
  BY <1>1, <1>3 DEF Covered
<1>4. CASE p.cover = "each"
  BY <1>1, <1>4 DEF Covered, PixelsCovered
<1>5. CASE p.cover = "joined"
  <2>1. PICK n \in Nat : n = Len(p.runs) /\ DOMAIN p.runs = 1..n
    BY <1>5 DEF RightPlan
  <2>2. [i \in 1..n |-> runs[i].gws[1]] = [i \in 1..n |-> p.runs[i].gws[1]]
    BY <2>1
  <2>3. Tight(Sum([i \in 1..n |-> p.runs[i].gws[1]]), 1, Pixels(p.out)[1], 1)
    BY <1>1, <1>5, <2>1 DEF Covered
  <2>4. Tight(Sum([i \in 1..n |-> runs[i].gws[1]]), 1, Pixels(p.out)[1], 1)
    BY <2>2, <2>3
  <2>5. Len(runs) = n
    BY <1>5, <2>1
  <2> QED BY <1>5, <2>4, <2>5 DEF Covered
<1>6. CASE p.cover = "moved"
  BY <1>1, <1>6 DEF Covered
<1>7. CASE p.cover = "sums"
  BY <1>1, <1>7 DEF Covered
<1>8. CASE p.cover = "tiles"
  BY <1>1, <1>8 DEF Covered
<1> QED BY <1>2, <1>3, <1>4, <1>5, <1>6, <1>7, <1>8 DEF RightPlan

LEMMA LaunchCovers ==
  ASSUME Settled, LaunchedAsFresh, LaunchIs, device \in DeviceSet
  PROVE  LaunchCoversOutput
<1> SUFFICES ASSUME launch # NoLaunch
             PROVE  /\ Covered(PlanFor(launch.ins), launch.runs, output.shape) \/ OtherInputMatters
                    /\ \A i \in DOMAIN launch.runs : GroupFits(launch.runs[i])
  BY DEF LaunchCoversOutput
<1> DEFINE ins == launch.ins
           p == PlanFor(ins)
           R == launch.runs
<1>1. /\ functor \in FunctorSet /\ functor.kind \in Kinds /\ ins \in functor.calls /\ p.legal
      /\ output.shape = p.out
      /\ \E options, args, kept : launch = Enqueued(p, ins, options, args, kept, p.out)
  BY DEF LaunchIs, Settled
<1>2. RightPlan(p) /\ GoodPlan(p, ins)
  BY <1>1, PlansRight, GoodCall DEF LegalCall
<1>3. PICK options, args, kept : launch = Enqueued(p, ins, options, args, kept, p.out)
  BY <1>1
<1>4. launch = Fresh(ins) \/ OtherInputMatters
  BY DEF LaunchedAsFresh
<1> HIDE DEF p
<1>5. R = [i \in DOMAIN p.runs |-> Job1(p, p.runs[i], options, args, kept, p.out)]
  BY <1>3 DEF Enqueued
<1>6. /\ DOMAIN R = DOMAIN p.runs
      /\ \A i \in DOMAIN R : /\ R[i].per = p.runs[i].per /\ R[i].apart = p.runs[i].apart
                             /\ R[i].lws = p.runs[i].lws
  <2> HIDE DEF R
  <2> QED BY <1>5 DEF Job1
<1>7. \A i \in DOMAIN R : GroupFits(R[i])
  BY <1>2, <1>6 DEF RightPlan, GroupFits
<1>8. ASSUME launch = Fresh(ins) PROVE Covered(p, R, p.out)
  <2>1. PICK some, shape :
          /\ p.gws = "output" => shape = p.out
          /\ p.gws = "kept" => some = p.runs[1].gws
          /\ Fresh(ins) = Enqueued(p, ins, p.options, Items(p) \o p.args, some, shape)
    BY <1>2, FreshIs DEF p
  <2>2. R = [i \in DOMAIN p.runs |-> Job1(p, p.runs[i], p.options, Items(p) \o p.args, some, shape)]
    BY <1>8, <2>1 DEF Enqueued
  <2>3. ASSUME NEW i \in DOMAIN R PROVE R[i].gws = p.runs[i].gws
    <3>1. i \in DOMAIN p.runs /\ R[i] = Job1(p, p.runs[i], p.options, Items(p) \o p.args, some, shape)
      BY <1>6, <2>2
    <3>2. CASE p.gws = "now"
      BY <3>1, <3>2 DEF Job1
    <3>3. CASE p.gws = "output"
      BY <1>2, <2>1, <3>1, <3>3 DEF Job1, RightPlan
    <3>4. CASE p.gws = "kept"
      BY <1>2, <2>1, <3>1, <3>4 DEF Job1, RightPlan
    <3> QED BY <1>2, <3>2, <3>3, <3>4 DEF GoodPlan
  <2>4. p.cover = "joined" => Len(R) = Len(p.runs)
    <3> SUFFICES ASSUME p.cover = "joined" PROVE Len(R) = Len(p.runs)
      OBVIOUS
    <3>1. PICK n \in Nat : n = Len(p.runs) /\ DOMAIN p.runs = 1..n
      BY <1>2 DEF RightPlan
    <3>2. R = [i \in 1..n |-> Job1(p, p.runs[i], p.options, Items(p) \o p.args, some, shape)]
      BY <2>2, <3>1
    <3> HIDE DEF R
    <3> QED BY <3>1, <3>2
  <2> HIDE DEF R
  <2> QED BY <1>2, <1>6, <2>3, <2>4, CoveredAlike DEF RightPlan
<1> QED BY <1>1, <1>4, <1>7, <1>8 DEF p

(* What an OpenCL functor enqueues makes up the whole image of its output  *)
(* in groups that the device can run: for all 26 functors of               *)
(* mace/kernels/opencl (their gws, and the functions LocalWS), any shapes  *)
(* a net can give them (ShapesAssumption), any device that runs groups of  *)
(* 64 (DevicesAssumption), after any calls and any memory refused.  In     *)
(* concat, crop and eltwise only where the first inputs decide.            *)
THEOREM LaunchesCover == Spec => []LaunchCoversOutput
<1> DEFINE Inv == Settled /\ LaunchedAsFresh /\ LaunchIs /\ device \in DeviceSet
<1>1. Init => Inv
  <2> SUFFICES ASSUME Init PROVE Inv
    OBVIOUS
  <2>1. launch = NoLaunch /\ device \in DeviceSet
    BY DEF Init
  <2> QED BY <2>1, InitSettled DEF LaunchIs
<1>2. Inv /\ [Next]_vars => Inv'
  <2> SUFFICES ASSUME Inv, [Next]_vars PROVE Inv'
    OBVIOUS
  <2>1. Settled' /\ LaunchedAsFresh'
    BY StepSettled
  <2>2. LaunchIs' /\ device' = device
    BY StepLaunches
  <2> QED BY <2>1, <2>2
<1>3. Inv => LaunchCoversOutput
  BY LaunchCovers
<1> QED BY <1>1, <1>2, <1>3, PTL DEF Spec
=============================================================================
