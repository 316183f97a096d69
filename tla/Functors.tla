-------------------------------- MODULE Functors --------------------------------
(***************************************************************************)
(* An OpenCL functor over its life: built by its first call, given         *)
(* arguments when the shape of its input changes, enqueued by every call.  *)
(*                                                                         *)
(* A call resizes the output, builds the kernel if there is none, compares *)
(* the input's shape with the one of the last call, sets the arguments if  *)
(* they differ, and enqueues.  Memory may be refused on the way: the call  *)
(* then returns a status, and the functor stays as far as it had come.     *)
(***************************************************************************)
EXTENDS FunctorPlans

CONSTANTS
  FunctorSet,   \* records [kind, calls, the arguments of the operator]
  DeviceSet,
  Faults        \* {"alloc"} if memory may be refused

(* What functors are called with.  The filter of a convolution and the     *)
(* weights of a fully connected layer are constants of the net.  Blocks    *)
(* are larger than one (the constructor of SpaceToBatchFunctorBase checks  *)
(* it); that a batch to be put back is a multiple of its block the code    *)
(* does not check: the kernel could keep the number of items of another    *)
(* batch that is put back into a picture of the same size.                 *)
HasFilter == {"conv2d", "depthwise", "deconv2d", "depthwisedeconv", "fullyconnected"}

IsBatched(f) ==
  /\ f.block[1] \in Nat \ {0, 1} /\ f.block[2] \in Nat \ {0, 1}
  /\ f.paddings \in [1..4 -> Nat]
  /\ \A ins \in f.calls : /\ ins[1] \in [1..4 -> Nat]
                          /\ f.b2s => ins[1][1] % (f.block[1] * f.block[2]) = 0

ASSUME FunctorsAssumption ==
  \A f \in FunctorSet :
    /\ \A ins \in f.calls : Len(ins) \in Nat \ {0} /\ \A i \in 1..Len(ins) : ins[i] # <<>>
    /\ f.kind \in HasFilter => \A i, j \in f.calls : i[2] = j[2]
    /\ f.kind = "spacetobatch" => f.b2s \in BOOLEAN /\ IsBatched(f)

(* The shapes a net calls its functors with.  Most functors look at four   *)
(* dimensions, and no net is made in which an output has no elements; the  *)
(* functors check neither.  The channels are shuffled in whole groups.     *)
IsShape(s) == s \in Seq(Nat \ {0})

OfAnyRank == {"softmax", "biasadd", "eltwise", "matmul", "winogradinverse", "buffertoimage", "imagetobuffer"}

BufferType == {"CONV2D_FILTER", "DW_CONV2D_FILTER", "IN_OUT_CHANNEL", "ARGUMENT", "IN_OUT_HEIGHT",
               "IN_OUT_WIDTH", "WINOGRAD_FILTER", "WEIGHT_HEIGHT", "WEIGHT_WIDTH"}

AreInputs(f, ins) ==
  /\ ins \in Seq(Seq(Nat \ {0}))
  /\ f.kind = "concat" => \A i \in 1..Len(ins) : Len(ins[i]) = 4
  /\ f.kind \notin OfAnyRank => Len(ins[1]) = 4
  /\ f.kind \in HasFilter \cup {"matmul"} => Len(ins) >= 2
  /\ f.kind \in HasFilter => Len(ins[2]) = 4
  /\ f.kind = "matmul" => Len(ins[1]) >= 2 /\ Len(ins[2]) = Len(ins[1])
  /\ f.kind = "winogradinverse" => Len(ins[1]) = 3
  /\ f.kind = "eltwise" /\ Len(ins) = 1 => Len(ins[1]) = 4
  /\ f.kind = "shuffle" => f.groups \in Nat \ {0} /\ ins[1][4] % f.groups = 0
  /\ f.kind \in {"deconv2d", "depthwisedeconv"} => f.strides[1] \in Nat
  /\ f.kind = "depthtospace" => f.d2s \in BOOLEAN /\ f.block \in Nat \ {0}
  /\ f.kind \in {"buffertoimage", "imagetobuffer"} => f.type \in BufferType /\ f.block \in Nat

ASSUME ShapesAssumption ==
  \A f \in FunctorSet : \A ins \in f.calls, d \in DeviceSet :
    LET p == PlanOf(f, ins, d) IN
    /\ AreInputs(f, ins)
    /\ p.legal => IsShape(p.out)

(* Groups of 64 are taken for granted where a size is not looked up, and   *)
(* on Adreno that a wave is part of a group and has four items at least.   *)
ASSUME DevicesAssumption ==
  \A d \in DeviceSet :
    /\ d.maxGroup \in Nat /\ d.maxGroup >= 64
    /\ d.base \in Nat /\ d.cache \in Nat /\ d.units \in Nat \ {0}
    /\ d.adreno \in BOOLEAN /\ (d.adreno => d.wave \in 4..d.maxGroup)

VARIABLES
  functor,   \* which one it is
  device,
  kernel,    \* built with which options, arguments and number of items
  seen,      \* the shape compared
  output,    \* the tensor of the result
  launch,    \* what the last call enqueued, and for which tensors
  result     \* of the last call: "ok", "oom" or "fatal", the process has ended

vars == <<functor, device, kernel, seen, output, launch, result>>

Unbuilt  == [built |-> FALSE, options |-> {}, args |-> <<>>, gws |-> <<>>, error |-> "none", argsFor |-> <<>>]
NoOutput == [mem |-> "none", phys |-> <<0, 0>>, shape |-> <<>>]
Arena    == [mem |-> "live", phys |-> <<1000, 1000>>, shape |-> <<>>]   \* memory of the net's, large enough
NoLaunch == [ins |-> <<>>, runs |-> <<>>]

Init ==
  /\ functor \in FunctorSet
  /\ device \in DeviceSet
  /\ kernel = Unbuilt
  /\ seen = <<>>
  /\ output \in {NoOutput, Arena}
  /\ launch = NoLaunch
  /\ result = "ok"

Grant == IF "alloc" \in Faults THEN BOOLEAN ELSE {TRUE}

-----------------------------------------------------------------------------
(* The parts of a call, on the state as a record.                          *)
Ends(st, r) == [st EXCEPT !.result = r]

(* Tensor::ResizeImage: memory once refused is not asked for again.        *)
ResizeImage(st, p, got) ==
  LET i == CalImage2DShape(p.image, p.type, p.block)
      o == st.output
  IN  CASE o.mem = "none" ->
             [st EXCEPT !.output = [mem |-> IF got THEN "live" ELSE "hollow", phys |-> i, shape |-> p.out],
                        !.result = IF got THEN "ok" ELSE "oom"]
        [] o.mem # "none" /\ i[1] <= o.phys[1] /\ i[2] <= o.phys[2] ->
             [st EXCEPT !.output.shape = p.out]
        [] OTHER -> Ends(st, "fatal")

(* Tensor::Resize: a buffer is made larger.                                *)
ResizeBuffer(st, p, got) ==
  LET n == Elements(p.out)
      o == st.output
  IN  IF o.mem # "none" /\ n <= o.phys[1] THEN [st EXCEPT !.output.shape = p.out]
      ELSE [st EXCEPT !.output = [mem |-> IF got THEN "live" ELSE "hollow", phys |-> <<n, 1>>, shape |-> p.out],
                      !.result = IF got THEN "ok" ELSE "oom"]

ResizeFirst(st, p, got) ==
  CASE p.resize = "first"  -> ResizeImage(st, p, got)
    [] p.resize = "buffer" -> ResizeBuffer(st, p, got)
    [] p.resize = "inside" -> st

(* The kernel, and where it tells of reads out of range.                   *)
Build(st, p, got) ==
  LET k == st.kernel
      error == IF ~device.check THEN "none"
               ELSE IF p.rebuilt /\ k.error # "none" THEN k.error   \* the transfers keep theirs
               ELSE IF got THEN "live" ELSE "hollow"
      refused == device.check /\ ~got /\ (~p.rebuilt \/ k.error = "none")
  IN  IF st.result # "ok" \/ (k.built /\ ~p.rebuilt) THEN st
      ELSE IF refused THEN [st EXCEPT !.kernel.error = error, !.result = "oom"]
      ELSE [st EXCEPT !.kernel.built = TRUE, !.kernel.options = p.options, !.kernel.error = error,
                      !.kernel.gws = p.runs[1].gws]

(* Bug: the shape is noted before the output is resized.                   *)
BugArguments(st, p, ins, got) ==
  LET noted == [st EXCEPT !.seen = p.key]
      sized == IF p.resize = "inside" THEN ResizeImage(noted, p, got) ELSE noted
      items == IF device.nonUniform \/ p.always THEN <<>> ELSE p.runs[1].gws
  IN  IF st.result # "ok" \/ ~(p.always \/ st.seen # p.key) THEN st
      ELSE IF sized.result # "ok" THEN sized
      ELSE IF "hollow" \in {sized.output.mem, sized.kernel.error} THEN Ends(sized, "fatal")
      ELSE [sized EXCEPT !.kernel.args = items \o p.args, !.kernel.gws = p.runs[1].gws,
                         !.kernel.argsFor = ins]

(* Where all groups are of one size, the number of items is an argument.   *)
(* An image without memory ends the process.                               *)
Arguments(st, p, ins, got) ==
  LET sized == IF p.resize = "inside" THEN ResizeImage(st, p, got) ELSE st
      items == IF device.nonUniform \/ p.always THEN <<>> ELSE p.runs[1].gws
  IN  IF st.result # "ok" \/ ~(p.always \/ st.seen # p.key) THEN st
      ELSE IF sized.result # "ok" THEN sized
      ELSE IF "hollow" \in {sized.output.mem, sized.kernel.error} THEN Ends(sized, "fatal")
      ELSE [sized EXCEPT !.kernel.args = items \o p.args, !.kernel.gws = p.runs[1].gws,
                         !.kernel.argsFor = ins, !.seen = p.key]

Enqueue(st, p, ins) ==
  LET gws(job) == CASE p.gws = "now"    -> job.gws
                    [] p.gws = "output" -> Pixels(st.output.shape)
                    [] p.gws = "kept"   -> st.kernel.gws
      each(job) == IF device.nonUniform \/ ~p.always THEN job.each ELSE job.gws \o job.each
      run(job) == [options |-> st.kernel.options, args |-> st.kernel.args \o each(job),
                   gws |-> gws(job), lws |-> job.lws, per |-> job.per, apart |-> job.apart]
  IN  IF st.result # "ok" THEN st
      ELSE [st EXCEPT !.launch = [ins |-> ins, runs |-> [i \in DOMAIN p.runs |-> run(p.runs[i])]]]

Called(st, p, ins, g1, g2) ==
  IF ~p.legal THEN Ends(st, "fatal")
  ELSE Enqueue(Arguments(Build(ResizeFirst(st, p, g1), p, g2), p, ins, g1), p, ins)

-----------------------------------------------------------------------------
PlanFor(ins) == PlanOf(functor, ins, device)

Now == [kernel |-> kernel, seen |-> seen, output |-> output, launch |-> NoLaunch, result |-> "ok"]

Call(ins) ==
  /\ result # "fatal"
  /\ \E g1, g2 \in Grant :
       LET st == Called(Now, PlanFor(ins), ins, g1, g2) IN
       /\ kernel' = st.kernel
       /\ seen' = st.seen
       /\ output' = st.output
       /\ launch' = st.launch
       /\ result' = st.result
  /\ UNCHANGED <<functor, device>>

CallOne(kinds) == functor.kind \in kinds /\ \E ins \in functor.calls : Call(ins)

CallPerPixel  == CallOne({"activation", "batchnorm", "biasadd", "softmax", "addn", "eltwise"})
CallMoving    == CallOne({"pad", "resize", "shuffle", "concat", "slice", "crop", "depthtospace", "spacetobatch"})
CallWindow    == CallOne({"conv2d", "depthwise", "pooling", "deconv2d", "depthwisedeconv"})
CallProduct   == CallOne({"matmul", "fullyconnected", "reducemean", "winograd", "winogradinverse"})
CallTransfer  == CallOne({"buffertoimage", "imagetobuffer"})
Ended         == result = "fatal" /\ UNCHANGED vars

Next == CallPerPixel \/ CallMoving \/ CallWindow \/ CallProduct \/ CallTransfer \/ Ended

Spec == Init /\ [][Next]_vars

-----------------------------------------------------------------------------
(* What a functor made for this call alone enqueues.                       *)
Fresh(ins) ==
  Called([kernel |-> Unbuilt, seen |-> <<>>, output |-> NoOutput, launch |-> NoLaunch, result |-> "ok"],
         PlanFor(ins), ins, TRUE, TRUE).launch

(* Three kernels have a second input whose shape is not compared, and      *)
(* concat and eltwise choose their build options by their first inputs.    *)
OtherInputMatters ==
  /\ functor.kind \in {"concat", "crop", "eltwise"}
  /\ kernel.argsFor # launch.ins \/ kernel.options # PlanFor(launch.ins).options

(* However often a functor was called, with inputs of what shapes, and     *)
(* however often memory was refused in between, what it enqueues (options, *)
(* arguments, items, groups) is what a new one would: comparing one        *)
(* input's shape decides rightly whether the arguments are current         *)
(* (input_shape_ in every functor), except where another input's shape     *)
(* matters.                                                                *)
LaunchedAsFresh ==
  launch # NoLaunch => launch = Fresh(launch.ins) \/ OtherInputMatters

(* n items of so many pixels reach the extent, and none of them (of those  *)
(* that lie a distance apart) is in vain.                                  *)
Tight(n, per, extent, apart) == n * per >= extent /\ (n - apart) * per < extent

PixelsCovered(run, shape) ==
  \A i \in 1..3 : Tight(run.gws[i], run.per[i], Pixels(shape)[i], IF i = 2 THEN run.apart ELSE 1)

Covered(p, runs, shape) ==
  LET run == runs[1]
      image == CalImage2DShape(p.image, p.type, p.block)
      last == Len(runs)
  IN  CASE p.cover = "pixels" -> PixelsCovered(run, p.image)
        [] p.cover = "image"  -> \A i \in 1..2 : Tight(run.gws[i], run.per[i], image[i], 1)
        [] p.cover = "each"   -> \A i \in DOMAIN runs : PixelsCovered(runs[i], shape)
        [] p.cover = "joined" ->
             Tight(Sum([i \in 1..last |-> runs[i].gws[1]]), 1, Pixels(shape)[1], 1)
        [] p.cover = "moved"  -> Elements(run.gws) >= image[1] * image[2]
        [] p.cover = "sums"   -> run.gws[3] = image[1] * image[2] /\ \A i \in 1..2 : run.gws[i] = run.lws[i]
        [] p.cover = "tiles"  ->   \* where the operator's arguments are those of the picture
             LET tiles == shape[1] * RoundUpDiv(shape[2], p.block) * RoundUpDiv(shape[3], p.block)
             IN  launch.ins[1][3] = tiles => run.gws = <<tiles, Pixels(shape)[1]>>

(* A group has an item at least and not more than the device runs at once. *)
GroupFits(run) ==
  /\ \A i \in DOMAIN Group(run.lws) : run.lws[i] >= 1
  /\ Elements(Group(run.lws)) <= device.maxGroup

(* The items a functor enqueues, in blocks of pixels, rows, tiles or sums, *)
(* make up the whole image of the output as it is now, none are missing    *)
(* and none too many, in groups that the device can run.                   *)
LaunchCoversOutput ==
  launch # NoLaunch =>
    LET p == PlanFor(launch.ins) IN
    /\ Covered(p, launch.runs, output.shape) \/ OtherInputMatters
    /\ \A i \in DOMAIN launch.runs : GroupFits(launch.runs[i])
=============================================================================
