------------------------------- MODULE Engine -------------------------------
(***************************************************************************)
(* One MaceEngine on the CPU or the GPU: Init creates the tensors of a     *)
(* net, loads the weights, lays out the arena for intermediate results,    *)
(* runs the INIT operators once and builds the NORMAL net; Run copies the  *)
(* inputs in, runs the operators one after the other and copies the        *)
(* outputs out (libmace/mace.cc, core/workspace.cc, core/net.cc and the    *)
(* operators and kernels of ops/ and kernels/ named below).                *)
(*                                                                         *)
(* The engine is used by one thread.  The GPU's queue is in order and its  *)
(* results are read through blocking maps, so that a kernel's effect is    *)
(* shown when it is enqueued.                                              *)
(***************************************************************************)
EXTENDS Tensors, FiniteSets, SequencesExt

CONSTANTS
  Nets,      \* the nets a model may consist of, see IsNet
  Shapes,    \* of the inputs
  Profiles,  \* whether Run is called with a RunMetadata
  MaxRuns    \* bound on the calls of Run

None == "none"

VARIABLES
  net,       \* the model
  big,       \* the weights exceed what the GPU can allocate in one piece
  stage,     \* where Init or Run is
  at, step,  \* ... in the net: the operator, and how far it is
  args,      \* per NORMAL operator, the arguments of its OpenCL kernel
  given,     \* the latest inputs copied in
  asked,     \* the outputs asked for, those whose data is null, and the
             \* shape the caller gave one for which it was the wrong one
  todo,      \* inputs still to copy in
  shape,     \* the shape of the inputs of this call
  profiled,
  runs,      \* calls of Run so far
  status,    \* of the last call
  result,    \* the outputs copied out
  starved    \* an allocation has failed

control == <<at, step, args>>
call    == <<asked, todo, shape, profiled, runs>>
vars    == <<tensors, buffers, net, big, stage, control, given, call,
             status, result, starved>>

-----------------------------------------------------------------------------
(* Nets.  An operator has a type, inputs, one output, the mode of the net  *)
(* it belongs to and the mem_id of its output, if it has one.  All nets    *)
(* here have operators of the engine's device only.                        *)
OnGPU == net.device = "GPU"

Aliasing(type)       == type \in {"Identity", "Reshape"}
ShouldPreallocate(o) == ~Aliasing(o.type)

(* Those elements of a sequence that are in a set, in their order.         *)
Among(s, S) ==
  LET f[k \in 0..Len(s)] ==
        IF k = 0 THEN <<>> ELSE IF s[k] \in S THEN Append(f[k - 1], s[k]) ELSE f[k - 1]
  IN  f[Len(s)]

Ops(n, mode) == Among(n.ops, {o \in Range(n.ops) : o.mode = mode})

(* The operator that makes a tensor, and the tensor whose memory it has.    *)
Outs(n)     == {n.ops[i].out : i \in DOMAIN n.ops}
Maker(n, m) == CHOOSE o \in Range(n.ops) : o.out = m

Root(n) ==
  LET root[m \in Name] ==
        IF m \in Outs(n) /\ Aliasing(Maker(n, m).type) THEN root[Maker(n, m).in[1]] ELSE m
  IN  root

(* What the converter that assigns mem_ids must guarantee: an operator     *)
(* never writes over what it, or a later one, or the caller still reads.   *)
(* An alias may bear the mem_id of its input, but writes nothing.          *)
Pooled(n) == {i \in DOMAIN n.ops : n.ops[i].mem # None /\ ShouldPreallocate(n.ops[i])}

PlanIsSafe(n) ==
  LET root == Root(n) IN
  \A i, j \in Pooled(n) :
    i < j /\ n.ops[i].mem = n.ops[j].mem
      => /\ \A k \in j..Len(n.ops) :
              \A m \in Range(n.ops[k].in) : root[m] # n.ops[i].out
         /\ \A m \in Range(n.outputs) : root[m] # n.ops[i].out

Todo == Ops(net, IF stage = "init" THEN "INIT" ELSE "NORMAL")
op   == Todo[at]
In(k) == op.in[k]
AtOp == stage \in {"init", "run"} /\ at \in DOMAIN Todo

-----------------------------------------------------------------------------
(* How a step of an operator ends.                                         *)
Endings == {"ok", "oom", "fatal"}

Die == stage' = "dead" /\ status' = "fatal" /\ UNCHANGED control

Return(s) ==
  /\ stage' = IF stage \in {"feed", "run", "copy"} THEN "ready" ELSE "failed"
  /\ status' = s
  /\ UNCHANGED control

Resized(r) ==
  /\ starved' = (starved \/ r = "oom")
  /\ \/ r = "ok" /\ step' = "compute" /\ UNCHANGED <<stage, status, at, args>>
     \/ r = "oom" /\ Return("oom")
     \/ r = "fatal" /\ Die

(* SerialNet::Run waits for the operator on a GPU if it is the last or     *)
(* timed; Reshape sets no wait_fn, and the default one is fatal.           *)
Waits == OnGPU /\ ((stage = "run" /\ profiled) \/ at = Len(Todo))


(* Bug: one operator too many.                                             *)
BugAdvance(a) ==
  /\ UNCHANGED <<starved, status>> /\ args' = a /\ step' = "resize"
  /\ IF at <= Len(Todo) THEN at' = at + 1 /\ UNCHANGED stage
     ELSE at' = 1 /\ stage' = IF stage = "init" THEN "built" ELSE "copy"

Advance(a) ==
  /\ UNCHANGED starved
  /\ IF Waits /\ op.type = "Reshape" THEN Die
     ELSE /\ args' = a /\ step' = "resize" /\ UNCHANGED status
          /\ IF at < Len(Todo) THEN at' = at + 1 /\ UNCHANGED stage
             ELSE /\ at' = 1
                  /\ stage' = IF stage = "init" THEN "built" ELSE "copy"

Still == UNCHANGED <<net, big, given, call, result>>

WithVal(b, v) == [buffers EXCEPT ![b].val = v]
Value(k)      == Content(tensors[In(k)].buffer)
Term(in)      == <<op.type>> \o in

(* The memory an operator's kernel is told about.                          *)
Ref(n)  == LET b == tensors[n].buffer IN <<b, buffers[b].gen>>
Refs(o) == [shape |-> tensors[o.in[1]].shape,
            refs |-> [k \in DOMAIN o.in |-> Ref(o.in[k])] \o <<Ref(o.out)>>]
NoArgs  == [shape |-> NoShape, refs |-> <<>>]
Read(ref) == IF buffers[ref[1]].gen = ref[2] THEN Content(ref[1]) ELSE Garbage

(* opencl_image() dies without an image that has memory.                   *)
HasMemory(n) == tensors[n].buffer # Null /\ buffers[tensors[n].buffer].mem
ImagesThere  == \A n \in Range(op.in) \cup {op.out} : HasImage(n) /\ HasMemory(n)

(* A kernel whose arguments were set anew if its first input's shape has   *)
(* changed; it is enqueued with the arguments it has.                      *)
Compute(keep) ==
  IF ~keep /\ ~ImagesThere
  THEN Die /\ UNCHANGED <<buffers, starved>>
  ELSE LET a   == IF keep THEN args[at] ELSE Refs(op)
           out == a.refs[Len(a.refs)]
       IN /\ buffers' = IF buffers[out[1]].gen = out[2]
                        THEN WithVal(out[1], Term([k \in DOMAIN op.in |-> Read(a.refs[k])]))
                        ELSE buffers
          /\ Advance([args EXCEPT ![at] = a])

-----------------------------------------------------------------------------
(* The operators.  Each prepares its output's memory, then computes.       *)
At(type, device, s) == AtOp /\ op.type = type /\ net.device \in device /\ step = s

(* ops/activation.h, on either device.                                     *)
ActivationResize ==
  /\ At("Activation", {"CPU", "GPU"}, "resize")
  /\ \E r \in Endings : ResizeLike(op.out, In(1), r) /\ Resized(r)
  /\ Still

(* kernels/activation.h: no mapping, the memory must only be there.        *)
ActivationCPU ==
  /\ At("Activation", {"CPU"}, "compute")
  /\ IF \A n \in Range(op.in) \cup {op.out} : HasMemory(n)
     THEN /\ buffers' = WithVal(tensors[op.out].buffer,
                                Term(<<Value(1), Value(2)>>))
          /\ Advance(args)
     ELSE Die /\ UNCHANGED <<buffers, starved>>
  /\ UNCHANGED tensors /\ Still

(* kernels/opencl/activation.cc                                            *)
SameShapeAsArgs == args[at].shape = tensors[In(1)].shape

ActivationGPU ==
  /\ At("Activation", {"GPU"}, "compute")
  /\ Compute(SameShapeAsArgs)
  /\ UNCHANGED tensors /\ Still

(* kernels/addn.h.  What is added must be of one size (ops/addn.h; every   *)
(* shape here is of three dimensions), and is mapped at once.              *)
AddNResizeCPU ==
  /\ At("AddN", {"CPU"}, "resize")
  /\ IF Elements(tensors[In(1)].shape) # Elements(tensors[In(2)].shape)
     THEN Die /\ UNCHANGED <<tensors, buffers, starved>>
     ELSE \E r \in Endings : ResizeLike(op.out, In(1), r) /\ Resized(r)
  /\ Still

AddNCPU ==
  /\ At("AddN", {"CPU"}, "compute")
  /\ IF MapsTogether(<<op.out>> \o op.in)
     THEN /\ buffers' = WithVal(tensors[op.out].buffer, Term(<<Value(1), Value(2)>>))
          /\ Advance(args)
     ELSE Die /\ UNCHANGED <<buffers, starved>>
  /\ UNCHANGED tensors /\ Still

(* kernels/opencl/addn.cc: the output is resized, like the arguments are   *)
(* set, only when the shape of the first input has changed.                *)
AddNResizeGPU ==
  /\ At("AddN", {"GPU"}, "resize")
  /\ IF tensors[In(1)].shape # tensors[In(2)].shape
     THEN Die /\ UNCHANGED <<tensors, buffers, starved>>
     ELSE IF SameShapeAsArgs
     THEN Resized("ok") /\ UNCHANGED <<tensors, buffers>>
     ELSE \E r \in Endings :
            ResizeImage(op.out, tensors[In(1)].shape, r) /\ Resized(r)
  /\ Still

AddNGPU ==
  /\ At("AddN", {"GPU"}, "compute")
  /\ Compute(SameShapeAsArgs)
  /\ UNCHANGED tensors /\ Still

(* ops/identity.h                                                          *)
Identity ==
  /\ At("Identity", {"CPU", "GPU"}, "resize")
  /\ tensors' = Aliased(op.out, In(1)) /\ buffers' = WithoutOwn(op.out)
  /\ Advance(args) /\ Still

(* ops/reshape.h, to the shape <<1, 1, -1>>, which is its second input.    *)
(* Weights that were given back may still be read, or not.                 *)
Flat(s) == <<1, 1, Elements(s)>>

Reshape ==
  LET to == Flat(tensors[In(1)].shape)
      ok == MayReshape(In(1), to)
  IN
  /\ At("Reshape", {"CPU", "GPU"}, "resize")
  /\ \/ ~Usable(tensors[In(2)].buffer)
        /\ Die /\ UNCHANGED <<tensors, buffers, starved>>
     \/ /\ HasMemory(In(2))
        /\ tensors' = [Aliased(op.out, In(1)) EXCEPT ![op.out].shape = to]
        /\ buffers' = WithoutOwn(op.out)
        /\ IF ok THEN Advance(args) ELSE Die /\ UNCHANGED starved
  /\ Still

(* kernels/opencl/buffer_to_image.cc; the arguments are set each time, and *)
(* the input, weights as a rule, is marked as no longer needed.            *)
BufferToImageResize ==
  /\ At("BufferToImage", {"GPU"}, "resize")
  /\ \E r \in Endings : ResizeImage(op.out, tensors[In(1)].shape, r) /\ Resized(r)
  /\ Still

(* Bug: the tensor marked is the image.                                    *)
BugMarkedUnused == [tensors EXCEPT ![op.out].unused = TRUE]

MarkedUnused == [tensors EXCEPT ![In(1)].unused = TRUE]

BufferToImage ==
  /\ At("BufferToImage", {"GPU"}, "compute")
  /\ IF /\ HasMemory(In(1)) /\ ~HasImage(In(1))
        /\ HasMemory(op.out) /\ HasImage(op.out)
     THEN /\ buffers' = WithVal(tensors[op.out].buffer, Value(1))
          /\ tensors' = MarkedUnused
          /\ Advance(args)
     ELSE Die /\ UNCHANGED <<tensors, buffers, starved>>
  /\ Still

(* kernels/opencl/image_to_buffer.cc                                       *)
ImageToBufferResize ==
  /\ At("ImageToBuffer", {"GPU"}, "resize")
  /\ \E r \in Endings : Resize(op.out, tensors[In(1)].shape, r) /\ Resized(r)
  /\ Still

ImageToBuffer ==
  /\ At("ImageToBuffer", {"GPU"}, "compute")
  /\ IF /\ HasMemory(In(1)) /\ HasImage(In(1))
        /\ HasMemory(op.out) /\ ~HasImage(op.out)
     THEN /\ buffers' = WithVal(tensors[op.out].buffer, Value(1))
          /\ Advance(args)
     ELSE Die /\ UNCHANGED <<buffers, starved>>
  /\ UNCHANGED tensors /\ Still

-----------------------------------------------------------------------------
(* MaceEngine::Impl::Init.                                                 *)
Consts(n)  == (UNION {Range(n.ops[i].in) : i \in DOMAIN n.ops})
                 \ (Outs(n) \cup Range(n.inputs))
Arena(n)   == {n.ops[i].mem : i \in DOMAIN n.ops} \ {None}

WeightShape == <<1, 1, 1>>
Slices      == ~(OnGPU /\ big)   \* the weights are in one buffer
Given0      == [run |-> 0, shape |-> NoShape]
NoResult    == [shape |-> NoShape, val |-> None]

Goto(s) == stage' = s /\ UNCHANGED <<net, big, control, given, call, result, starved>>
Refused == /\ Return("oom") /\ starved' = TRUE
           /\ UNCHANGED <<net, big, given, call, result>>

CreateTensors ==
  /\ stage = "new"
  /\ tensors' = [n \in Name |-> IF n \in Range(net.inputs) \cup Range(net.outputs)
                                THEN NewTensor ELSE NoTensor]
  /\ Goto("load") /\ UNCHANGED <<buffers, status>>

(* Workspace::LoadModelTensor.  On the CPU the weights stay where the      *)
(* caller has them.  Each tensor is a slice, unless the GPU cannot have    *)
(* all the weights in one buffer: then each has its own, and the status of *)
(* its allocation is not looked at.                                        *)
Const(n) == <<"const", n>>

LoadModel ==
  /\ stage = "load" /\ Slices
  /\ \E got \in IF OnGPU THEN Grant ELSE {TRUE} :
       IF got
       THEN /\ buffers' = [b \in BufferId |->
                 CASE b = Weights -> Allocated(buffers[b], Cardinality(Consts(net)), TRUE)
                   [] b.of = "slice" /\ b.id \in Consts(net)
                        -> [Allocated(buffers[b], Elements(WeightShape), TRUE)
                              EXCEPT !.val = Const(b.id)]
                   [] OTHER -> buffers[b]]
            /\ tensors' = [n \in Name |-> IF n \in Consts(net)
                                          THEN TensorOn(Slice(n), WeightShape)
                                          ELSE tensors[n]]
            /\ Goto("pool") /\ UNCHANGED status
       ELSE Refused /\ UNCHANGED <<tensors, buffers>>

LoadBigModel ==
  /\ stage = "load" /\ ~Slices
  /\ \E got \in [Consts(net) -> Grant] :
       /\ buffers' = [b \in BufferId |->
            IF b.of = "tensor" /\ b.id \in Consts(net)
            THEN [Allocated(buffers[b], Elements(WeightShape) + Pad, got[b.id])
                    EXCEPT !.val = Const(b.id)]
            ELSE buffers[b]]
       /\ tensors' = [n \in Name |->
            IF n \in Consts(net)
            THEN [NewTensor EXCEPT !.buffer = Own(n), !.shape = WeightShape]
            ELSE tensors[n]]
       /\ IF \A n \in Consts(net) : got[n]
          THEN Goto("pool") /\ UNCHANGED status
          ELSE Die /\ starved' = TRUE /\ UNCHANGED <<net, big, given, call, result>>

(* Workspace::CreateOutputTensorBuffer.  A pooled output that is also an   *)
(* output of the model replaces the tensor made for that.                  *)
CreateOutputTensorBuffer ==
  /\ stage = "pool"
  /\ \E got \in IF Arena(net) = {} THEN {TRUE} ELSE Grant :
       IF got
       THEN /\ buffers' = [b \in BufferId |->
                 IF b.of = "pool" /\ b.id \in Arena(net)
                 THEN IF OnGPU
                      THEN AllocatedImage(buffers[b], ImageShape(net.plan), TRUE)
                      ELSE Allocated(buffers[b], Elements(net.plan) + Pad, TRUE)
                 ELSE buffers[b]]
            /\ tensors' = [n \in Name |->
                 IF \E i \in Pooled(net) : net.ops[i].out = n
                 THEN LET i == CHOOSE i \in Pooled(net) : net.ops[i].out = n
                      IN TensorOn(Pool(net.ops[i].mem), NoShape)
                 ELSE tensors[n]]
            /\ Goto("create") /\ UNCHANGED status
       ELSE Refused /\ UNCHANGED <<tensors, buffers>>

(* The constructors of SerialNet and Operator, for the operators of a      *)
(* mode: an input must exist, an output is created unless it does.         *)
Exists(ops, i, n) == \/ tensors[n].state = "live"
                     \/ \E j \in 1..(i - 1) : ops[j].out = n
AllExist(ops)     == \A i \in DOMAIN ops : \A n \in Range(ops[i].in) : Exists(ops, i, n)
WithOutputs(ops)  ==
  [n \in Name |-> IF tensors[n].state # "live" /\ \E i \in DOMAIN ops : ops[i].out = n
                  THEN NewTensor ELSE tensors[n]]

CreateInitNet ==
  LET ops == Ops(net, "INIT") IN
  /\ stage = "create"
  /\ IF AllExist(ops)
     THEN tensors' = WithOutputs(ops) /\ UNCHANGED status
          /\ Goto(IF ops = <<>> THEN "built" ELSE "init")
     ELSE Die /\ UNCHANGED <<tensors, starved, net, big, given, call, result>>
  /\ UNCHANGED buffers

(* Workspace::RemoveUnusedBuffer, after the NORMAL net has been created.   *)
Freed(bs, which) ==
  [b \in BufferId |-> IF b \in which /\ bs[b].state = "live"
                      THEN [bs[b] EXCEPT !.state = "freed"] ELSE bs[b]]

CreateNormalNet ==
  LET ops  == Ops(net, "NORMAL")
      ts   == WithOutputs(ops)
      gone == {n \in Name : ts[n].state = "live" /\ ts[n].unused}
  IN
  /\ stage = "built"
  /\ IF ~AllExist(ops)
     THEN /\ Die
          /\ UNCHANGED <<tensors, buffers, starved, net, big, given, call, result>>
     ELSE /\ IF ~OnGPU THEN tensors' = ts /\ UNCHANGED buffers
             ELSE /\ tensors' = [n \in Name |->
                       IF n \in gone THEN [ts[n] EXCEPT !.state = "erased"] ELSE ts[n]]
                  /\ buffers' = Freed(buffers,
                                      {Weights} \cup {Own(n) : n \in {m \in gone : ts[m].owner}})
          /\ stage' = "ready" /\ status' = "ok"
          /\ args' = [i \in DOMAIN ops |-> NoArgs]
          /\ UNCHANGED <<net, big, at, step, given, call, result, starved>>

-----------------------------------------------------------------------------
TensorShapes == LET made == Shapes \cup {NoShape, WeightShape}
                IN  made \cup {Flat(s) : s \in made}
GivenShapes  == TensorShapes \ {NoShape}

(* MaceEngine::Impl::Run.  Inputs that are not given keep what they had;   *)
(* the caller gives shapes that fit together, and every input at first.    *)
CallRun ==
  /\ stage = "ready" /\ runs < MaxRuns
  /\ \E s \in Shapes, now \in SUBSET Range(net.inputs), p \in Profiles,
        out \in (SUBSET Range(net.outputs)) \ {{}} :
       /\ \A n \in Range(net.inputs) \ now : given[n].shape = s
       /\ \E blank \in SUBSET out :
            asked' = [todo |-> Among(net.outputs, out), blank |-> blank, gave |-> NoShape]
       /\ shape' = s /\ profiled' = p
       /\ todo' = Among(net.inputs, now)
  /\ runs' = runs + 1
  /\ stage' = "feed" /\ at' = 1 /\ step' = "resize" /\ status' = "running"
  /\ result' = [n \in Name |-> NoResult]
  /\ UNCHANGED <<tensors, buffers, net, big, args, given, starved>>

FeedResize ==
  /\ stage = "feed" /\ todo # <<>> /\ step = "resize"
  /\ \E r \in Endings : Resize(Head(todo), shape, r) /\ Resized(r)
  /\ UNCHANGED <<net, big, given, call, result>>

(* Bug: an input that has the shape it had is not copied.                  *)
BugCopied(n) ==
  IF given[n].shape = shape THEN buffers
  ELSE WithVal(tensors[n].buffer, <<"given", n, runs>>)

Copied(n) == WithVal(tensors[n].buffer, <<"given", n, runs>>)

FeedCopy ==
  LET n == Head(todo) IN
  /\ stage = "feed" /\ todo # <<>> /\ step = "compute"
  /\ IF ~HasMemory(n) THEN Die /\ UNCHANGED <<buffers, given, call>>
     ELSE /\ buffers' = Copied(n)
          /\ given' = [given EXCEPT ![n] = [run |-> runs, shape |-> shape]]
          /\ todo' = Tail(todo) /\ step' = "resize"
          /\ UNCHANGED <<stage, status, at, args, asked, shape, profiled, runs>>
  /\ UNCHANGED <<tensors, net, big, result, starved>>

RunNet ==
  /\ stage = "feed" /\ todo = <<>>
  /\ Goto(IF Todo = <<>> THEN "copy" ELSE "run") /\ UNCHANGED <<tensors, buffers, status>>

(* Each output in turn, until one's data is null.  The memory the caller   *)
(* gives for it has a shape, which must be the tensor's.                   *)
CopyOutput ==
  LET n == Head(asked.todo) IN
  /\ stage = "copy" /\ asked.todo # <<>>
  /\ \/ /\ tensors[n].state # "live" \/ n \in asked.blank
        /\ Return("invalid") /\ UNCHANGED <<call, result>>
     \/ /\ tensors[n].state = "live" /\ n \notin asked.blank /\ ~HasMemory(n)
        /\ Die /\ UNCHANGED <<call, result>>
     \/ /\ tensors[n].state = "live" /\ n \notin asked.blank /\ HasMemory(n)
        /\ \E s \in GivenShapes \ {tensors[n].shape} : asked' = [asked EXCEPT !.gave = s]
        /\ Die /\ UNCHANGED <<todo, shape, profiled, runs, result>>
     \/ /\ tensors[n].state = "live" /\ n \notin asked.blank /\ HasMemory(n)
        /\ result' = [result EXCEPT ![n] = [shape |-> tensors[n].shape,
                                            val |-> Content(tensors[n].buffer)]]
        /\ asked' = [asked EXCEPT !.todo = Tail(@)]
        /\ UNCHANGED <<stage, status, control, todo, shape, profiled, runs>>
  /\ UNCHANGED <<tensors, buffers, net, big, given, starved>>

RunReturns ==
  /\ stage = "copy" /\ asked.todo = <<>>
  /\ Return("ok")
  /\ UNCHANGED <<tensors, buffers, net, big, given, call, result, starved>>

(* ~MaceEngine: the tensors go, with the buffers they own, then the rest   *)
(* of the workspace.                                                       *)
Owned == {Own(n) : n \in {m \in Name : tensors[m].state = "live" /\ tensors[m].owner}}

Destroy ==
  /\ stage \in {"ready", "failed"}
  /\ tensors' = [n \in Name |-> IF tensors[n].state = "live"
                                THEN [tensors[n] EXCEPT !.state = "erased"] ELSE tensors[n]]
  /\ buffers' = Freed(buffers, Owned \cup {Weights} \cup {Pool(m) : m \in Block}
                                 \cup {Slice(n) : n \in Name})
  /\ Goto("destroyed") /\ UNCHANGED status

-----------------------------------------------------------------------------
Init ==
  /\ NoMemoryYet
  /\ net \in Nets /\ big \in (IF net.device = "GPU" THEN BOOLEAN ELSE {FALSE})
  /\ stage = "new" /\ at = 1 /\ step = "resize" /\ args = <<>>
  /\ given = [n \in Name |-> Given0]
  /\ asked = [todo |-> <<>>, blank |-> {}, gave |-> NoShape] /\ todo = <<>>
  /\ shape = NoShape /\ profiled = FALSE /\ runs = 0
  /\ status = "none" /\ result = [n \in Name |-> NoResult] /\ starved = FALSE

Setup   == CreateTensors \/ LoadModel \/ LoadBigModel \/ CreateOutputTensorBuffer
             \/ CreateInitNet \/ CreateNormalNet
Operate == ActivationResize \/ ActivationCPU \/ ActivationGPU
             \/ AddNResizeCPU \/ AddNCPU \/ AddNResizeGPU \/ AddNGPU
             \/ Identity \/ Reshape \/ BufferToImageResize \/ BufferToImage
             \/ ImageToBufferResize \/ ImageToBuffer
Serve   == CallRun \/ FeedResize \/ FeedCopy \/ RunNet \/ CopyOutput \/ RunReturns

Stopped == stage \in {"dead", "destroyed"} /\ UNCHANGED vars

Next == Setup \/ Operate \/ Serve \/ Destroy \/ Stopped

Spec == Init /\ [][Next]_vars

-----------------------------------------------------------------------------
(* What a tensor should be, computed from the definition of the net and    *)
(* the latest inputs, with no memory involved.                             *)
Applied(o, e) ==
  LET i == e[o.in[1]] IN
  CASE o.type \in {"AddN", "Activation"} ->
         [shape |-> i.shape, val |-> <<o.type, i.val, e[o.in[2]].val>>]
    [] o.type = "Reshape" -> [shape |-> Flat(i.shape), val |-> i.val]
    [] OTHER -> i

Source(m) ==
  IF m \in Range(net.inputs)
  THEN [shape |-> given[m].shape, val |-> <<"given", m, given[m].run>>]
  ELSE [shape |-> WeightShape, val |-> Const(m)]

Meaning ==
  LET e[m \in Name] ==
        IF m \in Outs(net) THEN Applied(Maker(net, m), e) ELSE Source(m)
  IN  e

(* What the model assumes of the nets.                                     *)
Types == {"Activation", "AddN", "Identity", "Reshape", "BufferToImage", "ImageToBuffer"}

OpType ==
  [type : Types, out : Name, in : Seq(Name), mode : {"INIT", "NORMAL"}, mem : Block \cup {None}]

IsNet(n) ==
  /\ n.device \in {"CPU", "GPU"}
  /\ n.ops \in Seq(OpType)
  /\ \A i \in DOMAIN n.ops :
       Len(n.ops[i].in) = IF n.ops[i].type \in {"AddN", "Activation", "Reshape"} THEN 2 ELSE 1
  /\ n.inputs \in Seq(Name) /\ n.outputs \in Seq(Name)
  /\ \A i, j \in DOMAIN n.ops : i # j => n.ops[i].out # n.ops[j].out
  /\ Outs(n) \cap Range(n.inputs) = {}
  /\ PlanIsSafe(n)

(* A net for the GPU reads its weights as images, which operators of the   *)
(* INIT net make of them and which have nothing else to do.                *)
WeightsAreConverted(n) ==
  n.device = "GPU" =>
    \A i \in DOMAIN n.ops :
      LET o == n.ops[i] IN
      IF o.mode = "INIT" THEN o.type = "BufferToImage" /\ Range(o.in) \subseteq Consts(n)
                         ELSE Range(o.in) \cap Consts(n) = {}

(* In either net an operator comes after those whose outputs it reads.     *)
InOrder(n) ==
  \A mode \in {"INIT", "NORMAL"} :
    LET ops == Ops(n, mode) IN
    \A i \in DOMAIN ops, j \in DOMAIN ops : i <= j => ops[j].out \notin Range(ops[i].in)

(* What the INIT net has made is there in every call, and what is copied   *)
(* out is made in every call.                                              *)
ResultsStay(n) ==
  /\ \A o \in Range(n.ops) : o.mode = "INIT" => n.device = "GPU" /\ o.mem = None
  /\ \A m \in Range(n.outputs) : \E o \in Range(n.ops) : o.out = m /\ o.mode = "NORMAL"

(* Whether the memory of a tensor is an image.                             *)
InImage(n, m) ==
  n.device = "GPU" /\ \E o \in Range(n.ops) :
    o.out = Root(n)[m] /\ o.type \in {"BufferToImage", "Activation", "AddN"}

(* On the GPU kernels are given images, but where buffers are converted,   *)
(* the arena, which is of images, holds no buffer, and nothing is reshaped.*)
FormatsFit(n) ==
  n.device = "GPU" =>
    \A o \in Range(n.ops) :
      /\ o.type # "Reshape"
      /\ o.type \in {"Activation", "AddN", "ImageToBuffer"} => \A m \in Range(o.in) : InImage(n, m)
      /\ o.type = "BufferToImage" => ~InImage(n, o.in[1])
      /\ o.type = "ImageToBuffer" => o.mem = None

NetFits(n) == n.plan \in [1..3 -> Nat] /\ FormatsFit(n)

ASSUME EngineAssumption ==
  MaxRuns \in Nat /\ Shapes \subseteq [1..3 -> Nat] /\ \A n \in Nets : IsNet(n)

TensorType == [state : {"none", "live", "erased"}, buffer : BufferId \cup {Null},
               owner : BOOLEAN, shape : TensorShapes, unused : BOOLEAN]

(* The position in the net is that of an operator, a tensor that owns no   *)
(* memory makes none, and every tensor points to an object that exists or  *)
(* existed.                                                                *)
TypeOK ==
  /\ tensors \in [Name -> TensorType]
  /\ DOMAIN buffers = BufferId
  /\ \A b \in BufferId : buffers[b].state \in {"none", "live", "freed"}
  /\ stage \in {"new", "load", "pool", "create", "init", "built", "ready", "feed",
                "run", "copy", "failed", "dead", "destroyed"}
  /\ status \in {"none", "running", "ok", "oom", "invalid", "fatal"}
  /\ stage \in {"init", "run"} => at \in DOMAIN Todo
  /\ step \in {"resize", "compute"} /\ runs \in 0..MaxRuns

(* Whatever a call of Run copies out, also one that ends in an error, is   *)
(* the net's function of the latest inputs: not of an earlier call's, nor  *)
(* of memory another operator has used since, nor from a kernel told about *)
(* other memory.  (mace.cc 280-351, net.cc 61-131)                         *)
OutputsAreRight ==
  \A n \in Range(net.outputs) : result[n] # NoResult => result[n] = Meaning[n]

(* An operator of either net only ever reads and writes tensors that the   *)
(* workspace has not erased, in memory that has not been given back.       *)
(* (workspace.cc 279-290, buffer_to_image.cc 191)                          *)
InLiveMemory(n) ==
  LET b == tensors[n].buffer IN
  /\ tensors[n].state = "live"
  /\ b # Null => /\ buffers[b].state = "live"
                 /\ b.of = "slice" => buffers[Weights].state = "live"

OnlyLiveMemory == AtOp => \A n \in Range(op.in) \cup {op.out} : InLiveMemory(n)

(* Every kernel of the GPU net that has run in this call ran on the memory *)
(* its tensors have, for the shape they have, although its arguments are   *)
(* only set when its first input's shape changes.                          *)
(* (opencl/activation.cc 93-114, opencl/addn.cc 84-108)                    *)
ArgsAreCurrent ==
  stage = "run" /\ OnGPU =>
    \A i \in 1..(at - 1) :
      Todo[i].type \in {"AddN", "Activation"} => args[i] = Refs(Todo[i])

(* The process only dies                                                   *)
(*   - after an allocation has failed,                                     *)
(*   - because a tensor of the net does not fit the image it got when its  *)
(*     memory was planned or first used,                                   *)
(*   - at a sum of the net: of tensors that the definition of the net      *)
(*     makes of different sizes, or on the CPU of one tensor's memory with *)
(*     itself, which is mapped twice,                                      *)
(*   - or because the caller gave memory of another shape than the         *)
(*     definition of the net gives to the output.                          *)
(* Nothing else that the process checks for on the way is ever found, in   *)
(* any call.  (tensor.h 217-289 and 337-364, buffer.h 171-181 and 415-419, *)
(* ops/addn.h 38-46, mace.cc 335-343)                                      *)
TooLarge(n) ==
  HasImage(n) /\ LET i == ImageShape(tensors[n].shape)
                     p == buffers[tensors[n].buffer].phys
                 IN i[1] > p[1] \/ i[2] > p[2]

AtSum(s) ==
  /\ todo = <<>> /\ asked.gave = NoShape
  /\ at \in DOMAIN Todo /\ op.type = "AddN" /\ step = s

SizesDiffer ==
  LET in(k) == Meaning[In(k)].shape IN
  AtSum("resize") /\ IF OnGPU THEN in(1) # in(2) ELSE Elements(in(1)) # Elements(in(2))

AddedToItself == AtSum("compute") /\ ~OnGPU /\ Root(net)[In(1)] = Root(net)[In(2)]

WrongShapeGiven ==
  /\ asked.todo # <<>> /\ asked.gave # NoShape
  /\ asked.gave # Meaning[Head(asked.todo)].shape

FatalIsJustified ==
  stage = "dead" =>
    starved \/ (\E n \in Name : TooLarge(n)) \/ SizesDiffer \/ AddedToItself \/ WrongShapeGiven

(* A buffer object that a tensor made is deleted once: no two tensors own  *)
(* it, and whoever borrows it does not own it.  (tensor.h 129-133, 238-248)*)
OneOwner ==
  \A n \in Name : tensors[n].state = "live" /\ tensors[n].owner
                    => tensors[n].buffer \in {Null, Own(n)}

-----------------------------------------------------------------------------
(* Everything that waits for a GPU operator finds the wait function set,   *)
(* as core/future.h:31 requires.                                           *)
WaitFnIsSet == [][~(AtOp /\ Waits /\ op.type = "Reshape" /\ stage' = "dead"
                    /\ Usable(tensors[In(2)].buffer)
                    /\ MayReshape(In(1), Flat(tensors[In(1)].shape)))]_vars

(* A tensor that reuses another's image may be given another shape of as   *)
(* many elements, as the comment at tensor.h:235-237 says.                 *)
ReusedImageMayBeReshaped ==
  [][~(AtOp /\ op.type = "Reshape" /\ HasImage(In(1)) /\ stage' = "dead"
       /\ Usable(tensors[In(2)].buffer)
       /\ ~MayReshape(In(1), Flat(tensors[In(1)].shape)))]_vars
============
