----------------------------- MODULE FunctorPlans -----------------------------
(***************************************************************************)
(* What an OpenCL functor does with the tensors of one call                *)
(* (mace/kernels/opencl: operator() of each functor).                      *)
(*                                                                         *)
(* A functor f has the arguments of its operator; ins are the shapes of    *)
(* the tensors it is called with (NHWC, filters OIHW), d is the device.    *)
(* A plan says:                                                            *)
(*   legal    the checks hold: otherwise the process ends                  *)
(*   out      the shape of the output, type the layout of its image        *)
(*   resize   when the output gets it: "first", or "inside", only when the *)
(*            kernel's arguments are set anew                              *)
(*   options  the build options that depend on the tensors                 *)
(*   key      the shape compared with the last call's; args, what depends  *)
(*            on the tensors among the arguments set when it differs       *)
(*   gws      where the number of items comes from: "now" the tensors of   *)
(*            this call, "output" the output as it is, "kept" the functor  *)
(*   runs     what is enqueued: items, group, arguments set each time, how *)
(*            many pixels an item writes per dimension (per) and, where    *)
(*            the items of a block are not neighbours, their distance      *)
(*   cover    what the items stand for                                     *)
(* Arguments and options that only depend on the operator are left out:    *)
(* they are the same at each call.                                         *)
(***************************************************************************)
EXTENDS Images, LocalSizes, Deconv, DataMovement

(* The items of a kernel for a picture of NHWC.                            *)
Pixels(s) == <<RoundUpDiv4(s[4]), s[3], s[1] * s[2]>>

Job(gws, lws, per, each) == [gws |-> gws, lws |-> lws, per |-> per, apart |-> 1, each |-> each]

Plan(key, out, args, job) ==
  [legal |-> TRUE, out |-> out, type |-> "IN_OUT_CHANNEL", image |-> out, resize |-> "first",
   options |-> {}, key |-> key, args |-> args, gws |-> "now", runs |-> <<job>>,
   cover |-> "pixels", block |-> 0, always |-> FALSE, rebuilt |-> FALSE]

(* One item per pixel of the output.                                       *)
PixelJob(out, d) == Job(Pixels(out), Default3DLocalWS(Pixels(out), d), <<1, 1, 1>>, <<>>)

-----------------------------------------------------------------------------
GpuActivation(f, ins, d) == Plan(ins[1], ins[1], <<>>, PixelJob(ins[1], d))

GpuBatchNorm(f, ins, d) == Plan(ins[1], ins[1], <<>>, PixelJob(ins[1], d))

GpuBiasAdd(f, ins, d) ==
  IF Len(ins[1]) = 4 THEN Plan(ins[1], ins[1], <<>>, PixelJob(ins[1], d))
  ELSE [legal |-> FALSE]

GpuSoftmax(f, ins, d) ==
  LET in   == FormatBufferShape(ins[1], "IN_OUT_CHANNEL")
      rest == RoundUpDiv4(in[4]) * 4 - in[4]
  IN  IF Len(ins[1]) \notin {2, 4} THEN [legal |-> FALSE]
      ELSE [Plan(ins[1], ins[1], <<in[4], rest>>,
                 Job(Pixels(in), SoftmaxLocalWS(Pixels(in), d), <<1, 1, 1>>, <<>>))
              EXCEPT !.image = in]

GpuPad(f, ins, d) ==
  LET in == ins[1]  p == f.paddings
      out == <<in[1], in[2] + p[3] + p[4], in[3] + p[5] + p[6], in[4]>>
  IN  [Plan(in, out, <<in[2], in[3], out[2]>>, PixelJob(out, d))
         EXCEPT !.legal = p[1] = 0 /\ p[2] = 0 /\ p[7] = 0 /\ p[8] = 0]

GpuResizeBilinear(f, ins, d) ==
  LET in == ins[1]
      out == <<in[1], f.size[1], f.size[2], in[4]>>
  IN  [Plan(in, out, <<in[2], in[3], out[2]>>,
            Job(Pixels(out), ResizeLocalWS(Pixels(out), d), <<1, 1, 1>>, <<>>))
         EXCEPT !.resize = "inside", !.legal = f.size[1] > 0 /\ f.size[2] > 0]

GpuChannelShuffle(f, ins, d) ==
  LET in == ins[1]
      group == in[4] \div f.groups
      gws == <<RoundUpDiv4(group), in[3], in[1] * in[2]>>
  IN  [Plan(in, in, <<group>>, Job(gws, Default3DLocalWS(gws, d), <<f.groups, 1, 1>>, <<>>))
         EXCEPT !.legal = group % 4 = 0 /\ f.groups % 4 = 0]

GpuAddN(f, ins, d) ==
  LET image == CalInOutputImageShape(ins[1]) IN
  [Plan(ins[1], ins[1], <<>>, Job(image, <<d.maxGroup \div 16, 16, 0>>, <<1, 1>>, <<>>))
     EXCEPT !.legal = Len(ins) \in 2..4 /\ \A i \in DOMAIN ins : ins[i] = ins[1],
            !.resize = "inside", !.cover = "image"]

-----------------------------------------------------------------------------
(* Two inputs, the larger first, whose four dimensions are read; a vector  *)
(* stands for all pixels, and is not looked at if the sizes are equal.     *)
LegalBroadcast(a, b) ==
  /\ Len(a) = 4 /\ Len(b) \in {1, 4}
  /\ \/ Elements(a) = Elements(b)
     \/ Len(b) = 1 /\ a[4] = b[1]
     \/ Len(b) = 4 /\ b[1] \in {1, a[1]} /\ a[4] = b[4] /\ b[2] = 1 /\ b[3] = 1

EltwiseOptions(a, b, swapped) ==
  IF Elements(a) = Elements(b) THEN {}
  ELSE {IF b[1] = 1 \/ Len(b) = 1 THEN "INPUT_TYPE=3" ELSE "INPUT_TYPE=2"}
         \cup (IF swapped THEN {"SWAPPED"} ELSE {})

GpuEltwise(f, ins, d) ==
  IF Len(ins) = 1
  THEN Plan(ins[1], ins[1], <<ins[1][2], ins[1][3], ins[1][4]>>, PixelJob(ins[1], d))
  ELSE LET swapped == Elements(ins[1]) < Elements(ins[2])
           a == IF swapped THEN ins[2] ELSE ins[1]
           b == IF swapped THEN ins[1] ELSE ins[2]
       IN  IF ~LegalBroadcast(a, b) THEN [legal |-> FALSE]
           ELSE [Plan(a, a, <<IF swapped THEN 2 ELSE 1, a[2], a[3], a[4]>>, PixelJob(a, d))
                   EXCEPT !.options = EltwiseOptions(a, b, swapped)]

ConcatOut(ins) == [ins[1] EXCEPT ![4] = Sum([i \in DOMAIN ins |-> ins[i][4]])]

Concat2(f, ins, d) ==
  LET gws == Pixels(ConcatOut(ins)) IN
  [Plan(ins[1], ConcatOut(ins), <<ins[1][4]>>, Job(gws, ConcatLocalWS(gws, d), <<1, 1, 1>>, <<>>))
     EXCEPT !.options = IF ins[1][4] % 4 = 0 THEN {"DIVISIBLE_FOUR"} ELSE {}]

(* One run per input, next to those before it.                             *)
ConcatN(f, ins, d) ==
  LET gws(i) == <<ins[i][4] \div 4, ins[1][3], ins[1][1] * ins[1][2]>>
      job(i) == Job(gws(i), ConcatLocalWS(gws(i), d), <<1, 1, 1>>,
                    <<Sum([j \in 1..(i - 1) |-> ins[j][4] \div 4])>>)
  IN  [Plan(<<>>, ConcatOut(ins), <<>>, job(1))
         EXCEPT !.always = TRUE, !.runs = [i \in DOMAIN ins |-> job(i)], !.cover = "joined"]

GpuConcat(f, ins, d) ==
  LET legal == /\ Len(ins) >= 2 /\ f.axis = 3
               /\ \A i \in DOMAIN ins : SubSeq(ins[i], 1, 3) = SubSeq(ins[1], 1, 3)
               /\ Len(ins) = 2 \/ \A i \in DOMAIN ins : ins[i][4] % 4 = 0
  IN  IF ~legal THEN [legal |-> FALSE]
      ELSE IF Len(ins) = 2 THEN Concat2(f, ins, d) ELSE ConcatN(f, ins, d)

(* Every output is the size of the others.                                 *)
GpuSlice(f, ins, d) ==
  LET out == [ins[1] EXCEPT ![4] = @ \div f.outputs]
      job(i) == [PixelJob(out, d) EXCEPT !.each = <<RoundUpDiv4(out[4]) * (i - 1)>>]
  IN  IF out[4] % 4 # 0 THEN [legal |-> FALSE]
      ELSE [Plan(<<>>, out, <<>>, job(1))
              EXCEPT !.always = TRUE, !.runs = [i \in 1..f.outputs |-> job(i)], !.cover = "each"]

(* The axis counts as in NCHW; shapes are NHWC.                            *)
CropAll(axis) == CASE axis = 0 -> {1, 2, 3, 4} [] axis = 1 -> {2, 3, 4} [] axis = 2 -> {2, 3} [] axis = 3 -> {3}
CropPlace(axis, i) == <<1, 4, 2, 3>>[axis + i]   \* the dimension of the i-th offset

CropOffset(f) ==
  [i \in 1..4 |->
     IF i \notin CropAll(f.axis) THEN 0
     ELSE IF Len(f.offset) = 1 THEN f.offset[1]
     ELSE IF Len(f.offset) = 4 - f.axis
          THEN f.offset[CHOOSE j \in DOMAIN f.offset : CropPlace(f.axis, j) = i]
          ELSE 0]

GpuCrop(f, ins, d) ==
  LET in == ins[1]  at == CropOffset(f)
      out == [i \in 1..4 |-> IF i \in CropAll(f.axis) THEN ins[2][i] ELSE in[i]]
  IN  [Plan(in, out, <<at[1], at[2], at[3], RoundUpDiv4(at[4]), in[2], in[3], out[2], out[3]>>,
            Job(Pixels(out), CropLocalWS(Pixels(out), d), <<1, 1, 1>>, <<>>))
         EXCEPT !.legal = at[4] % 4 = 0 /\ \A i \in 1..4 : in[i] - at[i] >= ins[2][i]]

GpuDepthToSpace(f, ins, d) ==
  LET in == ins[1]  b == f.block
      out == IF f.d2s THEN <<in[1], in[2] * b, in[3] * b, in[4] \div (b * b)>>
             ELSE <<in[1], in[2] \div b, in[3] \div b, in[4] * b * b>>
      gws == IF f.d2s THEN Pixels(out) ELSE Pixels(in)
      rows(s) == s[1] * s[2]
  IN  [Plan(in, out, <<IF f.d2s THEN rows(in) ELSE rows(out), in[3], RoundUpDiv4(in[4]), out[3],
                       RoundUpDiv4(out[4])>>,
            Job(gws, Default3DLocalWS(gws, d), <<1, 1, 1>>, <<>>))
         EXCEPT !.legal = (IF f.d2s THEN out[4] ELSE in[4]) % 4 = 0, !.cover = "moved"]

(* The shapes of DataMovement are NCHW.                                    *)
ToNCHW(s) == <<s[1], s[4], s[2], s[3]>>
ToNHWC(s) == <<s[1], s[3], s[4], s[2]>>

GpuSpaceToBatch(f, ins, d) ==
  LET other == ToNHWC(IF f.b2s THEN BatchToSpaceShape(ToNCHW(ins[1]), f.block, f.paddings)
                      ELSE SpaceToBatchShape(ToNCHW(ins[1]), f.block, f.paddings))
      space == IF f.b2s THEN other ELSE ins[1]
      batch == IF f.b2s THEN ins[1] ELSE other
  IN  [Plan(space, other, <<space[1], space[2], space[3], batch[2], batch[3]>>,
            Job(Pixels(batch), Default3DLocalWS(Pixels(batch), d), <<1, 1, 1>>, <<>>))
         EXCEPT !.legal = f.b2s \/ LegalSpaceToBatch(ToNCHW(ins[1]), f.block, f.paddings),
                !.cover = "moved"]

-----------------------------------------------------------------------------
(* Windows: paddings by type or given.                                     *)
Sized(f, in, filter, round) ==
  IF f.padding.type = "GIVEN"
  THEN [output |-> CalcOutputSize(in, filter, f.padding.size, f.dilations, f.strides, round),
        paddings |-> f.padding.size]
  ELSE CalcNHWCPaddingAndOutputSize(in, filter, f.dilations, f.strides, f.padding.type)

(* Bug: a last block that is not full is left out.                         *)
BugInColumns(out, n) == <<RoundUpDiv4(out[4]), Larger(out[3] \div n, 1), out[1] * out[2]>>

(* A row of the output is cut into blocks of n pixels; the items of a      *)
(* block write every gws[2]-th pixel.                                      *)
InColumns(out, n) == <<RoundUpDiv4(out[4]), RoundUpDiv(out[3], n), out[1] * out[2]>>

Halves(p) == <<p[1] \div 2, p[2] \div 2>>

Conv1x1Job(out, d) == Job(InColumns(out, 4), Conv1x1LocalWS(InColumns(out, 4), d), <<1, 4, 1>>, <<>>)
Conv3x3Job(out, d) == Job(InColumns(out, 5), Conv3x3LocalWS(InColumns(out, 5), d), <<1, 5, 1>>, <<>>)
ConvJob(out, taps, d) == Job(InColumns(out, 4), ConvLocalWS(InColumns(out, 4), taps, d), <<1, 4, 1>>, <<>>)

(* One filter of 1x1 knows nothing of paddings.                            *)
Conv2dOpenclK1x1(in, s, d) ==
  Plan(in, s.output, <<in[2], in[3], RoundUpDiv4(in[4]), s.output[2], s.output[3]>>,
       Conv1x1Job(s.output, d))

Conv2dOpenclK3x3(in, s, d) ==
  Plan(in, s.output, <<in[2], in[3], RoundUpDiv4(in[4]), s.output[2], s.output[3]>> \o Halves(s.paddings),
       Conv3x3Job(s.output, d))

Conv2dOpencl(in, filter, s, d) ==
  Plan(in, s.output, <<in[2], in[3], RoundUpDiv4(in[4]), s.output[2], s.output[3], filter[3], filter[4]>>
                       \o Halves(s.paddings),
       ConvJob(s.output, filter[3] * filter[4], d))

GpuConv2d(f, ins, d) ==
  LET in == ins[1]  filter == ins[2]
      s == Sized(f, in, filter, "FLOOR")
      square == filter[3] = filter[4]
  IN  IF f.strides[1] # f.strides[2] \/ (f.dilations[1] > 1 /\ (f.strides[1] > 1 \/ filter[3] = 1))
      THEN [legal |-> FALSE]
      ELSE IF square /\ filter[3] = 1 THEN Conv2dOpenclK1x1(in, s, d)
      ELSE IF square /\ filter[3] = 3 THEN Conv2dOpenclK3x3(in, s, d)
      ELSE Conv2dOpencl(in, filter, s, d)

(* The arguments are cast to integers of 16 bits.                          *)
Short(n) == ((n + 32768) % 65536) - 32768

(* With unequal strides the functor of the CPU is called instead, with the *)
(* images of the GPU: not modelled further.                                *)
GpuDepthwiseConv2d(f, ins, d) ==
  LET in == ins[1]  filter == ins[2]
      s == Sized(f, in, <<filter[1] * filter[2], filter[2], filter[3], filter[4]>>, "FLOOR")
      gws == InColumns(s.output, 4)
      args == <<in[2], in[3], RoundUpDiv4(in[4]), s.output[2], s.output[3], filter[3], filter[4]>>
                \o Halves(s.paddings)
  IN  [Plan(in, s.output, [i \in DOMAIN args |-> Short(args[i])],
            Job(gws, DepthwiseLocalWS(gws, d), <<1, 4, 1>>, <<>>))
         EXCEPT !.legal = /\ f.strides[1] = f.strides[2] /\ filter[1] = 1
                          /\ filter[2] = in[4] /\ s.output[4] = in[4]]

GpuPooling(f, ins, d) ==
  LET in == ins[1]
      s == Sized(f, in, <<in[4], in[4], f.kernels[1], f.kernels[2]>>, "CEIL")
      gws == Pixels(s.output)
  IN  IF f.dilations # <<1, 1>> THEN [legal |-> FALSE]
      ELSE [Plan(in, s.output, <<in[2], in[3], s.output[2]>> \o Halves(s.paddings),
                 Job(gws, PoolingLocalWS(gws, d), <<1, 1, 1>>, <<>>))
              EXCEPT !.resize = "inside", !.gws = "output"]

(* Transposed convolution: an item writes five pixels of a row, a stride   *)
(* apart.  Both paddings come from the first.                              *)
DeconvCall(f, ins) ==
  [in |-> ToNCHW(ins[1]), filter |-> ins[2], strides |-> f.strides, from |-> f.from,
   out |-> f.out, type |-> f.padding.type, paddings |-> f.padding.size]

DeconvArgs(in, filter, out, padding, stride) ==
  <<in[2], in[3], in[4], out[2], out[3], out[4], stride - 1 - padding, stride - 1 - padding,
    padding, padding, filter[3], filter[4], RoundUpDiv4(in[4]), RoundUpDiv4(out[4])>>

GpuDeconv2d(f, ins, d) ==
  LET x == DeconvCall(f, ins)
      s == DeconvSizes(x)
      out == ToNHWC(s.output)
      stride == f.strides[1]
      gws == <<RoundUpDiv4(out[4]), RoundUpDiv(RoundUpDiv(out[3], stride), 5) * stride, out[1] * out[2]>>
  IN  IF ~LegalDeconv(x) \/ stride = 0 THEN [legal |-> FALSE]
      ELSE Plan(ins[1], out, DeconvArgs(ins[1], ins[2], out, s.pad[1], stride),
                [Job(gws, Default3DLocalWS(gws, d), <<1, 5, 1>>, <<>>) EXCEPT !.apart = stride])

GpuDepthwiseDeconv2d(f, ins, d) ==
  LET x == DeconvCall(f, ins)
      out == ToNHWC(CalcDepthwiseDeconvOutputSize(x.in, x.filter, x.strides, x.paddings))
  IN  IF f.from # "caffe" \/ f.strides[1] = 0 THEN [legal |-> FALSE]
      ELSE Plan(ins[1], out, DeconvArgs(ins[1], ins[2], out, (x.paddings[1] + 1) \div 2, f.strides[1]),
                PixelJob(out, d))

-----------------------------------------------------------------------------
(* Products.  An item of a matrix product computes four by four elements,  *)
(* a pixel of the image in each of four columns.                           *)
GpuMatMul(f, ins, d) ==
  LET a == ins[1]  r == Len(a)
      h == a[r - 1]  k == a[r]  w == ins[2][r]
      batch == Elements(SubSeq(a, 1, r - 2))
      gws == <<RoundUpDiv4(w), RoundUpDiv4(h) * batch>>
  IN  [Plan(<<>>, [a EXCEPT ![r] = w], <<>>,
            Job(gws, <<d.maxGroup \div 64, 64, 0>>, <<4, 1>>,
                <<h, w, k, RoundUpDiv4(h), RoundUpDiv4(k)>>))
         EXCEPT !.legal = ~f.transA /\ ~f.transB, !.type = "IN_OUT_HEIGHT",
                !.image = <<batch, h, w, 1>>, !.always = TRUE, !.cover = "image"]

(* A group sums up one pixel; its size is found when the kernel is built.  *)
GpuFullyConnected(f, ins, d) ==
  LET in == ins[1]
      out == <<in[1], 1, 1, ins[2][1]>>
      blocks == RoundUpDiv4(out[4])
      side == IF d.adreno THEN d.wave \div 4 ELSE 8
      gws == <<4, side, in[1] * blocks>>
      lws == <<4, side, d.maxGroup \div (4 * side), 0>>
  IN  [Plan(in, out, <<Elements(Group(lws)) * 4, in[2], in[3], RoundUpDiv4(in[4]), blocks>>,
            Job(gws, lws, <<1, 1, 1>>, <<>>))
         EXCEPT !.gws = "kept", !.cover = "sums"]

GpuReduceMean(f, ins, d) ==
  LET in == ins[1]
      out == <<in[1], 1, 1, in[4]>>
      side == IF d.adreno THEN d.wave \div 4 ELSE 16
      group == 4 * side
      size == in[2] * in[3]
  IN  [Plan(in, out, <<group * 4, group, RoundUpDiv(size, group), size % group, in[1], in[2], in[3],
                       RoundUpDiv4(in[4])>>,
            Job(<<4, side, in[1] * RoundUpDiv4(in[4])>>, <<4, side, 1, 0>>, <<1, 1, 1>>, <<>>))
         EXCEPT !.legal = f.axis = <<1, 2>>, !.cover = "sums"]

(* To tiles of block x block outputs and back.  The size of the picture    *)
(* after the inverse is an argument of the operator.                       *)
WinogradTransform(f, ins, d) ==
  LET in == ins[1]  b == f.block
      s == Sized(f, in, <<1, in[4], 3, 3>>, "FLOOR")
      rows == RoundUpDiv(s.output[2], b)
      cols == RoundUpDiv(s.output[3], b)
      out == <<(b + 2) * (b + 2), in[4], in[1] * rows * cols>>
  IN  [Plan(in, out, <<in[2], in[3], in[4], rows * cols, cols>> \o Halves(s.paddings),
            Job(<<out[3], RoundUpDiv4(in[4])>>, <<d.maxGroup \div 8, 8, 0>>, <<1, out[1]>>, <<>>))
         EXCEPT !.legal = b \in {2, 4}, !.type = "IN_OUT_HEIGHT", !.image = out \o <<1>>,
                !.resize = "inside", !.cover = "image"]

WinogradInverseTransform(f, ins, d) ==
  LET in == ins[1]  b == f.block
      out == <<f.batch, f.height, f.width, in[2]>>
      rows == RoundUpDiv(f.height, b)
      cols == RoundUpDiv(f.width, b)
  IN  [Plan(in, out, <<f.height, f.width, rows * cols, cols>>,
            Job(<<in[3], RoundUpDiv4(in[2])>>, <<d.maxGroup \div 8, 8, 0>>, <<1, 1>>, <<>>))
         EXCEPT !.legal = b \in {2, 4}, !.resize = "inside", !.cover = "tiles", !.block = b]

-----------------------------------------------------------------------------
(* Between buffers and images; the kernel is built each time.              *)
TransferArgs(type, s, formatted) ==
  CASE type = "CONV2D_FILTER" -> <<s[1], s[3], s[4], s[2] * s[3] * s[4]>>
    [] type \in {"DW_CONV2D_FILTER", "WEIGHT_HEIGHT"} -> s
    [] type = "ARGUMENT" -> <<s[1]>>
    [] OTHER -> Tail(formatted)

Transfer(f, shape, out, d) ==
  LET formatted == FormatBufferShape(shape, f.type)
      image == CalImage2DShape(formatted, f.type, f.block)
      area  == IF f.type = "WINOGRAD_FILTER" THEN (f.block + 2) * (f.block + 2) ELSE 1
  IN  IF image = Bad THEN [legal |-> FALSE]
      ELSE [Plan(<<>>, out, <<>>,
                 Job(<<image[1], image[2] \div area>>, <<16, d.maxGroup \div 16, 0>>, <<1, area>>,
                     TransferArgs(f.type, shape, formatted)))
              EXCEPT !.type = f.type, !.image = formatted, !.always = TRUE, !.rebuilt = TRUE,
                     !.cover = "image", !.block = f.block]

BufferToImage(f, ins, d) ==
  Transfer(f, ins[1], IF f.type = "WINOGRAD_FILTER" THEN CalWinogradShape(ins[1], f.type, f.block)
                      ELSE ins[1], d)

(* The output is a buffer, of the image's shape.                           *)
ImageToBuffer(f, ins, d) ==
  IF f.type \in {"DW_CONV2D_FILTER", "IN_OUT_WIDTH"} THEN [legal |-> FALSE]
  ELSE [Transfer(f, ins[1], ins[1], d) EXCEPT !.resize = "buffer"]

(* The functor a kind stands for.                                          *)
PlanOf(f, ins, d) ==
  CASE f.kind = "activation"      -> GpuActivation(f, ins, d)
    [] f.kind = "batchnorm"       -> GpuBatchNorm(f, ins, d)
    [] f.kind = "biasadd"         -> GpuBiasAdd(f, ins, d)
    [] f.kind = "softmax"         -> GpuSoftmax(f, ins, d)
    [] f.kind = "pad"             -> GpuPad(f, ins, d)
    [] f.kind = "resize"          -> GpuResizeBilinear(f, ins, d)
    [] f.kind = "shuffle"         -> GpuChannelShuffle(f, ins, d)
    [] f.kind = "addn"            -> GpuAddN(f, ins, d)
    [] f.kind = "eltwise"         -> GpuEltwise(f, ins, d)
    [] f.kind = "concat"          -> GpuConcat(f, ins, d)
    [] f.kind = "slice"           -> GpuSlice(f, ins, d)
    [] f.kind = "crop"            -> GpuCrop(f, ins, d)
    [] f.kind = "depthtospace"    -> GpuDepthToSpace(f, ins, d)
    [] f.kind = "spacetobatch"    -> GpuSpaceToBatch(f, ins, d)
    [] f.kind = "conv2d"          -> GpuConv2d(f, ins, d)
    [] f.kind = "depthwise"       -> GpuDepthwiseConv2d(f, ins, d)
    [] f.kind = "pooling"         -> GpuPooling(f, ins, d)
    [] f.kind = "deconv2d"        -> GpuDeconv2d(f, ins, d)
    [] f.kind = "depthwisedeconv" -> GpuDepthwiseDeconv2d(f, ins, d)
    [] f.kind = "matmul"          -> GpuMatMul(f, ins, d)
    [] f.kind = "fullyconnected"  -> GpuFullyConnected(f, ins, d)
    [] f.kind = "reducemean"      -> GpuReduceMean(f, ins, d)
    [] f.kind = "winograd"        -> WinogradTransform(f, ins, d)
    [] f.kind = "winogradinverse" -> WinogradInverseTransform(f, ins, d)
    [] f.kind = "buffertoimage"   -> BufferToImage(f, ins, d)
    [] f.kind = "imagetobuffer"   -> ImageToBuffer(f, ins, d)
=============================================================================
