-------------------------------- MODULE Kernels --------------------------------
(***************************************************************************)
(* The operators of the CPU and the work sizes of the GPU, one call at a   *)
(* time.  The state is the call being made; what it computes is an         *)
(* operator of the modules this one extends, and the invariants compare it *)
(* with what it should compute.                                            *)
(***************************************************************************)
EXTENDS Expected

CONSTANT Calls   \* records [kernel, args]

VARIABLE call

Idle == [kernel |-> "none"]

Init == call = Idle

CallsOf(kernels) == {c \in Calls : c.kernel \in kernels}

CallMatrixProduct == call = Idle /\ call' \in CallsOf({"gemm", "batch", "matmul", "fullyconnected"})
CallTile          == call = Idle /\ call' \in CallsOf({"tile"})
CallConv2d        == call = Idle /\ call' \in CallsOf({"conv2d"})
CallDepthwise     == call = Idle /\ call' \in CallsOf({"depthwise"})
CallDeconv2d      == call = Idle /\ call' \in CallsOf({"deconv2d", "depthwisedeconv2d"})
CallMove          == call = Idle /\ call' \in CallsOf({"transpose", "concat", "slice", "stack", "gather", "pad", "crop"})
CallBlock         == call = Idle /\ call' \in CallsOf({"shuffle", "depthtospace", "spacetodepth", "spacetobatch", "batchtospace"})
CallStridedSlice  == call = Idle /\ call' \in CallsOf({"stridedslice"})
CallEltwise       == call = Idle /\ call' \in CallsOf({"eltwise", "addn"})
CallAggregate     == call = Idle /\ call' \in CallsOf({"pooling", "reduce", "softmax", "lrn", "argmax", "resize"})
CallPerChannel    == call = Idle /\ call' \in CallsOf({"batchnorm", "biasadd", "prelu"})
CallQuantize      == call = Idle /\ call' \in CallsOf({"quantize"})
CallProposal      == call = Idle /\ call' \in CallsOf({"proposal"})
Enqueue           == call = Idle /\ call' \in CallsOf({"enqueue"})
Return            == call # Idle /\ call' = Idle

Next == \/ CallMatrixProduct \/ CallTile \/ CallConv2d \/ CallDepthwise \/ CallDeconv2d
        \/ CallMove \/ CallBlock \/ CallStridedSlice \/ CallEltwise \/ CallAggregate
        \/ CallPerChannel \/ CallQuantize \/ CallProposal \/ Enqueue \/ Return

Spec == Init /\ [][Next]_call

-----------------------------------------------------------------------------
(* Matrix products, transposed or not, whatever the tiles and blocks they  *)
(* are cut into, add up every product once: Gemm, its callers, and         *)
(* Winograd's BatchGemm.  A column vector is multiplied by Gemv, which     *)
(* does not transpose: right only where transposing A would not change its *)
(* layout, in MatMul too.                                                  *)
MatrixProductsRight ==
  LET a == call.args IN
  /\ call.kernel = "gemm" =>
       \/ a.width = 1 /\ a.transA /\ a.height > 1 /\ a.K > 1
       \/ AddsUp(GemmTerms(a.arch, a.batch, a.height, a.K, a.width, a.transA, a.transB),
                 GemmRef(a.batch, a.height, a.K, a.width, a.transA, a.transB))
  /\ call.kernel = "matmul" =>
       LET rank == Len(a.a) IN
       \/ a.b[IF a.transB THEN rank - 1 ELSE rank] = 1 /\ a.transA /\ a.a[rank - 1] > 1 /\ a.a[rank] > 1
       \/ AddsUp(MatMul(a.arch, a.a, a.b, a.transA, a.transB),
                 MatrixProduct(a.a, a.b, a.transA, a.transB))
  /\ call.kernel = "fullyconnected" =>
       LET inputs  == <<a.in[1], Elements(Tail(a.in))>>
           weights == <<a.weight[1], Elements(Tail(a.weight))>>
       IN  AddsUp(FullyConnected(a.arch, a.in, a.weight),
                  {<<t[1], t[3], t[2]>> : t \in MatrixProduct(inputs, weights, FALSE, TRUE)})
  /\ call.kernel = "batch" =>
       AddsUp(BatchGemm(a.arch, a.batch, a.in, a.out, a.tiles, a.area),
              TileProducts(a.batch, a.in, a.out, a.tiles, a.area))

(* Winograd's transformations of a tile, together, are a convolution.      *)
WinogradIsConvolution ==
  call.kernel = "tile" =>
    LET a == call.args IN
    IF a.size = 2 THEN Tile2(a.p, a.q) = Convolved2(a.p, a.q)
    ELSE Tile6(a.p, a.q) = Convolved6(a.p, a.q)

(* Padding, tiling, registers, scratch memory and unpacking together: each *)
(* element of the output is the sum the convolution says, each product     *)
(* added once, for every kernel of every build.  A deconvolution is the    *)
(* transposed one of the convolution with the padding left over, except    *)
(* that an output larger than any convolution would need is shifted.       *)
ConvolutionRight ==
  LET x == call.args
      all(m) == 0..(x.filter[2] - 1)
      oihw(m, c, i, j) == At(x.filter, m, c, i, j)
      over(i) == (x.in[i + 2] - 1) * x.strides[i] + x.filter[i + 2] - x.out[i]
  IN
  /\ call.kernel = "conv2d" =>
       LET s == Sizes(x) IN
       AddsUp(Convolution(x),
              Convolved(x, x.filter, s.output,
                        <<s.paddings[1] \div 2, s.paddings[2] \div 2>>, all, oihw))
  /\ call.kernel = "depthwise" =>
       LET p == DepthwisePlan(x) IN
       AddsUp(Depthwise(x),
              Convolved(x, x.filter, p.output, p.pad,
                        LAMBDA m : {m \div x.filter[1]},
                        LAMBDA m, c, i, j : At(x.filter, m % x.filter[1], c, i, j)))
  /\ call.kernel = "deconv2d" =>
       LET s == DeconvSizes(x)
           before(i) == IF x.from = "caffe" THEN s.pad[i] ELSE over(i) \div 2
       IN  \/ x.from = "tensorflow" /\ \E i \in 1..2 : over(i) < 0
           \/ AddsUp(Deconv2d(x),
                     ConvolvedBack(x, s.output, <<before(1), before(2)>>,
                                   LAMBDA m : 0..(x.filter[1] - 1),
                                   LAMBDA m, c, i, j : At(x.filter, c, m, i, j)))
  /\ call.kernel = "depthwisedeconv2d" =>
       LET out == CalcDepthwiseDeconvOutputSize(x.in, x.filter, x.strides, x.paddings) IN
       AddsUp(DepthwiseDeconv2d(x),
              ConvolvedBack(x, out, <<(x.paddings[1] + 1) \div 2, (x.paddings[2] + 1) \div 2>>,
                            LAMBDA m : {m},
                            LAMBDA m, c, i, j : (m * x.filter[3] + i) * x.filter[4] + j))

(* The scratch buffer's slices hold the padded tensors with the extra pad  *)
(* their Resize asks for, and no kernel loads more than that pad behind    *)
(* the input; 7x1 on NEON, one channel at a time, loads up to two rows     *)
(* more, and only it.                                                      *)
ReadsWithinPad ==
  call.kernel = "conv2d" =>
    LET x == call.args
        p == Plan(x)
        s == ScratchSizes(x, p)
        rows == IF p.kernel = "7x1s1" /\ x.arch # "cpu" THEN 2 * p.extraIn[4] ELSE 0
    IN  /\ p.padInput => 4 * Volume(p.extraIn) + ExtraPad(x.arch) <= s.paddedInput
        /\ p.padOutput => 4 * Volume(p.extraOut) <= s.paddedOutput
        /\ ConvolutionReach(x) <= Volume(p.extraIn) + Larger(ExtraPad(x.arch) \div 4, rows)

-----------------------------------------------------------------------------
(* Operators that move data write every element of the output once, from   *)
(* where the operator's definition says, although they copy by rows, lanes *)
(* and blocks, some in parallel.  Space is cleared and copied in steps of  *)
(* a size that has nothing to do with the shapes.  Slices are TensorFlow's *)
(* for a beginning inside the array; whole rows from behind their end are  *)
(* left to a negative copy.                                                *)
DataMovedRight ==
  LET a == call.args
      inside == \A d \in 1..Len(a.begin) :
                  d \in a.beginMask \/ Within(a.begin[d], -a.in[d], a.in[d] - 1)
      backwards == ByFirstAxis(a) /\ RealEnd(a, 1) < RealBegin(a, 1)
  IN
  /\ call.kernel = "transpose" => Transpose(a.in, a.dims) = TransposeExpected(a.in, a.dims)
  /\ call.kernel = "concat" => Concat(a.ins, a.axis) = ConcatExpected(a.ins, a.axis)
  /\ call.kernel = "slice" =>
       SliceInto(a.in, a.axis, a.outputs) = SliceExpected(a.in, a.axis, a.outputs)
  /\ call.kernel = "stack" => Stack(a.in, a.axis, a.n) = StackExpected(a.in, a.axis, a.n)
  /\ call.kernel = "gather" =>
       Gather(a.in, a.indices, a.axis) = GatherExpected(a.in, a.indices, a.axis)
  /\ call.kernel = "pad" => Pad(a.in, a.paddings) = PadExpected(a.in, a.paddings)
  /\ call.kernel = "crop" =>
       Crop(a.in, a.like, a.axis, a.offset) = CropExpected(a.in, a.like, a.axis, a.offset)
  /\ call.kernel = "shuffle" => ChannelShuffle(a.in, a.groups) = ShuffleExpected(a.in, a.groups)
  /\ call.kernel = "depthtospace" => DepthToSpace(a.in, a.block) = DepthExpected(a.in, a.block)
  /\ call.kernel = "spacetodepth" =>
       SpaceToDepth(a.in, a.block)
         = {<<t[2], t[1]>> : t \in DepthExpected(SpaceToDepthShape(a.in, a.block), a.block)}
  /\ call.kernel = "spacetobatch" =>
       SpaceToBatch(a.in, a.block, a.paddings) = BatchExpected(a.in, a.block, a.paddings)
  /\ call.kernel = "batchtospace" =>
       BatchToSpace(a.in, a.block, a.paddings)
         = {<<t[2], t[1]>> : t \in {u \in BatchExpected(BatchToSpaceShape(a.in, a.block, a.paddings),
                                                       a.block, a.paddings) : u[2] # Zero}}
  /\ call.kernel = "stridedslice" =>
       ~inside \/ backwards \/ SliceStrided(a) = StridedSliceExpected(a)

(* Each element of the result combines the elements of both operands that  *)
(* broadcasting gives it, the operands in the order of the call, although  *)
(* the code exchanges them when the second is larger and has five ways to  *)
(* walk through them; AddN adds each element of each input once.  NCHW     *)
(* pictures smaller than the first one's but larger than a pixel are taken *)
(* for a value per channel; and a value per channel of a tensor with only  *)
(* one pixel is taken for a row.                                           *)
EltwiseRight ==
  LET x == call.args
      sameSize == Elements(First(x)) = Elements(Second(x))
      picture == Len(Second(x)) = 4 /\ ~sameSize /\ Elements(SubSeq(Second(x), 3, 4)) > 1
      channel == Len(Second(x)) = 1 /\ sameSize
  IN
  /\ call.kernel = "eltwise" =>
       \/ x.format = "NCHW" /\ (picture \/ channel)
       \/ LET r == DoEltwise(x) IN {<<o, r[o]>> : o \in DOMAIN r} = EltwiseExpected(x)
  /\ call.kernel = "addn" =>
       LET added == AddN(x.size, x.n) IN
       /\ {<<t[1], t[2]>> : t \in added} = (0..(x.size - 1)) \X (1..x.n)
       /\ Cardinality(added) = x.size * x.n

-----------------------------------------------------------------------------
Parts(result) == {result[o] : o \in DOMAIN result}

(* Pooling with windows as large as the strides looks at every element of  *)
(* the picture, if there is padding, and at some element in each window,   *)
(* unless the padding was given: then the last window may lie outside.     *)
(* What ReduceMean does with dimensions it has merged is what it should do *)
(* with the originals.  Softmax divides the elements into groups of one    *)
(* pixel's channels or one row; normalisation looks both ways.  ArgMax     *)
(* takes the first maximum.  Resizing interpolates between neighbours, and *)
(* with aligned corners it keeps the corners.  Parameters are those of the *)
(* element's channel.                                                      *)
AggregatesRight ==
  LET a == call.args
      channelAt(r, shape, d) == \A c \in Coordinates(shape) : r[Flat(shape, c)] = c[d]
  IN
  /\ call.kernel = "pooling" =>
       LET windows == Parts(MaxPooling(a, PoolingSizes(a))) IN
       /\ a.padding.type # "GIVEN" => \A w \in windows : w.over # {}
       /\ (\A i \in 1..2 : a.kernel[i] >= a.strides[i]) /\ a.padding.type # "VALID" =>
            UNION {w.over : w \in windows} = 0..(Volume(a.in) - 1)
  /\ call.kernel = "reduce" =>
       LET r == ReduceMean(a) IN {<<o, r[o]>> : o \in DOMAIN r} = ReduceExpected(a)
  /\ call.kernel = "softmax" =>
       LET r == Softmax(a.in) IN
       /\ \A o \in DOMAIN r : o \in r[o] /\ Cardinality(r[o]) = a.in[2]
       /\ \A v, w \in Parts(r) : v = w \/ v \cap w = {}
  /\ call.kernel = "lrn" =>
       LET r == LocalResponseNorm(a.in, a.radius) IN
       \A o, p \in DOMAIN r : o \in r[p] <=> p \in r[o]
  /\ call.kernel = "argmax" =>
       \A i \in 0..(a.rows - 1) :
         LET best == ArgMax(a.values, a.rows, a.inner)[i]
             at(j) == a.values[i * a.inner + j]
         IN  \A j \in 0..(a.inner - 1) : at(j) <= at(best) /\ (j < best => at(j) < at(best))
  /\ call.kernel = "resize" =>
       LET r == ResizeBilinear(a.in, a.size, a.align)
           all == 0..(Volume(a.in) - 1)
           last == a.in[1] * a.in[2] * a.size[1] * a.size[2] - 1
       IN  /\ \A o \in DOMAIN r :
                /\ \A i \in 1..4 : r[o][i] \in all
                /\ r[o][2] - r[o][1] \in {0, 1} /\ r[o][4] - r[o][3] = r[o][2] - r[o][1]
                /\ r[o][3] - r[o][1] \in {0, a.in[4]}
           /\ a.align /\ a.size[1] > 1 /\ a.size[2] > 1 =>
                r[0][1] = 0 /\ r[last][1] = Volume(a.in) - 1
  /\ call.kernel = "batchnorm" => channelAt(BatchNorm(a.in), a.in, 2)
  /\ call.kernel = "biasadd" =>
       channelAt(BiasAdd(a.in, a.format), a.in, IF a.format = "NCHW" THEN 2 ELSE Len(a.in))
  /\ call.kernel = "prelu" => channelAt(PReLUActivation(a.in[1], a.in[2], a.in[3]), a.in, 2)

-----------------------------------------------------------------------------
(* The adjusted range holds the one it came from, zero is one of its       *)
(* levels, and a value of the range comes back within half a step, but     *)
(* from Quantize, which measures from the lower end that came in, less     *)
(* exactly the way that end was moved.  Not for the ranges that break.     *)
(* The quantizer for the DSP keeps all of it, for every range but that of  *)
(* zero alone.  (kernels/quantize.h 28-56, 92-97 and 173-205,              *)
(* hexagon/quantize.cc 37-92)                                              *)
ZeroIsALevel ==
  call.kernel = "quantize" =>
    LET r == call.args.range
        v == call.args.value
        holds(out) ==
          /\ out.den > 0
          /\ out.min * r.den <= r.min * out.den /\ out.max * r.den >= r.max * out.den
          /\ \E q \in 0..255 : Dequantize(out, q) = 0
        back(out, q, moved) ==
          LET error == Dequantize(out, q) * r.den - 255 * v * out.den + 255 * moved IN
          2 * Larger(error, -error) <= (out.max - out.min) * r.den
        adjusted == AdjustRange(r)
        forDsp == QuantizeAdjustRange(r)
    IN  /\ ~RangeBreaks(r) =>
             /\ holds(adjusted)
             /\ back(adjusted, Requantize(r, v), 0)
             /\ back(adjusted, Quantize(r, v), r.min * adjusted.den - adjusted.min * r.den)
        /\ r.min # 0 \/ r.max # 0 => holds(forDsp) /\ back(forDsp, QuantizerQuantize(r, v), 0)

(* The proposals returned are large enough and in the image, best first,   *)
(* none suppresses another, there are no more than asked for, and of the   *)
(* best boxes one is only missing if it is suppressed by a better one that *)
(* is returned, or the number asked for is reached.                        *)
ProposalsRight ==
  call.kernel = "proposal" =>
    LET x == call.args
        boxes == Clipped(x)
        big == BigEnough(x, boxes)
    IN  \A result \in Proposal(x) :
          LET kept == {result[n] : n \in DOMAIN result}
              better(i) == {j \in big : ScoreOf(x, j) > ScoreOf(x, i)}
              missing == {i \in big \ kept :
                            Cardinality({j \in big \ {i} : ScoreOf(x, j) >= ScoreOf(x, i)}) < x.preTop}
          IN  /\ kept \subseteq big
              /\ \A i \in kept : Cardinality(better(i)) < x.preTop
              /\ \A m, n \in DOMAIN result : m < n =>
                   /\ ScoreOf(x, result[m]) >= ScoreOf(x, result[n])
                   /\ ~Suppresses(x, boxes[result[m]], boxes[result[n]])
              /\ Len(result) <= x.postTop
              /\ Len(result) = x.postTop
                   \/ \A i \in missing : \E k \in kept :
                         ScoreOf(x, k) >= ScoreOf(x, i) /\ Suppresses(x, boxes[k], boxes[i])

(* However a kernel is cut into groups and blocks, with default, tuned or  *)
(* just tuning parameters, each of its items is run exactly once by each   *)
(* run of the kernel, no group is larger than the device allows, and where *)
(* groups must be equal each enqueue is a multiple of them.                *)
WorkCoveredOnce ==
  call.kernel = "enqueue" =>
    LET a == call.args
        runs == IF Len(a.gws) = 3 THEN TuningOrRun3DKernel(a.gws, a.device, a.mode)
                ELSE TuningOrRun2DKernel(a.gws, a.lws, a.device, a.mode)
        covers(r, c) == \A d \in DOMAIN c : Within(c[d], r.offset[d], r.offset[d] + r.items[d] - 1)
    IN  \A ranges \in runs :
          /\ \A c \in Coordinates(a.gws) : Cardinality({r \in ranges : covers(r, c)}) = 1
          /\ \A r \in ranges :
               /\ Elements(r.group) \in 1..a.device.maxGroup
               /\ a.device.nonUniform \/ \A d \in DOMAIN r.group : r.items[d] % r.group[d] = 0
=============================================================================
