------------------------------- MODULE MCKernels -------------------------------
(***************************************************************************)
(* Small calls of the kernels: sizes around the tiles, registers and       *)
(* blocks that the code works in.                                          *)
(***************************************************************************)
EXTENDS Kernels

G(arch, b, h, k, w, ta, tb) ==
  [arch |-> arch, batch |-> b, height |-> h, K |-> k, width |-> w, transA |-> ta, transB |-> tb]

(* Heights and depths around the register tiles of 8x8 and 6x4; with       *)
(* blocks of ten also around two blocks.                                   *)
MCGemmCalls ==
  {G(a, 1, h, k, w, FALSE, FALSE) : a \in Arch \ {"cpu"}, h \in {1, 2, 5, 6, 7, 8, 9},
                                    k \in {1, 3, 4, 5, 8, 9}, w \in {2, 4, 5}}
    \cup {G(a, 2, h, k, w, ta, tb) : a \in Arch, h \in {1, 3, 12}, k \in {1, 4, 13},
                                     w \in {1, 5, 11}, ta \in BOOLEAN, tb \in BOOLEAN}

MCTileCalls == [size : {2}, p : 0..15, q : 0..8] \cup [size : {6}, p : 0..7, q : 0..2]

MCBatchCalls == [arch : {"armv8", "cpu"}, batch : {1, 2}, in : {1, 3}, out : {1, 4},
                 tiles : {1, 2, 5}, area : {2}]

Type(t)  == [type |-> t, size |-> <<0, 0>>]
Given(p) == [type |-> "GIVEN", size |-> p]

X(a, in, f, s, d, p, t) ==
  [arch |-> a, in |-> in, filter |-> f, strides |-> s, dilations |-> d, padding |-> p,
   transformed |-> t]

Builds == {"armv8", "armv7", "cpu"}

(* All kernels of a fixed filter, on pictures a little larger than it.     *)
Fixed(kh, kw, s, out) ==
  {X(a, <<1, 1, h, w>>, <<o, 1, kh, kw>>, <<s, s>>, <<1, 1>>, p, FALSE) :
     a \in Builds, o \in out, h \in {kh, kh + 2}, w \in {kw, kw + 5},
     p \in {Type("SAME"), Type("VALID"), Given(<<2, 1>>)}}

Channels(kh, kw, s) ==
  {X(a, <<2, 2, kh + 1, kw>>, <<3, 2, kh, kw>>, <<s, s>>, <<1, 1>>, Type("SAME"), FALSE) :
     a \in Builds}

General ==
  {X("cpu", <<1, 2, h, w>>, <<o, 2, kh, kw>>, s, d, p, FALSE) :
     o \in {1, 5}, h \in {3, 4}, w \in {4, 7}, kh \in {1, 2}, kw \in {1, 3},
     s \in {<<1, 1>>, <<1, 2>>, <<3, 2>>}, d \in {<<1, 1>>}, p \in {Type("SAME"), Type("FULL")}}
  \cup
  {X("cpu", <<1, 1, h, w>>, <<2, 1, 3, 3>>, <<1, 1>>, d, p, FALSE) :
     h \in {5, 6}, w \in {7, 8}, d \in {<<2, 2>>, <<2, 3>>}, p \in {Type("SAME"), Type("VALID")}}

Winograds ==
  {X("cpu", <<1, 1, h, w>>, <<1, 1, 3, 3>>, <<1, 1>>, <<1, 1>>, p, TRUE) :
     h \in {3, 4, 17}, w \in {3, 6, 17, 20}, p \in {Type("SAME"), Type("VALID"), Type("FULL")}}

MCConvCalls ==
  UNION {Fixed(3, 3, 1, {1, 2, 3}), Fixed(3, 3, 2, {2}), Fixed(1, 1, 1, {2, 9}), Fixed(5, 5, 1, {1, 5}),
         Fixed(1, 7, 1, {1, 5}), Fixed(7, 1, 1, {1, 5}), Fixed(7, 7, 1, {1, 4}),
         Fixed(7, 7, 2, {1, 4}), Fixed(7, 7, 3, {5}), Fixed(1, 15, 1, {1, 4}),
         Fixed(15, 1, 1, {1, 4}),
         Channels(3, 3, 1), Channels(3, 3, 2), Channels(5, 5, 1), Channels(1, 7, 1), Channels(7, 1, 1),
         Channels(1, 15, 1), General, Winograds}

MCDepthwiseCalls ==
  {X(a, <<1, 2, h, w>>, <<m, 2, k, k>>, <<s, s>>, <<1, 1>>, p, FALSE) :
     a \in {"armv8", "cpu"}, h \in {3, 4, 7}, w \in {3, 6, 11}, m \in {1, 2}, k \in {3}, s \in {1, 2},
     p \in {Type("SAME"), Type("VALID"), Type("FULL"), Given(<<1, 3>>)}}
  \cup
  {X("armv8", <<2, 1, 5, 6>>, <<1, 1, 2, 3>>, <<s, 1>>, <<1, 2>>, Type("SAME"), FALSE) : s \in {1, 2}}

-----------------------------------------------------------------------------
MCMatMulCalls ==
  {[arch |-> a, a |-> <<2, 2>> \o (IF ta THEN <<k, h>> ELSE <<h, k>>),
    b |-> <<2, 2>> \o (IF tb THEN <<w, k>> ELSE <<k, w>>), transA |-> ta, transB |-> tb] :
     a \in {"armv8", "cpu"}, h \in {1, 2, 3}, k \in {1, 4}, w \in {1, 2, 3},
     ta \in BOOLEAN, tb \in BOOLEAN}

MCFullyConnectedCalls ==
  {[arch |-> a, in |-> <<n, 2, h, 1>>, weight |-> <<o, 2, h, 1>>] :
     a \in {"armv8", "cpu"}, n \in {1, 2}, h \in {1, 2, 3}, o \in {1, 4, 5}}

(* Deconvolutions from Caffe, and from TensorFlow every output its check   *)
(* accepts.                                                                *)
Caffe ==
  {[from |-> "caffe", in |-> <<1, c, h, w>>, filter |-> <<o, c, k, 2>>, strides |-> <<s, 2>>,
    paddings |-> <<p, 1>>] :
     c \in {1, 2}, o \in {1, 2}, h \in {1, 3}, w \in {1, 2}, k \in {1, 3, 4}, s \in {1, 2, 3},
     p \in {0, 1, 2}}

TensorFlow ==
  {[from |-> "tensorflow", in |-> <<1, 1, h, 2>>, filter |-> <<2, 1, k, 3>>, strides |-> <<s, 2>>,
    out |-> <<y, x>>, type |-> t] :
     h \in {1, 3}, k \in {1, 3, 4}, s \in {1, 2, 3}, y \in 1..12, x \in 3..6,
     t \in {"SAME", "VALID"}}

MCDeconvCalls ==
  {x \in Caffe : (x.in[3] - 1) * x.strides[1] + x.filter[3] > x.paddings[1]}
    \cup {x \in TensorFlow : LegalDeconv(x)}

MCDepthwiseDeconvCalls ==
  {[from |-> "caffe", in |-> <<2, 2, h, 2>>, filter |-> <<2, 1, k, 3>>, strides |-> <<s, 2>>,
    paddings |-> <<p, 2>>] : h \in {1, 3}, k \in {3, 4}, s \in {1, 2}, p \in {0, 1, 2}}

Permutation == {d \in (0..3) \X (0..3) \X (0..3) \X (0..3) : {d[i] : i \in 1..4} = 0..3}

Call(kernel, args) == {[kernel |-> kernel, args |-> a] : a \in args}

Small == {<<1, 1, 2, 3>>, <<2, 3, 1, 2>>}

MoveCalls ==
  Call("transpose", {[in |-> <<2, 2, w, 3>>, dims |-> d] : w \in {1, 5}, d \in Permutation}
                      \cup {[in |-> <<3, 4>>, dims |-> <<1, 0>>]})
    \cup Call("concat", {[ins |-> <<[in EXCEPT ![a] = 1], in, [in EXCEPT ![a] = 3]>>, axis |-> a] :
                           in \in Small, a \in 1..4})
    \cup Call("slice", {[in |-> [in EXCEPT ![a] = n], axis |-> a, outputs |-> 2] :
                          in \in Small, a \in 1..4, n \in {2, 4}})
    \cup Call("stack", {[in |-> in, axis |-> a, n |-> n] :
                          in \in {<<3>>, <<2, 3>>}, a \in {-1, 0, 1}, n \in {1, 3}})
    \cup Call("gather", {[in |-> <<3, 2, 4>>, indices |-> i, axis |-> a] :
                           i \in {<<1>>, <<1, 0, 1>>}, a \in {-1, 0, 1, 2}})
    \cup Call("pad", {[in |-> in, paddings |-> <<a, 0, b, 1, 1, a, 2, b>>] :
                        in \in Small, a \in {0, 1}, b \in {0, 2}})
    \cup Call("crop", {x \in {[in |-> <<2, 3, 4, 4>>, like |-> <<1, 2, h, 2>>, axis |-> a, offset |-> o] :
                                h \in {1, 3}, a \in 1..4, o \in {<<>>, <<1>>}}
                              \cup {[in |-> <<2, 3, 4, 4>>, like |-> <<1, 2, 3, 2>>, axis |-> 3, offset |-> <<1, 2>>]} :
                        LegalCrop(x.in, x.like, x.axis, x.offset)})

Blocks == {<<1, 1>>, <<2, 2>>, <<2, 3>>, <<3, 1>>}
Edges  == {<<0, 0, 0, 0>>, <<1, 0, 2, 0>>, <<2, 3, 1, 1>>, <<4, 0, 0, 2>>}

BlockCalls ==
  Call("shuffle", {[in |-> <<2, c, 1, 2>>, groups |-> g] : c \in {6}, g \in {1, 2, 3}})
    \cup Call("depthtospace", {[in |-> <<2, d * b * b, 2, 1>>, block |-> b] : d \in {1, 2}, b \in 1..3})
    \cup Call("spacetodepth", {[in |-> <<2, d, b, 2 * b>>, block |-> b] : d \in {1, 2}, b \in 1..3})
    \cup Call("spacetobatch",
              {x \in {[in |-> <<n, 1, h, w>>, block |-> b, paddings |-> p] :
                        n \in {1, 2}, h \in 1..5, w \in {2, 4, 6}, b \in Blocks, p \in Edges} :
                 LegalSpaceToBatch(x.in, x.block, x.paddings)})
    \cup Call("batchtospace",
              {x \in {[in |-> <<n * b[1] * b[2], 2, h, w>>, block |-> b, paddings |-> p] :
                        n \in {1, 2}, h \in 2..3, w \in {1, 2}, b \in Blocks, p \in Edges} :
                 \A i \in 3..4 : BatchToSpaceShape(x.in, x.block, x.paddings)[i] > 0})

(* Slices of one dimension with every beginning, end and step; of two with *)
(* a few, of three by whole rows; and Slice with sizes.                    *)
S(in, b, e, s, bm, em) ==
  [in |-> in, begin |-> b, end |-> e, strides |-> s, beginMask |-> bm, endMask |-> em,
   shrinkMask |-> {}, isSlice |-> FALSE]

StridedSlices ==
  {x \in {S(<<4>>, <<b>>, <<e>>, <<s>>, bm, em) :
            b \in -4..4, e \in -6..5, s \in {-3, -2, -1, 1, 2, 3}, bm \in {{}, {1}}, em \in {{}, {1}}}
         \cup {S(<<3, 4>>, <<b, c>>, <<e, 3>>, <<s, t>>, {}, {}) :
                 b \in {0, 2}, c \in {0, 1}, e \in {0, 3}, s \in {-1, 1, 2}, t \in {-1, 1, 2}}
         \cup {S(<<3, 2, 2>>, <<b>>, <<e>>, <<1>>, {}, {}) : b \in {0, 1}, e \in {1, 3, -1}}
         \cup {[S(<<4, 3>>, <<1, b>>, <<n, -1>>, <<1, 1>>, {}, {}) EXCEPT !.isSlice = TRUE] :
                 b \in {0, 1}, n \in {-1, 1, 2}} :
     LegalStridedSlice(x)}

-----------------------------------------------------------------------------
E(type, coeff, in0, in1, format) ==
  [type |-> type, coeff |-> coeff, in0 |-> in0, in1 |-> in1, format |-> format]

Shapes == {<<1>>, <<3>>, <<2, 3>>, <<1, 3>>, <<2, 1>>, <<2, 1, 3>>, <<1, 2, 1>>, <<2, 2, 3>>}
Pictures == {<<2, 2, 1, 3>>, <<1, 2, 1, 3>>, <<2, 2, 1, 1>>, <<1, 2, 1, 1>>, <<2>>}

Eltwises ==
  {x \in {E(t, c, a, b, "NHWC") : t \in {"SUM", "SUB", "PROD"}, c \in BOOLEAN,
                                  a \in Shapes, b \in Shapes \cup {<<>>}}
         \cup {E(t, c, a, b, "NCHW") : t \in {"SUM", "SUB", "PROD"}, c \in BOOLEAN,
                                       a \in Pictures, b \in Pictures \cup {<<>>}} :
     LegalEltwise(x)}

PoolingCalls ==
  {[in |-> <<2, 2, h, w>>, kernel |-> <<k, 2>>, strides |-> s, dilations |-> <<1, 1>>,
    padding |-> p, type |-> t] :
     h \in 3..5, w \in {2, 4}, k \in {1, 3}, s \in {<<1, 1>>, <<2, 2>>, <<2, 3>>},
     p \in {Type("SAME"), Type("VALID"), Given(<<0, 0>>), Given(<<2, 1>>)}, t \in {"MAX", "AVG"}}

Reductions ==
  {x \in {[in |-> in, axis |-> a, keep |-> TRUE] :
            in \in {<<2, 3, 1, 2>>, <<1, 2, 2, 3>>, <<3, 2, 2>>, <<2, 2, 2, 2>>, <<2, 3>>},
            a \in SUBSET {0, 1, 2, -1}} :
     (\A i \in x.axis : i < Len(x.in)) /\ LegalReduce(x)}

AggregateCalls ==
  Call("pooling", PoolingCalls)
    \cup Call("reduce", Reductions)
    \cup Call("softmax", {[in |-> in] : in \in {<<2, 3, 2, 2>>, <<1, 1, 2, 1>>, <<3, 4>>}})
    \cup Call("lrn", {[in |-> <<2, 5, 1, 2>>, radius |-> r] : r \in 0..3})
    \cup Call("argmax", {[rows |-> 2, inner |-> 3, values |-> v] : v \in [0..5 -> {1, 2}]})
    \cup Call("resize", {[in |-> <<1, 2, h, w>>, size |-> <<y, x>>, align |-> al] :
                           h \in {1, 3}, w \in {2, 4}, y \in {1, 3, 5}, x \in {2, 3}, al \in BOOLEAN})

PerChannelCalls ==
  Call("batchnorm", {[in |-> <<2, 3, 2, 2>>]})
    \cup Call("biasadd", {[in |-> <<2, 3, 2, 2>>, format |-> f] : f \in {"NCHW", "NHWC"}})
    \cup Call("prelu", {[in |-> <<2, 3, 4>>]})

QuantizeCalls ==
  {[range |-> [min |-> lo, max |-> hi, den |-> 10], value |-> v] :
     <<lo, hi, v>> \in {t \in {-600, -300, -256, -41, -40, -7, -1, 0, 2} \X {-1, 0, 1, 20, 33, 200, 301} \X (-300..301) :
                         t[1] <= t[3] /\ t[3] <= t[2] /\ t[3] % 3 = 0}}

(* Two places with two anchors each; boxes that overlap a little, a lot    *)
(* and not at all, some of them over the edge.                             *)
Boxes == {<<0, 0, 3, 3>>, <<1, 0, 4, 3>>, <<5, -2, 9, 1>>, <<0, 0, 1, 0>>}

ProposalCalls ==
  {[height |-> 1, width |-> 2, anchors |-> 2, boxes |-> b, score |-> [i \in 0..7 |-> sc[i + 1]],
    image |-> <<8, 8>>, minSize |-> 2, thresh |-> <<1, 2>>, preTop |-> pre, postTop |-> post] :
     b \in [0..3 -> Boxes], sc \in {<<9, 9, 3, 2, 0, 0, 2, 1>>, <<0, 1, 1, 2, 5, 5, 3, 2>>},
     pre \in {2, 6}, post \in {1, 2, 4}}

-----------------------------------------------------------------------------
Devices == [maxGroup : {16, 64}, base : {0, 2}, nonUniform : BOOLEAN]

Modes(gws) ==
  {[how |-> "default", gws |-> gws, limit |-> FALSE, slow |-> 0]}
    \cup [how : {"table"}, gws : {gws, [i \in DOMAIN gws |-> 5]}, limit : BOOLEAN, slow : {0, 2}]
    \cup [how : {"tune"}, gws : {gws}, limit : BOOLEAN, slow : {0, 1, 20}]

EnqueueCalls ==
  UNION {{[gws |-> g, lws |-> <<>>, device |-> d, mode |-> m] : d \in Devices, m \in Modes(g)} :
           g \in {<<1, 1, 1>>, <<4, 3, 7>>, <<2, 17, 5>>, <<9, 2, 10>>}}
    \cup
  UNION {{[gws |-> g, lws |-> <<d.maxGroup \div 8, 8, 0>>, device |-> d, mode |-> m] :
            d \in Devices, m \in Modes(g)} : g \in {<<1, 1>>, <<5, 9>>, <<17, 3>>}}

MCCalls ==
  UNION {Call("gemm", MCGemmCalls), Call("tile", MCTileCalls), Call("batch", MCBatchCalls),
         Call("matmul", MCMatMulCalls), Call("fullyconnected", MCFullyConnectedCalls),
         Call("conv2d", MCConvCalls), Call("depthwise", MCDepthwiseCalls),
         Call("deconv2d", MCDeconvCalls), Call("depthwisedeconv2d", MCDepthwiseDeconvCalls),
         MoveCalls, BlockCalls, Call("stridedslice", StridedSlices), Call("eltwise", Eltwises),
         Call("addn", [size : {1, 3, 6, 11}, n : {1, 2, 3}]), AggregateCalls, PerChannelCalls,
         Call("quantize", QuantizeCalls), Call("proposal", ProposalCalls),
         Call("enqueue", EnqueueCalls)}

(* What the proofs suppose of enqueued work, of ranges that are quantized, *)
(* of convolutions and of matrix products.                                 *)
ASSUME EnqueuesAssumption == \A c \in MCCalls : c.kernel = "enqueue" => IsEnqueue(c.args)
ASSUME QuantizesAssumption == \A c \in MCCalls : c.kernel = "quantize" => IsQuantizing(c.args)
ASSUME ConvolvesAssumption == \A c \in MCCalls : c.kernel = "conv2d" => IsConvolution(c.args)
ASSUME MultipliesAssumption ==
  \A c \in MCCalls :  /\ c.kernel = "gemm" => IsGemm(c.args)
                      /\ c.kernel = "matmul" => IsMatMul(c.args)
                      /\ c.kernel = "fullyconnected" => IsFullyConnected(c.args)
                      /\ c.kernel = "batch" => IsBatch(c.args)
===============================================================================
