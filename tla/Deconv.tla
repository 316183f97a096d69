-------------------------------- MODULE Deconv --------------------------------
(***************************************************************************)
(* Transposed convolution on the CPU (mace/kernels/deconv_2d.h,            *)
(* mace/kernels/depthwise_deconv2d.h).                                     *)
(*                                                                         *)
(* A call x has the shapes in (NCHW) and filter (OIHW, or M1HW depthwise), *)
(* strides and, for TensorFlow's models, out (the size of the output,      *)
(* height and width) and type, for Caffe's models paddings.                *)
(***************************************************************************)
EXTENDS Windows

(* C++ rounds quotients towards zero.                                      *)
Quotient(a, b) == IF a >= 0 THEN a \div b ELSE -((-a) \div b)

CalcDeconvOutputSize(in, filter, strides, paddings) ==
  LET out(i) == (in[i + 2] - 1) * strides[i] + filter[i + 2] - paddings[i] IN
  <<in[1], filter[1], out(1), out(2)>>

CalcDepthwiseDeconvOutputSize(in, filter, strides, paddings) ==
  LET out(i) == (in[i + 2] - 1) * strides[i] + filter[i + 2] - paddings[i] IN
  <<in[1], filter[1], out(1), out(2)>>

ExpectedInput(out, k, stride, type) ==
  CASE type = "VALID" -> Quotient(out - k, stride) + 1
    [] type = "SAME"  -> Quotient(out - 1, stride) + 1

(* The process ends when the output does not belong to the input.          *)
LegalDeconv(x) ==
  x.from = "caffe" \/ \A i \in 1..2 :
    ExpectedInput(x.out[i], x.filter[i + 2], x.strides[i], x.type) = x.in[i + 2]

CalcDeconvPaddingAndInputSize(x) ==
  LET pad(i) == Larger(0, x.out[i] + x.filter[i + 2] - 1
                            - ((x.in[i + 2] - 1) * x.strides[i] + 1))
  IN  <<pad(1), pad(2)>>

DeconvSizes(x) ==
  LET paddings == IF x.from = "caffe" THEN x.paddings ELSE CalcDeconvPaddingAndInputSize(x)
  IN  [output |-> IF x.from = "caffe"
                  THEN CalcDeconvOutputSize(x.in, x.filter, x.strides, paddings)
                  ELSE <<x.in[1], x.filter[1], x.out[1], x.out[2]>>,
       pad |-> <<(paddings[1] + 1) \div 2, (paddings[2] + 1) \div 2>>]

-----------------------------------------------------------------------------
(* Along one dimension: the pairs <<element of the input, tap>> that meet  *)
(* at element o of the output, from the first on until one side ends.      *)
From1(start, tap, size, stride) ==
  {<<start + n, tap - n * stride>> : n \in {m \in 0..(size - 1 - start) : tap - m * stride >= 0}}

TapsTensorflow(o, pad, size, k, stride) ==
  LET start == Larger(0, o + stride - 1 - pad) \div stride IN
  From1(start, k - 1 - (pad + stride * start - o), size, stride)

(* Bug: the first element is rounded down instead of up.                   *)
BugTapsCaffe(o, pad, size, k, stride) ==
  LET start == Larger(0, Quotient(o - (k - 1 - pad), stride)) IN
  From1(start, k - 1 - (start * stride + (k - 1 - pad) - o), size, stride)

TapsCaffe(o, pad, size, k, stride) ==
  LET start == Larger(0, Quotient(o - (k - 1 - pad) + stride - 1, stride)) IN
  From1(start, k - 1 - (start * stride + (k - 1 - pad) - o), size, stride)

Deconv2dTerms(x, s, rows, cols) ==
  UNION {{<<At(s.output, b, oc, oh, ow), At(x.in, b, ic, y[1], z[1]),
            At(x.filter, oc, ic, y[2], z[2]), <<"sum">> >> :
            ic \in 0..(x.in[2] - 1), y \in rows[oh], z \in cols[ow]} :
           b \in 0..(s.output[1] - 1), oc \in 0..(s.output[2] - 1),
           oh \in DOMAIN rows, ow \in DOMAIN cols}

Deconv2dNCHW(x, s) ==
  Deconv2dTerms(x, s,
    [o \in 0..(s.output[3] - 1) |->
       TapsTensorflow(o, s.pad[1], x.in[3], x.filter[3], x.strides[1])],
    [o \in 0..(s.output[4] - 1) |->
       TapsTensorflow(o, s.pad[2], x.in[4], x.filter[4], x.strides[2])])

Deconv2dNCHWCaffe(x, s) ==
  Deconv2dTerms(x, s,
    [o \in 0..(s.output[3] - 1) |-> TapsCaffe(o, s.pad[1], x.in[3], x.filter[3], x.strides[1])],
    [o \in 0..(s.output[4] - 1) |-> TapsCaffe(o, s.pad[2], x.in[4], x.filter[4], x.strides[2])])

Deconv2d(x) ==
  LET s == DeconvSizes(x) IN
  IF x.from = "caffe" THEN Deconv2dNCHWCaffe(x, s) ELSE Deconv2dNCHW(x, s)

DepthwiseDeconv2dNCHW(x, output, pad) ==
  UNION {{<<At(output, b, c, oh, ow), At(x.in, b, c, y[1], z[1]),
            (c * x.filter[3] + y[2]) * x.filter[4] + z[2], <<"sum">> >> :
            y \in TapsCaffe(oh, pad[1], x.in[3], x.filter[3], x.strides[1]),
            z \in TapsCaffe(ow, pad[2], x.in[4], x.filter[4], x.strides[2])} :
           b \in 0..(output[1] - 1), c \in 0..(output[2] - 1),
           oh \in 0..(output[3] - 1), ow \in 0..(output[4] - 1)}

(* Only for Caffe's models, one filter per channel.                        *)
DepthwiseDeconv2d(x) ==
  LET output == CalcDepthwiseDeconvOutputSize(x.in, x.filter, x.strides, x.paddings) IN
  DepthwiseDeconv2dNCHW(x, output, <<(x.paddings[1] + 1) \div 2, (x.paddings[2] + 1) \div 2>>)
=============================================================================
