------------------------------- MODULE Windows -------------------------------
(***************************************************************************)
(* Sizes of sliding windows and padded pictures                            *)
(* (mace/kernels/conv_pool_2d_util.cc, mace/utils/utils.h).                *)
(*                                                                         *)
(* Shapes are sequences of four, NCHW or NHWC as the functions of the code *)
(* take them; filters are OIHW; paddings, strides and dilations are pairs  *)
(* for height and width.  Arrays are functions from flat positions; what a *)
(* padded array holds is the flat position of an element of the original,  *)
(* or Zero.                                                                *)
(***************************************************************************)
EXTENDS Integers, Sequences

Larger(a, b)  == IF a >= b THEN a ELSE b
Smaller(a, b) == IF a <= b THEN a ELSE b
Within(a, lo, hi) == lo <= a /\ a <= hi

RoundUp(i, factor)    == ((i + factor - 1) \div factor) * factor
RoundUpDiv(i, factor) == (i + factor - 1) \div factor
RoundUpDiv4(i)        == (i + 3) \div 4

(* The number of elements of a shape of any rank, and of rank four.        *)
Elements(shape) ==
  LET product[n \in 0..Len(shape)] == IF n = 0 THEN 1 ELSE product[n - 1] * shape[n]
  IN  product[Len(shape)]

Volume(shape) == shape[1] * shape[2] * shape[3] * shape[4]

(* The position of element <<a, b, c, d>> in an array of that shape.       *)
At(shape, a, b, c, d) == ((a * shape[2] + b) * shape[3] + c) * shape[4] + d

-----------------------------------------------------------------------------
(* The picture's extent of a filter with holes.                            *)
Extent(k, dilation) == (k - 1) * dilation + 1

(* How often a window fits, per dimension.                                 *)
Outputs(in, k, stride, dilation, type) ==
  CASE type = "VALID" -> (in - Extent(k, dilation)) \div stride + 1
    [] type = "SAME"  -> (in - 1) \div stride + 1
    [] type = "FULL"  -> (in + Extent(k, dilation) - 2) \div stride + 1

(* What must be added to the picture so that the last window fits.         *)
PaddingFor(in, out, k, stride, dilation) ==
  Larger(0, (out - 1) * stride + Extent(k, dilation) - in)

(* dilations > 1 only with stride 1: the code ends the process otherwise.  *)
LegalWindow(strides, dilations) ==
  \A i \in 1..2 : dilations[i] >= 1 /\ (dilations[i] = 1 \/ strides[i] = 1)

CalcNCHWPaddingAndOutputSize(in, filter, dilations, strides, type) ==
  LET out(i) == Outputs(in[i + 2], filter[i + 2], strides[i], dilations[i], type)
      pad(i) == PaddingFor(in[i + 2], out(i), filter[i + 2], strides[i], dilations[i])
  IN  [output |-> <<in[1], filter[1], out(1), out(2)>>, paddings |-> <<pad(1), pad(2)>>]

CalcNHWCPaddingAndOutputSize(in, filter, dilations, strides, type) ==
  LET out(i) == Outputs(in[i + 1], filter[i + 2], strides[i], dilations[i], type)
      pad(i) == PaddingFor(in[i + 1], out(i), filter[i + 2], strides[i], dilations[i])
  IN  [output |-> <<in[1], out(1), out(2), filter[1]>>, paddings |-> <<pad(1), pad(2)>>]

CalPaddingSize(in, filter, dilations, strides, type) ==
  CalcNHWCPaddingAndOutputSize(in, filter, dilations, strides, type).paddings

(* With paddings that were given, rounded down or up.                      *)
RoundedOutputs(in, padding, k, stride, dilation, round) ==
  LET slack == in + padding - k - (k - 1) * (dilation - 1) IN
  1 + (IF round = "FLOOR" THEN slack \div stride ELSE RoundUpDiv(slack, stride))

CalcOutputSize(in, filter, padding, dilations, strides, round) ==
  LET out(i) == RoundedOutputs(in[i + 1], padding[i], filter[i + 2], strides[i],
                               dilations[i], round)
  IN  <<in[1], out(1), out(2), filter[1]>>

CalcNCHWOutputSize(in, filter, padding, dilations, strides, round) ==
  LET out(i) == RoundedOutputs(in[i + 2], padding[i], filter[i + 2], strides[i],
                               dilations[i], round)
  IN  <<in[1], filter[1], out(1), out(2)>>

-----------------------------------------------------------------------------
Zero == -1

(* The rows of all channels are written one after the other; between two   *)
(* channels a whole padding is skipped, the bottom of one and the top of   *)
(* the next.                                                               *)
ConstructNCHWInputWithPadding(in, paddings, sameValue) ==
  LET h     == in[3]
      w     == in[4]
      outH  == h + paddings[1]
      outW  == w + paddings[2]
      top   == paddings[1] \div 2
      left  == paddings[2] \div 2
      \* the nearest element of the picture
      Edge(x, n) == Larger(0, Smaller(n - 1, x))
      Source(a) ==
        LET plane == (a \div outW) \div outH
            y     == ((a \div outW) % outH) - top
            x     == (a % outW) - left
        IN  IF sameValue
            THEN (plane * h + Edge(y, h)) * w + Edge(x, w)
            ELSE IF Within(y, 0, h - 1) /\ Within(x, 0, w - 1)
                 THEN (plane * h + y) * w + x
                 ELSE Zero
  IN  [shape |-> <<in[1], in[2], outH, outW>>,
       data  |-> [a \in 0..(in[1] * in[2] * outH * outW - 1) |-> Source(a)]]

(* Bug: the bottom's size is taken for the top's.                          *)
BugPaddedFromBottom(in, top, bottom, left, right) ==
  LET out == <<in[1], in[2], in[3] + top + bottom, in[4] + left + right>>
      Source(a) ==
        LET y == ((a \div out[4]) % out[3]) - bottom
            x == (a % out[4]) - left
        IN  IF Within(y, 0, in[3] - 1) /\ Within(x, 0, in[4] - 1)
            THEN ((a \div (out[3] * out[4])) * in[3] + y) * in[4] + x
            ELSE Zero
  IN  [shape |-> out, data |-> [a \in 0..(Volume(out) - 1) |-> Source(a)]]

ConstructNCHWInputWithSpecificPadding(in, top, bottom, left, right) ==
  LET out == <<in[1], in[2], in[3] + top + bottom, in[4] + left + right>>
      Source(a) ==
        LET y == ((a \div out[4]) % out[3]) - top
            x == (a % out[4]) - left
        IN  IF Within(y, 0, in[3] - 1) /\ Within(x, 0, in[4] - 1)
            THEN ((a \div (out[3] * out[4])) * in[3] + y) * in[4] + x
            ELSE Zero
  IN  [shape |-> out, data |-> [a \in 0..(Volume(out) - 1) |-> Source(a)]]

ConstructNHWCInputWithPadding(in, paddings) ==
  LET out == <<in[1], in[2] + paddings[1], in[3] + paddings[2], in[4]>>
      Source(a) ==
        LET x == ((a \div out[4]) % out[3]) - (paddings[2] \div 2)
            y == ((a \div (out[4] * out[3])) % out[2]) - (paddings[1] \div 2)
            n == a \div (out[4] * out[3] * out[2])
        IN  IF Within(y, 0, in[2] - 1) /\ Within(x, 0, in[3] - 1)
            THEN At(in, n, y, x, a % out[4])
            ELSE Zero
  IN  [shape |-> out, data |-> [a \in 0..(Volume(out) - 1) |-> Source(a)]]
=============================================================================
