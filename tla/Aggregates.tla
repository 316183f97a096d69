------------------------------ MODULE Aggregates ------------------------------
(***************************************************************************)
(* Operators of the CPU whose elements come from several of the input      *)
(* (headers of mace/kernels): which elements, and how many they are        *)
(* divided by.  Results are functions from positions of the output.        *)
(***************************************************************************)
EXTENDS Windows, FiniteSets

LOCAL INSTANCE SequencesExt

CONSTANT CostPerGroup   \* additions of one part of AddN, 1024 in the code

ASSUME CostAssumption == CostPerGroup \in Nat \ {0}


-----------------------------------------------------------------------------
(* Pooling: paddings that were given are rounded up, not down.             *)
PoolingSizes(x) ==
  LET filter == <<x.in[2], x.in[2], x.kernel[1], x.kernel[2]>> IN
  IF x.padding.type = "GIVEN"
  THEN [output |-> CalcNCHWOutputSize(x.in, filter, x.padding.size, x.dilations, x.strides, "CEIL"),
        paddings |-> x.padding.size]
  ELSE CalcNCHWPaddingAndOutputSize(x.in, filter, x.dilations, x.strides, x.padding.type)

(* The elements of the picture under the window of element o.              *)
Window(x, s, o) ==
  LET w == o % s.output[4]
      h == (o \div s.output[4]) % s.output[3]
      plane == o \div (s.output[3] * s.output[4])
      y(i) == h * x.strides[1] + x.dilations[1] * i - s.paddings[1] \div 2
      z(j) == w * x.strides[2] + x.dilations[2] * j - s.paddings[2] \div 2
  IN  {(plane * x.in[3] + y(t[1])) * x.in[4] + z(t[2]) :
         t \in {u \in (0..(x.kernel[1] - 1)) \X (0..(x.kernel[2] - 1)) :
                  Within(y(u[1]), 0, x.in[3] - 1) /\ Within(z(u[2]), 0, x.in[4] - 1)}}

MaxPooling(x, s) == [o \in 0..(Volume(s.output) - 1) |-> [over |-> Window(x, s, o), by |-> 1]]
AvgPooling(x, s) ==
  [o \in 0..(Volume(s.output) - 1) |->
     [over |-> Window(x, s, o), by |-> Cardinality(Window(x, s, o))]]

Pooling(x) ==
  IF x.type = "MAX" THEN MaxPooling(x, PoolingSizes(x)) ELSE AvgPooling(x, PoolingSizes(x))

-----------------------------------------------------------------------------
(* ReduceMean: neighbouring dimensions that are both reduced or both kept  *)
(* become one; dimensions of one follow their neighbour.                   *)
Reduced(x) == IF x.axis = {} THEN DOMAIN x.in
              ELSE {IF a >= 0 THEN a + 1 ELSE a + Len(x.in) + 1 : a \in x.axis}

ReducedShape(x) ==
  LET dims == FoldLeft(LAMBDA s, i : IF i \notin Reduced(x) THEN Append(s, x.in[i])
                                     ELSE IF x.keep THEN Append(s, 1) ELSE s,
                       <<>>, [i \in DOMAIN x.in |-> i])
  IN  dims

(* Bug: neighbours are merged whether they are reduced or not.             *)
BugSimplify(x) ==
  FoldLeft(LAMBDA gs, i :
             CASE x.in[i] = 1 -> gs
               [] x.in[i] # 1 /\ gs # <<>> -> [gs EXCEPT ![Len(gs)].size = @ * x.in[i]]
               [] OTHER -> Append(gs, [size |-> x.in[i], reduce |-> i \in Reduced(x)]),
           <<>>, [i \in DOMAIN x.in |-> i])

(* Groups of the dimensions: a sequence of [size, reduce].                 *)
Simplify(x) ==
  FoldLeft(LAMBDA gs, i :
             CASE x.in[i] = 1 -> gs
               [] x.in[i] # 1 /\ gs # <<>> /\ gs[Len(gs)].reduce = (i \in Reduced(x)) ->
                    [gs EXCEPT ![Len(gs)].size = @ * x.in[i]]
               [] OTHER -> Append(gs, [size |-> x.in[i], reduce |-> i \in Reduced(x)]),
           <<>>, [i \in DOMAIN x.in |-> i])

(* At most four groups, and at least one.                                  *)
LegalReduce(x) == Len(Simplify(x)) \in 1..4

(* One loop nest for each number of groups and each kind of the first: the *)
(* indices of the groups that are kept number the output.                  *)
ReduceMean(x) ==
  LET g == Simplify(x)
      n(k) == IF k <= Len(g) THEN g[k].size ELSE 1
      reduced(k) == k <= Len(g) /\ g[k].reduce
      at(v) == ((v[1] * n(2) + v[2]) * n(3) + v[3]) * n(4) + v[4]
      kept(v) == LET i(k) == IF reduced(k) THEN 0 ELSE v[k]
                     m(k) == IF reduced(k) THEN 1 ELSE n(k)
                 IN  ((i(1) * m(2) + i(2)) * m(3) + i(3)) * m(4) + i(4)
      all == (0..(n(1) - 1)) \X (0..(n(2) - 1)) \X (0..(n(3) - 1)) \X (0..(n(4) - 1))
      count == Elements([k \in 1..4 |-> IF reduced(k) THEN n(k) ELSE 1])
  IN  [o \in {kept(v) : v \in all} |->
         [over |-> {at(v) : v \in {u \in all : kept(u) = o}}, by |-> count]]

-----------------------------------------------------------------------------
(* Softmax: over the channels of a pixel, or over a row.                   *)
SoftmaxPicture(in) ==
  LET size == in[3] * in[4] IN
  [o \in 0..(Elements(in) - 1) |->
     {(o \div (in[2] * size)) * in[2] * size + (o % size) + c * size : c \in 0..(in[2] - 1)}]

SoftmaxRows(in) ==
  [o \in 0..(Elements(in) - 1) |-> {(o \div in[2]) * in[2] + c : c \in 0..(in[2] - 1)}]

Softmax(in) == IF Len(in) = 4 THEN SoftmaxPicture(in) ELSE SoftmaxRows(in)

(* The channels around each one.                                           *)
LocalResponseNorm(in, radius) ==
  LET image == in[3] * in[4]
      channel(o) == (o \div image) % in[2]
  IN  [o \in 0..(Volume(in) - 1) |->
         {(o \div (in[2] * image)) * in[2] * image + (o % image) + c * image :
            c \in Larger(0, channel(o) - radius)..(Smaller(in[2], channel(o) + radius + 1) - 1)}]

(* ArgMax: the first of the largest of each row, v being the elements.     *)
ArgMax(v, rows, inner) ==
  LET best(i) == FoldLeft(LAMBDA b, j : IF v[i * inner + j] > b.max
                                        THEN [max |-> v[i * inner + j], idx |-> j] ELSE b,
                          [max |-> -1, idx |-> 0], [j \in 1..inner |-> j - 1])
  IN  [i \in 0..(rows - 1) |-> best(i).idx]

-----------------------------------------------------------------------------
(* Bilinear resizing: element i of n lies between the elements lower and   *)
(* upper of the input, lerp / of of the way.                               *)
CalculateResizeScale(in, out, align) ==
  IF align /\ out > 1 THEN [num |-> in - 1, den |-> out - 1] ELSE [num |-> in, den |-> out]

ComputeInterpolationWeights(out, in, scale) ==
  [i \in 0..(out - 1) |->
     LET lower == (i * scale.num) \div scale.den IN
     [lower |-> lower, upper |-> Smaller(lower + 1, in - 1),
      lerp |-> (i * scale.num) % scale.den, of |-> scale.den]]

ResizeImage(in, out, xs, ys) ==
  [o \in 0..(Volume(out) - 1) |->
     LET x == xs[o % out[4]]
         y == ys[(o \div out[4]) % out[3]]
         base == (o \div (out[3] * out[4])) * in[3] * in[4]
     IN  <<base + y.lower * in[4] + x.lower, base + y.lower * in[4] + x.upper,
           base + y.upper * in[4] + x.lower, base + y.upper * in[4] + x.upper>>]

ResizeBilinear(in, size, align) ==
  LET out == <<in[1], in[2], size[1], size[2]>> IN
  IF out = in THEN [o \in 0..(Volume(in) - 1) |-> <<o, o, o, o>>]
  ELSE ResizeImage(in, out,
         ComputeInterpolationWeights(out[4], in[4], CalculateResizeScale(in[4], out[4], align)),
         ComputeInterpolationWeights(out[3], in[3], CalculateResizeScale(in[3], out[3], align)))

-----------------------------------------------------------------------------
(* One parameter per channel: element o gets parameter number ...          *)
BatchNorm(in) == [o \in 0..(Volume(in) - 1) |-> (o \div (in[3] * in[4])) % in[2]]

BiasAdd(in, format) ==
  IF Len(in) = 4 /\ format = "NCHW"
  THEN [o \in 0..(Elements(in) - 1) |-> (o \div (in[3] * in[4])) % in[2]]
  ELSE [o \in 0..(Elements(in) - 1) |-> o % in[Len(in)]]

(* PReLU: alpha has an element per channel.                                *)
PReLUActivation(outer, channels, inner) ==
  [o \in 0..(outer * channels * inner - 1) |-> (o \div inner) % channels]

(* AddN: in parts of equal cost; element o of the output gets element o of *)
(* input j, by fours or alone.                                             *)
AddN(size, n) ==
  LET groups  == IF size * n > CostPerGroup THEN (size * n) \div CostPerGroup ELSE 1
      part    == size \div groups
      starts  == {i \in 0..(size - 1) : i % part = 0}
      count(i) == Smaller(part, size - i)
      fours(i) == count(i) \div 4
  IN  UNION {{<<i + 4 * k + m, j, i, "four">> : k \in 0..(fours(i) - 1), m \in 0..3, j \in 1..n}
             \cup {<<i + 4 * fours(i) + k, j, i, "rest">> :
                     k \in 0..(count(i) - 4 * fours(i) - 1), j \in 1..n} : i \in starts}
=============================================================================
