------------------------------ MODULE DataMovement ------------------------------
(***************************************************************************)
(* Operators of the CPU that only move elements (headers of mace/kernels). *)
(*                                                                         *)
(* What an operator writes is a set of pairs <<position in the output,     *)
(* source>>; a source is a position in the input, <<input, position>> when *)
(* there are several inputs, or Zero.                                      *)
(***************************************************************************)
EXTENDS Windows

CONSTANT TileArea   \* elements worked on at a time by SpaceToBatch, 8 * 1024 in the code

ASSUME MovementAssumption == TileArea \in Nat \ {0}

Before(s, i)   == SubSeq(s, 1, i - 1)
After(s, i)    == SubSeq(s, i + 1, Len(s))

Sum(s) ==
  LET sum[n \in 0..Len(s)] == IF n = 0 THEN 0 ELSE sum[n - 1] + s[n]
  IN  sum[Len(s)]

-----------------------------------------------------------------------------
(* Transpose: two dimensions, or four in any order; dims counts from 0.    *)
TransposedShape(in, dims) == [i \in DOMAIN dims |-> in[dims[i] + 1]]

(* Four pixels at a time with NEON, and the rest one by one.               *)
TransposeNHWCToNCHWC3(height, width) ==
  LET w4 == 4 * (width \div 4) IN
  {<<h * width + w + l + c * height * width, h * width * 3 + 3 * (w + l) + c>> :
     h \in 0..(height - 1), w \in {i \in 0..(w4 - 1) : i % 4 = 0}, l \in 0..3, c \in 0..2}
    \cup {<<h * width + height * width * c + w, h * width * 3 + w * 3 + c>> :
            h \in 0..(height - 1), w \in w4..(width - 1), c \in 0..2}

TransposeNCHWToNHWCC2(height, width) ==
  LET w4 == 4 * (width \div 4) IN
  {<<h * width * 2 + 2 * (w + l) + c, h * width + c * height * width + w + l>> :
     h \in 0..(height - 1), w \in {i \in 0..(w4 - 1) : i % 4 = 0}, l \in 0..3, c \in 0..1}
    \cup {<<h * width * 2 + w * 2 + c, h * width + height * width * c + w>> :
            h \in 0..(height - 1), w \in w4..(width - 1), c \in 0..1}

(* Of each picture of the batch.                                           *)
Batched(batch, size, moves) ==
  {<<b * size + t[1], b * size + t[2]>> : b \in 0..(batch - 1), t \in moves}

Transpose4(in, dims) ==
  LET out == TransposedShape(in, dims)
      from(o) == [i \in 1..4 |-> CHOOSE v \in 0..(in[i] - 1) :
                                   \E d \in 1..4 : dims[d] = i - 1 /\ v = o[d]]
  IN  {<<At(out, o[1], o[2], o[3], o[4]),
         At(in, from(o)[1], from(o)[2], from(o)[3], from(o)[4])>> :
         o \in (0..(out[1] - 1)) \X (0..(out[2] - 1)) \X (0..(out[3] - 1)) \X (0..(out[4] - 1))}

Transpose(in, dims) ==
  CASE Len(in) = 2 ->
         {<<j * in[1] + i, i * in[2] + j>> : i \in 0..(in[1] - 1), j \in 0..(in[2] - 1)}
    [] Len(in) = 4 /\ dims = <<0, 3, 1, 2>> /\ in[4] = 3 ->
         Batched(in[1], in[2] * in[3] * in[4], TransposeNHWCToNCHWC3(in[2], in[3]))
    [] Len(in) = 4 /\ dims = <<0, 2, 3, 1>> /\ in[2] = 2 ->
         Batched(in[1], in[2] * in[3] * in[4], TransposeNCHWToNHWCC2(in[3], in[4]))
    [] OTHER -> Transpose4(in, dims)

-----------------------------------------------------------------------------
(* Concat: the inputs' rows one after the other (axis counts from 1 here,  *)
(* as everywhere below).                                                   *)
ConcatShape(ins, axis) ==
  [ins[1] EXCEPT ![axis] = Sum([i \in DOMAIN ins |-> ins[i][axis]])]

Concat(ins, axis) ==
  LET rows == Elements(Before(ins[1], axis))
      size(i) == Elements(ins[i]) \div rows
      sizes == [i \in DOMAIN ins |-> size(i)]
  IN  UNION {{<<r * Sum(sizes) + Sum(SubSeq(sizes, 1, i - 1)) + k, <<i, r * size(i) + k>> >> :
                k \in 0..(size(i) - 1)} : r \in 0..(rows - 1), i \in DOMAIN ins}

(* Slice: equal parts; what does not divide is dropped. Pairs are          *)
(* << <<output, position>>, position>>.                                     *)
SlicedShape(in, axis, outputs) == [in EXCEPT ![axis] = @ \div outputs]

SliceInto(in, axis, outputs) ==
  LET channels == in[axis] \div outputs
      inner == Elements(After(in, axis))
      outer == Elements(Before(in, axis))
  IN  {<< <<i, o * channels * inner + k>>, o * in[axis] * inner + (i - 1) * channels * inner + k>> :
         o \in 0..(outer - 1), i \in 1..outputs, k \in 0..(channels * inner - 1)}

(* Stack: a new dimension.                                                 *)
StackAxis(shape, axis) == IF axis < 0 THEN axis + Len(shape) + 1 ELSE axis

Stack(shape, axis, n) ==
  LET low  == Elements(SubSeq(shape, StackAxis(shape, axis) + 1, Len(shape)))
      high == Elements(SubSeq(shape, 1, StackAxis(shape, axis)))
  IN  {<<(h * n + i - 1) * low + k, <<i, h * low + k>> >> :
         h \in 0..(high - 1), i \in 1..n, k \in 0..(low - 1)}

(* Gather: rows of params picked by indices.                               *)
Gather(params, indices, axis) ==
  LET a   == IF axis < 0 THEN axis + Len(params) + 1 ELSE axis + 1
      lhs == Elements(Before(params, a))
      rhs == Elements(After(params, a))
      n   == Len(indices)
  IN  {<<(l * n + i - 1) * rhs + k, (l * params[a] + indices[i]) * rhs + k>> :
         l \in 0..(lhs - 1), i \in 1..n, k \in 0..(rhs - 1)}

-----------------------------------------------------------------------------
(* Pad and Crop, rows at a time.                                           *)
PaddedShape(in, p) == [i \in 1..4 |-> in[i] + p[2 * i - 1] + p[2 * i]]

Pad(in, p) ==
  LET out == PaddedShape(in, p)
      copied == {<<At(out, b + p[1], c + p[3], h + p[5], p[7]) + w, At(in, b, c, h, 0) + w>> :
                   b \in 0..(in[1] - 1), c \in 0..(in[2] - 1),
                   h \in 0..(in[3] - 1), w \in 0..(in[4] - 1)}
  IN  copied \cup {<<o, Zero>> : o \in (0..(Volume(out) - 1)) \ {t[1] : t \in copied}}

CropOffsets(axis, offset) ==
  [i \in 1..4 |-> CASE i < axis \/ Len(offset) = 0 -> 0
                    [] i >= axis /\ Len(offset) = 1 -> offset[1]
                    [] OTHER -> offset[i - axis + 1]]

CroppedShape(in, like, axis) == [i \in 1..4 |-> IF i >= axis THEN like[i] ELSE in[i]]

LegalCrop(in, like, axis, offset) ==
  \A i \in axis..4 : in[i] - CropOffsets(axis, offset)[i] >= like[i]

Crop(in, like, axis, offset) ==
  LET out  == CroppedShape(in, like, axis)
      offs == CropOffsets(axis, offset)
  IN  {<<At(out, b, c, h, 0) + w, At(in, b + offs[1], c + offs[2], h + offs[3], offs[4]) + w>> :
         b \in 0..(out[1] - 1), c \in 0..(out[2] - 1), h \in 0..(out[3] - 1), w \in 0..(out[4] - 1)}

-----------------------------------------------------------------------------
(* Channels and space.                                                     *)
ChannelShuffle(in, groups) ==
  LET image == in[3] * in[4] IN
  {<<(b * in[2] + c) * image + hw,
     (b * in[2] + (c % groups) * (in[2] \div groups) + (c \div groups)) * image + hw>> :
     b \in 0..(in[1] - 1), c \in 0..(in[2] - 1), hw \in 0..(image - 1)}

DepthToSpaceShape(in, block) == <<in[1], in[2] \div (block * block), in[3] * block, in[4] * block>>
SpaceToDepthShape(in, block) == <<in[1], in[2] * block * block, in[3] \div block, in[4] \div block>>

DepthToSpace(in, block) ==
  LET out == DepthToSpaceShape(in, block) IN
  {<<At(out, b, d, h, w),
     At(in, b, d + ((h % block) * block + (w % block)) * out[2], h \div block, w \div block)>> :
     b \in 0..(in[1] - 1), d \in 0..(out[2] - 1), h \in 0..(out[3] - 1), w \in 0..(out[4] - 1)}

SpaceToDepth(in, block) ==
  LET out == SpaceToDepthShape(in, block) IN
  {<<At(out, b, d + ((h % block) * block + (w % block)) * in[2], h \div block, w \div block),
     At(in, b, d, h, w)>> :
     b \in 0..(in[1] - 1), d \in 0..(in[2] - 1), h \in 0..(in[3] - 1), w \in 0..(in[4] - 1)}

(* Space to batch and back: block and paddings are <<height, width>> and   *)
(* <<top, bottom, left, right>>.                                           *)
LegalSpaceToBatch(in, block, p) ==
  (in[3] + p[1] + p[2]) % block[1] = 0 /\ (in[4] + p[3] + p[4]) % block[2] = 0

SpaceToBatchShape(in, block, p) ==
  <<in[1] * block[1] * block[2], in[2], (in[3] + p[1] + p[2]) \div block[1],
    (in[4] + p[3] + p[4]) \div block[2]>>

BatchToSpaceShape(in, block, p) ==
  <<(in[1] \div block[1]) \div block[2], in[2], in[3] * block[1] - p[1] - p[2],
    in[4] * block[2] - p[3] - p[4]>>

(* Both work on rows of the batch in steps, and within a step on those     *)
(* that lie in the picture space.                                          *)
BlockRows(width, block) == Larger(1, (TileArea \div block[2]) \div width)

Steps(batch, space, block) ==
  {i \in 0..(batch[3] - 1) : i % BlockRows(space[4], block) = 0}

(* Bug: the first row is rounded down.                                     *)
BugValidRows(batch, space, block, p, step, tile) ==
  [first |-> Larger(step, (p[1] - tile) \div block[1]),
   end   |-> Smaller(batch[3], Smaller(step + BlockRows(space[4], block),
                                       (space[3] + p[1] - tile + block[1] - 1) \div block[1]))]

ValidRows(batch, space, block, p, step, tile) ==
  [first |-> Larger(step, (p[1] - tile + block[1] - 1) \div block[1]),
   end   |-> Smaller(batch[3], Smaller(step + BlockRows(space[4], block),
                                       (space[3] + p[1] - tile + block[1] - 1) \div block[1]))]

ValidColumns(batch, space, block, p, tile) ==
  [first |-> Larger(0, (p[3] - tile + block[2] - 1) \div block[2]),
   end   |-> Smaller(batch[4], (space[4] + p[3] - tile + block[2] - 1) \div block[2])]

(* The pairs <<position in batch, position in space>> of one step.         *)
Valid(batch, space, block, p, c, step, b) ==
  LET tileH == (b \div space[1]) \div block[2]
      tileW == (b \div space[1]) % block[2]
      rows  == ValidRows(batch, space, block, p, step, tileH)
      cols  == ValidColumns(batch, space, block, p, tileW)
  IN  {<<At(batch, b, c, h, w),
         At(space, b % space[1], c, h * block[1] + tileH - p[1], w * block[2] + tileW - p[3])>> :
         h \in rows.first..(rows.end - 1), w \in cols.first..(cols.end - 1)}

(* What is set to zero around them.                                        *)
Cleared(batch, space, block, p, c, step, b) ==
  LET tileH == (b \div space[1]) \div block[2]
      tileW == (b \div space[1]) % block[2]
      rows  == ValidRows(batch, space, block, p, step, tileH)
      cols  == ValidColumns(batch, space, block, p, tileW)
      stop  == Smaller(batch[3], step + BlockRows(space[4], block))
      whole(from, to) == {<<At(batch, b, c, from, 0) + k, Zero>> :
                            k \in 0..((to - from) * batch[4] - 1)}
  IN  whole(step, rows.first) \cup whole(rows.end, stop)
        \cup {<<At(batch, b, c, h, w), Zero>> :
                h \in rows.first..(rows.end - 1),
                w \in 0..(cols.first - 1) \cup cols.end..(batch[4] - 1)}

SpaceToBatch(in, block, p) ==
  LET out == SpaceToBatchShape(in, block, p) IN
  UNION {Valid(out, in, block, p, c, s, b) \cup Cleared(out, in, block, p, c, s, b) :
           c \in 0..(in[2] - 1), s \in Steps(out, in, block), b \in 0..(out[1] - 1)}

BatchToSpace(in, block, p) ==
  LET out == BatchToSpaceShape(in, block, p) IN
  {<<t[2], t[1]>> : t \in UNION {Valid(in, out, block, p, c, s, b) :
     c \in 0..(in[2] - 1), s \in Steps(in, out, block), b \in 0..(in[1] - 1)}}
=============================================================================
