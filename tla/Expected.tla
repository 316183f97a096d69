-------------------------------- MODULE Expected --------------------------------
(***************************************************************************)
(* What the operators of the CPU should compute, said by coordinates: the  *)
(* reference the kernels' own definitions are compared with.  A moving     *)
(* operator is a set of pairs <<position in the output, source>>, as in    *)
(* DataMovement.                                                           *)
(***************************************************************************)
EXTENDS Conv2d, Winograd, Deconv, DataMovement, StridedSlice, Eltwise, Aggregates,
        Quantization, Proposals, WorkSizes, FiniteSets

LOCAL INSTANCE SequencesExt

(* Coordinates of an array, counted from zero, and their position.         *)
Coordinates(shape) ==
  LET longest == FoldLeft(LAMBDA m, n : Larger(m, n), 0, shape) IN
  {c \in [DOMAIN shape -> 0..(longest - 1)] : \A i \in DOMAIN shape : c[i] < shape[i]}

Flat(shape, c) ==
  LET at[i \in 0..Len(shape)] == IF i = 0 THEN 0 ELSE at[i - 1] * shape[i] + c[i]
  IN  at[Len(shape)]

Inside(shape, c) == \A i \in DOMAIN shape : Within(c[i], 0, shape[i] - 1)

Element(shape, c) == IF Inside(shape, c) THEN Flat(shape, c) ELSE Zero

Filled(out, source(_)) == {<<Flat(out, c), source(c)>> : c \in Coordinates(out)}

-----------------------------------------------------------------------------
(* Sums of products.                                                       *)
Products(terms) == {<<t[1], t[2], t[3]>> : t \in terms}

(* Exactly these products are added up, each of them once.                 *)
AddsUp(terms, products) ==
  /\ Products(terms) = products
  /\ Cardinality(terms) = Cardinality(products)

(* What a convolution is: element (h, w) of output channel m sums, over    *)
(* the input channels it sees and all taps, the elements of the picture    *)
(* under the taps; there is nothing but zeros around the picture.          *)
Convolved(x, filter, out, before, channels(_), filterAt(_, _, _, _)) ==
  LET iy(h, i) == h * x.strides[1] + i * x.dilations[1] - before[1]
      ix(w, j) == w * x.strides[2] + j * x.dilations[2] - before[2]
      rows == {t \in (0..(out[3] - 1)) \X (0..(filter[3] - 1)) :
                 Within(iy(t[1], t[2]), 0, x.in[3] - 1)}
      cols == {t \in (0..(out[4] - 1)) \X (0..(filter[4] - 1)) :
                 Within(ix(t[1], t[2]), 0, x.in[4] - 1)}
  IN  UNION {{<<At(out, b, m, r[1], s[1]), At(x.in, b, c, iy(r[1], r[2]), ix(s[1], s[2])),
                filterAt(m, c, r[2], s[2])>> :
                b \in 0..(out[1] - 1), c \in channels(m), r \in rows, s \in cols} :
               m \in 0..(out[2] - 1)}

(* A transposed convolution is the convolution of its own output, with the *)
(* products the other way round; before is the padding of that one.        *)
ConvolvedBack(x, out, before, channels(_), filterAt(_, _, _, _)) ==
  LET forward == [in |-> out, strides |-> x.strides, dilations |-> <<1, 1>>] IN
  {<<t[2], t[1], t[3]>> :
     t \in Convolved(forward, x.filter, x.in, before, channels, filterAt)}

(* The product of the last two dimensions, for all others.                 *)
MatrixProduct(a, b, transA, transB) ==
  LET r == Len(a)
      height == a[IF transA THEN r ELSE r - 1]
      depth  == a[IF transA THEN r - 1 ELSE r]
      width  == b[IF transB THEN r - 1 ELSE r]
  IN  {<<(n * height + i) * width + j,
         n * height * depth + (IF transA THEN k * height + i ELSE i * depth + k),
         n * depth * width + (IF transB THEN j * depth + k ELSE k * width + j)>> :
         n \in 0..(Elements(SubSeq(a, 1, r - 2)) - 1), i \in 0..(height - 1),
         j \in 0..(width - 1), k \in 0..(depth - 1)}

-----------------------------------------------------------------------------
(* Moved data.                                                             *)
TransposeExpected(in, dims) ==
  Filled(TransposedShape(in, dims),
         LAMBDA c : Flat(in, [d \in DOMAIN in |->
                                c[CHOOSE i \in DOMAIN dims : dims[i] = d - 1]]))

ConcatExpected(ins, axis) ==
  LET start(i) == Sum([j \in 1..(i - 1) |-> ins[j][axis]])
      owner(c) == CHOOSE i \in DOMAIN ins : Within(c[axis] - start(i), 0, ins[i][axis] - 1)
  IN  Filled(ConcatShape(ins, axis),
             LAMBDA c : <<owner(c), Flat(ins[owner(c)], [c EXCEPT ![axis] = @ - start(owner(c))])>>)

SliceExpected(in, axis, outputs) ==
  LET out == SlicedShape(in, axis, outputs) IN
  UNION {{<< <<i, Flat(out, c)>>, Flat(in, [c EXCEPT ![axis] = @ + (i - 1) * out[axis]])>> :
            c \in Coordinates(out)} : i \in 1..outputs}

StackExpected(shape, axis, n) ==
  LET a == StackAxis(shape, axis) + 1
      out == Before(shape, a) \o <<n>> \o SubSeq(shape, a, Len(shape))
  IN  Filled(out, LAMBDA c : <<c[a] + 1, Flat(shape, Before(c, a) \o After(c, a))>>)

GatherExpected(params, indices, axis) ==
  LET a == IF axis < 0 THEN axis + Len(params) + 1 ELSE axis + 1 IN
  Filled([params EXCEPT ![a] = Len(indices)],
         LAMBDA c : Flat(params, [c EXCEPT ![a] = indices[@ + 1]]))

PadExpected(in, p) ==
  Filled(PaddedShape(in, p), LAMBDA c : Element(in, [i \in 1..4 |-> c[i] - p[2 * i - 1]]))

CropExpected(in, like, axis, offset) ==
  Filled(CroppedShape(in, like, axis),
         LAMBDA c : Flat(in, [i \in 1..4 |-> c[i] + CropOffsets(axis, offset)[i]]))

(* The channels, seen as a matrix with a row per group, are transposed.    *)
ShuffleExpected(in, groups) ==
  {<<Flat(in, <<b, j * groups + g, h, w>>), Flat(in, <<b, g * (in[2] \div groups) + j, h, w>>)>> :
     b \in 0..(in[1] - 1), g \in 0..(groups - 1), j \in 0..(in[2] \div groups - 1),
     h \in 0..(in[3] - 1), w \in 0..(in[4] - 1)}

(* Channel (i, j, d) of a pixel is channel d of pixel (i, j) of a block.   *)
DepthExpected(deep, block) ==
  LET wide == DepthToSpaceShape(deep, block) IN
  {<<Flat(wide, <<b, d, h * block + i, w * block + j>>),
     Flat(deep, <<b, (i * block + j) * wide[2] + d, h, w>>)>> :
     b \in 0..(deep[1] - 1), d \in 0..(wide[2] - 1), h \in 0..(deep[3] - 1),
     w \in 0..(deep[4] - 1), i \in 0..(block - 1), j \in 0..(block - 1)}

(* Picture (i, j, n) of the batch is every block-th pixel of picture n.    *)
BatchExpected(space, block, p) ==
  LET batch == SpaceToBatchShape(space, block, p) IN
  {<<Flat(batch, <<(i * block[2] + j) * space[1] + n, c, h, w>>),
     Element(space, <<n, c, h * block[1] + i - p[1], w * block[2] + j - p[3]>>)>> :
     n \in 0..(space[1] - 1), c \in 0..(space[2] - 1), h \in 0..(batch[3] - 1),
     w \in 0..(batch[4] - 1), i \in 0..(block[1] - 1), j \in 0..(block[2] - 1)}

(* Slices of Python and TensorFlow: ends are clamped to the array.         *)
SliceStart(x, d) ==
  IF d \in x.beginMask THEN IF StepOf(x, d) > 0 THEN 0 ELSE x.in[d] - 1
  ELSE IF BeginOf(x, d) < 0 THEN BeginOf(x, d) + x.in[d] ELSE BeginOf(x, d)

SliceStop(x, d) ==
  LET e == EndOf(x, d) IN
  IF d \in x.endMask THEN IF StepOf(x, d) > 0 THEN x.in[d] ELSE -1
  ELSE Larger(-1, Smaller(x.in[d], IF e < 0 THEN e + x.in[d] ELSE e))

SlicePlaces(x, d) ==
  {i \in 0..(x.in[d] - 1) :
     IF StepOf(x, d) > 0
     THEN i >= SliceStart(x, d) /\ i < SliceStop(x, d) /\ (i - SliceStart(x, d)) % StepOf(x, d) = 0
     ELSE i <= SliceStart(x, d) /\ i > SliceStop(x, d)
            /\ (SliceStart(x, d) - i) % (-StepOf(x, d)) = 0}

(* The place at coordinate n of the slice.                                 *)
SlicePlace(x, d, n) == SliceStart(x, d) + n * StepOf(x, d)

StridedSliceExpected(x) ==
  LET out == [d \in DOMAIN x.in |-> Cardinality(SlicePlaces(x, d))] IN
  [size  |-> Elements(out),
   moves |-> Filled(out, LAMBDA c : Flat(x.in, [d \in DOMAIN x.in |-> SlicePlace(x, d, c[d])]))]

-----------------------------------------------------------------------------
(* Broadcasting: a dimension of one, or a missing one in front, is used    *)
(* for every index; NCHW's second operand of rank one is per channel.      *)
Aligned(shape, rank, format) ==
  IF format = "NCHW" /\ Len(shape) = 1 THEN <<1, shape[1], 1, 1>>
  ELSE [i \in 1..(rank - Len(shape)) |-> 1] \o shape

Broadcast(shape, c) == Flat(shape, [i \in DOMAIN c |-> IF shape[i] = 1 THEN 0 ELSE c[i]])

EltwiseExpected(x) ==
  LET rank == Len(First(x))
      a == Aligned(x.in0, rank, x.format)
      b == Aligned(x.in1, rank, x.format)
      out == [i \in 1..rank |-> Larger(a[i], b[i])]
  IN  {<<Flat(out, c), Combine(x.type, x.coeff, FALSE, <<1, Broadcast(a, c)>>, <<2, Broadcast(b, c)>>)>> :
         c \in Coordinates(out)}

(* An element of the result of ReduceMean belongs to the coordinates that  *)
(* are not reduced, and is the mean over all others.                       *)
ReduceExpected(x) ==
  LET kept(c) == [i \in DOMAIN c |-> IF i \in Reduced(x) THEN 0 ELSE c[i]]
      out == [i \in DOMAIN x.in |-> IF i \in Reduced(x) THEN 1 ELSE x.in[i]]
      over(c) == {Flat(x.in, d) : d \in {e \in Coordinates(x.in) : kept(e) = c}}
  IN  {<<Flat(out, c), [over |-> over(c), by |-> Cardinality(over(c))]>> : c \in Coordinates(out)}
=============================================================================
