------------------------------ MODULE StridedSlice ------------------------------
(***************************************************************************)
(* StridedSlice and Slice of TensorFlow's models on the CPU                *)
(* (mace/kernels/strided_slice.h).  A call x has the shape in; begin, end  *)
(* and strides for the first dimensions; the sets of dimensions beginMask, *)
(* endMask and shrinkMask; and isSlice, when end is a size.                *)
(***************************************************************************)
EXTENDS Windows, FiniteSets

LOCAL INSTANCE SequencesExt

(* The remainder of C++ has the sign of the dividend.                      *)
CRemainder(a, b) == IF a >= 0 THEN a % b ELSE -((-a) % b)

(* Dimensions that are not given are taken whole; of a slice every size is *)
(* given, since those read for the others would be beyond the vector.      *)
StepOf(x, d)  == IF d <= Len(x.strides) THEN x.strides[d] ELSE 1
BeginOf(x, d) == IF d <= Len(x.begin) THEN x.begin[d] ELSE 0
EndOf(x, d) ==
  LET end == IF d <= Len(x.begin) THEN x.end[d] ELSE x.in[d] IN
  IF ~x.isSlice THEN end ELSE IF end = -1 THEN x.in[d] ELSE BeginOf(x, d) + end

RealBegin(x, d) ==
  IF d \in x.beginMask THEN IF StepOf(x, d) > 0 THEN 0 ELSE x.in[d] - 1
  ELSE CRemainder(BeginOf(x, d) + x.in[d], x.in[d])

RealEnd(x, d) ==
  LET e == EndOf(x, d)  n == x.in[d] IN
  IF d \in x.endMask THEN IF StepOf(x, d) > 0 THEN n ELSE -1
  ELSE IF e < -n THEN -1 ELSE IF e < 0 THEN e + n ELSE Smaller(e, n)

(* Bug: the last, incomplete step of a slice is not counted.               *)
BugSlicedLength(x, d) ==
  LET run == RealEnd(x, d) - RealBegin(x, d)  s == StepOf(x, d) IN
  Larger(0, IF s > 0 THEN run \div s ELSE (-run) \div (-s))

SlicedLength(x, d) ==
  LET run == RealEnd(x, d) - RealBegin(x, d)  s == StepOf(x, d) IN
  Larger(0, IF s > 0 THEN RoundUpDiv(run, s) ELSE RoundUpDiv(-run, -s))

SlicedDims(x) == [d \in DOMAIN x.in |-> SlicedLength(x, d)]

(* Rows that are taken whole are copied at once.                           *)
ByFirstAxis(x) ==
  /\ StepOf(x, 1) = 1
  /\ \A d \in 2..Len(x.in) : StepOf(x, d) = 1 /\ RealBegin(x, d) = 0 /\ RealEnd(x, d) = x.in[d]

(* Shrinking is for dimensions of one; more than two dimensions are only   *)
(* sliced by the first one.                                                *)
LegalStridedSlice(x) ==
  /\ x.isSlice => Len(x.end) = Len(x.in)
  /\ \A d \in x.shrinkMask : SlicedLength(x, d) = 1
  /\ ByFirstAxis(x) \/ Len(x.in) <= 2

(* The elements along a dimension, in the order of the loop.               *)
Visited(x, d) ==
  LET run == RealEnd(x, d) - RealBegin(x, d)  s == StepOf(x, d)
      n == Larger(0, IF s > 0 THEN RoundUpDiv(run, s) ELSE RoundUpDiv(-run, -s))
  IN  [i \in 0..(n - 1) |-> RealBegin(x, d) + i * s]

(* The size of the output, and what the loops write one after the other.   *)
SliceStrided(x) ==
  LET row == Elements(SubSeq(x.in, 2, Len(x.in)))
      rows == Visited(x, 1)
      columns == IF Len(x.in) = 1 THEN [j \in {0} |-> 0] ELSE Visited(x, 2)
      wide == IF Len(x.in) = 1 THEN 1 ELSE Larger(1, Cardinality(DOMAIN columns))
  IN  [size  |-> Elements(SlicedDims(x)),
       moves |-> IF ByFirstAxis(x)
                 THEN {<<k, RealBegin(x, 1) * row + k>> :
                         k \in 0..((RealEnd(x, 1) - RealBegin(x, 1)) * row - 1)}
                 ELSE {<<i * wide + j, rows[i] * row + columns[j]>> :
                         i \in DOMAIN rows, j \in DOMAIN columns}]
=============================================================================
