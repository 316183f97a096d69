-------------------------------- MODULE Eltwise --------------------------------
(***************************************************************************)
(* Element-wise arithmetic of two tensors on the CPU, with broadcasting    *)
(* (mace/kernels/eltwise.h).  A call x has the type, the shapes in0 and    *)
(* in1 (<<>> when the second operand is the argument "value"), whether    *)
(* there are coefficients, and the data format.                            *)
(*                                                                         *)
(* The result is a function from positions of the output to terms over the *)
(* operands <<1, position>> and <<2, position>>.                           *)
(***************************************************************************)
EXTENDS Windows

LOCAL INSTANCE SequencesExt

EltwiseType == {"SUM", "SUB", "PROD", "DIV", "MIN", "MAX", "NEG", "ABS", "SQR_DIFF", "POW", "EQUAL"}

(* What one step of the loops computes from an element a of the larger     *)
(* operand and b of the smaller one; swapped says that a is the second     *)
(* operand of the call.  Coefficients are their indices.                   *)
Combine(type, coeff, swapped, a, b) ==
  CASE type = "SUM" /\ coeff -> {<<a, IF swapped THEN 2 ELSE 1>>, <<b, IF swapped THEN 1 ELSE 2>>}
    [] type \in {"SUB", "DIV", "POW"} -> IF swapped THEN <<type, b, a>> ELSE <<type, a, b>>
    [] type \in {"NEG", "ABS"}        -> <<type, a>>
    [] OTHER                          -> <<type, {a, b}>>

-----------------------------------------------------------------------------
(* The position in a broadcast operand of the element for index; what is   *)
(* of size one does not count.                                             *)
GetIndex(shape, index) ==
  FoldLeft(LAMBDA at, i : IF shape[i] > 1 THEN at * shape[i] + index[i] ELSE at,
           0, [i \in 1..Len(shape) |-> i])

(* The index after n steps of IncreaseIndex from zero.                     *)
IndexOf(shape, n) ==
  [i \in DOMAIN shape |-> (n \div Elements(SubSeq(shape, i + 1, Len(shape)))) % shape[i]]

(* The functions that do the loops; k and l number the operands.           *)
TensorGeneralBroadcastEltwise(x, swapped, k, l, shape0, shape1, out) ==
  [i \in 0..(Elements(out) - 1) |->
     Combine(x.type, x.coeff, swapped, <<k, GetIndex(shape0, IndexOf(out, i))>>,
                                       <<l, GetIndex(shape1, IndexOf(out, i))>>)]

TensorBroadcastEltwise(x, swapped, k, l, diff, common) ==
  [p \in 0..(diff * common - 1) |->
     Combine(x.type, x.coeff, swapped, <<k, p>>, <<l, p % common>>)]

TensorEltwise(x, swapped, k, l, size) ==
  [i \in 0..(size - 1) |-> Combine(x.type, x.coeff, swapped, <<k, i>>, <<l, i>>)]

TensorScalarEltwise(x, swapped, k, l, size) ==
  [i \in 0..(size - 1) |-> Combine(x.type, x.coeff, swapped, <<k, i>>, <<l, 0>>)]

(* Bug: a second operand of one picture is read as if it had a batch.      *)
BugPerChannel(x, swapped, k, l, batch1, shape0) ==
  LET image == shape0[3] * shape0[4] IN
  [p \in 0..(Elements(shape0) - 1) |->
     Combine(x.type, x.coeff, swapped, <<k, p>>, <<l, p \div image>>)]

TensorEltwisePerChannel(x, swapped, k, l, batch1, shape0) ==
  LET image == shape0[3] * shape0[4]
      channel(p) == (p \div image) % shape0[2]
      batch(p)   == IF batch1 > 1 THEN p \div (image * shape0[2]) ELSE 0
  IN  [p \in 0..(Elements(shape0) - 1) |->
         Combine(x.type, x.coeff, swapped, <<k, p>>, <<l, batch(p) * shape0[2] + channel(p)>>)]

-----------------------------------------------------------------------------
(* The operand with more elements comes first.                             *)
Swapped(x) == Elements(x.in0) < Elements(x.in1)
First(x)   == IF Swapped(x) THEN x.in1 ELSE x.in0
Second(x)  == IF Swapped(x) THEN x.in0 ELSE x.in1

(* The shapes that end the process otherwise.  The rank of the smaller     *)
(* operand is not checked before it is subtracted.                         *)
LegalEltwise(x) ==
  LET a == First(x)  b == Second(x)  d == Len(a) - Len(b) IN
  /\ d >= 0
  /\ IF x.format = "NCHW"
     THEN /\ Len(a) = 4
          /\ \/ b = <<>>
             \/ Len(b) = 4 /\ b[2] = a[2] /\ b[1] \in {a[1], 1}
             \/ Len(b) = 1 /\ b[1] = a[2]
     ELSE \A i \in DOMAIN b : a[d + i] = 1 \/ b[i] = 1 \/ a[d + i] = b[i]

DoEltwise(x) ==
  LET swapped == Swapped(x)
      k == IF swapped THEN 2 ELSE 1
      l == IF swapped THEN 1 ELSE 2
      a == First(x)
      b == Second(x)
      d == Len(a) - Len(b)
      ones == [i \in 1..d |-> 1] \o b
      out  == [i \in DOMAIN a |-> IF a[i] >= ones[i] THEN a[i] ELSE ones[i]]
      general == \E i \in DOMAIN b : (a[d + i] = 1) # (b[i] = 1)
  IN  CASE x.format = "NCHW" /\ b # <<>> /\ Elements(b) < Elements(a) ->
             TensorEltwisePerChannel(x, swapped, k, l, IF Len(b) = 1 THEN 1 ELSE b[1], a)
        [] ~(x.format = "NCHW" /\ b # <<>> /\ Elements(b) < Elements(a)) /\ general ->
             TensorGeneralBroadcastEltwise(x, swapped, k, l, a, ones, out)
        [] ~general /\ Elements(a) = Elements(b) -> TensorEltwise(x, swapped, k, l, Elements(a))
        [] x.format # "NCHW" /\ ~general /\ Elements(b) < Elements(a) /\ Elements(b) > 1 ->
             TensorBroadcastEltwise(x, swapped, k, l, Elements(a) \div Elements(b), Elements(b))
        [] OTHER -> TensorScalarEltwise(x, swapped, k, l, Elements(a))
=============================================================================
