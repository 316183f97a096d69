------------------------------ MODULE Quantization ------------------------------
(***************************************************************************)
(* Bytes for floats (mace/kernels/quantize.h), in exact arithmetic: a      *)
(* range is [min, max, den], the floats min/den and max/den; a float is    *)
(* num/den.  Comparing the zero point with an integer to 1e-6 is equality. *)
(***************************************************************************)
EXTENDS Integers

(* roundf: halves go away from zero.                                       *)
RoundHalf(num, den) ==
  IF num >= 0 THEN (2 * num + den) \div (2 * den) ELSE -((2 * (-num) + den) \div (2 * den))

Saturate(value) == IF value <= 0 THEN 0 ELSE IF value >= 255 THEN 255 ELSE value

(* Where zero lies among the 255 steps of a range, rounded.                *)
ZeroNear(r) == RoundHalf(-r.min * 255, r.max - r.min)
ZeroExact(r) == r.min = r.max \/ (-r.min * 255) % (r.max - r.min) = 0

(* Bytes stand for no value of the range: its only one is zero, or it is   *)
(* moved by a division by zero or past what it held.                       *)
RangeBreaks(r) ==
  \/ r.min = 0 /\ r.max = 0
  \/ r.min < 0 /\ ~ZeroExact(r) /\ ZeroNear(r) \notin 1..(IF r.max < 0 THEN 255 ELSE 254)

(* Bug: the end that is kept and the end that is moved are swapped.        *)
BugAdjustRange(r) ==
  LET lo == IF r.min < 0 THEN r.min ELSE 0
      hi == IF r.max > 0 THEN r.max ELSE 0
      z  == ZeroNear(r)
  IN  CASE lo = 0 \/ ZeroExact(r) -> [min |-> lo, max |-> hi, den |-> r.den]
        [] lo < 0 /\ ~ZeroExact(r) /\ -r.min * 255 < z * (r.max - r.min) ->
             [min |-> lo * z, max |-> -lo * (255 - z), den |-> r.den * z]
        [] OTHER ->
             [min |-> -hi * z, max |-> hi * (255 - z), den |-> r.den * (255 - z)]

(* The end that is nearer is moved away, so that zero is a level.          *)
AdjustRange(r) ==
  LET lo == IF r.min < 0 THEN r.min ELSE 0
      hi == IF r.max > 0 THEN r.max ELSE 0
      z  == ZeroNear(r)
  IN  CASE lo = 0 \/ ZeroExact(r) -> [min |-> lo, max |-> hi, den |-> r.den]
        [] lo < 0 /\ ~ZeroExact(r) /\ -r.min * 255 < z * (r.max - r.min) ->
             [min |-> -hi * z, max |-> hi * (255 - z), den |-> r.den * (255 - z)]
        [] OTHER ->
             [min |-> lo * z, max |-> -lo * (255 - z), den |-> r.den * z]

(* From the lower end of the range as it came, in steps of the adjusted    *)
(* range; v has the denominator of r.                                      *)
Quantize(r, v) ==
  LET out == AdjustRange(r) IN
  Saturate(RoundHalf((v - r.min) * 255 * out.den, (out.max - out.min) * r.den))

(* 255 times what byte q stands for, over out.den.                         *)
Dequantize(out, q) == out.min * 255 + (out.max - out.min) * q

(* Integers qi stand for qi * si, si = 1 / scale here; their own range,    *)
(* unless one is given, is adjusted.                                       *)
RequantizedRange(values, given) ==
  IF given # <<>> THEN [min |-> given[1], max |-> given[2], den |-> given[3]]
  ELSE [min |-> CHOOSE v \in values : \A w \in values : v <= w,
        max |-> CHOOSE v \in values : \A w \in values : v >= w, den |-> 1]

(* From the lower end of the adjusted range.                               *)
Requantize(r, v) ==
  LET out == AdjustRange(r) IN
  Saturate(RoundHalf((v * out.den - out.min * r.den) * 255, (out.max - out.min) * r.den))

(* A value of the range.                                                   *)
IsQuantizing(a) ==
  LET r == a.range IN
  /\ r.min \in Int /\ r.max \in Int /\ r.den \in Nat \ {0} /\ a.value \in Int
  /\ r.min <= a.value /\ a.value <= r.max
-----------------------------------------------------------------------------
(* The copy for the DSP (mace/core/runtime/hexagon/quantize.cc): z, the    *)
(* exact place of zero, is zi and a fraction f; a fraction within 0.0001   *)
(* of an integer counts as none, here: only zero does.                     *)
QuantizeAdjustRange(r) ==
  LET lo == IF r.min < 0 THEN r.min ELSE 0
      hi == IF r.max > 0 THEN r.max ELSE 0
      zi == (-lo * 255) \div (hi - lo)
      f  == (-lo * 255) % (hi - lo)
      exact == lo = 0 \/ f = 0
      keepMin == zi > 0 /\ (zi >= 254 \/ (f - (hi - lo)) * lo > f * hi)
  IN  CASE exact              -> [min |-> lo, max |-> hi, den |-> r.den]
        [] ~exact /\ keepMin  -> [min |-> lo * zi, max |-> lo * (zi - 255), den |-> r.den * zi]
        [] ~exact /\ ~keepMin -> [min |-> -hi * (zi + 1), max |-> hi * (254 - zi),
                                 den |-> r.den * (254 - zi)]

(* Cut to a byte before it is compared with the limits.                    *)
QuantizerQuantize(r, v) ==
  LET out == QuantizeAdjustRange(r)
      steps == (v * out.den - out.min * r.den) * 255
      step  == (out.max - out.min) * r.den
  IN  ((2 * steps + step) \div (2 * step)) % 256
=============================================================================
