------------------------------ MODULE LocalSizes ------------------------------
(***************************************************************************)
(* The sizes of work groups of the kernels that do not use the default     *)
(* (the functions LocalWS of mace/kernels/opencl).                         *)
(*                                                                         *)
(* A device has, besides the fields WorkSizes names, cache (the size of    *)
(* its cache) and units (how many groups it runs at a time).  Base is the  *)
(* cache in units of kBaseGPUMemCacheSize, which WorkSizes has as a field. *)
(***************************************************************************)
EXTENDS WorkSizes

Bytes(inputs, weights, outputs) == (inputs + weights + outputs) * 4 * 4

(* What remains for the third dimension; a group is never empty.           *)
Rest(l1, l2, wanted, k) == Larger(Smaller(wanted, k \div (l1 * l2)), 1)

ConcatLocalWS(gws, d) ==
  LET base == Larger(d.base, 1)
      l2   == Smaller(gws[2], d.maxGroup)
      l1   == Smaller(base, d.maxGroup \div l2)
  IN  <<l1, l2, Rest(l1, l2, base, d.maxGroup), 0>>

CropLocalWS(gws, d) ==
  LET base == Larger(d.base, 1)
      l2   == Smaller(gws[2], d.maxGroup)
      l1   == Smaller(base, d.maxGroup \div l2)
  IN  <<l1, l2, Rest(l1, l2, base, d.maxGroup), 0>>

PoolingLocalWS(gws, d) ==
  LET base == Larger(d.base, 1)
      l2   == Smaller(gws[2], d.maxGroup)
      l3   == Smaller(Smaller(gws[3], base), d.maxGroup \div l2)
      want == IF gws[1] < 4 THEN gws[1] ELSE gws[1] \div 4
  IN  <<Rest(l2, l3, want, d.maxGroup), l2, l3, 0>>

SoftmaxLocalWS(gws, d) ==
  LET base == Larger(d.base, 1)
      l2   == Smaller(gws[2], d.maxGroup)
      want == IF gws[1] < base THEN gws[1] ELSE gws[1] \div base
      l1   == Smaller(want, d.maxGroup \div l2)
  IN  <<l1, l2, Rest(l1, l2, gws[3], d.maxGroup), 0>>

ResizeLocalWS(gws, d) ==
  LET base == Larger(d.base, 1)
      l2   == Smaller(gws[2], d.maxGroup)
      Eighth(n) == IF n < 8 THEN n ELSE n \div 8
      want == IF l2 >= base THEN Smaller(gws[1], base) ELSE Eighth(gws[1])
      l1   == Smaller(want, d.maxGroup \div l2)
  IN  <<l1, l2, Rest(l1, l2, Eighth(gws[3]), d.maxGroup), 0>>

Conv1x1LocalWS(gws, d) ==
  LET base == Larger(d.base, 1)
      l2   == Smaller(gws[2], d.maxGroup)
      want == IF l2 >= base \/ (1 < l2 /\ gws[1] >= 128) THEN Smaller(gws[1], base)
              ELSE IF gws[1] \div 8 < base THEN Larger(gws[1] \div 4, base)
              ELSE gws[1] \div 8
      l1   == Smaller(want, d.maxGroup \div l2)
      fits == Smaller((((d.cache \div Bytes(4, 4, 4)) \div (l1 * l2)) \div d.units) * 8, gws[3])
  IN  <<l1, l2, Rest(l1, l2, IF fits = 0 THEN Smaller(gws[3], base) ELSE fits, d.maxGroup), 0>>

Conv3x3LocalWS(gws, d) ==
  LET base  == Larger(Smaller(d.base, 4), 1)
      units == Larger(d.units \div 2, 1)
      l2    == Smaller(gws[2], d.maxGroup)
      l1    == Smaller(Smaller(gws[1], base), d.maxGroup \div l2)
      fits  == Smaller(RoundUp(((d.cache \div Bytes(5, 4, 5)) \div (l1 * l2)) \div units, base), gws[3])
  IN  <<l1, l2, Rest(l1, l2, IF fits = 0 THEN Smaller(gws[3], base) ELSE fits, d.maxGroup), 0>>

ConvLocalWS(gws, taps, d) ==
  LET base == Larger(d.base, 1)
      l2   == Smaller(gws[2], d.maxGroup)
      want == IF gws[1] < 4 THEN gws[1] ELSE gws[1] \div 4
      l1   == Smaller(want, d.maxGroup \div l2)
      fits == Smaller(((((d.cache \div Bytes(4, 4, 4)) \div taps) \div (l1 * l2)) \div d.units) * 8,
                      gws[3])
      other == IF gws[3] < 20 THEN gws[3] ELSE base
  IN  <<l1, l2, Rest(l1, l2, IF fits = 0 THEN other ELSE fits, d.maxGroup), 0>>

(* Here the cache may be smaller than the unit.                            *)
DepthwiseLocalWS(gws, d) ==
  LET l2   == Smaller(gws[2], d.maxGroup)
      room == d.maxGroup \div l2
      some == Smaller(gws[1] \div 8, room)
      want == IF l2 >= d.base THEN Smaller(gws[1], d.base)
              ELSE IF some < d.base THEN Smaller(Larger(gws[1] \div 4, d.base), room)
              ELSE some
      l1   == Larger(Smaller(want, room), 1)
      fits == Smaller(((d.cache \div Bytes(4, 4, 1)) \div (l1 * l2)) * 4, gws[3])
  IN  <<l1, l2, Rest(l1, l2, IF fits = 0 THEN gws[3] ELSE fits, d.maxGroup), 0>>
=============================================================================
