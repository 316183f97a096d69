------------------------------- MODULE Winograd -------------------------------
(***************************************************************************)
(* What Winograd's method does to one tile                                 *)
(* (mace/kernels/arm/conv_winograd.cc).                                    *)
(*                                                                         *)
(* A tile of the input and a filter of 3x3 are transformed, multiplied     *)
(* element by element, and transformed back into a tile of the output.     *)
(* All of this is linear in the input and in the filter, so the identity   *)
(* with a convolution holds if it does for inputs and filters with a       *)
(* single 1.  Fractions are avoided by scaling: G4 and B8, G8 are          *)
(* the factors by which a transformed filter or input is too large.        *)
(***************************************************************************)
EXTENDS Gemm

G4 == 4     \* a filter transformed for tiles of 2x2
B8 == 4     \* a row of input transformed for tiles of 6x6
G8 == 180   \* a row of filter transformed for tiles of 6x6

Unit(n, i) == [j \in 0..(n - 1) |-> IF j = i THEN 1 ELSE 0]
Indexed(s) == [i \in 0..(Len(s) - 1) |-> s[i + 1]]

-----------------------------------------------------------------------------
(* Tiles of 2x2 of the output, 4x4 of the input, both dimensions at once.  *)
TransformInput4x4(d) == Indexed(
  <<(d[0] - d[8]) - (d[2] - d[10]), (d[1] - d[9]) + (d[2] - d[10]),
    (d[2] - d[10]) - (d[1] - d[9]), (d[1] - d[9]) - (d[3] - d[11]),
    (d[4] + d[8]) - (d[6] + d[10]), (d[5] + d[9]) + (d[6] + d[10]),
    (d[6] + d[10]) - (d[5] + d[9]), (d[5] + d[9]) - (d[7] + d[11]),
    (d[8] - d[4]) - (d[10] - d[6]), (d[9] - d[5]) + (d[10] - d[6]),
    (d[10] - d[6]) - (d[9] - d[5]), (d[9] - d[5]) - (d[11] - d[7]),
    (d[4] - d[12]) - (d[6] - d[14]), (d[5] - d[13]) + (d[6] - d[14]),
    (d[6] - d[14]) - (d[5] - d[13]), (d[5] - d[13]) - (d[7] - d[15])>>)

TransformFilter4x4(g) ==
  LET plus(i)  == g[i] + g[i + 6] + g[i + 3]
      minus(i) == g[i] + g[i + 6] - g[i + 3]
  IN  Indexed(
  <<4 * g[0], 2 * (g[0] + g[2] + g[1]), 2 * (g[0] + g[2] - g[1]), 4 * g[2],
    2 * plus(0), plus(0) + plus(2) + plus(1), plus(0) + plus(2) - plus(1), 2 * plus(2),
    2 * minus(0), minus(0) + minus(2) + minus(1), minus(0) + minus(2) - minus(1), 2 * minus(2),
    4 * g[6], 2 * (g[6] + g[8] + g[7]), 2 * (g[6] + g[8] - g[7]), 4 * g[8]>>)

TransformOutput4x4(d) ==
  LET sum(i)  == d[i] + d[i + 1] + d[i + 2]
      diff(i) == d[i + 1] - d[i + 2] - d[i + 3]
  IN  Indexed(<<sum(0) + sum(4) + sum(8), diff(0) + diff(4) + diff(8),
                sum(4) - sum(8) - sum(12), diff(4) - diff(8) - diff(12)>>)

(* Element i of the output tile that input element p and filter element q  *)
(* make, times G4.                                                         *)
Tile2(p, q) ==
  LET d == TransformInput4x4(Unit(16, p))
      g == TransformFilter4x4(Unit(9, q))
  IN  TransformOutput4x4([i \in 0..15 |-> d[i] * g[i]])

(* The convolution itself: output (y, x) takes filter (k, l) at            *)
(* (y + k, x + l).                                                         *)
Convolved2(p, q) ==
  [i \in 0..3 |-> IF /\ p \div 4 = i \div 2 + q \div 3
                     /\ p % 4 = (i % 2) + (q % 3)
                  THEN G4 ELSE 0]

-----------------------------------------------------------------------------
(* Tiles of 6x6 of the output, 8x8 of the input: the same formulas for     *)
(* every row and then for every column, so one dimension is enough.        *)
TransformInput8x8(d) ==
  LET u1 == 4 * d[2] + 4 * d[6] - 17 * d[4]
      v1 == 4 * d[1] + 4 * d[5] - 17 * d[3]
      u2 == 4 * d[6] + d[2] - 5 * d[4]
      v2 == 2 * d[1] - 10 * d[3] + 8 * d[5]
      u3 == 4 * d[6] + 4 * (4 * d[2] - 5 * d[4])
      v3 == 8 * d[1] - 10 * d[3] + 2 * d[5]
  IN  Indexed(<<4 * (d[0] - d[6]) + 21 * (d[4] - d[2]), u1 + v1, u1 - v1, u2 + v2, u2 - v2,
                u3 + v3, u3 - v3, 4 * (d[7] - d[1]) + 21 * (d[3] - d[5])>>)

FilterMatrix8x8 == Indexed(
  <<<<180, 0, 0>>, <<-40, -40, -40>>, <<-40, 40, -40>>, <<2, 4, 8>>, <<2, -4, 8>>,
    <<4, 2, 1>>, <<4, -2, 1>>, <<0, 0, 180>>>>)

TransformFilter8x8(g) ==
  [i \in 0..7 |-> FilterMatrix8x8[i][1] * g[0] + FilterMatrix8x8[i][2] * g[1]
                    + FilterMatrix8x8[i][3] * g[2]]

(* Bug: the two last coefficients of the fourth row are exchanged.         *)
BugTransformOutput8x8(d) ==
  LET u == d[1] + d[2]   v == d[1] - d[2]
      w == d[3] + d[4]   x == d[3] - d[4]
      y == d[5] + d[6]   z == d[5] - d[6]
  IN  Indexed(<<d[0] + u + w + 32 * y, v + x + x + 16 * z, u + 4 * w + 8 * y,
                v + 4 * x + 8 * z, u + 16 * w + y + y, v + 32 * x + z + d[7]>>)

TransformOutput8x8(d) ==
  LET u == d[1] + d[2]   v == d[1] - d[2]
      w == d[3] + d[4]   x == d[3] - d[4]
      y == d[5] + d[6]   z == d[5] - d[6]
  IN  Indexed(<<d[0] + u + w + 32 * y, v + x + x + 16 * z, u + 4 * w + 8 * y,
                v + 8 * x + 4 * z, u + 16 * w + y + y, v + 32 * x + z + d[7]>>)

Tile6(p, q) ==
  LET d == TransformInput8x8(Unit(8, p))
      g == TransformFilter8x8(Unit(3, q))
  IN  TransformOutput8x8([i \in 0..7 |-> d[i] * g[i]])

Convolved6(p, q) == [i \in 0..5 |-> IF p = i + q THEN B8 * G8 ELSE 0]

-----------------------------------------------------------------------------
(* The products of all tiles: filter (area x out x in) by input (batch x   *)
(* area x in x tiles).                                                     *)
IsBatch(a) == a.arch \in Arch /\ {a.batch, a.in, a.out, a.tiles, a.area} \subseteq Nat \ {0}

BatchGemm(arch, batch, in, out, tiles, area) ==
  IF batch = 1
  THEN GemmTerms(arch, area, out, in, tiles, FALSE, FALSE)
  ELSE UNION {{<<(b * area + i) * out * tiles + t[1], i * out * in + t[2],
                 (b * area + i) * in * tiles + t[3], t[4]>> :
                 t \in GemmTerms(arch, 1, out, in, tiles, FALSE, FALSE)} :
                b \in 0..(batch - 1), i \in 0..(area - 1)}

(* What they should be.                                                    *)
TileProducts(batch, in, out, tiles, area) ==
  {<<((b * area + i) * out + m) * tiles + t, (i * out + m) * in + c,
     ((b * area + i) * in + c) * tiles + t>> :
     b \in 0..(batch - 1), i \in 0..(area - 1), m \in 0..(out - 1), c \in 0..(in - 1),
     t \in 0..(tiles - 1)}
=============================================================================
