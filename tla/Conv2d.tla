-------------------------------- MODULE Conv2d --------------------------------
(***************************************************************************)
(* One call of the convolution on the CPU: Conv2dFunctor<CPU, float> of    *)
(* mace/kernels/conv_2d.h and DepthwiseConv2dFunctor of                    *)
(* mace/kernels/depthwise_conv2d.h.                                        *)
(*                                                                         *)
(* A call x has the shapes in (NCHW) and filter (OIHW), strides, dilations *)
(* and padding: [type] or, with type "GIVEN", [size]; arch is the build.   *)
(***************************************************************************)
EXTENDS ConvTiles

Sizes(x) ==
  IF x.padding.type = "GIVEN"
  THEN [output   |-> CalcNCHWOutputSize(x.in, x.filter, x.padding.size, x.dilations,
                                        x.strides, "FLOOR"),
        paddings |-> x.padding.size]
  ELSE CalcNCHWPaddingAndOutputSize(x.in, x.filter, x.dilations, x.strides, x.padding.type)

-----------------------------------------------------------------------------
(* Which kernel.                                                           *)
Is(x, kh, kw, s) ==
  x.filter[3] = kh /\ x.filter[4] = kw /\ x.strides = <<s, s>> /\ x.dilations = <<1, 1>>

UseWinograd(x) == x.transformed \/ (Is(x, 3, 3, 1) /\ x.in[2] >= 8 /\ x.filter[1] >= 8)

WinogradTile(x) == IF x.in[3] > 16 /\ x.in[4] > 16 THEN 6 ELSE 2

KernelName(x) ==
  IF UseWinograd(x) THEN "winograd"
  ELSE CASE Is(x, 3, 3, 1)  -> "3x3s1"
         [] Is(x, 3, 3, 2)  -> "3x3s2"
         [] Is(x, 1, 1, 1)  -> "1x1s1"
         [] Is(x, 5, 5, 1)  -> "5x5s1"
         [] Is(x, 1, 7, 1)  -> "1x7s1"
         [] Is(x, 7, 1, 1)  -> "7x1s1"
         [] Is(x, 7, 7, 1)  -> "7x7s1"
         [] Is(x, 7, 7, 2)  -> "7x7s2"
         [] Is(x, 7, 7, 3)  -> "7x7s3"
         [] Is(x, 1, 15, 1) -> "1x15s1"
         [] Is(x, 15, 1, 1) -> "15x1s1"
         [] OTHER           -> "general"

(* The output is rounded up to tiles of this size.                         *)
TileSize(x) ==
  LET name == KernelName(x) IN
  CASE name = "winograd"            -> <<WinogradTile(x), WinogradTile(x)>>
    [] name = "1x1s1"               -> <<1, 1>>
    [] name = "3x3s1"               -> <<2, 4>>
    [] name \in {"7x1s1", "15x1s1"} -> <<4, 1>>
    [] OTHER                        -> <<1, 4>>

(* A call of the operator.                                                 *)
IsConvolution(x) ==
  LET Pos == Nat \ {0} IN
  /\ x.arch \in {"armv8", "armv7", "cpu"}
  /\ x.in \in [1..4 -> Pos] /\ x.filter \in [1..4 -> Pos]
  /\ x.strides \in [1..2 -> Pos] /\ x.dilations \in [1..2 -> Pos]
  /\ x.padding.type \in {"GIVEN", "VALID", "SAME", "FULL"}
  /\ x.padding.type = "GIVEN" => x.padding.size \in [1..2 -> Nat]

-----------------------------------------------------------------------------
(* Shapes of the padded input and output, and what the scratch buffer must *)
(* hold, in bytes.                                                         *)
ExtraPad(arch) == IF arch = "cpu" THEN 0 ELSE 64   \* MACE_EXTRA_BUFFER_PAD_SIZE

(* Bug: the input is rounded up with the output's size, not the window's.  *)
BugExtraInput(x, i, out) ==
  Larger(x.in[i + 2] + Sizes(x).paddings[i], out * x.strides[i])

ExtraInput(x, i, out) ==
  Larger(x.in[i + 2] + Sizes(x).paddings[i],
         IF UseWinograd(x) THEN out + 2
         ELSE (out - 1) * x.strides[i] + (x.filter[i + 2] - 1) * x.dilations[i] + 1)

Plan(x) ==
  LET s      == Sizes(x)
      out(i) == RoundUp(s.output[i + 2], TileSize(x)[i])
      in(i)  == ExtraInput(x, i, out(i))
      before(i) == s.paddings[i] \div 2
      after(i)  == s.paddings[i] - before(i) + in(i) - (x.in[i + 2] + s.paddings[i])
  IN  [kernel |-> KernelName(x), output |-> s.output,
       extraIn  |-> <<x.in[1], x.in[2], in(1), in(2)>>,
       extraOut |-> <<x.in[1], x.filter[1], out(1), out(2)>>,
       top |-> before(1), bottom |-> after(1), left |-> before(2), right |-> after(2),
       padInput  |-> <<in(1), in(2)>> # <<x.in[3], x.in[4]>>,
       padOutput |-> <<out(1), out(2)>> # <<s.output[3], s.output[4]>>]

TileCount(x, p) ==
  (p.extraOut[3] \div WinogradTile(x)) * (p.extraOut[4] \div WinogradTile(x))

ScratchSizes(x, p) ==
  LET area == (WinogradTile(x) + 2) * (WinogradTile(x) + 2)
      transformed(channels) ==
        IF UseWinograd(x) THEN 4 * area * x.in[1] * channels * TileCount(x, p) ELSE 0
  IN  [transformedInput  |-> transformed(x.in[2]),
       transformedOutput |-> transformed(x.filter[1]),
       paddedInput  |-> IF ~p.padInput THEN 0
                        ELSE 4 * x.in[1] * x.in[2] * (x.in[3] + p.top + p.bottom)
                               * (x.in[4] + p.left + p.right) + ExtraPad(x.arch),
       paddedOutput |-> IF p.padOutput THEN 4 * Volume(p.extraOut) ELSE 0]

TotalScratch(x, p) ==
  LET s == ScratchSizes(x, p) IN
  s.transformedInput + s.transformedOutput + s.paddedInput + s.paddedOutput

-----------------------------------------------------------------------------
(* Winograd: tile t of the input becomes tile t of the output; Winograd    *)
(* (the module) says what happens to a tile.                               *)
WinogradTerms(x, p) ==
  LET n == WinogradTile(x)
      tilesPerRow == RoundUpDiv(p.extraIn[4] - 2, n)
      tilesPerCol == RoundUpDiv(p.extraIn[3] - 2, n)
      y(t) == n * (t \div tilesPerRow)
      z(t) == n * (t % tilesPerRow)
  IN  {<<At(p.extraOut, b, m, y(t) + i, z(t) + j), At(p.extraIn, b, c, y(t) + i + k, z(t) + j + l),
         At(x.filter, m, c, k, l), <<"tile", t>> >> :
         b \in 0..(x.in[1] - 1), m \in 0..(x.filter[1] - 1), c \in 0..(x.in[2] - 1),
         t \in 0..(tilesPerRow * tilesPerCol - 1),
         i \in 0..(n - 1), j \in 0..(n - 1), k \in 0..2, l \in 0..2}

RawTerms(x, p) ==
  CASE p.kernel = "winograd" -> WinogradTerms(x, p)
    [] p.kernel = "1x1s1"    -> Conv2dNeonK1x1S1(x.arch, p.extraIn, p.extraOut)
    [] OTHER -> KernelTerms(p.kernel, x.arch, p.extraIn, p.extraOut, x.filter, x.strides,
                            x.dilations)

(* Where element o of the padded output goes when it is unpacked.          *)
Unpacked(p, o) ==
  LET w == o % p.extraOut[4]
      h == (o \div p.extraOut[4]) % p.extraOut[3]
      plane == o \div (p.extraOut[3] * p.extraOut[4])
  IN  IF h < p.output[3] /\ w < p.output[4]
      THEN (plane * p.output[3] + h) * p.output[4] + w
      ELSE Zero

(* What the call adds up, in positions of its own input and output.        *)
Convolution(x) ==
  LET p      == Plan(x)
      padded == IF p.padInput
                THEN ConstructNCHWInputWithSpecificPadding(x.in, p.top, p.bottom,
                                                           p.left, p.right).data
                ELSE [a \in 0..(Volume(x.in) - 1) |-> a]
      all == {<<Unpacked(p, t[1]), padded[t[2]], t[3], t[4]>> : t \in RawTerms(x, p)}
  IN  {t \in all : t[1] # Zero /\ t[2] # Zero}

(* How far the kernel reads, in elements of the padded input.              *)
ConvolutionReach(x) ==
  LET p == Plan(x) IN
  IF p.kernel \in {"winograd", "1x1s1"} THEN Volume(p.extraIn)
  ELSE KernelReach(p.kernel, x.arch, p.extraIn, p.extraOut, x.filter, x.strides)

-----------------------------------------------------------------------------
(* Depthwise: output channel m comes from input channel m / multiplier     *)
(* with filter m % multiplier.  Pixels whose window leaves the picture are *)
(* assigned one by one; those inside are added up in tiles on the cleared  *)
(* output.                                                                 *)
ValidStart(pad, stride) == IF pad = 0 THEN 0 ELSE (pad - 1) \div stride + 1
ValidStop(pad, stride, size) == IF pad = 0 THEN size ELSE size - ((pad - 1) \div stride + 1)

DwFilter(x) == <<x.filter[1] * x.filter[2], x.filter[2], x.filter[3], x.filter[4]>>

DepthwisePlan(x) ==
  LET s == Sizes([x EXCEPT !.filter = DwFilter(x)])
      before(i) == s.paddings[i] \div 2
      after(i)  == s.paddings[i] - before(i)
  IN  [output |-> s.output, pad |-> <<before(1), before(2)>>,
       start |-> <<ValidStart(before(1), x.strides[1]), ValidStart(before(2), x.strides[2])>>,
       stop  |-> <<ValidStop(after(1), x.strides[1], s.output[3]),
                   ValidStop(after(2), x.strides[2], s.output[4])>>,
       kernel |-> IF Is(x, 3, 3, 1) THEN "3x3s1" ELSE IF Is(x, 3, 3, 2) THEN "3x3s2"
                  ELSE "general"]

(* The terms of output element (h, w), the window clipped to the picture.  *)
DepthwisePixel(x, p, b, m, h, w, path) ==
  LET mult == p.output[2] \div x.in[2]
      ih(i) == h * x.strides[1] + i * x.dilations[1] - p.pad[1]
      iw(j) == w * x.strides[2] + j * x.dilations[2] - p.pad[2]
  IN  {<<At(p.output, b, m, h, w), At(x.in, b, m \div mult, ih(t[1]), iw(t[2])),
         At(x.filter, m % mult, m \div mult, t[1], t[2]), path>> :
         t \in {u \in (0..(x.filter[3] - 1)) \X (0..(x.filter[4] - 1)) :
                  Within(ih(u[1]), 0, x.in[3] - 1) /\ Within(iw(u[2]), 0, x.in[4] - 1)}}

(* A tile, read without a look at the borders.                             *)
DepthwiseTile(x, p, tile, b, m, h, w) ==
  LET mult == p.output[2] \div x.in[2]
      base == (b * x.in[2] + m \div mult) * x.in[3] * x.in[4]
      at   == (h * x.strides[1] - p.pad[1]) * x.in[4] + w * x.strides[2] - p.pad[2]
  IN  {<<At(p.output, b, m, h + y, w + z),
         base + at + (y * x.strides[1] + i) * x.in[4] + z * x.strides[2] + j,
         At(x.filter, m % mult, m \div mult, i, j), <<"tile", h, w>> >> :
         y \in 0..(tile[1] - 1), z \in 0..(tile[2] - 1), i \in 0..2, j \in 0..2}

(* Starts of the tiles of n that fit between start and stop.               *)
From(start, stop, n) ==
  {i \in start..(stop - 1) : (i - start) % n = 0 /\ i + n <= stop}

(* Bug: the last columns are tiled as long as they begin in the picture.   *)
BugTileGrid(p, tile) ==
  From(p.start[1], p.stop[1], tile[1]) \X From(p.start[2], p.output[4], tile[2])

TileGrid(p, tile) ==
  From(p.start[1], p.stop[1], tile[1]) \X From(p.start[2], p.stop[2], tile[2])

(* Where the tiles end.                                                    *)
TilesEnd(start, stop, n) == start + n * (Larger(0, stop - start) \div n)

DepthwiseTiled(x, p, tile) ==
  LET bottom == TilesEnd(p.start[1], p.stop[1], tile[1])
      right  == TilesEnd(p.start[2], p.stop[2], tile[2])
      row    == 0..(p.output[4] - 1)
      pixels == (0..(p.start[1] - 1)) \X row
                  \cup (p.start[1]..(bottom - 1))
                         \X (0..(p.start[2] - 1) \cup right..(p.output[4] - 1))
                  \cup (bottom..(p.output[3] - 1)) \X row
      planes == (0..(p.output[1] - 1)) \X (0..(p.output[2] - 1))
  IN  UNION {DepthwisePixel(x, p, c[1], c[2], q[1], q[2], <<"pixel">>) : c \in planes, q \in pixels}
        \cup UNION {DepthwiseTile(x, p, tile, c[1], c[2], t[1], t[2]) :
                      c \in planes, t \in TileGrid(p, tile)}

DepthwiseConv2dNeonK3x3S1(x, p) == DepthwiseTiled(x, p, <<2, 4>>)
DepthwiseConv2dNeonK3x3S2(x, p) == DepthwiseTiled(x, p, <<1, 4>>)

(* Every pixel by itself: other filters, and builds without NEON.          *)
DepthwiseConv2dGeneral(x, p) ==
  UNION {DepthwisePixel(x, p, b, m, h, w, <<"pixel">>) :
           b \in 0..(p.output[1] - 1), m \in 0..(p.output[2] - 1),
           h \in 0..(p.output[3] - 1), w \in 0..(p.output[4] - 1)}

Depthwise(x) ==
  LET p == DepthwisePlan(x) IN
  CASE p.kernel = "3x3s1" /\ x.arch # "cpu" -> DepthwiseConv2dNeonK3x3S1(x, p)
    [] p.kernel = "3x3s2" /\ x.arch # "cpu" -> DepthwiseConv2dNeonK3x3S2(x, p)
    [] OTHER -> DepthwiseConv2dGeneral(x, p)
=============================================================================
