------------------------------- MODULE ConvTiles -------------------------------
(***************************************************************************)
(* The convolution kernels of the CPU: mace/kernels/arm/conv_2d_neon_*.cc  *)
(* and Conv2dGeneral of conv_2d.h.                                         *)
(*                                                                         *)
(* All of them work through the padded picture in tiles of the output,     *)
(* which is rounded up to whole tiles.  A kernel is described by the terms *)
(* <<o, i, f, path>> it adds up: "element i of the padded input times      *)
(* element f of the filter is added to element o of the padded output", in *)
(* positions in memory, as the code computes them from its pointers and    *)
(* the lanes of its registers.  path is the code and tile that adds it.    *)
(*                                                                         *)
(* The build is for armv8, for armv7 or without NEON ("cpu").              *)
(***************************************************************************)
EXTENDS Gemm

(* How a path of a kernel works: height and width of a tile of the output, *)
(* stride, where the taps of the filter are, row by row, from the start of *)
(* the filter of a channel, and how many rows and columns of the input a   *)
(* tile loads.                                                             *)
Path(name, tile, stride, taps, loads) ==
  [name |-> name, tile |-> tile, stride |-> stride, taps |-> taps, loads |-> loads,
   running |-> FALSE]

(* Pointers that are advanced by constants instead of computed.            *)
Running(path) == [path EXCEPT !.running = TRUE]

(* Lane l of a register loaded from offset r.                              *)
Lane(r, l) == r + l

(* The same registers for every row, the pointer being advanced by n.      *)
RowByRow(rows, lanes, n) == [i \in 1..rows |-> [j \in 1..Len(lanes) |-> n * (i - 1) + lanes[j]]]

-----------------------------------------------------------------------------
(* Full groups of n output channels, and the channels after them.          *)
Grouped(channels, n) == 0..(n * (channels \div n) - 1)
Singles(channels, n) == (n * (channels \div n))..(channels - 1)

(* Tiles of the padded output: <<chunk, h, w>>.                            *)
Grid(out, tile) == {<<0, h, w>> : h \in Tiles(out[3], tile[1]), w \in Tiles(out[4], tile[2])}

(* Chunks of rows, or of columns, that threads take in turn.               *)
RowChunks(out, tile) ==
  LET n == IF out[2] < 4 THEN RoundUpDiv4(out[3]) ELSE out[3] IN
  {<<h - (h % n), h, w>> : h \in 0..(out[3] - 1), w \in Tiles(out[4], tile[2])}

ColumnChunks(out, tile) ==
  LET n == IF out[2] < 4 THEN RoundUpDiv4(out[4]) ELSE out[4] IN
  {<<w - (w % n), h, w>> : h \in Tiles(out[3], tile[1]), w \in 0..(out[4] - 1)}

(* Where a tile's input and output start in their picture.                 *)
InBase(p, in, out, h, w) ==
  IF p.running
  THEN (h \div p.tile[1]) * (4 * (out[4] \div 4) + 2 + in[4]) + w
  ELSE h * p.stride[1] * in[4] + w * p.stride[2]

OutBase(p, out, h, w) ==
  IF p.running
  THEN (h \div p.tile[1]) * (4 * (out[4] \div 4) + out[4]) + w
  ELSE h * out[4] + w

(* The terms a path adds for the output channels ms.                       *)
Terms(p, ms, grid, in, out, dilation) ==
  LET kh   == Len(p.taps)
      kw   == Len(p.taps[1])
      inP  == in[3] * in[4]
      outP == out[3] * out[4]
  IN  {<<(b * out[2] + m) * outP + OutBase(p, out, t[2], t[3]) + y * out[4] + x,
         (b * in[2] + c) * inP + InBase(p, in, out, t[2], t[3])
           + (y * p.stride[1] + i * dilation[1]) * in[4] + x * p.stride[2] + j * dilation[2],
         (m * in[2] + c) * kh * kw + p.taps[i + 1][j + 1],
         <<p.name>> \o t>> :
         b \in 0..(in[1] - 1), m \in ms, c \in 0..(in[2] - 1), t \in grid,
         y \in 0..(p.tile[1] - 1), x \in 0..(p.tile[2] - 1),
         i \in 0..(kh - 1), j \in 0..(kw - 1)}

(* The first position behind everything a path loads.                      *)
Reach(p, ms, grid, in, out) ==
  IF ms = {} \/ grid = {} THEN 0
  ELSE LET last(t) == (in[1] * in[2] - 1) * in[3] * in[4] + InBase(p, in, out, t[2], t[3])
                        + (p.loads[1] - 1) * in[4] + p.loads[2]
           most    == CHOOSE t \in grid : \A u \in grid : last(u) <= last(t)
       IN  last(most)

-----------------------------------------------------------------------------
(* Without NEON, and where a kernel is written for one of the two only.    *)
Conv2dCPUKHxKWCalc(kh, kw, s) ==
  Path("cpu", <<1, 1>>, <<s, s>>, [i \in 1..kh |-> [j \in 1..kw |-> (i - 1) * kw + j - 1]],
       <<kh, kw>>)

(* 3x3, stride 1: two channels at a time, then one.                        *)
K3x3S1PairArmv8 ==
  Running(Path("pair", <<2, 4>>, <<1, 1>>,
               <<<<Lane(0, 0), Lane(0, 1), Lane(0, 2)>>,
                 <<Lane(3, 0), Lane(3, 1), Lane(3, 2)>>,
                 <<Lane(6, 0), Lane(6, 1), Lane(6, 2)>>>>, <<4, 8>>))

K3x3S1PairArmv7 ==
  Running(Path("pair", <<2, 4>>, <<1, 1>>,
               <<<<Lane(0, 0), Lane(0, 1), Lane(2, 0)>>,
                 <<Lane(2, 1), Lane(4, 0), Lane(4, 1)>>,
                 <<Lane(6, 0), Lane(6, 1), Lane(8, 0)>>>>, <<4, 8>>))

(* Bug: the lanes of a pair are used with the registers of a single.       *)
BugK3x3S1SingleArmv8 ==
  Running(Path("single", <<2, 4>>, <<1, 1>>,
               <<<<Lane(0, 0), Lane(0, 1), Lane(0, 2)>>,
                 <<Lane(3, 0), Lane(3, 1), Lane(3, 2)>>,
                 <<Lane(5, 0), Lane(5, 1), Lane(5, 2)>>>>, <<4, 8>>))

K3x3S1SingleArmv8 ==
  Running(Path("single", <<2, 4>>, <<1, 1>>,
               <<<<Lane(0, 0), Lane(0, 1), Lane(0, 2)>>,
                 <<Lane(3, 0), Lane(3, 1), Lane(3, 2)>>,
                 <<Lane(5, 1), Lane(5, 2), Lane(5, 3)>>>>, <<4, 8>>))

K3x3S1SingleArmv7 ==
  Running(Path("single", <<2, 4>>, <<1, 1>>,
               <<<<Lane(0, 0), Lane(0, 1), Lane(2, 0)>>,
                 <<Lane(2, 1), Lane(4, 0), Lane(4, 1)>>,
                 <<Lane(6, 0), Lane(6, 1), Lane(7, 1)>>>>, <<4, 8>>))

(* 3x3, stride 2.                                                          *)
K3x3S2Armv8 ==
  Path("single", <<1, 4>>, <<2, 2>>,
       <<<<Lane(0, 0), Lane(0, 1), Lane(0, 2)>>,
         <<Lane(3, 0), Lane(3, 1), Lane(3, 2)>>,
         <<Lane(5, 1), Lane(5, 2), Lane(5, 3)>>>>, <<3, 12>>)

K3x3S2Armv7 ==
  Path("single", <<1, 4>>, <<2, 2>>,
       <<<<Lane(0, 0), Lane(0, 1), Lane(2, 0)>>,
         <<Lane(2, 1), Lane(4, 0), Lane(4, 1)>>,
         <<Lane(6, 0), Lane(6, 1), Lane(7, 1)>>>>, <<3, 12>>)

(* 5x5: NEON on armv7 only.                                                *)
Lanes5 == <<Lane(0, 0), Lane(0, 1), Lane(0, 2), Lane(0, 3), Lane(3, 1)>>

K5x5S1Quad   == Path("quad", <<1, 4>>, <<1, 1>>, RowByRow(5, Lanes5, 5), <<5, 8>>)
K5x5S1Single == Path("single", <<1, 4>>, <<1, 1>>, RowByRow(5, Lanes5, 5), <<5, 8>>)

(* Seven taps in two registers that overlap.                               *)
Lanes7Quad   == <<Lane(0, 0), Lane(0, 1), Lane(0, 2), Lane(0, 3), Lane(3, 1), Lane(3, 2), Lane(3, 3)>>
Lanes7Single == <<Lane(0, 0), Lane(0, 1), Lane(0, 2), Lane(0, 3), Lane(3, 1), Lane(3, 2), Lane(3, 3)>>

Column(lanes) == [i \in 1..Len(lanes) |-> <<lanes[i]>>]

K1x7S1Quad   == Path("quad", <<1, 4>>, <<1, 1>>, <<Lanes7Quad>>, <<1, 12>>)
K1x7S1Single == Path("single", <<1, 4>>, <<1, 1>>, <<Lanes7Single>>, <<1, 12>>)

(* 7x1: the tiles are columns of four.  One channel at a time, twelve rows *)
(* are loaded where ten are needed.                                        *)
K7x1S1Quad   == Path("quad", <<4, 1>>, <<1, 1>>, Column(Lanes7Quad), <<10, 1>>)
K7x1S1Single == Path("single", <<4, 1>>, <<1, 1>>, Column(Lanes7Single), <<12, 1>>)

K7x7S1Quad   == Path("quad", <<1, 4>>, <<1, 1>>, RowByRow(7, Lanes7Quad, 7), <<7, 12>>)
K7x7S1Single == Path("single", <<1, 4>>, <<1, 1>>, RowByRow(7, Lanes7Single, 7), <<7, 12>>)
K7x7S2Quad   == Path("quad", <<1, 4>>, <<2, 2>>, RowByRow(7, Lanes7Quad, 7), <<7, 16>>)
K7x7S2Single == Path("single", <<1, 4>>, <<2, 2>>, RowByRow(7, Lanes7Single, 7), <<7, 16>>)
K7x7S3Quad   == Path("quad", <<1, 4>>, <<3, 3>>, RowByRow(7, Lanes7Quad, 7), <<7, 24>>)
K7x7S3Single == Path("single", <<1, 4>>, <<3, 3>>, RowByRow(7, Lanes7Single, 7), <<7, 24>>)

(* Fifteen taps in four registers, the last of which starts at 11.         *)
Lanes15 == [j \in 1..15 |-> IF j <= 12 THEN Lane(4 * ((j - 1) \div 4), (j - 1) % 4)
                            ELSE Lane(11, j - 12)]

K1x15S1 == Path("single", <<1, 4>>, <<1, 1>>, <<Lanes15>>, <<1, 20>>)
K15x1S1 == Path("single", <<4, 1>>, <<1, 1>>, Column(Lanes15), <<18, 1>>)

(* Any filter: tiles of four columns, four channels at a time, then one.   *)
GeneralQuad(kh, kw, strides) ==
  Path("quad", <<1, 4>>, strides, [i \in 1..kh |-> [j \in 1..kw |-> (i - 1) * kw + j - 1]],
       <<1, 1>>)
GeneralSingle(kh, kw, strides) == [GeneralQuad(kh, kw, strides) EXCEPT !.name = "single"]

-----------------------------------------------------------------------------
(* A kernel, by the build: how many channels it takes at a time, with      *)
(* which path, and which path takes the rest.                              *)
Kernel(chans, group, single) == [chans |-> chans, group |-> group, single |-> single]

Plain(kh, kw, s) == Kernel(1, Conv2dCPUKHxKWCalc(kh, kw, s), Conv2dCPUKHxKWCalc(kh, kw, s))

KernelFor(name, arch, kh, kw, strides) ==
  CASE name = "3x3s1" /\ arch = "armv8" -> Kernel(2, K3x3S1PairArmv8, K3x3S1SingleArmv8)
    [] name = "3x3s1" /\ arch = "armv7" -> Kernel(2, K3x3S1PairArmv7, K3x3S1SingleArmv7)
    [] name = "3x3s2" /\ arch = "armv8" -> Kernel(1, K3x3S2Armv8, K3x3S2Armv8)
    [] name = "3x3s2" /\ arch = "armv7" -> Kernel(1, K3x3S2Armv7, K3x3S2Armv7)
    [] name = "5x5s1" /\ arch = "armv7" -> Kernel(4, K5x5S1Quad, K5x5S1Single)
    [] name = "1x7s1" /\ arch # "cpu"   -> Kernel(4, K1x7S1Quad, K1x7S1Single)
    [] name = "7x1s1" /\ arch # "cpu"   -> Kernel(4, K7x1S1Quad, K7x1S1Single)
    [] name = "7x7s1" /\ arch # "cpu"   -> Kernel(4, K7x7S1Quad, K7x7S1Single)
    [] name = "7x7s2" /\ arch # "cpu"   -> Kernel(4, K7x7S2Quad, K7x7S2Single)
    [] name = "7x7s3" /\ arch # "cpu"   -> Kernel(4, K7x7S3Quad, K7x7S3Single)
    [] name = "1x15s1" /\ arch = "armv7" -> Kernel(1, K1x15S1, K1x15S1)
    [] name = "15x1s1" /\ arch = "armv7" -> Kernel(1, K15x1S1, K15x1S1)
    [] name = "general" -> Kernel(4, GeneralQuad(kh, kw, strides), GeneralSingle(kh, kw, strides))
    [] OTHER -> Plain(kh, kw, strides[1])

GridFor(name, out, tile) ==
  CASE name = "1x15s1" -> RowChunks(out, tile)
    [] name = "15x1s1" -> ColumnChunks(out, tile)
    [] OTHER           -> Grid(out, tile)

KernelTerms(name, arch, in, out, filter, strides, dilations) ==
  LET k == KernelFor(name, arch, filter[3], filter[4], strides) IN
  Terms(k.group, Grouped(out[2], k.chans), GridFor(name, out, k.group.tile), in, out, dilations)
    \cup Terms(k.single, Singles(out[2], k.chans), GridFor(name, out, k.single.tile),
               in, out, dilations)

KernelReach(name, arch, in, out, filter, strides) ==
  LET k == KernelFor(name, arch, filter[3], filter[4], strides) IN
  Larger(Reach(k.group, Grouped(out[2], k.chans), GridFor(name, out, k.group.tile), in, out),
         Reach(k.single, Singles(out[2], k.chans), GridFor(name, out, k.single.tile), in, out))

(* 1x1, stride 1: one matrix product per picture, filter by input.         *)
Conv2dNeonK1x1S1(arch, in, out) ==
  LET plane == in[3] * in[4] IN
  UNION {{<<b * out[2] * plane + t[1], b * in[2] * plane + t[3], t[2], t[4]>> :
            t \in GemmTerms(arch, 1, out[2], in[2], plane, FALSE, FALSE)} :
           b \in 0..(in[1] - 1)}
=============================================================================
