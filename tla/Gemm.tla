--------------------------------- MODULE Gemm ---------------------------------
(***************************************************************************)
(* Matrix products on the CPU (mace/kernels/gemm.cc and its callers        *)
(* matmul.h and fully_connected.h).                                        *)
(*                                                                         *)
(* A product is described by what it adds up: the terms <<c, a, b, path>>, *)
(* "element a of A times element b of B is added to element c of C", all   *)
(* as positions in memory; path tells where in the code the term is added, *)
(* so that a product added twice makes two terms.                          *)
(***************************************************************************)
EXTENDS Windows

CONSTANT GemmBlockSize   \* block_size, 64 in the code

ASSUME GemmAssumption == GemmBlockSize \in Nat \ {0}

Arch == {"armv8", "gcc", "armv7", "cpu"}

(* Starts of the tiles of n elements that fit into 0..size-1.              *)
Tiles(size, n) == {i \in 0..(size - 1) : i % n = 0 /\ i + n <= size}

(* Calls of Gemm.                                                          *)
IsGemm(a) ==
  /\ a.arch \in Arch /\ a.batch \in Nat /\ {a.height, a.K, a.width} \subseteq Nat \ {0}
  /\ {a.transA, a.transB} \subseteq BOOLEAN

-----------------------------------------------------------------------------
(* In registers: the terms of a tile are <<row of C, row of A, column of   *)
(* A, row of B>>.                                                          *)

(* One call of MACE_GEMM_PART_CAL_4(RC): register a_i holds row i of A.    *)
PartCal4(rc) == {<<rc, rc, l, l>> : l \in 0..3}

Gemm144 == PartCal4(0)
Gemm244 == Gemm144 \cup PartCal4(1)
Gemm344 == Gemm244 \cup PartCal4(2)
Gemm444 == Gemm344 \cup PartCal4(3)
Gemm544 == Gemm444 \cup PartCal4(4)
Gemm644 == Gemm544 \cup PartCal4(5)

(* The registers of A hold half a row each: a_2i and a_2i+1 are row i.     *)
Half(q, lane) == <<q \div 2, 4 * (q % 2) + lane>>

(* MACE_GEMM_PART_CAL_8(RC, RA, RAN).                                      *)
PartCal8(rc, ra, ran) == {<<rc>> \o Half(ra, l) \o <<l>> : l \in 0..3}
                           \cup {<<rc>> \o Half(ran, l) \o <<4 + l>> : l \in 0..3}

Gemm184 == PartCal8(0, 0, 1)
Gemm284 == Gemm184 \cup PartCal8(1, 2, 3)
Gemm384 == Gemm284 \cup PartCal8(2, 4, 5)
Gemm484 == Gemm384 \cup PartCal8(3, 6, 7)
Gemm584 == Gemm484 \cup PartCal8(4, 8, 9)
Gemm684 == Gemm584 \cup PartCal8(5, 10, 11)
Gemm784 == Gemm684 \cup PartCal8(6, 12, 13)
Gemm884 == Gemm784 \cup PartCal8(7, 14, 15)

GemmX44(row) == <<Gemm144, Gemm244, Gemm344, Gemm444, Gemm544, Gemm644>>[row]
GemmX84(row) ==
  <<Gemm184, Gemm284, Gemm384, Gemm484, Gemm584, Gemm684, Gemm784, Gemm884>>[row]

-----------------------------------------------------------------------------
(* The terms of a block whose corner is <<h, k, w>>; a term of a tile is   *)
(* <<row, row of A, column of A, row of B, column, path>>.                 *)
GemmBlock(h, k, w, height, K, width) ==
  {<<h + i, h + i, k + l, k + l, w + j, <<"block", h, k, w>> >> :
     i \in 0..(height - 1), l \in 0..(K - 1), j \in 0..(width - 1)}

RegisterTiles(regs, h, k, width) ==
  {<<h + r[1], h + r[2], k + r[3], k + r[4], w + j, <<"tile", h, k, w>> >> :
     r \in regs, w \in Tiles(width, 4), j \in 0..3}

RegHeight(arch) == IF arch = "armv7" THEN 6 ELSE 8
RegK(arch)      == IF arch = "armv7" THEN 4 ELSE 8

(* The full tiles of clang's builds, in assembler: a row of B after the    *)
(* other is multiplied by a lane of every register of A, which holds half  *)
(* a row of eight or a row of four.                                        *)
AsmLow  == {<<r>> \o Half(2 * r, l) \o <<l>> : r \in 0..7, l \in 0..3}
AsmHigh == {<<r>> \o Half(2 * r + 1, l) \o <<l + 4>> : r \in 0..7, l \in 0..3}
Asm644  == {<<r, r, l, l>> : r \in 0..5, l \in 0..3}

FullTile(arch) ==
  CASE arch = "armv8" -> AsmLow \cup AsmHigh
    [] arch = "gcc"   -> Gemm884
    [] arch = "armv7" -> Asm644

PartialTile(arch, rows) == IF arch = "armv7" THEN GemmX44(rows) ELSE GemmX84(rows)

(* Columns by four in registers, the rest one by one.                      *)
Columns(arch, regs, h, k, rows, width) ==
  LET w == 4 * (width \div 4) IN
  RegisterTiles(regs, h, k, width) \cup GemmBlock(h, k, w, rows, RegK(arch), width - w)

FullRows(arch, height, K, width) ==
  LET rh == RegHeight(arch)
      k0 == RegK(arch) * (K \div RegK(arch))
  IN  (UNION {Columns(arch, FullTile(arch), h, k, rh, width) :
                h \in Tiles(height, rh), k \in Tiles(K, RegK(arch))})
        \cup (UNION {GemmBlock(h, k0, 0, rh, K - k0, width) : h \in Tiles(height, rh)})

(* Bug: the last tile of k is computed in registers and again as the rest. *)
BugRemainingRows(arch, height, K, width) ==
  LET h  == RegHeight(arch) * (height \div RegHeight(arch))
      k0 == RegK(arch) * ((K - 1) \div RegK(arch))
  IN  IF h = height THEN {}
      ELSE (UNION {Columns(arch, PartialTile(arch, height - h), h, k, height - h, width) :
                     k \in Tiles(K, RegK(arch))})
             \cup GemmBlock(h, k0, 0, height - h, K - k0, width)

(* The loop over k ends before K - reg_K_tile here: the last tile, even    *)
(* where it would fit, is left to GemmBlock.                               *)
RemainingRows(arch, height, K, width) ==
  LET h  == RegHeight(arch) * (height \div RegHeight(arch))
      k0 == RegK(arch) * ((K - 1) \div RegK(arch))
  IN  IF h = height THEN {}
      ELSE (UNION {Columns(arch, PartialTile(arch, height - h), h, k, height - h, width) :
                     k \in {i \in Tiles(K, RegK(arch)) : i < k0}})
             \cup GemmBlock(h, k0, 0, height - h, K - k0, width)

GemmTile(arch, height, K, width) ==
  IF arch = "cpu" THEN GemmBlock(0, 0, 0, height, K, width)
  ELSE FullRows(arch, height, K, width) \cup RemainingRows(arch, height, K, width)

-----------------------------------------------------------------------------
(* Position p of a copy made by Transpose, in the source.                  *)
Transposed(p, height, stride) == (p % height) * stride + p \div height

Interval(i, size) ==
  LET begin == i * GemmBlockSize IN
  [begin |-> begin,
   size  |-> IF i = RoundUpDiv(size, GemmBlockSize) - 1 /\ size % GemmBlockSize > 0
             THEN size % GemmBlockSize ELSE GemmBlockSize]

BlocksOf(size) == 0..(RoundUpDiv(size, GemmBlockSize) - 1)

(* Rows by four, and columns by four with a rest, or all one by one.       *)
Gemv(arch, m, v, batch, width, height, out) ==
  LET part(n, x) == IF arch = "cpu" THEN "all"
                    ELSE IF x < 4 * (n \div 4) THEN "vector" ELSE "rest"
  IN  {<<out + b * height + h, m + h * width + w, v + b * width + w,
         <<"gemv", part(height, h), part(width, w)>> >> :
         b \in 0..(batch - 1), h \in 0..(height - 1), w \in 0..(width - 1)}

(* One block of the product of matrix n.                                   *)
BlockTerms(arch, n, height, K, width, bh, bk, bw, transA, transB) ==
  LET ih == Interval(bh, height)
      ik == Interval(bk, K)
      iw == Interval(bw, width)
      a(i, k) ==
        n * height * K +
        IF transA THEN ik.begin * height + ih.begin
                         + Transposed(i * ik.size + k, ik.size, height)
        ELSE (ih.begin + i) * K + ik.begin + k
      b(k, j) ==
        n * K * width +
        IF transB THEN iw.begin * K + ik.begin + Transposed(k * iw.size + j, iw.size, K)
        ELSE (ik.begin + k) * width + iw.begin + j
      c(i, j) == n * height * width + (ih.begin + i) * width + iw.begin + j
  IN  {<<c(t[1], t[5]), a(t[2], t[3]), b(t[4], t[5]), t[6] \o <<bk>> >> :
         t \in GemmTile(arch, ih.size, ik.size, iw.size)}

GemmTerms(arch, batch, height, K, width, transA, transB) ==
  IF width = 1
  THEN UNION {Gemv(arch, b * height * K, b * K, 1, K, height, b * height) :
                b \in 0..(batch - 1)}
  ELSE UNION {BlockTerms(arch, n, height, K, width, bh, bk, bw, transA, transB) :
                n \in 0..(batch - 1), bh \in BlocksOf(height),
                bk \in BlocksOf(K), bw \in BlocksOf(width)}

GemmRef(batch, height, K, width, transA, transB) ==
  {<<n * height * width + i * width + j,
     n * height * K + (IF transA THEN Transposed(i * K + k, K, height) ELSE i * K + k),
     n * K * width + (IF transB THEN Transposed(k * width + j, width, K)
                      ELSE k * width + j)>> :
     n \in 0..(batch - 1), i \in 0..(height - 1), j \in 0..(width - 1), k \in 0..(K - 1)}

-----------------------------------------------------------------------------
(* The callers: MatMul of tensors of any rank, and FullyConnected, whose   *)
(* weights are a matrix with a row per output; and what the operators check.*)
IsMatMul(x) ==
  LET r == Len(x.a)
      depthA == x.a[IF x.transA THEN r - 1 ELSE r]
      depthB == x.b[IF x.transB THEN r ELSE r - 1]
  IN  /\ x.arch \in Arch /\ {x.transA, x.transB} \subseteq BOOLEAN
      /\ {x.a, x.b} \subseteq Seq(Nat \ {0}) /\ Len(x.b) = r /\ r >= 2
      /\ (\A i \in 1..(r - 2) : x.a[i] = x.b[i]) /\ depthA = depthB

IsFullyConnected(x) ==
  /\ x.arch \in Arch /\ {x.in, x.weight} \subseteq Seq(Nat \ {0})
  /\ Len(x.in) = 4 /\ Len(x.weight) = 4 /\ \A i \in 2..4 : x.in[i] = x.weight[i]

MatMul(arch, a, b, transA, transB) ==
  LET rank   == Len(a)
      height == IF transA THEN a[rank] ELSE a[rank - 1]
      K      == IF transA THEN a[rank - 1] ELSE a[rank]
      width  == IF transB THEN b[rank - 1] ELSE b[rank]
      batch  == Elements(SubSeq(a, 1, rank - 2))
  IN  GemmTerms(arch, batch, height, K, width, transA, transB)

FullyConnected(arch, in, weight) ==
  Gemv(arch, 0, 0, in[1], weight[2] * weight[3] * weight[4], weight[1], 0)
=============================================================================
