----------------------------- MODULE KernelsProofs -----------------------------
(***************************************************************************)
(* Four results about the kernels, for arguments of any size.              *)
(*                                                                         *)
(* The partition of an OpenCL kernel's work is right for every number of   *)
(* items, every device and every parameter that is computed, tuned or      *)
(* found in the tuner's table.  Zero is a level of every quantized range   *)
(* and a value comes back within half a step.  And no convolution reads    *)
(* farther behind its padded input than the pad that is allocated, which   *)
(* holds because the input has room for the last output's window (Room)    *)
(* and each tile loads but a little more than its windows (Loads).         *)
(*                                                                         *)
(* The longest is that matrix products add up every product once.  A tile  *)
(* of registers, a block of tiles and a matrix of blocks each add what is  *)
(* in a box of indices (AddsEach, Places), and boxes that cut a larger one *)
(* put it together (UnionEach, PlacesUnion).                               *)
(***************************************************************************)
EXTENDS WorkSizesProofs, Kernels

-----------------------------------------------------------------------------
(* What is being called is one of the calls.                               *)
Called == call = Idle \/ call \in Calls

LEMMA OnlyCalls == Spec => []Called
<1>1. Init => Called
  BY DEF Init, Called
<1>2. Called /\ [Next]_call => Called'
  BY DEF Called, Next, CallsOf, CallMatrixProduct, CallTile, CallConv2d, CallDepthwise, CallDeconv2d, CallMove,
         CallBlock, CallStridedSlice, CallEltwise, CallAggregate, CallPerChannel, CallQuantize,
         CallProposal, Enqueue, Return
<1> QED BY <1>1, <1>2, PTL DEF Spec

-----------------------------------------------------------------------------
(* The items of an enqueue, and what is right about all of a kernel's.     *)
Covers(r, c) == \A d \in DOMAIN c : Within(c[d], r.offset[d], r.offset[d] + r.items[d] - 1)

EnqueuesRight(ranges, gws, device) ==
  /\ \A c \in Coordinates(gws) : Cardinality({r \in ranges : Covers(r, c)}) = 1
  /\ \A r \in ranges :
       /\ Elements(r.group) \in 1..device.maxGroup
       /\ device.nonUniform \/ \A d \in DOMAIN r.group : r.items[d] % r.group[d] = 0

(* The range of one block.                                                 *)
BlockSize(all, block, device, n, i) ==
  IF device.nonUniform /\ i = RoundUpDiv(all[n], block) - 1 THEN all[n] - i * block ELSE block

BlockRange(all, block, params, device, n, i) ==
  [offset |-> [d \in 1..n |-> IF d = n THEN i * block ELSE 0],
   items  |-> [all EXCEPT ![n] = BlockSize(all, block, device, n, i)],
   group  |-> Group(params)]

(* Each block is of a block's size at most, and reaches the next.          *)
LEMMA SizesAre ==
  ASSUME NEW n \in {2, 3}, NEW all \in [1..n -> Pos], NEW block \in Pos, NEW device,
         NEW k \in Pos, k = RoundUpDiv(all[n], block), NEW i \in 0..(k - 1)
  PROVE  /\ BlockSize(all, block, device, n, i) \in Int /\ BlockSize(all, block, device, n, i) <= block
         /\ ~device.nonUniform => BlockSize(all, block, device, n, i) = block
         /\ \A x \in 0..(all[n] - 1) :
              x < i * block + block => x < i * block + BlockSize(all, block, device, n, i)
<1>0. PICK a, size : a \in Pos /\ a = all[n] /\ size = BlockSize(all, block, device, n, i)
  OBVIOUS
<1>1. (k - 1) * block < a /\ a - (k - 1) * block <= block /\ (k - 1) * block \in Nat
  <2>1. k - 1 \in Nat
    BY DEF Pos
  <2>2. (k - 1) * block \in Nat
    BY <2>1 DEF Pos
  <2>3. k = RoundUpDiv(a, block)
    BY <1>0
  <2>4. \E l \in Pos : l = RoundUpDiv(a, block) /\ (l - 1) * block < a /\ a - (l - 1) * block <= block
    BY <1>0, Blocks
  <2> QED BY <2>2, <2>3, <2>4
<1>2. i * block \in Nat
  BY DEF Pos
<1>3. CASE size = block
  BY <1>0, <1>2, <1>3 DEF Pos
<1>4. CASE size # block
  <2>1. i = k - 1 /\ size = a - i * block /\ device.nonUniform
    BY <1>0, <1>4 DEF BlockSize
  <2>2. PICK m \in Nat : m = i * block /\ size = a - m /\ m < a /\ a - m <= block
    BY <1>1, <1>2, <2>1
  <2>3. size \in Int /\ size <= block /\ \A x \in 0..(a - 1) : x < i * block + size
    BY <1>0, <2>2 DEF Pos
  <2> QED BY <1>0, <2>1, <2>3
<1> QED BY <1>3, <1>4

ItemOf(c, all, n) == DOMAIN c = 1..n /\ \A d \in 1..n : c[d] \in Nat /\ c[d] < all[d]

Enlarged(all, gws, params, device, n) ==
  /\ IsSizes(all, n)
  /\ \A d \in 1..n : gws[d] <= all[d] /\ WholeGroups(all[d], params[d], device)

OneCovers(ranges, c) == \E one : \A r : r \in ranges /\ Covers(r, c) <=> r = one

LEMMA BlocksCover ==
  ASSUME NEW n \in {2, 3}, NEW all, IsSizes(all, n), NEW block \in Pos, NEW params,
         NEW device, NEW c, ItemOf(c, all, n)
  PROVE  OneCovers(InBlocks(all, block, params, device), c)
<1> USE DEF IsSizes, ItemOf
<1>1. PICK k \in Pos : k = RoundUpDiv(all[n], block) /\ all[n] <= k * block
  <2>1. PICK a \in Pos : a = all[n]
    OBVIOUS
  <2> QED BY <2>1, Blocks
<1>2. PICK x \in Nat : x = c[n] /\ x < all[n]
  OBVIOUS
<1>3. all[n] \in Nat /\ k * block \in Nat
  BY DEF Pos
<1>4. PICK q \in Nat : q * block <= x /\ x < q * block + block
  BY Division
<1>5. q \in 0..(k - 1)
  <2>1. ASSUME ~(q < k) PROVE FALSE
    <3>1. k * block <= q * block
      BY <2>1, Monotone DEF Pos
    <3> QED BY <1>1, <1>2, <1>3, <1>4, <3>1 DEF Pos
  <2> QED BY <2>1 DEF Pos
<1>6. \A i \in 0..(k - 1) : /\ i * block \in Nat
                            /\ BlockSize(all, block, device, n, i) \in Int
                            /\ BlockSize(all, block, device, n, i) <= block
                            /\ x < i * block + block => x < i * block + BlockSize(all, block, device, n, i)
  <2> SUFFICES ASSUME NEW i \in 0..(k - 1)
               PROVE  /\ i * block \in Nat
                      /\ BlockSize(all, block, device, n, i) \in Int
                      /\ BlockSize(all, block, device, n, i) <= block
                      /\ x < i * block + block => x < i * block + BlockSize(all, block, device, n, i)
    OBVIOUS
  <2>1. /\ BlockSize(all, block, device, n, i) \in Int /\ BlockSize(all, block, device, n, i) <= block
        /\ \A y \in 0..(all[n] - 1) :
             y < i * block + block => y < i * block + BlockSize(all, block, device, n, i)
    BY <1>1, SizesAre
  <2>2. x \in 0..(all[n] - 1)
    BY <1>2, <1>3
  <2> QED BY <2>1, <2>2 DEF Pos
<1>7. ASSUME NEW i \in 0..(k - 1)
      PROVE  Covers(BlockRange(all, block, params, device, n, i), c) <=> i = q
  <2>1. PICK r, size : r = BlockRange(all, block, params, device, n, i) /\ size = BlockSize(all, block, device, n, i)
    OBVIOUS
  <2>2. /\ r.offset = [d \in 1..n |-> IF d = n THEN i * block ELSE 0]
        /\ r.items = [all EXCEPT ![n] = size]
    BY <2>1 DEF BlockRange
  <2>3. \A d \in 1..n : d # n => Within(c[d], r.offset[d], r.offset[d] + r.items[d] - 1)
    BY <2>2 DEF Within, Pos
  <2>4. Covers(r, c) <=> i * block <= x /\ x <= i * block + size - 1
    BY <1>2, <2>2, <2>3 DEF Covers, Within
  <2>5. /\ size \in Int /\ size <= block /\ i * block \in Nat /\ i \in Nat
        /\ x < i * block + block => x < i * block + size
    BY <1>6, <2>1
  <2>6. Covers(r, c) => i = q
    <3>1. ASSUME Covers(r, c) PROVE i = q
      <4>1. i * block <= x /\ x < i * block + block
        BY <2>4, <2>5, <3>1 DEF Pos
      <4> QED BY <1>4, <2>5, <4>1, OneBlock
    <3> QED BY <3>1
  <2>7. i = q => Covers(r, c)
    BY <1>4, <2>4, <2>5
  <2> QED BY <2>1, <2>6, <2>7
<1>8. PICK R, one : R = InBlocks(all, block, params, device) /\ one = BlockRange(all, block, params, device, n, q)
  OBVIOUS
<1>9. \A r : r \in R <=> \E i \in 0..(k - 1) : r = BlockRange(all, block, params, device, n, i)
  <2>1. \A r : r \in InBlocks(all, block, params, device) <=>
               \E i \in 0..(RoundUpDiv(all[n], block) - 1) :
                 r = BlockRange(all, block, params, device, n, i)
    BY DEF InBlocks, BlockRange, BlockSize
  <2> QED BY <1>1, <1>8, <2>1
<1>10. \A r : r \in R /\ Covers(r, c) <=> r = one
  <2>1. \A r \in R : Covers(r, c) => r = one
    <3> SUFFICES ASSUME NEW r \in R, Covers(r, c) PROVE r = one
      OBVIOUS
    <3>1. PICK i \in 0..(k - 1) : r = BlockRange(all, block, params, device, n, i)
      BY <1>9
    <3>2. i = q
      BY <1>7, <3>1
    <3> QED BY <1>8, <3>1, <3>2
  <2>2. one \in R /\ Covers(one, c)
    BY <1>5, <1>7, <1>8, <1>9
  <2> QED BY <2>1, <2>2
<1> QED BY <1>8, <1>10 DEF OneCovers

-----------------------------------------------------------------------------
(* Enqueueing blocks is right: every item that was asked for is run once,  *)
(* whatever else is run where groups must be equal.                        *)
LEMMA ItemsAre ==
  ASSUME NEW n \in {2, 3}, NEW gws, IsSizes(gws, n), NEW params, NEW device,
         \A d \in 1..n : params[d] \in Pos
  PROVE  Enlarged(InternalGws(gws, params, device), gws, params, device, n)
<1>1. PICK all : all = InternalGws(gws, params, device)
  OBVIOUS
<1>2. gws \in [1..n -> Pos] /\ Len(gws) = n
  BY DEF IsSizes
<1>3. CASE device.nonUniform
  <2>1. all = gws
    BY <1>1, <1>3 DEF InternalGws
  <2>2. \A d \in 1..n : gws[d] <= gws[d]
    BY <1>2 DEF Pos
  <2> QED BY <1>1, <1>2, <1>3, <2>1, <2>2 DEF Enlarged, WholeGroups, IsSizes
<1>4. CASE ~device.nonUniform
  <2>1. all = [d \in 1..n |-> RoundUp(gws[d], params[d])]
    BY <1>1, <1>2, <1>4 DEF InternalGws
  <2>2. ASSUME NEW d \in 1..n PROVE all[d] \in Pos /\ gws[d] <= all[d] /\ all[d] % params[d] = 0
    <3>1. PICK g, f : g = gws[d] /\ f = params[d] /\ g \in Pos /\ f \in Pos
      BY <1>2
    <3>2. RoundUp(g, f) \in Nat /\ g <= RoundUp(g, f) /\ RoundUp(g, f) % f = 0
      BY <3>1, Rounded DEF Pos
    <3> QED BY <2>1, <3>1, <3>2 DEF Pos
  <2>3. all \in [1..n -> Pos]
    BY <2>1, <2>2
  <2>4. Len(all) = n
    BY <2>3
  <2> QED BY <1>1, <2>2, <2>3, <2>4 DEF Enlarged, WholeGroups, IsSizes
<1> QED BY <1>3, <1>4

LEMMA InRange ==
  ASSUME NEW n \in {2, 3}, NEW gws, IsSizes(gws, n), NEW c \in Coordinates(gws)
  PROVE  ItemOf(c, gws, n)
<1>1. PICK longest : /\ c \in [DOMAIN gws -> 0..(longest - 1)]
                     /\ \A i \in DOMAIN gws : c[i] < gws[i]
  BY Zenon DEF Coordinates
<1>2. \A i \in 0..(longest - 1) : i \in Nat
  OBVIOUS
<1> QED BY <1>1, <1>2 DEF ItemOf, IsSizes

LEMMA BlocksRight ==
  ASSUME NEW n \in {2, 3}, NEW gws, IsSizes(gws, n), NEW params, NEW device,
         Runs(params, n, device), NEW block \in Pos, WholeGroups(block, params[n], device)
  PROVE  EnqueuesRight(InBlocks(InternalGws(gws, params, device), block, params, device), gws, device)
<1>1. /\ DOMAIN Group(params) = 1..n /\ \A d \in 1..n : Group(params)[d] = params[d]
      /\ \A d \in 1..n : params[d] \in Pos
  BY RunsMeans
<1>2. PICK all : all = InternalGws(gws, params, device) /\ Enlarged(all, gws, params, device, n)
  BY <1>1, ItemsAre
<1>3. /\ IsSizes(all, n) /\ all \in [1..n -> Pos] /\ Len(all) = n
      /\ \A d \in 1..n : gws[d] <= all[d] /\ WholeGroups(all[d], params[d], device)
  BY <1>2 DEF Enlarged, IsSizes
<1>4. PICK R : R = InBlocks(all, block, params, device)
  OBVIOUS
<1>5. ASSUME NEW c \in Coordinates(gws) PROVE Cardinality({r \in R : Covers(r, c)}) = 1
  <2>1. ItemOf(c, gws, n)
    BY InRange
  <2>2. ItemOf(c, all, n)
    BY <1>3, <2>1 DEF ItemOf, IsSizes, Pos
  <2>3. OneCovers(R, c)
    BY <1>3, <1>4, <2>2, BlocksCover
  <2>4. PICK one : \A r : r \in R /\ Covers(r, c) <=> r = one
    BY <2>3 DEF OneCovers
  <2>5. {r \in R : Covers(r, c)} = {one}
    BY <2>4
  <2>6. Cardinality({one}) = 1
    BY FS_Singleton
  <2> QED BY <2>5, <2>6
<1>6. ASSUME NEW r \in R
      PROVE  /\ Elements(r.group) \in 1..device.maxGroup
             /\ device.nonUniform \/ \A d \in DOMAIN r.group : r.items[d] % r.group[d] = 0
  <2>1. PICK i : r = BlockRange(all, block, params, device, n, i)
    BY <1>3, <1>4 DEF InBlocks, BlockRange, BlockSize
  <2>2. r.group = Group(params) /\ r.items = [all EXCEPT ![n] = BlockSize(all, block, device, n, i)]
    BY <2>1 DEF BlockRange
  <2>3. ~device.nonUniform => BlockSize(all, block, device, n, i) = block
    BY DEF BlockSize
  <2>4. ~device.nonUniform => \A d \in 1..n : r.items[d] = IF d = n THEN block ELSE all[d]
    BY <1>3, <2>2, <2>3
  <2>5. ~device.nonUniform => \A d \in DOMAIN r.group : r.items[d] % r.group[d] = 0
    BY <1>1, <1>3, <2>2, <2>4 DEF WholeGroups
  <2> QED BY <2>2, <2>5 DEF Runs
<1> QED BY <1>2, <1>4, <1>5, <1>6 DEF EnqueuesRight

LEMMA RunRight ==
  ASSUME NEW n \in {2, 3}, NEW gws, IsSizes(gws, n), NEW params, NEW device,
         Runs(params, n, device), BlockAligned(params, n, device)
  PROVE  EnqueuesRight(RunKernel(gws, params, device), gws, device)
<1>1. \A d \in 1..n : params[d] \in Pos
  BY RunsMeans
<1>2. PICK all : all = InternalGws(gws, params, device) /\ Enlarged(all, gws, params, device, n)
  BY <1>1, ItemsAre
<1>3. all[n] \in Pos /\ WholeGroups(all[n], params[n], device)
  BY <1>2 DEF Enlarged, IsSizes
<1>4. PICK block : block = IF params[n + 1] = 0 THEN all[n] ELSE params[n + 1]
  OBVIOUS
<1>5. block \in Pos /\ WholeGroups(block, params[n], device)
  <2>1. params[n + 1] \in Nat
    BY DEF Runs
  <2>2. CASE params[n + 1] = 0
    BY <1>3, <1>4, <2>2
  <2>3. CASE params[n + 1] # 0
    BY <1>4, <2>1, <2>3 DEF BlockAligned, Pos
  <2> QED BY <2>2, <2>3
<1>6. RunKernel(gws, params, device) = InBlocks(all, block, params, device)
  BY <1>2, <1>4 DEF RunKernel, IsSizes
<1>7. EnqueuesRight(InBlocks(InternalGws(gws, params, device), block, params, device), gws, device)
  BY <1>5, BlocksRight
<1> QED BY <1>2, <1>6, <1>7

-----------------------------------------------------------------------------
(* Tuning.                                                                 *)
LEMMA TunedBlockIs ==
  ASSUME NEW n \in {2, 3}, NEW gws, IsSizes(gws, n), NEW params, NEW device,
         NEW slow \in Nat, params[n] \in Pos
  PROVE  /\ TunedBlock(gws, params, device, slow) \in Pos
         /\ WholeGroups(TunedBlock(gws, params, device, slow), params[n], device)
<1>1. PICK g, m : g = gws[n] /\ m = Smaller(slow + 1, gws[n])
  OBVIOUS
<1>2. g \in Pos /\ m \in Pos /\ m <= g
  BY <1>1 DEF Smaller, Pos, IsSizes
<1>3. PICK q : q = g \div m
  OBVIOUS
<1>4. q \in Nat /\ q * m <= g /\ g < q * m + m
  <2>1. g \in Nat
    BY <1>2 DEF Pos
  <2> QED BY <1>2, <1>3, <2>1, Division
<1>5. q # 0
  BY <1>2, <1>4 DEF Pos
<1>6. q \in Pos
  BY <1>4, <1>5 DEF Pos
<1>7. PICK f : f = params[n] /\ f \in Pos
  OBVIOUS
<1>8. RoundUp(q, f) \in Pos /\ RoundUp(q, f) % f = 0
  <2>1. RoundUp(q, f) \in Nat /\ q <= RoundUp(q, f) /\ RoundUp(q, f) % f = 0
    BY <1>4, <1>7, Rounded
  <2> QED BY <1>6, <2>1 DEF Pos
<1>9. TunedBlock(gws, params, device, slow) = IF device.nonUniform THEN q ELSE RoundUp(q, f)
  BY <1>1, <1>3, <1>7 DEF TunedBlock, IsSizes
<1> QED BY <1>6, <1>7, <1>8, <1>9 DEF WholeGroups

(* Parameters with another block run groups of the same size.              *)
LEMMA OtherBlock ==
  ASSUME NEW n \in {2, 3}, NEW params, NEW device, Runs(params, n, device),
         NEW block \in Pos, WholeGroups(block, params[n], device)
  PROVE  /\ Runs([params EXCEPT ![n + 1] = block], n, device)
         /\ BlockAligned([params EXCEPT ![n + 1] = block], n, device)
<1>1. PICK p : p = [params EXCEPT ![n + 1] = block]
  OBVIOUS
<1>2. params \in [1..(n + 1) -> Nat] /\ Len(params) = n + 1
  BY DEF Runs
<1>3. /\ p \in [1..(n + 1) -> Nat] /\ p[n + 1] = block
      /\ \A d \in 1..n : p[d] = params[d]
  BY <1>1, <1>2 DEF Pos
<1>4. Len(p) = n + 1
  BY <1>3
<1>5. Elements(Group(p)) = Elements(Group(params))
  <2>1. /\ n = 2 => Elements(Group(params)) = params[1] * params[2]
        /\ n = 3 => Elements(Group(params)) = params[1] * params[2] * params[3]
    BY <1>2, GroupsAre
  <2>2. /\ n = 2 => Elements(Group(p)) = p[1] * p[2]
        /\ n = 3 => Elements(Group(p)) = p[1] * p[2] * p[3]
    BY <1>3, <1>4, GroupsAre
  <2> QED BY <1>3, <2>1, <2>2
<1>6. Runs(p, n, device)
  BY <1>3, <1>4, <1>5 DEF Runs
<1>7. BlockAligned(p, n, device)
  BY <1>3 DEF BlockAligned
<1> QED BY <1>1, <1>6, <1>7

LEMMA TuningRight ==
  ASSUME NEW n \in {2, 3}, NEW gws, IsSizes(gws, n), NEW params, NEW device,
         Runs(params, n, device), params[n + 1] = 0, NEW limit, NEW slow \in Nat
  PROVE  /\ EnqueuesRight(TuneKernel(gws, params, device, limit, slow).first, gws, device)
         /\ limit => EnqueuesRight(TuneKernel(gws, params, device, limit, slow).again, gws, device)
         /\ Runs(TuneKernel(gws, params, device, limit, slow).result, n, device)
         /\ BlockAligned(TuneKernel(gws, params, device, limit, slow).result, n, device)
<1>1. \A d \in 1..n : params[d] \in Pos
  BY RunsMeans
<1>2. PICK all : all = InternalGws(gws, params, device) /\ Enlarged(all, gws, params, device, n)
  BY <1>1, ItemsAre
<1>3. all[n] \in Pos /\ WholeGroups(all[n], params[n], device)
  BY <1>2 DEF Enlarged, IsSizes
<1>4. PICK block : block = TunedBlock(gws, params, device, slow)
  OBVIOUS
<1>5. block \in Pos /\ WholeGroups(block, params[n], device)
  BY <1>1, <1>4, TunedBlockIs
<1>6. PICK t : t = TuneKernel(gws, params, device, limit, slow)
  OBVIOUS
<1>7. /\ t.first = InBlocks(all, all[n], params, device)
      /\ limit => t.again = InBlocks(all, block, params, device)
      /\ t.result = IF limit THEN [params EXCEPT ![n + 1] = block] ELSE params
  BY <1>2, <1>4, <1>6 DEF TuneKernel, IsSizes
<1>8. EnqueuesRight(t.first, gws, device)
  BY <1>2, <1>3, <1>7, BlocksRight
<1>9. limit => EnqueuesRight(t.again, gws, device)
  BY <1>2, <1>5, <1>7, BlocksRight
<1>10. Runs(t.result, n, device) /\ BlockAligned(t.result, n, device)
  <2>1. CASE t.result = params
    BY <2>1 DEF BlockAligned
  <2>2. CASE t.result = [params EXCEPT ![n + 1] = block]
    BY <1>5, <2>2, OtherBlock
  <2> QED BY <1>7, <2>1, <2>2
<1> QED BY <1>6, <1>8, <1>9, <1>10

-----------------------------------------------------------------------------
LEMMA Candidates2DRun ==
  ASSUME NEW gws, NEW device, device.maxGroup \in Pos, NEW p \in Candidates2D(gws, device)
  PROVE  Runs(p, 2, device) /\ p[3] = 0
<1>1. PICK k \in Pos : k = device.maxGroup
  OBVIOUS
<1>2. Elements(Group(p)) > 0 /\ Elements(Group(p)) <= k
  BY <1>1 DEF Candidates2D, Fitting
<1>3. \E a, b \in Nat : p = <<a, b, 0>>
  <2>1. p \in {<<k \div d, d, 0>> : d \in {1, 2, 4, 8, 16, 32, 64, 128, 256}} \cup {<<1, k, 0>>}
    BY <1>1 DEF Candidates2D, Fitting
  <2>2. CASE p = <<1, k, 0>>
    BY <2>2 DEF Pos
  <2>3. CASE \E d \in {1, 2, 4, 8, 16, 32, 64, 128, 256} : p = <<k \div d, d, 0>>
    <3>1. PICK d \in {1, 2, 4, 8, 16, 32, 64, 128, 256} : p = <<k \div d, d, 0>>
      BY <2>3
    <3>2. d \in Pos /\ k \in Nat
      BY DEF Pos
    <3>3. k \div d \in Nat /\ d \in Nat
      BY <3>2, Division DEF Pos
    <3> QED BY <3>1, <3>3
  <2> QED BY <2>1, <2>2, <2>3
<1>4. PICK a \in Nat, b \in Nat : p = <<a, b, 0>>
  BY <1>3
<1>5. /\ Elements(Group(p)) \in Nat
      /\ p \in [1..3 -> Nat] /\ Len(p) = 3 /\ p[3] = 0
  BY <1>4, GroupOfTwo
<1> QED BY <1>1, <1>2, <1>5 DEF Runs, Pos

LEMMA Candidates3DRun ==
  ASSUME NEW gws, IsSizes(gws, 3), NEW device, device.maxGroup \in Pos,
         NEW p \in Candidates3D(gws, device)
  PROVE  Runs(p, 3, device) /\ p[4] = 0
<1>1. PICK k \in Pos : k = device.maxGroup
  OBVIOUS
<1>2. Elements(Group(p)) > 0 /\ Elements(Group(p)) <= k
  BY <1>1 DEF Candidates3D, Fitting
<1>3. gws[1] \in Nat /\ gws[2] \in Nat /\ gws[3] \in Nat
  BY DEF IsSizes, Pos
<1>4. \A x \in Nat : x \div 4 \in Nat /\ x \div 8 \in Nat
  BY Division DEF Pos
<1>5. PICK g1 \in {gws[1], gws[1] \div 4, gws[1] \div 8, 4, 1},
           g3 \in {gws[3], gws[3] \div 8, gws[3] \div 4, 8, 4, 1} : p = <<g1, gws[2], g3, 0>>
  BY DEF Candidates3D, Fitting
<1>6. g1 \in Nat /\ g3 \in Nat
  BY <1>3, <1>4
<1>7. /\ Elements(Group(p)) \in Nat
      /\ p \in [1..4 -> Nat] /\ Len(p) = 4 /\ p[4] = 0
  BY <1>3, <1>5, <1>6, GroupOfThree
<1> QED BY <1>1, <1>2, <1>7 DEF Runs, Pos

-----------------------------------------------------------------------------
(* What one enqueue runs: default parameters, those of an earlier tuning,  *)
(* or all that are tried.                                                  *)
LEMMA ModesRight ==
  ASSUME NEW n \in {2, 3}, NEW gws, IsSizes(gws, n), NEW tuned, IsSizes(tuned, n), NEW device,
         NEW limit, NEW slow \in Nat, NEW p, Runs(p, n, device), p[n + 1] = 0
  PROVE  /\ EnqueuesRight(RunKernel(gws, p, device), gws, device)
         /\ EnqueuesRight(RunKernel(gws, TuneKernel(tuned, p, device, limit, slow).result, device),
                          gws, device)
         /\ EnqueuesRight(TuneKernel(gws, p, device, limit, slow).first, gws, device)
         /\ limit => EnqueuesRight(TuneKernel(gws, p, device, limit, slow).again, gws, device)
<1>1. BlockAligned(p, n, device)
  BY DEF BlockAligned
<1>2. EnqueuesRight(RunKernel(gws, p, device), gws, device)
  BY <1>1, RunRight
<1>3. PICK q : q = TuneKernel(tuned, p, device, limit, slow).result
  OBVIOUS
<1>4. Runs(q, n, device) /\ BlockAligned(q, n, device)
  BY <1>3, TuningRight
<1>5. EnqueuesRight(RunKernel(gws, q, device), gws, device)
  BY <1>4, RunRight
<1>6. /\ EnqueuesRight(TuneKernel(gws, p, device, limit, slow).first, gws, device)
      /\ limit => EnqueuesRight(TuneKernel(gws, p, device, limit, slow).again, gws, device)
  BY TuningRight
<1> QED BY <1>2, <1>3, <1>5, <1>6

LEMMA TwoDimensions ==
  ASSUME NEW gws, IsSizes(gws, 2), NEW device, NEW lws, Runs(lws, 2, device), lws[3] = 0,
         device.maxGroup \in Pos, NEW mode, mode.how \in {"default", "table", "tune"},
         IsSizes(mode.gws, 2), mode.slow \in Nat, NEW ranges \in TuningOrRun2DKernel(gws, lws, device, mode)
  PROVE  EnqueuesRight(ranges, gws, device)
<1>1. CASE mode.how = "default"
  <2>1. ranges = RunKernel(gws, lws, device)
    BY <1>1 DEF TuningOrRun2DKernel
  <2>2. BlockAligned(lws, 2, device)
    BY DEF BlockAligned
  <2> QED BY <2>1, <2>2, RunRight
<1>2. CASE mode.how = "table"
  <2>1. PICK p \in Candidates2D(mode.gws, device) :
          ranges = RunKernel(gws, TuneKernel(mode.gws, p, device, mode.limit, mode.slow).result, device)
    BY <1>2 DEF TuningOrRun2DKernel
  <2>2. Runs(p, 2, device) /\ p[3] = 0
    BY Candidates2DRun
  <2> QED BY <2>1, <2>2, ModesRight
<1>3. CASE mode.how = "tune"
  <2>1. PICK p \in Candidates2D(gws, device) :
          \/ ranges = TuneKernel(gws, p, device, mode.limit, mode.slow).first
          \/ /\ mode.limit
             /\ ranges = TuneKernel(gws, p, device, mode.limit, mode.slow).again
    BY <1>3 DEF TuningOrRun2DKernel
  <2>2. Runs(p, 2, device) /\ p[3] = 0
    BY Candidates2DRun
  <2> QED BY <2>1, <2>2, ModesRight
<1> QED BY <1>1, <1>2, <1>3

LEMMA ThreeDimensions ==
  ASSUME NEW gws, IsSizes(gws, 3), NEW device, device.maxGroup \in Pos, device.base \in Nat,
         NEW mode, mode.how \in {"default", "table", "tune"}, IsSizes(mode.gws, 3),
         mode.slow \in Nat, NEW ranges \in TuningOrRun3DKernel(gws, device, mode)
  PROVE  EnqueuesRight(ranges, gws, device)
<1>1. CASE mode.how = "default"
  <2>1. ranges = RunKernel(gws, Default3DLocalWS(gws, device), device)
    BY <1>1 DEF TuningOrRun3DKernel
  <2> QED BY <2>1, DefaultRuns, RunRight
<1>2. CASE mode.how = "table"
  <2>1. PICK p \in Candidates3D(mode.gws, device) :
          ranges = RunKernel(gws, TuneKernel(mode.gws, p, device, mode.limit, mode.slow).result, device)
    BY <1>2 DEF TuningOrRun3DKernel
  <2>2. Runs(p, 3, device) /\ p[4] = 0
    BY Candidates3DRun
  <2> QED BY <2>1, <2>2, ModesRight
<1>3. CASE mode.how = "tune"
  <2>1. PICK p \in Candidates3D(gws, device) :
          \/ ranges = TuneKernel(gws, p, device, mode.limit, mode.slow).first
          \/ /\ mode.limit
             /\ ranges = TuneKernel(gws, p, device, mode.limit, mode.slow).again
    BY <1>3 DEF TuningOrRun3DKernel
  <2>2. Runs(p, 3, device) /\ p[4] = 0
    BY Candidates3DRun
  <2> QED BY <2>1, <2>2, ModesRight
<1> QED BY <1>1, <1>2, <1>3

(* Each item of an OpenCL kernel is run exactly once by each run of it, in *)
(* groups no larger than the device allows, for any number of items, any   *)
(* device and any parameters that the code computes, tries when tuning or  *)
(* finds in the tuner's table (TuningOrRun2DKernel, TuningOrRun3DKernel).  *)
THEOREM WorkIsCovered ==
  ASSUME \A c \in Calls : c.kernel = "enqueue" => IsEnqueue(c.args)
  PROVE  Spec => []WorkCoveredOnce
<1>1. Called => WorkCoveredOnce
  <2> SUFFICES ASSUME Called, call.kernel = "enqueue" PROVE WorkCoveredOnce
    BY DEF WorkCoveredOnce
  <2>1. PICK a : a = call.args
    OBVIOUS
  <2>2. IsEnqueue(a)
    BY <2>1 DEF Called, Idle
  <2>3. PICK runs : runs = IF Len(a.gws) = 3 THEN TuningOrRun3DKernel(a.gws, a.device, a.mode)
                           ELSE TuningOrRun2DKernel(a.gws, a.lws, a.device, a.mode)
    OBVIOUS
  <2>4. ASSUME NEW ranges \in runs PROVE EnqueuesRight(ranges, a.gws, a.device)
    <3>1. /\ a.device.maxGroup \in Pos /\ a.device.base \in Nat
          /\ a.mode.how \in {"default", "table", "tune"} /\ a.mode.slow \in Nat
          /\ a.gws \in [1..Len(a.gws) -> Pos] /\ a.mode.gws \in [1..Len(a.gws) -> Pos]
      BY <2>2 DEF IsEnqueue, Pos
    <3>2. CASE Len(a.gws) = 3
      <4>1. IsSizes(a.gws, 3) /\ IsSizes(a.mode.gws, 3)
        BY <3>1, <3>2 DEF IsSizes
      <4> QED BY <2>3, <3>1, <3>2, <4>1, ThreeDimensions
    <3>3. CASE Len(a.gws) = 2
      <4>1. IsSizes(a.gws, 2) /\ IsSizes(a.mode.gws, 2)
        BY <3>1, <3>3 DEF IsSizes
      <4>2. Runs(a.lws, 2, a.device) /\ a.lws[3] = 0
        <5>1. /\ a.lws \in [1..3 -> Nat] /\ a.lws[3] = 0
              /\ a.lws[1] * a.lws[2] \in 1..a.device.maxGroup
          BY <2>2, <3>3 DEF IsEnqueue
        <5>2. Len(a.lws) = 3
          BY <5>1
        <5>3. Elements(Group(a.lws)) = a.lws[1] * a.lws[2]
          BY <5>1, <5>2, GroupsAre
        <5> QED BY <3>1, <5>1, <5>2, <5>3 DEF Runs
      <4>3. ranges \in TuningOrRun2DKernel(a.gws, a.lws, a.device, a.mode)
        BY <2>3, <3>3
      <4> QED BY <3>1, <4>1, <4>2, <4>3, TwoDimensions
    <3> QED BY <2>2, <3>2, <3>3 DEF IsEnqueue
  <2> QED BY <2>1, <2>3, <2>4 DEF WorkCoveredOnce, EnqueuesRight, Covers
<1> QED BY <1>1, OnlyCalls, PTL

-----------------------------------------------------------------------------
(* Kernels that compute the size of their groups themselves.               *)
GroupRight(p, gws, device) == EnqueuesRight(RunKernel(gws, p, device), gws, device)

(* The kernels of every operator that does not use the default sizes, too, *)
(* run each of their items once in groups the device allows (the functions *)
(* LocalWS), however small its cache.                                      *)
THEOREM OwnGroupsRun ==
  ASSUME NEW gws, IsSizes(gws, 3), NEW taps \in Pos, NEW d, d.maxGroup \in Pos, d.base \in Nat,
         d.cache \in Nat, d.units \in Pos
  PROVE  /\ GroupRight(ConcatLocalWS(gws, d), gws, d)
         /\ GroupRight(CropLocalWS(gws, d), gws, d)
         /\ GroupRight(PoolingLocalWS(gws, d), gws, d)
         /\ GroupRight(SoftmaxLocalWS(gws, d), gws, d)
         /\ GroupRight(ResizeLocalWS(gws, d), gws, d)
         /\ GroupRight(Conv1x1LocalWS(gws, d), gws, d)
         /\ GroupRight(Conv3x3LocalWS(gws, d), gws, d)
         /\ GroupRight(ConvLocalWS(gws, taps, d), gws, d)
         /\ GroupRight(DepthwiseLocalWS(gws, d), gws, d)
<1>1. ASSUME NEW p, AreGroups(p, d) PROVE GroupRight(p, gws, d)
  BY <1>1, RunRight DEF AreGroups, GroupRight
<1> QED BY <1>1, OwnGroupsFit

-----------------------------------------------------------------------------
(* Bytes for floats.  Products keep an order, and numbers are rounded to   *)
(* the nearest.                                                            *)
LEMMA Scaled ==
  ASSUME NEW i \in Int, NEW j \in Int, NEW b \in Nat, i <= j
  PROVE  i * b <= j * b
<1>1. PICK d \in Nat : j = i + d
  <2>1. j - i \in Nat /\ j = i + (j - i)
    OBVIOUS
  <2> QED BY <2>1
<1>2. j * b = i * b + d * b /\ d * b \in Nat /\ i * b \in Int
  BY <1>1
<1> QED BY <1>2

LEMMA Positive ==
  ASSUME NEW i \in Pos, NEW j \in Pos PROVE i * j \in Pos
<1>1. PICK d \in Nat : j = d + 1
  <2>1. j - 1 \in Nat /\ j = (j - 1) + 1
    BY DEF Pos
  <2> QED BY <2>1
<1>2. i * j = i * d + i /\ i * d \in Nat /\ i \in Nat /\ i # 0
  BY <1>1 DEF Pos
<1> QED BY <1>2 DEF Pos

LEMMA Nearest ==
  ASSUME NEW num \in Nat, NEW den \in Pos
  PROVE  LET q == (2 * num + den) \div (2 * den) IN
         /\ RoundHalf(num, den) = q /\ q \in Nat
         /\ 2 * (q * den) <= 2 * num + den
         /\ 2 * num < 2 * (q * den) + den
<1> DEFINE q == (2 * num + den) \div (2 * den)
<1>1. RoundHalf(num, den) = q
  BY DEF RoundHalf
<1>2. 2 * num + den \in Nat /\ 2 * den \in Pos
  BY DEF Pos
<1>3. q \in Nat /\ q * (2 * den) <= 2 * num + den /\ 2 * num + den < q * (2 * den) + 2 * den
  BY <1>2, Division
<1> HIDE DEF q
<1>4. q * (2 * den) = 2 * (q * den) /\ q * den \in Nat /\ den \in Nat
  BY <1>3 DEF Pos
<1> QED BY <1>1, <1>3, <1>4 DEF q

(* A level of 255 steps is one of the levels.                              *)
LEMMA ByteOf ==
  ASSUME NEW num \in Nat, NEW den \in Pos, num <= 255 * den
  PROVE  RoundHalf(num, den) \in 0..255
<1> DEFINE q == RoundHalf(num, den)
<1>1. q \in Nat /\ 2 * (q * den) <= 2 * num + den
  BY Nearest
<1> HIDE DEF q
<1>2. q * den \in Nat /\ 2 * (q * den) <= 511 * den /\ den \in Nat /\ den >= 1
  BY <1>1 DEF Pos
<1>3. ASSUME q >= 256 PROVE FALSE
  <2>1. 256 * den <= q * den
    BY <1>1, <1>3, Monotone DEF Pos
  <2> QED BY <1>2, <2>1
<1>4. q <= 255
  BY <1>1, <1>3
<1> QED BY <1>1, <1>4 DEF q

-----------------------------------------------------------------------------
(* A range that holds the one it came from, and zero.                      *)
Holds(out, r) ==
  /\ out.min \in Int /\ out.max \in Int /\ out.den \in Pos /\ out.max - out.min \in Pos
  /\ out.min * r.den <= r.min * out.den /\ out.max * r.den >= r.max * out.den
  /\ \E q \in 0..255 : Dequantize(out, q) = 0

(* Nothing moved, the lower end moved, the upper end moved.                *)
Ends2(lo, hi, r) ==
  /\ lo \in Int /\ hi \in Int /\ r.den \in Pos /\ r.min \in Int /\ r.max \in Int
  /\ lo <= 0 /\ 0 <= hi /\ lo < hi /\ lo <= r.min /\ r.max <= hi

LEMMA NotMoved ==
  ASSUME NEW r, NEW lo, NEW hi, Ends2(lo, hi, r), NEW q \in 0..255, q * (hi - lo) = -lo * 255
  PROVE  Holds([min |-> lo, max |-> hi, den |-> r.den], r)
<1>1. lo * r.den <= r.min * r.den /\ hi * r.den >= r.max * r.den
  BY Scaled DEF Ends2, Pos
<1>2. lo * 255 + (hi - lo) * q = 0
  BY DEF Ends2
<1> QED BY <1>1, <1>2 DEF Ends2, Holds, Dequantize, Pos

LEMMA LowerMoved ==
  ASSUME NEW r, NEW lo, NEW hi, Ends2(lo, hi, r), NEW z \in 0..254, -lo * 255 <= z * (hi - lo)
  PROVE  Holds([min |-> -hi * z, max |-> hi * (255 - z), den |-> r.den * (255 - z)], r)
<1> DEFINE k == 255 - z  d == r.den
<1>1. /\ lo \in Int /\ hi \in Int /\ d \in Pos /\ r.min \in Int /\ r.max \in Int /\ z \in Int
      /\ k \in Pos /\ z = 255 - k /\ lo <= 0 /\ 0 <= hi /\ lo < hi /\ lo <= r.min /\ r.max <= hi
  BY DEF Ends2, Pos
<1> SUFFICES Holds([min |-> -hi * z, max |-> hi * k, den |-> d * k], r)
  OBVIOUS
<1> HIDE DEF k, d
<1>2. d * k \in Pos
  BY <1>1, Positive
<1>3. hi # 0
  <2> SUFFICES ASSUME hi = 0 PROVE FALSE
    OBVIOUS
  <2>1. -lo * 255 <= z * (-lo) /\ -lo \in Pos
    BY <1>1 DEF Pos
  <2>2. z * (-lo) <= 254 * (-lo)
    BY <1>1, <2>1, Monotone DEF Pos
  <2> QED BY <1>1, <2>1, <2>2 DEF Pos
<1>4. hi * k - (-hi * z) = 255 * hi /\ hi * k \in Int /\ -hi * z \in Int /\ 255 * hi \in Pos
  <2>1. hi * (255 - z) = hi * 255 - hi * z /\ -hi * z = -(hi * z) /\ hi * z \in Int
    BY <1>1
  <2>2. hi * k = hi * 255 - hi * z
    BY <1>1, <2>1 DEF Pos
  <2> QED BY <1>1, <1>3, <2>1, <2>2 DEF Pos
<1>5. -hi * z <= lo * k
  <2>1. z * (hi - lo) = z * hi - z * lo
    BY <1>1
  <2>2. lo * k = lo * 255 - z * lo /\ -hi * z = -(z * hi)
    <3>1. lo * k = lo * 255 - lo * z
      <4>1. lo * (255 - z) = lo * 255 - lo * z
        BY <1>1
      <4> QED BY <1>1, <4>1 DEF Pos
    <3>2. lo * z = z * lo /\ -hi * z = -(hi * z) /\ hi * z = z * hi
      BY <1>1
    <3> QED BY <3>1, <3>2
  <2>3. z * hi \in Int /\ z * lo \in Int /\ -lo * 255 = -(lo * 255) /\ lo * 255 \in Int
    BY <1>1
  <2>4. -lo * 255 <= z * hi - z * lo
    BY <2>1
  <2> QED BY <2>2, <2>3, <2>4
<1>6. (-hi * z) * d <= r.min * (d * k)
  <2>1. (-hi * z) * d <= (lo * k) * d
    <3>1. -hi * z \in Int /\ lo * k \in Int /\ d \in Nat
      BY <1>1, <1>4 DEF Pos
    <3> QED BY <1>5, <3>1, Scaled
  <2>2. lo * (d * k) <= r.min * (d * k)
    BY <1>1, <1>2, Scaled DEF Pos
  <2>3. (lo * k) * d = lo * (d * k)
    BY <1>1 DEF Pos
  <2>4. (-hi * z) * d \in Int /\ lo * (d * k) \in Int /\ r.min * (d * k) \in Int /\ -hi * z * d = (-hi * z) * d
    BY <1>1, <1>2, <1>4 DEF Pos
  <2> QED BY <2>1, <2>2, <2>3, <2>4
<1>7. hi * k * d >= r.max * (d * k)
  <2>1. r.max * (d * k) <= hi * (d * k)
    BY <1>1, <1>2, Scaled DEF Pos
  <2>2. (hi * k) * d = hi * (d * k)
    BY <1>1 DEF Pos
  <2> QED BY <2>1, <2>2
<1>8. (-hi * z) * 255 + (255 * hi) * z = 0
  BY <1>1
<1> DEFINE a == -hi * z  b == hi * k  c == d * k
<1>9. /\ a \in Int /\ b \in Int /\ c \in Pos /\ b - a \in Pos /\ a * d <= r.min * c /\ b * d >= r.max * c
      /\ a * 255 + (b - a) * z = 0
  BY <1>2, <1>4, <1>6, <1>7, <1>8
<1> HIDE DEF a, b, c
<1>10. z \in 0..255
  OBVIOUS
<1> SUFFICES Holds([min |-> a, max |-> b, den |-> c], r)
  BY DEF a, b, c
<1> QED BY <1>9, <1>10 DEF Holds, Dequantize, d

LEMMA UpperMoved ==
  ASSUME NEW r, NEW lo, NEW hi, Ends2(lo, hi, r), NEW z \in 1..255, z * (hi - lo) <= -lo * 255
  PROVE  Holds([min |-> lo * z, max |-> -lo * (255 - z), den |-> r.den * z], r)
<1> DEFINE k == 255 - z  d == r.den
<1>1. /\ lo \in Int /\ hi \in Int /\ d \in Pos /\ r.min \in Int /\ r.max \in Int
      /\ k \in Int /\ z \in Pos /\ k = 255 - z /\ lo <= 0 /\ 0 <= hi /\ lo < hi /\ lo <= r.min /\ r.max <= hi
  BY DEF Ends2, Pos
<1> SUFFICES Holds([min |-> lo * z, max |-> -lo * k, den |-> d * z], r)
  OBVIOUS
<1> HIDE DEF k, d
<1>2. d * z \in Pos
  BY <1>1, Positive
<1>3. lo # 0
  <2> SUFFICES ASSUME lo = 0 PROVE FALSE
    OBVIOUS
  <2>1. z * hi <= 0 /\ hi \in Pos
    BY <1>1 DEF Pos
  <2> QED BY <1>1, <2>1, Positive DEF Pos
<1>4. -lo * k - lo * z = 255 * (-lo) /\ lo * z \in Int /\ -lo * k \in Int /\ 255 * (-lo) \in Pos
  BY <1>1, <1>3 DEF Pos
<1>5. hi * z <= -lo * k
  <2>1. z * (hi - lo) = z * hi - z * lo /\ hi * z = z * hi
    BY <1>1 DEF Pos
  <2>2. -lo * k = -(lo * 255) + z * lo
    BY <1>1 DEF Pos
  <2>3. z * hi \in Int /\ z * lo \in Int /\ -lo * 255 = -(lo * 255) /\ lo * 255 \in Int
    BY <1>1 DEF Pos
  <2> QED BY <2>1, <2>2, <2>3
<1>6. lo * z * d <= r.min * (d * z)
  <2>1. lo * (d * z) <= r.min * (d * z)
    BY <1>1, <1>2, Scaled DEF Pos
  <2>2. (lo * z) * d = lo * (d * z)
    BY <1>1 DEF Pos
  <2> QED BY <2>1, <2>2
<1>7. (-lo * k) * d >= r.max * (d * z)
  <2>1. (hi * z) * d <= (-lo * k) * d
    <3>1. hi * z \in Int /\ -lo * k \in Int /\ d \in Nat
      BY <1>1, <1>4 DEF Pos
    <3> QED BY <1>5, <3>1, Scaled
  <2>2. r.max * (d * z) <= hi * (d * z)
    BY <1>1, <1>2, Scaled DEF Pos
  <2>3. (hi * z) * d = hi * (d * z)
    BY <1>1 DEF Pos
  <2>4. (-lo * k) * d \in Int /\ hi * (d * z) \in Int /\ r.max * (d * z) \in Int /\ -lo * k * d = (-lo * k) * d
    BY <1>1, <1>2, <1>4 DEF Pos
  <2> QED BY <2>1, <2>2, <2>3, <2>4
<1>8. (lo * z) * 255 + (255 * (-lo)) * z = 0
  BY <1>1 DEF Pos
<1>9. z \in 0..255
  OBVIOUS
<1> DEFINE a == lo * z  b == -lo * k  c == d * z
<1>10. /\ a \in Int /\ b \in Int /\ c \in Pos /\ b - a \in Pos /\ a * d <= r.min * c /\ b * d >= r.max * c
       /\ a * 255 + (b - a) * z = 0
  BY <1>2, <1>4, <1>6, <1>7, <1>8
<1> HIDE DEF a, b, c
<1> SUFFICES Holds([min |-> a, max |-> b, den |-> c], r)
  BY DEF a, b, c
<1> QED BY <1>9, <1>10 DEF Holds, Dequantize, d

-----------------------------------------------------------------------------
(* Either adjustment moves an end, or none.                                *)
Low(r)  == IF r.min < 0 THEN r.min ELSE 0
High(r) == IF r.max > 0 THEN r.max ELSE 0

IsRange(r) == r.min \in Int /\ r.max \in Int /\ r.den \in Pos /\ r.min <= r.max /\ (r.min # 0 \/ r.max # 0)

LEMMA ZeroDivided == ASSUME NEW w \in Pos PROVE 0 % w = 0
BY DEF Pos

LEMMA NoneBelow == ASSUME NEW x \in Int, x = 0 PROVE -x * 255 = 0
<1>1. x * 255 <= 0 /\ x * 255 >= 0 /\ x * 255 \in Int
  OBVIOUS
<1>2. \A y \in Int : y <= 0 /\ y >= 0 => -y = 0
  OBVIOUS
<1> QED BY <1>1, <1>2

LEMMA EndsOf ==
  ASSUME NEW r, IsRange(r)
  PROVE  Ends2(Low(r), High(r), r)
BY DEF IsRange, Ends2, Low, High

LEMMA Zeros ==
  ASSUME NEW r, IsRange(r)
  PROVE  LET n == -Low(r) * 255
             w == High(r) - Low(r)
         IN  n \in Nat /\ w \in Pos /\ n <= 255 * w
BY DEF IsRange, Low, High, Pos

LEMMA Exactly ==
  ASSUME NEW n \in Nat, NEW w \in Pos, n <= 255 * w
  PROVE  /\ n \div w \in 0..255 /\ (n \div w) * w <= n /\ n < (n \div w + 1) * w
         /\ n % w = 0 => (n \div w) * w = n
<1> DEFINE q == n \div w
<1>1. q \in Nat /\ q * w <= n /\ n < q * w + w
  BY Division
<1>2. n % w = 0 => q * w = n
  <2>1. n = q * w + (n % w)
    BY DEF Pos
  <2> HIDE DEF q
  <2>2. q * w \in Nat
    BY <1>1 DEF Pos
  <2> QED BY <2>1, <2>2
<1> HIDE DEF q
<1>3. (q + 1) * w = q * w + w
  BY <1>1 DEF Pos
<1>4. ASSUME q >= 256 PROVE FALSE
  <2>1. 256 * w <= q * w
    BY <1>1, <1>4, Monotone DEF Pos
  <2>2. q * w \in Nat /\ w \in Nat /\ w # 0
    BY <1>1 DEF Pos
  <2> QED BY <1>1, <2>1, <2>2
<1>5. q <= 255
  BY <1>1, <1>4
<1> QED BY <1>1, <1>2, <1>3, <1>5 DEF q

LEMMA AdjustedHolds ==
  ASSUME NEW r, IsRange(r), ~RangeBreaks(r)
  PROVE  Holds(AdjustRange(r), r)
<1> DEFINE lo == Low(r)  hi == High(r)  n == -lo * 255  w == hi - lo  z == ZeroNear(r)
<1>1. Ends2(lo, hi, r) /\ n \in Nat /\ w \in Pos /\ n <= 255 * w
  BY EndsOf, Zeros
<1>2. (r.max >= 0 => r.max = hi) /\ r.min \in Int /\ r.max \in Int /\ r.min <= r.max /\ r.den \in Pos
  BY DEF IsRange, High
<1>5. CASE r.max < 0
  <2>1. lo = r.min /\ r.min < 0 /\ hi = 0 /\ hi - lo = -lo
    BY <1>2, <1>5 DEF Low, High
  <2>2. 255 * (hi - lo) = -lo * 255
    BY <1>2, <2>1
  <2>3. CASE ZeroExact(r)
    <3>1. AdjustRange(r) = [min |-> lo, max |-> hi, den |-> r.den]
      BY <2>3 DEF AdjustRange, Low, High
    <3> HIDE DEF lo, hi
    <3> QED BY <1>1, <2>2, <3>1, NotMoved
  <2>4. CASE ~ZeroExact(r)
    <3>1. z \in 1..255
      BY <1>5, <2>1, <2>4 DEF RangeBreaks
    <3>2. z = 255
      <4>1. PICK w0 : w0 = r.max - r.min
        OBVIOUS
      <4>2. PICK n0 : n0 = -r.min * 255
        OBVIOUS
      <4>3. n0 \in Nat /\ w0 \in Pos /\ n0 >= 255 * w0 /\ z = RoundHalf(n0, w0)
        <5>1. r.min # r.max
          BY <2>4 DEF ZeroExact
        <5> QED BY <1>2, <1>5, <4>1, <4>2, <5>1 DEF ZeroNear, Pos
      <4>4. n0 < z * w0 + w0
        <5>1. 2 * n0 < 2 * (z * w0) + w0
          BY <4>3, Nearest
        <5>2. z * w0 \in Int /\ n0 \in Int /\ w0 \in Nat
          BY <3>1, <4>3 DEF Pos
        <5> HIDE DEF z
        <5> QED BY <5>1, <5>2
      <4>5. z <= 254 => z * w0 + w0 <= 255 * w0
        <5>1. z <= 254 => z * w0 <= 254 * w0
          BY <3>1, <4>3, Monotone DEF Pos
        <5>2. z * w0 \in Int /\ w0 \in Nat
          BY <3>1, <4>3 DEF Pos
        <5> HIDE DEF z
        <5> QED BY <5>1, <5>2
      <4>6. z * w0 \in Int /\ n0 \in Int /\ w0 \in Nat
        BY <3>1, <4>3 DEF Pos
      <4> HIDE DEF z
      <4> QED BY <3>1, <4>3, <4>4, <4>5, <4>6
    <3>3. ~(-r.min * 255 < z * (r.max - r.min))
      BY <1>2, <1>5, <3>2
    <3>4. AdjustRange(r) = [min |-> lo * z, max |-> -lo * (255 - z), den |-> r.den * z]
      BY <2>1, <2>4, <3>3 DEF AdjustRange, Low, High
    <3>5. z * (hi - lo) <= -lo * 255
      BY <1>2, <2>1, <3>2
    <3> HIDE DEF lo, hi, z
    <3> QED BY <1>1, <3>1, <3>4, <3>5, UpperMoved
  <2> QED BY <2>3, <2>4
<1>3. CASE r.max >= 0 /\ (lo = 0 \/ ZeroExact(r))
  <2>1. AdjustRange(r) = [min |-> lo, max |-> hi, den |-> r.den]
    BY <1>3 DEF AdjustRange, Low, High
  <2>2. n % w = 0
    <3>1. CASE lo = 0
      <4>1. n = 0
        <5>1. lo \in Int
          BY <1>1 DEF Ends2
        <5> HIDE DEF lo
        <5> QED BY <3>1, <5>1, NoneBelow
      <4> HIDE DEF n, w
      <4> QED BY <1>1, <4>1, ZeroDivided
    <3>2. CASE lo # 0
      <4>1. lo = r.min /\ r.min < 0 /\ r.min # r.max
        BY <1>2, <1>3, <3>2 DEF Low
      <4> QED BY <1>2, <1>3, <4>1 DEF ZeroExact
    <3> QED BY <3>1, <3>2
  <2> DEFINE q == n \div w
  <2>3. q \in 0..255 /\ q * w = n
    BY <1>1, <2>2, Exactly
  <2> HIDE DEF q, lo, hi
  <2> QED BY <1>1, <2>1, <2>3, NotMoved
<1>4. CASE r.max >= 0 /\ ~(lo = 0 \/ ZeroExact(r))
  <2>1. lo = r.min /\ r.min < 0 /\ ~ZeroExact(r)
    BY <1>4 DEF Low
  <2>2. z = RoundHalf(n, w)
    BY <1>2, <1>4, <2>1 DEF ZeroNear
  <2>3. z \in 0..255
    BY <1>1, <2>2, ByteOf
  <2>4. z \in 1..254
    <3>1. ~(r.max < 0)
      BY <1>4 DEF IsRange
    <3>2. z \in 1..(IF r.max < 0 THEN 255 ELSE 254)
      BY <2>1 DEF RangeBreaks
    <3> HIDE DEF z
    <3> QED BY <3>1, <3>2
  <2>5. CASE n < z * w
    <3>1. AdjustRange(r) = [min |-> -hi * z, max |-> hi * (255 - z), den |-> r.den * (255 - z)]
      BY <1>2, <1>4, <2>1, <2>5 DEF AdjustRange, Low, High
    <3>2. z \in 0..254 /\ z * w \in Int
      BY <1>1, <2>4 DEF Pos
    <3>3. -lo * 255 <= z * (hi - lo)
      BY <1>1, <2>5, <3>2
    <3> HIDE DEF lo, hi, z
    <3> QED BY <1>1, <3>1, <3>2, <3>3, LowerMoved
  <2>6. CASE ~(n < z * w)
    <3>1. AdjustRange(r) = [min |-> lo * z, max |-> -lo * (255 - z), den |-> r.den * z]
      BY <1>2, <1>4, <2>1, <2>6 DEF AdjustRange, Low, High
    <3>2. z \in 1..255 /\ z * w \in Int
      BY <1>1, <2>4 DEF Pos
    <3>3. z * (hi - lo) <= -lo * 255
      BY <1>1, <2>6, <3>2
    <3> HIDE DEF lo, hi, z
    <3> QED BY <1>1, <3>1, <3>2, <3>3, UpperMoved
  <2> QED BY <2>5, <2>6
<1> QED BY <1>2, <1>3, <1>4, <1>5

LEMMA QuantizerHolds ==
  ASSUME NEW r, IsRange(r)
  PROVE  Holds(QuantizeAdjustRange(r), r)
<1> DEFINE lo == Low(r)  hi == High(r)  n == -lo * 255  w == hi - lo
           zi == n \div w  f == n % w
           keepMin == zi > 0 /\ (zi >= 254 \/ (f - (hi - lo)) * lo > f * hi)
<1>1. Ends2(lo, hi, r) /\ n \in Nat /\ w \in Pos /\ n <= 255 * w
  BY EndsOf, Zeros
<1>2. zi \in 0..255 /\ zi * w <= n /\ n < (zi + 1) * w /\ (f = 0 => zi * w = n)
  BY <1>1, Exactly
<1>3. QuantizeAdjustRange(r) =
        CASE lo = 0 \/ f = 0 -> [min |-> lo, max |-> hi, den |-> r.den]
          [] ~(lo = 0 \/ f = 0) /\ keepMin ->
               [min |-> lo * zi, max |-> lo * (zi - 255), den |-> r.den * zi]
          [] ~(lo = 0 \/ f = 0) /\ ~keepMin ->
               [min |-> -hi * (zi + 1), max |-> hi * (254 - zi), den |-> r.den * (254 - zi)]
  BY DEF QuantizeAdjustRange, Low, High
<1>4. lo = 0 => f = 0
  <2>1. lo = 0 => n = 0
    <3>1. lo \in Int
      BY <1>1 DEF Ends2
    <3> HIDE DEF lo
    <3> QED BY <3>1, NoneBelow
  <2> HIDE DEF n, w
  <2> QED BY <1>1, <2>1, ZeroDivided
<1>5. CASE f = 0
  <2>1. QuantizeAdjustRange(r) = [min |-> lo, max |-> hi, den |-> r.den]
    BY <1>3, <1>5
  <2> HIDE DEF zi, lo, hi
  <2> QED BY <1>1, <1>2, <1>5, <2>1, NotMoved
<1>6. CASE f # 0 /\ keepMin
  <2>1. QuantizeAdjustRange(r) = [min |-> lo * zi, max |-> lo * (zi - 255), den |-> r.den * zi]
    BY <1>3, <1>4, <1>6
  <2>2. zi \in 1..255
    BY <1>2, <1>6
  <2>3. lo * (zi - 255) = -lo * (255 - zi)
    <3>1. lo \in Int /\ zi \in Int
      BY <1>1, <2>2 DEF Ends2
    <3> HIDE DEF lo, zi
    <3> QED BY <3>1
  <2> HIDE DEF zi, lo, hi
  <2> QED BY <1>1, <1>2, <2>1, <2>2, <2>3, UpperMoved
<1>7. CASE f # 0 /\ ~keepMin
  <2> DEFINE z == zi + 1
  <2>1. QuantizeAdjustRange(r) = [min |-> -hi * (zi + 1), max |-> hi * (254 - zi), den |-> r.den * (254 - zi)]
    BY <1>3, <1>4, <1>7
  <2>2. z \in 0..254 /\ 254 - zi = 255 - z /\ zi + 1 = z
    BY <1>2, <1>7
  <2>3. QuantizeAdjustRange(r) = [min |-> -hi * z, max |-> hi * (255 - z), den |-> r.den * (255 - z)]
    BY <2>1, <2>2
  <2>4. -lo * 255 <= z * (hi - lo)
    <3>1. n < z * w /\ z * w \in Int /\ n \in Int
      BY <1>1, <1>2, <2>2 DEF Pos
    <3> HIDE DEF zi, z
    <3> QED BY <3>1
  <2>5. z \in 0..254
    BY <2>2
  <2> HIDE DEF z, zi, lo, hi
  <2> QED BY <1>1, <2>3, <2>4, <2>5, LowerMoved
<1> QED BY <1>5, <1>6, <1>7, Zenon

-----------------------------------------------------------------------------
(* Where a value lies among the steps.                                     *)
Above(out, r, v) == v * out.den - out.min * r.den
Span(out, r)     == (out.max - out.min) * r.den

(* Byte q stands for v within half a step, or for v less what was moved.   *)
Back(out, r, v, q, moved) ==
  LET error == Dequantize(out, q) * r.den - 255 * v * out.den + 255 * moved IN
  2 * Larger(error, -error) <= (out.max - out.min) * r.den

LEMMA Between ==
  ASSUME NEW r, IsRange(r), NEW out, Holds(out, r), NEW v \in Int, r.min <= v, v <= r.max
  PROVE  Above(out, r, v) \in Nat /\ Span(out, r) \in Pos /\ Above(out, r, v) <= Span(out, r)
<1> DEFINE d == r.den  od == out.den  a == out.min  b == out.max
<1>1. /\ d \in Pos /\ od \in Pos /\ a \in Int /\ b \in Int /\ b - a \in Pos
      /\ r.min \in Int /\ r.max \in Int
      /\ a * d <= r.min * od /\ r.max * od <= b * d
  BY DEF IsRange, Holds, Pos
<1> SUFFICES v * od - a * d \in Nat /\ (b - a) * d \in Pos /\ v * od - a * d <= (b - a) * d
  BY DEF Above, Span
<1> HIDE DEF d, od, a, b
<1>2. (b - a) * d \in Pos
  BY <1>1, Positive
<1>3. r.min * od <= v * od /\ v * od <= r.max * od
  BY <1>1, Scaled DEF Pos
<1>4. (b - a) * d = b * d - a * d
  BY <1>1 DEF Pos
<1>5. /\ v * od \in Int /\ a * d \in Int /\ b * d \in Int /\ r.min * od \in Int /\ r.max * od \in Int
  BY <1>1 DEF Pos
<1> QED BY <1>1, <1>2, <1>3, <1>4, <1>5

LEMMA Halves ==
  ASSUME NEW a \in Nat, NEW s \in Pos, a <= s
  PROVE  LET q == RoundHalf(a * 255, s) IN
         /\ q \in 0..255 /\ Saturate(q) = q
         /\ ((2 * (a * 255) + s) \div (2 * s)) % 256 = q
         /\ 2 * (q * s) <= 2 * (a * 255) + s /\ 2 * (a * 255) <= 2 * (q * s) + s
<1> DEFINE n == a * 255  q == RoundHalf(n, s)
<1>1. n \in Nat /\ n <= 255 * s
  BY DEF Pos
<1> HIDE DEF n
<1>2. q \in 0..255
  BY <1>1, ByteOf
<1>3. /\ q = (2 * n + s) \div (2 * s) /\ q \in Nat
      /\ 2 * (q * s) <= 2 * n + s /\ 2 * n < 2 * (q * s) + s
  BY <1>1, Nearest
<1>4. ASSUME NEW x \in 0..255 PROVE x % 256 = x /\ Saturate(x) = x
  BY DEF Saturate
<1>5. q % 256 = q /\ Saturate(q) = q
  BY <1>2, <1>4
<1>6. q * s \in Int /\ n \in Int /\ s \in Int
  BY <1>1, <1>3 DEF Pos
<1> HIDE DEF q
<1>7. 2 * n <= 2 * (q * s) + s
  BY <1>3, <1>6
<1> QED BY <1>2, <1>3, <1>5, <1>7 DEF q, n

(* What lies n of the 255 steps' parts above the lower end, or above where *)
(* it was moved from.                                                      *)
LEMMA BackWithin ==
  ASSUME NEW r, IsRange(r), NEW out, Holds(out, r), NEW v \in Int, NEW q \in Int,
         NEW n \in Int, NEW moved \in Int, n + moved = Above(out, r, v),
         2 * (q * Span(out, r)) <= 2 * (n * 255) + Span(out, r),
         2 * (n * 255) <= 2 * (q * Span(out, r)) + Span(out, r)
  PROVE  Back(out, r, v, q, moved)
<1> DEFINE d == r.den  od == out.den  a == out.min  b == out.max
           s == (b - a) * d
           error == (a * 255 + (b - a) * q) * d - 255 * v * od + 255 * moved
<1>1. d \in Int /\ od \in Int /\ a \in Int /\ b \in Int
  BY DEF IsRange, Holds, Pos
<1>2. 2 * (q * s) <= 2 * (n * 255) + s /\ 2 * (n * 255) <= 2 * (q * s) + s /\ n + moved = v * od - a * d
  BY DEF Above, Span
<1> SUFFICES 2 * Larger(error, -error) <= s
  BY DEF Back, Dequantize
<1> HIDE DEF d, od, a, b
<1>3. error = q * s - n * 255
  <2>1. (a * 255 + (b - a) * q) * d = (a * d) * 255 + q * ((b - a) * d)
    BY <1>1
  <2>2. 255 * v * od = (v * od) * 255
    BY <1>1
  <2>3. (v * od) * 255 - (a * d) * 255 = n * 255 + moved * 255
    BY <1>1, <1>2
  <2>4. a * d \in Int /\ v * od \in Int /\ q * ((b - a) * d) \in Int
    BY <1>1
  <2> QED BY <2>1, <2>2, <2>3, <2>4
<1>4. s \in Int /\ q * s \in Int
  BY <1>1
<1>5. error \in Int
  BY <1>3, <1>4
<1> HIDE DEF s, error
<1> QED BY <1>2, <1>3, <1>4, <1>5 DEF Larger

LEMMA Comes ==
  ASSUME NEW r, IsRange(r), NEW out, Holds(out, r), NEW v \in Int, r.min <= v, v <= r.max
  PROVE  /\ Back(out, r, v, Saturate(RoundHalf(Above(out, r, v) * 255, Span(out, r))), 0)
         /\ Back(out, r, v, ((2 * (Above(out, r, v) * 255) + Span(out, r)) \div (2 * Span(out, r))) % 256, 0)
<1> DEFINE n == Above(out, r, v)  s == Span(out, r)  q == RoundHalf(n * 255, s)
<1>1. n \in Nat /\ s \in Pos /\ n <= s
  BY Between
<1>2. /\ q \in 0..255 /\ Saturate(q) = q /\ ((2 * (n * 255) + s) \div (2 * s)) % 256 = q
      /\ 2 * (q * s) <= 2 * (n * 255) + s /\ 2 * (n * 255) <= 2 * (q * s) + s
  <2> HIDE DEF n, s
  <2> QED BY <1>1, Halves
<1> DEFINE moved == 0
<1>3. n + moved = Above(out, r, v) /\ q \in Int /\ n \in Int /\ moved \in Int
  <2> HIDE DEF q
  <2> QED BY <1>1, <1>2
<1> HIDE DEF q, n, moved
<1>4. Back(out, r, v, q, moved)
  BY <1>2, <1>3, BackWithin
<1> QED BY <1>2, <1>4 DEF q, n, moved

(* Measured from the end that came in.                                     *)
LEMMA ComesMoved ==
  ASSUME NEW r, IsRange(r), NEW out, Holds(out, r), NEW v \in Int, r.min <= v, v <= r.max
  PROVE  Back(out, r, v, Saturate(RoundHalf((v - r.min) * 255 * out.den, Span(out, r))),
              r.min * out.den - out.min * r.den)
<1>1. PICK m, d, od, a : m = r.min /\ d = r.den /\ od = out.den /\ a = out.min
  OBVIOUS
<1>2. m \in Int /\ d \in Pos /\ od \in Pos /\ a \in Int /\ a * d <= m * od /\ m <= v
  BY <1>1 DEF IsRange, Holds
<1> DEFINE n == (v - m) * od  s == Span(out, r)  moved == m * od - a * d  q == RoundHalf(n * 255, s)
<1>3. n + moved = Above(out, r, v)
  <2>1. (v - m) * od + (m * od - a * d) = v * od - a * d
    BY <1>2 DEF Pos
  <2> QED BY <1>1, <2>1 DEF Above
<1>4. n \in Nat /\ moved \in Nat
  <2>1. m * od <= v * od
    BY <1>2, Scaled DEF Pos
  <2>2. n = v * od - m * od /\ v * od \in Int /\ m * od \in Int /\ a * d \in Int
    BY <1>2 DEF Pos
  <2> HIDE DEF n
  <2> QED BY <1>2, <2>1, <2>2
<1>5. Above(out, r, v) \in Nat /\ s \in Pos /\ Above(out, r, v) <= s
  BY Between
<1>6. n \in Nat /\ s \in Pos /\ n <= s
  <2> HIDE DEF n, s, moved
  <2> QED BY <1>3, <1>4, <1>5 DEF Pos
<1>7. /\ q \in 0..255 /\ Saturate(q) = q
      /\ 2 * (q * s) <= 2 * (n * 255) + s /\ 2 * (n * 255) <= 2 * (q * s) + s
  <2> HIDE DEF n, s
  <2> QED BY <1>6, Halves
<1>8. (v - m) * 255 * od = n * 255
  BY <1>2 DEF Pos
<1> HIDE DEF q, n, moved
<1>9. q \in Int /\ n \in Int /\ moved \in Int
  BY <1>4, <1>7
<1>10. Back(out, r, v, q, moved)
  BY <1>3, <1>7, <1>9, BackWithin
<1>11. Saturate(RoundHalf((v - r.min) * 255 * out.den, Span(out, r))) = q
  BY <1>1, <1>7, <1>8 DEF q
<1> QED BY <1>1, <1>10, <1>11 DEF moved

-----------------------------------------------------------------------------
(* For every range of floats but those that break, and every value in it,  *)
(* the adjusted range holds the one that came in, zero is one of its       *)
(* levels and the value comes back within half a step, from Quantize less  *)
(* the way the lower end was moved; from the copy for the DSP for every    *)
(* range (kernels/quantize.h and hexagon/quantize.cc).                     *)
THEOREM ZeroIsKept ==
  ASSUME \A c \in Calls : c.kernel = "quantize" => IsQuantizing(c.args)
  PROVE  Spec => []ZeroIsALevel
<1>1. Called => ZeroIsALevel
  <2> SUFFICES ASSUME call \in Calls, call.kernel = "quantize" PROVE ZeroIsALevel
    BY DEF Called, ZeroIsALevel, Idle
  <2> DEFINE r == call.args.range  v == call.args.value
             adjusted == AdjustRange(r)  forDsp == QuantizeAdjustRange(r)
  <2>1. /\ r.min \in Int /\ r.max \in Int /\ r.den \in Pos /\ r.min <= r.max
        /\ v \in Int /\ r.min <= v /\ v <= r.max
    BY DEF IsQuantizing, Pos
  <2>2. r.min # 0 \/ r.max # 0 => IsRange(r)
    BY <2>1 DEF IsRange
  <2>3. ~RangeBreaks(r) => r.min # 0 \/ r.max # 0
    BY DEF RangeBreaks
  <2>4. ASSUME NEW out, Holds(out, r)
        PROVE  /\ out.den > 0
               /\ out.min * r.den <= r.min * out.den /\ out.max * r.den >= r.max * out.den
               /\ \E q \in 0..255 : Dequantize(out, q) = 0
    BY <2>4 DEF Holds, Pos
  <2>5. ASSUME ~RangeBreaks(r) PROVE Holds(adjusted, r)
    BY <2>2, <2>3, <2>5, AdjustedHolds
  <2>6. ASSUME ~RangeBreaks(r) PROVE Back(adjusted, r, v, Requantize(r, v), 0)
    <3>1. Requantize(r, v) = Saturate(RoundHalf(Above(adjusted, r, v) * 255, Span(adjusted, r)))
      BY DEF Requantize, Above, Span
    <3> HIDE DEF adjusted
    <3> QED BY <2>1, <2>2, <2>3, <2>5, <2>6, <3>1, Comes
  <2>7. ASSUME ~RangeBreaks(r)
        PROVE  Back(adjusted, r, v, Quantize(r, v), r.min * adjusted.den - adjusted.min * r.den)
    <3>1. Quantize(r, v) = Saturate(RoundHalf((v - r.min) * 255 * adjusted.den, Span(adjusted, r)))
      BY DEF Quantize, Span
    <3> HIDE DEF adjusted
    <3> QED BY <2>1, <2>2, <2>3, <2>5, <2>7, <3>1, ComesMoved
  <2>8. ASSUME r.min # 0 \/ r.max # 0
        PROVE  Holds(forDsp, r) /\ Back(forDsp, r, v, QuantizerQuantize(r, v), 0)
    <3>1. Holds(forDsp, r)
      BY <2>2, <2>8, QuantizerHolds
    <3>2. QuantizerQuantize(r, v)
            = ((2 * (Above(forDsp, r, v) * 255) + Span(forDsp, r)) \div (2 * Span(forDsp, r))) % 256
      BY DEF QuantizerQuantize, Above, Span
    <3> HIDE DEF forDsp
    <3> QED BY <2>1, <2>2, <2>8, <3>1, <3>2, Comes
  <2> HIDE DEF adjusted, forDsp
  <2>9. ~RangeBreaks(r) =>
          /\ adjusted.den > 0
          /\ adjusted.min * r.den <= r.min * adjusted.den /\ adjusted.max * r.den >= r.max * adjusted.den
          /\ \E q \in 0..255 : Dequantize(adjusted, q) = 0
    BY <2>4, <2>5
  <2>10. r.min # 0 \/ r.max # 0 =>
          /\ forDsp.den > 0
          /\ forDsp.min * r.den <= r.min * forDsp.den /\ forDsp.max * r.den >= r.max * forDsp.den
          /\ \E q \in 0..255 : Dequantize(forDsp, q) = 0
    BY <2>4, <2>8
  <2> QED BY <2>6, <2>7, <2>8, <2>9, <2>10 DEF ZeroIsALevel, Back, adjusted, forDsp
<1> QED BY <1>1, OnlyCalls, PTL

-----------------------------------------------------------------------------
(* How far a kernel reads: as far as the tile that reads farthest.         *)
Last(p, in, out, t) ==
  (in[1] * in[2] - 1) * in[3] * in[4] + InBase(p, in, out, t[2], t[3])
    + (p.loads[1] - 1) * in[4] + p.loads[2]

LEMMA Reached ==
  ASSUME NEW p, NEW ms, NEW grid, NEW in, NEW out, NEW bound \in Nat,
         \A t \in grid : Last(p, in, out, t) \in Int /\ Last(p, in, out, t) <= bound,
         grid # {} => \E t \in grid : \A u \in grid : Last(p, in, out, u) <= Last(p, in, out, t)
  PROVE  Reach(p, ms, grid, in, out) \in Int /\ Reach(p, ms, grid, in, out) <= bound
<1>1. CASE ms = {} \/ grid = {}
  BY <1>1 DEF Reach
<1>2. CASE ~(ms = {} \/ grid = {})
  <2> DEFINE most == CHOOSE t \in grid : \A u \in grid : Last(p, in, out, u) <= Last(p, in, out, t)
  <2>1. Reach(p, ms, grid, in, out) = Last(p, in, out, most)
    BY <1>2 DEF Reach, Last
  <2>2. most \in grid
    BY <1>2
  <2> QED BY <2>1, <2>2
<1> QED BY <1>1, <1>2

(* The last of the tiles of a row.                                         *)
LEMMA LastTile ==
  ASSUME NEW n \in Pos, NEW size \in Int, Tiles(size, n) # {}
  PROVE  \E i \in Tiles(size, n) : \A j \in Tiles(size, n) : j <= i
<1> DEFINE q == size \div n  i == (q - 1) * n
<1>1. size \in Nat /\ n <= size
  BY DEF Tiles, Pos
<1>2. q \in Nat /\ q * n <= size /\ size < q * n + n
  BY <1>1, Division
<1> HIDE DEF q
<1>3. ASSUME NEW k \in Nat, k * n + n <= size PROVE k <= q - 1
  <2>1. ASSUME q <= k PROVE FALSE
    <3>1. q * n <= k * n
      BY <1>2, <2>1, Monotone DEF Pos
    <3>2. q * n \in Int /\ k * n \in Int /\ n \in Int
      BY <1>2 DEF Pos
    <3> QED BY <1>1, <1>2, <1>3, <3>1, <3>2
  <2> QED BY <1>2, <2>1
<1>4. q - 1 \in Nat /\ q = (q - 1) + 1
  <2>1. 0 * n + n <= size
    BY <1>1 DEF Pos
  <2> QED BY <1>2, <1>3, <2>1
<1>5. i \in Nat /\ i % n = 0 /\ i + n = q * n
  <2>1. PICK d \in Nat : q = d + 1 /\ q - 1 = d
    BY <1>4
  <2>2. d * n \in Nat /\ (d * n) % n = 0 /\ (d + 1) * n = d * n + n
    BY Multiples DEF Pos
  <2> QED BY <2>1, <2>2
<1>6. i \in Tiles(size, n)
  BY <1>1, <1>2, <1>5 DEF Tiles, Pos
<1>7. ASSUME NEW j \in Tiles(size, n) PROVE j <= i
  <2>1. j \in Nat /\ j % n = 0 /\ j + n <= size
    BY DEF Tiles
  <2>2. PICK k \in Nat : j = k * n
    <3>1. j = (j \div n) * n + (j % n) /\ j \div n \in Nat
      BY <2>1 DEF Pos
    <3>2. (j \div n) * n \in Nat
      BY <3>1 DEF Pos
    <3> QED BY <2>1, <3>1, <3>2
  <2>3. k <= q - 1
    BY <1>3, <2>1, <2>2
  <2> QED BY <1>4, <2>2, <2>3, Monotone DEF Pos
<1> QED BY <1>6, <1>7

-----------------------------------------------------------------------------
(* A path that reads in whole rows, from where its tile begins.            *)
LEMMA RowsWithin ==
  ASSUME NEW h \in Nat, NEW w \in Nat, NEW H \in Nat, NEW W \in Pos, NEW l \in Pos, NEW m \in Nat,
         NEW r \in Nat, NEW e \in Nat, h + l <= H + r, w + m <= W + e
  PROVE  /\ h * W + w + (l - 1) * W + m \in Int
         /\ h * W + w + (l - 1) * W + m <= H * W + r * W + e
<1>1. h * W \in Nat /\ (l - 1) * W \in Nat /\ H * W \in Nat /\ r * W \in Nat /\ W \in Nat
  BY DEF Pos
<1>2. PICK k \in Nat : l = k + 1
  <2>1. l - 1 \in Nat /\ l = (l - 1) + 1
    BY DEF Pos
  <2> QED BY <2>1
<1>3. (h + k + 1) * W <= (H + r) * W
  BY <1>1, <1>2, Monotone
<1>4. (h + k + 1) * W = h * W + k * W + W /\ (H + r) * W = H * W + r * W /\ k * W \in Nat
  BY <1>1, <1>2
<1>5. (l - 1) * W = k * W
  BY <1>2
<1> HIDE DEF Pos
<1> QED BY <1>1, <1>3, <1>4, <1>5

(* Pictures before the last one.                                           *)
LEMMA PicturesBefore ==
  ASSUME NEW a \in Pos, NEW b \in Pos, NEW c \in Pos, NEW d \in Pos
  PROVE  /\ (a * b - 1) * c * d \in Nat /\ a * b * c * d \in Nat
         /\ (a * b - 1) * c * d + c * d = a * b * c * d
<1>1. a * b \in Pos /\ c * d \in Pos
  BY Positive
<1>2. PICK n \in Nat : a * b = n + 1
  <2>1. a * b - 1 \in Nat /\ a * b = (a * b - 1) + 1
    BY <1>1 DEF Pos
  <2> QED BY <2>1
<1>3. n * c * d \in Nat /\ (n + 1) * c * d = n * c * d + c * d /\ (n + 1) * c * d \in Nat
  BY DEF Pos
<1> QED BY <1>2, <1>3

-----------------------------------------------------------------------------
(* A tile that ends in the output ends in the input, which has room for    *)
(* the window of the last output: r more if the tile loads r more.         *)
FitsWindow(i, t, o, s, k, l, r, z) ==
  i + t <= o /\ (o - 1) * s + k <= z /\ l <= (t - 1) * s + k + r

StaysIn(i, s, l, size) == i * s + l <= size

LEMMA WindowFits ==
  ASSUME NEW i \in Nat, NEW t \in Pos, NEW o \in Int, NEW s \in Pos, NEW k \in Nat,
         NEW l \in Nat, NEW r \in Nat, NEW z \in Int,
         FitsWindow(i, t, o, s, k, l, r, z)
  PROVE  StaysIn(i, s, l, z + r)
<1> USE DEF FitsWindow, StaysIn
<1>1. o - t \in Nat /\ i <= o - t
  BY DEF Pos
<1>2. i * s <= (o - t) * s
  BY <1>1, Monotone DEF Pos
<1>3. (o - t) * s + (t - 1) * s = (o - 1) * s
  <2>1. PICK d \in Nat, u \in Nat : o - t = d /\ t - 1 = u
    BY <1>1 DEF Pos
  <2>2. o - 1 = d + u
    BY <2>1 DEF Pos
  <2>3. (d + u) * s = d * s + u * s
    BY DEF Pos
  <2> QED BY <2>1, <2>2, <2>3
<1>4. i * s \in Int /\ (o - t) * s \in Int /\ (t - 1) * s \in Int /\ (o - 1) * s \in Int
  BY <1>1 DEF Pos
<1> QED BY <1>2, <1>3, <1>4

(* Tiles of a grid, which end in the output.                               *)
InOutput(grid, tile, out) ==
  \A t \in grid : t[2] \in Nat /\ t[3] \in Nat /\ t[2] + tile[1] <= out[3] /\ t[3] + tile[2] <= out[4]

(* The last tile of the last row.                                          *)
HasLast(grid) == grid # {} => \E t \in grid : \A u \in grid : u[2] <= t[2] /\ u[3] <= t[3]

HasGreatest(S) == S # {} => \E i \in S : \A j \in S : j <= i

Crosses(grid, I, J) ==
  /\ \A u \in grid : u[2] \in I /\ u[3] \in J
  /\ \A i \in I, j \in J : \E u \in grid : u[2] = i /\ u[3] = j

LEMMA RowsAndColumns ==
  ASSUME NEW I, NEW J, NEW grid, Crosses(grid, I, J), HasGreatest(I), HasGreatest(J)
  PROVE  HasLast(grid)
<1> USE DEF HasGreatest, Crosses
<1> SUFFICES ASSUME I # {}, J # {} PROVE HasLast(grid)
  BY DEF HasLast
<1>1. PICK i \in I : \A k \in I : k <= i
  OBVIOUS
<1>2. PICK j \in J : \A k \in J : k <= j
  OBVIOUS
<1>3. PICK t \in grid : t[2] = i /\ t[3] = j
  OBVIOUS
<1> QED BY <1>1, <1>2, <1>3 DEF HasLast

LEMMA GridsInOutput ==
  ASSUME NEW name, NEW out, out[3] \in Int, out[4] \in Int, NEW tile,
         tile[1] \in Pos, tile[2] \in Pos,
         name = "1x15s1" => tile[1] = 1, name = "15x1s1" => tile[2] = 1
  PROVE  InOutput(GridFor(name, out, tile), tile, out) /\ HasLast(GridFor(name, out, tile))
<1> DEFINE T1 == Tiles(out[3], tile[1])  T2 == Tiles(out[4], tile[2])
           R1 == 0..(out[3] - 1)         R2 == 0..(out[4] - 1)
           grid == GridFor(name, out, tile)
<1>1. \A i \in T1 : i \in Nat /\ i + tile[1] <= out[3]
  BY DEF Tiles
<1>2. \A i \in T2 : i \in Nat /\ i + tile[2] <= out[4]
  BY DEF Tiles
<1>3. \A i \in R1 : i \in Nat /\ i + 1 <= out[3]
  OBVIOUS
<1>4. \A i \in R2 : i \in Nat /\ i + 1 <= out[4]
  OBVIOUS
<1>5. HasGreatest(T1)
  BY LastTile DEF HasGreatest
<1>6. HasGreatest(T2)
  BY LastTile DEF HasGreatest
<1>7. HasGreatest(R1)
  <2>1. R1 # {} => out[3] - 1 \in R1
    OBVIOUS
  <2> QED BY <2>1 DEF HasGreatest
<1>8. HasGreatest(R2)
  <2>1. R2 # {} => out[4] - 1 \in R2
    OBVIOUS
  <2> QED BY <2>1 DEF HasGreatest
<1>9. CASE name = "1x15s1"
  <2> DEFINE n == IF out[2] < 4 THEN RoundUpDiv4(out[3]) ELSE out[3]
  <2>1. grid = {<<h - (h % n), h, w>> : h \in R1, w \in T2}
    BY <1>9 DEF GridFor, RowChunks
  <2> HIDE DEF grid, R1, T2, n
  <2>2. /\ \A u \in grid : u[2] \in R1 /\ u[3] \in T2
        /\ \A i \in R1, j \in T2 : <<i - (i % n), i, j>> \in grid
    BY <2>1
  <2>3. Crosses(grid, R1, T2)
    BY <2>2 DEF Crosses
  <2>4. HasLast(grid)
    BY <1>6, <1>7, <2>3, RowsAndColumns
  <2>5. InOutput(grid, tile, out)
    BY <1>2, <1>3, <1>9, <2>2 DEF InOutput
  <2> QED BY <2>4, <2>5 DEF grid
<1>10. CASE name = "15x1s1"
  <2> DEFINE n == IF out[2] < 4 THEN RoundUpDiv4(out[4]) ELSE out[4]
  <2>1. grid = {<<w - (w % n), h, w>> : h \in T1, w \in R2}
    BY <1>10 DEF GridFor, ColumnChunks
  <2> HIDE DEF grid, R2, T1, n
  <2>2. /\ \A u \in grid : u[2] \in T1 /\ u[3] \in R2
        /\ \A i \in T1, j \in R2 : <<j - (j % n), i, j>> \in grid
    BY <2>1
  <2>3. Crosses(grid, T1, R2)
    BY <2>2 DEF Crosses
  <2>4. HasLast(grid)
    BY <1>5, <1>8, <2>3, RowsAndColumns
  <2>5. InOutput(grid, tile, out)
    BY <1>1, <1>4, <1>10, <2>2 DEF InOutput
  <2> QED BY <2>4, <2>5 DEF grid
<1>11. CASE name \notin {"1x15s1", "15x1s1"}
  <2>1. grid = {<<0, h, w>> : h \in T1, w \in T2}
    BY <1>11 DEF GridFor, Grid
  <2> HIDE DEF grid, T1, T2
  <2>2. /\ \A u \in grid : u[2] \in T1 /\ u[3] \in T2
        /\ \A i \in T1, j \in T2 : <<0, i, j>> \in grid
    BY <2>1
  <2>3. Crosses(grid, T1, T2)
    BY <2>2 DEF Crosses
  <2>4. HasLast(grid)
    BY <1>5, <1>6, <2>3, RowsAndColumns
  <2>5. InOutput(grid, tile, out)
    BY <1>1, <1>2, <2>2 DEF InOutput
  <2> QED BY <2>4, <2>5 DEF grid
<1> QED BY <1>9, <1>10, <1>11

(* A path keeps within the input but for r rows and e columns.             *)
Room(p, out, k1, k2, h, w) ==
  (out[3] - 1) * p.stride[1] + k1 <= h /\ (out[4] - 1) * p.stride[2] + k2 <= w

IsPath(p) ==
  /\ p.tile[1] \in Pos /\ p.tile[2] \in Pos /\ p.stride[1] \in Pos /\ p.stride[2] \in Pos
  /\ p.loads[1] \in Pos /\ p.loads[2] \in Pos /\ p.running = FALSE

Loads(p, k1, k2, r, e) ==
  /\ p.loads[1] <= (p.tile[1] - 1) * p.stride[1] + k1 + r
  /\ p.loads[2] <= (p.tile[2] - 1) * p.stride[2] + k2 + e

LEMMA PathWithin ==
  ASSUME NEW a \in Pos, NEW b \in Pos, NEW c \in Pos, NEW d \in Pos,
         NEW out, out[3] \in Int, out[4] \in Int, NEW p, IsPath(p), NEW ms, NEW grid,
         InOutput(grid, p.tile, out), HasLast(grid), NEW k1 \in Pos, NEW k2 \in Pos, NEW r \in Nat, NEW e \in Nat,
         Room(p, out, k1, k2, c, d), Loads(p, k1, k2, r, e)
  PROVE  LET in == <<a, b, c, d>> IN
         /\ Reach(p, ms, grid, in, out) \in Int
         /\ Reach(p, ms, grid, in, out) <= a * b * c * d + r * d + e
<1> DEFINE in == <<a, b, c, d>>
           bound == a * b * c * d + r * d + e
<1>1. /\ (a * b - 1) * c * d \in Nat /\ a * b * c * d \in Nat /\ c * d \in Nat /\ r * d \in Nat
      /\ (a * b - 1) * c * d + c * d = a * b * c * d
  BY PicturesBefore DEF Pos
<1>2. bound \in Nat
  BY <1>1
<1>3. ASSUME NEW t \in grid PROVE Last(p, in, out, t) \in Int /\ Last(p, in, out, t) <= bound
  <2> DEFINE s1 == p.stride[1]  s2 == p.stride[2]  l1 == p.loads[1]  l2 == p.loads[2]
             h == t[2] * s1  w == t[3] * s2
  <2>1. /\ s1 \in Pos /\ s2 \in Pos /\ l1 \in Pos /\ l2 \in Pos
        /\ t[2] \in Nat /\ t[3] \in Nat /\ h \in Nat /\ w \in Nat
    BY DEF IsPath, InOutput, Pos
  <2>2. /\ t[2] + p.tile[1] <= out[3] /\ (out[3] - 1) * s1 + k1 <= c
        /\ l1 <= (p.tile[1] - 1) * s1 + k1 + r /\ p.tile[1] \in Pos
        /\ t[3] + p.tile[2] <= out[4] /\ (out[4] - 1) * s2 + k2 <= d
        /\ l2 <= (p.tile[2] - 1) * s2 + k2 + e /\ p.tile[2] \in Pos
    BY DEF IsPath, InOutput, Room, Loads
  <2> HIDE DEF s1, s2, l1, l2
  <2>3. t[2] * s1 + l1 <= c + r
    <3>1. k1 \in Nat /\ l1 \in Nat /\ c \in Int
      BY <2>1 DEF Pos
    <3>2. FitsWindow(t[2], p.tile[1], out[3], s1, k1, l1, r, c)
      BY <2>2 DEF FitsWindow
    <3>3. StaysIn(t[2], s1, l1, c + r)
      BY <2>1, <2>2, <3>1, <3>2, WindowFits
    <3> QED BY <3>3 DEF StaysIn
  <2>7. t[3] * s2 + l2 <= d + e
    <3>1. k2 \in Nat /\ l2 \in Nat /\ d \in Int
      BY <2>1 DEF Pos
    <3>2. FitsWindow(t[3], p.tile[2], out[4], s2, k2, l2, e, d)
      BY <2>2 DEF FitsWindow
    <3>3. StaysIn(t[3], s2, l2, d + e)
      BY <2>1, <2>2, <3>1, <3>2, WindowFits
    <3> QED BY <3>3 DEF StaysIn
  <2>4. Last(p, in, out, t) = (a * b - 1) * c * d + (h * d + w) + (l1 - 1) * d + l2
    BY DEF Last, InBase, IsPath, s1, s2, l1, l2
  <2>5. h * d + w + (l1 - 1) * d + l2 \in Int /\ h * d + w + (l1 - 1) * d + l2 <= c * d + r * d + e
    <3>1. h + l1 <= c + r /\ w + l2 <= d + e /\ c \in Nat /\ l2 \in Nat
      BY <2>1, <2>3, <2>7 DEF Pos
    <3> HIDE DEF h, w
    <3> QED BY <2>1, <3>1, RowsWithin
  <2>6. h * d \in Int /\ (l1 - 1) * d \in Int /\ l2 \in Int /\ w \in Int
    BY <2>1 DEF Pos
  <2> HIDE DEF h, w
  <2> QED BY <1>1, <2>4, <2>5, <2>6
<1>4. ASSUME grid # {} PROVE \E t \in grid : \A u \in grid : Last(p, in, out, u) <= Last(p, in, out, t)
  <2>1. PICK t \in grid : \A u \in grid : u[2] <= t[2] /\ u[3] <= t[3]
    BY <1>4 DEF HasLast
  <2>2. ASSUME NEW u \in grid PROVE Last(p, in, out, u) <= Last(p, in, out, t)
    <3> DEFINE s1 == p.stride[1]  s2 == p.stride[2]  base == (a * b - 1) * c * d
               rest == (p.loads[1] - 1) * d + p.loads[2]
    <3>1. /\ s1 \in Pos /\ s2 \in Pos /\ base \in Nat /\ rest \in Int
          /\ (p.loads[1] - 1) * d \in Int /\ p.loads[2] \in Int
          /\ t[2] \in Nat /\ t[3] \in Nat /\ u[2] \in Nat /\ u[3] \in Nat
      BY <1>1 DEF IsPath, InOutput, Pos
    <3>2. /\ Last(p, in, out, t) = base + (t[2] * s1 * d + t[3] * s2) + (p.loads[1] - 1) * d + p.loads[2]
          /\ Last(p, in, out, u) = base + (u[2] * s1 * d + u[3] * s2) + (p.loads[1] - 1) * d + p.loads[2]
      BY DEF Last, InBase, IsPath
    <3> HIDE DEF s1, s2
    <3>6. u[2] * s1 \in Nat /\ t[2] * s1 \in Nat /\ u[3] * s2 \in Nat /\ t[3] * s2 \in Nat
      BY <3>1 DEF Pos
    <3>7. u[2] <= t[2] /\ u[3] <= t[3] /\ s1 \in Nat /\ s2 \in Nat /\ d \in Nat
      BY <2>1, <3>1 DEF Pos
    <3>8. u[2] * s1 <= t[2] * s1
      BY <3>1, <3>7, Monotone
    <3>9. u[3] * s2 <= t[3] * s2
      BY <3>1, <3>7, Monotone
    <3>3. u[2] * s1 <= t[2] * s1 /\ u[3] * s2 <= t[3] * s2
      BY <3>8, <3>9
    <3>4. u[2] * s1 * d <= t[2] * s1 * d
      BY <3>3, <3>6, <3>7, Monotone
    <3>5. u[2] * s1 * d \in Nat /\ t[2] * s1 * d \in Nat
      BY <3>6 DEF Pos
    <3> HIDE DEF base, rest
    <3> QED BY <3>1, <3>2, <3>3, <3>4, <3>5, <3>6
  <2> QED BY <2>2
<1> HIDE DEF bound, in
<1>5. Reach(p, ms, grid, in, out) \in Int /\ Reach(p, ms, grid, in, out) <= bound
  BY <1>2, <1>3, <1>4, Reached
<1> QED BY <1>5 DEF bound, in

(* The paths of 3x3, stride 1, whose pointers run: they start at the next  *)
(* pair of rows or before.                                                 *)
IsRunning(p) ==
  /\ p.running = TRUE /\ p.tile[1] = 2 /\ p.tile[2] = 4
  /\ p.loads[1] = 4 /\ p.loads[2] = 8

LEMMA RunningBase ==
  ASSUME NEW d \in Pos, NEW in, in[4] = d, NEW out, out[4] \in Nat, out[4] % 4 = 0, out[4] + 2 <= d,
         NEW p, IsRunning(p), NEW h \in Nat, NEW w \in Nat
  PROVE  /\ InBase(p, in, out, h, w) = (h \div 2) * (out[4] + 2 + d) + w
         /\ (h \div 2) * (out[4] + 2 + d) \in Nat
         /\ InBase(p, in, out, h, w) \in Nat
         /\ InBase(p, in, out, h, w) <= h * d + w
<1> DEFINE i == h \div 2  o == out[4]
<1>1. i \in Nat /\ 2 * i <= h
  OBVIOUS
<1>2. 4 * (o \div 4) = o
  <2> HIDE DEF o
  <2> SUFFICES ASSUME o \in Nat, o % 4 = 0 PROVE 4 * (o \div 4) = o
    BY DEF o
  <2> QED OBVIOUS
<1>3. InBase(p, in, out, h, w) = i * (o + 2 + d) + w
  BY <1>2 DEF InBase, IsRunning
<1> HIDE DEF i, o
<1>4. o \in Nat /\ o + 2 <= d /\ d \in Nat
  BY DEF o, Pos
<1>5. PICK n \in Nat : n = o + 2 + d
  BY <1>4
<1>6. i * n \in Nat /\ i * (2 * d) \in Nat /\ n * i <= (2 * d) * i
  BY <1>1, <1>4, <1>5, Monotone
<1>7. (2 * i) * d <= h * d /\ h * d \in Nat
  BY <1>1, <1>4, Monotone
<1>8. n * i = i * n /\ (2 * d) * i = (2 * i) * d /\ (2 * i) * d \in Nat
  BY <1>1, <1>4, <1>5
<1>9. i * n <= h * d
  BY <1>6, <1>7, <1>8
<1> QED BY <1>3, <1>5, <1>6, <1>7, <1>9 DEF i, o

LEMMA RunningWithin ==
  ASSUME NEW a \in Pos, NEW b \in Pos, NEW c \in Pos, NEW d \in Pos,
         NEW out, out[3] \in Int, out[4] \in Int, out[4] % 4 = 0, out[3] + 2 <= c, out[4] + 2 <= d,
         NEW p, IsRunning(p), NEW ms, NEW grid, InOutput(grid, p.tile, out), HasLast(grid)
  PROVE  LET in == <<a, b, c, d>> IN
         /\ Reach(p, ms, grid, in, out) \in Int
         /\ Reach(p, ms, grid, in, out) <= a * b * c * d + 2
<1> DEFINE in == <<a, b, c, d>>
           base == (a * b - 1) * c * d
           bound == a * b * c * d + 2
<1>1. /\ base \in Nat /\ a * b * c * d \in Nat /\ c * d \in Nat
      /\ base + c * d = a * b * c * d
  BY PicturesBefore DEF Pos
<1>2. ASSUME NEW t \in grid
      PROVE  /\ t[2] \in Nat /\ t[3] \in Nat /\ t[2] + 4 <= c /\ t[3] + 8 <= d + 2 /\ out[4] \in Nat
             /\ InBase(p, in, out, t[2], t[3]) = (t[2] \div 2) * (out[4] + 2 + d) + t[3]
             /\ (t[2] \div 2) * (out[4] + 2 + d) \in Nat
             /\ InBase(p, in, out, t[2], t[3]) \in Nat
             /\ InBase(p, in, out, t[2], t[3]) <= t[2] * d + t[3]
             /\ Last(p, in, out, t) = base + InBase(p, in, out, t[2], t[3]) + 3 * d + 8
  <2>1. t[2] \in Nat /\ t[3] \in Nat /\ t[2] + 4 <= c /\ t[3] + 8 <= d + 2 /\ out[4] \in Nat
    BY DEF InOutput, IsRunning, Pos
  <2>2. in[4] = d
    OBVIOUS
  <2>3. Last(p, in, out, t) = base + InBase(p, in, out, t[2], t[3]) + 3 * d + 8
    BY DEF Last, IsRunning
  <2> HIDE DEF in, base
  <2>4. /\ InBase(p, in, out, t[2], t[3]) = (t[2] \div 2) * (out[4] + 2 + d) + t[3]
        /\ (t[2] \div 2) * (out[4] + 2 + d) \in Nat
        /\ InBase(p, in, out, t[2], t[3]) \in Nat
        /\ InBase(p, in, out, t[2], t[3]) <= t[2] * d + t[3]
    BY <2>1, <2>2, RunningBase
  <2> QED BY <2>1, <2>3, <2>4
<1>3. ASSUME NEW t \in grid PROVE Last(p, in, out, t) \in Int /\ Last(p, in, out, t) <= bound
  <2> DEFINE at == InBase(p, in, out, t[2], t[3])  h == t[2]  w == t[3]
  <2>1. /\ h \in Nat /\ w \in Nat /\ h + 4 <= c + 0 /\ w + 8 <= d + 2 /\ at \in Nat
        /\ at <= h * d + w /\ Last(p, in, out, t) = base + at + 3 * d + 8
    BY <1>2 DEF Pos
  <2> HIDE DEF at, in, h, w, base
  <2>2. h * d + w + (4 - 1) * d + 8 \in Int /\ h * d + w + (4 - 1) * d + 8 <= c * d + 0 * d + 2
    <3>1. c \in Nat /\ 4 \in Pos /\ 8 \in Nat /\ 0 \in Nat /\ 2 \in Nat
      BY DEF Pos
    <3> QED BY <2>1, <3>1, RowsWithin
  <2>3. h * d \in Nat /\ 3 * d \in Nat /\ d \in Nat
    BY <2>1 DEF Pos
  <2> QED BY <1>1, <2>1, <2>2, <2>3
<1>4. ASSUME grid # {} PROVE \E t \in grid : \A u \in grid : Last(p, in, out, u) <= Last(p, in, out, t)
  <2>1. PICK t \in grid : \A u \in grid : u[2] <= t[2] /\ u[3] <= t[3]
    BY <1>4 DEF HasLast
  <2>2. ASSUME NEW u \in grid PROVE Last(p, in, out, u) <= Last(p, in, out, t)
    <3> DEFINE n == out[4] + 2 + d  i == u[2] \div 2  j == t[2] \div 2
    <3>1. /\ Last(p, in, out, u) = base + (i * n + u[3]) + 3 * d + 8
          /\ Last(p, in, out, t) = base + (j * n + t[3]) + 3 * d + 8
          /\ i * n \in Nat /\ j * n \in Nat /\ u[3] \in Nat /\ t[3] \in Nat
          /\ u[2] \in Nat /\ t[2] \in Nat /\ out[4] \in Nat
      BY <1>2
    <3>2. u[3] <= t[3] /\ u[2] <= t[2]
      BY <2>1
    <3>3. i \in Nat /\ j \in Nat /\ i <= j /\ n \in Nat
      BY <3>1, <3>2 DEF Pos
    <3> HIDE DEF n, i, j, base, in
    <3>4. i * n <= j * n
      BY <3>3, Monotone
    <3>5. 3 * d \in Nat
      BY DEF Pos
    <3> QED BY <1>1, <3>1, <3>2, <3>4, <3>5
  <2> QED BY <2>2
<1>5. bound \in Nat
  BY <1>1
<1> HIDE DEF bound, in
<1>6. Reach(p, ms, grid, in, out) \in Int /\ Reach(p, ms, grid, in, out) <= bound
  BY <1>3, <1>4, <1>5, Reached
<1> QED BY <1>6 DEF bound, in

-----------------------------------------------------------------------------
(* The kernels and the windows they are written for.                       *)
Suits(name, filter, strides) ==
  \/ name = "general"
  \/ \E row \in {<<"3x3s1", 3, 3, 1>>, <<"3x3s2", 3, 3, 2>>, <<"5x5s1", 5, 5, 1>>, <<"1x7s1", 1, 7, 1>>,
                 <<"7x1s1", 7, 1, 1>>, <<"7x7s1", 7, 7, 1>>, <<"7x7s2", 7, 7, 2>>, <<"7x7s3", 7, 7, 3>>,
                 <<"1x15s1", 1, 15, 1>>, <<"15x1s1", 15, 1, 1>>} :
       /\ name = row[1] /\ filter[3] = row[2] /\ filter[4] = row[3]
       /\ strides[1] = row[4] /\ strides[2] = row[4]

(* A path for the kernel of that name, which loads r rows and e columns    *)
(* more than its window.                                                   *)
PathOf(name, p, filter, strides, r, e) ==
  /\ IsPath(p) /\ p.stride[1] = strides[1] /\ p.stride[2] = strides[2]
  /\ Loads(p, filter[3], filter[4], r, e)
  /\ name = "1x15s1" => p.tile[1] = 1
  /\ name = "15x1s1" => p.tile[2] = 1

MoreRows(name, arch)    == IF name = "7x1s1" /\ arch # "cpu" THEN 2 ELSE 0
MoreColumns(name, arch) == IF name = "7x1s1" \/ arch = "cpu" THEN 0 ELSE 16

LEMMA PlainPath ==
  ASSUME NEW kh \in Pos, NEW kw \in Pos, NEW s \in Pos, NEW filter, filter[3] = kh, filter[4] = kw,
         NEW strides, strides[1] = s, strides[2] = s, NEW name, NEW e \in Nat
  PROVE  PathOf(name, Conv2dCPUKHxKWCalc(kh, kw, s), filter, strides, 0, e)
<1> DEFINE p == Conv2dCPUKHxKWCalc(kh, kw, s)
<1>1. /\ p.tile[1] = 1 /\ p.tile[2] = 1 /\ p.stride[1] = s /\ p.stride[2] = s
      /\ p.loads[1] = kh /\ p.loads[2] = kw /\ p.running = FALSE
  BY DEF Conv2dCPUKHxKWCalc, Path
<1> HIDE DEF p
<1>2. kh <= (1 - 1) * s + kh + 0 /\ kw <= (1 - 1) * s + kw + e
  BY DEF Pos
<1>3. IsPath(p)
  BY <1>1 DEF IsPath, Pos
<1>4. Loads(p, kh, kw, 0, e)
  BY <1>1, <1>2 DEF Loads
<1> QED BY <1>1, <1>3, <1>4 DEF PathOf, p

LEMMA GeneralPaths ==
  ASSUME NEW kh \in Pos, NEW kw \in Pos, NEW filter, filter[3] = kh, filter[4] = kw,
         NEW strides, strides[1] \in Pos, strides[2] \in Pos, NEW e \in Nat
  PROVE  /\ PathOf("general", GeneralQuad(kh, kw, strides), filter, strides, 0, e)
         /\ PathOf("general", GeneralSingle(kh, kw, strides), filter, strides, 0, e)
<1>1. ASSUME NEW p, p.tile[1] = 1, p.tile[2] = 4, p.stride = strides,
             p.loads[1] = 1, p.loads[2] = 1, p.running = FALSE
      PROVE  PathOf("general", p, filter, strides, 0, e)
  <2>1. IsPath(p)
    BY <1>1 DEF IsPath, Pos
  <2>2. /\ (1 - 1) * strides[1] + kh + 0 >= 1
        /\ (4 - 1) * strides[2] + kw + e >= 1
    BY DEF Pos
  <2>3. Loads(p, kh, kw, 0, e)
    BY <1>1, <2>2 DEF Loads
  <2> QED BY <1>1, <2>1, <2>3 DEF PathOf
<1>2. ASSUME NEW p, p = GeneralQuad(kh, kw, strides) \/ p = GeneralSingle(kh, kw, strides)
      PROVE  /\ p.tile[1] = 1 /\ p.tile[2] = 4 /\ p.stride = strides
             /\ p.loads[1] = 1 /\ p.loads[2] = 1 /\ p.running = FALSE
  <2>1. ASSUME NEW taps, NEW q, q = Path("quad", <<1, 4>>, strides, taps, <<1, 1>>),
               p = q \/ p = [q EXCEPT !.name = "single"]
        PROVE  /\ p.tile[1] = 1 /\ p.tile[2] = 4 /\ p.stride = strides
               /\ p.loads[1] = 1 /\ p.loads[2] = 1 /\ p.running = FALSE
    BY <2>1 DEF Path
  <2> QED BY <1>2, <2>1 DEF GeneralQuad, GeneralSingle
<1> QED BY <1>1, <1>2

(* Tiles, loads and strides of the kernels written in registers.           *)
Is4(p, tile, loads, s) ==
  /\ p.tile[1] = tile[1] /\ p.tile[2] = tile[2] /\ p.loads[1] = loads[1] /\ p.loads[2] = loads[2]
  /\ p.stride[1] = s /\ p.stride[2] = s /\ p.running = FALSE

LEMMA NeonPaths ==
  /\ Is4(K3x3S2Armv8, <<1, 4>>, <<3, 12>>, 2) /\ Is4(K3x3S2Armv7, <<1, 4>>, <<3, 12>>, 2)
  /\ Is4(K5x5S1Quad, <<1, 4>>, <<5, 8>>, 1)   /\ Is4(K5x5S1Single, <<1, 4>>, <<5, 8>>, 1)
  /\ Is4(K1x7S1Quad, <<1, 4>>, <<1, 12>>, 1)  /\ Is4(K1x7S1Single, <<1, 4>>, <<1, 12>>, 1)
  /\ Is4(K7x1S1Quad, <<4, 1>>, <<10, 1>>, 1)  /\ Is4(K7x1S1Single, <<4, 1>>, <<12, 1>>, 1)
  /\ Is4(K7x7S1Quad, <<1, 4>>, <<7, 12>>, 1)  /\ Is4(K7x7S1Single, <<1, 4>>, <<7, 12>>, 1)
  /\ Is4(K7x7S2Quad, <<1, 4>>, <<7, 16>>, 2)  /\ Is4(K7x7S2Single, <<1, 4>>, <<7, 16>>, 2)
  /\ Is4(K7x7S3Quad, <<1, 4>>, <<7, 24>>, 3)  /\ Is4(K7x7S3Single, <<1, 4>>, <<7, 24>>, 3)
  /\ Is4(K1x15S1, <<1, 4>>, <<1, 20>>, 1)     /\ Is4(K15x1S1, <<4, 1>>, <<18, 1>>, 1)
<1>1. ASSUME NEW name, NEW t1, NEW t2, NEW s, NEW taps, NEW l1, NEW l2
      PROVE  Is4(Path(name, <<t1, t2>>, <<s, s>>, taps, <<l1, l2>>), <<t1, t2>>, <<l1, l2>>, s)
  BY DEF Path, Is4
<1> HIDE DEF Path, Is4
<1> QED BY <1>1 DEF K3x3S2Armv8, K3x3S2Armv7, K5x5S1Quad, K5x5S1Single, K1x7S1Quad, K1x7S1Single,
                    K7x1S1Quad, K7x1S1Single, K7x7S1Quad, K7x7S1Single, K7x7S2Quad, K7x7S2Single,
                    K7x7S3Quad, K7x7S3Single, K1x15S1, K15x1S1

LEMMA RunningPaths ==
  /\ IsRunning(K3x3S1PairArmv8) /\ IsRunning(K3x3S1PairArmv7)
  /\ IsRunning(K3x3S1SingleArmv8) /\ IsRunning(K3x3S1SingleArmv7)
<1>1. ASSUME NEW name, NEW taps
      PROVE  IsRunning(Running(Path(name, <<2, 4>>, <<1, 1>>, taps, <<4, 8>>)))
  BY DEF Path, Running, IsRunning
<1> QED BY <1>1 DEF K3x3S1PairArmv8, K3x3S1PairArmv7, K3x3S1SingleArmv8, K3x3S1SingleArmv7

(* The paths of every kernel that does not run.                            *)
LEMMA KernelPaths ==
  ASSUME NEW arch \in {"cpu", "armv7", "armv8"}, NEW name, NEW filter, NEW strides,
         filter[3] \in Pos, filter[4] \in Pos, strides[1] \in Pos, strides[2] \in Pos,
         Suits(name, filter, strides), name = "3x3s1" => arch = "cpu"
  PROVE  LET k == KernelFor(name, arch, filter[3], filter[4], strides)
             e == MoreColumns(name, arch)
         IN  /\ PathOf(name, k.group, filter, strides, 0, e)
             /\ PathOf(name, k.single, filter, strides, MoreRows(name, arch), e)
<1> DEFINE k == KernelFor(name, arch, filter[3], filter[4], strides)
           e == MoreColumns(name, arch)
           plain == Plain(filter[3], filter[4], strides[1])
<1>1. e \in Nat /\ (name # "7x1s1" \/ arch = "cpu" => MoreRows(name, arch) = 0)
  BY DEF MoreColumns, MoreRows
<1>2. ASSUME strides[2] = strides[1], k = plain, name # "7x1s1" \/ arch = "cpu"
      PROVE  /\ PathOf(name, k.group, filter, strides, 0, e)
             /\ PathOf(name, k.single, filter, strides, MoreRows(name, arch), e)
  <2>1. k.group = Conv2dCPUKHxKWCalc(filter[3], filter[4], strides[1]) /\ k.single = k.group
    BY <1>2 DEF Plain, Kernel
  <2> HIDE DEF k, e
  <2> QED BY <1>1, <1>2, <2>1, PlainPath
<1>3. ASSUME NEW group, NEW single, NEW n, k = Kernel(n, group, single)
      PROVE  k.group = group /\ k.single = single
  BY <1>3 DEF Kernel
<1> SUFFICES /\ PathOf(name, k.group, filter, strides, 0, e)
             /\ PathOf(name, k.single, filter, strides, MoreRows(name, arch), e)
  OBVIOUS
<1> HIDE DEF k, e, plain
<1>4. CASE name = "general"
  <2>1. k = Kernel(4, GeneralQuad(filter[3], filter[4], strides), GeneralSingle(filter[3], filter[4], strides))
    BY <1>4 DEF k, KernelFor
  <2> QED BY <1>1, <1>3, <1>4, <2>1, GeneralPaths
<1>5. CASE name = "3x3s1"
  <2>1. k = plain /\ strides[2] = strides[1]
    BY <1>5 DEF k, plain, KernelFor, Suits
  <2> QED BY <1>2, <1>5, <2>1
<1>6. CASE name = "3x3s2"
  <2>1. /\ arch = "cpu" => k = plain
        /\ arch = "armv8" => k = Kernel(1, K3x3S2Armv8, K3x3S2Armv8)
        /\ arch = "armv7" => k = Kernel(1, K3x3S2Armv7, K3x3S2Armv7)
    BY <1>6 DEF k, plain, KernelFor
  <2>2. filter[3] = 3 /\ filter[4] = 3 /\ strides[1] = 2 /\ strides[2] = 2
    BY <1>6 DEF Suits
  <2>3. arch # "cpu" => e = 16 /\ MoreRows(name, arch) = 0
    BY <1>6 DEF e, MoreColumns, MoreRows
  <2>4. ASSUME NEW p \in {K3x3S2Armv8, K3x3S2Armv7}, arch # "cpu"
        PROVE  PathOf(name, p, filter, strides, 0, e)
    BY <1>6, <2>2, <2>3, <2>4, NeonPaths DEF Is4, PathOf, IsPath, Loads, Pos
  <2> QED BY <1>2, <1>3, <1>6, <2>1, <2>2, <2>3, <2>4
<1>7. CASE name = "5x5s1"
  <2>1. /\ ~(arch = "armv7") => k = plain
        /\ arch = "armv7" => k = Kernel(4, K5x5S1Quad, K5x5S1Single)
    BY <1>7 DEF k, plain, KernelFor
  <2>2. filter[3] = 5 /\ filter[4] = 5 /\ strides[1] = 1 /\ strides[2] = 1
    BY <1>7 DEF Suits
  <2>3. arch # "cpu" => e = 16 /\ MoreRows(name, arch) = 0
    BY <1>7 DEF e, MoreColumns, MoreRows
  <2>4. ASSUME arch # "cpu"
        PROVE  /\ PathOf(name, K5x5S1Quad, filter, strides, 0, e)
               /\ PathOf(name, K5x5S1Single, filter, strides, 0, e)
    BY <1>7, <2>2, <2>3, <2>4, NeonPaths DEF Is4, PathOf, IsPath, Loads, Pos
  <2> QED BY <1>2, <1>3, <1>7, <2>1, <2>2, <2>3, <2>4
<1>8. CASE name = "1x7s1"
  <2>1. /\ ~(arch # "cpu") => k = plain
        /\ arch # "cpu" => k = Kernel(4, K1x7S1Quad, K1x7S1Single)
    BY <1>8 DEF k, plain, KernelFor
  <2>2. filter[3] = 1 /\ filter[4] = 7 /\ strides[1] = 1 /\ strides[2] = 1
    BY <1>8 DEF Suits
  <2>3. arch # "cpu" => e = 16 /\ MoreRows(name, arch) = 0
    BY <1>8 DEF e, MoreColumns, MoreRows
  <2>4. ASSUME arch # "cpu"
        PROVE  /\ PathOf(name, K1x7S1Quad, filter, strides, 0, e)
               /\ PathOf(name, K1x7S1Single, filter, strides, 0, e)
    BY <1>8, <2>2, <2>3, <2>4, NeonPaths DEF Is4, PathOf, IsPath, Loads, Pos
  <2> QED BY <1>2, <1>3, <1>8, <2>1, <2>2, <2>3, <2>4
<1>9. CASE name = "7x1s1"
  <2>1. /\ ~(arch # "cpu") => k = plain
        /\ arch # "cpu" => k = Kernel(4, K7x1S1Quad, K7x1S1Single)
    BY <1>9 DEF k, plain, KernelFor
  <2>2. filter[3] = 7 /\ filter[4] = 1 /\ strides[1] = 1 /\ strides[2] = 1
    BY <1>9 DEF Suits
  <2>3. arch # "cpu" => e = 0 /\ MoreRows(name, arch) = 2
    BY <1>9 DEF e, MoreColumns, MoreRows
  <2>4. ASSUME arch # "cpu"
        PROVE  /\ PathOf(name, K7x1S1Quad, filter, strides, 0, e)
               /\ PathOf(name, K7x1S1Single, filter, strides, 2, e)
    BY <1>9, <2>2, <2>3, <2>4, NeonPaths DEF Is4, PathOf, IsPath, Loads, Pos
  <2> QED BY <1>2, <1>3, <1>9, <2>1, <2>2, <2>3, <2>4
<1>10. CASE name = "7x7s1"
  <2>1. /\ ~(arch # "cpu") => k = plain
        /\ arch # "cpu" => k = Kernel(4, K7x7S1Quad, K7x7S1Single)
    BY <1>10 DEF k, plain, KernelFor
  <2>2. filter[3] = 7 /\ filter[4] = 7 /\ strides[1] = 1 /\ strides[2] = 1
    BY <1>10 DEF Suits
  <2>3. arch # "cpu" => e = 16 /\ MoreRows(name, arch) = 0
    BY <1>10 DEF e, MoreColumns, MoreRows
  <2>4. ASSUME arch # "cpu"
        PROVE  /\ PathOf(name, K7x7S1Quad, filter, strides, 0, e)
               /\ PathOf(name, K7x7S1Single, filter, strides, 0, e)
    BY <1>10, <2>2, <2>3, <2>4, NeonPaths DEF Is4, PathOf, IsPath, Loads, Pos
  <2> QED BY <1>2, <1>3, <1>10, <2>1, <2>2, <2>3, <2>4
<1>11. CASE name = "7x7s2"
  <2>1. /\ ~(arch # "cpu") => k = plain
        /\ arch # "cpu" => k = Kernel(4, K7x7S2Quad, K7x7S2Single)
    BY <1>11 DEF k, plain, KernelFor
  <2>2. filter[3] = 7 /\ filter[4] = 7 /\ strides[1] = 2 /\ strides[2] = 2
    BY <1>11 DEF Suits
  <2>3. arch # "cpu" => e = 16 /\ MoreRows(name, arch) = 0
    BY <1>11 DEF e, MoreColumns, MoreRows
  <2>4. ASSUME arch # "cpu"
        PROVE  /\ PathOf(name, K7x7S2Quad, filter, strides, 0, e)
               /\ PathOf(name, K7x7S2Single, filter, strides, 0, e)
    BY <1>11, <2>2, <2>3, <2>4, NeonPaths DEF Is4, PathOf, IsPath, Loads, Pos
  <2> QED BY <1>2, <1>3, <1>11, <2>1, <2>2, <2>3, <2>4
<1>12. CASE name = "7x7s3"
  <2>1. /\ ~(arch # "cpu") => k = plain
        /\ arch # "cpu" => k = Kernel(4, K7x7S3Quad, K7x7S3Single)
    BY <1>12 DEF k, plain, KernelFor
  <2>2. filter[3] = 7 /\ filter[4] = 7 /\ strides[1] = 3 /\ strides[2] = 3
    BY <1>12 DEF Suits
  <2>3. arch # "cpu" => e = 16 /\ MoreRows(name, arch) = 0
    BY <1>12 DEF e, MoreColumns, MoreRows
  <2>4. ASSUME arch # "cpu"
        PROVE  /\ PathOf(name, K7x7S3Quad, filter, strides, 0, e)
               /\ PathOf(name, K7x7S3Single, filter, strides, 0, e)
    BY <1>12, <2>2, <2>3, <2>4, NeonPaths DEF Is4, PathOf, IsPath, Loads, Pos
  <2> QED BY <1>2, <1>3, <1>12, <2>1, <2>2, <2>3, <2>4
<1>13. CASE name = "1x15s1"
  <2>1. /\ ~(arch = "armv7") => k = plain
        /\ arch = "armv7" => k = Kernel(1, K1x15S1, K1x15S1)
    BY <1>13 DEF k, plain, KernelFor
  <2>2. filter[3] = 1 /\ filter[4] = 15 /\ strides[1] = 1 /\ strides[2] = 1
    BY <1>13 DEF Suits
  <2>3. arch # "cpu" => e = 16 /\ MoreRows(name, arch) = 0
    BY <1>13 DEF e, MoreColumns, MoreRows
  <2>4. ASSUME arch # "cpu"
        PROVE  /\ PathOf(name, K1x15S1, filter, strides, 0, e)
               /\ PathOf(name, K1x15S1, filter, strides, 0, e)
    BY <1>13, <2>2, <2>3, <2>4, NeonPaths DEF Is4, PathOf, IsPath, Loads, Pos
  <2> QED BY <1>2, <1>3, <1>13, <2>1, <2>2, <2>3, <2>4
<1>14. CASE name = "15x1s1"
  <2>1. /\ ~(arch = "armv7") => k = plain
        /\ arch = "armv7" => k = Kernel(1, K15x1S1, K15x1S1)
    BY <1>14 DEF k, plain, KernelFor
  <2>2. filter[3] = 15 /\ filter[4] = 1 /\ strides[1] = 1 /\ strides[2] = 1
    BY <1>14 DEF Suits
  <2>3. arch # "cpu" => e = 16 /\ MoreRows(name, arch) = 0
    BY <1>14 DEF e, MoreColumns, MoreRows
  <2>4. ASSUME arch # "cpu"
        PROVE  /\ PathOf(name, K15x1S1, filter, strides, 0, e)
               /\ PathOf(name, K15x1S1, filter, strides, 0, e)
    BY <1>14, <2>2, <2>3, <2>4, NeonPaths DEF Is4, PathOf, IsPath, Loads, Pos
  <2> QED BY <1>2, <1>3, <1>14, <2>1, <2>2, <2>3, <2>4
<1> QED BY <1>4, <1>5, <1>6, <1>7, <1>8, <1>9, <1>10, <1>11, <1>12, <1>13, <1>14 DEF Suits

(* How far a kernel reads behind an input that has room for the windows of *)
(* all outputs.                                                            *)
LEMMA KernelWithin ==
  ASSUME NEW arch \in {"cpu", "armv7", "armv8"}, NEW name, NEW filter, NEW strides,
         filter[3] \in Pos, filter[4] \in Pos, strides[1] \in Pos, strides[2] \in Pos,
         Suits(name, filter, strides),
         NEW a \in Pos, NEW b \in Pos, NEW c \in Pos, NEW d \in Pos,
         NEW out, out[3] \in Int, out[4] \in Int,
         (out[3] - 1) * strides[1] + filter[3] <= c, (out[4] - 1) * strides[2] + filter[4] <= d,
         name = "3x3s1" => out[4] % 4 = 0
  PROVE  KernelReach(name, arch, <<a, b, c, d>>, out, filter, strides)
           <= a * b * c * d + Larger(ExtraPad(arch) \div 4,
                                     IF name = "7x1s1" /\ arch # "cpu" THEN 2 * d ELSE 0)
<1> DEFINE k == KernelFor(name, arch, filter[3], filter[4], strides)
           in == <<a, b, c, d>>
           volume == a * b * c * d
           more == Larger(ExtraPad(arch) \div 4, IF name = "7x1s1" /\ arch # "cpu" THEN 2 * d ELSE 0)
           groupReach  == Reach(k.group, Grouped(out[2], k.chans), GridFor(name, out, k.group.tile), in, out)
           singleReach == Reach(k.single, Singles(out[2], k.chans), GridFor(name, out, k.single.tile), in, out)
<1>1. KernelReach(name, arch, in, out, filter, strides) = Larger(groupReach, singleReach)
  BY DEF KernelReach
<1>2. SUFFICES groupReach <= volume + more /\ singleReach <= volume + more
  BY <1>1 DEF Larger
<1>3. volume \in Nat /\ d \in Nat
  BY PicturesBefore DEF Pos
<1>4. CASE name = "3x3s1" /\ arch # "cpu"
  <2>1. IsRunning(k.group) /\ IsRunning(k.single)
    BY <1>4, RunningPaths DEF KernelFor, Kernel
  <2>2. out[3] + 2 <= c /\ out[4] + 2 <= d
    BY <1>4 DEF Suits, Pos
  <2>3. more = 16
    BY <1>4 DEF ExtraPad, Larger
  <2> HIDE DEF k, more, volume, in
  <2>4. ASSUME NEW p, IsRunning(p), NEW ms
        PROVE  /\ Reach(p, ms, GridFor(name, out, p.tile), in, out) \in Int
               /\ Reach(p, ms, GridFor(name, out, p.tile), in, out) <= volume + 2
    <3>1. p.tile[1] \in Pos /\ p.tile[2] \in Pos
      BY <2>4 DEF IsRunning, Pos
    <3>2. InOutput(GridFor(name, out, p.tile), p.tile, out) /\ HasLast(GridFor(name, out, p.tile))
      BY <1>4, <3>1, GridsInOutput
    <3> QED BY <1>4, <2>2, <2>4, <3>2, RunningWithin DEF in, volume
  <2>5. groupReach \in Int /\ groupReach <= volume + 2 /\ singleReach \in Int /\ singleReach <= volume + 2
    BY <2>1, <2>4
  <2> QED BY <1>3, <2>3, <2>5
<1>5. CASE ~(name = "3x3s1" /\ arch # "cpu")
  <2> DEFINE e == MoreColumns(name, arch)  r == MoreRows(name, arch)
  <2>1. PathOf(name, k.group, filter, strides, 0, e) /\ PathOf(name, k.single, filter, strides, r, e)
    BY <1>5, KernelPaths
  <2>2. e \in Nat /\ r \in Nat /\ e <= more /\ r * d + e <= more /\ more \in Int
    BY <1>3 DEF MoreColumns, MoreRows, ExtraPad, Larger
  <2> HIDE DEF k, more, volume, in, e, r
  <2>3. ASSUME NEW p, NEW ms, NEW n \in Nat, PathOf(name, p, filter, strides, n, e)
        PROVE  /\ Reach(p, ms, GridFor(name, out, p.tile), in, out) \in Int
               /\ Reach(p, ms, GridFor(name, out, p.tile), in, out) <= volume + n * d + e
    <3>1. IsPath(p) /\ Loads(p, filter[3], filter[4], n, e) /\ Room(p, out, filter[3], filter[4], c, d)
      BY <2>3 DEF PathOf, Room
    <3>2. InOutput(GridFor(name, out, p.tile), p.tile, out) /\ HasLast(GridFor(name, out, p.tile))
      BY <2>3, <3>1, GridsInOutput DEF PathOf, IsPath
    <3> QED BY <2>2, <3>1, <3>2, PathWithin DEF in, volume
  <2>4. groupReach \in Int /\ groupReach <= volume + 0 * d + e
    BY <2>1, <2>3
  <2>5. singleReach \in Int /\ singleReach <= volume + r * d + e
    BY <2>1, <2>2, <2>3
  <2>6. r * d \in Int /\ 0 * d = 0
    BY <1>3, <2>2
  <2> QED BY <1>3, <2>2, <2>4, <2>5, <2>6
<1> QED BY <1>4, <1>5

-----------------------------------------------------------------------------
(* The plan of a call.                                                     *)
LEMMA SizesAreNumbers ==
  ASSUME NEW x, IsConvolution(x)
  PROVE  /\ Sizes(x).output[3] \in Int /\ Sizes(x).output[4] \in Int
         /\ Sizes(x).paddings[1] \in Nat /\ Sizes(x).paddings[2] \in Nat
<1>1. ASSUME NEW n \in Int, NEW m \in Pos PROVE n \div m \in Int
  BY DEF Pos
<1>2. ASSUME NEW i \in 1..2
      PROVE  /\ x.in[i + 2] \in Pos /\ x.filter[i + 2] \in Pos /\ x.strides[i] \in Pos
             /\ x.dilations[i] \in Pos /\ (x.filter[i + 2] - 1) * x.dilations[i] \in Int
  BY DEF IsConvolution, Pos
<1>3. CASE x.padding.type = "GIVEN"
  <2>1. ASSUME NEW i \in 1..2
        PROVE  RoundedOutputs(x.in[i + 2], x.padding.size[i], x.filter[i + 2], x.strides[i],
                              x.dilations[i], "FLOOR") \in Int
    <3> DEFINE slack == x.in[i + 2] + x.padding.size[i] - x.filter[i + 2]
                          - (x.filter[i + 2] - 1) * (x.dilations[i] - 1)
    <3>1. slack \in Int
      BY <1>2, <1>3 DEF IsConvolution, Pos
    <3> HIDE DEF slack
    <3>2. slack \div x.strides[i] \in Int
      BY <1>1, <1>2, <3>1
    <3> QED BY <3>2 DEF RoundedOutputs, slack
  <2>2. x.padding.size[1] \in Nat /\ x.padding.size[2] \in Nat
    BY <1>3 DEF IsConvolution
  <2> QED BY <1>3, <2>1, <2>2 DEF Sizes, CalcNCHWOutputSize
<1>4. CASE x.padding.type # "GIVEN"
  <2> DEFINE o(i) == Outputs(x.in[i + 2], x.filter[i + 2], x.strides[i], x.dilations[i], x.padding.type)
             q(i) == PaddingFor(x.in[i + 2], o(i), x.filter[i + 2], x.strides[i], x.dilations[i])
  <2>1. ASSUME NEW i \in 1..2 PROVE o(i) \in Int
    <3> DEFINE n == Extent(x.filter[i + 2], x.dilations[i])
    <3>1. n \in Int /\ x.in[i + 2] \in Int
      BY <1>2 DEF Extent, Pos
    <3>2. /\ (x.in[i + 2] - n) \div x.strides[i] \in Int
          /\ (x.in[i + 2] - 1) \div x.strides[i] \in Int
          /\ (x.in[i + 2] + n - 2) \div x.strides[i] \in Int
      <4> HIDE DEF n
      <4> QED BY <1>1, <1>2, <3>1
    <3>3. x.padding.type \in {"VALID", "SAME", "FULL"}
      BY <1>4 DEF IsConvolution
    <3> QED BY <3>2, <3>3 DEF Outputs
  <2>2. ASSUME NEW i \in 1..2 PROVE q(i) \in Nat
    <3> DEFINE n == (o(i) - 1) * x.strides[i] + Extent(x.filter[i + 2], x.dilations[i]) - x.in[i + 2]
    <3>1. n \in Int
      BY <1>2, <2>1 DEF Extent, Pos
    <3> HIDE DEF n, o
    <3> QED BY <3>1 DEF PaddingFor, Larger, n
  <2> HIDE DEF o, q
  <2>3. Sizes(x) = [output |-> <<x.in[1], x.filter[1], o(1), o(2)>>, paddings |-> <<q(1), q(2)>>]
    BY <1>4 DEF Sizes, CalcNCHWPaddingAndOutputSize, o, q
  <2> QED BY <2>1, <2>2, <2>3
<1> QED BY <1>3, <1>4

LEMMA WholeTiles ==
  ASSUME NEW n \in Int, NEW m \in Pos
  PROVE  RoundUp(n, m) \in Int /\ RoundUp(n, 4) % 4 = 0
<1>1. \A k \in Int : (k * 4) % 4 = 0
  OBVIOUS
<1>2. (n + 4 - 1) \div 4 \in Int
  OBVIOUS
<1>3. (n + m - 1) \div m \in Int /\ m \in Int
  BY DEF Pos
<1> QED BY <1>1, <1>2, <1>3 DEF RoundUp

(* The padded input has room for the windows of the rounded output.        *)
LEMMA PlanHasRoom ==
  ASSUME NEW x, IsConvolution(x)
  PROVE  LET p == Plan(x)  c == p.extraIn[3]  d == p.extraIn[4] IN
         /\ p.kernel = KernelName(x) /\ p.extraIn = <<x.in[1], x.in[2], c, d>>
         /\ c \in Pos /\ d \in Pos /\ p.extraOut[3] \in Int /\ p.extraOut[4] \in Int
         /\ x.in[3] + p.top + p.bottom = c /\ x.in[4] + p.left + p.right = d
         /\ ~UseWinograd(x) =>
              /\ (p.extraOut[3] - 1) * x.strides[1] + x.filter[3] <= c
              /\ (p.extraOut[4] - 1) * x.strides[2] + x.filter[4] <= d
         /\ p.kernel = "3x3s1" => p.extraOut[4] % 4 = 0
<1> DEFINE s == Sizes(x)
           o(i) == RoundUp(s.output[i + 2], TileSize(x)[i])
           in(i) == ExtraInput(x, i, o(i))
           before(i) == s.paddings[i] \div 2
           after(i)  == s.paddings[i] - before(i) + in(i) - (x.in[i + 2] + s.paddings[i])
           p == Plan(x)
<1>1. /\ p.kernel = KernelName(x) /\ p.extraIn = <<x.in[1], x.in[2], in(1), in(2)>>
      /\ p.extraIn[3] = in(1) /\ p.extraIn[4] = in(2)
      /\ p.extraOut[3] = o(1) /\ p.extraOut[4] = o(2)
      /\ p.top = before(1) /\ p.bottom = after(1) /\ p.left = before(2) /\ p.right = after(2)
  BY DEF Plan
<1>2. TileSize(x)[1] \in Pos /\ TileSize(x)[2] \in Pos
  BY DEF TileSize, WinogradTile, Pos
<1>3. /\ s.output[3] \in Int /\ s.output[4] \in Int /\ s.paddings[1] \in Nat /\ s.paddings[2] \in Nat
  BY SizesAreNumbers
<1>4. o(1) \in Int /\ o(2) \in Int
  BY <1>2, <1>3, WholeTiles
<1>5. ASSUME NEW i \in 1..2
      PROVE  /\ in(i) \in Pos /\ x.in[i + 2] + before(i) + after(i) = in(i)
             /\ ~UseWinograd(x) => (o(i) - 1) * x.strides[i] + x.filter[i + 2] <= in(i)
  <2>1. /\ x.in[i + 2] \in Pos /\ x.filter[i + 2] \in Pos /\ x.strides[i] \in Pos /\ x.dilations[i] \in Pos
        /\ s.paddings[i] \in Nat /\ o(i) \in Int
    BY <1>3, <1>4 DEF IsConvolution, Pos
  <2> HIDE DEF o, s
  <2>2. before(i) \in Int
    BY <2>1
  <2>3. PICK k \in Nat : x.filter[i + 2] = k + 1
    <3>1. x.filter[i + 2] - 1 \in Nat /\ x.filter[i + 2] = (x.filter[i + 2] - 1) + 1
      BY <2>1 DEF Pos
    <3> QED BY <3>1
  <2>4. 1 * k <= x.dilations[i] * k /\ x.dilations[i] * k = k * x.dilations[i]
    BY <2>1, <2>3, Monotone DEF Pos
  <2>5. (x.filter[i + 2] - 1) * x.dilations[i] + 1 >= x.filter[i + 2]
    BY <2>1, <2>3, <2>4 DEF Pos
  <2> DEFINE n == (o(i) - 1) * x.strides[i]  q == (x.filter[i + 2] - 1) * x.dilations[i]
  <2>6. n \in Int /\ q \in Int
    BY <2>1 DEF Pos
  <2>7. in(i) = Larger(x.in[i + 2] + s.paddings[i], IF UseWinograd(x) THEN o(i) + 2 ELSE n + q + 1)
    BY DEF ExtraInput, s
  <2> HIDE DEF n, q, in
  <2>8. in(i) \in Pos /\ (~UseWinograd(x) => n + q + 1 <= in(i))
    BY <2>1, <2>6, <2>7 DEF Larger, Pos
  <2>9. x.in[i + 2] + before(i) + after(i) = in(i)
    <3> HIDE DEF before
    <3> QED BY <2>1, <2>2, <2>8 DEF Pos
  <2>10. ~UseWinograd(x) => n + x.filter[i + 2] <= in(i)
    BY <2>1, <2>5, <2>6, <2>8 DEF q, Pos
  <2> QED BY <2>8, <2>9, <2>10 DEF n
<1>6. KernelName(x) = "3x3s1" => o(2) % 4 = 0
  <2>1. KernelName(x) = "3x3s1" => TileSize(x)[2] = 4
    BY DEF TileSize
  <2> QED BY <1>2, <1>3, <2>1, WholeTiles
<1> HIDE DEF s, o, in, before, after, p
<1>7. /\ in(1) \in Pos /\ x.in[3] + before(1) + after(1) = in(1)
      /\ ~UseWinograd(x) => (o(1) - 1) * x.strides[1] + x.filter[3] <= in(1)
  BY <1>5, 1 \in 1..2, 1 + 2 = 3
<1>8. /\ in(2) \in Pos /\ x.in[4] + before(2) + after(2) = in(2)
      /\ ~UseWinograd(x) => (o(2) - 1) * x.strides[2] + x.filter[4] <= in(2)
  BY <1>5, 2 \in 1..2, 2 + 2 = 4
<1> QED BY <1>1, <1>4, <1>6, <1>7, <1>8 DEF p

LEMMA NamesSuit ==
  ASSUME NEW x, IsConvolution(x), KernelName(x) \notin {"winograd", "1x1s1"}
  PROVE  Suits(KernelName(x), x.filter, x.strides)
<1>1. ASSUME NEW h, NEW w, NEW s, Is(x, h, w, s)
      PROVE  x.filter[3] = h /\ x.filter[4] = w /\ x.strides[1] = s /\ x.strides[2] = s
  BY <1>1 DEF Is
<1>2. ~UseWinograd(x)
  BY DEF KernelName
<1> QED BY <1>1, <1>2 DEF KernelName, Suits

-----------------------------------------------------------------------------
(* For every shape, stride, dilation, padding and build: the scratch       *)
(* memory holds the padded tensors, and no kernel of                       *)
(* kernels/arm/conv_2d_neon_*.cc loads more behind the padded input than   *)
(* the pad that is allocated, but for 7x1, one channel at a time.          *)
THEOREM KernelsReadWithinPad ==
  ASSUME \A c \in Calls : c.kernel = "conv2d" => IsConvolution(c.args)
  PROVE  Spec => []ReadsWithinPad
<1>1. Called => ReadsWithinPad
  <2> SUFFICES ASSUME call \in Calls, call.kernel = "conv2d" PROVE ReadsWithinPad
    BY DEF Called, ReadsWithinPad, Idle
  <2> DEFINE x == call.args  p == Plan(x)  s == ScratchSizes(x, p)
             rows == IF p.kernel = "7x1s1" /\ x.arch # "cpu" THEN 2 * p.extraIn[4] ELSE 0
             a == x.in[1]  b == x.in[2]  c == p.extraIn[3]  d == p.extraIn[4]
  <2>1. IsConvolution(x)
    OBVIOUS
  <2>2. /\ p.kernel = KernelName(x) /\ p.extraIn = <<a, b, c, d>>
        /\ c \in Pos /\ d \in Pos /\ p.extraOut[3] \in Int /\ p.extraOut[4] \in Int
        /\ x.in[3] + p.top + p.bottom = c /\ x.in[4] + p.left + p.right = d
        /\ ~UseWinograd(x) =>
             /\ (p.extraOut[3] - 1) * x.strides[1] + x.filter[3] <= c
             /\ (p.extraOut[4] - 1) * x.strides[2] + x.filter[4] <= d
        /\ p.kernel = "3x3s1" => p.extraOut[4] % 4 = 0
    BY <2>1, PlanHasRoom
  <2>3. /\ a \in Pos /\ b \in Pos /\ x.filter[3] \in Pos /\ x.filter[4] \in Pos
        /\ x.strides[1] \in Pos /\ x.strides[2] \in Pos /\ x.arch \in {"cpu", "armv7", "armv8"}
    BY <2>1 DEF IsConvolution, Pos
  <2>4. Volume(p.extraIn) = a * b * c * d /\ a * b * c * d \in Nat
    BY <2>2, <2>3, PicturesBefore DEF Volume
  <2>5. ASSUME p.padInput PROVE 4 * Volume(p.extraIn) + ExtraPad(x.arch) <= s.paddedInput
    <3>1. s.paddedInput = 4 * a * b * c * d + ExtraPad(x.arch)
      BY <2>2, <2>5 DEF ScratchSizes
    <3>2. ExtraPad(x.arch) \in Int
      BY DEF ExtraPad
    <3>3. 4 * a * b * c * d = 4 * (a * b * c * d)
      <4> HIDE DEF a, b, c, d
      <4> QED BY <2>2, <2>3 DEF Pos
    <3> HIDE DEF s, a, b, c, d
    <3> QED BY <2>4, <3>1, <3>2, <3>3
  <2>6. ASSUME p.padOutput PROVE 4 * Volume(p.extraOut) <= s.paddedOutput
    <3>1. s.paddedOutput = 4 * Volume(p.extraOut)
      BY <2>6 DEF ScratchSizes
    <3>2. /\ p.extraOut[1] = x.in[1] /\ p.extraOut[2] = x.filter[1]
          /\ x.in[1] \in Int /\ x.filter[1] \in Int
      BY <2>1 DEF Plan, IsConvolution
    <3>3. Volume(p.extraOut) \in Int
      <4> HIDE DEF p
      <4> QED BY <2>2, <3>2 DEF Volume
    <3> QED BY <3>1, <3>3
  <2>7. ConvolutionReach(x) <= Volume(p.extraIn) + Larger(ExtraPad(x.arch) \div 4, rows)
    <3>1. CASE p.kernel \in {"winograd", "1x1s1"}
      <4>1. ConvolutionReach(x) = Volume(p.extraIn)
        BY <3>1 DEF ConvolutionReach
      <4>2. rows = 0
        BY <3>1
      <4>3. Larger(ExtraPad(x.arch) \div 4, 0) \in Nat
        BY DEF ExtraPad, Larger
      <4> HIDE DEF p, x, rows
      <4> QED BY <2>4, <4>1, <4>2, <4>3
    <3>2. CASE p.kernel \notin {"winograd", "1x1s1"}
      <4>1. ConvolutionReach(x) = KernelReach(p.kernel, x.arch, p.extraIn, p.extraOut, x.filter, x.strides)
        BY <3>2 DEF ConvolutionReach
      <4>2. Suits(p.kernel, x.filter, x.strides) /\ ~UseWinograd(x)
        BY <2>1, <2>2, <3>2, NamesSuit DEF KernelName
      <4> HIDE DEF p, x, a, b, c, d
      <4>3. KernelReach(p.kernel, x.arch, <<a, b, c, d>>, p.extraOut, x.filter, x.strides)
              <= a * b * c * d + Larger(ExtraPad(x.arch) \div 4,
                                        IF p.kernel = "7x1s1" /\ x.arch # "cpu" THEN 2 * d ELSE 0)
        <5>1. /\ (p.extraOut[3] - 1) * x.strides[1] + x.filter[3] <= c
              /\ (p.extraOut[4] - 1) * x.strides[2] + x.filter[4] <= d
          BY <2>2, <4>2
        <5>2. /\ c \in Pos /\ d \in Pos /\ p.extraOut[3] \in Int /\ p.extraOut[4] \in Int
              /\ p.kernel = "3x3s1" => p.extraOut[4] % 4 = 0
          BY <2>2
        <5> QED BY <2>3, <4>2, <5>1, <5>2, KernelWithin
      <4> QED BY <2>2, <2>4, <4>1, <4>3 DEF d
    <3> QED BY <3>1, <3>2
  <2> QED BY <2>5, <2>6, <2>7 DEF ReadsWithinPad
<1> QED BY <1>1, OnlyCalls, PTL

-----------------------------------------------------------------------------
(* Numbers of two digits.                                                  *)
LEMMA Digits ==
  ASSUME NEW q1 \in Nat, NEW q2 \in Nat, NEW m \in Pos, NEW r1 \in 0..(m - 1), NEW r2 \in 0..(m - 1),
         q1 * m + r1 = q2 * m + r2
  PROVE  q1 = q2 /\ r1 = r2
<1>1. q1 * m \in Nat /\ q2 * m \in Nat
  BY DEF Pos
<1>2. PICK x \in Nat : x = q1 * m + r1
  BY <1>1 DEF Pos
<1>3. q1 * m <= x /\ x < q1 * m + m /\ q2 * m <= x /\ x < q2 * m + m
  BY <1>1, <1>2 DEF Pos
<1>4. q1 = q2
  BY <1>3, OneBlock
<1> HIDE DEF Pos
<1> QED BY <1>1, <1>4

LEMMA Below ==
  ASSUME NEW n \in Nat, NEW m \in Pos, NEW q \in 0..(n - 1), NEW r \in 0..(m - 1)
  PROVE  q * m + r \in 0..(n * m - 1)
<1>1. q + 1 \in Nat /\ q + 1 <= n /\ q \in Nat /\ m \in Nat
  BY DEF Pos
<1>2. (q + 1) * m <= n * m
  BY <1>1, Monotone
<1>3. (q + 1) * m = q * m + m /\ q * m \in Nat /\ n * m \in Nat
  BY <1>1
<1> HIDE DEF Pos
<1> QED BY <1>1, <1>2, <1>3

LEMMA Parted ==
  ASSUME NEW q \in Nat, NEW m \in Pos, NEW r \in 0..(m - 1)
  PROVE  (q * m + r) \div m = q /\ (q * m + r) % m = r
<1>1. PICK x \in Nat : x = q * m + r
  <2>1. q * m \in Nat
    BY DEF Pos
  <2> QED BY <2>1 DEF Pos
<1>2. x = (x \div m) * m + (x % m) /\ x \div m \in Nat /\ x % m \in 0..(m - 1)
  BY DEF Pos
<1> QED BY <1>1, <1>2, Digits

-----------------------------------------------------------------------------
(* The image of a finite set.                                              *)
Onto(f, S, T) == \A t \in T : \E s \in S : f[s] = t

LEMMA ImageFinite ==
  ASSUME NEW S, NEW T, NEW f \in [S -> T], Onto(f, S, T), IsFiniteSet(S)
  PROVE  IsFiniteSet(T)
<1>1. PICK seq \in Seq(S) : \A s \in S : \E n \in 1..Len(seq) : seq[n] = s
  BY DEF IsFiniteSet
<1> DEFINE image == [n \in 1..Len(seq) |-> f[seq[n]]]
<1>2. image \in Seq(T) /\ Len(image) = Len(seq)
  <2>1. Len(seq) \in Nat /\ \A n \in 1..Len(seq) : seq[n] \in S
    BY <1>1
  <2>2. \A n \in 1..Len(seq) : f[seq[n]] \in T
    BY <2>1
  <2> QED BY <2>1, <2>2
<1>3. \A t \in T : \E n \in 1..Len(image) : image[n] = t
  <2> SUFFICES ASSUME NEW t \in T PROVE \E n \in 1..Len(image) : image[n] = t
    OBVIOUS
  <2>1. PICK s \in S : f[s] = t
    BY DEF Onto
  <2>2. PICK n \in 1..Len(seq) : seq[n] = s
    BY <1>1
  <2> QED BY <1>2, <2>1, <2>2
<1> HIDE DEF image
<1> QED BY <1>2, <1>3 DEF IsFiniteSet

LEMMA SameNumber ==
  ASSUME NEW S, NEW T, NEW f \in [S -> T], Onto(f, S, T), IsFiniteSet(S), IsFiniteSet(T),
         \A s, t \in S : f[s] = f[t] => s = t
  PROVE  Cardinality(S) = Cardinality(T)
<1>1. Cardinality(S) \in Nat /\ Cardinality(T) \in Nat
  BY FS_CardinalityType
<1>2. ~(Cardinality(T) < Cardinality(S))
  <2>1. ASSUME Cardinality(T) < Cardinality(S) PROVE FALSE
    <3>1. \E s, t \in S : s # t /\ f[s] = f[t]
      BY <2>1, FS_PigeonHole
    <3> QED BY <3>1
  <2> QED BY <2>1
<1>3. ~(Cardinality(S) < Cardinality(T))
  <2>1. ASSUME Cardinality(S) < Cardinality(T) PROVE FALSE
    <3> DEFINE g == [t \in T |-> CHOOSE s \in S : f[s] = t]
    <3>1. \A t \in T : g[t] \in S /\ f[g[t]] = t
      BY DEF Onto
    <3>2. g \in [T -> S]
      BY <3>1
    <3> HIDE DEF g
    <3>3. PICK s, t \in T : s # t /\ g[s] = g[t]
      BY <2>1, <3>2, FS_PigeonHole
    <3> QED BY <3>1, <3>3
  <2> QED BY <2>1
<1> QED BY <1>1, <1>2, <1>3

-----------------------------------------------------------------------------
(* Terms that are each product of a finite set of indices once.            *)
IsTerm(t) == t = <<t[1], t[2], t[3], t[4]>>

Product(t) == <<t[1], t[2], t[3]>>

Once(terms, products) ==
  /\ Products(terms) = products
  /\ \A t, u \in terms : Product(t) = Product(u) => t = u

LEMMA OnceAddsUp ==
  ASSUME NEW terms, NEW products, Once(terms, products), IsFiniteSet(products)
  PROVE  AddsUp(terms, products)
<1> DEFINE f == [t \in terms |-> Product(t)]
           g == [p \in products |-> CHOOSE t \in terms : Product(t) = p]
<1>1. Products(terms) = products /\ \A t, u \in terms : Product(t) = Product(u) => t = u
  BY DEF Once
<1>2. \A t \in terms : Product(t) \in products
  BY <1>1 DEF Products, Product
<1>3. \A p \in products : \E t \in terms : Product(t) = p
  BY <1>1 DEF Products, Product
<1>4. f \in [terms -> products] /\ Onto(f, terms, products)
  <2>1. f \in [terms -> products]
    BY <1>2
  <2> QED BY <1>3, <2>1 DEF Onto
<1>5. \A t, u \in terms : f[t] = f[u] => t = u
  BY <1>1
<1>6. g \in [products -> terms] /\ Onto(g, products, terms)
  <2>1. \A p \in products : g[p] \in terms /\ Product(g[p]) = p
    BY <1>3
  <2>2. g \in [products -> terms]
    BY <2>1
  <2>3. ASSUME NEW t \in terms PROVE \E p \in products : g[p] = t
    <3>1. Product(t) \in products
      BY <1>2
    <3>2. g[Product(t)] \in terms /\ Product(g[Product(t)]) = Product(t)
      BY <2>1, <3>1
    <3> HIDE DEF g
    <3> QED BY <1>1, <3>1, <3>2
  <2> QED BY <2>2, <2>3 DEF Onto
<1> HIDE DEF f, g
<1>7. IsFiniteSet(terms)
  BY <1>6, ImageFinite
<1>8. Cardinality(terms) = Cardinality(products)
  BY <1>4, <1>5, <1>7, SameNumber
<1> QED BY <1>1, <1>8 DEF AddsUp

-----------------------------------------------------------------------------
(* What the registers hold: each of the rows, as deep as the tile.         *)
RowOf(S, row, depth) ==
  /\ \A t \in S : t[1] = row /\ t[2] = row /\ t[4] = t[3] /\ t[3] \in 0..(depth - 1)
  /\ \A l \in 0..(depth - 1) : \E t \in S : t[3] = l

Registers(regs, rows, depth) ==
  /\ \A t \in regs : t[2] = t[1] /\ t[4] = t[3] /\ t[1] \in 0..(rows - 1) /\ t[3] \in 0..(depth - 1)
  /\ \A i \in 0..(rows - 1), l \in 0..(depth - 1) : \E t \in regs : t[1] = i /\ t[3] = l

LEMMA Joined ==
  ASSUME NEW a, NEW b, NEW c, NEW d
  PROVE  <<a>> \o <<b, c>> \o <<d>> = <<a, b, c, d>>
<1> DEFINE S == {a, b, c, d}
<1>1. /\ <<a>> \in Seq(S) /\ <<b, c>> \in Seq(S) /\ <<a, b, c>> \in Seq(S) /\ <<d>> \in Seq(S)
      /\ <<a, b, c, d>> \in Seq(S)
  OBVIOUS
<1> HIDE DEF S
<1>2. <<a>> \o <<b, c>> = <<a, b, c>>
  <2>1. /\ <<a>> \o <<b, c>> \in Seq(S) /\ Len(<<a>> \o <<b, c>>) = 3
        /\ \A i \in 1..3 : (<<a>> \o <<b, c>>)[i] = <<a, b, c>>[i]
    BY <1>1, ConcatProperties
  <2> QED BY <1>1, <2>1, SeqEqual
<1>3. <<a, b, c>> \o <<d>> = <<a, b, c, d>>
  <2>1. /\ <<a, b, c>> \o <<d>> \in Seq(S) /\ Len(<<a, b, c>> \o <<d>>) = 4
        /\ \A i \in 1..4 : (<<a, b, c>> \o <<d>>)[i] = <<a, b, c, d>>[i]
    BY <1>1, ConcatProperties
  <2> QED BY <1>1, <2>1, SeqEqual
<1> QED BY <1>2, <1>3

(* A lane of the registers of A.                                           *)
LaneOf(row, q, l, k) == <<row>> \o Half(q, l) \o <<k>>

LEMMA Lanes ==
  ASSUME NEW row \in Nat, NEW l \in 0..3
  PROVE  /\ LaneOf(row, 2 * row, l, l) = <<row, row, l, l>>
         /\ LaneOf(row, 2 * row + 1, l, 4 + l) = <<row, row, 4 + l, 4 + l>>
<1>1. Half(2 * row, l) = <<row, l>> /\ Half(2 * row + 1, l) = <<row, 4 + l>>
  BY DEF Half
<1>2. <<row>> \o <<row, l>> \o <<l>> = <<row, row, l, l>>
  BY Joined
<1>3. <<row>> \o <<row, 4 + l>> \o <<4 + l>> = <<row, row, 4 + l, 4 + l>>
  BY Joined
<1> QED BY <1>1, <1>2, <1>3, Zenon DEF LaneOf

LEMMA RowOf4 ==
  ASSUME NEW row \in Nat
  PROVE  RowOf(PartCal4(row), row, 4)
<1>1. ASSUME NEW t \in PartCal4(row)
      PROVE  t[1] = row /\ t[2] = row /\ t[4] = t[3] /\ t[3] \in 0..3
  <2>1. PICK l \in 0..3 : t = <<row, row, l, l>>
    BY DEF PartCal4
  <2> QED BY <2>1
<1>2. ASSUME NEW l \in 0..3 PROVE \E t \in PartCal4(row) : t[3] = l
  <2>1. <<row, row, l, l>> \in PartCal4(row)
    BY DEF PartCal4
  <2> QED BY <2>1
<1> QED BY <1>1, <1>2 DEF RowOf

LEMMA RowOf8 ==
  ASSUME NEW row \in Nat
  PROVE  RowOf(PartCal8(row, 2 * row, 2 * row + 1), row, 8)
<1> DEFINE low == {LaneOf(row, 2 * row, l, l) : l \in 0..3}
           high == {LaneOf(row, 2 * row + 1, l, 4 + l) : l \in 0..3}
<1>1. PartCal8(row, 2 * row, 2 * row + 1) = low \cup high
  BY Zenon DEF PartCal8, LaneOf
<1>2. /\ \A t \in low : t[1] = row /\ t[2] = row /\ t[4] = t[3] /\ t[3] \in 0..3
      /\ \A l \in 0..3 : \E t \in low : t[3] = l
  <2>1. ASSUME NEW t \in low PROVE t[1] = row /\ t[2] = row /\ t[4] = t[3] /\ t[3] \in 0..3
    <3>1. PICK l \in 0..3 : t = LaneOf(row, 2 * row, l, l)
      OBVIOUS
    <3>2. t = <<row, row, l, l>>
      BY <3>1, Lanes
    <3> QED BY <3>2
  <2>2. ASSUME NEW l \in 0..3 PROVE \E t \in low : t[3] = l
    <3>1. LaneOf(row, 2 * row, l, l) \in low
      OBVIOUS
    <3> QED BY <3>1, Lanes
  <2> QED BY <2>1, <2>2
<1>3. /\ \A t \in high : t[1] = row /\ t[2] = row /\ t[4] = t[3] /\ t[3] \in 4..7
      /\ \A l \in 0..3 : \E t \in high : t[3] = 4 + l
  <2>1. ASSUME NEW t \in high PROVE t[1] = row /\ t[2] = row /\ t[4] = t[3] /\ t[3] \in 4..7
    <3>1. PICK l \in 0..3 : t = LaneOf(row, 2 * row + 1, l, 4 + l)
      OBVIOUS
    <3>2. t = <<row, row, 4 + l, 4 + l>>
      BY <3>1, Lanes
    <3> QED BY <3>2
  <2>2. ASSUME NEW l \in 0..3 PROVE \E t \in high : t[3] = 4 + l
    <3>1. LaneOf(row, 2 * row + 1, l, 4 + l) \in high
      OBVIOUS
    <3> QED BY <3>1, Lanes
  <2> QED BY <2>1, <2>2
<1> HIDE DEF low, high
<1>4. ASSUME NEW l \in 0..7 PROVE \E t \in low \cup high : t[3] = l
  <2>1. CASE l \in 0..3
    BY <1>2, <2>1
  <2>2. CASE l \notin 0..3
    <3>1. l - 4 \in 0..3 /\ l = 4 + (l - 4)
      BY <2>2
    <3> QED BY <1>3, <3>1
  <2> QED BY <2>1, <2>2
<1> QED BY <1>1, <1>2, <1>3, <1>4 DEF RowOf

LEMMA OneRow ==
  ASSUME NEW S, NEW depth \in Nat, RowOf(S, 0, depth)
  PROVE  Registers(S, 1, depth)
BY DEF RowOf, Registers

LEMMA NextRow ==
  ASSUME NEW regs, NEW S, NEW rows \in Nat, NEW depth \in Nat,
         Registers(regs, rows, depth), RowOf(S, rows, depth)
  PROVE  Registers(regs \cup S, rows + 1, depth)
<1>1. \A i \in 0..rows : i \in 0..(rows - 1) \/ i = rows
  OBVIOUS
<1>2. 0..(rows + 1 - 1) = 0..rows /\ 0..(rows - 1) \subseteq 0..rows /\ rows \in 0..rows
  OBVIOUS
<1> QED BY <1>1, <1>2 DEF RowOf, Registers

LEMMA Rows4 ==
  /\ Registers(Gemm144, 1, 4) /\ Registers(Gemm244, 2, 4) /\ Registers(Gemm344, 3, 4)
  /\ Registers(Gemm444, 4, 4) /\ Registers(Gemm544, 5, 4) /\ Registers(Gemm644, 6, 4)
<1>1. Registers(Gemm144, 1, 4)
  BY RowOf4, OneRow DEF Gemm144
<1>2. Registers(Gemm244, 2, 4)
  BY <1>1, RowOf4, NextRow DEF Gemm244
<1>3. Registers(Gemm344, 3, 4)
  BY <1>2, RowOf4, NextRow DEF Gemm344
<1>4. Registers(Gemm444, 4, 4)
  BY <1>3, RowOf4, NextRow DEF Gemm444
<1>5. Registers(Gemm544, 5, 4)
  BY <1>4, RowOf4, NextRow DEF Gemm544
<1>6. Registers(Gemm644, 6, 4)
  <2>1. RowOf(PartCal4(5), 5, 4)
    BY RowOf4
  <2>2. Registers(Gemm544 \cup PartCal4(5), 5 + 1, 4)
    BY <1>5, <2>1, NextRow
  <2> QED BY <2>2 DEF Gemm644
<1> QED BY <1>1, <1>2, <1>3, <1>4, <1>5, <1>6

LEMMA Rows8 ==
  /\ Registers(Gemm184, 1, 8) /\ Registers(Gemm284, 2, 8) /\ Registers(Gemm384, 3, 8)
  /\ Registers(Gemm484, 4, 8) /\ Registers(Gemm584, 5, 8) /\ Registers(Gemm684, 6, 8)
  /\ Registers(Gemm784, 7, 8) /\ Registers(Gemm884, 8, 8)
<1>0. /\ RowOf(PartCal8(0, 0, 1), 0, 8) /\ RowOf(PartCal8(1, 2, 3), 1, 8)
      /\ RowOf(PartCal8(2, 4, 5), 2, 8) /\ RowOf(PartCal8(3, 6, 7), 3, 8)
      /\ RowOf(PartCal8(4, 8, 9), 4, 8) /\ RowOf(PartCal8(5, 10, 11), 5, 8)
      /\ RowOf(PartCal8(6, 12, 13), 6, 8) /\ RowOf(PartCal8(7, 14, 15), 7, 8)
  <2>1. \A row \in Nat : RowOf(PartCal8(row, 2 * row, 2 * row + 1), row, 8)
    BY RowOf8
  <2>2. 2 * 0 = 0 /\ 2 * 1 = 2 /\ 2 * 2 = 4 /\ 2 * 3 = 6 /\ 2 * 4 = 8 /\ 2 * 5 = 10 /\ 2 * 6 = 12 /\ 2 * 7 = 14
    OBVIOUS
  <2>3. 0 + 1 = 1 /\ 2 + 1 = 3 /\ 4 + 1 = 5 /\ 6 + 1 = 7 /\ 8 + 1 = 9 /\ 10 + 1 = 11 /\ 12 + 1 = 13 /\ 14 + 1 = 15
    OBVIOUS
  <2>4. RowOf(PartCal8(0, 2 * 0, 2 * 0 + 1), 0, 8) /\ RowOf(PartCal8(1, 2 * 1, 2 * 1 + 1), 1, 8)
    BY <2>1
  <2>5. RowOf(PartCal8(2, 2 * 2, 2 * 2 + 1), 2, 8) /\ RowOf(PartCal8(3, 2 * 3, 2 * 3 + 1), 3, 8)
    BY <2>1
  <2>6. RowOf(PartCal8(4, 2 * 4, 2 * 4 + 1), 4, 8) /\ RowOf(PartCal8(5, 2 * 5, 2 * 5 + 1), 5, 8)
    BY <2>1
  <2>7. RowOf(PartCal8(6, 2 * 6, 2 * 6 + 1), 6, 8) /\ RowOf(PartCal8(7, 2 * 7, 2 * 7 + 1), 7, 8)
    BY <2>1
  <2> QED BY <2>2, <2>3, <2>4, <2>5, <2>6, <2>7
<1>1. Registers(Gemm184, 1, 8)
  BY <1>0, OneRow DEF Gemm184
<1>2. Registers(Gemm284, 2, 8)
  BY <1>0, <1>1, NextRow DEF Gemm284
<1>3. Registers(Gemm384, 3, 8)
  BY <1>0, <1>2, NextRow DEF Gemm384
<1>4. Registers(Gemm484, 4, 8)
  BY <1>0, <1>3, NextRow DEF Gemm484
<1>5. Registers(Gemm584, 5, 8)
  BY <1>0, <1>4, NextRow DEF Gemm584
<1>6. Registers(Gemm684, 6, 8)
  BY <1>0, <1>5, NextRow DEF Gemm684
<1>7. Registers(Gemm784, 7, 8)
  BY <1>0, <1>6, NextRow DEF Gemm784
<1>8. Registers(Gemm884, 8, 8)
  BY <1>0, <1>7, NextRow DEF Gemm884
<1> QED BY <1>1, <1>2, <1>3, <1>4, <1>5, <1>6, <1>7, <1>8

LEMMA FullTileRight ==
  ASSUME NEW arch \in {"armv8", "gcc", "armv7"}
  PROVE  Registers(FullTile(arch), RegHeight(arch), RegK(arch))
<1>0. /\ arch = "armv8" => FullTile(arch) = AsmLow \cup AsmHigh
      /\ arch = "gcc" => FullTile(arch) = Gemm884
      /\ arch = "armv7" => FullTile(arch) = Asm644
  BY Zenon DEF FullTile
<1>1. CASE arch = "gcc"
  BY <1>0, <1>1, Rows8 DEF RegHeight, RegK
<1>2. CASE arch = "armv7"
  <2>1. ASSUME NEW t \in Asm644
        PROVE  t[2] = t[1] /\ t[4] = t[3] /\ t[1] \in 0..5 /\ t[3] \in 0..3
    <3>1. PICK r \in 0..5, l \in 0..3 : t = <<r, r, l, l>>
      BY DEF Asm644
    <3> QED BY <3>1
  <2>2. ASSUME NEW r \in 0..5, NEW l \in 0..3
        PROVE  \E t \in Asm644 : t[1] = r /\ t[3] = l
    <3>1. <<r, r, l, l>> \in Asm644
      BY DEF Asm644
    <3> QED BY <3>1
  <2>3. Registers(Asm644, 6, 4)
    BY <2>1, <2>2 DEF Registers
  <2> QED BY <1>0, <1>2, <2>3 DEF RegHeight, RegK
<1>3. CASE arch = "armv8"
  <2>1. /\ \A t \in AsmLow : /\ t[1] \in 0..7 /\ t[2] = t[1] /\ t[3] \in 0..3 /\ t[4] = t[3]
        /\ \A r \in 0..7, l \in 0..3 : \E t \in AsmLow : t[1] = r /\ t[3] = l
    <3>0. AsmLow = {LaneOf(r, 2 * r, l, l) : r \in 0..7, l \in 0..3}
      BY DEF AsmLow, LaneOf
    <3>1. ASSUME NEW t \in AsmLow
          PROVE  t[1] \in 0..7 /\ t[2] = t[1] /\ t[3] \in 0..3 /\ t[4] = t[3]
      <4>1. PICK r \in 0..7, l \in 0..3 : t = LaneOf(r, 2 * r, l, l)
        BY <3>0
      <4>2. LaneOf(r, 2 * r, l, l) = <<r, r, l, l>>
        <5>1. r \in Nat
          OBVIOUS
        <5> QED BY <5>1, Lanes, Zenon
      <4> QED BY <4>1, <4>2
    <3>2. ASSUME NEW r \in 0..7, NEW l \in 0..3
          PROVE  \E t \in AsmLow : t[1] = r /\ t[3] = l
      <4>0. LaneOf(r, 2 * r, l, l) = <<r, r, l, l>>
        <5>1. r \in Nat
          OBVIOUS
        <5> QED BY <5>1, Lanes, Zenon
      <4>1. LaneOf(r, 2 * r, l, l) \in AsmLow
        BY <3>0
      <4> QED BY <4>0, <4>1
    <3> QED BY <3>1, <3>2
  <2>2. /\ \A t \in AsmHigh : /\ t[1] \in 0..7 /\ t[2] = t[1] /\ t[3] \in 4..7 /\ t[4] = t[3]
        /\ \A r \in 0..7, l \in 0..3 : \E t \in AsmHigh : t[1] = r /\ t[3] = 4 + l
    <3>0. AsmHigh = {LaneOf(r, 2 * r + 1, l, 4 + l) : r \in 0..7, l \in 0..3}
      <4>1. AsmHigh = {LaneOf(r, 2 * r + 1, l, l + 4) : r \in 0..7, l \in 0..3}
        BY DEF AsmHigh, LaneOf
      <4>2. \A l \in 0..3 : l + 4 = 4 + l
        OBVIOUS
      <4> QED BY <4>1, <4>2
    <3>1. ASSUME NEW t \in AsmHigh
          PROVE  t[1] \in 0..7 /\ t[2] = t[1] /\ t[3] \in 4..7 /\ t[4] = t[3]
      <4>1. PICK r \in 0..7, l \in 0..3 : t = LaneOf(r, 2 * r + 1, l, 4 + l)
        BY <3>0
      <4>2. LaneOf(r, 2 * r + 1, l, 4 + l) = <<r, r, 4 + l, 4 + l>>
        <5>1. r \in Nat
          OBVIOUS
        <5> QED BY <5>1, Lanes, Zenon
      <4> QED BY <4>1, <4>2
    <3>2. ASSUME NEW r \in 0..7, NEW l \in 0..3
          PROVE  \E t \in AsmHigh : t[1] = r /\ t[3] = 4 + l
      <4>0. LaneOf(r, 2 * r + 1, l, 4 + l) = <<r, r, 4 + l, 4 + l>>
        <5>1. r \in Nat
          OBVIOUS
        <5> QED BY <5>1, Lanes, Zenon
      <4>1. LaneOf(r, 2 * r + 1, l, 4 + l) \in AsmHigh
        BY <3>0
      <4> QED BY <4>0, <4>1
    <3> QED BY <3>1, <3>2
  <2>3. Registers(AsmLow \cup AsmHigh, 8, 8)
    <3>1. ASSUME NEW i \in 0..7, NEW l \in 0..7
          PROVE  \E t \in AsmLow \cup AsmHigh : t[1] = i /\ t[3] = l
      <4>1. CASE l \in 0..3
        BY <2>1, <4>1
      <4>2. CASE l \notin 0..3
        <5>1. l - 4 \in 0..3 /\ l = 4 + (l - 4)
          BY <4>2
        <5> QED BY <2>2, <5>1
      <4> QED BY <4>1, <4>2
    <3>2. ASSUME NEW t \in AsmLow \cup AsmHigh
          PROVE  t[2] = t[1] /\ t[4] = t[3] /\ t[1] \in 0..7 /\ t[3] \in 0..7
      BY <2>1, <2>2
    <3> QED BY <3>1, <3>2 DEF Registers
  <2> QED BY <1>0, <1>3, <2>3 DEF RegHeight, RegK
<1> QED BY <1>1, <1>2, <1>3

LEMMA PartialTileRight ==
  ASSUME NEW arch \in {"armv8", "gcc", "armv7"}, NEW rows \in 1..RegHeight(arch)
  PROVE  Registers(PartialTile(arch, rows), rows, RegK(arch))
<1>1. CASE arch = "armv7"
  <2>1. rows \in {1, 2, 3, 4, 5, 6}
    BY <1>1 DEF RegHeight
  <2>2. Registers(GemmX44(rows), rows, 4)
    BY <2>1, Rows4 DEF GemmX44
  <2> QED BY <1>1, <2>2 DEF PartialTile, RegK
<1>2. CASE arch # "armv7"
  <2>1. rows \in {1, 2, 3, 4, 5, 6, 7, 8}
    BY <1>2 DEF RegHeight
  <2>2. Registers(GemmX84(rows), rows, 8)
    BY <2>1, Rows8 DEF GemmX84
  <2> QED BY <1>2, <2>2 DEF PartialTile, RegK
<1> QED BY <1>1, <1>2

-----------------------------------------------------------------------------
(* A box of products, <<row, depth, column>>, of which each is added by    *)
(* the terms of a tile, in one place of the code.                          *)
Stretch(a, n) == a..(a + n - 1)

Cell(t) == <<t[1], t[3], t[5]>>

AddsEach(terms, box) ==
  /\ \A t \in terms : t[2] = t[1] /\ t[4] = t[3] /\ Cell(t) \in box
  /\ \A c \in box : \E t \in terms : Cell(t) = c
  /\ \A t, u \in terms : Cell(t) = Cell(u) => t[6] = u[6]

LEMMA PairEach ==
  ASSUME NEW T1, NEW T2, NEW C1, NEW C2, AddsEach(T1, C1), AddsEach(T2, C2), C1 \cap C2 = {}
  PROVE  AddsEach(T1 \cup T2, C1 \cup C2)
<1>1. \A t \in T1, u \in T2 : Cell(t) # Cell(u)
  BY DEF AddsEach
<1> QED BY <1>1 DEF AddsEach

All(T, P) == UNION {T[p] : p \in P}

Box(H, K, J) == H \X K \X J

LEMMA UnionEach ==
  ASSUME NEW P, NEW T, NEW C, \A p \in P : AddsEach(T[p], C[p]),
         \A p, q \in P : p # q => C[p] \cap C[q] = {}
  PROVE  AddsEach(All(T, P), All(C, P))
<1> DEFINE all == UNION {T[p] : p \in P}
           boxes == UNION {C[p] : p \in P}
<1>1. \A t \in all : t[2] = t[1] /\ t[4] = t[3] /\ Cell(t) \in boxes
  BY DEF AddsEach
<1>2. \A c \in boxes : \E t \in all : Cell(t) = c
  BY DEF AddsEach
<1>3. ASSUME NEW t \in all, NEW u \in all, Cell(t) = Cell(u) PROVE t[6] = u[6]
  <2>1. PICK p \in P : t \in T[p]
    OBVIOUS
  <2>2. PICK q \in P : u \in T[q]
    OBVIOUS
  <2>3. Cell(t) \in C[p] /\ Cell(t) \in C[q]
    BY <1>3, <2>1, <2>2 DEF AddsEach
  <2>4. p = q
    BY <2>3
  <2> QED BY <1>3, <2>1, <2>2, <2>4 DEF AddsEach
<1> HIDE DEF all, boxes
<1>4. AddsEach(all, boxes)
  BY <1>1, <1>2, <1>3 DEF AddsEach
<1> QED BY <1>4 DEF all, boxes, All

(* Tiles of n cut a range.                                                 *)
Cuts(starts, n, S) ==
  /\ \A i \in starts : i \in Nat /\ Stretch(i, n) \subseteq S
  /\ \A x \in S : \E i \in starts : x \in Stretch(i, n)
  /\ \A i, j \in starts : i # j => Stretch(i, n) \cap Stretch(j, n) = {}

LEMMA TileStart ==
  ASSUME NEW n \in Pos, NEW size \in Nat, NEW i \in Tiles(size, n)
  PROVE  \E q \in Nat : i = q * n /\ q * n + n <= size /\ q + 1 <= size \div n
<1>1. i \in Nat /\ i % n = 0 /\ i + n <= size
  BY DEF Tiles
<1>2. PICK q \in Nat : q = i \div n /\ i = q * n
  <2>1. i = (i \div n) * n + (i % n) /\ i \div n \in Nat
    BY <1>1 DEF Pos
  <2>2. (i \div n) * n \in Nat
    BY <2>1 DEF Pos
  <2> QED BY <1>1, <2>1, <2>2
<1>3. size \div n \in Nat /\ size < (size \div n) * n + n
  BY Division
<1>4. q < size \div n
  <2>1. ASSUME size \div n <= q PROVE FALSE
    <3>1. (size \div n) * n <= q * n
      BY <1>3, <2>1, Monotone DEF Pos
    <3>2. (size \div n) * n \in Int /\ q * n \in Int /\ n \in Int
      BY <1>3 DEF Pos
    <3> QED BY <1>1, <1>2, <1>3, <3>1, <3>2
  <2> QED BY <1>3, <2>1
<1> QED BY <1>1, <1>2, <1>3, <1>4

Whole(size, n) == n * (size \div n)

LEMMA TilesCut ==
  ASSUME NEW n \in Pos, NEW size \in Nat
  PROVE  /\ Cuts(Tiles(size, n), n, 0..(Whole(size, n) - 1))
         /\ Whole(size, n) \in Nat /\ Whole(size, n) <= size
         /\ size - Whole(size, n) \in 0..(n - 1)
<1> DEFINE q == size \div n
<1>1. q \in Nat /\ q * n <= size /\ size < q * n + n
  BY Division
<1>2. n * q = q * n /\ q * n \in Nat /\ n \in Nat
  BY <1>1 DEF Pos
<1>3. ASSUME NEW i \in Tiles(size, n)
      PROVE  i \in Nat /\ Stretch(i, n) \subseteq 0..(n * q - 1)
  <2>1. PICK k \in Nat : i = k * n /\ k * n + n <= size /\ k + 1 <= q
    BY TileStart
  <2>2. (k + 1) * n <= q * n
    BY <1>1, <1>2, <2>1, Monotone
  <2>3. (k + 1) * n = k * n + n /\ k * n \in Nat
    BY <1>2
  <2>4. i \in Nat /\ i + n <= n * q
    BY <1>2, <2>1, <2>2, <2>3
  <2> HIDE DEF q
  <2> QED BY <1>1, <1>2, <2>4 DEF Stretch
<1>4. ASSUME NEW x \in 0..(n * q - 1)
      PROVE  \E i \in Tiles(size, n) : x \in Stretch(i, n)
  <2>1. x \in Nat /\ x < q * n
    BY <1>2
  <2>2. x \div n \in Nat /\ (x \div n) * n <= x /\ x < (x \div n) * n + n
    BY <2>1, Division
  <2>3. PICK k \in Nat : k = x \div n
    BY <2>2
  <2>4. k + 1 <= q
    <3>1. ASSUME q <= k PROVE FALSE
      <4>1. q * n <= k * n /\ k * n \in Nat
        BY <1>1, <1>2, <3>1, Monotone
      <4> QED BY <1>1, <1>2, <2>1, <2>2, <2>3, <4>1
    <3> QED BY <1>1, <3>1
  <2>5. (k + 1) * n <= q * n /\ (k + 1) * n = k * n + n /\ k * n \in Nat /\ (k * n) % n = 0
    <3>1. (k + 1) * n <= q * n
      BY <1>1, <1>2, <2>4, Monotone
    <3>2. (k + 1) * n = k * n + n
      BY <1>2
    <3>3. k * n \in Nat /\ (k * n) % n = 0
      BY Multiples
    <3> QED BY <3>1, <3>2, <3>3
  <2> HIDE DEF q
  <2>6. k * n \in Tiles(size, n)
    <3>1. k * n + n <= size /\ k * n \in 0..(size - 1)
      BY <1>1, <1>2, <2>5 DEF Pos
    <3> QED BY <2>5, <3>1 DEF Tiles
  <2>7. x \in Stretch(k * n, n)
    BY <1>2, <2>1, <2>2, <2>3, <2>5 DEF Stretch
  <2> QED BY <2>6, <2>7
<1>5. ASSUME NEW i \in Tiles(size, n), NEW j \in Tiles(size, n), NEW x \in Stretch(i, n) \cap Stretch(j, n)
      PROVE  i = j
  <2>1. PICK k \in Nat : i = k * n
    BY TileStart
  <2>2. PICK l \in Nat : j = l * n
    BY TileStart
  <2>3. k * n \in Nat /\ l * n \in Nat
    BY <1>2
  <2>4. x \in Nat /\ k * n <= x /\ x < k * n + n /\ l * n <= x /\ x < l * n + n
    BY <1>2, <2>1, <2>2, <2>3 DEF Stretch
  <2> QED BY <2>1, <2>2, <2>4, OneBlock
<1>6. Cuts(Tiles(size, n), n, 0..(n * q - 1))
  <2> HIDE DEF q
  <2> QED BY <1>3, <1>4, <1>5 DEF Cuts
<1> HIDE DEF q
<1> QED BY <1>1, <1>2, <1>6 DEF q, Whole

(* Boxes that are cut in two.                                              *)
Halved(S, S1, S2) == S1 \cap S2 = {} /\ S1 \cup S2 = S

LEMMA Interval2 ==
  ASSUME NEW a \in Nat, NEW b \in Nat, a <= b
  PROVE  Halved(0..(b - 1), 0..(a - 1), a..(b - 1)) /\ a..(b - 1) = Stretch(a, b - a)
BY DEF Halved, Stretch

LEMMA Interval1 ==
  ASSUME NEW a \in Nat
  PROVE  0..(a - 1) = Stretch(0, a)
BY DEF Stretch

LEMMA ByRows ==
  ASSUME NEW T1, NEW T2, NEW H, NEW H1, NEW H2, NEW K, NEW J, Halved(H, H1, H2),
         AddsEach(T1, Box(H1, K, J)), AddsEach(T2, Box(H2, K, J))
  PROVE  AddsEach(T1 \cup T2, Box(H, K, J))
<1>1. Box(H1, K, J) \cap Box(H2, K, J) = {} /\ Box(H1, K, J) \cup Box(H2, K, J) = Box(H, K, J)
  BY DEF Halved, Box
<1> QED BY <1>1, PairEach

LEMMA ByDepth ==
  ASSUME NEW T1, NEW T2, NEW H, NEW K, NEW K1, NEW K2, NEW J, Halved(K, K1, K2),
         AddsEach(T1, Box(H, K1, J)), AddsEach(T2, Box(H, K2, J))
  PROVE  AddsEach(T1 \cup T2, Box(H, K, J))
<1>1. Box(H, K1, J) \cap Box(H, K2, J) = {} /\ Box(H, K1, J) \cup Box(H, K2, J) = Box(H, K, J)
  BY DEF Halved, Box
<1> QED BY <1>1, PairEach

LEMMA ByColumns ==
  ASSUME NEW T1, NEW T2, NEW H, NEW K, NEW J, NEW J1, NEW J2, Halved(J, J1, J2),
         AddsEach(T1, Box(H, K, J1)), AddsEach(T2, Box(H, K, J2))
  PROVE  AddsEach(T1 \cup T2, Box(H, K, J))
<1>1. Box(H, K, J1) \cap Box(H, K, J2) = {} /\ Box(H, K, J1) \cup Box(H, K, J2) = Box(H, K, J)
  BY DEF Halved, Box
<1> QED BY <1>1, PairEach

(* All tiles of a grid.                                                    *)
TilesEach(T, R, Q, m, n, J) ==
  \A r \in R, q \in Q : AddsEach(T[<<r, q>>], Box(Stretch(r, m), Stretch(q, n), J))

LEMMA GridEach ==
  ASSUME NEW R, NEW Q, NEW m, NEW n, NEW H, NEW K, NEW J, NEW T, Cuts(R, m, H), Cuts(Q, n, K),
         TilesEach(T, R, Q, m, n, J)
  PROVE  AddsEach(All(T, R \X Q), Box(H, K, J))
<1> DEFINE C == [p \in R \X Q |-> Box(Stretch(p[1], m), Stretch(p[2], n), J)]
<1>1. ASSUME NEW p \in R \X Q PROVE AddsEach(T[p], C[p])
  <2>1. PICK r \in R, q \in Q : p = <<r, q>>
    OBVIOUS
  <2>2. AddsEach(T[<<r, q>>], Box(Stretch(r, m), Stretch(q, n), J))
    BY DEF TilesEach
  <2>3. C[p] = Box(Stretch(r, m), Stretch(q, n), J)
    BY <2>1
  <2> QED BY <2>1, <2>2, <2>3
<1>2. ASSUME NEW p \in R \X Q, NEW q \in R \X Q, p # q
      PROVE  C[p] \cap C[q] = {}
  <2>1. CASE p[1] # q[1]
    <3>1. Stretch(p[1], m) \cap Stretch(q[1], m) = {}
      BY <2>1 DEF Cuts
    <3> QED BY <3>1 DEF Box
  <2>2. CASE p[2] # q[2]
    <3>1. Stretch(p[2], n) \cap Stretch(q[2], n) = {}
      BY <2>2 DEF Cuts
    <3> QED BY <3>1 DEF Box
  <2>3. p[1] # q[1] \/ p[2] # q[2]
    BY <1>2
  <2> QED BY <2>1, <2>2, <2>3
<1>3. AddsEach(All(T, R \X Q), All(C, R \X Q))
  <2> HIDE DEF C
  <2> QED BY <1>1, <1>2, UnionEach
<1>4. All(C, R \X Q) = Box(H, K, J)
  <2>1. ASSUME NEW p \in R \X Q, NEW c \in C[p] PROVE c \in Box(H, K, J)
    <3>1. Stretch(p[1], m) \subseteq H /\ Stretch(p[2], n) \subseteq K
      BY DEF Cuts
    <3> QED BY <3>1 DEF Box
  <2>2. ASSUME NEW c \in Box(H, K, J) PROVE \E p \in R \X Q : c \in C[p]
    <3>1. PICK x \in H, y \in K, z \in J : c = <<x, y, z>>
      BY DEF Box
    <3>2. PICK r \in R : x \in Stretch(r, m)
      BY DEF Cuts
    <3>3. PICK q \in Q : y \in Stretch(q, n)
      BY DEF Cuts
    <3>4. <<r, q>> \in R \X Q /\ c \in C[<<r, q>>]
      BY <3>1, <3>2, <3>3 DEF Box
    <3> QED BY <3>4
  <2> HIDE DEF C
  <2> QED BY <2>1, <2>2 DEF All
<1> QED BY <1>3, <1>4

-----------------------------------------------------------------------------
BlockTerm(h, k, w, i, l, j) ==
  <<h + i, h + i, k + l, k + l, w + j, <<"block", h, k, w>> >>

TileTerm(h, k, w, r, j) ==
  <<h + r[1], h + r[2], k + r[3], k + r[4], w + j, <<"tile", h, k, w>> >>

LEMMA BlockEach ==
  ASSUME NEW h \in Nat, NEW k \in Nat, NEW w \in Nat,
         NEW height \in Nat, NEW K \in Nat, NEW width \in Nat
  PROVE  AddsEach(GemmBlock(h, k, w, height, K, width), Box(Stretch(h, height), Stretch(k, K), Stretch(w, width)))
<1> DEFINE T == GemmBlock(h, k, w, height, K, width)
           C == Stretch(h, height) \X Stretch(k, K) \X Stretch(w, width)
<1>0. T = {BlockTerm(h, k, w, i, l, j) : i \in 0..(height - 1), l \in 0..(K - 1), j \in 0..(width - 1)}
  BY DEF GemmBlock, BlockTerm
<1>1. ASSUME NEW t \in T
      PROVE  t[2] = t[1] /\ t[4] = t[3] /\ Cell(t) \in C /\ t[6] = <<"block", h, k, w>>
  <2>1. PICK i \in 0..(height - 1), l \in 0..(K - 1), j \in 0..(width - 1) :
          t = BlockTerm(h, k, w, i, l, j)
    BY <1>0
  <2>2. h + i \in Stretch(h, height) /\ k + l \in Stretch(k, K) /\ w + j \in Stretch(w, width)
    BY DEF Stretch
  <2> QED BY <2>1, <2>2 DEF Cell, BlockTerm
<1>2. ASSUME NEW c \in C PROVE \E t \in T : Cell(t) = c
  <2>1. PICK a \in Stretch(h, height), b \in Stretch(k, K), d \in Stretch(w, width) : c = <<a, b, d>>
    OBVIOUS
  <2>2. a - h \in 0..(height - 1) /\ b - k \in 0..(K - 1) /\ d - w \in 0..(width - 1)
    BY DEF Stretch
  <2>3. h + (a - h) = a /\ k + (b - k) = b /\ w + (d - w) = d
    BY DEF Stretch
  <2> DEFINE t == BlockTerm(h, k, w, a - h, b - k, d - w)
  <2>4. t \in T
    <3> HIDE DEF T
    <3> QED BY <1>0, <2>2
  <2>5. Cell(t) = c
    BY <2>1, <2>3 DEF Cell, BlockTerm
  <2> QED BY <2>4, <2>5
<1> HIDE DEF T, C
<1>3. AddsEach(T, C)
  BY <1>1, <1>2 DEF AddsEach
<1> QED BY <1>3 DEF T, C, Box

LEMMA RegistersEach ==
  ASSUME NEW regs, NEW rows \in Nat, NEW depth \in Nat, Registers(regs, rows, depth),
         NEW h \in Nat, NEW k \in Nat, NEW width \in Nat
  PROVE  AddsEach(RegisterTiles(regs, h, k, width),
                  Box(Stretch(h, rows), Stretch(k, depth), 0..(Whole(width, 4) - 1)))
<1> DEFINE T == RegisterTiles(regs, h, k, width)
           J == 0..(Whole(width, 4) - 1)
           C == Stretch(h, rows) \X Stretch(k, depth) \X J
<1>00. T = {TileTerm(h, k, w, r, j) : r \in regs, w \in Tiles(width, 4), j \in 0..3}
  BY DEF RegisterTiles, TileTerm
<1>0. Cuts(Tiles(width, 4), 4, J)
  <2>1. 4 \in Pos
    BY DEF Pos
  <2> QED BY <2>1, TilesCut
<1> HIDE DEF J
<1>1. ASSUME NEW t \in T
      PROVE  \E w \in Tiles(width, 4) :
               t[2] = t[1] /\ t[4] = t[3] /\ Cell(t) \in C /\ t[5] \in Stretch(w, 4) /\ t[6] = <<"tile", h, k, w>>
  <2>1. PICK r \in regs, w \in Tiles(width, 4), j \in 0..3 :
          t = TileTerm(h, k, w, r, j)
    BY <1>00
  <2>2. r[2] = r[1] /\ r[4] = r[3] /\ r[1] \in 0..(rows - 1) /\ r[3] \in 0..(depth - 1)
    BY DEF Registers
  <2>3. h + r[1] \in Stretch(h, rows) /\ k + r[3] \in Stretch(k, depth)
    BY <2>2 DEF Stretch
  <2>4. w \in Nat /\ w + j \in Stretch(w, 4) /\ Stretch(w, 4) \subseteq J
    <3>1. w \in Nat /\ Stretch(w, 4) \subseteq J
      BY <1>0 DEF Cuts
    <3> QED BY <3>1 DEF Stretch
  <2>5. w + j \in J
    BY <2>4
  <2> QED BY <2>1, <2>2, <2>3, <2>4, <2>5 DEF Cell, TileTerm
<1>2. ASSUME NEW c \in C PROVE \E t \in T : Cell(t) = c
  <2>1. PICK a \in Stretch(h, rows), b \in Stretch(k, depth), d \in J : c = <<a, b, d>>
    OBVIOUS
  <2>2. PICK w \in Tiles(width, 4) : d \in Stretch(w, 4)
    BY <1>0 DEF Cuts
  <2>3. w \in Nat
    BY <1>0 DEF Cuts
  <2>4. PICK i \in 0..(rows - 1) : a = h + i
    <3>1. a - h \in 0..(rows - 1) /\ a = h + (a - h)
      BY DEF Stretch
    <3> QED BY <3>1
  <2>5. PICK l \in 0..(depth - 1) : b = k + l
    <3>1. b - k \in 0..(depth - 1) /\ b = k + (b - k)
      BY DEF Stretch
    <3> QED BY <3>1
  <2>6. PICK j \in 0..3 : d = w + j
    <3>1. d - w \in 0..3 /\ d = w + (d - w)
      BY <2>2, <2>3 DEF Stretch
    <3> QED BY <3>1
  <2>7. PICK r \in regs : r[1] = i /\ r[3] = l
    BY DEF Registers
  <2> DEFINE t == TileTerm(h, k, w, r, j)
  <2>8. t \in T
    <3> HIDE DEF T
    <3> QED BY <1>00
  <2>9. Cell(t) = c
    BY <2>1, <2>4, <2>5, <2>6, <2>7 DEF Cell, TileTerm
  <2> QED BY <2>8, <2>9
<1> HIDE DEF T, C
<1>3. ASSUME NEW t \in T, NEW u \in T, Cell(t) = Cell(u) PROVE t[6] = u[6]
  <2>1. PICK v \in Tiles(width, 4) : t[5] \in Stretch(v, 4) /\ t[6] = <<"tile", h, k, v>>
    BY <1>1
  <2>2. PICK w \in Tiles(width, 4) : u[5] \in Stretch(w, 4) /\ u[6] = <<"tile", h, k, w>>
    BY <1>1
  <2>3. t[5] = u[5]
    BY <1>3 DEF Cell
  <2>4. v = w
    BY <1>0, <2>1, <2>2, <2>3 DEF Cuts
  <2> QED BY <2>1, <2>2, <2>4
<1>4. AddsEach(T, C)
  BY <1>1, <1>2, <1>3 DEF AddsEach
<1> QED BY <1>4 DEF T, C, J, Box

-----------------------------------------------------------------------------
(* Columns by four in registers and one by one.                            *)
Archs == {"armv8", "gcc", "armv7"}

LEMMA RegSizes ==
  ASSUME NEW arch \in Archs
  PROVE  RegK(arch) \in Pos /\ RegHeight(arch) \in Pos
BY DEF RegK, RegHeight, Pos

LEMMA ColumnsEach ==
  ASSUME NEW arch \in Archs, NEW regs, NEW rows \in Nat, Registers(regs, rows, RegK(arch)),
         NEW h \in Nat, NEW k \in Nat, NEW width \in Nat
  PROVE  AddsEach(Columns(arch, regs, h, k, rows, width),
                  Box(Stretch(h, rows), Stretch(k, RegK(arch)), 0..(width - 1)))
<1> DEFINE w == Whole(width, 4)
           I == Stretch(h, rows)  L == Stretch(k, RegK(arch))
<1>1. w \in Nat /\ width - w \in Nat /\ w <= width
  <2>1. 4 \in Pos
    BY DEF Pos
  <2>2. w \in Nat /\ w <= width
    BY <2>1, TilesCut
  <2> HIDE DEF w
  <2> QED BY <2>2
<1>2. RegK(arch) \in Nat
  BY RegSizes DEF Pos
<1>3. AddsEach(RegisterTiles(regs, h, k, width), Box(I, L, 0..(w - 1)))
  BY <1>2, RegistersEach
<1>4. Columns(arch, regs, h, k, rows, width)
        = RegisterTiles(regs, h, k, width) \cup GemmBlock(h, k, w, rows, RegK(arch), width - w)
  BY DEF Columns, Whole
<1> HIDE DEF w
<1>5. AddsEach(GemmBlock(h, k, w, rows, RegK(arch), width - w), Box(I, L, Stretch(w, width - w)))
  BY <1>1, <1>2, BlockEach
<1> HIDE DEF I, L
<1>6. Halved(0..(width - 1), 0..(w - 1), Stretch(w, width - w))
  BY <1>1, Interval2
<1>7. AddsEach(Columns(arch, regs, h, k, rows, width), Box(I, L, 0..(width - 1)))
  BY <1>3, <1>4, <1>5, <1>6, ByColumns
<1> QED BY <1>7 DEF I, L

(* The union of a grid's tiles.                                            *)
LEMMA GridUnion ==
  ASSUME NEW R, NEW Q, NEW T, NEW S,
         \A t : t \in S <=> \E r \in R, q \in Q : t \in T[<<r, q>>]
  PROVE  S = All(T, R \X Q)
<1>1. ASSUME NEW t \in S PROVE t \in All(T, R \X Q)
  <2>1. PICK r \in R, q \in Q : t \in T[<<r, q>>]
    OBVIOUS
  <2>2. <<r, q>> \in R \X Q
    OBVIOUS
  <2> QED BY <2>1, <2>2 DEF All
<1>2. ASSUME NEW t \in All(T, R \X Q) PROVE t \in S
  <2>1. PICK p \in R \X Q : t \in T[p]
    BY DEF All
  <2>2. PICK r \in R, q \in Q : p = <<r, q>>
    OBVIOUS
  <2>3. t \in T[<<r, q>>]
    BY <2>1, <2>2
  <2> QED BY <2>3
<1> QED BY <1>1, <1>2

LEMMA FullRowsEach ==
  ASSUME NEW arch \in Archs, NEW height \in Nat, NEW K \in Nat, NEW width \in Nat
  PROVE  AddsEach(FullRows(arch, height, K, width),
                  Box(0..(Whole(height, RegHeight(arch)) - 1), 0..(K - 1), 0..(width - 1)))
<1> DEFINE rh == RegHeight(arch)  rk == RegK(arch)
           k0 == Whole(K, rk)
           R == Tiles(height, rh)  Q == Tiles(K, rk)
           H == 0..(Whole(height, rh) - 1)  J == 0..(width - 1)
           T == [p \in R \X Q |-> Columns(arch, FullTile(arch), p[1], p[2], rh, width)]
           B == [p \in R \X {k0} |-> GemmBlock(p[1], k0, 0, rh, K - k0, width)]
<1>1. rh \in Pos /\ rk \in Pos /\ rh \in Nat
  BY RegSizes DEF Pos
<1>2. Cuts(R, rh, H)
  BY <1>1, TilesCut
<1>3. Cuts(Q, rk, 0..(k0 - 1)) /\ k0 \in Nat /\ K - k0 \in Nat /\ k0 <= K
  <2>1. Cuts(Q, rk, 0..(k0 - 1)) /\ k0 \in Nat /\ k0 <= K
    BY <1>1, TilesCut
  <2> HIDE DEF k0
  <2> QED BY <2>1
<1>4. Registers(FullTile(arch), rh, rk)
  BY FullTileRight DEF Archs
<1>5. FullRows(arch, height, K, width) = All(T, R \X Q) \cup All(B, R \X {k0})
  <2> DEFINE U1 == UNION {Columns(arch, FullTile(arch), h, k, rh, width) : h \in R, k \in Q}
             U2 == UNION {GemmBlock(h, k0, 0, rh, K - k0, width) : h \in R}
  <2>1. FullRows(arch, height, K, width) = U1 \cup U2
    BY DEF FullRows, Whole
  <2> HIDE DEF R, Q, rh, k0
  <2>2. \A r \in R, q \in Q : T[<<r, q>>] = Columns(arch, FullTile(arch), r, q, rh, width)
    OBVIOUS
  <2>3. \A t : t \in U1 <=> \E r \in R, q \in Q : t \in Columns(arch, FullTile(arch), r, q, rh, width)
    OBVIOUS
  <2>4. \A r \in R, q \in {k0} : B[<<r, q>>] = GemmBlock(r, k0, 0, rh, K - k0, width)
    OBVIOUS
  <2>5. \A t : t \in U2 <=> \E r \in R : t \in GemmBlock(r, k0, 0, rh, K - k0, width)
    OBVIOUS
  <2> HIDE DEF T, B, U1, U2
  <2>6. \A t : t \in U1 <=> \E r \in R, q \in Q : t \in T[<<r, q>>]
    BY <2>2, <2>3
  <2>7. \A t : t \in U2 <=> \E r \in R, q \in {k0} : t \in B[<<r, q>>]
    BY <2>4, <2>5
  <2>8. U1 = All(T, R \X Q)
    BY <2>6, GridUnion
  <2>9. U2 = All(B, R \X {k0})
    BY <2>7, GridUnion
  <2> QED BY <2>1, <2>8, <2>9
<1> HIDE DEF R, Q, H, J, k0, rh, rk
<1>6. AddsEach(All(T, R \X Q), Box(H, 0..(k0 - 1), J))
  <2>1. ASSUME NEW r \in R, NEW q \in Q
        PROVE  AddsEach(T[<<r, q>>], Box(Stretch(r, rh), Stretch(q, rk), J))
    <3>1. r \in Nat /\ q \in Nat
      BY <1>2, <1>3 DEF Cuts
    <3>2. AddsEach(Columns(arch, FullTile(arch), r, q, rh, width), Box(Stretch(r, rh), Stretch(q, rk), J))
      BY <1>1, <1>4, <3>1, ColumnsEach DEF rk, J
    <3> QED BY <3>2
  <2> HIDE DEF T
  <2>2. TilesEach(T, R, Q, rh, rk, J)
    BY <2>1 DEF TilesEach
  <2> QED BY <1>2, <1>3, <2>2, GridEach
<1>7. AddsEach(All(B, R \X {k0}), Box(H, Stretch(k0, K - k0), J))
  <2>1. Cuts({k0}, K - k0, Stretch(k0, K - k0))
    BY <1>3 DEF Cuts
  <2>2. ASSUME NEW r \in R, NEW q \in {k0}
        PROVE  AddsEach(B[<<r, q>>], Box(Stretch(r, rh), Stretch(q, K - k0), J))
    <3>1. r \in Nat
      BY <1>2 DEF Cuts
    <3>2. AddsEach(GemmBlock(r, k0, 0, rh, K - k0, width), Box(Stretch(r, rh), Stretch(k0, K - k0), Stretch(0, width)))
      BY <1>1, <1>3, <3>1, BlockEach
    <3>3. Stretch(0, width) = J
      BY Interval1 DEF J
    <3> QED BY <3>2, <3>3
  <2> HIDE DEF B
  <2>3. TilesEach(B, R, {k0}, rh, K - k0, J)
    BY <2>2 DEF TilesEach
  <2> QED BY <1>2, <2>1, <2>3, GridEach
<1>8. Halved(0..(K - 1), 0..(k0 - 1), Stretch(k0, K - k0))
  BY <1>3, Interval2
<1> HIDE DEF T, B
<1>9. AddsEach(FullRows(arch, height, K, width), Box(H, 0..(K - 1), J))
  <2> DEFINE D == 0..(K - 1)  D1 == 0..(k0 - 1)  D2 == Stretch(k0, K - k0)
  <2>1. AddsEach(All(T, R \X Q), Box(H, D1, J)) /\ AddsEach(All(B, R \X {k0}), Box(H, D2, J)) /\ Halved(D, D1, D2)
    BY <1>6, <1>7, <1>8
  <2> HIDE DEF D, D1, D2
  <2>2. AddsEach(All(T, R \X Q) \cup All(B, R \X {k0}), Box(H, D, J))
    BY <2>1, ByDepth
  <2>3. AddsEach(FullRows(arch, height, K, width), Box(H, D, J))
    BY <1>5, <2>2
  <2> QED BY <2>3 DEF D
<1> QED BY <1>9 DEF H, J, rh

(* The tiles before the start of the last.                                 *)
LEMMA EarlierTiles ==
  ASSUME NEW n \in Pos, NEW size \in Nat, NEW q \in Nat, q * n <= size
  PROVE  Cuts({i \in Tiles(size, n) : i < q * n}, n, 0..(q * n - 1))
<1> DEFINE m == q * n
           Q == {i \in Tiles(size, n) : i < m}
<1>1. m \in Nat /\ n \in Nat
  BY DEF Pos
<1>2. Whole(m, n) = m
  <2>1. 0 \in 0..(n - 1)
    BY DEF Pos
  <2>2. (q * n + 0) \div n = q
    BY <2>1, Parted
  <2>3. q * n + 0 = q * n /\ n * q = q * n
    BY <1>1
  <2> QED BY <2>2, <2>3 DEF Whole
<1>3. Cuts(Tiles(m, n), n, 0..(Whole(m, n) - 1))
  <2> HIDE DEF m
  <2> QED BY <1>1, TilesCut
<1>4. ASSUME NEW i \in Q PROVE i \in Tiles(m, n)
  <2>1. PICK r \in Nat : i = r * n
    BY TileStart
  <2>2. i \in Nat /\ i % n = 0 /\ i < m
    BY DEF Tiles
  <2>3. r + 1 <= q
    <3>1. ASSUME q <= r PROVE FALSE
      <4>1. q * n <= r * n
        BY <1>1, <3>1, Monotone
      <4> HIDE DEF Q
      <4> QED BY <1>1, <2>1, <2>2, <4>1
    <3> QED BY <3>1
  <2>4. (r + 1) * n <= q * n
    BY <1>1, <2>3, Monotone
  <2>5. (r + 1) * n = r * n + n
    BY <1>1
  <2>6. i + n <= m
    BY <1>1, <2>1, <2>4, <2>5
  <2> HIDE DEF m, Q
  <2> QED BY <1>1, <2>2, <2>6 DEF Tiles, Pos
<1>5. ASSUME NEW i \in Tiles(m, n) PROVE i \in Q
  <2>1. m <= size
    OBVIOUS
  <2> HIDE DEF m
  <2> QED BY <1>1, <2>1 DEF Tiles, Pos
<1>6. Q = Tiles(m, n)
  BY <1>4, <1>5
<1> HIDE DEF m, Q
<1>7. Cuts(Q, n, 0..(m - 1))
  BY <1>2, <1>3, <1>6
<1> QED BY <1>7 DEF m, Q

LEMMA RemainingRowsEach ==
  ASSUME NEW arch \in Archs, NEW height \in Nat, NEW K \in Pos, NEW width \in Nat
  PROVE  LET h == Whole(height, RegHeight(arch)) IN
         AddsEach(RemainingRows(arch, height, K, width),
                  Box(Stretch(h, height - h), 0..(K - 1), 0..(width - 1)))
<1> DEFINE rh == RegHeight(arch)  rk == RegK(arch)
           h == Whole(height, rh)  rows == height - h
           k0 == Whole(K - 1, rk)
           Q == {i \in Tiles(K, rk) : i < k0}
           J == 0..(width - 1)  H == Stretch(h, rows)
           T == [p \in {h} \X Q |-> Columns(arch, PartialTile(arch, rows), h, p[2], rows, width)]
<1>1. rh \in Pos /\ rk \in Pos /\ rk \in Nat
  BY RegSizes DEF Pos
<1>2. h \in Nat /\ rows \in 0..(rh - 1) /\ Cuts({h}, rows, H)
  <2>1. h \in Nat /\ h <= height /\ height - h \in 0..(rh - 1)
    BY <1>1, TilesCut
  <2> HIDE DEF h
  <2> QED BY <2>1 DEF Cuts
<1>3. CASE h = height
  <2>1. RemainingRows(arch, height, K, width) = {}
    BY <1>3 DEF RemainingRows, Whole
  <2> HIDE DEF h
  <2>2. H = {}
    BY <1>2, <1>3 DEF Stretch
  <2> HIDE DEF H, J
  <2>3. AddsEach({}, Box({}, 0..(K - 1), J))
    BY DEF AddsEach, Box
  <2>4. AddsEach(RemainingRows(arch, height, K, width), Box(H, 0..(K - 1), J))
    BY <2>1, <2>2, <2>3
  <2> QED BY <2>4 DEF H, J, h
<1>4. CASE h # height
  <2>1. K - 1 \in Nat
    BY DEF Pos
  <2>2. Cuts(Q, rk, 0..(k0 - 1)) /\ k0 \in Nat /\ k0 <= K /\ K - k0 \in Nat /\ K \in Nat
    <3>1. k0 \in Nat /\ k0 <= K - 1
      BY <1>1, <2>1, TilesCut
    <3>2. PICK q \in Nat : k0 = q * rk
      <4>1. (K - 1) \div rk \in Nat
        BY <1>1, <2>1, Division
      <4>2. k0 = ((K - 1) \div rk) * rk
        <5> HIDE DEF rk
        <5> QED BY <1>1, <4>1 DEF Whole
      <4> QED BY <4>1, <4>2
    <3> HIDE DEF k0, rk
    <3>3. K \in Nat /\ k0 <= K /\ K - k0 \in Nat
      BY <3>1 DEF Pos
    <3>4. Cuts(Q, rk, 0..(k0 - 1))
      BY <1>1, <3>2, <3>3, EarlierTiles
    <3> QED BY <3>1, <3>3, <3>4
  <2>3. rows \in 1..rh /\ rows \in Nat
    <3> HIDE DEF h, rh
    <3> QED BY <1>1, <1>2, <1>4 DEF Pos
  <2>4. Registers(PartialTile(arch, rows), rows, rk)
    BY <2>3, PartialTileRight DEF Archs
  <2>5. RemainingRows(arch, height, K, width)
          = All(T, {h} \X Q) \cup GemmBlock(h, k0, 0, rows, K - k0, width)
    <3>1. RemainingRows(arch, height, K, width)
            = (UNION {Columns(arch, PartialTile(arch, rows), h, k, rows, width) : k \in Q})
                \cup GemmBlock(h, k0, 0, rows, K - k0, width)
      BY <1>4, Zenon DEF RemainingRows, Whole
    <3> HIDE DEF Q, h, rows, k0
    <3> DEFINE S == UNION {Columns(arch, PartialTile(arch, rows), h, k, rows, width) : k \in Q}
    <3>2. \A r \in {h}, q \in Q : T[<<r, q>>] = Columns(arch, PartialTile(arch, rows), h, q, rows, width)
      OBVIOUS
    <3>3. \A t : t \in S <=> \E q \in Q : t \in Columns(arch, PartialTile(arch, rows), h, q, rows, width)
      OBVIOUS
    <3> HIDE DEF T, S
    <3>5. \A t : t \in S <=> \E r \in {h}, q \in Q : t \in T[<<r, q>>]
      BY <3>2, <3>3
    <3>6. S = All(T, {h} \X Q)
      BY <3>5, GridUnion
    <3>4. UNION {Columns(arch, PartialTile(arch, rows), h, k, rows, width) : k \in Q} = All(T, {h} \X Q)
      BY <3>6 DEF S
    <3> QED BY <3>1, <3>4, Zenon
  <2> HIDE DEF rows, Q, H, J, k0, rh, rk, h
  <2>6. AddsEach(All(T, {h} \X Q), Box(H, 0..(k0 - 1), J))
    <3>1. ASSUME NEW r \in {h}, NEW q \in Q
          PROVE  AddsEach(T[<<r, q>>], Box(Stretch(r, rows), Stretch(q, rk), J))
      <4>1. q \in Nat
        BY <2>2 DEF Cuts
      <4>2. AddsEach(Columns(arch, PartialTile(arch, rows), h, q, rows, width), Box(Stretch(h, rows), Stretch(q, rk), J))
        BY <1>2, <2>3, <2>4, <4>1, ColumnsEach DEF rk, J
      <4> QED BY <4>2
    <3> HIDE DEF T
    <3>2. TilesEach(T, {h}, Q, rows, rk, J)
      BY <3>1 DEF TilesEach
    <3> QED BY <1>2, <2>2, <3>2, GridEach
  <2>7. AddsEach(GemmBlock(h, k0, 0, rows, K - k0, width), Box(H, Stretch(k0, K - k0), J))
    <3>1. AddsEach(GemmBlock(h, k0, 0, rows, K - k0, width), Box(Stretch(h, rows), Stretch(k0, K - k0), Stretch(0, width)))
      BY <1>2, <2>2, <2>3, BlockEach
    <3>2. Stretch(0, width) = J
      BY Interval1 DEF J
    <3> QED BY <3>1, <3>2 DEF H
  <2>8. Halved(0..(K - 1), 0..(k0 - 1), Stretch(k0, K - k0))
    BY <2>2, Interval2
  <2> HIDE DEF T
  <2>9. AddsEach(RemainingRows(arch, height, K, width), Box(H, 0..(K - 1), J))
    <3> DEFINE D == 0..(K - 1)  D1 == 0..(k0 - 1)  D2 == Stretch(k0, K - k0)
    <3>1. AddsEach(All(T, {h} \X Q), Box(H, D1, J)) /\ AddsEach(GemmBlock(h, k0, 0, rows, K - k0, width), Box(H, D2, J)) /\ Halved(D, D1, D2)
      BY <2>6, <2>7, <2>8
    <3> HIDE DEF D, D1, D2
    <3>2. AddsEach(All(T, {h} \X Q) \cup GemmBlock(h, k0, 0, rows, K - k0, width), Box(H, D, J))
      BY <3>1, ByDepth
    <3>3. AddsEach(RemainingRows(arch, height, K, width), Box(H, D, J))
      BY <2>5, <3>2
    <3> QED BY <3>3 DEF D
  <2> QED BY <2>9 DEF H, J, rh, h, rows
<1> QED BY <1>3, <1>4

(* Every product of a block once.                                          *)
LEMMA TileEach ==
  ASSUME NEW arch \in Arch, NEW height \in Nat, NEW K \in Pos, NEW width \in Nat
  PROVE  AddsEach(GemmTile(arch, height, K, width),
                  Box(0..(height - 1), 0..(K - 1), 0..(width - 1)))
<1>0. K \in Nat
  BY DEF Pos
<1>1. CASE arch = "cpu"
  <2>1. AddsEach(GemmBlock(0, 0, 0, height, K, width), Box(Stretch(0, height), Stretch(0, K), Stretch(0, width)))
    BY <1>0, BlockEach
  <2>2. Stretch(0, height) = 0..(height - 1) /\ Stretch(0, K) = 0..(K - 1) /\ Stretch(0, width) = 0..(width - 1)
    BY <1>0, Interval1
  <2> QED BY <1>1, <2>1, <2>2 DEF GemmTile
<1>2. CASE arch # "cpu"
  <2> DEFINE h == Whole(height, RegHeight(arch))
  <2>1. arch \in Archs
    BY <1>2 DEF Archs, Arch
  <2>2. AddsEach(FullRows(arch, height, K, width), Box(0..(h - 1), 0..(K - 1), 0..(width - 1)))
    BY <1>0, <2>1, FullRowsEach
  <2>3. AddsEach(RemainingRows(arch, height, K, width), Box(Stretch(h, height - h), 0..(K - 1), 0..(width - 1)))
    BY <2>1, RemainingRowsEach
  <2>4. h \in Nat /\ h <= height
    BY <2>1, RegSizes, TilesCut
  <2>5. GemmTile(arch, height, K, width) = FullRows(arch, height, K, width) \cup RemainingRows(arch, height, K, width)
    BY <1>2 DEF GemmTile
  <2> HIDE DEF h
  <2>6. Halved(0..(height - 1), 0..(h - 1), Stretch(h, height - h))
    BY <2>4, Interval2
  <2> QED BY <2>2, <2>3, <2>5, <2>6, ByRows
<1> QED BY <1>1, <1>2

-----------------------------------------------------------------------------
(* The product of index x = <<n, row, depth, column>>, by its positions.   *)
InC(height, width, n, i, j) == (n * height + i) * width + j
InA(height, K, trans, n, i, k) == n * height * K + (IF trans THEN k * height + i ELSE i * K + k)
InB(K, width, trans, n, k, j) == n * K * width + (IF trans THEN j * K + k ELSE k * width + j)

Spot(d, x) == <<InC(d.height, d.width, x[1], x[2], x[4]),
                InA(d.height, d.K, d.transA, x[1], x[2], x[3]),
                InB(d.K, d.width, d.transB, x[1], x[3], x[4])>>

Indices4(d) == (0..(d.batch - 1)) \X (0..(d.height - 1)) \X (0..(d.K - 1)) \X (0..(d.width - 1))

HasSizes(d) == d.batch \in Nat /\ d.height \in Pos /\ d.K \in Pos /\ d.width \in Pos

LEMMA CDiffers ==
  ASSUME NEW height \in Pos, NEW width \in Pos, NEW n \in Nat, NEW m \in Nat,
         NEW i \in 0..(height - 1), NEW r \in 0..(height - 1),
         NEW j \in 0..(width - 1), NEW s \in 0..(width - 1),
         InC(height, width, n, i, j) = InC(height, width, m, r, s)
  PROVE  n = m /\ i = r /\ j = s
<1>1. n * height + i \in Nat /\ m * height + r \in Nat
  <2>1. n * height \in Nat /\ m * height \in Nat
    BY DEF Pos
  <2> QED BY <2>1 DEF Pos
<1>2. n * height + i = m * height + r /\ j = s
  BY <1>1, Digits DEF InC
<1> QED BY <1>2, Digits

LEMMA ADiffers ==
  ASSUME NEW height \in Pos, NEW K \in Pos, NEW n \in Nat, NEW i \in 0..(height - 1),
         NEW k \in 0..(K - 1), NEW l \in 0..(K - 1), NEW trans,
         InA(height, K, trans, n, i, k) = InA(height, K, trans, n, i, l)
  PROVE  k = l
<1>1. k \in Nat /\ l \in Nat /\ i \in Nat /\ height \in Nat /\ K \in Nat
  BY DEF Pos
<1>2. n * height * K \in Nat /\ k * height \in Nat /\ l * height \in Nat /\ i * K \in Nat
  BY <1>1
<1>3. CASE trans
  <2>1. k * height + i = l * height + i
    BY <1>1, <1>2, <1>3 DEF InA
  <2> QED BY <1>1, <2>1, Digits
<1>4. CASE ~trans
  <2>1. i * K + k = i * K + l
    BY <1>1, <1>2, <1>4 DEF InA
  <2> QED BY <1>1, <1>2, <2>1
<1> QED BY <1>3, <1>4

LEMMA SpotsDiffer ==
  ASSUME NEW d, HasSizes(d), NEW x \in Indices4(d), NEW y \in Indices4(d), Spot(d, x) = Spot(d, y)
  PROVE  x = y
<1>1. PICK n \in 0..(d.batch - 1), i \in 0..(d.height - 1), k \in 0..(d.K - 1), j \in 0..(d.width - 1) :
        x = <<n, i, k, j>>
  BY DEF Indices4
<1>2. PICK m \in 0..(d.batch - 1), r \in 0..(d.height - 1), l \in 0..(d.K - 1), s \in 0..(d.width - 1) :
        y = <<m, r, l, s>>
  BY DEF Indices4
<1>3. /\ InC(d.height, d.width, n, i, j) = InC(d.height, d.width, m, r, s)
      /\ InA(d.height, d.K, d.transA, n, i, k) = InA(d.height, d.K, d.transA, m, r, l)
  BY <1>1, <1>2 DEF Spot
<1>4. n \in Nat /\ m \in Nat /\ d.height \in Pos /\ d.width \in Pos /\ d.K \in Pos
  BY DEF HasSizes
<1>5. n = m /\ i = r /\ j = s
  BY <1>3, <1>4, CDiffers
<1>6. k = l
  BY <1>3, <1>4, <1>5, ADiffers
<1> QED BY <1>1, <1>2, <1>5, <1>6

(* Terms that are the products of a set of indices, each once.             *)
Places(T, d, S) ==
  /\ \A t \in T : \E x \in S : Product(t) = Spot(d, x)
  /\ \A x \in S : \E t \in T : Product(t) = Spot(d, x)
  /\ \A t, u \in T : Product(t) = Product(u) => t = u

LEMMA PlacesUnion ==
  ASSUME NEW d, HasSizes(d), NEW P, NEW T, NEW C,
         \A p \in P : Places(T[p], d, C[p]) /\ C[p] \subseteq Indices4(d),
         \A p, q \in P : p # q => C[p] \cap C[q] = {}
  PROVE  Places(All(T, P), d, All(C, P))
<1>1. ASSUME NEW t \in All(T, P), NEW u \in All(T, P), Product(t) = Product(u) PROVE t = u
  <2>1. PICK p \in P : t \in T[p]
    BY DEF All
  <2>2. PICK q \in P : u \in T[q]
    BY DEF All
  <2>3. PICK x \in C[p] : Product(t) = Spot(d, x)
    BY <2>1 DEF Places
  <2>4. PICK y \in C[q] : Product(u) = Spot(d, y)
    BY <2>2 DEF Places
  <2>5. x = y
    <3>1. x \in Indices4(d) /\ y \in Indices4(d) /\ Spot(d, x) = Spot(d, y)
      BY <1>1, <2>3, <2>4
    <3> QED BY <3>1, SpotsDiffer
  <2>6. p = q
    BY <2>5
  <2> QED BY <1>1, <2>1, <2>2, <2>6 DEF Places
<1>2. ASSUME NEW t \in All(T, P) PROVE \E x \in All(C, P) : Product(t) = Spot(d, x)
  <2>1. PICK p \in P : t \in T[p]
    BY DEF All
  <2>2. PICK x \in C[p] : Product(t) = Spot(d, x)
    BY <2>1 DEF Places
  <2> QED BY <2>2 DEF All
<1>3. ASSUME NEW x \in All(C, P) PROVE \E t \in All(T, P) : Product(t) = Spot(d, x)
  <2>1. PICK p \in P : x \in C[p]
    BY DEF All
  <2>2. PICK t \in T[p] : Product(t) = Spot(d, x)
    BY <2>1 DEF Places
  <2> QED BY <2>2 DEF All
<1> QED BY <1>1, <1>2, <1>3 DEF Places

LEMMA PlacesOnce ==
  ASSUME NEW d, NEW T, Places(T, d, Indices4(d))
  PROVE  Once(T, {Spot(d, x) : x \in Indices4(d)})
<1>1. Products(T) = {Product(t) : t \in T}
  BY DEF Products, Product
<1>2. {Product(t) : t \in T} = {Spot(d, x) : x \in Indices4(d)}
  BY DEF Places
<1> QED BY <1>1, <1>2 DEF Once, Places

LEMMA SpotsFinite ==
  ASSUME NEW d, HasSizes(d)
  PROVE  IsFiniteSet({Spot(d, x) : x \in Indices4(d)})
<1> DEFINE A == 0..(d.batch - 1)  B == 0..(d.height - 1)  C == 0..(d.K - 1)  D == 0..(d.width - 1)
           S == (A \X B) \X (C \X D)
           T == {Spot(d, x) : x \in Indices4(d)}
           f == [p \in S |-> Spot(d, <<p[1][1], p[1][2], p[2][1], p[2][2]>>)]
<1>1. IsFiniteSet(A) /\ IsFiniteSet(B) /\ IsFiniteSet(C) /\ IsFiniteSet(D)
  <2>1. \A a \in Int : IsFiniteSet(0..a)
    BY FS_Interval
  <2>2. d.batch - 1 \in Int /\ d.height - 1 \in Int /\ d.K - 1 \in Int /\ d.width - 1 \in Int
    BY DEF HasSizes, Pos
  <2> QED BY <2>1, <2>2
<1> HIDE DEF A, B, C, D
<1>2. IsFiniteSet(S)
  <2>1. IsFiniteSet(A \X B) /\ IsFiniteSet(C \X D)
    BY <1>1, FS_Product
  <2> QED BY <2>1, FS_Product
<1>3. Indices4(d) = A \X B \X C \X D
  BY DEF Indices4, A, B, C, D
<1>4. ASSUME NEW p \in S PROVE f[p] \in T
  <2>1. <<p[1][1], p[1][2], p[2][1], p[2][2]>> \in Indices4(d)
    BY <1>3
  <2> QED BY <2>1
<1>5. ASSUME NEW t \in T PROVE \E p \in S : f[p] = t
  <2>1. PICK x \in Indices4(d) : t = Spot(d, x)
    OBVIOUS
  <2>2. PICK a \in A, b \in B, c \in C, e \in D : x = <<a, b, c, e>>
    BY <1>3
  <2>3. <<<<a, b>>, <<c, e>>>> \in S /\ f[<<<<a, b>>, <<c, e>>>>] = Spot(d, <<a, b, c, e>>)
    OBVIOUS
  <2> QED BY <2>1, <2>2, <2>3
<1>6. f \in [S -> T]
  BY <1>4
<1> HIDE DEF f, S, T
<1>7. Onto(f, S, T)
  BY <1>5 DEF Onto
<1>8. IsFiniteSet(T)
  BY <1>2, <1>6, <1>7, ImageFinite
<1> QED BY <1>8 DEF T

LEMMA PlacesAddUp ==
  ASSUME NEW d, HasSizes(d), NEW T, Places(T, d, Indices4(d))
  PROVE  AddsUp(T, {Spot(d, x) : x \in Indices4(d)})
BY PlacesOnce, SpotsFinite, OnceAddsUp

-----------------------------------------------------------------------------
(* The blocks of a size.                                                   *)
LEMMA IntervalsCut ==
  ASSUME NEW size \in Pos
  PROVE  /\ \A b \in BlocksOf(size) :
              /\ Interval(b, size).begin \in Nat /\ Interval(b, size).size \in Pos
              /\ Stretch(Interval(b, size).begin, Interval(b, size).size) \subseteq 0..(size - 1)
         /\ \A x \in 0..(size - 1) : \E b \in BlocksOf(size) :
              x \in Stretch(Interval(b, size).begin, Interval(b, size).size)
         /\ \A b, c \in BlocksOf(size) : b # c =>
              Stretch(Interval(b, size).begin, Interval(b, size).size)
                \cap Stretch(Interval(c, size).begin, Interval(c, size).size) = {}
<1> DEFINE B == GemmBlockSize  len(b) == Interval(b, size).size
<1>1. B \in Pos /\ B \in Nat
  BY GemmAssumption DEF Pos
<1>2. PICK k \in Pos : k = RoundUpDiv(size, B) /\ size <= k * B /\ (k - 1) * B < size /\ size - (k - 1) * B <= B
  BY <1>1, Blocks
<1>3. BlocksOf(size) = 0..(k - 1) /\ k - 1 \in Nat /\ k \in Nat /\ size \in Nat
  BY <1>2 DEF BlocksOf, Pos
<1>4. PICK q \in Nat : k = q + 1 /\ k - 1 = q
  BY <1>3
<1>5. q * B \in Nat /\ k * B = q * B + B
  BY <1>1, <1>4
<1>6. PICK r \in Int : r = size - q * B /\ 0 < r /\ r <= B /\ size = q * B + r
  BY <1>2, <1>3, <1>4, <1>5
<1>7. /\ size % B > 0 => size % B = r
      /\ ~(size % B > 0) => r = B
  <2>1. CASE r < B
    <3>1. r \in 0..(B - 1)
      BY <1>1, <1>6, <2>1
    <3>2. (q * B + r) % B = r
      BY <1>1, <3>1, Parted
    <3> HIDE DEF B
    <3> QED BY <1>6, <3>2
  <2>2. CASE r = B
    <3>1. size = k * B
      BY <1>5, <1>6, <2>2
    <3>2. (k * B) % B = 0
      BY <1>1, <1>3, Multiples
    <3> HIDE DEF B
    <3> QED BY <2>2, <3>1, <3>2
  <2> QED BY <1>1, <1>6, <2>1, <2>2
<1> HIDE DEF B
<1>8. ASSUME NEW b \in BlocksOf(size)
      PROVE  /\ b \in Nat /\ b * B \in Nat /\ Interval(b, size).begin = b * B
             /\ len(b) \in Pos /\ len(b) <= B /\ b * B + len(b) <= size
             /\ b # q => len(b) = B
             /\ b = q => len(b) = r
  <2>1. b \in Nat /\ b <= q
    BY <1>3, <1>4
  <2>2. b * B \in Nat /\ Interval(b, size).begin = b * B
    BY <1>1, <2>1 DEF Interval, B
  <2>3. b = q => len(b) = r
    <3>1. len(b) = IF b = RoundUpDiv(size, B) - 1 /\ size % B > 0 THEN size % B ELSE B
      BY DEF Interval, B
    <3> QED BY <1>2, <1>4, <1>7, <3>1
  <2>4. b # q => len(b) = B /\ b * B + B <= size
    <3>1. len(b) = IF b = RoundUpDiv(size, B) - 1 /\ size % B > 0 THEN size % B ELSE B
      BY DEF Interval, B
    <3>2. ASSUME b # q PROVE len(b) = B
      BY <1>2, <1>4, <3>1, <3>2
    <3>3. ASSUME b # q PROVE b * B + B <= size
      <4>1. b + 1 <= q
        BY <2>1, <3>3
      <4>2. (b + 1) * B <= q * B
        BY <1>1, <2>1, <4>1, Monotone
      <4>3. (b + 1) * B = b * B + B
        BY <1>1, <2>1
      <4> QED BY <1>1, <1>5, <1>6, <2>2, <4>2, <4>3
    <3> QED BY <3>2, <3>3
  <2> HIDE DEF len
  <2>5. CASE b = q
    BY <1>1, <1>5, <1>6, <2>1, <2>2, <2>3, <2>5 DEF Pos
  <2>6. CASE b # q
    BY <1>1, <2>1, <2>2, <2>4, <2>6
  <2> QED BY <2>5, <2>6
<1> HIDE DEF len
<1>9. \A b \in BlocksOf(size) :
        /\ Interval(b, size).begin \in Nat /\ len(b) \in Pos
        /\ Stretch(Interval(b, size).begin, len(b)) \subseteq 0..(size - 1)
  <2> TAKE b \in BlocksOf(size)
  <2>1. /\ b * B \in Nat /\ Interval(b, size).begin = b * B
        /\ len(b) \in Pos /\ b * B + len(b) <= size
    BY <1>8
  <2> QED BY <1>3, <2>1 DEF Stretch, Pos
<1>10. \A x \in 0..(size - 1) : \E b \in BlocksOf(size) : x \in Stretch(Interval(b, size).begin, len(b))
  <2> SUFFICES ASSUME NEW x \in 0..(size - 1)
               PROVE  \E b \in BlocksOf(size) : x \in Stretch(Interval(b, size).begin, len(b))
    OBVIOUS
  <2>1. x \in Nat /\ x < size
    BY <1>3
  <2>2. PICK b \in Nat : b * B <= x /\ x < b * B + B
    <3>1. x \div B \in Nat /\ (x \div B) * B <= x /\ x < (x \div B) * B + B
      BY <1>1, <2>1, Division
    <3> QED BY <3>1
  <2>3. b <= q
    <3>1. ASSUME q < b PROVE FALSE
      <4>1. q + 1 <= b
        BY <3>1
      <4>2. k * B <= b * B /\ b * B \in Nat
        BY <1>1, <1>3, <1>4, <4>1, Monotone
      <4> QED BY <1>1, <1>2, <1>3, <1>5, <2>1, <2>2, <4>2
    <3> QED BY <3>1
  <2>4. b \in BlocksOf(size)
    BY <1>3, <1>4, <2>3
  <2>5. x \in Stretch(Interval(b, size).begin, len(b))
    <3>1. b * B \in Nat /\ Interval(b, size).begin = b * B /\ len(b) \in Pos
      BY <1>8, <2>4
    <3>2. x < b * B + len(b)
      <4>1. CASE b = q
        <5>1. len(b) = r
          BY <1>8, <2>4, <4>1
        <5> QED BY <1>6, <2>1, <4>1, <5>1
      <4>2. CASE b # q
        <5>1. len(b) = B
          BY <1>8, <2>4, <4>2
        <5> QED BY <2>2, <5>1
      <4> QED BY <4>1, <4>2
    <3> QED BY <2>1, <2>2, <3>1, <3>2 DEF Stretch, Pos
  <2> QED BY <2>4, <2>5
<1>11. \A b, c \in BlocksOf(size) : b # c =>
         Stretch(Interval(b, size).begin, len(b)) \cap Stretch(Interval(c, size).begin, len(c)) = {}
  <2> SUFFICES ASSUME NEW b \in BlocksOf(size), NEW c \in BlocksOf(size),
                      NEW x, x \in Stretch(Interval(b, size).begin, len(b)),
                      x \in Stretch(Interval(c, size).begin, len(c))
               PROVE  b = c
    OBVIOUS
  <2>1. /\ b \in Nat /\ b * B \in Nat /\ Interval(b, size).begin = b * B /\ len(b) \in Pos /\ len(b) <= B
        /\ c \in Nat /\ c * B \in Nat /\ Interval(c, size).begin = c * B /\ len(c) \in Pos /\ len(c) <= B
    BY <1>8
  <2>2. x \in Nat /\ b * B <= x /\ x < b * B + B /\ c * B <= x /\ x < c * B + B
    BY <1>1, <2>1 DEF Stretch, Pos
  <2> QED BY <1>1, <2>1, <2>2, OneBlock
<1> QED BY <1>9, <1>10, <1>11 DEF len

-----------------------------------------------------------------------------
(* What a block adds is at the positions of its products.                  *)
BlockC(d, n, ih, iw, i, j) == n * d.height * d.width + (ih.begin + i) * d.width + iw.begin + j
BlockA(d, n, ih, ik, i, k) ==
  n * d.height * d.K +
  IF d.transA THEN ik.begin * d.height + ih.begin + Transposed(i * ik.size + k, ik.size, d.height)
  ELSE (ih.begin + i) * d.K + ik.begin + k
BlockB(d, n, ik, iw, k, j) ==
  n * d.K * d.width +
  IF d.transB THEN iw.begin * d.K + ik.begin + Transposed(k * iw.size + j, iw.size, d.K)
  ELSE (ik.begin + k) * d.width + iw.begin + j
BlockAt(d, n, ih, ik, iw, bk, t) ==
  <<BlockC(d, n, ih, iw, t[1], t[5]), BlockA(d, n, ih, ik, t[2], t[3]),
    BlockB(d, n, ik, iw, t[4], t[5]), t[6] \o <<bk>> >>

IsInterval(i) == i.begin \in Nat /\ i.size \in Pos

BlockOf(d, n, ih, ik, iw, c) == <<n, ih.begin + c[1], ik.begin + c[2], iw.begin + c[3]>>

LEMMA PlaceC ==
  ASSUME NEW d, HasSizes(d), NEW n \in Nat, NEW ih, NEW iw, IsInterval(ih), IsInterval(iw),
         NEW i \in Nat, NEW j \in Nat
  PROVE  BlockC(d, n, ih, iw, i, j) = InC(d.height, d.width, n, ih.begin + i, iw.begin + j)
<1> DEFINE h == d.height  w == d.width  y == ih.begin + i  x == iw.begin + j
<1>1. h \in Nat /\ w \in Nat /\ y \in Nat /\ ih.begin \in Nat /\ iw.begin \in Nat
  BY DEF HasSizes, Pos, IsInterval
<1>2. BlockC(d, n, ih, iw, i, j) = n * h * w + y * w + x
  <2>1. n * h * w \in Nat /\ y * w \in Nat
    BY <1>1
  <2>2. BlockC(d, n, ih, iw, i, j) = n * h * w + y * w + iw.begin + j
    BY DEF BlockC
  <2> HIDE DEF h, w, y
  <2> QED BY <1>1, <2>1, <2>2
<1> HIDE DEF h, w, x, y
<1>3. n * h \in Nat /\ n * h * w + y * w = (n * h + y) * w
  <2>1. n * h \in Nat
    BY <1>1
  <2> QED BY <1>1, <2>1
<1>4. InC(h, w, n, y, x) = (n * h + y) * w + x
  BY DEF InC
<1>5. BlockC(d, n, ih, iw, i, j) = InC(h, w, n, y, x)
  BY <1>2, <1>3, <1>4
<1> QED BY <1>5 DEF h, w, x, y

LEMMA PlaceA ==
  ASSUME NEW d, HasSizes(d), NEW n \in Nat, NEW ih, NEW ik, IsInterval(ih), IsInterval(ik),
         NEW i \in Nat, NEW k \in 0..(ik.size - 1)
  PROVE  BlockA(d, n, ih, ik, i, k) = InA(d.height, d.K, d.transA, n, ih.begin + i, ik.begin + k)
<1> DEFINE h == d.height  K == d.K  y == ih.begin + i  z == ik.begin + k  size == ik.size  N == n * h * K
           b == ih.begin  e == ik.begin
<1>1. h \in Nat /\ K \in Nat /\ b \in Nat /\ e \in Nat /\ size \in Pos /\ k \in Nat
  BY DEF HasSizes, Pos, IsInterval
<1>0. y = b + i /\ z = e + k
  OBVIOUS
<1>2. N \in Nat
  BY <1>1
<1>3. Transposed(i * size + k, size, h) = k * h + i
  <2>1. (i * size + k) \div size = i /\ (i * size + k) % size = k
    BY <1>1, Parted
  <2> HIDE DEF size, h
  <2> QED BY <2>1 DEF Transposed
<1>4. CASE d.transA
  <2>1. BlockA(d, n, ih, ik, i, k) = N + (e * h + b + (k * h + i))
    BY <1>3, <1>4 DEF BlockA
  <2>2. InA(h, K, d.transA, n, y, z) = N + (z * h + y)
    BY <1>4 DEF InA
  <2> HIDE DEF h, K, y, z, size, N, b, e
  <2>3. z * h = e * h + k * h /\ e * h \in Nat /\ k * h \in Nat
    BY <1>0, <1>1
  <2>4. BlockA(d, n, ih, ik, i, k) = InA(h, K, d.transA, n, y, z)
    BY <1>0, <1>1, <1>2, <2>1, <2>2, <2>3
  <2> QED BY <2>4 DEF h, K, y, z
<1>5. CASE ~d.transA
  <2>1. BlockA(d, n, ih, ik, i, k) = N + (y * K + e + k)
    BY <1>5 DEF BlockA
  <2>2. InA(h, K, d.transA, n, y, z) = N + (y * K + z)
    BY <1>5 DEF InA
  <2> HIDE DEF h, K, y, z, size, N, b, e
  <2>3. y * K \in Nat
    BY <1>0, <1>1
  <2>4. BlockA(d, n, ih, ik, i, k) = InA(h, K, d.transA, n, y, z)
    BY <1>0, <1>1, <1>2, <2>1, <2>2, <2>3
  <2> QED BY <2>4 DEF h, K, y, z
<1> QED BY <1>4, <1>5

LEMMA PlaceB ==
  ASSUME NEW d, HasSizes(d), NEW n \in Nat, NEW ik, NEW iw, IsInterval(ik), IsInterval(iw),
         NEW k \in Nat, NEW j \in 0..(iw.size - 1)
  PROVE  BlockB(d, n, ik, iw, k, j) = InB(d.K, d.width, d.transB, n, ik.begin + k, iw.begin + j)
<1> DEFINE w == d.width  K == d.K  x == iw.begin + j  z == ik.begin + k  size == iw.size  N == n * K * w
           b == ik.begin  e == iw.begin
<1>1. w \in Nat /\ K \in Nat /\ b \in Nat /\ e \in Nat /\ size \in Pos /\ j \in Nat
  BY DEF HasSizes, Pos, IsInterval
<1>0. z = b + k /\ x = e + j
  OBVIOUS
<1>2. N \in Nat
  BY <1>1
<1>3. Transposed(k * size + j, size, K) = j * K + k
  <2>1. (k * size + j) \div size = k /\ (k * size + j) % size = j
    BY <1>1, Parted
  <2> HIDE DEF size, K
  <2> QED BY <2>1 DEF Transposed
<1>4. CASE d.transB
  <2>1. BlockB(d, n, ik, iw, k, j) = N + (e * K + b + (j * K + k))
    BY <1>3, <1>4 DEF BlockB
  <2>2. InB(K, w, d.transB, n, z, x) = N + (x * K + z)
    BY <1>4 DEF InB
  <2> HIDE DEF w, K, x, z, size, N, b, e
  <2>3. x * K = e * K + j * K /\ e * K \in Nat /\ j * K \in Nat
    BY <1>0, <1>1
  <2>4. BlockB(d, n, ik, iw, k, j) = InB(K, w, d.transB, n, z, x)
    BY <1>0, <1>1, <1>2, <2>1, <2>2, <2>3
  <2> QED BY <2>4 DEF w, K, x, z
<1>5. CASE ~d.transB
  <2>1. BlockB(d, n, ik, iw, k, j) = N + (z * w + e + j)
    BY <1>5 DEF BlockB
  <2>2. InB(K, w, d.transB, n, z, x) = N + (z * w + x)
    BY <1>5 DEF InB
  <2> HIDE DEF w, K, x, z, size, N, b, e
  <2>3. z * w \in Nat
    BY <1>0, <1>1
  <2>4. BlockB(d, n, ik, iw, k, j) = InB(K, w, d.transB, n, z, x)
    BY <1>0, <1>1, <1>2, <2>1, <2>2, <2>3
  <2> QED BY <2>4 DEF w, K, x, z
<1> QED BY <1>4, <1>5

(* The places of a block, in the order of its cells <<row, depth, column>>.*)
Cube(n, ih, ik, iw) ==
  {n} \X Stretch(ih.begin, ih.size) \X Stretch(ik.begin, ik.size) \X Stretch(iw.begin, iw.size)

LEMMA BlockPlaces ==
  ASSUME NEW d, HasSizes(d), NEW arch \in Arch, NEW n \in 0..(d.batch - 1), NEW bk,
         NEW ih, NEW ik, NEW iw, IsInterval(ih), IsInterval(ik), IsInterval(iw),
         Cube(n, ih, ik, iw) \subseteq Indices4(d)
  PROVE  Places({BlockAt(d, n, ih, ik, iw, bk, t) : t \in GemmTile(arch, ih.size, ik.size, iw.size)},
                d, Cube(n, ih, ik, iw))
<1> DEFINE T == GemmTile(arch, ih.size, ik.size, iw.size)
           B == Box(0..(ih.size - 1), 0..(ik.size - 1), 0..(iw.size - 1))
           F(t) == BlockAt(d, n, ih, ik, iw, bk, t)
           X(c) == BlockOf(d, n, ih, ik, iw, c)
<1>1. AddsEach(T, B)
  <2>1. ih.size \in Nat /\ ik.size \in Pos /\ iw.size \in Nat
    BY DEF IsInterval, Pos
  <2> QED BY <2>1, TileEach
<1> HIDE DEF T
<1>2. n \in Nat /\ d.batch \in Nat
  BY DEF HasSizes
<1>3. ASSUME NEW t \in T
      PROVE  Cell(t) \in B /\ X(Cell(t)) \in Cube(n, ih, ik, iw) /\ Product(F(t)) = Spot(d, X(Cell(t)))
  <2>1. t[2] = t[1] /\ t[4] = t[3] /\ Cell(t) \in B
    BY <1>1 DEF AddsEach
  <2>2. PICK i \in 0..(ih.size - 1), k \in 0..(ik.size - 1), j \in 0..(iw.size - 1) :
          Cell(t) = <<i, k, j>>
    BY <2>1 DEF Box
  <2>3. t[1] = i /\ t[2] = i /\ t[3] = k /\ t[4] = k /\ t[5] = j
    BY <2>1, <2>2 DEF Cell
  <2>4. X(Cell(t)) = <<n, ih.begin + i, ik.begin + k, iw.begin + j>>
    BY <2>2 DEF BlockOf
  <2>5. i \in Nat /\ k \in Nat /\ j \in Nat
    OBVIOUS
  <2>6. BlockC(d, n, ih, iw, i, j) = InC(d.height, d.width, n, ih.begin + i, iw.begin + j)
    BY <1>2, <2>5, PlaceC
  <2>7. BlockA(d, n, ih, ik, i, k) = InA(d.height, d.K, d.transA, n, ih.begin + i, ik.begin + k)
    BY <1>2, <2>5, PlaceA
  <2>8. BlockB(d, n, ik, iw, k, j) = InB(d.K, d.width, d.transB, n, ik.begin + k, iw.begin + j)
    BY <1>2, <2>5, PlaceB
  <2>9. Product(F(t)) = <<BlockC(d, n, ih, iw, i, j), BlockA(d, n, ih, ik, i, k), BlockB(d, n, ik, iw, k, j)>>
    BY <2>3 DEF Product, BlockAt
  <2>10. Spot(d, X(Cell(t))) =
           <<InC(d.height, d.width, n, ih.begin + i, iw.begin + j),
             InA(d.height, d.K, d.transA, n, ih.begin + i, ik.begin + k),
             InB(d.K, d.width, d.transB, n, ik.begin + k, iw.begin + j)>>
    BY <2>4 DEF Spot
  <2>11. X(Cell(t)) \in Cube(n, ih, ik, iw)
    BY <2>4 DEF Cube, Stretch, IsInterval, Pos
  <2> QED BY <2>1, <2>6, <2>7, <2>8, <2>9, <2>10, <2>11
<1>4. \A c, e \in B : X(c) = X(e) => c = e
  BY DEF Box, BlockOf, IsInterval, Pos
<1>5. ASSUME NEW x \in Cube(n, ih, ik, iw) PROVE \E c \in B : x = X(c)
  <2>1. PICK y \in Stretch(ih.begin, ih.size), z \in Stretch(ik.begin, ik.size), w \in Stretch(iw.begin, iw.size) :
          x = <<n, y, z, w>>
    BY DEF Cube
  <2>2. <<y - ih.begin, z - ik.begin, w - iw.begin>> \in B
    BY DEF Box, Stretch, IsInterval, Pos
  <2>3. ih.begin + (y - ih.begin) = y /\ ik.begin + (z - ik.begin) = z /\ iw.begin + (w - iw.begin) = w
    BY DEF Stretch, IsInterval, Pos
  <2>4. X(<<y - ih.begin, z - ik.begin, w - iw.begin>>) = x
    BY <2>1, <2>3 DEF BlockOf
  <2> QED BY <2>2, <2>4
<1>6. ASSUME NEW t \in T, NEW u \in T, Product(F(t)) = Product(F(u)) PROVE F(t) = F(u)
  <2>1. X(Cell(t)) = X(Cell(u))
    <3>1. Spot(d, X(Cell(t))) = Spot(d, X(Cell(u)))
      BY <1>3, <1>6
    <3>2. X(Cell(t)) \in Indices4(d) /\ X(Cell(u)) \in Indices4(d)
      BY <1>3
    <3> HIDE DEF X
    <3> QED BY <3>1, <3>2, SpotsDiffer
  <2>2. Cell(t) = Cell(u)
    BY <1>3, <1>4, <2>1
  <2>3. t[6] = u[6]
    BY <1>1, <2>2 DEF AddsEach
  <2>4. t[1] = u[1] /\ t[3] = u[3] /\ t[5] = u[5] /\ t[2] = t[1] /\ u[2] = u[1] /\ t[4] = t[3] /\ u[4] = u[3]
    BY <1>1, <2>2 DEF AddsEach, Cell
  <2> QED BY <2>3, <2>4, Zenon DEF BlockAt
<1> DEFINE S == {F(t) : t \in T}
<1> HIDE DEF F, X, B
<1>7. \A s \in S : \E x \in Cube(n, ih, ik, iw) : Product(s) = Spot(d, x)
  BY <1>3
<1>8. \A x \in Cube(n, ih, ik, iw) : \E s \in S : Product(s) = Spot(d, x)
  <2> TAKE x \in Cube(n, ih, ik, iw)
  <2>1. PICK c \in B : x = X(c)
    BY <1>5
  <2>2. PICK t \in T : Cell(t) = c
    BY <1>1 DEF AddsEach
  <2> QED BY <1>3, <2>1, <2>2
<1>9. \A s, r \in S : Product(s) = Product(r) => s = r
  BY <1>6
<1>10. Places(S, d, Cube(n, ih, ik, iw))
  BY <1>7, <1>8, <1>9 DEF Places
<1> QED BY <1>10 DEF F, T

-----------------------------------------------------------------------------
(* All blocks.                                                             *)
LEMMA IntervalsAre ==
  ASSUME NEW size \in Pos, NEW b \in BlocksOf(size)
  PROVE  /\ IsInterval(Interval(b, size))
         /\ Stretch(Interval(b, size).begin, Interval(b, size).size) \subseteq 0..(size - 1)
BY IntervalsCut DEF IsInterval

CubeOf(d, p) == Cube(p[1], Interval(p[2], d.height), Interval(p[3], d.K), Interval(p[4], d.width))

BlockIndices(d) == (0..(d.batch - 1)) \X BlocksOf(d.height) \X BlocksOf(d.K) \X BlocksOf(d.width)

TermsOf(arch, d, p) ==
  BlockTerms(arch, p[1], d.height, d.K, d.width, p[2], p[3], p[4], d.transA, d.transB)

LEMMA CubesCover ==
  ASSUME NEW d, HasSizes(d)
  PROVE  /\ \A p \in BlockIndices(d) : CubeOf(d, p) \subseteq Indices4(d)
         /\ \A x \in Indices4(d) : \E p \in BlockIndices(d) : x \in CubeOf(d, p)
         /\ \A p, q \in BlockIndices(d) : p # q => CubeOf(d, p) \cap CubeOf(d, q) = {}
<1> DEFINE N == 0..(d.batch - 1)  BH == BlocksOf(d.height)  BK == BlocksOf(d.K)  BW == BlocksOf(d.width)
           sh(b) == Stretch(Interval(b, d.height).begin, Interval(b, d.height).size)
           sk(b) == Stretch(Interval(b, d.K).begin, Interval(b, d.K).size)
           sw(b) == Stretch(Interval(b, d.width).begin, Interval(b, d.width).size)
           H == 0..(d.height - 1)  K == 0..(d.K - 1)  W == 0..(d.width - 1)
<1>1. d.height \in Pos /\ d.K \in Pos /\ d.width \in Pos
  BY DEF HasSizes
<1>2. /\ \A b \in BH : sh(b) \subseteq H
      /\ \A x \in H : \E b \in BH : x \in sh(b)
      /\ \A b, c \in BH : b # c => sh(b) \cap sh(c) = {}
  BY <1>1, IntervalsCut
<1>3. /\ \A b \in BK : sk(b) \subseteq K
      /\ \A x \in K : \E b \in BK : x \in sk(b)
      /\ \A b, c \in BK : b # c => sk(b) \cap sk(c) = {}
  BY <1>1, IntervalsCut
<1>4. /\ \A b \in BW : sw(b) \subseteq W
      /\ \A x \in W : \E b \in BW : x \in sw(b)
      /\ \A b, c \in BW : b # c => sw(b) \cap sw(c) = {}
  BY <1>1, IntervalsCut
<1>5. \A p : CubeOf(d, p) = {p[1]} \X sh(p[2]) \X sk(p[3]) \X sw(p[4])
  BY DEF CubeOf, Cube
<1>6. Indices4(d) = N \X H \X K \X W /\ BlockIndices(d) = N \X BH \X BK \X BW
  BY DEF Indices4, BlockIndices
<1> HIDE DEF N, BH, BK, BW, sh, sk, sw, H, K, W
<1>7. \A p \in BlockIndices(d) : CubeOf(d, p) \subseteq Indices4(d)
  <2> TAKE p \in BlockIndices(d)
  <2>1. p[1] \in N /\ p[2] \in BH /\ p[3] \in BK /\ p[4] \in BW
    BY <1>6
  <2>2. sh(p[2]) \subseteq H /\ sk(p[3]) \subseteq K /\ sw(p[4]) \subseteq W
    BY <1>2, <1>3, <1>4, <2>1
  <2>3. CubeOf(d, p) = {p[1]} \X sh(p[2]) \X sk(p[3]) \X sw(p[4])
    BY <1>5
  <2> QED BY <1>6, <2>1, <2>2, <2>3
<1>8. \A x \in Indices4(d) : \E p \in BlockIndices(d) : x \in CubeOf(d, p)
  <2> TAKE x \in Indices4(d)
  <2>1. PICK n \in N, i \in H, k \in K, j \in W : x = <<n, i, k, j>>
    BY <1>6
  <2>2. PICK bh \in BH : i \in sh(bh)
    BY <1>2
  <2>3. PICK bk \in BK : k \in sk(bk)
    BY <1>3
  <2>4. PICK bw \in BW : j \in sw(bw)
    BY <1>4
  <2>5. <<n, bh, bk, bw>> \in BlockIndices(d)
    BY <1>6
  <2>6. CubeOf(d, <<n, bh, bk, bw>>) = {n} \X sh(bh) \X sk(bk) \X sw(bw)
    BY <1>5
  <2>7. x \in CubeOf(d, <<n, bh, bk, bw>>)
    BY <2>1, <2>2, <2>3, <2>4, <2>6
  <2> QED BY <2>5, <2>7
<1>9. \A p, q \in BlockIndices(d) : p # q => CubeOf(d, p) \cap CubeOf(d, q) = {}
  <2> SUFFICES ASSUME NEW p \in BlockIndices(d), NEW q \in BlockIndices(d),
                      NEW x, x \in CubeOf(d, p), x \in CubeOf(d, q)
               PROVE  p = q
    OBVIOUS
  <2>1. /\ p = <<p[1], p[2], p[3], p[4]>> /\ p[2] \in BH /\ p[3] \in BK /\ p[4] \in BW
        /\ q = <<q[1], q[2], q[3], q[4]>> /\ q[2] \in BH /\ q[3] \in BK /\ q[4] \in BW
    BY <1>6
  <2>2. x[1] = p[1] /\ x[2] \in sh(p[2]) /\ x[3] \in sk(p[3]) /\ x[4] \in sw(p[4])
    <3>1. x \in {p[1]} \X sh(p[2]) \X sk(p[3]) \X sw(p[4])
      BY <1>5
    <3> QED BY <3>1
  <2>3. x[1] = q[1] /\ x[2] \in sh(q[2]) /\ x[3] \in sk(q[3]) /\ x[4] \in sw(q[4])
    <3>1. x \in {q[1]} \X sh(q[2]) \X sk(q[3]) \X sw(q[4])
      BY <1>5
    <3> QED BY <3>1
  <2>4. p[1] = q[1]
    BY <2>2, <2>3
  <2>5. p[2] = q[2]
    BY <1>2, <2>1, <2>2, <2>3
  <2>6. p[3] = q[3]
    BY <1>3, <2>1, <2>2, <2>3
  <2>7. p[4] = q[4]
    BY <1>4, <2>1, <2>2, <2>3
  <2> QED BY <2>1, <2>4, <2>5, <2>6, <2>7
<1> QED BY <1>7, <1>8, <1>9

LEMMA TermsPlaces ==
  ASSUME NEW d, HasSizes(d), NEW arch \in Arch, NEW p \in BlockIndices(d)
  PROVE  Places(TermsOf(arch, d, p), d, CubeOf(d, p))
<1> DEFINE ih == Interval(p[2], d.height)  ik == Interval(p[3], d.K)  iw == Interval(p[4], d.width)
           F(t) == BlockAt(d, p[1], ih, ik, iw, p[3], t)
           T == GemmTile(arch, ih.size, ik.size, iw.size)
<1>1. p[1] \in 0..(d.batch - 1) /\ p[2] \in BlocksOf(d.height) /\ p[3] \in BlocksOf(d.K) /\ p[4] \in BlocksOf(d.width)
  BY DEF BlockIndices
<1>2. IsInterval(ih) /\ IsInterval(ik) /\ IsInterval(iw)
  BY <1>1, IntervalsAre DEF HasSizes
<1>3. Cube(p[1], ih, ik, iw) \subseteq Indices4(d) /\ CubeOf(d, p) = Cube(p[1], ih, ik, iw)
  BY CubesCover DEF CubeOf
<1>4. TermsOf(arch, d, p) = {F(t) : t \in T}
  BY DEF TermsOf, BlockTerms, BlockAt, BlockC, BlockA, BlockB
<1> HIDE DEF ih, ik, iw
<1>5. Places({F(t) : t \in T}, d, Cube(p[1], ih, ik, iw))
  BY <1>1, <1>2, <1>3, BlockPlaces
<1> QED BY <1>3, <1>4, <1>5

LEMMA BlocksPlaces ==
  ASSUME NEW d, HasSizes(d), NEW arch \in Arch, d.width # 1
  PROVE  Places(GemmTerms(arch, d.batch, d.height, d.K, d.width, d.transA, d.transB), d, Indices4(d))
<1> DEFINE P == BlockIndices(d)
           T == [p \in P |-> TermsOf(arch, d, p)]
           C == [p \in P |-> CubeOf(d, p)]
           S == GemmTerms(arch, d.batch, d.height, d.K, d.width, d.transA, d.transB)
           B(n, bh, bk, bw) == BlockTerms(arch, n, d.height, d.K, d.width, bh, bk, bw, d.transA, d.transB)
<1>1. \A p \in P : Places(T[p], d, C[p]) /\ C[p] \subseteq Indices4(d)
  BY TermsPlaces, CubesCover
<1>2. \A p, q \in P : p # q => C[p] \cap C[q] = {}
  BY CubesCover
<1>3. All(C, P) = Indices4(d)
  <2>1. \A x \in Indices4(d) : \E p \in P : x \in C[p]
    BY CubesCover
  <2> HIDE DEF C
  <2> QED BY <1>1, <2>1 DEF All
<1>4. S = All(T, P)
  <2>1. S = UNION {B(n, bh, bk, bw) : n \in 0..(d.batch - 1), bh \in BlocksOf(d.height),
                                      bk \in BlocksOf(d.K), bw \in BlocksOf(d.width)}
    BY DEF GemmTerms
  <2>2. \A n, bh, bk, bw : <<n, bh, bk, bw>> \in P => T[<<n, bh, bk, bw>>] = B(n, bh, bk, bw)
    BY DEF TermsOf
  <2>3. P = (0..(d.batch - 1)) \X BlocksOf(d.height) \X BlocksOf(d.K) \X BlocksOf(d.width)
    BY DEF BlockIndices
  <2> HIDE DEF S, B, T, P
  <2>4. ASSUME NEW t \in S PROVE t \in All(T, P)
    <3>1. PICK n \in 0..(d.batch - 1), bh \in BlocksOf(d.height),
               bk \in BlocksOf(d.K), bw \in BlocksOf(d.width) : t \in B(n, bh, bk, bw)
      BY <2>1
    <3>2. <<n, bh, bk, bw>> \in P
      BY <2>3
    <3> QED BY <2>2, <3>1, <3>2 DEF All
  <2>5. ASSUME NEW t \in All(T, P) PROVE t \in S
    <3>1. PICK p \in P : t \in T[p]
      BY DEF All
    <3>2. PICK n \in 0..(d.batch - 1), bh \in BlocksOf(d.height),
               bk \in BlocksOf(d.K), bw \in BlocksOf(d.width) : p = <<n, bh, bk, bw>>
      BY <2>3
    <3>3. t \in B(n, bh, bk, bw)
      BY <2>2, <3>1, <3>2
    <3> QED BY <2>1, <3>3
  <2> QED BY <2>4, <2>5
<1> HIDE DEF P, T, C, S
<1>5. Places(All(T, P), d, All(C, P))
  BY <1>1, <1>2, PlacesUnion
<1> QED BY <1>3, <1>4, <1>5 DEF S

-----------------------------------------------------------------------------
(* Terms F[p] numbered like the products, X[p].                            *)
Image(F, P) == {F[p] : p \in P}

Numbers(P, F, X, d, S) ==
  /\ \A p \in P : X[p] \in S /\ Product(F[p]) = Spot(d, X[p])
  /\ \A x \in S : \E p \in P : X[p] = x
  /\ \A p, q \in P : X[p] = X[q] => p = q

LEMMA PlacesByIndex ==
  ASSUME NEW d, HasSizes(d), NEW P, NEW F, NEW X, NEW S, S \subseteq Indices4(d), Numbers(P, F, X, d, S)
  PROVE  Places(Image(F, P), d, S)
<1>0. /\ \A p \in P : X[p] \in S /\ Product(F[p]) = Spot(d, X[p])
      /\ \A x \in S : \E p \in P : X[p] = x
      /\ \A p, q \in P : X[p] = X[q] => p = q
  BY DEF Numbers
<1>1. ASSUME NEW p \in P, NEW q \in P, Product(F[p]) = Product(F[q]) PROVE F[p] = F[q]
  <2>1. X[p] \in Indices4(d) /\ X[q] \in Indices4(d) /\ Spot(d, X[p]) = Spot(d, X[q])
    BY <1>0, <1>1
  <2>2. X[p] = X[q]
    BY <2>1, SpotsDiffer
  <2> QED BY <1>0, <2>2
<1> DEFINE T == Image(F, P)
<1>2. \A t \in T : \E x \in S : Product(t) = Spot(d, x)
  BY <1>0 DEF Image
<1>3. \A x \in S : \E t \in T : Product(t) = Spot(d, x)
  BY <1>0 DEF Image
<1>4. \A t, u \in T : Product(t) = Product(u) => t = u
  BY <1>1 DEF Image
<1> QED BY <1>2, <1>3, <1>4 DEF Places

-----------------------------------------------------------------------------
(* Products with a column vector.                                          *)
Lane4(arch, n, x) == IF arch = "cpu" THEN "all" ELSE IF x < 4 * (n \div 4) THEN "vector" ELSE "rest"

GemvTerm(arch, m, v, width, height, out, b, h, w) ==
  <<out + b * height + h, m + h * width + w, v + b * width + w,
    <<"gemv", Lane4(arch, height, h), Lane4(arch, width, w)>> >>

LEMMA GemvIs ==
  ASSUME NEW arch, NEW m, NEW v, NEW batch, NEW width, NEW height, NEW out
  PROVE  Gemv(arch, m, v, batch, width, height, out)
           = {GemvTerm(arch, m, v, width, height, out, b, h, w) :
                b \in 0..(batch - 1), h \in 0..(height - 1), w \in 0..(width - 1)}
BY DEF Gemv, GemvTerm, Lane4

(* Transposing A does not change its layout.                               *)
SameLayout(d) == ~d.transA \/ d.height = 1 \/ d.K = 1

ColumnTerm(arch, d, p) ==
  GemvTerm(arch, p[1] * d.height * d.K, p[1] * d.K, d.K, d.height, p[1] * d.height, 0, p[2], p[3])

ColumnIndices(d) == (0..(d.batch - 1)) \X (0..(d.height - 1)) \X (0..(d.K - 1))

LEMMA ColumnTerms ==
  ASSUME NEW d, HasSizes(d), NEW arch, d.width = 1
  PROVE  GemmTerms(arch, d.batch, d.height, d.K, d.width, d.transA, d.transB)
           = {ColumnTerm(arch, d, p) : p \in ColumnIndices(d)}
<1> DEFINE N == 0..(d.batch - 1)  H == 0..(d.height - 1)  K == 0..(d.K - 1)
           V(b) == Gemv(arch, b * d.height * d.K, b * d.K, 1, d.K, d.height, b * d.height)
           G(b, i, k) == GemvTerm(arch, b * d.height * d.K, b * d.K, d.K, d.height, b * d.height, 0, i, k)
           S == GemmTerms(arch, d.batch, d.height, d.K, d.width, d.transA, d.transB)
<1>1. S = UNION {V(b) : b \in N}
  BY DEF GemmTerms
<1>2. ASSUME NEW b \in N PROVE V(b) = {G(b, i, k) : i \in H, k \in K}
  <2> DEFINE R(c, i, k) == GemvTerm(arch, b * d.height * d.K, b * d.K, d.K, d.height, b * d.height, c, i, k)
  <2>1. V(b) = {R(c, i, k) : c \in 0..(1 - 1), i \in H, k \in K}
    BY GemvIs
  <2>2. 0..(1 - 1) = {0}
    OBVIOUS
  <2>3. \A i, k : R(0, i, k) = G(b, i, k)
    OBVIOUS
  <2> HIDE DEF V, R, G, H, K
  <2> QED BY <2>1, <2>2, <2>3
<1>3. \A p : ColumnTerm(arch, d, p) = G(p[1], p[2], p[3])
  BY DEF ColumnTerm
<1>4. ColumnIndices(d) = N \X H \X K
  BY DEF ColumnIndices
<1> HIDE DEF N, H, K, V, G, S
<1>5. ASSUME NEW t \in S PROVE \E p \in ColumnIndices(d) : t = ColumnTerm(arch, d, p)
  <2>1. PICK b \in N : t \in V(b)
    BY <1>1
  <2>2. PICK i \in H, k \in K : t = G(b, i, k)
    BY <1>2, <2>1
  <2>3. <<b, i, k>> \in ColumnIndices(d) /\ ColumnTerm(arch, d, <<b, i, k>>) = G(b, i, k)
    BY <1>3, <1>4
  <2> QED BY <2>2, <2>3
<1>6. ASSUME NEW p \in ColumnIndices(d) PROVE ColumnTerm(arch, d, p) \in S
  <2>1. p[1] \in N /\ p[2] \in H /\ p[3] \in K
    BY <1>4
  <2>2. ColumnTerm(arch, d, p) \in V(p[1])
    BY <1>2, <1>3, <2>1
  <2> QED BY <1>1, <2>1, <2>2
<1>7. S = {ColumnTerm(arch, d, p) : p \in ColumnIndices(d)}
  BY <1>5, <1>6
<1> QED BY <1>7 DEF S

LEMMA ColumnSpot ==
  ASSUME NEW d, HasSizes(d), NEW arch, d.width = 1, SameLayout(d),
         NEW n \in 0..(d.batch - 1), NEW i \in 0..(d.height - 1), NEW k \in 0..(d.K - 1)
  PROVE  Product(ColumnTerm(arch, d, <<n, i, k>>)) = Spot(d, <<n, i, k, 0>>)
<1> DEFINE h == d.height  K == d.K
           t == ColumnTerm(arch, d, <<n, i, k>>)
<1>1. h \in Nat /\ K \in Nat /\ n \in Nat /\ i \in Nat /\ k \in Nat
  BY DEF HasSizes, Pos
<1>2. /\ t[1] = n * h + 0 * h + i
      /\ t[2] = n * h * K + i * K + k
      /\ t[3] = n * K + 0 * K + k
  BY DEF ColumnTerm, GemvTerm
<1>3. Product(t) = <<t[1], t[2], t[3]>>
  BY DEF Product
<1>4. Spot(d, <<n, i, k, 0>>) =
        <<InC(h, 1, n, i, 0), InA(h, K, d.transA, n, i, k), InB(K, 1, d.transB, n, k, 0)>>
  BY DEF Spot
<1>5. t[1] = InC(h, 1, n, i, 0)
  <2> HIDE DEF h, K, t
  <2>1. n * h \in Nat
    BY <1>1
  <2> QED BY <1>1, <1>2, <2>1 DEF InC
<1>6. t[3] = InB(K, 1, d.transB, n, k, 0)
  <2> HIDE DEF h, K, t
  <2>1. n * K \in Nat /\ n * K * 1 = n * K
    BY <1>1
  <2>2. (IF d.transB THEN 0 * K + k ELSE k * 1 + 0) = k
    BY <1>1
  <2>3. InB(K, 1, d.transB, n, k, 0) = n * K * 1 + (IF d.transB THEN 0 * K + k ELSE k * 1 + 0)
    BY DEF InB
  <2> QED BY <1>1, <1>2, <2>1, <2>2, <2>3
<1>7. t[2] = InA(h, K, d.transA, n, i, k)
  <2>1. (IF d.transA THEN k * h + i ELSE i * K + k) = i * K + k
    <3>1. CASE ~d.transA
      BY <3>1
    <3>2. CASE d.height = 1
      <4>1. i = 0 /\ h = 1
        BY <3>2
      <4>2. k * 1 + 0 = 0 * K + k
        BY <1>1
      <4> HIDE DEF h, K
      <4> QED BY <4>1, <4>2
    <3>3. CASE d.K = 1
      <4>1. k = 0 /\ K = 1
        BY <3>3
      <4>2. 0 * h + i = i * 1 + 0
        BY <1>1
      <4> HIDE DEF h, K
      <4> QED BY <4>1, <4>2
    <3> QED BY <3>1, <3>2, <3>3 DEF SameLayout
  <2>2. InA(h, K, d.transA, n, i, k) = n * h * K + (i * K + k)
    <3> HIDE DEF h, K
    <3> QED BY <2>1 DEF InA
  <2> HIDE DEF h, K, t
  <2>3. n * h * K \in Nat /\ i * K \in Nat
    BY <1>1
  <2> QED BY <1>1, <1>2, <2>2, <2>3
<1> HIDE DEF t
<1>8. Product(t) = Spot(d, <<n, i, k, 0>>)
  BY <1>3, <1>4, <1>5, <1>6, <1>7
<1> QED BY <1>8 DEF t

LEMMA ColumnPlaces ==
  ASSUME NEW d, HasSizes(d), NEW arch, d.width = 1, SameLayout(d)
  PROVE  Places(GemmTerms(arch, d.batch, d.height, d.K, d.width, d.transA, d.transB), d, Indices4(d))
<1> DEFINE P == ColumnIndices(d)
           F == [p \in P |-> ColumnTerm(arch, d, p)]
           X == [p \in P |-> <<p[1], p[2], p[3], 0>>]
           S == {ColumnTerm(arch, d, p) : p \in P}
<1>1. GemmTerms(arch, d.batch, d.height, d.K, d.width, d.transA, d.transB) = S
  BY ColumnTerms
<1>2. S = Image(F, P)
  BY DEF Image
<1>3. Indices4(d) = (0..(d.batch - 1)) \X (0..(d.height - 1)) \X (0..(d.K - 1)) \X {0}
  <2>1. 0..(d.width - 1) = {0}
    OBVIOUS
  <2> QED BY <2>1 DEF Indices4
<1>4. ASSUME NEW p \in P PROVE X[p] \in Indices4(d) /\ Product(F[p]) = Spot(d, X[p])
  <2>1. PICK n \in 0..(d.batch - 1), i \in 0..(d.height - 1), k \in 0..(d.K - 1) : p = <<n, i, k>>
    BY DEF ColumnIndices
  <2>2. X[p] = <<n, i, k, 0>> /\ F[p] = ColumnTerm(arch, d, <<n, i, k>>)
    BY <2>1
  <2>3. X[p] \in Indices4(d)
    BY <1>3, <2>2
  <2>4. Product(ColumnTerm(arch, d, <<n, i, k>>)) = Spot(d, <<n, i, k, 0>>)
    BY ColumnSpot
  <2> QED BY <2>2, <2>3, <2>4
<1>5. ASSUME NEW x \in Indices4(d) PROVE \E p \in P : X[p] = x
  <2>1. PICK n \in 0..(d.batch - 1), i \in 0..(d.height - 1), k \in 0..(d.K - 1) : x = <<n, i, k, 0>>
    BY <1>3
  <2>2. <<n, i, k>> \in P /\ X[<<n, i, k>>] = x
    BY <2>1 DEF ColumnIndices
  <2> QED BY <2>2
<1>6. ASSUME NEW p \in P, NEW q \in P, X[p] = X[q] PROVE p = q
  BY <1>6 DEF ColumnIndices
<1> HIDE DEF F, X, P, S
<1>7. Numbers(P, F, X, d, Indices4(d))
  BY <1>4, <1>5, <1>6 DEF Numbers
<1>8. Places(Image(F, P), d, Indices4(d))
  BY <1>7, PlacesByIndex
<1> QED BY <1>1, <1>2, <1>8

LEMMA GemmPlaces ==
  ASSUME NEW d, HasSizes(d), NEW arch \in Arch, d.width # 1 \/ SameLayout(d)
  PROVE  Places(GemmTerms(arch, d.batch, d.height, d.K, d.width, d.transA, d.transB), d, Indices4(d))
BY BlocksPlaces, ColumnPlaces

-----------------------------------------------------------------------------
(* The reference's products.                                               *)
LEMMA RefIs ==
  ASSUME NEW d, HasSizes(d)
  PROVE  GemmRef(d.batch, d.height, d.K, d.width, d.transA, d.transB) = {Spot(d, x) : x \in Indices4(d)}
<1> DEFINE h == d.height  K == d.K  w == d.width
           N == 0..(d.batch - 1)  I == 0..(h - 1)  J == 0..(w - 1)  L == 0..(K - 1)
           G(n, i, j, k) ==
             <<n * h * w + i * w + j,
               n * h * K + (IF d.transA THEN Transposed(i * K + k, K, h) ELSE i * K + k),
               n * K * w + (IF d.transB THEN Transposed(k * w + j, w, K) ELSE k * w + j)>>
           R == GemmRef(d.batch, d.height, d.K, d.width, d.transA, d.transB)
<1>1. R = {G(n, i, j, k) : n \in N, i \in I, j \in J, k \in L}
  BY DEF GemmRef
<1>2. h \in Pos /\ K \in Pos /\ w \in Pos /\ h \in Nat /\ K \in Nat /\ w \in Nat
  BY DEF HasSizes, Pos
<1>3. ASSUME NEW n \in N, NEW i \in I, NEW j \in J, NEW k \in L
      PROVE  G(n, i, j, k) = Spot(d, <<n, i, k, j>>)
  <2>1. n \in Nat /\ i \in Nat /\ j \in Nat /\ k \in Nat
    OBVIOUS
  <2>2. Spot(d, <<n, i, k, j>>) = <<InC(h, w, n, i, j), InA(h, K, d.transA, n, i, k), InB(K, w, d.transB, n, k, j)>>
    BY DEF Spot
  <2>3. n * h * w + i * w + j = InC(h, w, n, i, j)
    <3> HIDE DEF h, w, N, I, J
    <3>1. n * h \in Nat
      BY <1>2, <2>1
    <3>2. (n * h + i) * w = n * h * w + i * w
      BY <1>2, <2>1, <3>1
    <3> QED BY <3>2 DEF InC
  <2>4. Transposed(i * K + k, K, h) = k * h + i
    <3>1. (i * K + k) \div K = i /\ (i * K + k) % K = k
      BY <1>2, <2>1, Parted
    <3> HIDE DEF K, h
    <3> QED BY <3>1 DEF Transposed
  <2>5. Transposed(k * w + j, w, K) = j * K + k
    <3>1. (k * w + j) \div w = k /\ (k * w + j) % w = j
      BY <1>2, <2>1, Parted
    <3> HIDE DEF K, w
    <3> QED BY <3>1 DEF Transposed
  <2>6. n * h * K + (IF d.transA THEN Transposed(i * K + k, K, h) ELSE i * K + k) = InA(h, K, d.transA, n, i, k)
    <3> HIDE DEF h, K
    <3> QED BY <2>4 DEF InA
  <2>7. n * K * w + (IF d.transB THEN Transposed(k * w + j, w, K) ELSE k * w + j) = InB(K, w, d.transB, n, k, j)
    <3> HIDE DEF w, K
    <3> QED BY <2>5 DEF InB
  <2> QED BY <2>2, <2>3, <2>6, <2>7
<1>4. Indices4(d) = N \X I \X L \X J
  BY DEF Indices4
<1> HIDE DEF R, G, N, I, J, L
<1>5. ASSUME NEW r \in R PROVE \E x \in Indices4(d) : r = Spot(d, x)
  <2>1. PICK n \in N, i \in I, j \in J, k \in L : r = G(n, i, j, k)
    BY <1>1
  <2>2. <<n, i, k, j>> \in Indices4(d)
    BY <1>4
  <2> QED BY <1>3, <2>1, <2>2
<1>6. ASSUME NEW x \in Indices4(d) PROVE Spot(d, x) \in R
  <2>1. PICK n \in N, i \in I, k \in L, j \in J : x = <<n, i, k, j>>
    BY <1>4
  <2>2. Spot(d, x) = G(n, i, j, k)
    BY <1>3, <2>1
  <2> QED BY <1>1, <2>2
<1>7. R = {Spot(d, x) : x \in Indices4(d)}
  BY <1>5, <1>6
<1> QED BY <1>7 DEF R

LEMMA GemmAddsUp ==
  ASSUME NEW d, HasSizes(d), NEW arch \in Arch, d.width # 1 \/ SameLayout(d)
  PROVE  AddsUp(GemmTerms(arch, d.batch, d.height, d.K, d.width, d.transA, d.transB),
                GemmRef(d.batch, d.height, d.K, d.width, d.transA, d.transB))
BY GemmPlaces, RefIs, PlacesAddUp

-----------------------------------------------------------------------------
LEMMA MatMulAddsUp ==
  ASSUME NEW x, IsMatMul(x),
         \/ x.b[IF x.transB THEN Len(x.a) - 1 ELSE Len(x.a)] # 1
         \/ ~x.transA \/ x.a[Len(x.a) - 1] = 1 \/ x.a[Len(x.a)] = 1
  PROVE  AddsUp(MatMul(x.arch, x.a, x.b, x.transA, x.transB), MatrixProduct(x.a, x.b, x.transA, x.transB))
<1> DEFINE r == Len(x.a)
           h == IF x.transA THEN x.a[r] ELSE x.a[r - 1]
           K == IF x.transA THEN x.a[r - 1] ELSE x.a[r]
           w == IF x.transB THEN x.b[r - 1] ELSE x.b[r]
           n == Elements(SubSeq(x.a, 1, r - 2))
           d == [batch |-> n, height |-> h, K |-> K, width |-> w, transA |-> x.transA, transB |-> x.transB]
<1>1. /\ x.arch \in Arch /\ x.a \in Seq(Pos) /\ x.b \in Seq(Pos) /\ Len(x.b) = r /\ r \in Nat /\ r >= 2
      /\ x.transA \in BOOLEAN /\ x.transB \in BOOLEAN
  BY DEF IsMatMul, Pos
<1>2. x.a[r] \in Pos /\ x.a[r - 1] \in Pos /\ x.b[r] \in Pos /\ x.b[r - 1] \in Pos
  BY <1>1
<1>3. h \in Pos /\ K \in Pos /\ w \in Pos
  BY <1>2
<1>4. n \in Nat
  <2>1. SubSeq(x.a, 1, r - 2) \in Seq(Nat)
    BY <1>1 DEF Pos
  <2> QED BY <2>1, ElementsCounted
<1>5. MatMul(x.arch, x.a, x.b, x.transA, x.transB) = GemmTerms(x.arch, n, h, K, w, x.transA, x.transB)
  BY DEF MatMul
<1>6. w # 1 \/ ~x.transA \/ h = 1 \/ K = 1
  <2>1. w = x.b[IF x.transB THEN r - 1 ELSE r]
    OBVIOUS
  <2> QED BY <2>1
<1>7. /\ d.batch = n /\ d.height = h /\ d.K = K /\ d.width = w
      /\ d.transA = x.transA /\ d.transB = x.transB
  OBVIOUS
<1> DEFINE N == 0..(n - 1)  I == 0..(h - 1)  J == 0..(w - 1)  L == 0..(K - 1)
           G(m, i, j, k) == <<InC(h, w, m, i, j), InA(h, K, x.transA, m, i, k), InB(K, w, x.transB, m, k, j)>>
           R == MatrixProduct(x.a, x.b, x.transA, x.transB)
<1>8. R = {G(m, i, j, k) : m \in N, i \in I, j \in J, k \in L}
  <2>1. h = x.a[IF x.transA THEN r ELSE r - 1] /\ K = x.a[IF x.transA THEN r - 1 ELSE r]
        /\ w = x.b[IF x.transB THEN r - 1 ELSE r]
    OBVIOUS
  <2>2. R = {<<(m * h + i) * w + j,
               m * h * K + (IF x.transA THEN k * h + i ELSE i * K + k),
               m * K * w + (IF x.transB THEN j * K + k ELSE k * w + j)>> :
               m \in N, i \in I, j \in J, k \in L}
    <3> HIDE DEF h, K, w
    <3> QED BY <2>1 DEF MatrixProduct
  <2> HIDE DEF h, K, w, N, I, J, L, R
  <2> QED BY <2>2 DEF InC, InA, InB
<1> HIDE DEF d, n, h, K, w
<1>9. HasSizes(d)
  BY <1>3, <1>4, <1>7 DEF HasSizes
<1>10. d.width # 1 \/ SameLayout(d)
  BY <1>6, <1>7 DEF SameLayout
<1>11. Places(GemmTerms(x.arch, d.batch, d.height, d.K, d.width, d.transA, d.transB), d, Indices4(d))
  BY <1>1, <1>9, <1>10, GemmPlaces
<1>12. Places(MatMul(x.arch, x.a, x.b, x.transA, x.transB), d, Indices4(d))
  BY <1>5, <1>7, <1>11
<1>13. AddsUp(MatMul(x.arch, x.a, x.b, x.transA, x.transB), {Spot(d, y) : y \in Indices4(d)})
  BY <1>9, <1>12, PlacesAddUp
<1>14. R = {Spot(d, y) : y \in Indices4(d)}
  <2>1. Indices4(d) = N \X I \X L \X J
    BY <1>7 DEF Indices4
  <2>2. \A m, i, j, k : Spot(d, <<m, i, k, j>>) = G(m, i, j, k)
    BY <1>7 DEF Spot
  <2> HIDE DEF R, G, N, I, J, L
  <2>3. ASSUME NEW t \in R PROVE \E y \in Indices4(d) : t = Spot(d, y)
    <3>1. PICK m \in N, i \in I, j \in J, k \in L : t = G(m, i, j, k)
      BY <1>8
    <3>2. <<m, i, k, j>> \in Indices4(d)
      BY <2>1
    <3> QED BY <2>2, <3>1, <3>2
  <2>4. ASSUME NEW y \in Indices4(d) PROVE Spot(d, y) \in R
    <3>1. PICK m \in N, i \in I, k \in L, j \in J : y = <<m, i, k, j>>
      BY <2>1
    <3>2. Spot(d, y) = G(m, i, j, k)
      BY <2>2, <3>1
    <3> QED BY <1>8, <3>1, <3>2
  <2> QED BY <2>3, <2>4
<1> QED BY <1>13, <1>14 DEF R

-----------------------------------------------------------------------------
(* A fully connected layer: the weights are the matrix of Gemv.            *)
LEMMA TailElements ==
  ASSUME NEW s \in Seq(Pos), Len(s) = 4
  PROVE  Elements(Tail(s)) = s[2] * s[3] * s[4]
<1> DEFINE t == Tail(s)
<1>0. t \in Seq(Pos) /\ Len(t) = 3 /\ \A i \in 1..3 : t[i] = s[i + 1]
  <2>1. s # <<>>
    OBVIOUS
  <2>2. t \in Seq(Pos) /\ Len(t) = Len(s) - 1 /\ \A i \in 1..Len(t) : t[i] = s[i + 1]
    BY <2>1, HeadTailProperties
  <2> QED BY <2>2
<1> HIDE DEF t
<1>1. t \in [1..3 -> Nat]
  <2>1. t \in [1..Len(t) -> Pos]
    BY <1>0
  <2> QED BY <1>0, <2>1 DEF Pos
<1>2. t[1] = s[2] /\ t[2] = s[3] /\ t[3] = s[4]
  BY <1>0
<1>3. Elements(t) = t[1] * t[2] * t[3]
  BY <1>0, <1>1, ThreeElements
<1> QED BY <1>2, <1>3 DEF t

LEMMA NoElements == Elements(SubSeq(<<>>, 1, 0)) = 1 /\ \A a, b : Elements(SubSeq(<<a, b>>, 1, 0)) = 1
<1>1. \A a, b : SubSeq(<<a, b>>, 1, 0) = <<>>
  OBVIOUS
<1>2. SubSeq(<<>>, 1, 0) = <<>>
  OBVIOUS
<1>3. Elements(<<>>) = 1
  <2> DEFINE G(g) == [n \in 0..0 |-> IF n = 0 THEN 1 ELSE g[n - 1] * <<>>[n]]
  <2>1. PICK f : f = [n \in 0..0 |-> 1]
    OBVIOUS
  <2>2. f = G(f)
    BY <2>1
  <2>3. Elements(<<>>) = (CHOOSE g : g = G(g))[0]
    BY DEF Elements
  <2>4. PICK g : g = G(g) /\ Elements(<<>>) = g[0]
    BY <2>2, <2>3
  <2> QED BY <2>4
<1> QED BY <1>1, <1>2, <1>3

Layer(x) == [batch |-> 1, height |-> x.in[1], K |-> x.in[2] * x.in[3] * x.in[4], width |-> x.weight[1],
             transA |-> FALSE, transB |-> TRUE]

Exchanged(t) == <<t[1], t[3], t[2]>>

LEMMA LayerExpected ==
  ASSUME NEW x, IsFullyConnected(x)
  PROVE  /\ HasSizes(Layer(x))
         /\ Elements(Tail(x.in)) = Layer(x).K /\ Elements(Tail(x.weight)) = Layer(x).K
         /\ MatrixProduct(<<x.in[1], Layer(x).K>>, <<x.weight[1], Layer(x).K>>, FALSE, TRUE)
              = {Spot(Layer(x), y) : y \in Indices4(Layer(x))}
<1> DEFINE h == x.in[1]  K == x.in[2] * x.in[3] * x.in[4]  w == x.weight[1]  d == Layer(x)
<1>1. /\ x.in \in Seq(Pos) /\ x.weight \in Seq(Pos) /\ Len(x.in) = 4 /\ Len(x.weight) = 4
      /\ x.in[2] = x.weight[2] /\ x.in[3] = x.weight[3] /\ x.in[4] = x.weight[4]
  BY DEF IsFullyConnected, Pos
<1>2. \A i \in 1..4 : x.in[i] \in Pos /\ x.weight[i] \in Pos
  BY <1>1
<1>3. h \in Pos /\ w \in Pos /\ K \in Pos
  <2>1. \A a, b, c \in Pos : a * b * c \in Pos
    <3>1. \A a, b \in Pos : a * b \in Pos
      BY DEF Pos
    <3> HIDE DEF Pos
    <3> QED BY <3>1
  <2> QED BY <1>2, <2>1
<1>4. /\ d.batch = 1 /\ d.height = h /\ d.K = K /\ d.width = w
      /\ d.transA = FALSE /\ d.transB = TRUE
  BY DEF Layer
<1>5. Elements(Tail(x.in)) = K /\ Elements(Tail(x.weight)) = K
  BY <1>1, TailElements
<1> HIDE DEF h, K, w, d
<1>6. HasSizes(d)
  BY <1>3, <1>4 DEF HasSizes
<1> DEFINE A == <<h, K>>  B == <<w, K>>  I == 0..(h - 1)  J == 0..(w - 1)  L == 0..(K - 1)
           G(m, i, j, k) == <<(m * h + i) * w + j, m * h * K + (i * K + k), m * K * w + (j * K + k)>>
           R == MatrixProduct(A, B, FALSE, TRUE)
<1>7. R = {G(m, i, j, k) : m \in 0..0, i \in I, j \in J, k \in L}
  <2>1. Len(A) = 2 /\ A[1] = h /\ A[2] = K /\ B[1] = w /\ B[2] = K /\ Len(B) = 2
    OBVIOUS
  <2>2. Elements(SubSeq(A, 1, 0)) = 1
    BY NoElements
  <2>3. R = {<<(m * h + i) * w + j,
               m * h * K + (IF FALSE THEN k * h + i ELSE i * K + k),
               m * K * w + (IF TRUE THEN j * K + k ELSE k * w + j)>> :
               m \in 0..(Elements(SubSeq(A, 1, 2 - 2)) - 1), i \in I, j \in J, k \in L}
    <3> HIDE DEF A, B
    <3> QED BY <2>1 DEF MatrixProduct
  <2>4. 0..(Elements(SubSeq(A, 1, 2 - 2)) - 1) = 0..0
    BY <2>2
  <2> HIDE DEF A, B, I, J, L, R
  <2> QED BY <2>3, <2>4
<1>8. R = {Spot(d, y) : y \in Indices4(d)}
  <2>1. Indices4(d) = (0..0) \X I \X L \X J
    BY <1>4 DEF Indices4
  <2>2. \A m, i, j, k : Spot(d, <<m, i, k, j>>) = G(m, i, j, k)
    BY <1>4 DEF Spot, InC, InA, InB
  <2> DEFINE N == 0..0
  <2> HIDE DEF R, G, N, I, J, L
  <2>3. ASSUME NEW t \in R PROVE \E y \in Indices4(d) : t = Spot(d, y)
    <3>1. PICK m \in N, i \in I, j \in J, k \in L : t = G(m, i, j, k)
      BY <1>7 DEF N
    <3>2. <<m, i, k, j>> \in Indices4(d)
      BY <2>1 DEF N
    <3> QED BY <2>2, <3>1, <3>2
  <2>4. ASSUME NEW y \in Indices4(d) PROVE Spot(d, y) \in R
    <3>1. PICK m \in N, i \in I, k \in L, j \in J : y = <<m, i, k, j>>
      BY <2>1 DEF N
    <3>2. Spot(d, y) = G(m, i, j, k)
      BY <2>2, <3>1
    <3> QED BY <1>7, <3>1, <3>2 DEF N
  <2> QED BY <2>3, <2>4
<1>9. Layer(x).K = K /\ x.in[1] = h /\ x.weight[1] = w /\ d = Layer(x)
  BY <1>4 DEF h, w, d
<1> QED BY <1>5, <1>6, <1>8, <1>9

(* The terms of Gemv are numbered by <<row of the input, output, depth>>.  *)
LEMMA FullyConnectedAddsUp ==
  ASSUME NEW x, IsFullyConnected(x)
  PROVE  AddsUp(FullyConnected(x.arch, x.in, x.weight),
                {Exchanged(t) : t \in {Spot(Layer(x), y) : y \in Indices4(Layer(x))}})
<1> DEFINE h == x.in[1]  K == x.in[2] * x.in[3] * x.in[4]  w == x.weight[1]  d == Layer(x)
           F(i, j, k) == GemvTerm(x.arch, 0, 0, K, w, 0, i, j, k)
           I == 0..(h - 1)  J == 0..(w - 1)  L == 0..(K - 1)
           T == FullyConnected(x.arch, x.in, x.weight)
           E == {Exchanged(Spot(d, y)) : y \in Indices4(d)}
<1>1. HasSizes(d)
  BY LayerExpected
<1>2. /\ d.batch = 1 /\ d.height = h /\ d.K = K /\ d.width = w
      /\ d.transA = FALSE /\ d.transB = TRUE
  BY DEF Layer
<1>3. h \in Pos /\ w \in Pos /\ K \in Pos
  BY <1>1, <1>2 DEF HasSizes
<1>4. T = {F(i, j, k) : i \in I, j \in J, k \in L}
  <2>1. x.in[2] = x.weight[2] /\ x.in[3] = x.weight[3] /\ x.in[4] = x.weight[4]
    BY DEF IsFullyConnected
  <2>2. T = Gemv(x.arch, 0, 0, h, K, w, 0)
    BY <2>1 DEF FullyConnected
  <2> HIDE DEF h, K, w
  <2> QED BY <2>2, GemvIs
<1>5. Indices4(d) = {0} \X I \X L \X J
  <2>1. 0..(d.batch - 1) = {0}
    BY <1>2
  <2> QED BY <1>2, <2>1 DEF Indices4
<1> HIDE DEF d, h, K, w
<1>6. ASSUME NEW i \in I, NEW j \in J, NEW k \in L
      PROVE  Product(F(i, j, k)) = Exchanged(Spot(d, <<0, i, k, j>>))
  <2>1. h \in Nat /\ K \in Nat /\ w \in Nat /\ i \in Nat /\ j \in Nat /\ k \in Nat
    BY <1>3 DEF Pos
  <2>2. Product(F(i, j, k)) = <<0 + i * w + j, 0 + j * K + k, 0 + i * K + k>>
    BY DEF Product, GemvTerm
  <2>3. Spot(d, <<0, i, k, j>>) = <<InC(h, w, 0, i, j), InA(h, K, FALSE, 0, i, k), InB(K, w, TRUE, 0, k, j)>>
    BY <1>2 DEF Spot
  <2> HIDE DEF I, J, L, F
  <2>4. InC(h, w, 0, i, j) = i * w + j
    <3>1. 0 * h + i = i
      BY <2>1
    <3> QED BY <3>1 DEF InC
  <2>5. 0 * h * K = 0 /\ 0 * K * w = 0
    BY <2>1
  <2>6. i * w \in Nat /\ j * K \in Nat /\ i * K \in Nat
    BY <2>1
  <2>7. InA(h, K, FALSE, 0, i, k) = i * K + k
    BY <2>1, <2>5, <2>6 DEF InA
  <2>8. InB(K, w, TRUE, 0, k, j) = j * K + k
    BY <2>1, <2>5, <2>6 DEF InB
  <2>9. 0 + i * w + j = i * w + j /\ 0 + j * K + k = j * K + k /\ 0 + i * K + k = i * K + k
    BY <2>6
  <2>10. Product(F(i, j, k)) = <<i * w + j, j * K + k, i * K + k>>
    BY <2>2, <2>9
  <2>11. Spot(d, <<0, i, k, j>>) = <<i * w + j, i * K + k, j * K + k>>
    BY <2>3, <2>4, <2>7, <2>8
  <2> QED BY <2>10, <2>11 DEF Exchanged
<1> HIDE DEF I, J, L, F, T
<1>7. ASSUME NEW t \in T
      PROVE  \E i \in I, j \in J, k \in L :
               t = F(i, j, k) /\ Product(t) = Exchanged(Spot(d, <<0, i, k, j>>)) /\ <<0, i, k, j>> \in Indices4(d)
  <2>1. PICK i \in I, j \in J, k \in L : t = F(i, j, k)
    BY <1>4
  <2>2. Product(t) = Exchanged(Spot(d, <<0, i, k, j>>)) /\ <<0, i, k, j>> \in Indices4(d)
    BY <1>5, <1>6, <2>1
  <2> QED BY <2>1, <2>2
<1>8. Products(T) = E
  <2>1. \A t \in T : Product(t) \in E
    BY <1>7
  <2>2. ASSUME NEW y \in Indices4(d) PROVE \E t \in T : Product(t) = Exchanged(Spot(d, y))
    <3>1. PICK i \in I, k \in L, j \in J : y = <<0, i, k, j>>
      BY <1>5
    <3> QED BY <1>4, <1>6, <3>1
  <2>3. Products(T) = {Product(t) : t \in T}
    BY DEF Products, Product
  <2> QED BY <2>1, <2>2, <2>3
<1>9. ASSUME NEW t \in T, NEW u \in T, Product(t) = Product(u) PROVE t = u
  <2>1. PICK i \in I, j \in J, k \in L :
          t = F(i, j, k) /\ Product(t) = Exchanged(Spot(d, <<0, i, k, j>>)) /\ <<0, i, k, j>> \in Indices4(d)
    BY <1>7
  <2>2. PICK a \in I, b \in J, c \in L :
          u = F(a, b, c) /\ Product(u) = Exchanged(Spot(d, <<0, a, c, b>>)) /\ <<0, a, c, b>> \in Indices4(d)
    BY <1>7
  <2>3. Spot(d, <<0, i, k, j>>) = Spot(d, <<0, a, c, b>>)
    BY <1>9, <2>1, <2>2 DEF Exchanged, Spot
  <2>4. <<0, i, k, j>> = <<0, a, c, b>>
    BY <1>1, <2>1, <2>2, <2>3, SpotsDiffer
  <2> QED BY <2>1, <2>2, <2>4
<1>10. IsFiniteSet(E)
  <2> DEFINE D == {Spot(d, y) : y \in Indices4(d)}
             f == [s \in D |-> Exchanged(s)]
  <2>1. IsFiniteSet(D)
    BY <1>1, SpotsFinite
  <2>2. f \in [D -> E] /\ Onto(f, D, E)
    BY DEF Onto
  <2> HIDE DEF D, f, E
  <2> QED BY <2>1, <2>2, ImageFinite
<1>11. AddsUp(T, E)
  <2> HIDE DEF E
  <2> QED BY <1>8, <1>9, <1>10, OnceAddsUp DEF Once
<1>12. E = {Exchanged(t) : t \in {Spot(d, y) : y \in Indices4(d)}}
  OBVIOUS
<1> QED BY <1>11, <1>12 DEF d, T

-----------------------------------------------------------------------------
(* The matrices of a Winograd convolution: every batch has its own inputs  *)
(* and outputs, and all share the filter.                                  *)
LEMMA Flattened ==
  ASSUME NEW h \in Nat, NEW w \in Nat, NEW n \in Nat, NEW i \in Nat, NEW j \in Nat
  PROVE  n * h * w + (i * w + j) = InC(h, w, n, i, j)
<1>1. n * h \in Nat
  OBVIOUS
<1>2. (n * h + i) * w = n * h * w + i * w /\ n * h * w \in Nat /\ i * w \in Nat
  BY <1>1
<1> QED BY <1>2 DEF InC

TileSpot(a, y) ==
  <<InC(a.out, a.tiles, y[1] * a.area + y[2], y[3], y[5]), InC(a.out, a.in, y[2], y[3], y[4]),
    InC(a.in, a.tiles, y[1] * a.area + y[2], y[4], y[5])>>

TileIndices(a) ==
  (0..(a.batch - 1)) \X (0..(a.area - 1)) \X (0..(a.out - 1)) \X (0..(a.in - 1)) \X (0..(a.tiles - 1))

TileSizes(a, n) == [batch |-> n, height |-> a.out, K |-> a.in, width |-> a.tiles,
                    transA |-> FALSE, transB |-> FALSE]

LEMMA BatchSizes ==
  ASSUME NEW a, IsBatch(a)
  PROVE  /\ a.arch \in Arch /\ a.batch \in Pos /\ a.in \in Pos /\ a.out \in Pos /\ a.tiles \in Pos /\ a.area \in Pos
         /\ a.batch \in Nat /\ a.in \in Nat /\ a.out \in Nat /\ a.tiles \in Nat /\ a.area \in Nat
         /\ \A n \in Nat : HasSizes(TileSizes(a, n))
<1>1. a.arch \in Arch /\ a.batch \in Pos /\ a.in \in Pos /\ a.out \in Pos /\ a.tiles \in Pos /\ a.area \in Pos
  BY DEF IsBatch, Pos
<1> QED BY <1>1 DEF HasSizes, TileSizes, Pos

LEMMA TileSpotsDiffer ==
  ASSUME NEW a, IsBatch(a), NEW y \in TileIndices(a), NEW z \in TileIndices(a), TileSpot(a, y) = TileSpot(a, z)
  PROVE  y = z
<1>1. PICK b \in 0..(a.batch - 1), i \in 0..(a.area - 1), m \in 0..(a.out - 1), c \in 0..(a.in - 1),
           t \in 0..(a.tiles - 1) : y = <<b, i, m, c, t>>
  BY DEF TileIndices
<1>2. PICK e \in 0..(a.batch - 1), k \in 0..(a.area - 1), n \in 0..(a.out - 1), l \in 0..(a.in - 1),
           s \in 0..(a.tiles - 1) : z = <<e, k, n, l, s>>
  BY DEF TileIndices
<1>3. /\ InC(a.out, a.tiles, b * a.area + i, m, t) = InC(a.out, a.tiles, e * a.area + k, n, s)
      /\ InC(a.out, a.in, i, m, c) = InC(a.out, a.in, k, n, l)
  BY <1>1, <1>2 DEF TileSpot
<1>4. /\ a.in \in Pos /\ a.out \in Pos /\ a.tiles \in Pos /\ a.area \in Pos
      /\ a.batch \in Nat /\ a.area \in Nat
  BY BatchSizes
<1>5. b \in Nat /\ e \in Nat /\ i \in Nat /\ k \in Nat
  BY <1>4
<1>6. b * a.area + i \in Nat /\ e * a.area + k \in Nat
  <2> DEFINE Q == a.area
  <2>1. Q \in Nat
    BY <1>4
  <2> HIDE DEF Q
  <2>2. b * Q \in Nat /\ e * Q \in Nat
    BY <1>5, <2>1
  <2>3. b * Q + i \in Nat /\ e * Q + k \in Nat
    BY <1>5, <2>2
  <2> QED BY <2>3 DEF Q
<1>7. b * a.area + i = e * a.area + k /\ m = n /\ t = s
  <2> DEFINE u == b * a.area + i  v == e * a.area + k  h == a.out  w == a.tiles
  <2>1. /\ h \in Pos /\ w \in Pos /\ u \in Nat /\ v \in Nat /\ m \in 0..(h - 1) /\ n \in 0..(h - 1)
        /\ t \in 0..(w - 1) /\ s \in 0..(w - 1) /\ InC(h, w, u, m, t) = InC(h, w, v, n, s)
    BY <1>3, <1>4, <1>6
  <2> HIDE DEF u, v, h, w
  <2>2. u = v /\ m = n /\ t = s
    BY <2>1, CDiffers
  <2> QED BY <2>2 DEF u, v
<1>8. b = e /\ i = k
  BY <1>4, <1>5, <1>7, Digits
<1>9. c = l
  <2> DEFINE h == a.out  w == a.in
  <2>1. /\ h \in Pos /\ w \in Pos /\ m \in 0..(h - 1) /\ n \in 0..(h - 1)
        /\ c \in 0..(w - 1) /\ l \in 0..(w - 1) /\ InC(h, w, i, m, c) = InC(h, w, k, n, l)
    BY <1>3, <1>4
  <2> HIDE DEF h, w
  <2> QED BY <1>5, <2>1, CDiffers
<1> QED BY <1>1, <1>2, <1>7, <1>8, <1>9

LEMMA TileProductsAre ==
  ASSUME NEW a, IsBatch(a)
  PROVE  /\ TileProducts(a.batch, a.in, a.out, a.tiles, a.area) = {TileSpot(a, y) : y \in TileIndices(a)}
         /\ IsFiniteSet({TileSpot(a, y) : y \in TileIndices(a)})
<1> DEFINE B == 0..(a.batch - 1)  Q == 0..(a.area - 1)  M == 0..(a.out - 1)  C == 0..(a.in - 1)
           N == 0..(a.tiles - 1)
           G(b, i, m, c, t) == <<InC(a.out, a.tiles, b * a.area + i, m, t), InC(a.out, a.in, i, m, c),
                                 InC(a.in, a.tiles, b * a.area + i, c, t)>>
           R == TileProducts(a.batch, a.in, a.out, a.tiles, a.area)
           S == {TileSpot(a, y) : y \in TileIndices(a)}
           P == (B \X Q) \X (M \X (C \X N))
           f == [p \in P |-> G(p[1][1], p[1][2], p[2][1], p[2][2][1], p[2][2][2])]
<1>1. R = {G(b, i, m, c, t) : b \in B, i \in Q, m \in M, c \in C, t \in N}
  BY DEF TileProducts, InC
<1>2. \A b, i, m, c, t : TileSpot(a, <<b, i, m, c, t>>) = G(b, i, m, c, t)
  BY DEF TileSpot
<1>3. TileIndices(a) = B \X Q \X M \X C \X N
  BY DEF TileIndices
<1>4. IsFiniteSet(B) /\ IsFiniteSet(Q) /\ IsFiniteSet(M) /\ IsFiniteSet(C) /\ IsFiniteSet(N)
  <2>1. \A x \in Int : IsFiniteSet(0..x)
    BY FS_Interval
  <2>2. a.batch - 1 \in Int /\ a.area - 1 \in Int /\ a.out - 1 \in Int /\ a.in - 1 \in Int /\ a.tiles - 1 \in Int
    BY BatchSizes
  <2> QED BY <2>1, <2>2
<1> HIDE DEF B, Q, M, C, N, G, R
<1>5. IsFiniteSet(P)
  <2>1. IsFiniteSet(B \X Q) /\ IsFiniteSet(C \X N)
    BY <1>4, FS_Product
  <2>2. IsFiniteSet(M \X (C \X N))
    BY <1>4, <2>1, FS_Product
  <2> QED BY <2>1, <2>2, FS_Product
<1>6. ASSUME NEW r \in R PROVE \E b \in B, i \in Q, m \in M, c \in C, t \in N :
                                   r = G(b, i, m, c, t) /\ <<b, i, m, c, t>> \in TileIndices(a)
  BY <1>1, <1>3
<1>7. ASSUME NEW y \in TileIndices(a)
      PROVE  \E b \in B, i \in Q, m \in M, c \in C, t \in N :
               y = <<b, i, m, c, t>> /\ TileSpot(a, y) = G(b, i, m, c, t)
  BY <1>2, <1>3
<1>8. R = S
  <2>1. ASSUME NEW r \in R PROVE r \in S
    <3>1. PICK b \in B, i \in Q, m \in M, c \in C, t \in N :
            r = G(b, i, m, c, t) /\ <<b, i, m, c, t>> \in TileIndices(a)
      BY <1>6, Zenon
    <3> QED BY <1>2, <3>1
  <2>2. ASSUME NEW y \in TileIndices(a) PROVE TileSpot(a, y) \in R
    BY <1>1, <1>7
  <2> QED BY <2>1, <2>2
<1>9. f \in [P -> R]
  <2>1. ASSUME NEW p \in P PROVE f[p] \in R
    <3>1. p[1][1] \in B /\ p[1][2] \in Q /\ p[2][1] \in M /\ p[2][2][1] \in C /\ p[2][2][2] \in N
      OBVIOUS
    <3> QED BY <1>1, <3>1
  <2> QED BY <2>1
<1>10. Onto(f, P, R)
  <2>1. ASSUME NEW r \in R PROVE \E p \in P : f[p] = r
    <3>1. PICK b \in B, i \in Q, m \in M, c \in C, t \in N :
            r = G(b, i, m, c, t) /\ <<b, i, m, c, t>> \in TileIndices(a)
      BY <1>6, Zenon
    <3> DEFINE p == <<<<b, i>>, <<m, <<c, t>>>>>>
    <3>2. p \in P /\ p[1][1] = b /\ p[1][2] = i /\ p[2][1] = m /\ p[2][2][1] = c /\ p[2][2][2] = t
      OBVIOUS
    <3>3. f[p] = G(b, i, m, c, t)
      <4> HIDE DEF p, P
      <4> QED BY <3>2
    <3> QED BY <3>1, <3>2, <3>3
  <2> HIDE DEF f, P
  <2> QED BY <2>1 DEF Onto
<1>11. IsFiniteSet(R)
  <2> HIDE DEF f, P
  <2> QED BY <1>5, <1>9, <1>10, ImageFinite
<1> QED BY <1>8, <1>11 DEF R

(* The terms of one product, and where they are in the whole.              *)
Shifted(a, b, i, t) ==
  <<(b * a.area + i) * a.out * a.tiles + t[1], i * a.out * a.in + t[2],
    (b * a.area + i) * a.in * a.tiles + t[3], t[4]>>

LEMMA ShiftedSpot ==
  ASSUME NEW a, IsBatch(a), NEW b \in 0..(a.batch - 1), NEW i \in 0..(a.area - 1),
         NEW m \in 0..(a.out - 1), NEW c \in 0..(a.in - 1), NEW j \in 0..(a.tiles - 1), NEW t,
         Product(t) = Spot(TileSizes(a, 1), <<0, m, c, j>>)
  PROVE  Product(Shifted(a, b, i, t)) = TileSpot(a, <<b, i, m, c, j>>)
<1> DEFINE M == a.out  N == a.tiles  C == a.in  Q == a.area  u == b * Q + i  d == TileSizes(a, 1)
<1>1. /\ M \in Nat /\ N \in Nat /\ C \in Nat /\ Q \in Nat
      /\ b \in Nat /\ i \in Nat /\ m \in Nat /\ c \in Nat /\ j \in Nat
  BY BatchSizes
<1>2. u \in Nat
  <2> HIDE DEF Q
  <2>1. b * Q \in Nat
    BY <1>1
  <2> QED BY <1>1, <2>1
<1>3. Spot(d, <<0, m, c, j>>) = <<InC(M, N, 0, m, j), InA(M, C, FALSE, 0, m, c), InB(C, N, FALSE, 0, c, j)>>
  BY DEF Spot, TileSizes
<1>4. t[1] = InC(M, N, 0, m, j) /\ t[2] = InA(M, C, FALSE, 0, m, c) /\ t[3] = InB(C, N, FALSE, 0, c, j)
  <2>1. Product(t) = Spot(d, <<0, m, c, j>>)
    OBVIOUS
  <2> HIDE DEF d
  <2>2. <<t[1], t[2], t[3]>> = <<InC(M, N, 0, m, j), InA(M, C, FALSE, 0, m, c), InB(C, N, FALSE, 0, c, j)>>
    BY <1>3, <2>1 DEF Product
  <2> QED BY <2>2
<1>5. Product(Shifted(a, b, i, t)) = <<u * M * N + t[1], i * M * C + t[2], u * C * N + t[3]>>
  BY DEF Product, Shifted
<1>6. TileSpot(a, <<b, i, m, c, j>>) = <<InC(M, N, u, m, j), InC(M, C, i, m, c), InC(C, N, u, c, j)>>
  BY DEF TileSpot
<1> HIDE DEF M, N, C, Q, u, d
<1>7. t[1] = m * N + j /\ t[2] = m * C + c /\ t[3] = c * N + j
  <2>1. 0 * M + m = m /\ 0 * M * C = 0 /\ 0 * C * N = 0
    BY <1>1
  <2>2. m * C \in Nat /\ c * N \in Nat
    BY <1>1
  <2>3. InC(M, N, 0, m, j) = m * N + j
    BY <2>1 DEF InC
  <2>4. InA(M, C, FALSE, 0, m, c) = m * C + c
    BY <1>1, <2>1, <2>2 DEF InA
  <2>5. InB(C, N, FALSE, 0, c, j) = c * N + j
    BY <1>1, <2>1, <2>2 DEF InB
  <2> QED BY <1>4, <2>3, <2>4, <2>5
<1>8. u * M * N + (m * N + j) = InC(M, N, u, m, j)
  BY <1>1, <1>2, Flattened
<1>9. i * M * C + (m * C + c) = InC(M, C, i, m, c)
  BY <1>1, Flattened
<1>10. u * C * N + (c * N + j) = InC(C, N, u, c, j)
  BY <1>1, <1>2, Flattened
<1>11. Product(Shifted(a, b, i, t)) = <<InC(M, N, u, m, j), InC(M, C, i, m, c), InC(C, N, u, c, j)>>
  BY <1>5, <1>7, <1>8, <1>9, <1>10
<1> QED BY <1>6, <1>11

LEMMA SeveralBatches ==
  ASSUME NEW a, IsBatch(a), a.batch # 1
  PROVE  AddsUp(BatchGemm(a.arch, a.batch, a.in, a.out, a.tiles, a.area),
                TileProducts(a.batch, a.in, a.out, a.tiles, a.area))
<1> DEFINE d == TileSizes(a, 1)
           G == GemmTerms(a.arch, 1, a.out, a.in, a.tiles, FALSE, FALSE)
           B == 0..(a.batch - 1)  Q == 0..(a.area - 1)
           T == BatchGemm(a.arch, a.batch, a.in, a.out, a.tiles, a.area)
           E == {TileSpot(a, y) : y \in TileIndices(a)}
           M == 0..(a.out - 1)  C == 0..(a.in - 1)  N == 0..(a.tiles - 1)
<1>1. Places(G, d, Indices4(d))
  <2>1. HasSizes(d) /\ a.arch \in Arch
    BY BatchSizes
  <2>2. SameLayout(d)
    BY DEF SameLayout, TileSizes
  <2>3. Places(GemmTerms(a.arch, d.batch, d.height, d.K, d.width, d.transA, d.transB), d, Indices4(d))
    <3> HIDE DEF d
    <3> QED BY <2>1, <2>2, GemmPlaces
  <2>4. GemmTerms(a.arch, d.batch, d.height, d.K, d.width, d.transA, d.transB) = G
    BY DEF TileSizes
  <2> QED BY <2>3, <2>4
<1> DEFINE V(b, i) == {Shifted(a, b, i, t) : t \in G}
<1>2. T = UNION {V(b, i) : b \in B, i \in Q}
  BY DEF BatchGemm, Shifted
<1>3. Indices4(d) = {0} \X M \X C \X N
  <2>1. 0..(1 - 1) = {0}
    OBVIOUS
  <2>2. Indices4(d) = (0..(1 - 1)) \X M \X C \X N
    BY DEF Indices4, TileSizes
  <2> QED BY <2>1, <2>2
<1>4. TileIndices(a) = B \X Q \X M \X C \X N
  BY DEF TileIndices
<1> HIDE DEF d, G, T, B, Q, M, C, N
<1>5. ASSUME NEW b \in B, NEW i \in Q, NEW t \in G
      PROVE  \E m \in M, c \in C, j \in N :
               /\ Product(t) = Spot(d, <<0, m, c, j>>) /\ <<0, m, c, j>> \in Indices4(d)
               /\ Product(Shifted(a, b, i, t)) = TileSpot(a, <<b, i, m, c, j>>)
               /\ <<b, i, m, c, j>> \in TileIndices(a)
  <2>1. PICK x \in Indices4(d) : Product(t) = Spot(d, x)
    BY <1>1 DEF Places
  <2>2. PICK m \in M, c \in C, j \in N : x = <<0, m, c, j>>
    BY <1>3
  <2>3. Product(Shifted(a, b, i, t)) = TileSpot(a, <<b, i, m, c, j>>)
    BY <2>1, <2>2, ShiftedSpot DEF d, B, Q, M, C, N
  <2>4. <<b, i, m, c, j>> \in TileIndices(a)
    BY <1>4
  <2> QED BY <2>1, <2>2, <2>3, <2>4
<1>6. ASSUME NEW s \in T PROVE \E b \in B, i \in Q, t \in G : s = Shifted(a, b, i, t)
  <2>1. PICK b \in B, i \in Q : s \in V(b, i)
    <3> HIDE DEF V
    <3> QED BY <1>2
  <2> QED BY <2>1
<1>7. ASSUME NEW b \in B, NEW i \in Q, NEW t \in G PROVE Shifted(a, b, i, t) \in T
  <2>1. Shifted(a, b, i, t) \in V(b, i)
    OBVIOUS
  <2> HIDE DEF V
  <2> QED BY <1>2, <2>1
<1>8. Products(T) = E
  <2>1. ASSUME NEW s \in T PROVE Product(s) \in E
    <3>1. PICK b \in B, i \in Q, t \in G : s = Shifted(a, b, i, t)
      BY <1>6
    <3>2. PICK m \in M, c \in C, j \in N :
            /\ Product(Shifted(a, b, i, t)) = TileSpot(a, <<b, i, m, c, j>>)
            /\ <<b, i, m, c, j>> \in TileIndices(a)
      BY <1>5
    <3> QED BY <3>1, <3>2
  <2>2. ASSUME NEW y \in TileIndices(a) PROVE \E s \in T : Product(s) = TileSpot(a, y)
    <3>1. PICK b \in B, i \in Q, m \in M, c \in C, j \in N : y = <<b, i, m, c, j>>
      BY <1>4
    <3>2. <<0, m, c, j>> \in Indices4(d)
      BY <1>3
    <3>3. PICK t \in G : Product(t) = Spot(d, <<0, m, c, j>>)
      BY <1>1, <3>2 DEF Places
    <3>4. Product(Shifted(a, b, i, t)) = TileSpot(a, <<b, i, m, c, j>>)
      BY <3>3, ShiftedSpot DEF d, B, Q, M, C, N
    <3> QED BY <1>7, <3>1, <3>4
  <2>3. Products(T) = {Product(s) : s \in T}
    BY DEF Products, Product
  <2> QED BY <2>1, <2>2, <2>3
<1>9. ASSUME NEW s \in T, NEW r \in T, Product(s) = Product(r) PROVE s = r
  <2>1. PICK b \in B, i \in Q, t \in G : s = Shifted(a, b, i, t)
    BY <1>6
  <2>2. PICK e \in B, k \in Q, u \in G : r = Shifted(a, e, k, u)
    BY <1>6
  <2>3. PICK m \in M, c \in C, j \in N :
               /\ Product(t) = Spot(d, <<0, m, c, j>>)
               /\ Product(Shifted(a, b, i, t)) = TileSpot(a, <<b, i, m, c, j>>)
               /\ <<b, i, m, c, j>> \in TileIndices(a)
    BY <1>5
  <2>4. PICK n \in M, l \in C, o \in N :
               /\ Product(u) = Spot(d, <<0, n, l, o>>)
               /\ Product(Shifted(a, e, k, u)) = TileSpot(a, <<e, k, n, l, o>>)
               /\ <<e, k, n, l, o>> \in TileIndices(a)
    BY <1>5
  <2>5. <<b, i, m, c, j>> = <<e, k, n, l, o>>
    <3>1. TileSpot(a, <<b, i, m, c, j>>) = TileSpot(a, <<e, k, n, l, o>>)
      BY <1>9, <2>1, <2>2, <2>3, <2>4
    <3> QED BY <2>3, <2>4, <3>1, TileSpotsDiffer
  <2>6. b = e /\ i = k /\ m = n /\ c = l /\ j = o
    BY <2>5
  <2>7. t = u
    BY <1>1, <2>3, <2>4, <2>6 DEF Places
  <2> QED BY <2>1, <2>2, <2>6, <2>7
<1>10. AddsUp(T, E)
  <2>1. IsFiniteSet(E)
    BY TileProductsAre
  <2> HIDE DEF E
  <2> QED BY <1>8, <1>9, <2>1, OnceAddsUp DEF Once
<1> QED BY <1>10, TileProductsAre DEF T

LEMMA OneBatch ==
  ASSUME NEW a, IsBatch(a), a.batch = 1
  PROVE  AddsUp(BatchGemm(a.arch, a.batch, a.in, a.out, a.tiles, a.area),
                TileProducts(a.batch, a.in, a.out, a.tiles, a.area))
<1> DEFINE d == TileSizes(a, a.area)
           T == BatchGemm(a.arch, a.batch, a.in, a.out, a.tiles, a.area)
           Q == 0..(a.area - 1)  M == 0..(a.out - 1)  C == 0..(a.in - 1)  N == 0..(a.tiles - 1)
           E == {TileSpot(a, y) : y \in TileIndices(a)}
           R == {Spot(d, x) : x \in Indices4(d)}
<1>1. AddsUp(T, R)
  <2>1. HasSizes(d) /\ a.arch \in Arch
    BY BatchSizes
  <2>2. SameLayout(d)
    BY DEF SameLayout, TileSizes
  <2>3. T = GemmTerms(a.arch, d.batch, d.height, d.K, d.width, d.transA, d.transB)
    BY DEF TileSizes, BatchGemm
  <2> HIDE DEF d, T
  <2>4. Places(T, d, Indices4(d))
    BY <2>1, <2>2, <2>3, GemmPlaces
  <2> QED BY <2>1, <2>4, PlacesAddUp
<1>2. TileIndices(a) = {0} \X Q \X M \X C \X N
  <2>1. 0..(a.batch - 1) = {0}
    OBVIOUS
  <2> QED BY <2>1 DEF TileIndices
<1>3. Indices4(d) = Q \X M \X C \X N
  BY DEF Indices4, TileSizes
<1>4. ASSUME NEW i \in Q, NEW m \in M, NEW c \in C, NEW j \in N
      PROVE  Spot(d, <<i, m, c, j>>) = TileSpot(a, <<0, i, m, c, j>>)
  <2> DEFINE o == a.out  w == a.tiles  k == a.in  q == a.area
  <2>1. /\ o \in Nat /\ w \in Nat /\ k \in Nat /\ q \in Nat
        /\ i \in Nat /\ m \in Nat /\ c \in Nat /\ j \in Nat
    BY BatchSizes
  <2>2. Spot(d, <<i, m, c, j>>) = <<InC(o, w, i, m, j), InA(o, k, FALSE, i, m, c), InB(k, w, FALSE, i, c, j)>>
    BY DEF Spot, TileSizes
  <2>3. TileSpot(a, <<0, i, m, c, j>>) = <<InC(o, w, 0 * q + i, m, j), InC(o, k, i, m, c), InC(k, w, 0 * q + i, c, j)>>
    BY DEF TileSpot
  <2> HIDE DEF o, w, k, q, d, Q, M, C, N
  <2>4. 0 * q + i = i
    BY <2>1
  <2>5. InA(o, k, FALSE, i, m, c) = InC(o, k, i, m, c)
    BY <2>1, Flattened DEF InA
  <2>6. InB(k, w, FALSE, i, c, j) = InC(k, w, i, c, j)
    BY <2>1, Flattened DEF InB
  <2> QED BY <2>2, <2>3, <2>4, <2>5, <2>6
<1> HIDE DEF d, T, Q, M, C, N
<1>5. R = E
  <2>1. ASSUME NEW x \in Indices4(d) PROVE \E y \in TileIndices(a) : Spot(d, x) = TileSpot(a, y)
    <3>1. PICK i \in Q, m \in M, c \in C, j \in N : x = <<i, m, c, j>>
      BY <1>3
    <3>2. <<0, i, m, c, j>> \in TileIndices(a)
      BY <1>2
    <3> QED BY <1>4, <3>1, <3>2
  <2>2. ASSUME NEW y \in TileIndices(a) PROVE \E x \in Indices4(d) : Spot(d, x) = TileSpot(a, y)
    <3>1. PICK i \in Q, m \in M, c \in C, j \in N : y = <<0, i, m, c, j>>
      BY <1>2
    <3>2. <<i, m, c, j>> \in Indices4(d)
      BY <1>3
    <3> QED BY <1>4, <3>1, <3>2
  <2> QED BY <2>1, <2>2
<1>6. AddsUp(T, E)
  <2> HIDE DEF R, E
  <2> QED BY <1>1, <1>5
<1> QED BY <1>6, TileProductsAre DEF T

-----------------------------------------------------------------------------
(* For matrices of every size, transposed or not, in every build: blocks,  *)
(* register tiles and remainders together add up every product once, as    *)
(* gemm.cc does it for itself, for MatMul of tensors of any rank, for      *)
(* FullyConnected and for the batches of Winograd's BatchGemm.             *)
THEOREM ProductsAddUp ==
  ASSUME \A c \in Calls : /\ c.kernel = "gemm" => IsGemm(c.args)
                          /\ c.kernel = "matmul" => IsMatMul(c.args)
                          /\ c.kernel = "fullyconnected" => IsFullyConnected(c.args)
                          /\ c.kernel = "batch" => IsBatch(c.args)
  PROVE  Spec => []MatrixProductsRight
<1>1. Called => MatrixProductsRight
  <2> SUFFICES ASSUME call \in Calls PROVE MatrixProductsRight
    BY DEF Called, MatrixProductsRight, Idle
  <2> DEFINE a == call.args
  <2>1. ASSUME call.kernel = "gemm"
        PROVE  \/ a.width = 1 /\ a.transA /\ a.height > 1 /\ a.K > 1
               \/ AddsUp(GemmTerms(a.arch, a.batch, a.height, a.K, a.width, a.transA, a.transB),
                         GemmRef(a.batch, a.height, a.K, a.width, a.transA, a.transB))
    <3> HIDE DEF a
    <3>1. IsGemm(a)
      BY <2>1 DEF a
    <3>2. HasSizes(a) /\ a.arch \in Arch
      BY <3>1 DEF IsGemm, HasSizes, Pos
    <3>3. (a.width = 1 /\ a.transA /\ a.height > 1 /\ a.K > 1) \/ a.width # 1 \/ SameLayout(a)
      BY <3>2 DEF HasSizes, Pos, SameLayout
    <3> QED BY <3>2, <3>3, GemmAddsUp
  <2>2. ASSUME call.kernel = "matmul"
        PROVE  \/ /\ a.b[IF a.transB THEN Len(a.a) - 1 ELSE Len(a.a)] = 1 /\ a.transA
                  /\ a.a[Len(a.a) - 1] > 1 /\ a.a[Len(a.a)] > 1
               \/ AddsUp(MatMul(a.arch, a.a, a.b, a.transA, a.transB), MatrixProduct(a.a, a.b, a.transA, a.transB))
    <3> HIDE DEF a
    <3>1. IsMatMul(a)
      BY <2>2 DEF a
    <3>2. a.a[Len(a.a) - 1] \in Pos /\ a.a[Len(a.a)] \in Pos
      BY <3>1 DEF IsMatMul, Pos
    <3>3. \/ /\ a.b[IF a.transB THEN Len(a.a) - 1 ELSE Len(a.a)] = 1 /\ a.transA
             /\ a.a[Len(a.a) - 1] > 1 /\ a.a[Len(a.a)] > 1
          \/ a.b[IF a.transB THEN Len(a.a) - 1 ELSE Len(a.a)] # 1
          \/ ~a.transA \/ a.a[Len(a.a) - 1] = 1 \/ a.a[Len(a.a)] = 1
      BY <3>2 DEF Pos
    <3> QED BY <3>1, <3>3, MatMulAddsUp
  <2>3. ASSUME call.kernel = "fullyconnected"
        PROVE  AddsUp(FullyConnected(a.arch, a.in, a.weight),
                      {<<t[1], t[3], t[2]>> : t \in MatrixProduct(<<a.in[1], Elements(Tail(a.in))>>,
                                                     <<a.weight[1], Elements(Tail(a.weight))>>, FALSE, TRUE)})
    <3> HIDE DEF a
    <3>1. IsFullyConnected(a)
      BY <2>3 DEF a
    <3> DEFINE R == MatrixProduct(<<a.in[1], Elements(Tail(a.in))>>,
                                  <<a.weight[1], Elements(Tail(a.weight))>>, FALSE, TRUE)
               E == {Spot(Layer(a), y) : y \in Indices4(Layer(a))}
    <3>2. R = E
      BY <3>1, LayerExpected
    <3>3. AddsUp(FullyConnected(a.arch, a.in, a.weight), {Exchanged(t) : t \in E})
      BY <3>1, FullyConnectedAddsUp
    <3> HIDE DEF R, E
    <3>4. {<<t[1], t[3], t[2]>> : t \in R} = {Exchanged(t) : t \in E}
      BY <3>2 DEF Exchanged
    <3>5. AddsUp(FullyConnected(a.arch, a.in, a.weight), {<<t[1], t[3], t[2]>> : t \in R})
      BY <3>3, <3>4
    <3> QED BY <3>5 DEF R
  <2>4. ASSUME call.kernel = "batch"
        PROVE  AddsUp(BatchGemm(a.arch, a.batch, a.in, a.out, a.tiles, a.area),
                      TileProducts(a.batch, a.in, a.out, a.tiles, a.area))
    <3> HIDE DEF a
    <3>1. IsBatch(a)
      BY <2>4 DEF a
    <3> QED BY <3>1, OneBatch, SeveralBatches
  <2> QED BY <2>1, <2>2, <2>3, <2>4 DEF MatrixProductsRight
<1> QED BY <1>1, OnlyCalls, PTL
===============================================================================
