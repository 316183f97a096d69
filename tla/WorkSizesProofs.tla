---------------------------- MODULE WorkSizesProofs ----------------------------
(***************************************************************************)
(* How the items of an OpenCL kernel are cut into work groups, for any     *)
(* number of items, any device and any parameters: what the results about  *)
(* the kernels and about the functors have in common.                      *)
(***************************************************************************)
EXTENDS TLAPS, FiniteSets, LocalSizes, FiniteSetTheorems, SequenceTheorems

Pos == Nat \ {0}

-----------------------------------------------------------------------------
(* Natural numbers by induction: a set of numbers that has 0 and with each *)
(* number the next one.                                                    *)
LEMMA Counting ==
  ASSUME NEW S, NEW n \in Nat, 0 \in S, \A k \in 0..(n - 1) : k \in S => k + 1 \in S
  PROVE  \A k \in 0..n : k \in S
<1> SUFFICES ASSUME NEW m \in 0..n, m \notin S PROVE FALSE
  OBVIOUS
<1> DEFINE T == {k \in 0..(m - 1) : k \in S}
           f == [k \in T |-> k + 1]
<1>1. IsFiniteSet(T)
  <2>1. IsFiniteSet(0..(m - 1))
    BY FS_Interval
  <2> QED BY <2>1, FS_Subset
<1>2. \A k \in T : k + 1 \in T
  <2> SUFFICES ASSUME NEW k \in T PROVE k + 1 \in T
    OBVIOUS
  <2>1. k + 1 \in S /\ k + 1 \in 0..m
    OBVIOUS
  <2> QED BY <2>1
<1>3. 0 \in T /\ T \ {0} \subseteq T
  OBVIOUS
<1>4. f \in [T -> T \ {0}]
  <2>1. \A k \in T : k + 1 # 0
    OBVIOUS
  <2> QED BY <1>2, <2>1
<1>5. \A k, l \in T : f[k] = f[l] => k = l
  OBVIOUS
<1> HIDE DEF f, T
<1>6. IsFiniteSet(T \ {0}) /\ Cardinality(T \ {0}) < Cardinality(T)
  <2>1. IsFiniteSet(T \ {0}) /\ Cardinality(T \ {0}) = Cardinality(T) - 1
    BY <1>1, <1>3, FS_RemoveElement
  <2>2. Cardinality(T) \in Nat
    BY <1>1, FS_CardinalityType
  <2> QED BY <2>1, <2>2
<1>7. \E k, l \in T : k # l /\ f[k] = f[l]
  BY <1>1, <1>4, <1>6, FS_PigeonHole
<1> QED BY <1>5, <1>7

(* Division.                                                               *)
LEMMA Division ==
  ASSUME NEW a \in Nat, NEW b \in Pos
  PROVE  a \div b \in Nat /\ (a \div b) * b <= a /\ a < (a \div b) * b + b
BY DEF Pos

LEMMA Multiples ==
  ASSUME NEW a \in Nat, NEW b \in Pos
  PROVE  a * b \in Nat /\ (a * b) % b = 0
BY DEF Pos

LEMMA Monotone ==
  ASSUME NEW i \in Nat, NEW j \in Nat, NEW b \in Nat, i <= j
  PROVE  i * b <= j * b
<1>1. PICK d \in Nat : j = i + d
  <2>1. j - i \in Nat /\ j = i + (j - i)
    OBVIOUS
  <2> QED BY <2>1
<1>2. j * b = i * b + d * b /\ d * b \in Nat /\ i * b \in Nat
  BY <1>1
<1> QED BY <1>2

LEMMA Rounded ==
  ASSUME NEW i \in Nat, NEW f \in Pos
  PROVE  /\ RoundUp(i, f) \in Nat /\ i <= RoundUp(i, f) /\ RoundUp(i, f) % f = 0
<1>1. PICK q : q = (i + f - 1) \div f
  OBVIOUS
<1>2. i + f - 1 \in Nat
  BY DEF Pos
<1>3. q \in Nat /\ q * f <= i + f - 1 /\ i + f - 1 < q * f + f
  BY <1>1, <1>2, Division
<1>4. (q * f) % f = 0 /\ q * f \in Nat
  BY <1>3, Multiples
<1> QED BY <1>1, <1>3, <1>4 DEF RoundUp, Pos

LEMMA OneBlock ==
  ASSUME NEW x \in Nat, NEW b \in Pos, NEW i \in Nat, NEW j \in Nat,
         i * b <= x, x < i * b + b, j * b <= x, x < j * b + b
  PROVE  i = j
<1>1. ASSUME NEW k \in Nat, NEW l \in Nat, k * b <= x, x < k * b + b, l * b <= x, x < l * b + b
      PROVE  ~(k < l)
  <2>1. ASSUME k < l PROVE FALSE
    <3>1. k + 1 \in Nat /\ k + 1 <= l /\ b \in Nat
      BY <2>1 DEF Pos
    <3>2. (k + 1) * b <= l * b
      BY <3>1, Monotone
    <3>3. (k + 1) * b = k * b + b
      BY DEF Pos
    <3> QED BY <1>1, <3>2, <3>3 DEF Pos
  <2> QED BY <2>1
<1>2. ~(i < j) /\ ~(j < i)
  BY <1>1
<1> QED BY <1>2

(* Into how many blocks a range is cut, and how long the last one is.      *)
LEMMA Blocks ==
  ASSUME NEW a \in Pos, NEW b \in Pos
  PROVE  \E k \in Pos : /\ k = RoundUpDiv(a, b) /\ a <= k * b
                         /\ (k - 1) * b < a /\ a - (k - 1) * b <= b
<1>0. PICK k : k = RoundUpDiv(a, b)
  OBVIOUS
<1>1. a + b - 1 \in Nat
  BY DEF Pos
<1>2. k \in Nat /\ k * b <= a + b - 1 /\ a + b - 1 < k * b + b
  BY <1>0, <1>1, Division DEF RoundUpDiv
<1>3. k * b \in Nat /\ a <= k * b
  BY <1>2 DEF Pos
<1>4. k # 0
  BY <1>3 DEF Pos
<1>5. (k - 1) * b = k * b - b
  BY <1>2 DEF Pos
<1> QED BY <1>0, <1>2, <1>3, <1>4, <1>5 DEF Pos

-----------------------------------------------------------------------------
(* The number of elements of a shape of any rank.                          *)
Counts(f, s, m) ==
  /\ f \in [0..m -> Nat] /\ f[0] = 1 /\ \A k \in 1..m : f[k] = f[k - 1] * s[k]

LEMMA ElementsGrow ==
  ASSUME NEW s \in Seq(Nat)
  PROVE  \E h : /\ h[0] = 1 /\ \A k \in 0..(Len(s) - 1) : h[k + 1] = h[k] * s[k + 1]
                /\ Elements(s) = h[Len(s)]
<1> DEFINE n == Len(s)
           G(g) == [m \in 0..n |-> IF m = 0 THEN 1 ELSE g[m - 1] * s[m]]
           S == {m \in 0..n : \E f : Counts(f, s, m)}
<1>0. n \in Nat /\ \A m \in 1..n : s[m] \in Nat
  OBVIOUS
<1> HIDE DEF n
<1>1. 0 \in S
  <2>1. Counts([m \in 0..0 |-> 1], s, 0)
    BY DEF Counts
  <2> QED BY <1>0, <2>1
<1>2. ASSUME NEW k \in 0..(n - 1), k \in S PROVE k + 1 \in S
  <2>1. PICK f : Counts(f, s, k)
    BY <1>2
  <2> DEFINE g == [m \in 0..(k + 1) |-> IF m = k + 1 THEN f[k] * s[k + 1] ELSE f[m]]
  <2>2. f \in [0..k -> Nat] /\ f[0] = 1 /\ \A m \in 1..k : f[m] = f[m - 1] * s[m]
    BY <2>1 DEF Counts
  <2>3. k \in Nat /\ k + 1 \in 1..n /\ s[k + 1] \in Nat /\ f[k] \in Nat
    BY <1>0, <2>2
  <2>4. f[k] * s[k + 1] \in Nat
    BY <2>3
  <2>5. g \in [0..(k + 1) -> Nat]
    BY <2>2, <2>3, <2>4
  <2>6. g[0] = 1
    BY <2>2, <2>3
  <2>7. ASSUME NEW m \in 1..(k + 1) PROVE g[m] = g[m - 1] * s[m]
    <3>1. CASE m = k + 1
      <4>1. g[m] = f[k] * s[k + 1] /\ g[m - 1] = f[k]
        BY <2>3, <3>1
      <4> QED BY <3>1, <4>1
    <3>2. CASE m # k + 1
      <4>1. m \in 1..k /\ m - 1 \in 0..k
        BY <2>3, <3>2
      <4>2. g[m] = f[m] /\ g[m - 1] = f[m - 1]
        BY <2>3, <4>1
      <4> QED BY <2>2, <4>1, <4>2
    <3> QED BY <3>1, <3>2
  <2> HIDE DEF g
  <2>8. Counts(g, s, k + 1)
    BY <2>5, <2>6, <2>7 DEF Counts
  <2> QED BY <1>0, <2>3, <2>8
<1>3. n \in S
  <2> HIDE DEF S
  <2>1. \A k \in 0..n : k \in S
    BY <1>0, <1>1, <1>2, Counting
  <2> QED BY <1>0, <2>1
<1>4. PICK f : Counts(f, s, n)
  BY <1>3
<1>5. f = G(f)
  BY <1>0, <1>4 DEF Counts
<1>6. PICK h : h = G(h) /\ Elements(s) = h[n]
  <2>1. Elements(s) = (CHOOSE g : g = G(g))[n]
    BY DEF Elements, n
  <2> QED BY <1>5, <2>1
<1>7. h[0] = 1 /\ \A k \in 0..(n - 1) : h[k + 1] = h[k] * s[k + 1]
  <2>1. \A m \in 0..n : h[m] = IF m = 0 THEN 1 ELSE h[m - 1] * s[m]
    BY <1>6
  <2>2. \A k \in 0..(n - 1) : k + 1 \in 0..n /\ k + 1 # 0 /\ (k + 1) - 1 = k
    BY <1>0
  <2>3. 0 \in 0..n
    BY <1>0
  <2> QED BY <2>1, <2>2, <2>3
<1> QED BY <1>6, <1>7 DEF n

LEMMA ElementsCounted ==
  /\ \A s \in Seq(Nat) : Elements(s) \in Nat
  /\ \A s \in Seq(Pos) : Elements(s) \in Pos
<1>1. ASSUME NEW s \in Seq(Nat), NEW X, X = Nat \/ X = Pos, s \in Seq(X) PROVE Elements(s) \in X
  <2>0. Len(s) \in Nat /\ \A m \in 1..Len(s) : s[m] \in X
    BY <1>1
  <2>1. PICK n \in Nat : n = Len(s)
    BY <2>0
  <2>2. PICK h : /\ h[0] = 1 /\ \A k \in 0..(n - 1) : h[k + 1] = h[k] * s[k + 1]
                 /\ Elements(s) = h[n]
    BY <1>1, <2>1, ElementsGrow
  <2> DEFINE T == {m \in 0..n : h[m] \in X}
  <2>3. 0 \in T
    <3>1. 1 \in X
      BY <1>1 DEF Pos
    <3>2. h[0] \in X /\ 0 \in 0..n
      BY <2>1, <2>2, <3>1
    <3> QED BY <3>2
  <2>4. ASSUME NEW k \in 0..(n - 1), k \in T PROVE k + 1 \in T
    <3>1. h[k] \in X /\ s[k + 1] \in X /\ k + 1 \in 0..n
      BY <2>0, <2>1, <2>4
    <3>2. h[k] * s[k + 1] \in X
      BY <1>1, <3>1 DEF Pos
    <3> QED BY <2>2, <3>1, <3>2
  <2>5. n \in T
    <3> HIDE DEF T
    <3>1. \A k \in 0..n : k \in T
      BY <2>1, <2>3, <2>4, Counting
    <3> QED BY <2>1, <3>1
  <2> QED BY <2>2, <2>5
<1>2. \A s : s \in Seq(Pos) => s \in Seq(Nat)
  BY DEF Pos
<1> QED BY <1>1, <1>2

(* The size of a group, which has two or three dimensions.                 *)
LEMMA TwoElements ==
  ASSUME NEW s \in [1..2 -> Nat], Len(s) = 2
  PROVE  Elements(s) = s[1] * s[2]
<1>1. PICK f : f = [n \in 0..2 |-> IF n = 0 THEN 1 ELSE IF n = 1 THEN s[1] ELSE s[1] * s[2]]
  OBVIOUS
<1>2. f[0] = 1 /\ f[1] = f[0] * s[1] /\ f[2] = f[1] * s[2]
  BY <1>1
<1>3. f = [n \in 0..2 |-> IF n = 0 THEN 1 ELSE f[n - 1] * s[n]]
  BY <1>1, <1>2
<1>4. PICK g : g = [n \in 0..2 |-> IF n = 0 THEN 1 ELSE g[n - 1] * s[n]] /\ Elements(s) = g[2]
  <2>1. Elements(s) = (CHOOSE g : g = [n \in 0..2 |-> IF n = 0 THEN 1 ELSE g[n - 1] * s[n]])[2]
    BY DEF Elements
  <2> QED BY <1>3, <2>1
<1>5. g[0] = 1 /\ g[1] = g[0] * s[1] /\ g[2] = g[1] * s[2]
  BY <1>4
<1> QED BY <1>4, <1>5

LEMMA ThreeElements ==
  ASSUME NEW s \in [1..3 -> Nat], Len(s) = 3
  PROVE  Elements(s) = s[1] * s[2] * s[3]
<1>1. PICK f : f = [n \in 0..3 |-> IF n = 0 THEN 1 ELSE IF n = 1 THEN s[1]
                                   ELSE IF n = 2 THEN s[1] * s[2] ELSE s[1] * s[2] * s[3]]
  OBVIOUS
<1>2. f[0] = 1 /\ f[1] = f[0] * s[1] /\ f[2] = f[1] * s[2] /\ f[3] = f[2] * s[3]
  BY <1>1
<1>3. f = [n \in 0..3 |-> IF n = 0 THEN 1 ELSE f[n - 1] * s[n]]
  BY <1>1, <1>2
<1>4. PICK g : g = [n \in 0..3 |-> IF n = 0 THEN 1 ELSE g[n - 1] * s[n]] /\ Elements(s) = g[3]
  <2>1. Elements(s) = (CHOOSE g : g = [n \in 0..3 |-> IF n = 0 THEN 1 ELSE g[n - 1] * s[n]])[3]
    BY DEF Elements
  <2> QED BY <1>3, <2>1
<1>5. g[0] = 1 /\ g[1] = g[0] * s[1] /\ g[2] = g[1] * s[2] /\ g[3] = g[2] * s[3]
  BY <1>4
<1> QED BY <1>4, <1>5

LEMMA Factors ==
  /\ \A a, b \in Nat : a * b > 0 => a > 0 /\ b > 0
  /\ \A a, b, c \in Nat : a * b * c > 0 => a > 0 /\ b > 0 /\ c > 0
<1>1. \A a, b \in Nat : a * b \in Nat /\ (a * b > 0 => a > 0 /\ b > 0)
  OBVIOUS
<1> QED BY <1>1

(* Parameters that a device can run.                                       *)
Runs(params, n, device) ==
  /\ params \in [1..(n + 1) -> Nat] /\ Len(params) = n + 1
  /\ device.maxGroup \in Pos /\ Elements(Group(params)) \in 1..device.maxGroup

LEMMA GroupsAre ==
  ASSUME NEW n \in {2, 3}, NEW params \in [1..(n + 1) -> Nat], Len(params) = n + 1
  PROVE  /\ DOMAIN Group(params) = 1..n /\ \A d \in 1..n : Group(params)[d] = params[d]
         /\ n = 2 => Elements(Group(params)) = params[1] * params[2]
         /\ n = 3 => Elements(Group(params)) = params[1] * params[2] * params[3]
         /\ Elements(Group(params)) > 0 => \A d \in 1..n : params[d] \in Pos
<1>1. PICK g : g = Group(params)
  OBVIOUS
<1>2. params \in Seq(Nat)
  OBVIOUS
<1>3. g = SubSeq(params, 1, n)
  BY <1>1 DEF Group
<1>4. g \in [1..n -> Nat] /\ Len(g) = n /\ \A d \in 1..n : g[d] = params[d]
  <2>1. g \in Seq(Nat) /\ Len(g) = n
    BY <1>2, <1>3
  <2>2. \A d \in 1..n : g[d] = params[d]
    BY <1>2, <1>3
  <2> QED BY <2>1, <2>2
<1>5. n = 2 => Elements(g) = params[1] * params[2]
  BY <1>4, TwoElements
<1>6. n = 3 => Elements(g) = params[1] * params[2] * params[3]
  BY <1>4, ThreeElements
<1>7. ASSUME Elements(g) > 0, NEW d \in 1..n PROVE params[d] \in Pos
  <2>1. CASE n = 2
    <3>1. params[1] > 0 /\ params[2] > 0
      BY <1>5, <1>7, <2>1, Factors
    <3> QED BY <2>1, <3>1 DEF Pos
  <2>2. CASE n = 3
    <3>1. params[1] > 0 /\ params[2] > 0 /\ params[3] > 0
      BY <1>6, <1>7, <2>2, Factors
    <3> QED BY <2>2, <3>1 DEF Pos
  <2> QED BY <2>1, <2>2
<1> QED BY <1>1, <1>4, <1>5, <1>6, <1>7

LEMMA RunsMeans ==
  ASSUME NEW n \in {2, 3}, NEW params, NEW device, Runs(params, n, device)
  PROVE  /\ DOMAIN Group(params) = 1..n /\ \A d \in 1..n : Group(params)[d] = params[d]
         /\ \A d \in 1..n : params[d] \in Pos
<1>1. /\ params \in [1..(n + 1) -> Nat] /\ Len(params) = n + 1
      /\ Elements(Group(params)) > 0
  BY DEF Runs, Pos
<1> QED BY <1>1, GroupsAre

-----------------------------------------------------------------------------
(* Sizes of two or three dimensions, an item of them, and what is run for  *)
(* them: no fewer, and whole groups where groups must be equal.            *)
IsSizes(gws, n) == gws \in [1..n -> Pos] /\ Len(gws) = n

WholeGroups(size, group, device) == device.nonUniform \/ size % group = 0

(* Where groups are equal, the block of parameters is a multiple of them.  *)
BlockAligned(params, n, device) ==
  params[n + 1] # 0 => WholeGroups(params[n + 1], params[n], device)

(* The parameters that are tried and computed.                             *)
LEMMA GroupOfTwo ==
  ASSUME NEW a \in Nat, NEW b \in Nat
  PROVE  /\ Elements(Group(<<a, b, 0>>)) = a * b /\ a * b \in Nat
         /\ <<a, b, 0>> \in [1..3 -> Nat] /\ Len(<<a, b, 0>>) = 3 /\ <<a, b, 0>>[3] = 0
<1>1. PICK p : p = <<a, b, 0>>
  OBVIOUS
<1>2. p \in [1..3 -> Nat] /\ Len(p) = 3 /\ p[1] = a /\ p[2] = b /\ p[3] = 0
  BY <1>1
<1>3. Elements(Group(p)) = p[1] * p[2]
  BY <1>2, GroupsAre
<1> QED BY <1>1, <1>2, <1>3

LEMMA GroupOfThree ==
  ASSUME NEW a \in Nat, NEW b \in Nat, NEW c \in Nat
  PROVE  /\ Elements(Group(<<a, b, c, 0>>)) = a * b * c /\ a * b * c \in Nat
         /\ <<a, b, c, 0>> \in [1..4 -> Nat] /\ Len(<<a, b, c, 0>>) = 4 /\ <<a, b, c, 0>>[4] = 0
<1>1. PICK p : p = <<a, b, c, 0>>
  OBVIOUS
<1>2. p \in [1..4 -> Nat] /\ Len(p) = 4 /\ p[1] = a /\ p[2] = b /\ p[3] = c /\ p[4] = 0
  BY <1>1
<1>3. Elements(Group(p)) = p[1] * p[2] * p[3]
  BY <1>2, GroupsAre
<1> QED BY <1>1, <1>2, <1>3

(* What still fits into a group when some of its dimensions are chosen.    *)
LEMMA Fits ==
  ASSUME NEW k \in Pos, NEW p \in Pos, p <= k
  PROVE  /\ k \div p \in Pos
         /\ \A x \in Nat : x <= k \div p => x * p \in Nat /\ x * p <= k
<1>1. PICK q : q = k \div p
  OBVIOUS
<1>2. q \in Nat /\ q * p <= k /\ k < q * p + p
  <2>1. k \in Nat
    BY DEF Pos
  <2> QED BY <1>1, <2>1, Division
<1>3. q # 0
  BY <1>2 DEF Pos
<1>4. ASSUME NEW x \in Nat, x <= q PROVE x * p \in Nat /\ x * p <= k
  <2>1. p \in Nat /\ x * p \in Nat /\ q * p \in Nat
    BY <1>2 DEF Pos
  <2>2. x * p <= q * p
    BY <1>2, <1>4, <2>1, Monotone
  <2> QED BY <1>2, <2>1, <2>2 DEF Pos
<1> QED BY <1>1, <1>2, <1>3, <1>4 DEF Pos

LEMMA GroupRuns ==
  ASSUME NEW a \in Pos, NEW b \in Pos, NEW c \in Pos, NEW device, device.maxGroup \in Pos,
         c * (a * b) <= device.maxGroup
  PROVE  Runs(<<a, b, c, 0>>, 3, device) /\ BlockAligned(<<a, b, c, 0>>, 3, device)
<1>1. a \in Nat /\ b \in Nat /\ c \in Nat
  BY DEF Pos
<1>2. a * b \in Pos
  BY <1>1 DEF Pos
<1>3. PICK m : m = a * b /\ m \in Pos
  BY <1>2
<1>4. c * m \in Pos /\ m * c = c * m
  BY <1>3 DEF Pos
<1>5. PICK p : p = <<a, b, c, 0>>
  OBVIOUS
<1>6. /\ Elements(Group(p)) = a * b * c
      /\ p \in [1..4 -> Nat] /\ Len(p) = 4 /\ p[4] = 0
  BY <1>1, <1>5, GroupOfThree
<1>7. Elements(Group(p)) \in 1..device.maxGroup
  BY <1>3, <1>4, <1>6 DEF Pos
<1> QED BY <1>5, <1>6, <1>7 DEF Runs, BlockAligned

LEMMA DefaultRuns ==
  ASSUME NEW gws, IsSizes(gws, 3), NEW device, device.maxGroup \in Pos, device.base \in Nat
  PROVE  /\ Runs(Default3DLocalWS(gws, device), 3, device)
         /\ BlockAligned(Default3DLocalWS(gws, device), 3, device)
<1>1. PICK k \in Pos : k = device.maxGroup
  OBVIOUS
<1>2. gws[2] \in Pos /\ gws[3] \in Pos
  BY DEF IsSizes
<1>3. PICK base \in Pos : base = Larger(device.base, 1)
  BY DEF Larger, Pos
<1>4. PICK l2 \in Pos : l2 = Smaller(gws[2], k) /\ l2 <= k
  BY <1>2 DEF Smaller, Pos
<1>5. k \div l2 \in Pos /\ \A x \in Nat : x <= k \div l2 => x * l2 \in Nat /\ x * l2 <= k
  BY <1>4, Fits
<1>6. PICK l3 \in Pos : l3 = Smaller(Smaller(gws[3], base), k \div l2) /\ l3 <= k \div l2
  BY <1>2, <1>5 DEF Smaller, Pos
<1>7. l2 * l3 = l3 * l2 /\ l3 * l2 \in Pos /\ l3 * l2 <= k
  <2>1. l2 \in Nat /\ l3 \in Nat
    BY DEF Pos
  <2> QED BY <1>5, <1>6, <2>1 DEF Pos
<1>8. PICK m \in Pos : m = l2 * l3 /\ m <= k
  BY <1>7
<1>9. k \div m \in Pos /\ \A x \in Nat : x <= k \div m => x * m \in Nat /\ x * m <= k
  BY <1>8, Fits
<1>10. PICK l1 \in Pos : l1 = Larger(Smaller(base, k \div m), 1) /\ l1 <= k \div m
  BY <1>9 DEF Larger, Smaller, Pos
<1>11. Default3DLocalWS(gws, device) = <<l1, l2, l3, 0>>
  BY <1>1, <1>3, <1>4, <1>6, <1>8, <1>10 DEF Default3DLocalWS
<1>12. l3 * (l1 * l2) <= k
  <2>1. l1 * m <= k
    BY <1>9, <1>10 DEF Pos
  <2>2. l3 * (l1 * l2) = l1 * (l2 * l3)
    BY DEF Pos
  <2> QED BY <1>8, <2>1, <2>2
<1>13. Runs(<<l1, l2, l3, 0>>, 3, device) /\ BlockAligned(<<l1, l2, l3, 0>>, 3, device)
  BY <1>1, <1>12, GroupRuns
<1> QED BY <1>11, <1>13

-----------------------------------------------------------------------------
(* Kernels that compute the size of their groups themselves: the first two *)
(* dimensions fit, and the third takes what remains.                       *)
AreGroups(p, device) == Runs(p, 3, device) /\ BlockAligned(p, 3, device)

LEMMA RestFits ==
  ASSUME NEW k \in Pos, NEW a \in Pos, NEW b \in Pos, a <= k \div b, b <= k, NEW wanted \in Nat
  PROVE  Rest(a, b, wanted, k) \in Pos /\ Rest(a, b, wanted, k) * (a * b) <= k
<1>1. PICK m : m = a * b
  OBVIOUS
<1>2. m \in Pos /\ m <= k
  <2>1. a \in Nat /\ b \in Nat
    BY DEF Pos
  <2>2. a * b <= k
    BY <2>1, Fits
  <2> QED BY <1>1, <2>1, <2>2 DEF Pos
<1>3. k \div m \in Pos /\ \A x \in Nat : x <= k \div m => x * m \in Nat /\ x * m <= k
  BY <1>2, Fits
<1>4. PICK r : r = Rest(a, b, wanted, k)
  OBVIOUS
<1>5. r \in Pos /\ r <= k \div m
  BY <1>1, <1>3, <1>4 DEF Rest, Larger, Smaller, Pos
<1>6. r * m <= k
  BY <1>3, <1>5 DEF Pos
<1> QED BY <1>1, <1>4, <1>5, <1>6

(* However small the device's cache.                                       *)
LEMMA OwnGroupsFit ==
  ASSUME NEW gws, IsSizes(gws, 3), NEW taps \in Pos, NEW d, d.maxGroup \in Pos, d.base \in Nat,
         d.cache \in Nat, d.units \in Pos
  PROVE  /\ AreGroups(ConcatLocalWS(gws, d), d)
         /\ AreGroups(CropLocalWS(gws, d), d)
         /\ AreGroups(PoolingLocalWS(gws, d), d)
         /\ AreGroups(SoftmaxLocalWS(gws, d), d)
         /\ AreGroups(ResizeLocalWS(gws, d), d)
         /\ AreGroups(Conv1x1LocalWS(gws, d), d)
         /\ AreGroups(Conv3x3LocalWS(gws, d), d)
         /\ AreGroups(ConvLocalWS(gws, taps, d), d)
         /\ AreGroups(DepthwiseLocalWS(gws, d), d)
<1>1. PICK k \in Pos : k = d.maxGroup
  OBVIOUS
<1>2. PICK g1 \in Pos, g2 \in Pos, g3 \in Pos : g1 = gws[1] /\ g2 = gws[2] /\ g3 = gws[3]
  BY DEF IsSizes
<1>3. PICK base \in Pos : base = Larger(d.base, 1)
  BY DEF Larger, Pos
<1>4. PICK l2 \in Pos : l2 = Smaller(gws[2], d.maxGroup) /\ l2 <= k
  BY <1>1, <1>2 DEF Smaller, Pos
<1>5. PICK room \in Pos : room = k \div l2
  BY <1>4, Fits
<1>6. \A x \in Nat, y \in Pos : x \div y \in Nat /\ (y <= x => x \div y \in Pos)
  <2> SUFFICES ASSUME NEW x \in Nat, NEW y \in Pos
               PROVE  x \div y \in Nat /\ (y <= x => x \div y \in Pos)
    OBVIOUS
  <2>1. x \div y \in Nat
    BY Division
  <2>2. ASSUME y <= x PROVE x \div y \in Pos
    <3>1. x \in Pos
      BY <2>2 DEF Pos
    <3> QED BY <2>2, <3>1, Fits
  <2> QED BY <2>1, <2>2
<1>7. ASSUME NEW l1 \in Pos, l1 <= room, NEW wanted \in Nat
      PROVE  AreGroups(<<l1, l2, Rest(l1, l2, wanted, d.maxGroup), 0>>, d)
  <2>1. PICK l3 : l3 = Rest(l1, l2, wanted, d.maxGroup)
    OBVIOUS
  <2>2. l3 \in Pos /\ l3 * (l1 * l2) <= d.maxGroup
    BY <1>1, <1>4, <1>5, <1>7, <2>1, RestFits
  <2> QED BY <2>1, <2>2, GroupRuns DEF AreGroups
<1>8. ASSUME NEW w \in Pos PROVE Smaller(w, room) \in Pos /\ Smaller(w, room) <= room
  BY DEF Smaller, Pos
<1>9. AreGroups(ConcatLocalWS(gws, d), d) /\ AreGroups(CropLocalWS(gws, d), d)
  <2>1. PICK l1 \in Pos : l1 = Smaller(base, room) /\ l1 <= room
    BY <1>8
  <2>2. ConcatLocalWS(gws, d) = <<l1, l2, Rest(l1, l2, base, d.maxGroup), 0>>
    BY <1>1, <1>3, <1>4, <1>5, <2>1 DEF ConcatLocalWS
  <2>3. CropLocalWS(gws, d) = <<l1, l2, Rest(l1, l2, base, d.maxGroup), 0>>
    BY <1>1, <1>3, <1>4, <1>5, <2>1 DEF CropLocalWS
  <2> QED BY <1>7, <2>1, <2>2, <2>3 DEF Pos
<1>10. AreGroups(SoftmaxLocalWS(gws, d), d)
  <2>1. PICK want \in Pos : want = IF gws[1] < base THEN gws[1] ELSE gws[1] \div base
    <3>1. g1 < base \/ base <= g1
      BY DEF Pos
    <3> QED BY <1>2, <1>6, <3>1 DEF Pos
  <2>2. PICK l1 \in Pos : l1 = Smaller(want, room) /\ l1 <= room
    BY <1>8
  <2>3. SoftmaxLocalWS(gws, d) = <<l1, l2, Rest(l1, l2, g3, d.maxGroup), 0>>
    BY <1>1, <1>2, <1>3, <1>4, <1>5, <2>1, <2>2 DEF SoftmaxLocalWS
  <2> QED BY <1>7, <2>2, <2>3 DEF Pos
<1>11. AreGroups(PoolingLocalWS(gws, d), d)
  <2>1. PICK want \in Nat : want = IF gws[1] < 4 THEN gws[1] ELSE gws[1] \div 4
    BY <1>2, <1>6 DEF Pos
  <2>2. PICK l3 \in Pos : l3 = Smaller(Smaller(gws[3], base), room) /\ l3 <= room
    BY <1>2 DEF Smaller, Pos
  <2>3. l3 * l2 = l2 * l3 /\ l3 * l2 \in Pos /\ l3 * l2 <= k
    <3>1. l2 \in Nat /\ l3 \in Nat
      BY DEF Pos
    <3>2. l3 * l2 <= k
      BY <1>4, <1>5, <2>2, <3>1, Fits
    <3> QED BY <3>1, <3>2 DEF Pos
  <2>4. PICK m \in Pos : m = l2 * l3 /\ m <= k
    BY <2>3
  <2>5. k \div m \in Pos /\ \A x \in Nat : x <= k \div m => x * m \in Nat /\ x * m <= k
    BY <2>4, Fits
  <2>6. PICK l1 \in Pos : l1 = Rest(l2, l3, want, k) /\ l1 <= k \div m
    BY <2>4, <2>5 DEF Rest, Larger, Smaller, Pos
  <2>7. l3 * (l1 * l2) <= k
    <3>1. l1 * m <= k
      BY <2>5, <2>6 DEF Pos
    <3>2. l3 * (l1 * l2) = l1 * (l2 * l3)
      BY DEF Pos
    <3> QED BY <2>4, <3>1, <3>2
  <2>8. PICK p : p = <<l1, l2, l3, 0>>
    OBVIOUS
  <2>9. PoolingLocalWS(gws, d) = p
    BY <1>1, <1>2, <1>3, <1>4, <1>5, <2>1, <2>2, <2>6, <2>8 DEF PoolingLocalWS
  <2>10. AreGroups(p, d)
    BY <1>1, <2>7, <2>8, GroupRuns DEF AreGroups
  <2> QED BY <2>9, <2>10
<1>12. AreGroups(ResizeLocalWS(gws, d), d)
  <2>1. PICK e1 \in Pos, e3 \in Pos : /\ e1 = IF gws[1] < 8 THEN gws[1] ELSE gws[1] \div 8
                                      /\ e3 = IF gws[3] < 8 THEN gws[3] ELSE gws[3] \div 8
    BY <1>2, <1>6 DEF Pos
  <2>2. PICK want \in Pos : want = IF l2 >= base THEN Smaller(gws[1], base) ELSE e1
    BY <1>2 DEF Smaller
  <2>3. PICK l1 \in Pos : l1 = Smaller(want, room) /\ l1 <= room
    BY <1>8
  <2>4. ResizeLocalWS(gws, d) = <<l1, l2, Rest(l1, l2, e3, d.maxGroup), 0>>
    BY <1>1, <1>3, <1>4, <1>5, <2>1, <2>2, <2>3 DEF ResizeLocalWS
  <2> QED BY <1>7, <2>3, <2>4 DEF Pos
<1>13. Bytes(4, 4, 4) \in Pos /\ Bytes(5, 4, 5) \in Pos /\ Bytes(4, 4, 1) \in Pos
  BY DEF Bytes, Pos
<1>14. \A a, b \in Pos : a * b \in Pos
  BY DEF Pos
<1>15. AreGroups(Conv1x1LocalWS(gws, d), d)
  <2>1. PICK e4 \in Nat, e8 \in Nat : e4 = gws[1] \div 4 /\ e8 = gws[1] \div 8
    BY <1>2, <1>6 DEF Pos
  <2>2. PICK want \in Pos : want = IF l2 >= base \/ (1 < l2 /\ gws[1] >= 128) THEN Smaller(gws[1], base)
                                   ELSE IF e8 < base THEN Larger(e4, base) ELSE e8
    BY <1>2 DEF Smaller, Larger, Pos
  <2>3. PICK l1 \in Pos : l1 = Smaller(want, room) /\ l1 <= room
    BY <1>8
  <2>4. PICK x \in Nat : x = ((d.cache \div Bytes(4, 4, 4)) \div (l1 * l2)) \div d.units
    BY <1>6, <1>13, <1>14
  <2>5. PICK fits \in Nat : fits = Smaller(x * 8, gws[3])
    BY <1>2 DEF Smaller, Pos
  <2>6. PICK wanted \in Nat : wanted = IF fits = 0 THEN Smaller(gws[3], base) ELSE fits
    BY <1>2 DEF Smaller, Pos
  <2>7. Conv1x1LocalWS(gws, d) = <<l1, l2, Rest(l1, l2, wanted, d.maxGroup), 0>>
    BY <1>1, <1>3, <1>4, <1>5, <2>1, <2>2, <2>3, <2>4, <2>5, <2>6 DEF Conv1x1LocalWS
  <2> QED BY <1>7, <2>3, <2>7
<1>16. AreGroups(Conv3x3LocalWS(gws, d), d)
  <2>1. PICK few \in Pos : few = Larger(Smaller(d.base, 4), 1)
    BY DEF Larger, Smaller, Pos
  <2>2. PICK units \in Pos : units = Larger(d.units \div 2, 1)
    <3>1. d.units \div 2 \in Nat
      BY <1>6 DEF Pos
    <3> QED BY <3>1 DEF Larger, Pos
  <2>3. PICK l1 \in Pos : l1 = Smaller(Smaller(gws[1], few), room) /\ l1 <= room
    <3>1. Smaller(gws[1], few) \in Pos
      BY <1>2 DEF Smaller
    <3> QED BY <1>8, <3>1
  <2>4. PICK x \in Nat : x = ((d.cache \div Bytes(5, 4, 5)) \div (l1 * l2)) \div units
    BY <1>6, <1>13, <1>14
  <2>5. PICK fits \in Nat : fits = Smaller(RoundUp(x, few), gws[3])
    <3>1. RoundUp(x, few) \in Nat
      BY Rounded
    <3> QED BY <1>2, <3>1 DEF Smaller, Pos
  <2>6. PICK wanted \in Nat : wanted = IF fits = 0 THEN Smaller(gws[3], few) ELSE fits
    BY <1>2 DEF Smaller, Pos
  <2>7. Conv3x3LocalWS(gws, d) = <<l1, l2, Rest(l1, l2, wanted, d.maxGroup), 0>>
    BY <1>1, <1>4, <1>5, <2>1, <2>2, <2>3, <2>4, <2>5, <2>6 DEF Conv3x3LocalWS
  <2> QED BY <1>7, <2>3, <2>7
<1>17. AreGroups(ConvLocalWS(gws, taps, d), d)
  <2>1. PICK want \in Pos : want = IF gws[1] < 4 THEN gws[1] ELSE gws[1] \div 4
    BY <1>2, <1>6 DEF Pos
  <2>2. PICK l1 \in Pos : l1 = Smaller(want, room) /\ l1 <= room
    BY <1>8
  <2>3. PICK x \in Nat : x = (((d.cache \div Bytes(4, 4, 4)) \div taps) \div (l1 * l2)) \div d.units
    BY <1>6, <1>13, <1>14
  <2>4. PICK fits \in Nat : fits = Smaller(x * 8, gws[3])
    BY <1>2 DEF Smaller, Pos
  <2>5. PICK other \in Nat : other = IF gws[3] < 20 THEN gws[3] ELSE base
    BY <1>2 DEF Pos
  <2>6. PICK wanted \in Nat : wanted = IF fits = 0 THEN other ELSE fits
    OBVIOUS
  <2>7. ConvLocalWS(gws, taps, d) = <<l1, l2, Rest(l1, l2, wanted, d.maxGroup), 0>>
    BY <1>1, <1>3, <1>4, <1>5, <2>1, <2>2, <2>3, <2>4, <2>5, <2>6 DEF ConvLocalWS
  <2> QED BY <1>7, <2>2, <2>7
<1>18. AreGroups(DepthwiseLocalWS(gws, d), d)
  <2>1. PICK e4 \in Nat, e8 \in Nat : e4 = gws[1] \div 4 /\ e8 = gws[1] \div 8
    BY <1>2, <1>6 DEF Pos
  <2>2. PICK some \in Nat : some = Smaller(e8, room)
    BY DEF Smaller, Pos
  <2>3. PICK want \in Nat : want = IF l2 >= d.base THEN Smaller(gws[1], d.base)
                                   ELSE IF some < d.base THEN Smaller(Larger(e4, d.base), room)
                                   ELSE some
    BY <1>2 DEF Smaller, Larger, Pos
  <2>4. PICK l1 \in Pos : l1 = Larger(Smaller(want, room), 1) /\ l1 <= room
    BY DEF Smaller, Larger, Pos
  <2>5. PICK x \in Nat : x = (d.cache \div Bytes(4, 4, 1)) \div (l1 * l2)
    BY <1>6, <1>13, <1>14
  <2>6. PICK fits \in Nat : fits = Smaller(x * 4, gws[3])
    BY <1>2 DEF Smaller, Pos
  <2>7. PICK wanted \in Nat : wanted = IF fits = 0 THEN gws[3] ELSE fits
    BY <1>2 DEF Pos
  <2>8. DepthwiseLocalWS(gws, d) = <<l1, l2, Rest(l1, l2, wanted, d.maxGroup), 0>>
    BY <1>1, <1>4, <1>5, <2>1, <2>2, <2>3, <2>4, <2>5, <2>6, <2>7 DEF DepthwiseLocalWS
  <2> QED BY <1>7, <2>4, <2>8
<1> QED BY <1>9, <1>10, <1>11, <1>12, <1>15, <1>16, <1>17, <1>18
================================================================================
