---------------------------- MODULE EngineProofs ----------------------------
(***************************************************************************)
(* What holds of the engine's tensors for every net, every number of calls *)
(* and every outcome of the allocations.                                   *)
(*                                                                         *)
(* The last part is about what ends the process: an allocation that        *)
(* failed, or an image that was planned too small.  Every place where an   *)
(* operator may die looks for memory, of a kind and a size.  ReadyInv says *)
(* that all of it is there until an allocation fails; it rests on the      *)
(* invariants before it, all of which make up Sound.                       *)
(***************************************************************************)
EXTENDS Engine, TLAPS, WellFoundedInduction, SequenceTheorems

Fields == {"state", "buffer", "owner", "shape", "unused"}

(* A tensor has the fields of a tensor.                                    *)
IsTensor(t) == t = [f \in Fields |-> t[f]]

Owning(t, n) == t.owner => t.buffer \in {Null, Own(n)}

(* OneOwner for tensors erased or not yet made as well: nothing is learnt  *)
(* or forgotten about ownership when a tensor goes.                        *)
GoodTensors(ts) ==
  /\ ts = [n \in Name |-> ts[n]]
  /\ \A n \in Name : IsTensor(ts[n]) /\ Owning(ts[n], n)

LEMMA Literals ==
  /\ IsTensor(NoTensor) /\ ~NoTensor.owner
  /\ IsTensor(NewTensor) /\ NewTensor.buffer = Null
  /\ \A b, s : IsTensor(TensorOn(b, s)) /\ ~TensorOn(b, s).owner
BY DEF IsTensor, NoTensor, NewTensor, TensorOn, Fields

LEMMA Changes ==
  ASSUME NEW t, IsTensor(t), NEW v
  PROVE  /\ IsTensor([t EXCEPT !.state = v]) /\ [t EXCEPT !.state = v].owner = t.owner
         /\ [t EXCEPT !.state = v].buffer = t.buffer
         /\ IsTensor([t EXCEPT !.unused = v]) /\ [t EXCEPT !.unused = v].owner = t.owner
         /\ [t EXCEPT !.unused = v].buffer = t.buffer
         /\ IsTensor([t EXCEPT !.shape = v]) /\ [t EXCEPT !.shape = v].owner = t.owner
         /\ [t EXCEPT !.shape = v].buffer = t.buffer
         /\ IsTensor([t EXCEPT !.buffer = v]) /\ [t EXCEPT !.buffer = v].owner = t.owner
         /\ [t EXCEPT !.buffer = v].buffer = v
         /\ IsTensor([t EXCEPT !.owner = v]) /\ [t EXCEPT !.owner = v].owner = v
         /\ [t EXCEPT !.owner = v].buffer = t.buffer
BY DEF IsTensor, Fields

(* Changing one tensor to one that is good keeps them good.                *)
LEMMA OneChanged ==
  ASSUME NEW ts, GoodTensors(ts), NEW n, NEW t,
         n \in Name => IsTensor(t) /\ Owning(t, n)
  PROVE  GoodTensors([ts EXCEPT ![n] = t])
BY DEF GoodTensors

(* What does not touch the buffer or its ownership.                        *)
LEMMA OtherFields ==
  ASSUME NEW ts, GoodTensors(ts), NEW n \in Name, NEW v
  PROVE  /\ IsTensor([ts[n] EXCEPT !.state = v]) /\ Owning([ts[n] EXCEPT !.state = v], n)
         /\ IsTensor([ts[n] EXCEPT !.unused = v]) /\ Owning([ts[n] EXCEPT !.unused = v], n)
         /\ IsTensor([ts[n] EXCEPT !.shape = v]) /\ Owning([ts[n] EXCEPT !.shape = v], n)
<1> DEFINE t == ts[n]
<1>1. IsTensor(t) /\ Owning(t, n)
  BY DEF GoodTensors
<1> HIDE DEF t
<1>2. IsTensor([t EXCEPT !.state = v]) /\ Owning([t EXCEPT !.state = v], n)
  <2> DEFINE u == [t EXCEPT !.state = v]
  <2>1. IsTensor(u) /\ u.owner = t.owner /\ u.buffer = t.buffer
    BY <1>1, Changes
  <2> HIDE DEF u
  <2>2. IsTensor(u) /\ Owning(u, n)
    BY <1>1, <2>1 DEF Owning
  <2> QED BY <2>2 DEF u
<1>3. IsTensor([t EXCEPT !.unused = v]) /\ Owning([t EXCEPT !.unused = v], n)
  <2> DEFINE u == [t EXCEPT !.unused = v]
  <2>1. IsTensor(u) /\ u.owner = t.owner /\ u.buffer = t.buffer
    BY <1>1, Changes
  <2> HIDE DEF u
  <2>2. IsTensor(u) /\ Owning(u, n)
    BY <1>1, <2>1 DEF Owning
  <2> QED BY <2>2 DEF u
<1>4. IsTensor([t EXCEPT !.shape = v]) /\ Owning([t EXCEPT !.shape = v], n)
  <2> DEFINE u == [t EXCEPT !.shape = v]
  <2>1. IsTensor(u) /\ u.owner = t.owner /\ u.buffer = t.buffer
    BY <1>1, Changes
  <2> HIDE DEF u
  <2>2. IsTensor(u) /\ Owning(u, n)
    BY <1>1, <2>1 DEF Owning
  <2> QED BY <2>2 DEF u
<1> QED BY <1>2, <1>3, <1>4 DEF t

(* Resizing gives a tensor its own buffer, or leaves the one it has.       *)
LEMMA ResizedTo ==
  ASSUME NEW ts, GoodTensors(ts), NEW n, NEW s, NEW b,
         b = ts[n].buffer \/ b = Own(n)
  PROVE  GoodTensors([ts EXCEPT ![n].shape = s, ![n].buffer = b])
<1> DEFINE t == [[ts[n] EXCEPT !.shape = s] EXCEPT !.buffer = b]
<1>1. n \in Name => IsTensor(t) /\ Owning(t, n)
  <2> SUFFICES ASSUME n \in Name PROVE IsTensor(t) /\ Owning(t, n)
    OBVIOUS
  <2>1. IsTensor(ts[n]) /\ Owning(ts[n], n)
    BY DEF GoodTensors
  <2> DEFINE u == [ts[n] EXCEPT !.shape = s]
  <2>u. IsTensor(u) /\ u.owner = ts[n].owner
    BY <2>1, Changes
  <2> HIDE DEF u
  <2>2. IsTensor([u EXCEPT !.buffer = b])
          /\ [u EXCEPT !.buffer = b].owner = ts[n].owner
          /\ [u EXCEPT !.buffer = b].buffer = b
    BY <2>u, Changes
  <2>3. t = [u EXCEPT !.buffer = b]
    BY DEF u
  <2> HIDE DEF t
  <2> QED BY <2>1, <2>2, <2>3 DEF Owning
<1>2. GoodTensors([ts EXCEPT ![n] = t])
  BY <1>1, OneChanged
<1>3. [ts EXCEPT ![n].shape = s, ![n].buffer = b] = [ts EXCEPT ![n] = t]
  BY DEF GoodTensors
<1> QED BY <1>2, <1>3

LEMMA ResizeKeeps ==
  ASSUME GoodTensors(tensors), NEW n, NEW s, NEW r, Resize(n, s, r)
  PROVE  GoodTensors(tensors')
<1>1. tensors' = tensors
        \/ \E b \in {tensors[n].buffer, Own(n)} :
             tensors' = [tensors EXCEPT ![n].shape = s, ![n].buffer = b]
  BY DEF Resize
<1>2. CASE tensors' = tensors
  BY <1>2
<1>3. ASSUME NEW b \in {tensors[n].buffer, Own(n)},
             tensors' = [tensors EXCEPT ![n].shape = s, ![n].buffer = b]
      PROVE  GoodTensors(tensors')
  BY ResizedTo, <1>3
<1> QED BY <1>1, <1>2, <1>3

LEMMA ResizeImageKeeps ==
  ASSUME GoodTensors(tensors), NEW n, NEW s, NEW r, ResizeImage(n, s, r)
  PROVE  GoodTensors(tensors')
<1>1. tensors' = tensors
        \/ \E b \in {tensors[n].buffer, Own(n)} :
             tensors' = [tensors EXCEPT ![n].shape = s, ![n].buffer = b]
  BY DEF ResizeImage
<1>2. CASE tensors' = tensors
  BY <1>2
<1>3. ASSUME NEW b \in {tensors[n].buffer, Own(n)},
             tensors' = [tensors EXCEPT ![n].shape = s, ![n].buffer = b]
      PROVE  GoodTensors(tensors')
  BY ResizedTo, <1>3
<1> QED BY <1>1, <1>2, <1>3

LEMMA ResizeLikeKeeps ==
  ASSUME GoodTensors(tensors), NEW n, NEW m, NEW r, ResizeLike(n, m, r)
  PROVE  GoodTensors(tensors')
BY ResizeKeeps, ResizeImageKeeps DEF ResizeLike

(* A tensor that borrows does not own.                                     *)
LEMMA AliasedKeeps ==
  ASSUME GoodTensors(tensors), NEW n, NEW m
  PROVE  GoodTensors(Aliased(n, m))
<1> DEFINE t == [[[tensors[n] EXCEPT !.buffer = tensors[m].buffer]
                             EXCEPT !.owner = FALSE]
                             EXCEPT !.shape = tensors[m].shape]
<1>1. n \in Name => IsTensor(t) /\ Owning(t, n)
  <2> SUFFICES ASSUME n \in Name PROVE IsTensor(t) /\ Owning(t, n)
    OBVIOUS
  <2>1. IsTensor(tensors[n])
    BY DEF GoodTensors
  <2> DEFINE u == [tensors[n] EXCEPT !.buffer = tensors[m].buffer]
             v == [u EXCEPT !.owner = FALSE]
  <2>2. IsTensor(u)
    BY <2>1, Changes
  <2> HIDE DEF u
  <2>3. IsTensor(v) /\ v.owner = FALSE
    BY <2>2, Changes
  <2> HIDE DEF v
  <2>4. IsTensor([v EXCEPT !.shape = tensors[m].shape])
          /\ [v EXCEPT !.shape = tensors[m].shape].owner = FALSE
    BY <2>3, Changes
  <2>5. t = [v EXCEPT !.shape = tensors[m].shape]
    BY DEF u, v
  <2> HIDE DEF t
  <2> QED BY <2>4, <2>5 DEF Owning
<1>2. GoodTensors([tensors EXCEPT ![n] = t])
  BY <1>1, OneChanged
<1>3. Aliased(n, m) = [tensors EXCEPT ![n] = t]
  BY DEF GoodTensors, Aliased
<1> QED BY <1>2, <1>3

LEMMA MarkedKeeps ==
  ASSUME GoodTensors(tensors)
  PROVE  GoodTensors(MarkedUnused)
<1> DEFINE n == In(1)
<1> DEFINE t == [tensors[n] EXCEPT !.unused = TRUE]
<1>1. n \in Name => IsTensor(t) /\ Owning(t, n)
  <2> HIDE DEF n
  <2> QED BY OtherFields
<1>2. GoodTensors([tensors EXCEPT ![n] = t])
  <2> HIDE DEF n, t
  <2> QED BY <1>1, OneChanged
<1>3. MarkedUnused = [tensors EXCEPT ![n] = t]
  BY DEF GoodTensors, MarkedUnused
<1> QED BY <1>2, <1>3

(* Reshape gives its output another shape after the aliasing.              *)
LEMMA ReshapedKeeps ==
  ASSUME NEW ts, GoodTensors(ts), NEW n, NEW s
  PROVE  GoodTensors([ts EXCEPT ![n].shape = s])
<1> DEFINE t == [ts[n] EXCEPT !.shape = s]
<1>1. n \in Name => IsTensor(t) /\ Owning(t, n)
  BY OtherFields
<1>2. GoodTensors([ts EXCEPT ![n] = t])
  <2> HIDE DEF t
  <2> QED BY <1>1, OneChanged
<1>3. [ts EXCEPT ![n].shape = s] = [ts EXCEPT ![n] = t]
  BY DEF GoodTensors
<1> QED BY <1>2, <1>3

(* The tensors a net's constructor adds own nothing yet.                   *)
LEMMA OutputsKeep ==
  ASSUME GoodTensors(tensors), NEW ops
  PROVE  GoodTensors(WithOutputs(ops))
BY Literals DEF GoodTensors, WithOutputs, Owning

LEMMA SetupKeeps ==
  ASSUME GoodTensors(tensors), Setup
  PROVE  GoodTensors(tensors')
<1>1. CASE CreateTensors
  BY <1>1, Literals DEF CreateTensors, GoodTensors, Owning
<1>2. CASE LoadModel
  <2>1. tensors' = tensors
          \/ tensors' = [n \in Name |-> IF n \in Consts(net)
                                        THEN TensorOn(Slice(n), WeightShape)
                                        ELSE tensors[n]]
    BY <1>2 DEF LoadModel
  <2> QED BY <2>1, Literals DEF GoodTensors, Owning
<1>3. CASE LoadBigModel
  <2> DEFINE made(n) == [[NewTensor EXCEPT !.buffer = Own(n)] EXCEPT !.shape = WeightShape]
  <2>1. \A n : IsTensor(made(n)) /\ made(n).buffer = Own(n)
    <3> TAKE n
    <3> DEFINE u == [NewTensor EXCEPT !.buffer = Own(n)]
    <3>1. IsTensor(u) /\ u.buffer = Own(n)
      BY Literals, Changes
    <3> HIDE DEF u
    <3>2. IsTensor([u EXCEPT !.shape = WeightShape])
            /\ [u EXCEPT !.shape = WeightShape].buffer = Own(n)
      BY <3>1, Changes
    <3> QED BY <3>2 DEF u
  <2>2. tensors' = [n \in Name |-> IF n \in Consts(net) THEN made(n) ELSE tensors[n]]
    BY <1>3 DEF LoadBigModel
  <2> HIDE DEF made
  <2> QED BY <2>1, <2>2 DEF GoodTensors, Owning
<1>4. CASE CreateOutputTensorBuffer
  <2>1. tensors' = tensors
          \/ tensors' = [n \in Name |->
                 IF \E i \in Pooled(net) : net.ops[i].out = n
                 THEN LET i == CHOOSE i \in Pooled(net) : net.ops[i].out = n
                      IN TensorOn(Pool(net.ops[i].mem), NoShape)
                 ELSE tensors[n]]
    BY <1>4 DEF CreateOutputTensorBuffer
  <2> QED BY <2>1, Literals DEF GoodTensors, Owning
<1>5. CASE CreateInitNet
  BY <1>5, OutputsKeep DEF CreateInitNet
<1>6. CASE CreateNormalNet
  <2> DEFINE ts   == WithOutputs(Ops(net, "NORMAL"))
             gone == {n \in Name : ts[n].state = "live" /\ ts[n].unused}
  <2>1. \/ tensors' = tensors \/ tensors' = ts
        \/ tensors' = [n \in Name |->
              IF n \in gone THEN [ts[n] EXCEPT !.state = "erased"] ELSE ts[n]]
    BY <1>6 DEF CreateNormalNet
  <2>2. GoodTensors(ts)
    BY OutputsKeep
  <2> HIDE DEF ts, gone
  <2>3. CASE tensors' = tensors \/ tensors' = ts
    BY <2>2, <2>3
  <2>4. CASE tensors' = [n \in Name |->
               IF n \in gone THEN [ts[n] EXCEPT !.state = "erased"] ELSE ts[n]]
    BY <2>2, OtherFields, <2>4 DEF GoodTensors
  <2> QED BY <2>1, <2>3, <2>4
<1> QED BY <1>1, <1>2, <1>3, <1>4, <1>5, <1>6 DEF Setup

LEMMA OperateKeeps ==
  ASSUME GoodTensors(tensors), Operate
  PROVE  GoodTensors(tensors')
<1>1. CASE ActivationResize \/ AddNResizeCPU
  <2>1. tensors' = tensors \/ \E r \in Endings : ResizeLike(op.out, In(1), r)
    BY <1>1 DEF ActivationResize, AddNResizeCPU
  <2> QED BY <2>1, ResizeLikeKeeps DEF GoodTensors
<1>2. CASE AddNResizeGPU
  BY <1>2, ResizeImageKeeps DEF AddNResizeGPU
<1>3. CASE BufferToImageResize
  BY <1>3, ResizeImageKeeps DEF BufferToImageResize
<1>4. CASE ImageToBufferResize
  BY <1>4, ResizeKeeps DEF ImageToBufferResize
<1>5. CASE ActivationCPU \/ ActivationGPU \/ AddNCPU \/ AddNGPU \/ ImageToBuffer
  BY <1>5 DEF ActivationCPU, ActivationGPU, AddNCPU, AddNGPU, ImageToBuffer
<1>6. CASE Identity
  BY <1>6, AliasedKeeps DEF Identity
<1>7. CASE Reshape
  BY <1>7, AliasedKeeps, ReshapedKeeps DEF Reshape
<1>8. CASE BufferToImage
  BY <1>8, MarkedKeeps DEF BufferToImage
<1> QED BY <1>1, <1>2, <1>3, <1>4, <1>5, <1>6, <1>7, <1>8 DEF Operate

LEMMA ServeKeeps ==
  ASSUME GoodTensors(tensors), Serve
  PROVE  GoodTensors(tensors')
<1>1. CASE FeedResize
  <2>1. PICK r \in Endings : Resize(Head(todo), shape, r)
    BY <1>1 DEF FeedResize
  <2> QED BY <2>1, ResizeKeeps
<1>2. CASE CallRun \/ FeedCopy \/ RunNet \/ CopyOutput \/ RunReturns
  BY <1>2 DEF CallRun, FeedCopy, RunNet, CopyOutput, RunReturns
<1> QED BY <1>1, <1>2 DEF Serve

LEMMA DestroyKeeps ==
  ASSUME GoodTensors(tensors), Destroy
  PROVE  GoodTensors(tensors')
BY OtherFields DEF GoodTensors, Destroy

(* No buffer object is deleted by two tensors: who owns memory owns a      *)
(* buffer of its own, and a tensor that was made to share another's memory *)
(* (Tensor::ReuseTensorBuffer), or the arena's or the weights', owns none. *)
THEOREM BuffersHaveOneOwner == Spec => []OneOwner
<1>1. Init => GoodTensors(tensors)
  BY Literals DEF Init, NoMemoryYet, GoodTensors, Owning
<1>2. GoodTensors(tensors) /\ [Next]_vars => GoodTensors(tensors)'
  <2> SUFFICES ASSUME GoodTensors(tensors), [Next]_vars
               PROVE  GoodTensors(tensors')
    BY DEF GoodTensors, IsTensor, Owning
  <2>1. CASE UNCHANGED vars
    BY <2>1 DEF vars
  <2>2. CASE Stopped
    BY <2>2 DEF Stopped, vars
  <2> QED BY <2>1, <2>2, SetupKeeps, OperateKeeps, ServeKeeps, DestroyKeeps DEF Next
<1>3. GoodTensors(tensors) => OneOwner
  BY DEF GoodTensors, OneOwner, Owning
<1> QED BY <1>1, <1>2, <1>3, PTL DEF Spec
-----------------------------------------------------------------------------
(* Of numbers there is a least one.                                        *)
LEMMA LeastNumber ==
  ASSUME NEW T, T \subseteq Nat, T # {}
  PROVE  \E x \in T : \A y \in T : x <= y
<1>1. PICK R : R = OpToRel(<, Nat)
  OBVIOUS
<1>2. IsWellFoundedOn(R, Nat)
  BY <1>1, NatLessThanWellFounded
<1>3. PICK x \in T : \A y \in T : <<y, x>> \notin R
  BY <1>2, WFMin
<1>4. \A y \in Nat : y < x => <<y, x>> \in R
  BY <1>1 DEF OpToRel
<1>5. ASSUME NEW y \in T PROVE x <= y
  <2>1. ~(y < x)
    BY <1>3, <1>4, <1>5
  <2> QED BY <2>1, <1>5
<1> QED BY <1>5

(* The function that Among computes with, as far as k.                     *)
Building(f, s, S, k) ==
  f = [i \in 0..k |-> IF i = 0 THEN <<>> ELSE IF s[i] \in S THEN Append(f[i - 1], s[i]) ELSE f[i - 1]]

LEMMA BuildingExists ==
  ASSUME NEW s, NEW S, NEW n \in Nat
  PROVE  \E f : Building(f, s, S, n)
<1> DEFINE bad == {k \in Nat : ~\E f : Building(f, s, S, k)}
<1>1. SUFFICES ASSUME bad # {} PROVE FALSE
  OBVIOUS
<1>2. PICK k \in bad : \A j \in bad : k <= j
  BY <1>1, LeastNumber
<1>3. CASE k = 0
  <2>1. PICK f : f = [i \in 0..0 |-> <<>>]
    OBVIOUS
  <2>2. Building(f, s, S, 0)
    BY <2>1 DEF Building
  <2> QED BY <1>2, <1>3, <2>2
<1>4. CASE k > 0
  <2>1. k - 1 \in Nat /\ k - 1 \notin bad
    BY <1>2, <1>4
  <2>2. PICK f : Building(f, s, S, k - 1)
    BY <2>1
  <2>3. PICK g : g = [i \in 0..k |-> IF i < k THEN f[i]
                                     ELSE IF s[k] \in S THEN Append(f[k - 1], s[k]) ELSE f[k - 1]]
    OBVIOUS
  <2>4. \A i \in 0..(k - 1) :
          f[i] = IF i = 0 THEN <<>> ELSE IF s[i] \in S THEN Append(f[i - 1], s[i]) ELSE f[i - 1]
    BY <2>2 DEF Building
  <2>5. \A i \in 0..k :
          g[i] = IF i = 0 THEN <<>> ELSE IF s[i] \in S THEN Append(g[i - 1], s[i]) ELSE g[i - 1]
    BY <1>4, <2>1, <2>3, <2>4
  <2>6. Building(g, s, S, k)
    BY <2>3, <2>5 DEF Building
  <2> QED BY <1>2, <2>6
<1> QED BY <1>2, <1>3, <1>4

(* The elements of q are those of the first k of s that are in S, in their *)
(* order.                                                                  *)
Picked(q, g, s, S, k) ==
  /\ Len(q) \in Nat /\ q = [i \in 1..Len(q) |-> q[i]] /\ g \in [1..Len(q) -> 1..k]
  /\ \A i \in 1..Len(q) : q[i] = s[g[i]] /\ s[g[i]] \in S
  /\ \A i, j \in 1..Len(q) : i < j => g[i] < g[j]
  /\ \A j \in 1..k : s[j] \in S => \E i \in 1..Len(q) : g[i] = j

LEMMA PickedMore ==
  ASSUME NEW q, NEW g, NEW s, NEW S, NEW k \in Nat, Picked(q, g, s, S, k)
  PROVE  \E h : Picked(IF s[k + 1] \in S THEN Append(q, s[k + 1]) ELSE q, h, s, S, k + 1)
<1>1. /\ Len(q) \in Nat /\ q = [i \in 1..Len(q) |-> q[i]] /\ g \in [1..Len(q) -> 1..k]
      /\ \A i \in 1..Len(q) : q[i] = s[g[i]] /\ s[g[i]] \in S
      /\ \A i, j \in 1..Len(q) : i < j => g[i] < g[j]
      /\ \A j \in 1..k : s[j] \in S => \E i \in 1..Len(q) : g[i] = j
  BY DEF Picked
<1>2. CASE s[k + 1] \notin S
  <2>1. \A j \in 1..(k + 1) : s[j] \in S => \E i \in 1..Len(q) : g[i] = j
    <3> SUFFICES ASSUME NEW j \in 1..(k + 1), s[j] \in S PROVE \E i \in 1..Len(q) : g[i] = j
      OBVIOUS
    <3>1. j \in 1..k
      BY <1>2
    <3> QED BY <1>1, <3>1
  <2>2. g \in [1..Len(q) -> 1..(k + 1)]
    BY <1>1
  <2>3. Picked(q, g, s, S, k + 1)
    BY <1>1, <2>1, <2>2 DEF Picked
  <2> QED BY <1>2, <2>3
<1>3. CASE s[k + 1] \in S
  <2>1. PICK n \in Nat : n = Len(q)
    BY <1>1
  <2>2. PICK r : r = Append(q, s[k + 1])
    OBVIOUS
  <2>3. Len(r) = n + 1 /\ r = [i \in 1..(n + 1) |-> IF i <= n THEN q[i] ELSE s[k + 1]]
    BY <1>1, <2>1, <2>2
  <2>4. PICK h : h = [i \in 1..(n + 1) |-> IF i <= n THEN g[i] ELSE k + 1]
    OBVIOUS
  <2>5. h \in [1..(n + 1) -> 1..(k + 1)] /\ \A i, j \in 1..(n + 1) : i < j => h[i] < h[j]
    BY <1>1, <2>1, <2>4
  <2>6. \A i \in 1..(n + 1) : r[i] = s[h[i]] /\ s[h[i]] \in S
    BY <1>1, <1>3, <2>1, <2>3, <2>4
  <2>7. ASSUME NEW j \in 1..(k + 1), s[j] \in S PROVE \E i \in 1..(n + 1) : h[i] = j
    <3>1. CASE j = k + 1
      BY <2>1, <2>4, <3>1
    <3>2. CASE j \in 1..k
      <4>1. PICK i \in 1..n : g[i] = j
        BY <1>1, <2>1, <2>7, <3>2
      <4>2. i \in 1..(n + 1) /\ h[i] = j
        BY <2>1, <2>4, <4>1
      <4> QED BY <4>2
    <3> QED BY <3>1, <3>2
  <2>8. Picked(r, h, s, S, k + 1)
    BY <2>1, <2>3, <2>5, <2>6, <2>7 DEF Picked
  <2> QED BY <1>3, <2>2, <2>8
<1> QED BY <1>2, <1>3

(* What Among picks.                                                       *)
LEMMA AmongPicks ==
  ASSUME NEW s, NEW S, Len(s) \in Nat
  PROVE  \E g : Picked(Among(s, S), g, s, S, Len(s))
<1>1. PICK n \in Nat : n = Len(s)
  OBVIOUS
<1>2. PICK f : Building(f, s, S, n) /\ Among(s, S) = f[n]
  <2>1. Among(s, S) = (CHOOSE f : Building(f, s, S, n))[n]
    BY <1>1 DEF Among, Building
  <2> QED BY <2>1, BuildingExists
<1>3. \A i \in 0..n :
        f[i] = IF i = 0 THEN <<>> ELSE IF s[i] \in S THEN Append(f[i - 1], s[i]) ELSE f[i - 1]
  BY <1>2 DEF Building
<1> DEFINE bad == {k \in 0..n : ~\E g : Picked(f[k], g, s, S, k)}
<1>4. ASSUME bad # {} PROVE FALSE
  <2>1. PICK k \in bad : \A j \in bad : k <= j
    <3>1. bad \subseteq Nat
      OBVIOUS
    <3> HIDE DEF bad
    <3> QED BY <1>4, <3>1, LeastNumber
  <2>2. CASE k = 0
    <3>1. PICK g : g = [i \in 1..0 |-> 0]
      OBVIOUS
    <3>2. f[0] = <<>>
      BY <1>3
    <3>3. Picked(<<>>, g, s, S, 0)
      BY <3>1 DEF Picked
    <3> QED BY <2>1, <2>2, <3>2, <3>3
  <2>3. CASE k > 0
    <3>1. k - 1 \in 0..n /\ k - 1 \notin bad /\ k \in 0..n /\ (k - 1) + 1 = k
      BY <2>1, <2>3
    <3>2. PICK g : Picked(f[k - 1], g, s, S, k - 1)
      BY <3>1
    <3>3. \E h : Picked(IF s[k] \in S THEN Append(f[k - 1], s[k]) ELSE f[k - 1], h, s, S, k)
      BY <3>1, <3>2, PickedMore
    <3>4. f[k] = IF s[k] \in S THEN Append(f[k - 1], s[k]) ELSE f[k - 1]
      BY <1>3, <2>3, <3>1
    <3> QED BY <2>1, <3>3, <3>4
  <2> QED BY <2>1, <2>2, <2>3
<1>5. \E g : Picked(f[n], g, s, S, n)
  BY <1>4
<1> QED BY <1>1, <1>2, <1>5
-----------------------------------------------------------------------------
(* The memory of tensors.  Until the NORMAL net is built every tensor's    *)
(* memory is there; on the GPU that step gives the weights back, and then  *)
(* it is that of the NORMAL net's tensors which is still there.            *)
Early  == {"new", "load", "pool", "create", "init", "built"}
Late   == {"ready", "feed", "run", "copy"}
Active == Early \cup Late

InNet(n, mode) ==
  \E i \in DOMAIN Ops(net, mode) : n \in Range(Ops(net, mode)[i].in) \cup {Ops(net, mode)[i].out}

BufferFields == {"state", "image", "size", "phys", "mem", "gen", "val"}

IsBuffer(b) == b = [f \in BufferFields |-> b[f]]

GoodBuffers(bs) == bs = [b \in BufferId |-> bs[b]] /\ \A b \in BufferId : IsBuffer(bs[b])

Lives(b) == buffers[b].state = "live" /\ (b.of = "slice" => buffers[Weights].state = "live")

(* Of the tensors whose memory must be there.                              *)
Held(n) == OnGPU /\ stage \in Late => InNet(n, "NORMAL")

(* The tensor an operator makes another name of memory.                    *)
IsAlias(n) == \E i \in DOMAIN net.ops : Aliasing(net.ops[i].type) /\ net.ops[i].out = n

(* Before there was an operator that makes another name of memory: what a  *)
(* tensor may have, and which may be given back.                           *)
Plain(n) ==
  /\ \/ tensors[n].buffer \in {Null, Own(n)} \cup {Pool(m) : m \in Block}
     \/ tensors[n].buffer = Slice(n) /\ n \in Consts(net)
  /\ tensors[n].unused => n \in Consts(net)
  /\ IsAlias(n) => tensors[n].buffer = Null

SoundTensor(n) ==
  /\ tensors[n].buffer \in BufferId \cup {Null}
  /\ Held(n) /\ tensors[n].buffer # Null => Lives(tensors[n].buffer)
  /\ IsAlias(n) /\ tensors[n].owner => tensors[n].buffer = Null
  /\ OnGPU /\ stage \in Early => Plain(n)
  /\ stage = "init" /\ InNet(n, "INIT") => tensors[n].state = "live"
  /\ stage \in Late /\ InNet(n, "NORMAL") => tensors[n].state = "live"

MemoryInv ==
  /\ net \in Nets /\ GoodTensors(tensors)
  /\ stage \in Active =>
       /\ GoodBuffers(buffers) /\ (\A n \in Name : SoundTensor(n))
       /\ todo \in Seq(Range(net.inputs))

(* Nets are as they should be.                                             *)
LEMMA Ids ==
  /\ \A n \in Name : Own(n) \in BufferId /\ Slice(n) \in BufferId
  /\ \A m \in Block : Pool(m) \in BufferId
  /\ Weights \in BufferId /\ Weights.of = "model"
  /\ \A n : Own(n).of = "tensor" /\ Own(n).id = n /\ Slice(n).of = "slice" /\ Slice(n).id = n
  /\ \A n : Pool(n).of = "pool" /\ Pool(n).id = n
  /\ \A b \in BufferId : b.of # "none" /\ b # Null
<1>1. /\ \A n \in Name : Own(n) \in BufferId /\ Slice(n) \in BufferId
      /\ \A m \in Block : Pool(m) \in BufferId
      /\ Weights \in BufferId
  BY DEF BufferId
<1>2. /\ \A n : Own(n).of = "tensor" /\ Own(n).id = n /\ Slice(n).of = "slice" /\ Slice(n).id = n
      /\ \A n : Pool(n).of = "pool" /\ Pool(n).id = n
      /\ Weights.of = "model" /\ Null.of = "none"
  BY DEF Own, Slice, Pool, Weights, Null
<1>3. \A b \in BufferId : b.of # "none"
  BY <1>2 DEF BufferId
<1> QED BY <1>1, <1>2, <1>3

LEMMA NetFacts ==
  ASSUME NEW n \in Nets
  PROVE  /\ Len(n.ops) \in Nat /\ DOMAIN n.ops = 1..Len(n.ops)
         /\ \A i \in DOMAIN n.ops :
              /\ n.ops[i].out \in Name /\ Range(n.ops[i].in) \subseteq Name
              /\ 1 \in DOMAIN n.ops[i].in /\ n.ops[i].mode \in {"INIT", "NORMAL"}
              /\ n.ops[i].mem \in Block \cup {None} /\ n.ops[i].type \in Types
              /\ IF n.ops[i].type \in {"AddN", "Activation", "Reshape"}
                 THEN DOMAIN n.ops[i].in = 1..2 ELSE DOMAIN n.ops[i].in = 1..1
         /\ \A i, j \in DOMAIN n.ops : n.ops[i].out = n.ops[j].out => i = j
         /\ Range(n.inputs) \subseteq Name /\ Outs(n) \cap Range(n.inputs) = {}
         /\ Len(n.inputs) \in Nat /\ DOMAIN n.inputs = 1..Len(n.inputs)
<1>1. IsNet(n)
  BY EngineAssumption
<1>2. /\ n.ops \in Seq(OpType) /\ n.inputs \in Seq(Name)
      /\ \A i \in DOMAIN n.ops :
           Len(n.ops[i].in) = IF n.ops[i].type \in {"AddN", "Activation", "Reshape"} THEN 2 ELSE 1
  BY <1>1 DEF IsNet
<1>3. ASSUME NEW i \in DOMAIN n.ops
      PROVE  /\ n.ops[i].out \in Name /\ Range(n.ops[i].in) \subseteq Name
             /\ 1 \in DOMAIN n.ops[i].in /\ n.ops[i].mode \in {"INIT", "NORMAL"}
             /\ n.ops[i].mem \in Block \cup {None} /\ n.ops[i].type \in Types
             /\ IF n.ops[i].type \in {"AddN", "Activation", "Reshape"}
                THEN DOMAIN n.ops[i].in = 1..2 ELSE DOMAIN n.ops[i].in = 1..1
  <2>1. PICK o \in OpType : o = n.ops[i]
    BY <1>2
  <2>2. /\ o.out \in Name /\ o.in \in Seq(Name) /\ o.mode \in {"INIT", "NORMAL"}
        /\ o.mem \in Block \cup {None} /\ o.type \in Types
        /\ Len(o.in) = IF o.type \in {"AddN", "Activation", "Reshape"} THEN 2 ELSE 1
    BY <1>2, <2>1 DEF OpType
  <2>3. DOMAIN o.in = 1..Len(o.in) /\ 1 \in DOMAIN o.in /\ Range(o.in) \subseteq Name
    BY <2>2 DEF Range
  <2> QED BY <2>1, <2>2, <2>3
<1>4. Range(n.inputs) \subseteq Name
  BY <1>2 DEF Range
<1> QED BY <1>1, <1>2, <1>3, <1>4 DEF IsNet

(* The operators of a mode are operators of the net.                       *)
LEMMA OpsAreOps ==
  ASSUME NEW n \in Nets, NEW mode
  PROVE  /\ Len(Ops(n, mode)) \in Nat /\ DOMAIN Ops(n, mode) = 1..Len(Ops(n, mode))
         /\ \A i \in DOMAIN Ops(n, mode) :
              \E j \in DOMAIN n.ops : Ops(n, mode)[i] = n.ops[j] /\ n.ops[j].mode = mode
<1>1. PICK S : S = {o \in Range(n.ops) : o.mode = mode}
  OBVIOUS
<1>2. PICK q : q = Ops(n, mode)
  OBVIOUS
<1>3. PICK g : Picked(q, g, n.ops, S, Len(n.ops))
  BY <1>1, <1>2, NetFacts, AmongPicks DEF Ops
<1>4. /\ Len(q) \in Nat /\ q = [i \in 1..Len(q) |-> q[i]] /\ g \in [1..Len(q) -> 1..Len(n.ops)]
      /\ \A i \in 1..Len(q) : q[i] = n.ops[g[i]] /\ n.ops[g[i]] \in S
  BY <1>3 DEF Picked
<1>5. \A i \in DOMAIN q : g[i] \in DOMAIN n.ops /\ q[i] = n.ops[g[i]] /\ n.ops[g[i]].mode = mode
  BY <1>1, <1>4, NetFacts
<1> QED BY <1>2, <1>4, <1>5

LEMMA AmongIsPart ==
  ASSUME NEW s, NEW S, Len(s) \in Nat, DOMAIN s = 1..Len(s)
  PROVE  Among(s, S) \in Seq(Range(s))
<1>1. PICK q : q = Among(s, S)
  OBVIOUS
<1>2. PICK g : Picked(q, g, s, S, Len(s))
  BY <1>1, AmongPicks
<1>3. /\ Len(q) \in Nat /\ q = [i \in 1..Len(q) |-> q[i]]
      /\ \A i \in 1..Len(q) : g[i] \in DOMAIN s /\ q[i] = s[g[i]]
  BY <1>2 DEF Picked
<1>4. \A i \in 1..Len(q) : q[i] \in Range(s)
  BY <1>3 DEF Range
<1> QED BY <1>1, <1>3, <1>4

(* ... and none is left out.                                               *)
LEMMA AmongIsAll ==
  ASSUME NEW s, NEW S, Len(s) \in Nat, DOMAIN s = 1..Len(s), NEW j \in DOMAIN s, s[j] \in S
  PROVE  \E i \in DOMAIN Among(s, S) : Among(s, S)[i] = s[j]
<1>1. PICK q : q = Among(s, S)
  OBVIOUS
<1>2. PICK g : Picked(q, g, s, S, Len(s))
  BY <1>1, AmongPicks
<1>3. PICK i \in 1..Len(q) : g[i] = j
  BY <1>2 DEF Picked
<1>4. q[i] = s[j] /\ i \in DOMAIN q
  BY <1>2, <1>3 DEF Picked
<1> QED BY <1>1, <1>4

LEMMA OpsAreAll ==
  ASSUME NEW n \in Nets, NEW j \in DOMAIN n.ops
  PROVE  \E i \in DOMAIN Ops(n, n.ops[j].mode) : Ops(n, n.ops[j].mode)[i] = n.ops[j]
<1>1. PICK mode : mode = n.ops[j].mode
  OBVIOUS
<1>2. PICK S : S = {o \in Range(n.ops) : o.mode = mode}
  OBVIOUS
<1>3. n.ops[j] \in S
  BY <1>1, <1>2 DEF Range
<1>4. PICK s : s = n.ops /\ Len(s) \in Nat /\ DOMAIN s = 1..Len(s)
  BY NetFacts
<1>5. \E i \in DOMAIN Among(s, S) : Among(s, S)[i] = s[j]
  BY <1>3, <1>4, AmongIsAll
<1>6. Ops(n, mode) = Among(s, S)
  BY <1>2, <1>4 DEF Ops
<1> QED BY <1>1, <1>4, <1>5, <1>6

(* The operator that runs.                                                 *)
Mode == IF stage = "init" THEN "INIT" ELSE "NORMAL"

LEMMA OpFacts ==
  ASSUME net \in Nets, AtOp
  PROVE  /\ stage \in {"init", "run"}
         /\ op.out \in Name /\ InNet(op.out, Mode) /\ InNet(In(1), Mode) /\ In(1) \in Name
         /\ \A n \in Range(op.in) \cup {op.out} : n \in Name /\ InNet(n, Mode)
         /\ Aliasing(op.type) => IsAlias(op.out)
         /\ ~Aliasing(op.type) => ~IsAlias(op.out)
         /\ \E j \in DOMAIN net.ops : op = net.ops[j] /\ net.ops[j].mode = Mode
<1>1. stage \in {"init", "run"} /\ at \in DOMAIN Ops(net, Mode) /\ op = Ops(net, Mode)[at]
  BY DEF AtOp, Todo, op, Mode
<1>2. PICK j \in DOMAIN net.ops : op = net.ops[j] /\ net.ops[j].mode = Mode
  BY <1>1, OpsAreOps
<1>3. PICK o : o = op
  OBVIOUS
<1>4. /\ o.out \in Name /\ Range(o.in) \subseteq Name /\ 1 \in DOMAIN o.in
  BY <1>2, <1>3, NetFacts
<1>5. In(1) = o.in[1] /\ o.in[1] \in Range(o.in)
  BY <1>3, <1>4 DEF In, Range
<1>6. \A n \in Range(o.in) \cup {o.out} : n \in Name /\ InNet(n, Mode)
  BY <1>1, <1>3, <1>4 DEF InNet
<1>7. (Aliasing(o.type) => IsAlias(o.out)) /\ (~Aliasing(o.type) => ~IsAlias(o.out))
  BY <1>2, <1>3, NetFacts DEF IsAlias
<1> QED BY <1>1, <1>2, <1>3, <1>5, <1>6, <1>7
-----------------------------------------------------------------------------
(* Steps of operators and calls: no memory is given back, and no tensor    *)
(* goes.                                                                   *)
StageStep ==
  stage' \in Active =>
    /\ (stage \in Early /\ stage' \in Early) \/ (stage \in Late /\ stage' \in Late)
    /\ stage' = "init" => stage = "init"

Grows ==
  /\ GoodBuffers(buffers')
  /\ \A b \in BufferId : buffers[b].state = "live" => buffers'[b].state = "live"

TensorStep(n) ==
  /\ tensors'[n].state = tensors[n].state
  /\ OnGPU /\ stage \in Early /\ tensors'[n].unused => tensors[n].unused \/ n \in Consts(net)
  /\ \/ tensors'[n].buffer = tensors[n].buffer /\ (tensors'[n].owner => tensors[n].owner)
     \/ tensors'[n].buffer = Own(n) /\ buffers'[Own(n)].state = "live" /\ ~IsAlias(n)
     \/ /\ ~tensors'[n].owner /\ ~(OnGPU /\ stage \in Early)
        /\ \E m \in Name : Held(m) /\ tensors'[n].buffer = tensors[m].buffer

LEMMA StepKeeps ==
  ASSUME MemoryInv, stage \in Active, UNCHANGED net, GoodTensors(tensors'), StageStep,
         stage' \in Active => /\ Grows /\ \A n \in Name : TensorStep(n)
                              /\ todo' \in Seq(Range(net.inputs))
  PROVE  MemoryInv'
<1>1. net' \in Nets /\ GoodTensors(tensors)'
  BY DEF MemoryInv, GoodTensors, IsTensor, Owning
<1>2. stage' \in Active => GoodBuffers(buffers)' /\ todo' \in Seq(Range(net'.inputs))
  BY DEF Grows, GoodBuffers, IsBuffer
<1> SUFFICES ASSUME stage' \in Active, NEW n \in Name
             PROVE  SoundTensor(n)'
  BY <1>1, <1>2 DEF MemoryInv
<1>3. /\ \A m, mode : InNet(m, mode)' <=> InNet(m, mode)
      /\ \A m : IsAlias(m)' <=> IsAlias(m)
      /\ OnGPU' <=> OnGPU
      /\ \A m : Held(m)' <=> Held(m)
      /\ Consts(net)' = Consts(net)
  BY DEF InNet, StageStep, Early, Late, Active, IsAlias, OnGPU, Held
<1>4. SoundTensor(n) /\ TensorStep(n) /\ Grows /\ \A m \in Name : SoundTensor(m)
  BY DEF MemoryInv
<1>5. \A b \in BufferId : Lives(b) => Lives(b)'
  BY <1>4, Ids DEF Lives, Grows
<1>6. /\ (tensors[n].buffer \in BufferId \cup {Null})'
      /\ (Held(n) /\ tensors[n].buffer # Null => Lives(tensors[n].buffer))'
      /\ (IsAlias(n) /\ tensors[n].owner => tensors[n].buffer = Null)'
  <2>1. CASE tensors'[n].buffer = tensors[n].buffer /\ (tensors'[n].owner => tensors[n].owner)
    <3>1. PICK b : b = tensors[n].buffer
      OBVIOUS
    <3>2. /\ b \in BufferId \cup {Null} /\ (Held(n) /\ b # Null => Lives(b))
          /\ (IsAlias(n) /\ tensors[n].owner => b = Null)
      BY <1>4, <3>1 DEF SoundTensor
    <3>3. Held(n) /\ b # Null => Lives(b)'
      BY <1>5, <3>2
    <3> QED BY <1>3, <2>1, <3>1, <3>2, <3>3
  <2>2. CASE tensors'[n].buffer = Own(n) /\ buffers'[Own(n)].state = "live" /\ ~IsAlias(n)
    <3>1. Own(n) \in BufferId /\ Lives(Own(n))'
      BY <2>2, Ids DEF Lives
    <3>2. PICK b : b = Own(n)
      OBVIOUS
    <3>3. b \in BufferId /\ Lives(b)' /\ tensors'[n].buffer = b
      BY <2>2, <3>1, <3>2
    <3> QED BY <1>3, <2>2, <3>3
  <2>3. CASE ~tensors'[n].owner /\ \E m \in Name : Held(m) /\ tensors'[n].buffer = tensors[m].buffer
    <3>1. PICK m, b : m \in Name /\ Held(m) /\ b = tensors[m].buffer /\ tensors'[n].buffer = b
      BY <2>3
    <3>2. b \in BufferId \cup {Null} /\ (b # Null => Lives(b))
      BY <1>4, <3>1 DEF SoundTensor
    <3>3. b # Null => Lives(b)'
      BY <1>5, <3>2
    <3> QED BY <2>3, <3>1, <3>2, <3>3
  <2> QED BY <1>4, <2>1, <2>2, <2>3 DEF TensorStep
<1>7. (OnGPU /\ stage \in Early => Plain(n))'
  <2>1. SUFFICES ASSUME OnGPU, stage \in Early PROVE Plain(n)'
    BY <1>3 DEF StageStep, Early, Late
  <2>2. Plain(n) /\ (tensors'[n].buffer = tensors[n].buffer \/ (tensors'[n].buffer = Own(n) /\ ~IsAlias(n)))
        /\ (tensors'[n].unused => tensors[n].unused \/ n \in Consts(net))
    BY <1>4, <2>1 DEF SoundTensor, TensorStep
  <2>3. (tensors[n].buffer)' = tensors'[n].buffer /\ (tensors[n].unused)' = tensors'[n].unused
    OBVIOUS
  <2> QED BY <1>3, <2>2, <2>3 DEF Plain
<1>8. /\ (stage = "init" /\ InNet(n, "INIT") => tensors[n].state = "live")'
      /\ (stage \in Late /\ InNet(n, "NORMAL") => tensors[n].state = "live")'
  BY <1>3, <1>4 DEF SoundTensor, TensorStep, StageStep, Early, Late
<1> QED BY <1>6, <1>7, <1>8 DEF SoundTensor

(* A step that leaves the tensors alone, and writes values at most.        *)
LEMMA SameTensors ==
  ASSUME MemoryInv, stage \in Active, UNCHANGED <<net, tensors>>, StageStep,
         stage' \in Active => Grows /\ todo' \in Seq(Range(net.inputs))
  PROVE  MemoryInv'
BY StepKeeps DEF MemoryInv, TensorStep

LEMMA Records ==
  /\ IsBuffer(NoBuffer)
  /\ \A b, s, g : IsBuffer(Allocated(b, s, g)) /\ Allocated(b, s, g).state = "live"
  /\ \A b, s, g : IsBuffer(AllocatedImage(b, s, g)) /\ AllocatedImage(b, s, g).state = "live"
BY DEF IsBuffer, BufferFields, NoBuffer, Allocated, AllocatedImage

LEMMA BufferChanges ==
  ASSUME NEW b, IsBuffer(b), NEW v
  PROVE  /\ IsBuffer([b EXCEPT !.val = v]) /\ [b EXCEPT !.val = v].state = b.state
         /\ IsBuffer([b EXCEPT !.state = v]) /\ [b EXCEPT !.state = v].state = v
BY DEF IsBuffer, BufferFields

LEMMA SameGrows ==
  ASSUME GoodBuffers(buffers), UNCHANGED buffers
  PROVE  Grows
BY DEF Grows, GoodBuffers

LEMMA AllocatedGrows ==
  ASSUME GoodBuffers(buffers), NEW b, NEW v, IsBuffer(v), v.state = "live",
         buffers' = [buffers EXCEPT ![b] = v]
  PROVE  Grows /\ (b \in BufferId => buffers'[b].state = "live")
BY DEF Grows, GoodBuffers

LEMMA WithValGrows ==
  ASSUME GoodBuffers(buffers), NEW b, NEW v, buffers' = WithVal(b, v)
  PROVE  Grows
<1>1. PICK w : w = [buffers[b] EXCEPT !.val = v]
  OBVIOUS
<1>2. buffers' = [buffers EXCEPT ![b] = w]
  BY <1>1 DEF WithVal
<1>3. b \in BufferId => IsBuffer(w) /\ w.state = buffers[b].state
  BY <1>1, BufferChanges DEF GoodBuffers
<1> QED BY <1>2, <1>3 DEF Grows, GoodBuffers

(* Resizing keeps the buffer, or makes the tensor's own.                   *)
LEMMA SetToSteps ==
  ASSUME GoodTensors(tensors), NEW n \in Name, ~IsAlias(n), NEW s, NEW b,
         tensors' = [tensors EXCEPT ![n].shape = s, ![n].buffer = b],
         b = tensors[n].buffer \/ (b = Own(n) /\ buffers'[Own(n)].state = "live")
  PROVE  \A m \in Name : TensorStep(m)
<1>1. \A m \in Name : /\ tensors'[m].state = tensors[m].state /\ tensors'[m].unused = tensors[m].unused
                      /\ tensors'[m].owner = tensors[m].owner
                      /\ tensors'[m].buffer = IF m = n THEN b ELSE tensors[m].buffer
  <2> SUFFICES ASSUME NEW m \in Name
               PROVE  /\ tensors'[m].state = tensors[m].state /\ tensors'[m].unused = tensors[m].unused
                      /\ tensors'[m].owner = tensors[m].owner
                      /\ tensors'[m].buffer = IF m = n THEN b ELSE tensors[m].buffer
    OBVIOUS
  <2>1. CASE m # n
    BY <2>1 DEF GoodTensors
  <2>2. CASE m = n
    <3>1. PICK t : t = tensors[n] /\ IsTensor(t)
      BY <2>2 DEF GoodTensors
    <3>2. tensors'[m] = [[t EXCEPT !.shape = s] EXCEPT !.buffer = b]
      BY <2>2, <3>1 DEF GoodTensors
    <3>3. PICK u : u = [[t EXCEPT !.shape = s] EXCEPT !.buffer = b]
      OBVIOUS
    <3>4. u.state = t.state /\ u.unused = t.unused /\ u.owner = t.owner /\ u.buffer = b
      BY <3>1, <3>3 DEF IsTensor, Fields
    <3> QED BY <2>2, <3>1, <3>2, <3>3, <3>4
  <2> QED BY <2>1, <2>2
<1>2. ASSUME NEW m \in Name PROVE TensorStep(m)
  BY <1>1 DEF TensorStep
<1> QED BY <1>2

LEMMA ResizeSteps ==
  ASSUME GoodTensors(tensors), GoodBuffers(buffers), NEW n \in Name, ~IsAlias(n), NEW s, NEW r,
         Resize(n, s, r) \/ ResizeImage(n, s, r)
  PROVE  Grows /\ \A m \in Name : TensorStep(m)
<1>1. ASSUME NEW b, NEW v, IsBuffer(v), v.state = "live",
             buffers' = [buffers EXCEPT ![b] = v],
             tensors' = [tensors EXCEPT ![n].shape = s, ![n].buffer = b],
             b = Own(n) \/ b = tensors[n].buffer
      PROVE  Grows /\ \A m \in Name : TensorStep(m)
  BY <1>1, AllocatedGrows, Ids, SetToSteps
<1>2. ASSUME UNCHANGED buffers, tensors' = [tensors EXCEPT ![n].shape = s, ![n].buffer = tensors[n].buffer]
      PROVE  Grows /\ \A m \in Name : TensorStep(m)
  BY <1>2, SameGrows, SetToSteps
<1>3. ASSUME UNCHANGED <<tensors, buffers>>
      PROVE  Grows /\ \A m \in Name : TensorStep(m)
  BY <1>3, SameGrows DEF TensorStep
<1>4. CASE Resize(n, s, r)
  <2>1. \/ UNCHANGED <<tensors, buffers>>
        \/ UNCHANGED buffers /\ tensors' = [tensors EXCEPT ![n].shape = s, ![n].buffer = tensors[n].buffer]
        \/ \E b \in {Own(n), tensors[n].buffer}, got \in Grant :
             /\ buffers' = [buffers EXCEPT ![b] = Allocated(buffers[b], Elements(s) + Pad, got)]
             /\ tensors' = [tensors EXCEPT ![n].shape = s, ![n].buffer = b]
    BY <1>4 DEF Resize
  <2>2. ASSUME NEW b \in {Own(n), tensors[n].buffer}, NEW got \in Grant,
               buffers' = [buffers EXCEPT ![b] = Allocated(buffers[b], Elements(s) + Pad, got)],
               tensors' = [tensors EXCEPT ![n].shape = s, ![n].buffer = b]
        PROVE  Grows /\ \A m \in Name : TensorStep(m)
    <3>1. PICK v : v = Allocated(buffers[b], Elements(s) + Pad, got)
      OBVIOUS
    <3>2. IsBuffer(v) /\ v.state = "live"
      BY <3>1, Records
    <3> QED BY <1>1, <2>2, <3>1, <3>2
  <2> QED BY <1>2, <1>3, <2>1, <2>2
<1>5. CASE ResizeImage(n, s, r)
  <2>1. \/ UNCHANGED <<tensors, buffers>>
        \/ UNCHANGED buffers /\ tensors' = [tensors EXCEPT ![n].shape = s, ![n].buffer = tensors[n].buffer]
        \/ \E got \in Grant :
             /\ buffers' = [buffers EXCEPT ![Own(n)] = AllocatedImage(buffers[Own(n)], ImageShape(s), got)]
             /\ tensors' = [tensors EXCEPT ![n].shape = s, ![n].buffer = Own(n)]
    BY <1>5 DEF ResizeImage
  <2>2. ASSUME NEW got \in Grant,
               buffers' = [buffers EXCEPT ![Own(n)] = AllocatedImage(buffers[Own(n)], ImageShape(s), got)],
               tensors' = [tensors EXCEPT ![n].shape = s, ![n].buffer = Own(n)]
        PROVE  Grows /\ \A m \in Name : TensorStep(m)
    <3>1. PICK v, b : v = AllocatedImage(buffers[Own(n)], ImageShape(s), got) /\ b = Own(n)
      OBVIOUS
    <3>2. IsBuffer(v) /\ v.state = "live"
      BY <3>1, Records
    <3> QED BY <1>1, <2>2, <3>1, <3>2
  <2> QED BY <1>2, <1>3, <2>1, <2>2
<1> QED BY <1>4, <1>5

(* Where a step of an operator or of feeding leads.                        *)
LEMMA ResizedStages ==
  ASSUME NEW r, Resized(r), stage \in {"init", "feed", "run"}
  PROVE  StageStep
BY DEF Resized, Return, Die, StageStep, Early, Late, Active

LEMMA AdvanceStages ==
  ASSUME NEW a, Advance(a), stage \in {"init", "run"}
  PROVE  StageStep
BY DEF Advance, Die, StageStep, Early, Late, Active

LEMMA DeadStages == Die => StageStep /\ stage' \notin Active
BY DEF Die, StageStep, Early, Late, Active

LEMMA RunsActive == stage \in {"init", "feed", "run"} => stage \in Active
BY DEF Active, Early, Late

(* On the GPU the INIT net only converts weights.                          *)
LEMMA InitConverts ==
  ASSUME \A n \in Nets : WeightsAreConverted(n), net \in Nets, AtOp, OnGPU, stage = "init"
  PROVE  op.type = "BufferToImage" /\ In(1) \in Consts(net)
<1>1. PICK j \in DOMAIN net.ops : op = net.ops[j] /\ net.ops[j].mode = "INIT"
  BY OpFacts DEF Mode
<1>2. PICK o : o = net.ops[j]
  OBVIOUS
<1>3. o.type = "BufferToImage" /\ Range(o.in) \subseteq Consts(net)
  BY <1>1, <1>2 DEF WeightsAreConverted, OnGPU
<1>4. 1 \in DOMAIN o.in
  BY <1>2, NetFacts
<1>5. o.in[1] \in Consts(net)
  BY <1>3, <1>4 DEF Range
<1> QED BY <1>1, <1>2, <1>3, <1>5 DEF In

(* What an alias shares.                                                   *)
LEMMA AliasedSteps ==
  ASSUME GoodTensors(tensors), GoodBuffers(buffers), NEW n \in Name, NEW m \in Name, Held(m),
         ~(OnGPU /\ stage \in Early), IsAlias(n), SoundTensor(n), NEW s,
         tensors' = Aliased(n, m) \/ tensors' = [Aliased(n, m) EXCEPT ![n].shape = s],
         buffers' = WithoutOwn(n)
  PROVE  Grows /\ \A k \in Name : TensorStep(k)
<1>1. UNCHANGED buffers
  BY DEF WithoutOwn, SoundTensor
<1>2. PICK t, b : t = tensors[n] /\ b = tensors[m].buffer /\ IsTensor(t)
  BY DEF GoodTensors
<1>3. PICK u : u = [[[t EXCEPT !.buffer = b] EXCEPT !.owner = FALSE] EXCEPT !.shape = tensors[m].shape]
  OBVIOUS
<1>4. IsTensor(u) /\ u.buffer = b /\ u.owner = FALSE /\ u.state = t.state /\ u.unused = t.unused
  BY <1>2, <1>3 DEF IsTensor, Fields
<1>5. Aliased(n, m) = [tensors EXCEPT ![n] = u]
  BY <1>2, <1>3 DEF Aliased, GoodTensors
<1>6. PICK v : v = [u EXCEPT !.shape = s]
  OBVIOUS
<1>7. IsTensor(v) /\ v.buffer = b /\ v.owner = FALSE /\ v.state = t.state /\ v.unused = t.unused
  BY <1>4, <1>6 DEF IsTensor, Fields
<1>8. [Aliased(n, m) EXCEPT ![n].shape = s] = [tensors EXCEPT ![n] = v]
  BY <1>5, <1>6 DEF GoodTensors
<1>9. \E w \in {u, v} : tensors' = [tensors EXCEPT ![n] = w]
  BY <1>5, <1>8
<1>10. ASSUME NEW k \in Name PROVE TensorStep(k)
  <2>1. CASE k = n
    <3>1. PICK w : /\ tensors' = [tensors EXCEPT ![n] = w]
                   /\ w.buffer = b /\ w.owner = FALSE /\ w.state = t.state /\ w.unused = t.unused
      BY <1>4, <1>7, <1>9
    <3>2. tensors'[n] = w
      BY <3>1 DEF GoodTensors
    <3> QED BY <1>2, <2>1, <3>1, <3>2 DEF TensorStep
  <2>2. CASE k # n
    BY <1>9, <2>2 DEF GoodTensors, TensorStep
  <2> QED BY <2>1, <2>2
<1> QED BY <1>1, <1>10, SameGrows
-----------------------------------------------------------------------------
LEMMA CallStep ==
  ASSUME MemoryInv, stage \in Active, UNCHANGED <<net, todo>>, GoodTensors(tensors'), StageStep,
         stage' \in Active => Grows /\ \A n \in Name : TensorStep(n)
  PROVE  MemoryInv'
BY StepKeeps DEF MemoryInv

(* Marking: on the GPU, while the INIT net runs, what is marked is a       *)
(* weight.                                                                 *)
LEMMA MarkedSteps ==
  ASSUME \A n \in Nets : WeightsAreConverted(n), MemoryInv, AtOp, tensors' = MarkedUnused
  PROVE  \A m \in Name : TensorStep(m)
<1>1. In(1) \in Name /\ GoodTensors(tensors) /\ stage \in {"init", "run"}
  BY OpFacts DEF MemoryInv
<1>2. PICK n, t : n \in Name /\ n = In(1) /\ t = tensors[n] /\ IsTensor(t)
  BY <1>1 DEF GoodTensors
<1>3. PICK u : u = [t EXCEPT !.unused = TRUE]
  OBVIOUS
<1>4. u.state = t.state /\ u.owner = t.owner /\ u.buffer = t.buffer
  BY <1>2, <1>3 DEF IsTensor, Fields
<1>5. tensors' = [tensors EXCEPT ![n] = u]
  BY <1>1, <1>2, <1>3 DEF MarkedUnused, GoodTensors
<1>6. OnGPU /\ stage \in Early => n \in Consts(net)
  BY <1>1, <1>2, InitConverts DEF MemoryInv, Early
<1>7. ASSUME NEW m \in Name PROVE TensorStep(m)
  <2>1. CASE m = n
    BY <1>1, <1>2, <1>5, <2>1, <1>4, <1>6 DEF GoodTensors, TensorStep
  <2>2. CASE m # n
    BY <1>1, <1>5, <2>2 DEF GoodTensors, TensorStep
  <2> QED BY <2>1, <2>2
<1> QED BY <1>7

LEMMA SameSteps ==
  ASSUME UNCHANGED tensors
  PROVE  \A m \in Name : TensorStep(m)
BY DEF TensorStep

LEMMA OperateMemory ==
  ASSUME \A n \in Nets : WeightsAreConverted(n), MemoryInv, Operate
  PROVE  MemoryInv'
<1>1. /\ AtOp /\ UNCHANGED <<net, todo>> /\ net \in Nets /\ GoodTensors(tensors) /\ GoodTensors(tensors')
  BY OperateKeeps DEF Operate, ActivationResize, ActivationCPU, ActivationGPU, AddNResizeCPU, AddNCPU,
     AddNResizeGPU, AddNGPU, Identity, Reshape, BufferToImageResize, BufferToImage, ImageToBufferResize,
     ImageToBuffer, At, Still, call, MemoryInv
<1>2. stage \in {"init", "run"} /\ stage \in Active /\ GoodBuffers(buffers)
  BY <1>1, OpFacts, RunsActive DEF MemoryInv
<1>3. CASE Die
  BY <1>1, <1>2, <1>3, DeadStages, CallStep
<1>4. ASSUME ~Aliasing(op.type), NEW r, NEW s, Resize(op.out, s, r) \/ ResizeImage(op.out, s, r), Resized(r)
      PROVE  MemoryInv'
  <2>1. PICK n : n = op.out
    OBVIOUS
  <2>2. n \in Name /\ ~IsAlias(n)
    BY <1>1, <1>4, <2>1, OpFacts
  <2>3. Grows /\ \A m \in Name : TensorStep(m)
    BY <1>1, <1>2, <1>4, <2>1, <2>2, ResizeSteps
  <2> QED BY <1>1, <1>2, <1>4, <2>3, ResizedStages, CallStep
<1>5. ASSUME NEW a, Advance(a), Grows, \A m \in Name : TensorStep(m)
      PROVE  MemoryInv'
  BY <1>1, <1>2, <1>5, AdvanceStages, CallStep
<1>6. ASSUME NEW a, Advance(a), UNCHANGED tensors, NEW b, NEW v, buffers' = WithVal(b, v)
      PROVE  MemoryInv'
  <2>1. Grows
    BY <1>2, <1>6, WithValGrows
  <2> QED BY <1>5, <1>6, <2>1, SameSteps
<1>7. CASE ActivationResize \/ AddNResizeCPU
  <2>1. \/ \E r : ResizeLike(op.out, In(1), r) /\ Resized(r)
        \/ Die /\ UNCHANGED <<tensors, buffers>>
    BY <1>7 DEF ActivationResize, AddNResizeCPU
  <2>2. ~Aliasing(op.type)
    BY <1>7 DEF ActivationResize, AddNResizeCPU, At, Aliasing
  <2> QED BY <1>3, <1>4, <2>1, <2>2 DEF ResizeLike
<1>8. CASE AddNResizeGPU
  BY <1>8, <1>1, <1>2, SameGrows, SameSteps, ResizedStages, CallStep, <1>3, <1>4 DEF AddNResizeGPU, At,
     Aliasing
<1>9. CASE BufferToImageResize \/ ImageToBufferResize
  <2>1. PICK r : /\ \/ ResizeImage(op.out, tensors[In(1)].shape, r)
                    \/ Resize(op.out, tensors[In(1)].shape, r)
                 /\ Resized(r)
    BY <1>9 DEF BufferToImageResize, ImageToBufferResize
  <2>2. ~Aliasing(op.type)
    BY <1>9 DEF BufferToImageResize, ImageToBufferResize, At, Aliasing
  <2> QED BY <1>4, <2>1, <2>2
<1>10. CASE ActivationCPU \/ AddNCPU \/ ImageToBuffer
  BY <1>10, <1>3, <1>6 DEF ActivationCPU, AddNCPU, ImageToBuffer
<1>11. CASE ActivationGPU \/ AddNGPU
  <2>1. UNCHANGED tensors /\ Compute(SameShapeAsArgs)
    BY <1>11 DEF ActivationGPU, AddNGPU
  <2>2. Die \/ \E a : Advance(a) /\ (UNCHANGED buffers \/ \E b, v : buffers' = WithVal(b, v))
    BY <2>1 DEF Compute
  <2>3. ASSUME NEW a, Advance(a), UNCHANGED buffers PROVE MemoryInv'
    BY <1>2, <1>5, <2>1, <2>3, SameGrows, SameSteps
  <2> QED BY <1>3, <1>6, <2>1, <2>2, <2>3
<1>12. CASE Identity \/ Reshape
  <2>1. /\ Aliasing(op.type)
        /\ \/ Die
           \/ /\ Advance(args) /\ buffers' = WithoutOwn(op.out)
              /\ \/ tensors' = Aliased(op.out, In(1))
                 \/ tensors' = [Aliased(op.out, In(1)) EXCEPT ![op.out].shape = Flat(tensors[In(1)].shape)]
    BY <1>12 DEF Identity, Reshape, At, Aliasing
  <2>2. CASE ~Die
    <3>1. PICK n, m : n = op.out /\ m = In(1)
      OBVIOUS
    <3>2. n \in Name /\ m \in Name /\ IsAlias(n) /\ InNet(m, Mode)
      BY <1>1, <2>1, <3>1, OpFacts
    <3>3. ~(OnGPU /\ stage \in Early)
      BY <1>1, <1>2, <2>1, InitConverts DEF Aliasing, Early
    <3>4. Held(m)
      BY <1>2, <3>2, <3>3 DEF Held, Mode, Late
    <3>5. SoundTensor(n)
      BY <1>2, <3>2 DEF MemoryInv
    <3>6. Grows /\ \A k \in Name : TensorStep(k)
      BY <1>1, <1>2, <2>1, <2>2, <3>1, <3>2, <3>3, <3>4, <3>5, AliasedSteps
    <3> QED BY <1>5, <2>1, <2>2, <3>6
  <2> QED BY <1>3, <2>2
<1>13. CASE BufferToImage
  <2>1. Die \/ (Advance(args) /\ tensors' = MarkedUnused /\ \E b, v : buffers' = WithVal(b, v))
    BY <1>13 DEF BufferToImage
  <2>2. ASSUME Advance(args), tensors' = MarkedUnused, NEW b, NEW v, buffers' = WithVal(b, v)
        PROVE  MemoryInv'
    <3>1. Grows
      BY <1>2, <2>2, WithValGrows
    <3> QED BY <1>1, <1>5, <2>2, <3>1, MarkedSteps
  <2> QED BY <1>3, <2>1, <2>2
<1> QED BY <1>7, <1>8, <1>9, <1>10, <1>11, <1>12, <1>13 DEF Operate
LEMMA ServeMemory ==
  ASSUME MemoryInv, Serve
  PROVE  MemoryInv'
<1>1. stage \in Late /\ UNCHANGED net
  BY DEF Serve, CallRun, FeedResize, FeedCopy, RunNet, CopyOutput, RunReturns, Goto, Late
<1>2. /\ stage \in Active /\ net \in Nets /\ GoodTensors(tensors) /\ GoodBuffers(buffers)
      /\ GoodTensors(tensors') /\ todo \in Seq(Range(net.inputs))
  BY <1>1, ServeKeeps DEF MemoryInv, Active
<1>3. ASSUME UNCHANGED tensors, Grows, StageStep, todo' \in Seq(Range(net.inputs)) PROVE MemoryInv'
  BY <1>1, <1>2, <1>3, SameTensors
<1>4. CASE CallRun
  <2>1. PICK now : todo' = Among(net.inputs, now)
    BY <1>4 DEF CallRun
  <2>2. todo' \in Seq(Range(net.inputs))
    BY <1>2, <2>1, AmongIsPart, NetFacts
  <2>3. StageStep
    BY <1>4 DEF CallRun, StageStep, Early, Late
  <2> QED BY <1>2, <1>3, <1>4, <2>2, <2>3, SameGrows DEF CallRun
<1>5. CASE FeedResize
  <2>1. PICK r : Resize(Head(todo), shape, r) /\ Resized(r) /\ UNCHANGED todo /\ todo # <<>> /\ stage = "feed"
    BY <1>5 DEF FeedResize, call
  <2>2. PICK n : n = Head(todo)
    OBVIOUS
  <2>3. n \in Range(net.inputs)
    BY <1>2, <2>1, <2>2
  <2>4. n \in Name /\ ~IsAlias(n)
    BY <1>2, <2>3, NetFacts DEF IsAlias, Outs
  <2>5. Grows /\ \A m \in Name : TensorStep(m)
    BY <1>2, <2>1, <2>2, <2>4, ResizeSteps
  <2> QED BY <1>1, <1>2, <2>1, <2>5, ResizedStages, CallStep
<1>6. CASE FeedCopy
  <2>1. UNCHANGED tensors /\ todo # <<>> /\ stage = "feed"
    BY <1>6 DEF FeedCopy
  <2>2. CASE ~HasMemory(Head(todo))
    <3>1. Die
      BY <1>6, <2>2 DEF FeedCopy
    <3> QED BY <1>1, <1>2, <2>1, <3>1, DeadStages, SameTensors
  <2>3. CASE HasMemory(Head(todo))
    <3>1. buffers' = Copied(Head(todo)) /\ todo' = Tail(todo) /\ UNCHANGED stage
      BY <1>6, <2>3 DEF FeedCopy
    <3>2. Grows
      BY <1>2, <3>1, WithValGrows DEF Copied
    <3>3. todo' \in Seq(Range(net.inputs))
      BY <1>2, <2>1, <3>1
    <3>4. StageStep
      BY <1>1, <3>1 DEF StageStep
    <3> QED BY <1>3, <2>1, <3>2, <3>3, <3>4
  <2> QED BY <2>2, <2>3
<1>7. CASE RunNet \/ RunReturns \/ CopyOutput
  BY <1>7, <1>2, <1>3, SameGrows DEF RunNet, RunReturns, CopyOutput, Goto, call, Return, Die, StageStep,
     Early, Late, Active
<1> QED BY <1>4, <1>5, <1>6, <1>7 DEF Serve

LEMMA DestroyMemory ==
  ASSUME MemoryInv, Destroy
  PROVE  MemoryInv'
BY DestroyKeeps DEF Destroy, Goto, MemoryInv, Active, Early, Late, GoodTensors, IsTensor, Owning
-----------------------------------------------------------------------------
(* Init's steps until the NORMAL net is built.  A tensor is made with no   *)
(* memory yet, or with some that is there.                                 *)
SetupTensor(n) ==
  \/ tensors'[n] = tensors[n]
  \/ /\ ~tensors'[n].unused
     /\ \/ tensors'[n].buffer = Null
        \/ \E b \in BufferId :
             /\ tensors'[n].buffer = b /\ Lives(b)'
             /\ b \in {Own(n)} \cup {Pool(m) : m \in Block} \/ (b = Slice(n) /\ n \in Consts(net))
             /\ ~IsAlias(n)

LEMMA SetupStep ==
  ASSUME MemoryInv, stage \in Early, stage' \in Early, UNCHANGED <<net, todo>>, GoodTensors(tensors'),
         Grows, \A n \in Name : SetupTensor(n),
         stage' = "init" => \A n \in Name : InNet(n, "INIT") => tensors'[n].state = "live"
  PROVE  MemoryInv'
<1>1. net' \in Nets /\ GoodTensors(tensors)' /\ GoodBuffers(buffers)' /\ todo' \in Seq(Range(net'.inputs))
  BY DEF MemoryInv, GoodTensors, IsTensor, Owning, Grows, GoodBuffers, IsBuffer, Active
<1>2. /\ \A m, mode : InNet(m, mode)' <=> InNet(m, mode)
      /\ \A m : IsAlias(m)' <=> IsAlias(m)
      /\ OnGPU' <=> OnGPU
      /\ Consts(net)' = Consts(net)
      /\ stage \notin Late /\ stage' \notin Late
  BY DEF InNet, IsAlias, OnGPU, Early, Late
<1>3. ASSUME NEW n \in Name PROVE SoundTensor(n)'
  <2>1. SoundTensor(n) /\ SetupTensor(n) /\ Held(n) /\ (OnGPU => Plain(n))
    BY <1>2 DEF MemoryInv, Active, Held, SoundTensor
  <2>2. \A b \in BufferId : Lives(b) => Lives(b)'
    BY Ids DEF Lives, Grows
  <2>3. (stage = "init" /\ InNet(n, "INIT") => tensors[n].state = "live")'
    BY <1>2
  <2>4. CASE tensors'[n] = tensors[n]
    <3>1. PICK t, b : t = tensors[n] /\ b = t.buffer
      OBVIOUS
    <3>2. b \in BufferId \cup {Null} /\ (b # Null => Lives(b)') /\ (IsAlias(n) /\ t.owner => b = Null)
      BY <2>1, <2>2, <3>1 DEF SoundTensor
    <3>3. (OnGPU => Plain(n))'
      BY <1>2, <2>1, <2>4 DEF Plain
    <3> QED BY <1>2, <2>3, <2>4, <3>1, <3>2, <3>3 DEF SoundTensor
  <2>5. CASE ~tensors'[n].unused /\ tensors'[n].buffer = Null
    BY <1>2, <2>3, <2>5 DEF SoundTensor, Plain
  <2>6. ASSUME ~tensors'[n].unused, NEW b \in BufferId, tensors'[n].buffer = b, Lives(b)',
               b \in {Own(n)} \cup {Pool(m) : m \in Block} \/ (b = Slice(n) /\ n \in Consts(net)),
               ~IsAlias(n)
        PROVE  SoundTensor(n)'
    BY <1>2, <2>6, <2>3 DEF Plain, SoundTensor
  <2> QED BY <2>1, <2>4, <2>5, <2>6 DEF SetupTensor
<1> QED BY <1>1, <1>3 DEF MemoryInv

LEMMA Ended ==
  ASSUME MemoryInv, UNCHANGED net, GoodTensors(tensors'), stage' \notin Active
  PROVE  MemoryInv'
<1>1. GoodTensors(tensors)'
  BY DEF GoodTensors, IsTensor, Owning
<1> QED BY <1>1 DEF MemoryInv

LEMMA Refusals == (Refused => stage \in Late \/ stage' \notin Active) /\ (Die => stage' \notin Active)
BY DEF Refused, Return, Die, Active, Early, Late

LEMMA NewTensors ==
  /\ NewTensor.buffer = Null /\ ~NewTensor.unused /\ NewTensor.state = "live"
  /\ NoTensor.buffer = Null /\ ~NoTensor.unused
  /\ \A b, s : /\ TensorOn(b, s).buffer = b /\ ~TensorOn(b, s).unused
               /\ TensorOn(b, s).state = "live" /\ ~TensorOn(b, s).owner
BY DEF NewTensor, NoTensor, TensorOn

LEMMA ConstsAreNames ==
  ASSUME net \in Nets, NEW n \in Consts(net)
  PROVE  n \in Name /\ ~IsAlias(n)
<1>1. PICK i \in DOMAIN net.ops : n \in Range(net.ops[i].in)
  BY DEF Consts
<1>2. n \in Name
  BY <1>1, NetFacts
<1>3. n \notin Outs(net)
  BY DEF Consts
<1> QED BY <1>2, <1>3 DEF IsAlias, Outs

(* The weights.                                                            *)
LEMMA LoadMemory ==
  ASSUME MemoryInv, LoadModel
  PROVE  MemoryInv'
<1>1. /\ stage = "load" /\ UNCHANGED net /\ GoodTensors(tensors') /\ GoodTensors(tensors)
      /\ GoodBuffers(buffers) /\ UNCHANGED todo /\ net \in Nets
  BY SetupKeeps DEF LoadModel, Goto, Refused, Return, call, MemoryInv, Setup, Active, Early
<1>2. CASE Refused
  BY <1>1, <1>2, Refusals, Ended DEF Late
<1>3. CASE ~Refused
  <2>1. /\ buffers' = [b \in BufferId |->
                 CASE b = Weights -> Allocated(buffers[b], Cardinality(Consts(net)), TRUE)
                   [] b.of = "slice" /\ b.id \in Consts(net)
                        -> [Allocated(buffers[b], Elements(WeightShape), TRUE)
                              EXCEPT !.val = Const(b.id)]
                   [] OTHER -> buffers[b]]
        /\ tensors' = [n \in Name |-> IF n \in Consts(net)
                                      THEN TensorOn(Slice(n), WeightShape)
                                      ELSE tensors[n]]
        /\ stage' = "pool"
    BY <1>3 DEF LoadModel, Goto
  <2>2. \A b \in BufferId :
          /\ b = Weights \/ (b.of = "slice" /\ b.id \in Consts(net)) => buffers'[b].state = "live"
          /\ buffers[b].state = "live" => buffers'[b].state = "live"
          /\ IsBuffer(buffers'[b])
    <3> SUFFICES ASSUME NEW b \in BufferId
                 PROVE  /\ b = Weights \/ (b.of = "slice" /\ b.id \in Consts(net)) => buffers'[b].state = "live"
                        /\ buffers[b].state = "live" => buffers'[b].state = "live"
                        /\ IsBuffer(buffers'[b])
      OBVIOUS
    <3>1. PICK u : u = Allocated(buffers[b], Elements(WeightShape), TRUE)
      OBVIOUS
    <3>2. PICK v : v = [u EXCEPT !.val = Const(b.id)]
      OBVIOUS
    <3>3. IsBuffer(v) /\ v.state = "live"
      <4>1. IsBuffer(u) /\ u.state = "live"
        BY <3>1, Records
      <4> QED BY <3>2, <4>1, BufferChanges
    <3>4. PICK w : w = Allocated(buffers[b], Cardinality(Consts(net)), TRUE)
      OBVIOUS
    <3>5. IsBuffer(w) /\ w.state = "live"
      BY <3>4, Records
    <3>6. buffers'[b] = CASE b = Weights -> w
                          [] b.of = "slice" /\ b.id \in Consts(net) -> v
                          [] OTHER -> buffers[b]
      BY <2>1, <3>1, <3>2, <3>4
    <3>7. Weights.of # "slice"
      BY Ids
    <3>8. CASE b = Weights
      BY <3>6, <3>7, <3>8, <3>5
    <3>9. CASE b # Weights /\ b.of = "slice" /\ b.id \in Consts(net)
      BY <3>6, <3>9, <3>3
    <3>10. CASE b # Weights /\ ~(b.of = "slice" /\ b.id \in Consts(net))
      BY <1>1, <3>6, <3>10 DEF GoodBuffers
    <3> QED BY <3>8, <3>9, <3>10
  <2>3. Grows
    <3>1. buffers' = [b \in BufferId |-> buffers'[b]]
      BY <2>1
    <3> QED BY <2>2, <3>1 DEF Grows, GoodBuffers
  <2>4. ASSUME NEW n \in Name PROVE SetupTensor(n)
    <3>1. CASE n \in Consts(net)
      <4>1. PICK b \in BufferId : b = Slice(n) /\ b.of = "slice" /\ b.id = n
        BY Ids
      <4>2. Lives(b)'
        BY <2>2, <3>1, <4>1, Ids DEF Lives
      <4>3. tensors'[n] = TensorOn(b, WeightShape)
        BY <2>1, <3>1, <4>1
      <4>4. tensors'[n].buffer = b /\ ~tensors'[n].unused /\ ~tensors'[n].owner
        BY <4>3, NewTensors
      <4> QED BY <1>1, <3>1, <4>1, <4>2, <4>4, ConstsAreNames DEF SetupTensor
    <3>2. CASE n \notin Consts(net)
      BY <2>1, <3>2 DEF SetupTensor
    <3> QED BY <3>1, <3>2
  <2> QED BY <1>1, <2>1, <2>3, <2>4, SetupStep DEF Early
<1> QED BY <1>2, <1>3

LEMMA LoadBigMemory ==
  ASSUME MemoryInv, LoadBigModel
  PROVE  MemoryInv'
<1>1. /\ stage = "load" /\ GoodTensors(tensors') /\ GoodTensors(tensors)
      /\ GoodBuffers(buffers) /\ net \in Nets
  BY SetupKeeps DEF LoadBigModel, Setup, MemoryInv, Active, Early
<1>2. CASE Die
  <2>1. UNCHANGED net
    BY DEF LoadBigModel, Goto
  <2> QED BY <1>1, <1>2, <2>1, Refusals, Ended
<1>3. CASE ~Die
  <2>1. PICK got : /\ buffers' = [b \in BufferId |->
                         IF b.of = "tensor" /\ b.id \in Consts(net)
                         THEN [Allocated(buffers[b], Elements(WeightShape) + Pad, got[b.id])
                                 EXCEPT !.val = Const(b.id)]
                         ELSE buffers[b]]
                   /\ tensors' = [n \in Name |->
                         IF n \in Consts(net)
                         THEN [NewTensor EXCEPT !.buffer = Own(n), !.shape = WeightShape]
                         ELSE tensors[n]]
                   /\ stage' = "pool" /\ UNCHANGED <<net, todo>>
    BY <1>3 DEF LoadBigModel, Goto, call
  <2>2. \A b \in BufferId :
          /\ b.of = "tensor" /\ b.id \in Consts(net) => buffers'[b].state = "live"
          /\ buffers[b].state = "live" => buffers'[b].state = "live"
          /\ IsBuffer(buffers'[b])
    <3> SUFFICES ASSUME NEW b \in BufferId
                 PROVE  /\ b.of = "tensor" /\ b.id \in Consts(net) => buffers'[b].state = "live"
                        /\ buffers[b].state = "live" => buffers'[b].state = "live"
                        /\ IsBuffer(buffers'[b])
      OBVIOUS
    <3>1. PICK u : u = Allocated(buffers[b], Elements(WeightShape) + Pad, got[b.id])
      OBVIOUS
    <3>2. PICK v : v = [u EXCEPT !.val = Const(b.id)]
      OBVIOUS
    <3>3. IsBuffer(v) /\ v.state = "live"
      <4>1. IsBuffer(u) /\ u.state = "live"
        BY <3>1, Records
      <4> QED BY <3>2, <4>1, BufferChanges
    <3>4. buffers'[b] = IF b.of = "tensor" /\ b.id \in Consts(net) THEN v ELSE buffers[b]
      BY <2>1, <3>1, <3>2
    <3>5. IsBuffer(buffers[b])
      BY <1>1 DEF GoodBuffers
    <3> QED BY <3>3, <3>4, <3>5
  <2>3. Grows
    BY <2>1, <2>2 DEF Grows, GoodBuffers
  <2>4. ASSUME NEW n \in Name PROVE SetupTensor(n)
    <3>1. CASE n \in Consts(net)
      <4>1. PICK b \in BufferId : b = Own(n) /\ b.of = "tensor" /\ b.id = n
        BY Ids
      <4>2. Lives(b)'
        BY <2>2, <3>1, <4>1 DEF Lives
      <4>3. PICK t : t = [[NewTensor EXCEPT !.buffer = b] EXCEPT !.shape = WeightShape]
        OBVIOUS
      <4>4. t.buffer = b /\ ~t.unused
        BY <4>3 DEF NewTensor, NoTensor
      <4>5. tensors'[n] = t
        BY <2>1, <3>1, <4>1, <4>3
      <4> QED BY <1>1, <3>1, <4>1, <4>2, <4>4, <4>5, ConstsAreNames DEF SetupTensor
    <3>2. CASE n \notin Consts(net)
      BY <2>1, <3>2 DEF SetupTensor
    <3> QED BY <3>1, <3>2
  <2> QED BY <1>1, <2>1, <2>3, <2>4, SetupStep DEF Early
<1> QED BY <1>2, <1>3

(* The arena.                                                              *)
LEMMA PoolMemory ==
  ASSUME MemoryInv, CreateOutputTensorBuffer
  PROVE  MemoryInv'
<1>1. /\ stage = "pool" /\ UNCHANGED net /\ GoodTensors(tensors') /\ GoodTensors(tensors)
      /\ GoodBuffers(buffers) /\ UNCHANGED todo /\ net \in Nets
  BY SetupKeeps DEF CreateOutputTensorBuffer, Goto, Refused, Return, call, MemoryInv, Setup, Active, Early
<1>2. CASE Refused
  BY <1>1, <1>2, Refusals, Ended DEF Late
<1>3. CASE ~Refused
  <2>1. /\ buffers' = [b \in BufferId |->
                 IF b.of = "pool" /\ b.id \in Arena(net)
                 THEN IF OnGPU
                      THEN AllocatedImage(buffers[b], ImageShape(net.plan), TRUE)
                      ELSE Allocated(buffers[b], Elements(net.plan) + Pad, TRUE)
                 ELSE buffers[b]]
        /\ tensors' = [n \in Name |->
                 IF \E i \in Pooled(net) : net.ops[i].out = n
                 THEN LET i == CHOOSE i \in Pooled(net) : net.ops[i].out = n
                      IN TensorOn(Pool(net.ops[i].mem), NoShape)
                 ELSE tensors[n]]
        /\ stage' = "create"
    BY <1>3 DEF CreateOutputTensorBuffer, Goto
  <2>2. \A b \in BufferId :
          /\ b.of = "pool" /\ b.id \in Arena(net) => buffers'[b].state = "live"
          /\ buffers[b].state = "live" => buffers'[b].state = "live"
          /\ IsBuffer(buffers'[b])
    <3> SUFFICES ASSUME NEW b \in BufferId
                 PROVE  /\ b.of = "pool" /\ b.id \in Arena(net) => buffers'[b].state = "live"
                        /\ buffers[b].state = "live" => buffers'[b].state = "live"
                        /\ IsBuffer(buffers'[b])
      OBVIOUS
    <3>1. PICK v : v = IF OnGPU THEN AllocatedImage(buffers[b], ImageShape(net.plan), TRUE)
                               ELSE Allocated(buffers[b], Elements(net.plan) + Pad, TRUE)
      OBVIOUS
    <3>2. IsBuffer(v) /\ v.state = "live"
      BY <3>1, Records
    <3>3. buffers'[b] = IF b.of = "pool" /\ b.id \in Arena(net) THEN v ELSE buffers[b]
      BY <2>1, <3>1
    <3>4. IsBuffer(buffers[b])
      BY <1>1 DEF GoodBuffers
    <3> QED BY <3>2, <3>3, <3>4
  <2>3. Grows
    BY <2>1, <2>2 DEF Grows, GoodBuffers
  <2>4. ASSUME NEW n \in Name PROVE SetupTensor(n)
    <3>1. CASE \E i \in Pooled(net) : net.ops[i].out = n
      <4>1. PICK i \in Pooled(net) : /\ net.ops[i].out = n
                                     /\ tensors'[n] = TensorOn(Pool(net.ops[i].mem), NoShape)
        BY <2>1, <3>1
      <4>2. i \in DOMAIN net.ops /\ net.ops[i].mem \in Block /\ net.ops[i].mem \in Arena(net)
            /\ ~Aliasing(net.ops[i].type)
        BY <1>1, <4>1, NetFacts DEF Pooled, Arena, ShouldPreallocate
      <4>6. ~IsAlias(n)
        BY <1>1, <4>1, <4>2, NetFacts DEF IsAlias
      <4>3. PICK b \in BufferId : b = Pool(net.ops[i].mem) /\ b.of = "pool" /\ b.id = net.ops[i].mem
        BY <4>2, Ids
      <4>4. Lives(b)'
        BY <2>2, <4>2, <4>3 DEF Lives
      <4>5. tensors'[n].buffer = b /\ ~tensors'[n].unused /\ ~tensors'[n].owner
        BY <4>1, <4>3, NewTensors
      <4> QED BY <4>2, <4>3, <4>4, <4>5, <4>6 DEF SetupTensor
    <3>2. CASE ~\E i \in Pooled(net) : net.ops[i].out = n
      BY <2>1, <3>2 DEF SetupTensor
    <3> QED BY <3>1, <3>2
  <2> QED BY <1>1, <2>1, <2>3, <2>4, SetupStep DEF Early
<1> QED BY <1>2, <1>3

(* The nets: whatever an operator of a net uses is there.                  *)
LEMMA OutputsThere ==
  ASSUME net \in Nets, NEW mode, AllExist(Ops(net, mode)), NEW n \in Name
  PROVE  /\ WithOutputs(Ops(net, mode))[n] \in {tensors[n], NewTensor}
         /\ InNet(n, mode) => WithOutputs(Ops(net, mode))[n].state = "live"
<1>1. PICK q : q = Ops(net, mode)
  OBVIOUS
<1>2. DOMAIN q = 1..Len(q) /\ Len(q) \in Nat
  BY <1>1, OpsAreOps
<1>3. WithOutputs(q)[n] = IF tensors[n].state # "live" /\ \E i \in DOMAIN q : q[i].out = n
                          THEN NewTensor ELSE tensors[n]
  BY DEF WithOutputs
<1>4. ASSUME InNet(n, mode) PROVE tensors[n].state = "live" \/ \E i \in DOMAIN q : q[i].out = n
  <2>1. PICK i \in DOMAIN q : n \in Range(q[i].in) \/ n = q[i].out
    BY <1>1, <1>4 DEF InNet
  <2>2. CASE n \in Range(q[i].in)
    BY <1>1, <2>1, <2>2, <1>2 DEF AllExist, Exists
  <2> QED BY <2>1, <2>2
<1> QED BY <1>1, <1>3, <1>4, NewTensors

LEMMA InitNetMemory ==
  ASSUME MemoryInv, CreateInitNet
  PROVE  MemoryInv'
<1>1. /\ stage = "create" /\ GoodTensors(tensors') /\ GoodTensors(tensors)
      /\ GoodBuffers(buffers) /\ net \in Nets /\ UNCHANGED buffers
  BY SetupKeeps DEF CreateInitNet, MemoryInv, Setup, Active, Early
<1>2. CASE Die
  <2>1. UNCHANGED net
    BY DEF CreateInitNet, Goto
  <2> QED BY <1>1, <1>2, <2>1, Refusals, Ended
<1>3. CASE ~Die
  <2>1. /\ AllExist(Ops(net, "INIT")) /\ tensors' = WithOutputs(Ops(net, "INIT"))
        /\ UNCHANGED <<net, todo>> /\ stage' \in {"built", "init"}
    BY <1>3 DEF CreateInitNet, Goto, call
  <2>2. ASSUME NEW n \in Name
        PROVE  SetupTensor(n) /\ (InNet(n, "INIT") => tensors'[n].state = "live")
    BY <1>1, <2>1, OutputsThere, NewTensors DEF SetupTensor
  <2> QED BY <1>1, <2>1, <2>2, SameGrows, SetupStep DEF Early
<1> QED BY <1>2, <1>3

LEMMA CreateMemory ==
  ASSUME MemoryInv, CreateTensors
  PROVE  MemoryInv'
<1>1. /\ stage = "new" /\ GoodTensors(tensors') /\ GoodBuffers(buffers) /\ UNCHANGED <<buffers, net, todo>>
      /\ stage' = "load"
  BY SetupKeeps DEF CreateTensors, MemoryInv, Setup, Active, Early, Goto, call
<1>2. ASSUME NEW n \in Name PROVE SetupTensor(n)
  BY NewTensors DEF CreateTensors, SetupTensor
<1> QED BY <1>1, <1>2, SameGrows, SetupStep DEF Early
(* What the NORMAL net uses is nothing that is given back: no weight, nor  *)
(* a tensor marked as no longer needed, which is one.                      *)
LEMMA NormalKept ==
  ASSUME \A n \in Nets : WeightsAreConverted(n), net \in Nets, OnGPU, NEW n, InNet(n, "NORMAL")
  PROVE  n \notin Consts(net)
<1>1. PICK j \in DOMAIN net.ops :
        net.ops[j].mode = "NORMAL" /\ (n \in Range(net.ops[j].in) \/ n = net.ops[j].out)
  BY OpsAreOps DEF InNet
<1>2. Range(net.ops[j].in) \cap Consts(net) = {}
  BY <1>1 DEF WeightsAreConverted, OnGPU
<1>3. n \in Range(net.ops[j].in) => n \notin Consts(net)
  BY <1>2
<1>4. n = net.ops[j].out => n \in Outs(net)
  BY <1>1 DEF Outs
<1>5. Consts(net) \cap Outs(net) = {}
  BY DEF Consts
<1> QED BY <1>1, <1>3, <1>4, <1>5

LEMMA NormalNetMemory ==
  ASSUME \A n \in Nets : WeightsAreConverted(n), MemoryInv, CreateNormalNet
  PROVE  MemoryInv'
<1>1. /\ stage = "built" /\ GoodTensors(tensors') /\ GoodTensors(tensors)
      /\ GoodBuffers(buffers) /\ net \in Nets /\ UNCHANGED <<net, todo>>
  BY SetupKeeps DEF CreateNormalNet, call, Setup, MemoryInv, Active, Early
<1>2. CASE Die
  BY <1>1, <1>2, Refusals, Ended
<1>3. CASE ~Die
  <2>1. PICK ts : ts = WithOutputs(Ops(net, "NORMAL"))
    OBVIOUS
  <2>2. PICK gone : gone = {n \in Name : ts[n].state = "live" /\ ts[n].unused}
    OBVIOUS
  <2>3. /\ AllExist(Ops(net, "NORMAL")) /\ stage' = "ready"
        /\ ~OnGPU => tensors' = ts /\ UNCHANGED buffers
        /\ OnGPU => /\ tensors' = [n \in Name |->
                          IF n \in gone THEN [ts[n] EXCEPT !.state = "erased"] ELSE ts[n]]
                    /\ buffers' = Freed(buffers, {Weights} \cup {Own(n) : n \in {m \in gone : ts[m].owner}})
    BY <1>3, <2>1, <2>2 DEF CreateNormalNet
  <2>4. /\ \A m, mode : InNet(m, mode)' <=> InNet(m, mode)
        /\ \A m : IsAlias(m)' <=> IsAlias(m)
        /\ OnGPU' <=> OnGPU
        /\ stage' \in Late /\ stage' \notin Early /\ stage' # "init" /\ stage \in Early /\ stage \notin Late
    BY <1>1, <2>3 DEF InNet, IsAlias, OnGPU, Early, Late
  <2>5. GoodTensors(tensors)' /\ net' \in Nets /\ todo' \in Seq(Range(net'.inputs))
    BY <1>1, <2>4 DEF MemoryInv, GoodTensors, IsTensor, Owning, Active
  <2>6. ASSUME NEW n \in Name
        PROVE  /\ ts[n] \in {tensors[n], NewTensor} /\ (InNet(n, "NORMAL") => ts[n].state = "live")
               /\ IsTensor(ts[n]) /\ SoundTensor(n) /\ Held(n) /\ (OnGPU => Plain(n))
    BY <1>1, <2>1, <2>3, OutputsThere, Literals, <2>4 DEF GoodTensors, MemoryInv, Active, Held,
       SoundTensor
  <2>7. CASE ~OnGPU
    <3>1. UNCHANGED buffers /\ tensors' = ts
      BY <2>3, <2>7
    <3>2. GoodBuffers(buffers)'
      BY <1>1, <3>1 DEF GoodBuffers, IsBuffer
    <3>3. \A b : Lives(b)' <=> Lives(b)
      BY <3>1 DEF Lives
    <3>4. ASSUME NEW n \in Name PROVE SoundTensor(n)'
      <4>1. PICK t : t = ts[n] /\ t \in {tensors[n], NewTensor}
        BY <2>6
      <4>2. /\ t.buffer \in BufferId \cup {Null} /\ (t.buffer # Null => Lives(t.buffer))
            /\ (IsAlias(n) /\ t.owner => t.buffer = Null)
            /\ (InNet(n, "NORMAL") => t.state = "live")
        BY <2>6, <4>1, NewTensors DEF SoundTensor
      <4>3. PICK b : b = t.buffer
        OBVIOUS
      <4>4. b # Null => Lives(b)'
        BY <3>3, <4>2, <4>3
      <4> QED BY <2>4, <2>7, <3>1, <4>1, <4>2, <4>3, <4>4 DEF SoundTensor
    <3> QED BY <2>5, <3>2, <3>4 DEF MemoryInv
  <2>8. CASE OnGPU
    <3>1. PICK W : W = {Weights} \cup {Own(n) : n \in {m \in gone : ts[m].owner}}
      OBVIOUS
    <3>2. ASSUME NEW b \in BufferId
          PROVE  /\ IsBuffer(buffers'[b]) /\ (b \notin W => buffers'[b] = buffers[b])
      <4>1. PICK v, u : u = buffers[b] /\ v = [u EXCEPT !.state = "freed"] /\ IsBuffer(u)
        BY <1>1 DEF GoodBuffers
      <4>2. IsBuffer(v)
        BY <4>1, BufferChanges
      <4>3. buffers'[b] = IF b \in W /\ u.state = "live" THEN v ELSE u
        BY <2>3, <2>8, <3>1, <4>1 DEF Freed
      <4> QED BY <4>1, <4>2, <4>3
    <3>3. GoodBuffers(buffers)'
      BY <2>3, <2>8, <3>2 DEF Freed, GoodBuffers, IsBuffer
    <3>4. ASSUME NEW n \in Name PROVE SoundTensor(n)'
      <4>1. PICK t : t = ts[n] /\ t \in {tensors[n], NewTensor} /\ IsTensor(t)
        BY <2>6
      <4>2. PICK u : u = [t EXCEPT !.state = "erased"]
        OBVIOUS
      <4>3. u.buffer = t.buffer /\ u.owner = t.owner
        BY <4>1, <4>2 DEF IsTensor, Fields
      <4>4. tensors'[n] = IF n \in gone THEN u ELSE t
        BY <2>3, <2>8, <4>1, <4>2
      <4>5. PICK b : b = t.buffer
        OBVIOUS
      <4>6. tensors'[n].buffer = b /\ tensors'[n].owner = t.owner
        BY <4>3, <4>4, <4>5
      <4>7. b \in BufferId \cup {Null} /\ (IsAlias(n) /\ t.owner => b = Null) /\ (b # Null => Lives(b))
        BY <2>6, <4>1, <4>5, NewTensors DEF SoundTensor
      <4>8. ASSUME InNet(n, "NORMAL")
            PROVE  tensors'[n].state = "live" /\ (b # Null => Lives(b)')
        <5>1. n \notin Consts(net)
          BY <1>1, <2>8, <4>8, NormalKept
        <5>2. ~t.unused /\ b \in {Null, Own(n)} \cup {Pool(m) : m \in Block}
          BY <2>6, <2>8, <4>1, <4>5, <5>1, NewTensors DEF Plain
        <5>3. n \notin gone
          BY <2>2, <4>1, <5>2
        <5>4. tensors'[n].state = "live"
          BY <2>6, <4>1, <4>4, <4>8, <5>3
        <5>5. b # Null => b \notin W /\ b.of # "slice"
          BY <3>1, <5>3, Ids, <5>2
        <5>6. b # Null => Lives(b)'
          BY <3>2, <4>7, <5>5 DEF Lives
        <5> QED BY <5>4, <5>6
      <4>9. /\ b = tensors'[n].buffer /\ (OnGPU' /\ stage' \in Late /\ ~(stage' \in Early) /\ stage' # "init")
            /\ (InNet(n, "NORMAL")' <=> InNet(n, "NORMAL")) /\ (IsAlias(n)' <=> IsAlias(n))
        BY <2>4, <2>8, <4>6
      <4> HIDE DEF Late, Early
      <4>10. Held(n)' => InNet(n, "NORMAL")
        BY <4>9 DEF Held
      <4>11. IsAlias(n)' /\ tensors'[n].owner => tensors'[n].buffer = Null
        BY <4>6, <4>7, <4>9
      <4>12. Held(n)' /\ tensors'[n].buffer # Null => Lives(b)'
        BY <4>8, <4>9, <4>10
      <4> QED BY <4>7, <4>8, <4>9, <4>11, <4>12 DEF SoundTensor
    <3> QED BY <2>5, <3>3, <3>4 DEF MemoryInv
  <2> QED BY <2>7, <2>8
<1> QED BY <1>2, <1>3

LEMMA MemoryInit == Init => MemoryInv
<1> SUFFICES ASSUME Init PROVE MemoryInv
  OBVIOUS
<1>1. /\ net \in Nets /\ stage = "new" /\ todo = <<>>
      /\ tensors = [n \in Name |-> NoTensor] /\ buffers = [b \in BufferId |-> NoBuffer]
  BY DEF Init, NoMemoryYet
<1>2. GoodTensors(tensors)
  BY <1>1, Literals DEF GoodTensors, Owning
<1>3. GoodBuffers(buffers)
  BY <1>1, Records DEF GoodBuffers
<1>4. \A n \in Name : SoundTensor(n)
  BY <1>1, NewTensors DEF SoundTensor, Plain, Late
<1> QED BY <1>1, <1>2, <1>3, <1>4 DEF MemoryInv

LEMMA MemoryNext ==
  ASSUME \A n \in Nets : WeightsAreConverted(n), MemoryInv, [Next]_vars
  PROVE  MemoryInv'
<1>1. CASE UNCHANGED vars
  <2>1. UNCHANGED <<tensors, buffers, net, stage, todo>>
    BY <1>1 DEF vars, call
  <2>2. CASE stage \in Active
    BY <2>1, SameGrows, <2>2, SameSteps, CallStep DEF MemoryInv, StageStep, Active
  <2>3. CASE stage \notin Active
    BY <2>1, <2>3, Ended DEF MemoryInv
  <2> QED BY <2>2, <2>3
<1>2. CASE Stopped
  BY <1>2, Ended DEF Stopped, vars, Active, Early, Late, MemoryInv
<1>3. CASE Setup
  BY <1>3, CreateMemory, LoadMemory, LoadBigMemory, PoolMemory, InitNetMemory, NormalNetMemory DEF Setup
<1> QED BY <1>1, <1>2, <1>3, OperateMemory, ServeMemory, DestroyMemory DEF Next

(* For every net whose weights only the INIT operators read on the GPU,    *)
(* any number of calls of any shapes and any allocation failing: what an   *)
(* operator reads and writes is there, although Init gives the weights and *)
(* every tensor marked as unused back, tensors are other names of memory   *)
(* and an own buffer goes when its tensor becomes such a name.             *)
THEOREM MemoryThere ==
  ASSUME \A n \in Nets : WeightsAreConverted(n)
  PROVE  Spec => []OnlyLiveMemory
<1>1. MemoryInv => OnlyLiveMemory
  <2> SUFFICES ASSUME MemoryInv, AtOp, NEW n \in Range(op.in) \cup {op.out}
               PROVE  InLiveMemory(n)
    BY DEF OnlyLiveMemory
  <2>1. net \in Nets /\ stage \in {"init", "run"} /\ n \in Name /\ InNet(n, Mode)
    BY OpFacts DEF MemoryInv
  <2>2. SoundTensor(n)
    BY <2>1, RunsActive DEF MemoryInv
  <2>3. tensors[n].state = "live" /\ Held(n)
    BY <2>1, <2>2 DEF SoundTensor, Mode, Held, Late
  <2> QED BY <2>2, <2>3 DEF SoundTensor, InLiveMemory, Lives
<1>2. MemoryInv /\ [Next]_vars => MemoryInv'
  BY MemoryNext
<1> QED BY <1>1, <1>2, MemoryInit, PTL DEF Spec
-----------------------------------------------------------------------------
(* The types, which no assumption on what the nets compute is needed for.  *)
States == {"none", "live", "freed"}

TypeInv ==
  /\ TypeOK /\ net \in Nets /\ todo \in Seq(Range(net.inputs))
  /\ shape \in Shapes \cup {NoShape}
  /\ GoodBuffers(buffers)
  /\ stage \in {"new", "load", "pool", "create", "feed"} => at = 1

LEMMA ShapesFlat ==
  /\ Shapes \cup {NoShape, WeightShape} \subseteq TensorShapes
  /\ \A s \in TensorShapes : Flat(s) \in TensorShapes
<1> DEFINE made == Shapes \cup {NoShape, WeightShape}
<1>1. TensorShapes = made \cup {Flat(s) : s \in made}
  BY DEF TensorShapes
<1>2. \A s \in made : s[1] \in Nat /\ s[2] \in Nat /\ s[3] \in Nat
  BY EngineAssumption DEF NoShape, WeightShape
<1>5. Shapes \cup {NoShape, WeightShape} = made
  OBVIOUS
<1> HIDE DEF made
<1>3. \A s \in made : Elements(s) \in Nat
  BY <1>2 DEF Elements
<1>4. \A s \in made : Flat(Flat(s)) = Flat(s)
  <2> TAKE s \in made
  <2>1. PICK k \in Nat : k = Elements(s)
    BY <1>3
  <2>2. Flat(s) = <<1, 1, k>>
    BY <2>1 DEF Flat
  <2>3. Elements(<<1, 1, k>>) = k
    BY DEF Elements
  <2> QED BY <2>2, <2>3 DEF Flat
<1> QED BY <1>1, <1>4, <1>5

LEMMA TensorTypes ==
  /\ NoTensor \in TensorType /\ NewTensor \in TensorType
  /\ \A b \in BufferId \cup {Null}, s \in TensorShapes : TensorOn(b, s) \in TensorType
<1>1. PICK B, S : B = BufferId \cup {Null} /\ S = TensorShapes /\ Null \in B /\ NoShape \in S
  BY ShapesFlat
<1>2. TensorType = [state : {"none", "live", "erased"}, buffer : B, owner : BOOLEAN,
                    shape : S, unused : BOOLEAN]
  BY <1>1 DEF TensorType
<1>3. NoTensor \in TensorType
  BY <1>1, <1>2 DEF NoTensor
<1>4. NewTensor \in TensorType
  BY <1>1, <1>2 DEF NoTensor, NewTensor
<1>5. ASSUME NEW b \in B, NEW s \in S PROVE TensorOn(b, s) \in TensorType
  BY <1>1, <1>2 DEF NoTensor, TensorOn
<1> QED BY <1>1, <1>3, <1>4, <1>5

LEMMA TypedChanges ==
  ASSUME NEW t \in TensorType, NEW b \in BufferId \cup {Null}, NEW s \in TensorShapes
  PROVE  /\ [t EXCEPT !.shape = s] \in TensorType /\ [t EXCEPT !.buffer = b] \in TensorType
         /\ [t EXCEPT !.owner = FALSE] \in TensorType /\ [t EXCEPT !.unused = TRUE] \in TensorType
         /\ [t EXCEPT !.state = "erased"] \in TensorType
         /\ t.buffer \in BufferId \cup {Null} /\ t.shape \in TensorShapes
<1>1. PICK B, S : B = BufferId \cup {Null} /\ S = TensorShapes
  OBVIOUS
<1>2. TensorType = [state : {"none", "live", "erased"}, buffer : B, owner : BOOLEAN,
                    shape : S, unused : BOOLEAN]
  BY <1>1 DEF TensorType
<1>3. b \in B /\ s \in S
  BY <1>1
<1> QED BY <1>1, <1>2, <1>3

(* One tensor that has another buffer or shape.                            *)
LEMMA SetToType ==
  ASSUME tensors \in [Name -> TensorType], NEW n \in Name,
         NEW s \in TensorShapes, NEW b \in BufferId \cup {Null},
         tensors' = [tensors EXCEPT ![n].shape = s, ![n].buffer = b]
  PROVE  tensors' \in [Name -> TensorType]
<1>1. PICK u \in TensorType : u = [tensors[n] EXCEPT !.shape = s]
  BY TypedChanges
<1>2. PICK t \in TensorType : t = [u EXCEPT !.buffer = b]
  BY TypedChanges
<1>3. tensors' = [tensors EXCEPT ![n] = t]
  BY <1>1, <1>2
<1> QED BY <1>3

LEMMA AliasedType ==
  ASSUME tensors \in [Name -> TensorType], NEW n \in Name, NEW m \in Name
  PROVE  /\ Aliased(n, m) \in [Name -> TensorType]
         /\ [Aliased(n, m) EXCEPT ![n].shape = Flat(tensors[m].shape)] \in [Name -> TensorType]
<1>1. PICK b \in BufferId \cup {Null}, s \in TensorShapes : b = tensors[m].buffer /\ s = tensors[m].shape
  BY DEF TensorType
<1>2. PICK t \in TensorType :
        t = [[[tensors[n] EXCEPT !.buffer = b] EXCEPT !.owner = FALSE] EXCEPT !.shape = s]
  <2>1. PICK u \in TensorType : u = [tensors[n] EXCEPT !.buffer = b]
    BY TypedChanges
  <2>2. PICK v \in TensorType : v = [u EXCEPT !.owner = FALSE]
    BY TypedChanges
  <2> QED BY <2>1, <2>2, TypedChanges
<1>3. Aliased(n, m) = [tensors EXCEPT ![n] = t]
  BY <1>1, <1>2 DEF Aliased
<1>4. PICK f \in TensorShapes : f = Flat(s)
  BY ShapesFlat
<1>5. [t EXCEPT !.shape = f] \in TensorType
  BY DEF TensorType
<1>6. [Aliased(n, m) EXCEPT ![n].shape = Flat(tensors[m].shape)] = [tensors EXCEPT ![n] = [t EXCEPT !.shape = f]]
  BY <1>1, <1>3, <1>4
<1> QED BY <1>3, <1>5, <1>6

BuffersTyped(bs) == GoodBuffers(bs) /\ \A b \in BufferId : bs[b].state \in States

LEMMA BufferSet ==
  ASSUME BuffersTyped(buffers), NEW b, NEW v, b \in BufferId => IsBuffer(v) /\ v.state \in States,
         buffers' = [buffers EXCEPT ![b] = v]
  PROVE  BuffersTyped(buffers')
BY DEF BuffersTyped, GoodBuffers

LEMMA ValType ==
  ASSUME BuffersTyped(buffers), NEW b, NEW v, buffers' = WithVal(b, v)
  PROVE  BuffersTyped(buffers')
<1>1. PICK w : w = [buffers[b] EXCEPT !.val = v]
  OBVIOUS
<1>2. buffers' = [buffers EXCEPT ![b] = w]
  BY <1>1 DEF WithVal
<1>3. b \in BufferId => IsBuffer(w) /\ w.state \in States
  BY <1>1, BufferChanges DEF BuffersTyped, GoodBuffers
<1> QED BY <1>2, <1>3, BufferSet

LEMMA WithoutOwnType ==
  ASSUME BuffersTyped(buffers), NEW n, buffers' = WithoutOwn(n)
  PROVE  BuffersTyped(buffers')
<1>1. PICK b, w : b = Own(n) /\ w = [buffers[b] EXCEPT !.state = "freed"]
  OBVIOUS
<1>2. buffers' = buffers \/ buffers' = [buffers EXCEPT ![b] = w]
  BY <1>1 DEF WithoutOwn
<1>3. b \in BufferId => IsBuffer(w) /\ w.state \in States
  BY <1>1, BufferChanges DEF BuffersTyped, GoodBuffers, States
<1> QED BY <1>2, <1>3, BufferSet

LEMMA ResizeTypes ==
  ASSUME tensors \in [Name -> TensorType], BuffersTyped(buffers), NEW n \in Name,
         NEW s \in TensorShapes, NEW r, Resize(n, s, r) \/ ResizeImage(n, s, r)
  PROVE  tensors' \in [Name -> TensorType] /\ BuffersTyped(buffers')
<1>1. \/ UNCHANGED tensors
      \/ \E b \in {Own(n), tensors[n].buffer} :
           tensors' = [tensors EXCEPT ![n].shape = s, ![n].buffer = b]
  BY DEF Resize, ResizeImage
<1>2. tensors[n].buffer \in BufferId \cup {Null} /\ Own(n) \in BufferId
  BY Ids DEF TensorType
<1>3. tensors' \in [Name -> TensorType]
  BY <1>1, <1>2, SetToType
<1>4. \/ UNCHANGED buffers
      \/ \E b, old, size, got : buffers' = [buffers EXCEPT ![b] = Allocated(old, size, got)]
      \/ \E b, old, phys, got : buffers' = [buffers EXCEPT ![b] = AllocatedImage(old, phys, got)]
  BY DEF Resize, ResizeImage
<1>5. UNCHANGED buffers \/ \E b, v : IsBuffer(v) /\ v.state = "live" /\ buffers' = [buffers EXCEPT ![b] = v]
  BY <1>4, Records
<1> QED BY <1>3, <1>5, BufferSet DEF States
-----------------------------------------------------------------------------
(* Steps that leave the call alone, and where they lead.                   *)
Leads ==
  /\ stage' \in {"new", "load", "pool", "create", "init", "built", "ready", "feed",
                 "run", "copy", "failed", "dead", "destroyed"}
  /\ status' \in {"none", "running", "ok", "oom", "invalid", "fatal"}
  /\ step' \in {"resize", "compute"}
  /\ stage' \in {"new", "load", "pool", "create", "feed"} => at' = 1
  /\ stage' \in {"init", "run"} => at' \in DOMAIN Todo'

LEMMA TypeSteps ==
  ASSUME TypeInv, UNCHANGED <<net, todo, shape, runs>>, Leads,
         tensors' \in [Name -> TensorType], BuffersTyped(buffers')
  PROVE  TypeInv'
<1>1. DOMAIN buffers' = BufferId /\ \A b \in BufferId : buffers'[b].state \in {"none", "live", "freed"}
  BY DEF BuffersTyped, GoodBuffers, States
<1>2. TypeOK'
  BY <1>1 DEF TypeInv, TypeOK, TensorType, TensorShapes, Leads
<1>3. GoodBuffers(buffers)'
  BY DEF BuffersTyped, GoodBuffers, IsBuffer
<1> QED BY <1>2, <1>3 DEF TypeInv, Leads

LEMMA Typed ==
  ASSUME TypeInv
  PROVE  tensors \in [Name -> TensorType] /\ BuffersTyped(buffers) /\ net \in Nets
BY DEF TypeInv, TypeOK, BuffersTyped, States

LEMMA TodoStays ==
  ASSUME UNCHANGED <<net, stage>>
  PROVE  Todo' = Todo
BY DEF Todo

LEMMA DieLeads == ASSUME TypeInv, Die PROVE Leads
BY DEF TypeInv, TypeOK, Die, Leads, control

LEMMA ReturnLeads ==
  ASSUME TypeInv, NEW s \in {"ok", "oom", "invalid"}, Return(s)
  PROVE  Leads
BY DEF TypeInv, TypeOK, Return, Leads, control

LEMMA ResizedLeads ==
  ASSUME TypeInv, UNCHANGED net, NEW r, Resized(r), stage \in {"init", "run", "feed"}
  PROVE  Leads
<1>1. CASE r = "ok"
  BY <1>1, TodoStays DEF Resized, TypeInv, TypeOK, Leads
<1>2. CASE r # "ok"
  <2>1. Return("oom") \/ Die
    BY <1>2 DEF Resized
  <2> QED BY <2>1, DieLeads, ReturnLeads
<1> QED BY <1>1, <1>2

LEMMA AdvanceLeads ==
  ASSUME TypeInv, UNCHANGED net, NEW a, Advance(a), AtOp
  PROVE  Leads
<1>1. CASE Die
  BY <1>1, DieLeads
<1>2. CASE ~Die
  <2>1. /\ step' = "resize" /\ UNCHANGED status
        /\ IF at < Len(Todo) THEN at' = at + 1 /\ UNCHANGED stage
           ELSE at' = 1 /\ stage' = IF stage = "init" THEN "built" ELSE "copy"
    BY <1>2 DEF Advance
  <2>2. CASE at < Len(Todo)
    BY OpsAreOps, <2>2, <2>1, TodoStays DEF Todo, TypeInv, AtOp, TypeOK, Leads
  <2>3. CASE ~(at < Len(Todo))
    BY <2>1, <2>3 DEF TypeInv, TypeOK, Leads
  <2> QED BY <2>2, <2>3
<1> QED BY <1>1, <1>2

LEMMA OperateTypes ==
  ASSUME TypeInv, Operate
  PROVE  TypeInv'
<1>1. AtOp /\ UNCHANGED <<net, todo, shape, runs>>
  BY DEF Operate, ActivationResize, ActivationCPU, ActivationGPU, AddNResizeCPU, AddNCPU, AddNResizeGPU,
     AddNGPU, Identity, Reshape, BufferToImageResize, BufferToImage, ImageToBufferResize, ImageToBuffer, At,
     Still, call
<1>2. /\ tensors \in [Name -> TensorType] /\ BuffersTyped(buffers)
      /\ op.out \in Name /\ In(1) \in Name /\ stage \in {"init", "run"}
      /\ tensors[In(1)].shape \in TensorShapes
  BY <1>1, Typed, OpFacts DEF TensorType
<1>3. ASSUME NEW s \in TensorShapes, NEW r, Resize(op.out, s, r) \/ ResizeImage(op.out, s, r), Resized(r)
      PROVE  TypeInv'
  BY <1>1, <1>2, <1>3, ResizeTypes, ResizedLeads, TypeSteps
<1>4. ASSUME tensors' \in [Name -> TensorType], BuffersTyped(buffers'), Die \/ \E a : Advance(a)
      PROVE  TypeInv'
  BY <1>1, <1>2, <1>4, DieLeads, AdvanceLeads, TypeSteps
<1>5. ASSUME UNCHANGED <<tensors, buffers>>, Die \/ \E a : Advance(a) PROVE TypeInv'
  BY <1>2, <1>4, <1>5
<1>6. ASSUME UNCHANGED tensors, NEW b, NEW v, buffers' = WithVal(b, v), Die \/ \E a : Advance(a)
      PROVE  TypeInv'
  BY <1>2, <1>4, <1>6, ValType
<1>7. CASE ActivationResize \/ AddNResizeCPU
  <2>1. \/ \E r : ResizeLike(op.out, In(1), r) /\ Resized(r)
        \/ Die /\ UNCHANGED <<tensors, buffers>>
    BY <1>7 DEF ActivationResize, AddNResizeCPU
  <2> QED BY <1>2, <1>3, <1>5, <2>1 DEF ResizeLike
<1>8. CASE AddNResizeGPU
  BY <1>8, <1>1, <1>2, ResizedLeads, TypeSteps, <1>3, <1>5 DEF AddNResizeGPU
<1>9. CASE BufferToImageResize \/ ImageToBufferResize
  <2>1. PICK r : /\ \/ ResizeImage(op.out, tensors[In(1)].shape, r)
                    \/ Resize(op.out, tensors[In(1)].shape, r)
                 /\ Resized(r)
    BY <1>9 DEF BufferToImageResize, ImageToBufferResize
  <2> QED BY <1>2, <1>3, <2>1
<1>10. CASE ActivationCPU \/ AddNCPU \/ ImageToBuffer
  BY <1>10, <1>5, <1>6 DEF ActivationCPU, AddNCPU, ImageToBuffer
<1>11. CASE ActivationGPU \/ AddNGPU
  BY <1>11, <1>5, <1>6 DEF ActivationGPU, AddNGPU, Compute
<1>12. CASE Identity \/ Reshape
  <2>1. \/ Die /\ UNCHANGED <<tensors, buffers>>
        \/ /\ Advance(args) \/ Die
           /\ buffers' = WithoutOwn(op.out)
           /\ \/ tensors' = Aliased(op.out, In(1))
              \/ tensors' = [Aliased(op.out, In(1)) EXCEPT ![op.out].shape = Flat(tensors[In(1)].shape)]
    BY <1>12 DEF Identity, Reshape
  <2>2. /\ Aliased(op.out, In(1)) \in [Name -> TensorType]
        /\ [Aliased(op.out, In(1)) EXCEPT ![op.out].shape = Flat(tensors[In(1)].shape)] \in [Name -> TensorType]
    <3>1. PICK n, m \in Name : n = op.out /\ m = In(1)
      BY <1>2
    <3> QED BY <1>2, <3>1, AliasedType
  <2>3. buffers' = WithoutOwn(op.out) => BuffersTyped(buffers')
    BY <1>2, WithoutOwnType
  <2> QED BY <1>4, <1>5, <2>1, <2>2, <2>3
<1>13. CASE BufferToImage
  <2>1. \/ Die /\ UNCHANGED <<tensors, buffers>>
        \/ Advance(args) /\ tensors' = MarkedUnused /\ \E b, v : buffers' = WithVal(b, v)
    BY <1>13 DEF BufferToImage
  <2>2. MarkedUnused \in [Name -> TensorType]
    <3>1. PICK n \in Name : n = In(1)
      BY <1>2
    <3>2. PICK t \in TensorType : t = [tensors[n] EXCEPT !.unused = TRUE]
      BY <1>2, ShapesFlat, TypedChanges
    <3>3. MarkedUnused = [tensors EXCEPT ![n] = t]
      BY <1>2, <3>1, <3>2 DEF MarkedUnused
    <3> QED BY <1>2, <3>3
  <2> QED BY <1>2, <1>4, <1>5, <2>1, <2>2, ValType
<1> QED BY <1>7, <1>8, <1>9, <1>10, <1>11, <1>12, <1>13 DEF Operate

LEMMA ServeTypes ==
  ASSUME TypeInv, Serve
  PROVE  TypeInv'
<1>1. tensors \in [Name -> TensorType] /\ BuffersTyped(buffers) /\ net \in Nets
  BY Typed
<1>2. CASE CallRun
  <2>1. PICK s \in Shapes, now \in SUBSET Range(net.inputs) :
            shape' = s /\ todo' = Among(net.inputs, now)
    BY <1>2 DEF CallRun
  <2>2. /\ UNCHANGED <<tensors, buffers, net>> /\ runs' = runs + 1 /\ runs < MaxRuns
        /\ stage' = "feed" /\ at' = 1 /\ step' = "resize" /\ status' = "running"
    BY <1>2 DEF CallRun
  <2>3. todo' \in Seq(Range(net.inputs))
    BY <1>1, <2>1, AmongIsPart, NetFacts
  <2>4. runs' \in 0..MaxRuns
    BY <2>2, EngineAssumption DEF TypeInv, TypeOK
  <2>5. TypeOK'
    BY <2>2, <2>4 DEF TypeInv, TypeOK, TensorType, TensorShapes
  <2> QED BY <2>1, <2>2, <2>3, <2>5 DEF TypeInv, GoodBuffers, IsBuffer
<1>3. CASE FeedResize
  <2>1. PICK r : Resize(Head(todo), shape, r) /\ Resized(r) /\ UNCHANGED <<net, todo, shape, runs>>
                 /\ todo # <<>> /\ stage = "feed"
    BY <1>3 DEF FeedResize, call
  <2>2. Head(todo) \in Name /\ shape \in TensorShapes
    BY <1>1, <2>1, NetFacts, ShapesFlat DEF TypeInv
  <2> QED BY <1>1, <2>1, <2>2, ResizeTypes, ResizedLeads, TypeSteps
<1>4. CASE FeedCopy
  <2>1. UNCHANGED <<tensors, net>> /\ todo # <<>> /\ stage = "feed"
    BY <1>4 DEF FeedCopy
  <2>2. CASE ~HasMemory(Head(todo))
    BY <1>4, <2>2, <1>1, <2>1, DieLeads, TypeSteps DEF FeedCopy, call
  <2>3. CASE HasMemory(Head(todo))
    <3>1. buffers' = Copied(Head(todo)) /\ todo' = Tail(todo) /\ step' = "resize"
          /\ UNCHANGED <<stage, status, at, shape, runs>>
      BY <1>4, <2>3 DEF FeedCopy
    <3>2. BuffersTyped(buffers')
      BY <1>1, <3>1, ValType DEF Copied
    <3>3. todo' \in Seq(Range(net.inputs))
      BY <2>1, <3>1 DEF TypeInv
    <3>4. DOMAIN buffers' = BufferId /\ \A b \in BufferId : buffers'[b].state \in {"none", "live", "freed"}
      BY <3>2 DEF BuffersTyped, GoodBuffers, States
    <3>5. TypeOK'
      BY <2>1, <3>1, <3>4 DEF TypeInv, TypeOK, TensorType, TensorShapes
    <3> QED BY <2>1, <3>1, <3>2, <3>3, <3>5 DEF TypeInv, BuffersTyped, GoodBuffers, IsBuffer
  <2> QED BY <2>2, <2>3
<1>5. CASE RunNet
  <2>1. /\ UNCHANGED <<net, todo, shape, runs, tensors, buffers, at, step, status>> /\ stage = "feed"
        /\ stage' = IF Todo = <<>> THEN "copy" ELSE "run"
    BY <1>5 DEF RunNet, Goto, control, call
  <2>2. Todo' = Todo
    BY <2>1 DEF Todo
  <2>3. Len(Todo) \in Nat /\ DOMAIN Todo = 1..Len(Todo) /\ Todo \in Seq(OpType)
    <3>1. IsNet(net)
      BY <1>1, EngineAssumption
    <3>2. PICK s, S : s = net.ops /\ s \in Seq(OpType) /\ Todo = Among(s, S)
      BY <3>1 DEF IsNet, Todo, Ops
    <3>3. Todo \in Seq(Range(s)) /\ Range(s) \subseteq OpType
      BY <3>2, AmongIsPart DEF Range
    <3> QED BY <3>3
  <2>4. Leads
    BY <2>1, <2>2, <2>3 DEF TypeInv, TypeOK, Leads
  <2> QED BY <1>1, <2>1, <2>4, TypeSteps
<1>6. CASE CopyOutput \/ RunReturns
  <2>1. /\ UNCHANGED <<net, todo, shape, runs, tensors, buffers>> /\ stage = "copy"
        /\ \/ Die \/ Return("ok") \/ Return("invalid")
           \/ UNCHANGED <<stage, status, at, step>>
    BY <1>6 DEF CopyOutput, RunReturns, call, control
  <2>2. ASSUME UNCHANGED <<stage, status, at, step>> PROVE Leads
    BY <2>1, <2>2 DEF TypeInv, TypeOK, Leads
  <2> QED BY <1>1, <2>1, <2>2, DieLeads, ReturnLeads, TypeSteps
<1> QED BY <1>2, <1>3, <1>4, <1>5, <1>6 DEF Serve

LEMMA FreedType ==
  ASSUME BuffersTyped(buffers), NEW which
  PROVE  BuffersTyped(Freed(buffers, which))
<1>1. ASSUME NEW b \in BufferId PROVE IsBuffer(Freed(buffers, which)[b]) /\ Freed(buffers, which)[b].state \in States
  <2>1. PICK w : w = [buffers[b] EXCEPT !.state = "freed"]
    OBVIOUS
  <2>2. IsBuffer(w) /\ w.state = "freed" /\ IsBuffer(buffers[b]) /\ buffers[b].state \in States
    BY <2>1, BufferChanges DEF BuffersTyped, GoodBuffers
  <2> QED BY <2>1, <2>2 DEF Freed, States
<1> QED BY <1>1 DEF BuffersTyped, GoodBuffers, Freed

LEMMA SetupTypes ==
  ASSUME TypeInv, Setup
  PROVE  TypeInv'
<1>1. tensors \in [Name -> TensorType] /\ BuffersTyped(buffers) /\ net \in Nets
  BY Typed
<1>2. UNCHANGED <<net, todo, shape, runs>>
  <2>1. \/ \E s : Goto(s) \/ Refused
        \/ Die /\ UNCHANGED <<net, call>>
        \/ UNCHANGED <<net, call>>
    <3>1. CASE CreateTensors
      BY <3>1 DEF CreateTensors
    <3>2. CASE LoadModel
      BY <3>2 DEF LoadModel
    <3>3. CASE LoadBigModel
      BY <3>3 DEF LoadBigModel
    <3>4. CASE CreateOutputTensorBuffer
      BY <3>4 DEF CreateOutputTensorBuffer
    <3>5. CASE CreateInitNet
      BY <3>5 DEF CreateInitNet
    <3>6. CASE CreateNormalNet
      BY <3>6 DEF CreateNormalNet
    <3> QED BY <3>1, <3>2, <3>3, <3>4, <3>5, <3>6 DEF Setup
  <2> QED BY <2>1 DEF Goto, Refused, call
<1>3. WeightShape \in TensorShapes /\ NoShape \in TensorShapes
  BY ShapesFlat
<1>4. ASSUME Die \/ Refused \/ (UNCHANGED <<at, step, status>> /\ stage' \in {"load", "pool", "create", "built"}
                                /\ at = 1)
      PROVE  Leads
  BY <1>4, DieLeads, ReturnLeads DEF Refused, Leads, TypeInv, TypeOK
<1>5. CASE CreateTensors
  <2>1. tensors' \in [Name -> TensorType]
    BY <1>5, TensorTypes DEF CreateTensors
  <2>2. UNCHANGED <<at, step, status, buffers>> /\ stage' = "load" /\ at = 1
    BY <1>5 DEF CreateTensors, Goto, control, TypeInv
  <2> QED BY <1>1, <1>2, <1>4, <2>1, <2>2, TypeSteps
<1>6. CASE LoadModel
  <2>1. CASE Refused /\ UNCHANGED <<tensors, buffers>>
    BY <1>1, <1>2, <1>4, <2>1, TypeSteps
  <2>2. CASE ~(Refused /\ UNCHANGED <<tensors, buffers>>)
    <3>1. /\ buffers' = [b \in BufferId |->
                 CASE b = Weights -> Allocated(buffers[b], Cardinality(Consts(net)), TRUE)
                   [] b.of = "slice" /\ b.id \in Consts(net)
                        -> [Allocated(buffers[b], Elements(WeightShape), TRUE)
                              EXCEPT !.val = Const(b.id)]
                   [] OTHER -> buffers[b]]
          /\ tensors' = [n \in Name |-> IF n \in Consts(net)
                                        THEN TensorOn(Slice(n), WeightShape)
                                        ELSE tensors[n]]
          /\ UNCHANGED <<at, step, status>> /\ stage' = "pool" /\ at = 1
      BY <1>6, <2>2 DEF LoadModel, Goto, control, TypeInv
    <3>2. tensors' \in [Name -> TensorType]
      <4>1. ASSUME NEW n \in Name PROVE TensorOn(Slice(n), WeightShape) \in TensorType
        <5>1. PICK b \in BufferId : b = Slice(n)
          BY Ids
        <5> QED BY <1>3, <5>1, TensorTypes
      <4> QED BY <1>1, <3>1, <4>1
    <3>3. ASSUME NEW b \in BufferId PROVE IsBuffer(buffers'[b]) /\ buffers'[b].state \in States
      <4>1. PICK u : u = Allocated(buffers[b], Elements(WeightShape), TRUE)
        OBVIOUS
      <4>2. PICK v : v = [u EXCEPT !.val = Const(b.id)]
        OBVIOUS
      <4>3. IsBuffer(v) /\ v.state = "live"
        <5>1. IsBuffer(u) /\ u.state = "live"
          BY <4>1, Records
        <5> QED BY <4>2, <5>1, BufferChanges
      <4>4. PICK w : w = Allocated(buffers[b], Cardinality(Consts(net)), TRUE)
        OBVIOUS
      <4>5. IsBuffer(w) /\ w.state = "live"
        BY <4>4, Records
      <4>6. buffers'[b] = CASE b = Weights -> w
                            [] b.of = "slice" /\ b.id \in Consts(net) -> v
                            [] OTHER -> buffers[b]
        BY <3>1, <4>1, <4>2, <4>4
      <4>7. Weights.of # "slice"
        BY Ids
      <4>8. buffers'[b] \in {v, w, buffers[b]}
        BY <4>6, <4>7
      <4> QED BY <1>1, <4>3, <4>5, <4>8 DEF BuffersTyped, GoodBuffers, States
    <3>4. BuffersTyped(buffers')
      <4>1. buffers' = [b \in BufferId |-> buffers'[b]]
        BY <3>1
      <4> QED BY <3>3, <4>1 DEF BuffersTyped, GoodBuffers
    <3> QED BY <1>2, <1>4, <3>1, <3>2, <3>4, TypeSteps
  <2> QED BY <2>1, <2>2
<1>7. CASE LoadBigModel
  <2>1. PICK got :
          /\ buffers' = [b \in BufferId |->
               IF b.of = "tensor" /\ b.id \in Consts(net)
               THEN [Allocated(buffers[b], Elements(WeightShape) + Pad, got[b.id])
                       EXCEPT !.val = Const(b.id)]
               ELSE buffers[b]]
          /\ tensors' = [n \in Name |->
               IF n \in Consts(net)
               THEN [NewTensor EXCEPT !.buffer = Own(n), !.shape = WeightShape]
               ELSE tensors[n]]
          /\ Die \/ (stage' = "pool" /\ UNCHANGED <<at, step, status>>)
    BY <1>7 DEF LoadBigModel, Goto, control
  <2>2. Die \/ (UNCHANGED <<at, step, status>> /\ stage' = "pool" /\ at = 1)
    BY <1>7, <2>1 DEF LoadBigModel, TypeInv
  <2>3. tensors' \in [Name -> TensorType]
    <3>1. ASSUME NEW n \in Name PROVE tensors'[n] \in TensorType
      <4>1. PICK b \in BufferId \cup {Null} : b = Own(n)
        BY Ids
      <4>2. PICK u \in TensorType : u = [NewTensor EXCEPT !.buffer = b]
        BY TensorTypes, ShapesFlat, TypedChanges
      <4>3. PICK v \in TensorType : v = [u EXCEPT !.shape = WeightShape]
        BY <1>3, TypedChanges
      <4>4. n \in Consts(net) => tensors'[n] = v
        BY <2>1, <4>1, <4>2, <4>3
      <4>5. n \notin Consts(net) => tensors'[n] = tensors[n]
        BY <2>1
      <4> QED BY <1>1, <4>4, <4>5
    <3>2. tensors' = [n \in Name |-> tensors'[n]]
      BY <2>1
    <3> QED BY <3>1, <3>2
  <2>4. ASSUME NEW b \in BufferId PROVE IsBuffer(buffers'[b]) /\ buffers'[b].state \in States
    <3>1. PICK u : u = Allocated(buffers[b], Elements(WeightShape) + Pad, got[b.id])
      OBVIOUS
    <3>2. PICK v : v = [u EXCEPT !.val = Const(b.id)]
      OBVIOUS
    <3>3. IsBuffer(v) /\ v.state = "live"
      <4>1. IsBuffer(u) /\ u.state = "live"
        BY <3>1, Records
      <4> QED BY <3>2, <4>1, BufferChanges
    <3>4. buffers'[b] = IF b.of = "tensor" /\ b.id \in Consts(net) THEN v ELSE buffers[b]
      BY <2>1, <3>1, <3>2
    <3> QED BY <1>1, <3>3, <3>4 DEF BuffersTyped, GoodBuffers, States
  <2>5. BuffersTyped(buffers')
    BY <2>1, <2>4 DEF BuffersTyped, GoodBuffers
  <2> QED BY <1>2, <1>4, <2>2, <2>3, <2>5, TypeSteps
<1>8. CASE CreateOutputTensorBuffer
  <2>1. CASE Refused /\ UNCHANGED <<tensors, buffers>>
    BY <1>1, <1>2, <1>4, <2>1, TypeSteps
  <2>2. CASE ~(Refused /\ UNCHANGED <<tensors, buffers>>)
    <3>1. /\ buffers' = [b \in BufferId |->
                 IF b.of = "pool" /\ b.id \in Arena(net)
                 THEN IF OnGPU
                      THEN AllocatedImage(buffers[b], ImageShape(net.plan), TRUE)
                      ELSE Allocated(buffers[b], Elements(net.plan) + Pad, TRUE)
                 ELSE buffers[b]]
          /\ tensors' = [n \in Name |->
                 IF \E i \in Pooled(net) : net.ops[i].out = n
                 THEN LET i == CHOOSE i \in Pooled(net) : net.ops[i].out = n
                      IN TensorOn(Pool(net.ops[i].mem), NoShape)
                 ELSE tensors[n]]
          /\ UNCHANGED <<at, step, status>> /\ stage' = "create" /\ at = 1
      BY <1>8, <2>2 DEF CreateOutputTensorBuffer, Goto, control, TypeInv
    <3>2. \A i \in Pooled(net) : Pool(net.ops[i].mem) \in BufferId
      BY <1>1, NetFacts, Ids DEF Pooled
    <3>3. tensors' \in [Name -> TensorType]
      <4>1. ASSUME NEW n \in Name PROVE tensors'[n] \in TensorType
        <5>1. CASE \E i \in Pooled(net) : net.ops[i].out = n
          <6>1. PICK i \in Pooled(net) : tensors'[n] = TensorOn(Pool(net.ops[i].mem), NoShape)
            BY <3>1, <5>1
          <6>2. PICK b \in BufferId : b = Pool(net.ops[i].mem)
            BY <3>2
          <6> QED BY <1>3, <6>1, <6>2, TensorTypes
        <5>2. CASE ~\E i \in Pooled(net) : net.ops[i].out = n
          BY <1>1, <3>1, <5>2
        <5> QED BY <5>1, <5>2
      <4> QED BY <3>1, <4>1
    <3>4. BuffersTyped(buffers')
      <4>1. ASSUME NEW b \in BufferId PROVE IsBuffer(buffers'[b]) /\ buffers'[b].state \in States
        <5>1. PICK v : v = IF OnGPU THEN AllocatedImage(buffers[b], ImageShape(net.plan), TRUE)
                                    ELSE Allocated(buffers[b], Elements(net.plan) + Pad, TRUE)
          OBVIOUS
        <5>2. IsBuffer(v) /\ v.state = "live"
          BY <5>1, Records
        <5>3. buffers'[b] = IF b.of = "pool" /\ b.id \in Arena(net) THEN v ELSE buffers[b]
          BY <3>1, <5>1
        <5> QED BY <1>1, <5>2, <5>3 DEF BuffersTyped, GoodBuffers, States
      <4>2. buffers' = [b \in BufferId |-> buffers'[b]]
        BY <3>1
      <4> QED BY <4>1, <4>2 DEF BuffersTyped, GoodBuffers
    <3> QED BY <1>2, <1>4, <3>1, <3>3, <3>4, TypeSteps
  <2> QED BY <2>1, <2>2
<1>9. \A ops : WithOutputs(ops) \in [Name -> TensorType]
  <2> TAKE ops
  <2>1. \A n \in Name : WithOutputs(ops)[n] \in TensorType
    BY <1>1, TensorTypes DEF WithOutputs
  <2>2. WithOutputs(ops) = [n \in Name |-> WithOutputs(ops)[n]]
    BY DEF WithOutputs
  <2> QED BY <2>1, <2>2
<1>10. CASE CreateInitNet
  <2>1. PICK q : q = Ops(net, "INIT")
    OBVIOUS
  <2>2. /\ UNCHANGED buffers
        /\ \/ Die /\ UNCHANGED tensors
           \/ /\ tensors' = WithOutputs(q) /\ UNCHANGED <<at, step, status>> /\ at = 1
              /\ stage' = IF q = <<>> THEN "built" ELSE "init"
    BY <1>10, <2>1 DEF CreateInitNet, Goto, control, TypeInv
  <2>3. Leads
    <3>1. CASE Die
      BY <3>1, DieLeads
    <3>2. CASE UNCHANGED <<at, step, status>> /\ at = 1 /\ stage' = IF q = <<>> THEN "built" ELSE "init"
      <4>1. CASE q = <<>>
        BY <1>4, <3>2, <4>1
      <4>2. CASE q # <<>>
        <5>1. Todo' = q
          BY <1>2, <2>1, <3>2, <4>2 DEF Todo
        <5>2. 1 \in DOMAIN q
          <6>1. IsNet(net)
            BY <1>1, EngineAssumption
          <6>2. PICK s, S : s = net.ops /\ s \in Seq(OpType) /\ q = Among(s, S)
            BY <2>1, <6>1 DEF IsNet, Ops
          <6>3. q \in Seq(Range(s))
            BY <6>2, AmongIsPart
          <6> QED BY <4>2, <6>3
        <5> QED BY <3>2, <4>2, <5>1, <5>2 DEF Leads, TypeInv, TypeOK
      <4> QED BY <4>1, <4>2
    <3> QED BY <2>2, <3>1, <3>2
  <2> QED BY <1>1, <1>2, <1>9, <2>2, <2>3, TypeSteps
<1>11. CASE CreateNormalNet
  <2>1. PICK ts : ts = WithOutputs(Ops(net, "NORMAL")) /\ ts \in [Name -> TensorType]
    BY <1>9
  <2>2. \/ Die /\ UNCHANGED <<tensors, buffers>>
        \/ /\ stage' = "ready" /\ status' = "ok" /\ UNCHANGED <<at, step>>
           /\ \/ tensors' = ts /\ UNCHANGED buffers
              \/ /\ \E gone : tensors' = [n \in Name |->
                                IF n \in gone THEN [ts[n] EXCEPT !.state = "erased"] ELSE ts[n]]
                 /\ \E which : buffers' = Freed(buffers, which)
    BY <1>11, <2>1 DEF CreateNormalNet
  <2>3. \A n \in Name : [ts[n] EXCEPT !.state = "erased"] \in TensorType
    BY <2>1, ShapesFlat, TypedChanges
  <2>4. tensors' \in [Name -> TensorType]
    BY <1>1, <2>1, <2>2, <2>3
  <2>5. BuffersTyped(buffers')
    BY <1>1, <2>2, FreedType
  <2>6. Leads
    <3>1. ASSUME stage' = "ready", status' = "ok", UNCHANGED <<at, step>> PROVE Leads
      BY <3>1 DEF Leads, TypeInv, TypeOK
    <3> QED BY <2>2, <3>1, DieLeads
  <2> QED BY <1>2, <2>4, <2>5, <2>6, TypeSteps
<1> QED BY <1>5, <1>6, <1>7, <1>8, <1>10, <1>11 DEF Setup

LEMMA TypeInit == Init => TypeInv
<1> SUFFICES ASSUME Init PROVE TypeInv
  OBVIOUS
<1>1. tensors \in [Name -> TensorType]
  BY TensorTypes DEF Init, NoMemoryYet
<1>2. BuffersTyped(buffers)
  BY Records DEF NoBuffer, States, Init, NoMemoryYet, BuffersTyped, GoodBuffers
<1>3. DOMAIN buffers = BufferId
  BY <1>2 DEF BuffersTyped, GoodBuffers
<1> QED BY <1>1, <1>2, <1>3, EngineAssumption DEF Init, TypeInv, TypeOK, BuffersTyped, States

LEMMA TypeNext == TypeInv /\ [Next]_vars => TypeInv'
<1> SUFFICES ASSUME TypeInv, [Next]_vars PROVE TypeInv'
  OBVIOUS
<1>1. CASE UNCHANGED vars
  BY <1>1, TodoStays, Typed, TypeSteps DEF vars, call, control, Leads, TypeInv, TypeOK
<1>2. CASE Destroy
  <2>1. /\ UNCHANGED <<net, todo, shape, runs, at, step, status>> /\ stage' = "destroyed"
        /\ tensors' = [n \in Name |-> IF tensors[n].state = "live"
                                      THEN [tensors[n] EXCEPT !.state = "erased"] ELSE tensors[n]]
        /\ \E which : buffers' = Freed(buffers, which)
    BY <1>2 DEF Destroy, Goto, call, control
  <2>2. tensors' \in [Name -> TensorType] /\ BuffersTyped(buffers')
    BY Typed, ShapesFlat, TypedChanges, <2>1, FreedType
  <2>3. Leads
    BY <2>1 DEF Leads, TypeInv, TypeOK
  <2> QED BY <2>1, <2>2, <2>3, TypeSteps
<1> QED BY <1>1, <1>2, SetupTypes, OperateTypes, ServeTypes DEF Next, Stopped

(* Whatever the nets compute, the engine's position in a net is that of    *)
(* one of its operators, also after a call that failed half-way, and every *)
(* tensor points to a buffer object there is or was.                       *)
THEOREM EngineTypes == Spec => []TypeOK
<1>1. TypeInv => TypeOK
  BY DEF TypeInv
<1> QED BY <1>1, TypeInit, TypeNext, PTL DEF Spec
-----------------------------------------------------------------------------
(* The arguments of the kernels.  An image, once a tensor has it, stays    *)
(* the image of the tensor and keeps its memory; so what a kernel was told *)
(* stays true, and it is told anew when the shape changes.  Nothing that   *)
(* has run has no shape.                                                   *)
Shaped(n) == tensors[n].shape # NoShape

(* Memory of one's own is shared only by those who have it from its owner; *)
(* an alias has no memory, or that of its original.                        *)
Linked ==
  /\ \A n, m \in Name : tensors[n].buffer = Own(m) => tensors[m].buffer = Own(m)
  /\ \A i \in DOMAIN net.ops :
       Aliasing(net.ops[i].type)
         => tensors[net.ops[i].out].buffer \in {Null, tensors[net.ops[i].in[1]].buffer}

(* What an operator's kernel has been told of its memory is true.          *)
Told(o, a) ==
  /\ a = [shape |-> a.shape, refs |-> Refs(o).refs] /\ Shaped(o.out)
  /\ \A n \in Range(o.in) \cup {o.out} : HasImage(n)

ToldTruth ==
  /\ args = [i \in DOMAIN Ops(net, "NORMAL") |-> args[i]]
  /\ \A i \in DOMAIN Ops(net, "NORMAL") :
       args[i] = NoArgs \/ Told(Ops(net, "NORMAL")[i], args[i])

(* What a call has done so far.                                            *)
Done ==
  /\ stage = "run" =>
       /\ at = 1 \/ at \in DOMAIN Ops(net, "NORMAL")
       /\ \A n \in Range(net.inputs) : Shaped(n)
       /\ \A i \in DOMAIN Ops(net, "NORMAL") : i < at =>
            LET o == Ops(net, "NORMAL")[i] IN
            /\ Shaped(o.out)
            /\ o.type \in {"AddN", "Activation"} => args[i] = Refs(o) /\ Told(o, args[i])
  /\ stage = "feed" =>
       /\ at = 1 /\ shape # NoShape
       /\ \A n \in Range(net.inputs) : n \in Range(todo) \/ given[n].shape # NoShape
       /\ step = "compute" => todo # <<>> /\ Shaped(Head(todo))

Prepared ==
  /\ stage # "init" => at = 1 /\ step = "resize"
  /\ \A n \in Name : given[n].shape = NoShape
  /\ stage \in {"pool", "create", "init"} => \A n \in Consts(net) : Shaped(n)
  /\ stage = "init" =>
       /\ at \in DOMAIN Ops(net, "INIT")
       /\ \A i \in DOMAIN Ops(net, "INIT") : i < at => Shaped(Ops(net, "INIT")[i].out)

Converted == \A i \in DOMAIN Ops(net, "INIT") : Shaped(Ops(net, "INIT")[i].out)

ArgsInv ==
  OnGPU =>
    /\ given = [n \in Name |-> given[n]]
    /\ AtOp /\ step = "compute" => Shaped(op.out)
    /\ stage \in Early => Prepared
    /\ stage \in Late \cup {"built"} => Converted
    /\ stage \in Late =>
         /\ Linked /\ ToldTruth /\ Done
         /\ \A n \in Name : given[n].shape # NoShape => Shaped(n)

ImagesStay ==
  \A n \in Name : HasImage(n) =>
    /\ tensors'[n].buffer = tensors[n].buffer
    /\ buffers'[tensors[n].buffer].image
    /\ buffers'[tensors[n].buffer].gen = buffers[tensors[n].buffer].gen

ShapesStay == \A n \in Name : Shaped(n) => Shaped(n)'

(* No pointer that is set is set anew.                                     *)
LEMMA PointerStep ==
  ASSUME net \in Nets, UNCHANGED net, Linked, NEW n \in Name,
         \A m \in Name : m # n => tensors'[m].buffer = tensors[m].buffer,
         \/ tensors'[n].buffer = tensors[n].buffer
         \/ tensors[n].buffer = Null /\ tensors'[n].buffer = Own(n) /\ ~IsAlias(n)
         \/ \E i \in DOMAIN net.ops : /\ Aliasing(net.ops[i].type) /\ net.ops[i].out = n
                                      /\ tensors'[n].buffer = tensors[net.ops[i].in[1]].buffer
  PROVE  /\ Linked'
         /\ \A m \in Name : tensors[m].buffer # Null => tensors'[m].buffer = tensors[m].buffer
<1>1. PICK F, G : F = [m \in Name |-> tensors[m].buffer] /\ G = [m \in Name |-> tensors'[m].buffer]
  OBVIOUS
<1>2. \A m \in Name : F[m] = tensors[m].buffer /\ G[m] = tensors'[m].buffer
  BY <1>1
<1>3. /\ \A k, m \in Name : F[k] = Own(m) => F[m] = Own(m)
      /\ \A i \in DOMAIN net.ops : Aliasing(net.ops[i].type) =>
           F[net.ops[i].out] \in {Null, F[net.ops[i].in[1]]}
      /\ \A i \in DOMAIN net.ops : net.ops[i].out \in Name /\ net.ops[i].in[1] \in Name
  BY NetFacts, <1>2 DEF Range, Linked
<1>4. /\ \A m \in Name : m # n => G[m] = F[m]
      /\ \/ G[n] = F[n]
         \/ F[n] = Null /\ G[n] = Own(n) /\ ~IsAlias(n)
         \/ \E i \in DOMAIN net.ops : /\ Aliasing(net.ops[i].type) /\ net.ops[i].out = n
                                      /\ G[n] = F[net.ops[i].in[1]]
  BY <1>2, <1>3
<1>5. \A k, m : Own(k) # Null /\ (Own(k) = Own(m) => k = m)
  BY DEF Own, Null
<1>6. \A m \in Name : F[m] # Null => G[m] = F[m]
  BY <1>3, <1>4
<1>7. \A k, m \in Name : G[k] = Own(m) => G[m] = Own(m)
  <2> SUFFICES ASSUME NEW k \in Name, NEW m \in Name, G[k] = Own(m) PROVE G[m] = Own(m)
    OBVIOUS
  <2>1. CASE F[k] = Own(m)
    BY <1>3, <1>5, <1>6, <2>1
  <2>2. CASE F[k] # Own(m)
    <3>1. k = n /\ F[n] # G[n]
      BY <1>4, <2>2
    <3>2. CASE G[n] = Own(n)
      BY <1>5, <3>1, <3>2
    <3>3. CASE G[n] # Own(n)
      <4>1. PICK i \in DOMAIN net.ops : G[n] = F[net.ops[i].in[1]]
        BY <1>4, <3>1, <3>3
      <4>2. F[m] = Own(m)
        BY <1>3, <3>1, <4>1
      <4> QED BY <1>5, <1>6, <4>2
    <3> QED BY <3>2, <3>3
  <2> QED BY <2>1, <2>2
<1>8. ASSUME NEW i \in DOMAIN net.ops, Aliasing(net.ops[i].type)
      PROVE  G[net.ops[i].out] \in {Null, G[net.ops[i].in[1]]}
  <2>1. PICK k, m : k = net.ops[i].out /\ m = net.ops[i].in[1] /\ k \in Name /\ m \in Name
    BY <1>3
  <2>2. F[k] \in {Null, F[m]} /\ IsAlias(k)
    BY <1>3, <1>8, <2>1 DEF IsAlias
  <2>3. CASE F[k] # Null
    BY <1>6, <2>1, <2>2, <2>3
  <2>4. CASE F[k] = Null /\ G[k] # Null
    <3>1. k = n
      BY <1>4, <2>1, <2>4
    <3>2. PICK j \in DOMAIN net.ops : net.ops[j].out = n /\ G[n] = F[net.ops[j].in[1]]
      BY <1>4, <2>2, <2>4, <3>1
    <3>3. j = i
      BY <2>1, <3>1, <3>2, NetFacts
    <3>4. G[k] = F[m] /\ F[m] # Null
      BY <2>1, <2>4, <3>1, <3>2, <3>3
    <3> QED BY <1>6, <2>1, <3>4
  <2> QED BY <2>1, <2>3, <2>4
<1>9. Linked'
  BY <1>2, <1>3, <1>7, <1>8 DEF Linked
<1> QED BY <1>2, <1>6, <1>9

(* What was said of images stays true.                                     *)
LEMMA ToldStays ==
  ASSUME ImagesStay, ShapesStay, NEW o, NEW a, Range(o.in) \cup {o.out} \subseteq Name, Told(o, a)
  PROVE  Told(o, a)' /\ Refs(o).refs' = Refs(o).refs
<1>1. \A n \in Range(o.in) \cup {o.out} : HasImage(n)' /\ Ref(n)' = Ref(n)
  BY DEF Told, ImagesStay, HasImage, Ref
<1>2. [k \in DOMAIN o.in |-> Ref(o.in[k])]' = [k \in DOMAIN o.in |-> Ref(o.in[k])]
  BY <1>1 DEF Range
<1>3. Refs(o).refs' = Refs(o).refs
  BY <1>1, <1>2 DEF Refs
<1>4. Shaped(o.out)'
  BY DEF Told, ShapesStay
<1> QED BY <1>1, <1>3, <1>4 DEF Told

(* What resizing a tensor does to it.                                      *)
SetTo(n, s, b) == tensors' = [tensors EXCEPT ![n].shape = s, ![n].buffer = b]

LEMMA SetToFacts ==
  ASSUME GoodTensors(tensors), NEW n \in Name, NEW s, NEW b, SetTo(n, s, b)
  PROVE  \A m \in Name : /\ tensors'[m].shape = IF m = n THEN s ELSE tensors[m].shape
                         /\ tensors'[m].buffer = IF m = n THEN b ELSE tensors[m].buffer
<1> SUFFICES ASSUME NEW m \in Name
             PROVE  /\ tensors'[m].shape = IF m = n THEN s ELSE tensors[m].shape
                    /\ tensors'[m].buffer = IF m = n THEN b ELSE tensors[m].buffer
  OBVIOUS
<1>1. CASE m # n
  BY <1>1 DEF GoodTensors, SetTo
<1>2. CASE m = n
  <2>1. PICK t : t = tensors[n] /\ IsTensor(t)
    BY DEF GoodTensors
  <2>2. PICK u : u = [[t EXCEPT !.shape = s] EXCEPT !.buffer = b]
    OBVIOUS
  <2>3. u.shape = s /\ u.buffer = b
    BY <2>1, <2>2 DEF IsTensor, Fields
  <2>4. tensors'[n] = u
    BY <2>1, <2>2 DEF GoodTensors, SetTo
  <2> QED BY <1>2, <2>3, <2>4
<1> QED BY <1>1, <1>2

LEMMA ResizeEffects ==
  ASSUME net \in Nets, UNCHANGED net, GoodTensors(tensors), GoodBuffers(buffers),
         \A m \in Name : tensors[m].buffer \in BufferId \cup {Null},
         NEW n \in Name, ~IsAlias(n), NEW s, NEW r, Resize(n, s, r) \/ ResizeImage(n, s, r)
  PROVE  /\ Linked => Linked' /\ ImagesStay
         /\ \A m \in Name : m # n => tensors'[m].shape = tensors[m].shape
         /\ tensors'[n].shape \in {s, tensors[n].shape}
         /\ r # "fatal" => tensors'[n].shape = s
<1>1. \/ r = "fatal" /\ UNCHANGED <<tensors, buffers>>
      \/ \E b : /\ tensors' = [tensors EXCEPT ![n].shape = s, ![n].buffer = b]
                /\ \/ b = tensors[n].buffer /\ UNCHANGED buffers
                   \/ /\ b = Own(n) /\ tensors[n].buffer = Null
                      /\ \E v : buffers' = [buffers EXCEPT ![b] = v]
                   \/ /\ b = tensors[n].buffer /\ b # Null /\ ~HasImage(n)
                      /\ \E v : buffers' = [buffers EXCEPT ![b] = v]
  BY DEF Resize, ResizeImage
<1>2. CASE r = "fatal" /\ UNCHANGED <<tensors, buffers>>
  BY <1>2 DEF Linked, ImagesStay, HasImage
<1>3. ASSUME NEW b, tensors' = [tensors EXCEPT ![n].shape = s, ![n].buffer = b],
             \/ b = tensors[n].buffer /\ UNCHANGED buffers
             \/ /\ b = Own(n) /\ tensors[n].buffer = Null
                /\ \E v : buffers' = [buffers EXCEPT ![b] = v]
             \/ /\ b = tensors[n].buffer /\ b # Null /\ ~HasImage(n)
                /\ \E v : buffers' = [buffers EXCEPT ![b] = v]
      PROVE  /\ Linked => Linked' /\ ImagesStay
             /\ \A m \in Name : m # n => tensors'[m].shape = tensors[m].shape
             /\ tensors'[n].shape = s
  <2>1. \A m \in Name : /\ tensors'[m].shape = IF m = n THEN s ELSE tensors[m].shape
                        /\ tensors'[m].buffer = IF m = n THEN b ELSE tensors[m].buffer
    <3>1. SetTo(n, s, b)
      BY <1>3 DEF SetTo
    <3> QED BY <3>1, SetToFacts
  <2>2. ASSUME Linked PROVE Linked' /\ ImagesStay
    <3>1. /\ Linked'
          /\ \A m \in Name : tensors[m].buffer # Null => tensors'[m].buffer = tensors[m].buffer
      BY <1>3, <2>1, <2>2, PointerStep
    <3>2. ASSUME NEW m \in Name, HasImage(m)
          PROVE  /\ tensors'[m].buffer = tensors[m].buffer
                 /\ buffers'[tensors[m].buffer] = buffers[tensors[m].buffer]
      <4>1. PICK c \in BufferId : c = tensors[m].buffer
        BY <3>2 DEF HasImage
      <4>2. tensors'[m].buffer = c
        BY <3>1, <3>2, <4>1 DEF HasImage
      <4>3. CASE UNCHANGED buffers
        BY <4>1, <4>2, <4>3
      <4>4. CASE b = Own(n) /\ tensors[n].buffer = Null /\ \E v : buffers' = [buffers EXCEPT ![b] = v]
        BY <2>2, <4>1, <4>4, Ids, <4>2 DEF Linked, GoodBuffers
      <4>5. CASE b = tensors[n].buffer /\ b # Null /\ ~HasImage(n) /\ \E v : buffers' = [buffers EXCEPT ![b] = v]
        BY <3>2, <4>1, <4>5, <4>2 DEF HasImage, GoodBuffers
      <4> QED BY <1>3, <4>3, <4>4, <4>5
    <3>3. ImagesStay
      BY <3>2 DEF ImagesStay, HasImage
    <3> QED BY <3>1, <3>3
  <2> QED BY <2>1, <2>2
<1> QED BY <1>1, <1>2, <1>3

(* Writing values does nothing to images but that.                         *)
LEMMA ValEffects ==
  ASSUME GoodBuffers(buffers), NEW b, NEW v, buffers' = WithVal(b, v) \/ UNCHANGED buffers,
         \A m \in Name : tensors[m].buffer \in BufferId \cup {Null},
         \A m \in Name : tensors'[m].buffer = tensors[m].buffer
  PROVE  ImagesStay
<1> SUFFICES ASSUME NEW m \in Name, HasImage(m)
             PROVE  /\ buffers'[tensors[m].buffer].image
                    /\ buffers'[tensors[m].buffer].gen = buffers[tensors[m].buffer].gen
  BY DEF ImagesStay
<1>1. PICK c \in BufferId : c = tensors[m].buffer
  BY DEF HasImage
<1>2. PICK u, w : u = buffers[c] /\ w = [u EXCEPT !.val = v] /\ IsBuffer(u)
  BY DEF GoodBuffers
<1>3. w.image = u.image /\ w.gen = u.gen
  BY <1>2 DEF IsBuffer, BufferFields
<1>4. buffers'[c] \in {u, w}
  BY <1>1, <1>2 DEF WithVal, GoodBuffers
<1>5. u.image
  BY <1>1, <1>2 DEF HasImage
<1> QED BY <1>1, <1>2, <1>3, <1>4, <1>5

LEMMA SamePointers ==
  ASSUME UNCHANGED net, net \in Nets, \A m \in Name : tensors'[m].buffer = tensors[m].buffer
  PROVE  Linked => Linked'
<1>1. \A i \in DOMAIN net.ops : net.ops[i].out \in Name /\ net.ops[i].in[1] \in Name
  BY NetFacts DEF Range
<1> QED BY <1>1 DEF Linked

(* What becoming another name of another tensor's memory does.             *)
LEMMA AliasedEffects ==
  ASSUME net \in Nets, UNCHANGED net, GoodTensors(tensors), GoodBuffers(buffers), Linked,
         \A m \in Name : tensors[m].buffer \in BufferId \cup {Null},
         NEW i \in DOMAIN net.ops, Aliasing(net.ops[i].type),
         NEW n \in Name, n = net.ops[i].out, NEW m \in Name, m = net.ops[i].in[1], SoundTensor(n), NEW s,
         tensors' = Aliased(n, m) \/ tensors' = [Aliased(n, m) EXCEPT ![n].shape = s],
         buffers' = WithoutOwn(n)
  PROVE  /\ Linked' /\ ImagesStay
         /\ \A k \in Name : k # n => tensors'[k].shape = tensors[k].shape
         /\ tensors'[n].shape \in {s, tensors[m].shape}
<1>1. UNCHANGED buffers
  <2>1. IsAlias(n)
    BY DEF IsAlias
  <2> QED BY <2>1 DEF WithoutOwn, SoundTensor
<1>2. PICK t, b : t = tensors[n] /\ b = tensors[m].buffer /\ IsTensor(t)
  BY DEF GoodTensors
<1>3. PICK u : u = [[[t EXCEPT !.buffer = b] EXCEPT !.owner = FALSE] EXCEPT !.shape = tensors[m].shape]
  OBVIOUS
<1>4. IsTensor(u) /\ u.buffer = b /\ u.shape = tensors[m].shape
  BY <1>2, <1>3 DEF IsTensor, Fields
<1>5. Aliased(n, m) = [tensors EXCEPT ![n] = u]
  BY <1>2, <1>3 DEF Aliased, GoodTensors
<1>6. PICK v : v = [u EXCEPT !.shape = s]
  OBVIOUS
<1>7. v.buffer = b /\ v.shape = s
  BY <1>4, <1>6 DEF IsTensor, Fields
<1>8. [Aliased(n, m) EXCEPT ![n].shape = s] = [tensors EXCEPT ![n] = v]
  BY <1>5, <1>6 DEF GoodTensors
<1>9. PICK w \in {u, v} : tensors' = [tensors EXCEPT ![n] = w]
  BY <1>5, <1>8
<1>10. /\ \A k \in Name : k # n => tensors'[k] = tensors[k]
       /\ tensors'[n] = w
  BY <1>9 DEF GoodTensors
<1>11. tensors'[n].buffer = b /\ tensors'[n].shape \in {s, tensors[m].shape}
  BY <1>4, <1>7, <1>10
<1>12. \A k \in Name : k # n => tensors'[k].buffer = tensors[k].buffer
  BY <1>10
<1>13. \E j \in DOMAIN net.ops : /\ Aliasing(net.ops[j].type) /\ net.ops[j].out = n
                                 /\ tensors'[n].buffer = tensors[net.ops[j].in[1]].buffer
  BY <1>2, <1>11
<1>14. /\ Linked'
       /\ \A k \in Name : tensors[k].buffer # Null => tensors'[k].buffer = tensors[k].buffer
  BY <1>12, <1>13, PointerStep
<1>15. ImagesStay
  BY <1>1, <1>14 DEF ImagesStay, HasImage
<1> QED BY <1>10, <1>11, <1>14, <1>15

LEMMA MarkedEffects ==
  ASSUME GoodTensors(tensors), In(1) \in Name, tensors' = MarkedUnused
  PROVE  \A m \in Name : /\ tensors'[m].buffer = tensors[m].buffer
                         /\ tensors'[m].shape = tensors[m].shape
<1>1. PICK n, t : n \in Name /\ n = In(1) /\ t = tensors[n] /\ IsTensor(t)
  BY DEF GoodTensors
<1>2. PICK u : u = [t EXCEPT !.unused = TRUE]
  OBVIOUS
<1>3. u.buffer = t.buffer /\ u.shape = t.shape
  BY <1>1, <1>2 DEF IsTensor, Fields
<1>4. tensors' = [tensors EXCEPT ![n] = u]
  BY <1>1, <1>2 DEF MarkedUnused, GoodTensors
<1>5. \A m \in Name : tensors'[m] = IF m = n THEN u ELSE tensors[m]
  BY <1>4 DEF GoodTensors
<1> QED BY <1>1, <1>3, <1>5

(* What the proof assumes of the nets and the inputs.                      *)
NetsAreGood == NoShape \notin Shapes /\ \A n \in Nets : WeightsAreConverted(n) /\ InOrder(n)

(* The first input of an operator has been given a shape.                  *)
LEMMA FirstIsShaped ==
  ASSUME NetsAreGood, net \in Nets, OnGPU, AtOp, stage = "run", Done, Converted
  PROVE  Shaped(In(1))
<1>1. at \in DOMAIN Ops(net, "NORMAL") /\ op = Ops(net, "NORMAL")[at]
  BY DEF AtOp, Todo, op
<1>2. PICK j \in DOMAIN net.ops : op = net.ops[j] /\ net.ops[j].mode = "NORMAL"
  BY <1>1, OpsAreOps
<1>3. PICK n : n = In(1) /\ n = net.ops[j].in[1] /\ n \in Range(net.ops[j].in)
  BY <1>2, NetFacts DEF In, Range
<1>4. n \notin Consts(net)
  BY <1>2, <1>3 DEF NetsAreGood, WeightsAreConverted, OnGPU
<1>5. n \in Outs(net) \/ n \in Range(net.inputs)
  BY <1>3, <1>4 DEF Consts
<1>6. CASE n \in Range(net.inputs)
  BY <1>3, <1>6 DEF Done
<1>7. CASE n \in Outs(net)
  <2>1. PICK k \in DOMAIN net.ops : net.ops[k].out = n
    BY <1>7 DEF Outs
  <2>2. PICK mode : mode = net.ops[k].mode /\ mode \in {"INIT", "NORMAL"}
    BY NetFacts
  <2>3. PICK i \in DOMAIN Ops(net, mode) : Ops(net, mode)[i].out = n
    BY <2>1, <2>2, OpsAreAll
  <2>4. CASE mode = "INIT"
    BY <1>3, <2>3, <2>4 DEF Converted
  <2>5. CASE mode = "NORMAL"
    <3>1. i \in Nat /\ at \in Nat
      BY <1>1, <2>3, <2>5, OpsAreOps
    <3>2. ~(at <= i)
      <4>1. PICK q : q = Ops(net, "NORMAL")
        OBVIOUS
      <4>2. \A a \in DOMAIN q, b \in DOMAIN q : a <= b => q[b].out \notin Range(q[a].in)
        BY <4>1 DEF NetsAreGood, InOrder
      <4>3. n \in Range(q[at].in)
        BY <1>1, <1>2, <1>3, <4>1
      <4> QED BY <1>1, <2>3, <2>5, <4>1, <4>2, <4>3
    <3>3. i < at
      BY <3>1, <3>2
    <3> QED BY <1>3, <2>3, <2>5, <3>3 DEF Done
  <2> QED BY <2>2, <2>4, <2>5
<1> QED BY <1>5, <1>6, <1>7
-----------------------------------------------------------------------------
LEMMA DeadArgs ==
  ASSUME ArgsInv, UNCHANGED <<net, given>>, stage' \notin Active
  PROVE  ArgsInv'
BY DEF ArgsInv, OnGPU, AtOp, Active, Early, Late

(* What a step of an operator of the NORMAL net does.                      *)
RunEffects ==
  /\ Linked' /\ ImagesStay /\ ShapesStay
  /\ \A n \in Name : n # op.out => tensors'[n].shape = tensors[n].shape

Running == OnGPU /\ ArgsInv /\ AtOp /\ stage = "run" /\ net \in Nets /\ UNCHANGED <<net, given>>

LEMMA RunFacts ==
  ASSUME Running
  PROVE  /\ Linked /\ ToldTruth /\ Done /\ Converted /\ OnGPU'
         /\ given = [n \in Name |-> given[n]]
         /\ \A n \in Name : given[n].shape # NoShape => Shaped(n)
         /\ step = "compute" => Shaped(op.out)
         /\ at \in DOMAIN Ops(net, "NORMAL") /\ op = Ops(net, "NORMAL")[at]
         /\ \A i \in DOMAIN Ops(net, "NORMAL") :
              Range(Ops(net, "NORMAL")[i].in) \cup {Ops(net, "NORMAL")[i].out} \subseteq Name
         /\ \A i \in DOMAIN Ops(net, "NORMAL") : i \in Nat /\ Ops(net, "NORMAL")[i].in[1] \in Range(Ops(net, "NORMAL")[i].in)
<1>1. /\ Linked /\ ToldTruth /\ Done /\ Converted /\ OnGPU'
      /\ given = [n \in Name |-> given[n]]
      /\ \A n \in Name : given[n].shape # NoShape => Shaped(n)
      /\ step = "compute" => Shaped(op.out)
  BY DEF Running, ArgsInv, OnGPU, Late
<1>2. at \in DOMAIN Ops(net, "NORMAL") /\ op = Ops(net, "NORMAL")[at]
  BY DEF Running, AtOp, Todo, op
<1>3. ASSUME NEW i \in DOMAIN Ops(net, "NORMAL")
      PROVE  /\ Range(Ops(net, "NORMAL")[i].in) \cup {Ops(net, "NORMAL")[i].out} \subseteq Name
             /\ i \in Nat /\ Ops(net, "NORMAL")[i].in[1] \in Range(Ops(net, "NORMAL")[i].in)
  <2>1. PICK j \in DOMAIN net.ops : Ops(net, "NORMAL")[i] = net.ops[j]
    BY OpsAreOps DEF Running
  <2>2. i \in Nat
    BY OpsAreOps DEF Running
  <2>3. net.ops[j].in[1] \in Range(net.ops[j].in)
    BY NetFacts DEF Running, Range
  <2> QED BY <2>1, <2>2, <2>3, NetFacts DEF Running
<1> QED BY <1>1, <1>2, <1>3

(* All that is independent of where the call is then.                      *)
LEMMA RunKeeps ==
  ASSUME Running, RunEffects
  PROVE  /\ Converted'
         /\ \A n \in Name : given'[n].shape # NoShape => Shaped(n)'
<1>1. Converted'
  BY OpsAreOps, NetFacts, RunFacts DEF Running, Converted, RunEffects, ShapesStay
<1>2. \A n \in Name : given'[n].shape # NoShape => Shaped(n)'
  BY RunFacts DEF Running, RunEffects, ShapesStay
<1> QED BY <1>1, <1>2

LEMMA ToldStill ==
  ASSUME Running, RunEffects, NEW i \in DOMAIN Ops(net, "NORMAL"),
         NetsAreGood, NEW o, o = Ops(net, "NORMAL")[i], NEW a, Told(o, a)
  PROVE  /\ Told(o, a)'
         /\ i < at /\ a = Refs(o) => a = Refs(o)'
<1>1. Range(o.in) \cup {o.out} \subseteq Name /\ o.in[1] \in Range(o.in) /\ i \in Nat /\ at \in Nat
  BY RunFacts
<1>2. Told(o, a)' /\ Refs(o).refs' = Refs(o).refs
  BY <1>1, ToldStays DEF RunEffects
<1>3. ASSUME i < at PROVE tensors'[o.in[1]].shape = tensors[o.in[1]].shape
  <2>1. PICK q : q = Ops(net, "NORMAL")
    OBVIOUS
  <2>2. \A k \in DOMAIN q, b \in DOMAIN q : k <= b => q[b].out \notin Range(q[k].in)
    BY <2>1 DEF Running, NetsAreGood, InOrder
  <2>3. op.out \notin Range(o.in)
    BY <1>1, <1>3, <2>1, <2>2, RunFacts
  <2>4. o.in[1] \in Name /\ o.in[1] # op.out
    BY <1>1, <2>3
  <2> QED BY <2>4 DEF RunEffects
<1>4. ASSUME i < at, a = Refs(o) PROVE a = Refs(o)'
  BY <1>2, <1>3, <1>4 DEF Refs
<1> QED BY <1>2, <1>4

(* An operator has got its memory, or not.                                 *)
LEMMA RunResized ==
  ASSUME NetsAreGood, Running, RunEffects, NEW r, Resized(r),
         r = "ok" => tensors'[op.out].shape # NoShape
  PROVE  ArgsInv'
<1>1. CASE r = "fatal"
  BY <1>1, DeadArgs DEF Resized, Die, Active, Early, Late, Running
<1>2. CASE r # "fatal"
  <2>1. /\ UNCHANGED <<at, args, net, given>>
        /\ \/ stage' = "ready"
           \/ stage' = "run" /\ step' = "compute" /\ r = "ok"
    BY <1>2 DEF Resized, Return, Running, control
  <2>2. PICK q : q = Ops(net, "NORMAL") /\ q = Ops(net', "NORMAL")
    BY <2>1
  <2>3. ToldTruth'
    <3>1. args' = [i \in DOMAIN q |-> args'[i]]
      BY <2>1, <2>2, RunFacts DEF ToldTruth
    <3>2. ASSUME NEW i \in DOMAIN q, args'[i] # NoArgs PROVE Told(q[i], args[i])'
      <4>1. PICK o, a : o = q[i] /\ a = args[i] /\ a = args'[i]
        BY <2>1
      <4>2. Told(o, a)
        BY <2>2, <3>2, <4>1, RunFacts DEF ToldTruth
      <4>3. Told(o, a)'
        BY <2>2, <4>1, <4>2, ToldStill
      <4> QED BY <4>1, <4>3
    <3> QED BY <2>2, <3>1, <3>2 DEF ToldTruth
  <2>4. Done'
    <3>1. CASE stage' = "ready"
      BY <3>1 DEF Done
    <3>2. CASE stage' = "run"
      <4>1. Range(net.inputs) \subseteq Name
        BY NetFacts DEF Running
      <4>2. \A n \in Range(net'.inputs) : Shaped(n)'
        BY <2>1, <4>1, RunFacts DEF Done, RunEffects, ShapesStay, Running
      <4>3. ASSUME NEW i \in DOMAIN q, i < at'
            PROVE  /\ Shaped(q[i].out)'
                   /\ q[i].type \in {"AddN", "Activation"} => args'[i] = Refs(q[i])' /\ Told(q[i], args[i])'
        <5>1. PICK o, a : o = q[i] /\ a = args[i] /\ a = args'[i] /\ i < at
          BY <2>1, <4>3
        <5>2. Shaped(o.out) /\ (o.type \in {"AddN", "Activation"} => a = Refs(o) /\ Told(o, a))
          BY <2>2, <5>1, RunFacts DEF Done, Running
        <5>3. Shaped(o.out)'
          BY <2>2, <5>1, <5>2, RunFacts DEF RunEffects, ShapesStay
        <5>4. o.type \in {"AddN", "Activation"} => a = Refs(o)' /\ Told(o, a)'
          BY <2>2, <5>1, <5>2, ToldStill
        <5> QED BY <5>1, <5>3, <5>4
      <4>4. at' = 1 \/ at' \in DOMAIN q
        BY <2>1, <2>2, RunFacts
      <4> QED BY <2>2, <3>2, <4>2, <4>3, <4>4 DEF Done
    <3> QED BY <2>1, <3>1, <3>2
  <2>5. AtOp' /\ step' = "compute" => Shaped(op.out)'
    BY <2>1 DEF AtOp, Running, op, Todo, Shaped
  <2>6. given' = [n \in Name |-> given'[n]] /\ stage' \in Late /\ stage' \notin Early
    BY <2>1, RunFacts DEF Late, Early
  <2> QED BY <2>3, <2>4, <2>5, <2>6, RunKeeps, RunFacts DEF ArgsInv, RunEffects
<1> QED BY <1>1, <1>2

(* An operator is done, and the arguments are those it had or true ones.   *)
LEMMA RunAdvanced ==
  ASSUME NetsAreGood, Running, RunEffects, NEW a, Advance(a), tensors'[op.out].shape # NoShape,
         a = [i \in DOMAIN Ops(net, "NORMAL") |-> a[i]],
         \A i \in DOMAIN Ops(net, "NORMAL") : i # at => a[i] = args[i],
         \/ a[at] = args[at] /\ op.type \notin {"AddN", "Activation"}
         \/ a[at] = Refs(op) /\ Told(op, a[at]) /\ UNCHANGED tensors
  PROVE  ArgsInv'
<1>1. CASE Die
  BY <1>1, DeadArgs DEF Die, Active, Early, Late, Running
<1>2. CASE ~Die
  <2>1. PICK q : q = Ops(net, "NORMAL") /\ q = Ops(net', "NORMAL") /\ Todo = q
    BY DEF Running, Todo
  <2>2. /\ args' = a /\ step' = "resize"
        /\ \/ stage' = "run" /\ at' = at + 1 /\ at < Len(q)
           \/ stage' = "copy"
    BY <1>2, <2>1 DEF Advance, Running
  <2>3. PICK b : b = a[at]
    OBVIOUS
  <2>4. PICK o : o = op /\ o = q[at]
    BY <2>1, RunFacts
  <2>5. at \in DOMAIN q /\ at \in Nat
    BY <2>1, RunFacts
  <2>6. \/ b = args[at] /\ o.type \notin {"AddN", "Activation"}
        \/ b = Refs(o)' /\ Told(o, b)'
    <3>1. CASE a[at] = Refs(op) /\ Told(op, a[at]) /\ UNCHANGED tensors
      <4>1. b = Refs(o) /\ Told(o, b)
        BY <2>3, <2>4, <3>1
      <4>2. Told(o, b)' /\ Refs(o).refs' = Refs(o).refs
        BY <2>1, <2>4, <2>5, RunFacts, <4>1, ToldStays DEF RunEffects
      <4>3. b = Refs(o)'
        BY <3>1, <4>1, <4>2 DEF Refs
      <4> QED BY <4>2, <4>3
    <3> QED BY <2>3, <2>4, <3>1
  <2>7. ToldTruth'
    <3>1. args' = [i \in DOMAIN q |-> args'[i]]
      BY <2>1, <2>2
    <3>2. ASSUME NEW i \in DOMAIN q, args'[i] # NoArgs PROVE Told(q[i], args[i])'
      <4>1. PICK p, c : p = q[i] /\ c = args'[i]
        OBVIOUS
      <4>2. c = args[i] => Told(p, c)'
        <5>1. SUFFICES ASSUME c = args[i] PROVE Told(p, c)'
          OBVIOUS
        <5>2. Told(p, c)
          BY <2>1, <3>2, <4>1, <5>1, RunFacts DEF ToldTruth
        <5> QED BY <2>1, <4>1, <5>2, ToldStill
      <4>3. i # at => c = args[i]
        BY <2>1, <2>2, <4>1
      <4>4. i = at => c = args[i] \/ Told(p, c)'
        BY <2>2, <2>3, <2>4, <2>6, <4>1
      <4> QED BY <4>1, <4>2, <4>3, <4>4
    <3> QED BY <2>1, <3>1, <3>2 DEF ToldTruth
  <2>8. Done'
    <3>1. CASE stage' = "copy"
      BY <3>1 DEF Done
    <3>2. CASE stage' = "run" /\ at' = at + 1 /\ at < Len(q)
      <4>1. Range(net.inputs) \subseteq Name
        BY NetFacts DEF Running
      <4>2. \A n \in Range(net'.inputs) : Shaped(n)'
        BY <4>1, RunFacts DEF Done, RunEffects, ShapesStay, Running
      <4>3. ASSUME NEW i \in DOMAIN q, i < at'
            PROVE  /\ Shaped(q[i].out)'
                   /\ q[i].type \in {"AddN", "Activation"} => args'[i] = Refs(q[i])' /\ Told(q[i], args[i])'
        <5>1. PICK p, c : p = q[i] /\ c = args'[i] /\ i \in Nat
          BY <2>1, RunFacts
        <5>2. CASE i < at
          BY <2>1, <2>2, <2>5, <5>1, <5>2, RunFacts, ToldStill DEF Done, Running, RunEffects,
             ShapesStay
        <5>3. CASE i = at
          BY <2>2, <2>3, <2>4, <5>1, <5>3, <2>6 DEF Shaped
        <5> QED BY <2>5, <3>2, <4>3, <5>1, <5>2, <5>3
      <4>4. at' \in DOMAIN q
        BY <2>1, OpsAreOps, <2>5, <3>2 DEF Running
      <4> QED BY <2>1, <3>2, <4>2, <4>3, <4>4 DEF Done
    <3> QED BY <2>2, <3>1, <3>2
  <2>9. given' = [n \in Name |-> given'[n]] /\ stage' \in Late /\ stage' \notin Early
    BY <2>2, RunFacts DEF Late, Early, Running
  <2> QED BY <2>2, <2>7, <2>8, <2>9, RunKeeps, RunFacts DEF ArgsInv, RunEffects
<1> QED BY <1>1, <1>2

LEMMA FlatIsShape == \A s : Flat(s) # NoShape
<1> SUFFICES ASSUME NEW s, Flat(s) = NoShape PROVE FALSE
  OBVIOUS
<1>1. Flat(s)[1] = 1 /\ NoShape[1] = 0
  BY DEF Flat, NoShape
<1> QED BY <1>1

(* Shapes that change become that of the first input, or as flat.          *)
LEMMA EffectsThen ==
  ASSUME Linked', ImagesStay, \A n \in Name : n # op.out => tensors'[n].shape = tensors[n].shape,
         op.out \in Name => tensors'[op.out].shape = tensors[op.out].shape \/ tensors'[op.out].shape # NoShape
  PROVE  RunEffects
BY DEF RunEffects, ShapesStay, Shaped

LEMMA RunOperates ==
  ASSUME NetsAreGood, MemoryInv, ArgsInv, OnGPU, stage = "run", Operate
  PROVE  ArgsInv'
<1>1. AtOp /\ Still /\ net \in Nets
  BY DEF Operate, ActivationResize, ActivationCPU, ActivationGPU, AddNResizeCPU, AddNCPU, AddNResizeGPU,
         AddNGPU, Identity, Reshape, BufferToImageResize, BufferToImage, ImageToBufferResize,
         ImageToBuffer, At, MemoryInv
<1>2. Running
  BY <1>1 DEF Running, Still
<1>3. /\ UNCHANGED <<net, given>> /\ GoodTensors(tensors) /\ GoodBuffers(buffers)
      /\ \A m \in Name : tensors[m].buffer \in BufferId \cup {Null}
      /\ op.out \in Name /\ In(1) \in Name /\ Linked
  BY RunsActive, <1>1, <1>2, OpFacts, RunFacts DEF Still, MemoryInv, SoundTensor
<1>4. Shaped(In(1))
  BY <1>1, <1>2, RunFacts, FirstIsShaped
<1>5. ASSUME Die PROVE ArgsInv'
  <2>1. stage' \notin Active
    BY <1>5 DEF Die, Active, Early, Late
  <2> QED BY <1>3, <2>1, DeadArgs
<1>6. ASSUME ~Aliasing(op.type), NEW s, s = tensors[In(1)].shape, NEW r,
             Resize(op.out, s, r) \/ ResizeImage(op.out, s, r), Resized(r)
      PROVE  ArgsInv'
  <2>1. PICK n : n = op.out
    OBVIOUS
  <2>2. n \in Name /\ ~IsAlias(n)
    BY <1>1, <1>6, <2>1, OpFacts
  <2>3. /\ Linked' /\ ImagesStay
        /\ \A m \in Name : m # n => tensors'[m].shape = tensors[m].shape
        /\ tensors'[n].shape \in {s, tensors[n].shape}
        /\ r # "fatal" => tensors'[n].shape = s
    BY <1>1, <1>3, <1>6, <2>1, <2>2, ResizeEffects
  <2>4. s # NoShape
    BY <1>4, <1>6 DEF Shaped
  <2>5. RunEffects
    BY <2>1, <2>3, <2>4, EffectsThen
  <2>6. r = "ok" => tensors'[op.out].shape # NoShape
    BY <2>1, <2>3, <2>4
  <2> QED BY <1>2, <1>6, <2>5, <2>6, RunResized
<1>7. ASSUME Advance(args), op.type \notin {"AddN", "Activation"}, RunEffects,
             tensors'[op.out].shape # NoShape
      PROVE  ArgsInv'
  <2>1. PICK a : a = args
    OBVIOUS
  <2>2. a = [i \in DOMAIN Ops(net, "NORMAL") |-> a[i]]
    BY <1>2, <2>1, RunFacts DEF ToldTruth
  <2>3. /\ \A i \in DOMAIN Ops(net, "NORMAL") : i # at => a[i] = args[i]
        /\ a[at] = args[at] /\ Advance(a)
    BY <1>7, <2>1
  <2> QED BY <1>2, <1>7, <2>2, <2>3, RunAdvanced
<1>8. ASSUME \A m \in Name : tensors'[m].buffer = tensors[m].buffer /\ tensors'[m].shape = tensors[m].shape,
             NEW b, NEW v, buffers' = WithVal(b, v) \/ UNCHANGED buffers
      PROVE  RunEffects /\ (Shaped(op.out) => tensors'[op.out].shape # NoShape)
  BY <1>3, <1>8, ValEffects, <1>1, SamePointers, EffectsThen DEF Shaped
<1>9. CASE ActivationResize
  <2>1. PICK r : ResizeLike(op.out, In(1), r) /\ Resized(r)
    BY <1>9 DEF ActivationResize
  <2>2. ~Aliasing(op.type)
    BY <1>9 DEF ActivationResize, At, Aliasing
  <2> QED BY <1>6, <2>1, <2>2 DEF ResizeLike
<1>10. CASE AddNResizeGPU
  <2>1. ~Aliasing(op.type) /\ op.type = "AddN"
    BY <1>10 DEF AddNResizeGPU, At, Aliasing
  <2>2. \/ Die
        \/ Resized("ok") /\ UNCHANGED <<tensors, buffers>> /\ SameShapeAsArgs
        \/ \E r : ResizeImage(op.out, tensors[In(1)].shape, r) /\ Resized(r)
    BY <1>10 DEF AddNResizeGPU
  <2>3. CASE Resized("ok") /\ UNCHANGED <<tensors, buffers>> /\ SameShapeAsArgs
    BY <1>4, <2>3, <1>2, RunFacts, <1>8, RunResized DEF SameShapeAsArgs, NoArgs, Shaped, ToldTruth, Told
  <2> QED BY <1>5, <1>6, <2>1, <2>2, <2>3
<1>11. CASE BufferToImageResize \/ ImageToBufferResize
  <2>1. PICK r : /\ \/ ResizeImage(op.out, tensors[In(1)].shape, r)
                    \/ Resize(op.out, tensors[In(1)].shape, r)
                 /\ Resized(r)
    BY <1>11 DEF BufferToImageResize, ImageToBufferResize
  <2>2. ~Aliasing(op.type)
    BY <1>11 DEF BufferToImageResize, ImageToBufferResize, At, Aliasing
  <2> QED BY <1>6, <2>1, <2>2
<1>12. CASE ActivationCPU \/ AddNResizeCPU \/ AddNCPU
  BY <1>12 DEF ActivationCPU, AddNResizeCPU, AddNCPU, At, OnGPU
<1>13. CASE ActivationGPU \/ AddNGPU
  <2>1. UNCHANGED tensors /\ Compute(SameShapeAsArgs) /\ step = "compute"
    BY <1>13 DEF ActivationGPU, AddNGPU, At
  <2>2. CASE ~SameShapeAsArgs /\ ~ImagesThere
    BY <1>5, <2>1, <2>2 DEF Compute
  <2>3. CASE ~(~SameShapeAsArgs /\ ~ImagesThere)
    <3>1. PICK a, new : /\ a = (IF SameShapeAsArgs THEN args[at] ELSE Refs(op))
                        /\ new = [args EXCEPT ![at] = a] /\ Advance(new)
                        /\ \E b, v : buffers' = WithVal(b, v) \/ UNCHANGED buffers
      <4>1. PICK a : a = (IF SameShapeAsArgs THEN args[at] ELSE Refs(op))
        OBVIOUS
      <4>2. /\ Advance([args EXCEPT ![at] = a])
            /\ UNCHANGED buffers \/ \E b, v : buffers' = WithVal(b, v)
        BY <2>1, <2>3, <4>1 DEF Compute
      <4> QED BY <4>1, <4>2
    <3>2. Shaped(op.out)
      BY <1>2, <2>1, RunFacts
    <3>3. RunEffects /\ tensors'[op.out].shape # NoShape
      BY <1>8, <2>1, <3>1, <3>2
    <3>4. a = Refs(op) /\ Told(op, a)
      <4>1. CASE SameShapeAsArgs
        <5>1. args[at].shape = tensors[op.in[1]].shape /\ a = args[at]
          BY <3>1, <4>1 DEF SameShapeAsArgs, In
        <5>2. a # NoArgs
          BY <1>4, <5>1 DEF NoArgs, Shaped, In
        <5>3. Told(op, a)
          BY <1>2, <5>1, <5>2, RunFacts DEF ToldTruth
        <5>4. a = [shape |-> tensors[op.in[1]].shape, refs |-> Refs(op).refs]
          BY <5>1, <5>3 DEF Told
        <5>5. Refs(op) = [shape |-> tensors[op.in[1]].shape, refs |-> Refs(op).refs]
          BY DEF Refs
        <5> QED BY <5>3, <5>4, <5>5
      <4>2. CASE ~SameShapeAsArgs
        BY <2>3, <3>1, <4>2, <3>2 DEF Refs, Told, ImagesThere
      <4> QED BY <4>1, <4>2
    <3>5. /\ new = [i \in DOMAIN Ops(net, "NORMAL") |-> new[i]]
          /\ \A i \in DOMAIN Ops(net, "NORMAL") : i # at => new[i] = args[i]
          /\ new[at] = a
      BY <1>2, <3>1, RunFacts DEF ToldTruth
    <3> QED BY <1>2, <2>1, <3>1, <3>3, <3>4, <3>5, RunAdvanced
  <2> QED BY <2>2, <2>3
<1>14. CASE Identity \/ Reshape
  <2>1. PICK s : /\ Aliasing(op.type) /\ s # NoShape
                 /\ \/ Die
                    \/ /\ Advance(args) /\ buffers' = WithoutOwn(op.out)
                       /\ \/ tensors' = Aliased(op.out, In(1))
                          \/ tensors' = [Aliased(op.out, In(1)) EXCEPT ![op.out].shape = s]
    BY <1>14, FlatIsShape DEF Identity, Reshape, At, Aliasing
  <2>2. CASE ~Die
    <3>1. PICK j \in DOMAIN net.ops : op = net.ops[j]
      BY <1>1, OpFacts
    <3>2. PICK n, m : n = op.out /\ m = In(1) /\ n \in Name /\ m \in Name
      BY <1>3
    <3>3. n = net.ops[j].out /\ m = net.ops[j].in[1] /\ Aliasing(net.ops[j].type)
      BY <2>1, <3>1, <3>2 DEF In
    <3>4. SoundTensor(n)
      BY <3>2, RunsActive DEF MemoryInv
    <3>5. /\ Linked' /\ ImagesStay
          /\ \A k \in Name : k # n => tensors'[k].shape = tensors[k].shape
          /\ tensors'[n].shape \in {s, tensors[m].shape}
      BY <1>1, <1>3, <2>1, <2>2, <3>2, <3>3, <3>4, AliasedEffects
    <3>6. tensors'[n].shape # NoShape
      BY <1>4, <2>1, <3>2, <3>5 DEF Shaped
    <3>7. RunEffects
      BY <3>2, <3>5, <3>6, EffectsThen
    <3>8. op.type \notin {"AddN", "Activation"}
      BY <2>1 DEF Aliasing
    <3> QED BY <1>7, <2>1, <2>2, <3>2, <3>6, <3>7, <3>8
  <2> QED BY <1>5, <2>2
<1>15. CASE BufferToImage \/ ImageToBuffer
  <2>1. /\ step = "compute" /\ op.type \notin {"AddN", "Activation"}
        /\ \/ Die
           \/ /\ Advance(args) /\ (UNCHANGED tensors \/ tensors' = MarkedUnused)
              /\ \E b, v : buffers' = WithVal(b, v)
    BY <1>15 DEF BufferToImage, ImageToBuffer, At
  <2>2. CASE ~Die
    BY <1>3, <2>1, <2>2, MarkedEffects, <1>2, RunFacts, <1>8, <1>7
  <2> QED BY <1>5, <2>2
<1> QED BY <1>9, <1>10, <1>11, <1>12, <1>13, <1>14, <1>15 DEF Operate

(* The INIT net only converts weights, which have shapes.                  *)
LEMMA InitAdvances ==
  ASSUME ArgsInv, OnGPU, AtOp, stage = "init", net \in Nets, UNCHANGED <<net, given>>,
         Advance(args), tensors'[op.out].shape # NoShape, ShapesStay
  PROVE  ArgsInv'
<1>1. PICK q : q = Ops(net, "INIT") /\ q = Ops(net', "INIT") /\ Todo = q
  BY DEF Todo
<1>2. /\ Prepared /\ at \in DOMAIN q /\ given = [n \in Name |-> given[n]] /\ OnGPU'
      /\ DOMAIN q = 1..Len(q) /\ Len(q) \in Nat /\ op = q[at]
  BY <1>1, OpsAreOps DEF ArgsInv, OnGPU, Early, AtOp, op
<1>3. CASE Die
  <2>1. stage' \notin Active
    BY <1>3 DEF Die, Active, Early, Late
  <2> QED BY <2>1, DeadArgs
<1>4. CASE ~Die
  <2>1. /\ step' = "resize"
        /\ \/ stage' = "init" /\ at' = at + 1 /\ at < Len(q)
           \/ stage' = "built" /\ at' = 1 /\ ~(at < Len(q))
    BY <1>1, <1>4 DEF Advance
  <2>2. ASSUME NEW i \in DOMAIN q, i <= at PROVE Shaped(q[i].out)'
    <3>1. CASE i = at
      BY <1>2, <3>1 DEF Shaped
    <3>2. CASE i # at
      <4>1. i < at
        BY <1>2, <2>2, <3>2
      <4>2. PICK o : o = q[i] /\ Shaped(o.out)
        BY <1>1, <1>2, <4>1 DEF Prepared
      <4>3. o.out \in Name
        BY <1>1, <4>2, OpsAreOps, NetFacts
      <4>4. Shaped(o.out)'
        BY <4>2, <4>3 DEF ShapesStay
      <4> QED BY <4>2, <4>4
    <3> QED BY <3>1, <3>2
  <2>3. CASE stage' = "init" /\ at' = at + 1 /\ at < Len(q)
    <3>1. \A n \in Consts(net') : Shaped(n)'
      BY ConstsAreNames, <1>2 DEF Prepared, ShapesStay
    <3>2. \A i \in DOMAIN q : i < at' => Shaped(q[i].out)'
      BY <1>2, <2>2, <2>3
    <3>3. at' \in DOMAIN q /\ \A n \in Name : given'[n].shape = NoShape
      BY <1>2, <2>3 DEF Prepared
    <3>4. Prepared'
      BY <1>1, <2>3, <3>1, <3>2, <3>3 DEF Prepared
    <3> QED BY <1>2, <2>1, <2>3, <3>4 DEF ArgsInv, Early, Late
  <2>4. CASE stage' = "built" /\ at' = 1 /\ ~(at < Len(q))
    BY <1>2, <2>2, <2>4, <2>1, <1>1 DEF Prepared, Converted, ArgsInv, Early, Late
  <2> QED BY <2>1, <2>3, <2>4
<1> QED BY <1>3, <1>4

LEMMA InitResizes ==
  ASSUME ArgsInv, OnGPU, AtOp, stage = "init", net \in Nets, UNCHANGED <<net, given>>,
         NEW r, Resized(r), r = "ok" => tensors'[op.out].shape # NoShape, ShapesStay
  PROVE  ArgsInv'
<1>1. PICK q : q = Ops(net, "INIT") /\ q = Ops(net', "INIT")
  BY DEF Todo
<1>2. Prepared /\ given = [n \in Name |-> given[n]] /\ OnGPU'
  BY DEF ArgsInv, OnGPU, Early
<1>3. CASE r # "ok"
  <2>1. stage' \notin Active
    BY <1>3 DEF Resized, Return, Die, Active, Early, Late
  <2> QED BY <2>1, DeadArgs
<1>4. CASE r = "ok"
  <2>1. UNCHANGED <<stage, at>>
    BY <1>4 DEF Resized
  <2>2. op' = op
    BY <2>1 DEF op, Todo
  <2>3. Shaped(op.out)'
    BY <1>4, <2>2 DEF Shaped
  <2>4. \A n \in Consts(net') : Shaped(n)'
    BY ConstsAreNames, <1>2 DEF Prepared, ShapesStay
  <2>5. ASSUME NEW i \in DOMAIN q, i < at PROVE Shaped(q[i].out)'
    <3>1. PICK o : o = q[i] /\ Shaped(o.out)
      BY <1>1, <1>2, <2>5 DEF Prepared
    <3>2. o.out \in Name
      BY <1>1, <3>1, OpsAreOps, NetFacts
    <3>3. Shaped(o.out)'
      BY <3>1, <3>2 DEF ShapesStay
    <3> QED BY <3>1, <3>3
  <2>6. Prepared'
    BY <1>1, <1>2, <2>1, <2>4, <2>5 DEF Prepared
  <2> QED BY <1>2, <2>1, <2>3, <2>6 DEF ArgsInv, Early, Late
<1> QED BY <1>3, <1>4

LEMMA InitOperates ==
  ASSUME NetsAreGood, MemoryInv, ArgsInv, OnGPU, stage = "init", Operate
  PROVE  ArgsInv'
<1>1. AtOp /\ Still /\ net \in Nets
  BY DEF Operate, ActivationResize, ActivationCPU, ActivationGPU, AddNResizeCPU, AddNCPU, AddNResizeGPU,
         AddNGPU, Identity, Reshape, BufferToImageResize, BufferToImage, ImageToBufferResize,
         ImageToBuffer, At, MemoryInv
<1>2. op.type = "BufferToImage" /\ In(1) \in Consts(net)
  BY <1>1, InitConverts DEF NetsAreGood
<1>3. /\ UNCHANGED <<net, given>> /\ GoodTensors(tensors) /\ GoodBuffers(buffers)
      /\ \A m \in Name : tensors[m].buffer \in BufferId \cup {Null}
      /\ op.out \in Name /\ In(1) \in Name /\ ~IsAlias(op.out)
  BY RunsActive, <1>1, <1>2, OpFacts DEF Still, MemoryInv, SoundTensor, Aliasing
<1>4. Shaped(In(1))
  BY <1>2 DEF ArgsInv, Prepared, Early
<1>5. BufferToImageResize \/ BufferToImage
  BY <1>2 DEF Operate, ActivationResize, ActivationCPU, ActivationGPU, AddNResizeCPU, AddNCPU,
              AddNResizeGPU, AddNGPU, Identity, Reshape, ImageToBufferResize, ImageToBuffer, At
<1>6. CASE BufferToImageResize
  <2>1. PICK r, s : s = tensors[In(1)].shape /\ ResizeImage(op.out, s, r) /\ Resized(r)
    BY <1>6 DEF BufferToImageResize
  <2>2. PICK n : n = op.out
    OBVIOUS
  <2>3. /\ \A m \in Name : m # n => tensors'[m].shape = tensors[m].shape
        /\ tensors'[n].shape \in {s, tensors[n].shape}
        /\ r # "fatal" => tensors'[n].shape = s
    BY <1>1, <1>3, <2>1, <2>2, ResizeEffects
  <2>4. s # NoShape
    BY <1>4, <2>1 DEF Shaped
  <2>5. ShapesStay
    BY <2>3, <2>4 DEF ShapesStay, Shaped
  <2> QED BY <1>1, <1>3, <2>1, <2>2, <2>3, <2>4, <2>5, InitResizes
<1>7. CASE BufferToImage
  <2>1. step = "compute" /\ (Die \/ (Advance(args) /\ tensors' = MarkedUnused))
    BY <1>7 DEF BufferToImage, At
  <2>2. CASE Die
    BY <2>2, <1>3, DeadArgs DEF Die, Active, Early, Late
  <2>3. CASE ~Die
    BY <1>3, <2>1, <2>3, MarkedEffects, <1>1, InitAdvances DEF ArgsInv, ShapesStay, Shaped
  <2> QED BY <2>2, <2>3
<1> QED BY <1>5, <1>6, <1>7
(* What was true of the kernels stays true while no image is made anew.    *)
LEMMA LaterTruths ==
  ASSUME net \in Nets, UNCHANGED net, ImagesStay, ShapesStay
  PROVE  /\ UNCHANGED args /\ ToldTruth => ToldTruth'
         /\ Converted => Converted'
<1>1. PICK q : q = Ops(net, "NORMAL") /\ q = Ops(net', "NORMAL")
  OBVIOUS
<1>2. \A i \in DOMAIN q : Range(q[i].in) \cup {q[i].out} \subseteq Name
  BY <1>1, OpsAreOps, NetFacts
<1>3. ASSUME UNCHANGED args, ToldTruth PROVE ToldTruth'
  <2>1. args' = [i \in DOMAIN q |-> args'[i]]
    BY <1>1, <1>3 DEF ToldTruth
  <2>2. ASSUME NEW i \in DOMAIN q, args'[i] # NoArgs PROVE Told(q[i], args[i])'
    <3>1. PICK o, a : o = q[i] /\ a = args[i] /\ a = args'[i]
      BY <1>3
    <3>2. Told(o, a) /\ Range(o.in) \cup {o.out} \subseteq Name
      BY <1>1, <1>2, <1>3, <2>2, <3>1 DEF ToldTruth
    <3>3. Told(o, a)'
      BY <3>2, ToldStays
    <3> QED BY <3>1, <3>3
  <2> QED BY <1>1, <2>1, <2>2 DEF ToldTruth
<1>4. ASSUME Converted PROVE Converted'
  BY OpsAreOps, NetFacts, <1>4 DEF Converted, ShapesStay
<1> QED BY <1>3, <1>4

(* Outside the operators of the net a call does nothing to images either.  *)
LEMMA ServesOn ==
  ASSUME ArgsInv, OnGPU, net \in Nets, stage \in Late, stage' \in Late,
         UNCHANGED <<net, args>>, Linked', ImagesStay, ShapesStay,
         given' = [n \in Name |-> given'[n]],
         \A n \in Name : given'[n].shape # NoShape => Shaped(n)',
         Done', ~AtOp' \/ step' # "compute"
  PROVE  ArgsInv'
BY LaterTruths DEF ArgsInv, Late, Early

LEMMA SameEffects ==
  ASSUME net \in Nets, UNCHANGED <<net, tensors, buffers>>
  PROVE  ImagesStay /\ ShapesStay /\ (Linked => Linked')
BY SamePointers DEF ImagesStay, ShapesStay, Shaped, HasImage

LEMMA ServeArgs ==
  ASSUME NetsAreGood, MemoryInv, ArgsInv, OnGPU, Serve
  PROVE  ArgsInv'
<1>1. stage \in Late /\ UNCHANGED net
  BY DEF Serve, CallRun, FeedResize, FeedCopy, RunNet, CopyOutput, RunReturns, Goto, Late
<1>2. /\ stage \in Active /\ net \in Nets /\ GoodTensors(tensors) /\ GoodBuffers(buffers)
      /\ todo \in Seq(Range(net.inputs))
      /\ \A m \in Name : tensors[m].buffer \in BufferId \cup {Null}
  BY <1>1 DEF MemoryInv, Active, SoundTensor
<1>3. /\ Linked /\ Done /\ given = [n \in Name |-> given[n]]
      /\ \A n \in Name : given[n].shape # NoShape => Shaped(n)
  BY <1>1 DEF ArgsInv
<1>4. ASSUME Die, UNCHANGED given PROVE ArgsInv'
  BY <1>4, <1>1, DeadArgs DEF Die, Active, Early, Late
<1>5. ASSUME UNCHANGED <<tensors, buffers, given, args>>, stage' \in Late, Done', ~AtOp' \/ step' # "compute"
      PROVE  ArgsInv'
  BY <1>1, <1>2, <1>3, <1>5, SameEffects, ServesOn DEF ShapesStay
<1>6. CASE CallRun
  <2>1. PICK s \in Shapes, now \in SUBSET Range(net.inputs) :
          /\ \A n \in Range(net.inputs) \ now : given[n].shape = s
          /\ shape' = s /\ todo' = Among(net.inputs, now)
    BY <1>6 DEF CallRun
  <2>2. /\ stage' = "feed" /\ at' = 1 /\ step' = "resize"
        /\ UNCHANGED <<tensors, buffers, given, args>>
    BY <1>6 DEF CallRun
  <2>3. s # NoShape
    BY DEF NetsAreGood
  <2>4. ASSUME NEW n \in Range(net.inputs) PROVE n \in Range(todo') \/ given'[n].shape # NoShape
    <3>1. CASE n \notin now
      BY <2>1, <2>2, <2>3, <3>1
    <3>2. CASE n \in now
      <4>1. PICK q : q = net.inputs
        OBVIOUS
      <4>2. PICK j \in DOMAIN q : q[j] = n
        BY <4>1 DEF Range
      <4>3. Len(q) \in Nat /\ DOMAIN q = 1..Len(q) /\ q[j] \in now
        BY <1>2, <3>2, <4>1, <4>2, NetFacts
      <4>4. \E i \in DOMAIN Among(q, now) : Among(q, now)[i] = q[j]
        BY <4>3, AmongIsAll
      <4> QED BY <2>1, <4>1, <4>2, <4>4 DEF Range
    <3> QED BY <3>1, <3>2
  <2>5. Done'
    BY <1>1, <2>1, <2>2, <2>3, <2>4 DEF Done
  <2> QED BY <1>5, <2>2, <2>5 DEF Late
<1>7. CASE FeedResize
  <2>1. PICK r : Resize(Head(todo), shape, r) /\ Resized(r) /\ stage = "feed" /\ todo # <<>>
                 /\ UNCHANGED <<todo, given, shape>>
    BY <1>7 DEF FeedResize, call
  <2>2. PICK n : n = Head(todo)
    OBVIOUS
  <2>3. n \in Range(net.inputs)
    BY <1>2, <2>1, <2>2
  <2>4. n \in Name /\ ~IsAlias(n)
    BY <1>2, <2>3, NetFacts DEF IsAlias, Outs
  <2>5. /\ Linked' /\ ImagesStay
        /\ \A m \in Name : m # n => tensors'[m].shape = tensors[m].shape
        /\ tensors'[n].shape \in {shape, tensors[n].shape}
        /\ r # "fatal" => tensors'[n].shape = shape
    BY <1>1, <1>2, <1>3, <2>1, <2>2, <2>4, ResizeEffects
  <2>6. shape # NoShape /\ at = 1
    BY <1>3, <2>1 DEF Done
  <2>7. ShapesStay
    BY <2>5, <2>6 DEF ShapesStay, Shaped
  <2>8. CASE r = "fatal"
    BY <1>4, <2>1, <2>8 DEF Resized
  <2>9. CASE r # "fatal"
    BY <2>1, <2>9, <2>2, <2>5, <2>6, <1>1, <1>3, <2>7, <1>2, ServesOn DEF Resized, Return, control,
       Shaped, Done, Late, AtOp, ShapesStay
  <2> QED BY <2>8, <2>9
<1>8. CASE FeedCopy
  <2>1. PICK n : n = Head(todo)
    OBVIOUS
  <2>2. stage = "feed" /\ todo # <<>> /\ step = "compute" /\ UNCHANGED tensors
    BY <1>8 DEF FeedCopy
  <2>3. CASE ~HasMemory(n)
    BY <1>4, <1>8, <2>1, <2>3 DEF FeedCopy
  <2>4. CASE HasMemory(n)
    <3>1. /\ buffers' = Copied(n) /\ given' = [given EXCEPT ![n] = [run |-> runs, shape |-> shape]]
          /\ todo' = Tail(todo) /\ step' = "resize" /\ UNCHANGED <<stage, at, args, shape>>
      BY <1>8, <2>1, <2>4 DEF FeedCopy
    <3>2. PICK g : g = [run |-> runs, shape |-> shape]
      OBVIOUS
    <3>3. g.shape = shape /\ shape # NoShape /\ at = 1 /\ Shaped(n)
      BY <1>3, <2>1, <2>2, <3>2 DEF Done
    <3>4. /\ given' = [m \in Name |-> given'[m]]
          /\ \A m \in Name : given'[m] = IF m = n THEN g ELSE given[m]
      BY <1>3, <3>1, <3>2
    <3>5. ImagesStay
      BY <1>2, <2>2, <3>1, ValEffects DEF Copied
    <3>6. Linked' /\ ShapesStay
      BY <1>1, <1>2, <1>3, <2>2, SamePointers DEF ShapesStay, Shaped
    <3>7. \A m \in Name : given'[m].shape # NoShape => Shaped(m)'
      BY <1>3, <3>3, <3>4, <3>6 DEF ShapesStay
    <3>8. ASSUME NEW m \in Range(net.inputs) PROVE m \in Range(todo') \/ given'[m].shape # NoShape
      <4>1. m \in Name
        BY <1>2, NetFacts
      <4>2. CASE m = n
        BY <3>3, <3>4, <4>1, <4>2
      <4>3. CASE m # n
        <5>1. m \in Range(todo) \/ given[m].shape # NoShape
          BY <1>3, <2>2 DEF Done
        <5>2. CASE m \in Range(todo)
          <6>1. PICK i \in DOMAIN todo : todo[i] = m
            BY <5>2 DEF Range
          <6>2. i \in Nat /\ i # 1 /\ i - 1 \in DOMAIN Tail(todo) /\ Tail(todo)[i - 1] = m
            BY <1>2, <2>1, <2>2, <4>3, <6>1
          <6> QED BY <3>1, <6>2 DEF Range
        <5> QED BY <3>4, <4>1, <4>3, <5>1, <5>2
      <4> QED BY <4>2, <4>3
    <3>9. Done'
      BY <1>1, <2>2, <3>1, <3>3, <3>8 DEF Done
    <3> QED BY <1>1, <1>2, <2>2, <3>1, <3>4, <3>5, <3>6, <3>7, <3>9, ServesOn
  <2> QED BY <2>3, <2>4
<1>9. CASE RunNet
  <2>1. /\ stage = "feed" /\ todo = <<>> /\ stage' \in {"run", "copy"}
        /\ UNCHANGED <<tensors, buffers, at, step, args, given>>
    BY <1>9 DEF RunNet, Goto, control
  <2>2. \A n \in Range(net.inputs) : Shaped(n)
    <3> SUFFICES ASSUME NEW n \in Range(net.inputs) PROVE Shaped(n)
      OBVIOUS
    <3>1. n \in Name
      BY <1>2, NetFacts
    <3>2. n \notin Range(todo)
      BY <2>1 DEF Range
    <3> QED BY <1>3, <2>1, <3>1, <3>2 DEF Done
  <2>3. \A i \in DOMAIN Ops(net, "NORMAL") : ~(i < 1)
    BY <1>2, OpsAreOps
  <2>4. at = 1
    BY <1>3, <2>1 DEF Done
  <2>5. Done'
    BY <1>1, <2>1, <2>2, <2>3, <2>4 DEF Done, Shaped
  <2>6. step' # "compute"
    BY <1>3, <2>1 DEF Done
  <2> QED BY <1>5, <2>1, <2>5, <2>6 DEF Late
<1>10. CASE RunReturns \/ CopyOutput
  BY <1>10, <1>4, <1>5 DEF RunReturns, CopyOutput, Return, control, Late, AtOp, Done
<1> QED BY <1>6, <1>7, <1>8, <1>9, <1>10 DEF Serve
-----------------------------------------------------------------------------
(* Init, and the end.                                                      *)
LEMMA PreparedOn ==
  ASSUME ArgsInv, OnGPU, stage \in Early, stage' \in Early \ {"init", "built"}, stage # "init",
         UNCHANGED <<net, control, given>>,
         stage' \in {"pool", "create"} => \A n \in Consts(net) : Shaped(n)'
  PROVE  ArgsInv'
<1>1. /\ Prepared /\ given = [n \in Name |-> given[n]] /\ OnGPU' /\ UNCHANGED <<at, step>>
      /\ Consts(net)' = Consts(net) /\ UNCHANGED given
  BY DEF ArgsInv, OnGPU, control
<1>2. Prepared'
  BY <1>1 DEF Prepared
<1>3. stage' \notin Late /\ stage' # "built" /\ ~AtOp'
  BY DEF Early, Late, AtOp
<1> QED BY <1>1, <1>2, <1>3 DEF ArgsInv

LEMMA WeightsAreShaped ==
  /\ WeightShape # NoShape
  /\ \A b : TensorOn(b, WeightShape).shape = WeightShape
  /\ \A b : [NewTensor EXCEPT !.buffer = b, !.shape = WeightShape].shape = WeightShape
BY DEF WeightShape, NoShape, TensorOn, NoTensor, NewTensor

LEMMA InitNetArgs ==
  ASSUME MemoryInv, ArgsInv, OnGPU, CreateInitNet
  PROVE  ArgsInv'
<1>1. /\ stage = "create" /\ net \in Nets /\ UNCHANGED <<net, given>> /\ Prepared
      /\ given = [n \in Name |-> given[n]] /\ OnGPU'
  BY DEF CreateInitNet, MemoryInv, ArgsInv, Goto, Early, OnGPU
<1>2. CASE Die
  <2>1. stage' \notin Active
    BY <1>2 DEF Die, Active, Early, Late
  <2> QED BY <1>1, <2>1, DeadArgs
<1>3. CASE ~Die
  <2>1. PICK q : q = Ops(net, "INIT") /\ q = Ops(net', "INIT")
    BY <1>1
  <2>2. /\ AllExist(q) /\ tensors' = WithOutputs(q) /\ UNCHANGED control
        /\ stage' = (IF q = <<>> THEN "built" ELSE "init")
    BY <1>3, <2>1 DEF CreateInitNet, Goto
  <2>3. at' = 1 /\ step' = "resize" /\ \A n \in Name : given'[n].shape = NoShape
    BY <1>1, <2>2 DEF Prepared, control
  <2>4. Len(q) \in Nat /\ DOMAIN q = 1..Len(q)
    BY <1>1, <2>1, OpsAreOps
  <2>5. CASE q = <<>>
    BY <2>2, <2>3, <2>5, <2>1, <1>1 DEF Prepared, Converted, ArgsInv, AtOp, Early, Late
  <2>6. CASE q # <<>>
    <3>1. at' \in DOMAIN q /\ \A i \in DOMAIN q : ~(i < at')
      <4>1. Len(q) # 0
        <5>1. \A i \in DOMAIN q : q[i] \in Range(net.ops)
          BY <1>1, <2>1, OpsAreOps DEF Range
        <5>2. q \in Seq(Range(net.ops))
          <6>1. Len(net.ops) \in Nat /\ DOMAIN net.ops = 1..Len(net.ops)
            BY <1>1, NetFacts
          <6>2. PICK S : S = {o \in Range(net.ops) : o.mode = "INIT"}
            OBVIOUS
          <6>3. Among(net.ops, S) \in Seq(Range(net.ops))
            BY <6>1, AmongIsPart
          <6> QED BY <2>1, <6>2, <6>3 DEF Ops
        <5> QED BY <2>6, <5>2
      <4> QED BY <2>3, <2>4, <4>1
    <3>2. ASSUME NEW n \in Consts(net) PROVE Shaped(n)'
      <4>1. n \in Name /\ Shaped(n) /\ n \notin Outs(net)
        BY <1>1, ConstsAreNames DEF Consts, Prepared
      <4>2. \A i \in DOMAIN q : q[i].out # n
        BY <1>1, <2>1, <4>1, OpsAreOps DEF Outs
      <4>3. tensors'[n] = tensors[n]
        BY <2>2, <4>1, <4>2 DEF WithOutputs
      <4> QED BY <4>1, <4>3 DEF Shaped
    <3>3. Prepared'
      BY <1>1, <2>1, <2>2, <2>3, <2>6, <3>1, <3>2 DEF Prepared
    <3> QED BY <1>1, <2>2, <2>3, <2>6, <3>3 DEF ArgsInv, Early, Late
  <2> QED BY <2>5, <2>6
<1> QED BY <1>2, <1>3

(* When the NORMAL net is there, no memory is shared and no kernel has run.*)
LEMMA NormalNetArgs ==
  ASSUME MemoryInv, ArgsInv, OnGPU, CreateNormalNet
  PROVE  ArgsInv'
<1>1. /\ stage = "built" /\ net \in Nets /\ UNCHANGED <<net, given>> /\ Prepared /\ Converted
      /\ given = [n \in Name |-> given[n]] /\ OnGPU' /\ GoodTensors(tensors)
  BY DEF CreateNormalNet, MemoryInv, ArgsInv, Early, OnGPU
<1>2. CASE Die
  <2>1. stage' \notin Active
    BY <1>2 DEF Die, Active, Early, Late
  <2> QED BY <1>1, <2>1, DeadArgs
<1>3. CASE ~Die
  <2>1. PICK q : q = Ops(net, "NORMAL") /\ q = Ops(net', "NORMAL")
    BY <1>1
  <2>2. PICK ts, gone : ts = WithOutputs(q) /\ gone = {n \in Name : ts[n].state = "live" /\ ts[n].unused}
    OBVIOUS
  <2>3. /\ AllExist(q) /\ stage' = "ready" /\ args' = [i \in DOMAIN q |-> NoArgs]
        /\ tensors' = [n \in Name |-> IF n \in gone THEN [ts[n] EXCEPT !.state = "erased"] ELSE ts[n]]
    BY <1>3, <2>1, <2>2 DEF CreateNormalNet
  <2>4. ASSUME NEW n \in Name
        PROVE  /\ tensors'[n].buffer \in {tensors[n].buffer, Null}
               /\ (\A i \in DOMAIN q : q[i].out # n) => tensors'[n].shape = tensors[n].shape
    <3>1. PICK t : t = ts[n]
      OBVIOUS
    <3>2. PICK u : u = [t EXCEPT !.state = "erased"]
      OBVIOUS
    <3>3. t \in {tensors[n], NewTensor}
      BY <1>1, <2>1, <2>2, <2>3, <3>1, OutputsThere
    <3>4. IsTensor(t)
      BY <1>1, <3>3, Literals DEF GoodTensors
    <3>5. u.buffer = t.buffer /\ u.shape = t.shape
      BY <3>2, <3>4 DEF IsTensor, Fields
    <3>6. (\A i \in DOMAIN q : q[i].out # n) => t = tensors[n]
      BY <2>2, <3>1 DEF WithOutputs
    <3>7. tensors'[n] \in {t, u}
      BY <2>3, <3>1, <3>2
    <3> QED BY <3>3, <3>5, <3>6, <3>7, NewTensors
  <2>5. ASSUME NEW i \in DOMAIN Ops(net, "INIT") PROVE Shaped(Ops(net, "INIT")[i].out)'
    <3>0. PICK j \in DOMAIN net.ops : Ops(net, "INIT")[i] = net.ops[j] /\ net.ops[j].mode = "INIT"
      BY <1>1, OpsAreOps
    <3>1. PICK n : /\ n = Ops(net, "INIT")[i].out /\ n = Ops(net', "INIT")[i].out /\ n = net.ops[j].out
                   /\ net.ops[j].mode = "INIT"
      BY <1>1, <3>0
    <3>2. n \in Name /\ Shaped(n)
      BY <1>1, <3>1, NetFacts DEF Converted
    <3>3. \A k \in DOMAIN q : q[k].out # n
      <4> SUFFICES ASSUME NEW k \in DOMAIN q, q[k].out = n PROVE FALSE
        OBVIOUS
      <4>1. PICK l \in DOMAIN net.ops : q[k] = net.ops[l] /\ net.ops[l].mode = "NORMAL"
        BY <1>1, <2>1, OpsAreOps
      <4>2. l = j
        BY <1>1, <3>1, <4>1, NetFacts
      <4> QED BY <3>1, <4>1, <4>2
    <3>4. tensors'[n].shape # NoShape
      BY <2>4, <3>2, <3>3 DEF Shaped
    <3> QED BY <3>1, <3>4 DEF Shaped
  <2>6. ASSUME NEW n \in Name, NEW m \in Name, tensors'[n].buffer = Own(m)
        PROVE  tensors'[m].buffer = Own(m)
    <3>1. Own(m) # Null /\ (Own(n) = Own(m) => n = m) /\ Own(m) # Slice(n)
          /\ \A k : Own(m) # Pool(k)
      BY DEF Own, Null, Slice, Pool
    <3>2. SoundTensor(n)
      BY <1>1 DEF MemoryInv, Active, Early
    <3>3. Plain(n)
      BY <1>1, <3>2 DEF SoundTensor, Early
    <3>4. n = m
      BY <2>4, <2>6, <3>1, <3>3 DEF Plain
    <3> QED BY <2>6, <3>4
  <2>7. ASSUME NEW i \in DOMAIN net.ops, Aliasing(net.ops[i].type)
        PROVE  tensors'[net.ops[i].out].buffer = Null
    <3>1. PICK n \in Name : n = net.ops[i].out
      BY <1>1, NetFacts
    <3>2. SoundTensor(n) /\ IsAlias(n)
      BY <1>1, <2>7, <3>1 DEF MemoryInv, Active, Early, IsAlias
    <3>3. tensors[n].buffer = Null
      BY <1>1, <3>2 DEF SoundTensor, Plain, Early
    <3> QED BY <2>4, <3>1, <3>3
  <2>8. Linked'
    BY <1>1, <2>6, <2>7 DEF Linked
  <2>9. Converted'
    BY <1>1, <2>5 DEF Converted
  <2>10. ToldTruth'
    BY <2>3, <2>1 DEF ToldTruth
  <2>11. Done' /\ ~AtOp' /\ stage' \notin Early
    BY <2>3 DEF Done, AtOp, Early
  <2>12. \A n \in Name : given'[n].shape = NoShape
    BY <1>1 DEF Prepared
  <2> QED BY <1>1, <2>8, <2>9, <2>10, <2>11, <2>12 DEF ArgsInv
<1> QED BY <1>2, <1>3

LEMMA SetupArgs ==
  ASSUME MemoryInv, ArgsInv, OnGPU, Setup
  PROVE  ArgsInv'
<1>1. CASE CreateInitNet \/ CreateNormalNet
  BY <1>1, InitNetArgs, NormalNetArgs
<1>2. CASE CreateTensors
  BY <1>2, PreparedOn DEF CreateTensors, Goto, Early
<1>3. ASSUME LoadModel \/ LoadBigModel \/ CreateOutputTensorBuffer PROVE ArgsInv'
  <2>1. UNCHANGED <<net, given>> /\ net \in Nets /\ stage \in Early \ {"init", "built"}
        /\ stage # "init" /\ stage \notin Late
    BY <1>3 DEF LoadModel, LoadBigModel, CreateOutputTensorBuffer, Goto, Refused, MemoryInv, Early, Late
  <2>2. CASE stage' \notin Active
    BY <2>1, <2>2, DeadArgs
  <2>3. CASE stage' \in Active
    <3>1. ~Die /\ ~Refused
      BY <2>1, <2>3, Refusals
    <3>2. /\ UNCHANGED control
          /\ \/ stage' = "pool" /\ (LoadModel \/ LoadBigModel)
             \/ stage = "pool" /\ stage' = "create" /\ CreateOutputTensorBuffer
      BY <1>3, <3>1 DEF LoadModel, LoadBigModel, CreateOutputTensorBuffer, Goto
    <3>3. ASSUME NEW n \in Consts(net) PROVE Shaped(n)'
      <4>1. n \in Name /\ n \notin Outs(net)
        BY <2>1, ConstsAreNames DEF Consts
      <4>2. CASE LoadModel
        <5>1. tensors'[n] = TensorOn(Slice(n), WeightShape)
          BY <3>1, <4>1, <4>2 DEF LoadModel
        <5> QED BY <5>1, WeightsAreShaped DEF Shaped
      <4>3. CASE LoadBigModel
        <5>1. tensors'[n] = [NewTensor EXCEPT !.buffer = Own(n), !.shape = WeightShape]
          BY <4>1, <4>3 DEF LoadBigModel
        <5> QED BY <5>1, WeightsAreShaped DEF Shaped
      <4>4. CASE stage = "pool" /\ CreateOutputTensorBuffer
        <5>1. ~\E i \in Pooled(net) : net.ops[i].out = n
          BY <4>1 DEF Outs, Pooled
        <5>2. tensors'[n] = tensors[n]
          BY <3>1, <4>1, <4>4, <5>1 DEF CreateOutputTensorBuffer
        <5>3. Shaped(n)
          BY <4>4 DEF ArgsInv, Prepared, Early
        <5> QED BY <5>2, <5>3 DEF Shaped
      <4> QED BY <3>2, <4>2, <4>3, <4>4
    <3>4. stage' \in Early \ {"init", "built"} /\ stage \in Early
      BY <2>1, <3>2 DEF Early
    <3> QED BY <2>1, <3>2, <3>3, <3>4, PreparedOn
  <2> QED BY <2>2, <2>3
<1> QED BY <1>1, <1>2, <1>3 DEF Setup

LEMMA ArgsInit == Init => ArgsInv
<1> SUFFICES ASSUME Init PROVE ArgsInv
  OBVIOUS
<1>1. /\ stage = "new" /\ at = 1 /\ step = "resize" /\ given = [n \in Name |-> Given0]
  BY DEF Init
<1>2. Given0.shape = NoShape
  BY DEF Given0
<1>3. Prepared
  BY <1>1, <1>2 DEF Prepared
<1> QED BY <1>1, <1>3 DEF ArgsInv, AtOp, Late

LEMMA NetStays ==
  ASSUME [Next]_vars
  PROVE  UNCHANGED net
<1>1. CASE Operate
  <2>1. Still
    BY <1>1 DEF Operate, ActivationResize, ActivationCPU, ActivationGPU, AddNResizeCPU, AddNCPU,
           AddNResizeGPU, AddNGPU, Identity, Reshape, BufferToImageResize, BufferToImage,
           ImageToBufferResize, ImageToBuffer
  <2> QED BY <2>1 DEF Still
<1>2. CASE Setup
  BY <1>2 DEF Setup, CreateTensors, LoadModel, LoadBigModel, CreateOutputTensorBuffer, CreateInitNet,
              CreateNormalNet, Goto, Refused
<1>3. CASE Serve
  BY <1>3 DEF Serve, CallRun, FeedResize, FeedCopy, RunNet, CopyOutput, RunReturns, Goto
<1>4. CASE Destroy \/ Stopped \/ UNCHANGED vars
  BY <1>4 DEF Destroy, Stopped, Goto, vars
<1> QED BY <1>1, <1>2, <1>3, <1>4 DEF Next

LEMMA NothingHappens ==
  ASSUME MemoryInv, ArgsInv, OnGPU, UNCHANGED vars
  PROVE  ArgsInv'
<1>1. /\ net \in Nets /\ OnGPU' /\ op' = op
      /\ UNCHANGED <<net, tensors, buffers, given, args, stage, at, step, shape, todo>>
  BY DEF MemoryInv, vars, control, call, OnGPU, op, Todo
<1>2. /\ ImagesStay /\ ShapesStay /\ (Linked => Linked')
      /\ (ToldTruth => ToldTruth') /\ (Converted => Converted')
  BY <1>1, SameEffects, LaterTruths
<1>3. \A n : Shaped(n)' <=> Shaped(n)
  BY <1>1 DEF Shaped
<1>4. Prepared => Prepared'
  BY <1>1, <1>3 DEF Prepared
<1>5. ASSUME Done, ToldTruth PROVE Done'
  <2>1. PICK q : q = Ops(net, "NORMAL") /\ q = Ops(net', "NORMAL")
    BY <1>1
  <2>2. ASSUME stage = "run", NEW i \in DOMAIN q, i < at
        PROVE  /\ Shaped(q[i].out)'
               /\ q[i].type \in {"AddN", "Activation"} => args'[i] = Refs(q[i])' /\ Told(q[i], args[i])'
    <3>1. PICK o, a : o = q[i] /\ a = args[i] /\ a = args'[i]
      BY <1>1
    <3>2. Shaped(o.out) /\ (o.type \in {"AddN", "Activation"} => a = Refs(o) /\ Told(o, a))
      BY <1>5, <2>1, <2>2, <3>1 DEF Done
    <3>3. Range(o.in) \cup {o.out} \subseteq Name
      BY <1>1, <2>1, <2>2, <3>1, OpsAreOps, NetFacts
    <3>4. Told(o, a) => Told(o, a)' /\ Refs(o).refs' = Refs(o).refs
      BY <1>2, <3>3, ToldStays
    <3>5. Refs(o).refs' = Refs(o).refs => Refs(o)' = Refs(o)
      BY <1>1 DEF Refs
    <3> QED BY <1>3, <3>1, <3>2, <3>4, <3>5
  <2> QED BY <1>1, <1>3, <1>5, <2>1, <2>2 DEF Done
<1>6. AtOp' => AtOp
  BY <1>1 DEF AtOp, Todo
<1> QED BY <1>1, <1>2, <1>3, <1>4, <1>5, <1>6 DEF ArgsInv

LEMMA ArgsNext ==
  ASSUME NetsAreGood, MemoryInv, ArgsInv, [Next]_vars
  PROVE  ArgsInv'
<1>1. UNCHANGED net
  BY NetStays
<1>2. CASE ~OnGPU
  <2>1. ~OnGPU'
    BY <1>1, <1>2 DEF OnGPU
  <2> QED BY <2>1 DEF ArgsInv
<1>3. CASE OnGPU
  <2>1. CASE UNCHANGED vars \/ Stopped
    BY <1>3, <2>1, NothingHappens DEF Stopped
  <2>2. CASE Operate
    BY <2>2, <1>3, InitOperates, RunOperates DEF Operate, ActivationResize, ActivationCPU, ActivationGPU,
       AddNResizeCPU, AddNCPU, AddNResizeGPU, AddNGPU, Identity, Reshape, BufferToImageResize,
       BufferToImage, ImageToBufferResize, ImageToBuffer, At, AtOp
  <2>3. CASE Destroy
    BY <2>3, <1>1, DeadArgs DEF Destroy, Goto, Active, Early, Late
  <2> QED BY <1>3, <2>1, <2>2, <2>3, SetupArgs, ServeArgs DEF Next
<1> QED BY <1>2, <1>3

(* For every GPU net in order, whose weights only the INIT operators read, *)
(* any number of calls of any shapes and any allocation failing: the       *)
(* kernels that have run in this call ran with the arguments that they     *)
(* would be given anew, although most calls set none.                      *)
THEOREM ArgumentsCurrent ==
  ASSUME NetsAreGood
  PROVE  Spec => []ArgsAreCurrent
<1>1. MemoryInv /\ ArgsInv => ArgsAreCurrent
  <2> SUFFICES ASSUME MemoryInv, ArgsInv, stage = "run", OnGPU, NEW i \in 1..(at - 1),
                      Todo[i].type \in {"AddN", "Activation"}
               PROVE  args[i] = Refs(Todo[i])
    BY DEF ArgsAreCurrent
  <2>1. PICK q : q = Ops(net, "NORMAL")
    OBVIOUS
  <2>2. Todo = q /\ DOMAIN q = 1..Len(q) /\ Len(q) \in Nat
    BY <2>1, OpsAreOps DEF Todo, MemoryInv
  <2>3. Done
    BY DEF ArgsInv, Late
  <2>4. at = 1 \/ at \in DOMAIN q
    BY <2>1, <2>3 DEF Done
  <2>5. i \in DOMAIN q /\ i < at
    BY <2>2, <2>4
  <2> QED BY <2>1, <2>2, <2>3, <2>5 DEF Done
<1>2. (\A n \in Nets : WeightsAreConverted(n))
  BY DEF NetsAreGood
<1>3. MemoryInv /\ ArgsInv /\ [Next]_vars => MemoryInv' /\ ArgsInv'
  BY <1>2, MemoryNext, ArgsNext
<1> QED BY <1>1, <1>3, MemoryInit, ArgsInit, PTL DEF Spec
-----------------------------------------------------------------------------
(* That results are right.  The argument is about the NORMAL net: which    *)
(* tensor's memory a tensor has, and what it means.                        *)
Normal == Ops(net, "NORMAL")

(* What the proof assumes of the nets and the inputs, with ResultsStay.    *)
NetsAreWhole == NetsAreGood /\ \A n \in Nets : ResultsStay(n)

LEMMA NormalFacts ==
  ASSUME net \in Nets
  PROVE  /\ Len(Normal) \in Nat /\ DOMAIN Normal = 1..Len(Normal)
         /\ \A i \in DOMAIN Normal :
              /\ Normal[i].out \in Name /\ Range(Normal[i].in) \subseteq Name
              /\ Normal[i].in[1] \in Range(Normal[i].in) /\ 1 \in DOMAIN Normal[i].in
              /\ IF Normal[i].type \in {"AddN", "Activation", "Reshape"}
                 THEN DOMAIN Normal[i].in = 1..2 ELSE DOMAIN Normal[i].in = 1..1
              /\ Normal[i].type \in Types
              /\ Normal[i].mode = "NORMAL" /\ Normal[i].mem \in Block \cup {None}
              /\ Normal[i].out \in Outs(net) /\ Maker(net, Normal[i].out) = Normal[i]
<1>1. /\ Len(Normal) \in Nat /\ DOMAIN Normal = 1..Len(Normal)
      /\ \A i \in DOMAIN Normal : \E j \in DOMAIN net.ops : Normal[i] = net.ops[j] /\ net.ops[j].mode = "NORMAL"
  BY OpsAreOps DEF Normal
<1>2. ASSUME NEW i \in DOMAIN Normal
      PROVE  /\ Normal[i].out \in Name /\ Range(Normal[i].in) \subseteq Name
             /\ Normal[i].in[1] \in Range(Normal[i].in) /\ 1 \in DOMAIN Normal[i].in
             /\ IF Normal[i].type \in {"AddN", "Activation", "Reshape"}
                THEN DOMAIN Normal[i].in = 1..2 ELSE DOMAIN Normal[i].in = 1..1
             /\ Normal[i].type \in Types
             /\ Normal[i].mode = "NORMAL" /\ Normal[i].mem \in Block \cup {None}
             /\ Normal[i].out \in Outs(net) /\ Maker(net, Normal[i].out) = Normal[i]
  <2>1. PICK j \in DOMAIN net.ops : Normal[i] = net.ops[j] /\ net.ops[j].mode = "NORMAL"
    BY <1>1
  <2>2. PICK o : o = net.ops[j]
    OBVIOUS
  <2>3. /\ o.out \in Name /\ Range(o.in) \subseteq Name /\ 1 \in DOMAIN o.in
        /\ IF o.type \in {"AddN", "Activation", "Reshape"}
           THEN DOMAIN o.in = 1..2 ELSE DOMAIN o.in = 1..1
        /\ o.type \in Types /\ o.mem \in Block \cup {None}
    BY <2>2, NetFacts
  <2>4. o.in[1] \in Range(o.in)
    BY <2>3 DEF Range
  <2>5. o.out \in Outs(net)
    BY <2>2 DEF Outs
  <2>6. o \in Range(net.ops) /\ \A p \in Range(net.ops) : p.out = o.out => p = o
    BY <2>2, NetFacts DEF Range
  <2>7. Maker(net, o.out) = o
    BY <2>6 DEF Maker
  <2> QED BY <2>1, <2>2, <2>3, <2>4, <2>5, <2>7
<1> QED BY <1>1, <1>2

(* The order of the NORMAL net is that of the whole.                       *)
LEMMA NormalOrder ==
  ASSUME net \in Nets
  PROVE  \E g \in [DOMAIN Normal -> DOMAIN net.ops] :
           /\ \A i \in DOMAIN Normal : Normal[i] = net.ops[g[i]]
           /\ \A i, j \in DOMAIN Normal : i < j => g[i] < g[j]
<1>1. PICK S : S = {o \in Range(net.ops) : o.mode = "NORMAL"}
  OBVIOUS
<1>2. PICK q : q = Normal
  OBVIOUS
<1>3. PICK g : Picked(q, g, net.ops, S, Len(net.ops))
  BY <1>1, <1>2, NetFacts, AmongPicks DEF Ops, Normal
<1>4. /\ Len(q) \in Nat /\ q = [i \in 1..Len(q) |-> q[i]] /\ g \in [1..Len(q) -> 1..Len(net.ops)]
      /\ \A i \in 1..Len(q) : q[i] = net.ops[g[i]]
      /\ \A i, j \in 1..Len(q) : i < j => g[i] < g[j]
  BY <1>3 DEF Picked
<1>5. DOMAIN q = 1..Len(q) /\ DOMAIN net.ops = 1..Len(net.ops)
  BY <1>4, NetFacts
<1> QED BY <1>2, <1>4, <1>5

LEMMA OutsDiffer ==
  ASSUME net \in Nets, NEW i \in DOMAIN Normal, NEW j \in DOMAIN Normal, Normal[i].out = Normal[j].out
  PROVE  i = j
<1>1. PICK g \in [DOMAIN Normal -> DOMAIN net.ops] :
           /\ \A k \in DOMAIN Normal : Normal[k] = net.ops[g[k]]
           /\ \A k, l \in DOMAIN Normal : k < l => g[k] < g[l]
  BY NormalOrder
<1>2. g[i] = g[j] /\ g[i] \in Nat
  BY <1>1, NetFacts
<1>3. i \in Nat /\ j \in Nat
  BY NormalFacts
<1> QED BY <1>1, <1>2, <1>3

(* An output of the net is made by the NORMAL net, or is an image that the *)
(* INIT net makes of a weight.                                             *)
LEMMA WhoMakes ==
  ASSUME NetsAreWhole, net \in Nets, NEW m \in Outs(net)
  PROVE  \/ \E i \in DOMAIN Normal : Normal[i].out = m
         \/ /\ \A i \in DOMAIN Normal : Normal[i].out # m
            /\ Maker(net, m).out = m /\ Maker(net, m).type = "BufferToImage" /\ Maker(net, m).mem = None
            /\ Maker(net, m).in[1] \in Consts(net) /\ OnGPU
            /\ \E i \in DOMAIN Ops(net, "INIT") : Ops(net, "INIT")[i] = Maker(net, m)
<1>1. PICK j \in DOMAIN net.ops : net.ops[j].out = m
  BY DEF Outs
<1>2. PICK o : o = net.ops[j]
  OBVIOUS
<1>3. o \in Range(net.ops) /\ \A p \in Range(net.ops) : p.out = m => p = o
  BY <1>1, <1>2, NetFacts DEF Range
<1>4. Maker(net, m) = o
  BY <1>1, <1>2, <1>3 DEF Maker
<1>5. o.mode \in {"INIT", "NORMAL"} /\ 1 \in DOMAIN o.in
  BY <1>2, NetFacts
<1>6. CASE o.mode = "NORMAL"
  BY <1>2, <1>6, OpsAreAll, <1>1 DEF Normal
<1>7. CASE o.mode = "INIT"
  <2>1. OnGPU /\ o.mem = None
    BY <1>3, <1>7 DEF NetsAreWhole, ResultsStay, OnGPU
  <2>2. o.type = "BufferToImage" /\ Range(o.in) \subseteq Consts(net)
    BY <1>2, <1>7, <2>1 DEF NetsAreWhole, NetsAreGood, WeightsAreConverted, OnGPU
  <2>3. o.in[1] \in Consts(net)
    BY <1>5, <2>2 DEF Range
  <2>4. \E i \in DOMAIN Ops(net, "INIT") : Ops(net, "INIT")[i] = o
    BY <1>2, <1>7, OpsAreAll
  <2>5. ASSUME NEW i \in DOMAIN Normal PROVE Normal[i].out # m
    <3>1. PICK k \in DOMAIN net.ops : Normal[i] = net.ops[k] /\ net.ops[k].mode = "NORMAL"
      BY OpsAreOps DEF Normal
    <3> QED BY <1>1, <1>2, <1>7, <3>1, NetFacts
  <2> QED BY <1>1, <1>2, <1>4, <2>1, <2>2, <2>3, <2>4, <2>5
<1> QED BY <1>5, <1>6, <1>7

(* No operator reads what it, or a later one, makes.                       *)
LEMMA ReadsEarlier ==
  ASSUME NetsAreWhole, net \in Nets, NEW i \in DOMAIN Normal, NEW j \in DOMAIN Normal, i <= j
  PROVE  Normal[j].out \notin Range(Normal[i].in)
BY DEF NetsAreWhole, NetsAreGood, InOrder, Normal

(* Counting.                                                               *)
LEMMA CountTo ==
  ASSUME NEW T, NEW n \in Nat, 0 \in T, \A k \in 0..n : k > 0 /\ k - 1 \in T => k \in T
  PROVE  n \in T
<1> DEFINE bad == {k \in 0..n : k \notin T}
<1>1. SUFFICES ASSUME bad # {} PROVE FALSE
  OBVIOUS
<1>2. bad \subseteq Nat
  OBVIOUS
<1>3. PICK k \in bad : \A j \in bad : k <= j
  <2> HIDE DEF bad
  <2> QED BY <1>1, <1>2, LeastNumber
<1>4. k > 0 /\ k - 1 \in 0..n /\ k - 1 \notin bad
  BY <1>3
<1> QED BY <1>3, <1>4
-----------------------------------------------------------------------------
(* The tensor whose memory a tensor has.                                   *)
IsRoot(f) ==
  f = [m \in Name |-> IF m \in Outs(net) /\ Aliasing(Maker(net, m).type)
                      THEN f[Maker(net, m).in[1]] ELSE m]

LEMMA RootExists ==
  ASSUME NetsAreWhole, net \in Nets
  PROVE  \E f : IsRoot(f)
<1> DEFINE part(f, k) ==
      f = [m \in Name |-> IF \E i \in DOMAIN Normal : i <= k /\ Normal[i].out = m /\ Aliasing(Normal[i].type)
                          THEN f[Maker(net, m).in[1]] ELSE m]
           T == {k \in 0..Len(Normal) : \E f : part(f, k)}
<1>1. 0 \in T
  <2>1. PICK f : f = [m \in Name |-> m]
    OBVIOUS
  <2>2. \A i \in DOMAIN Normal : ~(i <= 0)
    BY NormalFacts
  <2>3. part(f, 0)
    BY <2>1, <2>2
  <2> QED BY <2>3, NormalFacts
<1>2. ASSUME NEW k \in 0..Len(Normal), k > 0, k - 1 \in T
      PROVE  k \in T
  <2>1. PICK f : part(f, k - 1)
    BY <1>2
  <2>2. PICK o : o = Normal[k] /\ k \in DOMAIN Normal /\ o.out \in Name /\ o.in[1] \in Name
                 /\ Maker(net, o.out) = o
    BY <1>2, NormalFacts
  <2>3. PICK h : h = [m \in Name |-> IF m = o.out /\ Aliasing(o.type) THEN f[o.in[1]] ELSE f[m]]
    OBVIOUS
  <2>4. ASSUME NEW m \in Name
        PROVE  h[m] = IF \E i \in DOMAIN Normal : i <= k /\ Normal[i].out = m /\ Aliasing(Normal[i].type)
                      THEN h[Maker(net, m).in[1]] ELSE m
    <3>1. f[m] = IF \E i \in DOMAIN Normal : i <= k - 1 /\ Normal[i].out = m /\ Aliasing(Normal[i].type)
                 THEN f[Maker(net, m).in[1]] ELSE m
      BY <2>1
    <3>2. CASE m = o.out
      BY <2>2, ReadsEarlier, NormalFacts, <3>2, OutsDiffer, <2>3, <3>1
    <3>3. CASE m # o.out
      <4>1. (\E i \in DOMAIN Normal : i <= k /\ Normal[i].out = m /\ Aliasing(Normal[i].type))
               <=> \E i \in DOMAIN Normal : i <= k - 1 /\ Normal[i].out = m /\ Aliasing(Normal[i].type)
        BY <2>2, <3>3, NormalFacts
      <4>2. ASSUME NEW i \in DOMAIN Normal, i <= k - 1, Normal[i].out = m
            PROVE  Maker(net, m).in[1] # o.out /\ Maker(net, m).in[1] \in Name
        BY <1>2, <4>2, NormalFacts, <2>2, ReadsEarlier
      <4> QED BY <2>3, <3>1, <3>3, <4>1, <4>2
    <3> QED BY <3>2, <3>3
  <2>5. part(h, k)
    BY <2>3, <2>4
  <2> QED BY <2>5
<1>3. Len(Normal) \in T
  <2> HIDE DEF T
  <2> QED BY <1>1, <1>2, CountTo, NormalFacts
<1>4. PICK f : part(f, Len(Normal))
  BY <1>3
<1>5. ASSUME NEW m \in Name
      PROVE  (m \in Outs(net) /\ Aliasing(Maker(net, m).type))
               <=> \E i \in DOMAIN Normal : i <= Len(Normal) /\ Normal[i].out = m /\ Aliasing(Normal[i].type)
  BY NormalFacts, WhoMakes DEF Aliasing
<1>6. IsRoot(f)
  <2> HIDE DEF T
  <2> QED BY <1>4, <1>5 DEF IsRoot
<1> QED BY <1>6

LEMMA RootOf ==
  ASSUME NetsAreWhole, net \in Nets, NEW m \in Name
  PROVE  Root(net)[m] = IF m \in Outs(net) /\ Aliasing(Maker(net, m).type)
                        THEN Root(net)[Maker(net, m).in[1]] ELSE m
BY RootExists DEF Root, IsRoot

(* A tensor is made before k, or not by the NORMAL net.                    *)
Made(m, k) == \A i \in DOMAIN Normal : Normal[i].out = m => i < k

(* Roots are no aliases, and made no later.                                *)
LEMMA Roots ==
  ASSUME NetsAreWhole, net \in Nets
  PROVE  /\ \A m \in Name : /\ Root(net)[m] \in Name /\ ~IsAlias(Root(net)[m])
                            /\ ~IsAlias(m) => Root(net)[m] = m
                            /\ \A k \in Nat : Made(m, k) => Made(Root(net)[m], k)
         /\ \A i \in DOMAIN Normal :
              Root(net)[Normal[i].out] = IF Aliasing(Normal[i].type)
                                         THEN Root(net)[Normal[i].in[1]] ELSE Normal[i].out
<1>1. ASSUME NEW i \in DOMAIN Normal
      PROVE  Root(net)[Normal[i].out] = IF Aliasing(Normal[i].type)
                                        THEN Root(net)[Normal[i].in[1]] ELSE Normal[i].out
  BY NormalFacts, RootOf
<1>2. ASSUME NEW m \in Name, \A i \in DOMAIN Normal : Normal[i].out # m
      PROVE  Root(net)[m] = m /\ ~IsAlias(m)
  <2>1. m \in Outs(net) => Maker(net, m).type = "BufferToImage"
    BY <1>2, WhoMakes
  <2>2. ~IsAlias(m)
    <3> SUFFICES ASSUME NEW j \in DOMAIN net.ops, Aliasing(net.ops[j].type), net.ops[j].out = m PROVE FALSE
      BY DEF IsAlias
    <3>1. m \in Outs(net)
      BY DEF Outs
    <3>2. Maker(net, m) = net.ops[j]
      BY NetFacts DEF Range, Maker
    <3> QED BY <2>1, <3>1, <3>2 DEF Aliasing
  <2> QED BY <2>1, <2>2, RootOf DEF Aliasing
<1>3. ASSUME NEW i \in DOMAIN Normal
      PROVE  IsAlias(Normal[i].out) <=> Aliasing(Normal[i].type)
  <2>1. PICK j \in DOMAIN net.ops : Normal[i] = net.ops[j]
    BY OpsAreOps DEF Normal
  <2> QED BY <2>1, NetFacts DEF IsAlias
<1> DEFINE Fine(m) == /\ Root(net)[m] \in Name /\ ~IsAlias(Root(net)[m])
                      /\ \A k \in Nat : Made(m, k) => Made(Root(net)[m], k)
           bad == {i \in DOMAIN Normal : ~Fine(Normal[i].out)}
<1>4. bad = {}
  <2> SUFFICES ASSUME bad # {} PROVE FALSE
    OBVIOUS
  <2>1. bad \subseteq Nat
    BY NormalFacts
  <2>2. PICK i \in bad : \A j \in bad : i <= j
    <3> HIDE DEF bad
    <3> QED BY <2>1, LeastNumber
  <2>3. i \in DOMAIN Normal /\ i \in Nat /\ ~Fine(Normal[i].out)
    BY <2>1, <2>2
  <2>4. PICK o, r : o = Normal[i] /\ r = o.in[1] /\ r \in Range(o.in) /\ r \in Name /\ o.out \in Name
    BY <2>3, NormalFacts
  <2>5. CASE ~Aliasing(o.type)
    BY <1>1, <1>3, <2>3, <2>4, <2>5
  <2>6. CASE Aliasing(o.type)
    <3>1. Root(net)[o.out] = Root(net)[r]
      BY <1>1, <2>3, <2>4, <2>6
    <3>2. CASE \E j \in DOMAIN Normal : Normal[j].out = r
      <4>1. PICK j \in DOMAIN Normal : Normal[j].out = r
        BY <3>2
      <4>2. j \in Nat /\ j < i
        BY <2>3, <2>4, <4>1, ReadsEarlier, NormalFacts
      <4>3. Fine(r)
        BY <2>2, <4>1, <4>2, <2>3
      <4>4. ASSUME NEW k \in Nat, Made(o.out, k) PROVE Made(r, k)
        BY <2>3, <2>4, <4>4, <4>1, <4>2, OutsDiffer DEF Made
      <4> QED BY <2>3, <2>4, <3>1, <4>3, <4>4
    <3>3. CASE ~\E j \in DOMAIN Normal : Normal[j].out = r
      BY <1>2, <2>4, <3>3, <2>3, <3>1 DEF Made
    <3> QED BY <3>2, <3>3
  <2> QED BY <2>5, <2>6
<1>5. ASSUME NEW m \in Name
      PROVE  /\ Root(net)[m] \in Name /\ ~IsAlias(Root(net)[m])
             /\ ~IsAlias(m) => Root(net)[m] = m
             /\ \A k \in Nat : Made(m, k) => Made(Root(net)[m], k)
  <2>1. CASE \E i \in DOMAIN Normal : Normal[i].out = m
    <3>1. PICK i \in DOMAIN Normal : Normal[i].out = m
      BY <2>1
    <3>2. Fine(m)
      BY <1>4, <3>1
    <3> QED BY <1>1, <1>3, <3>1, <3>2
  <2>2. CASE ~\E i \in DOMAIN Normal : Normal[i].out = m
    BY <1>2, <2>2
  <2> QED BY <2>1, <2>2
<1> QED BY <1>1, <1>5

(* The plan, in the order of the NORMAL net: k is the block of i, given to *)
(* j later.                                                                *)
Blocks(i, j) ==
  /\ i < j /\ Normal[i].mem = Normal[j].mem /\ Normal[j].mem # None
  /\ ShouldPreallocate(Normal[i]) /\ ShouldPreallocate(Normal[j])

LEMMA PlanOfNormal ==
  ASSUME net \in Nets, NEW i \in DOMAIN Normal, NEW j \in DOMAIN Normal, Blocks(i, j)
  PROVE  /\ \A k \in DOMAIN Normal : j <= k =>
              \A m \in Range(Normal[k].in) : Root(net)[m] # Normal[i].out
         /\ \A m \in Range(net.outputs) : Root(net)[m] # Normal[i].out
<1>1. PICK g \in [DOMAIN Normal -> DOMAIN net.ops] :
           /\ \A k \in DOMAIN Normal : Normal[k] = net.ops[g[k]]
           /\ \A k, l \in DOMAIN Normal : k < l => g[k] < g[l]
  BY NormalOrder
<1>2. g[i] \in Pooled(net) /\ g[j] \in Pooled(net) /\ g[i] < g[j] /\ net.ops[g[i]].mem = net.ops[g[j]].mem
  BY <1>1 DEF Blocks, Pooled
<1>3. PlanIsSafe(net)
  BY EngineAssumption DEF IsNet
<1>4. PICK root : root = Root(net)
  OBVIOUS
<1>5. /\ \A k \in g[j]..Len(net.ops) : \A m \in Range(net.ops[k].in) : root[m] # net.ops[g[i]].out
      /\ \A m \in Range(net.outputs) : root[m] # net.ops[g[i]].out
  BY <1>2, <1>3, <1>4 DEF PlanIsSafe
<1>6. ASSUME NEW k \in DOMAIN Normal, j <= k PROVE g[k] \in g[j]..Len(net.ops)
  BY <1>1, NormalFacts, NetFacts, <1>6
<1> QED BY <1>1, <1>4, <1>5, <1>6
-----------------------------------------------------------------------------
(* What tensors mean.                                                      *)
Means(e, src) ==
  e = [m \in Name |-> IF m \in Outs(net) THEN Applied(Maker(net, m), e) ELSE src[m]]

LEMMA AppliedSame ==
  ASSUME NEW o, NEW e, NEW f, 1 \in DOMAIN o.in,
         o.type \in {"AddN", "Activation"} => 2 \in DOMAIN o.in,
         \A m \in Range(o.in) : e[m] = f[m]
  PROVE  Applied(o, e) = Applied(o, f)
BY DEF Range, Applied

LEMMA MeaningExists ==
  ASSUME NetsAreWhole, net \in Nets, NEW src
  PROVE  \E e : Means(e, src)
<1> DEFINE base(m) == IF m \in Outs(net) THEN src[Maker(net, m).in[1]] ELSE src[m]
           part(e, k) ==
      e = [m \in Name |-> IF \E i \in DOMAIN Normal : i <= k /\ Normal[i].out = m
                          THEN Applied(Maker(net, m), e) ELSE base(m)]
           T == {k \in 0..Len(Normal) : \E f : part(f, k)}
<1>1. 0 \in T
  <2>1. PICK f : f = [m \in Name |-> base(m)]
    OBVIOUS
  <2>2. \A i \in DOMAIN Normal : ~(i <= 0)
    BY NormalFacts
  <2>3. part(f, 0)
    <3> HIDE DEF base
    <3> QED BY <2>1, <2>2
  <2> QED BY <2>3, NormalFacts
<1>2. ASSUME NEW k \in 0..Len(Normal), k > 0, k - 1 \in T
      PROVE  k \in T
  <2> HIDE DEF base
  <2>1. PICK f : part(f, k - 1)
    BY <1>2
  <2>2. PICK o : o = Normal[k] /\ k \in DOMAIN Normal /\ o.out \in Name /\ Maker(net, o.out) = o
    BY <1>2, NormalFacts
  <2>3. PICK h : h = [m \in Name |-> IF m = o.out THEN Applied(o, f) ELSE f[m]]
    OBVIOUS
  <2>4. ASSUME NEW i \in DOMAIN Normal, i <= k PROVE Applied(Normal[i], h) = Applied(Normal[i], f)
    <3>1. PICK p : p = Normal[i] /\ 1 \in DOMAIN p.in /\ Range(p.in) \subseteq Name
                   /\ (p.type \in {"AddN", "Activation"} => 2 \in DOMAIN p.in)
      BY NormalFacts
    <3>2. o.out \notin Range(p.in)
      BY <2>2, <2>4, <3>1, ReadsEarlier
    <3>3. \A m \in Range(p.in) : h[m] = f[m]
      BY <2>3, <3>1, <3>2
    <3> QED BY <3>1, <3>3, AppliedSame
  <2>5. ASSUME NEW m \in Name
        PROVE  h[m] = IF \E i \in DOMAIN Normal : i <= k /\ Normal[i].out = m
                      THEN Applied(Maker(net, m), h) ELSE base(m)
    <3>1. f[m] = IF \E i \in DOMAIN Normal : i <= k - 1 /\ Normal[i].out = m
                 THEN Applied(Maker(net, m), f) ELSE base(m)
      BY <2>1
    <3>2. CASE m = o.out
      <4>1. Applied(o, h) = Applied(o, f)
        BY <1>2, <2>2, <2>4, NormalFacts
      <4>2. \E i \in DOMAIN Normal : i <= k /\ Normal[i].out = m
        BY <1>2, <2>2, <3>2, NormalFacts
      <4> QED BY <2>2, <2>3, <3>2, <4>1, <4>2
    <3>3. CASE m # o.out
      <4>1. (\E i \in DOMAIN Normal : i <= k /\ Normal[i].out = m)
               <=> \E i \in DOMAIN Normal : i <= k - 1 /\ Normal[i].out = m
        BY <2>2, <3>3, NormalFacts
      <4>2. ASSUME NEW i \in DOMAIN Normal, i <= k - 1, Normal[i].out = m
            PROVE  Applied(Maker(net, m), h) = Applied(Maker(net, m), f)
        BY <1>2, <4>2, NormalFacts, <2>4
      <4> QED BY <2>3, <3>1, <3>3, <4>1, <4>2
    <3> QED BY <3>2, <3>3
  <2>6. part(h, k)
    BY <2>3, <2>5
  <2> QED BY <2>6
<1>3. Len(Normal) \in T
  <2> HIDE DEF T
  <2> QED BY <1>1, <1>2, CountTo, NormalFacts
<1>4. PICK e : part(e, Len(Normal))
  BY <1>3
<1>5. ASSUME NEW m \in Name
      PROVE  e[m] = IF m \in Outs(net) THEN Applied(Maker(net, m), e) ELSE src[m]
  <2>1. e[m] = IF \E i \in DOMAIN Normal : i <= Len(Normal) /\ Normal[i].out = m
               THEN Applied(Maker(net, m), e) ELSE base(m)
    BY <1>4
  <2>2. CASE \E i \in DOMAIN Normal : Normal[i].out = m
    BY <2>1, <2>2, NormalFacts
  <2>3. CASE ~(\E i \in DOMAIN Normal : Normal[i].out = m) /\ m \in Outs(net)
    <3>1. PICK o, r : o = Maker(net, m) /\ r = o.in[1] /\ o.type = "BufferToImage" /\ r \in Consts(net)
      BY <2>3, WhoMakes
    <3>2. r \in Name /\ r \notin Outs(net)
      BY <3>1, ConstsAreNames DEF Consts
    <3>3. e[r] = src[r]
      BY <1>4, <3>2, NormalFacts
    <3>4. Applied(o, e) = e[r]
      BY <3>1 DEF Applied
    <3> QED BY <2>1, <2>3, <3>1, <3>3, <3>4
  <2>4. CASE m \notin Outs(net)
    BY <2>1, <2>4, NormalFacts
  <2> QED BY <2>2, <2>3, <2>4
<1>6. Means(e, src)
  BY <1>4, <1>5 DEF Means
<1> QED BY <1>6

LEMMA MeaningOf ==
  ASSUME NetsAreWhole, net \in Nets, NEW m \in Name
  PROVE  Meaning[m] = IF m \in Outs(net) THEN Applied(Maker(net, m), Meaning) ELSE Source(m)
<1>1. PICK src : src = [k \in Name |-> Source(k)]
  OBVIOUS
<1>2. \A e : Means(e, src) <=>
        e = [k \in Name |-> IF k \in Outs(net) THEN Applied(Maker(net, k), e) ELSE Source(k)]
  BY <1>1 DEF Means
<1>3. \E e : e = [k \in Name |-> IF k \in Outs(net) THEN Applied(Maker(net, k), e) ELSE Source(k)]
  BY <1>2, MeaningExists
<1>4. Meaning = [k \in Name |-> IF k \in Outs(net) THEN Applied(Maker(net, k), Meaning) ELSE Source(k)]
  BY <1>3 DEF Meaning
<1> QED BY <1>4

LEMMA MeaningNext ==
  ASSUME NetsAreWhole, net \in Nets, UNCHANGED net, NEW m \in Name
  PROVE  Meaning'[m] = IF m \in Outs(net) THEN Applied(Maker(net, m), Meaning') ELSE Source(m)'
<1>1. PICK src : src = [k \in Name |-> Source(k)']
  OBVIOUS
<1>2. \A e : Means(e, src) <=>
        e = [k \in Name |-> IF k \in Outs(net) THEN Applied(Maker(net, k), e) ELSE Source(k)']
  BY <1>1 DEF Means
<1>3. \E e : e = [k \in Name |-> IF k \in Outs(net) THEN Applied(Maker(net, k), e) ELSE Source(k)']
  BY <1>2, MeaningExists
<1>4. Meaning' = CHOOSE e :
         e = [k \in Name |-> IF k \in Outs(net) THEN Applied(Maker(net, k), e) ELSE Source(k)']
  BY DEF Meaning
<1>5. Meaning' = [k \in Name |-> IF k \in Outs(net) THEN Applied(Maker(net, k), Meaning') ELSE Source(k)']
  BY <1>3, <1>4
<1> QED BY <1>5

LEMMA SameMeaning ==
  ASSUME UNCHANGED <<net, given>>
  PROVE  Meaning' = Meaning
BY DEF Meaning, Source

-----------------------------------------------------------------------------
(* Where the memory of a tensor is, if it has any: that of its root.       *)
InPool(r) ==
  \E i \in DOMAIN Normal : Normal[i].out = r /\ Normal[i].mem # None /\ ShouldPreallocate(Normal[i])

Home(r) ==
  IF InPool(r) THEN Pool(Maker(net, r).mem)
  ELSE IF r \in Consts(net) /\ Slices THEN Slice(r) ELSE Own(r)

HomeOf(m) == Home(Root(net)[m])

LEMMA PoolIsPool ==
  ASSUME NetsAreWhole, net \in Nets, NEW r
  PROVE  InPool(r) <=> \E i \in Pooled(net) : net.ops[i].out = r
<1>1. ASSUME InPool(r) PROVE \E i \in Pooled(net) : net.ops[i].out = r
  <2>1. PICK i \in DOMAIN Normal : Normal[i].out = r /\ Normal[i].mem # None /\ ShouldPreallocate(Normal[i])
    BY <1>1 DEF InPool
  <2>2. PICK j \in DOMAIN net.ops : Normal[i] = net.ops[j]
    BY OpsAreOps DEF Normal
  <2> QED BY <2>1, <2>2 DEF Pooled
<1>2. ASSUME NEW i \in Pooled(net), net.ops[i].out = r PROVE InPool(r)
  BY NetFacts, OpsAreAll, <1>2 DEF Pooled, Range, NetsAreWhole, ResultsStay, Normal, InPool
<1> QED BY <1>1, <1>2

(* Two that are not aliases have the same home only as one block.          *)
LEMMA Homes ==
  ASSUME NetsAreWhole, net \in Nets
  PROVE  /\ \A r \in Name : Home(r) \in BufferId /\ Home(r) # Null /\ Home(r) # Weights
         /\ \A r, s \in Name : Home(r) = Home(s) =>
              r = s \/ \E i, j \in DOMAIN Normal :
                         /\ Normal[i].out = r /\ Normal[j].out = s
                         /\ Normal[i].mem = Normal[j].mem /\ Normal[j].mem # None
                         /\ ShouldPreallocate(Normal[i]) /\ ShouldPreallocate(Normal[j])
         /\ \A i \in DOMAIN Normal : ~InPool(Normal[i].out) => Home(Normal[i].out) = Own(Normal[i].out)
         /\ \A n \in Name : n \notin Outs(net) => ~InPool(n)
         /\ \A n \in Range(net.inputs) : Home(n) = Own(n) /\ ~IsAlias(n) /\ n \in Name /\ n \notin Outs(net)
<1>1. \A i \in DOMAIN Normal : Maker(net, Normal[i].out) = Normal[i]
  BY NormalFacts
<1>2. ASSUME NEW r \in Name
      PROVE  \/ /\ ~InPool(r) /\ Home(r) \in {Own(r), Slice(r)}
             \/ \E i \in DOMAIN Normal : /\ Normal[i].out = r /\ Normal[i].mem # None
                                         /\ ShouldPreallocate(Normal[i])
                                         /\ Home(r) = Pool(Normal[i].mem) /\ Normal[i].mem \in Block
  <2>1. CASE ~InPool(r)
    BY <2>1 DEF Home
  <2>2. CASE InPool(r)
    <3>1. PICK i \in DOMAIN Normal : Normal[i].out = r /\ Normal[i].mem # None /\ ShouldPreallocate(Normal[i])
      BY <2>2 DEF InPool
    <3>2. Home(r) = Pool(Normal[i].mem) /\ Normal[i].mem \in Block
      BY <1>1, <2>2, <3>1, NormalFacts DEF Home
    <3> QED BY <3>1, <3>2
  <2> QED BY <2>1, <2>2
<1>3. ASSUME NEW r \in Name PROVE Home(r) \in BufferId /\ Home(r) # Null /\ Home(r) # Weights
  BY <1>2, Ids
<1>4. ASSUME NEW r \in Name, NEW s \in Name, Home(r) = Home(s), r # s
      PROVE  \E i, j \in DOMAIN Normal :
                         /\ Normal[i].out = r /\ Normal[j].out = s
                         /\ Normal[i].mem = Normal[j].mem /\ Normal[j].mem # None
                         /\ ShouldPreallocate(Normal[i]) /\ ShouldPreallocate(Normal[j])
  <2>1. InPool(r) /\ InPool(s)
    <3>1. CASE Home(r) \in {Own(r), Slice(r)}
      <4>1. Home(s) \notin {Own(s), Slice(s)}
        BY <1>4, <3>1, Ids
      <4>2. PICK i \in DOMAIN Normal : Home(s) = Pool(Normal[i].mem)
        BY <1>2, <4>1
      <4> QED BY <1>4, <3>1, <4>2, Ids
    <3>2. CASE Home(r) \notin {Own(r), Slice(r)}
      <4>1. PICK i \in DOMAIN Normal : Home(r) = Pool(Normal[i].mem)
        BY <1>2, <3>2
      <4>2. Home(s) \notin {Own(s), Slice(s)}
        BY <1>4, <4>1, Ids
      <4> QED BY <3>2, <4>2 DEF Home
    <3> QED BY <3>1, <3>2
  <2>2. PICK i \in DOMAIN Normal : /\ Normal[i].out = r /\ Normal[i].mem # None
                                   /\ ShouldPreallocate(Normal[i]) /\ Home(r) = Pool(Normal[i].mem)
    BY <2>1, <1>1 DEF InPool, Home
  <2>3. PICK j \in DOMAIN Normal : /\ Normal[j].out = s /\ Normal[j].mem # None
                                   /\ ShouldPreallocate(Normal[j]) /\ Home(s) = Pool(Normal[j].mem)
    BY <2>1, <1>1 DEF InPool, Home
  <2>4. Normal[i].mem = Normal[j].mem
    <3>1. Pool(Normal[i].mem).id = Pool(Normal[j].mem).id
      BY <1>4, <2>2, <2>3
    <3> QED BY <3>1, Ids
  <2> QED BY <2>2, <2>3, <2>4
<1>5. ASSUME NEW i \in DOMAIN Normal, ~InPool(Normal[i].out) PROVE Home(Normal[i].out) = Own(Normal[i].out)
  BY NormalFacts, <1>5 DEF Consts, Home
<1>6. ASSUME NEW n \in Name, n \notin Outs(net) PROVE ~InPool(n)
  BY <1>6, NormalFacts DEF InPool
<1>7. ASSUME NEW n \in Range(net.inputs)
      PROVE  Home(n) = Own(n) /\ ~IsAlias(n) /\ n \in Name /\ n \notin Outs(net)
  BY NetFacts, <1>6 DEF Consts, IsAlias, Outs, Home
<1> QED BY <1>3, <1>4, <1>5, <1>6, <1>7

(* Tensors are at home, and those of the arena are there once it is.       *)
Settled == {"create", "init", "built"} \cup Late

Listed(a) == a = [todo |-> a.todo, blank |-> a.blank, gave |-> a.gave] /\ a.todo \in Seq(Range(net.outputs))

HomeInv ==
  /\ Listed(asked)
  /\ stage \in Active =>
       /\ \A m \in Name : tensors[m].buffer \in {Null, HomeOf(m)}
       /\ stage \in Settled =>
            \A r \in Name : InPool(r) => tensors[r].buffer # Null /\ tensors[r].state = "live"
       /\ stage \in {"new", "load", "pool", "create"} => step = "resize"
       /\ stage \in {"new", "load"} =>
            /\ \A m \in Name : tensors[m].buffer = Null
            /\ \A b \in BufferId : buffers[b].state # "live"

(* A step that changes the memory and the shape of one tensor.             *)
OnlyTouches(n) ==
  /\ \A m \in Name : /\ tensors'[m].state = tensors[m].state
                     /\ m # n => tensors'[m].buffer = tensors[m].buffer /\ tensors'[m].shape = tensors[m].shape
  /\ tensors'[n].buffer \in {tensors[n].buffer, Home(n)}
  /\ \A b \in BufferId : b # Home(n) => buffers'[b] = buffers[b]

ImagesKept == \A m \in Name : HasImage(m) /\ HasMemory(m) => HasMemory(m)'

LEMMA SetToStates ==
  ASSUME GoodTensors(tensors), NEW n \in Name, NEW s, NEW b, SetTo(n, s, b)
  PROVE  \A m \in Name : tensors'[m].state = tensors[m].state
<1>1. ASSUME NEW m \in Name, m # n PROVE tensors'[m].state = tensors[m].state
  BY <1>1 DEF GoodTensors, SetTo
<1>2. tensors'[n].state = tensors[n].state
  <2>1. PICK t, u : t = tensors[n] /\ IsTensor(t) /\ u = [[t EXCEPT !.shape = s] EXCEPT !.buffer = b]
    BY DEF GoodTensors
  <2>2. u.state = t.state
    BY <2>1 DEF IsTensor, Fields
  <2>3. tensors'[n] = u
    BY <2>1 DEF GoodTensors, SetTo
  <2> QED BY <2>1, <2>2, <2>3
<1> QED BY <1>1, <1>2

LEMMA ResizeTouches ==
  ASSUME NetsAreWhole, net \in Nets, GoodTensors(tensors), GoodBuffers(buffers), NEW n \in Name,
         tensors[n].buffer \in {Null, Home(n)}, tensors[n].buffer = Null => Home(n) = Own(n),
         NEW s, NEW r, Resize(n, s, r) \/ ResizeImage(n, s, r)
  PROVE  /\ OnlyTouches(n)
         /\ r # "fatal" => tensors'[n].shape = s
         /\ r = "oom" => ~HasMemory(n)' /\ tensors'[n].buffer # Null
         /\ Linked /\ (\A m \in Name : tensors[m].buffer \in BufferId \cup {Null}) => ImagesKept
<1>1. \/ r = "fatal" /\ UNCHANGED <<tensors, buffers>>
      \/ \E b : /\ SetTo(n, s, b)
                /\ \/ b = tensors[n].buffer /\ UNCHANGED buffers /\ r # "oom"
                   \/ /\ \/ b = Own(n) /\ tensors[n].buffer = Null
                         \/ b = tensors[n].buffer /\ b # Null /\ ~HasImage(n)
                      /\ \E v : buffers' = [buffers EXCEPT ![b] = v] /\ (r = "oom" => ~v.mem)
  <2>1. CASE Resize(n, s, r)
    <3>1. \/ r = "fatal" /\ UNCHANGED <<tensors, buffers>>
          \/ SetTo(n, s, tensors[n].buffer) /\ UNCHANGED buffers /\ r = "ok"
          \/ \E b, got : /\ SetTo(n, s, b)
                         /\ \/ b = Own(n) /\ tensors[n].buffer = Null
                            \/ b = tensors[n].buffer /\ b # Null /\ ~HasImage(n)
                         /\ buffers' = [buffers EXCEPT ![b] = Allocated(buffers[b], Elements(s) + Pad, got)]
                         /\ r = IF got THEN "ok" ELSE "oom"
      BY <2>1 DEF Resize, SetTo
    <3>2. ASSUME NEW b, NEW got,
                 buffers' = [buffers EXCEPT ![b] = Allocated(buffers[b], Elements(s) + Pad, got)],
                 r = IF got THEN "ok" ELSE "oom"
          PROVE  \E v : buffers' = [buffers EXCEPT ![b] = v] /\ (r = "oom" => ~v.mem)
      <4>1. PICK v : v = Allocated(buffers[b], Elements(s) + Pad, got)
        OBVIOUS
      <4>2. v.mem = got
        BY <4>1 DEF Allocated
      <4> QED BY <3>2, <4>1, <4>2
    <3> QED BY <3>1, <3>2
  <2>2. CASE ResizeImage(n, s, r)
    <3>1. \/ r = "fatal" /\ UNCHANGED <<tensors, buffers>>
          \/ SetTo(n, s, tensors[n].buffer) /\ UNCHANGED buffers /\ r # "oom"
          \/ \E got \in Grant :
                /\ SetTo(n, s, Own(n)) /\ tensors[n].buffer = Null
                /\ buffers' = [buffers EXCEPT ![Own(n)] = AllocatedImage(buffers[Own(n)], ImageShape(s), got)]
                /\ r = IF got THEN "ok" ELSE "oom"
      BY <2>2 DEF ResizeImage, SetTo
    <3>2. ASSUME NEW b, NEW got,
                 buffers' = [buffers EXCEPT ![b] = AllocatedImage(buffers[b], ImageShape(s), got)],
                 r = IF got THEN "ok" ELSE "oom"
          PROVE  \E v : buffers' = [buffers EXCEPT ![b] = v] /\ (r = "oom" => ~v.mem)
      <4>1. PICK v : v = AllocatedImage(buffers[b], ImageShape(s), got)
        OBVIOUS
      <4>2. v.mem = got
        BY <4>1 DEF AllocatedImage
      <4> QED BY <3>2, <4>1, <4>2
    <3> QED BY <3>1, <3>2
  <2> QED BY <2>1, <2>2
<1>2. CASE r = "fatal" /\ UNCHANGED <<tensors, buffers>>
  BY <1>2 DEF OnlyTouches, ImagesKept, HasMemory
<1>3. ASSUME NEW b, SetTo(n, s, b), b = tensors[n].buffer, UNCHANGED buffers, r # "oom"
      PROVE  OnlyTouches(n) /\ tensors'[n].shape = s /\ ImagesKept
  BY <1>3, SetToFacts, SetToStates DEF OnlyTouches, ImagesKept, HasMemory
<1>4. ASSUME NEW b, SetTo(n, s, b),
             \/ b = Own(n) /\ tensors[n].buffer = Null
             \/ b = tensors[n].buffer /\ b # Null /\ ~HasImage(n),
             NEW v, buffers' = [buffers EXCEPT ![b] = v], r = "oom" => ~v.mem
      PROVE  /\ OnlyTouches(n) /\ tensors'[n].shape = s
             /\ r = "oom" => ~HasMemory(n)' /\ tensors'[n].buffer # Null
             /\ Linked /\ (\A m \in Name : tensors[m].buffer \in BufferId \cup {Null}) => ImagesKept
  <2>1. \A m \in Name : /\ tensors'[m].shape = (IF m = n THEN s ELSE tensors[m].shape)
                        /\ tensors'[m].buffer = (IF m = n THEN b ELSE tensors[m].buffer)
    BY <1>4, SetToFacts
  <2>2. \A m \in Name : tensors'[m].state = tensors[m].state
    BY <1>4, SetToStates
  <2>3. b = Home(n) /\ b \in BufferId /\ b # Null
    BY <1>4, Homes
  <2>4. \A c \in BufferId : buffers'[c] = IF c = b THEN v ELSE buffers[c]
    BY <1>4 DEF GoodBuffers
  <2>5. OnlyTouches(n)
    BY <2>1, <2>2, <2>3, <2>4 DEF OnlyTouches
  <2>6. r = "oom" => ~HasMemory(n)'
    BY <1>4, <2>1, <2>3, <2>4 DEF HasMemory
  <2>7. ASSUME Linked, \A m \in Name : tensors[m].buffer \in BufferId \cup {Null} PROVE ImagesKept
    <3> SUFFICES ASSUME NEW m \in Name, HasImage(m), HasMemory(m) PROVE HasMemory(m)'
      BY DEF ImagesKept
    <3>1. PICK c : c = tensors[m].buffer /\ c \in BufferId /\ c # Null
      BY <2>7 DEF HasImage
    <3>2. c # b
      BY <2>7, <2>3, <3>1, <1>4 DEF Linked, HasImage
    <3>3. m # n
      BY <1>4, <3>1, <3>2
    <3> QED BY <2>1, <2>4, <3>1, <3>2, <3>3 DEF HasMemory
  <2> QED BY <2>1, <2>3, <2>5, <2>6, <2>7
<1> QED BY <1>1, <1>2, <1>3, <1>4
-----------------------------------------------------------------------------
(* The shapes that the kernels go by, and the memory behind the arguments  *)
(* that the GPU's kernels keep: an image that is there stays there.        *)
Kept ==
  \A i \in DOMAIN Normal : args[i] # NoArgs =>
    /\ \A n \in Range(Normal[i].in) \cup {Normal[i].out} : HasMemory(n)
    /\ Normal[i].type = "AddN" =>
         (stage = "run" /\ at = i /\ step = "compute") \/ tensors[Normal[i].out].shape = args[i].shape

FitInv ==
  /\ AtOp /\ step = "compute" => tensors[op.out].shape = tensors[In(1)].shape
  /\ stage = "feed" /\ step = "compute" => todo # <<>> /\ tensors[Head(todo)].shape = shape
  /\ OnGPU /\ stage \in Late => Kept

(* What a step of an operator can be.                                      *)
Ends == stage' \notin Active

Progress ==
  /\ step' = "resize"
  /\ IF at < Len(Todo) THEN at' = at + 1 /\ stage' = stage
     ELSE at' = 1 /\ stage' = IF stage = "init" THEN "built" ELSE "copy"

Resizes ==
  /\ ~Aliasing(op.type) /\ step = "resize" /\ OnlyTouches(op.out) /\ UNCHANGED <<at, args>>
  /\ OnGPU /\ stage = "run" => ImagesKept
  /\ \/ stage' = stage /\ step' = "compute" /\ tensors'[op.out].shape = tensors[In(1)].shape
     \/ stage = "run" /\ stage' = "ready" /\ UNCHANGED step
        /\ ~buffers'[tensors'[op.out].buffer].mem

Computes ==
  /\ ~Aliasing(op.type) /\ step = "compute" /\ Progress
  /\ \A m \in Name : /\ tensors'[m].state = tensors[m].state
                     /\ tensors'[m].buffer = tensors[m].buffer /\ tensors'[m].shape = tensors[m].shape
  /\ \A n \in Range(op.in) \cup {op.out} : HasMemory(n)
  /\ buffers' = WithVal(tensors[op.out].buffer,
                        IF op.type \in {"AddN", "Activation"}
                        THEN <<op.type, Value(1), Value(2)>> ELSE Value(1))
  /\ IF OnGPU /\ op.type \in {"AddN", "Activation"}
     THEN args' = [args EXCEPT ![at] = Refs(op)] ELSE UNCHANGED args

Shares ==
  /\ Aliasing(op.type) /\ step = "resize" /\ Progress /\ UNCHANGED <<buffers, args>>
  /\ \A m \in Name : /\ tensors'[m].state = tensors[m].state
                     /\ m # op.out => tensors'[m].buffer = tensors[m].buffer /\ tensors'[m].shape = tensors[m].shape
  /\ tensors'[op.out].buffer = tensors[In(1)].buffer
  /\ tensors'[op.out].shape = IF op.type = "Reshape" THEN Flat(tensors[In(1)].shape)
                                                     ELSE tensors[In(1)].shape
  /\ OnGPU /\ stage = "run" => ImagesStay

LEMMA OperatesAt ==
  ASSUME NetsAreWhole, MemoryInv, ArgsInv, Operate
  PROVE  /\ AtOp /\ Still /\ net \in Nets /\ stage \in {"init", "run"} /\ stage \in Active
         /\ GoodTensors(tensors) /\ GoodBuffers(buffers)
         /\ \A m \in Name : tensors[m].buffer \in BufferId \cup {Null}
         /\ op.out \in Name /\ op.out \in Outs(net) /\ op.out \notin Consts(net)
         /\ op.in[1] \in Name /\ 1 \in DOMAIN op.in /\ In(1) = op.in[1]
         /\ \A n \in Range(op.in) \cup {op.out} : n \in Name
         /\ IF op.type \in {"AddN", "Activation", "Reshape"}
            THEN DOMAIN op.in = 1..2 /\ op.in = <<op.in[1], op.in[2]>> ELSE DOMAIN op.in = 1..1
         /\ op.type \in Types
         /\ Aliasing(op.type) <=> IsAlias(op.out)
         /\ stage = "init" => OnGPU /\ op.type = "BufferToImage" /\ In(1) \in Consts(net)
         /\ stage = "run" => at \in DOMAIN Normal /\ op = Normal[at] /\ Todo = Normal
<1>1. AtOp /\ Still /\ net \in Nets
  BY DEF Operate, ActivationResize, ActivationCPU, ActivationGPU, AddNResizeCPU, AddNCPU, AddNResizeGPU,
         AddNGPU, Identity, Reshape, BufferToImageResize, BufferToImage, ImageToBufferResize,
         ImageToBuffer, At, MemoryInv
<1>2. stage \in {"init", "run"} /\ stage \in Active
  BY <1>1, OpFacts, RunsActive
<1>3. /\ GoodTensors(tensors) /\ GoodBuffers(buffers)
      /\ \A m \in Name : tensors[m].buffer \in BufferId \cup {Null}
  BY <1>2 DEF MemoryInv, SoundTensor
<1>4. PICK j \in DOMAIN net.ops : op = net.ops[j] /\ net.ops[j].mode = Mode
  BY <1>1, OpFacts
<1>5. PICK o : o = net.ops[j]
  OBVIOUS
<1>6. /\ o.out \in Name /\ Range(o.in) \subseteq Name /\ 1 \in DOMAIN o.in
      /\ IF o.type \in {"AddN", "Activation", "Reshape"}
         THEN DOMAIN o.in = 1..2 ELSE DOMAIN o.in = 1..1
      /\ o.type \in Types
  BY <1>1, <1>4, <1>5, NetFacts
<1>7. o.type \in {"AddN", "Activation", "Reshape"} => o.in = <<o.in[1], o.in[2]>>
  <2>1. net.ops \in Seq(OpType)
    BY <1>1, EngineAssumption DEF IsNet
  <2>2. o \in OpType
    BY <1>4, <1>5, <2>1
  <2>3. o.in \in Seq(Name)
    BY <2>2 DEF OpType
  <2>4. ASSUME NEW q \in Seq(Name), DOMAIN q = 1..2 PROVE q = <<q[1], q[2]>>
    BY <2>4
  <2> QED BY <1>6, <2>3, <2>4
<1>8. o.out \in Outs(net) /\ o.out \notin Consts(net)
  BY <1>5 DEF Outs, Consts
<1>9. o.in[1] \in Name /\ In(1) = o.in[1]
  BY <1>4, <1>5, <1>6 DEF Range, In
<1>10. Aliasing(op.type) <=> IsAlias(op.out)
  BY <1>1, OpFacts
<1>11. ASSUME stage = "init" PROVE OnGPU /\ op.type = "BufferToImage" /\ In(1) \in Consts(net)
  BY <1>4, <1>5, <1>11, <1>1, InitConverts DEF Mode, Range, NetsAreWhole, ResultsStay, OnGPU, NetsAreGood
<1>12. stage = "run" => at \in DOMAIN Normal /\ op = Normal[at] /\ Todo = Normal
  BY <1>1 DEF AtOp, op, Todo, Normal
<1> QED BY <1>1, <1>2, <1>3, <1>4, <1>5, <1>6, <1>8, <1>9, <1>10, <1>11, <1>12, <1>7

LEMMA AdvanceIs ==
  ASSUME NEW a, Advance(a)
  PROVE  Ends \/ (Progress /\ args' = a)
BY DEF Advance, Die, Ends, Progress, Active, Early, Late

LEMMA ResizedIs ==
  ASSUME NEW r, Resized(r), stage \in {"init", "run"}
  PROVE  \/ Ends
         \/ UNCHANGED <<at, args>> /\ stage' = stage /\ step' = "compute" /\ r = "ok"
         \/ UNCHANGED <<at, args, step>> /\ stage = "run" /\ stage' = "ready" /\ r = "oom"
BY DEF Resized, Return, Die, Ends, Active, Early, Late, control

(* What the kernel of an operator with two inputs was told, and makes.     *)
LEMMA Joined ==
  ASSUME NEW a, NEW b, NEW c
  PROVE  <<a>> \o <<b, c>> = <<a, b, c>> /\ <<a, b>> \o <<c>> = <<a, b, c>>
<1>1. ASSUME NEW S, NEW s \in Seq(S), NEW t \in Seq(S), Len(s) + Len(t) = 3
      PROVE  s \o t = [i \in 1..3 |-> (s \o t)[i]]
  <2>1. s \o t \in Seq(S) /\ Len(s \o t) = 3
    BY <1>1, ConcatProperties
  <2>2. \A q \in Seq(S) : q = [i \in 1..Len(q) |-> q[i]]
    OBVIOUS
  <2> QED BY <2>1, <2>2
<1>2. PICK S : S = {a, b, c}
  OBVIOUS
<1>3. PICK s1, s2, t1, t2 : s1 = <<a>> /\ s2 = <<a, b>> /\ t1 = <<c>> /\ t2 = <<b, c>>
  OBVIOUS
<1>4. /\ s1 \in Seq(S) /\ s2 \in Seq(S) /\ t1 \in Seq(S) /\ t2 \in Seq(S)
      /\ Len(s1) + Len(t2) = 3 /\ Len(s2) + Len(t1) = 3
  BY <1>2, <1>3
<1>5. s1 \o t2 = [i \in 1..3 |-> (s1 \o t2)[i]] /\ s2 \o t1 = [i \in 1..3 |-> (s2 \o t1)[i]]
  BY <1>1, <1>4
<1>6. (s1 \o t2)[1] = a /\ (s1 \o t2)[2] = b /\ (s1 \o t2)[3] = c
  BY <1>3, <1>4
<1>7. (s2 \o t1)[1] = a /\ (s2 \o t1)[2] = b /\ (s2 \o t1)[3] = c
  BY <1>3, <1>4
<1>8. s1 \o t2 = <<a, b, c>>
  BY <1>5, <1>6
<1>9. s2 \o t1 = <<a, b, c>>
  BY <1>5, <1>7
<1> QED BY <1>3, <1>8, <1>9

LEMMA RefsAre ==
  ASSUME NEW o, DOMAIN o.in = 1..2
  PROVE  /\ Refs(o).refs = <<Ref(o.in[1]), Ref(o.in[2]), Ref(o.out)>>
         /\ Refs(o).shape = tensors[o.in[1]].shape
<1>1. PICK f : f = [k \in DOMAIN o.in |-> Ref(o.in[k])]
  OBVIOUS
<1>2. PICK a, b, c : a = Ref(o.in[1]) /\ b = Ref(o.in[2]) /\ c = Ref(o.out)
  OBVIOUS
<1>3. f = <<a, b>>
  BY <1>1, <1>2
<1>4. f \o <<c>> = <<a, b, c>>
  BY <1>3, Joined
<1>5. Refs(o).refs = f \o <<c>>
  BY <1>1, <1>2 DEF Refs
<1> QED BY <1>2, <1>4, <1>5 DEF Refs

(* A kernel of the GPU that is enqueued computes from its inputs' memory.  *)
LEMMA ComputeIs ==
  ASSUME NetsAreWhole, MemoryInv, ArgsInv, FitInv, Operate, OnGPU, step = "compute",
         op.type \in {"AddN", "Activation"}, UNCHANGED tensors, Compute(SameShapeAsArgs)
  PROVE  Ends \/ Computes
<1> USE OperatesAt
<1>1. stage = "run" /\ DOMAIN op.in = 1..2 /\ at \in DOMAIN Normal /\ op = Normal[at]
  OBVIOUS
<1>2. Running
  BY <1>1 DEF Running, Still
<1>3. CASE ~SameShapeAsArgs /\ ~ImagesThere
  BY <1>3 DEF Compute, Die, Ends, Active, Early, Late
<1>4. CASE ~(~SameShapeAsArgs /\ ~ImagesThere)
  <2>1. PICK a : a = (IF SameShapeAsArgs THEN args[at] ELSE Refs(op))
    OBVIOUS
  <2>2. PICK out : out = a.refs[Len(a.refs)]
    OBVIOUS
  <2>3. /\ buffers' = IF buffers[out[1]].gen = out[2]
                      THEN WithVal(out[1], Term([k \in DOMAIN op.in |-> Read(a.refs[k])]))
                      ELSE buffers
        /\ Advance([args EXCEPT ![at] = a])
    BY <1>4, <2>1, <2>2 DEF Compute
  <2>4. a = Refs(op) /\ \A n \in Range(op.in) \cup {op.out} : HasMemory(n)
    <3>1. CASE SameShapeAsArgs
      <4>1. args[at].shape = tensors[op.in[1]].shape /\ a = args[at]
        BY <2>1, <3>1 DEF SameShapeAsArgs, In
      <4>2. Shaped(op.in[1])
        BY <1>1, <1>2, RunFacts, FirstIsShaped DEF NetsAreWhole
      <4>3. a # NoArgs
        BY <4>1, <4>2 DEF NoArgs, Shaped
      <4>4. Told(op, a)
        BY <1>1, <1>2, <4>1, <4>3, RunFacts DEF ToldTruth, Normal
      <4>5. a = [shape |-> tensors[op.in[1]].shape, refs |-> Refs(op).refs]
        BY <4>1, <4>4 DEF Told
      <4>6. Refs(op) = [shape |-> tensors[op.in[1]].shape, refs |-> Refs(op).refs]
        BY DEF Refs
      <4>7. \A n \in Range(op.in) \cup {op.out} : HasMemory(n)
        BY <1>1, <4>1, <4>3 DEF FitInv, Kept, Late
      <4> QED BY <4>5, <4>6, <4>7
    <3>2. CASE ~SameShapeAsArgs
      BY <1>4, <2>1, <3>2 DEF ImagesThere
    <3> QED BY <3>1, <3>2
  <2>5. a.refs = <<Ref(op.in[1]), Ref(op.in[2]), Ref(op.out)>>
    BY <1>1, <2>4, RefsAre
  <2>6. out = Ref(op.out) /\ a.refs[1] = Ref(op.in[1]) /\ a.refs[2] = Ref(op.in[2])
    BY <2>2, <2>5
  <2>7. \A n : Ref(n)[1] = tensors[n].buffer /\ Ref(n)[2] = buffers[tensors[n].buffer].gen
    BY DEF Ref
  <2>8. Read(a.refs[1]) = Value(1) /\ Read(a.refs[2]) = Value(2)
    BY <2>6, <2>7 DEF Read, Value, In
  <2>9. [k \in DOMAIN op.in |-> Read(a.refs[k])] = <<Value(1), Value(2)>>
    BY <1>1, <2>8
  <2>10. Term(<<Value(1), Value(2)>>) = <<op.type, Value(1), Value(2)>>
    BY Joined DEF Term
  <2>11. buffers' = WithVal(tensors[op.out].buffer, <<op.type, Value(1), Value(2)>>)
    BY <2>3, <2>6, <2>7, <2>9, <2>10
  <2>12. Ends \/ (Progress /\ args' = [args EXCEPT ![at] = a])
    BY <2>3, AdvanceIs
  <2> QED BY <2>4, <2>11, <2>12 DEF Computes, Aliasing
<1> QED BY <1>3, <1>4

(* An output's memory is made, or made anew, at home.                      *)
LEMMA ResizeIs ==
  ASSUME NetsAreWhole, MemoryInv, ArgsInv, HomeInv, Operate, ~Aliasing(op.type), step = "resize", NEW r,
         \/ Resize(op.out, tensors[In(1)].shape, r)
         \/ ResizeImage(op.out, tensors[In(1)].shape, r),
         Resized(r)
  PROVE  Ends \/ Resizes
<1> USE OperatesAt
<1>1. PICK n, s : n = op.out /\ s = tensors[In(1)].shape /\ n \in Name
  OBVIOUS
<1>2. ~IsAlias(n) /\ Root(net)[n] = n
  BY <1>1, Roots
<1>3. tensors[n].buffer \in {Null, Home(n)}
  BY <1>1, <1>2 DEF HomeInv, HomeOf
<1>4. tensors[n].buffer = Null => Home(n) = Own(n)
  BY <1>1 DEF Settled, Late, HomeInv, Home
<1>5. /\ OnlyTouches(n)
      /\ r # "fatal" => tensors'[n].shape = s
      /\ r = "oom" => ~HasMemory(n)' /\ tensors'[n].buffer # Null
      /\ Linked /\ (\A m \in Name : tensors[m].buffer \in BufferId \cup {Null}) => ImagesKept
  BY <1>1, <1>3, <1>4, ResizeTouches
<1>6. OnGPU /\ stage = "run" => ImagesKept
  BY <1>5 DEF ArgsInv, Late
<1>7. \/ Ends
      \/ UNCHANGED <<at, args>> /\ stage' = stage /\ step' = "compute" /\ r = "ok"
      \/ UNCHANGED <<at, args, step>> /\ stage = "run" /\ stage' = "ready" /\ r = "oom"
  BY ResizedIs
<1>8. r = "oom" => ~buffers'[tensors'[n].buffer].mem
  BY <1>5 DEF HasMemory
<1> QED BY <1>1, <1>5, <1>6, <1>7, <1>8 DEF Resizes

(* The output of an AddN on the GPU whose inputs' shape has not changed.   *)
LEMMA KeepIs ==
  ASSUME NetsAreWhole, MemoryInv, ArgsInv, HomeInv, FitInv, Operate, OnGPU, op.type = "AddN",
         step = "resize", SameShapeAsArgs, UNCHANGED <<tensors, buffers>>, Resized("ok")
  PROVE  Resizes
<1> USE OperatesAt
<1>1. stage = "run" /\ at \in DOMAIN Normal /\ op = Normal[at]
  OBVIOUS
<1>2. Running
  BY <1>1 DEF Running, Still
<1>3. Shaped(op.in[1])
  BY <1>1, <1>2, RunFacts, FirstIsShaped DEF NetsAreWhole
<1>4. args[at].shape = tensors[op.in[1]].shape
  BY DEF SameShapeAsArgs, In
<1>5. args[at] # NoArgs
  BY <1>3, <1>4 DEF NoArgs, Shaped
<1>6. tensors[op.out].shape = args[at].shape
  BY <1>1, <1>5 DEF FitInv, Kept, Late
<1>7. UNCHANGED <<stage, at, args>> /\ step' = "compute"
  BY DEF Resized
<1>8. OnlyTouches(op.out) /\ ImagesKept
  BY DEF OnlyTouches, ImagesKept, HasMemory
<1> QED BY <1>4, <1>6, <1>7, <1>8 DEF Resizes, Aliasing

(* An alias gets its input's memory, and a shape.                          *)
LEMMA AliasedIs ==
  ASSUME GoodTensors(tensors), NEW n \in Name, NEW m \in Name, IsAlias(n), SoundTensor(n), NEW s,
         \/ tensors' = Aliased(n, m) /\ s = tensors[m].shape
         \/ tensors' = [Aliased(n, m) EXCEPT ![n].shape = s],
         buffers' = WithoutOwn(n)
  PROVE  /\ UNCHANGED buffers
         /\ \A k \in Name : k # n => tensors'[k] = tensors[k]
         /\ tensors'[n].buffer = tensors[m].buffer /\ tensors'[n].shape = s
         /\ tensors'[n].state = tensors[n].state
<1>1. UNCHANGED buffers
  BY DEF WithoutOwn, SoundTensor
<1>2. PICK t, b : t = tensors[n] /\ b = tensors[m].buffer /\ IsTensor(t)
  BY DEF GoodTensors
<1>3. PICK u : u = [[[t EXCEPT !.buffer = b] EXCEPT !.owner = FALSE] EXCEPT !.shape = tensors[m].shape]
  OBVIOUS
<1>4. IsTensor(u) /\ u.buffer = b /\ u.shape = tensors[m].shape /\ u.state = t.state
  BY <1>2, <1>3 DEF IsTensor, Fields
<1>5. Aliased(n, m) = [tensors EXCEPT ![n] = u]
  BY <1>2, <1>3 DEF Aliased, GoodTensors
<1>6. PICK v : v = [u EXCEPT !.shape = s]
  OBVIOUS
<1>7. v.buffer = b /\ v.shape = s /\ v.state = t.state
  BY <1>4, <1>6 DEF IsTensor, Fields
<1>8. [Aliased(n, m) EXCEPT ![n].shape = s] = [tensors EXCEPT ![n] = v]
  BY <1>5, <1>6 DEF GoodTensors
<1>9. PICK w \in {u, v} : tensors' = [tensors EXCEPT ![n] = w] /\ w.shape = s
  BY <1>4, <1>5, <1>7, <1>8
<1>10. (\A k \in Name : k # n => tensors'[k] = tensors[k]) /\ tensors'[n] = w
  BY <1>9 DEF GoodTensors
<1> QED BY <1>1, <1>2, <1>4, <1>7, <1>9, <1>10

LEMMA SharesIs ==
  ASSUME NetsAreWhole, MemoryInv, ArgsInv, HomeInv, Operate, Aliasing(op.type), step = "resize", NEW s,
         s = (IF op.type = "Reshape" THEN Flat(tensors[In(1)].shape) ELSE tensors[In(1)].shape),
         \/ tensors' = Aliased(op.out, In(1)) /\ s = tensors[In(1)].shape
         \/ tensors' = [Aliased(op.out, In(1)) EXCEPT ![op.out].shape = s],
         buffers' = WithoutOwn(op.out), Progress, UNCHANGED args
  PROVE  Shares
<1> USE OperatesAt
<1>1. PICK n, m : n = op.out /\ m = In(1) /\ n \in Name /\ m \in Name
  OBVIOUS
<1>2. IsAlias(n) /\ SoundTensor(n) /\ UNCHANGED net
  BY <1>1 DEF MemoryInv, Still
<1>3. /\ UNCHANGED buffers
      /\ \A k \in Name : k # n => tensors'[k] = tensors[k]
      /\ tensors'[n].buffer = tensors[m].buffer /\ tensors'[n].shape = s
      /\ tensors'[n].state = tensors[n].state
  BY <1>1, <1>2, AliasedIs
<1>4. ASSUME OnGPU, stage = "run" PROVE ImagesStay
  <2>1. PICK j \in DOMAIN net.ops : op = net.ops[j]
    BY OpFacts
  <2>2. n = net.ops[j].out /\ m = net.ops[j].in[1] /\ Aliasing(net.ops[j].type)
    BY <1>1, <2>1
  <2>3. Linked
    BY <1>4 DEF ArgsInv, Late
  <2>4. \/ tensors' = Aliased(n, m)
        \/ tensors' = [Aliased(n, m) EXCEPT ![n].shape = s]
    BY <1>1
  <2>5. buffers' = WithoutOwn(n)
    BY <1>1
  <2> QED BY <1>1, <1>2, <2>2, <2>3, <2>4, <2>5, AliasedEffects
<1> QED BY <1>1, <1>3, <1>4 DEF Shares

(* A kernel that stores a value.                                           *)
LEMMA StoresIs ==
  ASSUME NetsAreWhole, MemoryInv, ArgsInv, Operate, ~Aliasing(op.type), step = "compute",
         \A m \in Name : /\ tensors'[m].state = tensors[m].state
                         /\ tensors'[m].buffer = tensors[m].buffer /\ tensors'[m].shape = tensors[m].shape,
         \A n \in Range(op.in) \cup {op.out} : HasMemory(n),
         buffers' = WithVal(tensors[op.out].buffer,
                            IF op.type \in {"AddN", "Activation"}
                            THEN <<op.type, Value(1), Value(2)>> ELSE Value(1)),
         Advance(args), op.type \in {"AddN", "Activation"} => ~OnGPU
  PROVE  Ends \/ Computes
BY AdvanceIs DEF Computes

LEMMA OneInput ==
  ASSUME NEW o, DOMAIN o.in = 1..1
  PROVE  Range(o.in) = {o.in[1]}
BY DEF Range

LEMMA TwoInputs ==
  ASSUME NEW o, DOMAIN o.in = 1..2
  PROVE  Range(o.in) = {o.in[1], o.in[2]}
BY DEF Range

LEMMA OperateSteps ==
  ASSUME NetsAreWhole, MemoryInv, ArgsInv, HomeInv, FitInv, Operate
  PROVE  Ends \/ Resizes \/ Computes \/ Shares
<1> USE OperatesAt
<1>1. Die => Ends
  BY DEF Die, Ends, Active, Early, Late
<1>2. CASE ActivationResize \/ AddNResizeCPU \/ BufferToImageResize \/ ImageToBufferResize
  BY <1>2, <1>1, ResizeIs DEF ActivationResize, AddNResizeCPU, BufferToImageResize, ImageToBufferResize, At,
     Aliasing, ResizeLike
<1>3. CASE AddNResizeGPU
  BY <1>3, <1>1, KeepIs, ResizeIs DEF AddNResizeGPU, At, Aliasing, OnGPU
<1>4. CASE ActivationGPU \/ AddNGPU
  BY <1>4, ComputeIs DEF ActivationGPU, AddNGPU, At, OnGPU
<1>5. CASE ActivationCPU \/ AddNCPU
  <2>1. /\ step = "compute" /\ op.type \in {"AddN", "Activation"} /\ ~OnGPU /\ UNCHANGED tensors
        /\ \/ Die
           \/ /\ \/ \A n \in Range(op.in) \cup {op.out} : HasMemory(n)
                 \/ MapsTogether(<<op.out>> \o op.in)
              /\ buffers' = WithVal(tensors[op.out].buffer, Term(<<Value(1), Value(2)>>))
              /\ Advance(args)
    BY <1>5 DEF ActivationCPU, AddNCPU, At, OnGPU
  <2>2. op.in = <<op.in[1], op.in[2]>> /\ Range(op.in) = {op.in[1], op.in[2]}
    BY <2>1, TwoInputs
  <2>3. ASSUME MapsTogether(<<op.out>> \o op.in)
        PROVE  \A n \in Range(op.in) \cup {op.out} : HasMemory(n)
    <3>1. PICK ns, a, b, c : a = op.out /\ b = op.in[1] /\ c = op.in[2] /\ ns = <<a, b, c>>
      OBVIOUS
    <3>2. ns = <<op.out>> \o op.in
      <4>1. PICK p : p = op.in /\ p = <<b, c>>
        BY <2>2, <3>1
      <4>2. <<a>> \o <<b, c>> = <<a, b, c>>
        BY Joined
      <4> QED BY <3>1, <4>1, <4>2
    <3>3. MapsTogether(ns)
      BY <2>3, <3>2
    <3>4. \A i \in DOMAIN ns : tensors[ns[i]].buffer # Null /\ buffers[tensors[ns[i]].buffer].mem
      BY <3>3 DEF MapsTogether
    <3>5. HasMemory(a) /\ HasMemory(b) /\ HasMemory(c)
      BY <3>1, <3>4 DEF HasMemory
    <3> QED BY <2>2, <3>1, <3>5
  <2>4. Term(<<Value(1), Value(2)>>) = <<op.type, Value(1), Value(2)>>
    BY Joined DEF Term
  <2> QED BY <1>1, <2>1, <2>3, <2>4, StoresIs DEF Aliasing
<1>6. CASE BufferToImage \/ ImageToBuffer
  <2>1. /\ step = "compute" /\ op.type \in {"BufferToImage", "ImageToBuffer"}
        /\ \/ Die
           \/ /\ UNCHANGED tensors \/ tensors' = MarkedUnused
              /\ HasMemory(In(1)) /\ HasMemory(op.out)
              /\ buffers' = WithVal(tensors[op.out].buffer, Value(1))
              /\ Advance(args)
    BY <1>6 DEF BufferToImage, ImageToBuffer, At
  <2>2. CASE ~Die
    <3>1. Range(op.in) = {In(1)}
      BY <2>1, OneInput
    <3>2. ASSUME NEW m \in Name
          PROVE  /\ tensors'[m].state = tensors[m].state
                 /\ tensors'[m].buffer = tensors[m].buffer /\ tensors'[m].shape = tensors[m].shape
      <4>1. CASE UNCHANGED tensors
        BY <4>1
      <4>2. CASE tensors' = MarkedUnused
        BY <4>2, MarkedSteps, MarkedEffects DEF TensorStep, NetsAreWhole, NetsAreGood
      <4> QED BY <2>1, <2>2, <4>1, <4>2
    <3> QED BY <2>1, <2>2, <3>1, <3>2, StoresIs DEF Aliasing
  <2> QED BY <1>1, <2>2
<1>7. CASE Identity
  BY <1>7, AdvanceIs, SharesIs DEF Identity, At, Aliasing
<1>8. CASE Reshape
  BY <1>8, AdvanceIs, <1>1, SharesIs DEF Reshape, At, Aliasing
<1> QED BY <1>2, <1>3, <1>4, <1>5, <1>6, <1>7, <1>8 DEF Operate
-----------------------------------------------------------------------------
(* What a step of Init can be: the weights come home, and the arena; then  *)
(* the tensors that are not there yet are made.                            *)
Loads ==
  /\ stage = "load" /\ stage' = "pool" /\ UNCHANGED <<step, at>>
  /\ \A m \in Name :
       IF m \in Consts(net)
       THEN /\ tensors'[m].buffer = Home(m) /\ tensors'[m].shape = WeightShape
            /\ buffers'[Home(m)].val = Const(m)
       ELSE tensors'[m] = tensors[m]

Plans ==
  /\ stage = "pool" /\ stage' = "create" /\ UNCHANGED <<step, at>>
  /\ \A r \in Name : IF InPool(r) THEN tensors'[r].buffer = Home(r) /\ tensors'[r].state = "live"
                                   ELSE tensors'[r] = tensors[r]
  /\ \A b \in BufferId : b.of # "pool" => buffers'[b] = buffers[b]

Builds ==
  /\ \/ stage = "create" /\ stage' \in {"init", "built"} /\ (stage' = "built" => Ops(net, "INIT") = <<>>)
     \/ stage = "built" /\ stage' = "ready" /\ args' = [i \in DOMAIN Normal |-> NoArgs]
  /\ UNCHANGED <<step, at>>
  /\ \A m \in Name :
       /\ tensors'[m].buffer \in {Null, tensors[m].buffer}
       /\ tensors'[m].buffer # Null => tensors'[m].shape = tensors[m].shape
       /\ tensors[m].state = "live" => tensors'[m].buffer = tensors[m].buffer
       /\ InPool(m) /\ tensors[m].state = "live" => tensors'[m].state = "live"
  /\ \A b \in BufferId : /\ buffers'[b].val = buffers[b].val /\ buffers'[b].mem = buffers[b].mem
                         /\ buffers'[b].state = "live" => buffers[b].state = "live"

LEMMA DieEnds == (Die => Ends) /\ (stage \notin Late /\ Refused => Ends)
BY DEF Die, Refused, Return, Ends, Active, Early, Late

LEMMA LoadIs ==
  ASSUME NetsAreWhole, MemoryInv, LoadModel \/ LoadBigModel
  PROVE  Ends \/ Loads
<1>1. net \in Nets /\ stage \notin Late /\ stage = "load"
  BY DEF MemoryInv, LoadModel, LoadBigModel, Late
<1>2. \A m \in Consts(net) : m \in Name /\ ~InPool(m) /\ Own(m) \in BufferId /\ Slice(m) \in BufferId
  <2> SUFFICES ASSUME NEW m \in Consts(net) PROVE m \in Name /\ ~InPool(m)
    BY Ids, ConstsAreNames, <1>1
  <2>1. m \in Name /\ m \notin Outs(net)
    BY <1>1, ConstsAreNames DEF Consts
  <2> QED BY <1>1, <2>1, Homes
<1>3. ASSUME NEW b, NEW s, NEW g, NEW v PROVE [Allocated(b, s, g) EXCEPT !.val = v].val = v
  BY DEF Allocated
<1>4. CASE LoadModel
  <2>1. CASE Refused
    BY <1>1, <2>1, DieEnds
  <2>2. CASE ~Refused
    <3>1. /\ Slices /\ stage' = "pool" /\ UNCHANGED <<step, at>>
          /\ tensors' = [n \in Name |-> IF n \in Consts(net)
                                        THEN TensorOn(Slice(n), WeightShape) ELSE tensors[n]]
      BY <1>4, <2>2 DEF LoadModel, Goto, control
    <3>2. /\ buffers' = [b \in BufferId |->
                 CASE b = Weights -> Allocated(buffers[b], Cardinality(Consts(net)), TRUE)
                   [] b.of = "slice" /\ b.id \in Consts(net)
                        -> [Allocated(buffers[b], Elements(WeightShape), TRUE)
                              EXCEPT !.val = Const(b.id)]
                   [] OTHER -> buffers[b]]
      BY <1>4, <2>2 DEF LoadModel
    <3>3. ASSUME NEW m \in Consts(net)
          PROVE  /\ tensors'[m].buffer = Home(m) /\ tensors'[m].shape = WeightShape
                 /\ buffers'[Home(m)].val = Const(m)
      <4>1. Home(m) = Slice(m)
        BY <1>2, <3>1 DEF Home
      <4>2. PICK b \in BufferId : b = Slice(m) /\ b.of = "slice" /\ b.id = m /\ b # Weights
        BY <1>2, Ids
      <4>3. buffers'[b] = [Allocated(buffers[b], Elements(WeightShape), TRUE) EXCEPT !.val = Const(m)]
        BY <3>2, <4>2
      <4>4. buffers'[b].val = Const(m)
        BY <1>3, <4>3
      <4>5. tensors'[m] = TensorOn(Slice(m), WeightShape)
        BY <1>2, <3>1
      <4>6. TensorOn(Slice(m), WeightShape).buffer = Slice(m) /\ TensorOn(Slice(m), WeightShape).shape = WeightShape
        BY DEF TensorOn, NoTensor
      <4> QED BY <4>1, <4>2, <4>4, <4>5, <4>6
    <3> QED BY <1>1, <3>1, <3>3 DEF Loads
  <2> QED BY <2>1, <2>2
<1>5. CASE LoadBigModel
  <2>1. CASE Die
    BY <2>1, DieEnds
  <2>2. CASE ~Die
    <3>1. PICK got :
            /\ buffers' = [b \in BufferId |->
                 IF b.of = "tensor" /\ b.id \in Consts(net)
                 THEN [Allocated(buffers[b], Elements(WeightShape) + Pad, got[b.id])
                         EXCEPT !.val = Const(b.id)]
                 ELSE buffers[b]]
            /\ tensors' = [n \in Name |->
                 IF n \in Consts(net)
                 THEN [NewTensor EXCEPT !.buffer = Own(n), !.shape = WeightShape]
                 ELSE tensors[n]]
            /\ ~Slices /\ stage' = "pool" /\ UNCHANGED <<step, at>>
      BY <1>5, <2>2 DEF LoadBigModel, Goto, control
    <3>2. ASSUME NEW m \in Consts(net)
          PROVE  /\ tensors'[m].buffer = Home(m) /\ tensors'[m].shape = WeightShape
                 /\ buffers'[Home(m)].val = Const(m)
      <4>1. Home(m) = Own(m)
        BY <1>2, <3>1 DEF Home
      <4>2. PICK b \in BufferId : b = Own(m) /\ b.of = "tensor" /\ b.id = m
        BY <1>2, Ids
      <4>3. buffers'[b] = [Allocated(buffers[b], Elements(WeightShape) + Pad, got[m]) EXCEPT !.val = Const(m)]
        BY <3>1, <4>2
      <4>4. buffers'[b].val = Const(m)
        BY <1>3, <4>3
      <4>5. PICK t : t = [NewTensor EXCEPT !.buffer = b, !.shape = WeightShape]
        OBVIOUS
      <4>6. t.buffer = b /\ t.shape = WeightShape
        BY <4>5 DEF NewTensor, NoTensor
      <4>7. tensors'[m] = t
        BY <1>2, <3>1, <4>2, <4>5
      <4> QED BY <4>1, <4>2, <4>4, <4>6, <4>7
    <3> QED BY <1>1, <3>1, <3>2 DEF Loads
  <2> QED BY <2>1, <2>2
<1> QED BY <1>4, <1>5

LEMMA PlanIs ==
  ASSUME NetsAreWhole, MemoryInv, CreateOutputTensorBuffer
  PROVE  Ends \/ Plans
<1>1. net \in Nets /\ stage = "pool" /\ stage \notin Late
  BY DEF MemoryInv, CreateOutputTensorBuffer, Late
<1>2. CASE Refused
  BY <1>1, <1>2, DieEnds
<1>3. CASE ~Refused
  <2>1. /\ buffers' = [b \in BufferId |->
                 IF b.of = "pool" /\ b.id \in Arena(net)
                 THEN IF OnGPU
                      THEN AllocatedImage(buffers[b], ImageShape(net.plan), TRUE)
                      ELSE Allocated(buffers[b], Elements(net.plan) + Pad, TRUE)
                 ELSE buffers[b]]
        /\ tensors' = [n \in Name |->
                 IF \E i \in Pooled(net) : net.ops[i].out = n
                 THEN LET i == CHOOSE i \in Pooled(net) : net.ops[i].out = n
                      IN TensorOn(Pool(net.ops[i].mem), NoShape)
                 ELSE tensors[n]]
        /\ stage' = "create" /\ UNCHANGED <<step, at>>
    BY <1>3 DEF CreateOutputTensorBuffer, Goto, control
  <2>2. ASSUME NEW r \in Name, InPool(r)
        PROVE  tensors'[r].buffer = Home(r) /\ tensors'[r].state = "live"
    <3>1. \E i \in Pooled(net) : net.ops[i].out = r
      BY <1>1, <2>2, PoolIsPool
    <3>2. PICK i \in Pooled(net) : net.ops[i].out = r /\ tensors'[r] = TensorOn(Pool(net.ops[i].mem), NoShape)
      BY <2>1, <3>1
    <3>3. Maker(net, r) = net.ops[i]
      BY <1>1, <3>2, NetFacts DEF Range, Pooled, Maker
    <3>4. Home(r) = Pool(net.ops[i].mem)
      BY <2>2, <3>3 DEF Home
    <3> QED BY <3>2, <3>4, NewTensors
  <2>3. ASSUME NEW r \in Name, ~InPool(r) PROVE tensors'[r] = tensors[r]
    BY <1>1, <2>1, <2>3, PoolIsPool
  <2> QED BY <1>1, <2>1, <2>2, <2>3 DEF Plans
<1> QED BY <1>2, <1>3

LEMMA FreedKeeps ==
  ASSUME NEW bs, GoodBuffers(bs), NEW which, NEW b \in BufferId
  PROVE  /\ Freed(bs, which)[b].val = bs[b].val /\ Freed(bs, which)[b].mem = bs[b].mem
         /\ Freed(bs, which)[b].state = "live" => bs[b].state = "live"
<1>1. PICK u : u = bs[b] /\ IsBuffer(u)
  BY DEF GoodBuffers
<1>2. PICK w : w = [u EXCEPT !.state = "freed"]
  OBVIOUS
<1>3. w.val = u.val /\ w.mem = u.mem /\ w.state = "freed"
  BY <1>1, <1>2 DEF IsBuffer, BufferFields
<1>4. Freed(bs, which)[b] \in {u, w}
  BY <1>1, <1>2 DEF Freed
<1> QED BY <1>1, <1>3, <1>4

(* A tensor that is there is left as it is.                                *)
LEMMA WithOutputsIs ==
  ASSUME NEW ops, NEW m \in Name
  PROVE  LET t == WithOutputs(ops)[m] IN
         /\ t.buffer \in {Null, tensors[m].buffer} /\ (t.buffer # Null => t.shape = tensors[m].shape)
         /\ tensors[m].state = "live" => t = tensors[m]
BY NewTensors DEF WithOutputs

LEMMA BuildIs ==
  ASSUME NetsAreWhole, MemoryInv, CreateInitNet \/ CreateNormalNet
  PROVE  Ends \/ Builds
<1>1. net \in Nets /\ stage \in Early /\ stage \in Active /\ GoodTensors(tensors) /\ GoodBuffers(buffers)
  BY DEF MemoryInv, CreateInitNet, CreateNormalNet, Early, Active
<1>2. CASE CreateInitNet /\ ~Die
  <2>1. PICK ops : tensors' = WithOutputs(ops) /\ UNCHANGED <<buffers, step, at>>
                     /\ stage = "create" /\ stage' \in {"built", "init"}
                     /\ (stage' = "built" => Ops(net, "INIT") = <<>>)
    BY <1>2 DEF CreateInitNet, Goto, control
  <2> QED BY <2>1, WithOutputsIs DEF Builds
<1>3. CASE CreateNormalNet /\ ~Die
  <2> DEFINE os == Normal
             us == WithOutputs(os)
             go == {n \in Name : us[n].state = "live" /\ us[n].unused}
             wh == {Weights} \cup {Own(n) : n \in {m \in go : us[m].owner}}
  <2>1. /\ stage = "built" /\ stage' = "ready" /\ UNCHANGED <<step, at>>
        /\ args' = [i \in DOMAIN Normal |-> NoArgs]
        /\ \/ ~OnGPU /\ tensors' = us /\ UNCHANGED buffers
           \/ /\ OnGPU /\ buffers' = Freed(buffers, wh)
              /\ tensors' = [n \in Name |->
                     IF n \in go THEN [us[n] EXCEPT !.state = "erased"] ELSE us[n]]
    BY <1>3 DEF CreateNormalNet, Normal
  <2> HIDE DEF os, us, go, wh
  <2>2. us = WithOutputs(os) /\ go = {n \in Name : us[n].state = "live" /\ us[n].unused}
    BY DEF us, go
  <2>3. CASE ~OnGPU
    BY <2>1, <2>2, <2>3, WithOutputsIs DEF Builds
  <2>4. CASE OnGPU
    <3>1. ASSUME NEW m \in Name
          PROVE  /\ tensors'[m].buffer = us[m].buffer /\ tensors'[m].shape = us[m].shape
                 /\ m \notin go => tensors'[m] = us[m]
      <4>1. PICK t, u : t = us[m] /\ u = [t EXCEPT !.state = "erased"]
        OBVIOUS
      <4>2. t \in {tensors[m], NewTensor}
        BY <2>1, <2>2, <4>1 DEF WithOutputs
      <4>3. IsTensor(t)
        BY <1>1, <4>2 DEF GoodTensors, IsTensor, Fields, NewTensor, NoTensor
      <4>4. u.buffer = t.buffer /\ u.shape = t.shape
        BY <4>1, <4>3 DEF IsTensor, Fields
      <4>5. tensors'[m] = IF m \in go THEN u ELSE t
        BY <2>1, <2>2, <2>4, <4>1
      <4> QED BY <4>1, <4>4, <4>5
    <3>2. ASSUME NEW m \in Name, InPool(m), tensors[m].state = "live" PROVE m \notin go
      BY <1>1, <3>2, Homes, <2>4, <2>1, <2>2, WithOutputsIs DEF Consts, MemoryInv, SoundTensor, Plain
    <3>3. \A b \in BufferId : /\ buffers'[b].val = buffers[b].val /\ buffers'[b].mem = buffers[b].mem
                              /\ buffers'[b].state = "live" => buffers[b].state = "live"
      BY <1>1, <2>1, <2>2, <2>4, FreedKeeps
    <3>4. ASSUME NEW m \in Name
          PROVE  /\ tensors'[m].buffer \in {Null, tensors[m].buffer}
                 /\ tensors'[m].buffer # Null => tensors'[m].shape = tensors[m].shape
                 /\ tensors[m].state = "live" => tensors'[m].buffer = tensors[m].buffer
                 /\ InPool(m) /\ tensors[m].state = "live" => tensors'[m].state = "live"
      BY <2>1, <2>2, WithOutputsIs, <3>1, <3>2
    <3> QED BY <2>1, <2>2, <2>1, <3>3, <3>4 DEF Builds
  <2> QED BY <2>3, <2>4
<1> QED BY <1>2, <1>3, DieEnds
-----------------------------------------------------------------------------
(* Tensors stay at home.                                                   *)
LEMMA BigStays ==
  ASSUME [Next]_vars
  PROVE  UNCHANGED <<net, big>>
<1>1. CASE Operate
  <2>1. Still
    BY <1>1 DEF Operate, ActivationResize, ActivationCPU, ActivationGPU, AddNResizeCPU, AddNCPU,
           AddNResizeGPU, AddNGPU, Identity, Reshape, BufferToImageResize, BufferToImage,
           ImageToBufferResize, ImageToBuffer
  <2> QED BY <2>1 DEF Still
<1>2. CASE Setup
  BY <1>2 DEF Setup, CreateTensors, LoadModel, LoadBigModel, CreateOutputTensorBuffer, CreateInitNet,
              CreateNormalNet, Goto, Refused
<1>3. CASE Serve
  BY <1>3 DEF Serve, CallRun, FeedResize, FeedCopy, RunNet, CopyOutput, RunReturns, Goto
<1>4. CASE Destroy \/ Stopped \/ UNCHANGED vars
  BY <1>4 DEF Destroy, Stopped, Goto, vars
<1> QED BY <1>1, <1>2, <1>3, <1>4 DEF Next

LEMMA SameHomes ==
  ASSUME UNCHANGED <<net, big>>
  PROVE  /\ Normal' = Normal /\ OnGPU' = OnGPU
         /\ \A r : (InPool(r)' <=> InPool(r)) /\ Home(r)' = Home(r) /\ HomeOf(r)' = HomeOf(r)
BY DEF Normal, InPool, Home, HomeOf, Slices, OnGPU

LEMMA HomeKept ==
  ASSUME UNCHANGED <<net, big>>, Listed(asked'),
         stage' \in Active =>
           /\ \A m \in Name : tensors'[m].buffer \in {Null, HomeOf(m)}
           /\ stage' \in Settled =>
                \A r \in Name : InPool(r) => tensors'[r].buffer # Null /\ tensors'[r].state = "live"
           /\ stage' \in {"new", "load", "pool", "create"} => step' = "resize"
           /\ stage' \in {"new", "load"} =>
                /\ \A m \in Name : tensors'[m].buffer = Null
                /\ \A b \in BufferId : buffers'[b].state # "live"
  PROVE  HomeInv'
BY SameHomes DEF HomeInv, Listed

LEMMA OperateHomes ==
  ASSUME NetsAreWhole, MemoryInv, ArgsInv, HomeInv, FitInv, Operate
  PROVE  HomeInv'
<1> USE OperatesAt
<1>1. UNCHANGED <<net, big>> /\ Listed(asked')
  BY DEF Still, call, HomeInv
<1>2. stage \in Settled /\ "ready" \in Settled
      /\ \A m \in Name : tensors[m].buffer \in {Null, HomeOf(m)}
      /\ \A r \in Name : InPool(r) => tensors[r].buffer # Null /\ tensors[r].state = "live"
  BY DEF Settled, Late, HomeInv
<1>3. Progress => stage' \in {"init", "run", "built", "copy"}
  BY DEF Progress
<1>4. CASE Ends
  BY <1>1, <1>4, HomeKept DEF Ends
<1>5. CASE Resizes
  <2>1. PICK n : n = op.out /\ n \in Name /\ ~IsAlias(n)
    BY <1>5 DEF Resizes
  <2>2. HomeOf(n) = Home(n) /\ Home(n) # Null
    BY <2>1, Roots, Homes DEF HomeOf
  <2>3. stage' \in {"init", "run", "ready"} /\ OnlyTouches(n)
    BY <1>5, <2>1 DEF Resizes
  <2>4. \A m \in Name : tensors'[m].state = tensors[m].state /\ (m # n => tensors'[m].buffer = tensors[m].buffer)
    BY <2>3 DEF OnlyTouches
  <2>5. tensors'[n].buffer \in {tensors[n].buffer, Home(n)}
    BY <2>3 DEF OnlyTouches
  <2> QED BY <1>1, <1>2, <2>1, <2>2, <2>3, <2>4, <2>5, HomeKept
<1>6. CASE Computes
  BY <1>6, <1>3, <1>1, <1>2, HomeKept DEF Computes
<1>7. CASE Shares
  <2>1. PICK n, m : n = op.out /\ n \in Name /\ m = op.in[1] /\ m \in Name
    BY <1>7
  <2>2. at \in DOMAIN Normal /\ op = Normal[at] /\ Aliasing(op.type)
    BY <1>7 DEF Shares, Aliasing
  <2>3. HomeOf(n) = HomeOf(m)
    BY <2>1, <2>2, Roots DEF HomeOf
  <2>4. ~InPool(n)
    BY <2>1, <2>2, OutsDiffer DEF InPool, ShouldPreallocate
  <2>5. /\ \A k \in Name : /\ tensors'[k].state = tensors[k].state
                           /\ k # n => tensors'[k].buffer = tensors[k].buffer
        /\ tensors'[n].buffer = tensors[m].buffer
    BY <1>7, <2>1 DEF Shares
  <2>6. stage' \in {"init", "run", "built", "copy"}
    BY <1>3, <1>7 DEF Shares
  <2> QED BY <1>1, <1>2, <2>1, <2>3, <2>4, <2>5, <2>6, HomeKept
<1> QED BY <1>4, <1>5, <1>6, <1>7, OperateSteps

LEMMA NoAliasRoot ==
  ASSUME NetsAreWhole, net \in Nets
  PROVE  /\ \A m \in Consts(net) : m \in Name /\ ~InPool(m) /\ HomeOf(m) = Home(m)
         /\ \A r \in Name : InPool(r) => HomeOf(r) = Home(r)
<1>1. ASSUME NEW m \in Consts(net) PROVE m \in Name /\ ~InPool(m) /\ HomeOf(m) = Home(m)
  BY ConstsAreNames, Homes, RootOf DEF Consts, HomeOf
<1>2. ASSUME NEW r \in Name, InPool(r) PROVE HomeOf(r) = Home(r)
  <2>1. PICK i \in DOMAIN Normal : Normal[i].out = r /\ ~Aliasing(Normal[i].type)
    BY <1>2 DEF InPool, ShouldPreallocate
  <2>2. Root(net)[r] = r
    BY <2>1, Roots
  <2> QED BY <2>2 DEF HomeOf
<1> QED BY <1>1, <1>2

LEMMA SetupHomes ==
  ASSUME NetsAreWhole, MemoryInv, HomeInv, UNCHANGED <<net, big>>, Setup
  PROVE  HomeInv'
<1>1. stage \in Active /\ net \in Nets
  BY DEF Setup, CreateTensors, LoadModel, LoadBigModel, CreateOutputTensorBuffer, CreateInitNet,
         CreateNormalNet, Active, Early, MemoryInv
<1>2. Listed(asked')
  BY DEF Setup, CreateTensors, LoadModel, LoadBigModel, CreateOutputTensorBuffer, CreateInitNet,
         CreateNormalNet, Goto, Refused, call, HomeInv
<1>3. \A m \in Name : tensors[m].buffer \in {Null, HomeOf(m)}
  BY <1>1 DEF HomeInv
<1>4. CASE Ends
  BY <1>2, <1>4, HomeKept DEF Ends
<1>5. CASE CreateTensors
  BY <1>5, <1>1, <1>2, NewTensors, HomeKept DEF CreateTensors, Goto, control, HomeInv, Settled, Late
<1>6. CASE Loads
  BY <1>1, <1>6, <1>3, NoAliasRoot, <1>2, HomeKept DEF Loads, Settled, Late, HomeInv
<1>7. CASE Plans
  BY <1>1, <1>7, NoAliasRoot, Homes, <1>2, <1>3, HomeKept DEF Plans, HomeInv
<1>8. CASE Builds
  BY <1>8, <1>1, <1>2, <1>3, HomeKept DEF Builds, Settled, HomeInv
<1> QED BY <1>4, <1>5, <1>6, <1>7, <1>8, LoadIs, PlanIs, BuildIs DEF Setup

(* An input's memory is made, or made anew, at home.                       *)
Feeds(n) ==
  /\ OnlyTouches(n) /\ UNCHANGED <<at, args>>
  /\ OnGPU => ImagesKept
  /\ \/ stage' = "feed" /\ step' = "compute" /\ tensors'[n].shape = shape
     \/ stage' = "ready" /\ UNCHANGED step /\ ~buffers'[tensors'[n].buffer].mem

LEMMA FeedIs ==
  ASSUME NetsAreWhole, MemoryInv, ArgsInv, HomeInv, FeedResize
  PROVE  /\ Head(todo) \in Range(net.inputs) /\ Head(todo) \in Name /\ HomeOf(Head(todo)) = Home(Head(todo))
         /\ Ends \/ Feeds(Head(todo))
<1>1. /\ stage = "feed" /\ todo # <<>> /\ step = "resize" /\ stage \in Active /\ stage \in Settled
      /\ \E r : Resize(Head(todo), shape, r) /\ Resized(r)
  BY DEF FeedResize, Active, Late, Settled
<1>2. PICK r : Resize(Head(todo), shape, r) /\ Resized(r)
  BY <1>1
<1>3. net \in Nets /\ todo \in Seq(Range(net.inputs)) /\ GoodTensors(tensors) /\ GoodBuffers(buffers)
      /\ \A m \in Name : tensors[m].buffer \in BufferId \cup {Null}
  BY <1>1 DEF MemoryInv, SoundTensor
<1>4. PICK n : n = Head(todo) /\ n \in Range(net.inputs)
  BY <1>1, <1>3
<1>5. n \in Name /\ Home(n) = Own(n) /\ ~IsAlias(n)
  BY <1>3, <1>4, Homes
<1>6. HomeOf(n) = Home(n)
  BY <1>3, <1>5, Roots DEF HomeOf
<1>7. tensors[n].buffer \in {Null, Home(n)}
  BY <1>1, <1>5, <1>6 DEF HomeInv
<1>8. /\ OnlyTouches(n)
      /\ r # "fatal" => tensors'[n].shape = shape
      /\ r = "oom" => ~HasMemory(n)' /\ tensors'[n].buffer # Null
      /\ Linked => ImagesKept
  BY <1>2, <1>3, <1>4, <1>5, <1>7, ResizeTouches
<1>9. OnGPU => ImagesKept
  BY <1>1, <1>8 DEF ArgsInv, Late
<1>10. \/ Ends
       \/ UNCHANGED <<at, args>> /\ stage' = "feed" /\ step' = "compute" /\ r = "ok"
       \/ UNCHANGED <<at, args, step>> /\ stage' = "ready" /\ r = "oom"
  BY <1>1, <1>2 DEF Resized, Return, Die, Ends, Active, Early, Late, control
<1>11. r = "oom" => ~buffers'[tensors'[n].buffer].mem
  BY <1>8 DEF HasMemory
<1> QED BY <1>4, <1>5, <1>6, <1>8, <1>9, <1>10, <1>11 DEF Feeds

LEMMA ServeHomes ==
  ASSUME NetsAreWhole, MemoryInv, ArgsInv, HomeInv, UNCHANGED <<net, big>>, Serve
  PROVE  HomeInv'
<1>1. stage \in Active /\ net \in Nets /\ stage \in Settled
  BY DEF Serve, CallRun, FeedResize, FeedCopy, RunNet, CopyOutput, RunReturns, Active, Late, Settled, MemoryInv
<1>2. /\ \A m \in Name : tensors[m].buffer \in {Null, HomeOf(m)}
      /\ \A r \in Name : InPool(r) => tensors[r].buffer # Null /\ tensors[r].state = "live"
      /\ Listed(asked)
  BY <1>1 DEF HomeInv
<1>3. Listed(asked')
  <2>1. CASE CallRun
    <3>1. \E out, blank : asked' = [todo |-> Among(net.outputs, out), blank |-> blank, gave |-> NoShape]
      BY <2>1 DEF CallRun
    <3>2. PICK q : q = net.outputs /\ q \in Seq(Name)
      BY <1>1, EngineAssumption DEF IsNet
    <3>3. \A S : Among(q, S) \in Seq(Range(q))
      BY <3>2, AmongIsPart
    <3> QED BY <3>1, <3>2, <3>3 DEF Listed
  <2>2. CASE CopyOutput
    <3>1. /\ asked.todo # <<>>
          /\ \/ UNCHANGED asked
             \/ asked' = [asked EXCEPT !.todo = Tail(@)]
             \/ \E s : asked' = [asked EXCEPT !.gave = s]
      BY <2>2 DEF CopyOutput, call
    <3>2. PICK q, S : q = asked.todo /\ q \in Seq(S) /\ q # <<>> /\ S = Range(net.outputs)
      BY <1>2, <3>1 DEF Listed
    <3>3. Tail(q) \in Seq(S)
      BY <3>2, HeadTailProperties
    <3>4. asked = [todo |-> q, blank |-> asked.blank, gave |-> asked.gave]
      BY <1>2, <3>2 DEF Listed
    <3>5. \/ asked' = asked
          \/ asked' = [todo |-> Tail(q), blank |-> asked.blank, gave |-> asked.gave]
          \/ \E s : asked' = [todo |-> q, blank |-> asked.blank, gave |-> s]
      BY <3>1, <3>2, <3>4
    <3> QED BY <1>2, <3>2, <3>3, <3>5 DEF Listed
  <2> QED BY <1>2, <2>1, <2>2 DEF Serve, FeedResize, FeedCopy, RunNet, RunReturns, call, Goto
<1>4. CASE FeedResize
  <2>1. PICK n : n = Head(todo) /\ n \in Name /\ HomeOf(n) = Home(n) /\ (Ends \/ Feeds(n)) /\ Home(n) # Null
    BY <1>1, <1>4, FeedIs, Homes
  <2>2. CASE Ends
    BY <1>3, <2>2, HomeKept DEF Ends
  <2>3. CASE Feeds(n)
    BY <2>3, <1>2, <1>3, <2>1, HomeKept DEF Feeds, OnlyTouches
  <2> QED BY <2>1, <2>2, <2>3
<1>5. CASE CallRun \/ FeedCopy \/ RunNet \/ CopyOutput \/ RunReturns
  BY <1>5, <1>2, <1>3, HomeKept DEF CallRun, FeedCopy, RunNet, CopyOutput, RunReturns, Goto, Die, Return
<1> QED BY <1>4, <1>5 DEF Serve

LEMMA HomeInit == Init => HomeInv
<1> SUFFICES ASSUME Init PROVE HomeInv
  OBVIOUS
<1>1. /\ stage = "new" /\ step = "resize" /\ asked.todo = <<>> /\ stage \notin Settled
      /\ tensors = [n \in Name |-> NoTensor] /\ buffers = [b \in BufferId |-> NoBuffer]
  BY DEF Init, NoMemoryYet, Settled, Late
<1>2. NoBuffer.state # "live"
  BY DEF NoBuffer
<1> QED BY <1>1, <1>2, NewTensors DEF HomeInv, Listed, Init

LEMMA HomeNext ==
  ASSUME NetsAreWhole, MemoryInv, ArgsInv, HomeInv, FitInv, [Next]_vars
  PROVE  HomeInv'
<1>1. UNCHANGED <<net, big>>
  BY BigStays
<1>2. CASE Destroy
  BY <1>2, <1>1, HomeKept DEF Destroy, Goto, call, Active, Early, Late, HomeInv
<1>3. CASE UNCHANGED vars \/ Stopped
  BY <1>3, <1>1, HomeKept DEF Stopped, vars, control, call, HomeInv
<1> QED BY <1>1, <1>2, <1>3, OperateHomes, SetupHomes, ServeHomes DEF Next
-----------------------------------------------------------------------------
(* The shapes and the kept arguments' memory stay so.                      *)
LEMMA KeptStays ==
  ASSUME net \in Nets, UNCHANGED net, ToldTruth, Kept, ImagesKept,
         \A i \in DOMAIN Normal : args'[i] = args[i],
         \A i \in DOMAIN Normal : args[i] # NoArgs /\ Normal[i].type = "AddN" =>
            \/ stage' = "run" /\ at' = i /\ step' = "compute"
            \/ tensors'[Normal[i].out].shape = args[i].shape
  PROVE  Kept'
<1>1. Normal' = Normal
  BY DEF Normal
<1>2. ASSUME NEW i \in DOMAIN Normal, args[i] # NoArgs, NEW n \in Range(Normal[i].in) \cup {Normal[i].out}
      PROVE  HasMemory(n)'
  BY <1>2, NormalFacts DEF Kept, ToldTruth, Told, Normal, ImagesKept
<1> QED BY <1>1, <1>2 DEF Kept

LEMMA SameImages ==
  ASSUME \A m \in Name : tensors'[m].buffer = tensors[m].buffer, GoodBuffers(buffers),
         \A m \in Name : tensors[m].buffer \in BufferId \cup {Null},
         NEW b, NEW v, buffers' = WithVal(b, v) \/ UNCHANGED buffers
  PROVE  \A m \in Name : HasMemory(m)' <=> HasMemory(m)
<1> SUFFICES ASSUME NEW m \in Name, NEW c \in BufferId, c = tensors[m].buffer
             PROVE  buffers'[c].mem = buffers[c].mem
  BY DEF HasMemory
<1>1. PICK u, w : u = buffers[c] /\ w = [u EXCEPT !.val = v] /\ IsBuffer(u)
  BY DEF GoodBuffers
<1>2. w.mem = u.mem
  BY <1>1 DEF IsBuffer, BufferFields
<1>3. buffers'[c] \in {u, w}
  BY <1>1 DEF WithVal, GoodBuffers
<1> QED BY <1>1, <1>2, <1>3

LEMMA OperateFits ==
  ASSUME NetsAreWhole, MemoryInv, ArgsInv, HomeInv, FitInv, Operate
  PROVE  FitInv'
<1> USE OperatesAt
<1>1. UNCHANGED net /\ OnGPU' = OnGPU /\ Normal' = Normal
  BY DEF Still, OnGPU, Normal
<1>2. Progress => step' = "resize" /\ stage' \in {"init", "run", "built", "copy"}
  BY DEF Progress
<1>3. ASSUME OnGPU, stage = "run"
      PROVE  /\ ToldTruth /\ Kept /\ at \in DOMAIN Normal /\ op = Normal[at]
             /\ args = [i \in DOMAIN Normal |-> args[i]]
  BY <1>3 DEF ArgsInv, Late, FitInv, ToldTruth, Normal
<1>4. stage = "init" => stage' \notin Late \/ ~Progress
  BY DEF Progress, Late
<1>5. ASSUME step' = "resize", stage' # "feed", OnGPU /\ stage' \in Late => Kept'
      PROVE  FitInv'
  BY <1>1, <1>5 DEF FitInv
<1>6. CASE Ends
  BY <1>1, <1>6 DEF Ends, FitInv, AtOp, Active, Early, Late
<1>7. CASE Resizes
  <2>1. PICK n, p : n = op.out /\ n \in Name /\ p = op.in[1] /\ p \in Name /\ p # n
    BY ReadsEarlier, NormalFacts
  <2>2. OnlyTouches(n) /\ UNCHANGED <<at, args>>
    BY <1>7, <2>1 DEF Resizes
  <2>3. tensors'[p].shape = tensors[p].shape
    BY <2>1, <2>2 DEF OnlyTouches
  <2>4. ASSUME OnGPU, stage' \in Late PROVE Kept'
    <3>1. stage = "run" /\ ImagesKept /\ step = "resize"
      BY <1>7, <2>4 DEF Resizes, Late
    <3>2. Kept /\ ToldTruth /\ at \in DOMAIN Normal /\ op = Normal[at]
      BY <1>3, <2>4, <3>1
    <3>3. ASSUME NEW i \in DOMAIN Normal, args[i] # NoArgs, Normal[i].type = "AddN", i # at
          PROVE  tensors'[Normal[i].out].shape = args[i].shape
      BY <2>1, <3>2, <3>3, OutsDiffer, NormalFacts, <2>2, <3>1 DEF OnlyTouches, Kept
    <3>4. ASSUME args[at] # NoArgs
          PROVE  stage' = "run" /\ at' = at /\ step' = "compute"
      BY <2>1, <3>2, <3>4, <3>1, <1>7 DEF Kept, ToldTruth, Told, Normal, ImagesKept, Resizes, HasMemory
    <3> QED BY <1>1, <2>2, <3>1, <3>2, <3>3, <3>4, KeptStays
  <2>5. ASSUME stage' = stage, step' = "compute", tensors'[n].shape = tensors[p].shape PROVE FitInv'
    BY <1>1, <2>2, <2>5, <2>1, <2>3, <2>4 DEF op, Todo, In, FitInv
  <2>6. ASSUME stage' = "ready" PROVE FitInv'
    <3>1. ~AtOp'
      BY <2>6 DEF AtOp
    <3> QED BY <1>1, <2>4, <2>6, <3>1 DEF FitInv
  <2> QED BY <1>7, <2>1, <2>5, <2>6 DEF Resizes
<1>8. CASE Computes
  <2>1. Progress /\ step = "compute" /\ ~Aliasing(op.type)
    BY <1>8 DEF Computes
  <2>2. ASSUME OnGPU, stage' \in Late PROVE Kept'
    <3>1. stage = "run"
      BY <1>4, <2>1, <2>2
    <3>2. Kept /\ ToldTruth /\ at \in DOMAIN Normal /\ op = Normal[at] /\ args = [i \in DOMAIN Normal |-> args[i]]
      BY <1>3, <2>2, <3>1
    <3>3. \A m \in Name : HasMemory(m)' <=> HasMemory(m)
      BY <1>8, SameImages DEF Computes
    <3>4. \A m \in Name : tensors'[m].shape = tensors[m].shape
      BY <1>8 DEF Computes
    <3>5. ASSUME NEW i \in DOMAIN Normal, args'[i] # NoArgs
          PROVE  /\ \A n \in Range(Normal[i].in) \cup {Normal[i].out} : HasMemory(n)'
                 /\ Normal[i].type = "AddN" => tensors'[Normal[i].out].shape = args'[i].shape
      <4>1. \A n \in Range(Normal[i].in) \cup {Normal[i].out} : n \in Name
        BY NormalFacts
      <4>2. CASE i = at
        BY <1>8, <2>2, <3>2, <4>2, <2>1, <3>3, <3>4, <4>1 DEF Computes, Refs, FitInv
      <4>3. CASE i # at
        BY <1>8, <3>2, <4>3, <3>3, <3>4, <3>5, <4>1 DEF Computes, Kept
      <4> QED BY <4>2, <4>3
    <3> QED BY <1>1, <3>5 DEF Kept
  <2> QED BY <1>2, <1>5, <2>1, <2>2
<1>9. CASE Shares
  <2>1. Progress /\ step = "resize" /\ Aliasing(op.type) /\ UNCHANGED <<buffers, args>>
    BY <1>9 DEF Shares
  <2>2. ASSUME OnGPU, stage' \in Late PROVE Kept'
    <3>1. stage = "run"
      BY <1>4, <2>1, <2>2
    <3>2. Kept /\ ToldTruth /\ at \in DOMAIN Normal /\ op = Normal[at] /\ ImagesStay
      BY <1>3, <1>9, <2>2, <3>1 DEF Shares
    <3>3. ImagesKept
      BY <2>1, <3>2 DEF ImagesStay, ImagesKept, HasMemory
    <3>4. ASSUME NEW i \in DOMAIN Normal, args[i] # NoArgs, Normal[i].type = "AddN"
          PROVE  tensors'[Normal[i].out].shape = args[i].shape
      BY <2>1, <3>2, <3>4, OutsDiffer, NormalFacts, <1>9 DEF Aliasing, Shares, Kept
    <3> QED BY <1>1, <2>1, <3>2, <3>3, <3>4, KeptStays
  <2> QED BY <1>2, <1>5, <2>1, <2>2
<1> QED BY <1>6, <1>7, <1>8, <1>9, OperateSteps

LEMMA SetupFits ==
  ASSUME NetsAreWhole, MemoryInv, HomeInv, UNCHANGED <<net, big>>, Setup
  PROVE  FitInv'
<1>1. stage \in Active /\ net \in Nets
  BY DEF Setup, CreateTensors, LoadModel, LoadBigModel, CreateOutputTensorBuffer, CreateInitNet,
         CreateNormalNet, Active, Early, MemoryInv
<1>2. CASE Ends
  BY <1>2 DEF Ends, FitInv, AtOp, Active, Early, Late
<1>3. CASE CreateTensors \/ Loads \/ Plans
  BY <1>3 DEF CreateTensors, Goto, Loads, Plans, FitInv, AtOp, Late
<1>4. CASE Builds
  <2>1. CASE stage = "create"
    BY <1>1, <2>1, <1>4 DEF HomeInv, Builds, FitInv, Late
  <2>2. CASE stage = "built"
    BY <1>4, <2>2, SameHomes DEF Builds, Kept, FitInv, AtOp
  <2> QED BY <1>4, <2>1, <2>2 DEF Builds
<1> QED BY <1>2, <1>3, <1>4, LoadIs, PlanIs, BuildIs DEF Setup

LEMMA ServeFits ==
  ASSUME NetsAreWhole, MemoryInv, ArgsInv, HomeInv, FitInv, UNCHANGED <<net, big>>, Serve
  PROVE  FitInv'
<1>1. stage \in Late /\ stage \in Active /\ net \in Nets /\ stage # "run" /\ OnGPU' = OnGPU
  BY DEF Serve, CallRun, FeedResize, FeedCopy, RunNet, CopyOutput, RunReturns, Active, Late, MemoryInv, OnGPU
<1>2. GoodBuffers(buffers) /\ \A m \in Name : tensors[m].buffer \in BufferId \cup {Null}
  BY <1>1 DEF MemoryInv, SoundTensor
<1>3. ASSUME OnGPU PROVE ToldTruth /\ Kept
  BY <1>1, <1>3 DEF ArgsInv, FitInv
<1>4. CASE FeedResize
  <2>1. PICK n : n = Head(todo) /\ n \in Range(net.inputs) /\ n \in Name /\ (Ends \/ Feeds(n)) /\ n \notin Outs(net)
    BY <1>1, <1>4, FeedIs, Homes
  <2>2. CASE Ends
    BY <2>2 DEF Ends, FitInv, AtOp, Active, Early, Late
  <2>3. CASE Feeds(n)
    <3>1. stage' \in {"feed", "ready"} /\ UNCHANGED <<args, todo, shape>> /\ todo # <<>> /\ step = "resize"
      BY <1>4, <2>3 DEF Feeds, FeedResize, call
    <3>2. ASSUME OnGPU PROVE Kept'
      BY <1>1, <2>1, <2>3, NormalFacts, <1>3, <3>2, <3>1, KeptStays DEF Feeds, OnlyTouches, Kept
    <3>3. stage' = "feed" /\ step' = "compute" => tensors'[Head(todo')].shape = shape'
      BY <2>1, <2>3, <3>1 DEF Feeds
    <3> QED BY <1>1, <3>1, <3>2, <3>3 DEF FitInv, AtOp
  <2> QED BY <2>1, <2>2, <2>3
<1>5. CASE CallRun \/ FeedCopy \/ RunNet \/ CopyOutput \/ RunReturns
  <2>1. /\ UNCHANGED <<tensors, args>>
        /\ (UNCHANGED buffers \/ \E b, v : buffers' = WithVal(b, v))
    BY <1>5 DEF CallRun, FeedCopy, RunNet, CopyOutput, RunReturns, Goto, Die, Return, control, Copied
  <2>2. CASE stage' \notin Active
    BY <2>2 DEF FitInv, AtOp, Active, Early, Late
  <2>3. CASE stage' \in Active
    <3>1. stage' \in {"feed", "run"} => step' # "compute"
      BY <2>3, <1>5 DEF RunNet, Goto, control, FitInv, CallRun, FeedCopy, Die, Active, Early, Late,
         CopyOutput, RunReturns, Return
    <3>2. stage' \in {"feed", "run", "copy", "ready"}
      BY <1>5, <2>3 DEF CallRun, FeedCopy, RunNet, CopyOutput, RunReturns, Goto, Die, Return, control,
                 Active, Early, Late
    <3>3. ASSUME OnGPU PROVE Kept'
      BY <1>2, <2>1, SameImages, <1>1, <1>3, <3>3, KeptStays DEF Kept, ImagesKept
    <3> QED BY <1>1, <3>1, <3>2, <3>3 DEF FitInv, AtOp
  <2> QED BY <2>2, <2>3
<1> QED BY <1>4, <1>5 DEF Serve

LEMMA FitNext ==
  ASSUME NetsAreWhole, MemoryInv, ArgsInv, HomeInv, FitInv, [Next]_vars
  PROVE  FitInv'
<1>1. UNCHANGED <<net, big>>
  BY BigStays
<1>2. CASE Destroy
  BY <1>2 DEF Destroy, Goto, FitInv, AtOp, Late
<1>3. CASE UNCHANGED vars \/ Stopped
  BY <1>3 DEF Stopped, vars, control, call, AtOp, op, Todo, In, OnGPU, Kept, Normal, HasMemory, FitInv
<1> QED BY <1>1, <1>2, <1>3, OperateFits, SetupFits, ServeFits DEF Next

LEMMA FitInit == Init => FitInv
BY DEF Init, FitInv, AtOp, Late
-----------------------------------------------------------------------------
(* What is in memory is what the tensor means, unless another operator has *)
(* its block by now, or it is still to be copied in.                       *)
Good(m) ==
  Usable(tensors[m].buffer) =>
    tensors[m].shape = Meaning[m].shape /\ buffers[tensors[m].buffer].val = Meaning[m].val

Lost(m, w) == \E i, j \in DOMAIN Normal : Blocks(i, j) /\ j < w /\ Normal[i].out = Root(net)[m]

(* The operators before the first have run, those before the second have   *)
(* their output's memory.                                                  *)
Place   == CASE stage = "run" -> at [] stage = "copy" -> Len(Normal) + 1 [] OTHER -> 1
Written == IF stage = "run" /\ step = "compute" THEN at + 1 ELSE Place

Feeding(m) == stage = "feed" /\ step = "compute" /\ m = Head(todo)
Intact(m)  == Made(m, Place) /\ ~Lost(m, Written) /\ ~Feeding(m)

Fixed(m) ==
  \/ m \notin Outs(net)
  \/ /\ \E i \in DOMAIN Ops(net, "INIT") : Ops(net, "INIT")[i].out = m
     /\ \/ stage = "built"
        \/ stage = "init" /\ \A i \in DOMAIN Ops(net, "INIT") : Ops(net, "INIT")[i].out = m => i < at

RightInv ==
  /\ given = [n \in Name |-> given[n]] /\ result = [n \in Name |-> result[n]]
  /\ stage \in Early => \A m \in Name : Fixed(m) => Good(m)
  /\ stage \in Late => \A m \in Name : Intact(m) => Good(m)
  /\ stage = "feed" => \A n \in Name : result[n] = NoResult
  /\ OutputsAreRight

LEMMA MadeLater ==
  ASSUME net \in Nets, NEW m, NEW k \in Int, NEW l \in Int, k <= l
  PROVE  (Made(m, k) => Made(m, l)) /\ (Lost(m, k) => Lost(m, l))
BY NormalFacts DEF Made, Lost

(* A tensor that the NORMAL net does not make has its memory for itself.   *)
LEMMA FromStart ==
  ASSUME NetsAreWhole, net \in Nets, NEW m \in Name, Made(m, 1)
  PROVE  /\ \A i \in DOMAIN Normal : Normal[i].out # m
         /\ HomeOf(m) = Home(m) /\ \A w : ~Lost(m, w)
         /\ \A k \in Int : Made(m, k)
         /\ \A n \in Name : n # m => Home(n) # Home(m)
<1>1. \A i \in DOMAIN Normal : Normal[i].out # m
  BY NormalFacts DEF Made
<1>2. Root(net)[m] = m
  BY <1>1, WhoMakes, RootOf DEF Aliasing
<1>3. \A n \in Name : Home(n) = Home(m) => n = m
  BY <1>1, Homes
<1> QED BY <1>1, <1>2, <1>3 DEF HomeOf, Lost, Made

(* It means what its source gives, or the weight it is the image of.       *)
LEMMA StartMeans ==
  ASSUME NetsAreWhole, net \in Nets, UNCHANGED net, NEW m \in Name, \A i \in DOMAIN Normal : Normal[i].out # m
  PROVE  \E c \in Name : /\ Meaning[m] = Source(c) /\ Meaning'[m] = Source(c)'
                         /\ c \notin Outs(net) /\ (c = m \/ c \notin Range(net.inputs))
                         /\ m \notin Outs(net) => c = m
<1>1. CASE m \notin Outs(net)
  BY <1>1, MeaningOf, MeaningNext
<1>2. CASE m \in Outs(net)
  <2>1. PICK o, c : o = Maker(net, m) /\ o.type = "BufferToImage" /\ c = o.in[1] /\ c \in Consts(net)
    BY <1>2, WhoMakes
  <2>2. c \in Name /\ c \notin Outs(net) /\ c \notin Range(net.inputs)
    BY <2>1, NoAliasRoot DEF Consts
  <2>3. Meaning[m] = Applied(o, Meaning) /\ Meaning'[m] = Applied(o, Meaning')
    BY <1>2, <2>1, MeaningOf, MeaningNext
  <2>4. Applied(o, Meaning) = Meaning[c] /\ Applied(o, Meaning') = Meaning'[c]
    BY <2>1 DEF Applied
  <2>5. Meaning[c] = Source(c) /\ Meaning'[c] = Source(c)'
    BY <2>2, MeaningOf, MeaningNext
  <2> QED BY <1>2, <2>2, <2>3, <2>4, <2>5
<1> QED BY <1>1, <1>2

(* What is still to be read is not where the output goes.                  *)
LEMMA Untouched ==
  ASSUME NetsAreWhole, net \in Nets, NEW k \in DOMAIN Normal, ~Aliasing(Normal[k].type),
         NEW m \in Name, Made(m, k), ~Lost(m, k + 1)
  PROVE  HomeOf(m) # Home(Normal[k].out)
<1>1. k \in Nat /\ Normal[k].out \in Name
  BY NormalFacts
<1>2. PICK n, r : n = Normal[k].out /\ r = Root(net)[m] /\ r \in Name
  BY Roots
<1>3. Made(r, k) /\ r # n
  BY <1>1, <1>2, Roots DEF Made
<1>4. SUFFICES ASSUME Home(r) = Home(n) PROVE FALSE
  BY <1>2 DEF HomeOf
<1>5. PICK i, j \in DOMAIN Normal :
         /\ Normal[i].out = r /\ Normal[j].out = n
         /\ Normal[i].mem = Normal[j].mem /\ Normal[j].mem # None
         /\ ShouldPreallocate(Normal[i]) /\ ShouldPreallocate(Normal[j])
  BY <1>1, <1>2, <1>3, <1>4, Homes
<1>6. j = k
  BY <1>2, <1>5, OutsDiffer
<1>7. i < k
  BY <1>3, <1>5 DEF Made
<1>8. Blocks(i, k)
  BY <1>5, <1>6, <1>7 DEF Blocks
<1> QED BY <1>1, <1>2, <1>5, <1>8 DEF Lost

LEMMA GoodStays ==
  ASSUME NEW m, NEW b, b = tensors[m].buffer, Good(m),
         tensors'[m].buffer = b, tensors'[m].shape = tensors[m].shape,
         Usable(b)' => Usable(b) /\ buffers'[b].val = buffers[b].val, Meaning'[m] = Meaning[m]
  PROVE  Good(m)'
BY DEF Good

LEMMA SameUsable ==
  ASSUME NEW b, NEW h, b # h, Weights # h, Weights \in BufferId, b \in BufferId \cup {Null},
         \A c \in BufferId : c # h => buffers'[c] = buffers[c]
  PROVE  Usable(b)' => Usable(b) /\ buffers'[b] = buffers[b]
BY DEF Usable

LEMMA WithValUsable ==
  ASSUME GoodBuffers(buffers), NEW b \in BufferId, NEW v, buffers' = WithVal(b, v), NEW c \in BufferId \cup {Null}
  PROVE  /\ Usable(c)' => Usable(c) /\ buffers'[c].val = (IF c = b THEN v ELSE buffers[c].val)
<1>1. PICK e : e = [buffers[b] EXCEPT !.val = v]
  OBVIOUS
<1>2. IsBuffer(buffers[b])
  BY DEF GoodBuffers
<1>3. e.val = v /\ e.state = buffers[b].state /\ e.mem = buffers[b].mem
  BY <1>1, <1>2 DEF IsBuffer, BufferFields
<1>4. \A d \in BufferId : buffers'[d] = IF d = b THEN e ELSE buffers[d]
  BY <1>1 DEF WithVal, GoodBuffers
<1>5. \A d \in BufferId : buffers'[d].state = buffers[d].state /\ buffers'[d].mem = buffers[d].mem
                          /\ buffers'[d].val = (IF d = b THEN v ELSE buffers[d].val)
  BY <1>3, <1>4
<1> QED BY <1>5, Ids DEF Usable

(* A meaning is a shape and a value.                                       *)
LEMMA MeaningRecord ==
  ASSUME NetsAreWhole, net \in Nets, NEW m \in Name
  PROVE  Meaning[m] = [shape |-> Meaning[m].shape, val |-> Meaning[m].val]
<1> DEFINE IsPair(e) == e = [shape |-> e.shape, val |-> e.val]
           bad == {i \in DOMAIN Normal : ~IsPair(Meaning[Normal[i].out])}
<1>1. \A c \in Name : IsPair(Source(c))
  BY DEF Source
<1>2. ASSUME NEW n \in Name, \A i \in DOMAIN Normal : Normal[i].out # n PROVE IsPair(Meaning[n])
  <2>1. CASE n \notin Outs(net)
    BY <1>1, <2>1, MeaningOf
  <2>2. CASE n \in Outs(net)
    <3>1. PICK o, c : o = Maker(net, n) /\ o.type = "BufferToImage" /\ c = o.in[1] /\ c \in Consts(net)
      BY <1>2, <2>2, WhoMakes
    <3>2. c \in Name /\ c \notin Outs(net)
      BY <3>1, NoAliasRoot DEF Consts
    <3>3. Meaning[n] = Applied(o, Meaning) /\ Meaning[c] = Source(c)
      BY <2>2, <3>1, <3>2, MeaningOf
    <3>4. Applied(o, Meaning) = Meaning[c]
      BY <3>1 DEF Applied
    <3> HIDE DEF IsPair
    <3> QED BY <1>1, <3>2, <3>3, <3>4
  <2> QED BY <2>1, <2>2
<1>3. bad = {}
  <2> SUFFICES ASSUME bad # {} PROVE FALSE
    OBVIOUS
  <2>1. bad \subseteq Nat
    BY NormalFacts
  <2>2. PICK i \in bad : \A j \in bad : i <= j
    <3> HIDE DEF bad
    <3> QED BY <2>1, LeastNumber
  <2>3. PICK o, r : o = Normal[i] /\ r = o.in[1] /\ r \in Range(o.in) /\ r \in Name /\ o.out \in Name
                    /\ o.type \in Types /\ o.out \in Outs(net) /\ Maker(net, o.out) = o
    BY <2>2, NormalFacts
  <2>4. IsPair(Meaning[r])
    <3>1. CASE \E j \in DOMAIN Normal : Normal[j].out = r
      <4>1. PICK j \in DOMAIN Normal : Normal[j].out = r
        BY <3>1
      <4>2. j < i /\ j \in Nat /\ i \in Nat
        BY <2>2, <2>3, <4>1, ReadsEarlier, NormalFacts
      <4>3. j \notin bad
        BY <2>2, <4>2
      <4> QED BY <4>1, <4>3
    <3>2. CASE ~\E j \in DOMAIN Normal : Normal[j].out = r
      BY <1>2, <2>3, <3>2
    <3> QED BY <3>1, <3>2
  <2>5. Meaning[o.out] = Applied(o, Meaning)
    BY <2>3, MeaningOf
  <2>6. IsPair(Applied(o, Meaning))
    BY <2>3, <2>4 DEF Applied
  <2>7. IsPair(Meaning[o.out])
    <3> HIDE DEF IsPair
    <3> QED BY <2>5, <2>6
  <2> QED BY <2>2, <2>3, <2>7
<1>4. CASE \E i \in DOMAIN Normal : Normal[i].out = m
  BY <1>3, <1>4
<1>5. CASE ~\E i \in DOMAIN Normal : Normal[i].out = m
  BY <1>2, <1>5
<1> QED BY <1>4, <1>5

(* A tensor of the net that has memory may use it.                         *)
LEMMA UsableThere ==
  ASSUME MemoryInv, stage \in Active, NEW n \in Name, stage \in Late => InNet(n, "NORMAL"), HasMemory(n)
  PROVE  Usable(tensors[n].buffer)
BY DEF MemoryInv, Held, SoundTensor, HasMemory, Usable, Lives

(* Inputs that are right, under another name or computed with, give what   *)
(* is right.                                                               *)
LEMMA AppliedIs ==
  ASSUME NetsAreWhole, net \in Nets, NEW n \in Outs(net), n \in Name, NEW o, o = Maker(net, n), o.type \in Types
  PROVE  LET i == Meaning[o.in[1]] IN
         /\ Meaning[n].shape = IF o.type = "Reshape" THEN Flat(i.shape) ELSE i.shape
         /\ Meaning[n].val = IF o.type \in {"AddN", "Activation"}
                             THEN <<o.type, i.val, Meaning[o.in[2]].val>> ELSE i.val
<1>1. Meaning[n] = Applied(o, Meaning)
  BY MeaningOf
<1> QED BY <1>1 DEF Applied, Types

LEMMA OutputsAreNames == ASSUME net \in Nets PROVE Range(net.outputs) \subseteq Name
BY EngineAssumption DEF IsNet, Range

LEMMA RightKept ==
  ASSUME net \in Nets, UNCHANGED net, given' = [n \in Name |-> given'[n]], result' = [n \in Name |-> result'[n]],
         stage' \in Early => \A m \in Name : Fixed(m)' => Good(m)',
         stage' \in Late => \A m \in Name : Intact(m)' => Good(m)',
         stage' = "feed" => \A n \in Name : result'[n] = NoResult,
         \/ \A n \in Name : result'[n] = NoResult
         \/ UNCHANGED <<given, result>> /\ OutputsAreRight
         \/ OutputsAreRight'
  PROVE  RightInv'
<1>1. OutputsAreRight'
  BY OutputsAreNames, SameMeaning DEF OutputsAreRight
<1> QED BY <1>1 DEF RightInv

(* What is elsewhere than what is written stays right.                     *)
LEMMA OthersStay ==
  ASSUME NetsAreWhole, net \in Nets, GoodBuffers(buffers), NEW n \in Name, HomeOf(n) = Home(n),
         NEW m \in Name, HomeOf(m) # Home(n),
         tensors[m].buffer \in {Null, HomeOf(m)}, tensors[n].buffer \in {Null, Home(n)},
         Good(m), Meaning'[m] = Meaning[m],
         \/ OnlyTouches(n)
         \/ /\ tensors'[m].buffer = tensors[m].buffer /\ tensors'[m].shape = tensors[m].shape
            /\ HasMemory(n) /\ \E v : buffers' = WithVal(tensors[n].buffer, v)
  PROVE  Good(m)'
<1>1. PICK b, h : b = tensors[m].buffer /\ h = Home(n) /\ b # h /\ Weights # h /\ h # Null
                  /\ b \in BufferId \cup {Null} /\ h \in BufferId
  BY Roots, Homes DEF HomeOf
<1>2. m # n
  OBVIOUS
<1>3. tensors'[m].buffer = b /\ tensors'[m].shape = tensors[m].shape
  BY <1>1, <1>2 DEF OnlyTouches
<1>4. Usable(b)' => Usable(b) /\ buffers'[b].val = buffers[b].val
  <2>1. CASE OnlyTouches(n)
    <3>1. \A c \in BufferId : c # h => buffers'[c] = buffers[c]
      BY <1>1, <2>1 DEF OnlyTouches
    <3>2. Weights \in BufferId
      BY Ids
    <3>3. Usable(b)' => Usable(b) /\ buffers'[b] = buffers[b]
      BY <1>1, <3>1, <3>2, SameUsable
    <3> QED BY <3>3
  <2>2. CASE HasMemory(n) /\ \E v : buffers' = WithVal(tensors[n].buffer, v)
    <3>1. PICK v : buffers' = WithVal(h, v)
      BY <1>1, <2>2 DEF HasMemory
    <3> QED BY <1>1, <3>1, WithValUsable
  <2> QED BY <2>1, <2>2
<1> QED BY <1>1, <1>3, <1>4, GoodStays

(* The operator that runs, of the NORMAL net, reads what is right ...      *)
LEMMA InputsGood ==
  ASSUME NetsAreWhole, RightInv, net \in Nets, stage = "run", at \in DOMAIN Normal,
         NEW m \in Range(Normal[at].in)
  PROVE  Good(m) /\ Made(m, at) /\ ~Lost(m, at + 1)
<1>1. m \in Name /\ at \in Nat /\ stage \in Late
  BY NormalFacts DEF Late
<1>2. Made(m, at)
  <2> SUFFICES ASSUME NEW i \in DOMAIN Normal, Normal[i].out = m PROVE i < at
    BY DEF Made
  <2> QED BY <1>1, ReadsEarlier, NormalFacts
<1>3. ~Lost(m, at + 1)
  <2> SUFFICES ASSUME NEW i \in DOMAIN Normal, NEW j \in DOMAIN Normal, Blocks(i, j), j < at + 1,
                      Normal[i].out = Root(net)[m]
               PROVE  FALSE
    BY DEF Lost
  <2>1. j <= at
    BY <1>1, NormalFacts
  <2> QED BY <2>1, PlanOfNormal
<1>4. ~Lost(m, at)
  <2>1. PICK k : k = at /\ k \in Int /\ k + 1 \in Int /\ k <= k + 1
    BY <1>1
  <2>2. Lost(m, k) => Lost(m, k + 1)
    BY <2>1, MadeLater
  <2> QED BY <1>3, <2>1, <2>2
<1>5. Intact(m)
  BY <1>2, <1>3, <1>4 DEF Intact, Place, Written, Feeding
<1> QED BY <1>1, <1>2, <1>3, <1>5 DEF RightInv

(* ... and so does one of the INIT net.                                    *)
LEMMA WeightGood ==
  ASSUME NetsAreWhole, RightInv, net \in Nets, stage = "init", NEW m \in Consts(net)
  PROVE  m \in Name /\ Good(m)
BY NoAliasRoot DEF Consts, RightInv, Fixed, Early

(* An operator that is done has made its output right.                     *)
LEMMA MakesRight ==
  ASSUME NetsAreWhole, MemoryInv, ArgsInv, HomeInv, FitInv, RightInv, Operate, Computes \/ Shares,
         NEW n, n = op.out
  PROVE  Good(n)'
<1> USE OperatesAt
<1>1. UNCHANGED <<net, given>> /\ Meaning' = Meaning
  BY SameMeaning DEF Still
<1>2. PICK o, i : o = op /\ n = o.out /\ i = o.in[1] /\ n \in Name /\ i \in Name /\ i \in Range(o.in)
                     /\ o.type \in Types /\ n \in Outs(net) /\ o = Maker(net, n)
  <2>1. op.in[1] \in Range(op.in)
    BY DEF Range
  <2>2. op = Maker(net, op.out)
    <3>1. PICK j \in DOMAIN net.ops : op = net.ops[j]
      BY OpFacts
    <3>2. op \in Range(net.ops) /\ \A p \in Range(net.ops) : p.out = op.out => p = op
      BY <3>1, NetFacts DEF Range
    <3> QED BY <3>2 DEF Maker
  <2> QED BY <2>1, <2>2
<1>3. \A m \in Range(o.in) : m \in Name /\ Good(m)
  <2>1. CASE stage = "run"
    BY <1>2, <2>1, InputsGood
  <2>2. CASE stage = "init"
    BY <1>2, <2>2, OneInput, WeightGood
  <2> QED BY <2>1, <2>2
<1>4. PICK mi : mi = Meaning[i]
  OBVIOUS
<1>5. /\ Meaning[n].shape = IF o.type = "Reshape" THEN Flat(mi.shape) ELSE mi.shape
      /\ Meaning[n].val = IF o.type \in {"AddN", "Activation"}
                          THEN <<o.type, mi.val, Meaning[o.in[2]].val>> ELSE mi.val
  BY <1>2, <1>4, AppliedIs
<1>6. CASE Computes
  <2>1. \A m \in Range(o.in) : Usable(tensors[m].buffer)
    <3> SUFFICES ASSUME NEW m \in Range(o.in) PROVE Usable(tensors[m].buffer)
      OBVIOUS
    <3>1. HasMemory(m) /\ m \in Name
      BY <1>2, <1>3, <1>6 DEF Computes
    <3>2. stage \in Late => InNet(m, "NORMAL")
      BY <1>2, OpFacts DEF Mode, Late
    <3> QED BY <3>1, <3>2, UsableThere
  <2>2. ASSUME NEW k \in DOMAIN o.in PROVE Value(k) = Meaning[o.in[k]].val /\ In(k) = o.in[k]
    <3>1. PICK m : m = o.in[k] /\ m \in Range(o.in) /\ m = In(k)
      BY <1>2 DEF Range, In
    <3>2. Value(k) = buffers[tensors[m].buffer].val
      BY <2>1, <3>1 DEF Value, Content
    <3> QED BY <1>3, <2>1, <3>1, <3>2 DEF Good
  <2>3. PICK b, v : b = tensors[n].buffer /\ b \in BufferId /\ buffers' = WithVal(b, v)
                    /\ v = IF o.type \in {"AddN", "Activation"} THEN <<o.type, Value(1), Value(2)>> ELSE Value(1)
    BY <1>2, <1>6 DEF Computes, HasMemory
  <2>4. Usable(b)' => buffers'[b].val = v
    BY <2>3, WithValUsable
  <2>5. 1 \in DOMAIN o.in /\ (o.type \in {"AddN", "Activation"} => 2 \in DOMAIN o.in)
    BY <1>2
  <2>6. v = Meaning[n].val
    BY <1>2, <1>4, <1>5, <2>2, <2>3, <2>5
  <2>7. tensors[n].shape = tensors[i].shape
    BY <1>2, <1>6 DEF Computes, FitInv
  <2>8. tensors[i].shape = mi.shape
    BY <1>2, <1>3, <1>4, <2>1 DEF Good
  <2>9. o.type # "Reshape"
    BY <1>2, <1>6 DEF Computes, Aliasing
  <2>10. tensors'[n].buffer = b /\ tensors'[n].shape = tensors[n].shape
    BY <1>2, <1>6, <2>3 DEF Computes
  <2>11. Good(n)'
    BY <1>1, <1>5, <2>4, <2>6, <2>7, <2>8, <2>9, <2>10 DEF Good
  <2> QED BY <2>11
<1>7. CASE Shares
  <2>1. PICK b : b = tensors[i].buffer /\ tensors'[n].buffer = b /\ UNCHANGED buffers
                 /\ tensors'[n].shape = IF o.type = "Reshape" THEN Flat(tensors[i].shape)
                                                               ELSE tensors[i].shape
    BY <1>2, <1>7 DEF Shares
  <2>2. Usable(b)' => Usable(b) /\ buffers'[b].val = buffers[b].val
    BY <2>1 DEF Usable
  <2>3. Usable(b) => tensors[i].shape = mi.shape /\ buffers[b].val = mi.val
    BY <1>2, <1>3, <1>4, <2>1 DEF Good
  <2>4. o.type \notin {"AddN", "Activation"}
    BY <1>2, <1>7 DEF Shares, Aliasing
  <2> QED BY <1>1, <1>5, <2>1, <2>2, <2>3, <2>4 DEF Good
<1> QED BY <1>6, <1>7

LEMMA IntactNext ==
  ASSUME net \in Nets, UNCHANGED net, NEW m, NEW p, NEW w, p = Place', w = Written', Intact(m)'
  PROVE  Made(m, p) /\ ~Lost(m, w) /\ ~Feeding(m)'
<1>1. Normal' = Normal /\ Root(net)' = Root(net)
  BY DEF Normal
<1>2. ASSUME NEW i, NEW j PROVE Blocks(i, j)' <=> Blocks(i, j)
  BY <1>1 DEF Blocks
<1>3. Made(m, p)
  BY <1>1 DEF Intact, Made
<1>4. Lost(m, w) => Lost(m, Written)'
  BY <1>1, <1>2 DEF Lost
<1> QED BY <1>3, <1>4 DEF Intact

LEMMA OperateRun ==
  ASSUME NetsAreWhole, MemoryInv, ArgsInv, HomeInv, FitInv, RightInv, Operate, stage = "run"
  PROVE  RightInv'
<1> USE OperatesAt
<1>1. UNCHANGED <<net, big, given, result>> /\ Meaning' = Meaning /\ stage \in Late
  BY SameMeaning DEF Still, Late
<1>2. PICK k, n : /\ k = at /\ n = op.out /\ k \in DOMAIN Normal /\ n = Normal[k].out /\ op = Normal[k]
                  /\ n \in Name /\ k \in Nat /\ k + 1 \in Int /\ k <= k + 1 /\ 1 <= k /\ k <= Len(Normal)
                  /\ Todo = Normal
  BY NormalFacts
<1>3. \A m \in Name : tensors[m].buffer \in {Null, HomeOf(m)}
  BY DEF HomeInv
<1>4. ASSUME NEW m \in Name, Made(m, k), IF step = "compute" THEN ~Lost(m, k + 1) ELSE ~Lost(m, k)
      PROVE  Good(m)
  <2>1. Intact(m)
    BY <1>2, <1>4 DEF Intact, Place, Written, Feeding
  <2> QED BY <1>1, <2>1 DEF RightInv
<1>5. stage' \notin Active \/ stage' \in {"run", "copy", "ready"}
  BY OperateSteps DEF Ends, Resizes, Computes, Shares, Progress
<1>6. SUFFICES ASSUME stage' \in Active, NEW m \in Name, Intact(m)' PROVE Good(m)'
  BY <1>5, <1>1, RightKept DEF Active, Early, Late, RightInv
<1>7. PICK p, w : p = Place' /\ w = Written'
  OBVIOUS
<1>8. Made(m, p) /\ ~Lost(m, w)
  BY <1>1, <1>6, <1>7, IntactNext
<1>9. Lost(m, k) => Lost(m, k + 1)
  <2>1. net \in Nets
    OBVIOUS
  <2>2. PICK l : l = k + 1 /\ l \in Int /\ k \in Int /\ k <= l
    BY <1>2
  <2>3. Lost(m, k) => Lost(m, l)
    BY ONLY <2>1, <2>2, MadeLater
  <2> QED BY <2>2, <2>3
<1>10. ASSUME ~Aliasing(op.type), Made(m, k), ~Lost(m, k + 1) PROVE HomeOf(m) # Home(n) /\ HomeOf(n) = Home(n) /\ Good(m)
  BY <1>2, <1>10, Untouched, Roots, <1>4, <1>9 DEF HomeOf
<1>11. CASE Resizes
  <2>1. ~Aliasing(op.type) /\ OnlyTouches(n) /\ at' = k
        /\ ((stage' = "run" /\ step' = "compute") \/ stage' = "ready")
    BY <1>2, <1>11 DEF Resizes
  <2>2. Made(m, k) /\ ~Lost(m, k + 1)
    <3>1. CASE stage' = "run"
      BY <1>2, <1>7, <2>1, <3>1, <1>8 DEF Place, Written
    <3>2. CASE stage' = "ready"
      <4>1. p = 1
        BY <1>7, <3>2 DEF Place
      <4> QED BY <1>2, <1>8, <4>1, FromStart
    <3> QED BY <2>1, <3>1, <3>2
  <2>3. HomeOf(m) # Home(n) /\ HomeOf(n) = Home(n) /\ Good(m)
    BY <1>10, <2>1, <2>2
  <2>4. Good(m)'
    BY <1>1, <1>2, <1>3, <2>1, <2>3, OthersStay
  <2> QED BY <2>1, <2>4 DEF Late
<1>12. ASSUME Progress PROVE p = k + 1 /\ w = k + 1 /\ stage' \in Late
  <2>1. CASE k < Len(Normal)
    BY <1>2, <1>12, <2>1, <1>7 DEF Progress, Place, Written, Late
  <2>2. CASE k = Len(Normal)
    BY <1>2, <1>12, <2>2, <1>1, <1>7 DEF Progress, Normal, Place, Written, Late
  <2> QED BY <1>2, <2>1, <2>2, NormalFacts
<1>13. CASE Computes \/ Shares
  <2>1. Made(m, k + 1) /\ ~Lost(m, k + 1) /\ ~Lost(m, k) /\ stage' \in Late
    BY <1>8, <1>9, <1>12, <1>13 DEF Computes, Shares
  <2>2. CASE m = n
    BY <1>2, <1>13, <2>1, <2>2, MakesRight
  <2>3. CASE m # n
    <3>1. Made(m, k)
      <4> SUFFICES ASSUME NEW i \in DOMAIN Normal, Normal[i].out = m PROVE i < k
        BY DEF Made
      <4>1. i < k + 1 /\ i # k /\ i \in Nat
        BY <1>2, <2>1, <2>3, NormalFacts DEF Made
      <4> QED BY <1>2, <4>1
    <3>2. Good(m)
      BY <1>4, <2>1, <3>1
    <3>3. CASE Computes
      BY <1>10, <2>1, <3>1, <3>3, <1>2, <1>1, <1>3, <3>2, OthersStay DEF Computes
    <3>4. CASE Shares
      <4>1. PICK b : b = tensors[m].buffer /\ tensors'[m].buffer = b /\ UNCHANGED buffers
                     /\ tensors'[m].shape = tensors[m].shape
        BY <1>2, <2>3, <3>4 DEF Shares
      <4>2. Usable(b)' => Usable(b) /\ buffers'[b].val = buffers[b].val
        BY <4>1 DEF Usable
      <4>3. Good(m)'
        BY <1>1, <3>2, <4>1, <4>2, GoodStays
      <4> QED BY <2>1, <4>3
    <3> QED BY <1>13, <3>3, <3>4
  <2> QED BY <2>2, <2>3
<1>14. CASE Ends
  BY <1>6, <1>14 DEF Ends
<1> QED BY <1>11, <1>13, <1>14, OperateSteps

(* What the INIT net makes, and what no operator makes, is not made by the *)
(* NORMAL net.                                                             *)
LEMMA FixedFromStart ==
  ASSUME NetsAreWhole, net \in Nets, NEW m \in Name,
         m \notin Outs(net) \/ \E i \in DOMAIN Ops(net, "INIT") : Ops(net, "INIT")[i].out = m
  PROVE  Made(m, 1)
<1> SUFFICES ASSUME NEW j \in DOMAIN Normal, Normal[j].out = m PROVE FALSE
  BY DEF Made
<1>1. m \in Outs(net)
  BY NormalFacts
<1>2. PICK i \in DOMAIN Ops(net, "INIT") : Ops(net, "INIT")[i].out = m
  BY <1>1
<1>3. PICK k \in DOMAIN net.ops : net.ops[k].out = m /\ net.ops[k].mode = "INIT"
  BY <1>2, OpsAreOps
<1>4. PICK l \in DOMAIN net.ops : net.ops[l].out = m /\ net.ops[l].mode = "NORMAL"
  BY OpsAreOps DEF Normal
<1> QED BY <1>3, <1>4, NetFacts

LEMMA FixedNext ==
  ASSUME net \in Nets, UNCHANGED net, NEW m \in Name, Fixed(m)'
  PROVE  \/ m \notin Outs(net)
         \/ /\ \E i \in DOMAIN Ops(net, "INIT") : Ops(net, "INIT")[i].out = m
            /\ \/ stage' = "built"
               \/ stage' = "init" /\ \A i \in DOMAIN Ops(net, "INIT") : Ops(net, "INIT")[i].out = m => i < at'
BY DEF Fixed

LEMMA OperateInit ==
  ASSUME NetsAreWhole, MemoryInv, ArgsInv, HomeInv, FitInv, RightInv, Operate, stage = "init"
  PROVE  RightInv'
<1> USE OperatesAt
<1>1. UNCHANGED <<net, big, given, result>> /\ Meaning' = Meaning /\ stage \in Early
  BY SameMeaning DEF Still, Early
<1>2. PICK q, k, n : /\ q = Ops(net, "INIT") /\ k = at /\ n = op.out /\ k \in DOMAIN q /\ n = q[k].out
                     /\ n \in Name /\ k \in Nat /\ DOMAIN q = 1..Len(q) /\ Len(q) \in Nat /\ Todo = q
  BY OpsAreOps DEF Todo, AtOp, op
<1>3. \A m \in Name : tensors[m].buffer \in {Null, HomeOf(m)}
  BY DEF HomeInv
<1>4. ~Aliasing(op.type) /\ Made(n, 1)
  BY <1>2, FixedFromStart DEF Aliasing
<1>5. HomeOf(n) = Home(n) /\ \A m \in Name : m # n => Home(n) # Home(m)
  BY <1>2, <1>4, FromStart
<1>6. stage' \notin Active \/ stage' \in {"init", "built"}
  BY OperateSteps DEF Ends, Resizes, Computes, Shares, Progress
<1>7. SUFFICES ASSUME stage' \in {"init", "built"}, NEW m \in Name, Fixed(m)' PROVE Good(m)'
  BY <1>6, <1>1, RightKept DEF Active, Early, Late, RightInv
<1>8. /\ m \notin Outs(net) \/ \E i \in DOMAIN q : q[i].out = m
      /\ m \in Outs(net) /\ stage' = "init" => \A i \in DOMAIN q : q[i].out = m => i < at'
  BY <1>1, <1>2, <1>7, FixedNext
<1>9. Made(m, 1) /\ HomeOf(m) = Home(m)
  BY <1>2, <1>8, FixedFromStart, FromStart
<1>10. ASSUME m # n,
              (stage' = "init" /\ at' = k) \/ Progress
       PROVE  Good(m)
  <2>1. m \in Outs(net) => \A i \in DOMAIN q : q[i].out = m => i < k
    <3> SUFFICES ASSUME m \in Outs(net), NEW i \in DOMAIN q, q[i].out = m PROVE i < k
      OBVIOUS
    <3>1. i # k /\ i \in Nat
      BY <1>2, <1>10
    <3>2. CASE stage' = "init" /\ at' = k
      BY <1>8, <3>2
    <3>3. CASE Progress
      BY <1>2, <1>8, <3>1, <3>3 DEF Progress
    <3> QED BY <1>10, <3>2, <3>3
  <2>2. Fixed(m)
    BY <1>2, <1>8, <2>1 DEF Fixed
  <2> QED BY <1>1, <2>2 DEF RightInv
<1>11. CASE Resizes
  <2>1. stage' = "init" /\ at' = k /\ OnlyTouches(n)
    BY <1>2, <1>11 DEF Resizes
  <2>2. m # n
    BY <1>2, <1>8, <2>1
  <2>3. Good(m)
    BY <1>10, <2>1, <2>2
  <2> QED BY <1>1, <1>2, <1>3, <1>5, <1>9, <2>1, <2>2, <2>3, OthersStay
<1>12. CASE Computes
  <2>1. CASE m = n
    BY <1>2, <1>12, <2>1, MakesRight
  <2>2. CASE m # n
    BY <1>10, <1>12, <2>2, <1>2, <1>1, <1>3, <1>5, <1>9, OthersStay DEF Computes
  <2> QED BY <2>1, <2>2
<1>13. CASE Ends
  BY <1>7, <1>13 DEF Ends, Active, Early
<1> QED BY <1>4, <1>11, <1>12, <1>13, OperateSteps DEF Shares

(* Init.                                                                   *)
LEMMA SetupRight ==
  ASSUME NetsAreWhole, TypeInv, MemoryInv, HomeInv, RightInv, UNCHANGED <<net, big>>, Setup
  PROVE  RightInv'
<1>1. stage \in Early /\ stage \in Active /\ net \in Nets /\ UNCHANGED <<given, result>>
  BY DEF Setup, CreateTensors, LoadModel, LoadBigModel, CreateOutputTensorBuffer, CreateInitNet,
         CreateNormalNet, Active, Early, MemoryInv, Goto, Refused
<1>2. Meaning' = Meaning
  BY <1>1, SameMeaning
<1>3. \A m \in Name : tensors[m].buffer \in {Null, HomeOf(m)} /\ tensors[m].buffer \in BufferId \cup {Null}
  BY <1>1 DEF HomeInv, MemoryInv, SoundTensor
<1>4. \A m \in Name : m \notin Outs(net) => Good(m)
  BY <1>1 DEF RightInv, Fixed
<1>5. SUFFICES ASSUME NEW m \in Name,
                      \/ stage' \in Early /\ Fixed(m)'
                      \/ stage' \in Late /\ Intact(m)'
               PROVE  Good(m)' /\ stage' # "feed"
  BY <1>1, <1>5, RightKept DEF RightInv, Setup, CreateTensors, LoadModel, LoadBigModel,
     CreateOutputTensorBuffer, CreateInitNet, CreateNormalNet, Goto, Refused, Return, Die, Early
<1>6. stage' \in Active
  BY <1>5 DEF Active
<1>7. stage' \in Early => \/ m \notin Outs(net)
                          \/ /\ \E i \in DOMAIN Ops(net, "INIT") : Ops(net, "INIT")[i].out = m
                             /\ \/ stage' = "built"
                                \/ stage' = "init" /\ \A i \in DOMAIN Ops(net, "INIT") :
                                                          Ops(net, "INIT")[i].out = m => i < at'
  BY <1>1, <1>5, FixedNext DEF Early, Late
<1>8. CASE CreateTensors
  BY <1>8, NewTensors DEF CreateTensors, Goto, Good, Usable
<1>9. CASE Loads
  <2>1. m \notin Outs(net) /\ stage = "load" /\ stage' = "pool"
    BY <1>7, <1>9 DEF Loads, Early
  <2>2. tensors[m].buffer = Null
    BY <1>1, <2>1 DEF HomeInv
  <2>3. CASE m \in Consts(net)
    <3>1. Meaning[m] = Source(m) /\ m \notin Range(net.inputs)
      BY <1>1, <2>1, <2>3, MeaningOf DEF Consts
    <3>2. Meaning[m].shape = WeightShape /\ Meaning[m].val = Const(m)
      BY <3>1 DEF Source
    <3>3. PICK h : h = Home(m) /\ tensors'[m].buffer = h /\ tensors'[m].shape = WeightShape
                   /\ buffers'[h].val = Const(m)
      BY <1>9, <2>3 DEF Loads
    <3> QED BY <1>2, <2>1, <3>2, <3>3 DEF Good
  <2>4. CASE m \notin Consts(net)
    BY <1>9, <2>1, <2>2, <2>4 DEF Loads, Good, Usable
  <2> QED BY <2>3, <2>4
<1>10. CASE Plans
  <2>1. m \notin Outs(net) /\ stage' = "create" /\ Good(m)
    BY <1>4, <1>7, <1>10 DEF Plans, Early
  <2>2. ~InPool(m) /\ HomeOf(m) = Home(m)
    BY <1>1, <2>1, Homes, FixedFromStart, FromStart
  <2>3. PICK b : b = tensors[m].buffer /\ tensors'[m] = tensors[m] /\ b \in {Null, Home(m)}
                 /\ b \in BufferId \cup {Null}
    BY <1>3, <1>10, <2>2 DEF Plans
  <2>4. b.of # "pool"
    BY <2>2, <2>3, Ids DEF Home, Null
  <2>5. Usable(b)' => Usable(b) /\ buffers'[b].val = buffers[b].val
    BY <1>10, Ids, <2>3, <2>4 DEF Plans, Usable
  <2> QED BY <1>2, <2>1, <2>3, <2>5, GoodStays
<1>11. CASE Builds
  <2>1. Good(m)
    <3>1. CASE stage = "create"
      <4>1. stage' \in Early /\ (stage' = "init" => at' = 1) /\ (stage' = "built" => Ops(net, "INIT") = <<>>)
        BY <1>11, <3>1 DEF Builds, Early, TypeInv
      <4>2. \A i \in DOMAIN Ops(net, "INIT") : i \in Nat /\ 1 <= i /\ i <= Len(Ops(net, "INIT"))
        BY <1>1, OpsAreOps
      <4>3. stage' \in {"init", "built"}
        BY <1>11, <3>1 DEF Builds
      <4>4. m \notin Outs(net)
        <5>1. ASSUME NEW i \in DOMAIN Ops(net, "INIT") PROVE Ops(net, "INIT") # <<>> /\ ~(i < 1)
          BY <4>2, <5>1
        <5> QED BY <1>7, <4>1, <4>2, <4>3, <5>1
      <4> QED BY <1>4, <4>4
    <3>2. CASE stage = "built"
      <4>1. stage' = "ready"
        BY <1>11, <3>2 DEF Builds
      <4>2. Intact(m)'
        BY <1>5, <4>1 DEF Early
      <4>3. Made(m, 1)
        <5>1. PICK p, w : p = Place' /\ w = Written' /\ p = 1
          BY <4>1 DEF Place
        <5> QED BY <1>1, <4>2, <5>1, IntactNext
      <4>4. Fixed(m)
        BY <1>1, <4>3, FromStart, <3>2, WhoMakes DEF Fixed
      <4> QED BY <1>1, <4>4 DEF RightInv
    <3> QED BY <1>11, <3>1, <3>2 DEF Builds
  <2>2. PICK b : b = tensors'[m].buffer /\ b \in {Null, tensors[m].buffer} /\ b \in BufferId \cup {Null}
                 /\ (b # Null => tensors'[m].shape = tensors[m].shape)
    BY <1>3, <1>11 DEF Builds
  <2>3. Usable(b)' => Usable(b) /\ buffers'[b].val = buffers[b].val /\ b # Null
    BY ONLY <1>11, Ids, <2>2 DEF Builds, Usable
  <2>4. stage' # "feed"
    BY <1>11 DEF Builds
  <2> QED BY <1>2, <2>1, <2>2, <2>3, <2>4 DEF Good
<1>12. CASE Ends
  BY <1>6, <1>12 DEF Ends
<1> QED BY <1>8, <1>9, <1>10, <1>11, <1>12, LoadIs, PlanIs, BuildIs DEF Setup

(* Run.  An input is written where nothing else is.                        *)
LEMMA FeedRight ==
  ASSUME NetsAreWhole, TypeInv, MemoryInv, ArgsInv, HomeInv, FitInv, RightInv, UNCHANGED <<net, big>>,
         FeedResize \/ FeedCopy
  PROVE  RightInv'
<1>1. stage = "feed" /\ stage \in Active /\ stage \in Late /\ net \in Nets /\ GoodBuffers(buffers) /\ todo # <<>>
      /\ todo \in Seq(Range(net.inputs)) /\ UNCHANGED result
  BY DEF FeedResize, FeedCopy, Active, Late, MemoryInv
<1>2. PICK n : n = Head(todo) /\ n \in Range(net.inputs)
  BY <1>1
<1>3. n \in Name /\ n \notin Outs(net)
  BY <1>1, <1>2, Homes
<1>4. Made(n, 1) /\ HomeOf(n) = Home(n) /\ \A m \in Name : m # n => Home(m) # Home(n)
  BY <1>1, <1>3, FixedFromStart, FromStart
<1>5. \A m \in Name : tensors[m].buffer \in {Null, HomeOf(m)}
  BY <1>1 DEF HomeInv
<1>6. \A m \in Name : result[m] = NoResult
  BY <1>1 DEF RightInv
<1>7. given' = [j \in Name |-> given'[j]] /\ result' = [j \in Name |-> result'[j]]
  BY <1>1, <1>3 DEF FeedResize, FeedCopy, RightInv
<1>8. stage' \notin Active \/ stage' \in {"feed", "ready"}
  BY <1>1 DEF FeedResize, FeedCopy, Resized, Return, Die, Active, Early, Late
<1>9. SUFFICES ASSUME stage' \in {"feed", "ready"}, NEW m \in Name, Intact(m)' PROVE Good(m)'
  BY <1>1, <1>6, <1>7, <1>8, RightKept DEF Active, Early
<1>10. PICK p, w : p = Place' /\ w = Written' /\ p = 1
  BY <1>9 DEF Place
<1>11. Made(m, 1) /\ ~Feeding(m)'
  BY <1>1, <1>9, <1>10, IntactNext
<1>12. HomeOf(m) = Home(m) /\ (\A v : ~Lost(m, v)) /\ \A i \in DOMAIN Normal : Normal[i].out # m
  BY <1>1, <1>11, FromStart
<1>13. (step = "compute" => m # n) => Good(m)
  BY <1>1, <1>2, <1>11, <1>12 DEF Intact, Place, Feeding, RightInv
<1>14. CASE FeedResize
  <2>1. step = "resize" /\ UNCHANGED <<given, todo>> /\ Feeds(n)
    BY <1>2, <1>9, <1>14, FeedIs DEF Ends, Active, Late, FeedResize, call
  <2>2. Meaning' = Meaning
    BY <2>1, SameMeaning
  <2>3. CASE m # n
    BY <1>4, <1>12, <1>13, <2>3, <2>1, <1>1, <1>3, <1>5, <2>2, OthersStay DEF Feeds
  <2>4. CASE m = n
    BY <1>2, <1>11, <2>1, <2>4 DEF Feeding, Feeds, Good, Usable
  <2> QED BY <2>3, <2>4
<1>15. CASE FeedCopy
  <2>1. /\ step = "compute" /\ HasMemory(n) /\ UNCHANGED tensors
        /\ buffers' = WithVal(tensors[n].buffer, <<"given", n, runs>>)
        /\ given' = [given EXCEPT ![n] = [run |-> runs, shape |-> shape]]
    BY <1>2, <1>9, <1>15 DEF FeedCopy, Copied, Die
  <2>2. PICK c \in Name : /\ Meaning[m] = Source(c) /\ Meaning'[m] = Source(c)'
                          /\ c \notin Outs(net) /\ (c = m \/ c \notin Range(net.inputs))
                          /\ m \notin Outs(net) => c = m
    BY <1>1, <1>12, StartMeans
  <2>3. given = [j \in Name |-> given[j]]
    BY DEF RightInv
  <2>4. CASE m # n
    BY <1>4, <1>12, <1>13, <2>4, <2>1, <2>2, <2>3, <1>1, <1>3, <1>5, OthersStay DEF Source
  <2>5. CASE m = n
    <3>1. given'[n] = [run |-> runs, shape |-> shape]
      BY <1>3, <2>1, <2>3
    <3>2. Meaning'[n] = Source(n)'
      BY <1>3, <2>2, <2>5
    <3>3. Source(n)' = [shape |-> shape, val |-> <<"given", n, runs>>]
      BY <1>1, <1>2, <3>1 DEF Source
    <3>4. tensors[n].shape = shape
      BY <1>1, <1>2, <2>1 DEF FitInv
    <3>5. PICK b : b = tensors[n].buffer /\ b \in BufferId
      BY <1>1, <1>3, <2>1 DEF MemoryInv, SoundTensor, HasMemory
    <3>6. Usable(b)' => buffers'[b].val = <<"given", n, runs>>
      BY <1>1, <2>1, <3>5, WithValUsable
    <3> QED BY <2>1, <2>5, <3>2, <3>3, <3>4, <3>5, <3>6 DEF Good
  <2> QED BY <2>4, <2>5
<1> QED BY <1>14, <1>15

(* The rest of Run changes no memory.                                      *)
LEMMA CallRight ==
  ASSUME NetsAreWhole, TypeInv, MemoryInv, HomeInv, FitInv, RightInv, UNCHANGED <<net, big>>,
         CallRun \/ RunNet \/ CopyOutput \/ RunReturns
  PROVE  RightInv'
<1>1. /\ stage \in {"ready", "feed", "copy"} /\ stage \in Active /\ stage \in Late /\ net \in Nets
      /\ UNCHANGED <<tensors, buffers, given>>
  BY DEF CallRun, RunNet, CopyOutput, RunReturns, Active, Late, MemoryInv, Goto
<1>2. Meaning' = Meaning
  BY <1>1, SameMeaning
<1>3. Normal' = Normal
  BY DEF Normal
<1>4. stage = "feed" => step # "compute" /\ stage' # "feed" /\ stage' # "ready"
  BY DEF CallRun, RunNet, CopyOutput, RunReturns, FitInv, Goto
<1>5. \/ stage' \notin Active \/ stage' = "ready"
      \/ stage = "ready" /\ stage' = "feed" /\ step' = "resize"
      \/ stage = "feed" /\ stage' = "run" /\ at' = 1 /\ step' # "compute"
      \/ stage = "feed" /\ stage' = "copy" /\ Len(Normal) = 0
      \/ stage = "copy" /\ stage' = "copy"
  <2>1. CASE CallRun
    BY <2>1 DEF CallRun
  <2>2. CASE RunNet
    BY <2>2, <1>4 DEF RunNet, Goto, control, TypeInv, Todo, Normal
  <2>3. CASE CopyOutput \/ RunReturns
    BY <2>3 DEF CopyOutput, RunReturns, Return, Die, Active, Early, Late
  <2> QED BY <2>1, <2>2, <2>3
<1>6. stage' \in Early => FALSE
  BY <1>5 DEF Active, Early, Late
<1>7. ASSUME stage' \in Late, NEW m \in Name, Intact(m)'
      PROVE  Good(m)'
  <2>1. PICK p, w : p = Place' /\ w = Written'
    OBVIOUS
  <2>2. Made(m, p) /\ ~Lost(m, w) /\ ~Feeding(m)'
    BY <1>1, <1>7, <2>1, IntactNext
  <2>3. stage' \in Active
    BY <1>7 DEF Active
  <2>4. Intact(m)
    <3>1. CASE p = 1
      <4>1. Made(m, Place)
        <5>1. Place \in Int
          BY <1>1, NormalFacts DEF Place
        <5>2. PICK k \in Int : k = Place
          BY <5>1
        <5> QED BY <1>1, <2>2, <3>1, <5>2, FromStart
      <4>2. ~Lost(m, Written)
        BY <1>1, <2>2, <3>1, FromStart
      <4> QED BY <1>4, <4>1, <4>2 DEF Intact, Feeding
    <3>2. CASE stage = "copy" /\ stage' = "copy"
      BY <1>3, <2>1, <3>2, <2>2 DEF Place, Written, Intact, Feeding
    <3>3. p = 1 \/ (stage = "copy" /\ stage' = "copy")
      BY <1>3, <1>5, <2>1, <2>3 DEF Place
    <3> QED BY <3>1, <3>2, <3>3
  <2>5. PICK b : b = tensors[m].buffer /\ tensors'[m] = tensors[m] /\ UNCHANGED buffers
    BY <1>1
  <2>6. Usable(b)' <=> Usable(b)
    BY <2>5 DEF Usable
  <2>7. Good(m)
    BY <1>1, <2>4 DEF RightInv
  <2> QED BY <1>2, <2>5, <2>6, <2>7, GoodStays
<1>8. result = [n \in Name |-> result[n]] /\ given' = [n \in Name |-> given'[n]]
  BY <1>1 DEF RightInv
<1>9. CASE CallRun
  BY <1>9, <1>1, <1>6, <1>7, <1>8, RightKept DEF CallRun
<1>10. CASE UNCHANGED result
  BY <1>4, <1>5, <1>8, <1>10, <1>1, <1>6, <1>7, <1>9, RightKept DEF CallRun, RunNet, CopyOutput, RunReturns,
     Active, Late, RightInv
<1>11. CASE CopyOutput /\ ~UNCHANGED result
  <2>1. asked.todo # <<>> /\ asked.todo \in Seq(Range(net.outputs)) /\ stage = "copy"
    BY <1>11 DEF CopyOutput, HomeInv, Listed
  <2>2. PICK n : n = Head(asked.todo) /\ n \in Range(net.outputs) /\ n \in Name
    BY <1>1, <2>1, OutputsAreNames
  <2>3. /\ HasMemory(n) /\ UNCHANGED stage
        /\ result' = [result EXCEPT ![n] = [shape |-> tensors[n].shape, val |-> Content(tensors[n].buffer)]]
    BY <1>11, <2>2 DEF CopyOutput, call
  <2>4. InNet(n, "NORMAL")
    <3>1. PICK o \in Range(net.ops) : o.out = n /\ o.mode = "NORMAL"
      BY <1>1, <2>2 DEF NetsAreWhole, ResultsStay
    <3>2. PICK j \in DOMAIN net.ops : net.ops[j] = o
      BY <3>1 DEF Range
    <3>3. PICK i \in DOMAIN Ops(net, "NORMAL") : Ops(net, "NORMAL")[i] = o
      BY <1>1, <3>1, <3>2, OpsAreAll
    <3> QED BY <3>1, <3>3 DEF InNet
  <2>5. Usable(tensors[n].buffer)
    BY <1>1, <2>2, <2>3, <2>4, UsableThere
  <2>6. Good(n)
    BY <1>1, NormalFacts, <2>2, PlanOfNormal, <2>1 DEF Made, Lost, Intact, Place, Written, Feeding,
       RightInv
  <2>7. [shape |-> tensors[n].shape, val |-> Content(tensors[n].buffer)] = Meaning[n]
    BY <2>5, <2>6, <1>1, <2>2, MeaningRecord DEF Good, Content
  <2>8. /\ result' = [m \in Name |-> result'[m]] /\ result'[n] = Meaning[n]
        /\ \A m \in Name : m # n => result'[m] = result[m]
    BY <1>8, <2>2, <2>3, <2>7
  <2>9. OutputsAreRight'
    <3>1. OutputsAreRight
      BY DEF RightInv
    <3>2. ASSUME NEW m \in Range(net.outputs), result'[m] # NoResult PROVE result'[m] = Meaning'[m]
      <4>1. m \in Name
        BY <1>1, OutputsAreNames
      <4> QED BY <1>2, <2>8, <3>1, <3>2, <4>1 DEF OutputsAreRight
    <3> QED BY <3>2 DEF OutputsAreRight
  <2>10. stage' # "feed"
    BY <2>1, <2>3
  <2> QED BY <1>1, <1>6, <1>7, <1>8, <2>8, <2>9, <2>10, RightKept
<1> QED BY <1>9, <1>10, <1>11 DEF RunNet, RunReturns, Goto

LEMMA RightInit == Init => RightInv
<1> SUFFICES ASSUME Init PROVE RightInv
  OBVIOUS
<1>1. /\ given = [n \in Name |-> Given0] /\ result = [n \in Name |-> NoResult] /\ stage = "new"
      /\ tensors = [n \in Name |-> NoTensor] /\ net \in Nets
  BY DEF Init, NoMemoryYet
<1>2. \A m \in Name : Good(m)
  BY <1>1, NewTensors DEF Good, Usable
<1>3. OutputsAreRight
  BY <1>1, OutputsAreNames DEF OutputsAreRight
<1> QED BY <1>1, <1>2, <1>3 DEF RightInv, Late

LEMMA RightStays ==
  ASSUME net \in Nets, RightInv, UNCHANGED vars
  PROVE  RightInv'
<1>1. UNCHANGED <<tensors, buffers, net, stage, at, step, todo, given, result>>
  BY DEF vars, control, call
<1>2. Meaning' = Meaning /\ Normal' = Normal
  BY <1>1, SameMeaning DEF Normal
<1>3. ASSUME NEW m \in Name, Good(m) PROVE Good(m)'
  <2>1. PICK b : b = tensors[m].buffer
    OBVIOUS
  <2>2. Usable(b)' <=> Usable(b)
    BY <1>1 DEF Usable
  <2> QED BY <1>1, <1>2, <1>3, <2>1, <2>2, GoodStays
<1>4. ASSUME NEW m \in Name, Intact(m)' PROVE Intact(m)
  <2>1. PICK p, w : p = Place' /\ w = Written' /\ p = Place /\ w = Written
    BY <1>1, <1>2 DEF Place, Written
  <2>2. Made(m, p) /\ ~Lost(m, w) /\ ~Feeding(m)'
    BY <1>1, <1>4, <2>1, IntactNext
  <2> QED BY <1>1, <2>1, <2>2 DEF Intact, Feeding
<1>5. \A m \in Name : Fixed(m)' => Fixed(m)
  BY <1>1 DEF Fixed
<1>6. given' = [j \in Name |-> given'[j]] /\ result' = [j \in Name |-> result'[j]] /\ OutputsAreRight
  BY <1>1 DEF RightInv
<1>7. stage' \in Early => \A m \in Name : Fixed(m)' => Good(m)'
  BY <1>1, <1>3, <1>5 DEF RightInv
<1>8. stage' \in Late => \A m \in Name : Intact(m)' => Good(m)'
  BY <1>1, <1>3, <1>4 DEF RightInv
<1>9. stage' = "feed" => \A m \in Name : result'[m] = NoResult
  BY <1>1 DEF RightInv
<1> QED BY <1>1, <1>6, <1>7, <1>8, <1>9, RightKept

LEMMA RightNext ==
  ASSUME NetsAreWhole, TypeInv, MemoryInv, ArgsInv, HomeInv, FitInv, RightInv, [Next]_vars
  PROVE  RightInv'
<1>1. UNCHANGED <<net, big>> /\ net \in Nets
  BY BigStays DEF MemoryInv
<1>2. CASE UNCHANGED vars \/ Stopped
  BY <1>1, <1>2, RightStays DEF Stopped
<1>3. CASE Operate
  BY <1>3, OperatesAt, OperateInit, OperateRun
<1>4. CASE Setup
  BY <1>1, <1>4, SetupRight
<1>5. CASE Serve
  BY <1>1, <1>5, FeedRight, CallRight DEF Serve
<1>6. CASE Destroy
  BY <1>6, <1>1, RightKept DEF Destroy, Goto, RightInv, Early, Late
<1> QED BY <1>2, <1>3, <1>4, <1>5, <1>6 DEF Next

(* For every net in order and plan that is safe, any number of calls of    *)
(* any shapes and any allocation failing, what is copied out is what the   *)
(* net computes from the latest inputs: although tensors share blocks of   *)
(* memory, are other names of each other's, and kernels run with the       *)
(* arguments of an earlier call.                                           *)
THEOREM ResultsRight ==
  ASSUME NetsAreWhole
  PROVE  Spec => []OutputsAreRight
<1>1. NetsAreGood /\ \A n \in Nets : WeightsAreConverted(n)
  BY DEF NetsAreWhole, NetsAreGood
<1> DEFINE Inv == TypeInv /\ MemoryInv /\ ArgsInv /\ HomeInv /\ FitInv /\ RightInv
<1>2. Init => Inv
  BY TypeInit, MemoryInit, ArgsInit, HomeInit, FitInit, RightInit
<1>3. Inv /\ [Next]_vars => Inv'
  BY <1>1, TypeNext, MemoryNext, ArgsNext, HomeNext, FitNext, RightNext
<1>4. Inv => OutputsAreRight
  BY DEF RightInv
<1> QED BY <1>2, <1>3, <1>4, PTL DEF Spec

-----------------------------------------------------------------------------
(* That nothing is fatal unless an allocation has failed or a tensor       *)
(* exceeds its image.  Until then a pointer, once set, stays set, and has  *)
(* memory of the right kind behind it, on the CPU enough.                  *)
Has(n) == tensors[n].buffer # Null

Measured(b) == b.phys[1] \in Int /\ b.phys[2] \in Int

Backed(m) ==
  LET b == buffers[tensors[m].buffer] IN
  /\ b.mem /\ (b.image <=> InImage(net, m)) /\ Measured(b)
  /\ ~OnGPU => b.size \in Nat /\ Elements(tensors[m].shape) <= b.size
  /\ Has(Root(net)[m])

NetsFit == NetsAreWhole /\ \A n \in Nets : NetFits(n)

LEMMA GotMemory ==
  ASSUME NEW n, NEW h \in BufferId, GoodBuffers(buffers), NEW v, NEW got,
         IsBuffer(v), v.mem <=> got, "ok" = (IF got THEN "ok" ELSE "oom"),
         buffers' = [buffers EXCEPT ![h] = v]
  PROVE  /\ \A b \in BufferId : b # h => buffers'[b] = buffers[b]
         /\ buffers'[h] = v /\ v.mem
BY DEF GoodBuffers

LEMMA ElementsOf == \A s \in TensorShapes : Elements(s) \in Nat
<1> DEFINE made == Shapes \cup {NoShape, WeightShape}
<1>1. TensorShapes = made \cup {Flat(s) : s \in made}
  BY DEF TensorShapes
<1>2. \A s \in made : s[1] \in Nat /\ s[2] \in Nat /\ s[3] \in Nat
  BY EngineAssumption DEF NoShape, WeightShape
<1> HIDE DEF made
<1>3. \A a, b \in Nat : a * b \in Nat
  OBVIOUS
<1>4. \A s \in made : Elements(s) \in Nat
  BY <1>2, <1>3 DEF Elements
<1>5. \A k \in Nat : Elements(<<1, 1, k>>) = k
  BY DEF Elements
<1> QED BY <1>1, <1>4, <1>5 DEF Flat

LEMMA ImageOf ==
  ASSUME NEW s, s[1] \in Nat, s[2] \in Nat, s[3] \in Nat
  PROVE  ImageShape(s)[1] \in Int /\ ImageShape(s)[2] \in Int
BY DEF ImageShape

LEMMA ShapeNumbers == \A s \in TensorShapes : s[1] \in Nat /\ s[2] \in Nat /\ s[3] \in Nat
<1> DEFINE made == Shapes \cup {NoShape, WeightShape}
<1>1. TensorShapes = made \cup {Flat(s) : s \in made}
  BY DEF TensorShapes
<1>2. made \subseteq TensorShapes /\ \A s \in made : s[1] \in Nat /\ s[2] \in Nat /\ s[3] \in Nat
  BY <1>1, EngineAssumption DEF NoShape, WeightShape
<1> HIDE DEF made
<1>3. \A s \in made : Elements(s) \in Nat
  BY <1>2, ElementsOf
<1> QED BY <1>1, <1>2, <1>3 DEF Flat

LEMMA FlatElements == \A s \in TensorShapes : Elements(Flat(s)) = Elements(s)
BY ElementsOf DEF Elements, Flat

(* What resizing that ends well does to the tensor's memory.               *)
LEMMA ResizeMakes ==
  ASSUME GoodBuffers(buffers), NEW n \in Name, NEW h \in BufferId,
         tensors[n].buffer \in {Null, h}, ~Has(n) => h = Own(n),
         Has(n) => buffers[h].mem, NEW s, Elements(s) \in Nat,
         Resize(n, s, "ok")
  PROVE  /\ SetTo(n, s, h)
         /\ \A b \in BufferId : b # h => buffers'[b] = buffers[b]
         /\ buffers'[h].mem /\ ~buffers'[h].image
         /\ (Has(n) => Measured(buffers[h])) => Measured(buffers'[h])
         /\ (Has(n) => buffers[h].size \in Nat) =>
              /\ buffers'[h].size \in Nat /\ Elements(s) <= buffers'[h].size
              /\ Has(n) => buffers[h].size <= buffers'[h].size
<1>1. PICK e, need : e \in Nat /\ e = Elements(s) /\ need = e + Pad
  OBVIOUS
<1>2. e \in Nat /\ need \in Nat /\ e <= need
  BY <1>1, TensorsAssumption
<1>3. \A old, got : /\ IsBuffer(Allocated(old, need, got)) /\ (Allocated(old, need, got).mem <=> got)
                    /\ ~Allocated(old, need, got).image /\ Allocated(old, need, got).size = need
                    /\ Measured(Allocated(old, need, got))
  BY Records DEF Allocated, Measured
<1>4. \/ /\ ~Has(n) \/ need > buffers[h].size
         /\ SetTo(n, s, h)
         /\ \E got : /\ buffers' = [buffers EXCEPT ![h] = Allocated(buffers[h], need, got)]
                     /\ "ok" = IF got THEN "ok" ELSE "oom"
      \/ /\ Has(n) /\ need <= buffers[h].size /\ ~buffers[h].image
         /\ SetTo(n, s, h) /\ UNCHANGED buffers
  BY <1>1 DEF Resize, SetTo, Has, HasImage
<1>5. CASE Has(n) /\ need <= buffers[h].size /\ ~buffers[h].image /\ SetTo(n, s, h) /\ UNCHANGED buffers
  BY <1>2, <1>5, <1>1
<1>6. ASSUME ~Has(n) \/ need > buffers[h].size, NEW got,
             buffers' = [buffers EXCEPT ![h] = Allocated(buffers[h], need, got)],
             "ok" = IF got THEN "ok" ELSE "oom"
      PROVE  /\ \A b \in BufferId : b # h => buffers'[b] = buffers[b]
             /\ buffers'[h].mem /\ ~buffers'[h].image /\ buffers'[h].size = need
             /\ Measured(buffers'[h])
             /\ Has(n) /\ buffers[h].size \in Nat => buffers[h].size <= need
  <2>1. PICK v : v = Allocated(buffers[h], need, got)
    OBVIOUS
  <2>2. IsBuffer(v) /\ (v.mem <=> got) /\ ~v.image /\ v.size = need /\ Measured(v)
    BY <1>3, <2>1
  <2>3. (\A b \in BufferId : b # h => buffers'[b] = buffers[b]) /\ buffers'[h] = v /\ v.mem
    BY <1>6, <2>1, <2>2, GotMemory
  <2>4. Has(n) /\ buffers[h].size \in Nat => buffers[h].size <= need
    BY <1>2, <1>6
  <2> QED BY <2>2, <2>3, <2>4
<1> QED BY <1>1, <1>2, <1>4, <1>5, <1>6

LEMMA ResizeImageMakes ==
  ASSUME GoodBuffers(buffers), NEW n \in Name, NEW h \in BufferId,
         tensors[n].buffer \in {Null, h}, ~Has(n) => h = Own(n),
         Has(n) => buffers[h].mem, NEW s \in TensorShapes, ResizeImage(n, s, "ok")
  PROVE  /\ SetTo(n, s, h)
         /\ \A b \in BufferId : b # h => buffers'[b] = buffers[b]
         /\ buffers'[h].mem /\ buffers'[h].image
         /\ (Has(n) => Measured(buffers[h])) => Measured(buffers'[h])
<1>1. PICK i : i = ImageShape(s) /\ i[1] \in Int /\ i[2] \in Int
  BY ShapeNumbers, ImageOf
<1>2. \A old, got : /\ IsBuffer(AllocatedImage(old, i, got)) /\ (AllocatedImage(old, i, got).mem <=> got)
                    /\ AllocatedImage(old, i, got).image /\ Measured(AllocatedImage(old, i, got))
  BY <1>1, Records DEF AllocatedImage, Measured
<1>3. \/ /\ SetTo(n, s, h)
         /\ \E got : /\ buffers' = [buffers EXCEPT ![h] = AllocatedImage(buffers[h], i, got)]
                     /\ "ok" = IF got THEN "ok" ELSE "oom"
      \/ Has(n) /\ buffers[h].image /\ SetTo(n, s, h) /\ UNCHANGED buffers
  BY <1>1 DEF ResizeImage, SetTo, Has, HasImage
<1>4. ASSUME NEW got, buffers' = [buffers EXCEPT ![h] = AllocatedImage(buffers[h], i, got)],
             "ok" = IF got THEN "ok" ELSE "oom"
      PROVE  /\ \A b \in BufferId : b # h => buffers'[b] = buffers[b]
             /\ buffers'[h].mem /\ buffers'[h].image /\ Measured(buffers'[h])
  <2>1. PICK v : v = AllocatedImage(buffers[h], i, got)
    OBVIOUS
  <2>2. IsBuffer(v) /\ (v.mem <=> got) /\ v.image /\ Measured(v)
    BY <1>2, <2>1
  <2>3. (\A b \in BufferId : b # h => buffers'[b] = buffers[b]) /\ buffers'[h] = v /\ v.mem
    BY <1>4, <2>1, <2>2, GotMemory
  <2> QED BY <2>2, <2>3
<1> QED BY <1>3, <1>4

(* Resizing is fatal for a tensor that neither has nor may have memory of  *)
(* the kind, for a slice, and for what exceeds its image.                  *)
LEMMA ResizeLives ==
  ASSUME NEW n \in Name, NEW s, Has(n) \/ tensors[n].owner,
         Has(n) => ~HasImage(n) /\ tensors[n].buffer.of # "slice"
  PROVE  ~Resize(n, s, "fatal")
BY DEF Resize, Has, HasImage, Null

LEMMA ResizeImageLives ==
  ASSUME GoodTensors(tensors), NEW n \in Name, NEW s \in TensorShapes, Has(n) \/ tensors[n].owner,
         Has(n) => HasImage(n) /\ Measured(buffers[tensors[n].buffer]), ResizeImage(n, s, "fatal")
  PROVE  TooLarge(n)'
<1>1. PICK i, b : i = ImageShape(s) /\ b = tensors[n].buffer /\ i[1] \in Int /\ i[2] \in Int
  BY ShapeNumbers, ImageOf
<1>2. /\ HasImage(n) /\ SetTo(n, s, b) /\ UNCHANGED buffers
      /\ ~(i[1] <= buffers[b].phys[1] /\ i[2] <= buffers[b].phys[2])
  BY <1>1 DEF ResizeImage, Has, HasImage, SetTo
<1>3. tensors'[n].shape = s /\ tensors'[n].buffer = b
  BY <1>2, SetToFacts
<1>4. HasImage(n)'
  BY <1>1, <1>2, <1>3 DEF HasImage
<1>5. i[1] > buffers[b].phys[1] \/ i[2] > buffers[b].phys[2]
  BY <1>1, <1>2 DEF Measured, HasImage, Has
<1> QED BY <1>1, <1>2, <1>3, <1>4, <1>5 DEF TooLarge
-----------------------------------------------------------------------------
(* Which memory is an image: that of what makes images, on the GPU, and    *)
(* of its other names.                                                     *)
LEMMA Kinds ==
  ASSUME NetsFit, net \in Nets
  PROVE  /\ \A o \in Range(net.ops) : ~Aliasing(o.type) =>
              (InImage(net, o.out) <=> OnGPU /\ o.type \in {"BufferToImage", "Activation", "AddN"})
         /\ \A i \in DOMAIN Normal : Aliasing(Normal[i].type) =>
              (InImage(net, Normal[i].out) <=> InImage(net, Normal[i].in[1]))
         /\ \A m \in Name : m \notin Outs(net) => ~InImage(net, m)
         /\ \A m, n \in Name : HomeOf(m) = HomeOf(n) => (InImage(net, m) <=> InImage(net, n))
         /\ \A r \in Name : InPool(r) => (InImage(net, r) <=> OnGPU)
<1> USE DEF NetsFit
<1>1. \A m : InImage(net, m) <=>
        OnGPU /\ \E o \in Range(net.ops) : o.out = Root(net)[m] /\ o.type \in {"BufferToImage", "Activation", "AddN"}
  BY DEF InImage, OnGPU
<1>2. \A o \in Range(net.ops) : /\ o.out \in Name /\ o.out \in Outs(net) /\ o.type \in Types
                                /\ \A p \in Range(net.ops) : p.out = o.out => p = o
  BY NetFacts DEF Range, Outs
<1>3. ASSUME NEW o \in Range(net.ops), ~Aliasing(o.type)
      PROVE  Root(net)[o.out] = o.out
  BY <1>2, <1>3, RootOf DEF Maker
<1>4. ASSUME NEW o \in Range(net.ops), ~Aliasing(o.type)
      PROVE  InImage(net, o.out) <=> OnGPU /\ o.type \in {"BufferToImage", "Activation", "AddN"}
  BY <1>1, <1>2, <1>3, <1>4
<1>5. ASSUME NEW i \in DOMAIN Normal, Aliasing(Normal[i].type)
      PROVE  InImage(net, Normal[i].out) <=> InImage(net, Normal[i].in[1])
  BY <1>5, Roots, <1>1
<1>6. ASSUME NEW m \in Name, m \notin Outs(net) PROVE ~InImage(net, m)
  BY <1>1, <1>2, <1>6, RootOf
<1>7. ASSUME NEW i \in DOMAIN Normal, Normal[i].mem # None, ShouldPreallocate(Normal[i])
      PROVE  /\ InImage(net, Normal[i].out) <=> OnGPU
             /\ Root(net)[Normal[i].out] = Normal[i].out
  <2>1. PICK o \in Range(net.ops) : o = Normal[i]
    BY OpsAreOps DEF Normal, Range
  <2>2. o.type \in Types /\ ~Aliasing(o.type)
    BY <1>2, <1>7, <2>1 DEF ShouldPreallocate
  <2>3. OnGPU => o.type # "ImageToBuffer"
    BY <1>7, <2>1 DEF NetFits, FormatsFit, OnGPU
  <2>4. OnGPU => o.type \in {"BufferToImage", "Activation", "AddN"}
    BY <2>2, <2>3 DEF Types, Aliasing
  <2> QED BY <1>3, <1>4, <2>1, <2>2, <2>4
<1>8. ASSUME NEW m \in Name, NEW n \in Name, HomeOf(m) = HomeOf(n)
      PROVE  InImage(net, m) <=> InImage(net, n)
  <2>1. PICK r, s \in Name : r = Root(net)[m] /\ s = Root(net)[n] /\ Home(r) = Home(s)
    BY <1>8, Roots DEF HomeOf
  <2>2. CASE r = s
    BY <1>1, <2>1, <2>2
  <2>3. CASE r # s
    <3>1. PICK i, j \in DOMAIN Normal :
                         /\ Normal[i].out = r /\ Normal[j].out = s
                         /\ Normal[i].mem = Normal[j].mem /\ Normal[j].mem # None
                         /\ ShouldPreallocate(Normal[i]) /\ ShouldPreallocate(Normal[j])
      BY <2>1, <2>3, Homes
    <3>2. (InImage(net, r) <=> OnGPU) /\ (InImage(net, s) <=> OnGPU) /\ Root(net)[r] = r /\ Root(net)[s] = s
      BY <1>7, <3>1
    <3> QED BY <1>1, <2>1, <3>2
  <2> QED BY <2>2, <2>3
<1>9. ASSUME NEW r \in Name, InPool(r) PROVE InImage(net, r) <=> OnGPU
  BY <1>7, <1>9 DEF InPool
<1> QED BY <1>4, <1>5, <1>6, <1>8, <1>9

LEMMA OwnHome ==
  ASSUME NetsFit, net \in Nets, NEW r \in Name, NEW n \in Name, Home(r) = Home(n), ~InPool(n)
  PROVE  r = n
<1> SUFFICES ASSUME r # n PROVE FALSE
  OBVIOUS
<1>1. NetsAreWhole
  BY DEF NetsFit
<1>2. PICK i, j \in DOMAIN Normal :
        /\ Normal[i].out = r /\ Normal[j].out = n
        /\ Normal[i].mem = Normal[j].mem /\ Normal[j].mem # None
        /\ ShouldPreallocate(Normal[i]) /\ ShouldPreallocate(Normal[j])
  BY <1>1, Homes
<1> QED BY <1>2 DEF InPool

(* Memory that is made, or made anew, for one tensor backs all it backed.  *)
LEMMA BacksTouched ==
  ASSUME NetsFit, net \in Nets, UNCHANGED <<net, big>>, NEW n \in Name, Root(net)[n] = n,
         \A m \in Name : tensors[m].buffer \in {Null, HomeOf(m)} /\ tensors[m].shape \in TensorShapes,
         \A m \in Name : Has(m) => Backed(m),
         NEW h \in BufferId, h = Home(n), ~Has(n) => h = Own(n), NEW s,
         \A m \in Name : m # n => tensors'[m].buffer = tensors[m].buffer /\ tensors'[m].shape = tensors[m].shape,
         tensors'[n].buffer = h /\ tensors'[n].shape = s,
         \A b \in BufferId : b # h => buffers'[b] = buffers[b],
         buffers'[h].mem /\ Measured(buffers'[h]), buffers'[h].image <=> InImage(net, n),
         ~OnGPU => /\ buffers'[h].size \in Nat /\ Elements(s) <= buffers'[h].size
                   /\ Has(n) => buffers[h].size <= buffers'[h].size
  PROVE  \A m \in Name : Has(m)' => Backed(m)'
<1> SUFFICES ASSUME NEW m \in Name, Has(m)' PROVE Backed(m)'
  OBVIOUS
<1>1. /\ h # Null /\ (\A k \in Name : InImage(net, k)' <=> InImage(net, k)) /\ OnGPU' = OnGPU
      /\ Root(net)' = Root(net)
  BY Homes DEF InImage, OnGPU, NetsFit
<1>2. \A k \in Name : Has(k) => Has(k)'
  BY <1>1 DEF Has
<1>3. PICK r \in Name : r = Root(net)[m]
  BY Roots DEF NetsFit
<1>4. m = n \/ Has(r)
  BY <1>3 DEF Has, Backed
<1>5. Has(r)'
  BY <1>1, <1>2, <1>3, <1>4 DEF Has
<1>6. CASE HomeOf(m) # h
  <2>1. m # n /\ Has(m) /\ Backed(m)
    BY <1>6 DEF HomeOf, Has
  <2>2. PICK b \in BufferId : b = tensors[m].buffer /\ b # h
    BY <1>3, <1>6, <2>1, Homes DEF Has, HomeOf, NetsFit
  <2>3. tensors'[m].buffer = b /\ buffers'[b] = buffers[b] /\ tensors'[m].shape = tensors[m].shape
    BY <2>1, <2>2
  <2> QED BY <1>1, <1>3, <1>5, <2>1, <2>2, <2>3 DEF Backed
<1>7. CASE HomeOf(m) = h
  <2>1. InImage(net, m) <=> InImage(net, n)
    BY <1>7, Kinds DEF HomeOf
  <2>2. tensors'[m].buffer = h
    BY <1>7 DEF Has
  <2>3. ASSUME ~OnGPU, m # n PROVE Elements(tensors'[m].shape) <= buffers'[h].size
    <3>1. Has(m) /\ tensors[m].buffer = h /\ Backed(m) /\ tensors'[m].shape = tensors[m].shape
      BY <1>7, <2>3 DEF Has
    <3>2. Has(r)
      BY <1>3, <3>1 DEF Backed
    <3>3. Has(n)
      <4> SUFFICES ASSUME h = Own(n) PROVE r = n
        BY <3>2
      <4>1. Home(r) = Home(n)
        BY <1>3, <1>7 DEF HomeOf
      <4>2. ~InPool(n)
        BY Ids, Homes DEF Home
      <4> QED BY <4>1, <4>2, OwnHome
    <3>4. PICK e \in Nat : e = Elements(tensors[m].shape)
      BY ElementsOf
    <3>5. PICK a, b \in Nat : a = buffers[h].size /\ b = buffers'[h].size /\ e <= a /\ a <= b
      BY <2>3, <3>1, <3>3, <3>4 DEF Backed
    <3> QED BY <3>1, <3>4, <3>5
  <2>4. ~OnGPU => buffers'[h].size \in Nat /\ Elements(tensors'[m].shape) <= buffers'[h].size
    BY <2>3
  <2> QED BY <1>1, <1>3, <1>5, <2>1, <2>2, <2>4 DEF Backed
<1> QED BY <1>6, <1>7

(* A value that is written changes nothing else.                           *)
LEMMA WithValKeeps ==
  ASSUME GoodBuffers(buffers), NEW c, NEW v, buffers' = WithVal(c, v) \/ UNCHANGED buffers, NEW b \in BufferId
  PROVE  /\ buffers'[b].mem = buffers[b].mem /\ buffers'[b].image = buffers[b].image
         /\ buffers'[b].phys = buffers[b].phys /\ buffers'[b].size = buffers[b].size
<1>1. PICK u, w : u = buffers[b] /\ w = [u EXCEPT !.val = v] /\ IsBuffer(u)
  BY DEF GoodBuffers
<1>2. w.mem = u.mem /\ w.image = u.image /\ w.phys = u.phys /\ w.size = u.size
  BY <1>1 DEF IsBuffer, BufferFields
<1>3. buffers'[b] \in {u, w}
  BY <1>1 DEF WithVal, GoodBuffers
<1> QED BY <1>1, <1>2, <1>3

(* Buffers that keep what backs tensors, and pointers that stay.           *)
LEMMA BacksStay ==
  ASSUME NetsFit, net \in Nets, UNCHANGED <<net, big>>,
         NEW m \in Name, tensors[m].buffer \in BufferId \cup {Null}, Has(m), Backed(m),
         tensors'[m].buffer = tensors[m].buffer /\ tensors'[m].shape = tensors[m].shape,
         Has(Root(net)[m]) => Has(Root(net)[m])',
         \A b \in BufferId :
           /\ buffers'[b].mem = buffers[b].mem /\ buffers'[b].image = buffers[b].image
           /\ buffers'[b].phys = buffers[b].phys /\ buffers'[b].size = buffers[b].size
  PROVE  Backed(m)'
<1>1. /\ InImage(net, m)' <=> InImage(net, m)
      /\ OnGPU' = OnGPU /\ Root(net)' = Root(net)
  BY DEF InImage, OnGPU
<1>2. PICK b \in BufferId : b = tensors[m].buffer
  BY DEF Has
<1> QED BY <1>1, <1>2 DEF Backed, Measured
-----------------------------------------------------------------------------
(* What is ready while no allocation has failed: who may make its memory,  *)
(* what exists and has memory while the nets are built, and while they run.*)
Owners ==
  \A m \in Name : /\ tensors[m].state = "none" \/ Has(m) \/ tensors[m].owner \/ IsAlias(m)
                  /\ stage \in Early /\ IsAlias(m) => ~Has(m)

Loaded == {"pool", "create", "init", "built"}

Stands ==
  /\ stage \in Early \ {"new"} => \A m \in Range(net.inputs) : tensors[m].state = "live"
  /\ stage \in Late => \A m \in Range(net.inputs) : tensors[m].state # "none"
  /\ stage \in Loaded => \A m \in Consts(net) : tensors[m].state = "live"
  /\ stage \in Loaded \cup Late => \A m \in Consts(net) : Has(m)
  /\ stage \in {"init", "built"} =>
       \A i \in DOMAIN Ops(net, "INIT") : tensors[Ops(net, "INIT")[i].out].state = "live"
  /\ stage \in {"init", "built"} \cup Late =>
       \A i \in DOMAIN Ops(net, "INIT") : stage # "init" \/ i < at => Has(Ops(net, "INIT")[i].out)

Calls ==
  /\ \A m \in Name : given[m].shape # NoShape => Has(m) /\ stage \notin Early
  /\ stage \in {"feed", "run", "copy"} =>
       /\ shape # NoShape
       /\ \A m \in Range(net.inputs) : given[m].shape = shape \/ (stage = "feed" /\ m \in Range(todo))
  /\ \A i \in DOMAIN Normal : i < Place => Has(Normal[i].out)
  /\ AtOp /\ step = "compute" => Has(op.out)
  /\ stage = "feed" /\ step = "compute" => Has(Head(todo))

Backs == \A m \in Name : Has(m) => Backed(m)

ReadyInv == stage \in Active /\ ~starved => Backs /\ Owners /\ Stands /\ Calls

Sound == NetsFit /\ TypeInv /\ MemoryInv /\ ArgsInv /\ HomeInv /\ FitInv /\ RightInv /\ ReadyInv

(* What a net's tensor is, if no operator of the NORMAL net makes it.      *)
LEMMA WhoGives ==
  ASSUME NetsFit, net \in Nets, NEW k \in DOMAIN Normal, NEW m \in Range(Normal[k].in)
  PROVE  /\ m \in Name
         /\ \/ \E i \in DOMAIN Normal : Normal[i].out = m /\ i < k
            \/ \E i \in DOMAIN Ops(net, "INIT") : Ops(net, "INIT")[i].out = m
            \/ m \in Range(net.inputs)
            \/ m \in Consts(net)
<1>1. NetsAreWhole
  BY DEF NetsFit
<1>2. m \in Name
  BY NormalFacts
<1>3. CASE m \in Outs(net)
  <2>1. CASE \E i \in DOMAIN Normal : Normal[i].out = m
    <3>1. PICK i \in DOMAIN Normal : Normal[i].out = m
      BY <2>1
    <3>2. ~(k <= i) /\ k \in Nat /\ i \in Nat
      BY <1>1, <3>1, ReadsEarlier, NormalFacts
    <3> QED BY <1>2, <3>1, <3>2
  <2>2. CASE ~\E i \in DOMAIN Normal : Normal[i].out = m
    <3>1. PICK i \in DOMAIN Ops(net, "INIT") : Ops(net, "INIT")[i] = Maker(net, m) /\ Maker(net, m).out = m
      BY <1>1, <1>3, <2>2, WhoMakes
    <3> QED BY <1>2, <3>1
  <2> QED BY <2>1, <2>2
<1>4. CASE m \notin Outs(net)
  <2>1. PICK j \in DOMAIN net.ops : Normal[k] = net.ops[j]
    BY OpsAreOps DEF Normal
  <2>2. m \in UNION {Range(net.ops[i].in) : i \in DOMAIN net.ops}
    BY <2>1
  <2> QED BY <1>2, <1>4, <2>2 DEF Consts
<1> QED BY <1>3, <1>4

(* What an operator reads is there.                                        *)
LEMMA OperandsThere ==
  ASSUME Sound, ~starved, Operate, NEW m \in Range(op.in)
  PROVE  /\ m \in Name /\ Has(m) /\ Backed(m) /\ HasMemory(m)
         /\ HasImage(m) <=> InImage(net, m)
<1>1. NetsAreWhole /\ Backs /\ Stands /\ Calls /\ m \in Name /\ net \in Nets
  BY OperatesAt DEF Sound, NetsFit, ReadyInv
<1>2. Has(m)
  <2>1. CASE stage = "init"
    BY <2>1, OperatesAt, OneInput, <1>1 DEF Sound, NetsFit, Stands, Loaded
  <2>2. CASE stage = "run"
    BY <2>2, OperatesAt, <1>1, WhoGives DEF Sound, NetsFit, Stands, Calls, Place, Late
  <2> QED BY <2>1, <2>2, OperatesAt DEF Sound, NetsFit
<1>3. Backed(m)
  BY <1>1, <1>2 DEF Backs
<1> QED BY <1>1, <1>2, <1>3 DEF Backed, HasMemory, HasImage, Has

(* Where its output goes, if it is no alias.                               *)
LEMMA OutputThere ==
  ASSUME Sound, ~starved, Operate, ~Aliasing(op.type)
  PROVE  LET n == op.out IN
         /\ n \in Name /\ Root(net)[n] = n /\ HomeOf(n) = Home(n)
         /\ tensors[n].buffer \in {Null, Home(n)} /\ Home(n) \in BufferId /\ Home(n).of # "slice"
         /\ ~Has(n) => Home(n) = Own(n) /\ tensors[n].owner
         /\ Has(n) => Backed(n) /\ HasMemory(n) /\ (HasImage(n) <=> InImage(net, n))
<1> USE OperatesAt DEF Sound, NetsFit
<1>1. PICK n \in Name : n = op.out /\ ~IsAlias(n) /\ n \notin Consts(net)
  OBVIOUS
<1>2. Root(net)[n] = n /\ HomeOf(n) = Home(n)
  BY <1>1, Roots DEF HomeOf
<1>3. tensors[n].buffer \in {Null, Home(n)} /\ Home(n) \in BufferId
  BY <1>1, <1>2, Homes DEF HomeInv
<1>4. Home(n).of # "slice"
  BY <1>1, Ids DEF Home
<1>5. stage \in Settled
  BY DEF Settled, Late
<1>6. ~Has(n) => Home(n) = Own(n)
  BY <1>1, <1>5 DEF HomeInv, Home, Has
<1>7. tensors[n].state = "live"
  BY <1>1, OpFacts DEF MemoryInv, SoundTensor, Mode, Late
<1>8. ~Has(n) => tensors[n].owner
  BY <1>1, <1>7 DEF ReadyInv, Owners
<1>9. Has(n) => Backed(n)
  BY <1>1 DEF ReadyInv, Backs
<1>10. Has(n) => HasMemory(n) /\ (HasImage(n) <=> InImage(net, n))
  BY <1>9 DEF Backed, HasMemory, HasImage, Has
<1> QED BY <1>1, <1>2, <1>3, <1>4, <1>6, <1>8, <1>9, <1>10

(* Of which kind they are.                                                 *)
LEMMA KindsOfOp ==
  ASSUME Sound, Operate
  PROVE  /\ op \in Range(net.ops)
         /\ ~OnGPU => \A m \in Name : ~InImage(net, m)
         /\ OnGPU => op.type # "Reshape"
         /\ OnGPU /\ op.type \in {"Activation", "AddN", "ImageToBuffer"} => \A m \in Range(op.in) : InImage(net, m)
         /\ OnGPU /\ op.type = "BufferToImage" => ~InImage(net, In(1))
         /\ ~Aliasing(op.type) =>
              (InImage(net, op.out) <=> OnGPU /\ op.type \in {"BufferToImage", "Activation", "AddN"})
BY OperatesAt, OpFacts, Kinds DEF Sound, NetsFit, NetFits, Range, InImage, OnGPU, FormatsFit

-----------------------------------------------------------------------------
(* What an operator of the NORMAL net reads has the shape it should have.   *)
LEMMA OperandShapes ==
  ASSUME Sound, ~starved, Operate, stage = "run", NEW m \in Range(op.in)
  PROVE  tensors[m].shape = Meaning[m].shape
<1> USE DEF Sound, NetsFit
<1>1. at \in DOMAIN Normal /\ op = Normal[at] /\ net \in Nets /\ stage \in Active
  BY OperatesAt
<1>2. m \in Name /\ HasMemory(m)
  BY OperandsThere
<1> QED BY <1>1, <1>2, UsableThere, InputsGood DEF InNet, Normal, Good

(* The ends that are the net's doing, or the caller's.                     *)
Excused == SizesDiffer \/ AddedToItself \/ WrongShapeGiven

(* While the net runs, all inputs are in and no output is refused.         *)
OrderInv ==
  /\ stage # "dead" => asked.gave = NoShape
  /\ stage = "run" => todo = <<>>

-----------------------------------------------------------------------------
(* What is added can be mapped at once, unless it is one tensor: the       *)
(* memory of the output is none of the inputs', and that of one input not  *)
(* the other's.                                                            *)
LEMMA InputsApart ==
  ASSUME NetsFit, net \in Nets, NEW k \in DOMAIN Normal,
         NEW m \in Range(Normal[k].in), NEW n \in Range(Normal[k].in), HomeOf(m) = HomeOf(n)
  PROVE  Root(net)[m] = Root(net)[n]
<1> USE DEF NetsFit
<1>1. PICK r, s \in Name : r = Root(net)[m] /\ s = Root(net)[n] /\ Home(r) = Home(s)
  BY NormalFacts, Roots DEF HomeOf
<1>2. SUFFICES ASSUME r # s PROVE FALSE
  BY <1>1
<1>3. PICK i, j \in DOMAIN Normal :
        /\ Normal[i].out = r /\ Normal[j].out = s
        /\ Normal[i].mem = Normal[j].mem /\ Normal[j].mem # None
        /\ ShouldPreallocate(Normal[i]) /\ ShouldPreallocate(Normal[j])
  BY <1>1, <1>2, Homes
<1>4. i \in Nat /\ j \in Nat /\ k \in Nat /\ i # j
  BY <1>2, <1>3, NormalFacts
<1>5. ASSUME NEW l \in Name, l \in Range(Normal[k].in), NEW h \in DOMAIN Normal, Normal[h].out = Root(net)[l]
      PROVE  h <= k
  <2>1. Made(l, k)
    <3> SUFFICES ASSUME NEW g \in DOMAIN Normal, Normal[g].out = l PROVE g < k
      BY DEF Made
    <3>1. ~(k <= g) /\ g \in Nat
      BY <1>5, ReadsEarlier, NormalFacts
    <3> QED BY <1>4, <3>1
  <2>2. Made(Root(net)[l], k)
    BY <1>4, <2>1, Roots
  <2>3. h < k /\ h \in Nat
    BY <1>5, <2>2, NormalFacts DEF Made
  <2> QED BY <1>4, <2>3
<1>6. m \in Name /\ n \in Name /\ i <= k /\ j <= k
  BY <1>1, <1>3, <1>5, NormalFacts
<1>7. CASE i < j
  <2>1. Blocks(i, j)
    BY <1>3, <1>7 DEF Blocks
  <2> QED BY <1>1, <1>3, <1>6, <2>1, PlanOfNormal
<1>8. CASE j < i
  <2>1. Blocks(j, i)
    BY <1>3, <1>8 DEF Blocks
  <2> QED BY <1>1, <1>3, <1>6, <2>1, PlanOfNormal
<1> QED BY <1>4, <1>7, <1>8

LEMMA MapsThere ==
  ASSUME Sound, ~starved, Operate, ~OnGPU, op.type = "AddN", Root(net)[In(1)] # Root(net)[In(2)],
         step = "compute"
  PROVE  MapsTogether(<<op.out>> \o op.in)
<1> USE DEF Sound, NetsFit
<1>1. /\ stage = "run" /\ at \in DOMAIN Normal /\ op = Normal[at] /\ DOMAIN op.in = 1..2
      /\ op.in = <<op.in[1], op.in[2]>> /\ stage \in Active /\ net \in Nets /\ AtOp
  BY OperatesAt
<1>0. Range(op.in) = {op.in[1], op.in[2]}
  BY <1>1, TwoInputs
<1>2. PICK ns, a, b, c : /\ a = op.out /\ b = op.in[1] /\ c = op.in[2] /\ ns = <<a, b, c>>
                         /\ b \in Range(op.in) /\ c \in Range(op.in)
  BY <1>0
<1>3. ns = <<op.out>> \o op.in
  <2>1. PICK p : p = op.in /\ p = <<b, c>>
    BY <1>1, <1>2
  <2> QED BY <1>2, <2>1, Joined
<1>4. HasMemory(a) /\ HasMemory(b) /\ HasMemory(c)
  <2>1. Has(a)
    BY <1>1, <1>2 DEF ReadyInv, Calls
  <2> QED BY <1>2, <2>1, OutputThere, OperandsThere DEF Aliasing
<1>5. tensors[a].buffer = Home(a) /\ tensors[b].buffer = HomeOf(b) /\ tensors[c].buffer = HomeOf(c)
  BY <1>2, OutputThere, OperandsThere, <1>1, <1>4 DEF Aliasing, HomeInv, HasMemory
<1>6. ASSUME NEW m \in Range(op.in) PROVE HomeOf(m) # Home(a)
  BY <1>1, InputsGood, NormalFacts, <1>2, Untouched DEF Aliasing
<1>7. HomeOf(b) # HomeOf(c)
  BY <1>1, <1>2, InputsApart DEF In
<1>8. MapsTogether(ns)
  BY <1>2, <1>5, <1>6, <1>7, <1>4 DEF HasMemory, MapsTogether
<1> QED BY <1>3, <1>8

-----------------------------------------------------------------------------
(* An operator's output is given memory of its kind.                       *)
Sizing(r) ==
  IF InImage(net, op.out) THEN ResizeImage(op.out, tensors[In(1)].shape, r)
                          ELSE Resize(op.out, tensors[In(1)].shape, r)

Unlike ==
  /\ Die /\ UNCHANGED <<tensors, buffers, starved>> /\ op.type = "AddN"
  /\ LET in(k) == tensors[In(k)].shape IN
     IF OnGPU THEN in(1) # in(2) ELSE Elements(in(1)) # Elements(in(2))

Keeps ==
  /\ OnGPU /\ op.type = "AddN" /\ SameShapeAsArgs
  /\ UNCHANGED <<tensors, buffers>> /\ Resized("ok")

LEMMA SizingIs ==
  ASSUME Sound, ~starved, Operate, step = "resize", ~Aliasing(op.type)
  PROVE  (\E r : Sizing(r) /\ Resized(r)) \/ Keeps \/ Unlike
<1>1. /\ op.type \in Types /\ In(1) = op.in[1] /\ 1 \in DOMAIN op.in
      /\ ~OnGPU => \A m \in Name : ~InImage(net, m)
      /\ OnGPU /\ op.type \in {"Activation", "AddN", "ImageToBuffer"} => \A m \in Range(op.in) : InImage(net, m)
      /\ InImage(net, op.out) <=> OnGPU /\ op.type \in {"BufferToImage", "Activation", "AddN"}
  BY OperatesAt, KindsOfOp DEF Sound, NetsFit
<1>2. In(1) \in Range(op.in) /\ (HasImage(In(1)) <=> InImage(net, In(1))) /\ In(1) \in Name
  BY <1>1, OperandsThere DEF Range
<1>3. CASE ActivationResize
  <2>1. PICK r : ResizeLike(op.out, In(1), r) /\ Resized(r) /\ op.type = "Activation"
    BY <1>3 DEF ActivationResize, At
  <2> QED BY <1>1, <1>2, <2>1 DEF ResizeLike, Sizing
<1>4. CASE AddNResizeCPU
  <2>1. Unlike \/ \E r : ResizeLike(op.out, In(1), r) /\ Resized(r) /\ ~OnGPU
    BY <1>4 DEF AddNResizeCPU, At, OnGPU, Unlike
  <2> QED BY <1>1, <1>2, <2>1 DEF ResizeLike, Sizing
<1>5. CASE AddNResizeGPU
  BY <1>5, <1>1 DEF AddNResizeGPU, At, OnGPU, Sizing, Keeps, Unlike
<1>6. CASE BufferToImageResize
  <2>1. PICK r : ResizeImage(op.out, tensors[In(1)].shape, r) /\ Resized(r) /\ op.type = "BufferToImage" /\ OnGPU
    BY <1>6 DEF BufferToImageResize, At, OnGPU
  <2> QED BY <1>1, <2>1 DEF Sizing
<1>7. CASE ImageToBufferResize
  <2>1. PICK r : Resize(op.out, tensors[In(1)].shape, r) /\ Resized(r) /\ op.type = "ImageToBuffer"
    BY <1>7 DEF ImageToBufferResize, At
  <2> QED BY <1>1, <2>1 DEF Sizing
<1>8. ActivationResize \/ AddNResizeCPU \/ AddNResizeGPU \/ BufferToImageResize \/ ImageToBufferResize
  BY DEF Operate, ActivationCPU, ActivationGPU, AddNCPU, AddNGPU, Identity, Reshape, BufferToImage, ImageToBuffer,
         At, Aliasing
<1> QED BY <1>3, <1>4, <1>5, <1>6, <1>7, <1>8

LEMMA SizingLives ==
  ASSUME Sound, ~starved, Operate, ~Aliasing(op.type), NEW r, Sizing(r), Resized(r), ~starved'
  PROVE  IF r = "ok" THEN UNCHANGED <<stage, at>> /\ step' = "compute" ELSE \E n \in Name : TooLarge(n)'
<1>1. PICK n \in Name : n = op.out
  BY OutputThere
<1>2. /\ ~Has(n) => tensors[n].owner
      /\ Has(n) => Backed(n) /\ (HasImage(n) <=> InImage(net, n)) /\ tensors[n].buffer.of # "slice"
  BY <1>1, OutputThere DEF Has
<1>3. \/ r = "ok" /\ UNCHANGED <<stage, at>> /\ step' = "compute"
      \/ r = "fatal"
  BY DEF Resized
<1>4. PICK s \in TensorShapes : s = tensors[In(1)].shape
  BY OperatesAt DEF Sound, NetsFit, TypeInv, TypeOK, TensorType
<1>5. ASSUME r = "fatal" PROVE TooLarge(n)'
  <2>1. CASE InImage(net, n)
    BY <1>1, <1>4, <1>5, <2>1, <1>2, ResizeImageLives, OperatesAt DEF Sizing, Backed, Sound, NetsFit
  <2>2. CASE ~InImage(net, n)
    BY <1>1, <1>4, <1>5, <2>2, <1>2, ResizeLives DEF Sizing
  <2> QED BY <2>1, <2>2
<1> QED BY <1>3, <1>5

(* ... which leaves the others as they are.                                *)
PointersStay ==
  /\ \A m \in Name : Has(m) => Has(m)'
  /\ \A m \in Name : /\ tensors'[m].state = tensors[m].state
                     /\ tensors'[m].owner = tensors[m].owner \/ Has(m)' \/ IsAlias(m)
                     /\ stage \in Early /\ IsAlias(m) => ~Has(m)'

LEMMA SetToOwners ==
  ASSUME GoodTensors(tensors), NEW n \in Name, NEW s, NEW b, SetTo(n, s, b)
  PROVE  \A m \in Name : tensors'[m].owner = tensors[m].owner
<1>1. ASSUME NEW m \in Name, m # n PROVE tensors'[m].owner = tensors[m].owner
  BY <1>1 DEF GoodTensors, SetTo
<1>2. tensors'[n].owner = tensors[n].owner
  <2>1. PICK t, u : t = tensors[n] /\ IsTensor(t) /\ u = [[t EXCEPT !.shape = s] EXCEPT !.buffer = b]
    BY DEF GoodTensors
  <2>2. u.owner = t.owner
    BY <2>1 DEF IsTensor, Fields
  <2>3. tensors'[n] = u
    BY <2>1 DEF GoodTensors, SetTo
  <2> QED BY <2>1, <2>2, <2>3
<1> QED BY <1>1, <1>2

(* Memory of its kind has been made for a tensor that is no alias.         *)
LEMMA MakesBacked ==
  ASSUME Sound, ~starved, stage \in Active, UNCHANGED <<net, big>>, NEW n \in Name, ~IsAlias(n), HomeOf(n) = Home(n),
         ~Has(n) => Home(n) = Own(n), NEW s \in TensorShapes,
         IF InImage(net, n) THEN ResizeImage(n, s, "ok") ELSE Resize(n, s, "ok")
  PROVE  Backs' /\ PointersStay /\ Has(n)'
<1> USE DEF Sound, NetsFit
<1>1. net \in Nets /\ GoodTensors(tensors) /\ GoodBuffers(buffers)
      /\ \A m \in Name : tensors[m].buffer \in BufferId \cup {Null}
  BY DEF MemoryInv, SoundTensor
<1>2. \A m \in Name : tensors[m].buffer \in {Null, HomeOf(m)} /\ tensors[m].shape \in TensorShapes
  BY DEF HomeInv, TypeInv, TypeOK, TensorType
<1>3. Root(net)[n] = n
  BY <1>1, Roots
<1>4. PICK h \in BufferId : h = Home(n) /\ h # Null
  BY <1>1, Homes
<1>5. tensors[n].buffer \in {Null, h}
  BY <1>2, <1>4
<1>6. Has(n) => /\ buffers[h].mem /\ Measured(buffers[h])
                /\ ~OnGPU => buffers[h].size \in Nat
  BY <1>5 DEF ReadyInv, Backs, Backed, Has
<1>7. /\ SetTo(n, s, h)
      /\ \A b \in BufferId : b # h => buffers'[b] = buffers[b]
      /\ buffers'[h].mem /\ (buffers'[h].image <=> InImage(net, n)) /\ Measured(buffers'[h])
      /\ ~OnGPU => /\ buffers'[h].size \in Nat /\ Elements(s) <= buffers'[h].size
                   /\ Has(n) => buffers[h].size <= buffers'[h].size
  <2>1. CASE InImage(net, n)
    BY <2>1, <1>1, <1>4, <1>5, <1>6, ResizeImageMakes DEF InImage, OnGPU
  <2>2. CASE ~InImage(net, n)
    BY <2>2, ElementsOf, <1>1, <1>4, <1>5, <1>6, ResizeMakes
  <2> QED BY <2>1, <2>2
<1>8. \A m \in Name : /\ tensors'[m].shape = IF m = n THEN s ELSE tensors[m].shape
                      /\ tensors'[m].buffer = IF m = n THEN h ELSE tensors[m].buffer
                      /\ tensors'[m].state = tensors[m].state /\ tensors'[m].owner = tensors[m].owner
  BY <1>1, <1>7, SetToFacts, SetToStates, SetToOwners
<1>9. \A m \in Name : Has(m) => Backed(m)
  BY DEF ReadyInv, Backs
<1>10. \A m \in Name : Has(m)' => Backed(m)'
  BY <1>1, <1>2, <1>3, <1>4, <1>7, <1>8, <1>9, BacksTouched
<1>11. \A m \in Name : /\ Has(m) => Has(m)'
                       /\ m # n => (Has(m)' <=> Has(m))
  BY <1>4, <1>8 DEF Has
<1>12. Has(n)'
  BY <1>4, <1>8 DEF Has
<1>13. \A m \in Name : stage \in Early /\ IsAlias(m) => ~Has(m)
  BY DEF ReadyInv, Owners
<1>14. PointersStay
  BY <1>8, <1>11, <1>13 DEF PointersStay
<1> QED BY <1>10, <1>12, <1>14 DEF Backs

-----------------------------------------------------------------------------
LEMMA StandsStay ==
  ASSUME NetsFit, net \in Nets, UNCHANGED net, stage \in Late, stage' \in Late, Stands,
         \A m \in Name : (Has(m) => Has(m)') /\ tensors'[m].state = tensors[m].state
  PROVE  Stands'
<1>1. Range(net.inputs) \subseteq Name /\ Consts(net) \subseteq Name
      /\ (\A i \in DOMAIN Ops(net, "INIT") : Ops(net, "INIT")[i].out \in Name)
  BY NetFacts, NoAliasRoot, OpsAreOps DEF NetsFit
<1>2. Ops(net, "INIT")' = Ops(net, "INIT") /\ Consts(net)' = Consts(net)
  OBVIOUS
<1>3. stage \notin {"init", "built"} /\ stage' \notin Early /\ stage' \notin Loaded /\ stage' \notin {"init", "built"}
  BY DEF Late, Early, Loaded
<1>4. \A m \in Range(net.inputs) : tensors'[m].state # "none"
  BY <1>1 DEF Stands
<1>5. \A m \in Consts(net) : Has(m)'
  BY <1>1 DEF Stands
<1>6. \A i \in DOMAIN Ops(net, "INIT") : Has(Ops(net, "INIT")[i].out)'
  BY <1>1, <1>3 DEF Stands
<1> QED BY <1>2, <1>3, <1>4, <1>5, <1>6 DEF Stands

(* A step of an operator that ends well.                                   *)
LEMMA GoesOn ==
  ASSUME Sound, ~starved, Operate, stage' \in Active, Backs', PointersStay,
         NEW out \in Name, out = op.out, Has(out)',
         (UNCHANGED <<stage, at>> /\ step' = "compute") \/ Progress
  PROVE  ReadyInv'
<1> USE DEF Sound, NetsFit
<1>1. /\ AtOp /\ net \in Nets /\ stage \in {"init", "run"} /\ UNCHANGED <<net, given, shape>>
      /\ stage = "run" => Todo = Normal /\ op = Normal[at]
  BY OperatesAt, BigStays DEF Still, call
<1>2. Owners /\ Stands /\ Calls
  BY <1>1 DEF ReadyInv, Active, Early, Late
<1>3. Normal' = Normal /\ Ops(net, "INIT")' = Ops(net, "INIT") /\ Consts(net)' = Consts(net)
      /\ \A m : IsAlias(m)' <=> IsAlias(m)
  BY <1>1 DEF Normal, IsAlias
<1>4. \/ UNCHANGED <<stage, at>> /\ step' = "compute"
      \/ /\ step' = "resize"
         /\ \/ at < Len(Todo) /\ at' = at + 1 /\ stage' = stage
            \/ ~(at < Len(Todo)) /\ at' = 1 /\ stage' = IF stage = "init" THEN "built" ELSE "copy"
  BY DEF Progress
<1>5. /\ stage = "init" => stage' \in {"init", "built"}
      /\ stage = "run" => stage' \in {"run", "copy"}
  BY <1>1, <1>4
<1>6. \A m \in Name : (Has(m) => Has(m)') /\ tensors'[m].state = tensors[m].state
  BY DEF PointersStay
<1>7. Range(net.inputs) \subseteq Name /\ Consts(net) \subseteq Name
      /\ (\A i \in DOMAIN Ops(net, "INIT") : Ops(net, "INIT")[i].out \in Name)
      /\ (\A i \in DOMAIN Normal : Normal[i].out \in Name)
  BY <1>1, NetFacts, NoAliasRoot, OpsAreOps, NormalFacts
<1>8. Owners'
  BY <1>2, <1>3, <1>5, <1>1 DEF Owners, PointersStay, Early
<1>9. ASSUME NEW i \in DOMAIN Todo, i < at \/ (i = at /\ Progress) \/ (i <= Len(Todo) /\ ~(at < Len(Todo)) /\ Progress),
             stage = "init" => \A j \in DOMAIN Ops(net, "INIT") : j < at => Has(Ops(net, "INIT")[j].out),
             stage = "run" => \A j \in DOMAIN Normal : j < at => Has(Normal[j].out),
             NEW o, o = Todo[i].out
      PROVE  Has(o)'
  <2>1. i \in Int /\ at \in Int /\ Len(Todo) \in Int /\ at <= Len(Todo)
    BY <1>1, OpsAreOps DEF AtOp, Todo
  <2>2. CASE i < at
    BY <1>1, <1>7, <1>9, <2>2, <1>6 DEF Todo, Normal
  <2>3. CASE i = at
    BY <1>9, <2>3 DEF op
  <2> QED BY <1>9, <2>1, <2>2, <2>3
<1>10. Stands'
  <2>1. CASE stage = "init"
    <3>1. \A i \in DOMAIN Ops(net, "INIT") : i < at => Has(Ops(net, "INIT")[i].out)
      BY <1>2, <2>1 DEF Stands
    <3>2. Todo = Ops(net, "INIT") /\ at \in DOMAIN Ops(net, "INIT")
          /\ \A i \in DOMAIN Ops(net, "INIT") : i \in Int /\ i <= Len(Ops(net, "INIT"))
      BY <1>1, <2>1, OpsAreOps DEF AtOp, Todo
    <3>3. ASSUME NEW i \in DOMAIN Ops(net, "INIT"), stage' # "init" \/ i < at'
          PROVE  Has(Ops(net, "INIT")[i].out)'
      <4>1. PICK o : o = Ops(net, "INIT")[i].out /\ o = Todo[i].out
        BY <3>2
      <4>2. i \in DOMAIN Todo /\ i \in Int /\ at \in Int /\ Len(Todo) \in Int /\ i <= Len(Todo)
        BY <1>1, <3>2, OpsAreOps
      <4>3. i < at \/ (i = at /\ Progress) \/ (i <= Len(Todo) /\ ~(at < Len(Todo)) /\ Progress)
        BY <1>4, <2>1, <3>3, <4>2
      <4>4. Has(o)'
        BY <1>9, <2>1, <3>1, <4>1, <4>2, <4>3
      <4> QED BY <1>3, <4>1, <4>4
    <3>4. /\ \A m \in Range(net.inputs) : tensors'[m].state = "live"
          /\ \A m \in Consts(net) : tensors'[m].state = "live" /\ Has(m)'
      BY <1>2, <1>6, <1>7, <2>1 DEF Stands, Loaded, Early
    <3>5. \A i \in DOMAIN Ops(net, "INIT") : tensors'[Ops(net, "INIT")[i].out].state = "live"
      BY <1>2, <1>6, <1>7, <2>1 DEF Stands
    <3> QED BY <1>1, <1>3, <1>5, <2>1, <3>3, <3>4, <3>5 DEF Stands, Late
  <2>2. CASE stage = "run"
    BY <1>5, <2>2, <1>1, <1>2, <1>6, StandsStay DEF Late
  <2> QED BY <1>1, <2>1, <2>2
<1>11. Calls'
  <2>1. \A m \in Name : given'[m].shape # NoShape => Has(m)' /\ stage' \notin Early
    BY <1>1, <1>2, <1>5, <1>6 DEF Calls, Early
  <2>2. stage' \in {"feed", "run", "copy"} => stage = "run" /\ stage' # "feed"
    BY <1>1, <1>5
  <2>3. stage' \in {"feed", "run", "copy"} =>
          /\ shape' # NoShape
          /\ \A m \in Range(net.inputs) : given'[m].shape = shape'
    BY <1>1, <1>2, <2>2 DEF Calls
  <2>4. ASSUME NEW i \in DOMAIN Normal, i < Place' PROVE Has(Normal[i].out)'
    <3>1. i \in Int /\ i <= Len(Normal) /\ 1 <= i
      BY <1>1, NormalFacts
    <3>2. CASE stage = "run"
      <4>1. \A j \in DOMAIN Normal : j < at => Has(Normal[j].out)
        BY <1>2, <3>2 DEF Calls, Place
      <4>2. Todo = Normal /\ stage' \in {"run", "copy"} /\ at \in DOMAIN Normal
        BY <1>1, <1>5, <3>2 DEF AtOp
      <4>3. at \in Int /\ Len(Normal) \in Int
        BY <1>1, <4>2, NormalFacts
      <4>4. (stage' = "run" => Place' = at') /\ (stage' = "copy" => Place' = Len(Normal) + 1)
        BY <1>3 DEF Place
      <4>5. i < at \/ (i = at /\ Progress) \/ (i <= Len(Todo) /\ ~(at < Len(Todo)) /\ Progress)
        BY <1>4, <2>4, <3>1, <3>2, <4>2, <4>3, <4>4
      <4>6. PICK o : o = Normal[i].out /\ o = Todo[i].out
        BY <4>2
      <4>7. Has(o)'
        BY <1>9, <3>2, <4>1, <4>2, <4>5, <4>6
      <4> QED BY <1>3, <4>6, <4>7
    <3>3. CASE stage = "init"
      <4>1. Place' = 1
        BY <1>5, <3>3 DEF Place
      <4> QED BY <2>4, <3>1, <4>1
    <3> QED BY <1>1, <3>2, <3>3
  <2>5. AtOp' /\ step' = "compute" => Has(op.out)'
    <3>1. ASSUME step' = "compute" PROVE op' = op
      BY <1>1, <1>4, <3>1 DEF op, Todo
    <3>2. ASSUME step' = "compute" PROVE op'.out = out
      BY <3>1, <3>2
    <3> QED BY <3>2
  <2> QED BY <1>3, <1>1, <2>1, <2>2, <2>3, <2>4, <2>5 DEF Calls
<1> QED BY <1>8, <1>10, <1>11 DEF ReadyInv

LEMMA MarkedOwners ==
  ASSUME GoodTensors(tensors), In(1) \in Name, UNCHANGED tensors \/ tensors' = MarkedUnused
  PROVE  \A m \in Name : tensors'[m].owner = tensors[m].owner
<1>1. PICK n, t : n \in Name /\ n = In(1) /\ t = tensors[n] /\ IsTensor(t)
  BY DEF GoodTensors
<1>2. PICK u : u = [t EXCEPT !.unused = TRUE]
  OBVIOUS
<1>3. u.owner = t.owner
  BY <1>1, <1>2 DEF IsTensor, Fields
<1>4. UNCHANGED tensors \/ tensors' = [tensors EXCEPT ![n] = u]
  BY <1>1, <1>2 DEF MarkedUnused, GoodTensors
<1>5. \A m \in Name : tensors'[m] = tensors[m] \/ (m = n /\ tensors'[m] = u)
  BY <1>4 DEF GoodTensors
<1> QED BY <1>1, <1>3, <1>5

LEMMA ComputedReady ==
  ASSUME Sound, ~starved, Operate, stage' \in Active, Computes
  PROVE  ReadyInv'
<1> USE DEF Sound, NetsFit
<1>1. /\ UNCHANGED <<net, big>> /\ net \in Nets /\ GoodTensors(tensors) /\ GoodBuffers(buffers)
      /\ stage \in Active /\ In(1) \in Name
      /\ \A m \in Name : tensors[m].buffer \in BufferId \cup {Null}
  BY OperatesAt, BigStays DEF Next
<1>2. \A m \in Name : /\ tensors'[m].buffer = tensors[m].buffer /\ tensors'[m].shape = tensors[m].shape
                      /\ tensors'[m].state = tensors[m].state /\ Has(m)' = Has(m)
  BY DEF Computes, Has
<1>3. UNCHANGED tensors \/ tensors' = MarkedUnused
  BY DEF Computes, Operate, ActivationResize, ActivationCPU, ActivationGPU, AddNResizeCPU, AddNCPU, AddNResizeGPU,
         AddNGPU, Identity, Reshape, BufferToImageResize, BufferToImage, ImageToBufferResize, ImageToBuffer, At
<1>4. \A m \in Name : tensors'[m].owner = tensors[m].owner
  BY <1>1, <1>3, MarkedOwners
<1>5. \A m \in Name : stage \in Early /\ IsAlias(m) => ~Has(m)
  BY <1>1 DEF ReadyInv, Owners
<1>6. PointersStay
  BY <1>2, <1>4, <1>5 DEF PointersStay
<1>7. PICK c, v : buffers' = WithVal(c, v)
  BY DEF Computes
<1>8. \A b \in BufferId :
        /\ buffers'[b].mem = buffers[b].mem /\ buffers'[b].image = buffers[b].image
        /\ buffers'[b].phys = buffers[b].phys /\ buffers'[b].size = buffers[b].size
  BY <1>1, <1>7, WithValKeeps
<1>9. \A m \in Name : Root(net)[m] \in Name
  BY <1>1, Roots
<1>10. ASSUME NEW m \in Name, Has(m)' PROVE Backed(m)'
  BY <1>1, <1>2, <1>10, <1>8, <1>9, BacksStay DEF ReadyInv, Backs
<1>11. PICK n \in Name : n = op.out
  BY OperatesAt
<1>12. Has(n)'
  BY <1>2, <1>11 DEF Computes, HasMemory, Has
<1>13. Backs'
  BY <1>10 DEF Backs
<1> QED BY <1>6, <1>11, <1>12, <1>13, GoesOn DEF Computes

LEMMA SizedReady ==
  ASSUME Sound, ~starved, Operate, stage' \in Active, ~starved', step = "resize", ~Aliasing(op.type)
  PROVE  ReadyInv'
<1> USE DEF Sound, NetsFit
<1>1. /\ UNCHANGED <<net, big>> /\ net \in Nets /\ stage \in Active /\ stage \in {"init", "run"}
      /\ \A m \in Name : tensors[m].buffer \in BufferId \cup {Null}
  BY OperatesAt, BigStays DEF Next
<1>2. PICK n \in Name : /\ n = op.out /\ ~IsAlias(n) /\ HomeOf(n) = Home(n)
                        /\ ~Has(n) => Home(n) = Own(n)
  BY OperatesAt, OutputThere
<1>3. PICK s \in TensorShapes : s = tensors[In(1)].shape
  BY OperatesAt DEF TypeInv, TypeOK, TensorType
<1>4. CASE \E r : Sizing(r) /\ Resized(r)
  <2>1. PICK r : Sizing(r) /\ Resized(r)
    BY <1>4
  <2>2. r = "ok" /\ UNCHANGED <<stage, at>> /\ step' = "compute"
    BY <1>1, <2>1 DEF Resized, Die, Active, Early, Late
  <2>3. IF InImage(net, n) THEN ResizeImage(n, s, "ok") ELSE Resize(n, s, "ok")
    BY <1>2, <1>3, <2>1, <2>2 DEF Sizing
  <2>4. Backs' /\ PointersStay /\ Has(n)'
    BY <1>1, <1>2, <2>3, MakesBacked
  <2> QED BY <1>2, <2>2, <2>4, GoesOn
<1>5. CASE Keeps
  <2>1. UNCHANGED <<tensors, buffers, stage, at>> /\ step' = "compute" /\ op.type = "AddN" /\ OnGPU /\ SameShapeAsArgs
    BY <1>5 DEF Keeps, Resized
  <2>2. stage = "run" /\ at \in DOMAIN Normal /\ op = Normal[at]
    BY <1>1, <2>1, OperatesAt
  <2>3. Running
    BY <1>1, <2>1, <2>2, OperatesAt DEF Running, Still
  <2>4. Shaped(In(1))
    BY <2>1, <2>2, <2>3, RunFacts, FirstIsShaped, OperatesAt DEF NetsAreWhole
  <2>5. args[at] # NoArgs
    BY <2>1, <2>4 DEF SameShapeAsArgs, NoArgs, Shaped
  <2>6. HasMemory(n)
    BY <1>2, <2>1, <2>2, <2>5 DEF FitInv, Kept, Late
  <2>7. \A m \in Name : Has(m)' = Has(m) /\ tensors'[m].state = tensors[m].state /\ tensors'[m].owner = tensors[m].owner
    BY <2>1 DEF Has
  <2>8. PointersStay
    BY <1>1, <2>2, <2>7 DEF PointersStay, Early
  <2>9. ASSUME NEW m \in Name, Has(m)' PROVE Backed(m)'
    BY <1>1, <2>7, <2>9, Roots, <2>1, BacksStay DEF ReadyInv, Backs
  <2>10. Has(n)'
    BY <2>6, <2>7 DEF HasMemory, Has
  <2>11. Backs'
    BY <2>9 DEF Backs
  <2> QED BY <1>2, <2>1, <2>8, <2>10, <2>11, GoesOn
<1>6. ~Unlike
  BY <1>1 DEF Unlike, Die, Active, Early, Late
<1> QED BY <1>4, <1>5, <1>6, SizingIs

LEMMA SharedReady ==
  ASSUME Sound, ~starved, Operate, stage' \in Active, Shares
  PROVE  ReadyInv'
<1> USE DEF Sound, NetsFit
<1>1. /\ UNCHANGED <<net, big, buffers>> /\ net \in Nets /\ GoodTensors(tensors)
      /\ stage \in Active /\ Aliasing(op.type) /\ Progress
      /\ \A m \in Name : tensors[m].buffer \in BufferId \cup {Null}
  BY OperatesAt, BigStays DEF Next, Shares
<1>2. /\ stage = "run" /\ at \in DOMAIN Normal /\ op = Normal[at]
      /\ In(1) = op.in[1] /\ op.in[1] \in Range(op.in)
  BY <1>1, OperatesAt DEF Aliasing, Range
<1>3. PICK n \in Name, k \in Name : n = op.out /\ k = In(1) /\ IsAlias(n) /\ Has(k) /\ Backed(k)
  BY <1>1, <1>2, OperatesAt, OperandsThere
<1>4. \A m \in Name : m # n => tensors'[m] = tensors[m]
  <2>1. /\ buffers' = WithoutOwn(n) /\ SoundTensor(n)
        /\ \E s : \/ tensors' = Aliased(n, k) /\ s = tensors[k].shape
                  \/ tensors' = [Aliased(n, k) EXCEPT ![n].shape = s]
    BY <1>1, <1>3 DEF MemoryInv, Operate, ActivationResize, ActivationCPU, ActivationGPU, AddNResizeCPU,
       AddNCPU, AddNResizeGPU, AddNGPU, Reshape, BufferToImageResize, BufferToImage, ImageToBufferResize,
       ImageToBuffer, At, Aliasing, Die, Active, Early, Late, Identity
  <2> QED BY <1>1, <1>3, <2>1, AliasedIs
<1>5. /\ tensors'[n].buffer = tensors[k].buffer /\ tensors'[n].state = tensors[n].state
      /\ tensors'[n].shape = IF op.type = "Reshape" THEN Flat(tensors[k].shape) ELSE tensors[k].shape
  BY <1>3 DEF Shares
<1>6. Has(n)' /\ \A m \in Name : m # n => Has(m)' = Has(m)
  BY <1>3, <1>4, <1>5 DEF Has
<1>7. PointersStay
  BY <1>2, <1>3, <1>4, <1>5, <1>6 DEF PointersStay, Early
<1>8. \A m \in Name : Root(net)[m] \in Name /\ tensors[m].shape \in TensorShapes
  BY <1>1, Roots DEF TypeInv, TypeOK, TensorType
<1>9. ASSUME NEW m \in Name, Has(m)' PROVE Backed(m)'
  <2>1. CASE m # n
    BY <1>1, <1>6, <1>9, <2>1, <1>8, <1>4, BacksStay DEF ReadyInv, Backs
  <2>2. CASE m = n
    <3>1. (InImage(net, n) <=> InImage(net, k)) /\ Root(net)[n] = Root(net)[k]
      BY <1>1, <1>2, <1>3, Kinds, Roots
    <3>2. Elements(tensors'[n].shape) = Elements(tensors[k].shape)
      BY <1>5, <1>8, FlatElements
    <3>3. PICK r \in Name : r = Root(net)[n] /\ r = Root(net)[k] /\ Has(r)
      BY <1>3, <1>8, <3>1 DEF Backed
    <3>4. Has(r)'
      BY <1>6, <3>3
    <3>5. InImage(net, n)' = InImage(net, n) /\ OnGPU' = OnGPU /\ Root(net)' = Root(net)
      BY <1>1 DEF InImage, OnGPU
    <3>6. Backed(n)'
      BY <1>1, <1>3, <1>5, <3>1, <3>2, <3>3, <3>4, <3>5 DEF Backed, Measured
    <3> QED BY <2>2, <3>6
  <2> QED BY <2>1, <2>2
<1>10. Backs'
  BY <1>9 DEF Backs
<1> QED BY <1>1, <1>3, <1>6, <1>7, <1>10, GoesOn

LEMMA OperateReady ==
  ASSUME Sound, ~starved, Operate
  PROVE  ReadyInv'
<1> SUFFICES ASSUME stage' \in Active, ~starved' PROVE ReadyInv'
  BY DEF ReadyInv
<1>1. Ends \/ Resizes \/ Computes \/ Shares
  BY OperateSteps DEF Sound, NetsFit
<1>2. CASE Resizes
  BY <1>2, SizedReady DEF Resizes
<1> QED BY <1>1, <1>2, ComputedReady, SharedReady DEF Ends

-----------------------------------------------------------------------------
(* No operator is fatal, but for a tensor that exceeds its image.          *)
LEMMA AdvanceLives ==
  ASSUME Sound, Operate, NEW a, Advance(a)
  PROVE  stage' # "dead"
BY OperatesAt, KindsOfOp DEF Sound, NetsFit, Advance, Waits

(* What a kernel works with.                                               *)
LEMMA ReadyToCompute ==
  ASSUME Sound, ~starved, Operate, ~Aliasing(op.type), step = "compute"
  PROVE  /\ \A n \in Range(op.in) \cup {op.out} : HasMemory(n) /\ (HasImage(n) <=> InImage(net, n))
         /\ In(1) \in Range(op.in)
         /\ OnGPU /\ op.type \in {"Activation", "AddN"} => ImagesThere
BY OperatesAt, OutputThere, OperandsThere, KindsOfOp DEF Sound, NetsFit, Range, ReadyInv, Calls, ImagesThere

LEMMA OperateLives ==
  ASSUME Sound, OrderInv, ~starved, Operate, ~starved'
  PROVE  stage' # "dead" \/ (\E n \in Name : TooLarge(n)') \/ Excused'
<1> USE DEF Sound, NetsFit
<1>1. /\ stage \in {"init", "run"} /\ stage \in Active /\ op.type \in Types
      /\ stage = "run" => at \in DOMAIN Normal /\ op = Normal[at]
  BY OperatesAt
<1>0. ASSUME Die, op.type = "AddN" PROVE /\ \A s \in {step} : AtSum(s)'
                                       /\ UNCHANGED <<op, OnGPU, Meaning, Root(net)>>
                                       /\ In(1)' = In(1) /\ In(2)' = In(2) /\ stage = "run"
                                       /\ In(1) \in Range(op.in) /\ In(2) \in Range(op.in)
  <2>1. /\ stage = "run" /\ at \in DOMAIN Normal /\ op = Normal[at] /\ Still /\ DOMAIN op.in = 1..2
    BY <1>0, OperatesAt
  <2>2. UNCHANGED <<at, step, todo, asked, net, given>> /\ stage' = "dead" /\ todo = <<>> /\ asked.gave = NoShape
    BY <1>0, <2>1 DEF Die, control, Still, call, OrderInv
  <2>3. Todo' = Normal /\ op' = op /\ UNCHANGED OnGPU /\ Root(net)' = Root(net)
    BY <2>1, <2>2 DEF Todo, op, Normal, OnGPU
  <2>4. Meaning' = Meaning
    BY <2>2 DEF Meaning, Outs, Applied, Maker, Source
  <2>5. In(1)' = In(1) /\ In(2)' = In(2) /\ In(1) \in Range(op.in) /\ In(2) \in Range(op.in)
    BY <2>1, <2>3 DEF In, Range
  <2> QED BY <1>0, <2>1, <2>2, <2>3, <2>4, <2>5 DEF AtSum
<1>2. CASE step = "resize" /\ ~Aliasing(op.type)
  <2>1. CASE Unlike
    <3>1. op.type = "AddN" /\ Die
      BY <2>1 DEF Unlike
    <3>2. /\ AtSum("resize")' /\ UNCHANGED <<OnGPU, Meaning>>
          /\ In(1)' = In(1) /\ In(2)' = In(2)
          /\ tensors[In(1)].shape = Meaning[In(1)].shape /\ tensors[In(2)].shape = Meaning[In(2)].shape
      BY <1>0, <1>2, <3>1, OperandShapes
    <3>3. SizesDiffer'
      BY <2>1, <3>2 DEF Unlike, SizesDiffer
    <3> QED BY <3>3 DEF Excused
  <2> QED BY <1>2, SizingIs, <2>1, <1>1, SizingLives DEF Keeps, Resized
<1>3. CASE step = "compute" /\ ~Aliasing(op.type)
  <2>1. /\ \A n \in Range(op.in) \cup {op.out} : HasMemory(n) /\ (HasImage(n) <=> InImage(net, n))
        /\ In(1) \in Range(op.in)
        /\ OnGPU /\ op.type \in {"Activation", "AddN"} => ImagesThere
    BY <1>3, ReadyToCompute
  <2>2. CASE ActivationCPU
    BY <2>1, <2>2, AdvanceLives DEF ActivationCPU
  <2>3. CASE ActivationGPU \/ AddNGPU
    BY <2>3, <2>1, AdvanceLives DEF ActivationGPU, AddNGPU, At, OnGPU, Compute
  <2>4. CASE AddNCPU
    <3>1. op.type = "AddN" /\ ~OnGPU /\ \E a : Advance(a) \/ (Die /\ ~MapsTogether(<<op.out>> \o op.in))
      BY <2>4 DEF AddNCPU, At, OnGPU
    <3>2. CASE Root(net)[In(1)] = Root(net)[In(2)] /\ Die
      <4>1. /\ AtSum("compute")' /\ UNCHANGED <<OnGPU, Root(net)>>
            /\ In(1)' = In(1) /\ In(2)' = In(2)
        BY <1>0, <1>3, <3>1, <3>2
      <4>2. AddedToItself'
        BY <3>1, <3>2, <4>1 DEF AddedToItself
      <4> QED BY <4>2 DEF Excused
    <3> QED BY <3>1, <3>2, <1>3, MapsThere, AdvanceLives
  <2>5. CASE BufferToImage
    BY <2>5, <1>3, <2>1, KindsOfOp, AdvanceLives DEF BufferToImage, At, OnGPU
  <2>6. CASE ImageToBuffer
    BY <2>6, <1>3, <2>1, KindsOfOp, AdvanceLives DEF ImageToBuffer, At, OnGPU
  <2>7. ActivationCPU \/ ActivationGPU \/ AddNGPU \/ AddNCPU \/ BufferToImage \/ ImageToBuffer
    BY <1>3 DEF Operate, ActivationResize, AddNResizeCPU, AddNResizeGPU, BufferToImageResize, ImageToBufferResize,
                Identity, Reshape, At
  <2> QED BY <2>2, <2>3, <2>4, <2>5, <2>6, <2>7
<1>4. CASE Identity
  BY <1>4, AdvanceLives DEF Identity
<1>5. CASE Reshape
  <2>1. op.type = "Reshape" /\ ~OnGPU /\ stage = "run" /\ DOMAIN op.in = 1..2
    BY <1>5, KindsOfOp, OperatesAt DEF Reshape, At
  <2>2. In(1) = op.in[1] /\ In(2) = op.in[2] /\ In(1) \in Range(op.in) /\ In(2) \in Range(op.in)
    BY <2>1 DEF In, Range
  <2>3. HasMemory(In(2)) /\ Backed(In(1)) /\ In(1) \in Name /\ In(2) \in Name
    BY <2>2, OperandsThere
  <2>4. InNet(In(2), "NORMAL")
    BY <1>1, <2>1, <2>2 DEF InNet, Normal
  <2>5. Usable(tensors[In(2)].buffer)
    BY <1>1, <2>3, <2>4, UsableThere
  <2>6. tensors[In(1)].shape \in TensorShapes
    BY <2>3 DEF TypeInv, TypeOK, TensorType
  <2>7. MayReshape(In(1), Flat(tensors[In(1)].shape))
    BY <2>1, <2>3, <2>6, FlatElements DEF Backed, MayReshape
  <2>8. Advance(args)
    BY <1>5, <2>5, <2>7 DEF Reshape
  <2> QED BY <2>8, AdvanceLives
<1>6. Aliasing(op.type) => Identity \/ Reshape
  BY DEF Operate, ActivationResize, ActivationCPU, ActivationGPU, AddNResizeCPU, AddNCPU, AddNResizeGPU,
         AddNGPU, BufferToImageResize, BufferToImage, ImageToBufferResize, ImageToBuffer, At, Aliasing
<1>7. step \in {"resize", "compute"}
  BY DEF TypeInv, TypeOK
<1> QED BY <1>2, <1>3, <1>4, <1>5, <1>6, <1>7

-----------------------------------------------------------------------------
(* Setting up: memory is made at once, or for later by those who own it.   *)
HasSame(m) ==
  LET b == tensors[m].buffer IN
  /\ Has(m) /\ tensors'[m].buffer = b /\ tensors'[m].shape = tensors[m].shape
  /\ buffers'[b].mem = buffers[b].mem /\ buffers'[b].image = buffers[b].image
  /\ buffers'[b].phys = buffers[b].phys /\ buffers'[b].size = buffers[b].size

HasNew(m) ==
  LET b == buffers'[tensors'[m].buffer] IN
  /\ b.mem /\ (b.image <=> InImage(net, m)) /\ Measured(b)
  /\ ~OnGPU => b.size \in Nat /\ Elements(tensors'[m].shape) <= b.size

LEMMA SetupBacks ==
  ASSUME NetsFit, net \in Nets, UNCHANGED <<net, big>>, Backs,
         \A m \in Name : Has(m)' => ~IsAlias(m) /\ (HasSame(m) \/ HasNew(m))
  PROVE  Backs'
<1> SUFFICES ASSUME NEW m \in Name, Has(m)' PROVE Backed(m)'
  BY DEF Backs
<1>1. Root(net)[m] = m
  BY Roots DEF NetsFit
<1>2. (InImage(net, m)' <=> InImage(net, m)) /\ OnGPU' = OnGPU /\ Root(net)' = Root(net)
  BY DEF InImage, OnGPU
<1>3. CASE HasNew(m)
  BY <1>1, <1>2, <1>3 DEF HasNew, Backed, Measured
<1>4. CASE HasSame(m)
  BY <1>4, <1>1, <1>2 DEF HasSame, Backs, Backed, Measured
<1> QED BY <1>3, <1>4

LEMMA SetupCalls ==
  ASSUME Sound, Setup, UNCHANGED <<net, big>>, Calls
  PROVE  Calls'
<1>1. /\ UNCHANGED given /\ stage \in Early /\ stage' \notin {"feed", "run", "copy"} /\ Normal' = Normal
      /\ net \in Nets
      /\ stage' = "init" => step' = step /\ stage = "create"
  BY DEF Setup, CreateTensors, LoadModel, LoadBigModel, CreateOutputTensorBuffer, CreateInitNet,
         CreateNormalNet, Goto, Refused, Return, Die, Early, Normal, control, Sound, MemoryInv
<1>2. \A m \in Name : given'[m].shape = NoShape
  BY <1>1 DEF Calls
<1>3. stage' = "init" => step' = "resize"
  BY <1>1 DEF Sound, HomeInv, Active, Early
<1>4. ~(AtOp' /\ step' = "compute")
  BY <1>1, <1>3 DEF AtOp
<1>5. ASSUME NEW i \in DOMAIN Normal, i < Place' PROVE FALSE
  BY <1>1, NormalFacts, <1>5 DEF Place
<1> QED BY <1>1, <1>2, <1>4, <1>5 DEF Calls

LEMMA CreatedReady ==
  ASSUME Sound, ~starved, CreateTensors, UNCHANGED <<net, big>>
  PROVE  ReadyInv'
<1> USE DEF Sound, NetsFit
<1>1. /\ stage = "new" /\ stage' = "load" /\ net \in Nets /\ stage \in Active
      /\ \A m \in Name : tensors'[m] = IF m \in Range(net.inputs) \cup Range(net.outputs)
                                       THEN NewTensor ELSE NoTensor
  BY DEF CreateTensors, Goto, Active, Early, MemoryInv
<1>2. \A m \in Name : ~Has(m)'
  BY <1>1, NewTensors DEF Has
<1>3. Backs'
  BY <1>2 DEF Backs
<1>4. Owners'
  <2>1. NewTensor.owner /\ NoTensor.state = "none"
    BY DEF NewTensor, NoTensor
  <2> QED BY <1>1, <1>2, <2>1 DEF Owners
<1>5. Stands'
  BY <1>1, NetFacts, NewTensors DEF Stands, Loaded, Late
<1>6. Calls
  BY <1>1 DEF ReadyInv
<1>7. Calls'
  BY <1>6, SetupCalls DEF Setup
<1> QED BY <1>3, <1>4, <1>5, <1>7 DEF ReadyInv

(* The weights are loaded.                                                 *)
LoadsAll ==
  /\ stage = "load" /\ stage' = "pool"
  /\ \A m \in Name :
       IF m \in Consts(net) THEN tensors'[m].state = "live" /\ Has(m)' /\ HasNew(m) ELSE tensors'[m] = tensors[m]

LEMMA LoadedReady ==
  ASSUME Sound, ~starved, LoadModel \/ LoadBigModel, LoadsAll, UNCHANGED <<net, big>>
  PROVE  ReadyInv'
<1> USE DEF Sound, NetsFit
<1>1. stage = "load" /\ stage' = "pool" /\ net \in Nets /\ stage \in Active
  BY DEF LoadsAll, Active, Early, MemoryInv
<1>2. Backs /\ Owners /\ Stands /\ Calls
  BY <1>1 DEF ReadyInv
<1>3. \A m \in Name : ~Has(m)
  BY <1>1 DEF HomeInv, Has
<1>4. \A m \in Consts(net) : m \in Name /\ ~IsAlias(m) /\ m \notin Range(net.inputs)
  BY <1>1, ConstsAreNames DEF Consts
<1>5. \A m \in Name : m \notin Consts(net) => tensors'[m] = tensors[m] /\ ~Has(m)'
  BY <1>3 DEF LoadsAll, Has
<1>6. \A m \in Consts(net) : tensors'[m].state = "live" /\ Has(m)' /\ HasNew(m)
  BY <1>4 DEF LoadsAll
<1>7. Backs'
  BY <1>1, <1>2, <1>4, <1>5, <1>6, SetupBacks
<1>8. \A m : (IsAlias(m)' <=> IsAlias(m))
  BY DEF IsAlias
<1>9. Owners'
  <2>1. ASSUME NEW m \in Name
        PROVE  /\ tensors'[m].state = "none" \/ Has(m)' \/ tensors'[m].owner \/ IsAlias(m)
               /\ IsAlias(m) => ~Has(m)'
    BY <1>2, <1>3, <1>4, <1>5, <1>6 DEF Owners
  <2> QED BY <1>8, <2>1 DEF Owners
<1>10. Stands'
  BY <1>1, NetFacts, <1>2, <1>4, <1>5, <1>6 DEF Stands, Early, Late
<1>11. Calls'
  BY <1>2, SetupCalls DEF Setup
<1> QED BY <1>7, <1>9, <1>10, <1>11 DEF ReadyInv

LEMMA LoadsIs ==
  ASSUME Sound, ~starved', LoadModel \/ LoadBigModel
  PROVE  LoadsAll \/ Ends
<1> USE DEF Sound, NetsFit
<1>1. /\ stage = "load" /\ net \in Nets /\ stage \notin Late
      /\ \A m \in Consts(net) : m \in Name /\ Own(m) \in BufferId /\ Slice(m) \in BufferId /\ ~InImage(net, m)
  <2>1. stage = "load" /\ net \in Nets /\ stage \notin Late
    BY DEF LoadModel, LoadBigModel, MemoryInv, Late
  <2>2. ASSUME NEW m \in Consts(net) PROVE m \in Name /\ m \notin Outs(net)
    BY <2>1, ConstsAreNames DEF Consts
  <2> QED BY <2>1, <2>2, Ids, Kinds
<1>2. PICK e \in Nat : e = Elements(WeightShape)
  BY ElementsOf DEF TensorShapes
<1>3. ASSUME NEW old, NEW need \in Nat, e <= need, NEW got, got, NEW v, NEW w,
             w = [Allocated(old, need, got) EXCEPT !.val = v]
      PROVE  w.mem /\ ~w.image /\ Measured(w) /\ w.size \in Nat /\ e <= w.size
  BY <1>3 DEF Allocated, Measured
<1>4. CASE LoadModel
  <2>1. CASE Refused
    BY <2>1 DEF Refused
  <2>2. CASE ~Refused
    <3>1. /\ stage' = "pool"
          /\ tensors' = [n \in Name |-> IF n \in Consts(net)
                                        THEN TensorOn(Slice(n), WeightShape) ELSE tensors[n]]
          /\ buffers' = [b \in BufferId |->
                 CASE b = Weights -> Allocated(buffers[b], Cardinality(Consts(net)), TRUE)
                   [] b.of = "slice" /\ b.id \in Consts(net)
                        -> [Allocated(buffers[b], Elements(WeightShape), TRUE)
                              EXCEPT !.val = Const(b.id)]
                   [] OTHER -> buffers[b]]
      BY <1>4, <2>2 DEF LoadModel, Goto
    <3>2. ASSUME NEW m \in Consts(net) PROVE tensors'[m].state = "live" /\ Has(m)' /\ HasNew(m)
      <4>1. PICK b \in BufferId : b = Slice(m) /\ b.of = "slice" /\ b.id = m /\ b # Weights /\ b # Null
        BY <1>1, Ids
      <4>2. PICK w : w = [Allocated(buffers[b], e, TRUE) EXCEPT !.val = Const(m)]
        OBVIOUS
      <4>3. buffers'[b] = w
        BY <1>2, <3>1, <4>1, <4>2
      <4>4. w.mem /\ ~w.image /\ Measured(w) /\ w.size \in Nat /\ e <= w.size
        BY <4>2 DEF Allocated, Measured
      <4>5. tensors'[m] = TensorOn(b, WeightShape)
        BY <1>1, <3>1, <4>1
      <4>6. PICK t : t = tensors'[m] /\ t.buffer = b /\ t.shape = WeightShape /\ t.state = "live"
        BY <4>5 DEF TensorOn, NoTensor
      <4> QED BY <1>1, <1>2, <4>1, <4>3, <4>4, <4>6 DEF Has, HasNew
    <3> QED BY <1>1, <3>1, <3>2 DEF LoadsAll
  <2> QED BY <2>1, <2>2
<1>5. CASE LoadBigModel
  <2>1. CASE Die
    BY <2>1, DieEnds
  <2>2. CASE ~Die
    <3>1. PICK got :
            /\ \A n \in Consts(net) : got[n]
            /\ buffers' = [b \in BufferId |->
                 IF b.of = "tensor" /\ b.id \in Consts(net)
                 THEN [Allocated(buffers[b], Elements(WeightShape) + Pad, got[b.id])
                         EXCEPT !.val = Const(b.id)]
                 ELSE buffers[b]]
            /\ tensors' = [n \in Name |->
                 IF n \in Consts(net)
                 THEN [NewTensor EXCEPT !.buffer = Own(n), !.shape = WeightShape]
                 ELSE tensors[n]]
            /\ stage' = "pool"
      BY <1>5, <2>2 DEF LoadBigModel, Goto
    <3>2. PICK need \in Nat : need = Elements(WeightShape) + Pad /\ e <= need
      BY <1>2, TensorsAssumption
    <3>3. ASSUME NEW m \in Consts(net) PROVE tensors'[m].state = "live" /\ Has(m)' /\ HasNew(m)
      <4>1. PICK b \in BufferId : b = Own(m) /\ b.of = "tensor" /\ b.id = m /\ b # Null
        BY <1>1, Ids
      <4>2. PICK w : w = [Allocated(buffers[b], need, got[m]) EXCEPT !.val = Const(m)]
        OBVIOUS
      <4>3. buffers'[b] = w
        BY <3>1, <3>2, <4>1, <4>2
      <4>4. w.mem /\ ~w.image /\ Measured(w) /\ w.size \in Nat /\ e <= w.size
        BY <1>3, <3>1, <3>2, <4>2
      <4>5. PICK t : t = [NewTensor EXCEPT !.buffer = b, !.shape = WeightShape]
        OBVIOUS
      <4>6. t.buffer = b /\ t.shape = WeightShape /\ t.state = "live"
        BY <4>5 DEF NewTensor, NoTensor
      <4>7. tensors'[m] = t
        BY <1>1, <3>1, <4>1, <4>5
      <4> QED BY <1>1, <1>2, <4>1, <4>3, <4>4, <4>6, <4>7 DEF Has, HasNew
    <3> QED BY <1>1, <3>1, <3>3 DEF LoadsAll
  <2> QED BY <2>1, <2>2
<1> QED BY <1>4, <1>5

(* The arena is laid out.                                                  *)
LEMMA PlansIs ==
  ASSUME Sound, ~starved', CreateOutputTensorBuffer
  PROVE  /\ stage = "pool" /\ stage' = "create"
         /\ \A m \in Name : IF InPool(m) THEN tensors'[m].state = "live" /\ Has(m)' /\ HasNew(m)
                                         ELSE tensors'[m] = tensors[m]
         /\ \A b \in BufferId : b.of # "pool" => buffers'[b] = buffers[b]
<1> USE DEF Sound, NetsFit
<1>1. net \in Nets
  BY DEF MemoryInv
<1>2. /\ stage = "pool" /\ stage' = "create"
      /\ buffers' = [b \in BufferId |->
               IF b.of = "pool" /\ b.id \in Arena(net)
               THEN IF OnGPU
                    THEN AllocatedImage(buffers[b], ImageShape(net.plan), TRUE)
                    ELSE Allocated(buffers[b], Elements(net.plan) + Pad, TRUE)
               ELSE buffers[b]]
      /\ tensors' = [n \in Name |->
               IF \E i \in Pooled(net) : net.ops[i].out = n
               THEN LET i == CHOOSE i \in Pooled(net) : net.ops[i].out = n
                    IN TensorOn(Pool(net.ops[i].mem), NoShape)
               ELSE tensors[n]]
  BY DEF CreateOutputTensorBuffer, Goto, Refused
<1>3. PICK e \in Nat, need \in Nat : e = Elements(net.plan) /\ need = e + Pad
  BY <1>1, TensorsAssumption DEF NetFits, Elements
<1>4. PICK i : i = ImageShape(net.plan) /\ i[1] \in Int /\ i[2] \in Int
  BY <1>1, ImageOf DEF NetFits
<1>5. ASSUME NEW m \in Name, InPool(m) PROVE tensors'[m].state = "live" /\ Has(m)' /\ HasNew(m)
  <2>1. \E j \in Pooled(net) : net.ops[j].out = m
    BY <1>1, <1>5, PoolIsPool
  <2>2. PICK j \in Pooled(net) : net.ops[j].out = m /\ tensors'[m] = TensorOn(Pool(net.ops[j].mem), NoShape)
    BY <1>2, <2>1
  <2>3. j \in DOMAIN net.ops /\ net.ops[j].mem \in Block /\ net.ops[j].mem \in Arena(net)
    BY <1>1, NetFacts DEF Pooled, Arena
  <2>4. PICK b \in BufferId : b = Pool(net.ops[j].mem) /\ b.of = "pool" /\ b.id \in Arena(net) /\ b # Null
    BY <2>3, Ids
  <2>5. PICK t : t = tensors'[m] /\ t.buffer = b /\ t.shape = NoShape /\ t.state = "live"
    BY <2>2, <2>4 DEF TensorOn, NoTensor
  <2>6. InImage(net, m) <=> OnGPU
    BY <1>1, <1>5, Kinds
  <2>7. Elements(NoShape) = 0
    BY DEF Elements, NoShape
  <2>8. CASE OnGPU
    <3>1. PICK w : w = AllocatedImage(buffers[b], i, TRUE) /\ buffers'[b] = w
      BY <1>2, <1>4, <2>4, <2>8
    <3>2. w.mem /\ w.image /\ Measured(w)
      BY <1>4, <3>1 DEF AllocatedImage, Measured
    <3> QED BY <2>4, <2>5, <2>6, <2>8, <3>1, <3>2 DEF Has, HasNew
  <2>9. CASE ~OnGPU
    <3>1. PICK w : w = Allocated(buffers[b], need, TRUE) /\ buffers'[b] = w
      BY <1>2, <1>3, <2>4, <2>9
    <3>2. w.mem /\ ~w.image /\ Measured(w) /\ w.size = need
      BY <3>1 DEF Allocated, Measured
    <3>3. Elements(t.shape) = 0 /\ 0 <= need
      BY <1>3, <2>5, <2>7, TensorsAssumption
    <3>4. Elements(t.shape) <= w.size /\ w.size \in Nat
      BY <3>2, <3>3
    <3> QED BY <2>4, <2>5, <2>6, <2>9, <3>1, <3>2, <3>4 DEF Has, HasNew
  <2> QED BY <2>8, <2>9
<1>6. ASSUME NEW m \in Name, ~InPool(m) PROVE tensors'[m] = tensors[m]
  BY <1>1, <1>2, <1>6, PoolIsPool
<1> QED BY <1>2, <1>5, <1>6

LEMMA PlannedReady ==
  ASSUME Sound, ~starved, ~starved', CreateOutputTensorBuffer, UNCHANGED <<net, big>>
  PROVE  ReadyInv'
<1> USE DEF Sound, NetsFit
<1>1. /\ stage = "pool" /\ stage' = "create" /\ net \in Nets /\ stage \in Active
      /\ \A m \in Name : tensors[m].buffer \in {Null, HomeOf(m)}
  BY PlansIs DEF Active, Early, MemoryInv, HomeInv
<1>2. Backs /\ Owners /\ Stands /\ Calls
  BY <1>1 DEF ReadyInv
<1>3. \A m \in Name : InPool(m) => tensors'[m].state = "live" /\ Has(m)' /\ HasNew(m) /\ ~IsAlias(m)
  <2>1. ASSUME NEW m \in Name, InPool(m) PROVE ~IsAlias(m)
    <3>1. PICK i \in DOMAIN Normal : Normal[i].out = m /\ ~Aliasing(Normal[i].type)
      BY <2>1 DEF InPool, ShouldPreallocate
    <3>2. Root(net)[m] = m
      BY <1>1, <3>1, Roots
    <3> QED BY <1>1, <3>2, Roots
  <2> QED BY <2>1, PlansIs
<1>4. ASSUME NEW m \in Name, ~InPool(m)
      PROVE  tensors'[m] = tensors[m] /\ (Has(m)' <=> Has(m)) /\ (Has(m) => ~IsAlias(m) /\ HasSame(m))
  <2>1. tensors'[m] = tensors[m]
    BY <1>4, PlansIs
  <2>2. Has(m)' <=> Has(m)
    BY <2>1 DEF Has
  <2>3. ASSUME Has(m) PROVE ~IsAlias(m) /\ HasSame(m)
    BY <1>1, <1>2, <2>3, Roots, Homes, <1>4, Ids, PlansIs, <2>1 DEF Owners, Early, HomeOf, Has, Home,
       HasSame
  <2> QED BY <2>1, <2>2, <2>3
<1>5. Backs'
  BY <1>1, <1>2, <1>3, <1>4, SetupBacks
<1>6. \A m : (IsAlias(m)' <=> IsAlias(m))
  BY DEF IsAlias
<1>7. Owners'
  <2>1. ASSUME NEW m \in Name
        PROVE  /\ tensors'[m].state = "none" \/ Has(m)' \/ tensors'[m].owner \/ IsAlias(m)
               /\ IsAlias(m) => ~Has(m)'
    BY <1>1, <1>2, <1>3, <1>4 DEF Owners, Early
  <2> QED BY <1>6, <2>1 DEF Owners
<1>8. Stands'
  BY <1>1, Homes, <1>2, <1>4, NoAliasRoot DEF Stands, Early, Loaded, Late
<1>9. Calls'
  BY <1>2, SetupCalls DEF Setup
<1> QED BY <1>5, <1>7, <1>8, <1>9 DEF ReadyInv

(* The nets are created: what is there stays, but for its state.           *)
LEMMA FreedShape ==
  ASSUME NEW bs, GoodBuffers(bs), NEW which, NEW b \in BufferId
  PROVE  LET f == Freed(bs, which)[b] IN
         f.mem = bs[b].mem /\ f.image = bs[b].image /\ f.phys = bs[b].phys /\ f.size = bs[b].size
<1>1. PICK u, w : u = bs[b] /\ IsBuffer(u) /\ w = [u EXCEPT !.state = "freed"]
  BY DEF GoodBuffers
<1>2. w.mem = u.mem /\ w.image = u.image /\ w.phys = u.phys /\ w.size = u.size
  BY <1>1 DEF IsBuffer, BufferFields
<1>3. Freed(bs, which)[b] \in {u, w}
  BY <1>1 DEF Freed
<1> QED BY <1>1, <1>2, <1>3

Built ==
  \E ops :
    /\ \A m \in Name :
         LET t == WithOutputs(ops)[m] IN
         /\ tensors'[m].buffer = t.buffer /\ tensors'[m].shape = t.shape /\ tensors'[m].owner = t.owner
         /\ tensors'[m].state = t.state \/ t.state = "live"
    /\ \A b \in BufferId :
           /\ buffers'[b].mem = buffers[b].mem /\ buffers'[b].image = buffers[b].image
           /\ buffers'[b].phys = buffers[b].phys /\ buffers'[b].size = buffers[b].size

LEMMA BuiltReady ==
  ASSUME Sound, ~starved, CreateInitNet \/ CreateNormalNet, stage' \in Active, Built, UNCHANGED <<net, big>>
  PROVE  /\ Backs' /\ Owners' /\ Calls'
         /\ \A m \in Name : Has(m) /\ tensors[m].state = "live" => Has(m)'
<1> USE DEF Sound, NetsFit
<1>1. /\ stage \in {"create", "built"} /\ net \in Nets /\ stage \in Active /\ stage \in Early
      /\ \A m \in Name : tensors[m].buffer \in BufferId \cup {Null}
  BY DEF CreateInitNet, CreateNormalNet, Active, Early, MemoryInv, SoundTensor
<1>2. Backs /\ Owners /\ Stands /\ Calls
  BY <1>1 DEF ReadyInv
<1>3. PICK ops :
    /\ \A m \in Name :
         LET t == WithOutputs(ops)[m] IN
         /\ tensors'[m].buffer = t.buffer /\ tensors'[m].shape = t.shape /\ tensors'[m].owner = t.owner
         /\ tensors'[m].state = t.state \/ t.state = "live"
    /\ \A b \in BufferId :
           /\ buffers'[b].mem = buffers[b].mem /\ buffers'[b].image = buffers[b].image
           /\ buffers'[b].phys = buffers[b].phys /\ buffers'[b].size = buffers[b].size
  BY DEF Built
<1>4. \A m \in Name : /\ WithOutputs(ops)[m] \in {tensors[m], NewTensor}
                      /\ tensors[m].state = "live" => WithOutputs(ops)[m] = tensors[m]
  BY DEF WithOutputs
<1>5. NewTensor.owner /\ NewTensor.buffer = Null
  BY DEF NewTensor, NoTensor
<1>6. ASSUME NEW m \in Name, Has(m)'
      PROVE  Has(m) /\ tensors'[m].buffer = tensors[m].buffer /\ tensors'[m].shape = tensors[m].shape
  BY <1>3, <1>4, <1>5, <1>6 DEF Has
<1>7. ASSUME NEW m \in Name, Has(m)' PROVE ~IsAlias(m) /\ HasSame(m)
  BY <1>1, <1>6, <1>7, <1>2, <1>3 DEF Has, Owners, HasSame
<1>8. Backs'
  BY <1>1, <1>2, <1>7, SetupBacks
<1>9. \A m : (IsAlias(m)' <=> IsAlias(m))
  BY DEF IsAlias
<1>10. ASSUME NEW m \in Name
       PROVE  tensors'[m].state = "none" \/ Has(m)' \/ tensors'[m].owner \/ IsAlias(m)
  <2>1. CASE WithOutputs(ops)[m] = NewTensor
    BY <1>3, <1>5, <2>1
  <2>2. CASE WithOutputs(ops)[m] = tensors[m]
    BY <1>2, <1>3, <2>2 DEF Owners, Has
  <2> QED BY <1>4, <2>1, <2>2
<1>11. Owners'
  BY <1>7, <1>9, <1>10 DEF Owners
<1>12. Calls'
  BY <1>2, SetupCalls DEF Setup
<1>13. \A m \in Name : Has(m) /\ tensors[m].state = "live" => Has(m)'
  BY <1>3, <1>4 DEF Has
<1> QED BY <1>8, <1>11, <1>12, <1>13

LEMMA InitNetReady ==
  ASSUME Sound, ~starved, CreateInitNet, stage' \in Active, UNCHANGED <<net, big>>
  PROVE  ReadyInv'
<1> USE DEF Sound, NetsFit
<1>1. /\ stage = "create" /\ net \in Nets /\ stage \in Active /\ UNCHANGED <<buffers, at>>
      /\ AllExist(Ops(net, "INIT")) /\ tensors' = WithOutputs(Ops(net, "INIT"))
      /\ stage' \in {"init", "built"} /\ (stage' = "built" => Ops(net, "INIT") = <<>>)
  BY DEF CreateInitNet, Die, Goto, control, Active, Early, Late, MemoryInv
<1>2. Stands
  BY <1>1 DEF ReadyInv
<1>3. Built
  <2>1. PICK ops : ops = Ops(net, "INIT")
    OBVIOUS
  <2>2. /\ \A m \in Name :
             LET t == WithOutputs(ops)[m] IN
             /\ tensors'[m].buffer = t.buffer /\ tensors'[m].shape = t.shape /\ tensors'[m].owner = t.owner
             /\ tensors'[m].state = t.state \/ t.state = "live"
        /\ \A b \in BufferId :
               /\ buffers'[b].mem = buffers[b].mem /\ buffers'[b].image = buffers[b].image
               /\ buffers'[b].phys = buffers[b].phys /\ buffers'[b].size = buffers[b].size
    BY <1>1, <2>1
  <2> QED BY <2>2 DEF Built
<1>4. Backs' /\ Owners' /\ Calls' /\ \A m \in Name : Has(m) /\ tensors[m].state = "live" => Has(m)'
  BY <1>3, BuiltReady
<1>5. \A m \in Name : tensors[m].state = "live" => tensors'[m].state = "live"
  BY <1>1 DEF WithOutputs
<1>6. ASSUME NEW i \in DOMAIN Ops(net, "INIT")
      PROVE  /\ Ops(net, "INIT")[i].out \in Name /\ tensors'[Ops(net, "INIT")[i].out].state = "live"
             /\ stage' = "init" /\ ~(i < at')
  <2>1. PICK j \in DOMAIN net.ops : Ops(net, "INIT")[i] = net.ops[j] /\ net.ops[j].mode = "INIT"
    BY <1>1, OpsAreOps
  <2>2. PICK o \in Range(net.ops) : o = net.ops[j]
    BY DEF Range
  <2>3. OnGPU /\ o.out \in Name
    BY <1>1, <2>1, <2>2, NetFacts DEF NetsAreWhole, ResultsStay, OnGPU
  <2>4. at = 1
    BY <1>1, <2>3 DEF ArgsInv, Prepared, Early
  <2>5. InNet(o.out, "INIT")
    BY <2>1, <2>2 DEF InNet
  <2>6. tensors'[o.out].state = "live"
    BY <1>1, <2>3, <2>5, OutputsThere
  <2>7. stage' = "init" /\ ~(i < 1)
    BY <1>1, OpsAreOps
  <2> QED BY <1>1, <2>1, <2>2, <2>3, <2>4, <2>6, <2>7
<1>7. Stands'
  BY <1>1, NetFacts, NoAliasRoot, <1>2, <1>5, <1>4, <1>6 DEF Stands, Early, Loaded, Late
<1> QED BY <1>4, <1>7 DEF ReadyInv

LEMMA NormalNetReady ==
  ASSUME Sound, ~starved, CreateNormalNet, stage' \in Active, UNCHANGED <<net, big>>
  PROVE  ReadyInv'
<1> USE DEF Sound, NetsFit
<1>1. /\ stage = "built" /\ net \in Nets /\ stage \in Active /\ GoodTensors(tensors) /\ GoodBuffers(buffers)
  BY DEF CreateNormalNet, Active, Early, MemoryInv
<1> DEFINE os == Ops(net, "NORMAL")
           us == WithOutputs(os)
           go == {n \in Name : us[n].state = "live" /\ us[n].unused}
           wh == {Weights} \cup {Own(n) : n \in {m \in go : us[m].owner}}
<1>2. /\ stage' = "ready"
      /\ \/ ~OnGPU /\ tensors' = us /\ UNCHANGED buffers
         \/ /\ OnGPU /\ buffers' = Freed(buffers, wh)
            /\ tensors' = [n \in Name |-> IF n \in go THEN [us[n] EXCEPT !.state = "erased"] ELSE us[n]]
  BY DEF CreateNormalNet, Die, Active, Early, Late
<1> HIDE DEF os, us, go, wh
<1>3. us = WithOutputs(os) /\ \A m \in go : us[m].state = "live"
  BY DEF us, go
<1>4. \A m \in Name : IsTensor(us[m])
  <2> SUFFICES ASSUME NEW m \in Name PROVE IsTensor(us[m])
    OBVIOUS
  <2>1. us[m] \in {tensors[m], NewTensor}
    BY <1>3 DEF WithOutputs
  <2> QED BY <1>1, <2>1 DEF GoodTensors, IsTensor, Fields, NewTensor, NoTensor
<1>5. Built
  <2>1. ASSUME NEW m \in Name
        PROVE  /\ tensors'[m].buffer = us[m].buffer /\ tensors'[m].shape = us[m].shape
               /\ tensors'[m].owner = us[m].owner
               /\ tensors'[m].state = us[m].state \/ us[m].state = "live"
    <3>1. PICK t, u : t = us[m] /\ u = [t EXCEPT !.state = "erased"] /\ IsTensor(t)
      BY <1>4
    <3>2. u.buffer = t.buffer /\ u.shape = t.shape /\ u.owner = t.owner
      BY <3>1 DEF IsTensor, Fields
    <3>3. tensors'[m] = t \/ (tensors'[m] = u /\ m \in go)
      BY <1>2, <3>1
    <3> QED BY <1>3, <3>1, <3>2, <3>3
  <2>2. \A b \in BufferId :
               /\ buffers'[b].mem = buffers[b].mem /\ buffers'[b].image = buffers[b].image
               /\ buffers'[b].phys = buffers[b].phys /\ buffers'[b].size = buffers[b].size
    BY <1>1, <1>2, FreedShape
  <2> QED BY <1>3, <2>1, <2>2 DEF Built
<1>6. Backs' /\ Owners' /\ Calls' /\ \A m \in Name : Has(m) /\ tensors[m].state = "live" => Has(m)'
  BY <1>5, BuiltReady
<1>7. Stands
  BY <1>1 DEF ReadyInv
<1>8. Stands'
  <2>1. \A m \in Consts(net) : Has(m)'
    BY <1>1, NoAliasRoot, <1>6, <1>7 DEF Stands, Loaded
  <2>2. ASSUME NEW i \in DOMAIN Ops(net, "INIT") PROVE Has(Ops(net, "INIT")[i].out)'
    <3>1. PICK n \in Name : n = Ops(net, "INIT")[i].out
      BY <1>1, OpsAreOps, NetFacts
    <3>2. Has(n) /\ tensors[n].state = "live"
      BY <1>1, <1>7, <3>1 DEF Stands
    <3>3. Has(n)'
      BY <1>6, <3>2
    <3>4. Ops(net, "INIT")' = Ops(net, "INIT")
      OBVIOUS
    <3> QED BY <3>1, <3>3, <3>4
  <2>3. Consts(net)' = Consts(net) /\ Ops(net, "INIT")' = Ops(net, "INIT")
    OBVIOUS
  <2>4. ASSUME NEW m \in Range(net.inputs) PROVE tensors'[m].state # "none"
    <3>1. m \in Name /\ tensors[m].state = "live"
      BY <1>1, <1>7, NetFacts DEF Stands, Early
    <3>2. PICK t, u : t = tensors[m] /\ u = [t EXCEPT !.state = "erased"] /\ IsTensor(t)
      BY <1>1, <3>1 DEF GoodTensors
    <3>3. us[m] = t
      BY <1>3, <3>1, <3>2 DEF WithOutputs
    <3>4. u.state = "erased"
      BY <3>2 DEF IsTensor, Fields
    <3>5. tensors'[m] \in {t, u}
      BY <1>2, <3>1, <3>2, <3>3
    <3> QED BY <3>1, <3>2, <3>4, <3>5
  <2> QED BY <1>2, <2>1, <2>2, <2>3, <2>4 DEF Stands, Early, Loaded
<1> QED BY <1>6, <1>8 DEF ReadyInv

LEMMA SetupReady ==
  ASSUME Sound, ~starved, Setup, UNCHANGED <<net, big>>
  PROVE  ReadyInv'
<1> SUFFICES ASSUME stage' \in Active, ~starved' PROVE ReadyInv'
  BY DEF ReadyInv
<1>1. CASE LoadModel \/ LoadBigModel
  BY <1>1, LoadsIs, LoadedReady DEF Ends
<1> QED BY <1>1, CreatedReady, PlannedReady, InitNetReady, NormalNetReady DEF Setup

(* ... and every operator finds what it needs.                             *)
LEMMA SetupLives ==
  ASSUME Sound, ~starved, Setup, ~starved'
  PROVE  stage' # "dead"
<1> USE DEF Sound, NetsFit
<1>1. stage \in Active /\ net \in Nets
  BY DEF Setup, CreateTensors, LoadModel, LoadBigModel, CreateOutputTensorBuffer, CreateInitNet,
         CreateNormalNet, Active, Early, MemoryInv
<1>2. Stands
  BY <1>1 DEF ReadyInv
<1>3. CASE CreateInitNet
  <2>1. ASSUME NEW i \in DOMAIN Ops(net, "INIT"), NEW m \in Range(Ops(net, "INIT")[i].in)
        PROVE  Exists(Ops(net, "INIT"), i, m)
    <3>1. PICK j \in DOMAIN net.ops : Ops(net, "INIT")[i] = net.ops[j] /\ net.ops[j].mode = "INIT"
      BY <1>1, OpsAreOps
    <3>2. PICK o \in Range(net.ops) : o = net.ops[j]
      BY DEF Range
    <3>3. OnGPU
      BY <1>1, <3>1, <3>2 DEF NetsAreWhole, ResultsStay, OnGPU
    <3>4. m \in Consts(net)
      BY <1>1, <2>1, <3>1, <3>3 DEF NetsAreWhole, NetsAreGood, WeightsAreConverted, OnGPU
    <3> QED BY <1>2, <1>3, <3>4 DEF CreateInitNet, Stands, Loaded, Exists
  <2>2. AllExist(Ops(net, "INIT"))
    BY <2>1 DEF AllExist
  <2> QED BY <1>3, <2>2 DEF CreateInitNet, Goto
<1>4. CASE CreateNormalNet
  <2>1. ASSUME NEW i \in DOMAIN Normal, NEW m \in Range(Normal[i].in)
        PROVE  Exists(Normal, i, m)
    <3>1. CASE \E j \in DOMAIN Normal : Normal[j].out = m /\ j < i
      <4>1. PICK j \in DOMAIN Normal : Normal[j].out = m /\ j < i
        BY <3>1
      <4>2. j \in 1..(i - 1)
        BY <1>1, <4>1, NormalFacts
      <4> QED BY <4>1, <4>2 DEF Exists
    <3>2. CASE ~\E j \in DOMAIN Normal : Normal[j].out = m /\ j < i
      BY <1>1, <2>1, <3>2, WhoGives, <1>2, <1>4 DEF CreateNormalNet, Stands, Loaded, Early, Exists
    <3> QED BY <3>1, <3>2
  <2>2. AllExist(Ops(net, "NORMAL"))
    BY <2>1 DEF AllExist, Normal
  <2> QED BY <1>4, <2>2 DEF CreateNormalNet
<1>5. CASE CreateTensors \/ LoadModel \/ LoadBigModel \/ CreateOutputTensorBuffer
  BY <1>5 DEF CreateTensors, LoadModel, LoadBigModel, CreateOutputTensorBuffer, Goto, Refused
<1> QED BY <1>3, <1>4, <1>5 DEF Setup
-----------------------------------------------------------------------------
(* What the rest of a call leaves as it is.                                *)
LEMMA CallKeeps ==
  ASSUME Sound, ~starved, stage \in Late, stage' \in Late, UNCHANGED <<net, big, tensors>>,
         NEW c, NEW v, buffers' = WithVal(c, v) \/ UNCHANGED buffers
  PROVE  /\ Backs' /\ Owners' /\ Stands' /\ Calls
         /\ \A m : Has(m)' = Has(m)
         /\ Normal' = Normal /\ net \in Nets
<1> USE DEF Sound, NetsFit
<1>1. /\ stage \in Active /\ stage' \notin Early /\ net \in Nets /\ GoodBuffers(buffers)
      /\ \A m \in Name : tensors[m].buffer \in BufferId \cup {Null}
  BY DEF Active, Late, Early, MemoryInv, SoundTensor
<1>2. Backs /\ Owners /\ Stands /\ Calls
  BY <1>1 DEF ReadyInv
<1>3. \A m : Has(m)' = Has(m)
  BY DEF Has
<1>4. \A b \in BufferId :
        /\ buffers'[b].mem = buffers[b].mem /\ buffers'[b].image = buffers[b].image
        /\ buffers'[b].phys = buffers[b].phys /\ buffers'[b].size = buffers[b].size
  BY <1>1, WithValKeeps
<1>5. ASSUME NEW m \in Name, Has(m)' PROVE Backed(m)'
  BY <1>2, <1>3, <1>5, <1>1, <1>4, BacksStay DEF Backs
<1>6. \A m : IsAlias(m)' <=> IsAlias(m)
  BY DEF IsAlias
<1>7. Owners'
  BY <1>1, <1>2, <1>3, <1>6 DEF Owners
<1>8. Stands'
  BY <1>1, <1>2, <1>3, StandsStay
<1> QED BY <1>1, <1>2, <1>3, <1>5, <1>7, <1>8 DEF Backs, Normal

(* A call of Run: an input's memory is made, or made anew, ...             *)
LEMMA HeadInput ==
  ASSUME Sound, ~starved, stage = "feed", todo # <<>>
  PROVE  LET n == Head(todo) IN
         /\ n \in Range(net.inputs) /\ n \in Name /\ HomeOf(n) = Home(n) /\ Home(n) = Own(n)
         /\ ~IsAlias(n) /\ ~InImage(net, n)
         /\ Has(n) => HasMemory(n) /\ ~HasImage(n) /\ tensors[n].buffer.of # "slice"
         /\ Has(n) \/ tensors[n].owner
<1> USE DEF Sound, NetsFit
<1>1. stage \in Active /\ stage \in Late /\ net \in Nets /\ todo \in Seq(Range(net.inputs))
  BY DEF Active, Late, MemoryInv
<1>2. PICK n : n = Head(todo) /\ n \in Range(net.inputs)
  BY <1>1
<1>3. n \in Name /\ Home(n) = Own(n) /\ ~IsAlias(n) /\ n \notin Outs(net)
  BY <1>1, <1>2, Homes
<1>4. HomeOf(n) = Home(n)
  BY <1>1, <1>3, Roots DEF HomeOf
<1>5. ~InImage(net, n)
  BY <1>1, <1>3, Kinds
<1>6. Has(n) => HasMemory(n) /\ ~HasImage(n) /\ tensors[n].buffer.of # "slice"
  <2> SUFFICES ASSUME Has(n) PROVE HasMemory(n) /\ ~HasImage(n) /\ tensors[n].buffer.of # "slice"
    OBVIOUS
  <2>1. Backed(n)
    BY <1>1, <1>3 DEF ReadyInv, Backs
  <2>2. tensors[n].buffer = Own(n)
    BY <1>1, <1>3, <1>4 DEF HomeInv, Has
  <2>3. tensors[n].buffer.of = "tensor"
    BY <2>2, Ids
  <2> QED BY <1>5, <2>1, <2>3 DEF Backed, HasMemory, HasImage, Has
<1>7. Has(n) \/ tensors[n].owner
  BY <1>1, <1>2, <1>3 DEF ReadyInv, Stands, Owners
<1> QED BY <1>2, <1>3, <1>4, <1>5, <1>6, <1>7

LEMMA FedReady ==
  ASSUME Sound, ~starved, FeedResize, stage' \in Active, ~starved', UNCHANGED <<net, big>>
  PROVE  ReadyInv'
<1> USE DEF Sound, NetsFit
<1>1. /\ stage = "feed" /\ todo # <<>> /\ stage \in Active /\ stage \in Late /\ stage \notin Early
      /\ net \in Nets /\ UNCHANGED <<given, todo, shape>>
  BY DEF FeedResize, call, Active, Late, Early, MemoryInv
<1>2. Owners /\ Stands /\ Calls
  BY <1>1 DEF ReadyInv
<1>3. PICK r : Resize(Head(todo), shape, r) /\ Resized(r)
  BY DEF FeedResize
<1>4. r = "ok" /\ UNCHANGED stage /\ step' = "compute"
  BY <1>3 DEF Resized, Die, Active, Early, Late
<1>5. PICK n : n = Head(todo) /\ n \in Name /\ HomeOf(n) = Home(n) /\ Home(n) = Own(n) /\ ~IsAlias(n) /\ ~InImage(net, n)
  BY <1>1, HeadInput
<1>6. shape \in TensorShapes
  BY ShapesFlat DEF TypeInv
<1>7. Backs' /\ PointersStay /\ Has(n)'
  BY <1>1, <1>3, <1>4, <1>5, <1>6, MakesBacked
<1>8. Normal' = Normal /\ Ops(net, "INIT")' = Ops(net, "INIT") /\ Consts(net)' = Consts(net)
      /\ \A m : IsAlias(m)' <=> IsAlias(m)
  BY <1>1 DEF Normal, IsAlias
<1>9. Owners'
  BY <1>1, <1>2, <1>4, <1>8, <1>7 DEF Owners, PointersStay
<1>10. Stands'
  BY <1>1, <1>2, <1>4, <1>7, StandsStay DEF PointersStay
<1>11. Calls'
  BY <1>1, <1>4, NormalFacts, <1>2, <1>7, <1>5, <1>8 DEF Place, AtOp, Calls, PointersStay
<1> QED BY <1>7, <1>9, <1>10, <1>11 DEF ReadyInv

(* ... it is copied in, ...                                                *)
LEMMA CopiedReady ==
  ASSUME Sound, ~starved, FeedCopy, stage' \in Active, UNCHANGED <<net, big>>
  PROVE  ReadyInv'
<1> USE DEF Sound, NetsFit
<1>1. PICK n : n = Head(todo) /\ n \in Name /\ n \in Range(net.inputs)
  BY HeadInput DEF FeedCopy
<1>2. /\ stage = "feed" /\ todo # <<>> /\ step = "compute" /\ HasMemory(n) /\ UNCHANGED <<tensors, stage, shape>>
      /\ buffers' = WithVal(tensors[n].buffer, <<"given", n, runs>>)
      /\ given' = [given EXCEPT ![n] = [run |-> runs, shape |-> shape]]
      /\ todo' = Tail(todo) /\ step' = "resize"
  BY <1>1 DEF FeedCopy, Copied, Die, Active, Early, Late
<1>3. stage \in Late /\ stage' \in Late /\ stage \notin Early
  BY <1>2 DEF Late, Early
<1>4. /\ Backs' /\ Owners' /\ Stands' /\ Calls
      /\ \A m : Has(m)' = Has(m)
      /\ Normal' = Normal /\ net \in Nets
  BY <1>2, <1>3, CallKeeps
<1>5. \A m \in Name : given'[m] = IF m = n THEN [run |-> runs, shape |-> shape] ELSE given[m]
  BY <1>2 DEF RightInv
<1>6. \A m \in Name : given'[m].shape = IF m = n THEN shape ELSE given[m].shape
  BY <1>5
<1>7. Has(n)
  BY <1>2 DEF HasMemory, Has
<1>8. Calls'
  <2>1. Place' = 1 /\ ~AtOp' /\ ~(step' = "compute")
    BY <1>2 DEF Place, AtOp
  <2>2. \A i \in DOMAIN Normal : ~(i < 1)
    BY <1>4, NormalFacts
  <2>3. \A m \in Name : given'[m].shape # NoShape => Has(m)' /\ stage' \notin Early
    BY <1>2, <1>3, <1>4, <1>6, <1>7 DEF Calls
  <2>4. ASSUME NEW m \in Range(net.inputs) PROVE given'[m].shape = shape \/ m \in Range(todo')
    <3>1. m \in Name
      BY <1>4, NetFacts
    <3>2. CASE m # n /\ m \in Range(todo)
      <4>1. PICK q, S : q = todo /\ q \in Seq(S) /\ q # <<>> /\ S = Range(net.inputs)
        BY <1>2, <1>3 DEF MemoryInv, Active
      <4>2. PICK i \in DOMAIN q : q[i] = m
        BY <3>2, <4>1 DEF Range
      <4>3. i \in 1..Len(q) /\ i # 1 /\ Len(q) \in Nat
        BY <1>1, <3>2, <4>1, <4>2
      <4>4. (i - 1) \in 1..Len(Tail(q)) /\ Tail(q)[i - 1] = q[i] /\ DOMAIN Tail(q) = 1..Len(Tail(q))
        BY <4>1, <4>3
      <4>5. m \in Range(Tail(q))
        BY <4>2, <4>4 DEF Range
      <4> QED BY <1>2, <4>1, <4>5
    <3>3. CASE m = n
      BY <1>6, <3>1, <3>3
    <3>4. CASE m # n /\ given[m].shape = shape
      BY <1>6, <3>1, <3>4
    <3> QED BY <1>2, <1>4, <3>2, <3>3, <3>4 DEF Calls
  <2>5. shape # NoShape
    BY <1>2, <1>4 DEF Calls
  <2> QED BY <1>2, <1>4, <2>1, <2>2, <2>3, <2>4, <2>5 DEF Calls
<1> QED BY <1>4, <1>8 DEF ReadyInv

(* ... and the rest changes no memory.                                     *)
LEMMA CalledReady ==
  ASSUME Sound, ~starved, CallRun \/ RunNet \/ CopyOutput \/ RunReturns, stage' \in Active, UNCHANGED <<net, big>>
  PROVE  ReadyInv'
<1> USE DEF Sound, NetsFit
<1>1. /\ UNCHANGED <<tensors, buffers, given>>
      /\ stage \in {"ready", "feed", "copy"} /\ stage' \in {"ready", "feed", "run", "copy"}
  BY DEF CallRun, RunNet, CopyOutput, RunReturns, Goto, Return, Die, Active, Early, Late
<1>2. stage \in Late /\ stage' \in Late /\ stage' \notin Early
  BY <1>1 DEF Late, Early
<1>3. /\ Backs' /\ Owners' /\ Stands' /\ Calls
      /\ \A m : Has(m)' = Has(m)
      /\ Normal' = Normal /\ net \in Nets
  BY <1>1, <1>2, CallKeeps
<1>4. \A m \in Name : given'[m].shape # NoShape => Has(m)' /\ stage' \notin Early
  BY <1>1, <1>2, <1>3 DEF Calls
<1>5. \A i \in DOMAIN Normal : ~(i < 1)
  BY <1>3, NormalFacts
<1>6. CASE CallRun
  <2>1. PICK s \in Shapes, now \in SUBSET Range(net.inputs) :
          /\ \A n \in Range(net.inputs) \ now : given[n].shape = s
          /\ shape' = s /\ todo' = Among(net.inputs, now)
          /\ stage' = "feed" /\ step' = "resize"
    BY <1>6 DEF CallRun
  <2>2. shape' # NoShape
    BY <2>1 DEF NetsAreWhole, NetsAreGood
  <2>3. ASSUME NEW m \in Range(net.inputs) PROVE given'[m].shape = shape' \/ m \in Range(todo')
    <3>1. CASE m \in now
      <4>1. PICK j \in DOMAIN net.inputs : net.inputs[j] = m
        BY DEF Range
      <4>2. PICK q, t : q = net.inputs /\ t = Among(q, now) /\ Len(q) \in Nat /\ DOMAIN q = 1..Len(q)
        BY <1>3, NetFacts
      <4>3. \E i \in DOMAIN t : t[i] = m
        BY <3>1, <4>1, <4>2, AmongIsAll
      <4> QED BY <2>1, <4>2, <4>3 DEF Range
    <3>2. CASE m \notin now
      BY <1>1, <2>1, <3>2
    <3> QED BY <3>1, <3>2
  <2>4. Place' = 1 /\ ~AtOp'
    BY <2>1 DEF Place, AtOp
  <2>5. Calls'
    BY <1>3, <1>4, <1>5, <2>1, <2>2, <2>3, <2>4 DEF Calls
  <2> QED BY <1>3, <2>5 DEF ReadyInv
<1>7. CASE RunNet
  <2>1. /\ stage = "feed" /\ todo = <<>> /\ UNCHANGED <<at, step, shape>> /\ at = 1 /\ step # "compute"
        /\ stage' = IF Normal = <<>> THEN "copy" ELSE "run"
    BY <1>7 DEF RunNet, Goto, control, call, TypeInv, FitInv, Todo, Normal
  <2>2. \A m \in Range(net.inputs) : given'[m].shape = shape'
    BY <1>1, <1>3, <2>1 DEF Calls, Range
  <2>3. ASSUME NEW i \in DOMAIN Normal, i < Place' PROVE FALSE
    <3>1. CASE Normal = <<>>
      BY <3>1
    <3>2. CASE Normal # <<>>
      <4>1. Place' = 1
        BY <2>1, <3>2 DEF Place
      <4> QED BY <1>5, <2>3, <4>1
    <3> QED BY <3>1, <3>2
  <2>4. Calls'
    BY <1>3, <1>4, <2>1, <2>2, <2>3 DEF Calls
  <2> QED BY <1>3, <2>4 DEF ReadyInv
<1>8. CASE CopyOutput \/ RunReturns
  <2>1. stage = "copy" /\ stage' \in {"copy", "ready"} /\ UNCHANGED shape
    BY <1>1, <1>8 DEF CopyOutput, RunReturns, Return, Die, call
  <2>2. ASSUME NEW i \in DOMAIN Normal, i < Place' PROVE Has(Normal[i].out)'
    <3>1. CASE stage' = "ready"
      <4>1. Place' = 1
        BY <3>1 DEF Place
      <4> QED BY <1>5, <2>2, <4>1
    <3>2. CASE stage' = "copy"
      BY <1>3, <2>1, <3>2, <2>2 DEF Place, Calls
    <3> QED BY <2>1, <3>1, <3>2
  <2>3. ~AtOp' /\ stage' # "feed"
    BY <2>1 DEF AtOp
  <2>4. Calls'
    BY <1>1, <1>3, <1>4, <2>1, <2>2, <2>3 DEF Calls
  <2> QED BY <1>3, <2>4 DEF ReadyInv
<1> QED BY <1>6, <1>7, <1>8

LEMMA ServeReady ==
  ASSUME Sound, ~starved, Serve, UNCHANGED <<net, big>>
  PROVE  ReadyInv'
<1> SUFFICES ASSUME stage' \in Active, ~starved' PROVE ReadyInv'
  BY DEF ReadyInv
<1> QED BY FedReady, CopiedReady, CalledReady DEF Serve

LEMMA ServeLives ==
  ASSUME Sound, ~starved, Serve, ~starved', UNCHANGED net
  PROVE  stage' # "dead" \/ Excused'
<1> USE DEF Sound, NetsFit
<1>1. stage \in Active /\ stage \in Late /\ net \in Nets
  BY DEF Serve, CallRun, FeedResize, FeedCopy, RunNet, CopyOutput, RunReturns, Active, Late, MemoryInv
<1>2. Calls /\ Backs
  BY <1>1 DEF ReadyInv
<1>3. CASE FeedResize
  <2>1. PICK r : Resize(Head(todo), shape, r) /\ Resized(r)
    BY <1>3 DEF FeedResize
  <2>2. r # "fatal"
    BY <1>3, <2>1, HeadInput, ResizeLives DEF FeedResize
  <2> QED BY <1>1, <2>1, <2>2 DEF Resized, Return, Late
<1>4. CASE FeedCopy
  BY <1>2, <1>4, HeadInput DEF FeedCopy, Calls
<1>5. CASE CopyOutput
  <2>1. asked.todo # <<>> /\ asked.todo \in Seq(Range(net.outputs)) /\ stage = "copy"
    BY <1>5 DEF CopyOutput, HomeInv, Listed
  <2>2. PICK n : n = Head(asked.todo) /\ n \in Range(net.outputs) /\ n \in Name
    BY <1>1, <2>1, OutputsAreNames
  <2>3. PICK o \in Range(net.ops) : o.out = n /\ o.mode = "NORMAL"
    BY <1>1, <2>2 DEF NetsAreWhole, ResultsStay
  <2>4. PICK j \in DOMAIN net.ops : net.ops[j] = o
    BY <2>3 DEF Range
  <2>5. PICK i \in DOMAIN Normal : Normal[i] = o
    BY <1>1, <2>3, <2>4, OpsAreAll DEF Normal
  <2>6. i < Place
    BY <2>1, <1>1, NormalFacts DEF Place
  <2>7. HasMemory(n)
    BY <1>2, <2>2, <2>3, <2>5, <2>6 DEF Calls, Backs, Backed, HasMemory, Has
  <2>8. tensors[n].shape = Meaning[n].shape
    <3>1. InNet(n, "NORMAL")
      BY <2>3, <2>5 DEF InNet, Normal
    <3>2. Usable(tensors[n].buffer)
      BY <1>1, <2>2, <2>7, <3>1, UsableThere
    <3>3. Good(n)
      BY <1>1, NormalFacts, <2>2, PlanOfNormal, <2>1 DEF Made, Lost, Intact, Place, Written, Feeding, RightInv
    <3> QED BY <3>2, <3>3 DEF Good
  <2>9. ASSUME NEW s \in GivenShapes \ {tensors[n].shape}, asked' = [asked EXCEPT !.gave = s], UNCHANGED given
        PROVE  Excused'
    <3>1. asked'.todo = asked.todo /\ asked'.gave = s /\ s # NoShape
      BY <2>9 DEF GivenShapes, HomeInv, Listed
    <3>2. Meaning' = Meaning
      BY <2>9 DEF Meaning, Outs, Applied, Maker, Source
    <3>3. WrongShapeGiven'
      BY <2>1, <2>2, <2>8, <2>9, <3>1, <3>2 DEF WrongShapeGiven
    <3> QED BY <3>3 DEF Excused
  <2> QED BY <1>5, <2>1, <2>2, <2>7, <2>9 DEF CopyOutput, Return
<1>6. CASE CallRun \/ RunNet \/ RunReturns
  BY <1>6 DEF CallRun, RunNet, RunReturns, Goto, Return
<1> QED BY <1>3, <1>4, <1>5, <1>6 DEF Serve
-----------------------------------------------------------------------------
LEMMA ReadyInit == Init => ReadyInv
<1> SUFFICES ASSUME Init PROVE ReadyInv
  OBVIOUS
<1>1. /\ stage = "new" /\ given = [n \in Name |-> Given0] /\ net \in Nets
      /\ tensors = [n \in Name |-> NoTensor]
  BY DEF Init, NoMemoryYet
<1>2. \A m \in Name : tensors[m].state = "none" /\ ~Has(m) /\ given[m].shape = NoShape
  BY <1>1 DEF NoTensor, Has, Given0
<1>3. Backs /\ Owners /\ Stands
  BY <1>1, <1>2 DEF Backs, Owners, Stands, Loaded, Late
<1>4. Calls
  BY <1>1, NormalFacts, <1>2 DEF Place, Calls, AtOp
<1> QED BY <1>3, <1>4 DEF ReadyInv

(* An allocation that has failed is not forgotten.                         *)
LEMMA StaysStarved ==
  ASSUME starved, [Next]_vars
  PROVE  starved'
BY DEF Setup, CreateTensors, LoadModel, LoadBigModel, CreateOutputTensorBuffer, CreateInitNet,
   CreateNormalNet, Goto, Refused, Operate, ActivationResize, ActivationCPU, ActivationGPU, AddNResizeCPU,
   AddNCPU, AddNResizeGPU, AddNGPU, Identity, Reshape, BufferToImageResize, BufferToImage,
   ImageToBufferResize, ImageToBuffer, Resized, Advance, Compute, Serve, CallRun, FeedResize, FeedCopy,
   RunNet, CopyOutput, RunReturns, Destroy, Next, Stopped, vars

LEMMA ReadyNext ==
  ASSUME Sound, [Next]_vars
  PROVE  ReadyInv'
<1>1. UNCHANGED <<net, big>>
  BY BigStays
<1>2. CASE starved
  BY <1>2, StaysStarved DEF ReadyInv
<1>3. CASE ~starved /\ (UNCHANGED vars \/ Stopped)
  <2>1. UNCHANGED <<tensors, buffers, net, stage, at, step, given, todo, shape, starved>>
    BY <1>3 DEF Stopped, vars, control, call
  <2>2. Normal' = Normal /\ Place' = Place
    BY <2>1 DEF Normal, Place
  <2>3. UNCHANGED <<Todo, op>> /\ (AtOp' <=> AtOp)
    BY <2>1 DEF Todo, op, AtOp
  <2>4. \A m : (Has(m)' <=> Has(m)) /\ (IsAlias(m)' <=> IsAlias(m)) /\ (InImage(net, m)' <=> InImage(net, m))
    BY <2>1 DEF Has, IsAlias, InImage
  <2>5. \A m : Backed(m)' <=> Backed(m)
    BY <2>1, <2>4 DEF Backed, Measured, OnGPU
  <2>6. (Backs' <=> Backs) /\ (Owners' <=> Owners) /\ (Stands' <=> Stands)
    BY <2>1, <2>4, <2>5 DEF Backs, Owners, Stands
  <2>7. Calls => Calls'
    BY <2>1, <2>2, <2>3, <2>4 DEF Calls
  <2> QED BY <2>1, <2>6, <2>7 DEF ReadyInv, Sound
<1>4. CASE Destroy
  BY <1>4 DEF Destroy, Goto, ReadyInv, Active, Early, Late
<1> QED BY <1>1, <1>2, <1>3, <1>4, OperateReady, SetupReady, ServeReady DEF Next

LEMMA OrderNext ==
  ASSUME Sound, OrderInv, [Next]_vars
  PROVE  OrderInv'
<1>1. CASE UNCHANGED vars \/ Stopped \/ Setup \/ Destroy
  BY <1>1 DEF Stopped, vars, call, Setup, CreateTensors, LoadModel, LoadBigModel, CreateOutputTensorBuffer,
     CreateInitNet, CreateNormalNet, Destroy, Goto, Refused, Return, Die, OrderInv
<1>2. CASE Operate
  <2>1. UNCHANGED <<asked, todo>> /\ stage \in {"init", "run"} /\ (stage' = "run" => stage = "run")
    BY <1>2 DEF Operate, ActivationResize, ActivationCPU, ActivationGPU, AddNResizeCPU, AddNCPU, AddNResizeGPU,
       AddNGPU, Identity, Reshape, BufferToImageResize, BufferToImage, ImageToBufferResize, ImageToBuffer,
       Still, call, At, AtOp, Resized, Return, Die, Advance, Compute
  <2> QED BY <2>1 DEF OrderInv
<1>3. CASE Serve
  BY <1>3 DEF Serve, CallRun, FeedResize, FeedCopy, RunNet, CopyOutput, RunReturns, Goto, Resized, Return, Die,
     call, OrderInv, HomeInv, Listed, Sound
<1> QED BY <1>1, <1>2, <1>3 DEF Next

LEMMA FatalNext ==
  ASSUME Sound, OrderInv, FatalIsJustified, [Next]_vars
  PROVE  FatalIsJustified'
<1>1. CASE starved
  BY <1>1, StaysStarved DEF FatalIsJustified
<1>2. CASE ~starved /\ (UNCHANGED vars \/ Stopped)
  <2>1. UNCHANGED vars
    BY <1>2 DEF Stopped
  <2>2. UNCHANGED <<op, Todo, OnGPU, Meaning, Root(net)>>
    BY <2>1 DEF vars, op, Todo, OnGPU, Meaning, Outs, Applied, Maker, Source, control, call
  <2>3. Excused' = Excused
    BY <2>1, <2>2 DEF vars, control, call, Excused, SizesDiffer, AddedToItself, WrongShapeGiven, AtSum, In
  <2> QED BY <2>1, <2>3 DEF vars, TooLarge, HasImage, FatalIsJustified, Excused
<1>3. CASE Destroy
  BY <1>3 DEF Destroy, Goto, FatalIsJustified
<1>4. CASE ~starved /\ (Operate \/ Setup \/ Serve)
  BY <1>4, OperateLives, SetupLives, ServeLives, BigStays DEF FatalIsJustified, Excused
<1> QED BY <1>1, <1>2, <1>3, <1>4 DEF Next

(* The checks that end the process are only reached after an allocation    *)
(* has failed, for a tensor that exceeds the image it got, at a sum the    *)
(* definition of the net makes impossible (of different sizes, or on the   *)
(* CPU of one tensor with itself), or for an output to which the caller    *)
(* gave another shape than that definition does.  Otherwise every operator *)
(* finds memory of its kind behind what it reads, and resizing, mapping    *)
(* and copying out find what they check for, in every call and for any     *)
(* shapes.  The nets are those whose memory is planned safely and whose    *)
(* operators get the kind of memory their kernels are for; on the GPU they *)
(* do not reshape, because there a Reshape that is waited for is fatal.    *)
THEOREM DeathsJustified ==
  ASSUME NetsFit
  PROVE  Spec => []FatalIsJustified
<1>1. NetsAreWhole /\ NetsAreGood /\ \A n \in Nets : WeightsAreConverted(n)
  BY DEF NetsFit, NetsAreWhole, NetsAreGood
<1> DEFINE Inv == /\ TypeInv /\ MemoryInv /\ ArgsInv /\ HomeInv /\ FitInv /\ RightInv
                  /\ ReadyInv /\ OrderInv /\ FatalIsJustified
<1>2. Init => Inv
  <2> SUFFICES ASSUME Init PROVE Inv
    OBVIOUS
  <2>1. stage = "new" /\ asked.gave = NoShape
    BY DEF Init
  <2>2. OrderInv /\ FatalIsJustified
    BY <2>1 DEF OrderInv, FatalIsJustified
  <2> QED BY <2>2, TypeInit, MemoryInit, ArgsInit, HomeInit, FitInit, RightInit, ReadyInit
<1>3. Inv /\ [Next]_vars => Inv'
  <2> SUFFICES ASSUME Inv, [Next]_vars PROVE Inv'
    OBVIOUS
  <2>1. TypeInv' /\ MemoryInv' /\ ArgsInv' /\ HomeInv' /\ FitInv' /\ RightInv'
    BY <1>1, TypeNext, MemoryNext, ArgsNext, HomeNext, FitNext, RightNext
  <2>2. Sound
    BY DEF Sound
  <2>3. ReadyInv' /\ OrderInv' /\ FatalIsJustified'
    BY <2>2, ReadyNext, OrderNext, FatalNext
  <2> QED BY <2>1, <2>3
<1>4. Inv => FatalIsJustified
  OBVIOUS
<1> QED BY <1>2, <1>3, <1>4, PTL DEF Spec
=============================================================================
