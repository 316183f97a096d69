------------------------------ MODULE MCEngine ------------------------------
(***************************************************************************)
(* Small nets for Engine: every safe memory plan for them, on both devices *)
(***************************************************************************)
EXTENDS Engine

O(type, out, in, mode, mem) ==
  [type |-> type, out |-> out, in |-> in, mode |-> mode, mem |-> mem]
N(t, out, in, mem) == O(t, out, in, "NORMAL", mem)

Names  == {"a", "b", "c", "s", "w", "x", "y", "z", "xi", "yi", "wi"}
Mem    == Block \cup {None}
Small  == {<<1, 1, 4>>, <<1, 2, 4>>, <<2, 2, 4>>}
TwoShapes == {<<1, 1, 4>>, <<2, 2, 4>>}
Big    == <<1, 2, 4>>     \* what the arena is planned for

Model(device, ops, outs) ==
  [device |-> device, ops |-> ops, inputs |-> <<"x", "y">>, outputs |-> outs,
   plan |-> Big]

(* a = prelu(x), b = a under another name or shape, c = prelu(b or x),     *)
(* z = a sum of two of them.                                               *)
CPUNets ==
  {Model("CPU", <<N("Activation", "a", <<"x", "w">>, m1),
                  IF t = "Reshape" THEN N(t, "b", <<"a", "s">>, m1)
                                   ELSE N(t, "b", <<"a">>, m1),
                  N("Activation", "c", <<from, "w">>, m2),
                  N("AddN", "z", sum, m3)>>, outs) :
     t \in {"Identity", "Reshape"}, from \in {"b", "x"},
     sum \in {<<"c", "y">>, <<"c", "b">>},
     m1 \in Mem, m2 \in Mem, m3 \in Mem, outs \in {<<"z">>, <<"b", "z">>}}

GPUNets ==
  {Model("GPU", <<O("BufferToImage", "wi", <<"w">>, "INIT", None),
                  N("BufferToImage", "xi", <<"x">>, m1),
                  N("BufferToImage", "yi", <<"y">>, None),
                  N("Activation", "a", <<"xi", "wi">>, m2),
                  N("Identity", "b", <<"a">>, m2),
                  N("AddN", "c", <<sum, "yi">>, m3),
                  N("ImageToBuffer", "z", <<"c">>, None)>>, <<"z">>) :
     sum \in {"b", "xi"}, m1 \in Mem, m2 \in Mem, m3 \in Mem}

(* Sums of one memory under two names, of a tensor with itself, and of     *)
(* results with a weight, which is smaller.                                *)
OddNets ==
  {Model("CPU", <<N("Activation", "a", <<"x", "w">>, None),
                  N("Identity", "b", <<"a">>, None),
                  N("AddN", "z", sum, None)>>, <<"z">>) :
     sum \in {<<"b", "a">>, <<"y", "y">>, <<"w", "w">>, <<"a", "w">>}}
  \cup
  {Model("GPU", <<O("BufferToImage", "wi", <<"w">>, "INIT", None),
                  N("BufferToImage", "xi", <<"x">>, None),
                  N("BufferToImage", "yi", <<"y">>, None),
                  N("AddN", "c", <<"xi", sum>>, None),
                  N("ImageToBuffer", "z", <<"c">>, None)>>, <<"z">>) :
     sum \in {"wi", "xi"}}

SafeNets == {n \in CPUNets \cup GPUNets \cup OddNets : PlanIsSafe(n)}

ASSUME NetsAssumption ==
  /\ NoShape \notin Shapes
  /\ \A n \in SafeNets : WeightsAreConverted(n) /\ InOrder(n) /\ ResultsStay(n) /\ NetFits(n)

(* A Reshape on the GPU.                                                   *)
ReshapeNets ==
  {Model("GPU", <<N("BufferToImage", "xi", <<"x">>, None),
                  N("BufferToImage", "yi", <<"y">>, None),
                  N("Reshape", "b", <<"xi", "s">>, None),
                  N("ImageToBuffer", "z", <<"b">>, None)>>, <<"z">>)}
OneChannel == {<<2, 2, 1>>}
=============================================================================
