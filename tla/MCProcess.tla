------------------------------ MODULE MCProcess -------------------------------
(***************************************************************************)
(* Two threads with an engine each, both on one device, and three          *)
(* processes one after another.                                            *)
(* Two kernels of the GPU, a model of three constants and two operators,   *)
(* sent two and one at a time; chips of one, two and three sorts of cores. *)
(***************************************************************************)
EXTENDS Process, TLC

MCKeys == {"k1", "k2"}

MCCandidates == ("k1" :> {<<4, 2, 0>>}) @@ ("k2" :> {<<8, 2, 5>>})

MCDefault == <<1, 1, 0>>

Setup(d, f) == [devices |-> ("t1" :> d[1]) @@ ("t2" :> d[2]), chip |-> f]

Chip(f) == ("c1" :> f[1]) @@ ("c2" :> f[2]) @@ ("c3" :> f[3]) @@ ("c4" :> f[4])

MCChips == {Chip(f) : f \in {<<1, 1, 2, 2>>, <<1, 2, 3, 3>>, <<0, 1, 2, 2>>}}

MCCoreSets == {{"c1"}, {"c1", "c3"}}

MCSetups ==
  {Setup(d, Chip(<<1, 1, 2, 2>>)) : d \in {<<"GPU", "GPU">>, <<"HEXAGON", "HEXAGON">>}}
  \cup {Setup(<<"CPU", "CPU">>, f) : f \in MCChips}
=============================================================================
