------------------------------- MODULE MCFunctors -------------------------------
(***************************************************************************)
(* One of each functor, with inputs that differ in one dimension at a time *)
(* and sizes around the blocks of four and five pixels.                    *)
(***************************************************************************)
EXTENDS Functors, TLC

Pictures == {<<1, 3, 4, 4>>, <<1, 3, 5, 4>>, <<2, 3, 4, 4>>, <<1, 6, 5, 8>>}

Odd == {<<1, 1, 1, 1>>, <<1, 4, 6, 5>>, <<2, 7, 21, 3>>}

One(s) == {<<i>> : i \in s}

F(kind, calls) == [kind |-> kind, calls |-> calls]

Type(t)  == [type |-> t, size |-> <<0, 0>>]
Given(p) == [type |-> "GIVEN", size |-> p]

W(kind, calls, strides, dilations, padding) ==
  F(kind, calls) @@ [strides |-> strides, dilations |-> dilations, padding |-> padding]

PerPixelFunctors ==
  {F(k, One(Pictures \cup Odd)) : k \in {"activation", "batchnorm", "softmax"}}
  \cup {F("biasadd", One(Pictures \cup {<<2, 8>>})), F("softmax", One({<<2, 8>>, <<3, 9>>, <<1, 2, 3>>})),
        F("addn", {<<i, i>> : i \in Pictures \cup Odd}), F("addn", {<<i, i, i>> : i \in Odd}),
        F("addn", {<< <<1, 3, 4, 4>>, <<1, 3, 5, 4>> >>})}
  \cup {F("eltwise", One(Pictures)),
        F("eltwise", {<<i, i>> : i \in Pictures}),
        F("eltwise", {<<i, <<4>> >> : i \in Pictures}),
        F("eltwise", {<< <<4>>, i>> : i \in {<<1, 3, 4, 4>>, <<1, 1, 1, 4>>}}
                       \cup {<< <<1, 1, 1, 4>>, <<4>> >>, << <<4>>, <<2, 1, 1, 4>> >>}),
        F("eltwise", {<< <<2, 3, 4, 4>>, i>> : i \in {<<1, 1, 1, 4>>, <<2, 1, 1, 4>>, <<2, 3, 4, 4>>, <<2, 4, 4, 4>>}}
                       \cup {<< <<1, 1, 1, 4>>, <<2, 3, 4, 4>> >>})}

MovingFunctors ==
  {F("pad", One(Pictures)) @@ [paddings |-> p] : p \in {<<0, 0, 1, 2, 0, 3, 0, 0>>, <<0, 0, 0, 0, 0, 0, 1, 0>>}}
  \cup {F("resize", One(Pictures)) @@ [size |-> <<9, 11>>]}
  \cup {F("shuffle", One({<<1, 3, 4, 16>>, <<1, 3, 5, 16>>, <<1, 3, 4, 32>>, <<1, 3, 4, 24>>})) @@ [groups |-> 4]}
  \cup {F("concat", {<<i, [i EXCEPT ![4] = n]>> : i \in Pictures, n \in {4, 6}}) @@ [axis |-> 3],
        F("concat", {<<i, i>> : i \in Odd}) @@ [axis |-> 3],
        F("concat", {<<i, i, [i EXCEPT ![4] = n]>> : i \in Pictures, n \in {6, 8}}) @@ [axis |-> 3],
        F("concat", {<<i, i>> : i \in Odd}) @@ [axis |-> 1]}
  \cup {F("slice", One(Pictures)) @@ [outputs |-> n] : n \in {1, 2}}
  \cup {F("crop", {<<i, <<1, 2, 3, 4>> >> : i \in Pictures} \cup {<< <<1, 6, 5, 8>>, <<1, 4, 4, 4>> >>})
          @@ [axis |-> x[1], offset |-> x[2]] :
          x \in {<<0, <<0, 0, 1, 0>> >>, <<1, <<4, 0, 1>> >>, <<1, <<0, 1, 1>> >>, <<2, <<1>> >>, <<2, <<0, 1>> >>,
                 <<3, <<1>> >>, <<2, <<>> >>}}
  \cup {F("depthtospace", One({<<1, 2, 4, 16>>, <<1, 4, 2, 16>>, <<2, 4, 2, 32>>, <<1, 2, 2, 8>>}))
          @@ [block |-> 2, d2s |-> b] : b \in BOOLEAN}
  \cup {F("spacetobatch", One({<<4, 2, 2, 5>>, <<4, 2, 4, 5>>, <<8, 4, 2, 5>>, <<4, 3, 2, 5>>}))
          @@ [block |-> <<2, 2>>, paddings |-> p, b2s |-> b] :
          p \in {<<0, 0, 0, 0>>, <<1, 1, 0, 2>>, <<1, 0, 0, 0>>}, b \in BOOLEAN}

With(filter, ins) == {<<i, filter>> : i \in ins}

Shapes3 == {<<1, 6, 7, 3>>, <<1, 6, 12, 3>>, <<2, 5, 6, 3>>}

WindowFunctors ==
  {W("conv2d", With(<<5, 3, k[1], k[2]>>, Shapes3), s, <<1, 1>>, p) :
     k \in {<<1, 1>>, <<3, 3>>, <<2, 2>>, <<1, 3>>}, s \in {<<1, 1>>, <<2, 2>>, <<1, 2>>},
     p \in {Type("SAME"), Type("VALID"), Given(<<2, 2>>)}}
  \cup {W("conv2d", With(<<5, 3, k, k>>, Shapes3), <<1, 1>>, <<2, 2>>, Type("SAME")) : k \in {1, 3}}
  \cup {W("depthwise", With(<<m, 3, 3, 3>>, Shapes3), s, <<1, 1>>, p) :
          m \in {1, 2}, s \in {<<1, 1>>, <<2, 2>>, <<1, 2>>}, p \in {Type("SAME"), Given(<<2, 3>>)}}
  \cup {W("pooling", One(Pictures), s, d, p) @@ [kernels |-> <<2, 3>>] :
          s \in {<<1, 1>>, <<2, 2>>}, d \in {<<1, 1>>, <<2, 2>>}, p \in {Type("SAME"), Type("VALID"), Given(<<1, 1>>)}}
  \cup {W("deconv2d", With(<<5, 3, 3, 3>>, Shapes3), <<s, s>>, <<1, 1>>, Given(<<1, 2>>))
          @@ [from |-> "caffe", out |-> <<0, 0>>] : s \in {1, 2, 3}}
  \cup {W("deconv2d", With(<<5, 3, 3, 3>>, {<<1, 6, 7, 3>>, <<2, 6, 7, 3>>, <<1, 5, 7, 3>>}), <<2, 2>>, <<1, 1>>, Type("SAME"))
          @@ [from |-> "tensorflow", out |-> <<12, 14>>]}
  \cup {W("depthwisedeconv", With(<<1, 3, 3, 3>>, Shapes3), <<2, 2>>, <<1, 1>>, Given(<<1, 2>>))
          @@ [from |-> o, out |-> <<0, 0>>] : o \in {"caffe", "tensorflow"}}

ProductFunctors ==
  {F("matmul", {<< <<2, h, 3>>, <<2, 3, w>> >> : h \in {4, 5}, w \in {1, 8}}
                 \cup {<< <<2, 2, 3, 3>>, <<2, 2, 3, 6>> >>}) @@ [transA |-> t, transB |-> FALSE] : t \in BOOLEAN}
  \cup {F("fullyconnected", {<<i, <<10, 4, 2, 2>> >> : i \in {<<n, 2, 2, 4>> : n \in 1..3}})}
  \cup {F("reducemean", One({<<1, 3, 4, 4>>, <<1, 9, 8, 4>>, <<3, 3, 4, 9>>})) @@ [axis |-> a] : a \in {<<1, 2>>, <<2>>}}
  \cup {W("winograd", One(Shapes3), <<1, 1>>, <<1, 1>>, p) @@ [block |-> b] :
          b \in {2, 4, 6}, p \in {Type("SAME"), Type("VALID"), Given(<<2, 0>>)}}
  \cup {F("winogradinverse", One({<<36, 5, 4>>, <<36, 5, 8>>, <<36, 9, 4>>}))
          @@ [block |-> 4, batch |-> 1, height |-> 7, width |-> 8]}

Layouts ==
  {<<"CONV2D_FILTER", <<5, 3, 3, 3>> >>, <<"DW_CONV2D_FILTER", <<1, 5, 3, 3>> >>, <<"IN_OUT_CHANNEL", <<2, 3, 4, 5>> >>,
   <<"IN_OUT_CHANNEL", <<2, 9>> >>, <<"ARGUMENT", <<7>> >>, <<"IN_OUT_HEIGHT", <<2, 3, 5>> >>,
   <<"IN_OUT_WIDTH", <<2, 3, 5>> >>, <<"WINOGRAD_FILTER", <<5, 3, 3, 3>> >>, <<"WEIGHT_HEIGHT", <<5, 3, 1, 2>> >>,
   <<"WEIGHT_WIDTH", <<5, 3, 1, 2>> >>}

TransferFunctors ==
  {F(k, {<<x[2]>>, <<[x[2] EXCEPT ![1] = 1]>>}) @@ [type |-> x[1], block |-> 2] :
     k \in {"buffertoimage", "imagetobuffer"}, x \in Layouts}

MCFunctorSet == UNION {PerPixelFunctors, MovingFunctors, WindowFunctors, ProductFunctors, TransferFunctors}

D(k, cache, uniform, adreno, wave, check) ==
  [maxGroup |-> k, cache |-> cache, base |-> cache \div 16384, units |-> 2, nonUniform |-> ~uniform,
   adreno |-> adreno, wave |-> wave, check |-> check]

MCDeviceSet == {D(64, 8192, TRUE, FALSE, 0, FALSE), D(128, 65536, FALSE, TRUE, 64, FALSE),
                D(256, 131072, TRUE, TRUE, 128, TRUE)}
=============================================================================
