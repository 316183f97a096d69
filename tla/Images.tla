-------------------------------- MODULE Images --------------------------------
(***************************************************************************)
(* The sizes of the images that hold tensors on the GPU                    *)
(* (mace/kernels/opencl/helper.cc).                                        *)
(*                                                                         *)
(* A pixel holds four elements.  An image is <<width, height>>; a Bad      *)
(* shape is one for which the code ends the process.                       *)
(***************************************************************************)
EXTENDS Windows

Bad == <<>>

CalInOutputImageShape(s) == <<RoundUpDiv4(s[4]) * s[3], s[1] * s[2]>>                 \* NHWC
CalConv2dFilterImageShape(s) == <<s[2], s[3] * s[4] * RoundUpDiv4(s[1])>>             \* OIHW
CalDepthwiseConv2dFilterImageShape(s) == <<s[1] * s[3] * s[4], RoundUpDiv4(s[2])>>    \* MIHW
CalArgImageShape(s) == <<RoundUpDiv4(s[1]), 1>>
CalWinogradFilterImageShape(s, block) == <<RoundUpDiv4(s[2]), s[1] * (block + 2) * (block + 2)>>
CalInOutHeightImageShape(s) == <<s[3] * s[4], s[1] * RoundUpDiv4(s[2])>>
CalInOutWidthImageShape(s) == <<RoundUpDiv4(s[3]) * s[4], s[1] * s[2]>>
CalWeightHeightImageShape(s) == <<s[2] * s[3] * s[4], RoundUpDiv4(s[1])>>
CalWeightWidthImageShape(s) == <<RoundUpDiv4(s[2]) * s[3] * s[4], s[1]>>

Rank(type) == IF type = "ARGUMENT" THEN 1 ELSE 4

CalImage2DShape(s, type, block) ==
  IF Len(s) # Rank(type) THEN Bad
  ELSE CASE type = "CONV2D_FILTER"    -> CalConv2dFilterImageShape(s)
         [] type = "DW_CONV2D_FILTER" -> CalDepthwiseConv2dFilterImageShape(s)
         [] type = "IN_OUT_CHANNEL"   -> CalInOutputImageShape(s)
         [] type = "ARGUMENT"         -> CalArgImageShape(s)
         [] type = "IN_OUT_HEIGHT"    -> CalInOutHeightImageShape(s)
         [] type = "IN_OUT_WIDTH"     -> CalInOutWidthImageShape(s)
         [] type = "WINOGRAD_FILTER"  -> CalWinogradFilterImageShape(s, block)
         [] type = "WEIGHT_HEIGHT"    -> CalWeightHeightImageShape(s)
         [] type = "WEIGHT_WIDTH"     -> CalWeightWidthImageShape(s)

(* A tensor of fewer dimensions, as one of four.                           *)
FormatBufferShape(s, type) ==
  CASE type = "IN_OUT_CHANNEL" ->
         IF Len(s) = 4 THEN s ELSE IF Len(s) = 2 THEN <<s[1], 1, 1, s[2]>> ELSE Bad
    [] type \in {"IN_OUT_HEIGHT", "IN_OUT_WIDTH"} ->
         IF Len(s) = 3 THEN s \o <<1>> ELSE IF Len(s) = 4 THEN s ELSE Bad
    [] OTHER -> s

(* The logical shape of what is transformed for Winograd's algorithm.      *)
CalWinogradShape(s, type, block) ==
  LET area == (block + 2) * (block + 2) IN
  CASE type = "WINOGRAD_FILTER" -> <<area, s[1], s[2]>>
    [] type = "IN_OUT_HEIGHT" ->
         <<area, s[4], s[1] * RoundUpDiv(s[2], block) * RoundUpDiv(s[3], block)>>
    [] OTHER -> Bad
=============================================================================
