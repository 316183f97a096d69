------------------------------- MODULE Proposals -------------------------------
(***************************************************************************)
(* The proposal layer of detection models (mace/kernels/proposal.h).       *)
(*                                                                         *)
(* A call x has the feature map's height and width and the number of       *)
(* anchors; boxes, <<x1, y1, x2, y2>> in whole pixels, the anchors after   *)
(* shifting and regression, in the order of the code's indices; score, a   *)
(* function of the positions of rpn_cls_prob; the size of the image; and   *)
(* minSize, thresh = <<numerator, denominator>>, preTop and postTop.       *)
(***************************************************************************)
EXTENDS Windows, FiniteSets

LOCAL INSTANCE SequencesExt

(* Anchors are laid on every place of the feature map.                     *)
AnchorIndex(x, h, w, a) == (h * x.width + w) * x.anchors + a
Indices(x) == 0..(x.height * x.width * x.anchors - 1)

(* Sides of the boxes are clipped to the image, whose last pixel is        *)
(* size - 1.                                                               *)
Clip(v, size) == Larger(Smaller(v, size - 1), 0)

Clipped(x) ==
  [i \in Indices(x) |-> <<Clip(x.boxes[i][1], x.image[2]), Clip(x.boxes[i][2], x.image[1]),
                          Clip(x.boxes[i][3], x.image[2]), Clip(x.boxes[i][4], x.image[1])>>]

BoxWidth(b)  == b[3] - b[1] + 1
BoxHeight(b) == b[4] - b[2] + 1
BoxArea(b)   == BoxWidth(b) * BoxHeight(b)

(* Background scores of all anchors come before the object scores.         *)
ScoreIndex(x, i) == (i \div x.anchors) * (2 * x.anchors) + (i % x.anchors) + x.anchors
ScoreOf(x, i)    == x.score[ScoreIndex(x, i)]

BigEnough(x, boxes) ==
  {i \in Indices(x) : BoxWidth(boxes[i]) >= x.minSize /\ BoxHeight(boxes[i]) >= x.minSize}

(* std::sort by score alone: equal scores come in any order, so this is    *)
(* the set of the sequences it may return.                                 *)
SortedByScore(x, kept) ==
  {s \in SetToSeqs(kept) : \A i \in 1..(Len(s) - 1) : ScoreOf(x, s[i]) >= ScoreOf(x, s[i + 1])}

Common(a, b) ==
  Larger(0, Smaller(a[3], b[3]) - Larger(a[1], b[1]) + 1)
    * Larger(0, Smaller(a[4], b[4]) - Larger(a[2], b[2]) + 1)

Suppresses(x, a, b) ==
  Common(a, b) * x.thresh[2] >= x.thresh[1] * (BoxArea(a) + BoxArea(b) - Common(a, b))

(* Bug: boxes are compared with the last box kept only.                    *)
BugNms(x, boxes, s) ==
  FoldLeft(LAMBDA keep, i :
             IF \/ keep # <<>> /\ Len(keep) >= x.postTop
                \/ keep # <<>> /\ Suppresses(x, boxes[keep[Len(keep)]], boxes[i])
             THEN keep ELSE Append(keep, i),
           <<>>, s)

(* One box is kept even when none are asked for.                           *)
Nms(x, boxes, s) ==
  FoldLeft(LAMBDA keep, i :
             IF \/ keep # <<>> /\ Len(keep) >= x.postTop
                \/ \E k \in DOMAIN keep : Suppresses(x, boxes[keep[k]], boxes[i])
             THEN keep ELSE Append(keep, i),
           <<>>, s)

TopProposals(x, s) == SubSeq(s, 1, Smaller(x.preTop, Len(s)))

(* The results the call may have: sequences of indices.                    *)
Proposal(x) ==
  LET boxes == Clipped(x) IN
  {Nms(x, boxes, TopProposals(x, s)) : s \in SortedByScore(x, BigEnough(x, boxes))}
=============================================================================
