---------------------------- MODULE VisionPipeline ----------------------------
(***************************************************************************)
(* From an image to detections: letterbox, the decoding of what the        *)
(* network answers, non-maximum suppression per class and the way back to  *)
(* the image (pipelines/yolo_postprocess.py), with labels and order as     *)
(* OnnxYoloDetector.detect gives them (pipelines/detection.py).            *)
(*                                                                         *)
(* The network is external: its answer is a sequence of candidates, the    *)
(* columns of its array, each a centre, a size in the model's square and a *)
(* confidence per class, all in tenths.  Confidences are never compared    *)
(* across roundings.                                                       *)
(***************************************************************************)
EXTENDS Integers, Sequences, Folds, FiniteSetsExt, SequencesExt, Ranking, Rounding

CONSTANTS
  ImgSize,  \* yolo_imgsz: the side of the model's square
  Conf,     \* yolo_conf, in tenths
  Iou,      \* yolo_iou, in tenths
  Classes   \* classes the network knows, numbered from 1

ASSUME VisionAssumption ==
  /\ ImgSize \in Nat \ {0} /\ Classes \in Nat \ {0}
  /\ Conf \in 0 .. 10 /\ Iou \in 0 .. 10

\* An image has pixels; the network answers any numbers but no negative size.
\* A candidate is cx, cy, w, h and the scores.
ImageSizes == [h : Nat \ {0}, w : Nat \ {0}]

Candidates == {row \in [1 .. 4 + Classes -> Int] : row[3] >= 0 /\ row[4] >= 0}

Larger(a, b) == IF a > b THEN a ELSE b

Smaller(a, b) == IF a < b THEN a ELSE b

Within(x, lo, hi) == Larger(lo, Smaller(x, hi))

-----------------------------------------------------------------------------
(***************************************************************************)
(* letterbox: the gain is ImgSize / Side(image).                           *)
(***************************************************************************)

Side(image) == Larger(image.h, image.w)

Resized(length, image) == Round(length * ImgSize, Side(image))

\* round(pad - 0.1), where pad is half of what is left.
Pad(length, image) == Round(5 * (ImgSize - Resized(length, image)) - 1, 10)

Letterbox(image) ==
  [left |-> Pad(image.w, image), top |-> Pad(image.h, image),
   width |-> Resized(image.w, image), height |-> Resized(image.h, image)]

-----------------------------------------------------------------------------
(***************************************************************************)
(* decode_yolo_output: the best class of each row, the first of several,   *)
(* if it is good enough; corners, in twentieths, for centres.              *)
(***************************************************************************)

\* The array has a row per number and a column per candidate.  It is turned only
\* if it is wider than high: with few candidates its rows are taken for them.
Turned(answer) == 4 + Classes < Len(answer)

Rows(answer) ==
  IF Turned(answer) THEN answer
  ELSE [r \in 1 .. 4 + Classes |-> [i \in DOMAIN answer |-> answer[i][r]]]

BestClass(scores) ==
  CHOOSE c \in DOMAIN scores :
    /\ \A d \in DOMAIN scores : scores[d] <= scores[c]
    /\ \A d \in DOMAIN scores : d < c => scores[d] < scores[c]

Decoded(row) ==
  LET scores == [c \in 1 .. Len(row) - 4 |-> row[c + 4]]
  IN [cls |-> BestClass(scores), score |-> scores[BestClass(scores)],
      x1 |-> 2 * row[1] - row[3], y1 |-> 2 * row[2] - row[4],
      x2 |-> 2 * row[1] + row[3], y2 |-> 2 * row[2] + row[4]]

Decode(answer) ==
  LET all == [i \in DOMAIN Rows(answer) |-> Decoded(Rows(answer)[i])]
  IN IF ~Turned(answer) /\ Len(answer) < 5 THEN <<>>
     ELSE Picked(all, {i \in DOMAIN all : all[i].score >= Conf})

-----------------------------------------------------------------------------
(***************************************************************************)
(* nms_per_class.                                                          *)
(***************************************************************************)

Area(b) == (b.x2 - b.x1) * (b.y2 - b.y1)

Inter(a, b) ==
  Larger(0, Smaller(a.x2, b.x2) - Larger(a.x1, b.x1))
    * Larger(0, Smaller(a.y2, b.y2) - Larger(a.y1, b.y1))

Union(a, b) == Area(a) + Area(b) - Inter(a, b)

\* iou > Iou, where an empty union overlaps nothing.
Overlap(a, b) == Union(a, b) > 0 /\ 10 * Inter(a, b) > Iou * Union(a, b)

\* Mutant: one suppression for all classes together.
SuppressesAny(a, b) == Overlap(a, b)

Suppresses(a, b) == a.cls = b.cls /\ Overlap(a, b)

\* The best first, the first of equals first.
BestFirst(boxes) ==
  {p \in (DOMAIN boxes) \X (DOMAIN boxes) :
     \/ boxes[p[1]].score > boxes[p[2]].score
     \/ boxes[p[1]].score = boxes[p[2]].score /\ p[1] < p[2]}

Kept(boxes) ==
  FoldLeft(LAMBDA keep, i : IF \E k \in keep : Suppresses(boxes[k], boxes[i])
                            THEN keep ELSE keep \cup {i},
           {}, Ranked(DOMAIN boxes, BestFirst(boxes)))

-----------------------------------------------------------------------------
(***************************************************************************)
(* scale_boxes and detect.                                                 *)
(***************************************************************************)

\* One coordinate, back to pixels: clip, then round.
ToPixel(x, pad, image, length) ==
  LET n == (x - 20 * pad) * Side(image)
  IN Round(Within(n, 0, length * (20 * ImgSize)), 20 * ImgSize)

\* A class without a label gets a name of its own.
Detection(b, image, labels) ==
  LET x(v) == ToPixel(v, Letterbox(image).left, image, image.w)
      y(v) == ToPixel(v, Letterbox(image).top, image, image.h)
  IN [cls |-> IF b.cls \in DOMAIN labels THEN labels[b.cls] ELSE Len(labels) + b.cls,
      conf |-> b.score, bbox |-> <<x(b.x1), y(b.y1), x(b.x2), y(b.y2)>>]

\* In the order of the answer among equals of confidence.
Detect(answer, image, labels) ==
  LET boxes == Decode(answer)
      kept == Ranked(Kept(boxes), BestFirst(boxes))
  IN [i \in DOMAIN kept |-> Detection(boxes[kept[i]], image, labels)]

=============================================================================
