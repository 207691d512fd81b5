---------------------------- MODULE TrainingTools ----------------------------
(***************************************************************************)
(* The offline tools that decide whether a model may be used: word error   *)
(* rate (stt/evaluate_wer.py), recall per class (ml/evaluate.py), and the  *)
(* two that give classes their numbers, the relabelling of a data set      *)
(* (ml/prepare_dataset.py) and labels.txt (ml/sync_labels.py, read by the  *)
(* detector).                                                              *)
(*                                                                         *)
(* A word is known after normalize_text; rates are in tenths of a          *)
(* thousandth, as they are rounded.                                        *)
(***************************************************************************)
EXTENDS Integers, Sequences, FiniteSetsExt, SequencesExt, Ranking, Rounding

Rate(n, d) == Round(10000 * n, d)

-----------------------------------------------------------------------------
(***************************************************************************)
(* Word error rate.                                                        *)
(***************************************************************************)

Smallest(a, b) == IF a < b THEN a ELSE b

\* _levenshtein_words, for the first p[1] and the first p[2] words, from what
\* is known of fewer.
Edits(d, ref, hyp, p) ==
  LET i == p[1]
      j == p[2]
  IN IF i = 0 THEN j ELSE IF j = 0 THEN i
     ELSE Smallest(Smallest(d[<<i - 1, j>>] + 1, d[<<i, j - 1>>] + 1),
                   d[<<i - 1, j - 1>>] + (IF ref[i] = hyp[j] THEN 0 ELSE 1))

EditDistance(ref, hyp) ==
  LET d[p \in (0 .. Len(ref)) \X (0 .. Len(hyp))] == Edits(d, ref, hyp, p)
  IN d[<<Len(ref), Len(hyp)>>]

Wer(ref, hyp) ==
  IF ref = <<>> THEN (IF hyp = <<>> THEN 0 ELSE 10000)
  ELSE Rate(EditDistance(ref, hyp), Len(ref))

Total(f) == FoldLeft(LAMBDA sum, x : sum + x, 0, f)

CorpusWer(refs, hyps) ==
  LET words == Total([i \in DOMAIN refs |-> Len(refs[i])])
  IN IF words = 0 THEN 0
     ELSE Rate(Total([i \in DOMAIN refs |-> EditDistance(refs[i], hyps[i])]), words)

-----------------------------------------------------------------------------
(***************************************************************************)
(* Recall.                                                                 *)
(***************************************************************************)

\* iou, in hundredths, of boxes <<x1, y1, x2, y2>>.
Extent(lo, hi) == IF hi > lo THEN hi - lo ELSE 0

IouPercent(a, b) ==
  LET area(c) == Extent(c[1], c[3]) * Extent(c[2], c[4])
      inter == Extent(-Smallest(-a[1], -b[1]), Smallest(a[3], b[3]))
                 * Extent(-Smallest(-a[2], -b[2]), Smallest(a[4], b[4]))
      union == area(a) + area(b) - inter
  IN IF union > 0 THEN (100 * inter) \div union ELSE 0

\* Predictions and ground truths: <<x1, y1, x2, y2>> in an image.
Objects(classes) == [image : Int, cls : classes, bbox : Int \X Int \X Int \X Int]

\* The ground truths p may be of.
Matching(p, truths, thres) ==
  {i \in DOMAIN truths : /\ truths[i].image = p.image /\ truths[i].cls = p.cls
                         /\ IouPercent(p.bbox, truths[i].bbox) >= thres}

\* The closest of some, the last of several.
Closest(p, truths, cands) ==
  CHOOSE i \in cands : \A j \in cands :
    LET vi == IouPercent(p.bbox, truths[i].bbox)
        vj == IouPercent(p.bbox, truths[j].bbox)
    IN vi > vj \/ (vi = vj /\ j <= i)

\* Mutant: a ground truth may be found more than once.
FreeAny(cands, used) == cands

Free(cands, used) == cands \ used

\* One prediction more: it finds the closest ground truth that is not found yet.
Hit(hits, p, truths, thres) ==
  LET cands == Free(Matching(p, truths, thres), hits.used)
  IN IF cands = {} THEN hits
     ELSE [tp |-> [hits.tp EXCEPT ![p.cls] = @ + 1],
           used |-> hits.used \cup {Closest(p, truths, cands)}]

\* preds come best first; per class the true positives.
Hits(preds, truths, classes, thres) ==
  FoldLeft(LAMBDA hits, p : Hit(hits, p, truths, thres),
           [tp |-> [c \in classes |-> 0], used |-> {}], preds)

\* per_class_recall, of the classes that have ground truths.
Recalls(preds, truths, classes, thres) ==
  LET total(c) == Cardinality({i \in DOMAIN truths : truths[i].cls = c})
      tp == Hits(preds, truths, classes, thres).tp
  IN [c \in {k \in classes : total(k) > 0} |->
        [tp |-> tp[c], fn |-> total(c) - tp[c], total |-> total(c),
         recall |-> Rate(tp[c], total(c))]]

RecallGate(recalls, target, gated) ==
  \A c \in gated : c \in DOMAIN recalls /\ recalls[c].recall >= target

-----------------------------------------------------------------------------
(***************************************************************************)
(* Numbers of classes.  A taxonomy is a function from numbers to names.    *)
(***************************************************************************)

\* Numbers in order, then the names: load_taxonomy of prepare_dataset.
Ordered(taxonomy) == Picked(taxonomy, DOMAIN taxonomy)

\* sync_labels refuses numbers that are not 0, 1, 2 and so on.
Syncable(taxonomy) ==
  DOMAIN taxonomy # {} /\ DOMAIN taxonomy = 0 .. Cardinality(DOMAIN taxonomy) - 1

Dropped == -1

\* build_index_remap, for the class of one box: the number it is given, or none.
\* Of a name that stands twice the last number counts.
IndexOf(name, names) ==
  IF \E i \in DOMAIN names : names[i] = name
  THEN (CHOOSE i \in DOMAIN names :
          names[i] = name /\ \A j \in DOMAIN names : names[j] = name => j <= i) - 1
  ELSE Dropped

Remapped(name, names, labelMap) ==
  IF IndexOf(name, names) # Dropped THEN IndexOf(name, names)
  ELSE IF name \in DOMAIN labelMap THEN IndexOf(labelMap[name], names)
  ELSE Dropped

\* remap_label_file: what is kept of the boxes of one file.
RemapFile(boxes, names, labelMap) ==
  LET renumbered == [i \in DOMAIN boxes |->
                       [boxes[i] EXCEPT !.cls = Remapped(@, names, labelMap)]]
  IN Picked(renumbered, {i \in DOMAIN boxes : renumbered[i].cls # Dropped})

\* What the detector calls class n: the lines of labels.txt that are no comment.
LabelOf(n, taxonomy) == Ordered(taxonomy)[n + 1]

=============================================================================
