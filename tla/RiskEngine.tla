----------------------------- MODULE RiskEngine -----------------------------
(***************************************************************************)
(* The rule engine (pipelines/scoring.py), its configuration               *)
(* (load_risk_config in core/config.py) and the reference engine it        *)
(* replaced (pipelines/mocks.py).                                          *)
(*                                                                         *)
(* Numbers are integers: confidences, weights and floors in tenths,        *)
(* contributions in thousandths, scores and thresholds in tenths of a      *)
(* thousandth, which is the precision the score is rounded to.  A class is *)
(* known by its place in the order of the names, a box by one number.      *)
(***************************************************************************)
EXTENDS Integers, Sequences, Folds, FiniteSetsExt, SequencesExt, Ranking

One == 10

Clamp(x, lo, hi) == IF x < lo THEN lo ELSE IF x > hi THEN hi ELSE x

-----------------------------------------------------------------------------
(***************************************************************************)
(* Configuration: tables from keys to values, whose tables come second     *)
(* from the defaults only as a whole.                                      *)
(***************************************************************************)

\* An illegal weapon, a knife and a cavity stand for the classes of the file.
DefaultRiskConfig ==
  [default_weight |-> 2, class_weights |-> <<10, 8>>,
   thresholds |-> [HIGH |-> 7000, MEDIUM |-> 4000],
   min_confidence |-> 3, per_class_min_confidence |-> <<1, 2>>,
   prohibited_classes |-> {}]

Over(table, defaults) ==
  [key \in DOMAIN table \cup DOMAIN defaults |->
     IF key \in DOMAIN table THEN table[key] ELSE defaults[key]]

LoadRiskConfig(yaml) == Over(yaml, DefaultRiskConfig)

Fallback ==
  [default_weight |-> 2, class_weights |-> <<>>,
   thresholds |-> [HIGH |-> 7000, MEDIUM |-> 4000],
   min_confidence |-> 0, per_class_min_confidence |-> <<>>,
   prohibited_classes |-> {}]

MergeConfig(config) == Over(config, Fallback)

\* Weights and floors are numbers.
IsConfig(cfg) ==
  /\ cfg.default_weight \in Int /\ cfg.min_confidence \in Int
  /\ \A cls \in DOMAIN cfg.class_weights : cfg.class_weights[cls] \in Int
  /\ \A cls \in DOMAIN cfg.per_class_min_confidence :
       cfg.per_class_min_confidence[cls] \in Int

Lookup(table, key, default) == IF key \in DOMAIN table THEN table[key] ELSE default

-----------------------------------------------------------------------------
(***************************************************************************)
(* One detection.                                                          *)
(***************************************************************************)

\* What a detector may hand over; the fields of one that is not usable mean nothing.
RawDetections == [usable : BOOLEAN, cls : Int, conf : Int, box : Int]

\* _coerce_detection leaves out what has no class or no number.
Coerced(raw) == [raw EXCEPT !.conf = Clamp(@, 0, One)]

Floor(cls, cfg) ==
  Clamp(Lookup(cfg.per_class_min_confidence, cls, cfg.min_confidence), 0, One)

Weight(cls, cfg) == Lookup(cfg.class_weights, cls, cfg.default_weight)

Scored(d, cfg) == d.conf >= Floor(d.cls, cfg)

\* Mutant: no clamp, as the reference engine has it.
ContributionUnclamped(d, cfg) == 10 * Weight(d.cls, cfg) * d.conf

Contribution(d, cfg) == Clamp(10 * Weight(d.cls, cfg) * d.conf, 0, 999)

Factor(d, cfg) ==
  [cls |-> d.cls, conf |-> d.conf, weight |-> Weight(d.cls, cfg),
   rule |-> IF ~Scored(d, cfg) THEN "below_confidence_floor"
            ELSE IF cfg.prohibited_classes = {} \/ d.cls \in cfg.prohibited_classes
            THEN "prohibited_class" ELSE "watch_class",
   contribution |-> IF Scored(d, cfg) THEN Contribution(d, cfg) ELSE 0]

NotCleared ==
  [cls |-> 0, conf |-> 0, weight |-> 0, rule |-> "nothing_scored_not_cleared",
   contribution |-> 0]

-----------------------------------------------------------------------------
(***************************************************************************)
(* compute_risk.                                                           *)
(***************************************************************************)

Before(a, b) ==
  \/ a.cls < b.cls
  \/ a.cls = b.cls /\ a.conf > b.conf
  \/ a.cls = b.cls /\ a.conf = b.conf /\ a.box < b.box

\* The sort is stable.
Precedence(norm) ==
  {p \in (DOMAIN norm) \X (DOMAIN norm) :
     \/ Before(norm[p[1]], norm[p[2]])
     \/ ~Before(norm[p[2]], norm[p[1]]) /\ p[1] < p[2]}

\* The usable detections, in the order that makes the sum of them one number.
Normalised(dets) ==
  LET ok == Picked(dets, {i \in DOMAIN dets : dets[i].usable})
      norm == [i \in DOMAIN ok |-> Coerced(ok[i])]
      order == Ranked(DOMAIN norm, Precedence(norm))
  IN [i \in DOMAIN norm |-> norm[order[i]]]

Whole == 1000000000

\* What the product of 1 - c leaves of the whole.  No digit is lost with up to
\* three contributions; with more, what is below a millionth is left out.
Remaining(contributions) ==
  FoldLeft(LAMBDA prod, c : (prod \div 1000) * (1000 - c), Whole, contributions)

Scores == 0 .. 10000

NoisyOr(contributions) ==
  (Clamp(Whole - Remaining(contributions), 0, Whole) + 50000) \div 100000

DecideLevel(score, thresholds) ==
  IF score >= Lookup(thresholds, "HIGH", 7000) THEN "HIGH"
  ELSE IF score >= Lookup(thresholds, "MEDIUM", 4000) THEN "MEDIUM"
  ELSE "LOW"

ComputeRisk(dets, config) ==
  LET cfg == MergeConfig(config)
      norm == Normalised(dets)
      scored == Picked(norm, {i \in DOMAIN norm : Scored(norm[i], cfg)})
      score == NoisyOr([i \in DOMAIN scored |-> Contribution(scored[i], cfg)])
  IN [level |-> DecideLevel(score, cfg.thresholds),
      score |-> score,
      factors |-> [i \in DOMAIN norm |-> Factor(norm[i], cfg)]
                    \o (IF scored = <<>> THEN <<NotCleared>> ELSE <<>>)]

\* reference_compute_risk: every detection counts, as it comes; three digits.
ReferenceRisk(dets, config) ==
  LET weight(d) == Lookup(config.class_weights, d.cls, config.default_weight)
      score == (Whole - Remaining([i \in DOMAIN dets |-> 10 * weight(dets[i]) * dets[i].conf])
                + 500000) \div 1000000
  IN [level |-> DecideLevel(10 * score, config.thresholds), score |-> score]

=============================================================================
