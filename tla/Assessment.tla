----------------------------- MODULE Assessment -----------------------------
(***************************************************************************)
(* What a case's data go through, from its image and its recording to the  *)
(* text the operator reads: the detector, the rule engine, the             *)
(* transcriber and the explainer that build_providers has put together     *)
(* (core/providers.py), each called by the worker with what the ones       *)
(* before it returned.  And, with samples of their own, the offline tools. *)
(*                                                                         *)
(* CasePipeline models when these calls happen and how they fail; here     *)
(* they return, and the properties are about what.                         *)
(***************************************************************************)
EXTENDS VisionPipeline, RiskEngine, Synthesis, SpeechText, TrainingTools

CONSTANTS
  CaseSamples,   \* inputs of a case, with the settings
  BenchSamples   \* inputs of the tools

\* The classes whose recall the gate is about.
Gated == {1, 2}

ASSUME SampleAssumption ==
  \A s \in CaseSamples :
    /\ s.image \in ImageSizes /\ s.labels \in Seq(Int) /\ s.answer \in Seq(Candidates)
    /\ s.given \in Seq(RawDetections) /\ IsConfig(LoadRiskConfig(s.yaml))

ASSUME BenchAssumption ==
  \A s \in BenchSamples :
    /\ s.tool = "wer" => s.ref \in Seq(STRING) /\ s.hyp \in Seq(STRING)
    /\ s.tool = "recall" => s.preds \in Seq(Objects(Gated)) /\ s.truths \in Seq(Objects(Gated))
    /\ s.tool = "labels" => s.boxes \in Seq([id : Int, cls : STRING])
                             /\ IsFiniteSet(DOMAIN s.taxonomy)
    /\ s.tool = "realtime" =>
         IsRecording(s.rec) /\ s.chunk \in Nat \ {0} /\ s.overlap \in Int

VARIABLES
  sample, stage,
  dets,        \* the detector's
  risk,        \* the rule engine's
  transcript,  \* the transcriber's
  report       \* the tools'

results == <<dets, risk, transcript, report>>
assessmentVars == <<sample, stage, results, synthesisVars>>

-----------------------------------------------------------------------------
(***************************************************************************)
(* build_providers.  A model's file is "unset", "absent", "broken" or      *)
(* "loads"; a test double stands in for what cannot be had.                *)
(***************************************************************************)

Detector(settings) ==
  IF settings.detector = "plugged in" THEN "plugged in"
  ELSE IF settings.use_mocks \/ settings.detector # "loads" THEN "mock" ELSE "onnx"

\* Without a path of its own the recognizer finds its model by name.
Transcriber(settings) ==
  IF settings.use_mocks \/ settings.stt \in {"absent", "broken"} THEN "mock" ELSE "whisper"

Explainer(settings) ==
  IF settings.use_mocks \/ ~settings.llm_enabled THEN "mock" ELSE "ollama"

MockDetections == <<[usable |-> TRUE, cls |-> 2, conf |-> 8, box |-> 1]>>

MockTranscript(language) ==
  [text |-> <<"mock">>, language |-> IF language # "none" THEN language ELSE "ru",
   confidence |-> 90, available |-> TRUE]

EmptyTranscript ==
  [text |-> <<>>, language |-> "none", confidence |-> 0, available |-> FALSE]

-----------------------------------------------------------------------------
AssessmentInit ==
  /\ \/ sample \in CaseSamples /\ stage = "image"
     \/ sample \in BenchSamples /\ stage = "bench"
  /\ dets = <<>> /\ risk = <<>> /\ transcript = <<>> /\ report = <<>>
  /\ SynthesisInit

\* As the engine takes them: a box is known by its left edge.
AsRaw(d) == [usable |-> TRUE, cls |-> d.cls, conf |-> d.conf, box |-> d.bbox[1]]

Look ==
  /\ stage = "image"
  /\ stage' = "detected"
  /\ dets' = CASE Detector(sample.settings) = "mock" -> MockDetections
               [] Detector(sample.settings) = "plugged in" -> sample.given
               [] OTHER -> LET found == Detect(sample.answer, sample.image, sample.labels)
                           IN [i \in DOMAIN found |-> AsRaw(found[i])]
  /\ UNCHANGED <<sample, risk, transcript, report, synthesisVars>>

Score ==
  /\ stage = "detected"
  /\ stage' = "scored"
  /\ risk' = ComputeRisk(dets, LoadRiskConfig(sample.yaml))
  /\ UNCHANGED <<sample, dets, transcript, report, synthesisVars>>

\* The worker asks for no language, and goes on without a transcript.
Listen ==
  /\ stage = "scored"
  /\ stage' = "heard"
  /\ \/ transcript' =
          IF Transcriber(sample.settings) = "mock" THEN MockTranscript("none")
          ELSE Transcribe(sample.rec, "none", sample.settings.language)
     \/ transcript' = EmptyTranscript
  /\ UNCHANGED <<sample, dets, risk, report, synthesisVars>>

Explain ==
  /\ stage = "heard"
  /\ stage' = "explaining"
  /\ IF Explainer(sample.settings) = "mock"
     THEN outcome' = "available" /\ UNCHANGED <<messages, asks>>
     ELSE Begin(dets, transcript, sample.notes, risk)
  /\ UNCHANGED <<sample, results>>

Hear ==
  /\ \E reply \in Replies : Reply(reply)
  /\ UNCHANGED <<sample, stage, results>>

\* The tools, and the near-real-time recognizer that nothing calls yet.
Measured(s) ==
  CASE s.tool = "wer" -> <<Wer(s.ref, s.hyp), Wer(s.hyp, s.ref),
                           CorpusWer(<<s.ref, s.hyp>>, <<s.hyp, s.ref>>)>>
    [] s.tool = "recall" -> Recalls(s.preds, s.truths, Gated, 50)
    [] s.tool = "labels" -> RemapFile(s.boxes, Ordered(s.taxonomy), s.map)
    [] s.tool = "realtime" -> Yields(s.rec, s.chunk, s.overlap, "none")

Measure ==
  /\ stage = "bench"
  /\ stage' = "measured"
  /\ report' = Measured(sample)
  /\ UNCHANGED <<sample, dets, risk, transcript, synthesisVars>>

AssessmentNext == Look \/ Score \/ Listen \/ Explain \/ Hear \/ Measure

AssessmentSpec == AssessmentInit /\ [][AssessmentNext]_assessmentVars

-----------------------------------------------------------------------------
(***************************************************************************)
(* Properties.                                                             *)
(***************************************************************************)

\* No object is lost or told twice: what is kept does not overlap within a class,
\* the best come first, and each lies in the image, however long and narrow the
\* image and whatever the array is taken for; and of an array that is turned, each
\* candidate that is sure enough is kept, or has a kept one of its class over it
\* that is no less sure (yolo_postprocess.py lines 26-177).
DetectionsAreSound ==
  stage = "detected" /\ Detector(sample.settings) = "onnx" =>
    LET boxes == Decode(sample.answer)
        kept == Kept(boxes)
        found == Detect(sample.answer, sample.image, sample.labels)
        frame == Letterbox(sample.image)
    IN /\ \A i, j \in kept : i # j /\ boxes[i].cls = boxes[j].cls => ~Overlap(boxes[i], boxes[j])
       /\ Turned(sample.answer) => \A i \in DOMAIN sample.answer :
            LET b == Decoded(sample.answer[i])
            IN b.score >= Conf => \E k \in kept :
                 /\ boxes[k].cls = b.cls /\ boxes[k].score >= b.score
                 /\ boxes[k] = b \/ Overlap(boxes[k], b)
       /\ \A i, j \in DOMAIN found : i < j => found[i].conf >= found[j].conf
       /\ \A i \in DOMAIN found :
            LET b == found[i].bbox IN
              /\ {b[1], b[3]} \subseteq 0 .. sample.image.w
              /\ {b[2], b[4]} \subseteq 0 .. sample.image.h
              /\ Turned(sample.answer) => b[1] <= b[3] /\ b[2] <= b[4]
       /\ 0 <= frame.left /\ frame.left + frame.width <= ImgSize
       /\ 0 <= frame.top /\ frame.top + frame.height <= ImgSize

Without(s, i) == SubSeq(s, 1, i - 1) \o SubSeq(s, i + 1, Len(s))

\* The score is a function of what was seen: the same in any order, never
\* lowered by one more detection whatever weights the operator sets, with a
\* factor for each detection that could be used; the advisory stands exactly
\* when none reached its floor; and where the reference engine is defined, of
\* up to three detections, the two agree to its three digits (scoring.py lines 1-23 and 114-197).
RiskIsSound ==
  stage = "scored" =>
    LET cfg == LoadRiskConfig(sample.yaml)
        usable == {i \in DOMAIN dets : dets[i].usable}
        advised == NotCleared = Last(risk.factors)
        plain == \A i \in DOMAIN dets :
          /\ dets[i].usable /\ dets[i].conf \in 0 .. 10
          /\ Scored(dets[i], cfg) /\ Weight(dets[i].cls, cfg) * dets[i].conf \in 0 .. 99
    IN /\ risk.score \in Scores
       /\ \A p \in Bijection(DOMAIN dets, DOMAIN dets) :
            ComputeRisk([i \in DOMAIN dets |-> dets[p[i]]], cfg) = risk
       /\ \A i \in DOMAIN dets : ComputeRisk(Without(dets, i), cfg).score <= risk.score
       /\ Len(risk.factors) = Cardinality(usable) + (IF advised THEN 1 ELSE 0)
       /\ advised <=> \A i \in usable : ~Scored(Coerced(dets[i]), cfg)
       /\ plain /\ Len(dets) <= 3 =>
            risk.score - 10 * ReferenceRisk(dets, cfg).score \in -5 .. 5

Spoken(utterances) == {utterances[i].text : i \in DOMAIN utterances} \ {""}

SaidOnce(u, rec) == Cardinality({i \in DOMAIN rec.utterances : rec.utterances[i].text = u.text}) = 1

\* A recording is heard from its beginning to its end: the chunks leave no gap
\* and go forward whatever overlap is asked for; what was told is never taken
\* back, the last result and no other is final, and it has every word, one
\* after the other as they were said (whisper_utils.py lines 89-134, speech.py
\* lines 165-212).
SpeechIsWhole ==
  stage = "measured" /\ sample.tool = "realtime" =>
    LET chunks == PlanChunks(sample.rec.total, sample.chunk, sample.overlap)
        n == Len(chunks)
        words(k) == ToSet(report[k].text)
    IN /\ sample.rec.total > 0 => n > 0 /\ chunks[1].from = 0 /\ chunks[n].to = sample.rec.total
       /\ \A k \in 1 .. n - 1 : /\ chunks[k + 1].from <= chunks[k].to
                                /\ chunks[k].from < chunks[k + 1].from
                                /\ chunks[k].to < chunks[k + 1].to
       /\ \A k \in 1 .. Len(report) - 1 : /\ report[k].partial
                                          /\ words(k) \subseteq words(k + 1)
                                          /\ report[k].progress <= report[k + 1].progress
       /\ ~Last(report).partial
       /\ sample.rec.total > 0 => words(Len(report)) = Spoken(sample.rec.utterances)
       /\ \A k \in DOMAIN report, i, j \in DOMAIN sample.rec.utterances :
            LET u == sample.rec.utterances[i]
                v == sample.rec.utterances[j]
            IN SaidOnce(u, sample.rec) /\ SaidOnce(v, sample.rec) /\ u.end <= v.start =>
                 \A p, q \in DOMAIN report[k].text :
                   report[k].text[p] = u.text /\ report[k].text[q] = v.text => p < q

\* The prompt holds the stored score and nothing that was not seen or said, in
\* one language from the first message to the last; a text is available only if
\* the model's last answer was one; and a model that never gives one is asked
\* twice and no more (synthesis.py lines 96-175 and 292-347).
ExplanationIsGrounded ==
  stage = "explaining" /\ messages # <<>> =>
    LET facts == ToSet(messages[2].facts)
        seen == {dets[i].cls : i \in DOMAIN dets}
        lang == messages[1].lang
    IN /\ <<"risk", risk.level, risk.score>> \in facts
       /\ \A f \in facts :
            /\ f[1] \in {"driver", "ignored", "object"} => f[2] \in seen
            /\ f[1] = "said" => transcript.available /\ f[2] = transcript.text
       /\ lang = IF transcript.language = "ru" THEN "ru" ELSE "uz"
       /\ \A i \in DOMAIN messages :
            messages[i].role = "user" /\ i > 2 => messages[i].lang = lang
       /\ asks <= MaxAsks
       /\ Len(messages) = 2 + 2 * asks + (IF outcome = "available" THEN 1 ELSE 0)
       /\ outcome = "available" => Usable(Last(messages).reply)

\* Distances by their meaning: words left out of either text, and words paired
\* in order that differ.
Alignments(n, m) ==
  {a \in SUBSET ((1 .. n) \X (1 .. m)) :
     \A p, q \in a : (p[1] < q[1] <=> p[2] < q[2]) /\ (p[1] = q[1] <=> p[2] = q[2])}

Cost(a, ref, hyp) ==
  Len(ref) + Len(hyp) - 2 * Cardinality(a) + Cardinality({p \in a : ref[p[1]] # hyp[p[2]]})

Costs(ref, hyp) == {Cost(a, ref, hyp) : a \in Alignments(Len(ref), Len(hyp))}

\* The rates of a text, of the two swapped, and of a corpus of both.
LeastEdits(rates, ref, hyp) ==
  /\ rates[1] = Rate(Min(Costs(ref, hyp)), Len(ref))
  /\ hyp # <<>> => rates[3] \in Min({rates[1], rates[2]}) .. Max({rates[1], rates[2]})

\* One prediction for one ground truth of its image and class.
Pairings(preds, truths) ==
  {a \in SUBSET ((DOMAIN preds) \X (DOMAIN truths)) :
     /\ \A p \in a : p[2] \in Matching(preds[p[1]], truths, 50)
     /\ \A p, q \in a : p[1] = q[1] <=> p[2] = q[2]}

OfClass(a, preds, c) == {p \in a : preds[p[1]].cls = c}

\* How many pairs of class c the pairings find.
Found(preds, truths, c) ==
  {Cardinality(OfClass(a, preds, c)) : a \in Pairings(preds, truths)}

Honest(recalls, preds, truths) ==
  /\ RecallGate(recalls, 10000, Gated) /\ Len(truths) < 20000 =>
       /\ Gated = {truths[i].cls : i \in DOMAIN truths}
       /\ \E a \in Pairings(preds, truths) : Cardinality(a) = Len(truths)
  /\ \A c \in DOMAIN recalls :
       /\ recalls[c].tp <= Max(Found(preds, truths, c))
       /\ Max(Found(preds, truths, c)) <= 2 * recalls[c].tp

\* A box that is kept has its own name again, or the one the map gives it.
Renamed(box, boxes, taxonomy, labelMap) ==
  \E j \in DOMAIN boxes :
    LET name == boxes[j].cls IN
      /\ boxes[j].id = box.id
      /\ LabelOf(box.cls, taxonomy)
           = IF name \in ToSet(Ordered(taxonomy)) THEN name ELSE labelMap[name]

\* The gates measure what they say: the word error rate is the least number of
\* edits, and a corpus's lies between those of its texts; recall never exceeds
\* what the best pairing of predictions and ground truths finds, nor is less
\* than half of it, and a class that was not tested does not pass; a class has
\* the same name in the training data as in the detector (evaluate_wer.py lines
\* 49-92, evaluate.py lines 40-101, prepare_dataset.py and sync_labels.py).
EvaluationIsHonest ==
  stage = "measured" =>
    /\ sample.tool = "wer" /\ sample.ref # <<>> => LeastEdits(report, sample.ref, sample.hyp)
    /\ sample.tool = "recall" => Honest(report, sample.preds, sample.truths)
    /\ sample.tool = "labels" /\ Syncable(sample.taxonomy) =>
         \A i \in DOMAIN report :
           Renamed(report[i], sample.boxes, sample.taxonomy, sample.map)

=============================================================================
