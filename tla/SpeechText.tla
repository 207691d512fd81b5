----------------------------- MODULE SpeechText -----------------------------
(***************************************************************************)
(* Speech to text (pipelines/speech.py and whisper_utils.py): the plan of  *)
(* chunks, the shift of their segments to the recording's time, the merge  *)
(* of what two chunks both heard, text, confidence and language.           *)
(*                                                                         *)
(* Times are tenths of a second.  The recognizer is external: a recording  *)
(* is the sequence of its utterances, and a run on a clip hears what lies  *)
(* in it, cut at its ends, on the clip's own time.                         *)
(***************************************************************************)
EXTENDS Integers, Sequences, FiniteSetsExt, SequencesExt, Ranking

Within01(x) == IF x < 0 THEN 0 ELSE IF x > 10 THEN 10 ELSE x

Least(a, b) == IF a < b THEN a ELSE b

Most(a, b) == IF a > b THEN a ELSE b

-----------------------------------------------------------------------------
(***************************************************************************)
(* plan_chunks, for a positive length of chunk (another raises).           *)
(***************************************************************************)

\* An overlap always leaves a step.
Overlapping(chunk, overlap) == Most(0, Least(overlap, chunk - 1))

\* Mutant: the overlap is added.
StepForward(chunk, overlap) == chunk + Overlapping(chunk, overlap)

Step(chunk, overlap) == chunk - Overlapping(chunk, overlap)

\* Chunks until one reaches the end.
Count(total, chunk, overlap) ==
  IF total <= 0 THEN 0
  ELSE IF total <= chunk THEN 1
  ELSE 1 + (total - chunk + Step(chunk, overlap) - 1) \div Step(chunk, overlap)

Start(k, chunk, overlap) == (k - 1) * Step(chunk, overlap)

PlanChunks(total, chunk, overlap) ==
  [k \in 1 .. Count(total, chunk, overlap) |->
     [from |-> Start(k, chunk, overlap),
      to |-> Least(Start(k, chunk, overlap) + chunk, total)]]

-----------------------------------------------------------------------------
(***************************************************************************)
(* Segments.                                                               *)
(***************************************************************************)

Segments == [start : Int, end : Int, text : STRING, prob : Int, silence : Int]

\* Utterances take time, and lie in their recording.
IsRecording(rec) ==
  /\ rec.total \in Nat /\ rec.utterances \in Seq(Segments)
  /\ \A i \in DOMAIN rec.utterances : LET u == rec.utterances[i] IN
       0 <= u.start /\ u.start < u.end /\ u.end <= rec.total

Audible(u, clip) == u.end > clip.from /\ u.start < clip.to

\* What the recognizer hears in a clip.
Heard(utterances, clip) ==
  LET inside == Picked(utterances, {i \in DOMAIN utterances : Audible(utterances[i], clip)})
  IN [i \in DOMAIN inside |->
        [inside[i] EXCEPT !.start = Most(@, clip.from) - clip.from,
                          !.end = Least(@, clip.to) - clip.from]]

ShiftedBy(seg, from) == [seg EXCEPT !.start = @ + from, !.end = @ + from]

\* By start, then by end; the sort is stable.
Sooner(segs) ==
  {p \in (DOMAIN segs) \X (DOMAIN segs) :
     LET s == segs[p[1]]
         t == segs[p[2]]
     IN \/ s.start < t.start
        \/ s.start = t.start /\ s.end < t.end
        \/ s.start = t.start /\ s.end = t.end /\ p[1] < p[2]}

InOrder(segs) ==
  LET order == Ranked(DOMAIN segs, Sooner(segs))
  IN [i \in DOMAIN segs |-> segs[order[i]]]

Tolerance == 5

\* merge_overlapping_segments: only the segment kept last is looked at.
Merge(segs) ==
  FoldLeft(LAMBDA kept, s :
             IF kept # <<>> /\ s.text = Last(kept).text /\ s.start < Last(kept).end - Tolerance
             THEN kept ELSE Append(kept, s),
           <<>>, InOrder(segs))

\* join_text: the empty say nothing.
JoinText(segs) ==
  LET ordered == InOrder(segs)
      saying == Picked(ordered, {i \in DOMAIN ordered : ordered[i].text # ""})
  IN [i \in DOMAIN saying |-> saying[i].text]

\* segment_confidence, in hundredths: the recognizer's own probability, less
\* that of silence.
SegmentConfidence(s) == Within01(s.prob) * (10 - Within01(s.silence))

Duration(s) == Most(0, s.end - s.start)

SumOf(f) == FoldLeft(LAMBDA sum, x : sum + x, 0, f)

AggregateConfidence(segs) ==
  LET total == SumOf([i \in DOMAIN segs |-> Duration(segs[i])])
      conf == [i \in DOMAIN segs |-> SegmentConfidence(segs[i])]
  IN IF segs = <<>> THEN 0
     ELSE IF total = 0 THEN SumOf(conf) \div Len(segs)
     ELSE SumOf([i \in DOMAIN segs |-> conf[i] * Duration(segs[i])]) \div total

\* normalize_language: what is asked for decides, then what is heard.
NormalizeLanguage(detected, requested) == IF requested # "none" THEN requested ELSE detected

-----------------------------------------------------------------------------
(***************************************************************************)
(* transcribe and transcribe_realtime.                                     *)
(***************************************************************************)

Requested(language, default) == IF language # "none" THEN language ELSE default

Transcribe(rec, language, default) ==
  LET segs == rec.utterances
  IN [text |-> JoinText(segs), confidence |-> AggregateConfidence(segs),
      language |-> NormalizeLanguage(rec.language, Requested(language, default)),
      available |-> TRUE]

\* What one chunk heard, on the recording's time.
Placed(rec, clip) ==
  LET segs == Heard(rec.utterances, clip)
  IN [i \in DOMAIN segs |-> ShiftedBy(segs[i], clip.from)]

\* What the first k did.
Collected(rec, chunks, k) ==
  FoldLeft(LAMBDA got, clip : got \o Placed(rec, clip), <<>>, [j \in 1 .. k |-> chunks[j]])

\* What is yielded after each chunk; for a recording of no length, one result.
Yields(rec, chunk, overlap, language) ==
  LET chunks == PlanChunks(rec.total, chunk, overlap)
      merged(k) == Merge(Collected(rec, chunks, k))
  IN IF chunks = <<>>
     THEN <<[text |-> <<>>, language |-> "none", confidence |-> 0, partial |-> FALSE,
             progress |-> 0]>>
     ELSE [k \in DOMAIN chunks |->
             [text |-> JoinText(merged(k)),
              language |-> NormalizeLanguage(rec.language, language),
              confidence |-> AggregateConfidence(merged(k)),
              partial |-> k < Len(chunks),
              progress |-> (1000 * chunks[k].to) \div rec.total]]

=============================================================================
