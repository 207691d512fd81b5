---------------------------- MODULE MCAssessment ----------------------------
(***************************************************************************)
(* Samples for Assessment: small sets that vary one input at a time.       *)
(***************************************************************************)
EXTENDS Assessment, TLC

UpTo(S, n) == UNION {[1 .. k -> S] : k \in 0 .. n}

-----------------------------------------------------------------------------
\* Boxes, in pixels, that are one another's neighbours, and one without a size.
Centres == {<<2, 4, 4, 4>>, <<3, 4, 4, 4>>, <<6, 4, 2, 4>>, <<4, 4, 0, 0>>}

Candidate(box, scores) == [i \in 1 .. 4 |-> 10 * box[i]] \o scores

\* What a network answers where it sees nothing.
Background == Candidate(<<4, 4, 1, 1>>, <<1, 0>>)

Filled(seen) == [i \in 1 .. 7 |-> IF i \in DOMAIN seen THEN seen[i] ELSE Background]

\* Arrays that are wider than high, and ones of as many candidates as numbers or fewer.
Answers ==
  {Filled(seen) : seen \in
     UpTo({Candidate(b, s) : b \in Centres, s \in {<<7, 1>>, <<1, 7>>, <<6, 6>>, <<1, 1>>}}, 2)
       \cup [1 .. 3 -> {Candidate(b, s) : b \in {<<2, 4, 4, 4>>, <<3, 4, 4, 4>>, <<4, 4, 4, 4>>},
                                          s \in {<<7, 1>>, <<1, 6>>}}]}
    \cup {SubSeq(Filled(<<Candidate(b, s)>>), 1, n) :
            b \in Centres, s \in {<<7, 1>>, <<1, 7>>}, n \in {0, 4, 5, 6}}

Images == {[h |-> 4, w |-> 8], [h |-> 8, w |-> 8], [h |-> 16, w |-> 3], [h |-> 1, w |-> 40]}

\* Weights above one, a threshold of one's own, a floor that replaces the others.
Yamls == {<<>>, [class_weights |-> <<12, 11>>], [thresholds |-> [HIGH |-> 5000]],
          [per_class_min_confidence |-> <<5>>, prohibited_classes |-> {2}],
          [default_weight |-> 0, class_weights |-> <<>>]}

Raw(cls, conf, box) == [usable |-> TRUE, cls |-> cls, conf |-> conf, box |-> box]

Given == UpTo({Raw(1, 9, 0), Raw(1, 9, 1), Raw(1, 1, 0), Raw(2, 12, 0), Raw(2, -2, 0),
               Raw(3, 3, 0), [usable |-> FALSE, cls |-> 0, conf |-> 0, box |-> 0]}, 3)

Utterance(start, end, text) ==
  [start |-> start, end |-> end, text |-> text, prob |-> 9, silence |-> 1]

Recordings ==
  {[total |-> total, language |-> "ru", utterances |-> us] :
     total \in {30, 47, 60},
     us \in {<<>>, <<Utterance(12, 18, "a"), Utterance(20, 30, "b")>>,
             <<Utterance(0, 9, "a"), Utterance(9, 30, "b")>>,
             <<Utterance(2, 26, "a"), Utterance(22, 25, "b"), Utterance(26, 30, "a")>>}}
    \cup {[total |-> 0, language |-> "none", utterances |-> <<>>]}

Settings ==
  [use_mocks : {FALSE}, detector : {"loads"}, stt : {"loads"}, llm_enabled : {TRUE},
   language : {"none"}]

AnySettings ==
  [use_mocks : BOOLEAN, detector : {"unset", "absent", "broken", "loads", "plugged in"},
   stt : {"unset", "absent", "broken", "loads"}, llm_enabled : BOOLEAN,
   language : {"none", "uz"}]

Plain ==
  [settings |-> CHOOSE s \in Settings : TRUE, image |-> [h |-> 8, w |-> 8],
   labels |-> <<1, 2>>, answer |-> Filled(<<Candidate(<<2, 4, 4, 4>>, <<7, 1>>)>>), given |-> <<>>,
   yaml |-> <<>>, notes |-> "",
   rec |-> [total |-> 30, language |-> "ru", utterances |-> <<Utterance(0, 9, "a")>>]]

PluggedIn == [Plain.settings EXCEPT !.detector = "plugged in", !.llm_enabled = FALSE]

Cases ==
  {[Plain EXCEPT !.answer = a, !.image = i, !.settings.llm_enabled = FALSE] :
     a \in Answers, i \in Images}
    \cup {[Plain EXCEPT !.settings = PluggedIn, !.given = g, !.yaml = y] :
            g \in Given, y \in Yamls}
    \cup {[Plain EXCEPT !.settings = s, !.labels = <<1>>] : s \in AnySettings}
    \cup {[Plain EXCEPT !.rec = r, !.notes = n, !.yaml = y] :
            r \in Recordings, n \in {"", "note"}, y \in Yamls}

-----------------------------------------------------------------------------
Truth(image, cls, bbox) == [image |-> image, cls |-> cls, bbox |-> bbox]

Truths == UpTo({Truth(1, 1, <<0, 0, 4, 4>>), Truth(1, 1, <<1, 0, 5, 4>>),
                Truth(1, 2, <<0, 0, 4, 4>>)}, 2)

Preds == UpTo({Truth(1, 1, <<0, 0, 4, 4>>), Truth(1, 1, <<0, 0, 5, 4>>),
               Truth(1, 2, <<1, 0, 4, 4>>), Truth(2, 1, <<0, 0, 4, 4>>)}, 3)

Names == {"gun", "knife", "Gun", "Wrench"}

Benches ==
  {[tool |-> "wer", ref |-> r, hyp |-> h] : r \in UpTo({"a", "b"}, 3), h \in UpTo({"a", "b"}, 3)}
    \cup {[tool |-> "recall", preds |-> p, truths |-> t] : p \in Preds, t \in Truths}
    \cup {[tool |-> "labels", taxonomy |-> t, map |-> [Gun |-> "gun", Wrench |-> "none", knife |-> "gun"],
           boxes |-> [i \in DOMAIN b |-> [id |-> i, cls |-> b[i]]]] :
            t \in UNION {[d -> {"gun", "knife"}] : d \in {{0}, {0, 1}, {1, 2}}},
            b \in UpTo(Names, 2)}
    \cup {[tool |-> "realtime", rec |-> r, chunk |-> c, overlap |-> o] :
            r \in Recordings, c \in {10, 25, 40}, o \in {-5, 0, 5, 100}}

=============================================================================
