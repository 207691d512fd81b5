------------------------------ MODULE Synthesis ------------------------------
(***************************************************************************)
(* The language model's part of a case (pipelines/synthesis.py): the facts *)
(* it is given, the conversation of at most two requests, and what is      *)
(* taken for an answer.                                                    *)
(*                                                                         *)
(* Prose is abstracted: a fact is a tuple of what it is about, a message   *)
(* its role and what it says, and of the model's answers only the shapes   *)
(* that are told apart.  The model is external: it may answer anything.    *)
(***************************************************************************)
EXTENDS Integers, Sequences, SequencesExt, Ranking

Languages == {"uz", "ru"}

\* _pick_language: the transcript's, if the prompts know it.
PickLanguage(transcript) ==
  IF transcript.language \in Languages THEN transcript.language ELSE "uz"

\* _confidence_word, over tenths.
ConfidenceWord(conf) ==
  IF conf > 8 THEN "very high" ELSE IF conf >= 6 THEN "high"
  ELSE IF conf >= 4 THEN "medium" ELSE "low"

-----------------------------------------------------------------------------
(***************************************************************************)
(* _format_facts.                                                          *)
(***************************************************************************)

Drivers(risk) ==
  Picked(risk.factors, {i \in DOMAIN risk.factors : risk.factors[i].contribution > 0})

Ignored(risk) ==
  Picked(risk.factors,
         {i \in DOMAIN risk.factors : risk.factors[i].rule = "below_confidence_floor"})

OrElse(lines, line) == IF lines = <<>> THEN <<line>> ELSE lines

Said(transcript) == IF transcript.available THEN transcript.text ELSE <<>>

Facts(dets, transcript, notes, risk) ==
  << <<"risk", risk.level, risk.score>> >>
    \o OrElse([i \in DOMAIN Drivers(risk) |-> LET f == Drivers(risk)[i] IN
                 <<"driver", f.cls, ConfidenceWord(f.conf)>>], <<"no drivers">>)
    \o [i \in DOMAIN Ignored(risk) |-> <<"ignored", Ignored(risk)[i].cls>>]
    \o OrElse([i \in DOMAIN dets |-> <<"object", dets[i].cls, dets[i].conf>>],
              <<"no objects">>)
    \o (IF Said(transcript) # <<>> THEN << <<"said", Said(transcript)>> >>
        ELSE << <<"nothing said">> >>)
    \o (IF notes # "" THEN << <<"notes", notes>> >> ELSE <<>>)

-----------------------------------------------------------------------------
(***************************************************************************)
(* generate_explanation.                                                   *)
(***************************************************************************)

VARIABLES
  messages,  \* the conversation
  asks,      \* requests answered with what was no answer
  outcome    \* "none", "asked", "available" or "raised"

synthesisVars == <<messages, asks, outcome>>

SynthesisInit == messages = <<>> /\ asks = 0 /\ outcome = "none"

MaxAsks == 2

\* What a model may return: an object of the schema; one after or within other
\* text; one whose text is blank; something else; or no answer over HTTP.
Replies == {"object", "thinking, then object", "object in prose", "blank text",
            "other object", "no object", "error"}

\* _parse_content finds the object, the schema and strip decide.
Usable(reply) == reply \in {"object", "thinking, then object", "object in prose"}

Begin(dets, transcript, notes, risk) ==
  LET lang == PickLanguage(transcript) IN
    /\ outcome = "none"
    /\ messages' = <<[role |-> "system", lang |-> lang],
                     [role |-> "user", facts |-> Facts(dets, transcript, notes, risk)]>>
    /\ outcome' = "asked"
    /\ UNCHANGED asks

\* Mutant: the second answer is used whatever it is.
AcceptedLast(reply) == Usable(reply) \/ asks = MaxAsks - 1

Accepted(reply) == Usable(reply)

Reply(reply) ==
  /\ outcome = "asked"
  /\ \/ /\ reply = "error"
        /\ outcome' = "raised"
        /\ UNCHANGED <<messages, asks>>
     \/ /\ reply # "error" /\ Accepted(reply)
        /\ outcome' = "available"
        /\ messages' = Append(messages, [role |-> "assistant", reply |-> reply])
        /\ UNCHANGED asks
     \/ /\ reply # "error" /\ ~Accepted(reply)
        /\ asks' = asks + 1
        /\ messages' = messages \o <<[role |-> "assistant", reply |-> reply],
                                     [role |-> "user", lang |-> messages[1].lang]>>
        /\ outcome' = IF asks' = MaxAsks THEN "raised" ELSE "asked"

=============================================================================
