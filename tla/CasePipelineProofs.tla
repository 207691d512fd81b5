------------------------- MODULE CasePipelineProofs -------------------------
(***************************************************************************)
(* Proofs about CaseQueue and CasePipeline, for every set of cases, queue  *)
(* size, pair of watermarks, number of attempts and setting of the flags,  *)
(* whatever fails and however often the process ends: the queue, an        *)
(* inductive invariant of the pipeline and what follows from it, and what a*)
(* failing model leaves behind.                                            *)
(***************************************************************************)
EXTENDS CasePipeline, DataLemmas, SequenceTheorems

\* The marks are numbers of cases and the raising one is at least 1.
LEMMA Marks == Low \in Nat /\ High \in Nat \ {0}
<1>1. QueueMax * HighPercent \in Nat /\ QueueMax * LowPercent \in Nat
  BY QueueAssumption
<1>2. \A n \in Nat : n \div 100 \in Nat
  OBVIOUS
<1> QED
  BY <1>1, <1>2 DEF High, Low

LEMMA EmptyQueue ==
  /\ <<>> \in Seq(Case) /\ Len(<<>>) = 0 /\ Len(<<>>) <= QueueMax
<1>1. QueueMax \in Nat /\ Len(<<>>) = 0
  BY QueueAssumption
<1> QED
  BY <1>1

\* The queue holds cases, never more than it has places for.
THEOREM QueueTypeCorrect == QueueSpec => []QueueTypeOK
<1>1. QueueInit => QueueTypeOK
  BY EmptyQueue DEF QueueInit, QueueTypeOK
<1>2. QueueTypeOK /\ [QueueNext]_queueVars => QueueTypeOK'
  <2> SUFFICES ASSUME QueueTypeOK, [QueueNext]_queueVars
               PROVE  QueueTypeOK'
    OBVIOUS
  <2> USE QueueAssumption DEF QueueTypeOK
  <2>1. ASSUME NEW c \in Case, Put(c) PROVE QueueTypeOK'
    BY <2>1, Marks DEF Put
  <2>2. CASE Get
    BY <2>2, Marks DEF Get
  <2>3. CASE Reset
    BY <2>3, EmptyQueue DEF Reset
  <2>4. CASE UNCHANGED queueVars
    BY <2>4 DEF queueVars
  <2> QED
    BY <2>1, <2>2, <2>3, <2>4 DEF QueueNext
<1> QED
  BY <1>1, <1>2, PTL DEF QueueSpec

\* The flag and the queue agree on the side of the marks, whatever they are.
THEOREM HysteresisHolds == QueueSpec => []Hysteresis
<1>1. QueueInit => Hysteresis
  BY Marks DEF QueueInit, Hysteresis
<1>2. QueueTypeOK /\ Hysteresis /\ [QueueNext]_queueVars => Hysteresis'
  <2> SUFFICES ASSUME QueueTypeOK, Hysteresis, [QueueNext]_queueVars, Low < High
               PROVE  /\ ~bp' => Len(queue') < High
                      /\ bp' => Len(queue') > Low
    BY DEF Hysteresis, High, Low
  <2> USE Marks DEF QueueTypeOK, Hysteresis
  <2>1. ASSUME NEW c \in Case, Put(c)
        PROVE  (~bp' => Len(queue') < High) /\ (bp' => Len(queue') > Low)
    <3>1. Len(queue') = Len(queue) + 1
      BY <2>1 DEF Put
    <3>2. bp' <=> bp \/ Len(queue') >= High
      BY <2>1, Zenon DEF Put
    <3> QED
      BY <3>1, <3>2
  <2>2. CASE Get
    <3>1. Len(queue') = Len(queue) - 1
      BY <2>2 DEF Get
    <3>2. bp' <=> bp /\ Len(queue') > Low
      BY <2>2, Zenon DEF Get
    <3> QED
      BY <3>1, <3>2
  <2>3. CASE Reset
    BY <2>3 DEF Reset
  <2>4. CASE UNCHANGED queueVars
    BY <2>4 DEF queueVars
  <2> QED
    BY <2>1, <2>2, <2>3, <2>4 DEF QueueNext
<1> QED
  BY <1>1, <1>2, QueueTypeCorrect, PTL DEF QueueSpec

-----------------------------------------------------------------------------
\* No stage of the pipeline has written a row for c yet.
Fresh(c) ==
  /\ risk[c] = "none" /\ transcript[c] = "none" /\ expl[c] = <<>>

\* The worker's calls by what the pass has stored when it makes them.
BeforeRisk == {"load", "detect", "logDetFailed", "saveDet", "logDet", "saveRisk"}
AfterTranscript == {"logStt", "llm", "restart", "logLlmFailed", "save", "insert", "update"}
AfterExplanation == {"logExpl", "degrade", "finish"}
AfterTier1 == {"saveTranscript"} \cup AfterTranscript \cup AfterExplanation
AfterScore == {"tellRisk"} \cup AfterTier1
AfterRisk == {"logRisk"} \cup AfterScore

\* The worker is idle when it holds no case, and everything is when the process
\* is down.
HoldingInv ==
  /\ At(Worker, "idle") <=> wcase = NoCase
  /\ ~up => /\ \A p \in Proc : At(p, "idle")
            /\ \A c \in Case : intake[c] \notin {"opened", "putting"}
            /\ queue = <<>>

\* A case that has not reached the put is untouched and nowhere else; one that
\* has is in the audit log.
IntakeInv ==
  \A c \in Case :
    /\ intake[c] = "none" <=> status[c] = "absent"
    /\ intake[c] # "done" => /\ Fresh(c) /\ status[c] \in {"absent", "PENDING"}
                             /\ wcase # c
                             /\ \A i \in 1 .. Len(queue) : queue[i] # c
    /\ intake[c] \in {"putting", "done"} => "CASE_CREATED" \in audit[c]

QueueInv ==
  /\ \A i, j \in 1 .. Len(queue) : queue[i] = queue[j] => i = j
  /\ \A i \in 1 .. Len(queue) : /\ queue[i] # wcase
                                /\ status[queue[i]] = "PENDING"
                                /\ Fresh(queue[i])

\* What the worker has stored for its case at each call.
StageInv ==
  /\ pc[Worker] \in {"idle", "begin", "failing", "tellDone", "tellFailed"}
                   \cup BeforeRisk \cup AfterRisk
  /\ At(Worker, "begin") => status[wcase] = "PENDING" /\ Fresh(wcase)
  /\ At(Worker, "failing") => status[wcase] \in {"PENDING", "PROCESSING"}
  /\ At(Worker, "tellFailed") => status[wcase] \in {"PENDING", "PROCESSING", "FAILED"}
  /\ At(Worker, "tellDone") => status[wcase] = "DONE"
  /\ pc[Worker] \in BeforeRisk \cup AfterRisk => status[wcase] = "PROCESSING"
  /\ pc[Worker] \in BeforeRisk => Fresh(wcase)
  /\ pc[Worker] \in AfterRisk => risk[wcase] # "none"
  /\ pc[Worker] \in AfterScore => "RISK_COMPUTED" \in audit[wcase]
  /\ pc[Worker] \in AfterTranscript \cup AfterExplanation => transcript[wcase] # "none"
  /\ pc[Worker] \in AfterExplanation \cup {"update"} => expl[wcase] # <<>>

\* An explain task past its read has a risk to explain, and rows only appear.
ExplainInv ==
  \A c \in Case :
    /\ pc[c] \notin {"idle", "get"} => risk[c] # "none"
    /\ pc[c] \in {"update", "logExpl", "degrade"} => expl[c] # <<>>
    /\ expl[c] # <<>> => risk[c] # "none"

\* A case whose end has been announced is nowhere on its way any more.
SettledInv ==
  \A c \in Case : {"case_done", "case_failed"} \cap sent[c] # {} =>
    /\ intake[c] = "done" /\ wcase # c
    /\ \A i \in 1 .. Len(queue) : queue[i] # c

CoreInv ==
  /\ HoldingInv /\ IntakeInv /\ QueueInv /\ StageInv /\ ExplainInv /\ SettledInv
  /\ DoneIsComplete /\ AnnouncedIsPersisted /\ ProcessingHasOwner

IInv == TypeOK /\ CoreInv

-----------------------------------------------------------------------------
(***************************************************************************)
(* Types.                                                                  *)
(***************************************************************************)

LEMMA GotoType ==
  ASSUME pc \in [Proc -> Calls], NEW p \in Proc, NEW s \in Calls, Goto(p, s)
  PROVE  pc' \in [Proc -> Calls]
  BY DEF Goto

LEMMA EmitType ==
  ASSUME sent \in [Case -> SUBSET Events], NEW c, NEW es \in SUBSET Events, Emit(c, es)
  PROVE  sent' \in [Case -> SUBSET Events]
  BY DEF Emit

LEMMA ExplType ==
  ASSUME expl \in [Case -> Seq({"empty", "text"})], NEW c, NEW r,
         c \in Case => r \in Seq({"empty", "text"})
  PROVE  [expl EXCEPT ![c] = r] \in [Case -> Seq({"empty", "text"})]
  OBVIOUS

LEMMA LockType ==
  ASSUME gpuQ \in Seq(Proc), NEW p \in Proc,
         gpuQ' = Append(gpuQ, p) \/ gpuQ' = gpuQ
  PROVE  gpuQ' \in Seq(Proc)
<1>1. CASE gpuQ' = Append(gpuQ, p)
  BY <1>1
<1>2. CASE gpuQ' = gpuQ
  BY <1>2
<1> QED
  BY <1>1, <1>2

LEMMA TypeInit == Init => TypeOK
<1> SUFFICES ASSUME Init PROVE TypeOK
  OBVIOUS
<1> USE PipelineAssumption DEF Init
<1>1. expl \in [Case -> Seq({"empty", "text"})]
  OBVIOUS
<1>2. audit \in [Case -> SUBSET Actions] /\ sent \in [Case -> SUBSET Events]
  OBVIOUS
<1>3. queue \in Seq(Case) /\ gpuQ \in Seq(Proc)
  BY DEF QueueInit
<1>4. bp \in BOOLEAN
  BY DEF QueueInit
<1>5. pc \in [Proc -> Calls]
  BY DEF Calls
<1> QED
  BY <1>1, <1>2, <1>3, <1>4, <1>5 DEF TypeOK, Statuses

LEMMA UpdateType ==
  ASSUME NEW S, NEW s \in Seq(S), s # <<>>, NEW x \in S
  PROVE  [s EXCEPT ![1] = x] \in Seq(S) /\ [s EXCEPT ![1] = x] # <<>>
<1>1. 1 \in 1 .. Len(s)
  OBVIOUS
<1>2. /\ [s EXCEPT ![1] = x] \in Seq(S)
      /\ Len([s EXCEPT ![1] = x]) = Len(s)
  BY <1>1, ExceptSeq
<1> QED
  BY <1>1, <1>2

LEMMA TypeStep == TypeOK /\ StageInv /\ ExplainInv /\ [Next]_vars => TypeOK'
<1> SUFFICES ASSUME TypeOK, StageInv, ExplainInv, [Next]_vars
             PROVE  TypeOK'
  OBVIOUS
<1> USE PipelineAssumption
    DEF TypeOK, At, Log, CaseOf, Proc, Statuses, Actions, Events, Calls, DbCalls,
        rows, locals, sttVars, bounds
<1>1. ASSUME NEW c \in Case, CreateCase(c) PROVE TypeOK'
  BY <1>1 DEF CreateCase, Goto, Emit
<1>2. ASSUME NEW c \in Case, LogCreated(c) PROVE TypeOK'
  BY <1>2 DEF LogCreated, Goto, Emit
<1>3. ASSUME NEW c \in Case, IntakeFails(c) PROVE TypeOK'
  BY <1>3 DEF IntakeFails, Goto, Emit
<1>4. ASSUME NEW c \in Case, Enqueue(c) PROVE TypeOK'
  BY <1>4 DEF Enqueue, Put, Goto, Emit
<1>5. ASSUME NEW c \in Case, SttPartial(c) PROVE TypeOK'
  BY <1>5 DEF SttPartial, Goto, Emit
<1>6. ASSUME NEW c \in Case, SttReturns(c) PROVE TypeOK'
  BY <1>6 DEF SttReturns, Goto, Emit
<1>7. ASSUME NEW c \in Case, SttTimeout(c) PROVE TypeOK'
  BY <1>7 DEF SttTimeout, Goto, Emit
<1>8. ASSUME NEW c \in Case, LogSttFailed(c) PROVE TypeOK'
  BY <1>8 DEF LogSttFailed, Goto, Emit
<1>9. ASSUME NEW c \in Case, LogSttRaises(c) PROVE TypeOK'
  BY <1>9 DEF LogSttRaises, Goto, Emit
<1>10. ASSUME NEW c \in Case, SttThreadEnds(c) PROVE TypeOK'
  BY <1>10 DEF SttThreadEnds, Goto, Emit
<1>11. ASSUME NEW c \in Case, RequestExplain(c) PROVE TypeOK'
  BY <1>11 DEF RequestExplain, Goto, Emit
<1>12. ASSUME NEW c \in Case, ExplainLoad(c) PROVE TypeOK'
  <2>1. pc' \in [Proc -> Calls]
    BY <1>12, GotoType DEF ExplainLoad
  <2>2. gpuQ' \in Seq(Proc)
    BY <1>12, LockType DEF ExplainLoad
  <2> QED
    BY <1>12, <2>1, <2>2 DEF ExplainLoad
<1>13. ASSUME NEW c \in Case, ExplainTooEarly(c) PROVE TypeOK'
  <2>1. pc' \in [Proc -> Calls]
    BY <1>13, GotoType DEF ExplainTooEarly
  <2>2. sent' \in [Case -> SUBSET Events]
    BY <1>13, EmitType DEF ExplainTooEarly
  <2> QED
    BY <1>13, <2>1, <2>2 DEF ExplainTooEarly
<1>14. CASE Dequeue
  <2>1. queue # <<>> /\ queue' \in Seq(Case) /\ bp' \in BOOLEAN
    BY <1>14 DEF Dequeue, Get
  <2>2. wcase' \in Case
    BY <1>14 DEF Dequeue, Get
  <2>3. deg' \in [Proc -> BOOLEAN]
    BY <1>14 DEF Dequeue, Get
  <2>4. out' \in [Proc -> {"empty", "text"}]
    BY <1>14 DEF Dequeue, Get
  <2>5. attempt' \in [Proc -> Nat]
    BY <1>14 DEF Dequeue, Get
  <2>6. pc' \in [Proc -> Calls]
    BY <1>14, GotoType DEF Dequeue, Get
  <2> QED
    BY <1>14, <2>1, <2>2, <2>3, <2>4, <2>5, <2>6 DEF Dequeue
<1>15. CASE Begin
  BY <1>15 DEF Begin, Goto, Emit
<1>16. CASE Load
  <2>1. CASE /\ stt' = [stt EXCEPT ![wcase] = "silent"]
             /\ UNCHANGED sttThread
    BY <1>16, <2>1 DEF Load, Goto
  <2>2. CASE /\ stt' = [stt EXCEPT ![wcase] = "running"]
             /\ sttThread' = [sttThread EXCEPT ![wcase] = TRUE]
    BY <1>16, <2>2 DEF Load, Goto
  <2> QED
    BY <1>16, <2>1, <2>2 DEF Load
<1>17. CASE Detect
  BY <1>17 DEF Detect, Goto, Emit
<1>18. CASE DetectFails
  BY <1>18 DEF DetectFails, Goto, Emit
<1>19. CASE LogDetectionFailed
  BY <1>19 DEF LogDetectionFailed, Goto, Emit
<1>20. CASE SaveDetections
  BY <1>20 DEF SaveDetections, Goto, Emit
<1>21. CASE LogDetection
  BY <1>21 DEF LogDetection, Goto, Emit
<1>22. CASE SaveRisk
  <2> PICK level \in {"LOW", "HIGH"} : risk' = [risk EXCEPT ![wcase] = level]
    BY <1>22 DEF SaveRisk, Levels
  <2> QED
    BY <1>22 DEF SaveRisk, Goto
<1>23. CASE LogRisk
  BY <1>23 DEF LogRisk, Goto, Emit
<1>24. CASE SaveTranscript
  BY <1>24 DEF SaveTranscript, Goto, Emit
<1>25. CASE SaveNoTranscript
  <2>1. transcript' \in [Case -> {"none", "empty", "text"}]
    BY <1>25 DEF SaveNoTranscript, EnterTier2
  <2>2. deg' \in [Proc -> BOOLEAN]
    BY <1>25 DEF SaveNoTranscript, EnterTier2
  <2>3. pc' \in [Proc -> Calls]
    BY <1>25, GotoType DEF SaveNoTranscript, EnterTier2
  <2>4. gpuQ' \in Seq(Proc)
    BY <1>25, LockType DEF SaveNoTranscript, EnterTier2
  <2>5. sent' \in [Case -> SUBSET Events]
    BY <1>25, EmitType DEF SaveNoTranscript, EnterTier2
  <2> QED
    BY <1>25, <2>1, <2>2, <2>3, <2>4, <2>5 DEF SaveNoTranscript
<1>26. CASE TranscriptRaises
  BY <1>26 DEF TranscriptRaises, Goto, Emit
<1>27. CASE LogStt
  <2>1. audit' \in [Case -> SUBSET Actions]
    BY <1>27 DEF LogStt, EnterTier2
  <2>2. pc' \in [Proc -> Calls]
    BY <1>27, GotoType DEF LogStt, EnterTier2
  <2>3. gpuQ' \in Seq(Proc)
    BY <1>27, LockType DEF LogStt, EnterTier2
  <2>4. sent' \in [Case -> SUBSET Events]
    BY <1>27, EmitType DEF LogStt, EnterTier2
  <2> QED
    BY <1>27, <2>1, <2>2, <2>3, <2>4 DEF LogStt
<1>28. CASE FinishCase
  BY <1>28 DEF FinishCase, Goto
<1>29. CASE FailCase
  BY <1>29 DEF FailCase, Goto
<1>30. CASE FailCaseUnsaved
  <2>1. pc' \in [Proc -> Calls]
    BY <1>30, GotoType DEF FailCaseUnsaved
  <2> QED
    BY <1>30, <2>1 DEF FailCaseUnsaved
<1>44. CASE TellRisk
  <2>1. sent' \in [Case -> SUBSET Events]
    BY <1>44, EmitType DEF TellRisk
  <2>2. pc' \in [Proc -> Calls]
    BY <1>44, GotoType DEF TellRisk
  <2> QED
    BY <1>44, <2>1, <2>2 DEF TellRisk
<1>45. ASSUME NEW e \in Events, EndCase(e) PROVE TypeOK'
  <2>1. sent' \in [Case -> SUBSET Events]
    BY <1>45, EmitType DEF EndCase
  <2>2. pc' \in [Proc -> Calls]
    BY <1>45, GotoType DEF EndCase
  <2> QED
    BY <1>45, <2>1, <2>2 DEF EndCase
<1>46. CASE TellDone \/ TellFailed
  BY <1>45, <1>46 DEF TellDone, TellFailed
<1>31. ASSUME NEW p \in Proc, Generate(p) PROVE TypeOK'
  BY <1>31, SMTT(30) DEF Generate, HoldsGpu, Goto, Emit
<1>32. ASSUME NEW p \in Proc, GenerateFails(p) PROVE TypeOK'
  <2>1. gpuQ' \in Seq(Proc) 
    BY <1>32 DEF GenerateFails, HoldsGpu
  <2>2. attempt' \in [Proc -> Nat]
    BY <1>32 DEF GenerateFails, HoldsGpu
  <2>3. pc' \in [Proc -> Calls]
    BY <1>32, GotoType DEF GenerateFails, HoldsGpu
  <2> QED
    BY <1>32, <2>1, <2>2, <2>3 DEF GenerateFails
<1>33. ASSUME NEW p \in Proc, RestartDaemon(p) PROVE TypeOK'
  <2>1. gpuQ' \in Seq(Proc)
    BY <1>33, LockType DEF RestartDaemon
  <2>2. pc' \in [Proc -> Calls]
    BY <1>33, GotoType DEF RestartDaemon
  <2> QED
    BY <1>33, <2>1, <2>2 DEF RestartDaemon
<1>34. ASSUME NEW p \in Proc, LogLlmFailed(p) PROVE TypeOK'
  BY <1>34 DEF LogLlmFailed, Goto, Emit
<1>35. ASSUME NEW p \in Proc, SelectExplanation(p) PROVE TypeOK'
  BY <1>35 DEF SelectExplanation, Goto, Emit
<1>36. ASSUME NEW p \in Proc, InsertExplanation(p) PROVE TypeOK'
  <2>1. CaseOf(p) \in Case => Append(expl[CaseOf(p)], out[p]) \in Seq({"empty", "text"})
    OBVIOUS
  <2>2. expl' \in [Case -> Seq({"empty", "text"})]
    BY <1>36, <2>1, ExplType DEF InsertExplanation
  <2>3. pc' \in [Proc -> Calls]
    BY <1>36, GotoType DEF InsertExplanation, Saved
  <2>4. sent' \in [Case -> SUBSET Events]
    BY <1>36, EmitType DEF InsertExplanation, Saved
  <2> QED
    BY <1>36, <2>2, <2>3, <2>4 DEF InsertExplanation
<1>37. ASSUME NEW p \in Proc, UpdateExplanation(p) PROVE TypeOK'
  <2>0. CaseOf(p) \in Case => expl[CaseOf(p)] # <<>>
    BY <1>37 DEF UpdateExplanation, StageInv, ExplainInv
  <2>1. CaseOf(p) \in Case => [expl[CaseOf(p)] EXCEPT ![1] = out[p]] \in Seq({"empty", "text"})
    BY <2>0, UpdateType
  <2>2. expl' \in [Case -> Seq({"empty", "text"})]
    BY <1>37, <2>1, ExplType DEF UpdateExplanation
  <2>3. pc' \in [Proc -> Calls]
    BY <1>37, GotoType DEF UpdateExplanation, Saved
  <2>4. sent' \in [Case -> SUBSET Events]
    BY <1>37, EmitType DEF UpdateExplanation, Saved
  <2> QED
    BY <1>37, <2>2, <2>3, <2>4 DEF UpdateExplanation
<1>38. ASSUME NEW p \in Proc, LogExplanation(p) PROVE TypeOK'
  BY <1>38 DEF LogExplanation, Goto, Emit
<1>39. ASSUME NEW p \in Proc, SetDegraded(p) PROVE TypeOK'
  <2>1. degraded' \in [Case -> BOOLEAN]
    BY <1>39 DEF SetDegraded
  <2>2. pc' \in [Proc -> Calls]
    BY <1>39, GotoType DEF SetDegraded
  <2>3. sent' \in [Case -> SUBSET Events]
    BY <1>39, EmitType DEF SetDegraded
  <2> QED
    BY <1>39, <2>1, <2>2, <2>3 DEF SetDegraded
<1>40. ASSUME NEW p \in Proc, DbFails(p) PROVE TypeOK'
  <2>1. pc' \in [Proc -> Calls]
    BY <1>40, GotoType DEF DbFails
  <2>2. sent' \in [Case -> SUBSET Events]
    BY <1>40, EmitType DEF DbFails
  <2> QED
    BY <1>40, <2>1, <2>2 DEF DbFails
<1>41. CASE Crash
  <2>1. up' \in BOOLEAN
    BY <1>41 DEF Crash, Reset
  <2>2. crashes' \in Nat
    BY <1>41 DEF Crash, Reset
  <2>3. queue' \in Seq(Case)
    BY <1>41 DEF Crash, Reset
  <2>4. bp' \in BOOLEAN
    BY <1>41 DEF Crash, Reset
  <2>5. intake' \in [Case -> {"none", "opened", "putting", "done", "aborted"}]
    BY <1>41 DEF Crash, Reset
  <2>6. pc' \in [Proc -> Calls]
    BY <1>41 DEF Crash, Reset, Goto
  <2>7. deg' \in [Proc -> BOOLEAN]
    BY <1>41 DEF Crash, Reset
  <2>8. out' \in [Proc -> {"empty", "text"}]
    BY <1>41 DEF Crash, Reset
  <2>9. attempt' \in [Proc -> Nat]
    BY <1>41 DEF Crash, Reset
  <2>10. stt' \in [Case -> {"none", "running", "failing", "ok", "silent", "failed", "raised"}]
    BY <1>41 DEF Crash, Reset
  <2>11. sttThread' \in [Case -> BOOLEAN]
    BY <1>41 DEF Crash, Reset
  <2>12. gpuQ' \in Seq(Proc)
    BY <1>41 DEF Crash, Reset
  <2> QED
    BY <1>41, <2>1, <2>2, <2>3, <2>4, <2>5, <2>6, <2>7, <2>8, <2>9, <2>10, <2>11, <2>12 DEF Crash
<1>42. CASE Restart
  BY <1>42 DEF Restart, Recovered, Goto, Emit
<1>43. CASE UNCHANGED vars
  BY <1>43 DEF vars
<1> QED
  BY <1>1, <1>2, <1>3, <1>4, <1>5, <1>6, <1>7, <1>8, <1>9, <1>10, <1>11, <1>12,
     <1>13, <1>14, <1>15, <1>16, <1>17, <1>18, <1>19, <1>20, <1>21, <1>22, <1>23, <1>24,
     <1>25, <1>26, <1>27, <1>28, <1>29, <1>30, <1>31, <1>32, <1>33, <1>34, <1>35, <1>36,
     <1>37, <1>38, <1>39, <1>40, <1>41, <1>42, <1>43, <1>44, <1>46
  DEF Next, IntakeStep, SttTaskStep, ExplanationStep, ExplainStep, WorkerStep

-----------------------------------------------------------------------------
(***************************************************************************)
(* Preservation: the steps that need an argument of their own.             *)
(***************************************************************************)

\* An explain task that ends: an event that ends no case, and nothing else.
LEMMA TaskEnds ==
  ASSUME IInv, NEW c \in Case, Goto(c, "idle"),
         NEW e \in {"model_failed", "explanation_done"}, Emit(c, {e}),
         e = "explanation_done" => expl[c] # <<>>,
         UNCHANGED <<status, risk, transcript, expl, audit, up, queue, intake, wcase>>
  PROVE  CoreInv'
<1>1. /\ \A q \in Proc : q # c => pc'[q] = pc[q]
      /\ pc'[c] = "idle" /\ pc'[Worker] = pc[Worker]
  BY PipelineAssumption DEF Goto, IInv, TypeOK, Proc
<1>2. \A d \in Case : sent'[d] = sent[d] \/ (d = c /\ sent'[d] = sent[d] \cup {e})
  BY DEF Emit, IInv, TypeOK
<1> USE PipelineAssumption, <1>1, <1>2 DEF IInv, CoreInv, Proc
<1>3. HoldingInv' /\ IntakeInv' /\ QueueInv'
  BY DEF HoldingInv, IntakeInv, QueueInv, Fresh, At
<1>4. StageInv' /\ ExplainInv'
  BY DEF StageInv, ExplainInv, Fresh, At
<1>5. SettledInv' /\ DoneIsComplete' /\ ProcessingHasOwner'
  BY DEF SettledInv, DoneIsComplete, ProcessingHasOwner
<1>6. AnnouncedIsPersisted'
  BY DEF AnnouncedIsPersisted
<1> QED
  BY <1>3, <1>4, <1>5, <1>6

\* The write of an explanation row, by the worker or by an explain task.
LEMMA SavedStep ==
  ASSUME IInv, NEW p \in Proc, Saved(p), pc[p] \in {"insert", "update"},
         UNCHANGED <<status, risk, transcript, audit, up, queue, intake, wcase>>,
         \A d \in Case : d # CaseOf(p) => expl'[d] = expl[d],
         CaseOf(p) \in Case => expl'[CaseOf(p)] # <<>>
  PROVE  CoreInv'
<1> DEFINE c == CaseOf(p)
<1>1. c \in Case /\ risk[c] # "none" /\ (p = Worker => c = wcase) /\ (p # Worker => c = p)
  BY PipelineAssumption
  DEF IInv, TypeOK, CoreInv, HoldingInv, StageInv, ExplainInv, CaseOf, Proc, At,
      AfterRisk, AfterScore, AfterTier1, AfterTranscript
<1>2. /\ \A d \in Case : d # c => expl'[d] = expl[d]
      /\ expl'[c] # <<>>
  BY <1>1
<1>3. \A d \in Case : \/ sent'[d] = sent[d]
                      \/ d = c /\ sent'[d] = sent[d] \cup {"explanation_done"}
  <2>1. CASE UNCHANGED sent
    BY <2>1
  <2>2. CASE Emit(wcase, {"explanation_done"}) /\ c = wcase
    BY <2>2 DEF Emit, IInv, TypeOK
  <2>3. CASE Emit(wcase, {})
    BY <2>3 DEF Emit, IInv, TypeOK
  <2> QED
    BY <1>1, <2>1, <2>2, <2>3 DEF Saved
<1>4. /\ \A q \in Proc : q # p => pc'[q] = pc[q]
      /\ pc'[p] \in {"logExpl", "degrade"} \cup IF p = Worker THEN {"finish"} ELSE {}
  BY DEF Saved, Goto, IInv, TypeOK
<1>5. /\ Fresh(c) => FALSE
      /\ intake[c] = "done" /\ \A i \in 1 .. Len(queue) : queue[i] # c
  BY <1>1 DEF Fresh, IInv, CoreInv, IntakeInv, QueueInv
<1> HIDE DEF c
<1> USE PipelineAssumption, <1>1, <1>2, <1>3, <1>4 DEF IInv, CoreInv, Proc
<1>6. HoldingInv'
  BY DEF HoldingInv, At, Proc
<1>7. IntakeInv'
  BY <1>5 DEF IntakeInv, Fresh
<1>8. QueueInv'
  <2>1. \A i \in 1 .. Len(queue) : queue[i] \in Case /\ queue[i] # c
    BY <1>5 DEF TypeOK
  <2>2. \A d \in Case : d # c /\ Fresh(d) => Fresh(d)'
    BY DEF Fresh
  <2> QED
    BY <2>1, <2>2 DEF QueueInv
<1>9. StageInv'
  BY DEF StageInv, Fresh, At, BeforeRisk, AfterTranscript, AfterExplanation, AfterScore, AfterTier1,
         AfterRisk, TypeOK, HoldingInv
<1>10. ExplainInv'
  BY DEF ExplainInv
<1>11. SettledInv'
  BY DEF SettledInv
<1>12. DoneIsComplete' /\ ProcessingHasOwner'
  BY DEF DoneIsComplete, ProcessingHasOwner
<1>13. AnnouncedIsPersisted'
  BY DEF AnnouncedIsPersisted
<1> QED
  BY <1>6, <1>7, <1>8, <1>9, <1>10, <1>11, <1>12, <1>13

LEMMA AppendFacts ==
  ASSUME NEW S, NEW s \in Seq(S), NEW x \in S
  PROVE  /\ Append(s, x) \in Seq(S) /\ Len(Append(s, x)) = Len(s) + 1
         /\ \A i \in 1 .. Len(s) : Append(s, x)[i] = s[i]
         /\ Append(s, x)[Len(s) + 1] = x /\ Append(s, x) # <<>>
  OBVIOUS

RowWritten(p) ==
  /\ \A d \in Case : d # CaseOf(p) => expl'[d] = expl[d]
  /\ CaseOf(p) \in Case => expl'[CaseOf(p)] # <<>>

LEMMA InsertedRowWritten ==
  ASSUME TypeOK, NEW p \in Proc, InsertExplanation(p)
  PROVE  RowWritten(p)
<1> DEFINE c == CaseOf(p)
           r == Append(expl[c], out[p])
<1>1. expl' = [expl EXCEPT ![c] = r] /\ DOMAIN expl = Case
  BY DEF InsertExplanation, TypeOK
<1>2. ASSUME c \in Case PROVE r # <<>>
  <2>1. expl[c] \in Seq({"empty", "text"}) /\ out[p] \in {"empty", "text"}
    BY <1>2 DEF TypeOK
  <2> QED
    BY <2>1, AppendFacts
<1> HIDE DEF r
<1> QED
  BY <1>1, <1>2 DEF RowWritten

LEMMA EnqueueStep ==
  ASSUME IInv, NEW c \in Case, Enqueue(c)
  PROVE  CoreInv'
<1> USE DEF IInv, CoreInv
<1>1. /\ intake[c] = "putting" /\ intake' = [intake EXCEPT ![c] = "done"]
      /\ sent' = [sent EXCEPT ![c] = @ \cup {"case_created"}]
      /\ UNCHANGED <<status, risk, transcript, expl, audit, up, pc, wcase>>
  BY DEF Enqueue, Emit, rows, locals
<1> DEFINE n == Len(queue)
<1>2. /\ n \in Nat /\ queue \in Seq(Case) /\ Len(queue') = n + 1
      /\ \A i \in 1 .. n : queue'[i] = queue[i]
      /\ queue'[n + 1] = c
  BY AppendFacts DEF Enqueue, Put, TypeOK
<1>3. \A i \in 1 .. Len(queue) : queue[i] # c
  BY <1>1 DEF IntakeInv
<1> HIDE DEF n
<1>4. \A d \in Case : /\ d # c => intake'[d] = intake[d] /\ sent'[d] = sent[d]
                      /\ \A e : e # "case_created" => (e \in sent'[d] <=> e \in sent[d])
  BY <1>1 DEF TypeOK
<1>5. /\ Fresh(c) /\ status[c] = "PENDING" /\ wcase # c /\ "CASE_CREATED" \in audit[c]
      /\ up /\ intake'[c] = "done"
  BY <1>1 DEF IntakeInv, HoldingInv, TypeOK
<1>6. HoldingInv' /\ StageInv' /\ ExplainInv'
  BY <1>1, <1>4, <1>5 DEF HoldingInv, StageInv, ExplainInv, Fresh, At
<1>7. \A i \in 1 .. Len(queue') : i = n + 1 \/ i \in 1 .. n
  BY <1>2
<1>8. IntakeInv'
  <2>1. ASSUME NEW d \in Case, intake'[d] # "done", NEW i \in 1 .. Len(queue')
        PROVE  queue'[i] # d
    <3>1. d # c /\ \A k \in 1 .. Len(queue) : queue[k] # d
      BY <1>4, <1>5, <2>1 DEF IntakeInv
    <3> QED
      BY <1>2, <1>7, <3>1 DEF n
  <2> QED
    BY <1>1, <1>4, <1>5, <2>1 DEF IntakeInv, Fresh
<1>9. QueueInv'
  <2>1. ASSUME NEW i \in 1 .. Len(queue'), NEW j \in 1 .. Len(queue'), queue'[i] = queue'[j]
        PROVE  i = j
    <3>1. CASE i \in 1 .. n /\ j \in 1 .. n
      BY <1>2, <2>1, <3>1 DEF QueueInv, n
    <3>2. CASE i = n + 1 /\ j \in 1 .. n
      BY <1>2, <1>3, <2>1, <3>2 DEF n
    <3>3. CASE j = n + 1 /\ i \in 1 .. n
      BY <1>2, <1>3, <2>1, <3>3 DEF n
    <3> QED
      BY <1>7, <3>1, <3>2, <3>3
  <2>2. ASSUME NEW i \in 1 .. Len(queue')
        PROVE  (queue[i] # wcase /\ status[queue[i]] = "PENDING" /\ Fresh(queue[i]))'
    <3>1. CASE i \in 1 .. n
      BY <1>1, <1>2, <3>1 DEF QueueInv, Fresh, n
    <3>2. CASE i = n + 1
      BY <1>1, <1>2, <1>5, <3>2 DEF Fresh
    <3> QED
      BY <1>7, <3>1, <3>2
  <2> QED
    BY <2>1, <2>2 DEF QueueInv, Fresh
<1>10. SettledInv'
  <2>1. ASSUME NEW d \in Case, {"case_done", "case_failed"} \cap sent'[d] # {}
        PROVE  intake'[d] = "done" /\ wcase' # d /\ \A i \in 1 .. Len(queue') : queue'[i] # d
    <3>1. {"case_done", "case_failed"} \cap sent[d] # {}
      BY <1>4, <2>1
    <3>2. intake[d] = "done" /\ wcase # d /\ \A i \in 1 .. Len(queue) : queue[i] # d
      BY <3>1 DEF SettledInv
    <3>3. d # c
      BY <1>1, <3>2
    <3> QED
      BY <1>1, <1>2, <1>4, <1>7, <3>2, <3>3 DEF n
  <2> QED
    BY <2>1 DEF SettledInv
<1>11. DoneIsComplete' /\ AnnouncedIsPersisted' /\ ProcessingHasOwner'
  BY <1>1, <1>4 DEF DoneIsComplete, AnnouncedIsPersisted, ProcessingHasOwner
<1> QED
  BY <1>6, <1>8, <1>9, <1>10, <1>11

-----------------------------------------------------------------------------
(***************************************************************************)
(* Preservation, action by action.                                         *)
(***************************************************************************)

LEMMA CoreStep == IInv /\ [Next]_vars => CoreInv'
<1> SUFFICES ASSUME IInv, [Next]_vars
             PROVE  CoreInv'
  OBVIOUS
<1>0. \A p \in Proc : InsertExplanation(p) => RowWritten(p)
  BY InsertedRowWritten DEF IInv
<1> USE PipelineAssumption
    DEF IInv, TypeOK, CoreInv, HoldingInv, IntakeInv, QueueInv, StageInv, ExplainInv, SettledInv,
        DoneIsComplete, AnnouncedIsPersisted, ProcessingHasOwner,
        Fresh, BeforeRisk, AfterTranscript, AfterExplanation, AfterScore, AfterTier1, AfterRisk,
        At, Goto, Emit, Log, CaseOf, Proc, rows, locals, sttVars, bounds
<1>1. ASSUME NEW c \in Case, CreateCase(c) PROVE CoreInv'
  BY <1>1, SMTT(30) DEF CreateCase
<1>2. ASSUME NEW c \in Case, LogCreated(c) PROVE CoreInv'
  BY <1>2, SMTT(30) DEF LogCreated
<1>3. ASSUME NEW c \in Case, IntakeFails(c) PROVE CoreInv'
  BY <1>3, SMTT(30) DEF IntakeFails
<1>4. ASSUME NEW c \in Case, Enqueue(c) PROVE CoreInv'
  BY <1>4, EnqueueStep
<1>5. ASSUME NEW c \in Case, SttPartial(c) PROVE CoreInv'
  BY <1>5, SMTT(30) DEF SttPartial
<1>6. ASSUME NEW c \in Case, SttReturns(c) PROVE CoreInv'
  BY <1>6, SMTT(30) DEF SttReturns
<1>7. ASSUME NEW c \in Case, SttTimeout(c) PROVE CoreInv'
  BY <1>7, SMTT(30) DEF SttTimeout
<1>8. ASSUME NEW c \in Case, LogSttFailed(c) PROVE CoreInv'
  <2>1. HoldingInv' /\ IntakeInv' /\ QueueInv'
    BY <1>8, SMTT(30) DEF LogSttFailed
  <2>2. StageInv' /\ ExplainInv' /\ SettledInv'
    BY <1>8, SMTT(30) DEF LogSttFailed
  <2>3. DoneIsComplete' /\ AnnouncedIsPersisted' /\ ProcessingHasOwner'
    BY <1>8, SMTT(30) DEF LogSttFailed
  <2> QED
    BY <2>1, <2>2, <2>3
<1>9. ASSUME NEW c \in Case, LogSttRaises(c) PROVE CoreInv'
  BY <1>9, SMTT(30) DEF LogSttRaises
<1>10. ASSUME NEW c \in Case, SttThreadEnds(c) PROVE CoreInv'
  BY <1>10, SMTT(30) DEF SttThreadEnds
<1>11. ASSUME NEW c \in Case, RequestExplain(c) PROVE CoreInv'
  BY <1>11, SMTT(30) DEF RequestExplain
<1>12. ASSUME NEW c \in Case, ExplainLoad(c) PROVE CoreInv'
  BY <1>12, SMTT(30) DEF ExplainLoad
<1>13. ASSUME NEW c \in Case, ExplainTooEarly(c) PROVE CoreInv'
  BY <1>13, SMTT(30) DEF ExplainTooEarly
<1>14. ASSUME Dequeue PROVE CoreInv'
  <2>1. HoldingInv'
    BY <1>14, SMTT(30) DEF Dequeue, Get
  <2>2. IntakeInv'
    BY <1>14, SMTT(30) DEF Dequeue, Get
  <2>3. QueueInv'
    BY <1>14, SMTT(60) DEF Dequeue, Get
  <2>4. StageInv'
    BY <1>14, SMTT(30) DEF Dequeue, Get
  <2>5. ExplainInv'
    BY <1>14, SMTT(30) DEF Dequeue, Get
  <2>6. SettledInv'
    BY <1>14, SMTT(60) DEF Dequeue, Get
  <2>7. DoneIsComplete' /\ AnnouncedIsPersisted' /\ ProcessingHasOwner'
    BY <1>14, SMTT(30) DEF Dequeue, Get
  <2> QED
    BY <2>1, <2>2, <2>3, <2>4, <2>5, <2>6, <2>7
<1>15. ASSUME Begin PROVE CoreInv'
  <2>1. HoldingInv' /\ IntakeInv' /\ QueueInv'
    BY <1>15, SMTT(30) DEF Begin
  <2>2. StageInv' /\ ExplainInv' /\ SettledInv'
    BY <1>15, SMTT(30) DEF Begin
  <2>3. DoneIsComplete' /\ AnnouncedIsPersisted' /\ ProcessingHasOwner'
    BY <1>15, SMTT(30) DEF Begin
  <2> QED
    BY <2>1, <2>2, <2>3
<1>16. ASSUME Load PROVE CoreInv'
  BY <1>16, SMTT(30) DEF Load
<1>17. ASSUME Detect PROVE CoreInv'
  BY <1>17, SMTT(30) DEF Detect
<1>18. ASSUME DetectFails PROVE CoreInv'
  BY <1>18, SMTT(30) DEF DetectFails
<1>19. ASSUME LogDetectionFailed PROVE CoreInv'
  <2>1. HoldingInv' /\ IntakeInv' /\ QueueInv'
    BY <1>19, SMTT(30) DEF LogDetectionFailed
  <2>2. StageInv' /\ ExplainInv' /\ SettledInv'
    BY <1>19, SMTT(30) DEF LogDetectionFailed
  <2>3. DoneIsComplete' /\ AnnouncedIsPersisted' /\ ProcessingHasOwner'
    BY <1>19, SMTT(30) DEF LogDetectionFailed
  <2> QED
    BY <2>1, <2>2, <2>3
<1>20. ASSUME SaveDetections PROVE CoreInv'
  BY <1>20, SMTT(30) DEF SaveDetections
<1>21. ASSUME LogDetection PROVE CoreInv'
  BY <1>21, SMTT(30) DEF LogDetection
<1>22. ASSUME SaveRisk PROVE CoreInv'
  <2>1. HoldingInv' /\ IntakeInv' /\ QueueInv'
    BY <1>22, SMTT(30) DEF SaveRisk, Levels
  <2>2. StageInv' /\ ExplainInv' /\ SettledInv'
    BY <1>22, SMTT(30) DEF SaveRisk, Levels
  <2>3. DoneIsComplete' /\ AnnouncedIsPersisted' /\ ProcessingHasOwner'
    BY <1>22, SMTT(30) DEF SaveRisk, Levels
  <2> QED
    BY <2>1, <2>2, <2>3
<1>23. ASSUME LogRisk PROVE CoreInv'
  <2>1. HoldingInv' /\ IntakeInv' /\ QueueInv'
    BY <1>23, SMTT(30) DEF LogRisk
  <2>2. StageInv' /\ ExplainInv' /\ SettledInv'
    BY <1>23, SMTT(30) DEF LogRisk
  <2>3. DoneIsComplete' /\ AnnouncedIsPersisted' /\ ProcessingHasOwner'
    BY <1>23, SMTT(30) DEF LogRisk
  <2> QED
    BY <2>1, <2>2, <2>3
<1>24. ASSUME SaveTranscript PROVE CoreInv'
  BY <1>24, SMTT(30) DEF SaveTranscript
<1>25. ASSUME SaveNoTranscript PROVE CoreInv'
  <2>1. PICK k \in {"llm", "save"} : Goto(Worker, k)
    BY <1>25 DEF SaveNoTranscript, EnterTier2
  <2>2. /\ At(Worker, "saveTranscript") /\ Emit(wcase, {"stt_done"})
        /\ UNCHANGED <<status, risk, expl, degraded, up, queue, intake, wcase>>
        /\ transcript' = [transcript EXCEPT ![wcase] = "empty"] /\ audit' = audit
    BY <1>25 DEF SaveNoTranscript
  <2>3. HoldingInv' /\ IntakeInv' /\ QueueInv'
    BY <2>1, <2>2, SMTT(30)
  <2>4. StageInv'
    BY <2>1, <2>2, SMTT(30)
  <2>5. ExplainInv' /\ SettledInv'
    BY <2>1, <2>2, SMTT(30)
  <2>6. DoneIsComplete' /\ AnnouncedIsPersisted' /\ ProcessingHasOwner'
    BY <2>1, <2>2, SMTT(30)
  <2> QED
    BY <2>3, <2>4, <2>5, <2>6
<1>26. ASSUME TranscriptRaises PROVE CoreInv'
  BY <1>26, SMTT(30) DEF TranscriptRaises
<1>27. ASSUME LogStt PROVE CoreInv'
  <2>1. PICK k \in {"llm", "save"} : Goto(Worker, k)
    BY <1>27 DEF LogStt, EnterTier2
  <2>2. /\ At(Worker, "logStt") /\ Emit(wcase, {"stt_done"})
        /\ UNCHANGED <<status, risk, expl, degraded, up, queue, intake, wcase>>
        /\ transcript' = transcript /\ Log(wcase, "STT_DONE")
    BY <1>27 DEF LogStt
  <2>3. HoldingInv' /\ IntakeInv' /\ QueueInv'
    BY <2>1, <2>2, SMTT(30)
  <2>4. StageInv'
    BY <2>1, <2>2, SMTT(30)
  <2>5. ExplainInv' /\ SettledInv'
    BY <2>1, <2>2, SMTT(30)
  <2>6. DoneIsComplete' /\ AnnouncedIsPersisted' /\ ProcessingHasOwner'
    BY <2>1, <2>2, SMTT(30)
  <2> QED
    BY <2>3, <2>4, <2>5, <2>6
<1>28. ASSUME FinishCase PROVE CoreInv'
  <2>1. HoldingInv' /\ IntakeInv' /\ QueueInv'
    BY <1>28, SMTT(30) DEF FinishCase
  <2>2. StageInv' /\ ExplainInv' /\ SettledInv'
    BY <1>28, SMTT(30) DEF FinishCase
  <2>3. DoneIsComplete' /\ AnnouncedIsPersisted' /\ ProcessingHasOwner'
    BY <1>28, SMTT(30) DEF FinishCase
  <2> QED
    BY <2>1, <2>2, <2>3
<1>29. ASSUME FailCase PROVE CoreInv'
  BY <1>29, SMTT(30) DEF FailCase
<1>30. ASSUME FailCaseUnsaved PROVE CoreInv'
  BY <1>30, SMTT(30) DEF FailCaseUnsaved
<1>44. ASSUME TellRisk PROVE CoreInv'
  <2>1. HoldingInv' /\ IntakeInv' /\ QueueInv'
    BY <1>44, SMTT(30) DEF TellRisk
  <2>2. StageInv' /\ ExplainInv' /\ SettledInv'
    BY <1>44, SMTT(30) DEF TellRisk
  <2>3. DoneIsComplete' /\ AnnouncedIsPersisted' /\ ProcessingHasOwner'
    BY <1>44, SMTT(30) DEF TellRisk
  <2> QED
    BY <2>1, <2>2, <2>3
<1>45. ASSUME TellDone PROVE CoreInv'
  <2>1. HoldingInv' /\ IntakeInv' /\ QueueInv'
    BY <1>45, SMTT(30) DEF TellDone, EndCase
  <2>2. StageInv' /\ ExplainInv' /\ SettledInv'
    BY <1>45, SMTT(30) DEF TellDone, EndCase
  <2>3. DoneIsComplete' /\ AnnouncedIsPersisted' /\ ProcessingHasOwner'
    BY <1>45, SMTT(30) DEF TellDone, EndCase
  <2> QED
    BY <2>1, <2>2, <2>3
<1>46. ASSUME TellFailed PROVE CoreInv'
  <2>1. HoldingInv' /\ IntakeInv' /\ QueueInv'
    BY <1>46, SMTT(30) DEF TellFailed, EndCase
  <2>2. StageInv' /\ ExplainInv' /\ SettledInv'
    BY <1>46, SMTT(30) DEF TellFailed, EndCase
  <2>3. DoneIsComplete' /\ AnnouncedIsPersisted' /\ ProcessingHasOwner'
    BY <1>46, SMTT(30) DEF TellFailed, EndCase
  <2> QED
    BY <2>1, <2>2, <2>3
<1>31. ASSUME NEW p \in Proc, Generate(p) PROVE CoreInv'
  BY <1>31, SMTT(30) DEF Generate, HoldsGpu
<1>32. ASSUME NEW p \in Proc, GenerateFails(p) PROVE CoreInv'
  <2>1. HoldingInv' /\ IntakeInv' /\ QueueInv'
    BY <1>32, SMTT(30) DEF GenerateFails, HoldsGpu
  <2>2. StageInv' /\ ExplainInv' /\ SettledInv'
    BY <1>32, SMTT(30) DEF GenerateFails, HoldsGpu
  <2>3. DoneIsComplete' /\ AnnouncedIsPersisted' /\ ProcessingHasOwner'
    BY <1>32, SMTT(30) DEF GenerateFails, HoldsGpu
  <2> QED
    BY <2>1, <2>2, <2>3
<1>33. ASSUME NEW p \in Proc, RestartDaemon(p) PROVE CoreInv'
  <2>1. PICK k \in {"llm", "logLlmFailed"} : At(p, "restart") /\ Goto(p, k)
    BY <1>33 DEF RestartDaemon
  <2>2. UNCHANGED <<rows, up, queue, bp, intake, locals, sttVars, sent, bounds>>
    BY <1>33 DEF RestartDaemon
  <2>3. HoldingInv' /\ IntakeInv' /\ QueueInv'
    BY <2>1, <2>2, SMTT(30)
  <2>4. StageInv'
    <3>1. CASE p = Worker
      BY <2>1, <2>2, <3>1, SMTT(30)
    <3>2. CASE p # Worker
      <4>1. UNCHANGED pc[Worker]
        BY <2>1, <3>2
      <4> QED
        BY <2>2, <4>1, SMTT(30)
    <3> QED
      BY <3>1, <3>2
  <2>5. ExplainInv' /\ SettledInv'
    BY <2>1, <2>2, SMTT(30)
  <2>6. DoneIsComplete' /\ AnnouncedIsPersisted' /\ ProcessingHasOwner'
    BY <2>1, <2>2, SMTT(30)
  <2> QED
    BY <2>3, <2>4, <2>5, <2>6
<1>34. ASSUME NEW p \in Proc, LogLlmFailed(p) PROVE CoreInv'
  <2>1. CASE p = Worker
    <3>1. HoldingInv' /\ IntakeInv' /\ QueueInv'
      BY <1>34, <2>1, SMTT(30) DEF LogLlmFailed
    <3>2. StageInv' /\ ExplainInv' /\ SettledInv'
      BY <1>34, <2>1, SMTT(30) DEF LogLlmFailed
    <3>3. DoneIsComplete' /\ AnnouncedIsPersisted' /\ ProcessingHasOwner'
      BY <1>34, <2>1, SMTT(30) DEF LogLlmFailed
    <3> QED
      BY <3>1, <3>2, <3>3
  <2>2. CASE p \in Case
    <3>1. HoldingInv' /\ IntakeInv' /\ QueueInv'
      BY <1>34, <2>2, SMTT(30) DEF LogLlmFailed
    <3>2. StageInv' /\ ExplainInv' /\ SettledInv'
      BY <1>34, <2>2, SMTT(30) DEF LogLlmFailed
    <3>3. DoneIsComplete' /\ AnnouncedIsPersisted' /\ ProcessingHasOwner'
      BY <1>34, <2>2, SMTT(30) DEF LogLlmFailed
    <3> QED
      BY <3>1, <3>2, <3>3
  <2> QED
    BY <2>1, <2>2
<1>35. ASSUME NEW p \in Proc, SelectExplanation(p) PROVE CoreInv'
  BY <1>35, SMTT(30) DEF SelectExplanation
<1>36. ASSUME NEW p \in Proc, InsertExplanation(p) PROVE CoreInv'
  BY <1>0, <1>36, SavedStep DEF InsertExplanation, RowWritten
<1>37. ASSUME NEW p \in Proc, UpdateExplanation(p) PROVE CoreInv'
  <2>1. /\ \A d \in Case : d # CaseOf(p) => expl'[d] = expl[d]
        /\ CaseOf(p) \in Case => expl'[CaseOf(p)] # <<>>
    <3> DEFINE c == CaseOf(p)
                r == [expl[c] EXCEPT ![1] = out[p]]
    <3>1. expl' = [expl EXCEPT ![c] = r]
      BY <1>37 DEF UpdateExplanation
    <3>2. c \in Case => r # <<>>
      BY <1>37, UpdateType DEF UpdateExplanation
    <3> HIDE DEF r
    <3> QED
      BY <3>1, <3>2
  <2> QED
    BY <1>37, <2>1, SavedStep DEF UpdateExplanation
<1>38. ASSUME NEW p \in Proc, LogExplanation(p) PROVE CoreInv'
  BY <1>38, SMTT(30) DEF LogExplanation
<1>39. ASSUME NEW p \in Proc, SetDegraded(p) PROVE CoreInv'
  <2>1. CASE p = Worker
    <3>1. HoldingInv' /\ IntakeInv' /\ QueueInv'
      BY <1>39, <2>1, SMTT(30) DEF SetDegraded
    <3>2. StageInv' /\ ExplainInv' /\ SettledInv'
      BY <1>39, <2>1, SMTT(30) DEF SetDegraded
    <3>3. DoneIsComplete' /\ AnnouncedIsPersisted' /\ ProcessingHasOwner'
      BY <1>39, <2>1, SMTT(30) DEF SetDegraded
    <3> QED
      BY <3>1, <3>2, <3>3
  <2>2. CASE p \in Case
    <3>1. /\ Goto(p, "idle") /\ Emit(p, {"explanation_done"})
          /\ UNCHANGED <<status, risk, transcript, expl, audit, up, queue, intake, wcase>>
      BY <1>39, <2>2 DEF SetDegraded
    <3>2. expl[p] # <<>>
      BY <1>39, <2>2 DEF SetDegraded
    <3> HIDE DEF IInv, CoreInv, Goto, Emit
    <3> QED
      BY <2>2, <3>1, <3>2, TaskEnds
  <2> QED
    BY <2>1, <2>2
<1>40. ASSUME NEW p \in Proc, DbFails(p) PROVE CoreInv'
  <2>1. CASE p = Worker
    <3>1. HoldingInv' /\ IntakeInv' /\ QueueInv'
      BY <1>40, <2>1, SMTT(30) DEF DbFails, DbCalls
    <3>2. StageInv' /\ ExplainInv' /\ SettledInv'
      BY <1>40, <2>1, SMTT(30) DEF DbFails, DbCalls
    <3>3. DoneIsComplete' /\ AnnouncedIsPersisted' /\ ProcessingHasOwner'
      BY <1>40, <2>1, SMTT(30) DEF DbFails, DbCalls
    <3> QED
      BY <3>1, <3>2, <3>3
  <2>2. CASE p \in Case
    <3>1. /\ Goto(p, "idle") /\ Emit(p, {"model_failed"})
          /\ UNCHANGED <<status, risk, transcript, expl, audit, up, queue, intake, wcase>>
      BY <1>40, <2>2 DEF DbFails
    <3> QED
      BY <2>2, <3>1, TaskEnds
  <2> QED
    BY <2>1, <2>2
<1>41. ASSUME Crash PROVE CoreInv'
  BY <1>41, SMTT(30) DEF Crash, Reset
<1>42. ASSUME Restart PROVE CoreInv'
  BY <1>42, SMTT(30) DEF Restart, Recovered
<1>43. CASE UNCHANGED vars
  BY <1>43 DEF vars
<1> HIDE DEF CoreInv
<1> QED
  BY <1>1, <1>2, <1>3, <1>4, <1>5, <1>6, <1>7, <1>8, <1>9, <1>10, <1>11, <1>12,
     <1>13, <1>14, <1>15, <1>16, <1>17, <1>18, <1>19, <1>20, <1>21, <1>22, <1>23, <1>24,
     <1>25, <1>26, <1>27, <1>28, <1>29, <1>30, <1>31, <1>32, <1>33, <1>34, <1>35, <1>36,
     <1>37, <1>38, <1>39, <1>40, <1>41, <1>42, <1>43, <1>44, <1>45, <1>46
  DEF Next, IntakeStep, SttTaskStep, ExplanationStep, ExplainStep, WorkerStep

-----------------------------------------------------------------------------
(***************************************************************************)
(* Initially, and the theorems.                                            *)
(***************************************************************************)

LEMMA CoreInit == Init => CoreInv
  BY PipelineAssumption
  DEF Init, QueueInit, CoreInv, HoldingInv, IntakeInv, QueueInv, StageInv, ExplainInv,
      SettledInv, DoneIsComplete, AnnouncedIsPersisted, ProcessingHasOwner, Fresh, Proc, At,
      BeforeRisk, AfterTranscript, AfterExplanation, AfterScore, AfterTier1, AfterRisk

\* Every state that the pipeline reaches satisfies the inductive invariant.
THEOREM Invariance == Spec => []IInv
<1>1. Init => IInv
  BY TypeInit, CoreInit DEF IInv
<1>2. IInv /\ [Next]_vars => IInv'
  BY TypeStep, CoreStep DEF IInv, CoreInv
<1> QED
  BY <1>1, <1>2, PTL DEF Spec

\* The variables keep their types.
THEOREM TypeCorrect == Spec => []TypeOK
<1>1. IInv => TypeOK
  BY DEF IInv
<1> QED
  BY <1>1, Invariance, PTL

\* A case that is DONE has everything the operator decides on.
THEOREM CompleteWhenDone == Spec => []DoneIsComplete
<1>1. IInv => DoneIsComplete
  BY DEF IInv, CoreInv
<1> QED
  BY <1>1, Invariance, PTL

\* Nothing is announced before it is stored, whatever fails in between.
THEOREM PersistBeforeAnnounce == Spec => []AnnouncedIsPersisted
<1>1. IInv => AnnouncedIsPersisted
  BY DEF IInv, CoreInv
<1> QED
  BY <1>1, Invariance, PTL

\* No case is PROCESSING without somebody to end it, unless that was announced.
THEOREM OwnedWhenProcessing == Spec => []ProcessingHasOwner
<1>1. IInv => ProcessingHasOwner
  BY DEF IInv, CoreInv
<1> QED
  BY <1>1, Invariance, PTL

\* A case is queued once and untouched while it waits.
THEOREM UntouchedWhenQueued == Spec => []QueuedOnce
<1>1. IInv => QueuedOnce
  <2> SUFFICES ASSUME IInv PROVE QueuedOnce
    OBVIOUS
  <2> USE DEF IInv, CoreInv
  <2>1. \A i \in 1 .. Len(queue) : queue[i] \in Case
    BY DEF TypeOK
  <2>2. \A i \in 1 .. Len(queue) : "CASE_CREATED" \in audit[queue[i]]
    BY <2>1 DEF IntakeInv
  <2> QED
    BY <2>2 DEF QueueInv, QueuedOnce, Fresh
<1> QED
  BY <1>1, Invariance, PTL

\* The language model comes after the score, in the worker and on demand.
THEOREM ScoreComesFirst == Spec => []ExplanationFollowsRisk
<1>1. IInv => ExplanationFollowsRisk
  BY PipelineAssumption
  DEF IInv, CoreInv, StageInv, ExplainInv, ExplanationFollowsRisk, CaseOf, Proc, AfterRisk,
      AfterScore, AfterTier1, AfterTranscript
<1> QED
  BY <1>1, Invariance, PTL

-----------------------------------------------------------------------------
(***************************************************************************)
(* What has been announced of a case.                                      *)
(***************************************************************************)

\* A case is announced when it is put, and its score once: before the worker
\* is past that call nobody has heard of it, after it everybody has.  What else
\* is announced of a case follows from IInv.
MilestoneInv ==
  /\ \A c \in Case :
       /\ intake[c] # "done" => sent[c] \cap Milestones = {}
       /\ intake[c] = "done" => "case_created" \in sent[c]
  /\ pc[Worker] \in {"logRisk", "tellRisk"} => "tier1_done" \notin sent[wcase]
  /\ pc[Worker] \in AfterTier1 => "tier1_done" \in sent[wcase]

\* A step that announces no milestone.
Silent == \A c \in Case : sent'[c] \cap Milestones = sent[c] \cap Milestones

LEMMA SilentAnnounced == Silent => Announced' = Announced
  BY DEF Silent, Announced

LEMMA SilentEmit ==
  ASSUME TypeOK, NEW c, NEW es, es \cap Milestones = {}, Emit(c, es)
  PROVE  Silent
  BY DEF TypeOK, Emit, Silent

LEMMA MilestoneTold ==
  ASSUME TypeOK, NEW c \in Case, NEW es, NEW m \in Milestones, es \cap Milestones = {m},
         Emit(c, es)
  PROVE  L!Tell(c, m)
<1>1. sent' = [sent EXCEPT ![c] = sent[c] \cup es] /\ DOMAIN sent = Case
  BY DEF TypeOK, Emit
<1>2. \A d \in Case : sent'[d] = IF d = c THEN sent[c] \cup es ELSE sent[d]
  BY <1>1
<1>3. Announced' = [d \in Case |-> IF d = c THEN Announced[c] \cup {m} ELSE Announced[d]]
  BY <1>2 DEF Announced
<1> QED
  BY <1>3 DEF L!Tell, Announced

\* No step of a submission, of a transcription task or of a synthesis announces
\* a milestone, but the put.
LEMMA CaseStepsAreSilent ==
  ASSUME TypeOK, NEW c \in Case,
         \/ CreateCase(c) \/ LogCreated(c) \/ IntakeFails(c) \/ SttPartial(c)
         \/ SttReturns(c) \/ SttTimeout(c) \/ LogSttFailed(c) \/ LogSttRaises(c)
         \/ SttThreadEnds(c) \/ RequestExplain(c) \/ ExplainLoad(c) \/ ExplainTooEarly(c)
  PROVE  Silent
<1>1. CASE sent' = sent
  BY <1>1 DEF Silent
<1>2. \A e \in {"stt_partial", "model_failed"} : Emit(c, {e}) => Silent
  BY SilentEmit DEF Milestones
<1> QED
  BY <1>1, <1>2
  DEF CreateCase, LogCreated, IntakeFails, SttPartial, SttReturns, SttTimeout, LogSttFailed,
      LogSttRaises, SttThreadEnds, RequestExplain, ExplainLoad, ExplainTooEarly

LEMMA ExplanationStepsAreSilent ==
  ASSUME TypeOK, NEW p \in Proc, ExplanationStep(p)
  PROVE  Silent
<1>1. CASE sent' = sent
  BY <1>1 DEF Silent
<1>2. \A c, es : es \subseteq {"explanation_done", "model_failed"} /\ Emit(c, es) => Silent
  BY SilentEmit DEF Milestones
<1>3. Saved(p) => sent' = sent \/ \E es \in SUBSET {"explanation_done"} : Emit(wcase, es)
  BY DEF Saved
<1> QED
  BY <1>1, <1>2, <1>3
  DEF ExplanationStep, Generate, GenerateFails, RestartDaemon, LogLlmFailed, SelectExplanation,
      InsertExplanation, UpdateExplanation, LogExplanation, SetDegraded, DbFails

LEMMA WorkerStepsAreSilent ==
  ASSUME TypeOK,
         \/ Dequeue \/ Begin \/ Load \/ Detect \/ DetectFails
         \/ LogDetectionFailed \/ SaveDetections \/ LogDetection \/ SaveRisk \/ LogRisk
         \/ SaveTranscript \/ SaveNoTranscript \/ TranscriptRaises \/ LogStt
         \/ FinishCase \/ FailCase \/ FailCaseUnsaved
  PROVE  Silent
<1>1. CASE sent' = sent
  BY <1>1 DEF Silent
<1>2. \A e \in {"stt_done", "model_failed"} : Emit(wcase, {e}) => Silent
  BY SilentEmit DEF Milestones
<1> QED
  BY <1>1, <1>2
  DEF Dequeue, Begin, Load, Detect, DetectFails, LogDetectionFailed, SaveDetections,
      LogDetection, SaveRisk, LogRisk, SaveTranscript, SaveNoTranscript, TranscriptRaises,
      LogStt, FinishCase, FailCase, FailCaseUnsaved

\* Whose case the worker has.
LEMMA HasCase ==
  ASSUME IInv
  PROVE  /\ pc[Worker] # "idle" => wcase \in Case /\ InHand = {wcase} /\ wcase # NoCase
         /\ pc[Worker] = "idle" => InHand = {}
  BY PipelineAssumption DEF IInv, TypeOK, CoreInv, HoldingInv, At, InHand

\* The worker's calls around tier1_done, which a silent step may reach only from
\* calls on the same side of it.
Side(calls) ==
  pc'[Worker] \in calls => pc[Worker] \in calls /\ wcase \in Case /\ wcase' = wcase

LEMMA MilestonesKept ==
  ASSUME TypeOK, MilestoneInv, Silent,
         \A c \in Case : intake'[c] = "done" <=> intake[c] = "done",
         Side({"logRisk", "tellRisk"}), Side(AfterTier1)
  PROVE  MilestoneInv'
<1>1. \A c \in Case, m \in Milestones : m \in sent'[c] <=> m \in sent[c]
  BY DEF Silent
<1>2. {"case_created", "tier1_done"} \subseteq Milestones
  BY DEF Milestones
<1> HIDE DEF AfterTier1
<1> QED
  BY <1>1, <1>2 DEF MilestoneInv, Silent, Side

LEMMA CaseStepsKeepMilestones ==
  ASSUME IInv, MilestoneInv, NEW c \in Case,
         \/ CreateCase(c) \/ LogCreated(c) \/ IntakeFails(c) \/ SttPartial(c)
         \/ SttReturns(c) \/ SttTimeout(c) \/ LogSttFailed(c) \/ LogSttRaises(c)
         \/ SttThreadEnds(c) \/ RequestExplain(c) \/ ExplainLoad(c) \/ ExplainTooEarly(c)
  PROVE  MilestoneInv'
<1> USE DEF CreateCase, LogCreated, IntakeFails, SttPartial, SttReturns, SttTimeout,
            LogSttFailed, LogSttRaises, SttThreadEnds, RequestExplain, ExplainLoad,
            ExplainTooEarly
<1>1. Silent /\ TypeOK
  BY CaseStepsAreSilent DEF IInv
<1>3. \A d \in Case : intake'[d] = "done" <=> intake[d] = "done"
  <2>1. \/ intake' = intake
        \/ /\ intake[c] # "done"
           /\ \E s \in {"opened", "putting", "aborted"} : intake' = [intake EXCEPT ![c] = s]
    BY DEF IInv, CoreInv, IntakeInv
  <2> QED
    BY <1>1, <2>1 DEF TypeOK
<1>4. pc'[Worker] = pc[Worker] /\ wcase' = wcase
  BY <1>1, PipelineAssumption DEF locals, Goto, TypeOK, Proc
<1>5. Side({"logRisk", "tellRisk"}) /\ Side(AfterTier1)
  BY <1>4, HasCase DEF Side, AfterTier1, AfterTranscript, AfterExplanation
<1> QED
  BY <1>1, <1>3, <1>5, MilestonesKept

LEMMA ExplanationStepsKeepMilestones ==
  ASSUME IInv, MilestoneInv, NEW p \in Proc, ExplanationStep(p)
  PROVE  MilestoneInv'
<1> USE DEF ExplanationStep, Generate, GenerateFails, RestartDaemon, LogLlmFailed,
            SelectExplanation, InsertExplanation, UpdateExplanation, LogExplanation,
            SetDegraded, DbFails
<1>1. Silent /\ TypeOK
  BY ExplanationStepsAreSilent DEF IInv
<1>3. intake' = intake /\ wcase' = wcase
  BY DEF locals
<1>4. Side({"logRisk", "tellRisk"}) /\ Side(AfterTier1)
  <2>1. PICK s \in Calls \ {"logRisk", "tellRisk"} :
          Goto(p, s) /\ (s \in AfterTier1 => pc[p] \in AfterTier1)
    BY DEF Saved, At, Calls, DbCalls, AfterTier1, AfterTranscript, AfterExplanation
  <2>2. pc'[Worker] = IF p = Worker THEN s ELSE pc[Worker]
    BY <1>1, <2>1 DEF Goto, TypeOK, Proc
  <2> QED
    BY <1>3, <2>1, <2>2, HasCase DEF Side, AfterTier1, AfterTranscript, AfterExplanation
<1> QED
  BY <1>1, <1>3, <1>4, MilestonesKept

LEMMA WorkerStepsKeepMilestones ==
  ASSUME IInv, MilestoneInv,
         \/ Dequeue \/ Begin \/ Load \/ Detect \/ DetectFails
         \/ LogDetectionFailed \/ SaveDetections \/ LogDetection \/ LogRisk
         \/ SaveTranscript \/ SaveNoTranscript \/ TranscriptRaises \/ LogStt
         \/ FinishCase \/ FailCase \/ FailCaseUnsaved
  PROVE  MilestoneInv'
<1> USE DEF Dequeue, Begin, Load, Detect, DetectFails, LogDetectionFailed, SaveDetections,
            LogDetection, LogRisk, SaveTranscript, SaveNoTranscript, TranscriptRaises, LogStt,
            FinishCase, FailCase, FailCaseUnsaved
<1>1. Silent /\ TypeOK
  BY WorkerStepsAreSilent DEF IInv
<1>2. intake' = intake
  OBVIOUS
<1>3. Side({"logRisk", "tellRisk"}) /\ Side(AfterTier1)
  <2>1. PICK s \in Calls :
          /\ Goto(Worker, s)
          /\ s \in {"logRisk", "tellRisk"} => At(Worker, "logRisk") /\ wcase' = wcase
          /\ s \in AfterTier1 => pc[Worker] \in AfterTier1 /\ wcase' = wcase
    BY DEF EnterTier2, At, locals, Calls, DbCalls, AfterTier1, AfterTranscript, AfterExplanation
  <2>2. pc'[Worker] = s
    BY <1>1, <2>1 DEF Goto, TypeOK, Proc
  <2> QED
    BY <2>1, <2>2, HasCase DEF Side, At, AfterTier1, AfterTranscript, AfterExplanation
<1> QED
  BY <1>1, <1>2, <1>3, MilestonesKept

\* A step that announces milestone m of c, and moves no submission past its put.
LEMMA MilestoneAnnounced ==
  ASSUME TypeOK, NEW c \in Case, NEW es, NEW m \in Milestones, es \cap Milestones = {m},
         Emit(c, es)
  PROVE  /\ \A k \in Milestones : k \in sent'[c] <=> k \in sent[c] \/ k = m
         /\ \A d \in Case \ {c} : sent'[d] = sent[d]
  BY DEF TypeOK, Emit

\* Every step keeps MilestoneInv.
LEMMA MilestoneStep ==
  IInv /\ MilestoneInv /\ [Next]_vars => MilestoneInv'
<1> SUFFICES ASSUME IInv, MilestoneInv, [Next]_vars
             PROVE  MilestoneInv'
  OBVIOUS
<1> USE DEF At
<1>1. ASSUME NEW c \in Case, Enqueue(c) PROVE MilestoneInv'
  <2>1. /\ intake' = [intake EXCEPT ![c] = "done"] /\ pc' = pc /\ wcase' = wcase
        /\ TypeOK /\ DOMAIN intake = Case
    BY <1>1 DEF Enqueue, locals, IInv, TypeOK
  <2>2. /\ \A k \in Milestones : k \in sent'[c] <=> k \in sent[c] \/ k = "case_created"
        /\ \A d \in Case \ {c} : sent'[d] = sent[d]
    BY <1>1, <2>1, MilestoneAnnounced DEF Enqueue, Milestones
  <2>3. {"case_created", "tier1_done"} \subseteq Milestones
    BY DEF Milestones
  <2>4. pc[Worker] \in {"logRisk", "tellRisk"} \cup AfterTier1 => wcase \in Case
    BY HasCase DEF AfterTier1, AfterTranscript, AfterExplanation
  <2> HIDE DEF AfterTier1
  <2> QED
    BY <2>1, <2>2, <2>3, <2>4 DEF MilestoneInv
<1>2. CASE SaveRisk
  <2>1. /\ wcase \in Case /\ risk[wcase] = "none" /\ TypeOK
        /\ intake' = intake /\ sent' = sent /\ wcase' = wcase /\ pc'[Worker] = "logRisk"
    BY <1>2, HasCase DEF SaveRisk, Goto, locals, Proc, TypeOK, IInv, CoreInv, StageInv,
                         BeforeRisk, Fresh
  <2>2. "tier1_done" \notin sent[wcase]
    BY <2>1 DEF IInv, CoreInv, AnnouncedIsPersisted
  <2> QED
    BY <2>1, <2>2 DEF MilestoneInv, AfterTier1, AfterTranscript, AfterExplanation
<1>3. CASE TellRisk
  <2>1. /\ wcase \in Case /\ TypeOK /\ intake' = intake /\ intake[wcase] = "done"
        /\ pc'[Worker] = "saveTranscript" /\ wcase' = wcase
    BY <1>3, HasCase DEF TellRisk, Goto, locals, IInv, CoreInv, IntakeInv, TypeOK, Proc
  <2>2. /\ \A k \in Milestones : k \in sent'[wcase] <=> k \in sent[wcase] \/ k = "tier1_done"
        /\ \A d \in Case \ {wcase} : sent'[d] = sent[d]
    <3> DEFINE es == {"tier1_done"} \cup IF risk[wcase] = "HIGH" THEN {"alert"} ELSE {}
    <3>1. es \cap Milestones = {"tier1_done"} /\ "tier1_done" \in Milestones
      BY DEF Milestones
    <3>2. Emit(wcase, es)
      BY <1>3 DEF TellRisk
    <3> HIDE DEF es
    <3> QED
      BY <2>1, <3>1, <3>2, MilestoneAnnounced
  <2>3. {"case_created", "tier1_done"} \subseteq Milestones
    BY DEF Milestones
  <2> QED
    BY <2>1, <2>2, <2>3 DEF MilestoneInv
<1>4. CASE TellDone \/ TellFailed
  <2>1. PICK m \in {"case_done", "case_failed"} : EndCase(m)
    BY <1>4 DEF TellDone, TellFailed
  <2>2. /\ wcase \in Case /\ TypeOK /\ intake' = intake /\ intake[wcase] = "done"
        /\ pc'[Worker] = "idle"
    BY <1>4, <2>1, HasCase DEF TellDone, TellFailed, EndCase, Goto, IInv, CoreInv,
                               IntakeInv, TypeOK, Proc
  <2>3. /\ \A k \in Milestones : k \in sent'[wcase] <=> k \in sent[wcase] \/ k = m
        /\ \A d \in Case \ {wcase} : sent'[d] = sent[d]
    BY <2>1, <2>2, MilestoneAnnounced DEF EndCase, Milestones
  <2>4. {"case_created", "tier1_done"} \subseteq Milestones
    BY DEF Milestones
  <2> QED
    BY <2>2, <2>3, <2>4 DEF MilestoneInv, AfterTier1, AfterTranscript, AfterExplanation
<1>5. CASE Crash
  <2>1. \A c \in Case : intake'[c] = "done" <=> intake[c] = "done"
    BY <1>5 DEF Crash
  <2>2. sent' = sent /\ pc'[Worker] = "idle"
    BY <1>5 DEF Crash, Proc
  <2>3. Side({"logRisk", "tellRisk"}) /\ Side(AfterTier1)
    BY <2>2 DEF Side, AfterTier1, AfterTranscript, AfterExplanation
  <2> QED
    BY <2>1, <2>2, <2>3, MilestonesKept DEF IInv, Silent
<1>6. CASE Restart \/ UNCHANGED vars
  BY <1>6 DEF Restart, vars, locals, MilestoneInv
<1>7. ASSUME NEW p \in Proc, ExplanationStep(p) PROVE MilestoneInv'
  BY <1>7, ExplanationStepsKeepMilestones
<1>8. CASE WorkerStep
  <2>1. Worker \in Proc
    BY DEF Proc
  <2> QED
    BY <1>2, <1>3, <1>4, <1>7, <1>8, <2>1, WorkerStepsKeepMilestones DEF WorkerStep
<1>9. ASSUME NEW c \in Case, IntakeStep(c) \/ SttTaskStep(c) \/ ExplainStep(c)
      PROVE  MilestoneInv'
  <2>1. c \in Proc
    BY DEF Proc
  <2> QED
    BY <1>1, <1>7, <1>9, <2>1, CaseStepsKeepMilestones
       DEF IntakeStep, SttTaskStep, ExplainStep, IInv
<1>10. ASSUME NEW c \in Case,
              CreateCase(c) \/ SttPartial(c) \/ SttThreadEnds(c) \/ RequestExplain(c)
       PROVE  MilestoneInv'
  BY <1>10, CaseStepsKeepMilestones DEF IInv
<1> QED
  BY <1>5, <1>6, <1>8, <1>9, <1>10 DEF Next

LEMMA MilestoneInit == Init => MilestoneInv
  BY PipelineAssumption
  DEF Init, MilestoneInv, Milestones, Proc, AfterTier1, AfterTranscript, AfterExplanation

-----------------------------------------------------------------------------
(***************************************************************************)
(* What each step does to the variables of CaseLifecycle.                  *)
(***************************************************************************)

RowsStay == UNCHANGED <<status, risk, degraded>>

Untouched == RowsStay /\ UNCHANGED <<InHand, Announced>>

LEMMA CaseStepsThatStutter ==
  ASSUME TypeOK, NEW c \in Case,
         \/ LogCreated(c) \/ IntakeFails(c) \/ SttPartial(c)
         \/ SttReturns(c) \/ SttTimeout(c) \/ LogSttFailed(c) \/ LogSttRaises(c)
         \/ SttThreadEnds(c) \/ RequestExplain(c) \/ ExplainLoad(c) \/ ExplainTooEarly(c)
  PROVE  Untouched
<1>1. Announced' = Announced
  BY CaseStepsAreSilent, SilentAnnounced
<1>2. RowsStay /\ wcase' = wcase
  BY DEF RowsStay, rows, locals, LogCreated, IntakeFails, SttPartial, SttReturns, SttTimeout,
         LogSttFailed, LogSttRaises, SttThreadEnds, RequestExplain, ExplainLoad,
         ExplainTooEarly
<1> QED
  BY <1>1, <1>2 DEF Untouched, InHand

LEMMA WorkerStepsThatStutter ==
  ASSUME TypeOK,
         \/ Load \/ Detect \/ DetectFails
         \/ LogDetectionFailed \/ SaveDetections \/ LogDetection \/ LogRisk
         \/ SaveTranscript \/ SaveNoTranscript \/ TranscriptRaises \/ LogStt
         \/ FailCaseUnsaved
  PROVE  Untouched
<1>1. Announced' = Announced
  BY WorkerStepsAreSilent, SilentAnnounced
<1>2. RowsStay /\ wcase' = wcase
  BY DEF RowsStay, rows, locals, Load, Detect, DetectFails, LogDetectionFailed, SaveDetections,
         LogDetection, LogRisk, SaveTranscript, SaveNoTranscript, TranscriptRaises, LogStt,
         FailCaseUnsaved
<1> QED
  BY <1>1, <1>2 DEF Untouched, InHand

LEMMA ExplanationStepsThatStutter ==
  ASSUME TypeOK, NEW p \in Proc, ExplanationStep(p), ~SetDegraded(p)
  PROVE  Untouched
<1>1. Announced' = Announced
  BY ExplanationStepsAreSilent, SilentAnnounced
<1>2. RowsStay /\ wcase' = wcase
  BY DEF RowsStay, rows, locals, ExplanationStep, Generate, GenerateFails, RestartDaemon,
         LogLlmFailed, SelectExplanation, InsertExplanation, UpdateExplanation,
         LogExplanation, DbFails
<1> QED
  BY <1>1, <1>2 DEF Untouched, InHand

\* What is announced of a case that waits or that the worker has.
LEMMA AnnouncedOfQueued ==
  ASSUME IInv, MilestoneInv, NEW i \in 1 .. Len(queue)
  PROVE  queue[i] \in Case /\ Announced[queue[i]] = {"case_created"}
<1> DEFINE c == queue[i]
<1>1. c \in Case /\ intake[c] = "done" /\ risk[c] = "none"
  BY DEF IInv, TypeOK, CoreInv, IntakeInv, QueueInv, Fresh
<1>2. "case_created" \in sent[c] /\ "tier1_done" \notin sent[c]
  BY <1>1 DEF MilestoneInv, IInv, CoreInv, AnnouncedIsPersisted
<1>3. "case_done" \notin sent[c] /\ "case_failed" \notin sent[c]
  BY <1>1 DEF IInv, CoreInv, SettledInv
<1> QED
  BY <1>1, <1>2, <1>3 DEF Announced, Milestones

LEMMA OpenedIsOpen ==
  ASSUME IInv, NEW c \in Case, CreateCase(c)
  PROVE  L!Open(c)
<1>1. Announced' = Announced
  BY CaseStepsAreSilent, SilentAnnounced DEF IInv
<1> QED
  BY <1>1 DEF CreateCase, locals, L!Open, InHand

LEMMA EnqueueRegisters ==
  ASSUME IInv, MilestoneInv, NEW c \in Case, Enqueue(c)
  PROVE  L!Register(c)
<1>1. status[c] = "PENDING" /\ Announced[c] = {}
  BY DEF Enqueue, MilestoneInv, Announced, IInv, CoreInv, IntakeInv
<1>2. L!Tell(c, "case_created")
  BY MilestoneTold DEF Enqueue, IInv, Milestones
<1> QED
  BY <1>1, <1>2 DEF Enqueue, rows, locals, L!Register, InHand

LEMMA DequeueHolds ==
  ASSUME IInv, MilestoneInv, Dequeue
  PROVE  wcase' \in Case /\ L!Hold(wcase')
<1>1. 1 \in 1 .. Len(queue) /\ wcase' = queue[1]
  BY DEF Dequeue, Get, IInv, TypeOK
<1>2. wcase' \in Case /\ Announced[wcase'] = {"case_created"} /\ status[wcase'] = "PENDING"
  BY <1>1, AnnouncedOfQueued DEF IInv, CoreInv, QueueInv
<1>3. InHand = {} /\ InHand' = {wcase'}
  BY <1>2, HasCase, PipelineAssumption DEF Dequeue, At, InHand
<1>4. Announced' = Announced
  BY WorkerStepsAreSilent, SilentAnnounced DEF IInv
<1> QED
  BY <1>2, <1>3, <1>4 DEF Dequeue, rows, L!Hold

LEMMA BeginStarts ==
  ASSUME IInv, Begin
  PROVE  wcase \in Case /\ L!Start(wcase)
<1>1. Announced' = Announced
  BY WorkerStepsAreSilent, SilentAnnounced DEF IInv
<1> QED
  BY <1>1, HasCase DEF Begin, At, locals, L!Start, IInv, CoreInv, StageInv, InHand

LEMMA SaveRiskAssesses ==
  ASSUME IInv, SaveRisk
  PROVE  wcase \in Case /\ \E level \in {"LOW", "HIGH"} : L!Assess(wcase, level)
<1>1. Announced' = Announced
  BY WorkerStepsAreSilent, SilentAnnounced DEF IInv
<1>2. /\ wcase \in Case /\ wcase \in InHand /\ InHand' = InHand
      /\ status[wcase] = "PROCESSING" /\ risk[wcase] = "none"
  BY HasCase DEF SaveRisk, At, locals, IInv, CoreInv, StageInv, BeforeRisk, Fresh, InHand
<1> QED
  BY <1>1, <1>2 DEF SaveRisk, Levels, L!Assess

LEMMA TellRiskTells ==
  ASSUME IInv, MilestoneInv, TellRisk
  PROVE  wcase \in Case /\ L!TellRisk(wcase)
<1>1. /\ wcase \in Case /\ wcase \in InHand /\ InHand' = InHand
      /\ status[wcase] = "PROCESSING" /\ risk[wcase] # "none" /\ "tier1_done" \notin sent[wcase]
  BY HasCase DEF TellRisk, At, locals, IInv, CoreInv, StageInv, AfterRisk, AfterScore, AfterTier1,
                 MilestoneInv, InHand
<1>2. L!Tell(wcase, "tier1_done")
  <2> DEFINE es == {"tier1_done"} \cup IF risk[wcase] = "HIGH" THEN {"alert"} ELSE {}
  <2>1. es \cap Milestones = {"tier1_done"} /\ "tier1_done" \in Milestones
    BY DEF Milestones
  <2>2. Emit(wcase, es)
    BY DEF TellRisk
  <2> HIDE DEF es
  <2> QED
    BY <1>1, <2>1, <2>2, MilestoneTold DEF IInv
<1> QED
  BY <1>1, <1>2 DEF TellRisk, rows, Announced, L!TellRisk

LEMMA FinishCompletes ==
  ASSUME IInv, MilestoneInv, FinishCase
  PROVE  wcase \in Case /\ L!Complete(wcase)
<1>1. /\ wcase \in Case /\ wcase \in InHand /\ InHand' = InHand
      /\ status[wcase] = "PROCESSING" /\ risk[wcase] # "none"
  BY HasCase DEF FinishCase, At, locals, IInv, CoreInv, StageInv,
                 AfterRisk, AfterScore, AfterTier1, AfterExplanation, InHand
<1>2. "tier1_done" \in Announced[wcase]
  BY <1>1 DEF FinishCase, At, AfterTier1, AfterExplanation, MilestoneInv, Announced, Milestones
<1>3. Announced' = Announced
  BY WorkerStepsAreSilent, SilentAnnounced DEF IInv
<1> QED
  BY <1>1, <1>2, <1>3 DEF FinishCase, L!Complete

LEMMA FailCaseFails ==
  ASSUME IInv, FailCase
  PROVE  wcase \in Case /\ L!Fail(wcase)
<1>1. /\ wcase \in Case /\ wcase \in InHand /\ InHand' = InHand
      /\ status[wcase] \in {"PENDING", "PROCESSING"}
  BY HasCase DEF FailCase, At, locals, IInv, CoreInv, StageInv, InHand
<1>2. Announced' = Announced
  BY WorkerStepsAreSilent, SilentAnnounced DEF IInv
<1> QED
  BY <1>1, <1>2 DEF FailCase, L!Fail

LEMMA EndsAreTold ==
  ASSUME IInv, TellDone \/ TellFailed
  PROVE  wcase \in Case /\ (L!TellDone(wcase) \/ L!TellFailed(wcase))
<1>1. wcase \in Case /\ wcase \in InHand /\ InHand' = {}
  BY HasCase DEF TellDone, TellFailed, EndCase, At, InHand
<1>2. CASE TellDone
  <2>1. status[wcase] = "DONE"
    BY <1>2 DEF TellDone, At, IInv, CoreInv, StageInv
  <2>2. L!Tell(wcase, "case_done")
    BY <1>1, <1>2, MilestoneTold DEF TellDone, EndCase, IInv, Milestones
  <2> QED
    BY <1>1, <1>2, <2>1, <2>2 DEF TellDone, EndCase, rows, L!TellDone
<1>3. CASE TellFailed
  <2>1. status[wcase] # "DONE"
    BY <1>3 DEF TellFailed, At, IInv, CoreInv, StageInv
  <2>2. L!Tell(wcase, "case_failed")
    BY <1>1, <1>3, MilestoneTold DEF TellFailed, EndCase, IInv, Milestones
  <2> QED
    BY <1>1, <1>3, <2>1, <2>2 DEF TellFailed, EndCase, rows, L!TellFailed
<1> QED
  BY <1>2, <1>3

LEMMA DegradationDegrades ==
  ASSUME IInv, NEW p \in Proc, SetDegraded(p)
  PROVE  CaseOf(p) \in Case /\ L!Degrade(CaseOf(p))
<1>1. CaseOf(p) \in Case /\ risk[CaseOf(p)] # "none"
  BY HasCase, PipelineAssumption
  DEF SetDegraded, At, CaseOf, Proc, IInv, CoreInv, StageInv, ExplainInv,
      AfterRisk, AfterScore, AfterTier1, AfterExplanation
<1>2. Announced' = Announced
  BY ExplanationStepsAreSilent, SilentAnnounced DEF ExplanationStep, IInv
<1> QED
  BY <1>1, <1>2 DEF SetDegraded, locals, L!Degrade, InHand

LEMMA CrashStops ==
  ASSUME Crash
  PROVE  L!Stop
  BY DEF Crash, rows, L!Stop, InHand, Announced

LEMMA RestartRecovers ==
  ASSUME IInv, Restart
  PROVE  L!Recover
<1>1. InHand = {} /\ InHand' = InHand
  BY HasCase DEF Restart, locals, IInv, CoreInv, HoldingInv, Proc, At, InHand
<1> QED
  BY <1>1 DEF Restart, Recovered, L!Recover, Announced

\* A step of the lifecycle that stores no risk.
OtherStep ==
  \/ \E c \in Case :
       \/ L!Open(c) \/ L!Register(c) \/ L!Hold(c) \/ L!Start(c) \/ L!TellRisk(c)
       \/ L!Degrade(c) \/ L!Complete(c) \/ L!TellDone(c) \/ L!Fail(c) \/ L!TellFailed(c)
  \/ L!Stop \/ L!Recover

LEMMA StepsByEffect ==
  ASSUME IInv, MilestoneInv, Next
  PROVE  SaveRisk \/ Untouched \/ OtherStep
<1> USE DEF OtherStep
<1>1. ASSUME NEW c \in Case, CreateCase(c) PROVE OtherStep
  BY <1>1, OpenedIsOpen
<1>2. ASSUME NEW c \in Case, Enqueue(c) PROVE OtherStep
  BY <1>2, EnqueueRegisters
<1>3. ASSUME NEW p \in Proc, ExplanationStep(p) PROVE Untouched \/ OtherStep
  BY <1>3, DegradationDegrades, ExplanationStepsThatStutter DEF IInv
<1>4. ASSUME WorkerStep PROVE SaveRisk \/ Untouched \/ OtherStep
  <2>1. Worker \in Proc
    BY DEF Proc
  <2>2. CASE ExplanationStep(Worker)
    BY <1>3, <2>1, <2>2
  <2>3. CASE Dequeue \/ Begin \/ TellRisk \/ FinishCase \/ TellDone \/ FailCase \/ TellFailed
    BY <2>3, DequeueHolds, BeginStarts, TellRiskTells, FinishCompletes, FailCaseFails,
       EndsAreTold
  <2> QED
    BY <1>4, <2>2, <2>3, WorkerStepsThatStutter DEF WorkerStep, IInv
<1>5. ASSUME NEW c \in Case, IntakeStep(c) \/ SttTaskStep(c) \/ ExplainStep(c)
      PROVE  Untouched \/ OtherStep
  <2>1. c \in Proc
    BY DEF Proc
  <2> QED
    BY <1>2, <1>3, <1>5, <2>1, CaseStepsThatStutter
       DEF IntakeStep, SttTaskStep, ExplainStep, IInv
<1>6. ASSUME NEW c \in Case, SttPartial(c) \/ SttThreadEnds(c) \/ RequestExplain(c)
      PROVE  Untouched
  BY <1>6, CaseStepsThatStutter DEF IInv
<1>7. Crash \/ Restart => OtherStep
  BY CrashStops, RestartRecovers
<1> HIDE DEF OtherStep
<1> QED
  BY <1>1, <1>4, <1>5, <1>6, <1>7 DEF Next

\* What the pass of a case has announced tells how far it is, over any failure
\* and crash: an audited risk, a DONE or a FAILED may still be unannounced.
THEOREM MilestonesInvariance == Spec => [](IInv /\ MilestoneInv)
<1>1. Init => MilestoneInv
  BY MilestoneInit
<1>2. IInv /\ MilestoneInv /\ [Next]_vars => MilestoneInv'
  BY MilestoneStep
<1> QED
  BY <1>1, <1>2, Invariance, PTL DEF Spec

\* A risk that is stored stays as it is: the worker stores one for a case that
\* has none, and nobody else does.
THEOREM RiskNeverChanges == Spec => RiskIsFinal
<1>1. IInv /\ MilestoneInv /\ [Next]_vars
        => [\A c \in Case : risk[c] # "none" => risk'[c] = risk[c]]_vars
  <2> SUFFICES ASSUME IInv, MilestoneInv, Next, NEW c \in Case, risk[c] # "none"
               PROVE  risk'[c] = risk[c]
    OBVIOUS
  <2>1. CASE SaveRisk
    <3>1. wcase # c
      BY <2>1 DEF SaveRisk, At, IInv, CoreInv, StageInv, BeforeRisk, Fresh
    <3> QED
      BY <2>1, <3>1 DEF SaveRisk, IInv, TypeOK
  <2>2. CASE ~SaveRisk
    <3>1. OtherStep => risk' = risk
      BY DEF OtherStep, L!Open, L!Register, L!Hold, L!Start, L!TellRisk, L!Degrade,
             L!Complete, L!TellDone, L!Fail, L!TellFailed, L!Stop, L!Recover
    <3> QED
      BY <2>2, <3>1, StepsByEffect DEF Untouched, RowsStay
  <2> QED
    BY <2>1, <2>2
<1> QED
  BY <1>1, MilestonesInvariance, PTL DEF Spec, RiskIsFinal

\* The pipeline, with its queue, tasks, models, errors and crashes, shows its
\* readers and listeners nothing but the lifecycle: each of its steps is one of
\* CaseLifecycle or leaves the rows, the case in hand and the milestones alone.
THEOREM Refinement == Spec => Lifecycle
<1>1. Init => L!LifecycleInit
  BY DEF Init, L!LifecycleInit, InHand, Announced
<1>2. IInv /\ MilestoneInv /\ [Next]_vars => [L!LifecycleNext]_(L!lifecycleVars)
  <2> SUFFICES ASSUME IInv, MilestoneInv, [Next]_vars
               PROVE  L!LifecycleNext \/ UNCHANGED L!lifecycleVars
    OBVIOUS
  <2>1. CASE SaveRisk
    BY <2>1, SaveRiskAssesses DEF L!LifecycleNext
  <2>2. CASE Next /\ ~SaveRisk
    <3>1. OtherStep => L!LifecycleNext
      BY DEF OtherStep, L!LifecycleNext
    <3>2. Untouched => UNCHANGED L!lifecycleVars
      BY DEF Untouched, RowsStay, L!lifecycleVars
    <3> QED
      BY <2>2, <3>1, <3>2, StepsByEffect
  <2>3. CASE UNCHANGED vars
    BY <2>3 DEF vars, rows, locals, L!lifecycleVars, InHand, Announced
  <2> QED
    BY <2>1, <2>2, <2>3
<1> QED
  BY <1>1, <1>2, MilestonesInvariance, PTL DEF Spec, Lifecycle, L!LifecycleSpec

\* The queue inside the pipeline is the queue of CaseQueue: it is put to by
\* submissions, got from by the worker and reset by the end of the process.
THEOREM QueueRefinement == Spec => QueueSpec
<1>1. Init => QueueInit
  BY DEF Init
<1>2. [Next]_vars => [QueueNext]_queueVars
  <2> SUFFICES ASSUME [Next]_vars PROVE QueueNext \/ UNCHANGED queueVars
    OBVIOUS
  <2> USE DEF queueVars
  <2>1. ASSUME NEW p \in Proc, ExplanationStep(p) PROVE UNCHANGED queueVars
    BY <2>1
    DEF ExplanationStep, Generate, GenerateFails, RestartDaemon, LogLlmFailed, SelectExplanation,
        InsertExplanation, UpdateExplanation, LogExplanation, SetDegraded, DbFails
  <2>2. ASSUME Dequeue PROVE QueueNext
    BY <2>2 DEF Dequeue, QueueNext
  <2>3. ASSUME WorkerStep PROVE QueueNext \/ UNCHANGED queueVars
    BY <2>1, <2>2, <2>3
    DEF WorkerStep, Begin, Load, Detect, DetectFails, LogDetectionFailed, SaveDetections,
        LogDetection, SaveRisk, LogRisk, TellRisk, SaveTranscript, SaveNoTranscript,
        TranscriptRaises, LogStt, FinishCase, TellDone, FailCase, FailCaseUnsaved, TellFailed,
        EndCase, Proc
  <2>4. ASSUME NEW c \in Case, IntakeStep(c) PROVE QueueNext \/ UNCHANGED queueVars
    BY <2>4 DEF IntakeStep, LogCreated, IntakeFails, Enqueue, QueueNext
  <2>5. ASSUME NEW c \in Case, SttPartial(c) \/ SttTaskStep(c) \/ SttThreadEnds(c)
        PROVE  UNCHANGED queueVars
    BY <2>5 DEF SttTaskStep, SttPartial, SttReturns, SttTimeout, LogSttFailed, LogSttRaises,
                SttThreadEnds
  <2>6. ASSUME NEW c \in Case, CreateCase(c) \/ RequestExplain(c) \/ ExplainStep(c)
        PROVE  UNCHANGED queueVars
    BY <2>1, <2>6 DEF CreateCase, RequestExplain, ExplainStep, ExplainLoad, ExplainTooEarly, Proc
  <2>7. CASE Crash
    BY <2>7 DEF Crash, QueueNext
  <2>8. CASE Restart
    BY <2>8 DEF Restart
  <2>9. CASE UNCHANGED vars
    BY <2>9 DEF vars
  <2> QED
    BY <2>3, <2>4, <2>5, <2>6, <2>7, <2>8, <2>9 DEF Next
<1> QED
  BY <1>1, <1>2, PTL DEF Spec, QueueSpec

\* So the flag tells on which side of the marks the pipeline's queue is.
THEOREM PipelineHysteresis == Spec => []Hysteresis
  BY QueueRefinement, HysteresisHolds, PTL

-----------------------------------------------------------------------------
\* The failures that leave a case without what its score or its transcript
\* should rest on, and all that a mark may stand for.
Gaps == {"MODEL_FAILED:detection", "MODEL_FAILED:stt"}
Failures == Gaps \cup {"MODEL_FAILED:llm"}

Ended == {"ok", "silent", "failed"}

\* No model has seen a case that the worker has not taken.
UnseenInv ==
  \A c \in Case :
    intake[c] # "done" \/ InLine(queue, c) => stt[c] = "none" /\ audit[c] \cap Gaps = {}

\* What the worker remembers of the failures of its case at each call.
PassInv ==
  /\ pc[Worker] \in {"begin", "load"} => stt[wcase] = "none"
  /\ pc[Worker] \notin {"idle", "failing", "tellDone", "tellFailed"} =>
       /\ "MODEL_FAILED:detection" \in audit[wcase] => deg[Worker]
       /\ "MODEL_FAILED:stt" \in audit[wcase] => stt[wcase] = "failed"
       /\ deg[Worker] => Failures \cap audit[wcase] # {}
  /\ pc[Worker] \in {"saveRisk"} \cup AfterRisk =>
       deg[Worker] \/ "DETECTION_DONE" \in audit[wcase]
  /\ pc[Worker] \in AfterTranscript \cup AfterExplanation =>
       stt[wcase] \in Ended /\ (stt[wcase] = "failed" => deg[Worker])
  /\ At(Worker, "degrade") => deg[Worker]
  /\ At(Worker, "finish") /\ deg[Worker] => degraded[wcase]

\* An explain task that has no text to save has logged why.
TaskInv ==
  \A c \in Case :
    /\ pc[c] \in {"save", "insert", "update"} => out[c] = "text" \/ Failures \cap audit[c] # {}
    /\ pc[c] = "degrade" => Failures \cap audit[c] # {}

\* The transcription of a case is over before the case is, and a failed one has
\* logged that it failed.
SttInv ==
  \A c \in Case : /\ status[c] = "DONE" => stt[c] \in {"none"} \cup Ended
                  /\ stt[c] = "failed" => "MODEL_FAILED:stt" \in audit[c]

MarkInv == UnseenInv /\ PassInv /\ TaskInv /\ SttInv /\ DegradationIsVisible

-----------------------------------------------------------------------------
(***************************************************************************)
(* What may change at all.                                                 *)
(***************************************************************************)

\* The audit log and the mark only grow.
LEMMA LogGrows ==
  ASSUME TypeOK, [Next]_vars, NEW c \in Case
  PROVE  audit[c] \subseteq audit'[c] /\ (degraded[c] => degraded'[c])
<1> USE DEF TypeOK, Log, CaseOf, rows
<1>1. ASSUME NEW a, NEW d, audit' = [audit EXCEPT ![d] = @ \cup {a}], degraded' = degraded
      PROVE  audit[c] \subseteq audit'[c] /\ (degraded[c] => degraded'[c])
  BY <1>1
<1>2. ASSUME NEW d, degraded' = [degraded EXCEPT ![d] = TRUE], audit' = audit
      PROVE  audit[c] \subseteq audit'[c] /\ (degraded[c] => degraded'[c])
  BY <1>2
<1>3. CASE UNCHANGED <<audit, degraded>>
  BY <1>3
<1>4. CASE \E d \in Case : LogCreated(d) \/ LogSttFailed(d)
  BY <1>4, <1>1 DEF LogCreated, LogSttFailed
<1>5. CASE LogDetectionFailed \/ LogDetection \/ LogRisk \/ LogStt
  BY <1>5, <1>1 DEF LogDetectionFailed, LogDetection, LogRisk, LogStt
<1>6. CASE \E p \in Proc : LogLlmFailed(p) \/ LogExplanation(p)
  BY <1>6, <1>1 DEF LogLlmFailed, LogExplanation
<1>7. CASE \E p \in Proc : SetDegraded(p)
  BY <1>7, <1>2 DEF SetDegraded
<1>8. CASE \E d \in Case : \/ CreateCase(d) \/ IntakeFails(d) \/ Enqueue(d) \/ SttPartial(d)
                           \/ SttReturns(d) \/ SttTimeout(d) \/ LogSttRaises(d)
                           \/ SttThreadEnds(d) \/ RequestExplain(d) \/ ExplainLoad(d)
                           \/ ExplainTooEarly(d)
  BY <1>8, <1>3 DEF CreateCase, IntakeFails, Enqueue, SttPartial, SttReturns, SttTimeout,
                   LogSttRaises, SttThreadEnds, RequestExplain, ExplainLoad, ExplainTooEarly
<1>9. CASE \/ Dequeue \/ Begin \/ Load \/ Detect \/ DetectFails \/ SaveDetections \/ SaveRisk
           \/ SaveTranscript \/ SaveNoTranscript \/ TranscriptRaises
           \/ TellRisk \/ FinishCase \/ TellDone \/ FailCase
            \/ FailCaseUnsaved \/ TellFailed \/ Crash \/ Restart
  BY <1>9, <1>3 DEF Dequeue, Begin, Load, Detect, DetectFails, SaveDetections, SaveRisk,
                   SaveTranscript, SaveNoTranscript, TranscriptRaises,
                   FinishCase, FailCase, FailCaseUnsaved,
                   TellRisk, TellDone, TellFailed, EndCase, Crash, Restart
<1>10. CASE \E p \in Proc : \/ Generate(p) \/ GenerateFails(p) \/ RestartDaemon(p)
                            \/ SelectExplanation(p) \/ InsertExplanation(p)
                            \/ UpdateExplanation(p) \/ DbFails(p)
  BY <1>10, <1>3 DEF Generate, GenerateFails, RestartDaemon, SelectExplanation,
                    InsertExplanation, UpdateExplanation, DbFails
<1>11. CASE UNCHANGED vars
  BY <1>11, <1>3 DEF vars
<1> QED
  BY <1>4, <1>5, <1>6, <1>7, <1>8, <1>9, <1>10, <1>11
     DEF Next, IntakeStep, SttTaskStep, ExplainStep, WorkerStep, ExplanationStep, Proc

-----------------------------------------------------------------------------
(***************************************************************************)
(* A case that no model has seen.                                          *)
(***************************************************************************)

LEMMA UnseenKept ==
  ASSUME UnseenInv,
         \A c \in Case :
           (intake[c] # "done" \/ InLine(queue, c))' =>
             /\ intake[c] # "done" \/ InLine(queue, c)
             /\ stt'[c] = stt[c] \/ stt'[c] = "none"
             /\ audit'[c] \cap Gaps \subseteq audit[c]
  PROVE  UnseenInv'
  BY DEF UnseenInv

LEMMA UnseenStep == IInv /\ UnseenInv /\ [Next]_vars => UnseenInv'
<1> SUFFICES ASSUME IInv, UnseenInv, [Next]_vars
             PROVE  UnseenInv'
  OBVIOUS
<1>0. /\ TypeOK /\ IntakeInv /\ QueueInv /\ HoldingInv /\ PipelineAssumption
      /\ \A i \in 1 .. Len(queue) : queue[i] \in Case
  BY PipelineAssumption DEF IInv, CoreInv, TypeOK
<1>t. /\ audit \in [Case -> SUBSET Actions] /\ intake \in [Case -> {"none", "opened", "putting", "done", "aborted"}]
      /\ stt \in [Case -> {"none", "running", "failing", "ok", "silent", "failed", "raised"}]
      /\ queue \in Seq(Case)
  BY <1>0 DEF TypeOK
<1>q. ASSUME UNCHANGED <<intake, queue, stt, audit>> PROVE UnseenInv'
  BY <1>q, UnseenKept DEF InLine
<1>l. ASSUME UNCHANGED <<intake, queue, stt>>, NEW a, a \notin Gaps, NEW d,
             audit' = [audit EXCEPT ![d] = @ \cup {a}]
      PROVE  UnseenInv'
  <2>1. \A c \in Case : audit'[c] \cap Gaps \subseteq audit[c]
    BY <1>l, <1>t
  <2> QED
    BY <1>l, <2>1, UnseenKept DEF InLine
\* what happens to a case that a model has seen
<1>s. ASSUME UNCHANGED <<intake, queue>>, NEW d \in Case,
             intake[d] = "done", ~InLine(queue, d),
             \A c \in Case \ {d} : stt'[c] = stt[c] /\ audit'[c] = audit[c]
      PROVE  UnseenInv'
  BY <1>s, UnseenKept DEF InLine
<1>h. ASSUME ~At(Worker, "idle")
      PROVE  wcase \in Case /\ intake[wcase] = "done" /\ ~InLine(queue, wcase)
  BY <1>h, <1>0 DEF HoldingInv, IntakeInv, QueueInv, TypeOK, InLine
<1>1. ASSUME NEW c \in Case, CreateCase(c) \/ IntakeFails(c) PROVE UnseenInv'
  <2>1. UNCHANGED <<queue, stt, audit>> /\ \A d \in Case : intake'[d] # "done" => intake[d] # "done"
    BY <1>1, <1>0, <1>t DEF CreateCase, IntakeFails, IntakeInv, rows, sttVars
  <2> QED
    BY <2>1, UnseenKept DEF InLine
<1>2. ASSUME NEW c \in Case, LogCreated(c) PROVE UnseenInv'
  <2>1. /\ UNCHANGED <<queue, stt>> /\ \A d \in Case : intake'[d] # "done" => intake[d] # "done"
        /\ \A d \in Case : audit'[d] \cap Gaps \subseteq audit[d]
    BY <1>2, <1>t DEF LogCreated, Log, sttVars, Gaps
  <2> QED
    BY <2>1, UnseenKept DEF InLine
<1>3. ASSUME NEW c \in Case, Enqueue(c) PROVE UnseenInv'
  <2>1. /\ intake[c] # "done" /\ queue' = Append(queue, c) /\ UNCHANGED <<stt, audit>>
        /\ \A d \in Case : intake'[d] # "done" => intake[d] # "done"
    BY <1>3, <1>t DEF Enqueue, Put, rows, sttVars
  <2>2. Once(queue) /\ ~InLine(queue, c)
    BY <2>1, <1>0 DEF QueueInv, IntakeInv, Once, InLine
  <2>3. \A d : InLine(queue', d) <=> InLine(queue, d) \/ d = c
    BY <2>1, <2>2, <1>t, JoinLine
  <2> QED
    BY <2>1, <2>3, UnseenKept
<1>4. CASE Dequeue
  <2>1. queue # <<>> /\ queue' = Tail(queue) /\ UNCHANGED <<intake, stt, audit>>
    BY <1>4 DEF Dequeue, Get, rows, sttVars
  <2>2. \A d : InLine(queue', d) => InLine(queue, d)
    BY <2>1, <1>0, <1>t, LeaveLine DEF QueueInv, Once
  <2> QED
    BY <2>1, <2>2, UnseenKept
<1>5. CASE Load
  BY <1>5, <1>h, <1>s, <1>t DEF Load, At, rows
<1>6. CASE LogDetectionFailed
  BY <1>6, <1>h, <1>s, <1>t DEF LogDetectionFailed, Log, At, sttVars
<1>7. ASSUME NEW c \in Case, SttReturns(c) \/ SttTimeout(c) \/ LogSttFailed(c) \/ LogSttRaises(c)
      PROVE  UnseenInv'
  <2>1. stt[c] # "none"
    BY <1>7 DEF SttReturns, SttTimeout, LogSttFailed, LogSttRaises
  <2>2. intake[c] = "done" /\ ~InLine(queue, c)
    BY <2>1 DEF UnseenInv
  <2> QED
    BY <1>7, <2>2, <1>s, <1>t DEF SttReturns, SttTimeout, LogSttFailed, LogSttRaises, Log, rows
<1>8. CASE LogDetection \/ LogRisk \/ LogStt
  BY <1>8, <1>l DEF LogDetection, LogRisk, LogStt, Log, sttVars, Gaps
<1>9. CASE \E p \in Proc : LogLlmFailed(p) \/ LogExplanation(p)
  BY <1>9, <1>l DEF LogLlmFailed, LogExplanation, Log, sttVars, Gaps
<1>10. CASE Crash
  <2>1. /\ audit' = audit /\ \A c \in Case : stt'[c] = "none"
        /\ \A c \in Case : intake'[c] # "done" => intake[c] # "done"
        /\ queue' = <<>>
    BY <1>10, <1>t DEF Crash, Reset, rows
  <2>2. \A c \in Case : ~InLine(queue', c)
    BY <2>1 DEF InLine
  <2> QED
    BY <2>1, <2>2, UnseenKept
<1>11. CASE \E d \in Case : \/ SttPartial(d) \/ SttThreadEnds(d) \/ RequestExplain(d)
                            \/ ExplainLoad(d) \/ ExplainTooEarly(d)
  BY <1>11, <1>q DEF SttPartial, SttThreadEnds, RequestExplain, ExplainLoad, ExplainTooEarly,
                    rows, sttVars
<1>12. CASE \/ Begin \/ Detect \/ DetectFails \/ SaveDetections \/ SaveRisk
            \/ SaveTranscript \/ SaveNoTranscript \/ TranscriptRaises
            \/ TellRisk \/ FinishCase \/ TellDone \/ FailCase
            \/ FailCaseUnsaved \/ TellFailed \/ Restart
  BY <1>12, <1>q DEF Begin, Detect, DetectFails, SaveDetections, SaveRisk,
                    SaveTranscript, SaveNoTranscript, TranscriptRaises,
                    FinishCase, FailCase, FailCaseUnsaved,
                   TellRisk, TellDone, TellFailed, EndCase, Restart, rows, sttVars
<1>13. CASE \E p \in Proc : \/ Generate(p) \/ GenerateFails(p) \/ RestartDaemon(p)
                            \/ SelectExplanation(p) \/ InsertExplanation(p)
                            \/ UpdateExplanation(p) \/ SetDegraded(p) \/ DbFails(p)
  BY <1>13, <1>q DEF Generate, GenerateFails, RestartDaemon, SelectExplanation,
                    InsertExplanation, UpdateExplanation, SetDegraded, DbFails, rows, sttVars
<1>14. CASE UNCHANGED vars
  BY <1>14, <1>q DEF vars, rows, sttVars
<1> QED
  BY <1>1, <1>2, <1>3, <1>4, <1>5, <1>6, <1>7, <1>8, <1>9, <1>10, <1>11, <1>12, <1>13, <1>14
     DEF Next, IntakeStep, SttTaskStep, ExplainStep, WorkerStep, ExplanationStep, Proc

-----------------------------------------------------------------------------
(***************************************************************************)
(* The worker's pass.                                                      *)
(***************************************************************************)

\* Steps of others: they leave the worker's memory alone and add no gap.
LEMMA PassKept ==
  ASSUME PassInv, UNCHANGED wcase, pc'[Worker] = pc[Worker], deg'[Worker] = deg[Worker],
         ~At(Worker, "idle") =>
           /\ stt'[wcase] = stt[wcase] /\ audit[wcase] \subseteq audit'[wcase]
           /\ audit'[wcase] \cap Gaps \subseteq audit[wcase]
           /\ degraded[wcase] => degraded'[wcase]
  PROVE  PassInv'
<1> USE DEF PassInv, At, Gaps, Failures
<1>1. CASE pc[Worker] = "idle"
  BY <1>1 DEF AfterRisk, AfterScore, AfterTier1, AfterTranscript, AfterExplanation
<1>2. CASE pc[Worker] # "idle"
  <2>1. ASSUME NEW a \in Gaps PROVE a \in audit'[wcase] => a \in audit[wcase]
    BY <1>2, <2>1
  <2> QED
    BY <1>2, <2>1
<1> QED
  BY <1>1, <1>2

LEMMA PassStep == IInv /\ UnseenInv /\ SttInv /\ PassInv /\ [Next]_vars => PassInv'
<1> SUFFICES ASSUME IInv, UnseenInv, SttInv, PassInv, [Next]_vars
             PROVE  PassInv'
  OBVIOUS
<1>0. /\ TypeOK /\ IntakeInv /\ QueueInv /\ HoldingInv /\ StageInv /\ PipelineAssumption
      /\ Worker \in Proc /\ \A c \in Case : c \in Proc /\ c # Worker
  BY PipelineAssumption DEF IInv, CoreInv, Proc
<1>t. /\ audit \in [Case -> SUBSET Actions] /\ pc \in [Proc -> Calls] /\ deg \in [Proc -> BOOLEAN]
      /\ stt \in [Case -> {"none", "running", "failing", "ok", "silent", "failed", "raised"}]
      /\ queue \in Seq(Case) /\ degraded \in [Case -> BOOLEAN]
  BY <1>0 DEF TypeOK
<1>h. pc[Worker] # "idle" => wcase \in Case
  BY <1>0 DEF HoldingInv, TypeOK, At
<1>g. ASSUME NEW c \in Case PROVE audit[c] \subseteq audit'[c] /\ (degraded[c] => degraded'[c])
  BY <1>0, LogGrows
<1>q. ASSUME UNCHANGED <<stt, wcase>>, pc'[Worker] = pc[Worker], deg'[Worker] = deg[Worker],
             \A c \in Case : audit'[c] \cap Gaps \subseteq audit[c]
      PROVE  PassInv'
  BY <1>q, <1>g, <1>h, PassKept DEF At
<1> USE DEF AfterRisk, AfterScore, AfterTier1, AfterTranscript, AfterExplanation, Goto, At
<1>1. CASE Dequeue
  <2>1. /\ pc'[Worker] = "begin" /\ deg'[Worker] = FALSE /\ queue # <<>> /\ wcase' = Head(queue)
        /\ UNCHANGED <<stt, audit>>
    BY <1>0, <1>t, <1>1 DEF Dequeue, Get, rows, sttVars
  <2>2. InLine(queue, Head(queue)) /\ Head(queue) \in Case
    <3>1. 1 \in 1 .. Len(queue) /\ Head(queue) = queue[1]
      BY <2>1, <1>t
    <3> QED
      BY <3>1, <1>t DEF InLine
  <2>3. stt[Head(queue)] = "none" /\ audit[Head(queue)] \cap Gaps = {}
    BY <2>2 DEF UnseenInv
  <2> QED
    BY <2>1, <2>3 DEF PassInv, Gaps
<1>2. CASE Begin
  BY <1>2, <1>0, <1>t DEF Begin, PassInv, rows, locals, sttVars
<1>3. CASE Load
  <2>1. /\ pc'[Worker] = "detect" /\ UNCHANGED <<wcase, deg, audit>> /\ pc[Worker] = "load"
    BY <1>3, <1>0, <1>t DEF Load, rows, locals
  <2>2. stt[wcase] = "none" /\ "MODEL_FAILED:stt" \notin audit[wcase]
    BY <2>1 DEF PassInv
  <2> QED
    BY <2>1, <2>2 DEF PassInv
<1>4. CASE Detect \/ DetectFails \/ TranscriptRaises
  BY <1>4, <1>0, <1>t DEF Detect, DetectFails, TranscriptRaises, PassInv, rows, locals, sttVars
<1>5. CASE LogDetectionFailed
  <2>1. /\ pc'[Worker] = "saveDet" /\ deg'[Worker] = TRUE /\ UNCHANGED <<wcase, stt>>
        /\ audit'[wcase] = audit[wcase] \cup {"MODEL_FAILED:detection"}
        /\ pc[Worker] = "logDetFailed"
    BY <1>5, <1>0, <1>t, <1>h DEF LogDetectionFailed, Log, sttVars
  <2> QED
    BY <2>1 DEF PassInv, Failures, Gaps
<1>6. CASE SaveDetections
  BY <1>6, <1>0, <1>t DEF SaveDetections, PassInv, rows, locals, sttVars
<1>7. CASE LogDetection
  <2>1. /\ pc'[Worker] = "saveRisk" /\ UNCHANGED <<wcase, stt, deg>> /\ pc[Worker] = "logDet"
        /\ audit'[wcase] = audit[wcase] \cup {"DETECTION_DONE"}
    BY <1>7, <1>0, <1>t, <1>h DEF LogDetection, Log, locals, sttVars
  <2> QED
    BY <2>1 DEF PassInv, Failures, Gaps
<1>8. CASE SaveRisk
  BY <1>8, <1>0, <1>t DEF SaveRisk, PassInv, locals, sttVars
<1>9. CASE LogRisk
  <2>1. /\ pc'[Worker] = "tellRisk" /\ UNCHANGED <<wcase, stt, deg>> /\ pc[Worker] = "logRisk"
        /\ audit'[wcase] = audit[wcase] \cup {"RISK_COMPUTED"}
    BY <1>9, <1>0, <1>t, <1>h DEF LogRisk, Log, locals, sttVars
  <2> QED
    BY <2>1 DEF PassInv, Failures, Gaps
<1>26. CASE TellRisk
  BY <1>26, <1>0, <1>t DEF TellRisk, PassInv, rows, locals, sttVars
<1>10. CASE SaveTranscript
  BY <1>10, <1>0, <1>t DEF SaveTranscript, PassInv, locals, sttVars, Ended
<1>11. CASE SaveNoTranscript
  <2>1. /\ pc[Worker] = "saveTranscript" /\ pc'[Worker] \in {"llm", "save"} /\ UNCHANGED <<wcase, stt, audit>>
        /\ stt[wcase] \in {"silent", "failed"} /\ deg'[Worker] = (deg[Worker] \/ stt[wcase] = "failed")
    BY <1>11, <1>0, <1>t DEF SaveNoTranscript, EnterTier2, sttVars
  <2>2. CASE stt[wcase] = "silent"
    BY <2>1, <2>2, <1>0, <1>t DEF PassInv, Ended
  <2>3. CASE stt[wcase] = "failed"
    <3>1. "MODEL_FAILED:stt" \in audit[wcase]
      BY <2>1, <2>3, <1>h DEF SttInv
    <3> QED
      BY <2>1, <2>3, <3>1, <1>0, <1>t DEF PassInv, Ended, Failures, Gaps
  <2> QED
    BY <2>1, <2>2, <2>3
<1>12. CASE LogStt
  <2>1. /\ pc[Worker] = "logStt" /\ pc'[Worker] \in {"llm", "save"} /\ UNCHANGED <<wcase, stt, deg>>
        /\ audit'[wcase] = audit[wcase] \cup {"STT_DONE"}
    BY <1>12, <1>0, <1>t, <1>h DEF LogStt, EnterTier2, Log, locals, sttVars
  <2> QED
    BY <2>1 DEF PassInv, Failures, Gaps
<1>13. CASE FinishCase \/ TellDone \/ FailCase \/ FailCaseUnsaved \/ TellFailed \/ Crash
  <2>1. pc'[Worker] \in {"idle", "tellDone", "tellFailed"}
    BY <1>13, <1>0, <1>t DEF FinishCase, FailCase, FailCaseUnsaved, TellDone, TellFailed, EndCase,
                             Crash
  <2> QED
    BY <2>1 DEF PassInv
<1>14. CASE DbFails(Worker)
  <2>1. pc'[Worker] = "failing"
    BY <1>14, <1>0, <1>t DEF DbFails
  <2> QED
    BY <2>1 DEF PassInv
<1>15. CASE Generate(Worker) \/ GenerateFails(Worker) \/ RestartDaemon(Worker) \/ SelectExplanation(Worker)
  <2>1. /\ pc[Worker] \in {"llm", "restart", "save"}
        /\ pc'[Worker] \in {"save", "restart", "llm", "logLlmFailed", "insert", "update"}
        /\ UNCHANGED <<wcase, stt, deg, audit>>
    BY <1>15, <1>0, <1>t DEF Generate, GenerateFails, RestartDaemon, SelectExplanation, rows, locals, sttVars
  <2> QED
    BY <2>1 DEF PassInv
<1>16. CASE LogLlmFailed(Worker)
  <2>1. /\ pc[Worker] = "logLlmFailed" /\ pc'[Worker] = "save" /\ deg'[Worker] = TRUE
        /\ UNCHANGED <<wcase, stt>>
        /\ audit'[wcase] = audit[wcase] \cup {"MODEL_FAILED:llm"}
    BY <1>16, <1>0, <1>t, <1>h DEF LogLlmFailed, Log, CaseOf, sttVars
  <2> QED
    BY <2>1 DEF PassInv, Failures, Gaps
\* save_explanation has written: to the end of the pass only when nothing failed
<1>17. CASE InsertExplanation(Worker) \/ UpdateExplanation(Worker)
  <2>1. /\ pc[Worker] \in {"insert", "update"} /\ UNCHANGED <<wcase, stt, deg, audit>>
        /\ \/ pc'[Worker] = "logExpl"
           \/ pc'[Worker] = "degrade" /\ deg[Worker]
           \/ pc'[Worker] = "finish" /\ ~deg[Worker]
    BY <1>17, <1>0, <1>t DEF InsertExplanation, UpdateExplanation, Saved, locals, sttVars
  <2> QED
    BY <2>1 DEF PassInv
<1>18. CASE LogExplanation(Worker)
  <2>1. /\ pc[Worker] = "logExpl" /\ UNCHANGED <<wcase, stt, deg>>
        /\ audit'[wcase] = audit[wcase] \cup {"EXPLANATION_DONE"}
        /\ \/ pc'[Worker] = "degrade" /\ deg[Worker]
           \/ pc'[Worker] = "finish" /\ ~deg[Worker]
    BY <1>18, <1>0, <1>t, <1>h DEF LogExplanation, Log, CaseOf, locals, sttVars
  <2> QED
    BY <2>1 DEF PassInv, Failures, Gaps
<1>19. CASE SetDegraded(Worker)
  <2>1. /\ pc[Worker] = "degrade" /\ pc'[Worker] = "finish" /\ UNCHANGED <<wcase, stt, deg, audit>>
        /\ degraded'[wcase]
    BY <1>19, <1>0, <1>t, <1>h DEF SetDegraded, CaseOf, locals, sttVars
  <2> QED
    BY <2>1 DEF PassInv
\* the steps of others
<1>20. ASSUME NEW c \in Case, SttReturns(c) \/ SttTimeout(c) \/ LogSttFailed(c) \/ LogSttRaises(c)
       PROVE  PassInv'
  <2>1. /\ UNCHANGED <<pc, wcase, deg, degraded>> /\ stt[c] \in {"running", "failing"}
        /\ \A d \in Case \ {c} : stt'[d] = stt[d] /\ audit'[d] = audit[d]
        /\ \/ audit'[c] = audit[c]
           \/ stt'[c] = "failed" /\ audit'[c] = audit[c] \cup {"MODEL_FAILED:stt"}
    BY <1>20, <1>t DEF SttReturns, SttTimeout, LogSttFailed, LogSttRaises, Log, rows, locals
  <2>2. CASE pc[Worker] # "idle" /\ wcase = c
    BY <2>1, <2>2 DEF PassInv, Ended, Gaps, Failures
  <2>3. CASE ~(pc[Worker] # "idle" /\ wcase = c)
    BY <2>1, <2>3, <1>h, PassKept
  <2> QED
    BY <2>2, <2>3
<1>21. ASSUME NEW c \in Case, LogCreated(c) PROVE PassInv'
  BY <1>21, <1>q, <1>t DEF LogCreated, Log, locals, sttVars, Gaps
<1>22. ASSUME NEW c \in Case, LogLlmFailed(c) \/ LogExplanation(c) PROVE PassInv'
  BY <1>22, <1>q, <1>t, <1>0 DEF LogLlmFailed, LogExplanation, Log, CaseOf, locals, sttVars, Gaps
<1>23. ASSUME NEW c \in Case, \/ Generate(c) \/ GenerateFails(c) \/ RestartDaemon(c)
                            \/ SelectExplanation(c) \/ SetDegraded(c) \/ DbFails(c)
                            \/ RequestExplain(c) \/ ExplainLoad(c) \/ ExplainTooEarly(c)
       PROVE  PassInv'
  <2>1. UNCHANGED <<stt, wcase, audit>> /\ pc'[Worker] = pc[Worker] /\ deg'[Worker] = deg[Worker]
    BY <1>23, <1>t, <1>0 DEF Generate, GenerateFails, RestartDaemon, SelectExplanation, SetDegraded,
                            DbFails, RequestExplain, ExplainLoad, ExplainTooEarly, rows, locals, sttVars
  <2> QED
    BY <2>1, <1>q
<1>24. ASSUME NEW c \in Case, InsertExplanation(c) \/ UpdateExplanation(c) PROVE PassInv'
  <2>1. UNCHANGED <<stt, wcase, audit, deg>> /\ pc'[Worker] = pc[Worker]
    BY <1>24, <1>t, <1>0 DEF InsertExplanation, UpdateExplanation, Saved, locals, sttVars
  <2> QED
    BY <2>1, <1>q
<1>25. CASE \/ Restart \/ UNCHANGED vars
            \/ \E c \in Case : \/ CreateCase(c) \/ IntakeFails(c) \/ Enqueue(c)
                              \/ SttPartial(c) \/ SttThreadEnds(c)
  <2>1. UNCHANGED <<stt, wcase, audit, deg, pc>>
    BY <1>25 DEF Restart, CreateCase, IntakeFails, Enqueue, SttPartial, SttThreadEnds,
                 vars, rows, locals, sttVars
  <2> QED
    BY <2>1, <1>q
<1> QED
  BY <1>1, <1>2, <1>3, <1>4, <1>5, <1>6, <1>7, <1>8, <1>9, <1>10, <1>11, <1>12, <1>13, <1>14,
     <1>15, <1>16, <1>17, <1>18, <1>19, <1>20, <1>21, <1>22, <1>23, <1>24, <1>25, <1>26
     DEF Next, IntakeStep, SttTaskStep, ExplainStep, WorkerStep, ExplanationStep

-----------------------------------------------------------------------------
(***************************************************************************)
(* The transcription, and the explain tasks.                               *)
(***************************************************************************)

LEMMA SttKept ==
  ASSUME SttInv,
         \A c \in Case : /\ stt'[c] = stt[c] \/ stt'[c] = "none"
                         /\ status'[c] = "DONE" => status[c] = "DONE"
                         /\ audit[c] \subseteq audit'[c]
  PROVE  SttInv'
  BY DEF SttInv, Ended

LEMMA SttStep == IInv /\ PassInv /\ SttInv /\ [Next]_vars => SttInv'
<1> SUFFICES ASSUME IInv, PassInv, SttInv, [Next]_vars
             PROVE  SttInv'
  OBVIOUS
<1>0. /\ TypeOK /\ StageInv /\ HoldingInv /\ PipelineAssumption
  BY PipelineAssumption DEF IInv, CoreInv
<1>t. /\ status \in [Case -> Statuses] /\ audit \in [Case -> SUBSET Actions]
      /\ stt \in [Case -> {"none", "running", "failing", "ok", "silent", "failed", "raised"}]
  BY <1>0 DEF TypeOK
<1>h. pc[Worker] # "idle" => wcase \in Case
  BY <1>0 DEF HoldingInv, TypeOK, At
<1>g. \A c \in Case : audit[c] \subseteq audit'[c]
  BY <1>0, LogGrows
<1>q. ASSUME UNCHANGED <<stt, status>> PROVE SttInv'
  BY <1>q, <1>g, SttKept
<1>1. CASE FinishCase
  <2>1. stt[wcase] \in Ended /\ wcase \in Case
    BY <1>1, <1>h DEF FinishCase, PassInv, AfterExplanation, At
  <2>2. UNCHANGED <<stt, audit>> /\ \A c \in Case \ {wcase} : status'[c] = status[c]
    BY <1>1, <1>t DEF FinishCase, sttVars
  <2> QED
    BY <2>1, <2>2 DEF SttInv
<1>2. CASE Load
  <2>1. /\ wcase \in Case /\ status[wcase] = "PROCESSING" /\ UNCHANGED <<status, audit>>
        /\ stt'[wcase] # "failed" /\ \A c \in Case \ {wcase} : stt'[c] = stt[c]
    BY <1>0, <1>2, <1>h, <1>t DEF Load, StageInv, BeforeRisk, At, rows
  <2> QED
    BY <2>1 DEF SttInv
<1>3. ASSUME NEW c \in Case, SttReturns(c) \/ SttTimeout(c) \/ LogSttFailed(c) \/ LogSttRaises(c)
      PROVE  SttInv'
  <2>1. /\ status' = status /\ stt[c] \in {"running", "failing"}
        /\ \A d \in Case \ {c} : stt'[d] = stt[d]
        /\ stt'[c] = "failed" => "MODEL_FAILED:stt" \in audit'[c]
    BY <1>3, <1>t DEF SttReturns, SttTimeout, LogSttFailed, LogSttRaises, Log, rows
  <2>2. status[c] # "DONE"
    BY <2>1 DEF SttInv, Ended
  <2> QED
    BY <2>1, <2>2, <1>g DEF SttInv
<1>4. CASE \/ Begin \/ FailCase \/ Crash \/ Restart \/ \E c \in Case : CreateCase(c)
  <2>1. \A c \in Case : /\ stt'[c] = stt[c] \/ stt'[c] = "none"
                        /\ status'[c] = "DONE" => status[c] = "DONE"
    BY <1>4, <1>t DEF Begin, FailCase, Crash, Restart, Recovered, CreateCase, rows, sttVars
  <2> QED
    BY <2>1, <1>g, SttKept
<1>5. CASE \E c \in Case : \/ LogCreated(c) \/ IntakeFails(c) \/ Enqueue(c) \/ SttPartial(c)
                          \/ SttThreadEnds(c) \/ RequestExplain(c) \/ ExplainLoad(c)
                          \/ ExplainTooEarly(c)
  BY <1>5, <1>q DEF LogCreated, IntakeFails, Enqueue, SttPartial, SttThreadEnds, RequestExplain,
                   ExplainLoad, ExplainTooEarly, rows, sttVars
<1>6. CASE \/ Dequeue \/ Detect \/ DetectFails \/ LogDetectionFailed \/ SaveDetections
           \/ LogDetection \/ SaveRisk \/ LogRisk \/ SaveTranscript \/ SaveNoTranscript
           \/ TranscriptRaises \/ LogStt \/ FailCaseUnsaved
           \/ TellRisk \/ TellDone \/ TellFailed
  BY <1>6, <1>q DEF Dequeue, Detect, DetectFails, LogDetectionFailed, SaveDetections,
                   LogDetection, SaveRisk, LogRisk, SaveTranscript, SaveNoTranscript,
                   TranscriptRaises, LogStt, FailCaseUnsaved, TellRisk, TellDone,
                   TellFailed, EndCase, rows, sttVars
<1>7. CASE \E p \in Proc : ExplanationStep(p)
  BY <1>7, <1>q DEF ExplanationStep, Generate, GenerateFails, RestartDaemon, LogLlmFailed,
                   SelectExplanation, InsertExplanation, UpdateExplanation, LogExplanation,
                   SetDegraded, DbFails, rows, sttVars
<1>8. CASE UNCHANGED vars
  BY <1>8, <1>q DEF vars, rows, sttVars
<1> QED
  BY <1>1, <1>2, <1>3, <1>4, <1>5, <1>6, <1>7, <1>8
     DEF Next, IntakeStep, SttTaskStep, ExplainStep, WorkerStep, Proc

LEMMA TaskStep == IInv /\ TaskInv /\ [Next]_vars => TaskInv'
<1> SUFFICES ASSUME IInv, TaskInv, [Next]_vars, NEW d \in Case
             PROVE  /\ pc'[d] \in {"save", "insert", "update"} =>
                         out'[d] = "text" \/ Failures \cap audit'[d] # {}
                    /\ pc'[d] = "degrade" => Failures \cap audit'[d] # {}
  BY DEF TaskInv
<1>0. /\ TypeOK /\ PipelineAssumption /\ d # Worker /\ d \in Proc
  BY PipelineAssumption DEF IInv, Proc
<1>t. /\ pc \in [Proc -> Calls] /\ out \in [Proc -> {"empty", "text"}]
      /\ audit \in [Case -> SUBSET Actions]
  BY <1>0 DEF TypeOK
<1>g. audit[d] \subseteq audit'[d]
  BY <1>0, LogGrows
\* the task takes no step
<1>q. ASSUME pc'[d] = pc[d], out'[d] = out[d]
      PROVE  /\ pc'[d] \in {"save", "insert", "update"} =>
                  out'[d] = "text" \/ Failures \cap audit'[d] # {}
             /\ pc'[d] = "degrade" => Failures \cap audit'[d] # {}
  BY <1>q, <1>g DEF TaskInv
<1> USE DEF Goto, At
<1>1. CASE RequestExplain(d) \/ ExplainLoad(d) \/ ExplainTooEarly(d) \/ DbFails(d)
  BY <1>0, <1>1, <1>t DEF RequestExplain, ExplainLoad, ExplainTooEarly, DbFails
<1>2. CASE Generate(d) \/ GenerateFails(d) \/ RestartDaemon(d)
  BY <1>0, <1>2, <1>t DEF Generate, GenerateFails, RestartDaemon
<1>3. CASE LogLlmFailed(d)
  <2>1. "MODEL_FAILED:llm" \in audit'[d]
    BY <1>0, <1>3, <1>t DEF LogLlmFailed, Log, CaseOf
  <2>2. pc'[d] = "save"
    BY <1>0, <1>3, <1>t DEF LogLlmFailed
  <2> QED
    BY <2>1, <2>2 DEF Failures
<1>4. CASE SelectExplanation(d)
  BY <1>0, <1>4, <1>t DEF SelectExplanation, TaskInv, rows, locals
<1>5. CASE InsertExplanation(d) \/ UpdateExplanation(d)
  <2>1. /\ pc[d] \in {"insert", "update"} /\ audit' = audit
        /\ pc'[d] = "logExpl" \/ (pc'[d] = "degrade" /\ out[d] = "empty")
    BY <1>0, <1>5, <1>t DEF InsertExplanation, UpdateExplanation, Saved
  <2> QED
    BY <2>1 DEF TaskInv
<1>6. CASE LogExplanation(d) \/ SetDegraded(d)
  BY <1>0, <1>6, <1>t DEF LogExplanation, SetDegraded
<1>7. CASE Crash
  BY <1>0, <1>7, <1>t DEF Crash
<1>8. ASSUME NEW p \in Proc \ {d}, ExplanationStep(p)
      PROVE  pc'[d] = pc[d] /\ out'[d] = out[d]
  <2>1. CASE InsertExplanation(p) \/ UpdateExplanation(p)
    BY <2>1, <1>0, <1>t, <1>8 DEF InsertExplanation, UpdateExplanation, Saved, locals
  <2>2. CASE ~(InsertExplanation(p) \/ UpdateExplanation(p))
    BY <2>2, <1>0, <1>t, <1>8 DEF ExplanationStep, Generate, GenerateFails, RestartDaemon, LogLlmFailed,
                   SelectExplanation, LogExplanation, SetDegraded, DbFails, locals
  <2> QED
    BY <2>1, <2>2
<1>9. ASSUME NEW c \in Case \ {d}, RequestExplain(c) \/ ExplainLoad(c) \/ ExplainTooEarly(c)
      PROVE  pc'[d] = pc[d] /\ out'[d] = out[d]
  BY <1>9, <1>0, <1>t DEF RequestExplain, ExplainLoad, ExplainTooEarly, locals
<1>10. ASSUME NEW c \in Case, \/ CreateCase(c) \/ IntakeStep(c) \/ SttPartial(c) \/ SttTaskStep(c)
                            \/ SttThreadEnds(c)
       PROVE  pc'[d] = pc[d] /\ out'[d] = out[d]
  BY <1>10 DEF CreateCase, IntakeStep, LogCreated, IntakeFails, Enqueue, SttPartial, SttTaskStep,
               SttReturns, SttTimeout, LogSttFailed, LogSttRaises, SttThreadEnds, locals
<1>11. CASE \/ Dequeue \/ Begin \/ Load \/ Detect \/ DetectFails \/ LogDetectionFailed \/ SaveDetections
            \/ LogDetection \/ SaveRisk \/ LogRisk \/ SaveTranscript \/ SaveNoTranscript
            \/ TranscriptRaises \/ LogStt \/ TellRisk \/ FinishCase \/ TellDone \/ FailCase
            \/ FailCaseUnsaved \/ TellFailed
  <2>1. pc'[d] = pc[d] /\ out'[d] = out[d]
    BY <1>11, <1>0, <1>t
       DEF Dequeue, Begin, Load, Detect, DetectFails, LogDetectionFailed, SaveDetections,
           LogDetection, SaveRisk, LogRisk, SaveTranscript, SaveNoTranscript, EnterTier2,
           TranscriptRaises, LogStt, FinishCase, FailCase, FailCaseUnsaved,
                   TellRisk, TellDone, TellFailed, EndCase, locals
  <2> QED
    BY <2>1, <1>q
<1>12. CASE Restart \/ UNCHANGED vars
  BY <1>12, <1>q DEF Restart, vars, locals
<1>13. CASE ExplanationStep(d)
  BY <1>13, <1>1, <1>2, <1>3, <1>4, <1>5, <1>6 DEF ExplanationStep
<1> QED
  BY <1>0, <1>1, <1>q, <1>7, <1>8, <1>9, <1>10, <1>11, <1>12, <1>13
     DEF Next, ExplainStep, WorkerStep, Proc

-----------------------------------------------------------------------------
(***************************************************************************)
(* The mark.                                                               *)
(***************************************************************************)

LEMMA VisibleKept ==
  ASSUME DegradationIsVisible, NEW c \in Case,
         status'[c] = "DONE" => status[c] = "DONE",
         audit[c] \subseteq audit'[c], degraded'[c] = degraded[c],
         status[c] = "DONE" => audit'[c] \cap Gaps \subseteq audit[c]
  PROVE  /\ status'[c] = "DONE" /\ (Gaps \cap audit'[c] # {} \/ "DETECTION_DONE" \notin audit'[c])
              => degraded'[c]
         /\ degraded'[c] => Failures \cap audit'[c] # {}
  BY DEF DegradationIsVisible, Gaps, Failures

LEMMA VisibleStep ==
  IInv /\ PassInv /\ TaskInv /\ SttInv /\ DegradationIsVisible /\ [Next]_vars => DegradationIsVisible'
<1> SUFFICES ASSUME IInv, PassInv, TaskInv, SttInv, DegradationIsVisible, [Next]_vars, NEW c \in Case
             PROVE  /\ status'[c] = "DONE" /\ (Gaps \cap audit'[c] # {} \/ "DETECTION_DONE" \notin audit'[c])
                         => degraded'[c]
                    /\ degraded'[c] => Failures \cap audit'[c] # {}
  BY DEF DegradationIsVisible, Gaps, Failures
<1>0. /\ TypeOK /\ StageInv /\ HoldingInv /\ PipelineAssumption
      /\ Worker \in Proc /\ \A d \in Case : d \in Proc /\ d # Worker
  BY PipelineAssumption DEF IInv, CoreInv, Proc
<1>t. /\ status \in [Case -> Statuses] /\ audit \in [Case -> SUBSET Actions]
      /\ degraded \in [Case -> BOOLEAN]
  BY <1>0 DEF TypeOK
<1>h. pc[Worker] # "idle" => wcase \in Case
  BY <1>0 DEF HoldingInv, TypeOK, At
<1>g. audit[c] \subseteq audit'[c]
  BY <1>0, LogGrows
<1>q. ASSUME UNCHANGED degraded, status'[c] = "DONE" => status[c] = "DONE",
             status[c] = "DONE" => audit'[c] \cap Gaps \subseteq audit[c]
      PROVE  /\ status'[c] = "DONE" /\ (Gaps \cap audit'[c] # {} \/ "DETECTION_DONE" \notin audit'[c])
                  => degraded'[c]
             /\ degraded'[c] => Failures \cap audit'[c] # {}
  BY <1>q, <1>g, VisibleKept
<1>1. CASE FinishCase
  <2>1. /\ UNCHANGED <<audit, degraded>> /\ pc[Worker] = "finish" /\ wcase \in Case
        /\ \A d \in Case \ {wcase} : status'[d] = status[d]
    BY <1>1, <1>t, <1>h DEF FinishCase, At
  <2>2. CASE c = wcase
    <3>1. deg[Worker] => degraded[c]
      BY <2>1, <2>2 DEF PassInv, At
    <3>2. Gaps \cap audit[c] # {} \/ "DETECTION_DONE" \notin audit[c] => deg[Worker]
      BY <2>1, <2>2 DEF PassInv, Gaps, AfterRisk, AfterScore, AfterTier1, AfterTranscript, AfterExplanation
    <3> QED
      BY <2>1, <3>1, <3>2 DEF DegradationIsVisible, Failures, Gaps
  <2>3. CASE c # wcase
    BY <2>1, <2>3, <1>q
  <2> QED
    BY <2>2, <2>3
<1>2. ASSUME NEW p \in Proc, SetDegraded(p)
      PROVE  /\ status'[c] = "DONE" /\ (Gaps \cap audit'[c] # {} \/ "DETECTION_DONE" \notin audit'[c])
                  => degraded'[c]
             /\ degraded'[c] => Failures \cap audit'[c] # {}
  <2>1. UNCHANGED <<status, audit>> /\ degraded' = [degraded EXCEPT ![CaseOf(p)] = TRUE] /\ At(p, "degrade")
    BY <1>2 DEF SetDegraded
  <2>2. CASE c = CaseOf(p)
    <3>1. CASE p = Worker
      <4>1. deg[Worker] /\ c = wcase
        BY <2>1, <2>2, <3>1 DEF PassInv, CaseOf
      <4>2. Failures \cap audit[c] # {}
        BY <2>1, <3>1, <4>1 DEF PassInv, At
      <4> QED
        BY <2>1, <2>2, <4>2, <1>t
    <3>2. CASE p # Worker
      <4>1. Failures \cap audit[c] # {}
        BY <2>1, <2>2, <3>2 DEF TaskInv, CaseOf, At
      <4> QED
        BY <2>1, <2>2, <4>1, <1>t
    <3> QED
      BY <3>1, <3>2
  <2>3. CASE c # CaseOf(p)
    BY <2>1, <2>3, <1>t DEF DegradationIsVisible, Gaps, Failures
  <2> QED
    BY <2>2, <2>3
<1>3. CASE LogDetectionFailed
  <2>1. /\ UNCHANGED <<status, degraded>> /\ wcase \in Case /\ status[wcase] = "PROCESSING"
        /\ \A d \in Case \ {wcase} : audit'[d] = audit[d]
    BY <1>0, <1>3, <1>t, <1>h DEF LogDetectionFailed, Log, StageInv, BeforeRisk, At
  <2> QED
    BY <2>1, <1>q
<1>4. CASE \E d \in Case : LogSttFailed(d)
  <2>1. PICK d \in Case : LogSttFailed(d)
    BY <1>4
  <2>2. /\ UNCHANGED <<status, degraded>> /\ status[d] # "DONE"
        /\ \A e \in Case \ {d} : audit'[e] = audit[e]
    BY <2>1, <1>t DEF LogSttFailed, Log, SttInv, Ended
  <2> QED
    BY <2>2, <1>q
<1>5. CASE \E d \in Case : LogCreated(d)
  BY <1>5, <1>t, <1>q DEF LogCreated, Log, Gaps
<1>6. CASE LogDetection \/ LogRisk \/ LogStt
  BY <1>6, <1>t, <1>q DEF LogDetection, LogRisk, LogStt, Log, Gaps
<1>7. CASE \E p \in Proc : LogLlmFailed(p) \/ LogExplanation(p)
  BY <1>7, <1>t, <1>q DEF LogLlmFailed, LogExplanation, Log, Gaps
<1>8. CASE \/ Begin \/ FailCase \/ Restart \/ \E d \in Case : CreateCase(d)
  <2>1. UNCHANGED <<audit, degraded>> /\ (status'[c] = "DONE" => status[c] = "DONE")
    BY <1>8, <1>t DEF Begin, FailCase, Restart, Recovered, CreateCase
  <2> QED
    BY <2>1, <1>q
<1>9. CASE \E d \in Case : \/ IntakeFails(d) \/ Enqueue(d) \/ SttPartial(d) \/ SttReturns(d)
                          \/ SttTimeout(d) \/ LogSttRaises(d)
                          \/ SttThreadEnds(d) \/ RequestExplain(d) \/ ExplainLoad(d)
                          \/ ExplainTooEarly(d)
  BY <1>9, <1>q DEF IntakeFails, Enqueue, SttPartial, SttReturns, SttTimeout, LogSttRaises,
                   SttThreadEnds, RequestExplain, ExplainLoad, ExplainTooEarly, rows
<1>10. CASE \/ Dequeue \/ Load \/ Detect \/ DetectFails \/ SaveDetections \/ SaveRisk
            \/ SaveTranscript \/ SaveNoTranscript \/ TranscriptRaises \/ FailCaseUnsaved \/ Crash
            \/ TellRisk \/ TellDone \/ TellFailed
  BY <1>10, <1>q DEF Dequeue, Load, Detect, DetectFails, SaveDetections, SaveRisk,
                    SaveTranscript, SaveNoTranscript, TranscriptRaises, FailCaseUnsaved, Crash,
                    TellRisk, TellDone, TellFailed, EndCase, rows
<1>11. CASE \E p \in Proc : \/ Generate(p) \/ GenerateFails(p) \/ RestartDaemon(p)
                            \/ SelectExplanation(p) \/ InsertExplanation(p)
                            \/ UpdateExplanation(p) \/ DbFails(p)
  BY <1>11, <1>q DEF Generate, GenerateFails, RestartDaemon, SelectExplanation,
                    InsertExplanation, UpdateExplanation, DbFails, rows
<1>12. CASE UNCHANGED vars
  BY <1>12, <1>q DEF vars, rows
<1> QED
  BY <1>1, <1>2, <1>3, <1>4, <1>5, <1>6, <1>7, <1>8, <1>9, <1>10, <1>11, <1>12
     DEF Next, IntakeStep, SttTaskStep, ExplainStep, WorkerStep, ExplanationStep, Proc

LEMMA MarkInit == Init => MarkInv
<1> SUFFICES ASSUME Init PROVE MarkInv
  OBVIOUS
<1> USE PipelineAssumption DEF Init
<1>1. UnseenInv /\ SttInv /\ DegradationIsVisible
  BY DEF UnseenInv, SttInv, DegradationIsVisible
<1>2. PassInv /\ TaskInv
  BY DEF PassInv, TaskInv, At, Proc, AfterRisk, AfterScore, AfterTier1, AfterTranscript, AfterExplanation
<1> QED
  BY <1>1, <1>2 DEF MarkInv

LEMMA MarkStep == IInv /\ MarkInv /\ [Next]_vars => MarkInv'
  BY UnseenStep, PassStep, TaskStep, SttStep, VisibleStep DEF MarkInv

\* A case that is DONE although a model it needed failed bears the mark, and a
\* mark has its reason in the audit log (process and explain_on_demand),
\* whatever fails, and over any number of crashes.
THEOREM FailureIsVisible == Spec => []DegradationIsVisible
<1>1. MarkInv => DegradationIsVisible
  BY DEF MarkInv
<1>2. Spec => []MarkInv
  BY MarkInit, MarkStep, Invariance, PTL DEF Spec
<1> QED
  BY <1>1, <1>2, PTL

-----------------------------------------------------------------------------
(***************************************************************************)
(* The GPU lock.                                                           *)
(***************************************************************************)

LockInv == Once(gpuQ) /\ \A p \in Proc : At(p, "llm") <=> InLine(gpuQ, p)

LEMMA LockJoined ==
  ASSUME TypeOK, LockInv, NEW p \in Proc, ~At(p, "llm"), Goto(p, "llm"),
         gpuQ' = Append(gpuQ, p)
  PROVE  LockInv'
<1>1. gpuQ \in Seq(Proc) /\ pc \in [Proc -> Calls] /\ Once(gpuQ) /\ ~InLine(gpuQ, p)
  BY DEF TypeOK, LockInv
<1>2. Once(gpuQ') /\ \A y : InLine(gpuQ', y) <=> InLine(gpuQ, y) \/ y = p
  BY <1>1, JoinLine
<1> QED
  BY <1>1, <1>2 DEF LockInv, At, Goto

LEMMA LockLeft ==
  ASSUME TypeOK, LockInv, NEW p \in Proc, HoldsGpu(p), NEW s, s # "llm", Goto(p, s),
         gpuQ' = Tail(gpuQ)
  PROVE  LockInv'
<1>1. gpuQ \in Seq(Proc) /\ pc \in [Proc -> Calls] /\ Once(gpuQ) /\ gpuQ # <<>> /\ Head(gpuQ) = p
  BY DEF TypeOK, LockInv, HoldsGpu
<1>2. Once(gpuQ') /\ \A y : InLine(gpuQ', y) <=> InLine(gpuQ, y) /\ y # p
  BY <1>1, LeaveLine
<1> QED
  BY <1>1, <1>2 DEF LockInv, At, Goto

LEMMA LockLeftAlone ==
  ASSUME LockInv, UNCHANGED gpuQ, \A p \in Proc : At(p, "llm")' <=> At(p, "llm")
  PROVE  LockInv'
  BY DEF LockInv

LEMMA LockStep == TypeOK /\ LockInv /\ [Next]_vars => LockInv'
<1> SUFFICES ASSUME TypeOK, LockInv, [Next]_vars
             PROVE  LockInv'
  OBVIOUS
<1>0. /\ pc \in [Proc -> Calls] /\ Worker \in Proc /\ \A c \in Case : c \in Proc /\ c # Worker
  BY PipelineAssumption DEF TypeOK, Proc
<1>m. ASSUME NEW p \in Proc, NEW s, ~At(p, "llm"), s # "llm", Goto(p, s), UNCHANGED gpuQ
      PROVE  LockInv'
  BY <1>m, <1>0, LockLeftAlone DEF At, Goto
<1>q. ASSUME UNCHANGED <<pc, gpuQ>> PROVE LockInv'
  BY <1>q, LockLeftAlone DEF At
<1>1. ASSUME NEW p \in Proc, Generate(p) \/ GenerateFails(p) PROVE LockInv'
  BY <1>1, LockLeft DEF Generate, GenerateFails
<1>2. ASSUME NEW p \in Proc, RestartDaemon(p) PROVE LockInv'
  <2>1. At(p, "restart") /\ ~At(p, "llm")
    BY <1>2 DEF RestartDaemon, At
  <2>2. CASE Goto(p, "llm") /\ gpuQ' = Append(gpuQ, p)
    BY <2>1, <2>2, LockJoined
  <2>3. CASE Goto(p, "logLlmFailed") /\ UNCHANGED gpuQ
    BY <2>1, <2>3, <1>m
  <2> QED
    BY <1>2, <2>2, <2>3 DEF RestartDaemon
<1>3. CASE SaveNoTranscript \/ LogStt
  <2>1. ~At(Worker, "llm") /\ EnterTier2
    BY <1>3 DEF SaveNoTranscript, LogStt, At
  <2>2. CASE Goto(Worker, "llm") /\ gpuQ' = Append(gpuQ, Worker)
    BY <2>1, <2>2, <1>0, LockJoined
  <2>3. CASE Goto(Worker, "save") /\ UNCHANGED gpuQ
    BY <2>1, <2>3, <1>0, <1>m
  <2> QED
    BY <2>1, <2>2, <2>3 DEF EnterTier2
<1>4. ASSUME NEW c \in Case, ExplainLoad(c) PROVE LockInv'
  BY <1>4, <1>0, LockJoined DEF ExplainLoad, At
<1>5. CASE Crash
  <2>1. gpuQ' = <<>> /\ \A p \in Proc : pc'[p] = "idle"
    BY <1>5 DEF Crash
  <2> QED
    BY <2>1 DEF LockInv, At, Once, InLine
<1>6. ASSUME NEW p \in Proc, DbFails(p) PROVE LockInv'
  <2>1. ~At(p, "llm") /\ UNCHANGED gpuQ
    BY <1>6 DEF DbFails, DbCalls, At
  <2>2. PICK s \in {"failing", "idle"} : Goto(p, s)
    BY <1>6 DEF DbFails
  <2> QED
    BY <2>1, <2>2, <1>m
<1>7. ASSUME NEW p \in Proc, InsertExplanation(p) \/ UpdateExplanation(p) PROVE LockInv'
  <2>1. ~At(p, "llm") /\ UNCHANGED gpuQ
    BY <1>7 DEF InsertExplanation, UpdateExplanation, At
  <2>2. PICK s \in {"logExpl", "degrade", "finish"} : Goto(p, s)
    BY <1>7 DEF InsertExplanation, UpdateExplanation, Saved
  <2> QED
    BY <2>1, <2>2, <1>m
<1>8. ASSUME NEW p \in Proc, \/ LogLlmFailed(p) \/ SelectExplanation(p) \/ LogExplanation(p)
                           \/ SetDegraded(p)
      PROVE  LockInv'
  <2>1. ~At(p, "llm") /\ UNCHANGED gpuQ
    BY <1>8 DEF LogLlmFailed, SelectExplanation, LogExplanation, SetDegraded, At
  <2>2. PICK s \in {"save", "insert", "update", "idle", "degrade", "finish"} : Goto(p, s)
    BY <1>8 DEF LogLlmFailed, SelectExplanation, LogExplanation, SetDegraded
  <2> QED
    BY <2>1, <2>2, <1>m
<1>9. ASSUME NEW c \in Case, RequestExplain(c) \/ ExplainTooEarly(c) PROVE LockInv'
  BY <1>9, <1>0, <1>m DEF RequestExplain, ExplainTooEarly, At
<1>10. CASE \/ Dequeue \/ Begin \/ Load \/ Detect \/ DetectFails \/ LogDetectionFailed \/ SaveDetections
            \/ LogDetection \/ SaveRisk \/ LogRisk \/ SaveTranscript
            \/ TranscriptRaises \/ TellRisk \/ FinishCase \/ TellDone \/ FailCase
            \/ FailCaseUnsaved \/ TellFailed
  <2>1. ~At(Worker, "llm") /\ UNCHANGED gpuQ
    BY <1>10 DEF Dequeue, Begin, Load, Detect, DetectFails, LogDetectionFailed, SaveDetections,
                LogDetection, SaveRisk, LogRisk, SaveTranscript, TranscriptRaises, FinishCase,
                FailCase, FailCaseUnsaved, TellRisk, TellDone, TellFailed, EndCase, At
  <2>2. PICK s \in Calls \ {"llm"} : Goto(Worker, s)
    BY <1>10 DEF Dequeue, Begin, Load, Detect, DetectFails, LogDetectionFailed, SaveDetections,
                LogDetection, SaveRisk, LogRisk, SaveTranscript, TranscriptRaises, FinishCase,
                FailCase, FailCaseUnsaved, TellRisk, TellDone, TellFailed, EndCase, Calls, DbCalls
  <2> QED
    BY <2>1, <2>2, <1>0, <1>m
<1>11. CASE \/ Restart \/ UNCHANGED vars
            \/ \E c \in Case : \/ CreateCase(c) \/ IntakeStep(c) \/ SttPartial(c)
                              \/ SttTaskStep(c) \/ SttThreadEnds(c)
  <2>1. UNCHANGED <<pc, gpuQ>>
    BY <1>11 DEF Restart, vars, CreateCase, IntakeStep, LogCreated, IntakeFails, Enqueue, SttPartial,
                 SttTaskStep, SttReturns, SttTimeout, LogSttFailed, LogSttRaises, SttThreadEnds
  <2> QED
    BY <2>1, <1>q
<1> QED
  BY <1>0, <1>1, <1>2, <1>3, <1>4, <1>5, <1>6, <1>7, <1>8, <1>9, <1>10, <1>11
     DEF Next, ExplainStep, WorkerStep, ExplanationStep

\* The processes in the GPU lock are exactly those whose synthesis is on, each
\* once, over retries, failures and crashes (gpu_session, _run_synthesis).
THEOREM LockComesBack == Spec => []GpuLockIsNotLeaked
<1>1. Init => LockInv
  BY DEF Init, LockInv, At, Once, InLine
<1>2. LockInv => GpuLockIsNotLeaked
  BY DEF LockInv, GpuLockIsNotLeaked, Once, InLine
<1>3. IInv => TypeOK
  BY DEF IInv
<1>4. Spec => []LockInv
  BY <1>1, <1>3, LockStep, Invariance, PTL DEF Spec
<1> QED
  BY <1>2, <1>4, PTL

=============================================================================
