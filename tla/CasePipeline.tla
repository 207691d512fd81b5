---------------------------- MODULE CasePipeline ----------------------------
(***************************************************************************)
(* The backend's case pipeline: intake (services/case_intake.py), the      *)
(* serial worker with its speech-to-text task, on-demand explanations and  *)
(* the GPU lock (core/worker.py, core/orchestrator.py), the rows they      *)
(* write (repositories/case_repository.py, services/audit_service.py) and  *)
(* the recovery at startup (main.py).                                      *)
(*                                                                         *)
(* All of it is one asyncio loop.  A coroutine runs undisturbed from one   *)
(* await to the next, so a step of a process is the call it awaits with    *)
(* the code that follows up to the next await; pc names the call to come.  *)
(* Database calls run in a thread and commit on their own: each is one     *)
(* atomic step, except save_explanation, which reads in one statement and  *)
(* writes in another.  Models are outside: a call answers, fails or times  *)
(* out.  The process may end between any two steps (a crash, a power cut,  *)
(* or worker.stop, which cancels every task and repairs nothing), and so   *)
(* between a write and what follows it: tier1_done and the two ends of a   *)
(* case are steps of their own, after the step that writes.  The other     *)
(* events are in the step of their write, since of them the properties say *)
(* only that the write is there when the event is.                         *)
(***************************************************************************)
EXTENDS CaseQueue, FiniteSets

CONSTANTS
  NoCase,       \* the worker holds no case
  Worker,       \* the process of CaseWorker._loop
  MaxAttempts,  \* Settings.llm_max_retries + 1
  AutoOnHigh,   \* Settings.llm_auto_on_high
  AutoAlways,   \* Settings.llm_auto_always
  MaxExplains,  \* bound: on-demand requests accepted
  MaxFaults,    \* bound: database or disk errors
  MaxCrashes    \* bound: ends of the process

ASSUME PipelineAssumption ==
  /\ NoCase \notin Case
  /\ Worker \notin Case
  /\ MaxAttempts \in Nat \ {0}
  /\ AutoOnHigh \in BOOLEAN
  /\ AutoAlways \in BOOLEAN
  /\ {MaxExplains, MaxFaults, MaxCrashes} \subseteq Nat

VARIABLES
  \* ---- rows, which survive the process ----
  status,      \* cases.status, or "absent"
  risk,        \* the level of the case's risk row, or "none"
  transcript,  \* the case's transcript row: "none", "empty" or "text"
  expl,        \* the case's explanation rows in the order of insertion
  degraded,    \* cases.degraded
  audit,       \* the actions in the case's audit log, model failures by stage
  \* ---- the process ----
  up,          \* it runs and has served its lifespan startup
  intake,      \* where CaseIntake.submit is, per case
  pc,          \* the worker's and, per case, the explain task's next call
  wcase,       \* the case the worker processes
  deg,         \* per process, "degraded" (worker) or "failed" (explain task)
  out,         \* per process, the explanation it has to save
  attempt,     \* per process, its attempts at a synthesis so far
  stt,         \* per case, where its speech-to-text task is
  sttThread,   \* per case, whether the thread that feeds stt_partial runs
  gpuQ,        \* GpuOrchestrator._lock: the holder, then those who wait
  \* ---- history and bounds ----
  sent,        \* the events published so far, per case
  explains, faults, crashes

rows == <<status, risk, transcript, expl, degraded, audit>>
locals == <<wcase, deg, out, attempt>>
sttVars == <<stt, sttThread>>
bounds == <<explains, faults, crashes>>
vars == <<rows, up, queue, bp, intake, pc, locals, sttVars, gpuQ, sent, bounds>>

Proc == Case \cup {Worker}

CaseOf(p) == IF p = Worker THEN wcase ELSE p

At(p, s) == pc[p] = s
Goto(p, s) == pc' = [pc EXCEPT ![p] = s]

Emit(c, es) == sent' = [sent EXCEPT ![c] = @ \cup es]
Log(c, a) == audit' = [audit EXCEPT ![c] = @ \cup {a}]

Init ==
  /\ status = [c \in Case |-> "absent"]
  /\ risk = [c \in Case |-> "none"]
  /\ transcript = [c \in Case |-> "none"]
  /\ expl = [c \in Case |-> <<>>]
  /\ degraded = [c \in Case |-> FALSE]
  /\ audit = [c \in Case |-> {}]
  /\ up = TRUE
  /\ QueueInit
  /\ intake = [c \in Case |-> "none"]
  /\ pc = [p \in Proc |-> "idle"]
  /\ wcase = NoCase
  /\ deg = [p \in Proc |-> FALSE]
  /\ out = [p \in Proc |-> "empty"]
  /\ attempt = [p \in Proc |-> 0]
  /\ stt = [c \in Case |-> "none"]
  /\ sttThread = [c \in Case |-> FALSE]
  /\ gpuQ = <<>>
  /\ sent = [c \in Case |-> {}]
  /\ explains = 0 /\ faults = 0 /\ crashes = 0

-----------------------------------------------------------------------------
(***************************************************************************)
(* Intake: submit, called by POST /cases and by the scanner.  Files and    *)
(* attachment rows are written on the way from "opened" to "logged"; the   *)
(* pipeline reads them only after the put.                                 *)
(***************************************************************************)

CreateCase(c) ==
  /\ up /\ status[c] = "absent"
  /\ status' = [status EXCEPT ![c] = "PENDING"]
  /\ intake' = [intake EXCEPT ![c] = "opened"]
  /\ UNCHANGED <<risk, transcript, expl, degraded, audit, up, queue, bp, pc,
                 locals, sttVars, gpuQ, sent, bounds>>

LogCreated(c) ==
  /\ intake[c] = "opened"
  /\ Log(c, "CASE_CREATED")
  /\ intake' = [intake EXCEPT ![c] = "putting"]
  /\ UNCHANGED <<status, risk, transcript, expl, degraded, up, queue, bp, pc,
                 locals, sttVars, gpuQ, sent, bounds>>

\* The disk or the database refuses a file, an attachment row or the audit
\* entry: submit raises, and its case row stays as it is.
IntakeFails(c) ==
  /\ intake[c] = "opened" /\ faults < MaxFaults
  /\ faults' = faults + 1
  /\ intake' = [intake EXCEPT ![c] = "aborted"]
  /\ UNCHANGED <<rows, up, queue, bp, pc, locals, sttVars, gpuQ, sent,
                 explains, crashes>>

\* Mutant: the case is put and stays to be put.
EnqueueAgain(c) ==
  /\ intake[c] = "putting"
  /\ Put(c)
  /\ Emit(c, {"case_created"})
  /\ UNCHANGED <<rows, up, intake, pc, locals, sttVars, gpuQ, bounds>>

\* enqueue, then the events, with no await after the put.
Enqueue(c) ==
  /\ intake[c] = "putting"
  /\ Put(c)
  /\ Emit(c, {"case_created"})
  /\ intake' = [intake EXCEPT ![c] = "done"]
  /\ UNCHANGED <<rows, up, pc, locals, sttVars, gpuQ, bounds>>

-----------------------------------------------------------------------------
(***************************************************************************)
(* The worker: _loop and process, one case at a time.                      *)
(***************************************************************************)

Dequeue ==
  /\ At(Worker, "idle")
  /\ Get
  /\ wcase' = Head(queue)
  /\ deg' = [deg EXCEPT ![Worker] = FALSE]
  /\ out' = [out EXCEPT ![Worker] = "empty"]
  /\ attempt' = [attempt EXCEPT ![Worker] = 0]
  /\ Goto(Worker, "begin")
  /\ UNCHANGED <<rows, up, intake, sttVars, gpuQ, sent, bounds>>

Begin ==
  /\ At(Worker, "begin")
  /\ status' = [status EXCEPT ![wcase] = "PROCESSING"]
  /\ Goto(Worker, "load")
  /\ UNCHANGED <<risk, transcript, expl, degraded, audit, up, queue, bp, intake,
                 locals, sttVars, gpuQ, sent, bounds>>

\* The case is read, its speech-to-text task starts (a case without audio has
\* nothing to transcribe) and runs beside detection.
Load ==
  /\ At(Worker, "load")
  /\ \/ /\ stt' = [stt EXCEPT ![wcase] = "silent"]
        /\ UNCHANGED sttThread
     \/ /\ stt' = [stt EXCEPT ![wcase] = "running"]
        /\ sttThread' = [sttThread EXCEPT ![wcase] = TRUE]
  /\ Goto(Worker, "detect")
  /\ UNCHANGED <<rows, up, queue, bp, intake, locals, gpuQ, sent, bounds>>

\* The detector answers ...
Detect ==
  /\ At(Worker, "detect")
  /\ Goto(Worker, "saveDet")
  /\ UNCHANGED <<rows, up, queue, bp, intake, locals, sttVars, gpuQ, sent, bounds>>

\* Mutant: a failing detector fails the case.
DetectFailsCase ==
  /\ At(Worker, "detect")
  /\ Goto(Worker, "failing")
  /\ UNCHANGED <<rows, up, queue, bp, intake, locals, sttVars, gpuQ, sent, bounds>>

\* ... or raises.
DetectFails ==
  /\ At(Worker, "detect")
  /\ Goto(Worker, "logDetFailed")
  /\ UNCHANGED <<rows, up, queue, bp, intake, locals, sttVars, gpuQ, sent, bounds>>

\* Mutant: the failure is logged and not remembered.
LogDetectionFailedOnly ==
  /\ At(Worker, "logDetFailed")
  /\ Log(wcase, "MODEL_FAILED:detection")
  /\ Emit(wcase, {"model_failed"})
  /\ Goto(Worker, "saveDet")
  /\ UNCHANGED <<status, risk, transcript, expl, degraded, up, queue, bp, intake,
                 locals, sttVars, gpuQ, bounds>>

LogDetectionFailed ==
  /\ At(Worker, "logDetFailed")
  /\ Log(wcase, "MODEL_FAILED:detection")
  /\ Emit(wcase, {"model_failed"})
  /\ deg' = [deg EXCEPT ![Worker] = TRUE]
  /\ Goto(Worker, "saveDet")
  /\ UNCHANGED <<status, risk, transcript, expl, degraded, up, queue, bp, intake,
                 wcase, out, attempt, sttVars, gpuQ, bounds>>

SaveDetections ==
  /\ At(Worker, "saveDet")
  /\ Goto(Worker, IF deg[Worker] THEN "saveRisk" ELSE "logDet")
  /\ UNCHANGED <<rows, up, queue, bp, intake, locals, sttVars, gpuQ, sent, bounds>>

\* Mutant: tier 1 is pushed before its risk is stored.
LogDetectionPushing ==
  /\ At(Worker, "logDet")
  /\ Log(wcase, "DETECTION_DONE")
  /\ Emit(wcase, {"tier1_done"})
  /\ Goto(Worker, "saveRisk")
  /\ UNCHANGED <<status, risk, transcript, expl, degraded, up, queue, bp, intake,
                 locals, sttVars, gpuQ, bounds>>

LogDetection ==
  /\ At(Worker, "logDet")
  /\ Log(wcase, "DETECTION_DONE")
  /\ Goto(Worker, "saveRisk")
  /\ UNCHANGED <<status, risk, transcript, expl, degraded, up, queue, bp, intake,
                 locals, sttVars, gpuQ, sent, bounds>>

\* Mutant: a level the readers do not know.
LevelsUnknown(detected) == IF detected THEN {"LOW", "HIGH", "CRITICAL"} ELSE {"LOW"}

\* compute_risk over what was detected: nothing detected scores 0, which is
\* LOW.  MEDIUM takes the same branches as LOW.
Levels(detected) == IF detected THEN {"LOW", "HIGH"} ELSE {"LOW"}

SaveRisk ==
  /\ At(Worker, "saveRisk")
  /\ \E level \in Levels(~deg[Worker]) :
       risk' = [risk EXCEPT ![wcase] = level]
  /\ Goto(Worker, "logRisk")
  /\ UNCHANGED <<status, transcript, expl, degraded, audit, up, queue, bp, intake,
                 locals, sttVars, gpuQ, sent, bounds>>

LogRisk ==
  /\ At(Worker, "logRisk")
  /\ Log(wcase, "RISK_COMPUTED")
  /\ Goto(Worker, "tellRisk")
  /\ UNCHANGED <<status, risk, transcript, expl, degraded, up, queue, bp, intake,
                 locals, sttVars, gpuQ, sent, bounds>>

TellRisk ==
  /\ At(Worker, "tellRisk")
  /\ Emit(wcase, {"tier1_done"} \cup IF risk[wcase] = "HIGH" THEN {"alert"} ELSE {})
  /\ Goto(Worker, "saveTranscript")
  /\ UNCHANGED <<rows, up, queue, bp, intake, locals, sttVars, gpuQ, bounds>>

ShouldRunLlm(level) == AutoAlways \/ (AutoOnHigh /\ level = "HIGH")

\* Mutant: a case left to a later request gets no explanation row.
EnterTier2OrFinish ==
  \/ /\ ShouldRunLlm(risk[wcase])
     /\ Goto(Worker, "llm")
     /\ gpuQ' = Append(gpuQ, Worker)
  \/ /\ ~ShouldRunLlm(risk[wcase])
     /\ Goto(Worker, "finish")
     /\ UNCHANGED gpuQ

\* Tier 2 begins: the worker asks for the GPU, or goes on to save an empty
\* explanation.
EnterTier2 ==
  \/ /\ ShouldRunLlm(risk[wcase])
     /\ Goto(Worker, "llm")
     /\ gpuQ' = Append(gpuQ, Worker)
  \/ /\ ~ShouldRunLlm(risk[wcase])
     /\ Goto(Worker, "save")
     /\ UNCHANGED gpuQ

\* The worker awaits stt_task before it saves the transcript.
SaveTranscript ==
  /\ At(Worker, "saveTranscript")
  /\ stt[wcase] = "ok"
  /\ transcript' = [transcript EXCEPT ![wcase] = "text"]
  /\ Goto(Worker, "logStt")
  /\ UNCHANGED <<status, risk, expl, degraded, audit, up, queue, bp, intake, locals,
                 sttVars, gpuQ, sent, bounds>>

\* The same without words, by a failure or not: nothing to log, the event next.
SaveNoTranscript ==
  /\ At(Worker, "saveTranscript")
  /\ stt[wcase] \in {"silent", "failed"}
  /\ transcript' = [transcript EXCEPT ![wcase] = "empty"]
  /\ deg' = [deg EXCEPT ![Worker] = @ \/ stt[wcase] = "failed"]
  /\ Emit(wcase, {"stt_done"})
  /\ EnterTier2
  /\ UNCHANGED <<status, risk, expl, degraded, audit, up, queue, bp, intake,
                 wcase, out, attempt, sttVars, bounds>>

\* stt_task raised: its own MODEL_FAILED entry could not be written.
TranscriptRaises ==
  /\ At(Worker, "saveTranscript")
  /\ stt[wcase] = "raised"
  /\ Goto(Worker, "failing")
  /\ UNCHANGED <<rows, up, queue, bp, intake, locals, sttVars, gpuQ, sent, bounds>>

LogStt ==
  /\ At(Worker, "logStt")
  /\ Log(wcase, "STT_DONE")
  /\ Emit(wcase, {"stt_done"})
  /\ EnterTier2
  /\ UNCHANGED <<status, risk, transcript, expl, degraded, up, queue, bp, intake,
                 locals, sttVars, bounds>>

FinishCase ==
  /\ At(Worker, "finish")
  /\ status' = [status EXCEPT ![wcase] = "DONE"]
  /\ Goto(Worker, "tellDone")
  /\ UNCHANGED <<risk, transcript, expl, degraded, audit, up, queue, bp, intake,
                 locals, sttVars, gpuQ, sent, bounds>>

\* Both ends: the event, and the worker is free.
EndCase(event) ==
  /\ Emit(wcase, {event})
  /\ wcase' = NoCase
  /\ Goto(Worker, "idle")
  /\ UNCHANGED <<rows, up, queue, bp, intake, deg, out, attempt, sttVars, gpuQ, bounds>>

TellDone == At(Worker, "tellDone") /\ EndCase("case_done")

\* The loop's handler of whatever process raised: the status ...
FailCase ==
  /\ At(Worker, "failing")
  /\ status' = [status EXCEPT ![wcase] = "FAILED"]
  /\ Goto(Worker, "tellFailed")
  /\ UNCHANGED <<risk, transcript, expl, degraded, audit, up, queue, bp, intake,
                 locals, sttVars, gpuQ, sent, bounds>>

\* ... or an error of that write, which it suppresses ...
FailCaseUnsaved ==
  /\ At(Worker, "failing") /\ faults < MaxFaults
  /\ faults' = faults + 1
  /\ Goto(Worker, "tellFailed")
  /\ UNCHANGED <<rows, up, queue, bp, intake, locals, sttVars, gpuQ, sent,
                 explains, crashes>>

\* Mutant: the end is persisted and not announced.
TellNobody ==
  /\ At(Worker, "tellFailed")
  /\ wcase' = NoCase
  /\ Goto(Worker, "idle")
  /\ UNCHANGED <<rows, up, queue, bp, intake, deg, out, attempt, sttVars, gpuQ, sent, bounds>>

\* ... and the event after both.
TellFailed == At(Worker, "tellFailed") /\ EndCase("case_failed")

-----------------------------------------------------------------------------
(***************************************************************************)
(* The speech-to-text task of a case, _run_stt, and the thread it consumes *)
(* the transcriber in.  wait_for abandons the thread on a timeout, it does *)
(* not stop it.  The task outlives a process() that raised before awaiting *)
(* it.                                                                     *)
(***************************************************************************)

SttPartial(c) ==
  /\ sttThread[c]
  /\ Emit(c, {"stt_partial"})
  /\ UNCHANGED <<rows, up, queue, bp, intake, pc, locals, sttVars, gpuQ, bounds>>

\* The transcriber answers, with words or without, or raises.
SttReturns(c) ==
  /\ stt[c] = "running"
  /\ \E result \in {"ok", "silent", "failing"} : stt' = [stt EXCEPT ![c] = result]
  /\ sttThread' = [sttThread EXCEPT ![c] = FALSE]
  /\ UNCHANGED <<rows, up, queue, bp, intake, pc, locals, gpuQ, sent, bounds>>

SttTimeout(c) ==
  /\ stt[c] = "running"
  /\ stt' = [stt EXCEPT ![c] = "failing"]
  /\ UNCHANGED <<rows, up, queue, bp, intake, pc, locals, sttThread, gpuQ, sent, bounds>>

LogSttFailed(c) ==
  /\ stt[c] = "failing"
  /\ Log(c, "MODEL_FAILED:stt")
  /\ Emit(c, {"model_failed"})
  /\ stt' = [stt EXCEPT ![c] = "failed"]
  /\ UNCHANGED <<status, risk, transcript, expl, degraded, up, queue, bp, intake, pc,
                 locals, sttThread, gpuQ, bounds>>

LogSttRaises(c) ==
  /\ stt[c] = "failing" /\ faults < MaxFaults
  /\ faults' = faults + 1
  /\ stt' = [stt EXCEPT ![c] = "raised"]
  /\ UNCHANGED <<rows, up, queue, bp, intake, pc, locals, sttThread, gpuQ, sent,
                 explains, crashes>>

\* An abandoned thread ends.
SttThreadEnds(c) ==
  /\ sttThread[c] /\ stt[c] # "running"
  /\ sttThread' = [sttThread EXCEPT ![c] = FALSE]
  /\ UNCHANGED <<rows, up, queue, bp, intake, pc, locals, stt, gpuQ, sent, bounds>>

-----------------------------------------------------------------------------
(***************************************************************************)
(* Synthesis and the explanation row, _run_synthesis and save_explanation: *)
(* code the worker and the explain tasks share.  gpu_session is a FIFO     *)
(* asyncio.Lock, which a process holds while the model answers and gives   *)
(* up before it restarts the daemon.                                       *)
(***************************************************************************)

HoldsGpu(p) == gpuQ # <<>> /\ Head(gpuQ) = p

Generate(p) ==
  /\ At(p, "llm") /\ HoldsGpu(p)
  /\ gpuQ' = Tail(gpuQ)
  /\ out' = [out EXCEPT ![p] = "text"]
  /\ Goto(p, "save")
  /\ UNCHANGED <<rows, up, queue, bp, intake, wcase, deg, attempt, sttVars, sent, bounds>>

\* Mutants: the lock is kept over the restart; the attempt is not counted.
GenerateFailsHolding(p) ==
  /\ At(p, "llm") /\ HoldsGpu(p)
  /\ attempt' = [attempt EXCEPT ![p] = @ + 1]
  /\ Goto(p, "restart")
  /\ UNCHANGED <<rows, up, queue, bp, intake, wcase, deg, out, sttVars, gpuQ, sent, bounds>>

GenerateFailsUncounted(p) ==
  /\ At(p, "llm") /\ HoldsGpu(p)
  /\ gpuQ' = Tail(gpuQ)
  /\ Goto(p, "restart")
  /\ UNCHANGED <<rows, up, queue, bp, intake, locals, sttVars, sent, bounds>>

\* The model raises or wait_for times out.
GenerateFails(p) ==
  /\ At(p, "llm") /\ HoldsGpu(p)
  /\ gpuQ' = Tail(gpuQ)
  /\ attempt' = [attempt EXCEPT ![p] = @ + 1]
  /\ Goto(p, "restart")
  /\ UNCHANGED <<rows, up, queue, bp, intake, wcase, deg, out, sttVars, sent, bounds>>

\* orch.restart, whatever its outcome, then the next attempt or none.
RestartDaemon(p) ==
  /\ At(p, "restart")
  /\ \/ /\ attempt[p] < MaxAttempts
        /\ Goto(p, "llm")
        /\ gpuQ' = Append(gpuQ, p)
     \/ /\ attempt[p] = MaxAttempts
        /\ Goto(p, "logLlmFailed")
        /\ UNCHANGED gpuQ
  /\ UNCHANGED <<rows, up, queue, bp, intake, locals, sttVars, sent, bounds>>

LogLlmFailed(p) ==
  /\ At(p, "logLlmFailed")
  /\ Log(CaseOf(p), "MODEL_FAILED:llm")
  /\ Emit(CaseOf(p), {"model_failed"})
  /\ deg' = [deg EXCEPT ![p] = TRUE]
  /\ Goto(p, "save")
  /\ UNCHANGED <<status, risk, transcript, expl, degraded, up, queue, bp, intake,
                 wcase, out, attempt, sttVars, gpuQ, bounds>>

\* save_explanation: the SELECT that looks for the case's row ...
SelectExplanation(p) ==
  /\ At(p, "save")
  /\ Goto(p, IF expl[CaseOf(p)] = <<>> THEN "insert" ELSE "update")
  /\ UNCHANGED <<rows, up, queue, bp, intake, locals, sttVars, gpuQ, sent, bounds>>

\* What follows the save: the audit entry of an explanation, or the end of one
\* that is not available.  The event says that the model was asked: the worker
\* sends none when it only leaves the explanation to a later request.
Saved(p) ==
  \/ /\ out[p] = "text"
     /\ Goto(p, "logExpl")
     /\ UNCHANGED sent
  \/ /\ out[p] = "empty" /\ p # Worker
     /\ Goto(p, "degrade")
     /\ UNCHANGED sent
  \/ /\ out[p] = "empty" /\ p = Worker
     /\ Goto(p, IF deg[p] THEN "degrade" ELSE "finish")
     /\ Emit(wcase, IF ShouldRunLlm(risk[wcase]) THEN {"explanation_done"} ELSE {})

\* ... and the write of what it found: a new row, or the first by insertion,
\* which is the order SQLite returns the rows of the case_id index in.
InsertExplanation(p) ==
  /\ At(p, "insert")
  /\ expl' = [expl EXCEPT ![CaseOf(p)] = Append(@, out[p])]
  /\ Saved(p)
  /\ UNCHANGED <<status, risk, transcript, degraded, audit, up, queue, bp, intake,
                 locals, sttVars, gpuQ, bounds>>

UpdateExplanation(p) ==
  /\ At(p, "update")
  /\ expl' = [expl EXCEPT ![CaseOf(p)] = [@ EXCEPT ![1] = out[p]]]
  /\ Saved(p)
  /\ UNCHANGED <<status, risk, transcript, degraded, audit, up, queue, bp, intake,
                 locals, sttVars, gpuQ, bounds>>

LogExplanation(p) ==
  /\ At(p, "logExpl")
  /\ Log(CaseOf(p), "EXPLANATION_DONE")
  /\ Emit(CaseOf(p), {"explanation_done"})
  /\ Goto(p, IF p # Worker THEN "idle" ELSE IF deg[p] THEN "degrade" ELSE "finish")
  /\ UNCHANGED <<status, risk, transcript, expl, degraded, up, queue, bp, intake,
                 locals, sttVars, gpuQ, bounds>>

SetDegraded(p) ==
  /\ At(p, "degrade")
  /\ degraded' = [degraded EXCEPT ![CaseOf(p)] = TRUE]
  /\ \/ p = Worker /\ Goto(p, "finish") /\ UNCHANGED sent
     \/ p # Worker /\ Goto(p, "idle") /\ Emit(p, {"explanation_done"})
  /\ UNCHANGED <<status, risk, transcript, expl, audit, up, queue, bp, intake,
                 locals, sttVars, gpuQ, bounds>>

-----------------------------------------------------------------------------
(***************************************************************************)
(* On-demand explanations: POST /cases/{id}/explain, request_explain,      *)
(* _explain_task and explain_on_demand.  pc[c] # "idle" is membership of   *)
(* CaseWorker._explaining.                                                 *)
(***************************************************************************)

RequestExplain(c) ==
  /\ up /\ status[c] # "absent" /\ At(c, "idle")
  /\ explains < MaxExplains
  /\ explains' = explains + 1
  /\ deg' = [deg EXCEPT ![c] = FALSE]
  /\ out' = [out EXCEPT ![c] = "empty"]
  /\ attempt' = [attempt EXCEPT ![c] = 0]
  /\ Goto(c, "get")
  /\ UNCHANGED <<rows, up, queue, bp, intake, wcase, sttVars, gpuQ, sent, faults, crashes>>

\* Mutant: a case without a risk is explained.
ExplainLoadUnscored(c) ==
  /\ At(c, "get")
  /\ Goto(c, "llm")
  /\ gpuQ' = Append(gpuQ, c)
  /\ UNCHANGED <<rows, up, queue, bp, intake, locals, sttVars, sent, bounds>>

ExplainLoad(c) ==
  /\ At(c, "get") /\ risk[c] # "none"
  /\ Goto(c, "llm")
  /\ gpuQ' = Append(gpuQ, c)
  /\ UNCHANGED <<rows, up, queue, bp, intake, locals, sttVars, sent, bounds>>

\* Tier 1 has not finished: nothing to explain yet.
ExplainTooEarly(c) ==
  /\ At(c, "get") /\ risk[c] = "none"
  /\ Emit(c, {"model_failed"})
  /\ Goto(c, "idle")
  /\ UNCHANGED <<rows, up, queue, bp, intake, locals, sttVars, gpuQ, bounds>>

-----------------------------------------------------------------------------
(***************************************************************************)
(* Errors of the database, the end of the process, and startup.            *)
(***************************************************************************)

DbCalls ==
  {"begin", "load", "logDetFailed", "saveDet", "logDet", "saveRisk", "logRisk",
   "saveTranscript", "logStt", "logLlmFailed", "save", "insert", "update",
   "logExpl", "degrade", "finish", "get"}

\* The call that pc names raises and writes nothing: process() leaves its case
\* to the loop's handler, an explain task reports and ends.
DbFails(p) ==
  /\ pc[p] \in DbCalls /\ faults < MaxFaults
  /\ At(p, "saveTranscript") => stt[CaseOf(p)] \in {"ok", "silent", "failed"}
  /\ faults' = faults + 1
  /\ \/ p = Worker /\ Goto(p, "failing") /\ UNCHANGED sent
     \/ p # Worker /\ Goto(p, "idle") /\ Emit(p, {"model_failed"})
  /\ UNCHANGED <<rows, up, queue, bp, intake, locals, sttVars, gpuQ, explains, crashes>>

\* Memory goes, rows stay.
Crash ==
  /\ up /\ crashes < MaxCrashes
  /\ crashes' = crashes + 1
  /\ up' = FALSE
  /\ Reset
  /\ intake' = [c \in Case |-> IF intake[c] \in {"opened", "putting"}
                               THEN "aborted" ELSE intake[c]]
  /\ pc' = [p \in Proc |-> "idle"]
  /\ wcase' = NoCase
  /\ deg' = [p \in Proc |-> FALSE]
  /\ out' = [p \in Proc |-> "empty"]
  /\ attempt' = [p \in Proc |-> 0]
  /\ stt' = [c \in Case |-> "none"]
  /\ sttThread' = [c \in Case |-> FALSE]
  /\ gpuQ' = <<>>
  /\ UNCHANGED <<rows, sent, explains, faults>>

\* Mutants: startup fails every case; startup repairs none.
RecoveredAll == [c \in Case |-> IF status[c] # "absent" THEN "FAILED" ELSE status[c]]

RecoveredNone == status

\* recover_stuck.
Recovered == [c \in Case |-> IF status[c] = "PROCESSING" THEN "FAILED" ELSE status[c]]

\* The lifespan's startup, before the server takes its first request.
Restart ==
  /\ ~up
  /\ up' = TRUE
  /\ status' = Recovered
  /\ UNCHANGED <<risk, transcript, expl, degraded, audit, queue, bp, intake, pc,
                 locals, sttVars, gpuQ, sent, bounds>>

-----------------------------------------------------------------------------
IntakeStep(c) == LogCreated(c) \/ IntakeFails(c) \/ Enqueue(c)

SttTaskStep(c) == SttReturns(c) \/ SttTimeout(c) \/ LogSttFailed(c) \/ LogSttRaises(c)

ExplanationStep(p) ==
  \/ Generate(p) \/ GenerateFails(p) \/ RestartDaemon(p) \/ LogLlmFailed(p)
  \/ SelectExplanation(p) \/ InsertExplanation(p) \/ UpdateExplanation(p)
  \/ LogExplanation(p) \/ SetDegraded(p) \/ DbFails(p)

WorkerStep ==
  \/ Dequeue \/ Begin \/ Load \/ Detect \/ DetectFails \/ LogDetectionFailed
  \/ SaveDetections \/ LogDetection \/ SaveRisk \/ LogRisk \/ TellRisk
  \/ SaveTranscript \/ SaveNoTranscript \/ TranscriptRaises \/ LogStt
  \/ FinishCase \/ TellDone \/ FailCase \/ FailCaseUnsaved \/ TellFailed
  \/ ExplanationStep(Worker)

ExplainStep(c) == ExplainLoad(c) \/ ExplainTooEarly(c) \/ ExplanationStep(c)

Next ==
  \/ \E c \in Case : \/ CreateCase(c) \/ IntakeStep(c)
                     \/ SttPartial(c) \/ SttTaskStep(c) \/ SttThreadEnds(c)
                     \/ RequestExplain(c) \/ ExplainStep(c)
  \/ WorkerStep
  \/ Crash \/ Restart

Spec == Init /\ [][Next]_vars

(***************************************************************************)
(* A coroutine whose call has returned is resumed: the loop is fair to     *)
(* each process.  Calls return: wait_for bounds a transcription and a      *)
(* synthesis, SQLite's busy_timeout a statement; the detector has no       *)
(* timeout and is assumed to answer.  A supervisor starts the server       *)
(* again.                                                                  *)
(***************************************************************************)
Fairness ==
  /\ WF_vars(WorkerStep)
  /\ WF_vars(Restart)
  /\ \A c \in Case : /\ WF_vars(IntakeStep(c))
                     /\ WF_vars(SttTaskStep(c))
                     /\ WF_vars(ExplainStep(c))

FairSpec == Spec /\ Fairness

-----------------------------------------------------------------------------
(***************************************************************************)
(* Properties.                                                             *)
(***************************************************************************)

Statuses == {"absent", "PENDING", "PROCESSING", "DONE", "FAILED"}
Actions == {"CASE_CREATED", "DETECTION_DONE", "RISK_COMPUTED", "STT_DONE", "EXPLANATION_DONE",
            "MODEL_FAILED:detection", "MODEL_FAILED:stt", "MODEL_FAILED:llm"}
Events == {"case_created", "tier1_done", "alert", "stt_partial", "stt_done",
           "explanation_done", "model_failed", "case_done", "case_failed"}
Calls == DbCalls \cup {"idle", "detect", "tellRisk", "llm", "restart", "tellDone",
                       "failing", "tellFailed"}

TypeOK ==
  /\ status \in [Case -> Statuses]
  /\ risk \in [Case -> {"none", "LOW", "HIGH"}]
  /\ transcript \in [Case -> {"none", "empty", "text"}]
  /\ expl \in [Case -> Seq({"empty", "text"})]
  /\ degraded \in [Case -> BOOLEAN]
  /\ audit \in [Case -> SUBSET Actions]
  /\ up \in BOOLEAN
  /\ queue \in Seq(Case) /\ bp \in BOOLEAN
  /\ intake \in [Case -> {"none", "opened", "putting", "done", "aborted"}]
  /\ pc \in [Proc -> Calls]
  /\ wcase \in Case \cup {NoCase}
  /\ deg \in [Proc -> BOOLEAN]
  /\ out \in [Proc -> {"empty", "text"}]
  /\ attempt \in [Proc -> Nat]
  /\ stt \in [Case -> {"none", "running", "failing", "ok", "silent", "failed", "raised"}]
  /\ sttThread \in [Case -> BOOLEAN]
  /\ gpuQ \in Seq(Proc)
  /\ sent \in [Case -> SUBSET Events]
  /\ explains \in Nat /\ faults \in Nat /\ crashes \in Nat

\* A case is DONE only with everything the operator decides on: its risk, its
\* transcript row, an explanation row, and the audit entries of its creation
\* and its risk (process, worker.py lines 288-383).
DoneIsComplete ==
  \A c \in Case : status[c] = "DONE" =>
    /\ risk[c] # "none" /\ transcript[c] # "none" /\ expl[c] # <<>>
    /\ {"CASE_CREATED", "RISK_COMPUTED"} \subseteq audit[c]

\* Whoever reads the case on an event finds what the event announces, after
\* a crash too: tier 1 is pushed after it is persisted (worker.py line 320),
\* and so are the transcript, the explanation, the end and only real alerts.
AnnouncedIsPersisted ==
  \A c \in Case :
    /\ "tier1_done" \in sent[c] => risk[c] # "none" /\ "RISK_COMPUTED" \in audit[c]
    /\ "alert" \in sent[c] => risk[c] = "HIGH"
    /\ "stt_done" \in sent[c] => transcript[c] # "none"
    /\ "explanation_done" \in sent[c] => expl[c] # <<>>
    /\ "case_done" \in sent[c] => status[c] = "DONE"
    /\ "case_failed" \in sent[c] => status[c] # "DONE"

\* A case is not DONE and whole when a model it needed failed: a detector or
\* transcriber outage marks it, a missing detection is never a silent LOW, and
\* the mark has its MODEL_FAILED entry (worker.py lines 9-10, 347, 379).
DegradationIsVisible ==
  \A c \in Case :
    /\ status[c] = "DONE" /\ ( \/ {"MODEL_FAILED:detection", "MODEL_FAILED:stt"} \cap audit[c] # {}
                               \/ "DETECTION_DONE" \notin audit[c] )
         => degraded[c]
    /\ degraded[c] => {"MODEL_FAILED:detection", "MODEL_FAILED:stt", "MODEL_FAILED:llm"}
                      \cap audit[c] # {}

\* The score never waits for the language model nor depends on it: no
\* explanation is generated or stored for a case without a stored risk, neither
\* by the worker nor on demand (worker.py lines 6 and 429-432).
ExplanationFollowsRisk ==
  /\ \A c \in Case : expl[c] # <<>> => risk[c] # "none"
  /\ \A p \in Proc : pc[p] \in {"llm", "restart"} => risk[CaseOf(p)] # "none"

\* A PROCESSING case is the one the worker holds, unless the process is down,
\* which recover_stuck repairs, or the handler could not write FAILED, of which
\* the operator has been told (worker.py lines 117-123).
ProcessingHasOwner ==
  \A c \in Case : status[c] = "PROCESSING" =>
    ~up \/ wcase = c \/ "case_failed" \in sent[c]

\* A case waits in the queue at most once, and it waits untouched: registered
\* in the audit log, PENDING, with no row of a later stage, not in the
\* worker's hands (submit, case_intake.py lines 67-71).
QueuedOnce ==
  /\ \A i, j \in 1 .. Len(queue) : queue[i] = queue[j] => i = j
  /\ \A i \in 1 .. Len(queue) : LET c == queue[i] IN
       /\ c # wcase
       /\ status[c] = "PENDING" /\ "CASE_CREATED" \in audit[c]
       /\ risk[c] = "none" /\ transcript[c] = "none" /\ expl[c] = <<>>

\* The GPU lock is never leaked: in it and in its queue are exactly the
\* processes whose synthesis is on, each once (gpu_session, orchestrator.py
\* lines 91-96, released on every way out of worker.py lines 228-245).
GpuLockIsNotLeaked ==
  /\ \A i, j \in 1 .. Len(gpuQ) : gpuQ[i] = gpuQ[j] => i = j
  /\ \A p \in Proc : At(p, "llm") <=> \E i \in 1 .. Len(gpuQ) : gpuQ[i] = p

\* A stored risk is never rewritten: no later stage, request or restart may
\* change what the operator saw (worker.py lines 421-422).
RiskIsFinal ==
  [][\A c \in Case : risk[c] # "none" => risk'[c] = risk[c]]_vars

\* The case in the worker's hands, and of the events of each case those its
\* screens follow.
InHand == {wcase} \ {NoCase}

Milestones == {"case_created", "tier1_done", "case_done", "case_failed"}

Announced == [c \in Case |-> sent[c] \cap Milestones]

\* The pipeline implements the lifecycle its readers and listeners rely on: rows
\* and milestones move in the order that promises, over any failure and the end
\* of the process, also one between a write and its event (worker.py lines
\* 283-388).
L == INSTANCE CaseLifecycle WITH held <- InHand, told <- Announced
Lifecycle == L!LifecycleSpec

\* A failing model never costs a case: while the database answers, every
\* submission that is logged ends DONE, through any outcome of the three models
\* (worker.py lines 9-12).
EverySubmissionIsDone ==
  \A c \in Case : intake[c] = "putting" ~> status[c] = "DONE" \/ faults > 0

\* With database errors the case the worker took still ends in one of the two
\* events that end a case, so nobody waits for it forever.
EveryTakenCaseIsAnnounced ==
  \A c \in Case : wcase = c ~> {"case_done", "case_failed"} \cap sent[c] # {}

\* An accepted request for an explanation ends, and a new one can be made:
\* request_explain's set does not keep a case forever (worker.py lines 402-406).
ExplainEnds ==
  \A c \in Case : pc[c] # "idle" ~> pc[c] = "idle"

\* While the database answers, no case stays PROCESSING: what a crash leaves so,
\* startup turns to FAILED (main.py lines 79-82).
StuckIsRecovered ==
  \A c \in Case :
    status[c] = "PROCESSING" ~> status[c] \in {"DONE", "FAILED"} \/ faults > 0

-----------------------------------------------------------------------------
(***************************************************************************)
(* What the repository says of the code and the code does not keep.        *)
(***************************************************************************)

\* "Explanation one-to-one" (case_repository.py line 207).
OneExplanationRow == \A c \in Case : Len(expl[c]) <= 1

\* A requested explanation, once audited, is there to be read
\* (test_explain_endpoint.py line 50).
AuditedExplanationIsKept ==
  \A c \in Case : "EXPLANATION_DONE" \in audit[c] =>
    \E i \in 1 .. Len(expl[c]) : expl[c][i] = "text"

=============================================================================
