# A verification project for customs-ai

`customs-ai` is an offline assistant for customs officers. A scanner or an
operator submits an X-ray image, with an optional voice note. The backend detects
objects, scores the risk with a deterministic rule engine, transcribes the note
and, for risky cases or on request, lets a language model explain the score. The
operator decides. The tier 1 answer (detection and score) must come at once, the
slow models must never change or hold up the score, a failing model must leave a
visible mark and never cost a case, and everything must be in the audit log.

This directory holds TLA+ models of that program, the TLC configurations that
check them on small instances, and theorems about them that TLAPS checks for every
value of the constants. Paths below are relative to `src/customs-ai/`.

## 1. The system

| Part | State it keeps | Operations | Interacts with |
|---|---|---|---|
| Case worker, `backend/app/core/worker.py` | in-memory queue, backpressure flag, set of cases being explained, locals of the running pass | `enqueue`, `_loop`, `process`, `request_explain`, `explain_on_demand`, `start`, `stop` | repository, audit, orchestrator, models (threads), event bus |
| Case intake, `services/case_intake.py` | none of its own | `submit`, `submit_threadsafe` | API and scanner call it; repository, file store, audit, worker, bus |
| Repository and audit, `repositories/case_repository.py`, `services/audit_service.py`, `models/guard.py` | rows: cases, attachments, detections, risk, transcript, explanation, audit entries | one short transaction per call | everyone, each call in a thread |
| GPU orchestrator, `core/orchestrator.py` | lock, daemon process | `gpu_session`, `start`, `stop`, `restart` | worker, lifespan |
| Event bus, `core/events.py` | subscriptions with bounded buffers, sequence number | `publish`, `publish_threadsafe`, `subscribe`, `close` | worker, intake, scanner threads, WebSockets |
| Scanner, `ingestion/watched_folder.py` | digests seen, thread pool, observer | `start`, `stop`, `_ingest_file`, `_claim` | file system, intake (from threads), bus |
| API, `api/*.py` | none | create, explain, list, stream, decide, speak, health | intake, worker, repository, bus |
| Lifespan, `main.py` | order of startup and shutdown | `recover_stuck`, starts, stops | all of the above |
| Risk engine and models, `pipelines/*.py` | none, or a loaded model | `compute_risk`, `detect`, `transcribe`, `generate_explanation` | worker |
| Desktop client, `desktop/src/renderer` | connection, backoff, merged view of a case | `connectEvents`, submit, decide | API, WebSocket |
| `ml/`, `stt/`, `deploy/`, mock server | none | offline tools, packaging | none at run time |

All of the backend's control runs on one asyncio loop. A coroutine runs
undisturbed from one `await` to the next, so interleavings happen between
awaited calls: the worker's pass, its transcription task, any number of explain
tasks and submissions. Models run in threads that `wait_for` abandons and does not
stop. Nothing but the database survives the process, and the queue is not in the
database.

What is hard, and where: `PROJECT.json` lists every hazard with its line. The main
ones are two writers of one explanation row; local decisions (`degraded`, the
explanation to save) that are stale when written; a crash between any two of some
fifteen writes; the failure of the handler of a failure; threads that outlive
their timeout; a lock that every error path must release once; retries; a queue
with a blocking put and an edge-triggered flag.

What makes each part correct:

- worker and intake: a case is queued once, processed once, ends once; nothing is
  announced before it is stored; the score is final and comes first; a model
  failure never costs a case and never goes unseen; every accepted request ends;
- orchestrator: one job on the daemon it keeps, no daemon forgotten, the lock always
  comes back;
- bus: a listener moves forward only, and no event it asked for goes missing
  uncounted;
- screen: it never shows an end the case did not come to, never takes one back, and
  lets nobody decide on a case without a score;
- scanner: each scan becomes one case, over copies, threads and restarts, and no
  half of one is taken for a whole;
- data: the score is monotone in what is detected and independent of order; no object
  of an answer that is read as the network means it is lost or told twice; no word is lost between chunks; the explanation says
  nothing that was not seen or said; a gate passes nothing it did not measure.

## 2. The modules

| Module | Models | Proofs |
|---|---|---|
| `CaseQueue` | the worker's queue and its backpressure flag | `CasePipelineProofs` |
| `CaseLifecycle` | abstract: what who reads a case or listens to it may see: its rows, who holds it and the milestones announced of it | |
| `CasePipeline` | intake, worker, transcription task, explain tasks, GPU lock, rows, audit, crash and startup recovery; EXTENDS `CaseQueue`, implements `CaseLifecycle` | `CasePipelineProofs` |
| `EventBus` | subscriptions, bounded buffers, numbering, publication from threads; implements `LossyFeed` | `EventBusProofs` |
| `LossyFeed` | abstract: a feed whose readers move forward and may miss | |
| `OperatorView` | WebSocket relay, desktop client, status stream, decisions; EXTENDS `EventBus`, with `CaseLifecycle` as its backend | `OperatorViewProofs` |
| `GpuOrchestrator` | daemon processes, start, stop, restart, sessions, threads that outlive a timeout | `GpuOrchestratorProofs` |
| `ScanIngestion` | watched folder, stability wait, claim by digest, submission, restart | `ScanIngestionProofs` |
| `RiskEngine`, `VisionPipeline` | the score and the detector's post-processing, as operators | `DetectionProofs` |
| `SpeechText`, `Synthesis`, `TrainingTools` | transcript, prompt and offline tools, as operators | `AssessmentProofs` |
| `Assessment` | composes those five as the worker calls them, with `build_providers` | `AssessmentProofs` |
| `Ranking`, `Rounding` | Python's `sorted` by counting and its comprehensions with a condition; its `round`, halves to even | `DataLemmas`, `DetectionProofs` |
| `DataLemmas` | lemmas on numbers, finite sets, folds and rankings, and on an asyncio lock's line, for every proof module that needs them | |
| `MC*` | the instances TLC checks | |

Three modules compose others. `CasePipeline` contains the queue and knows the GPU as
a lock and a call that answers, fails or times out; `GpuOrchestrator` opens up that
call. `OperatorView` knows the pipeline only as the `CaseLifecycle` that
`CasePipeline` is proved to implement, whose milestones are the events it publishes,
so that the screen's interleavings are explored without the worker's. `Assessment` says what
the calls return whose order and failures `CasePipeline` is about.

### CasePipeline

A step of a process is the call it awaits together with the code that follows, up
to the next `await`. `pc[p]` names the call that `p` makes next; `p` is the
worker or, for an explain task, its case (`request_explain` admits one per case,
so `pc[c] # "idle"` is membership of `_explaining`). The rows are `status`,
`risk`, `transcript`, `expl` (a sequence, since the table allows several rows for
one case), `degraded` and `audit`. `intake[c]` is where the submission of `c` is.
`stt[c]` and `sttThread[c]` are the transcription task and the thread it consumes
the transcriber in, which a timeout separates. `gpuQ` is the asyncio lock: the
holder, then those who wait, in order. `sent[c]` is history: the events published.

| Calls (`pc`) | Code |
|---|---|
| begin, load, detect, logDetFailed, saveDet, logDet, saveRisk, logRisk, tellRisk | tier 1 of `process` |
| saveTranscript, logStt | the await of `stt_task` and the transcript |
| llm, restart, logLlmFailed | `_run_synthesis`: wait for the lock and generate, restart outside the lock, last failure |
| save, then insert or update | the two statements of `save_explanation` |
| logExpl, degrade, finish, tellDone | audit, mark, DONE and its event (worker) or the final event (explain task) |
| failing, tellFailed | the loop's handler of an exception of `process`: the row, then the event |
| get | the read of `explain_on_demand` |

`DbFails(p)` lets any database call raise, with what its caller does then;
`IntakeFails`, `LogSttRaises` and `FailCaseUnsaved` do so for the calls outside
`pc`. `Crash` drops memory between any two steps and stands for `worker.stop` at
shutdown as well, which cancels and repairs nothing. Each model answers, fails or
times out at will.

The events a reader counts the life of a case by follow their write in a step of
their own: `LogRisk` and `TellRisk`, `FinishCase` and `TellDone`, `FailCase` or
`FailCaseUnsaved` and `TellFailed`. A crash between the two leaves a DONE or FAILED
row, or a RISK_COMPUTED entry, that is never announced. The others (`stt_done`,
`explanation_done`, `model_failed`) are sent in the step of their write: the
properties say of them only that what is announced is stored, which a crash between
the two cannot break. `case_created` follows the put with no await.

Abstractions: levels are LOW and HIGH, because MEDIUM takes LOW's branches;
detection rows, timings and texts carry no value beyond "there is one";
`set_timings` has no step of its own (its failure is that of the next call);
attachment files are part of the interval between row and audit entry of a
submission; `explanation_token` events are in `OperatorView`. A waiting submission
may be served before an earlier one, which asyncio does not do: more behaviours than
the code has, none that the properties depend on.

The abstract lifecycle is what the pipeline shows outside: the rows, the one case in
hand, and per case the milestones announced of it (`case_created`, `tier1_done`,
`case_done`, `case_failed`), each once and after its row: what is announced is so,
and what is so may, after a crash, never be announced. The refinement
mapping is the identity on `status`, `risk` and `degraded`; `held` is the worker's case
(`InHand`) and `told` are the milestones among the events sent (`Announced`).
CreateCase is Open, Enqueue is Register, Dequeue is Hold, Begin is Start, SaveRisk is
Assess, SetDegraded is Degrade, FinishCase is Complete, FailCase is Fail, Crash is Stop
and Restart is Recover; TellRisk, TellDone and TellFailed are themselves; every other
step stutters, FailCaseUnsaved among them.

### EventBus and OperatorView

`publish` and `_offer` have no await, so a publication and its fan-out are one step
(`FanOut`). `publish_threadsafe` is two: a thread posts, the loop publishes, and the
event has its number only then. An event is known by its number, `log[n]` is what it
was about. `given`, `lost`, `joined` and `last` are history: `dropped` is what
the code itself counts. `LossyFeed` is the promise: the feed grows, a reader comes in
at its end and reads on to any later event it wanted. The mapping reads `last` as its
cursor; drops stutter.

A view of `OperatorView` is a mounted `CaseView`: `shown` is the status pushed events
set (`Told` is `dispatch`), `result` the one read the effect on that status makes,
`decision` the decision bar, `stream` what `GET /cases/{id}/stream` told last.
Lost connections, failed requests, unsaved failures and a crash share the bound
`MaxBreaks`. `explanation_token` and backpressure are noise that fills buffers
and reaches a view at any time, also after its end. A backend that has restarted
numbers from 1 again; here numbers go on, since nobody compares the two.

### GpuOrchestrator

Each process ever started is an element of `daemon`; `tracked` is `_proc`. `Spawn` is
`Popen`, `StopFirst` is `restart` up to the wait inside `stop`, `EndReap` what follows
that wait: `_proc = None` for whatever is the daemon by then, and `start`. `terminate`
only tells a process to end (`Told` adds it to `ending`): it keeps the address and
answers whoever asks until it ends, before the ten seconds of the wait, after them or
never. Until then `process_alive` is true of it while it is tracked, a session may
generate on it (`Generating`), and a new daemon cannot bind the address and ends
(`Bind`). `threads` holds the generations that run, abandoned ones included; `Awaited`
are those of a synthesis' present attempt. `overlap` is history: a stop began while
another had not returned. `managed` chooses `manage_ollama`.

### ScanIngestion

The scanner writes, grows, renames and removes files at will; `steady` says that it
never pauses for as long as a poll. A digest is the scan and how much of it was read.
`thr[t]` is a pool thread with the file, last size and count of `_wait_stable`, `sub[f]`
the submission of what was read: row, attachment with the digest, audit and put, each
a step, because the look-up of a digest reads the attachment. `ReadAndClaim` is the
claim under its lock, with the database that does not answer (`blind`).

### Data

Numbers are scaled integers (tenths, thousandths, the four digits the score is rounded
to), classes are numbers, words and facts are values. `Remaining` truncates to a
thousandth of a millionth, within TLC's integers: no digit is lost up to three
detections, and beyond them the score is still monotone and independent of order, but
compared with the reference engine up to three only. `recall` is rounded to four digits,
as in the code.
The network's answer is the array as it comes, a sequence of candidates in tenths of a
pixel; `Rows` keeps `decode_yolo_output`'s guess which way it lies: it is turned only if
there are more candidates than 4 + classes, else the rows themselves are taken for
candidates, and with fewer than five columns there are none. The samples have both
kinds. `Letterbox` and `ToPixel` keep Python's rounding of halves. Pixels, the network, the
recognizer and the language model are external: any answer of a small set.
`Assessment` goes from a sample to its results: Look, Score, Listen, Explain and Hear for a
case, Measure for the tools.

## 3. The runs

| Run | Instance | Question |
|---|---|---|
| `PipelineCases` | 2 cases (symmetric), queue of 2 with marks 2 and 1, 2 attempts, 1 request | Do the queue, the flag, the lock and the order of score and explanation survive every interleaving of two cases and a request? |
| `PipelineFaults` | 1 case, 2 attempts, 2 requests, 2 database errors, 1 crash, fair | Is what is stored and announced consistent, does the pipeline implement the lifecycle, is a stuck case recovered and does every request end, when anything may fail? |
| `PipelineLiveness` | 2 cases, queue of 1, 2 attempts, 1 database error, fair | Does every submission end, and is every end announced? |
| `EventFeed` | 2 subscriptions, 2 cases, buffers of 2, 3 events | What is each listener given, what does it miss, in which order? Does the bus implement the feed? |
| `OperatorScreen` | 1 view, 1 case, buffer of 1, 4 events of which 1 is noise, 2 breaks, fair | What does a screen show, and what may its operator decide on? |
| `GpuSessions` | 2 syntheses, 2 attempts, 4 daemons, managed or not, fair | Is there one daemon and one job, and does the lock come back? |
| `ScanFolder` | 2 files that may be copies of 1 scan, 2 threads, size 2, 1 stable look, 1 error, 1 restart, fair | Is a scan one case, whole, and never refused for nothing? |
| `Assessment` | some thousand samples that vary one input at a time | Do the data operators agree with reference definitions? |
| `RefutedOneExplanationRow` | 1 case, 1 request | violated: two rows for one case |
| `RefutedAuditedExplanationIsKept` | 1 case, 1 request | violated: an audited explanation is overwritten |
| `RefutedOneGpuJob` | 2 syntheses, 2 attempts, 2 daemons | violated: a session generates beside the thread a timeout left behind |
| `RefutedResultIsShown` | 1 view, 1 case, no break, fair | violated: a view waits for an event that has passed |

### Bounds

Pipeline: two cases are the fewest of which one waits while the other is processed,
and the fewest for which the worker and a request of another case compete for the
GPU. One case with two requests reaches every interleaving of the worker with
requests for the same case, one after another. Two database errors reach the
failure of the handler of a failure, one crash with two errors a recovery after
them. Two attempts are the default (`llm_max_retries` = 1) and reach a retry, a
success after a retry and a last failure. With `AutoOnHigh` both branches of tier
2 occur, since a detected object scores LOW or HIGH at will. The marks 2 and 1
(100 and 50 percent of 2 places) are the smallest with a gap.

Bus and screen: three events overfill a buffer of two, and two subscriptions with two
cases and the whole system give every relation of two filters. A view with a buffer of
one loses an event to the next; an event of noise pushes the end out or follows it; two
breaks are a lost connection and a second one, or a lost answer and a crash.

Daemon: two syntheses reach overlapping restarts, which the history `overlap` marks;
four daemons are those of the startup and of three restarts, after which the
binary does not start any more, which is how a start that raises is reached. Scanner:
two files and two threads are a scan and its copy at once; size 2 with one stable look
is the smallest in which half a file can be stable. The samples cover ties,
empty boxes, answers of 0, 4, 5, 6 (misread) and 7 candidates for two classes, images far longer than wide, weights above one, floors replaced in part,
overlaps as long as a chunk, negative and longer, and every shape of a model's answer.

The proofs remove these bounds for the safety properties of section 5. Deadlock is
not checked: when every case is done and the bounds are spent, a server waits for
work and a sample is assessed.

### Fairness

The loop resumes a coroutine whose call has returned, so in `FairSpec` the worker, each
submission, each transcription task and each explain task are weakly fair. A call
returns because `wait_for` bounds transcription and synthesis (the failure is then the
step that is taken) and SQLite's busy timeout bounds a statement. Two assumptions are
not in the code: the detector, which runs without a timeout, answers; and a supervisor
starts the server again (`WF_vars(Restart)`). Nothing is assumed of clients, of errors
or of the abandoned threads. Liveness is checked without symmetry.

`FairViewSpec`: the client reconnects with a backoff that never gives up, its socket is
read, a read of the case is answered when the backend is up, the stream polls, posted
callbacks run and the server is started again. Nothing is assumed of the operator, of
faults, or that a case ends. `FairGpuSpec`: only the syntheses are fair, each call being
bounded by `wait_for`, by the ten seconds of `stop` and the thirty of `_wait_healthy`;
the daemon may never answer. `FairScanSpec`: threads run and give up after
`scanner_stable_timeout_s`, the loop serves submissions, the server is started again;
the scanner owes nothing.

Every property of a passing run has a mutant in `PROJECT.json`: an alternative
definition (for example `GenerateFailsHolding`, which keeps the lock over a
restart) that stands in the module before the one it would replace and is used by
nothing else.

## 4. What the runs found

- `save_explanation` reads and inserts in two statements. A pass and a request that
  interleave leave two rows, against "Explanation one-to-one" in
  `case_repository.py:207`. The conflict answer of `POST /cases/{id}/explain` does
  not prevent it: `request_explain` knows of other requests only.
- A pass that leaves the explanation to a later request saves an empty one. When
  the request came after the score and before that save, the generated text is
  gone, with EXPLANATION_DONE in the audit log and `explanation_done` published.
- A synthesis that times out leaves its thread, and the restart that follows only tells
  the daemon to end (`orchestrator.py:55`). Until it has, the next session finds it alive
  and generates on it as well, against "one GPU job at a time" in `orchestrator.py:92`.
  What does hold is `OneJobPerDaemon`: on a daemon that was not told to end there is
  one thread.
- A view reads its case only when an event tells it of an end, and no event is sent
  twice. If `case_done` is published while its socket is not open, the view shows
  the progress screen for ever (`CaseView.tsx:53`), though the status stream,
  which it does not use, would tell it (`StreamTellsTheEnd`).

Met while modelling, without a run:

- Queue. It is in memory, and `recover_stuck` is for PROCESSING cases, as it says: a case
  that was put on the queue and announced when the process ends stays PENDING for ever,
  and so does a row whose submission had not come to the put. Its status stream
  (`cases.py:104`) never comes to an end.
- Worker. An on-demand synthesis that fails logs MODEL_FAILED some awaits before it
  marks the case (`worker.py:447`), so a crash between leaves it unmarked, against
  `worker.py:9-10`. A transcription that timed out keeps its thread, which publishes
  `stt_partial` after `stt_done`; `test_streaming_relay.py:41` asserts the order of the
  first ones only. A synthesis may ask the model twice, each
  time with the whole of `llm_timeout_s`, which is all that `wait_for` gives to both.
- Orchestrator. Two syntheses can restart the daemon at once, because `restart` after a
  failed attempt is outside the lock: then one daemon may be started and forgotten,
  against "one owner" in `orchestrator.py:3`. `NoDaemonIsForgotten` and
  `OneJobPerDaemon` hold for behaviours without such an overlap, and say so; a daemon
  that was told to end and does not is forgotten in any case. With
  `manage_ollama` off nothing takes the daemon from an abandoned thread, and two jobs
  run at once too. A startup whose daemon does not become
  healthy leaves it running.
- Detector. An answer of no more candidates than 4 + classes is not turned
  (`yolo_postprocess.py:74`): its objects are misread, or there are none when it has fewer
  than five. `DetectionsAreSound` asks of such answers that what is told lies in the
  image, in order and without overlap, and only of the others that nothing is lost. The
  tests name many more candidates than classes as the format, and a network of the
  default 640 pixels answers thousands.
- Scanner. `watched_folder.py:63` means to lose nothing, yet a submission that
  failed leaves its digest claimed until the next start; one whose attachment row was
  written but that was not put is never put; a file that appears between the listing
  and the observer waits for the next start.
- Risk engine. `scoring.py:37-38` names readers of the advisory factor that do not exist.
  `scoring.py:32-33` speaks of no positive contribution, the code of no contribution: with
  a weight of zero the advisory is missing. A `thresholds` table with one entry
  replaces both of the defaults, and the missing one comes from `DecideLevel`.
- Tools and wiring. `merge_overlapping_segments` compares neighbours only, so a repeat
  that is not next to its first is kept. `corpus_wer` of empty references is 0 whatever
  was heard, `wer` of one such text is 1. A recall is rounded to four digits
  before the gate compares it (`evaluate.py:83`), so of 20000 ground truths one
  may be missed at a full 1.0: `EvaluationIsHonest` speaks of fewer. A detector's file that is missing makes
  `build_providers` fall back to a test double with a log line only.

## 5. What is proved

Assumptions: `QueueAssumption`, `PipelineAssumption`, `BusAssumption`, `ViewAssumption`,
`GpuAssumption`, `ScanAssumption`, `VisionAssumption`, `SampleAssumption` and
`BenchAssumption`: constants have their types, `Worker`, `NoCase`,
`None`, `Everything`, `Main` and `NoFile` are none of the things they stand beside,
there is at least one attempt, place and stable look, and the sets of files and of a taxonomy's classes are finite.
TLC evaluates each in a run. The theorems hold for any sets of cases, views, syntheses
and threads, any sizes and any number of requests, errors, breaks and crashes, and for
any image, answer of the network, configuration, recording, text and reply.

### Pipeline

The theorems of `CasePipelineProofs` rest on `Invariance`, `Spec => []IInv`. None
of the safety properties is inductive alone. `DoneIsComplete` needs to know what
the worker has stored at each call (`StageInv`), which needs a case that begins to
be untouched, hence that queued cases are (`QueueInv`), that a case is put once,
after its audit entry (`IntakeInv`), and that the process that is down has nothing
in memory (`HoldingInv`). Explain tasks write to cases the worker owns or has
ended: `ExplainInv` says that they write only where a risk is stored, which is why
they cannot disturb a queued or beginning case. `SettledInv` says that an announced
end is final, which `AnnouncedIsPersisted` needs after a failed write of FAILED.
`IInv` is the conjunction of these with `TypeOK` and three of the properties.

`TypeStep` and `CoreStep` go through the actions one by one; `EnqueueStep`,
`SavedStep` and `TaskEnds` are the steps that take an argument. Of the consequences,
`RiskNeverChanges` follows because `SaveRisk` happens to a case without a risk and
no other step touches one. `Refinement` maps every step: `OpenedIsOpen`,
`EnqueueRegisters`, `DequeueHolds`, `BeginStarts`, `SaveRiskAssesses`, `TellRiskTells`,
`FinishCompletes`, `FailCaseFails`, `EndsAreTold`, `DegradationDegrades`, `CrashStops` and
`RestartRecovers` each show that one is allowed, and three lemmas that the others
stutter. The milestones need more than `IInv`, which says that what is announced is
stored and not the converse: `MilestoneInv` adds that nothing is announced of a case
before it is put, that it is announced when it is put, and that `tier1_done` is sent
once the worker is past `tellRisk` and not before. Without it the worker might take a
case nobody was told of, or finish one whose score was not told. It says nothing of a
case the worker has lost to a crash, whose last milestone may be missing.
`QueueRefinement` shows the queue in the pipeline to be that of `CaseQueue`, so
`HysteresisHolds` carries over (`PipelineHysteresis`).

The second half of the module builds on that invariant. `DegradationIsVisible` is about two
writes that the failure and the mark are far apart in, with locals between them:
`PassInv` says what the worker remembers at each call of what was logged, `TaskInv` what
an explain task does, `SttInv` that a transcription is over before its case is, and
`UnseenInv` that no model has seen a case that waits. `LockComesBack` needs that a
process stands in the line exactly while its `pc` says so; the lemmas `JoinLine` and
`LeaveLine` of `DataLemmas` are the two moves of a line.

### Bus and screen

`BusInv` joins the type invariant with the three facts of each open subscription: its
account of events, the order of its buffer, and where it came in. The step that matters is
a fan-out to a full buffer (`FanOutReaches`): the oldest moves from what waits to
what is lost, the newest enters. `BusImplementsFeed` follows because what is taken is
newer than all that was given.

`ViewInv` is the longest argument of an end-to-end property. A screen may show DONE only
if the row is DONE; this needs that an announced end is so (`ToldInv`), that no later
step takes it back (`EndsStay`: a case whose end was announced is nobody's any more; DONE
with a risk stays, and a failure ends in nothing but FAILED, since only a case of
which no more than `case_created` was told is taken up), and that the screen is not set back to
PROCESSING: no progress of a case is announced after its end, and what waits in a
buffer is in that order (`NoProgressWaits`, from `BusInv`). `BusInv` is reused as it
stands, since each step of the view is one of the bus or leaves it alone.

### GPU and scanner

`GpuInv` adds to the properties that the daemon somebody waits to end is, without an
overlap, the one that is tracked and has been told to end or has ended (`ReapInv`), and
that a thread on a daemon that serves and was not told to end is that of the attempt a
synthesis in the session awaits (`ThreadInv`).
`ScanInv` adds that a path is in one place at a time, from the observer to the
submission (`PathInv`), that only one submission of a digest has still to attach
(`ClaimInv`), and that two equal looks at a steady scanner's file mean a complete one
(`ThreadInv`).

### Data

The state machine of `Assessment` is short, so its invariants are: `DataInv` (what the
detector gave has the type the engine takes, and the score stands for these detections
and this configuration), `TalkInv` (how long the conversation is after how many
questions, and in which language) and `BenchInv` (the report is of the sample it
stands beside). They are needed because a property of the last stage speaks of what
earlier ones chose. The weight of the proofs is in the operators, and the provers know
neither a fold nor a sort nor a recursive function. `DataLemmas` gives them a form:
induction is over a set of numbers that would have a least counterexample
(`SetInduction`), a fold is a sequence of its partial results (`FoldExists`,
`FoldSteps`), a rank is the number of elements that come before (`RankedInOrder`).

- `DetectionsHold`. Whatever the array is taken for, its rows are decoded to boxes
  (`RowsAre`, `DecodeIsBoxes`), and if it is turned these are the sure candidates. The set that suppression keeps after `n` boxes is that of a pruned
  sequence (`KeptIsPruned`), so that what is dropped has a kept box over it that came
  earlier, and is no less sure. `RoundWithin` and `ToPixelWithin` keep a box in the
  image through the letterbox and back.
- `RiskHolds`. A detection's place after sorting depends on the detections and not on
  their order (`NormalisedAnyOrder`), and leaving one out leaves the others in theirs
  (`NormalisedPart`); each factor only lowers what remains (`StepDown`), so a part
  of the detections scores no higher (`RiskOfPart`). Against the reference, three
  factors are exact and the two roundings are five apart (`SameToThreeDigits`).
- `ExplanationHolds`. `FactsAreGrounded` follows each fact of the prompt to a
  detection, the transcript or the score; `TalkInv` counts the messages.
- `SpeechHolds`. `PlanCovers`: the chunks advance and leave no gap whatever overlap is
  asked for. `CollectedGathers`, `InOrderSorts`, `MergeKeeps` and `JoinedTells` carry
  each word through gather, sort, merge and join; `LaterHearsMore` is why nothing
  told is taken back.
- `EvaluationHolds`. The table of edit distances exists and is what the rows compute
  (`DistanceExists`, `EditDistanceIs`), and each of its cells is the cost of a cheapest
  alignment of two prefixes (`CheapestStep`, over the last pair of an alignment). A
  corpus's rate lies between those of its texts as a mediant does (`CorpusBetween`).
  The greedy matching of recall is maximal, and a maximal pairing has at least half as
  many pairs as any other (`GreedyIsHalf`). `NotRoundedUp` is why a full rate means
  that nothing was missed, below 20000 ground truths. `RemapKeepsNames` is about
  a class that stands in two places.

### Only model-checked

The liveness properties: `StuckIsRecovered`, `ExplainEnds`, `EverySubmissionIsDone`,
`EveryTakenCaseIsAnnounced`, `DueEndIsShown`, `StreamTellsTheEnd`, `EveryRequestEnds`,
`EveryPathIsAnswered` and `EveryClaimEnters`. They need fairness, hence ENABLED, which
is beyond the prover. Every invariant and every action property of a passing run is a
theorem.

## 6. Not modelled

- Electron shell, mock server, installer and packaging: no state another part depends on.
- Training loops, augmentation and latency measurement (`ml/`, `stt/`): calls of
  libraries, with no decision of their own beyond those in `TrainingTools`.
- Timings, the filters of the case list, speech synthesis and health: they keep no state.
- The database guard of the audit log (`models/guard.py`): no operation updates or
  deletes an entry, so there is nothing for it to refuse.
- The detector's missing timeout: the fairness assumes that it answers, and every
  property of the worker's progress rests on that.
- The size of the loop's thread pool, which abandoned threads share with the database:
  out of reach at its real size, and false by the bound alone at a small one.
- Two loads of one lazy model at once (`speech.py:79`): both load, the last stays.
- An upload that is sent twice: nothing recognises it, in the code as in the model.
