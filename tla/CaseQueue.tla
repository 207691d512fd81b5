------------------------------ MODULE CaseQueue ------------------------------
(***************************************************************************)
(* The worker's in-memory queue of case ids and its backpressure flag      *)
(* (backend/app/core/worker.py).  The queue is an asyncio.Queue of         *)
(* QueueMax places: a producer that finds it full waits, nothing is        *)
(* dropped.  The flag is edge triggered: it is raised when a put leaves    *)
(* High or more cases waiting and lowered when a get leaves Low or fewer.  *)
(* Settings give the two watermarks as ratios of QueueMax, here in         *)
(* percent.  The queue lives in memory: Reset is what a new process starts *)
(* with.                                                                   *)
(***************************************************************************)
EXTENDS Naturals, Sequences

CONSTANTS
  Case,         \* the ids of cases
  QueueMax,     \* Settings.queue_maxsize
  HighPercent,  \* 100 * Settings.queue_high_watermark_ratio
  LowPercent    \* 100 * Settings.queue_low_watermark_ratio

ASSUME QueueAssumption ==
  /\ QueueMax \in Nat \ {0}
  /\ HighPercent \in 0 .. 100
  /\ LowPercent \in 0 .. 100

VARIABLES
  queue,        \* CaseWorker._queue, head first
  bp            \* CaseWorker._bp_active

queueVars == <<queue, bp>>

\* int() truncates the product; the raising mark is never below one case.
High == LET mark == (QueueMax * HighPercent) \div 100
        IN  IF mark = 0 THEN 1 ELSE mark

Low == (QueueMax * LowPercent) \div 100

QueueInit ==
  /\ queue = <<>>
  /\ bp = FALSE

\* Mutant: the raising mark is not checked.
PutUnsignalled(c) ==
  /\ Len(queue) < QueueMax
  /\ queue' = Append(queue, c)
  /\ bp' = bp

\* enqueue: the put that waits while the queue is full, then, with no await in
\* between, the check of the raising mark.
Put(c) ==
  /\ Len(queue) < QueueMax
  /\ queue' = Append(queue, c)
  /\ bp' = (bp \/ Len(queue') >= High)

\* The get of the worker's loop and the check of the lowering mark after it.
Get ==
  /\ queue # <<>>
  /\ queue' = Tail(queue)
  /\ bp' = (bp /\ Len(queue') > Low)

\* A new CaseWorker: __init__ builds an empty queue and a lowered flag.
Reset ==
  /\ queue' = <<>>
  /\ bp' = FALSE

QueueNext ==
  \/ \E c \in Case : Put(c)
  \/ Get
  \/ Reset

QueueSpec == QueueInit /\ [][QueueNext]_queueVars

-----------------------------------------------------------------------------
QueueTypeOK ==
  /\ queue \in Seq(Case)
  /\ Len(queue) <= QueueMax
  /\ bp \in BOOLEAN

\* Hysteresis: with a real gap between the marks, the flag tells the operator
\* on which side the queue is.  A lowered flag means that the queue is below
\* the raising mark, a raised one that it has not drained to the lowering mark.
\* (worker.py lines 94-106; with QueueMax = 2 and the default ratios both marks
\* are 1, there is no gap and the flag says nothing.)
Hysteresis ==
  Low < High => /\ ~bp => Len(queue) < High
                /\ bp => Len(queue) > Low

=============================================================================
