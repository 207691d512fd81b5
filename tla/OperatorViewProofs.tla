------------------------- MODULE OperatorViewProofs -------------------------
(***************************************************************************)
(* Proofs about OperatorView: what a screen shows and what an operator may *)
(* decide on, for every set of screens and cases, every size of a buffer   *)
(* and any number of events, lost connections and restarts.                *)
(***************************************************************************)
EXTENDS OperatorView, EventBusProofs

Progress == {"case_created", "tier1_done"}

Kinds == Progress \cup Ending \cup {"backpressure", "explanation_token"}

Statuses == {"absent", "PENDING", "PROCESSING", "DONE", "FAILED"}

RowTypes ==
  /\ status \in [Case -> Statuses]
  /\ risk \in [Case -> {"none", "LOW", "HIGH"}]
  /\ told \in [Case -> SUBSET (Progress \cup Ending)]

ViewTypes ==
  /\ RowTypes
  /\ decided \in [Case -> Nat]
  /\ kind \in Seq(Kinds) /\ Len(kind) = Len(log)
  /\ watch \in [Sub -> Case \cup {None}]
  /\ shown \in [Sub -> Statuses]
  /\ result \in [Sub -> Statuses \cup {"none", "asked", "error"}]
  /\ decision \in [Sub -> {"none", "sent", "saved", "error"}]

\* The two ends of a case, which no later step takes back.  Nobody works on such
\* a case or takes it up again, though one whose failure has been announced may
\* still be called PENDING or PROCESSING.
Finished(c) == status[c] = "DONE" /\ risk[c] # "none" /\ c \notin held

Abandoned(c) ==
  "case_failed" \in told[c] /\ status[c] \in {"PENDING", "PROCESSING", "FAILED"} /\ c \notin held

\* What the worker holds and calls DONE has its score, and nothing outlives the
\* process.
HeldInv ==
  /\ \A c \in held : /\ c \in Case /\ status[c] # "absent"
                     /\ status[c] = "DONE" => risk[c] # "none"
  /\ ~up => held = {}

\* What was announced is so, and the progress of a case precedes its end.
ToldInv ==
  \A n \in 1 .. Len(log) :
    /\ kind[n] \in Progress \cup Ending => log[n] \in Case
    /\ kind[n] = "case_done" => Finished(log[n])
    /\ kind[n] = "case_failed" => Abandoned(log[n])
    /\ \A m \in 1 .. Len(log) :
         n < m /\ kind[n] \in Ending /\ log[m] = log[n] => kind[m] \notin Progress

DecidedInv == \A c \in Case : decided[c] > 0 => Finished(c)

\* A screen that shows an end waits for no progress of its case any more.
NoProgressWaits(v) ==
  shown[v] \in Terminal /\ v \in open =>
    \A n \in Waiting(v) : log[n] = watch[v] => kind[n] \notin Progress

ShownInv(v) ==
  /\ shown[v] = "DONE" => Finished(watch[v]) /\ result[v] \in {"asked", "error", "DONE"}
  /\ shown[v] = "FAILED" => Abandoned(watch[v]) /\ result[v] # "none"
  /\ result[v] # "none" => shown[v] \in Terminal
  /\ decision[v] # "none" => shown[v] = "DONE"
  /\ decision[v] = "saved" => decided[watch[v]] > 0

PlacedInv(v) ==
  /\ watch[v] = None => shown[v] = "PENDING" /\ v \notin open
  /\ watch[v] # None /\ v \in open => filter[v] = watch[v]

ScreenInv(v) == PlacedInv(v) /\ ShownInv(v) /\ NoProgressWaits(v)

ViewInv ==
  /\ BusInv /\ ViewTypes /\ HeldInv /\ ToldInv /\ DecidedInv
  /\ \A v \in Sub : ScreenInv(v)

\* No step takes an end back.
EndsStay ==
  \A c \in Case : (Finished(c) => Finished(c)') /\ (Abandoned(c) => Abandoned(c)')

-----------------------------------------------------------------------------
(***************************************************************************)
(* The rows and the log.                                                   *)
(***************************************************************************)

LEMMA NotBoth == ASSUME NEW c PROVE ~(Finished(c) /\ Abandoned(c))
  BY DEF Finished, Abandoned

LEMMA ToldStays ==
  ASSUME ViewInv, log' = log, kind' = kind, EndsStay
  PROVE  ToldInv'
  BY DEF ViewInv, ToldInv, EndsStay, Ending

\* An event of kind k about a is added.
LEMMA ToldGrows ==
  ASSUME ViewInv, EndsStay, NEW a \in About, NEW k \in Kinds,
         log' = Append(log, a), kind' = Append(kind, k),
         k \in Progress \cup Ending => a \in Case,
         k = "case_done" => Finished(a)',
         k = "case_failed" => Abandoned(a)',
         k \in Progress => ~Finished(a) /\ ~Abandoned(a)
  PROVE  ToldInv'
<1> DEFINE N == Len(log) + 1
<1>1. /\ Len(log') = N /\ N \in Nat /\ Len(log) \in Nat
      /\ log'[N] = a /\ kind'[N] = k
      /\ \A n \in 1 .. Len(log) : log'[n] = log[n] /\ kind'[n] = kind[n]
  BY DEF ViewInv, BusInv, BusTypeOK, ViewTypes
<1>2. 1 .. N = (1 .. Len(log)) \cup {N} /\ \A n \in 1 .. Len(log) : ~(N < n) /\ n # N
  BY <1>1
<1> HIDE DEF N
<1>3. ASSUME NEW n \in 1 .. Len(log)
      PROVE  /\ kind[n] \in Progress \cup Ending => log[n] \in Case
             /\ kind[n] = "case_done" => Finished(log[n]) /\ Finished(log[n])'
             /\ kind[n] = "case_failed" => Abandoned(log[n]) /\ Abandoned(log[n])'
  <2>1. /\ kind[n] \in Progress \cup Ending => log[n] \in Case
        /\ kind[n] = "case_done" => Finished(log[n])
        /\ kind[n] = "case_failed" => Abandoned(log[n])
    BY DEF ViewInv, ToldInv
  <2>2. log'[n] = log[n]
    BY <1>1
  <2> QED
    BY <2>1, <2>2 DEF EndsStay, Ending, Finished, Abandoned
<1>4. ASSUME NEW n \in 1 .. N
      PROVE  /\ kind'[n] \in Progress \cup Ending => log'[n] \in Case
             /\ kind'[n] = "case_done" => Finished(log[n])'
             /\ kind'[n] = "case_failed" => Abandoned(log[n])'
  BY <1>1, <1>2, <1>3 DEF Finished, Abandoned
<1>5. ASSUME NEW n \in 1 .. N, NEW m \in 1 .. N, n < m, kind'[n] \in Ending,
             log'[m] = log'[n]
      PROVE  kind'[m] \notin Progress
  <2>1. n \in 1 .. Len(log)
    BY <1>1, <1>2, <1>5
  <2>2. CASE m \in 1 .. Len(log)
    BY <1>1, <1>5, <2>1, <2>2 DEF ViewInv, ToldInv
  <2>3. CASE m = N
    BY <1>1, <1>3, <1>5, <2>1, <2>3 DEF Ending
  <2> QED
    BY <1>2, <2>2, <2>3
<1> QED
  BY <1>1, <1>4, <1>5 DEF ToldInv

-----------------------------------------------------------------------------
(***************************************************************************)
(* A screen that a step leaves alone.                                      *)
(***************************************************************************)

LEMMA WaitsStay ==
  ASSUME ViewInv, NEW v \in Sub, shown'[v] = shown[v], watch'[v] = watch[v],
         v \in open' => v \in open, log' = log, kind' = kind,
         buffer'[v] = buffer[v]
  PROVE  NoProgressWaits(v)'
  BY DEF ViewInv, ScreenInv, NoProgressWaits, Waiting

\* An event of kind k about a is published.
LEMMA WaitsGrow ==
  ASSUME ViewInv, NEW a \in About, FanOut(a), NEW k \in Kinds, kind' = Append(kind, k),
         NEW v \in Sub, shown'[v] = shown[v], watch'[v] = watch[v],
         shown[v] \in Terminal /\ watch[v] = a => k \notin Progress
  PROVE  NoProgressWaits(v)'
<1> DEFINE N == Len(log) + 1
<1>1. /\ N \in Nat /\ Len(log) \in Nat /\ log'[N] = a /\ kind'[N] = k
      /\ \A n \in 1 .. Len(log) : log'[n] = log[n] /\ kind'[n] = kind[n]
  BY DEF FanOut, ViewInv, BusInv, BusTypeOK, ViewTypes
<1>2. /\ open' = open /\ buffer[v] \in Seq(Nat)
      /\ buffer'[v] = IF v \in Reached(a) THEN Offer(v, N) ELSE buffer[v]
  BY DEF FanOut, ViewInv, BusInv, BusTypeOK
<1> HIDE DEF N
<1>3. Elems(buffer'[v]) \subseteq Elems(buffer[v]) \cup {N}
  <2>1. CASE v \in Reached(a) /\ IsFull(v)
    <3>1. buffer[v] # <<>> /\ Elems(Offer(v, N)) = Elems(Tail(buffer[v])) \cup {N}
      BY <1>1, <2>1, Offered DEF ViewInv, BusInv
    <3>2. Elems(Tail(buffer[v])) \subseteq Elems(buffer[v])
      BY <1>2, <3>1, TailFacts
    <3> QED
      BY <1>2, <2>1, <3>1, <3>2
  <2>2. CASE v \in Reached(a) /\ ~IsFull(v)
    BY <1>1, <1>2, <2>2, Offered DEF ViewInv, BusInv
  <2>3. CASE v \notin Reached(a)
    BY <1>2, <2>3
  <2> QED
    BY <2>1, <2>2, <2>3
<1>4. ASSUME shown[v] \in Terminal, v \in open, NEW n \in Waiting(v)',
             log'[n] = watch[v]
      PROVE  kind'[n] \notin Progress
  <2>1. n \in Elems(buffer[v]) \cup {N}
    BY <1>3 DEF Waiting, Elems
  <2>2. CASE n = N
    BY <1>1, <1>4, <2>2
  <2>3. CASE n \in Elems(buffer[v])
    <3>1. n \in Waiting(v)
      BY <2>3 DEF Waiting, Elems
    <3>2. n \in 1 .. Len(log)
      <4>1. n \in Expected(v) /\ joined[v] \in Nat
        BY <1>4, <3>1 DEF ViewInv, BusInv, BusTypeOK, SubInv, Accounted
      <4> QED
        BY <1>1, <4>1 DEF Expected
    <3> QED
      BY <1>1, <1>4, <3>1, <3>2 DEF ViewInv, ScreenInv, NoProgressWaits
  <2> QED
    BY <2>1, <2>2, <2>3
<1> QED
  BY <1>2, <1>4 DEF NoProgressWaits

LEMMA ScreenStays ==
  ASSUME ViewInv, EndsStay, NEW v \in Sub, NoProgressWaits(v)',
         watch'[v] = watch[v], shown'[v] = shown[v], result'[v] = result[v],
         decision'[v] = decision[v], filter'[v] = filter[v], v \in open' => v \in open,
         \A c \in Case : decided[c] > 0 => decided'[c] > 0
  PROVE  ScreenInv(v)'
<1>1. PlacedInv(v) /\ ShownInv(v) /\ watch[v] \in Case \cup {None}
  BY DEF ViewInv, ScreenInv, ViewTypes
<1>2. PlacedInv(v)'
  BY <1>1 DEF PlacedInv
<1>3. watch[v] \in Case \/ shown[v] = "PENDING"
  BY <1>1 DEF PlacedInv
<1>4. ShownInv(v)'
  BY <1>1, <1>3 DEF ShownInv, EndsStay, Terminal, Finished, Abandoned
<1> QED
  BY <1>2, <1>4 DEF ScreenInv

-----------------------------------------------------------------------------
(***************************************************************************)
(* The steps.  What each does to the bus, the rows and the log is shown     *)
(* once; a step then leaves most screens alone and moves one.              *)
(***************************************************************************)

LEMMA ViewInitInv == ViewInit => ViewInv
<1> SUFFICES ASSUME ViewInit PROVE ViewInv
  OBVIOUS
<1>1. BusInv
  BY BusInitInv DEF ViewInit
<1>2. ViewTypes
  BY DEF ViewInit, BusInit, Server!LifecycleInit, ViewTypes, RowTypes, Statuses
<1>3. HeldInv /\ ToldInv /\ DecidedInv
  BY DEF ViewInit, BusInit, Server!LifecycleInit, HeldInv, ToldInv, DecidedInv
<1>4. \A v \in Sub : ScreenInv(v)
  BY DEF ViewInit, BusInit, ScreenInv, PlacedInv, ShownInv, NoProgressWaits, Terminal
<1> QED
  BY <1>1, <1>2, <1>3, <1>4 DEF ViewInv

\* A case event of kind k is published while the rows move to the primed ones.
LEMMA AnnounceStep ==
  ASSUME ViewInv, NEW c \in Case, NEW k \in Kinds, Announce(c, k), EndsStay,
         UNCHANGED <<decided, up, watch, screenVars, stream>>,
         RowTypes', HeldInv',
         k = "case_done" => Finished(c)',
         k = "case_failed" => Abandoned(c)',
         k \in Progress => ~Finished(c) /\ ~Abandoned(c)
  PROVE  ViewInv'
<1>1. /\ c \in About /\ Publish(c) /\ FanOut(c)
      /\ kind' = Append(kind, k) /\ log' = Append(log, c)
  BY DEF Announce, Publish, FanOut, About
<1>2. BusInv'
  BY <1>1, BusStep DEF ViewInv, BusNext
<1>3. ViewTypes'
  BY <1>1 DEF ViewInv, ViewTypes, BusInv, BusTypeOK, screenVars
<1>4. ToldInv'
  BY <1>1, ToldGrows
<1>5. DecidedInv'
  BY DEF ViewInv, DecidedInv, EndsStay
<1>6. ASSUME NEW v \in Sub PROVE ScreenInv(v)'
  <2>1. shown[v] \in Terminal => Finished(watch[v]) \/ Abandoned(watch[v])
    BY DEF ViewInv, ScreenInv, ShownInv, Terminal
  <2>2. NoProgressWaits(v)'
    BY <1>1, <2>1, WaitsGrow DEF screenVars
  <2> QED
    BY <1>1, <2>2, ScreenStays DEF screenVars, FanOut
<1> QED
  BY <1>2, <1>3, <1>4, <1>5, <1>6 DEF ViewInv

\* The log, the ends and the screens stay: the bus and what waits
\* in it may only shrink.
LEMMA QuietStep ==
  ASSUME ViewInv, BusInv', EndsStay, HeldInv', UNCHANGED <<log, kind, watch, screenVars>>,
         RowTypes', decided' = decided,
         \A v \in Sub : v \in open' => /\ v \in open
                                       /\ buffer'[v] = buffer[v],
         filter' = filter
  PROVE  ViewInv'
<1>1. ViewTypes' /\ ToldInv' /\ DecidedInv'
  BY ToldStays DEF ViewInv, ViewTypes, DecidedInv, EndsStay, screenVars
<1>2. ASSUME NEW v \in Sub PROVE ScreenInv(v)'
  <2>1. NoProgressWaits(v)'
    BY WaitsStay DEF screenVars, NoProgressWaits
  <2> QED
    BY <2>1, ScreenStays DEF screenVars
<1> QED
  BY <1>1, <1>2 DEF ViewInv

\* What the backend does to a case takes no end back.
LEMMA ServerStep ==
  ASSUME RowTypes, HeldInv, up, up' = up, NEW c \in Case,
         \/ Server!Open(c) \/ Server!Register(c) \/ Server!Hold(c) \/ Server!Start(c)
         \/ Server!TellRisk(c) \/ Server!Degrade(c) \/ Server!Complete(c) \/ Server!TellDone(c)
         \/ Server!Fail(c) \/ Server!TellFailed(c)
         \/ \E level \in {"LOW", "HIGH"} : Server!Assess(c, level)
  PROVE  EndsStay /\ HeldInv' /\ RowTypes'
<1> USE DEF Server!Tell, RowTypes, HeldInv, EndsStay, Finished, Abandoned, Progress, Ending, Statuses
<1>1. CASE Server!Open(c)
  BY <1>1 DEF Server!Open
<1>2. CASE Server!Register(c)
  BY <1>2 DEF Server!Register
<1>3. CASE Server!Hold(c)
  BY <1>3 DEF Server!Hold
<1>4. CASE Server!Start(c)
  BY <1>4 DEF Server!Start
<1>5. ASSUME NEW level \in {"LOW", "HIGH"}, Server!Assess(c, level)
      PROVE  EndsStay /\ HeldInv' /\ RowTypes'
  BY <1>5 DEF Server!Assess
<1>6. CASE Server!TellRisk(c)
  BY <1>6 DEF Server!TellRisk
<1>7. CASE Server!Degrade(c)
  BY <1>7 DEF Server!Degrade
<1>8. CASE Server!Complete(c)
  BY <1>8 DEF Server!Complete
<1>9. CASE Server!Fail(c)
  BY <1>9 DEF Server!Fail
<1>10. CASE Server!TellDone(c)
  BY <1>10 DEF Server!TellDone
<1>11. CASE Server!TellFailed(c)
  BY <1>11 DEF Server!TellFailed
<1> QED
  BY <1>1, <1>2, <1>3, <1>4, <1>5, <1>6, <1>7, <1>8, <1>9, <1>10, <1>11

\* What is told of a case is not told of one at its end.
LEMMA MilestonesInTime ==
  ASSUME RowTypes, HeldInv, NEW c \in Case
  PROVE  /\ Server!Register(c) \/ Server!TellRisk(c) => ~Finished(c) /\ ~Abandoned(c)
         /\ Server!TellDone(c) => Finished(c)'
         /\ Server!TellFailed(c) => Abandoned(c)'
<1>1. Server!Register(c) \/ Server!TellRisk(c) => ~Finished(c) /\ ~Abandoned(c)
  BY DEF Server!Register, Server!TellRisk, Finished, Abandoned, HeldInv
<1>2. Server!TellDone(c) => Finished(c)'
  BY DEF Server!TellDone, Finished, HeldInv
<1>3. Server!Tell(c, "case_failed") => "case_failed" \in told'[c]
  BY DEF Server!Tell, RowTypes
<1>4. Server!TellFailed(c) => status[c] # "absent"
  BY DEF Server!TellFailed, HeldInv
<1>5. Server!TellFailed(c) => Abandoned(c)'
  BY <1>3, <1>4 DEF Server!TellFailed, Abandoned, RowTypes, Statuses
<1> QED
  BY <1>1, <1>2, <1>5

LEMMA BackendStep ==
  ASSUME ViewInv, NEW c \in Case, Backend(c)
  PROVE  ViewInv'
<1>1. /\ RowTypes /\ HeldInv /\ up /\ up' = up
      /\ UNCHANGED <<decided, up, watch, screenVars, stream>>
  BY DEF ViewInv, ViewTypes, Backend
<1>2. EndsStay /\ HeldInv' /\ RowTypes'
  BY <1>1, ServerStep DEF Backend
<1>3. CASE UNCHANGED <<busVars, kind>>
  <2>1. BusInv'
    BY <1>3, BusStep DEF ViewInv
  <2> QED
    BY <1>1, <1>2, <1>3, <2>1, QuietStep DEF busVars
<1>4. CASE Server!Register(c) /\ Announce(c, "case_created")
  BY <1>1, <1>2, <1>4, MilestonesInTime, AnnounceStep DEF Kinds, Progress
<1>5. CASE Server!TellRisk(c) /\ Announce(c, "tier1_done")
  BY <1>1, <1>2, <1>5, MilestonesInTime, AnnounceStep DEF Kinds, Progress
<1>6. CASE Server!TellDone(c) /\ Announce(c, "case_done")
  BY <1>1, <1>2, <1>6, MilestonesInTime, AnnounceStep DEF Kinds, Progress, Ending
<1>7. CASE Server!TellFailed(c) /\ Announce(c, "case_failed")
  BY <1>1, <1>2, <1>7, MilestonesInTime, AnnounceStep DEF Kinds, Progress, Ending
<1> QED
  BY <1>3, <1>4, <1>5, <1>6, <1>7 DEF Backend

LEMMA FailUnsavedStep ==
  ASSUME ViewInv, NEW c \in Case, FailUnsaved(c)
  PROVE  ViewInv'
<1>1. /\ RowTypes /\ HeldInv /\ up /\ up' = up
      /\ Server!TellFailed(c) /\ Announce(c, "case_failed")
      /\ UNCHANGED <<decided, up, watch, screenVars, stream>>
  BY DEF ViewInv, ViewTypes, FailUnsaved
<1>2. EndsStay /\ HeldInv' /\ RowTypes'
  BY <1>1, ServerStep
<1> QED
  BY <1>1, <1>2, MilestonesInTime, AnnounceStep DEF Kinds, Progress, Ending

\* An event of no case's progress or end, published by the loop for everyone or
\* for a thread.
LEMMA NoiseStep ==
  ASSUME ViewInv, NEW a \in About, FanOut(a), BusInv',
         NEW k \in {"backpressure", "explanation_token"}, kind' = Append(kind, k),
         UNCHANGED <<backVars, watch, screenVars>>
  PROVE  ViewInv'
<1>1. /\ k \in Kinds \ (Progress \cup Ending) /\ log' = Append(log, a)
      /\ k \notin {"case_done", "case_failed"} /\ EndsStay
  BY DEF Kinds, Progress, Ending, FanOut, backVars, caseVars, EndsStay, Finished, Abandoned
<1>2. ToldInv'
  BY <1>1, ToldGrows
<1>3. ViewTypes' /\ HeldInv' /\ DecidedInv'
  BY <1>1 DEF ViewInv, ViewTypes, RowTypes, BusInv, BusTypeOK, HeldInv, DecidedInv, Finished,
              screenVars, backVars, caseVars
<1>4. ASSUME NEW v \in Sub PROVE ScreenInv(v)'
  <2>1. NoProgressWaits(v)'
    BY <1>1, WaitsGrow DEF screenVars
  <2> QED
    BY <1>1, <2>1, ScreenStays DEF screenVars, backVars, FanOut
<1> QED
  BY <1>2, <1>3, <1>4 DEF ViewInv

\* The rows and the log stay, and a screen moves.
LEMMA ScreenStep ==
  ASSUME ViewInv, BusInv', NEW v \in Sub, ScreenInv(v)', ViewTypes',
         UNCHANGED <<log, kind, caseVars, up>>,
         \A c \in Case : decided[c] > 0 => decided'[c] > 0,
         \A c \in Case : decided'[c] > 0 => Finished(c),
         \A u \in Sub \ {v} :
           /\ watch'[u] = watch[u] /\ shown'[u] = shown[u] /\ result'[u] = result[u]
           /\ decision'[u] = decision[u] /\ filter'[u] = filter[u]
           /\ buffer'[u] = buffer[u] /\ (u \in open' => u \in open)
  PROVE  ViewInv'
<1>1. EndsStay /\ HeldInv' /\ DecidedInv'
  BY DEF ViewInv, caseVars, EndsStay, HeldInv, DecidedInv, Finished, Abandoned
<1>2. ToldInv'
  BY <1>1, ToldStays
<1>3. ASSUME NEW u \in Sub, u # v PROVE ScreenInv(u)'
  <2>1. u \in Sub \ {v}
    BY <1>3
  <2>2. NoProgressWaits(u)'
    BY <2>1, WaitsStay
  <2> QED
    BY <1>1, <2>1, <2>2, ScreenStays
<1> QED
  BY <1>1, <1>2, <1>3 DEF ViewInv

\* What a step of a screen finds of it.
LEMMA ScreenFacts ==
  ASSUME ViewInv, NEW v \in Sub
  PROVE  /\ ViewTypes /\ watch[v] \in Case \cup {None}
         /\ PlacedInv(v) /\ ShownInv(v) /\ NoProgressWaits(v)
         /\ result[v] # "none" => watch[v] \in Case
         /\ decision[v] # "none" => /\ watch[v] \in Case /\ Finished(watch[v])
                                    /\ shown[v] = "DONE"
         /\ \A c \in Case : decided[c] \in Nat /\ (decided[c] > 0 => Finished(c))
  BY DEF ViewInv, ViewTypes, ScreenInv, PlacedInv, ShownInv, Terminal, DecidedInv

\* No screen shows the other end of a case.
LEMMA ReceiveMoves ==
  ASSUME ViewInv, NEW v \in Sub, Receive(v)
  PROVE  /\ ScreenInv(v)' /\ shown'[v] \in Statuses
         /\ result'[v] \in Statuses \cup {"none", "asked", "error"}
         /\ shown[v] \in Terminal => shown'[v] = shown[v]
<1> DEFINE h == Head(buffer[v])
           now == Told(kind[h], shown[v])
<1>1. /\ v \in open /\ buffer[v] # <<>> /\ buffer[v] \in Seq(Nat)
      /\ buffer'[v] = Tail(buffer[v]) /\ open' = open /\ filter' = filter
      /\ UNCHANGED <<log, kind, watch, decision, caseVars, decided>>
  BY DEF Receive, Take, backVars, ViewInv, BusInv, BusTypeOK
<1>2. shown'[v] = now /\ result'[v] = AskFor(v, now)
  BY DEF Receive, ViewInv, ViewTypes
<1>3. /\ watch[v] \in Case /\ filter[v] = watch[v]
      /\ ShownInv(v) /\ NoProgressWaits(v) /\ PlacedInv(v)
      /\ shown[v] \in Statuses /\ result[v] \in Statuses \cup {"none", "asked", "error"}
  BY <1>1, ScreenFacts DEF PlacedInv, ViewTypes
<1>4. Waiting(v) = Elems(buffer[v]) /\ Waiting(v)' = Elems(Tail(buffer[v]))
  BY <1>1 DEF Waiting, Elems
<1>5. h \in Waiting(v) /\ Waiting(v)' \subseteq Waiting(v) /\ \A n \in Waiting(v)' : h < n
  <2>1. Increasing(buffer[v])
    BY <1>1 DEF ViewInv, BusInv, SubInv, Ordered
  <2> QED
    BY <1>1, <1>4, <2>1, TailFacts
<1>6. \A n \in Waiting(v) : n \in 1 .. Len(log) /\ Matches(watch[v], log[n])
  <2>1. /\ Waiting(v) \subseteq Expected(v) /\ joined[v] \in Nat
        /\ Len(log) \in Nat
    BY <1>1 DEF ViewInv, BusInv, BusTypeOK, SubInv, Accounted
  <2> QED
    BY <1>3, <2>1 DEF Expected
<1> HIDE DEF h
<1>7. /\ h \in 1 .. Len(log) /\ kind[h] \in Kinds
      /\ kind[h] \in Progress \cup Ending => log[h] = watch[v]
  <2>1. h \in 1 .. Len(log) /\ Matches(watch[v], log[h])
    BY <1>5, <1>6
  <2>2. kind[h] \in Kinds
    BY <2>1 DEF ViewInv, ViewTypes
  <2>3. kind[h] \in Progress \cup Ending => log[h] \in Case
    BY <2>1 DEF ViewInv, ToldInv
  <2> QED
    BY <1>3, <2>1, <2>2, <2>3, BusAssumption DEF Matches
<1>8. /\ kind[h] = "case_done" => Finished(watch[v])
      /\ kind[h] = "case_failed" => Abandoned(watch[v])
      /\ kind[h] \in Progress => shown[v] \notin Terminal
  BY <1>1, <1>3, <1>5, <1>7 DEF ViewInv, ToldInv, Ending, NoProgressWaits
<1>9. /\ kind[h] = "case_done" => now = "DONE"
      /\ kind[h] = "case_failed" => now = "FAILED"
      /\ kind[h] \in Progress => now = "PROCESSING"
      /\ kind[h] \notin Progress \cup Ending => now = shown[v]
  BY <1>7 DEF Told, Kinds, Progress, Ending
<1> HIDE DEF now
<1>10. kind[h] \in Progress \/ kind[h] \in {"case_done", "case_failed"}
         \/ kind[h] \notin Progress \cup Ending
  BY DEF Ending
<1>11. /\ shown[v] = "DONE" => Finished(watch[v])
       /\ shown[v] = "FAILED" => Abandoned(watch[v])
  BY <1>3 DEF ShownInv
<1>12. shown[v] \in Terminal => now = shown[v]
  BY <1>8, <1>9, <1>10, <1>11, NotBoth DEF Terminal
<1>13. /\ now = "DONE" => Finished(watch[v])
       /\ now = "FAILED" => Abandoned(watch[v])
       /\ now \in Statuses
  BY <1>3, <1>8, <1>9, <1>10, <1>11 DEF Statuses
<1>14. /\ now = "DONE" => result'[v] \in {"asked", "error", "DONE"}
       /\ now = "FAILED" => result'[v] # "none"
       /\ result'[v] # "none" => now \in Terminal
       /\ result'[v] \in Statuses \cup {"none", "asked", "error"}
  BY <1>2, <1>3, <1>12 DEF AskFor, ShownInv, Terminal
<1>15. ShownInv(v)'
  BY <1>1, <1>2, <1>3, <1>12, <1>13, <1>14
     DEF ShownInv, Terminal, Finished, Abandoned, caseVars
<1>16. NoProgressWaits(v)'
  <2>1. ASSUME NEW n \in Waiting(v)', log[n] = watch[v], now \in Terminal
        PROVE  kind[n] \notin Progress
    <3>1. n \in Waiting(v) /\ n \in 1 .. Len(log) /\ h < n
      BY <1>5, <1>6, <2>1
    <3>2. CASE kind[h] \in Ending
      BY <1>7, <2>1, <3>1, <3>2 DEF ViewInv, ToldInv
    <3>3. CASE kind[h] \in Progress
      BY <1>9, <2>1, <3>3 DEF Terminal
    <3>4. CASE kind[h] \notin Progress \cup Ending
      BY <1>1, <1>3, <1>9, <2>1, <3>1, <3>4 DEF NoProgressWaits
    <3> QED
      BY <3>2, <3>3, <3>4
  <2> QED
    BY <1>1, <1>2, <2>1 DEF NoProgressWaits
<1>17. PlacedInv(v)'
  BY <1>1, <1>3, ViewAssumption DEF PlacedInv
<1> QED
  BY <1>2, <1>12, <1>13, <1>14, <1>15, <1>16, <1>17 DEF ScreenInv

LEMMA LoopStep ==
  ASSUME ViewInv, Noise \/ RunToken \/ Crash \/ Recover
  PROVE  ViewInv'
<1>1. BusInv /\ ViewTypes /\ HeldInv
  BY DEF ViewInv
<1>2. ASSUME NEW c \in Case, Post(c), UNCHANGED kind,
             UNCHANGED <<backVars, watch, screenVars>>
      PROVE  ViewInv'
  <2>1. c \in About
    BY DEF About
  <2>2. BusInv'
    BY <1>1, <1>2, <2>1, BusStep DEF BusNext
  <2>3. EndsStay /\ HeldInv'
    BY <1>1, <1>2 DEF backVars, caseVars, EndsStay, Finished, Abandoned, HeldInv
  <2> QED
    BY <1>1, <1>2, <2>2, <2>3, QuietStep DEF Post, backVars, caseVars, ViewTypes, RowTypes
<1>3. ASSUME Publish(Everything), kind' = Append(kind, "backpressure"),
             UNCHANGED <<backVars, watch, screenVars>>
      PROVE  ViewInv'
  <2>1. Everything \in About /\ FanOut(Everything)
    BY <1>3 DEF About, Publish
  <2>2. BusInv'
    BY <1>1, <1>3, <2>1, BusStep DEF BusNext
  <2> QED
    BY <1>3, <2>1, <2>2, NoiseStep
<1>4. CASE RunToken
  <2>1. Head(posted) \in About /\ FanOut(Head(posted))
    BY <1>1, <1>4 DEF RunToken, RunPosted, BusInv, BusTypeOK
  <2>2. PICK a \in About : FanOut(a)
    BY <2>1
  <2>3. BusInv'
    BY <1>1, <1>4, BusStep DEF RunToken, BusNext
  <2> QED
    BY <1>4, <2>2, <2>3, NoiseStep DEF RunToken
<1>5. CASE Crash
  <2>1. BusInv'
    BY <1>1, <1>5, BusStep DEF Crash, BusNext
  <2>2. EndsStay /\ HeldInv' /\ RowTypes'
    BY <1>1, <1>5 DEF Crash, Server!Stop, EndsStay, Finished, Abandoned, HeldInv, RowTypes, ViewTypes
  <2> QED
    BY <1>1, <1>5, <2>1, <2>2, QuietStep DEF Crash, StopBus
<1>6. CASE Recover
  <2>1. BusInv'
    BY <1>1, <1>6, BusStep DEF Recover
  <2>2. /\ status' = [c \in Case |-> IF status[c] = "PROCESSING" THEN "FAILED" ELSE status[c]]
        /\ UNCHANGED <<risk, told, held>> /\ held = {}
    BY <1>6 DEF Recover, Server!Recover
  <2>3. EndsStay /\ HeldInv'
    BY <1>1, <2>2 DEF EndsStay, Finished, Abandoned, HeldInv
  <2>4. RowTypes'
    BY <1>1, <2>2 DEF RowTypes, ViewTypes, Statuses
  <2> QED
    BY <1>6, <2>1, <2>3, <2>4, QuietStep DEF Recover, busVars
<1> QED
  BY <1>1, <1>2, <1>3, <1>4, <1>5, <1>6 DEF Noise

\* The screen opens, connects, loses its connection or closes.
LEMMA PlacingStep ==
  ASSUME ViewInv, NEW v \in Sub,
         (\E c \in Case : OpenView(v, c)) \/ Connect(v) \/ Disconnect(v) \/ Leave(v)
  PROVE  ViewInv'
<1>1. /\ BusInv /\ ViewTypes /\ PlacedInv(v) /\ ShownInv(v) /\ NoProgressWaits(v)
      /\ watch[v] \in Case \cup {None} /\ None \notin Case
      /\ open \subseteq Sub
      /\ \A c \in Case : decided[c] \in Nat /\ (decided[c] > 0 => Finished(c))
  BY ScreenFacts, ViewAssumption DEF ViewInv, BusInv, BusTypeOK
<1>2. ASSUME NEW c \in Case, OpenView(v, c) PROVE ViewInv'
  <2>1. /\ watch[v] = None /\ watch'[v] = c /\ v \notin open /\ shown[v] = "PENDING"
        /\ result[v] = "none" /\ decision[v] = "none"
    BY <1>1, <1>2 DEF OpenView, PlacedInv, ShownInv, ViewTypes, Terminal
  <2>2. ScreenInv(v)'
    BY <1>1, <1>2, <2>1 DEF OpenView, busVars, screenVars, ScreenInv, PlacedInv,
       ShownInv, NoProgressWaits, Terminal
  <2>3. BusInv' /\ ViewTypes'
    BY <1>1, <1>2, BusStep
       DEF OpenView, ViewTypes, RowTypes, busVars, screenVars, backVars, caseVars
  <2> QED
    BY <1>1, <1>2, <2>2, <2>3, ScreenStep
       DEF OpenView, ViewTypes, busVars, screenVars, backVars, caseVars
<1>3. CASE Connect(v)
  <2>1. watch[v] \in Case /\ watch[v] \in About /\ Subscribe(v, watch[v])
    BY <1>1, <1>3 DEF Connect, About
  <2>2. BusInv'
    BY <1>1, <2>1, BusStep DEF BusNext
  <2>3. ViewTypes'
    BY <1>1, <1>3 DEF Connect, Subscribe, ViewTypes, RowTypes, screenVars, backVars, caseVars
  <2>4. filter'[v] = watch[v] /\ buffer'[v] = <<>>
    BY <1>1, <2>1 DEF Subscribe, BusInv, BusTypeOK
  <2>5. NoProgressWaits(v)'
    BY <2>4 DEF NoProgressWaits, Waiting
  <2>6. ScreenInv(v)'
    BY <1>1, <1>3, <2>1, <2>4, <2>5 DEF Connect, ScreenInv, PlacedInv, ShownInv,
       screenVars, backVars, caseVars, Finished, Abandoned
  <2>7. \A u \in Sub \ {v} : /\ filter'[u] = filter[u] /\ buffer'[u] = buffer[u]
                             /\ (u \in open' => u \in open)
    BY <1>1, <2>1 DEF Subscribe, BusInv, BusTypeOK
  <2> QED
    BY <1>1, <1>3, <2>1, <2>2, <2>3, <2>6, <2>7, ScreenStep
       DEF Connect, Subscribe, screenVars, backVars, caseVars
<1>4. CASE Disconnect(v)
  <2>1. BusInv'
    BY <1>1, <1>4, BusStep DEF Disconnect, BusNext
  <2>2. /\ EndsStay /\ HeldInv'
    BY <1>4 DEF Disconnect, ViewInv, backVars, caseVars, EndsStay, Finished, Abandoned, HeldInv
  <2>3. \A u \in Sub : u \in open' => u \in open /\ buffer'[u] = buffer[u]
    BY <1>1, <1>4 DEF Disconnect, Unsubscribe, BusInv, BusTypeOK
  <2> QED
    BY <1>1, <1>4, <2>1, <2>2, <2>3, QuietStep
       DEF Disconnect, Unsubscribe, backVars, caseVars, ViewTypes, RowTypes
<1>5. CASE Leave(v)
  <2>1. BusInv'
    BY <1>1, <1>5, BusStep DEF Leave, BusNext
  <2>2. /\ UNCHANGED <<log, filter>> /\ v \notin open'
        /\ \A u \in Sub \ {v} : buffer'[u] = buffer[u] /\ (u \in open' => u \in open)
    BY <1>1, <1>5 DEF Leave, Unsubscribe, busVars, BusInv, BusTypeOK
  <2>3. ViewTypes'
    BY <1>1, <1>5, <2>2 DEF Leave, ViewTypes, RowTypes, Statuses, backVars, caseVars
  <2>4. /\ watch'[v] = None /\ shown'[v] = "PENDING" /\ result'[v] = "none"
        /\ decision'[v] = "none"
    BY <1>1, <1>5 DEF Leave, ViewTypes
  <2>5. ScreenInv(v)'
    BY <2>2, <2>4 DEF ScreenInv, PlacedInv, ShownInv, NoProgressWaits, Terminal
  <2> QED
    BY <1>1, <1>5, <2>1, <2>2, <2>3, <2>5, ScreenStep
       DEF Leave, ViewTypes, backVars, caseVars
<1> QED
  BY <1>2, <1>3, <1>4, <1>5

LEMMA ReceiveStep ==
  ASSUME ViewInv, NEW v \in Sub, Receive(v)
  PROVE  ViewInv'
<1>1. BusInv /\ ViewTypes /\ DecidedInv
  BY DEF ViewInv
<1>2. BusInv'
  BY <1>1, BusStep DEF Receive, BusNext
<1>3. ViewTypes'
  BY <1>1, ReceiveMoves DEF Receive, Take, ViewTypes, RowTypes, backVars, caseVars
<1>4. \A u \in Sub \ {v} : buffer'[u] = buffer[u]
  BY <1>1 DEF Receive, Take, BusInv, BusTypeOK
<1> QED
  BY <1>1, <1>2, <1>3, <1>4, ReceiveMoves, ScreenStep
     DEF Receive, Take, ViewTypes, DecidedInv, backVars, caseVars

\* The screen reads its case, or the operator decides on it.
LEMMA RequestStep ==
  ASSUME ViewInv, NEW v \in Sub,
         Fetch(v) \/ FetchFails(v) \/ Decide(v) \/ LogDecision(v) \/ Poll(v)
  PROVE  ViewInv'
<1>1. /\ BusInv /\ ViewTypes /\ PlacedInv(v) /\ ShownInv(v) /\ NoProgressWaits(v)
      /\ result[v] # "none" => watch[v] \in Case
      /\ decision[v] # "none" => watch[v] \in Case /\ Finished(watch[v]) /\ shown[v] = "DONE"
      /\ \A c \in Case : decided[c] \in Nat /\ (decided[c] > 0 => Finished(c))
  BY ScreenFacts DEF ViewInv
<1>2. UNCHANGED busVars /\ UNCHANGED <<kind, caseVars, up, watch, shown>>
  BY DEF Fetch, FetchFails, Decide, LogDecision, Poll, backVars, screenVars
<1>3. BusInv' /\ NoProgressWaits(v)' /\ PlacedInv(v)'
  <2>1. BusInv'
    BY <1>1, <1>2, BusStep
  <2> QED
    BY <1>1, <1>2, <2>1, WaitsStay DEF busVars, PlacedInv
<1>4. ViewTypes' /\ ShownInv(v)'
  <2>1. CASE Fetch(v)
    <3>1. /\ watch[v] \in Case /\ shown[v] \in Terminal
          /\ result'[v] = status[watch[v]] /\ status[watch[v]] \in Statuses
      BY <1>1, <2>1 DEF Fetch, ViewTypes, RowTypes, ShownInv
    <3>2. ShownInv(v)'
      BY <1>1, <1>2, <2>1, <3>1 DEF Fetch, ShownInv, Finished, Abandoned, Terminal, caseVars,
         backVars, Statuses
    <3>3. ViewTypes'
      BY <1>1, <1>2, <2>1, <3>1 DEF Fetch, ViewTypes, RowTypes, caseVars, backVars, busVars
    <3> QED
      BY <3>2, <3>3
  <2>2. CASE FetchFails(v)
    BY <1>1, <1>2, <2>2 DEF FetchFails, ViewTypes, RowTypes, ShownInv, Finished, Abandoned, Terminal,
       caseVars, backVars, busVars
  <2>3. CASE Decide(v)
    BY <1>1, <1>2, <2>3 DEF Decide, CanDecide, ViewTypes, RowTypes, ShownInv, Finished, Abandoned,
       Terminal, caseVars, backVars, busVars
  <2>4. CASE LogDecision(v)
    <3>1. /\ watch[v] \in Case /\ shown[v] = "DONE" /\ decided[watch[v]] \in Nat
          /\ decided'[watch[v]] = decided[watch[v]] + 1
          /\ decision'[v] \in {"saved", "error"}
      BY <1>1, <2>4 DEF LogDecision, ViewTypes
    <3>2. ShownInv(v)'
      BY <1>1, <1>2, <2>4, <3>1 DEF LogDecision, ShownInv, Finished, Abandoned, caseVars
    <3>3. decided' \in [Case -> Nat]
      BY <1>1, <2>4, <3>1 DEF LogDecision, ViewTypes
    <3>4. ViewTypes'
      BY <1>1, <1>2, <2>4, <3>3 DEF LogDecision, ViewTypes, RowTypes, caseVars, busVars
    <3> QED
      BY <3>2, <3>4
  <2>5. CASE Poll(v)
    BY <1>1, <1>2, <2>5 DEF Poll, ViewTypes, RowTypes, ShownInv, Finished, Abandoned, caseVars,
       backVars, screenVars, busVars
  <2> QED
    BY <2>1, <2>2, <2>3, <2>4, <2>5
<1>5. \A c \in Case : /\ decided[c] > 0 => decided'[c] > 0
                      /\ decided'[c] > 0 => Finished(c)
  <2>1. CASE LogDecision(v)
    <3>1. watch[v] \in Case /\ Finished(watch[v]) /\ decided[watch[v]] \in Nat
      BY <1>1, <2>1 DEF LogDecision
    <3>2. \A c \in Case : decided'[c] = IF c = watch[v] THEN decided[c] + 1 ELSE decided[c]
      BY <1>1, <2>1 DEF LogDecision, ViewTypes
    <3> QED
      BY <1>1, <3>1, <3>2
  <2>2. CASE ~LogDecision(v)
    <3>1. decided' = decided
      BY <2>2 DEF Fetch, FetchFails, Decide, Poll, backVars
    <3> QED
      BY <1>1, <3>1
  <2> QED
    BY <2>1, <2>2
<1>6. \A u \in Sub \ {v} : result'[u] = result[u] /\ decision'[u] = decision[u]
  BY <1>1 DEF Fetch, FetchFails, Decide, LogDecision, Poll, ViewTypes, screenVars
<1>7. ScreenInv(v)'
  BY <1>3, <1>4 DEF ScreenInv
<1> QED
  BY <1>2, <1>3, <1>4, <1>5, <1>6, <1>7, ScreenStep DEF busVars

LEMMA ViewStep == ViewInv /\ [ViewNext]_vars => ViewInv'
<1> SUFFICES ASSUME ViewInv, [ViewNext]_vars PROVE ViewInv'
  OBVIOUS
<1>1. ASSUME NEW c \in Case, Backend(c) \/ FailUnsaved(c) PROVE ViewInv'
  BY <1>1, BackendStep, FailUnsavedStep
<1>2. CASE Noise \/ RunToken \/ Crash \/ Recover
  BY <1>2, LoopStep
<1>3. ASSUME NEW v \in Sub,
             (\E c \in Case : OpenView(v, c)) \/ Connect(v) \/ Disconnect(v) \/ Leave(v)
      PROVE  ViewInv'
  BY <1>3, PlacingStep
<1>4. ASSUME NEW v \in Sub, Receive(v) PROVE ViewInv'
  BY <1>4, ReceiveStep
<1>5. ASSUME NEW v \in Sub,
             Fetch(v) \/ FetchFails(v) \/ Decide(v) \/ LogDecision(v) \/ Poll(v)
      PROVE  ViewInv'
  BY <1>5, RequestStep
<1>6. CASE UNCHANGED vars
  <2>1. EndsStay /\ HeldInv' /\ BusInv'
    BY <1>6, BusStep DEF vars, backVars, caseVars, ViewInv, EndsStay, Finished, Abandoned, HeldInv
  <2> QED
    BY <1>6, <2>1, QuietStep DEF vars, busVars, backVars, caseVars, ViewInv, ViewTypes, RowTypes
<1> QED
  BY <1>1, <1>2, <1>3, <1>4, <1>5, <1>6 DEF ViewNext

-----------------------------------------------------------------------------
(***************************************************************************)
(* What follows for every behaviour.                                       *)
(***************************************************************************)

THEOREM ViewInvariance == ViewSpec => []ViewInv
  BY ViewInitInv, ViewStep, PTL DEF ViewSpec

\* No screen shows an end its case did not come to, whatever is delayed,
\* dropped or lost.
THEOREM ScreensAreTruthful == ViewSpec => []ScreenIsTruthful
<1>1. ViewInv => ScreenIsTruthful
  BY DEF ViewInv, ScreenInv, ShownInv, Finished, Abandoned, ScreenIsTruthful
<1> QED
  BY <1>1, ViewInvariance, PTL

\* Who decides has a score before him, and what is called saved is logged.
THEOREM DecisionsAreGrounded == ViewSpec => []DecisionsRestOnScore
<1>1. ViewInv => DecisionsRestOnScore
  BY DEF ViewInv, DecidedInv, ScreenInv, ShownInv, Finished, DecisionsRestOnScore
<1> QED
  BY <1>1, ViewInvariance, PTL

\* The end a screen shows is not taken back while it is open.
THEOREM EndsAreFinal == ViewSpec => ShownEndIsFinal
<1> DEFINE Stays(v) ==
      watch[v] # None /\ watch'[v] = watch[v] /\ shown[v] \in Terminal => shown'[v] = shown[v]
<1>1. ViewInv /\ [ViewNext]_vars => [\A v \in Sub : Stays(v)]_vars
  <2> SUFFICES ASSUME ViewInv, ViewNext, NEW v \in Sub,
                      watch[v] # None, watch'[v] = watch[v], shown[v] \in Terminal
               PROVE  shown'[v] = shown[v]
    OBVIOUS
  <2>1. ASSUME NEW u \in Sub, Receive(u) PROVE shown'[v] = shown[v]
    BY <2>1, ReceiveMoves DEF Receive, ViewInv, ViewTypes
  <2>2. ASSUME NEW u \in Sub, Leave(u) PROVE shown'[v] = shown[v]
    BY <2>2 DEF Leave, ViewInv, ViewTypes
  <2> QED
    BY <2>1, <2>2 DEF ViewNext, Backend, FailUnsaved, Noise, RunToken, Crash, Recover,
       OpenView, Connect, Disconnect, Fetch, FetchFails, Decide, LogDecision, Poll, screenVars
<1> QED
  BY <1>1, ViewInvariance, PTL DEF ViewSpec, ShownEndIsFinal

=============================================================================
