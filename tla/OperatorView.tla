---------------------------- MODULE OperatorView ----------------------------
(***************************************************************************)
(* The operator's screen over the event bus: the WebSocket relay           *)
(* (api/ws.py), the desktop client (renderer/src/api/client.ts and         *)
(* screens/CaseView.tsx), the status stream (stream_case in api/cases.py)  *)
(* and the decision (api/decisions.py).  The backend behind it is the      *)
(* CaseLifecycle that CasePipeline is proved to implement: each milestone  *)
(* it tells is an event that is published in the same step.                *)
(*                                                                         *)
(* A view opens when POST /cases has answered.  It starts at PENDING,      *)
(* moves on pushed events only, and reads the case once, when an event has *)
(* told it that the case ended.                                            *)
(***************************************************************************)
EXTENDS EventBus

CONSTANTS MaxNoise,   \* bound: tokens and backpressure warnings
          MaxBreaks,  \* bound: lost connections, requests and crashes
          None        \* a view that watches no case

ASSUME ViewAssumption ==
  /\ None \notin Case
  /\ {MaxNoise, MaxBreaks} \subseteq Nat
  /\ MaxEvents >= 3 * Cardinality(Case) + MaxNoise

VARIABLES
  \* ---- the backend ----
  status, risk, degraded, held, told,  \* as CaseLifecycle has them
  decided,   \* per case, the decisions in its audit log
  up,        \* the process runs
  kind,      \* per published event, its type
  \* ---- the screens ----
  watch,     \* per view, the case it shows, or None
  shown,     \* per view, its status
  result,    \* per view, the case it read: "none", "asked", "error" or a status
  decision,  \* per view, "none", "sent", "saved" or "error"
  stream,    \* per view, what GET .../stream told it last, or "off"
  noise, breaks

caseVars == <<status, risk, degraded, held, told>>
backVars == <<caseVars, decided, up>>
screenVars == <<shown, result, decision>>
vars == <<busVars, backVars, kind, watch, screenVars, stream, noise, breaks>>

Server == INSTANCE CaseLifecycle

Terminal == {"DONE", "FAILED"}

Ending == {"case_done", "case_failed"}

ViewInit ==
  /\ BusInit
  /\ Server!LifecycleInit
  /\ decided = [c \in Case |-> 0]
  /\ up = TRUE
  /\ kind = <<>>
  /\ watch = [v \in Sub |-> None]
  /\ shown = [v \in Sub |-> "PENDING"]
  /\ result = [v \in Sub |-> "none"]
  /\ decision = [v \in Sub |-> "none"]
  /\ stream = [v \in Sub |-> "off"]
  /\ noise = 0 /\ breaks = 0

-----------------------------------------------------------------------------
(***************************************************************************)
(* The backend, as far as it is seen.                                      *)
(***************************************************************************)

Announce(c, type) == Publish(c) /\ kind' = Append(kind, type)

Backend(c) ==
  /\ up
  /\ \/ /\ \/ Server!Open(c) \/ Server!Hold(c) \/ Server!Start(c) \/ Server!Degrade(c)
           \/ Server!Complete(c) \/ Server!Fail(c)
           \/ \E level \in {"LOW", "HIGH"} : Server!Assess(c, level)
        /\ UNCHANGED <<busVars, kind>>
     \/ Server!Register(c) /\ Announce(c, "case_created")
     \/ Server!TellRisk(c) /\ Announce(c, "tier1_done")
     \/ Server!TellDone(c) /\ Announce(c, "case_done")
     \/ status[c] = "FAILED" /\ Server!TellFailed(c) /\ Announce(c, "case_failed")
  /\ UNCHANGED <<decided, up, watch, screenVars, stream, noise, breaks>>

\* The failure of a case is announced and could not be stored.
FailUnsaved(c) ==
  /\ up /\ breaks < MaxBreaks
  /\ breaks' = breaks + 1
  /\ status[c] # "FAILED" /\ Server!TellFailed(c) /\ Announce(c, "case_failed")
  /\ UNCHANGED <<decided, up, watch, screenVars, stream, noise>>

\* Tokens of the models' threads, which may outlive the worker's pass (a failed
\* pass leaves its transcription running), and warnings that go to everyone.
Noise ==
  /\ up /\ noise < MaxNoise
  /\ noise' = noise + 1
  /\ \/ /\ \E c \in Case : status[c] \notin {"absent", "PENDING"} /\ Post(c)
        /\ UNCHANGED kind
     \/ Publish(Everything) /\ kind' = Append(kind, "backpressure")
  /\ UNCHANGED <<backVars, watch, screenVars, stream, breaks>>

RunToken ==
  /\ RunPosted
  /\ kind' = Append(kind, "explanation_token")
  /\ UNCHANGED <<backVars, watch, screenVars, stream, noise, breaks>>

Crash ==
  /\ up /\ breaks < MaxBreaks
  /\ breaks' = breaks + 1
  /\ up' = FALSE
  /\ Server!Stop
  /\ StopBus
  /\ stream' = [v \in Sub |-> "off"]
  /\ UNCHANGED <<decided, kind, watch, screenVars, noise>>

\* recover_stuck writes rows and publishes nothing.
Recover ==
  /\ ~up /\ up' = TRUE
  /\ Server!Recover
  /\ UNCHANGED <<busVars, decided, kind, watch, screenVars, stream, noise, breaks>>

-----------------------------------------------------------------------------
(***************************************************************************)
(* The screen.                                                             *)
(***************************************************************************)

OpenView(v, c) ==
  /\ watch[v] = None /\ status[c] # "absent"
  /\ watch' = [watch EXCEPT ![v] = c]
  /\ UNCHANGED <<busVars, backVars, kind, screenVars, stream, noise, breaks>>

\* connect and ws_endpoint: accept and subscribe.
Connect(v) ==
  /\ up /\ watch[v] # None
  /\ Subscribe(v, watch[v])
  /\ UNCHANGED <<backVars, kind, watch, screenVars, stream, noise, breaks>>

\* Either end closes, or the socket breaks; the client backs off and connects
\* again.  What waits in the buffer is gone.
Disconnect(v) ==
  /\ breaks < MaxBreaks
  /\ breaks' = breaks + 1
  /\ Unsubscribe(v)
  /\ UNCHANGED <<backVars, kind, watch, screenVars, stream, noise>>

\* Mutants: an event of the middle ends the view; noise is taken for progress.
ToldEarly(type, before) ==
  CASE type \in {"case_done", "tier1_done"} -> "DONE"
    [] type = "case_failed" -> "FAILED"
    [] OTHER -> before

ToldAgain(type, before) ==
  CASE type = "case_done" -> "DONE"
    [] type = "case_failed" -> "FAILED"
    [] OTHER -> "PROCESSING"

\* dispatch: the status an event sets.
Told(type, before) ==
  CASE type \in {"scan_ingested", "case_created", "tier1_done"} -> "PROCESSING"
    [] type = "case_done" -> "DONE"
    [] type = "case_failed" -> "FAILED"
    [] OTHER -> before

\* Mutant: the read is forgotten.
AskForNothing(v, now) == result[v]

\* The effect on status: the first time it is terminal, the case is read.
AskFor(v, now) ==
  IF now \in Terminal /\ now # shown[v] THEN "asked" ELSE result[v]

Receive(v) ==
  /\ Take(v)
  /\ LET now == Told(kind[Head(buffer[v])], shown[v]) IN
       /\ shown' = [shown EXCEPT ![v] = now]
       /\ result' = [result EXCEPT ![v] = AskFor(v, now)]
  /\ UNCHANGED <<backVars, kind, watch, decision, stream, noise, breaks>>

\* getCase answers, or fails and is not tried again.
Fetch(v) ==
  /\ up /\ result[v] = "asked"
  /\ result' = [result EXCEPT ![v] = status[watch[v]]]
  /\ UNCHANGED <<busVars, backVars, kind, watch, shown, decision, stream, noise, breaks>>

FetchFails(v) ==
  /\ result[v] = "asked" /\ breaks < MaxBreaks
  /\ breaks' = breaks + 1
  /\ result' = [result EXCEPT ![v] = "error"]
  /\ UNCHANGED <<busVars, backVars, kind, watch, shown, decision, stream, noise>>

\* Mutant: the bar is enabled whatever the case came to.
CanDecideAlways(v) == result[v] \notin {"none", "asked", "error"}

\* The decision bar: below a result, disabled when the case failed.
CanDecide(v) == result[v] \notin {"none", "asked", "error"} /\ shown[v] # "FAILED"

Decide(v) ==
  /\ CanDecide(v) /\ decision[v] \in {"none", "error"}
  /\ decision' = [decision EXCEPT ![v] = "sent"]
  /\ UNCHANGED <<busVars, backVars, kind, watch, shown, result, stream, noise, breaks>>

\* submit_decision writes one audit entry per request.  The answer may be lost
\* on the way; the operator may then decide again.
LogDecision(v) ==
  /\ up /\ decision[v] = "sent"
  /\ decided' = [decided EXCEPT ![watch[v]] = @ + 1]
  /\ \/ decision' = [decision EXCEPT ![v] = "saved"] /\ UNCHANGED breaks
     \/ /\ breaks < MaxBreaks /\ breaks' = breaks + 1
        /\ decision' = [decision EXCEPT ![v] = "error"]
  /\ UNCHANGED <<busVars, caseVars, up, kind, watch, shown, result, stream, noise>>

\* Unmount: the socket is closed and the screen's state goes.  (One who leaves
\* while a decision is on its way is left out.)
Leave(v) ==
  /\ watch[v] # None /\ decision[v] # "sent"
  /\ watch' = [watch EXCEPT ![v] = None]
  /\ shown' = [shown EXCEPT ![v] = "PENDING"]
  /\ result' = [result EXCEPT ![v] = "none"]
  /\ decision' = [decision EXCEPT ![v] = "none"]
  /\ IF v \in open THEN Unsubscribe(v) ELSE UNCHANGED busVars
  /\ stream' = [stream EXCEPT ![v] = "off"]
  /\ UNCHANGED <<backVars, kind, noise, breaks>>

\* Mutant: the loop leaves before it tells the end.
PollToTheEnd(v) ==
  /\ up /\ watch[v] # None /\ status[watch[v]] \notin Terminal
  /\ stream[v] # status[watch[v]]
  /\ stream' = [stream EXCEPT ![v] = status[watch[v]]]
  /\ UNCHANGED <<busVars, backVars, kind, watch, screenVars, noise, breaks>>

\* stream_case: the status is read again and again and told when it differs;
\* a terminal one is the last.
Poll(v) ==
  /\ up /\ watch[v] # None
  /\ stream[v] \notin Terminal /\ stream[v] # status[watch[v]]
  /\ stream' = [stream EXCEPT ![v] = status[watch[v]]]
  /\ UNCHANGED <<busVars, backVars, kind, watch, screenVars, noise, breaks>>

-----------------------------------------------------------------------------
ViewNext ==
  \/ \E c \in Case : Backend(c) \/ FailUnsaved(c)
  \/ Noise \/ RunToken \/ Crash \/ Recover
  \/ \E v \in Sub :
       \/ Connect(v) \/ Disconnect(v) \/ Receive(v)
       \/ Fetch(v) \/ FetchFails(v) \/ Decide(v) \/ LogDecision(v)
       \/ Leave(v) \/ Poll(v)
       \/ \E c \in Case : OpenView(v, c)

ViewSpec == ViewInit /\ [][ViewNext]_vars

\* The client reconnects until it is in, its socket is read, requests are
\* answered or fail, the stream keeps polling.  Nothing is assumed of the
\* operator, of the backend's progress or of faults.
ViewFairness ==
  /\ WF_vars(RunToken) /\ WF_vars(Recover)
  /\ \A v \in Sub : /\ WF_vars(Connect(v)) /\ WF_vars(Receive(v))
                    /\ WF_vars(Fetch(v)) /\ WF_vars(Poll(v))

FairViewSpec == ViewSpec /\ ViewFairness

-----------------------------------------------------------------------------
(***************************************************************************)
(* Properties.                                                             *)
(***************************************************************************)

\* A screen never shows an end the case did not come to: DONE means the row is
\* DONE, with its score, and the one read that follows finds it so, over any
\* delay, drop, reconnection or restart (CaseView.tsx lines 51-59).
ScreenIsTruthful ==
  \A v \in Sub : watch[v] # None =>
    /\ shown[v] = "DONE" => /\ status[watch[v]] = "DONE" /\ risk[watch[v]] # "none"
                            /\ result[v] \in {"asked", "error", "DONE"}
    /\ shown[v] = "FAILED" => status[watch[v]] # "DONE" /\ result[v] # "none"

\* The operator decides on a scored case that is done, and what the screen
\* calls saved is in the audit log: the server accepts a decision on any case
\* at any time (decisions.py lines 18-27), so this rests on the screen alone.
DecisionsRestOnScore ==
  /\ \A c \in Case : decided[c] > 0 => status[c] = "DONE" /\ risk[c] # "none"
  /\ \A v \in Sub : watch[v] # None /\ decision[v] = "saved" => decided[watch[v]] > 0

\* What a screen shows as the end stays while it is open: no late event of the
\* case, and no event of everyone, takes it back (client.ts lines 211-255).
ShownEndIsFinal ==
  [][\A v \in Sub : watch[v] # None /\ watch'[v] = watch[v] /\ shown[v] \in Terminal
                      => shown'[v] = shown[v]]_vars

\* The end of the case is among what the view's connection is to deliver.
EndIsDue(v) ==
  /\ v \in open
  /\ \E n \in Expected(v) \ lost[v] : kind[n] \in Ending

\* A view that was connected when the end was announced, whose connection
\* holds and which did not lose that very event, reads the case.
DueEndIsShown ==
  \A v \in Sub : EndIsDue(v) ~> result[v] \notin {"none", "asked"} \/ ~EndIsDue(v)

\* The status stream tells the end whenever it is asked: it reads the row, so it
\* needs no event (cases.py lines 102-123).
StreamTellsTheEnd ==
  \A v \in Sub :
    watch[v] # None /\ status[watch[v]] \in Terminal
      ~> watch[v] = None \/ stream[v] \in Terminal

\* "The result is shown as soon as it is ready" (CaseView.tsx line 107): once the
\* case is done and announced, at the latest.
ResultIsShown ==
  \A v \in Sub :
    watch[v] # None /\ status[watch[v]] = "DONE" /\ "case_done" \in told[watch[v]]
      ~> watch[v] = None \/ result[v] \notin {"none", "asked"}

=============================================================================
