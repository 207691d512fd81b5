---------------------------- MODULE CaseLifecycle ----------------------------
(***************************************************************************)
(* What the backend promises to whoever reads a case (GET /cases/{id}, the *)
(* status stream, the case list) or listens to its events, with no queue,  *)
(* model or audit log in sight.  A case moves from PENDING through         *)
(* PROCESSING to DONE or FAILED and stays there; its risk is assessed once *)
(* by who holds it, announced after that and before the case is DONE, and  *)
(* never changes; a case once degraded is not whole again.  One case is    *)
(* held at a time, and each of its milestones is announced once, after the *)
(* row is written: a process that stops between the two leaves a row that  *)
(* is never announced.                                                     *)
(* CasePipeline implements this specification, and OperatorView rests on   *)
(* it.                                                                     *)
(***************************************************************************)

CONSTANT Case

VARIABLES
  status, risk, degraded,  \* the rows
  held,                    \* the case that is worked on, if any
  told                     \* per case, the milestones announced so far

lifecycleVars == <<status, risk, degraded, held, told>>

LifecycleInit ==
  /\ status = [c \in Case |-> "absent"]
  /\ risk = [c \in Case |-> "none"]
  /\ degraded = [c \in Case |-> FALSE]
  /\ held = {}
  /\ told = [c \in Case |-> {}]

Tell(c, milestone) == told' = [told EXCEPT ![c] = @ \cup {milestone}]

Open(c) ==
  /\ status[c] = "absent"
  /\ status' = [status EXCEPT ![c] = "PENDING"]
  /\ UNCHANGED <<risk, degraded, held, told>>

\* The case is known, and waits.
Register(c) ==
  /\ status[c] = "PENDING" /\ told[c] = {}
  /\ Tell(c, "case_created")
  /\ UNCHANGED <<status, risk, degraded, held>>

Hold(c) ==
  /\ held = {} /\ status[c] = "PENDING" /\ told[c] = {"case_created"}
  /\ held' = {c}
  /\ UNCHANGED <<status, risk, degraded, told>>

Start(c) ==
  /\ c \in held /\ status[c] = "PENDING"
  /\ status' = [status EXCEPT ![c] = "PROCESSING"]
  /\ UNCHANGED <<risk, degraded, held, told>>

Assess(c, level) ==
  /\ c \in held /\ status[c] = "PROCESSING" /\ risk[c] = "none"
  /\ risk' = [risk EXCEPT ![c] = level]
  /\ UNCHANGED <<status, degraded, held, told>>

TellRisk(c) ==
  /\ c \in held /\ status[c] = "PROCESSING"
  /\ risk[c] # "none" /\ "tier1_done" \notin told[c]
  /\ Tell(c, "tier1_done")
  /\ UNCHANGED <<status, risk, degraded, held>>

\* By who holds the case, or later by who explains it.
Degrade(c) ==
  /\ risk[c] # "none"
  /\ degraded' = [degraded EXCEPT ![c] = TRUE]
  /\ UNCHANGED <<status, risk, held, told>>

Complete(c) ==
  /\ c \in held /\ status[c] = "PROCESSING"
  /\ risk[c] # "none" /\ "tier1_done" \in told[c]
  /\ status' = [status EXCEPT ![c] = "DONE"]
  /\ UNCHANGED <<risk, degraded, held, told>>

TellDone(c) ==
  /\ c \in held /\ status[c] = "DONE"
  /\ held' = {}
  /\ Tell(c, "case_done")
  /\ UNCHANGED <<status, risk, degraded>>

Fail(c) ==
  /\ c \in held /\ status[c] \in {"PENDING", "PROCESSING"}
  /\ status' = [status EXCEPT ![c] = "FAILED"]
  /\ UNCHANGED <<risk, degraded, held, told>>

\* A failure is announced when it cannot be stored, too.
TellFailed(c) ==
  /\ c \in held /\ status[c] # "DONE"
  /\ held' = {}
  /\ Tell(c, "case_failed")
  /\ UNCHANGED <<status, risk, degraded>>

\* The process ends, and startup gives up what it has left unfinished.
Stop ==
  /\ held' = {}
  /\ UNCHANGED <<status, risk, degraded, told>>

Recover ==
  /\ held = {}
  /\ status' = [c \in Case |-> IF status[c] = "PROCESSING" THEN "FAILED" ELSE status[c]]
  /\ UNCHANGED <<risk, degraded, held, told>>

LifecycleNext ==
  \/ \E c \in Case :
       \/ Open(c) \/ Register(c) \/ Hold(c) \/ Start(c) \/ TellRisk(c)
       \/ Degrade(c) \/ Complete(c) \/ TellDone(c) \/ Fail(c) \/ TellFailed(c)
       \/ \E level \in {"LOW", "HIGH"} : Assess(c, level)
  \/ Stop \/ Recover

LifecycleSpec == LifecycleInit /\ [][LifecycleNext]_lifecycleVars

=============================================================================
