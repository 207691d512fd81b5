---------------------------- MODULE ScanIngestion ----------------------------
(***************************************************************************)
(* The watched folder (ingestion/watched_folder.py) and the way of a scan  *)
(* into the pipeline (CaseIntake.submit_threadsafe and submit): a scanner  *)
(* writes files; the observer's thread hands their paths to a pool of      *)
(* threads; a thread waits until a file is stable, reads it, claims its    *)
(* digest and posts a submission to the loop, which opens the case, stores *)
(* the attachment with the digest, logs and puts.  Rows survive the        *)
(* process, the set of digests seen does not.                              *)
(*                                                                         *)
(* A digest stands for what was read: the scan and how much of it.         *)
(***************************************************************************)
EXTENDS Integers, Sequences, FiniteSets

CONSTANTS
  File,         \* paths the scanner writes to, each once
  Scan,         \* what it writes; two files may hold copies of one scan
  Thread,       \* the pool's threads
  FullSize,     \* bound: the size of a complete file
  StableChecks, \* Settings.scanner_stable_checks
  MaxFaults,    \* bound: errors of the disk and the database
  MaxCrashes,   \* bound: ends of the process
  NoFile        \* a thread that holds no file

ASSUME ScanAssumption ==
  /\ NoFile \notin File /\ IsFiniteSet(File)
  /\ FullSize \in Nat \ {0} /\ StableChecks \in Nat \ {0}
  /\ {MaxFaults, MaxCrashes} \subseteq Nat

Digest == Scan \X (1 .. FullSize)

VARIABLES
  \* ---- the folder ----
  scan,      \* what each file holds or will hold
  name,      \* "absent", "tmp" (a name that is no candidate) or "final"
  size,
  steady,    \* the scanner never pauses for as long as a poll takes
  \* ---- rows ----
  cases,     \* per digest, the cases opened for it
  attached,  \* per digest, the attachment rows with it
  \* ---- the process ----
  phase,     \* "down", "listed" (before the observer starts) or "up"
  pool,      \* paths dispatched that no thread has taken
  thr,       \* per thread, its file, stage, last size and count of equal sizes
  seen,      \* _seen_sha
  sub,       \* per file, the submission of what was read of it
  \* ---- history ----
  entered,   \* digests put into the worker's queue, by any process
  blind,     \* digests claimed while the database did not answer
  faults, crashes

folder == <<scan, name, size, steady>>
scanRows == <<cases, attached>>
memory == <<phase, pool, thr, seen, sub>>
history == <<entered, blind, faults, crashes>>
scanVars == <<folder, scanRows, memory, history>>

Idle == [file |-> NoFile, stage |-> "idle", last |-> -1, equal |-> 0]

DigestOf(f) == <<scan[f], size[f]>>

NothingSent == [stage |-> "none", digest |-> <<>>]

Submission == [stage : {"posted", "opened", "attached", "put", "failed"}, digest : Digest]

ScanInit ==
  /\ scan \in [File -> Scan]
  /\ name = [f \in File |-> "absent"]
  /\ size = [f \in File |-> 0]
  /\ steady \in BOOLEAN
  /\ cases = [d \in Digest |-> 0]
  /\ attached = [d \in Digest |-> 0]
  /\ phase = "down"
  /\ pool = <<>>
  /\ thr = [t \in Thread |-> Idle]
  /\ seen = {}
  /\ sub = [f \in File |-> NothingSent]
  /\ entered = {} /\ blind = {}
  /\ faults = 0 /\ crashes = 0

-----------------------------------------------------------------------------
(***************************************************************************)
(* The scanner, and whoever clears the folder.                             *)
(***************************************************************************)

\* The observer tells of a name that appears while it runs.
Appears(f) ==
  /\ name' = [name EXCEPT ![f] = "final"]
  /\ pool' = IF phase = "up" THEN Append(pool, f) ELSE pool

Write(f) ==
  /\ name[f] = "absent" /\ size[f] = 0
  /\ \/ Appears(f)
     \/ name' = [name EXCEPT ![f] = "tmp"] /\ UNCHANGED pool
  /\ UNCHANGED <<scan, size, steady, scanRows, phase, thr, seen, sub, history>>

Grow(f) ==
  /\ name[f] # "absent" /\ size[f] < FullSize
  /\ size' = [size EXCEPT ![f] = @ + 1]
  /\ UNCHANGED <<scan, name, steady, scanRows, memory, history>>

\* Many scanners rename a file when it is complete.
Rename(f) ==
  /\ name[f] = "tmp" /\ size[f] = FullSize
  /\ Appears(f)
  /\ UNCHANGED <<scan, size, steady, scanRows, phase, thr, seen, sub, history>>

Remove(f) ==
  /\ name[f] = "final" /\ size[f] > 0
  /\ name' = [name EXCEPT ![f] = "absent"]
  /\ UNCHANGED <<scan, size, steady, scanRows, memory, history>>

-----------------------------------------------------------------------------
(***************************************************************************)
(* The process: start, the pool, a submission, the end.                    *)
(***************************************************************************)

Candidates == {f \in File : name[f] = "final"}

\* start, first half: what stands in the folder is dispatched.
List ==
  /\ phase = "down"
  /\ phase' = "listed"
  /\ \E order \in [1 .. Cardinality(Candidates) -> Candidates] :
       /\ \A f \in Candidates : \E i \in DOMAIN order : order[i] = f
       /\ \A i, j \in DOMAIN order : order[i] = order[j] => i = j
       /\ pool' = order
  /\ UNCHANGED <<folder, scanRows, thr, seen, sub, history>>

\* Second half: the observer starts.
Watch ==
  /\ phase = "listed"
  /\ phase' = "up"
  /\ UNCHANGED <<folder, scanRows, pool, thr, seen, sub, history>>

\* The thread is back in the pool; what came of the file is logged, or not.
Finish(t) == thr' = [thr EXCEPT ![t] = Idle]

TakePath(t) ==
  /\ phase # "down" /\ thr[t].stage = "idle" /\ pool # <<>>
  /\ thr' = [thr EXCEPT ![t] = [file |-> Head(pool), stage |-> "poll",
                                last |-> -1, equal |-> 0]]
  /\ pool' = Tail(pool)
  /\ UNCHANGED <<folder, scanRows, phase, seen, sub, history>>

\* Mutants: the first size above zero will do; one look too many.
IsStableAtOnce(s, equal) == s > 0

IsStableLate(s, equal) == equal > StableChecks

IsStable(s, equal) == equal >= StableChecks

\* _wait_stable, one look at the size.  A steady scanner has written since the
\* last look, unless it was done.
Poll(t) ==
  LET f == thr[t].file
      equal == IF size[f] > 0 /\ size[f] = thr[t].last THEN thr[t].equal + 1 ELSE 0
  IN /\ thr[t].stage = "poll" /\ name[f] = "final"
     /\ steady => size[f] = FullSize \/ size[f] # thr[t].last
     /\ thr' = [thr EXCEPT ![t] =
                  [file |-> f, stage |-> IF IsStable(size[f], equal) THEN "read" ELSE "poll",
                   last |-> size[f], equal |-> equal]]
     /\ UNCHANGED <<folder, scanRows, phase, pool, seen, sub, history>>

\* Mutant: no deadline; only a file that is gone ends the poll.
GiveUpWhenGone(t) ==
  /\ thr[t].stage = "poll" /\ name[thr[t].file] # "final"
  /\ Finish(t)
  /\ UNCHANGED <<folder, scanRows, phase, pool, seen, sub, history>>

\* The file is gone, or it was not stable in time: however complete, it is
\* looked at again only after a restart.
GiveUpPolling(t) ==
  /\ thr[t].stage = "poll"
  /\ Finish(t)
  /\ UNCHANGED <<folder, scanRows, phase, pool, seen, sub, history>>

\* Mutant: the claim looks at the database alone.
ClaimedInDb(d) == attached[d] > 0

\* A digest this process has seen, or one with a row.
Claimed(d) == d \in seen \/ attached[d] > 0

\* read_bytes, _claim under the lock, and submit_threadsafe.
ReadAndClaim(t) ==
  LET f == thr[t].file
      d == DigestOf(f)
  IN /\ thr[t].stage = "read"
     /\ \/ /\ name[f] # "final" /\ Finish(t)
           /\ UNCHANGED <<seen, sub, blind, faults>>
        \/ /\ name[f] = "final" /\ Claimed(d) /\ Finish(t)
           /\ seen' = seen \cup {d}
           /\ UNCHANGED <<sub, blind, faults>>
        \/ /\ name[f] = "final" /\ ~Claimed(d) /\ Finish(t)
           /\ seen' = seen \cup {d}
           /\ sub' = [sub EXCEPT ![f] = [stage |-> "posted", digest |-> d]]
           /\ UNCHANGED <<blind, faults>>
        \/ /\ name[f] = "final" /\ d \notin seen /\ faults < MaxFaults
           /\ Finish(t)
           /\ seen' = seen \cup {d}
           /\ sub' = [sub EXCEPT ![f] = [stage |-> "posted", digest |-> d]]
           /\ blind' = blind \cup {d}
           /\ faults' = faults + 1
     /\ UNCHANGED <<folder, scanRows, phase, pool, entered, crashes>>

\* submit: the case row, the file and its row, the audit entry, the put.
OpenCase(f) ==
  /\ sub[f].stage = "posted"
  /\ sub' = [sub EXCEPT ![f].stage = "opened"]
  /\ cases' = [cases EXCEPT ![sub[f].digest] = @ + 1]
  /\ UNCHANGED <<folder, attached, phase, pool, thr, seen, history>>

Attach(f) ==
  /\ sub[f].stage = "opened"
  /\ sub' = [sub EXCEPT ![f].stage = "attached"]
  /\ attached' = [attached EXCEPT ![sub[f].digest] = @ + 1]
  /\ UNCHANGED <<folder, cases, phase, pool, thr, seen, history>>

\* Mutant: the case is never put into the queue.
LogAlone(f) ==
  /\ sub[f].stage = "attached"
  /\ sub' = [sub EXCEPT ![f].stage = "put"]
  /\ UNCHANGED <<folder, scanRows, phase, pool, thr, seen, history>>

LogAndPut(f) ==
  /\ sub[f].stage = "attached"
  /\ sub' = [sub EXCEPT ![f].stage = "put"]
  /\ entered' = entered \cup {sub[f].digest}
  /\ UNCHANGED <<folder, scanRows, phase, pool, thr, seen, blind, faults, crashes>>

\* Disk full or an error of the database: _on_done logs it, and that is all.
SubmitFails(f) ==
  /\ sub[f].stage \in {"posted", "opened", "attached"} /\ faults < MaxFaults
  /\ faults' = faults + 1
  /\ sub' = [sub EXCEPT ![f].stage = "failed"]
  /\ UNCHANGED <<folder, scanRows, phase, pool, thr, seen, entered, blind, crashes>>

\* Mutant: the digests seen outlive the process.
SeenOutlivesProcess ==
  /\ phase # "down" /\ crashes < MaxCrashes
  /\ crashes' = crashes + 1
  /\ phase' = "down"
  /\ pool' = <<>>
  /\ thr' = [t \in Thread |-> Idle]
  /\ sub' = [f \in File |-> NothingSent]
  /\ UNCHANGED <<folder, scanRows, seen, entered, blind, faults>>

\* Also stop: it cancels what waits in the pool and leaves the threads.
EndOfProcess ==
  /\ phase # "down" /\ crashes < MaxCrashes
  /\ crashes' = crashes + 1
  /\ phase' = "down"
  /\ pool' = <<>>
  /\ thr' = [t \in Thread |-> Idle]
  /\ seen' = {}
  /\ sub' = [f \in File |-> NothingSent]
  /\ UNCHANGED <<folder, scanRows, entered, blind, faults>>

-----------------------------------------------------------------------------
ThreadStep(t) == TakePath(t) \/ Poll(t) \/ GiveUpPolling(t) \/ ReadAndClaim(t)

SubmitStep(f) == OpenCase(f) \/ Attach(f) \/ LogAndPut(f) \/ SubmitFails(f)

ScanNext ==
  \/ \E f \in File : Write(f) \/ Grow(f) \/ Rename(f) \/ Remove(f)
  \/ List \/ Watch \/ EndOfProcess
  \/ \E t \in Thread : ThreadStep(t)
  \/ \E f \in File : SubmitStep(f)

ScanSpec == ScanInit /\ [][ScanNext]_scanVars

\* Threads run and give up after their time, the loop serves submissions, the
\* server is started again.  Nothing is assumed of the scanner.
FairScanSpec ==
  /\ ScanSpec
  /\ WF_scanVars(List) /\ WF_scanVars(Watch)
  /\ \A t \in Thread : WF_scanVars(ThreadStep(t))
  /\ \A f \in File : WF_scanVars(SubmitStep(f))

-----------------------------------------------------------------------------
(***************************************************************************)
(* Properties.                                                             *)
(***************************************************************************)

ScanTypeOK ==
  /\ scan \in [File -> Scan]
  /\ name \in [File -> {"absent", "tmp", "final"}]
  /\ size \in [File -> 0 .. FullSize]
  /\ steady \in BOOLEAN
  /\ cases \in [Digest -> Nat] /\ attached \in [Digest -> Nat]
  /\ phase \in {"down", "listed", "up"}
  /\ pool \in Seq(File)
  /\ thr \in [Thread -> [file : File \cup {NoFile}, stage : {"idle", "poll", "read"},
                         last : -1 .. FullSize, equal : 0 .. StableChecks]]
  /\ seen \in SUBSET Digest
  /\ sub \in [File -> Submission \cup {NothingSent}]
  /\ entered \in SUBSET Digest /\ blind \in SUBSET Digest
  /\ faults \in Nat /\ crashes \in Nat

\* A scan opens one case with its image, however many copies of it arrive, in
\* however many threads, over restarts: unless its claim had no answer from the
\* database, which the code allows (_claim, watched_folder.py lines 172-185).
OneCasePerScan == \A d \in Digest : attached[d] <= 1 \/ d \in blind

\* Nothing is refused as a copy of nothing: what a process has seen has its row
\* or its submission on the way, or its submission failed in this process.
SeenHasSubmission ==
  \A d \in seen : attached[d] > 0 \/ \E f \in File : sub[f].digest = d

\* A scanner that writes on between any two looks never has half a scan taken
\* for a whole one (_wait_stable, lines 150-170).
SteadyScansAreWhole ==
  steady => \A d \in Digest :
    attached[d] > 0 \/ (\E f \in File : sub[f].digest = d) => d[2] = FullSize

\* Every path a thread was given comes to a verdict: no file, however it grows
\* or goes, keeps a thread of the two for ever.
EveryPathIsAnswered ==
  \A t \in Thread : thr[t].stage # "idle" ~> thr[t].stage = "idle"

\* Without errors and ends of the process, a digest claimed gets into the
\* pipeline.
EveryClaimEnters ==
  \A d \in Digest : d \in seen ~> d \in entered \/ faults > 0 \/ crashes > 0

=============================================================================
