-------------------------- MODULE GpuOrchestrator --------------------------
(***************************************************************************)
(* The GPU orchestrator (core/orchestrator.py): the language model's       *)
(* daemon, started and stopped as an operating-system process, and the     *)
(* lock that lets one synthesis at a time use it.  Its users are the       *)
(* syntheses of core/worker.py (_run_synthesis: each attempt in a session  *)
(* of its own, then a restart outside the lock) and the lifespan of        *)
(* main.py.                                                                *)
(*                                                                         *)
(* As in CasePipeline a step runs from one await to the next.  stop asks   *)
(* the process to end, waits ten seconds and forgets whatever is the       *)
(* daemon when it resumes: until it has ended, a process that was told to  *)
(* may keep its address and answer whoever asks there.  wait_for leaves    *)
(* the thread of a synthesis running.                                      *)
(***************************************************************************)
EXTENDS Naturals, Sequences, FiniteSets

CONSTANTS
  User,        \* the syntheses
  Main,        \* the lifespan
  MaxAttempts, \* Settings.llm_max_retries + 1
  MaxDaemons   \* bound: the binary starts that many times, then no more

ASSUME GpuAssumption ==
  /\ Main \notin User
  /\ MaxAttempts \in Nat \ {0}
  /\ MaxDaemons \in Nat

VARIABLES
  managed,  \* Settings.manage_ollama: FALSE leaves the daemon to somebody else
  tracked,  \* _proc, or 0
  daemon,   \* the processes started, in order: "new", "serving", "dead"
  ending,   \* those that were told to end
  lockQ,    \* _lock: the holder, then those who wait
  pc,       \* what each user and the lifespan awaits
  reaped,   \* per process, the daemon whose end it awaits in stop
  attempt,  \* per user, its attempts so far
  threads,  \* <<u, n, d>>: u's thread of attempt n generates with daemon d (0: not ours)
  overlap   \* history: a stop has begun while another had not returned

gpuVars == <<managed, tracked, daemon, ending, lockQ, pc, reaped, attempt, threads, overlap>>

Proc == User \cup {Main}

Alive(d) == d # 0 /\ daemon[d] # "dead"

\* Who answers at the one address; told or not, at most one does.
Serving == {d \in 1 .. Len(daemon) : daemon[d] = "serving"}

\* process_alive
ProcessAlive == ~managed \/ Alive(tracked)

GpuInit ==
  /\ managed \in BOOLEAN
  /\ tracked = 0
  /\ daemon = <<>>
  /\ ending = {}
  /\ lockQ = <<>>
  /\ pc = [p \in Proc |-> IF p = Main THEN "begin" ELSE "off"]
  /\ reaped = [p \in Proc |-> 0]
  /\ attempt = [p \in Proc |-> 0]
  /\ threads = {}
  /\ overlap = FALSE

-----------------------------------------------------------------------------
(***************************************************************************)
(* stop, start and restart.  Each is called with the states p goes to:     *)
(* healthy when a daemon is started, bad when the call raises.             *)
(***************************************************************************)

\* Popen, and the health check to come.
Spawn(p, healthy, bad) ==
  \/ /\ Len(daemon) < MaxDaemons
     /\ daemon' = Append(daemon, "new")
     /\ tracked' = Len(daemon) + 1
     /\ pc' = [pc EXCEPT ![p] = healthy]
  \/ /\ Len(daemon) = MaxDaemons
     /\ tracked' = 0
     /\ pc' = [pc EXCEPT ![p] = bad]
     /\ UNCHANGED daemon

\* Mutant: the process is not told to end.
ToldNothing(d) == ending

\* terminate: a signal.  The process goes on until it ends.
Told(d) == ending \cup {d}

Overlaps(p) == overlap' = (overlap \/ \E q \in Proc \ {p} : reaped[q] # 0)

\* restart, up to its first await: stop has a daemon to wait for ...
StopFirst(p, reaping) ==
  /\ Alive(tracked)
  /\ ending' = Told(tracked)
  /\ reaped' = [reaped EXCEPT ![p] = tracked]
  /\ pc' = [pc EXCEPT ![p] = reaping]
  /\ Overlaps(p)
  /\ UNCHANGED <<tracked, daemon>>

\* Mutant: start does not ask whether the daemon runs.
StartAnyway(p, healthy, bad) ==
  /\ Spawn(p, healthy, bad)
  /\ Overlaps(p)
  /\ UNCHANGED <<reaped, ending>>

\* ... or none, and start follows at once.
StartAtOnce(p, healthy, bad) ==
  /\ ~Alive(tracked)
  /\ Spawn(p, healthy, bad)
  /\ Overlaps(p)
  /\ UNCHANGED <<reaped, ending>>

\* The wait in stop returns: the daemon has ended, or ten seconds are over and
\* it has not.  Whatever is the daemon by now is forgotten, and start follows.
EndReap(p, healthy, bad) ==
  /\ reaped' = [reaped EXCEPT ![p] = 0]
  /\ Spawn(p, healthy, bad)
  /\ UNCHANGED <<ending, overlap>>

-----------------------------------------------------------------------------
(***************************************************************************)
(* The lifespan.                                                           *)
(***************************************************************************)

Startup ==
  /\ pc[Main] = "begin"
  /\ IF managed THEN Spawn(Main, "starting", "failed")
     ELSE pc' = [pc EXCEPT ![Main] = "serving"] /\ UNCHANGED <<tracked, daemon>>
  /\ UNCHANGED <<managed, ending, lockQ, reaped, attempt, threads, overlap>>

\* _wait_healthy answers, or raises after its time: the startup fails then, and
\* nothing after the failure stops what it has started.
StartupEnds ==
  /\ pc[Main] = "starting"
  /\ \/ Serving # {} /\ pc' = [pc EXCEPT ![Main] = "serving"]
     \/ Serving = {} /\ pc' = [pc EXCEPT ![Main] = "failed"]
  /\ UNCHANGED <<managed, tracked, daemon, ending, lockQ, reaped, attempt, threads, overlap>>

\* worker.stop cancels the syntheses, wherever they are, then stop.
Shutdown ==
  /\ pc[Main] = "serving"
  /\ lockQ' = <<>>
  /\ \/ /\ Alive(tracked)
        /\ ending' = Told(tracked)
        /\ reaped' = [p \in Proc |-> IF p = Main THEN tracked ELSE 0]
        /\ pc' = [p \in Proc |-> IF p = Main THEN "stopping" ELSE "ended"]
        /\ UNCHANGED tracked
     \/ /\ ~Alive(tracked)
        /\ tracked' = 0
        /\ reaped' = [p \in Proc |-> 0]
        /\ pc' = [p \in Proc |-> IF p = Main THEN "stopped" ELSE "ended"]
        /\ UNCHANGED ending
  /\ UNCHANGED <<managed, daemon, attempt, threads, overlap>>

Stopped ==
  /\ pc[Main] = "stopping"
  /\ tracked' = 0
  /\ reaped' = [reaped EXCEPT ![Main] = 0]
  /\ pc' = [pc EXCEPT ![Main] = "stopped"]
  /\ UNCHANGED <<managed, daemon, ending, lockQ, attempt, threads, overlap>>

-----------------------------------------------------------------------------
(***************************************************************************)
(* A synthesis.                                                            *)
(***************************************************************************)

\* Mutant: the lock is kept.
NotReleased == lockQ

Released == Tail(lockQ)

\* Mutant: one attempt too many.
AttemptsLeftOrLast(u) == attempt[u] <= MaxAttempts

AttemptsLeft(u) == attempt[u] < MaxAttempts

HoldsLock(u) == lockQ # <<>> /\ Head(lockQ) = u

Request(u) ==
  /\ pc[u] = "off" /\ pc[Main] = "serving"
  /\ lockQ' = Append(lockQ, u)
  /\ pc' = [pc EXCEPT ![u] = "wait"]
  /\ UNCHANGED <<managed, tracked, daemon, ending, reaped, attempt, threads, overlap>>

\* Its thread talks to whichever daemon answers at the one address.
Generating(u) ==
  \/ /\ managed
     /\ \E d \in Serving : threads' = threads \cup {<<u, attempt[u], d>>}
  \/ /\ managed /\ Serving = {}
     /\ UNCHANGED threads
  \/ /\ ~managed
     /\ threads' = threads \cup {<<u, attempt[u], 0>>}

\* The lock is u's: generate, or first bring the daemon back.
Enter(u) ==
  /\ pc[u] = "wait" /\ HoldsLock(u)
  /\ \/ /\ ProcessAlive
        /\ Generating(u)
        /\ pc' = [pc EXCEPT ![u] = "generate"]
        /\ UNCHANGED <<tracked, daemon, ending, reaped, overlap>>
     \/ /\ ~ProcessAlive
        /\ StartAtOnce(u, "healing", "failing")
        /\ UNCHANGED threads
  /\ UNCHANGED <<managed, lockQ, attempt>>

\* The daemon that gpu_session restarted answers, or does not in time.
Healed(u) ==
  /\ pc[u] = "healing"
  /\ \/ /\ Serving # {}
        /\ Generating(u)
        /\ pc' = [pc EXCEPT ![u] = "generate"]
     \/ /\ Serving = {}
        /\ pc' = [pc EXCEPT ![u] = "failing"]
        /\ UNCHANGED threads
  /\ UNCHANGED <<managed, tracked, daemon, ending, lockQ, reaped, attempt, overlap>>

\* The threads of the attempt u is at, and not those of attempts it gave up.
Awaited(u) == {t \in threads : t[1] = u /\ t[2] = attempt[u]}

Succeed(u) ==
  /\ pc[u] = "generate"
  /\ Awaited(u) # {}
  /\ threads' = threads \ Awaited(u)
  /\ lockQ' = Released
  /\ pc' = [pc EXCEPT ![u] = "ended"]
  /\ UNCHANGED <<managed, tracked, daemon, ending, reaped, attempt, overlap>>

\* The attempt raises, or times out and leaves its thread; the lock is released
\* and the restart begins with no await between.
Fail(u, left) ==
  /\ lockQ' = Released
  /\ attempt' = [attempt EXCEPT ![u] = @ + 1]
  /\ threads' = left
  /\ UNCHANGED managed
  /\ \/ /\ managed
        /\ StopFirst(u, "reaping") \/ StartAtOnce(u, "restarting", "restarted")
     \/ /\ ~managed
        /\ pc' = [pc EXCEPT ![u] = "restarted"]
        /\ UNCHANGED <<tracked, daemon, ending, reaped, overlap>>

GenerateRaises(u) ==
  /\ pc[u] \in {"generate", "failing"}
  /\ Fail(u, threads \ Awaited(u))

GenerateTimesOut(u) ==
  /\ pc[u] = "generate"
  /\ Fail(u, threads)

Reaped(u) ==
  /\ pc[u] = "reaping"
  /\ EndReap(u, "restarting", "restarted")
  /\ UNCHANGED <<managed, lockQ, attempt, threads>>

\* Whether or not the new daemon answers, what restart raises is suppressed.
Restarted(u) ==
  /\ pc[u] \in {"restarting", "restarted"}
  /\ \/ ~AttemptsLeft(u) /\ pc' = [pc EXCEPT ![u] = "ended"] /\ UNCHANGED lockQ
     \/ /\ AttemptsLeft(u)
        /\ pc' = [pc EXCEPT ![u] = "wait"]
        /\ lockQ' = Append(lockQ, u)
  /\ UNCHANGED <<managed, tracked, daemon, ending, reaped, attempt, threads, overlap>>

-----------------------------------------------------------------------------
(***************************************************************************)
(* The operating system.                                                   *)
(***************************************************************************)

\* A new daemon takes the address, if no other has it; else it ends.
Bind(d) ==
  /\ daemon[d] = "new"
  /\ daemon' = [daemon EXCEPT ![d] = IF Serving = {} THEN "serving" ELSE "dead"]
  /\ UNCHANGED <<managed, tracked, ending, lockQ, pc, reaped, attempt, threads, overlap>>

\* It ends, told to or by itself, and its connections with it.  One that was
\* told may as well go on.
Ends(d) ==
  /\ daemon[d] # "dead"
  /\ daemon' = [daemon EXCEPT ![d] = "dead"]
  /\ threads' = {t \in threads : t[3] # d}
  /\ UNCHANGED <<managed, tracked, ending, lockQ, pc, reaped, attempt, overlap>>

\* A thread nobody waits for comes to its end.
ThreadEnds(u) ==
  /\ \E t \in threads :
       /\ t[1] = u /\ (pc[u] = "generate" => t \notin Awaited(u))
       /\ threads' = threads \ {t}
  /\ UNCHANGED <<managed, tracked, daemon, ending, lockQ, pc, reaped, attempt, overlap>>

-----------------------------------------------------------------------------
UserStep(u) ==
  \/ Enter(u) \/ Healed(u) \/ Succeed(u) \/ GenerateRaises(u) \/ GenerateTimesOut(u)
  \/ Reaped(u) \/ Restarted(u)

GpuNext ==
  \/ Startup \/ StartupEnds \/ Shutdown \/ Stopped
  \/ \E u \in User : Request(u) \/ UserStep(u) \/ ThreadEnds(u)
  \/ \E d \in 1 .. Len(daemon) : Bind(d) \/ Ends(d)

GpuSpec == GpuInit /\ [][GpuNext]_gpuVars

\* The loop resumes who can go on; wait_for ends a generation, the ten seconds
\* of stop and the thirty of _wait_healthy end the others.
FairGpuSpec == GpuSpec /\ \A u \in User : WF_gpuVars(UserStep(u))

-----------------------------------------------------------------------------
(***************************************************************************)
(* Properties.                                                             *)
(***************************************************************************)

Calls == {"off", "wait", "healing", "failing", "generate", "reaping", "restarting",
          "restarted", "ended", "begin", "starting", "serving", "stopping", "stopped",
          "failed"}

GpuTypeOK ==
  /\ managed \in BOOLEAN
  /\ daemon \in Seq({"new", "serving", "dead"}) /\ Len(daemon) <= MaxDaemons
  /\ ending \subseteq 1 .. Len(daemon)
  /\ tracked \in 0 .. Len(daemon)
  /\ lockQ \in Seq(User)
  /\ pc \in [Proc -> Calls]
  /\ reaped \in [Proc -> 0 .. Len(daemon)]
  /\ attempt \in [Proc -> 0 .. MaxAttempts]
  /\ threads \in SUBSET (User \X (0 .. MaxAttempts) \X (0 .. Len(daemon)))
  /\ overlap \in BOOLEAN

\* The lock is where the code thinks it is: exactly the syntheses between a
\* request and the end of an attempt are in it, each once, and only the first
\* is past the wait, whatever restarts fail inside and outside the lock
\* (orchestrator.py lines 91-96).
LockIsHeldByOne ==
  /\ \A i, j \in 1 .. Len(lockQ) : lockQ[i] = lockQ[j] => i = j
  /\ \A u \in User :
       /\ pc[u] \in {"wait", "healing", "failing", "generate"}
            <=> \E i \in 1 .. Len(lockQ) : lockQ[i] = u
       /\ pc[u] \in {"healing", "failing", "generate"} => HoldsLock(u)

Running == {d \in 1 .. Len(daemon) : daemon[d] # "dead"} \ ending

\* One owner of the GPU's memory (orchestrator.py lines 3-7): no daemon that
\* nobody has told to end is forgotten, unless two restarts overlapped; a
\* shutdown leaves none behind, then (main.py line 92).  One that was told may
\* live on, forgotten.
NoDaemonIsForgotten == overlap \/ Running \subseteq {tracked}

\* A thread that a timeout has left behind is never on a daemon that is kept:
\* the restart that follows tells that daemon to end before the next session
\* can choose it, so the daemon the orchestrator means to use has one job at a
\* time (worker.py lines 226-239, orchestrator.py lines 52-64).
OneJobPerDaemon ==
  managed /\ ~overlap =>
    \A d \in Serving \ ending : Cardinality({t \in threads : t[3] = d}) <= 1

\* "One GPU job at a time" (gpu_session, orchestrator.py line 92), for a daemon
\* of the orchestrator's own and restarts that do not overlap.
OneGpuJob == managed /\ ~overlap => Cardinality(threads) <= 1

\* Every synthesis that asks for the GPU ends, whatever becomes of the daemon:
\* the lock always comes back.
EveryRequestEnds == \A u \in User : pc[u] = "wait" ~> pc[u] = "ended"

=============================================================================
