----------------------- MODULE GpuOrchestratorProofs -----------------------
(***************************************************************************)
(* Proofs about GpuOrchestrator, for every set of syntheses and any number *)
(* of attempts and daemons, whoever starts the daemon.                     *)
(***************************************************************************)
EXTENDS GpuOrchestrator, DataLemmas

UserCalls == {"off", "wait", "healing", "failing", "generate", "reaping",
              "restarting", "restarted", "ended"}
MainCalls == {"begin", "starting", "serving", "stopping", "stopped", "failed"}

\* The calls made between acquire and release, the wait included.
InSession == {"wait", "healing", "failing", "generate"}

\* Nothing runs before the lifespan has begun, nobody asks before it serves.
PlaceInv ==
  /\ \A u \in User : pc[u] \in UserCalls
  /\ pc[Main] \in MainCalls
  /\ pc[Main] = "begin" => daemon = <<>> /\ tracked = 0
  /\ pc[Main] \in {"begin", "starting", "failed"} => \A u \in User : pc[u] = "off"

\* A session is entered with an attempt left.
CountInv == \A u \in User : pc[u] \in InSession \cup {"off"} => attempt[u] < MaxAttempts

\* Who waits for a daemon to end has told it to, or it had ended; while no two
\* wait, it is the daemon the orchestrator still tracks.
ReapInv ==
  /\ \A p \in Proc : reaped[p] # 0 <=> pc[p] \in {"reaping", "stopping"}
  /\ ~overlap =>
       /\ \A p \in Proc : reaped[p] # 0 => reaped[p] = tracked /\ tracked \notin Running
       /\ \A p, q \in Proc : reaped[p] # 0 /\ reaped[q] # 0 => p = q

\* The daemons that answer and that nobody has told to end.
Kept == Serving \ ending

\* A thread talks to a daemon that has answered, and the daemon that is kept has
\* none but that of the attempt a synthesis in the session awaits.
ThreadInv ==
  /\ \A t \in threads : t[3] # 0 => daemon[t[3]] # "new"
  /\ managed /\ ~overlap =>
       \A t \in threads : t[3] \in Kept => pc[t[1]] = "generate" /\ t[2] = attempt[t[1]]

GpuInv ==
  /\ GpuTypeOK /\ PlaceInv /\ CountInv /\ LockIsHeldByOne /\ ReapInv
  /\ NoDaemonIsForgotten /\ ThreadInv

-----------------------------------------------------------------------------
(***************************************************************************)
(* Types.                                                                  *)
(***************************************************************************)

States == {"new", "serving", "dead"}

\* A thread, when l daemons have been started.
Thread(l) == User \X (0 .. MaxAttempts) \X (0 .. l)

\* What changes the sequence of daemons keeps the old ones in it.
Grown ==
  /\ daemon' \in Seq(States) /\ Len(daemon') <= MaxDaemons
  /\ Len(daemon) <= Len(daemon')
  /\ tracked' \in 0 .. Len(daemon')
  /\ ending' \subseteq 1 .. Len(daemon')

LEMMA SpawnGrows ==
  ASSUME GpuTypeOK, NEW p \in Proc, NEW h \in Calls, NEW b \in Calls, Spawn(p, h, b),
         ending' = ending
  PROVE  Grown /\ pc' \in [Proc -> Calls]
<1>0. /\ daemon \in Seq(States) /\ Len(daemon) \in Nat /\ Len(daemon) <= MaxDaemons
      /\ pc \in [Proc -> Calls] /\ ending \subseteq 1 .. Len(daemon)
  BY DEF GpuTypeOK, States
<1>1. CASE Len(daemon) < MaxDaemons
  <2>1. daemon' = Append(daemon, "new") /\ tracked' = Len(daemon) + 1
    BY <1>1, <1>0 DEF Spawn
  <2>2. daemon' \in Seq(States) /\ Len(daemon') = Len(daemon) + 1
    BY <2>1, <1>0 DEF States
  <2>3. Grown
    BY <2>1, <2>2, <1>0, <1>1, GpuAssumption DEF Grown
  <2>4. pc' = [pc EXCEPT ![p] = h]
    BY <1>1, <1>0 DEF Spawn
  <2> QED
    BY <2>3, <2>4, <1>0
<1>2. CASE Len(daemon) = MaxDaemons
  <2>1. Grown
    BY <1>2, <1>0 DEF Spawn, Grown
  <2>2. pc' = [pc EXCEPT ![p] = b]
    BY <1>2, <1>0 DEF Spawn
  <2> QED
    BY <2>1, <2>2, <1>0
<1> QED
  BY <1>1, <1>2 DEF Spawn

LEMMA ChangeGrows ==
  ASSUME GpuTypeOK, NEW d \in 1 .. Len(daemon), NEW s \in States,
         daemon' = [daemon EXCEPT ![d] = s], tracked' = tracked, ending' = ending
  PROVE  Grown
  BY GpuAssumption DEF GpuTypeOK, Grown, States

LEMMA TellGrows ==
  ASSUME GpuTypeOK, Alive(tracked), ending' = Told(tracked), UNCHANGED <<daemon, tracked>>
  PROVE  Grown
  BY GpuAssumption DEF GpuTypeOK, Grown, States, Alive, Told

LEMMA StopFirstTypes ==
  ASSUME GpuTypeOK, NEW p \in Proc, NEW r \in Calls, StopFirst(p, r)
  PROVE  Grown /\ pc' \in [Proc -> Calls] /\ reaped' \in [Proc -> 0 .. Len(daemon')]
         /\ overlap' \in BOOLEAN
<1>1. tracked \in 0 .. Len(daemon)
  BY DEF GpuTypeOK
<1>2. Grown
  BY TellGrows DEF StopFirst
<1> QED
  BY <1>1, <1>2 DEF GpuTypeOK, StopFirst, Overlaps

LEMMA StartAtOnceTypes ==
  ASSUME GpuTypeOK, NEW p \in Proc, NEW h \in Calls, NEW b \in Calls, StartAtOnce(p, h, b)
  PROVE  Grown /\ pc' \in [Proc -> Calls] /\ reaped' = reaped /\ overlap' \in BOOLEAN
<1>1. Spawn(p, h, b) /\ ending' = ending
  BY DEF StartAtOnce
<1> QED
  BY <1>1, SpawnGrows DEF GpuTypeOK, StartAtOnce, Overlaps

\* The rest follows when the values that may change have their types.
LEMMA TypesTogether ==
  ASSUME GpuTypeOK, Grown,
         managed' = managed, lockQ' \in Seq(User), pc' \in [Proc -> Calls],
         reaped' \in [Proc -> 0 .. Len(daemon')],
         attempt' \in [Proc -> 0 .. MaxAttempts],
         threads' \in SUBSET Thread(Len(daemon')), overlap' \in BOOLEAN
  PROVE  GpuTypeOK'
  BY DEF GpuTypeOK, Grown, States, Thread

LEMMA TypeStep == GpuTypeOK /\ CountInv /\ LockIsHeldByOne /\ [GpuNext]_gpuVars => GpuTypeOK'
<1> SUFFICES ASSUME GpuTypeOK, CountInv, LockIsHeldByOne, [GpuNext]_gpuVars
             PROVE  GpuTypeOK'
  OBVIOUS
<1> USE GpuAssumption
<1>0. /\ managed \in BOOLEAN
      /\ daemon \in Seq(States) /\ Len(daemon) <= MaxDaemons /\ Len(daemon) \in Nat
      /\ tracked \in 0 .. Len(daemon) /\ lockQ \in Seq(User)
      /\ pc \in [Proc -> Calls] /\ reaped \in [Proc -> 0 .. Len(daemon)]
      /\ attempt \in [Proc -> 0 .. MaxAttempts] /\ ending \subseteq 1 .. Len(daemon)
      /\ threads \in SUBSET Thread(Len(daemon)) /\ overlap \in BOOLEAN
  BY DEF GpuTypeOK, States, Thread
<1>g. ASSUME Grown
      PROVE  /\ \A f \in [Proc -> 0 .. Len(daemon)] : f \in [Proc -> 0 .. Len(daemon')]
             /\ threads \in SUBSET Thread(Len(daemon'))
  <2>1. Len(daemon') \in Nat /\ 0 .. Len(daemon) \subseteq 0 .. Len(daemon')
    BY <1>g, <1>0 DEF Grown
  <2>2. Thread(Len(daemon)) \subseteq Thread(Len(daemon'))
    BY <2>1 DEF Thread
  <2> QED
    BY <2>1, <2>2, <1>0
<1>s. ASSUME UNCHANGED <<tracked, daemon, ending>> PROVE Grown
  BY <1>s, <1>0 DEF Grown
<1>m. Main \in Proc /\ User \subseteq Proc
  BY DEF Proc
<1>1. CASE Startup
  <2>1. CASE managed
    <3>1. Spawn(Main, "starting", "failed") /\ ending' = ending
      BY <1>1, <2>1 DEF Startup
    <3>2. Grown /\ pc' \in [Proc -> Calls]
      BY <3>1, <1>m, SpawnGrows DEF Calls
    <3> QED
      BY <3>2, <1>1, <1>0, <1>g, TypesTogether DEF Startup
  <2>2. CASE ~managed
    <3>1. Grown /\ pc' \in [Proc -> Calls]
      BY <2>2, <1>1, <1>0, <1>s DEF Startup, Calls
    <3> QED
      BY <3>1, <1>1, <1>0, <1>g, TypesTogether DEF Startup
  <2> QED
    BY <2>1, <2>2, <1>0
<1>2. CASE StartupEnds
  <2>1. Grown /\ pc' \in [Proc -> Calls]
    BY <1>2, <1>0, <1>s DEF StartupEnds, Calls
  <2> QED
    BY <2>1, <1>2, <1>0, <1>g, TypesTogether DEF StartupEnds
<1>3. CASE Shutdown
  <2>1. Grown
    <3>1. CASE Alive(tracked)
      BY <3>1, <1>3, TellGrows DEF Shutdown
    <3>2. CASE ~Alive(tracked)
      <4>1. UNCHANGED <<daemon, ending>> /\ tracked' = 0
        BY <3>2, <1>3 DEF Shutdown
      <4> QED
        BY <4>1, <1>0 DEF Grown
    <3> QED
      BY <3>1, <3>2
  <2>2. pc' \in [Proc -> Calls]
    BY <1>3 DEF Shutdown, Calls
  <2>3. reaped' \in [Proc -> 0 .. Len(daemon)]
    <3>1. 0 \in 0 .. Len(daemon)
      BY <1>0
    <3> QED
      BY <3>1, <1>3, <1>0 DEF Shutdown
  <2>4. UNCHANGED <<managed, attempt, threads, overlap>> /\ lockQ' \in Seq(User)
    BY <1>3 DEF Shutdown
  <2> QED
    BY <2>1, <2>2, <2>3, <2>4, <1>0, <1>g, TypesTogether
<1>4. CASE Stopped
  <2>1. Grown
    BY <1>4, <1>0 DEF Stopped, Grown
  <2>2. pc' \in [Proc -> Calls] /\ reaped' \in [Proc -> 0 .. Len(daemon)]
    <3>1. 0 \in 0 .. Len(daemon)
      BY <1>0
    <3>2. pc' \in [Proc -> Calls]
      BY <1>4, <1>0 DEF Stopped, Calls
    <3> QED
      BY <3>1, <3>2, <1>4, <1>0, <1>m DEF Stopped
  <2> QED
    BY <2>1, <2>2, <1>4, <1>0, <1>g, TypesTogether DEF Stopped
<1>5. ASSUME NEW u \in User, Request(u) PROVE GpuTypeOK'
  <2>1. Grown /\ lockQ' \in Seq(User)
    BY <1>5, <1>0, <1>s DEF Request
  <2>2. pc' \in [Proc -> Calls]
    BY <1>5, <1>0 DEF Request, Calls
  <2> QED
    BY <2>1, <2>2, <1>5, <1>0, <1>g, TypesTogether DEF Request
<1>6. ASSUME NEW u \in User, Generating(u)
      PROVE  threads' \in SUBSET Thread(Len(daemon))
  <2>1. attempt[u] \in 0 .. MaxAttempts /\ Serving \subseteq 0 .. Len(daemon) /\ 0 \in 0 .. Len(daemon)
    BY <1>6, <1>0, <1>m DEF Serving
  <2> QED
    BY <1>6, <1>0, <2>1 DEF Generating, Thread
<1>7. ASSUME NEW u \in User, Enter(u) PROVE GpuTypeOK'
  <2>1. CASE ProcessAlive
    <3>1. Grown /\ pc' \in [Proc -> Calls]
      BY <2>1, <1>7, <1>0, <1>s DEF Enter, Calls
    <3>2. Generating(u) /\ UNCHANGED daemon
      BY <2>1, <1>7 DEF Enter
    <3> QED
      BY <2>1, <3>1, <3>2, <1>6, <1>7, <1>0, <1>g, TypesTogether DEF Enter
  <2>2. CASE ~ProcessAlive
    <3>1. StartAtOnce(u, "healing", "failing")
      BY <2>2, <1>7 DEF Enter
    <3>2. Grown /\ pc' \in [Proc -> Calls] /\ reaped' = reaped /\ overlap' \in BOOLEAN
      BY <3>1, <1>m, StartAtOnceTypes DEF Calls
    <3> QED
      BY <2>2, <3>2, <1>7, <1>0, <1>g, TypesTogether DEF Enter
  <2> QED
    BY <2>1, <2>2
<1>8. ASSUME NEW u \in User, Healed(u) PROVE GpuTypeOK'
  <2>1. Grown /\ pc' \in [Proc -> Calls]
    BY <1>8, <1>0, <1>s DEF Healed, Calls
  <2>2. threads' \in SUBSET Thread(Len(daemon))
    BY <1>8, <1>6, <1>0 DEF Healed
  <2> QED
    BY <2>1, <2>2, <1>8, <1>0, <1>g, TypesTogether DEF Healed
<1>r. ASSUME NEW u \in User, pc[u] \in InSession \ {"wait"}
      PROVE  Tail(lockQ) \in Seq(User) /\ attempt[u] < MaxAttempts
  <2>1. lockQ # <<>>
    BY <1>r DEF LockIsHeldByOne, HoldsLock, InSession
  <2> QED
    BY <2>1, <1>0, <1>r DEF CountInv
<1>9. ASSUME NEW u \in User, Succeed(u) PROVE GpuTypeOK'
  <2>1. Grown /\ pc' \in [Proc -> Calls]
    BY <1>9, <1>0, <1>s DEF Succeed, Calls
  <2>2. lockQ' \in Seq(User)
    BY <1>9, <1>r DEF Succeed, Released, InSession
  <2>3. threads' \in SUBSET Thread(Len(daemon))
    BY <1>9, <1>0 DEF Succeed
  <2> QED
    BY <2>1, <2>2, <2>3, <1>9, <1>0, <1>g, TypesTogether DEF Succeed
<1>10. ASSUME NEW u \in User, pc[u] \in InSession \ {"wait"},
              NEW left \in SUBSET threads, Fail(u, left)
       PROVE  GpuTypeOK'
  <2>1. lockQ' \in Seq(User) /\ attempt' \in [Proc -> 0 .. MaxAttempts]
    <3>1. attempt[u] + 1 \in 0 .. MaxAttempts
      BY <1>10, <1>r, <1>0, <1>m
    <3> QED
      BY <3>1, <1>10, <1>r, <1>0, <1>m DEF Fail, Released
  <2>2. threads' \in SUBSET Thread(Len(daemon))
    BY <1>10, <1>0 DEF Fail
  <2>3. managed' = managed
    BY <1>10 DEF Fail
  <2>4. CASE managed /\ StopFirst(u, "reaping")
    <3>1. /\ Grown /\ pc' \in [Proc -> Calls] /\ reaped' \in [Proc -> 0 .. Len(daemon')]
          /\ overlap' \in BOOLEAN
      BY <2>4, <1>m, StopFirstTypes DEF Calls
    <3>2. threads' \in SUBSET Thread(Len(daemon'))
      BY <3>1, <1>10, <1>g DEF Fail
    <3> QED
      BY <2>1, <2>3, <3>1, <3>2, TypesTogether
  <2>5. CASE managed /\ StartAtOnce(u, "restarting", "restarted")
    <3>1. Grown /\ pc' \in [Proc -> Calls] /\ reaped' = reaped /\ overlap' \in BOOLEAN
      BY <2>5, <1>m, StartAtOnceTypes DEF Calls
    <3>2. threads' \in SUBSET Thread(Len(daemon'))
      BY <3>1, <1>10, <1>g DEF Fail
    <3> QED
      BY <2>1, <2>3, <3>1, <3>2, <1>0, <1>g, TypesTogether
  <2>6. CASE ~managed
    <3>1. Grown /\ pc' \in [Proc -> Calls] /\ UNCHANGED <<reaped, overlap, daemon>>
      BY <2>6, <1>10, <1>0, <1>s DEF Fail, Calls
    <3> QED
      BY <2>1, <2>2, <2>3, <3>1, <1>0, <1>g, TypesTogether
  <2> QED
    BY <2>4, <2>5, <2>6, <1>10 DEF Fail
<1>11. ASSUME NEW u \in User, GenerateRaises(u) \/ GenerateTimesOut(u) PROVE GpuTypeOK'
  <2>1. pc[u] \in InSession \ {"wait"}
    BY <1>11 DEF GenerateRaises, GenerateTimesOut, InSession
  <2>2. PICK left \in SUBSET threads : Fail(u, left)
    BY <1>11 DEF GenerateRaises, GenerateTimesOut
  <2> QED
    BY <2>1, <2>2, <1>10
<1>12. ASSUME NEW u \in User, Reaped(u) PROVE GpuTypeOK'
  <2>1. Spawn(u, "restarting", "restarted") /\ ending' = ending
    BY <1>12 DEF Reaped, EndReap
  <2>2. Grown /\ pc' \in [Proc -> Calls]
    BY <2>1, <1>m, SpawnGrows DEF Calls
  <2>3. reaped' \in [Proc -> 0 .. Len(daemon)]
    <3>1. 0 \in 0 .. Len(daemon)
      BY <1>0
    <3> QED
      BY <3>1, <1>12, <1>0, <1>m DEF Reaped, EndReap
  <2> QED
    BY <2>2, <2>3, <1>12, <1>0, <1>g, TypesTogether DEF Reaped, EndReap
<1>13. ASSUME NEW u \in User, Restarted(u) PROVE GpuTypeOK'
  <2>1. lockQ' \in Seq(User)
    <3>1. CASE lockQ' = lockQ
      BY <3>1, <1>0
    <3>2. CASE lockQ' = Append(lockQ, u)
      BY <3>2, <1>0
    <3> QED
      BY <3>1, <3>2, <1>13 DEF Restarted
  <2>3. Grown
    BY <1>13, <1>s DEF Restarted
  <2>2. pc' \in [Proc -> Calls]
    BY <1>13, <1>0 DEF Restarted, Calls
  <2> QED
    BY <2>1, <2>2, <2>3, <1>13, <1>0, <1>g, TypesTogether DEF Restarted
<1>14. ASSUME NEW u \in User, ThreadEnds(u) PROVE GpuTypeOK'
  <2>1. Grown
    BY <1>14, <1>s DEF ThreadEnds
  <2>2. threads' \in SUBSET Thread(Len(daemon))
    BY <1>14, <1>0 DEF ThreadEnds
  <2> QED
    BY <2>1, <2>2, <1>14, <1>0, <1>g, TypesTogether DEF ThreadEnds
<1>15. ASSUME NEW d \in 1 .. Len(daemon), Bind(d) PROVE GpuTypeOK'
  <2>1. PICK s \in States : daemon' = [daemon EXCEPT ![d] = s]
    BY <1>15 DEF Bind, States
  <2>2. Grown
    BY <2>1, <1>15, ChangeGrows DEF Bind
  <2> QED
    BY <2>2, <1>15, <1>0, <1>g, TypesTogether DEF Bind
<1>16. ASSUME NEW d \in 1 .. Len(daemon), Ends(d) PROVE GpuTypeOK'
  <2>1. Grown
    BY <1>16, ChangeGrows DEF Ends, States
  <2>2. threads' \in SUBSET threads
    BY <1>16 DEF Ends
  <2> QED
    BY <2>1, <2>2, <1>16, <1>0, <1>g, TypesTogether DEF Ends
<1>17. CASE UNCHANGED gpuVars
  BY <1>17 DEF gpuVars, GpuTypeOK
<1> QED
  BY <1>1, <1>2, <1>3, <1>4, <1>5, <1>7, <1>8, <1>9, <1>11, <1>12, <1>13, <1>14,
     <1>15, <1>16, <1>17 DEF GpuNext, UserStep

-----------------------------------------------------------------------------
(***************************************************************************)
(* Where everybody is.                                                     *)
(***************************************************************************)

\* A step of a synthesis moves it, and only it.
LEMMA UserMoves ==
  ASSUME NEW u \in User, Request(u) \/ UserStep(u)
  PROVE  \E s \in UserCalls \ {"off"} : pc' = [pc EXCEPT ![u] = s]
<1>1. CASE Request(u)
  BY <1>1 DEF Request, UserCalls
<1>2. CASE Enter(u)
  BY <1>2 DEF Enter, StartAtOnce, Spawn, UserCalls
<1>3. CASE Healed(u)
  BY <1>3 DEF Healed, UserCalls
<1>4. CASE Succeed(u)
  BY <1>4 DEF Succeed, UserCalls
<1>5. CASE GenerateRaises(u) \/ GenerateTimesOut(u)
  BY <1>5 DEF GenerateRaises, GenerateTimesOut, Fail, StopFirst, StartAtOnce, Spawn, UserCalls
<1>6. CASE Reaped(u)
  BY <1>6 DEF Reaped, EndReap, Spawn, UserCalls
<1>7. CASE Restarted(u)
  BY <1>7 DEF Restarted, UserCalls
<1> QED
  BY <1>1, <1>2, <1>3, <1>4, <1>5, <1>6, <1>7 DEF UserStep

\* It asks only while the lifespan serves, and goes on only once it has asked.
LEMMA UserIsServed ==
  ASSUME PlaceInv, NEW u \in User, Request(u) \/ UserStep(u)
  PROVE  pc[Main] \notin {"begin", "starting", "failed"}
<1>1. pc[u] # "off" \/ pc[Main] = "serving"
  BY DEF Request, UserStep, Enter, Healed, Succeed, GenerateRaises, GenerateTimesOut,
         Reaped, Restarted
<1> QED
  BY <1>1 DEF PlaceInv

LEMMA PlaceStep == GpuTypeOK /\ PlaceInv /\ [GpuNext]_gpuVars => PlaceInv'
<1> SUFFICES ASSUME GpuTypeOK, PlaceInv, [GpuNext]_gpuVars
             PROVE  PlaceInv'
  OBVIOUS
<1>0. /\ pc \in [Proc -> Calls] /\ Main \in Proc /\ Main \notin User
      /\ \A u \in User : u \in Proc /\ u # Main
  BY GpuAssumption DEF GpuTypeOK, Proc
<1>1. CASE Startup
  BY <1>0, <1>1 DEF PlaceInv, Startup, Spawn, MainCalls
<1>2. CASE StartupEnds
  BY <1>0, <1>2 DEF PlaceInv, StartupEnds, MainCalls
<1>3. CASE Shutdown
  BY <1>0, <1>3 DEF PlaceInv, Shutdown, MainCalls, UserCalls
<1>4. CASE Stopped
  BY <1>0, <1>4 DEF PlaceInv, Stopped, MainCalls
<1>5. ASSUME NEW u \in User, Request(u) \/ UserStep(u) PROVE PlaceInv'
  <2>1. PICK s \in UserCalls \ {"off"} : pc' = [pc EXCEPT ![u] = s]
    BY <1>5, UserMoves
  <2>2. pc'[Main] = pc[Main] /\ pc[Main] \notin {"begin", "starting", "failed"}
    BY <1>0, <1>5, <2>1, UserIsServed
  <2> QED
    BY <1>0, <2>1, <2>2 DEF PlaceInv
<1>6. ASSUME NEW u \in User, ThreadEnds(u) PROVE PlaceInv'
  BY <1>6 DEF PlaceInv, ThreadEnds
<1>7. ASSUME NEW d \in 1 .. Len(daemon), Bind(d) \/ Ends(d) PROVE PlaceInv'
  <2>1. daemon # <<>> /\ pc' = pc
    BY <1>7 DEF Bind, Ends
  <2> QED
    BY <2>1 DEF PlaceInv
<1>8. CASE UNCHANGED gpuVars
  BY <1>8 DEF PlaceInv, gpuVars
<1> QED
  BY <1>1, <1>2, <1>3, <1>4, <1>5, <1>6, <1>7, <1>8 DEF GpuNext

LEMMA CountStep == GpuTypeOK /\ CountInv /\ [GpuNext]_gpuVars => CountInv'
<1> SUFFICES ASSUME GpuTypeOK, CountInv, [GpuNext]_gpuVars
             PROVE  CountInv'
  OBVIOUS
<1> USE DEF CountInv, InSession
<1>0. /\ pc \in [Proc -> Calls] /\ attempt \in [Proc -> 0 .. MaxAttempts]
      /\ Main \notin User /\ \A u \in User : u \in Proc
  BY GpuAssumption DEF GpuTypeOK, Proc
<1>1. CASE Startup \/ StartupEnds \/ Stopped
  BY <1>0, <1>1 DEF Startup, Spawn, StartupEnds, Stopped
<1>2. CASE Shutdown
  BY <1>0, <1>2 DEF Shutdown
<1>3. ASSUME NEW u \in User, Request(u) \/ UserStep(u) PROVE CountInv'
  <2>1. CASE Request(u)
    BY <1>0, <2>1 DEF Request
  <2>2. CASE Enter(u)
    BY <1>0, <2>2 DEF Enter, StartAtOnce, Spawn
  <2>3. CASE Healed(u)
    BY <1>0, <2>3 DEF Healed
  <2>4. CASE Succeed(u)
    BY <1>0, <2>4 DEF Succeed
  <2>5. CASE GenerateRaises(u) \/ GenerateTimesOut(u)
    BY <1>0, <2>5 DEF GenerateRaises, GenerateTimesOut, Fail, StopFirst, StartAtOnce, Spawn
  <2>6. CASE Reaped(u)
    BY <1>0, <2>6 DEF Reaped, EndReap, Spawn
  <2>7. CASE Restarted(u)
    BY <1>0, <2>7 DEF Restarted, AttemptsLeft
  <2> QED
    BY <1>3, <2>1, <2>2, <2>3, <2>4, <2>5, <2>6, <2>7 DEF UserStep
<1>4. CASE \E u \in User : ThreadEnds(u)
  BY <1>4 DEF ThreadEnds
<1>5. CASE \E d \in 1 .. Len(daemon) : Bind(d) \/ Ends(d)
  BY <1>5 DEF Bind, Ends
<1>6. CASE UNCHANGED gpuVars
  BY <1>6 DEF gpuVars
<1> QED
  BY <1>1, <1>2, <1>3, <1>4, <1>5, <1>6 DEF GpuNext

-----------------------------------------------------------------------------
(***************************************************************************)
(* The lock.                                                               *)
(***************************************************************************)

\* LockIsHeldByOne in the words of JoinLine and LeaveLine.
LEMMA LockSaid ==
  LockIsHeldByOne <=>
    /\ Once(lockQ)
    /\ \A u \in User :
         /\ pc[u] \in InSession <=> InLine(lockQ, u)
         /\ pc[u] \in InSession \ {"wait"} => HoldsLock(u)
  BY DEF LockIsHeldByOne, InSession, Once, InLine

LEMMA Acquires ==
  ASSUME GpuTypeOK, LockIsHeldByOne, NEW u \in User, pc[u] \notin InSession,
         lockQ' = Append(lockQ, u), pc' = [pc EXCEPT ![u] = "wait"]
  PROVE  LockIsHeldByOne'
<1>1. lockQ \in Seq(User) /\ pc \in [Proc -> Calls] /\ u \in Proc
  BY DEF GpuTypeOK, Proc
<1>2. Once(lockQ) /\ ~InLine(lockQ, u)
  BY LockSaid
<1>3. /\ Once(lockQ')
      /\ \A y : InLine(lockQ', y) <=> InLine(lockQ, y) \/ y = u
      /\ lockQ # <<>> => Head(lockQ') = Head(lockQ)
  BY <1>1, <1>2, JoinLine
<1>4. lockQ' # <<>>
  BY <1>1
<1>5. ASSUME NEW v \in User
      PROVE  /\ (pc[v] \in InSession)' <=> InLine(lockQ', v)
             /\ (pc[v] \in InSession \ {"wait"})' => HoldsLock(v)'
  <2>1. CASE v = u
    BY <2>1, <1>1, <1>3 DEF InSession
  <2>2. CASE v # u
    <3>1. pc'[v] = pc[v]
      BY <2>2, <1>1
    <3> QED
      BY <3>1, <2>2, <1>3, <1>4, LockSaid DEF HoldsLock
  <2> QED
    BY <2>1, <2>2
<1> QED
  BY <1>3, <1>5 DEF LockIsHeldByOne, InSession, Once, InLine

LEMMA Releases ==
  ASSUME GpuTypeOK, LockIsHeldByOne, NEW u \in User, pc[u] \in InSession \ {"wait"},
         lockQ' = Released, NEW s, s \notin InSession, pc' = [pc EXCEPT ![u] = s]
  PROVE  LockIsHeldByOne'
<1>1. lockQ \in Seq(User) /\ pc \in [Proc -> Calls] /\ u \in Proc
  BY DEF GpuTypeOK, Proc
<1>2. Once(lockQ) /\ HoldsLock(u)
  BY LockSaid
<1>3. /\ Once(lockQ')
      /\ \A y : InLine(lockQ', y) <=> InLine(lockQ, y) /\ y # u
  BY <1>1, <1>2, LeaveLine DEF HoldsLock, Released
<1>5. ASSUME NEW v \in User
      PROVE  /\ (pc[v] \in InSession)' <=> InLine(lockQ', v)
             /\ (pc[v] \in InSession \ {"wait"})' => HoldsLock(v)'
  <2>1. CASE v = u
    BY <2>1, <1>1, <1>3 DEF InSession
  <2>2. CASE v # u
    <3>1. pc'[v] = pc[v]
      BY <2>2, <1>1
    <3>2. pc[v] \notin InSession \ {"wait"}
      BY <2>2, <1>2, LockSaid DEF HoldsLock
    <3> QED
      BY <3>1, <3>2, <2>2, <1>3, LockSaid
  <2> QED
    BY <2>1, <2>2
<1> QED
  BY <1>3, <1>5 DEF LockIsHeldByOne, InSession, Once, InLine

LEMMA KeepsLock ==
  ASSUME GpuTypeOK, LockIsHeldByOne, NEW u \in User, lockQ' = lockQ, NEW s,
         pc' = [pc EXCEPT ![u] = s],
         \/ HoldsLock(u) /\ pc[u] \in InSession /\ s \in InSession
         \/ pc[u] \notin InSession /\ s \notin InSession
  PROVE  LockIsHeldByOne'
<1>1. pc \in [Proc -> Calls] /\ u \in Proc
  BY DEF GpuTypeOK, Proc
<1>2. ASSUME NEW v \in User
      PROVE  /\ (pc[v] \in InSession)' <=> InLine(lockQ, v)
             /\ (pc[v] \in InSession \ {"wait"})' => HoldsLock(v)
  <2>1. CASE v = u
    BY <2>1, <1>1, LockSaid
  <2>2. CASE v # u
    BY <2>2, <1>1, LockSaid
  <2> QED
    BY <2>1, <2>2
<1> QED
  BY <1>2, LockSaid DEF LockIsHeldByOne, InSession, Once, InLine, HoldsLock

LEMMA LockStep == GpuTypeOK /\ PlaceInv /\ LockIsHeldByOne /\ [GpuNext]_gpuVars => LockIsHeldByOne'
<1> SUFFICES ASSUME GpuTypeOK, PlaceInv, LockIsHeldByOne, [GpuNext]_gpuVars
             PROVE  LockIsHeldByOne'
  OBVIOUS
<1>0. /\ pc \in [Proc -> Calls] /\ Main \notin User /\ \A u \in User : u \in Proc
  BY GpuAssumption DEF GpuTypeOK, Proc
<1>1. ASSUME lockQ' = lockQ, \A u \in User : pc'[u] = pc[u] PROVE LockIsHeldByOne'
  BY <1>1 DEF LockIsHeldByOne, HoldsLock
<1>2. CASE Startup \/ StartupEnds \/ Stopped
  <2>1. lockQ' = lockQ /\ \A u \in User : pc'[u] = pc[u]
    BY <1>0, <1>2 DEF Startup, Spawn, StartupEnds, Stopped
  <2> QED
    BY <2>1, <1>1
<1>3. CASE Shutdown
  <2>1. lockQ' = <<>> /\ \A u \in User : pc'[u] = "ended"
    BY <1>0, <1>3 DEF Shutdown
  <2> QED
    BY <2>1 DEF LockIsHeldByOne
<1>4. ASSUME NEW u \in User, Request(u) \/ UserStep(u) PROVE LockIsHeldByOne'
  <2>1. CASE Request(u)
    BY <2>1, Acquires DEF Request, InSession
  <2>2. CASE Enter(u)
    <3>1. PICK s \in InSession : pc' = [pc EXCEPT ![u] = s]
      BY <2>2 DEF Enter, StartAtOnce, Spawn, InSession
    <3>2. lockQ' = lockQ /\ HoldsLock(u) /\ pc[u] \in InSession
      BY <2>2 DEF Enter, InSession
    <3> QED
      BY <3>1, <3>2, KeepsLock
  <2>3. CASE Healed(u)
    <3>1. PICK s \in InSession : pc' = [pc EXCEPT ![u] = s]
      BY <2>3 DEF Healed, InSession
    <3>2. lockQ' = lockQ /\ HoldsLock(u) /\ pc[u] \in InSession
      BY <2>3 DEF Healed, InSession, LockIsHeldByOne
    <3> QED
      BY <3>1, <3>2, KeepsLock
  <2>4. CASE Succeed(u)
    BY <2>4, Releases DEF Succeed, InSession
  <2>5. CASE GenerateRaises(u) \/ GenerateTimesOut(u)
    <3>1. pc[u] \in InSession \ {"wait"} /\ lockQ' = Released
      BY <2>5 DEF GenerateRaises, GenerateTimesOut, Fail, InSession
    <3>2. PICK s \in {"reaping", "restarting", "restarted"} : pc' = [pc EXCEPT ![u] = s]
      BY <2>5 DEF GenerateRaises, GenerateTimesOut, Fail, StopFirst, StartAtOnce, Spawn
    <3> QED
      BY <3>1, <3>2, Releases DEF InSession
  <2>6. CASE Reaped(u)
    <3>1. PICK s \in {"restarting", "restarted"} : pc' = [pc EXCEPT ![u] = s]
      BY <2>6 DEF Reaped, EndReap, Spawn
    <3>2. lockQ' = lockQ /\ pc[u] \notin InSession /\ s \notin InSession
      BY <2>6, <3>1 DEF Reaped, InSession
    <3> QED
      BY <3>1, <3>2, KeepsLock
  <2>7. CASE Restarted(u)
    <3>1. pc[u] \notin InSession
      BY <2>7 DEF Restarted, InSession
    <3>2. CASE ~AttemptsLeft(u)
      BY <3>1, <3>2, <2>7, KeepsLock DEF Restarted, InSession
    <3>3. CASE AttemptsLeft(u)
      BY <3>1, <3>3, <2>7, Acquires DEF Restarted
    <3> QED
      BY <3>2, <3>3
  <2> QED
    BY <1>4, <2>1, <2>2, <2>3, <2>4, <2>5, <2>6, <2>7 DEF UserStep
<1>5. CASE \E u \in User : ThreadEnds(u)
  BY <1>5, <1>1 DEF ThreadEnds
<1>6. CASE \E d \in 1 .. Len(daemon) : Bind(d) \/ Ends(d)
  BY <1>6, <1>1 DEF Bind, Ends
<1>7. CASE UNCHANGED gpuVars
  BY <1>7, <1>1 DEF gpuVars
<1> QED
  BY <1>2, <1>3, <1>4, <1>5, <1>6, <1>7 DEF GpuNext

-----------------------------------------------------------------------------
(***************************************************************************)
(* The daemons.                                                            *)
(***************************************************************************)

Awaits == {"reaping", "stopping"}

OwnerInv == ReapInv /\ NoDaemonIsForgotten

\* A daemon that is started is tracked, and the only one that runs when the
\* others have been told to end.
LEMMA SpawnTracks ==
  ASSUME GpuTypeOK, NEW p, NEW h, NEW b, Spawn(p, h, b), ending' = ending, Running = {}
  PROVE  (Running \subseteq {tracked})'
<1>0. daemon \in Seq(States) /\ Len(daemon) \in Nat
  BY DEF GpuTypeOK, States
<1>1. CASE Len(daemon) < MaxDaemons
  <2>1. daemon' = Append(daemon, "new") /\ tracked' = Len(daemon) + 1
    BY <1>1, <1>0, GpuAssumption DEF Spawn
  <2> QED
    BY <2>1, <1>0 DEF Running
<1>2. CASE Len(daemon) = MaxDaemons
  BY <1>0, <1>2, GpuAssumption DEF Spawn, Running
<1> QED
  BY <1>1, <1>2 DEF Spawn

\* stop, up to its wait.
LEMMA TellsItsOwn ==
  ASSUME GpuTypeOK, OwnerInv, NEW p \in Proc, pc[p] \notin Awaits,
         NEW s \in Awaits, StopFirst(p, s)
  PROVE  OwnerInv'
<1>0. /\ daemon \in Seq(States) /\ tracked \in 1 .. Len(daemon)
      /\ pc \in [Proc -> Calls] /\ reaped \in [Proc -> 0 .. Len(daemon)]
      /\ tracked # 0 /\ overlap \in BOOLEAN
  BY DEF GpuTypeOK, States, StopFirst, Alive
<1>1. /\ ending' = ending \cup {tracked} /\ UNCHANGED <<daemon, tracked>>
      /\ reaped' = [reaped EXCEPT ![p] = tracked] /\ pc' = [pc EXCEPT ![p] = s]
      /\ overlap' = (overlap \/ \E q \in Proc \ {p} : reaped[q] # 0)
  BY DEF StopFirst, Told, Overlaps
<1>2. Running' = Running \ {tracked}
  BY <1>1 DEF Running
<1>3. \A q \in Proc : reaped'[q] # 0 <=> pc'[q] \in Awaits
  BY <1>0, <1>1 DEF OwnerInv, ReapInv, Awaits
<1>4. ASSUME ~overlap'
      PROVE  /\ \A q \in Proc : reaped'[q] # 0 => q = p
             /\ reaped'[p] = tracked'
             /\ Running' = {}
  <2>1. \A q \in Proc \ {p} : reaped'[q] = 0
    BY <1>0, <1>1, <1>4
  <2>2. Running \subseteq {tracked}
    BY <1>0, <1>1, <1>4 DEF OwnerInv, NoDaemonIsForgotten
  <2>3. Running' = {}
    BY <1>2, <2>2
  <2> QED
    BY <1>0, <1>1, <2>1, <2>3
<1> QED
  BY <1>1, <1>2, <1>3, <1>4 DEF OwnerInv, ReapInv, NoDaemonIsForgotten, Awaits

\* start, when nothing runs that the orchestrator tracks.
LEMMA StartsItsOwn ==
  ASSUME GpuTypeOK, OwnerInv, NEW p \in Proc, pc[p] \notin Awaits,
         NEW h, h \notin Awaits, NEW b, b \notin Awaits, StartAtOnce(p, h, b)
  PROVE  OwnerInv'
<1>0. /\ pc \in [Proc -> Calls] /\ reaped \in [Proc -> 0 .. Len(daemon)]
      /\ overlap \in BOOLEAN
  BY DEF GpuTypeOK
<1>1. /\ Spawn(p, h, b) /\ reaped' = reaped /\ ending' = ending
      /\ overlap' = (overlap \/ \E q \in Proc \ {p} : reaped[q] # 0)
  BY DEF StartAtOnce, Overlaps
<1>2. pc' = [pc EXCEPT ![p] = h] \/ pc' = [pc EXCEPT ![p] = b]
  BY <1>1 DEF Spawn
<1>3. \A q \in Proc : reaped'[q] # 0 <=> pc'[q] \in Awaits
  BY <1>0, <1>1, <1>2 DEF OwnerInv, ReapInv, Awaits
<1>4. ASSUME ~overlap'
      PROVE  (\A q \in Proc : reaped'[q] = 0) /\ (Running \subseteq {tracked})'
  <2>1. \A q \in Proc : reaped[q] = 0
    BY <1>0, <1>1, <1>4 DEF OwnerInv, ReapInv, Awaits
  <2>2. Running \subseteq {tracked}
    BY <1>0, <1>1, <1>4 DEF OwnerInv, NoDaemonIsForgotten
  <2>3. Running = {}
    BY <2>2 DEF StartAtOnce, Alive, Running
  <2> QED
    BY <1>1, <2>1, <2>3, SpawnTracks
<1> QED
  BY <1>3, <1>4 DEF OwnerInv, ReapInv, NoDaemonIsForgotten, Awaits

\* The wait in stop ends.
LEMMA ReapsItsOwn ==
  ASSUME GpuTypeOK, OwnerInv, NEW p \in Proc, pc[p] \in Awaits,
         reaped' = [reaped EXCEPT ![p] = 0], overlap' = overlap,
         NEW s, s \notin Awaits, pc' = [pc EXCEPT ![p] = s],
         Running = {} => (Running \subseteq {tracked})'
  PROVE  OwnerInv'
<1>0. /\ pc \in [Proc -> Calls] /\ reaped \in [Proc -> 0 .. Len(daemon)]
      /\ tracked \in 0 .. Len(daemon)
  BY DEF GpuTypeOK
<1>3. \A q \in Proc : reaped'[q] # 0 <=> pc'[q] \in Awaits
  BY <1>0 DEF OwnerInv, ReapInv, Awaits
<1>4. ASSUME ~overlap'
      PROVE  (\A q \in Proc : reaped'[q] = 0) /\ (Running \subseteq {tracked})'
  <2>1. reaped[p] # 0 /\ tracked \notin Running
    BY <1>4 DEF OwnerInv, ReapInv, Awaits
  <2>2. \A q \in Proc : reaped'[q] = 0
    BY <1>0, <1>4, <2>1 DEF OwnerInv, ReapInv
  <2>3. Running = {}
    BY <1>4, <2>1 DEF OwnerInv, NoDaemonIsForgotten
  <2> QED
    BY <2>2, <2>3
<1> QED
  BY <1>3, <1>4 DEF OwnerInv, ReapInv, NoDaemonIsForgotten, Awaits

\* The orchestrator does nothing, and no daemon begins to run.
LEMMA OwnsStill ==
  ASSUME GpuTypeOK, OwnerInv, UNCHANGED <<tracked, reaped, overlap>>,
         \A p \in Proc : pc'[p] \in Awaits <=> pc[p] \in Awaits,
         (Running)' \subseteq Running
  PROVE  OwnerInv'
  BY DEF OwnerInv, ReapInv, NoDaemonIsForgotten, Awaits

LEMMA OwnerStep == GpuTypeOK /\ PlaceInv /\ OwnerInv /\ [GpuNext]_gpuVars => OwnerInv'
<1> SUFFICES ASSUME GpuTypeOK, PlaceInv, OwnerInv, [GpuNext]_gpuVars
             PROVE  OwnerInv'
  OBVIOUS
<1>0. /\ pc \in [Proc -> Calls] /\ Main \in Proc /\ Main \notin User
      /\ \A u \in User : u \in Proc
      /\ daemon \in Seq(States) /\ tracked \in 0 .. Len(daemon) /\ Len(daemon) \in Nat
      /\ reaped \in [Proc -> 0 .. Len(daemon)] /\ overlap \in BOOLEAN
  BY GpuAssumption DEF GpuTypeOK, Proc, States
<1>q. ASSUME UNCHANGED <<tracked, daemon, ending, reaped, overlap>>,
             \A p \in Proc : pc'[p] \in Awaits <=> pc[p] \in Awaits
      PROVE  OwnerInv'
  BY <1>q, OwnsStill DEF Running
<1>1. CASE Startup
  <2>1. daemon = <<>> /\ tracked = 0
    BY <1>1 DEF Startup, PlaceInv
  <2>2. UNCHANGED <<reaped, overlap>> /\ \A p \in Proc : pc'[p] \in Awaits <=> pc[p] \in Awaits
    BY <1>0, <1>1 DEF Startup, Spawn, Awaits
  <2>3. \A p \in Proc : ~overlap => reaped[p] = 0
    BY <1>0, <2>1 DEF OwnerInv, ReapInv
  <2>4. (Running \subseteq {tracked})'
    <3>1. Running = {}
      BY <2>1 DEF Running
    <3> QED
      BY <3>1, <1>1, SpawnTracks DEF Startup, Running
  <2> QED
    BY <2>2, <2>3, <2>4 DEF OwnerInv, ReapInv, NoDaemonIsForgotten, Awaits
<1>2. CASE StartupEnds
  BY <1>0, <1>2, <1>q DEF StartupEnds, Awaits
<1>3. CASE Shutdown
  <2>1. overlap' = overlap /\ \A u \in User : reaped'[u] = 0 /\ pc'[u] = "ended"
    BY <1>0, <1>3 DEF Shutdown
  <2>2. CASE Alive(tracked)
    <3>1. /\ tracked \in 1 .. Len(daemon) /\ tracked' = tracked
          /\ ending' = ending \cup {tracked} /\ UNCHANGED daemon
          /\ reaped'[Main] = tracked /\ pc'[Main] = "stopping"
      BY <1>0, <1>3, <2>2 DEF Shutdown, Told, Alive
    <3>2. Running' = Running \ {tracked}
      BY <3>1 DEF Running
    <3>3. ~overlap => Running' = {}
      BY <3>2 DEF OwnerInv, NoDaemonIsForgotten
    <3> QED
      BY <1>0, <2>1, <3>1, <3>2, <3>3 DEF OwnerInv, ReapInv, NoDaemonIsForgotten, Proc
  <2>3. CASE ~Alive(tracked)
    <3>1. UNCHANGED <<daemon, ending>> /\ tracked' = 0 /\ reaped'[Main] = 0 /\ pc'[Main] = "stopped"
      BY <1>0, <1>3, <2>3 DEF Shutdown
    <3>2. ~overlap => Running' = {}
      BY <2>3, <3>1 DEF OwnerInv, NoDaemonIsForgotten, Alive, Running
    <3> QED
      BY <2>1, <3>1, <3>2 DEF OwnerInv, ReapInv, NoDaemonIsForgotten, Proc
  <2> QED
    BY <2>2, <2>3
<1>4. CASE Stopped
  <2>1. /\ pc[Main] \in Awaits /\ reaped' = [reaped EXCEPT ![Main] = 0]
        /\ overlap' = overlap /\ pc' = [pc EXCEPT ![Main] = "stopped"]
        /\ Running = {} => (Running \subseteq {tracked})'
    BY <1>4 DEF Stopped, Awaits, Running
  <2> QED
    BY <1>0, <2>1, ReapsItsOwn DEF Awaits
<1>5. ASSUME NEW u \in User, Request(u) \/ UserStep(u) PROVE OwnerInv'
  <2>1. CASE Request(u) \/ Healed(u) \/ Succeed(u) \/ Restarted(u)
    <3>1. /\ UNCHANGED <<tracked, daemon, ending, reaped, overlap>>
          /\ \A p \in Proc : pc'[p] \in Awaits <=> pc[p] \in Awaits
      BY <1>0, <2>1 DEF Request, Healed, Succeed, Restarted, Awaits
    <3> QED
      BY <3>1, <1>q
  <2>2. CASE Enter(u)
    <3>1. CASE ProcessAlive
      <4>1. /\ UNCHANGED <<tracked, daemon, ending, reaped, overlap>>
            /\ \A p \in Proc : pc'[p] \in Awaits <=> pc[p] \in Awaits
        BY <1>0, <2>2, <3>1 DEF Enter, Awaits
      <4> QED
        BY <4>1, <1>q
    <3>2. CASE ~ProcessAlive
      BY <1>0, <2>2, <3>2, StartsItsOwn DEF Enter, Awaits
    <3> QED
      BY <3>1, <3>2
  <2>3. CASE GenerateRaises(u) \/ GenerateTimesOut(u)
    <3>1. pc[u] \notin Awaits
      BY <2>3 DEF GenerateRaises, GenerateTimesOut, Awaits
    <3>2. CASE StopFirst(u, "reaping")
      BY <1>0, <3>1, <3>2, TellsItsOwn DEF Awaits
    <3>3. CASE StartAtOnce(u, "restarting", "restarted")
      BY <1>0, <3>1, <3>3, StartsItsOwn DEF Awaits
    <3>4. CASE UNCHANGED <<tracked, daemon, ending, reaped, overlap>> /\ pc' = [pc EXCEPT ![u] = "restarted"]
      BY <1>0, <3>1, <3>4, <1>q DEF Awaits
    <3> QED
      BY <2>3, <3>2, <3>3, <3>4 DEF GenerateRaises, GenerateTimesOut, Fail
  <2>4. CASE Reaped(u)
    <3>1. /\ pc[u] \in Awaits /\ reaped' = [reaped EXCEPT ![u] = 0] /\ overlap' = overlap
          /\ Spawn(u, "restarting", "restarted") /\ ending' = ending
      BY <2>4 DEF Reaped, EndReap, Awaits
    <3>2. PICK s \in {"restarting", "restarted"} : pc' = [pc EXCEPT ![u] = s]
      BY <3>1 DEF Spawn
    <3>3. Running = {} => (Running \subseteq {tracked})'
      BY <3>1, SpawnTracks
    <3> QED
      BY <1>0, <3>1, <3>2, <3>3, ReapsItsOwn DEF Awaits
  <2> QED
    BY <1>5, <2>1, <2>2, <2>3, <2>4 DEF UserStep
<1>6. CASE \E u \in User : ThreadEnds(u)
  BY <1>6, <1>q DEF ThreadEnds
<1>7. ASSUME NEW d \in 1 .. Len(daemon), Bind(d) \/ Ends(d) PROVE OwnerInv'
  <2>1. UNCHANGED <<tracked, ending, reaped, overlap, pc>>
    BY <1>7 DEF Bind, Ends
  <2>2. PICK s \in States :
          /\ daemon' = [daemon EXCEPT ![d] = s]
          /\ \/ s = "dead"
             \/ daemon[d] = "new" /\ s = "serving"
    BY <1>7 DEF Bind, Ends, States
  <2>3. Running' \subseteq Running
    BY <1>0, <2>1, <2>2 DEF Running
  <2> QED
    BY <2>1, <2>3, OwnsStill
<1>8. CASE UNCHANGED gpuVars
  BY <1>8, <1>q DEF gpuVars
<1> QED
  BY <1>1, <1>2, <1>3, <1>4, <1>5, <1>6, <1>7, <1>8 DEF GpuNext

-----------------------------------------------------------------------------
(***************************************************************************)
(* The threads.                                                            *)
(***************************************************************************)

\* The state a step of the threads starts from.
CalmInv == GpuTypeOK /\ LockIsHeldByOne /\ NoDaemonIsForgotten /\ ThreadInv

\* Two syntheses never generate at once.
LEMMA OneGenerates ==
  ASSUME LockIsHeldByOne, NEW u \in User, NEW v \in User,
         pc[u] \in InSession \ {"wait"}, pc[v] = "generate"
  PROVE  v = u
  BY DEF LockIsHeldByOne, HoldsLock, InSession

\* start adds a daemon that does not serve yet.
LEMMA SpawnServesNone ==
  ASSUME GpuTypeOK, NEW p, NEW h, NEW b, Spawn(p, h, b), ending' = ending
  PROVE  Kept' = Kept /\ \A d \in 1 .. Len(daemon) : daemon'[d] = daemon[d]
<1>0. daemon \in Seq(States) /\ Len(daemon) \in Nat
  BY DEF GpuTypeOK, States
<1>1. CASE daemon' = Append(daemon, "new")
  BY <1>0, <1>1 DEF Serving, Kept
<1>2. CASE daemon' = daemon
  BY <1>2 DEF Serving, Kept
<1> QED
  BY <1>1, <1>2 DEF Spawn

\* After stop has told the tracked daemon, none is kept.
LEMMA TellingKeepsNone ==
  ASSUME NoDaemonIsForgotten, ~overlap, ending' = Told(tracked), daemon' = daemon
  PROVE  Kept' = {}
<1>1. Kept \subseteq {tracked}
  BY DEF NoDaemonIsForgotten, Running, Serving, Kept
<1> QED
  BY <1>1 DEF Told, Serving, Kept

\* No thread on a daemon that is kept was left behind, when the threads, the kept
\* daemons and who generates only become fewer.
LEMMA ThreadsStay ==
  ASSUME CalmInv, managed' = managed, overlap => overlap',
         threads' \subseteq threads,
         \A d \in 1 .. Len(daemon) : daemon[d] # "new" => daemon'[d] # "new",
         managed /\ ~overlap' =>
           \A t \in threads' : t[3] \in Kept' => /\ t[3] \in Kept /\ pc'[t[1]] = pc[t[1]]
                                               /\ attempt'[t[1]] = attempt[t[1]]
  PROVE  ThreadInv'
<1>1. \A t \in threads : t[1] \in User /\ t[3] \in 0 .. Len(daemon)
  BY DEF CalmInv, GpuTypeOK
<1>2. Len(daemon) \in Nat
  BY DEF CalmInv, GpuTypeOK
<1>3. \A t \in threads' : t[3] # 0 => daemon'[t[3]] # "new"
  BY <1>1, <1>2 DEF CalmInv, ThreadInv
<1>4. ASSUME managed', ~overlap', NEW t \in threads', t[3] \in Kept'
      PROVE  pc'[t[1]] = "generate" /\ t[2] = attempt'[t[1]]
  BY <1>4 DEF CalmInv, ThreadInv
<1> QED
  BY <1>3, <1>4 DEF ThreadInv

LEMMA ThreadStep == CalmInv /\ PlaceInv /\ [GpuNext]_gpuVars => ThreadInv'
<1> SUFFICES ASSUME CalmInv, PlaceInv, [GpuNext]_gpuVars
             PROVE  ThreadInv'
  OBVIOUS
<1>0. /\ GpuTypeOK /\ LockIsHeldByOne /\ NoDaemonIsForgotten /\ ThreadInv
      /\ pc \in [Proc -> Calls] /\ Main \notin User /\ Main \in Proc
      /\ \A u \in User : u \in Proc /\ u # Main
      /\ daemon \in Seq(States) /\ Len(daemon) \in Nat /\ tracked \in 0 .. Len(daemon)
      /\ overlap \in BOOLEAN /\ attempt \in [Proc -> 0 .. MaxAttempts]
      /\ \A t \in threads : t[1] \in User /\ t[3] \in 0 .. Len(daemon)
  <2>1. GpuTypeOK /\ LockIsHeldByOne /\ NoDaemonIsForgotten /\ ThreadInv
    BY DEF CalmInv
  <2>2. Main \notin User /\ Main \in Proc /\ \A u \in User : u \in Proc /\ u # Main
    BY GpuAssumption DEF Proc
  <2>3. /\ pc \in [Proc -> Calls] /\ daemon \in Seq(States) /\ tracked \in 0 .. Len(daemon)
        /\ overlap \in BOOLEAN /\ attempt \in [Proc -> 0 .. MaxAttempts]
        /\ threads \in SUBSET (User \X (0 .. MaxAttempts) \X (0 .. Len(daemon)))
    BY <2>1 DEF GpuTypeOK, States
  <2>4. Len(daemon) \in Nat
    BY <2>3
  <2>5. \A t \in threads : t[1] \in User /\ t[3] \in 0 .. Len(daemon)
    BY <2>3
  <2> QED
    BY <2>1, <2>2, <2>3, <2>4, <2>5
<1>w. ~overlap => Kept \subseteq {tracked}
  BY <1>0 DEF NoDaemonIsForgotten, Running, Serving, Kept
\* the daemons and the attempts stay
<1>q. ASSUME UNCHANGED <<managed, daemon, ending, attempt, overlap>>, threads' \subseteq threads,
             managed /\ ~overlap => \A t \in threads' : t[3] \in Kept => pc'[t[1]] = pc[t[1]]
      PROVE  ThreadInv'
  BY <1>q, ThreadsStay DEF Serving, Kept
\* u begins to generate
<1>g. ASSUME UNCHANGED <<managed, daemon, ending, attempt, overlap>>, NEW u \in User, Generating(u),
             pc' = [pc EXCEPT ![u] = "generate"]
      PROVE  ThreadInv'
  <2>1. ASSUME NEW t \in threads'
        PROVE  t \in threads \/ (t[1] = u /\ t[2] = attempt[u] /\ t[3] \in Serving \cup {0})
    BY <1>g, <2>1 DEF Generating
  <2>2. \A v \in User : pc[v] = "generate" => pc'[v] = "generate"
    BY <1>g, <1>0
  <2>3. pc'[u] = "generate" /\ Kept' = Kept
    BY <1>g, <1>0 DEF Serving, Kept
  <2>4. ASSUME NEW t \in threads', t[3] # 0 PROVE daemon'[t[3]] # "new"
    BY <1>g, <1>0, <2>1, <2>4 DEF ThreadInv, Serving
  <2>5. ASSUME managed, ~overlap, NEW t \in threads', t[3] \in Kept
        PROVE  pc'[t[1]] = "generate" /\ t[2] = attempt'[t[1]]
    BY <1>g, <1>0, <2>1, <2>2, <2>3, <2>5 DEF ThreadInv
  <2> QED
    BY <1>g, <2>3, <2>4, <2>5 DEF ThreadInv
<1>1. CASE Startup
  <2>1. daemon = <<>> /\ UNCHANGED <<managed, ending, attempt, threads, overlap>>
    BY <1>1 DEF Startup, PlaceInv
  <2>2. \A u \in User : pc'[u] = pc[u]
    BY <1>0, <1>1 DEF Startup, Spawn
  <2>3. CASE managed
    BY <1>0, <1>1, <2>1, <2>2, <2>3, SpawnServesNone, ThreadsStay DEF Startup
  <2>4. CASE ~managed
    BY <1>0, <1>1, <2>1, <2>2, <2>4, <1>q DEF Startup
  <2> QED
    BY <2>3, <2>4
<1>2. CASE StartupEnds
  <2>1. /\ UNCHANGED <<managed, daemon, ending, attempt, threads, overlap>>
        /\ \A u \in User : pc'[u] = pc[u]
    BY <1>0, <1>2 DEF StartupEnds
  <2> QED
    BY <1>0, <2>1, <1>q
<1>3. CASE Shutdown
  <2>1. UNCHANGED <<managed, daemon, attempt, threads, overlap>>
    BY <1>3 DEF Shutdown
  <2>2. ~overlap => Kept' = {}
    <3>1. CASE Alive(tracked)
      BY <1>0, <1>3, <3>1, TellingKeepsNone DEF Shutdown
    <3>2. CASE ~Alive(tracked)
      BY <1>3, <1>w, <2>1, <3>2 DEF Shutdown, Alive, Serving, Kept
    <3> QED
      BY <3>1, <3>2
  <2> QED
    BY <1>0, <2>1, <2>2, ThreadsStay
<1>4. CASE Stopped
  <2>1. /\ UNCHANGED <<managed, daemon, ending, attempt, threads, overlap>>
        /\ \A u \in User : pc'[u] = pc[u]
    BY <1>0, <1>4 DEF Stopped
  <2> QED
    BY <1>0, <2>1, <1>q
\* u, which does not generate, moves
<1>5. ASSUME NEW u \in User, pc[u] # "generate", NEW s, pc' = [pc EXCEPT ![u] = s],
             UNCHANGED <<managed, daemon, ending, attempt, threads, overlap>>
      PROVE  ThreadInv'
  <2>1. \A v \in User \ {u} : pc'[v] = pc[v]
    BY <1>0, <1>5
  <2>2. managed /\ ~overlap => \A t \in threads : t[3] \in Kept => t[1] # u
    BY <1>5, <1>0 DEF ThreadInv
  <2> QED
    BY <1>0, <1>5, <2>1, <2>2, <1>q
\* start under way for u, which does not generate
<1>6. ASSUME NEW u \in User, pc[u] # "generate", UNCHANGED <<managed, ending, attempt, threads>>,
             overlap => overlap', NEW h, NEW b, Spawn(u, h, b)
      PROVE  ThreadInv'
  <2>1. \A v \in User \ {u} : pc'[v] = pc[v]
    BY <1>0, <1>6 DEF Spawn
  <2>2. managed /\ ~overlap' => \A t \in threads : t[3] \in Kept => t[1] # u
    BY <1>0, <1>6 DEF ThreadInv
  <2> QED
    BY <1>0, <1>6, <2>1, <2>2, SpawnServesNone, ThreadsStay
<1>7. ASSUME NEW u \in User, Enter(u) PROVE ThreadInv'
  <2>1. CASE ProcessAlive
    BY <1>0, <1>7, <2>1, <1>g DEF Enter
  <2>2. CASE ~ProcessAlive
    BY <1>0, <1>7, <2>2, <1>6 DEF Enter, StartAtOnce, Overlaps
  <2> QED
    BY <2>1, <2>2
<1>8. ASSUME NEW u \in User, Healed(u) PROVE ThreadInv'
  <2>1. CASE Serving # {}
    BY <1>0, <1>8, <2>1, <1>g DEF Healed
  <2>2. CASE Serving = {}
    BY <1>8, <2>2, <1>5 DEF Healed
  <2> QED
    BY <2>1, <2>2
<1>9. ASSUME NEW u \in User, Succeed(u) PROVE ThreadInv'
  <2>1. /\ UNCHANGED <<managed, daemon, ending, attempt, overlap>>
        /\ threads' = threads \ Awaited(u) /\ \A v \in User \ {u} : pc'[v] = pc[v]
    BY <1>0, <1>9 DEF Succeed
  <2>2. ASSUME managed, ~overlap, NEW t \in threads', t[3] \in Kept PROVE t[1] # u
    BY <1>0, <2>1, <2>2 DEF Awaited, ThreadInv
  <2> QED
    BY <1>0, <2>1, <2>2, <1>q
<1>10. ASSUME NEW u \in User, GenerateRaises(u) \/ GenerateTimesOut(u) PROVE ThreadInv'
  <2>1. PICK left \in SUBSET threads : Fail(u, left) /\ pc[u] \in InSession \ {"wait"}
    <3>1. CASE GenerateRaises(u)
      BY <3>1 DEF GenerateRaises, InSession
    <3>2. CASE GenerateTimesOut(u)
      BY <3>2 DEF GenerateTimesOut, InSession
    <3> QED
      BY <1>10, <3>1, <3>2
  <2>5. managed' = managed /\ threads' \subseteq threads /\ (overlap => overlap')
    BY <1>0, <2>1 DEF Fail, StopFirst, StartAtOnce, Overlaps
  <2>2. CASE managed /\ StopFirst(u, "reaping")
    <3>1. ending' = Told(tracked) /\ daemon' = daemon
      BY <2>2 DEF StopFirst
    <3>2. ~overlap' => Kept' = {}
      BY <1>0, <2>5, <3>1, TellingKeepsNone
    <3> QED
      BY <1>0, <2>5, <3>1, <3>2, ThreadsStay
  <2>3. CASE managed /\ StartAtOnce(u, "restarting", "restarted")
    <3>1. ~Alive(tracked) /\ Spawn(u, "restarting", "restarted") /\ ending' = ending
      BY <2>3 DEF StartAtOnce
    <3>2. ~overlap' => Kept = {}
      BY <1>0, <2>5, <1>w, <3>1 DEF Alive, Serving, Kept
    <3> QED
      BY <1>0, <2>5, <3>1, <3>2, SpawnServesNone, ThreadsStay
  <2>4. CASE ~managed /\ UNCHANGED <<daemon, overlap>>
    BY <1>0, <2>5, <2>4, ThreadsStay
  <2> QED
    BY <2>1, <2>2, <2>3, <2>4 DEF Fail
<1>11. ASSUME NEW u \in User, Request(u) \/ Restarted(u) PROVE ThreadInv'
  <2>1. pc[u] # "generate" /\ UNCHANGED <<managed, daemon, ending, attempt, threads, overlap>>
    BY <1>11 DEF Request, Restarted
  <2>2. PICK s \in UserCalls : pc' = [pc EXCEPT ![u] = s]
    BY <1>11, UserMoves DEF UserStep
  <2> QED
    BY <2>1, <2>2, <1>5
<1>12. ASSUME NEW u \in User, Reaped(u) PROVE ThreadInv'
  BY <1>0, <1>12, <1>6 DEF Reaped, EndReap
<1>13. ASSUME NEW u \in User, ThreadEnds(u) PROVE ThreadInv'
  BY <1>13, <1>q DEF ThreadEnds
<1>14. ASSUME NEW d \in 1 .. Len(daemon), Bind(d) PROVE ThreadInv'
  <2>1. PICK s \in {"serving", "dead"} : daemon' = [daemon EXCEPT ![d] = s]
    BY <1>14 DEF Bind
  <2>2. \A t \in threads : t[3] # d
    BY <1>14, <1>0 DEF Bind, ThreadInv
  <2>3. Kept' \subseteq Kept \cup {d}
    BY <1>0, <1>14, <2>1 DEF Bind, Serving, Kept
  <2>4. \A e \in 1 .. Len(daemon) : daemon[e] # "new" => daemon'[e] # "new"
    BY <1>0, <2>1
  <2> QED
    BY <1>0, <1>14, <2>2, <2>3, <2>4, ThreadsStay DEF Bind
<1>15. ASSUME NEW d \in 1 .. Len(daemon), Ends(d) PROVE ThreadInv'
  <2>1. daemon' = [daemon EXCEPT ![d] = "dead"] /\ threads' \subseteq threads
    BY <1>15 DEF Ends
  <2>2. Kept' \subseteq Kept
    BY <1>0, <1>15, <2>1 DEF Ends, Serving, Kept
  <2>3. \A e \in 1 .. Len(daemon) : daemon[e] # "new" => daemon'[e] # "new"
    BY <1>0, <2>1
  <2> QED
    BY <1>0, <1>15, <2>1, <2>2, <2>3, ThreadsStay DEF Ends
<1>16. CASE UNCHANGED gpuVars
  BY <1>16, <1>q DEF gpuVars
<1> QED
  BY <1>1, <1>2, <1>3, <1>4, <1>7, <1>8, <1>9, <1>10, <1>11, <1>12, <1>13, <1>14,
     <1>15, <1>16 DEF GpuNext, UserStep

-----------------------------------------------------------------------------
(***************************************************************************)
(* The theorems.                                                           *)
(***************************************************************************)

LEMMA GpuInitInv == GpuInit => GpuInv
<1> SUFFICES ASSUME GpuInit PROVE GpuInv
  OBVIOUS
<1> USE GpuAssumption DEF GpuInit
<1>1. GpuTypeOK
  <2>1. /\ daemon \in Seq({"new", "serving", "dead"}) /\ Len(daemon) = 0
        /\ lockQ \in Seq(User)
    OBVIOUS
  <2>2. pc \in [Proc -> Calls]
    BY DEF Calls
  <2>3. 0 \in 0 .. Len(daemon) /\ 0 \in 0 .. MaxAttempts
    BY <2>1
  <2>4. reaped \in [Proc -> 0 .. Len(daemon)] /\ attempt \in [Proc -> 0 .. MaxAttempts]
    BY <2>3
  <2>5. Len(daemon) <= MaxDaemons /\ tracked \in 0 .. Len(daemon)
    BY <2>1
  <2> QED
    BY <2>1, <2>2, <2>4, <2>5 DEF GpuTypeOK
<1>2. PlaceInv /\ CountInv
  BY DEF PlaceInv, CountInv, UserCalls, MainCalls, Proc
<1>3. LockIsHeldByOne
  BY DEF LockIsHeldByOne, Proc
<1>4. ReapInv /\ NoDaemonIsForgotten /\ ThreadInv
  BY DEF ReapInv, NoDaemonIsForgotten, ThreadInv, Running
<1> QED
  BY <1>1, <1>2, <1>3, <1>4 DEF GpuInv

LEMMA GpuStepInv == GpuInv /\ [GpuNext]_gpuVars => GpuInv'
  BY TypeStep, PlaceStep, CountStep, LockStep, OwnerStep, ThreadStep
     DEF GpuInv, OwnerInv, CalmInv

\* The inductive invariant of the orchestrator.
THEOREM GpuInvariance == GpuSpec => []GpuInv
  BY GpuInitInv, GpuStepInv, PTL DEF GpuSpec

\* The types: at most MaxAttempts attempts, no more daemons than were started.
THEOREM GpuTypes == GpuSpec => []GpuTypeOK
<1>1. GpuInv => GpuTypeOK
  BY DEF GpuInv
<1> QED
  BY <1>1, GpuInvariance, PTL

\* Exactly the syntheses in a session are in the lock, each once, and only its
\* holder is past the wait (gpu_session), for any number of syntheses.
THEOREM LockReturns == GpuSpec => []LockIsHeldByOne
<1>1. GpuInv => LockIsHeldByOne
  BY DEF GpuInv
<1> QED
  BY <1>1, GpuInvariance, PTL

\* Unless two restarts overlapped, no daemon that nobody told to end is
\* forgotten (restart, stop and start, whatever ends or fails between).
THEOREM OneOwner == GpuSpec => []NoDaemonIsForgotten
<1>1. GpuInv => NoDaemonIsForgotten
  BY DEF GpuInv
<1> QED
  BY <1>1, GpuInvariance, PTL

\* The daemon that is kept never works for two attempts at once, though a
\* timeout leaves the thread of one behind (_run_synthesis): that thread is on a
\* daemon that stop has told to end.
THEOREM OneJob == GpuSpec => []OneJobPerDaemon
<1>1. ASSUME GpuInv PROVE OneJobPerDaemon
  <2> SUFFICES ASSUME managed, ~overlap, NEW d \in Serving \ ending
               PROVE  Cardinality({t \in threads : t[3] = d}) <= 1
    BY DEF OneJobPerDaemon
  <2> DEFINE jobs == {t \in threads : t[3] = d}
             job == <<Head(lockQ), attempt[Head(lockQ)], d>>
  <2>1. ASSUME NEW t \in jobs PROVE t = job
    <3>1. /\ t = <<t[1], t[2], t[3]>> /\ t[1] \in User /\ t[3] = d
      BY <1>1 DEF GpuInv, GpuTypeOK
    <3>2. pc[t[1]] = "generate" /\ t[2] = attempt[t[1]]
      BY <1>1 DEF GpuInv, ThreadInv, Kept
    <3>3. t[1] = Head(lockQ)
      BY <1>1, <3>1, <3>2 DEF GpuInv, LockIsHeldByOne, HoldsLock
    <3> QED
      BY <3>1, <3>2, <3>3
  <2> HIDE DEF job
  <2>2. jobs \subseteq {job}
    BY <2>1
  <2>3. IsFiniteSet({job}) /\ Cardinality({job}) = 1
    BY FS_Singleton
  <2> QED
    BY <2>2, <2>3, FS_Subset
<1> QED
  BY <1>1, GpuInvariance, PTL

=============================================================================
