------------------------- MODULE ScanIngestionProofs -------------------------
(***************************************************************************)
(* Proofs about ScanIngestion, for every set of files, scans and threads,  *)
(* any number of stable looks, of errors and of ends of the process.       *)
(***************************************************************************)
EXTENDS ScanIngestion, FiniteSetTheorems, TLAPS

Busy(t) == thr[t].stage # "idle"

\* A thread counts equal sizes only of a file that has one; a steady scanner
\* gives it two equal ones only of a complete file.
ThreadInv ==
  \A t \in Thread :
    /\ ~Busy(t) => thr[t] = Idle
    /\ Busy(t) => thr[t].file \in File
    /\ thr[t].stage = "poll" => thr[t].equal < StableChecks
    /\ thr[t].stage = "read" => thr[t].equal > 0
    /\ thr[t].equal > 0 => /\ size[thr[t].file] > 0
                           /\ steady => size[thr[t].file] = FullSize

\* The observer has not told of f yet.
Untold(f) == name[f] = "tmp" \/ (name[f] = "absent" /\ size[f] = 0)

\* A path is in one place: not told of, in the pool, with a thread, or sent.
PathInv ==
  /\ phase = "down" => /\ pool = <<>> /\ seen = {}
                       /\ \A t \in Thread : ~Busy(t)
                       /\ \A f \in File : sub[f] = NothingSent
  /\ \A f \in File : Untold(f) => /\ \A i \in 1 .. Len(pool) : pool[i] # f
                                  /\ \A t \in Thread : thr[t].file # f
                                  /\ sub[f] = NothingSent
  /\ \A i, j \in 1 .. Len(pool) : pool[i] = pool[j] => i = j
  /\ \A i \in 1 .. Len(pool) : /\ sub[pool[i]] = NothingSent
                               /\ \A t \in Thread : thr[t].file # pool[i]
  /\ \A t, u \in Thread : Busy(t) /\ t # u => thr[t].file # thr[u].file
  /\ \A t \in Thread : Busy(t) => sub[thr[t].file] = NothingSent

\* A submission that will still attach.
Pending(f) == sub[f].stage \in {"posted", "opened"}

\* A digest is claimed before it is submitted, and only one submission of it
\* attaches.
ClaimInv ==
  /\ \A f \in File : sub[f] # NothingSent => sub[f].digest \in seen
  /\ \A d \in Digest : attached[d] > 1 => d \in blind
  /\ \A f \in File : Pending(f) /\ sub[f].digest \notin blind =>
       /\ attached[sub[f].digest] = 0
       /\ \A g \in File : Pending(g) /\ sub[g].digest = sub[f].digest => g = f

ScanInv ==
  /\ ScanTypeOK /\ ThreadInv /\ PathInv /\ ClaimInv
  /\ SeenHasSubmission /\ SteadyScansAreWhole

-----------------------------------------------------------------------------
(***************************************************************************)
(* What holds of the initial states and of single values.                  *)
(***************************************************************************)

LEMMA EmptyPool == <<>> \in Seq(File) /\ Len(<<>>) = 0
  OBVIOUS

LEMMA IdleType ==
  /\ Idle \in [file : File \cup {NoFile}, stage : {"idle", "poll", "read"},
               last : -1 .. FullSize, equal : 0 .. StableChecks]
  /\ Idle.stage = "idle" /\ Idle.file = NoFile /\ Idle.file \notin File /\ Idle.equal = 0
  BY ScanAssumption DEF Idle

LEMMA NothingIsSent ==
  NothingSent.stage = "none" /\ NothingSent.digest \notin Digest
  BY DEF NothingSent, Digest

LEMMA ScanInitInv == ScanInit => ScanInv
<1> SUFFICES ASSUME ScanInit PROVE ScanInv
  OBVIOUS
<1> USE DEF ScanInit
<1>1. ScanTypeOK
  BY ScanAssumption, EmptyPool, IdleType DEF ScanTypeOK
<1>2. ThreadInv
  BY IdleType, ScanAssumption DEF ThreadInv, Busy
<1>3. PathInv
  BY IdleType, EmptyPool DEF PathInv, Busy
<1>4. ClaimInv
  BY NothingIsSent DEF ClaimInv, Pending
<1>5. SeenHasSubmission /\ SteadyScansAreWhole
  BY NothingIsSent DEF SeenHasSubmission, SteadyScansAreWhole
<1> QED
  BY <1>1, <1>2, <1>3, <1>4, <1>5 DEF ScanInv

-----------------------------------------------------------------------------
(***************************************************************************)
(* The scanner's steps.                                                    *)
(***************************************************************************)

\* What a step that touches neither rows nor submissions leaves alone.
LEMMA ClaimsUndisturbed ==
  ASSUME ClaimInv, SeenHasSubmission, SteadyScansAreWhole,
         UNCHANGED <<steady, attached, seen, sub, blind>>
  PROVE  ClaimInv' /\ SeenHasSubmission' /\ SteadyScansAreWhole'
  BY DEF ClaimInv, Pending, SeenHasSubmission, SteadyScansAreWhole

\* A name that appears: an untold path is told to the observer, or to nobody.
LEMMA AppearsInv ==
  ASSUME ScanInv, NEW f \in File, Untold(f), Appears(f),
         UNCHANGED <<scan, size, steady, scanRows, phase, thr, seen, sub, history>>
  PROVE  ScanInv'
<1> USE DEF ScanInv, scanRows, history
<1>1. /\ name' = [name EXCEPT ![f] = "final"]
      /\ \/ phase = "up" /\ pool' = Append(pool, f)
         \/ pool' = pool
  BY DEF Appears
<1>2. /\ pool \in Seq(File) /\ f \in File
      /\ \A i \in 1 .. Len(pool) : pool[i] # f
      /\ \A t \in Thread : thr[t].file # f
      /\ sub[f] = NothingSent
  BY DEF ScanTypeOK, PathInv
<1>3. ScanTypeOK'
  <2>1. pool' \in Seq(File)
    BY <1>1, <1>2
  <2>2. name' \in [File -> {"absent", "tmp", "final"}]
    BY <1>1 DEF ScanTypeOK
  <2> QED
    BY <2>1, <2>2 DEF ScanTypeOK
<1>4. ThreadInv'
  BY DEF ThreadInv, Busy
<1>5. PathInv'
  <2>1. \A g \in File : Untold(g)' => Untold(g) /\ g # f
    BY <1>1 DEF Untold, ScanTypeOK
  <2>2. CASE phase = "up" /\ pool' = Append(pool, f)
    <3>1. /\ Len(pool') = Len(pool) + 1 /\ Len(pool) \in Nat
          /\ \A i \in 1 .. Len(pool) : pool'[i] = pool[i]
          /\ pool'[Len(pool) + 1] = f
      BY <1>2, <2>2
    <3>2. \A i \in 1 .. Len(pool') : i \in 1 .. Len(pool) \/ i = Len(pool) + 1
      BY <3>1
    <3> QED
      BY <1>2, <2>1, <2>2, <3>1, <3>2 DEF PathInv, Busy
  <2>3. CASE pool' = pool
    BY <2>1, <2>3 DEF PathInv, Busy
  <2> QED
    BY <1>1, <2>2, <2>3
<1> QED
  BY <1>3, <1>4, <1>5, ClaimsUndisturbed

LEMMA WriteInv ==
  ASSUME ScanInv, NEW f \in File, Write(f) PROVE ScanInv'
<1>1. Untold(f)
  BY DEF Write, Untold
<1>2. CASE Appears(f)
  BY <1>1, <1>2, AppearsInv DEF Write
<1>3. CASE name' = [name EXCEPT ![f] = "tmp"] /\ UNCHANGED pool
  <2> USE DEF ScanInv, Write, scanRows, history
  <2>1. ScanTypeOK'
    BY <1>3 DEF ScanTypeOK
  <2>2. ThreadInv'
    BY <1>3 DEF ThreadInv, Busy
  <2>3. \A g \in File : Untold(g)' => Untold(g)
    BY <1>1, <1>3 DEF Untold, ScanTypeOK
  <2>4. PathInv'
    BY <1>3, <2>3 DEF PathInv, Busy
  <2> QED
    BY <1>3, <2>1, <2>2, <2>4, ClaimsUndisturbed
<1> QED
  BY <1>2, <1>3 DEF Write

LEMMA RenameInv ==
  ASSUME ScanInv, NEW f \in File, Rename(f) PROVE ScanInv'
  BY AppearsInv DEF Rename, Untold

LEMMA GrowInv ==
  ASSUME ScanInv, NEW f \in File, Grow(f) PROVE ScanInv'
<1>1. /\ ThreadInv /\ PathInv /\ ScanTypeOK /\ ClaimInv
      /\ SeenHasSubmission /\ SteadyScansAreWhole
      /\ UNCHANGED <<scan, name, steady, cases, attached, phase, pool, thr, seen, sub,
                     entered, blind, faults, crashes>>
      /\ name[f] # "absent" /\ size[f] < FullSize
      /\ size' = [size EXCEPT ![f] = @ + 1] /\ size \in [File -> 0 .. FullSize]
  BY DEF ScanInv, ScanTypeOK, Grow, scanRows, memory, history
<1>2. \A g \in File : /\ size'[g] \in 0 .. FullSize
                      /\ size[g] > 0 => size'[g] > 0
                      /\ size[g] = FullSize => size'[g] = FullSize
                      /\ g # f => size'[g] = size[g]
  BY <1>1, ScanAssumption
<1>3. ScanTypeOK'
  <2>1. size' \in [File -> 0 .. FullSize]
    BY <1>1, <1>2
  <2> QED
    BY <1>1, <2>1 DEF ScanTypeOK
<1>4. ThreadInv'
  <2>1. thr' = thr /\ steady' = steady /\ ThreadInv
    BY <1>1
  <2>2. ASSUME NEW t \in Thread, thr[t].equal > 0
        PROVE  size'[thr[t].file] > 0 /\ (steady => size'[thr[t].file] = FullSize)
    <3>1. thr[t].file \in File /\ size[thr[t].file] > 0 /\ (steady => size[thr[t].file] = FullSize)
      BY <2>1, <2>2, IdleType DEF ThreadInv, Busy
    <3> QED
      BY <1>2, <3>1
  <2> QED
    BY <2>1, <2>2 DEF ThreadInv, Busy
<1>5. \A g \in File : Untold(g)' => Untold(g)
  BY <1>1, <1>2 DEF Untold
<1>6. PathInv'
  BY <1>1, <1>5 DEF PathInv, Busy
<1> QED
  BY <1>1, <1>3, <1>4, <1>6, ClaimsUndisturbed DEF ScanInv

LEMMA RemoveInv ==
  ASSUME ScanInv, NEW f \in File, Remove(f) PROVE ScanInv'
<1> USE DEF ScanInv, Remove, scanRows, memory, history
<1>1. ScanTypeOK'
  BY DEF ScanTypeOK
<1>2. ThreadInv'
  BY DEF ThreadInv, Busy
<1>3. \A g \in File : Untold(g)' => Untold(g)
  BY DEF Untold, ScanTypeOK
<1>4. PathInv'
  BY <1>3 DEF PathInv, Busy
<1> QED
  BY <1>1, <1>2, <1>4, ClaimsUndisturbed

-----------------------------------------------------------------------------
(***************************************************************************)
(* The process's steps.                                                    *)
(***************************************************************************)

LEMMA ListInv ==
  ASSUME ScanInv, List PROVE ScanInv'
<1> USE DEF ScanInv, List, folder, scanRows, history
<1>1. PICK order \in [1 .. Cardinality(Candidates) -> Candidates] :
        /\ \A i, j \in DOMAIN order : order[i] = order[j] => i = j
        /\ pool' = order
  OBVIOUS
<1>2. Candidates \subseteq File /\ Cardinality(Candidates) \in Nat
  BY ScanAssumption, FS_Subset, FS_CardinalityType DEF Candidates
<1>3. pool' \in Seq(File) /\ Len(pool') = Cardinality(Candidates)
  BY <1>1, <1>2
<1>4. \A i \in 1 .. Len(pool') : pool'[i] \in Candidates
  BY <1>1, <1>3
<1>5. ScanTypeOK'
  BY <1>3 DEF ScanTypeOK
<1>6. ThreadInv'
  BY DEF ThreadInv, Busy
<1>7. PathInv'
  <2>1. \A f \in File : Untold(f)' <=> Untold(f)
    BY DEF Untold
  <2>2. \A f \in Candidates : f \in File /\ ~Untold(f) /\ sub[f] = NothingSent
    BY DEF Candidates, Untold, PathInv
  <2>3. \A t \in Thread : thr[t].file \notin File
    BY IdleType DEF PathInv, ThreadInv
  <2> QED
    BY <1>1, <1>3, <1>4, <2>1, <2>2, <2>3 DEF PathInv, Busy
<1> QED
  BY <1>5, <1>6, <1>7, ClaimsUndisturbed

LEMMA WatchInv ==
  ASSUME ScanInv, Watch PROVE ScanInv'
<1> USE DEF ScanInv, Watch, folder, scanRows, history
<1>1. ScanTypeOK' /\ ThreadInv'
  BY DEF ScanTypeOK, ThreadInv, Busy
<1>2. PathInv'
  BY DEF PathInv, Busy, Untold
<1> QED
  BY <1>1, <1>2, ClaimsUndisturbed

LEMMA EndOfProcessInv ==
  ASSUME ScanInv, EndOfProcess PROVE ScanInv'
<1> USE DEF ScanInv, EndOfProcess, folder, scanRows
<1>1. ScanTypeOK'
  BY EmptyPool, IdleType DEF ScanTypeOK
<1>2. ThreadInv'
  BY IdleType, ScanAssumption DEF ThreadInv, Busy
<1>3. PathInv'
  BY IdleType, EmptyPool DEF PathInv, Busy
<1>4. ClaimInv'
  BY NothingIsSent DEF ClaimInv, Pending
<1>5. SeenHasSubmission' /\ SteadyScansAreWhole'
  BY NothingIsSent DEF SeenHasSubmission, SteadyScansAreWhole
<1> QED
  BY <1>1, <1>2, <1>3, <1>4, <1>5

-----------------------------------------------------------------------------
(***************************************************************************)
(* The threads' steps.                                                     *)
(***************************************************************************)

\* A thread that goes back to the pool of threads frees its path.
LEMMA FinishThreadInv ==
  ASSUME ScanInv, NEW t \in Thread, Finish(t), UNCHANGED <<size, steady>>
  PROVE  /\ ThreadInv' /\ \A u \in Thread : u # t => thr'[u] = thr[u]
         /\ thr'[t] = Idle /\ thr' \in [Thread -> [file : File \cup {NoFile},
               stage : {"idle", "poll", "read"}, last : -1 .. FullSize,
               equal : 0 .. StableChecks]]
<1>1. thr' = [thr EXCEPT ![t] = Idle] /\ DOMAIN thr = Thread
  BY DEF Finish, ScanInv, ScanTypeOK
<1>2. thr'[t] = Idle /\ \A u \in Thread : u # t => thr'[u] = thr[u]
  BY <1>1
<1>3. ThreadInv'
  BY <1>2, IdleType, ScanAssumption DEF ThreadInv, Busy, ScanInv
<1>4. thr' \in [Thread -> [file : File \cup {NoFile}, stage : {"idle", "poll", "read"},
                          last : -1 .. FullSize, equal : 0 .. StableChecks]]
  BY <1>1, IdleType DEF ScanInv, ScanTypeOK
<1> QED
  BY <1>2, <1>3, <1>4

\* Where paths are when t goes back to the pool of threads.
LEMMA FinishPathInv ==
  ASSUME ScanInv, NEW t \in Thread, Busy(t), Finish(t), UNCHANGED <<name, size, phase, pool, steady>>
  PROVE  /\ \A g \in File : Untold(g)' => /\ \A i \in 1 .. Len(pool') : pool'[i] # g
                                          /\ \A u \in Thread : thr'[u].file # g
                                          /\ sub[g] = NothingSent /\ thr[t].file # g
         /\ \A i, j \in 1 .. Len(pool') : pool'[i] = pool'[j] => i = j
         /\ \A i \in 1 .. Len(pool') : /\ sub[pool'[i]] = NothingSent
                                       /\ thr[t].file # pool'[i]
                                       /\ \A u \in Thread : thr'[u].file # pool'[i]
         /\ \A u, v \in Thread : Busy(u)' /\ u # v => thr'[u].file # thr'[v].file
         /\ \A u \in Thread : Busy(u)' => /\ sub[thr'[u].file] = NothingSent
                                          /\ thr'[u].file # thr[t].file
         /\ \A u \in Thread : Busy(u)' => Busy(u)
<1>1. /\ thr'[t] = Idle /\ \A u \in Thread : u # t => thr'[u] = thr[u]
      /\ PathInv /\ ThreadInv /\ pool \in Seq(File)
  BY FinishThreadInv DEF ScanInv, ScanTypeOK
<1>2. ~Busy(t)' /\ thr'[t].file \notin File
  BY <1>1, IdleType DEF Busy
<1>3. \A u \in Thread : Busy(u)' => Busy(u) /\ thr'[u] = thr[u] /\ u # t /\ thr[u].file \in File
  BY <1>1, <1>2 DEF Busy, ThreadInv
<1>4. \A g \in File : Untold(g)' <=> Untold(g)
  BY DEF Untold
<1>5. \A i \in 1 .. Len(pool) : pool[i] \in File
  BY <1>1
<1>6. \A g \in File : Untold(g)' => /\ \A i \in 1 .. Len(pool') : pool'[i] # g
                                    /\ \A u \in Thread : thr'[u].file # g
                                    /\ sub[g] = NothingSent /\ thr[t].file # g
  BY <1>1, <1>2, <1>4 DEF PathInv
<1>7. \A i, j \in 1 .. Len(pool') : pool'[i] = pool'[j] => i = j
  BY <1>1 DEF PathInv
<1>8. \A i \in 1 .. Len(pool') : /\ sub[pool'[i]] = NothingSent
                                 /\ thr[t].file # pool'[i]
                                 /\ \A u \in Thread : thr'[u].file # pool'[i]
  BY <1>1, <1>2, <1>5 DEF PathInv
<1>9. \A u, v \in Thread : Busy(u)' /\ u # v => thr'[u].file # thr'[v].file
  BY <1>1, <1>2, <1>3 DEF PathInv
<1>10. \A u \in Thread : Busy(u)' => /\ sub[thr'[u].file] = NothingSent
                                     /\ thr'[u].file # thr[t].file
  BY <1>1, <1>3 DEF PathInv
<1> QED
  BY <1>3, <1>6, <1>7, <1>8, <1>9, <1>10

LEMMA GiveUpPollingInv ==
  ASSUME ScanInv, NEW t \in Thread, GiveUpPolling(t) PROVE ScanInv'
<1>1. /\ ThreadInv /\ PathInv /\ ScanTypeOK /\ ClaimInv
      /\ SeenHasSubmission /\ SteadyScansAreWhole
      /\ UNCHANGED <<scan, name, size, steady, cases, attached, phase, pool, seen, sub,
                     entered, blind, faults, crashes>>
      /\ Finish(t) /\ Busy(t)
  BY DEF ScanInv, GiveUpPolling, folder, scanRows, history, Busy
<1>2. ThreadInv' /\ ScanTypeOK'
  BY <1>1, FinishThreadInv DEF ScanTypeOK
<1>3. PathInv'
  BY <1>1, FinishPathInv DEF PathInv
<1> QED
  BY <1>1, <1>2, <1>3, ClaimsUndisturbed DEF ScanInv

LEMMA TakePathInv ==
  ASSUME ScanInv, NEW t \in Thread, TakePath(t) PROVE ScanInv'
<1> DEFINE f == Head(pool)
           taken == [file |-> f, stage |-> "poll", last |-> -1, equal |-> 0]
<1>1. /\ ThreadInv /\ PathInv /\ ScanTypeOK /\ ClaimInv
      /\ SeenHasSubmission /\ SteadyScansAreWhole
      /\ UNCHANGED <<scan, name, size, steady, cases, attached, phase, seen, sub,
                     entered, blind, faults, crashes>>
      /\ phase # "down" /\ pool # <<>> /\ pool' = Tail(pool)
      /\ thr' = [thr EXCEPT ![t] = taken]
  BY DEF ScanInv, TakePath, folder, scanRows, history
<1>2. /\ pool \in Seq(File) /\ f \in File /\ f = pool[1] /\ pool' \in Seq(File)
      /\ Len(pool) \in Nat \ {0} /\ Len(pool') = Len(pool) - 1
      /\ \A i \in 1 .. Len(pool') : pool'[i] = pool[i + 1]
  BY <1>1 DEF ScanTypeOK
<1> HIDE DEF f
<1>4. DOMAIN thr = Thread
  BY <1>1 DEF ScanTypeOK
<1>5. taken \in [file : File \cup {NoFile}, stage : {"idle", "poll", "read"},
                last : -1 .. FullSize, equal : 0 .. StableChecks]
  BY <1>2, ScanAssumption
<1>6. /\ thr'[t].file = f /\ thr'[t].stage = "poll" /\ thr'[t].equal = 0
      /\ \A u \in Thread : u # t => thr'[u] = thr[u]
  BY <1>1, <1>4
<1> HIDE DEF taken
<1>7. ScanTypeOK'
  <2>1. thr' \in [Thread -> [file : File \cup {NoFile}, stage : {"idle", "poll", "read"},
                            last : -1 .. FullSize, equal : 0 .. StableChecks]]
    BY <1>1, <1>5 DEF ScanTypeOK
  <2> QED
    BY <1>1, <1>2, <2>1 DEF ScanTypeOK
<1>8. ThreadInv'
  BY <1>1, <1>2, <1>6, ScanAssumption DEF ThreadInv, Busy
<1>9. \A i \in 1 .. Len(pool') : i + 1 \in 1 .. Len(pool) /\ i + 1 # 1
  BY <1>2
<1>10. 1 \in 1 .. Len(pool)
  BY <1>2
<1>11. /\ sub[f] = NothingSent /\ \A u \in Thread : thr[u].file # f
       /\ \A i \in 1 .. Len(pool') : pool'[i] # f
       /\ ~Untold(f)
  BY <1>1, <1>2, <1>9, <1>10 DEF PathInv
<1>12. PathInv'
  <2>1. \A g \in File : Untold(g)' <=> Untold(g)
    BY <1>1 DEF Untold
  <2>2. \A i, j \in 1 .. Len(pool') : pool'[i] = pool'[j] => i = j
    <3>1. ASSUME NEW i \in 1 .. Len(pool'), NEW j \in 1 .. Len(pool'), pool'[i] = pool'[j]
          PROVE  i + 1 = j + 1
      BY <1>1, <1>2, <1>9, <3>1 DEF PathInv
    <3> QED
      BY <1>2, <3>1
  <2>3. \A i \in 1 .. Len(pool') : /\ sub'[pool'[i]] = NothingSent
                                   /\ \A u \in Thread : thr'[u].file # pool'[i]
    BY <1>1, <1>2, <1>6, <1>9, <1>11 DEF PathInv
  <2>4. \A u, v \in Thread : Busy(u)' /\ u # v => thr'[u].file # thr'[v].file
    BY <1>1, <1>6, <1>11 DEF PathInv, Busy
  <2>5. \A u \in Thread : Busy(u)' => sub'[thr'[u].file] = NothingSent
    BY <1>1, <1>6, <1>11 DEF PathInv, Busy
  <2>6. \A g \in File : Untold(g)' => /\ \A i \in 1 .. Len(pool') : pool'[i] # g
                                      /\ \A u \in Thread : thr'[u].file # g
                                      /\ sub'[g] = NothingSent
    BY <1>1, <1>2, <1>6, <1>9, <1>11, <2>1 DEF PathInv
  <2> QED
    BY <1>1, <2>2, <2>3, <2>4, <2>5, <2>6 DEF PathInv
<1> QED
  BY <1>1, <1>7, <1>8, <1>12, ClaimsUndisturbed DEF ScanInv

LEMMA PollInv ==
  ASSUME ScanInv, NEW t \in Thread, Poll(t) PROVE ScanInv'
<1> DEFINE f == thr[t].file
           equal == IF size[f] > 0 /\ size[f] = thr[t].last THEN thr[t].equal + 1 ELSE 0
           stage == IF IsStable(size[f], equal) THEN "read" ELSE "poll"
           looked == [file |-> f, stage |-> stage, last |-> size[f], equal |-> equal]
<1>1. /\ ThreadInv /\ PathInv /\ ScanTypeOK /\ ClaimInv
      /\ SeenHasSubmission /\ SteadyScansAreWhole
      /\ UNCHANGED <<scan, name, size, steady, cases, attached, phase, pool, seen, sub,
                     entered, blind, faults, crashes>>
  BY DEF ScanInv, Poll, folder, scanRows, history
<1>2. /\ thr[t] \in [file : File \cup {NoFile}, stage : {"idle", "poll", "read"},
                     last : -1 .. FullSize, equal : 0 .. StableChecks]
      /\ DOMAIN thr = Thread
  BY <1>1 DEF ScanTypeOK
<1>3. /\ thr[t].stage = "poll" /\ f \in File /\ size[f] \in 0 .. FullSize
      /\ thr[t].equal < StableChecks
      /\ thr[t].equal \in 0 .. StableChecks
      /\ steady => size[f] = FullSize \/ size[f] # thr[t].last
  BY <1>1, <1>2 DEF Poll, ThreadInv, Busy, ScanTypeOK
<1>4. /\ equal \in 0 .. StableChecks
      /\ equal > 0 => size[f] > 0 /\ (steady => size[f] = FullSize)
  BY <1>3, ScanAssumption
<1>5. thr' = [thr EXCEPT ![t] = looked]
  BY <1>3 DEF Poll
<1> HIDE DEF equal
<1>6. /\ stage = "poll" => equal < StableChecks
      /\ stage = "read" => equal > 0
      /\ stage \in {"poll", "read"}
  BY <1>4, ScanAssumption DEF IsStable
<1> HIDE DEF stage
<1>9. looked \in [file : File \cup {NoFile}, stage : {"idle", "poll", "read"},
                 last : -1 .. FullSize, equal : 0 .. StableChecks]
  BY <1>3, <1>4, <1>6, ScanAssumption
<1>10. /\ thr'[t].file = f /\ thr'[t].stage = stage /\ thr'[t].equal = equal
       /\ \A u \in Thread : u # t => thr'[u] = thr[u]
  BY <1>2, <1>5
<1>11. ScanTypeOK'
  <2> HIDE DEF looked
  <2> QED
    BY <1>1, <1>5, <1>9 DEF ScanTypeOK
<1> HIDE DEF looked
<1>12. ThreadInv'
  <2>1. ASSUME NEW u \in Thread, u # t
        PROVE  thr'[u] = thr[u]
    BY <1>10, <2>1
  <2>2. /\ Busy(t)' /\ thr'[t].file \in File
        /\ thr'[t].stage = "poll" => thr'[t].equal < StableChecks
        /\ thr'[t].stage = "read" => thr'[t].equal > 0
        /\ thr'[t].equal > 0 => /\ size[thr'[t].file] > 0
                                /\ steady => size[thr'[t].file] = FullSize
    BY <1>3, <1>4, <1>6, <1>10 DEF Busy
  <2>3. size' = size /\ steady' = steady /\ ThreadInv
    BY <1>1
  <2> HIDE DEF f
  <2>4. ASSUME NEW u \in Thread
        PROVE  /\ ~Busy(u)' => thr'[u] = Idle
               /\ Busy(u)' => thr'[u].file \in File
               /\ thr'[u].stage = "poll" => thr'[u].equal < StableChecks
               /\ thr'[u].stage = "read" => thr'[u].equal > 0
               /\ thr'[u].equal > 0 => /\ size[thr'[u].file] > 0
                                       /\ steady => size[thr'[u].file] = FullSize
    <3>1. CASE u = t
      BY <2>2, <3>1 DEF Busy
    <3>2. CASE u # t
      BY <2>1, <2>3, <3>2 DEF ThreadInv, Busy
    <3> QED
      BY <3>1, <3>2
  <2> QED
    BY <2>3, <2>4 DEF ThreadInv, Busy
<1>13. PathInv'
  <2>1. \A u \in Thread : thr'[u].file = thr[u].file /\ (Busy(u)' <=> Busy(u))
    BY <1>3, <1>6, <1>10 DEF Busy
  <2>2. \A g \in File : Untold(g)' <=> Untold(g)
    BY <1>1 DEF Untold
  <2> QED
    BY <1>1, <2>1, <2>2 DEF PathInv
<1> QED
  BY <1>1, <1>11, <1>12, <1>13, ClaimsUndisturbed DEF ScanInv

\* A thread that has read its file goes back; what it read is seen, and is
\* submitted when nobody has.
LEMMA ReadAndClaimInv ==
  ASSUME ScanInv, NEW t \in Thread, ReadAndClaim(t) PROVE ScanInv'
<1> DEFINE f == thr[t].file
           d == DigestOf(f)
           posted == [stage |-> "posted", digest |-> d]
<1>1. /\ ThreadInv /\ PathInv /\ ScanTypeOK /\ ClaimInv
      /\ SeenHasSubmission /\ SteadyScansAreWhole
      /\ UNCHANGED <<scan, name, size, steady, cases, attached, phase, pool, entered, crashes>>
      /\ Finish(t) /\ thr[t].stage = "read" /\ Busy(t)
  BY DEF ScanInv, ReadAndClaim, folder, scanRows, Busy
<1>2. /\ f \in File /\ size[f] > 0 /\ (steady => size[f] = FullSize)
      /\ size[f] \in 0 .. FullSize /\ scan[f] \in Scan
      /\ sub[f] = NothingSent
  BY <1>1 DEF ThreadInv, PathInv, ScanTypeOK
<1>3. d \in Digest /\ (steady => d[2] = FullSize)
  BY <1>2, ScanAssumption DEF Digest, DigestOf
<1>4. \/ UNCHANGED <<seen, sub, blind, faults>>
      \/ Claimed(d) /\ seen' = seen \cup {d} /\ UNCHANGED <<sub, blind, faults>>
      \/ ~Claimed(d) /\ seen' = seen \cup {d} /\ sub' = [sub EXCEPT ![f] = posted]
         /\ UNCHANGED <<blind, faults>>
      \/ d \notin seen /\ seen' = seen \cup {d} /\ sub' = [sub EXCEPT ![f] = posted]
         /\ blind' = blind \cup {d} /\ faults' = faults + 1
  BY DEF ReadAndClaim
<1>5. /\ posted.stage = "posted" /\ posted.digest = d /\ posted # NothingSent
      /\ posted \in Submission
  BY <1>3 DEF NothingSent, Submission
<1> HIDE DEF f, d, posted
<1>6. ThreadInv'
  BY <1>1, FinishThreadInv
<1>7. \/ sub' = sub
      \/ sub' = [sub EXCEPT ![f] = posted] /\ d \in seen'
  BY <1>4
<1>8. /\ \A g \in File : g # f => sub'[g] = sub[g]
      /\ sub'[f] = posted \/ sub'[f] = sub[f]
  BY <1>1, <1>2, <1>7 DEF ScanTypeOK
<1>9. ScanTypeOK'
  <2>1. thr' \in [Thread -> [file : File \cup {NoFile}, stage : {"idle", "poll", "read"},
                            last : -1 .. FullSize, equal : 0 .. StableChecks]]
    BY <1>1, FinishThreadInv
  <2>2. seen' \in SUBSET Digest /\ blind' \in SUBSET Digest /\ faults' \in Nat
    BY <1>1, <1>3, <1>4 DEF ScanTypeOK
  <2>3. sub' \in [File -> Submission \cup {NothingSent}]
    BY <1>1, <1>5, <1>7 DEF ScanTypeOK
  <2> QED
    BY <1>1, <2>1, <2>2, <2>3 DEF ScanTypeOK
<1>10. PathInv'
  <2>1. \A g \in File : Untold(g)' =>
          /\ \A i \in 1 .. Len(pool') : pool'[i] # g
          /\ \A u \in Thread : thr'[u].file # g
          /\ sub[g] = NothingSent /\ f # g
    BY <1>1, FinishPathInv DEF f
  <2>2. \A i, j \in 1 .. Len(pool') : pool'[i] = pool'[j] => i = j
    BY <1>1, FinishPathInv
  <2>3. \A i \in 1 .. Len(pool') : /\ sub[pool'[i]] = NothingSent /\ f # pool'[i]
                                   /\ \A u \in Thread : thr'[u].file # pool'[i]
    BY <1>1, FinishPathInv DEF f
  <2>4. \A u, v \in Thread : Busy(u)' /\ u # v => thr'[u].file # thr'[v].file
    BY <1>1, FinishPathInv
  <2>5. \A u \in Thread : Busy(u)' => /\ sub[thr'[u].file] = NothingSent
                                      /\ thr'[u].file # f /\ Busy(u)
    BY <1>1, FinishPathInv DEF f
  <2>6. \A u \in Thread : Busy(u)' => thr'[u].file \in File
    BY <1>6 DEF ThreadInv
  <2>7. \A i \in 1 .. Len(pool') : pool'[i] \in File
    BY <1>1 DEF ScanTypeOK
  <2>8. phase' # "down"
    BY <1>1 DEF PathInv
  <2> QED
    BY <1>8, <2>1, <2>2, <2>3, <2>4, <2>5, <2>6, <2>7, <2>8 DEF PathInv
<1>11. CASE UNCHANGED <<seen, sub, blind, faults>>
  BY <1>1, <1>6, <1>9, <1>10, <1>11, ClaimsUndisturbed DEF ScanInv
<1>12. CASE Claimed(d) /\ seen' = seen \cup {d} /\ UNCHANGED <<sub, blind, faults>>
  <2>1. ClaimInv'
    BY <1>1, <1>12 DEF ClaimInv, Pending
  <2>2. SeenHasSubmission' /\ SteadyScansAreWhole'
    BY <1>1, <1>3, <1>12 DEF SeenHasSubmission, SteadyScansAreWhole, Claimed
  <2> QED
    BY <1>6, <1>9, <1>10, <2>1, <2>2 DEF ScanInv
<1>13. ASSUME d \notin seen, seen' = seen \cup {d}, sub' = [sub EXCEPT ![f] = posted],
              blind \subseteq blind', attached[d] = 0 \/ d \in blind'
       PROVE  ScanInv'
  <2>1. sub'[f] = posted /\ \A g \in File : g # f => sub'[g] = sub[g]
    BY <1>1, <1>2, <1>13 DEF ScanTypeOK
  <2>2. \A g \in File : sub[g] # NothingSent => sub[g].digest # d
    BY <1>1, <1>13 DEF ClaimInv
  <2>3. \A g \in File : Pending(g) => sub[g] # NothingSent
    BY NothingIsSent DEF Pending
  <2>4. \A g \in File : g # f => (Pending(g)' <=> Pending(g))
    BY <2>1 DEF Pending
  <2>5. \A g \in File : sub'[g] # NothingSent => sub'[g].digest \in seen'
    BY <1>1, <1>5, <1>13, <2>1 DEF ClaimInv
  <2>6. \A e \in Digest : attached'[e] > 1 => e \in blind'
    BY <1>1, <1>13 DEF ClaimInv
  <2>7. ASSUME NEW g \in File, Pending(g)', sub'[g].digest \notin blind'
        PROVE  /\ attached'[sub'[g].digest] = 0
               /\ \A h \in File : Pending(h)' /\ sub'[h].digest = sub'[g].digest => h = g
    <3>1. CASE g = f
      BY <1>1, <1>5, <1>13, <2>1, <2>2, <2>3, <2>4, <2>7, <3>1
    <3>2. CASE g # f
      <4>1. /\ Pending(g) /\ sub'[g] = sub[g] /\ sub[g].digest \notin blind
            /\ sub[g].digest # d
        BY <1>13, <2>1, <2>2, <2>3, <2>4, <2>7, <3>2
      <4>2. /\ attached[sub[g].digest] = 0
            /\ \A h \in File : Pending(h) /\ sub[h].digest = sub[g].digest => h = g
        BY <1>1, <4>1 DEF ClaimInv
      <4> QED
        BY <1>1, <1>5, <2>1, <2>4, <4>1, <4>2
    <3> QED
      BY <3>1, <3>2
  <2>8. ClaimInv'
    BY <2>5, <2>6, <2>7 DEF ClaimInv
  <2>9. SeenHasSubmission'
    <3>1. ASSUME NEW e \in seen'
          PROVE  attached'[e] > 0 \/ \E g \in File : sub'[g].digest = e
      <4>1. CASE e = d
        BY <1>2, <1>5, <2>1, <4>1
      <4>2. CASE e # d
        <5>1. e \in seen /\ e \in Digest
          BY <1>1, <1>13, <4>2 DEF ScanTypeOK
        <5>2. attached[e] > 0 \/ \E g \in File : sub[g].digest = e
          BY <1>1, <5>1 DEF SeenHasSubmission
        <5>3. \A g \in File : sub[g].digest = e => g # f
          BY <1>2, <5>1, NothingIsSent
        <5> QED
          BY <1>1, <2>1, <5>2, <5>3
      <4> QED
        BY <4>1, <4>2
    <3> QED
      BY <3>1 DEF SeenHasSubmission
  <2>10. SteadyScansAreWhole'
    BY <1>1, <1>3, <1>5, <2>1 DEF SteadyScansAreWhole
  <2> QED
    BY <1>6, <1>9, <1>10, <2>8, <2>9, <2>10 DEF ScanInv
<1> QED
  BY <1>1, <1>3, <1>4, <1>11, <1>12, <1>13 DEF Claimed, ScanTypeOK

-----------------------------------------------------------------------------
(***************************************************************************)
(* The loop's steps.                                                       *)
(***************************************************************************)

Stages == {"posted", "opened", "attached", "put", "failed"}

\* A submission that moves on keeps its digest, and disturbs no path.
LEMMA SubmissionMoves ==
  ASSUME ScanInv, NEW f \in File, NEW stage \in Stages,
         sub[f].stage \in {"posted", "opened", "attached"},
         sub' = [sub EXCEPT ![f].stage = stage],
         UNCHANGED <<name, size, steady, phase, pool, thr, seen>>
  PROVE  /\ sub[f].digest \in Digest /\ sub[f].digest \in seen
         /\ sub[f] # NothingSent /\ sub'[f] # NothingSent
         /\ sub'[f].stage = stage /\ sub'[f].digest = sub[f].digest
         /\ \A g \in File : g # f => sub'[g] = sub[g]
         /\ sub' \in [File -> Submission \cup {NothingSent}]
         /\ ThreadInv' /\ PathInv'
<1>1. ThreadInv /\ PathInv /\ ScanTypeOK /\ ClaimInv
  BY DEF ScanInv
<1>2. sub \in [File -> Submission \cup {NothingSent}]
  BY <1>1 DEF ScanTypeOK
<1>3. sub[f] \in Submission /\ sub[f] # NothingSent
  BY <1>2, NothingIsSent DEF Submission
<1>4. sub[f].digest \in Digest /\ sub[f].digest \in seen
  BY <1>1, <1>3 DEF ClaimInv, Submission
<1>5. /\ sub'[f] = [sub[f] EXCEPT !.stage = stage]
      /\ \A g \in File : g # f => sub'[g] = sub[g]
  BY <1>2
<1>6. sub'[f] \in Submission /\ sub'[f].stage = stage /\ sub'[f].digest = sub[f].digest
  BY <1>3, <1>5 DEF Submission, Stages
<1>7. sub'[f] # NothingSent
  BY <1>4, <1>6, NothingIsSent
<1>8. sub' \in [File -> Submission \cup {NothingSent}]
  BY <1>2, <1>5, <1>6
<1>9. ThreadInv'
  BY <1>1 DEF ThreadInv, Busy
<1>10. \A g \in File : sub'[g] = NothingSent <=> sub[g] = NothingSent
  BY <1>3, <1>5, <1>7
<1>11. PathInv'
  <2>1. \A i \in 1 .. Len(pool) : pool[i] \in File
    BY <1>1 DEF ScanTypeOK
  <2>2. \A t \in Thread : Busy(t) => thr[t].file \in File
    BY <1>1 DEF ThreadInv
  <2>3. phase # "down"
    BY <1>1, <1>3 DEF PathInv
  <2> QED
    BY <1>1, <1>10, <2>1, <2>2, <2>3 DEF PathInv, Busy, Untold
<1> QED
  BY <1>3, <1>4, <1>5, <1>6, <1>7, <1>8, <1>9, <1>11

\* What is seen still has a submission, and a steady scanner's are whole.
LEMMA DigestsKept ==
  ASSUME SeenHasSubmission, SteadyScansAreWhole, ScanTypeOK,
         \A f \in File : sub'[f].digest = sub[f].digest,
         \A d \in Digest : attached[d] > 0 => attached'[d] > 0,
         \A d \in Digest : attached'[d] > 0 =>
           attached[d] > 0 \/ \E f \in File : sub[f].digest = d,
         UNCHANGED <<steady, seen>>
  PROVE  SeenHasSubmission' /\ SteadyScansAreWhole'
<1>1. seen \subseteq Digest
  BY DEF ScanTypeOK
<1>2. SeenHasSubmission'
  BY <1>1 DEF SeenHasSubmission
<1>3. SteadyScansAreWhole'
  BY DEF SteadyScansAreWhole
<1> QED
  BY <1>2, <1>3

LEMMA OpenCaseInv ==
  ASSUME ScanInv, NEW f \in File, OpenCase(f) PROVE ScanInv'
<1>1. /\ ScanTypeOK /\ ClaimInv /\ SeenHasSubmission /\ SteadyScansAreWhole
      /\ sub[f].stage = "posted"
      /\ sub' = [sub EXCEPT ![f].stage = "opened"]
      /\ cases' = [cases EXCEPT ![sub[f].digest] = @ + 1]
      /\ UNCHANGED <<scan, name, size, steady, attached, phase, pool, thr, seen,
                     entered, blind, faults, crashes>>
  BY DEF ScanInv, OpenCase, folder, history
<1>2. "opened" \in Stages
  BY DEF Stages
<1>3. /\ sub[f].digest \in Digest /\ sub[f].digest \in seen
      /\ sub[f] # NothingSent /\ sub'[f] # NothingSent
      /\ sub'[f].stage = "opened" /\ sub'[f].digest = sub[f].digest
      /\ \A g \in File : g # f => sub'[g] = sub[g]
      /\ sub' \in [File -> Submission \cup {NothingSent}]
      /\ ThreadInv' /\ PathInv'
  BY <1>1, <1>2, SubmissionMoves
<1>4. ScanTypeOK'
  <2>1. cases' \in [Digest -> Nat]
    BY <1>1, <1>3 DEF ScanTypeOK
  <2> QED
    BY <1>1, <1>3, <2>1 DEF ScanTypeOK
<1>5. \A g \in File : /\ sub'[g].digest = sub[g].digest /\ (Pending(g)' <=> Pending(g))
                      /\ sub'[g] = NothingSent <=> sub[g] = NothingSent
  BY <1>1, <1>3 DEF Pending
<1>6. ClaimInv'
  BY <1>1, <1>5 DEF ClaimInv
<1>7. SeenHasSubmission' /\ SteadyScansAreWhole'
  BY <1>1, <1>5, DigestsKept
<1> QED
  BY <1>3, <1>4, <1>6, <1>7 DEF ScanInv

LEMMA AttachInv ==
  ASSUME ScanInv, NEW f \in File, Attach(f) PROVE ScanInv'
<1> DEFINE d == sub[f].digest
<1>1. /\ ScanTypeOK /\ ClaimInv /\ SeenHasSubmission /\ SteadyScansAreWhole
      /\ sub[f].stage = "opened"
      /\ sub' = [sub EXCEPT ![f].stage = "attached"]
      /\ attached' = [attached EXCEPT ![d] = @ + 1]
      /\ UNCHANGED <<scan, name, size, steady, cases, phase, pool, thr, seen,
                     entered, blind, faults, crashes>>
  BY DEF ScanInv, Attach, folder, history
<1>2. "attached" \in Stages
  BY DEF Stages
<1>3. /\ d \in Digest /\ d \in seen
      /\ sub[f] # NothingSent /\ sub'[f] # NothingSent
      /\ sub'[f].stage = "attached" /\ sub'[f].digest = d
      /\ \A g \in File : g # f => sub'[g] = sub[g]
      /\ sub' \in [File -> Submission \cup {NothingSent}]
      /\ ThreadInv' /\ PathInv'
  BY <1>1, <1>2, SubmissionMoves
<1> HIDE DEF d
<1>4. /\ attached \in [Digest -> Nat] /\ attached' \in [Digest -> Nat]
      /\ attached'[d] = attached[d] + 1
      /\ \A e \in Digest : e # d => attached'[e] = attached[e]
  BY <1>1, <1>3 DEF ScanTypeOK
<1>5. ScanTypeOK'
  BY <1>1, <1>3, <1>4 DEF ScanTypeOK
<1>6. /\ Pending(f) /\ ~Pending(f)'
      /\ \A g \in File : g # f => (Pending(g)' <=> Pending(g))
  BY <1>1, <1>3 DEF Pending
<1>7. \A g \in File : /\ sub'[g].digest = sub[g].digest
                      /\ sub'[g] = NothingSent <=> sub[g] = NothingSent
  BY <1>3 DEF d
<1>8. d \notin blind => /\ attached[d] = 0
                        /\ \A g \in File : Pending(g) /\ sub[g].digest = d => g = f
  BY <1>1, <1>6 DEF ClaimInv, d
<1>9. ClaimInv'
  <2>1. \A g \in File : sub'[g] # NothingSent => sub'[g].digest \in seen'
    BY <1>1, <1>7 DEF ClaimInv
  <2>2. \A e \in Digest : attached'[e] > 1 => e \in blind'
    BY <1>1, <1>4, <1>8 DEF ClaimInv
  <2>3. ASSUME NEW g \in File, Pending(g)', sub'[g].digest \notin blind'
        PROVE  /\ attached'[sub'[g].digest] = 0
               /\ \A h \in File : Pending(h)' /\ sub'[h].digest = sub'[g].digest => h = g
    <3>1. g # f /\ Pending(g) /\ sub'[g] = sub[g] /\ sub[g].digest \notin blind
      BY <1>1, <1>3, <1>6, <2>3
    <3>2. /\ attached[sub[g].digest] = 0
          /\ \A h \in File : Pending(h) /\ sub[h].digest = sub[g].digest => h = g
      BY <1>1, <3>1 DEF ClaimInv
    <3>3. sub[g].digest # d
      BY <1>6, <3>1, <3>2 DEF d
    <3>4. sub[g].digest \in Digest
      <4>1. sub[g] \in Submission
        BY <1>1, <3>1, NothingIsSent DEF ScanTypeOK, Pending
      <4> QED
        BY <4>1 DEF Submission
    <3>5. attached'[sub'[g].digest] = 0
      BY <1>4, <3>1, <3>2, <3>3, <3>4
    <3>6. \A h \in File : Pending(h)' => Pending(h)
      BY <1>6
    <3> QED
      BY <1>7, <3>2, <3>5, <3>6
  <2> QED
    BY <2>1, <2>2, <2>3 DEF ClaimInv
<1>10. SeenHasSubmission' /\ SteadyScansAreWhole'
  <2>1. \A e \in Digest : attached[e] > 0 => attached'[e] > 0
    BY <1>3, <1>4
  <2>2. \A e \in Digest : attached'[e] > 0 =>
          attached[e] > 0 \/ \E g \in File : sub[g].digest = e
    BY <1>3, <1>4, <1>7
  <2> QED
    BY <1>1, <1>7, <2>1, <2>2, DigestsKept
<1> QED
  BY <1>3, <1>5, <1>9, <1>10 DEF ScanInv

\* The last steps of a submission: put, or given up.
LEMMA SubmissionEndsInv ==
  ASSUME ScanInv, NEW f \in File, NEW stage \in {"put", "failed"},
         sub[f].stage \in {"posted", "opened", "attached"},
         sub' = [sub EXCEPT ![f].stage = stage],
         entered' = entered \/ entered' = entered \cup {sub[f].digest},
         faults' \in Nat,
         UNCHANGED <<scan, name, size, steady, cases, attached, phase, pool, thr, seen,
                     blind, crashes>>
  PROVE  ScanInv'
<1>1. ScanTypeOK /\ ClaimInv /\ SeenHasSubmission /\ SteadyScansAreWhole
  BY DEF ScanInv
<1>2. stage \in Stages
  BY DEF Stages
<1>3. /\ sub[f].digest \in Digest /\ sub[f].digest \in seen
      /\ sub[f] # NothingSent /\ sub'[f] # NothingSent
      /\ sub'[f].stage = stage /\ sub'[f].digest = sub[f].digest
      /\ \A g \in File : g # f => sub'[g] = sub[g]
      /\ sub' \in [File -> Submission \cup {NothingSent}]
      /\ ThreadInv' /\ PathInv'
  BY <1>1, <1>2, SubmissionMoves
<1>4. ScanTypeOK'
  <2>1. entered' \in SUBSET Digest
    BY <1>1, <1>3 DEF ScanTypeOK
  <2> QED
    BY <1>1, <1>3, <2>1 DEF ScanTypeOK
<1>5. \A g \in File : /\ sub'[g].digest = sub[g].digest /\ (Pending(g)' => Pending(g))
                      /\ sub'[g] = NothingSent <=> sub[g] = NothingSent
  BY <1>3 DEF Pending
<1>6. ClaimInv'
  BY <1>1, <1>5 DEF ClaimInv
<1>7. SeenHasSubmission' /\ SteadyScansAreWhole'
  BY <1>1, <1>5, DigestsKept
<1> QED
  BY <1>3, <1>4, <1>6, <1>7 DEF ScanInv

LEMMA LogAndPutInv ==
  ASSUME ScanInv, NEW f \in File, LogAndPut(f) PROVE ScanInv'
<1>1. /\ sub[f].stage = "attached" /\ sub' = [sub EXCEPT ![f].stage = "put"]
      /\ entered' = entered \cup {sub[f].digest}
      /\ UNCHANGED <<scan, name, size, steady, cases, attached, phase, pool, thr, seen,
                     blind, faults, crashes>>
      /\ faults' \in Nat
  BY DEF LogAndPut, ScanInv, ScanTypeOK, folder, scanRows
<1> QED
  BY <1>1, SubmissionEndsInv

LEMMA SubmitFailsInv ==
  ASSUME ScanInv, NEW f \in File, SubmitFails(f) PROVE ScanInv'
<1>1. /\ sub[f].stage \in {"posted", "opened", "attached"}
      /\ sub' = [sub EXCEPT ![f].stage = "failed"]
      /\ faults \in Nat /\ faults' = faults + 1 /\ entered' = entered
      /\ UNCHANGED <<scan, name, size, steady, cases, attached, phase, pool, thr, seen,
                     blind, crashes>>
  BY DEF SubmitFails, ScanInv, ScanTypeOK, folder, scanRows
<1>2. faults' \in Nat /\ "failed" \in {"put", "failed"}
  BY <1>1
<1> QED
  BY <1>1, <1>2, SubmissionEndsInv

-----------------------------------------------------------------------------
(***************************************************************************)
(* The theorems.                                                           *)
(***************************************************************************)

LEMMA ScanStep == ScanInv /\ [ScanNext]_scanVars => ScanInv'
<1> SUFFICES ASSUME ScanInv, [ScanNext]_scanVars PROVE ScanInv'
  OBVIOUS
<1>1. CASE \E f \in File : Write(f) \/ Grow(f) \/ Rename(f) \/ Remove(f)
  BY <1>1, WriteInv, GrowInv, RenameInv, RemoveInv
<1>2. CASE List \/ Watch \/ EndOfProcess
  BY <1>2, ListInv, WatchInv, EndOfProcessInv
<1>3. CASE \E t \in Thread : ThreadStep(t)
  BY <1>3, TakePathInv, PollInv, GiveUpPollingInv, ReadAndClaimInv DEF ThreadStep
<1>4. CASE \E f \in File : SubmitStep(f)
  BY <1>4, OpenCaseInv, AttachInv, LogAndPutInv, SubmitFailsInv DEF SubmitStep
<1>5. CASE UNCHANGED scanVars
  <2>1. UNCHANGED <<scan, name, size, steady, cases, attached, phase, pool, thr, seen, sub,
                    entered, blind, faults, crashes>>
    BY <1>5 DEF scanVars, folder, scanRows, memory, history
  <2>2. ScanTypeOK' /\ ThreadInv' /\ PathInv'
    BY <2>1 DEF ScanInv, ScanTypeOK, ThreadInv, PathInv, Busy, Untold
  <2> QED
    BY <2>1, <2>2, ClaimsUndisturbed DEF ScanInv
<1> QED
  BY <1>1, <1>2, <1>3, <1>4, <1>5 DEF ScanNext

\* The inductive invariant: a path is in one place, a digest is claimed before
\* it is submitted, and of a digest one pending submission attaches.
THEOREM ScanInvariance == ScanSpec => []ScanInv
  BY ScanInitInv, ScanStep, PTL DEF ScanSpec

\* Type correctness of the folder, the rows and the process's memory.
THEOREM ScanTypes == ScanSpec => []ScanTypeOK
  BY ScanInvariance, PTL DEF ScanInv

\* Of a scan at most one case gets its image, over copies, threads and restarts,
\* but for claims made while the database did not answer.
THEOREM OneCase == ScanSpec => []OneCasePerScan
<1>1. ScanInv => OneCasePerScan
  <2>1. ASSUME ScanInv, NEW d \in Digest PROVE attached[d] <= 1 \/ d \in blind
    <3>1. attached[d] \in Nat /\ (attached[d] > 1 => d \in blind)
      BY <2>1 DEF ScanInv, ScanTypeOK, ClaimInv
    <3> QED
      BY <3>1
  <2> QED
    BY <2>1 DEF OneCasePerScan
<1> QED
  BY <1>1, ScanInvariance, PTL

\* What a process refuses as a copy has its row, or its submission in it.
THEOREM NothingSeenInVain == ScanSpec => []SeenHasSubmission
  BY ScanInvariance, PTL DEF ScanInv

\* A scanner that writes on between two looks is never cut short.
THEOREM SteadyScans == ScanSpec => []SteadyScansAreWhole
  BY ScanInvariance, PTL DEF ScanInv

=============================================================================
