----------------------------- MODULE DaemonProofs -----------------------------
(***************************************************************************)
(* The lock and the sweep of Daemon, for every number of processes and of  *)
(* runs: DaemonInv is inductive.                                           *)
(***************************************************************************)
EXTENDS Daemon, TLAPS

\* The lock's property, process by process.
LockInv == \A p \in Procs : lock = p <=> at[p] # "out" /\ cmd[p] = "run"

\* The same said process by process, which the provers find easier.
LEMMA LockByProcess == ASSUME lock \in Procs \cup {Nobody} PROVE LockIsTheDaemons <=> LockInv
<1>1. CASE lock = Nobody
  BY <1>1, DaemonAssumption DEF LockIsTheDaemons, LockInv, Daemons
<1>2. CASE lock \in Procs
  BY <1>2, DaemonAssumption DEF LockIsTheDaemons, LockInv, Daemons
<1> QED BY <1>1, <1>2

\* The end of a process, of every kind.
LEMMA OverStep ==
  ASSUME DaemonInv, NEW p \in Procs, Over(p), Release(p)
  PROVE  DaemonInv'
<1>1. TypeOK'
  BY SMTT(30), DaemonAssumption DEF DaemonInv, TypeOK, Over, Release
<1>2. LockInv'
  BY SMTT(30), DaemonAssumption, LockByProcess DEF DaemonInv, TypeOK, LockInv, Over, Release
<1>3. LockIsTheDaemons'
  BY <1>1, <1>2, DaemonAssumption DEF TypeOK, LockIsTheDaemons, LockInv, Daemons
<1>4. \A r \in Runs : FileInv(r)'
  BY SMTT(30), DaemonAssumption DEF DaemonInv, TypeOK, FileInv, VisitInv, Over, Release
<1>5. \A q \in Procs : VisitInv(q)'
  BY SMTT(30), DaemonAssumption DEF DaemonInv, TypeOK, FileInv, VisitInv, Over, Release
<1> QED BY <1>1, <1>3, <1>4, <1>5 DEF DaemonInv

\* A tick that ends, or raises.
LEMMA EndTickStep ==
  ASSUME DaemonInv, NEW p \in Procs, at[p] \in {"sweeping", "unlinking", "boards"}, EndTick(p)
  PROVE  DaemonInv'
<1>a. CASE cmd[p] # "run"
  BY <1>a, OverStep DEF EndTick
<1>b. CASE cmd[p] = "run"
  <2>1. TypeOK'
    BY <1>b, SMTT(30), DaemonAssumption DEF DaemonInv, TypeOK, EndTick, runVars
  <2>2. LockInv'
    BY <1>b, SMTT(30), DaemonAssumption, LockByProcess DEF DaemonInv, TypeOK, LockInv, EndTick, runVars
  <2>3. LockIsTheDaemons'
    BY <2>1, <2>2, DaemonAssumption DEF TypeOK, LockIsTheDaemons, LockInv, Daemons
  <2>4. \A r \in Runs : FileInv(r)'
    BY <1>b, SMTT(30), DaemonAssumption DEF DaemonInv, TypeOK, FileInv, VisitInv, EndTick, runVars
  <2>5. \A q \in Procs : VisitInv(q)'
    BY <1>b, SMTT(30), DaemonAssumption DEF DaemonInv, TypeOK, FileInv, VisitInv, EndTick, runVars
  <2> QED BY <2>1, <2>3, <2>4, <2>5 DEF DaemonInv
<1> QED BY <1>a, <1>b

\* A process begins, with the lock if it is a daemon.
LEMMA BeginStep ==
  ASSUME DaemonInv, NEW p \in Procs, NEW c \in {"run", "tick"}, Begin(p, c)
  PROVE  DaemonInv'
<1>1. TypeOK'
  BY SMTT(30), DaemonAssumption DEF DaemonInv, TypeOK, Begin, Go, runVars
<1>2. LockInv'
  BY SMTT(30), DaemonAssumption, LockByProcess DEF DaemonInv, TypeOK, LockInv, Begin, Go, runVars
<1>3. LockIsTheDaemons'
  BY <1>1, <1>2, DaemonAssumption DEF TypeOK, LockIsTheDaemons, LockInv, Daemons
<1>4. \A r \in Runs : FileInv(r)'
  BY SMTT(30), DaemonAssumption DEF DaemonInv, TypeOK, FileInv, VisitInv, Begin, Go, runVars
<1>5. \A q \in Procs : VisitInv(q)'
  BY SMTT(30), DaemonAssumption DEF DaemonInv, TypeOK, FileInv, VisitInv, Begin, Go, runVars
<1> QED BY <1>1, <1>3, <1>4, <1>5 DEF DaemonInv

\* A tick lists the files there are.
LEMMA StartTickStep ==
  ASSUME DaemonInv, NEW p \in Procs, StartTick(p)
  PROVE  DaemonInv'
<1>1. TypeOK'
  BY SMTT(30), DaemonAssumption DEF DaemonInv, TypeOK, StartTick, Go
<1>2. LockInv'
  BY SMTT(30), DaemonAssumption, LockByProcess DEF DaemonInv, TypeOK, LockInv, StartTick, Go
<1>3. LockIsTheDaemons'
  BY <1>1, <1>2, DaemonAssumption DEF TypeOK, LockIsTheDaemons, LockInv, Daemons
<1>4. \A r \in Runs : FileInv(r)'
  BY SMTT(30), DaemonAssumption DEF DaemonInv, TypeOK, FileInv, VisitInv, StartTick, Go
<1>5. \A q \in Procs : VisitInv(q)'
  BY SMTT(30), DaemonAssumption DEF DaemonInv, TypeOK, FileInv, VisitInv, StartTick, Go
<1> QED BY <1>1, <1>3, <1>4, <1>5 DEF DaemonInv

\* A file that is whole was written, one that is gone was written or misread.
LEMMA ReadFileStep ==
  ASSUME DaemonInv, NEW p \in Procs, ReadFile(p)
  PROVE  DaemonInv'
<1>1. TypeOK'
  BY SMTT(30), DaemonAssumption DEF DaemonInv, TypeOK, ReadFile
<1>2. LockInv'
  BY SMTT(30), DaemonAssumption, LockByProcess DEF DaemonInv, TypeOK, LockInv, ReadFile
<1>3. LockIsTheDaemons'
  BY <1>1, <1>2, DaemonAssumption DEF TypeOK, LockIsTheDaemons, LockInv, Daemons
<1>4. \A r \in Runs : FileInv(r)'
  BY SMTT(30), DaemonAssumption DEF DaemonInv, TypeOK, FileInv, VisitInv, ReadFile
<1>5. ASSUME NEW q \in Procs PROVE VisitInv(q)'
  <2>1. PICK r \in todo[p] : ReadFile(p)!2!(r)
    BY DEF ReadFile
  <2>2. r \in Runs /\ FileInv(r) /\ group[r] # "none" /\ (runfile[r] # "none" \/ written[r] \/ misread[r])
    BY <2>1 DEF DaemonInv, TypeOK, VisitInv
  <2>3. UNCHANGED <<sup, group, runfile, written>> /\ at[p] = "sweeping"
    BY DEF ReadFile
  <2>4. \A x \in Runs : misread[x] => misread'[x]
    BY <2>1, <2>2 DEF DaemonInv, TypeOK
  <2>5. CASE q = p
    <3>1. file'[p] = r /\ at'[p] \in {"judging", "unlinking"}
      BY <2>1, <2>2, <2>3 DEF DaemonInv, TypeOK
    <3>2. todo'[p] \subseteq todo[p] /\ todo[p] \subseteq Runs
      BY <2>1 DEF DaemonInv, TypeOK
    <3>3. VisitInv(p)!1'
      BY <2>3, <2>4, <3>2 DEF DaemonInv, VisitInv
    <3>4. at'[p] = "judging" => written[r]
      BY <2>1, <2>2 DEF DaemonInv, TypeOK, FileInv
    <3>5. at'[p] = "unlinking" => misread'[r] \/ (written[r] /\ group[r] = "gone")
      BY <2>1, <2>2 DEF DaemonInv, TypeOK, FileInv
    <3> QED BY <2>3, <2>5, <3>1, <3>3, <3>4, <3>5 DEF VisitInv
  <2>6. CASE q # p
    <3>1. at'[q] = at[q] /\ file'[q] = file[q] /\ todo'[q] = todo[q] /\ VisitInv(q)
      BY <2>1, <2>6 DEF DaemonInv, TypeOK
    <3>2. at[q] = "unlinking" => file[q] \in Runs
      BY DaemonAssumption DEF DaemonInv, TypeOK
    <3>3. todo[q] \subseteq Runs
      BY DEF DaemonInv, TypeOK
    <3> QED BY <2>3, <2>4, <3>1, <3>2, <3>3 DEF VisitInv
  <2> QED BY <2>5, <2>6
<1> QED BY <1>1, <1>3, <1>4, <1>5 DEF DaemonInv

\* Only a dead supervisor's worker is to be killed, unless ps failed, and dead
\* supervisors stay dead.
LEMMA JudgeStep ==
  ASSUME DaemonInv, NEW p \in Procs, Judge(p)
  PROVE  DaemonInv'
<1>1. TypeOK'
  BY SMTT(30), DaemonAssumption DEF DaemonInv, TypeOK, Judge, runVars
<1>2. LockInv'
  BY SMTT(30), DaemonAssumption, LockByProcess DEF DaemonInv, TypeOK, LockInv, Judge, runVars
<1>3. LockIsTheDaemons'
  BY <1>1, <1>2, DaemonAssumption DEF TypeOK, LockIsTheDaemons, LockInv, Daemons
<1>4. \A r \in Runs : FileInv(r)'
  BY SMTT(30), DaemonAssumption DEF DaemonInv, TypeOK, FileInv, VisitInv, Judge, runVars
<1>5. \A q \in Procs : VisitInv(q)'
  BY SMTT(30), DaemonAssumption DEF DaemonInv, TypeOK, FileInv, VisitInv, Judge, runVars
<1> QED BY <1>1, <1>3, <1>4, <1>5 DEF DaemonInv

\* After the kill the file's group is gone.
LEMMA KillStep ==
  ASSUME DaemonInv, NEW p \in Procs, KillGroup(p)
  PROVE  DaemonInv'
<1>1. TypeOK'
  BY SMTT(30), DaemonAssumption DEF DaemonInv, TypeOK, KillGroup, Go
<1>2. LockInv'
  BY SMTT(30), DaemonAssumption, LockByProcess DEF DaemonInv, TypeOK, LockInv, KillGroup, Go
<1>3. LockIsTheDaemons'
  BY <1>1, <1>2, DaemonAssumption DEF TypeOK, LockIsTheDaemons, LockInv, Daemons
<1>4. \A r \in Runs : FileInv(r)'
  BY SMTT(30), DaemonAssumption DEF DaemonInv, TypeOK, FileInv, VisitInv, KillGroup, Go
<1>5. \A q \in Procs : VisitInv(q)'
  BY SMTT(30), DaemonAssumption DEF DaemonInv, TypeOK, FileInv, VisitInv, KillGroup, Go
<1> QED BY <1>1, <1>3, <1>4, <1>5 DEF DaemonInv

\* The file that is removed names nobody that lives, or was misread.
LEMMA UnlinkFileStep ==
  ASSUME DaemonInv, NEW p \in Procs, UnlinkFile(p)
  PROVE  DaemonInv'
<1>1. TypeOK'
  BY SMTT(30), DaemonAssumption DEF DaemonInv, TypeOK, UnlinkFile, Go
<1>2. LockInv'
  BY SMTT(30), DaemonAssumption, LockByProcess DEF DaemonInv, TypeOK, LockInv, UnlinkFile, Go
<1>3. LockIsTheDaemons'
  BY <1>1, <1>2, DaemonAssumption DEF TypeOK, LockIsTheDaemons, LockInv, Daemons
<1>4. \A r \in Runs : FileInv(r)'
  BY SMTT(30), DaemonAssumption DEF DaemonInv, TypeOK, FileInv, VisitInv, UnlinkFile, Go
<1>5. \A q \in Procs : VisitInv(q)'
  BY SMTT(30), DaemonAssumption DEF DaemonInv, TypeOK, FileInv, VisitInv, UnlinkFile, Go
<1> QED BY <1>1, <1>3, <1>4, <1>5 DEF DaemonInv

\* The sweep ends.
LEMMA SweepDoneStep ==
  ASSUME DaemonInv, NEW p \in Procs, SweepDone(p)
  PROVE  DaemonInv'
<1>1. TypeOK'
  BY SMTT(30), DaemonAssumption DEF DaemonInv, TypeOK, SweepDone, Go, runVars
<1>2. LockInv'
  BY SMTT(30), DaemonAssumption, LockByProcess DEF DaemonInv, TypeOK, LockInv, SweepDone, Go, runVars
<1>3. LockIsTheDaemons'
  BY <1>1, <1>2, DaemonAssumption DEF TypeOK, LockIsTheDaemons, LockInv, Daemons
<1>4. \A r \in Runs : FileInv(r)'
  BY SMTT(30), DaemonAssumption DEF DaemonInv, TypeOK, FileInv, VisitInv, SweepDone, Go, runVars
<1>5. \A q \in Procs : VisitInv(q)'
  BY SMTT(30), DaemonAssumption DEF DaemonInv, TypeOK, FileInv, VisitInv, SweepDone, Go, runVars
<1> QED BY <1>1, <1>3, <1>4, <1>5 DEF DaemonInv

\* A supervisor starts: it has no worker and no file yet.
LEMMA SpawnStep ==
  ASSUME DaemonInv, NEW p \in Procs, SpawnSupervisor(p)
  PROVE  DaemonInv'
<1>1. TypeOK'
  BY SMTT(30), DaemonAssumption DEF DaemonInv, TypeOK, SpawnSupervisor, procVars
<1>2. LockInv'
  BY SMTT(30), DaemonAssumption, LockByProcess DEF DaemonInv, TypeOK, LockInv, SpawnSupervisor, procVars
<1>3. LockIsTheDaemons'
  BY <1>1, <1>2, DaemonAssumption DEF TypeOK, LockIsTheDaemons, LockInv, Daemons
<1>4. \A r \in Runs : FileInv(r)'
  BY SMTT(30), DaemonAssumption DEF DaemonInv, TypeOK, FileInv, VisitInv, SpawnSupervisor, procVars
<1>5. \A q \in Procs : VisitInv(q)'
  BY SMTT(30), DaemonAssumption DEF DaemonInv, TypeOK, FileInv, VisitInv, SpawnSupervisor, procVars
<1> QED BY <1>1, <1>3, <1>4, <1>5 DEF DaemonInv

\* The signal that only sets the daemon's flag.
LEMMA TerminateStep ==
  ASSUME DaemonInv, NEW p \in Procs, Terminate(p)
  PROVE  DaemonInv'
<1>a. CASE cmd[p] # "run"
  BY <1>a, OverStep DEF Terminate
<1>b. CASE cmd[p] = "run"
  <2>0. stopping' = [stopping EXCEPT ![p] = TRUE] /\ UNCHANGED <<at, cmd, lock, todo, file, runVars>>
    BY <1>b DEF Terminate
  <2>1. TypeOK'
    BY <2>0, SMTT(30), DaemonAssumption DEF DaemonInv, TypeOK, runVars
  <2>2. LockInv'
    BY <2>0, SMTT(30), DaemonAssumption, LockByProcess DEF DaemonInv, TypeOK, LockInv, runVars
  <2>3. LockIsTheDaemons'
    BY <2>1, <2>2, DaemonAssumption DEF TypeOK, LockIsTheDaemons, LockInv, Daemons
  <2>4. \A r \in Runs : FileInv(r)'
    BY <2>0, SMTT(30), DaemonAssumption DEF DaemonInv, TypeOK, FileInv, VisitInv, runVars
  <2>5. \A q \in Procs : VisitInv(q)'
    BY <2>0, SMTT(30), DaemonAssumption DEF DaemonInv, TypeOK, FileInv, VisitInv, runVars
  <2> QED BY <2>1, <2>3, <2>4, <2>5 DEF DaemonInv
<1> QED BY <1>a, <1>b

\* The steps of supervisors, workers and the kernel.
LEMMA SuperviseStep ==
  ASSUME DaemonInv, NEW s \in Runs, Supervise(s)
  PROVE  DaemonInv'
<1>1. CASE Launch(s)
  <2>1. TypeOK'
    BY <1>1, SMTT(30), DaemonAssumption DEF DaemonInv, TypeOK, Launch, procVars
  <2>2. LockInv'
    BY <1>1, SMTT(30), DaemonAssumption, LockByProcess DEF DaemonInv, TypeOK, LockInv, Launch, procVars
  <2>3. LockIsTheDaemons'
    BY <2>1, <2>2, DaemonAssumption DEF TypeOK, LockIsTheDaemons, LockInv, Daemons
  <2>4. \A r \in Runs : FileInv(r)'
    BY <1>1, SMTT(30), DaemonAssumption DEF DaemonInv, TypeOK, FileInv, VisitInv, Launch, procVars
  <2>5. \A q \in Procs : VisitInv(q)'
    BY <1>1, SMTT(30), DaemonAssumption DEF DaemonInv, TypeOK, FileInv, VisitInv, Launch, procVars
  <2> QED BY <2>1, <2>3, <2>4, <2>5 DEF DaemonInv
<1>2. CASE BeginRunfile(s)
  <2>1. TypeOK'
    BY <1>2, SMTT(30), DaemonAssumption DEF DaemonInv, TypeOK, BeginRunfile, procVars
  <2>2. LockInv'
    BY <1>2, SMTT(30), DaemonAssumption, LockByProcess DEF DaemonInv, TypeOK, LockInv, BeginRunfile, procVars
  <2>3. LockIsTheDaemons'
    BY <2>1, <2>2, DaemonAssumption DEF TypeOK, LockIsTheDaemons, LockInv, Daemons
  <2>4. \A r \in Runs : FileInv(r)'
    BY <1>2, SMTT(30), DaemonAssumption DEF DaemonInv, TypeOK, FileInv, VisitInv, BeginRunfile, procVars
  <2>5. \A q \in Procs : VisitInv(q)'
    BY <1>2, SMTT(30), DaemonAssumption DEF DaemonInv, TypeOK, FileInv, VisitInv, BeginRunfile, procVars
  <2> QED BY <2>1, <2>3, <2>4, <2>5 DEF DaemonInv
<1>3. CASE EndRunfile(s)
  <2>1. TypeOK'
    BY <1>3, SMTT(30), DaemonAssumption DEF DaemonInv, TypeOK, EndRunfile, procVars
  <2>2. LockInv'
    BY <1>3, SMTT(30), DaemonAssumption, LockByProcess DEF DaemonInv, TypeOK, LockInv, EndRunfile, procVars
  <2>3. LockIsTheDaemons'
    BY <2>1, <2>2, DaemonAssumption DEF TypeOK, LockIsTheDaemons, LockInv, Daemons
  <2>4. \A r \in Runs : FileInv(r)'
    BY <1>3, SMTT(30), DaemonAssumption DEF DaemonInv, TypeOK, FileInv, VisitInv, EndRunfile, procVars
  <2>5. \A q \in Procs : VisitInv(q)'
    BY <1>3, SMTT(30), DaemonAssumption DEF DaemonInv, TypeOK, FileInv, VisitInv, EndRunfile, procVars
  <2> QED BY <2>1, <2>3, <2>4, <2>5 DEF DaemonInv
<1>4. CASE WorkerEnds(s)
  <2>1. TypeOK'
    BY <1>4, SMTT(30), DaemonAssumption DEF DaemonInv, TypeOK, WorkerEnds, procVars
  <2>2. LockInv'
    BY <1>4, SMTT(30), DaemonAssumption, LockByProcess DEF DaemonInv, TypeOK, LockInv, WorkerEnds, procVars
  <2>3. LockIsTheDaemons'
    BY <2>1, <2>2, DaemonAssumption DEF TypeOK, LockIsTheDaemons, LockInv, Daemons
  <2>4. \A r \in Runs : FileInv(r)'
    BY <1>4, SMTT(30), DaemonAssumption DEF DaemonInv, TypeOK, FileInv, VisitInv, WorkerEnds, procVars
  <2>5. \A q \in Procs : VisitInv(q)'
    BY <1>4, SMTT(30), DaemonAssumption DEF DaemonInv, TypeOK, FileInv, VisitInv, WorkerEnds, procVars
  <2> QED BY <2>1, <2>3, <2>4, <2>5 DEF DaemonInv
<1>5. CASE Unlink(s)
  <2>1. TypeOK'
    BY <1>5, SMTT(30), DaemonAssumption DEF DaemonInv, TypeOK, Unlink, procVars
  <2>2. LockInv'
    BY <1>5, SMTT(30), DaemonAssumption, LockByProcess DEF DaemonInv, TypeOK, LockInv, Unlink, procVars
  <2>3. LockIsTheDaemons'
    BY <2>1, <2>2, DaemonAssumption DEF TypeOK, LockIsTheDaemons, LockInv, Daemons
  <2>4. \A r \in Runs : FileInv(r)'
    BY <1>5, SMTT(30), DaemonAssumption DEF DaemonInv, TypeOK, FileInv, VisitInv, Unlink, procVars
  <2>5. \A q \in Procs : VisitInv(q)'
    BY <1>5, SMTT(30), DaemonAssumption DEF DaemonInv, TypeOK, FileInv, VisitInv, Unlink, procVars
  <2> QED BY <2>1, <2>3, <2>4, <2>5 DEF DaemonInv
<1>6. CASE SupervisorEnds(s)
  <2>1. TypeOK'
    BY <1>6, SMTT(30), DaemonAssumption DEF DaemonInv, TypeOK, SupervisorEnds, procVars
  <2>2. LockInv'
    BY <1>6, SMTT(30), DaemonAssumption, LockByProcess DEF DaemonInv, TypeOK, LockInv, SupervisorEnds, procVars
  <2>3. LockIsTheDaemons'
    BY <2>1, <2>2, DaemonAssumption DEF TypeOK, LockIsTheDaemons, LockInv, Daemons
  <2>4. \A r \in Runs : FileInv(r)'
    BY <1>6, SMTT(30), DaemonAssumption DEF DaemonInv, TypeOK, FileInv, VisitInv, SupervisorEnds, procVars
  <2>5. \A q \in Procs : VisitInv(q)'
    BY <1>6, SMTT(30), DaemonAssumption DEF DaemonInv, TypeOK, FileInv, VisitInv, SupervisorEnds, procVars
  <2> QED BY <2>1, <2>3, <2>4, <2>5 DEF DaemonInv
<1>7. CASE PidReused(s)
  <2>1. TypeOK'
    BY <1>7, SMTT(30), DaemonAssumption DEF DaemonInv, TypeOK, PidReused, procVars
  <2>2. LockInv'
    BY <1>7, SMTT(30), DaemonAssumption, LockByProcess DEF DaemonInv, TypeOK, LockInv, PidReused, procVars
  <2>3. LockIsTheDaemons'
    BY <2>1, <2>2, DaemonAssumption DEF TypeOK, LockIsTheDaemons, LockInv, Daemons
  <2>4. \A r \in Runs : FileInv(r)'
    BY <1>7, SMTT(30), DaemonAssumption DEF DaemonInv, TypeOK, FileInv, VisitInv, PidReused, procVars
  <2>5. \A q \in Procs : VisitInv(q)'
    BY <1>7, SMTT(30), DaemonAssumption DEF DaemonInv, TypeOK, FileInv, VisitInv, PidReused, procVars
  <2> QED BY <2>1, <2>3, <2>4, <2>5 DEF DaemonInv
<1> QED BY <1>1, <1>2, <1>3, <1>4, <1>5, <1>6, <1>7 DEF Supervise

\* Nothing happens.
LEMMA StutterStep ==
  ASSUME DaemonInv, UNCHANGED vars
  PROVE  DaemonInv'
BY DEF DaemonInv, TypeOK, LockIsTheDaemons, Daemons, FileInv, VisitInv, vars, procVars, runVars

-----------------------------------------------------------------------------
(***************************************************************************)
(* The theorems                                                            *)
(***************************************************************************)
\* However many processes begin, end, are signalled or killed, whatever they
\* sweep and whenever supervisors die: the invariant holds (scheduler.py:139-214).
THEOREM DaemonCorrect == Spec => []DaemonInv
<1>1. Init => DaemonInv
  BY DaemonAssumption DEF Init, DaemonInv, TypeOK, LockIsTheDaemons, Daemons, FileInv, VisitInv
<1>2. DaemonInv /\ [Next]_vars => DaemonInv'
  <2> SUFFICES ASSUME DaemonInv, [Next]_vars PROVE DaemonInv'
    OBVIOUS
  <2>1. ASSUME NEW p \in Procs, NEW c \in {"run", "tick"}, Begin(p, c) PROVE DaemonInv'
    BY <2>1, BeginStep
  <2>2. ASSUME NEW p \in Procs, Die(p) \/ Stop(p) PROVE DaemonInv'
    BY <2>2, OverStep DEF Die, Stop
  <2>3. ASSUME NEW p \in Procs, Terminate(p) PROVE DaemonInv'
    BY <2>3, TerminateStep
  <2>4. ASSUME NEW p \in Procs, TickRaises(p) \/ BoardsDone(p) PROVE DaemonInv'
    BY <2>4, EndTickStep DEF TickRaises, BoardsDone
  <2>5. ASSUME NEW p \in Procs, TickStep(p) PROVE DaemonInv'
    BY <2>4, <2>5, StartTickStep, ReadFileStep, JudgeStep, KillStep, UnlinkFileStep,
       SweepDoneStep, SpawnStep DEF TickStep
  <2>6. ASSUME NEW r \in Runs, Supervise(r) PROVE DaemonInv'
    BY <2>6, SuperviseStep
  <2> QED BY <2>1, <2>2, <2>3, <2>4, <2>5, <2>6, StutterStep DEF Next
<1> QED BY <1>1, <1>2, PTL DEF Spec

\* Types, and files held only while they are dealt with (scheduler.py:184-198).
THEOREM TypeCorrect == Spec => []TypeOK
<1>1. DaemonInv => TypeOK
  BY DEF DaemonInv
<1> QED BY <1>1, DaemonCorrect, PTL

\* One daemon at most, and a free lock when there is none, for every number of
\* contenders (scheduler.py:153-177).
THEOREM OneDaemonPerHome == Spec => []LockIsTheDaemons
<1>1. DaemonInv => LockIsTheDaemons
  BY DEF DaemonInv
<1> QED BY <1>1, DaemonCorrect, PTL

\* Any number of concurrent sweeps spares the worker of a living supervisor,
\* unless ps exits with an error when asked about it (scheduler.py:184-196, :212).
THEOREM SupervisedSpared == Spec => []SweepSparesSupervised
<1>1. DaemonInv => SweepSparesSupervised
  BY DEF DaemonInv, VisitInv, SweepSparesSupervised
<1> QED BY <1>1, DaemonCorrect, PTL

\* Nor does one that is cut short, or that kills blindly, leave an orphan that
\* cannot be found (scheduler.py:193-197, supervisor.py:129-138).
THEOREM OrphansFound == Spec => []OrphanHasFile
<1>1. DaemonInv => OrphanHasFile
  BY DEF DaemonInv, FileInv, OrphanHasFile
<1> QED BY <1>1, DaemonCorrect, PTL
=============================================================================
