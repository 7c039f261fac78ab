---------------------------- MODULE ContractProofs ----------------------------
(***************************************************************************)
(* Supervisor implements RunContract, and two facts about what a run       *)
(* leaves behind, proved for every value of the constants.                 *)
(***************************************************************************)
EXTENDS SupervisorProofs

USE DEF Step, Raise, Rest, Stop, supVars

\* An operation of the board means the same in the contract.
LEMMA SameBoard ==
  /\ \A t : Contract!ClaimTask(t) <=> ClaimTask(t)
  /\ \A t : Contract!Requeue(t) <=> Requeue(t)
  /\ \A r : Contract!RecordWorkerPid(r) <=> RecordWorkerPid(r)
  /\ \A r, c, o : Contract!MoveCard(r, c, o) <=> MoveCard(r, c, o)
  /\ \A r : Contract!Owner(r) <=> Owner(r)
  /\ Contract!Runs = Runs /\ Contract!Finished = Finished
BY DEF Contract!ClaimTask, ClaimTask, Contract!Claimable, Claimable, Contract!Requeue, Requeue,
   Contract!RecordWorkerPid, RecordWorkerPid, Contract!MoveCard, MoveCard, Contract!Owner, Owner,
   Contract!StillOwner, StillOwner, Contract!Runs, Runs, Contract!Finished, Finished,
   Contract!NoRun, NoRun

\* A step that keeps every worker's state and the board is a stutter there.
LEMMA WorkerSame == ASSUME UNCHANGED child PROVE UNCHANGED workerOf
BY DEF workerOf, GroupUp

\* The group comes up: "idle" becomes "up".
LEMMA WorkerUp ==
  ASSUME ProcessTypeOK, NEW r \in Runs, child[r] = "none", child' = [child EXCEPT ![r] = "working"]
  PROVE  workerOf[r] = "idle" /\ workerOf' = [workerOf EXCEPT ![r] = "up"]
BY DEF ProcessTypeOK, workerOf, GroupUp

\* The group goes down, or was not up: StopWorker or a stutter.
LEMMA WorkerDown ==
  ASSUME ProcessTypeOK, NEW r \in Runs, child[r] # "none", child' = [child EXCEPT ![r] = "gone"]
  PROVE  \/ workerOf' = workerOf
         \/ workerOf[r] = "up" /\ workerOf' = [workerOf EXCEPT ![r] = "down"]
<1>1. CASE GroupUp(r)  BY <1>1 DEF ProcessTypeOK, workerOf, GroupUp
<1>2. CASE ~GroupUp(r)  BY <1>2 DEF ProcessTypeOK, workerOf, GroupUp
<1> QED  BY <1>1, <1>2

\* What the contract calls a step: an action of its own or a stutter.
ContractStep == [Contract!ContractNext]_(Contract!contractVars)

\* A step that changes neither the board nor a worker is none of the contract's.
LEMMA Stutters ==
  ASSUME UNCHANGED boardVars, UNCHANGED workerOf PROVE ContractStep
BY DEF ContractStep, Contract!contractVars, boardVars

\* A step that ends with the worker's group gone stops the worker, if it was up.
LEMMA Stops ==
  ASSUME ProcessTypeOK, NEW r \in Runs, child[r] # "none", child' = [child EXCEPT ![r] = "gone"],
         UNCHANGED boardVars
  PROVE  ContractStep
<1>1. CASE workerOf' = workerOf  BY <1>1, Stutters
<1>2. CASE workerOf[r] = "up" /\ workerOf' = [workerOf EXCEPT ![r] = "down"]
  <2>1. Contract!StopWorker(r)
    BY <1>2 DEF Contract!StopWorker, Contract!boardVars, boardVars
  <2> QED  BY <2>1, SameBoard DEF ContractStep, Contract!ContractNext
<1> QED  BY <1>1, <1>2, WorkerDown

\* Supervisor steps: the launch starts the worker, every kill or exit stops
\* it, lifecycle.apply gives the verdict, the rest is invisible.
LEMMA RunRefines ==
  ASSUME SupervisorInv, NEW r \in Runs, Run(r) PROVE ContractStep
<1>0. ProcessTypeOK /\ BoardTypeOK /\ RunInv(r) /\ BoardInv
  BY DEF SupervisorInv, TypeOK
<1>1. CASE Launch(r)
  <2>1. CASE UNCHANGED child  BY <1>1, <2>1, WorkerSame, Stutters DEF Launch
  <2>2. CASE pc[r] = "launching" /\ child' = [child EXCEPT ![r] = "working"]
    <3>1. child[r] = "none" /\ ~Verdict(r) /\ runs[r].outcome # "none"
      <4>1. ~(r > lastRun)  BY <1>0, <2>2 DEF RunInv, HandoffInv
      <4> QED  BY <1>0, <2>2, <4>1 DEF RunInv, WorkerInv, VerdictInv, BoardInv, RunsNumbered
    <3>2. Contract!StartWorker(r)
      BY <1>0, <1>1, <2>2, <3>1, WorkerUp, SameBoard
      DEF Contract!StartWorker, Contract!boardVars, boardVars, Verdict, Launch
    <3> QED  BY <3>2, SameBoard DEF ContractStep, Contract!ContractNext
  <2> QED  BY <1>1, <2>1, <2>2 DEF Launch
<1>2. CASE Cancel(r)
  BY <1>0, <1>2, Stops DEF Cancel, RunInv, WorkerInv
<1>3. CASE Clean(r)
  <2>1. CASE child[r] = "none"
    <3>1. child' = child  BY <1>0, <1>3, <2>1 DEF Clean, ProcessTypeOK
    <3> QED  BY <1>3, <3>1, WorkerSame, Stutters DEF Clean
  <2>2. CASE child[r] # "none" /\ child' = [child EXCEPT ![r] = "gone"]
    BY <1>0, <1>3, <2>2, Stops DEF Clean
  <2>3. CASE UNCHANGED child  BY <1>3, <2>3, WorkerSame, Stutters DEF Clean
  <2> QED  BY <1>3, <2>1, <2>2, <2>3 DEF Clean
<1>4. CASE Apply(r)
  <2>1. UNCHANGED workerOf  BY <1>4, WorkerSame DEF Apply
  <2>2. PICK lane \in Lanes :
          \/ UNCHANGED boardVars
          \/ LET to == Plan(lane, result[r], PidTracked).to IN to # "none" /\ FinishRun(r, to, to)
    BY <1>4 DEF Apply
  <2>3. ASSUME NEW to \in Finished, FinishRun(r, to, to), Owner(r) PROVE ContractStep
    <3>1. workerOf[r] # "up"
      BY <1>0, <1>4 DEF Apply, RunInv, WorkerInv, workerOf
    <3>2. Contract!GiveVerdict(r, to)
      BY <2>1, <2>3, <3>1 DEF Contract!GiveVerdict, FinishRun, Contract!Owner, Owner,
         Contract!StillOwner, StillOwner, Contract!MoveCard, MoveCard, Contract!NoRun, NoRun
    <3> QED  BY <3>2, SameBoard DEF ContractStep, Contract!ContractNext
  <2>4. ASSUME NEW to \in Finished, FinishRun(r, to, to), ~Owner(r) PROVE ContractStep
    BY <2>1, <2>4, Stutters DEF FinishRun
  <2> QED  BY <2>1, <2>2, <2>3, <2>4, PlanFacts, Stutters
<1>5. CASE Run(r) /\ ~Launch(r) /\ ~Cancel(r) /\ ~Clean(r) /\ ~Apply(r)
  <2>1. UNCHANGED <<boardVars, child>>
    BY <1>5 DEF Run, Boot, Open, CheckOwner, Prepare, BeginRunfile, EndRunfile, WorkerEnded,
       StopSignalled, StopTimedOut, StopHomeless, StopClaimLost, SuperviseRaises, Collect, Unlink, Close
  <2> QED  BY <2>1, WorkerSame, Stutters
<1> QED  BY <1>1, <1>2, <1>3, <1>4, <1>5

\* The worker's own exits, the scheduler's hand-over, the orphan sweep and
\* stray kills are steps of the contract.
LEMMA SchedulingRefines ==
  ASSUME SupervisorInv, NEW r \in Runs, WorkerExits(r) \/ Scheduling(r) \/ Kill(r)
  PROVE  ContractStep
<1>0. ProcessTypeOK /\ BoardTypeOK /\ RunInv(r) /\ BoardInv
  BY DEF SupervisorInv, TypeOK
<1>1. CASE WorkerExits(r)
  <2>1. CASE child' = [child EXCEPT ![r] = "gone"]
    BY <1>0, <1>1, <2>1, Stops DEF WorkerExits, GroupUp
  <2>2. CASE child[r] = "working" /\ child' = [child EXCEPT ![r] = "leftover"]
    <3>1. UNCHANGED workerOf  BY <1>0, <2>2 DEF ProcessTypeOK, workerOf, GroupUp
    <3> QED  BY <1>1, <3>1, Stutters DEF WorkerExits
  <2> QED  BY <1>1, <2>1, <2>2 DEF WorkerExits
<1>2. CASE SpawnFails(r)
  <2>1. UNCHANGED workerOf  BY <1>2, WorkerSame DEF SpawnFails
  <2>2. CASE FinishRun(r, "blocked", "unspawned") /\ Owner(r)
    <3>1. Contract!LoseCard(r, "blocked", "unspawned")
      BY <2>1, <2>2 DEF Contract!LoseCard, FinishRun, Contract!Owner, Owner,
         Contract!StillOwner, StillOwner, Contract!MoveCard, MoveCard, Contract!NoRun, NoRun
    <3> QED  BY <3>1, SameBoard DEF ContractStep, Contract!ContractNext
  <2>3. CASE UNCHANGED boardVars  BY <2>1, <2>3, Stutters
  <2> QED  BY <1>2, <2>2, <2>3 DEF SpawnFails, FinishRun
<1>3. CASE RecordPid(r)
  <2>1. UNCHANGED workerOf  BY <1>3, WorkerSame DEF RecordPid
  <2>2. CASE RecordWorkerPid(r)
    <3>1. runs[r].task # NoTask
      BY <1>0, <1>3, BoardAssumption
      DEF RecordPid, RunInv, HandoffInv, BoardInv, RunsNumbered, BoardTypeOK, Runs
    <3>2. Contract!Record(r)
      BY <2>1, <2>2, <3>1 DEF Contract!Record, Contract!RecordWorkerPid, RecordWorkerPid
    <3> QED  BY <3>2, SameBoard DEF ContractStep, Contract!ContractNext
  <2>3. CASE UNCHANGED boardVars  BY <2>1, <2>3, Stutters
  <2> QED  BY <1>3, <2>2, <2>3 DEF RecordPid
<1>4. CASE Sweep(r)
  <2>1. CASE GroupUp(r) /\ child' = [child EXCEPT ![r] = "gone"]
    BY <1>0, <1>4, <2>1, Stops DEF Sweep, GroupUp
  <2>2. CASE UNCHANGED child  BY <1>4, <2>2, WorkerSame, Stutters DEF Sweep
  <2>3. GroupUp(r) \/ [child EXCEPT ![r] = child[r]] = child
    BY <1>0 DEF ProcessTypeOK
  <2> QED  BY <1>4, <2>1, <2>2, <2>3 DEF Sweep
<1>5. CASE Spawn(r) \/ SchedulerLost(r) \/ Kill(r)
  BY <1>5, WorkerSame, Stutters DEF Spawn, SchedulerLost, Kill
<1> QED  BY <1>1, <1>2, <1>3, <1>4, <1>5 DEF Scheduling

\* So are claims and what Hermes does: a card is taken, returned or lost.
LEMMA HermesRefines ==
  ASSUME SupervisorInv, NEW t \in Tasks, Claim(t) \/ Hermes(t)
  PROVE  ContractStep
<1>0. ProcessTypeOK /\ BoardTypeOK /\ BoardInv
  BY DEF SupervisorInv, TypeOK
<1>1. CASE Claim(t)
  <2>1. Contract!Take(t)
    BY <1>1, WorkerSame DEF Claim, Contract!Take, Contract!ClaimTask, ClaimTask,
       Contract!Claimable, Claimable, Contract!NoRun, NoRun
  <2> QED  BY <2>1 DEF ContractStep, Contract!ContractNext
<1>2. CASE RequeueCard(t)
  <2>1. Contract!Return(t)
    BY <1>2, WorkerSame DEF RequeueCard, Contract!Return, Contract!Requeue, Requeue,
       Contract!NoRun, NoRun
  <2> QED  BY <2>1 DEF ContractStep, Contract!ContractNext
<1>3. ASSUME NEW r \in Runs, Owner(r), NEW column \in {"ready", "blocked"},
             NEW outcome \in {"reclaimed", "crashed"}, outcome = "reclaimed" => column = "ready",
             MoveCard(r, column, outcome), UNCHANGED child
      PROVE  ContractStep
  <2>1. Contract!LoseCard(r, column, outcome)
    BY <1>3, WorkerSame DEF Contract!LoseCard, Contract!Owner, Owner,
       Contract!StillOwner, StillOwner, Contract!MoveCard, MoveCard, Contract!NoRun, NoRun
  <2> QED  BY <1>3, <2>1, SameBoard DEF ContractStep, Contract!ContractNext
<1>4. CASE ReclaimEnds(t)
  <2>0. PICK r \in Runs : r = reclaim[t].run  BY <1>0, <1>4 DEF ReclaimEnds, ProcessTypeOK
  <2>1. FinishRun(r, "ready", "reclaimed") /\ UNCHANGED child
    BY <1>4, <2>0 DEF ReclaimEnds
  <2>2. CASE Owner(r)  BY <1>3, <2>1, <2>2 DEF FinishRun
  <2>3. CASE ~Owner(r)  BY <2>1, <2>3, WorkerSame, Stutters DEF FinishRun
  <2> QED  BY <2>2, <2>3
<1>5. CASE ReleaseQuietly(t) \/ BookCrash(t)
  <2>1. card[t].status = "running" /\ UNCHANGED child
    BY <1>5 DEF ReleaseQuietly, BookCrash
  <2>2. PICK r \in Runs : r = card[t].run /\ Owner(r)
    BY <1>0, <2>1, HolderOwns
  <2>3. \/ MoveCard(r, "ready", "reclaimed")
        \/ \E column \in {"ready", "blocked"} : MoveCard(r, column, "crashed")
    BY <1>5, <2>2 DEF ReleaseQuietly, BookCrash
  <2> QED  BY <1>3, <2>1, <2>2, <2>3
<1>6. CASE ReclaimBegins(t) \/ ReclaimKills(t)
  BY <1>6, WorkerSame, Stutters DEF ReclaimBegins, ReclaimKills
<1> QED  BY <1>1, <1>2, <1>4, <1>5, <1>6 DEF Hermes

\* The supervisor with its scheduler, its worker and Hermes around it keeps
\* the contract of module RunContract.
THEOREM Refinement == Spec => ImplementsContract
<1>1. Init => Contract!ContractInit
  <2>1. Init => BoardInit /\ Contract!BoardInit
    BY DEF Init, BoardInit, Contract!BoardInit, Contract!Runs, Runs, Contract!NoRun, NoRun
  <2>2. Init => workerOf = [r \in Runs |-> "idle"]
    BY DEF Init, SupervisorInit, workerOf, GroupUp
  <2> QED  BY <2>1, <2>2, SameBoard DEF Contract!ContractInit
<1>2. ASSUME SupervisorInv, [Next]_vars PROVE ContractStep
  <2>1. CASE UNCHANGED vars
    BY <2>1, WorkerSame, Stutters DEF vars, boardVars
  <2>2. CASE Next
    BY <1>2, <2>2, RunRefines, SchedulingRefines, HermesRefines DEF Next
  <2> QED  BY <1>2, <2>1, <2>2
<1> QED
  <2>1. ASSUME SupervisorInv, [Next]_vars
        PROVE  [Contract!ContractNext]_(Contract!contractVars)
    BY <1>2, <2>1 DEF ContractStep
  <2> QED
    BY <1>1, <2>1, SupervisorInvariant, PTL DEF Spec, ImplementsContract, Contract!ContractSpec

-----------------------------------------------------------------------------
\* No run file before the worker: it is created once, after the launch.
RunfileInv ==
  \A r \in Runs :
    pc[r] \in Early \cup {"unborn", "launching", "recording"} => runfile[r] = "absent"

\* Every step keeps it: only BeginRunfile creates a file.
LEMMA RunfileStep == ASSUME SupervisorInv, RunfileInv, [Next]_vars PROVE RunfileInv'
<1> USE DEF RunfileInv, Early
<1>0. ProcessTypeOK /\ \A r \in Runs : RunInv(r)  BY DEF SupervisorInv, TypeOK
<1>1. ASSUME NEW r \in Runs, Run(r) PROVE RunfileInv'
  <2>1. CASE BeginRunfile(r)  BY <1>0, <2>1 DEF BeginRunfile, ProcessTypeOK
  <2>2. CASE EndRunfile(r)  BY <1>0, <2>2 DEF EndRunfile, ProcessTypeOK
  <2>3. CASE Unlink(r)  BY <1>0, <2>3 DEF Unlink, ProcessTypeOK
  <2>4. CASE Boot(r) \/ Open(r) \/ CheckOwner(r) \/ Prepare(r) \/ Launch(r)
    BY <1>0, <2>4 DEF Boot, Open, CheckOwner, Prepare, Launch, ProcessTypeOK
  <2>5. CASE \/ WorkerEnded(r) \/ StopSignalled(r) \/ StopTimedOut(r) \/ StopHomeless(r)
             \/ StopClaimLost(r) \/ SuperviseRaises(r)
    BY <1>0, <2>5 DEF WorkerEnded, StopSignalled, StopTimedOut, StopHomeless, StopClaimLost,
       SuperviseRaises, ProcessTypeOK
  <2>6. CASE Cancel(r) \/ Collect(r) \/ Clean(r) \/ Apply(r) \/ Close(r)
    BY <1>0, <2>6 DEF Cancel, Collect, Clean, Apply, Close, ProcessTypeOK
  <2> QED  BY <1>1, <2>1, <2>2, <2>3, <2>4, <2>5, <2>6 DEF Run
<1>2. ASSUME NEW r \in Runs, WorkerExits(r) \/ Scheduling(r) \/ Kill(r) PROVE RunfileInv'
  BY <1>0, <1>2 DEF WorkerExits, Scheduling, Spawn, SpawnFails, RecordPid, SchedulerLost, Sweep,
     Kill, ProcessTypeOK, RunInv, HandoffInv
<1>3. ASSUME NEW t \in Tasks, Claim(t) \/ Hermes(t) PROVE RunfileInv'
  BY <1>0, <1>3 DEF Claim, Hermes, ReclaimBegins, ReclaimKills, ReclaimEnds, ReleaseQuietly,
     BookCrash, RequeueCard, Signal, ProcessTypeOK
<1> QED  BY <1>1, <1>2, <1>3 DEF Next, vars

\* A complete run file outlives the group it names, whoever removes it and
\* whenever the supervisor dies, so that a dead supervisor's worker is found.
THEOREM RunfileLast == Spec => RunfileOutlivesWorker
<1>1. Init => RunfileInv
  BY DEF Init, SupervisorInit, RunfileInv
<1>2. ASSUME SupervisorInv, RunfileInv, [Next]_vars, NEW r \in Runs,
             runfile[r] = "written", runfile'[r] # "written"
      PROVE  ~GroupUp(r)'
  <2>0. ProcessTypeOK /\ RunInv(r)  BY <1>2 DEF SupervisorInv, TypeOK
  <2>1. CASE UNCHANGED runfile  BY <1>2, <2>1
  <2>2. ASSUME NEW q \in Runs, Run(q) \/ Sweep(q), ~UNCHANGED runfile PROVE ~GroupUp(r)'
    <3>1. BeginRunfile(q) \/ EndRunfile(q) \/ Unlink(q) \/ Sweep(q)
      BY <2>2 DEF Run, Boot, Open, CheckOwner, Prepare, Launch, WorkerEnded, StopSignalled,
         StopTimedOut, StopHomeless, StopClaimLost, SuperviseRaises, Cancel, Collect, Clean, Apply, Close
    <3>2. CASE BeginRunfile(q)
      BY <1>2, <2>0, <3>2 DEF BeginRunfile, RunfileInv, ProcessTypeOK
    <3>3. CASE EndRunfile(q)
      BY <1>2, <2>0, <3>3 DEF EndRunfile, ProcessTypeOK
    <3>4. CASE Unlink(q)
      BY <1>2, <2>0, <3>4 DEF Unlink, RunInv, WorkerInv, GroupUp, ProcessTypeOK
    <3>5. CASE Sweep(q)
      BY <1>2, <2>0, <3>5 DEF Sweep, GroupUp, ProcessTypeOK
    <3> QED  BY <3>1, <3>2, <3>3, <3>4, <3>5
  <2>3. ASSUME NEW q \in Runs, \/ WorkerExits(q) \/ Spawn(q) \/ SpawnFails(q) \/ RecordPid(q)
                              \/ SchedulerLost(q) \/ Kill(q)
        PROVE  UNCHANGED runfile
    BY <2>3 DEF WorkerExits, Spawn, SpawnFails, RecordPid, SchedulerLost, Kill
  <2>4. ASSUME NEW t \in Tasks, Claim(t) \/ Hermes(t) PROVE UNCHANGED runfile
    BY <2>4 DEF Claim, Hermes, ReclaimBegins, ReclaimKills, ReclaimEnds, ReleaseQuietly,
       BookCrash, RequeueCard
  <2>5. UNCHANGED vars => UNCHANGED runfile  BY DEF vars
  <2> QED  BY <1>2, <2>1, <2>2, <2>3, <2>4, <2>5 DEF Next, Scheduling
<1>3. ASSUME SupervisorInv, RunfileInv, [Next]_vars
      PROVE  [\A r \in Runs : runfile[r] = "written" /\ runfile'[r] # "written"
                             => ~GroupUp(r)']_vars
  BY <1>2, <1>3
<1> QED
  BY <1>1, <1>3, RunfileStep, SupervisorInvariant, PTL DEF Spec, RunfileOutlivesWorker

-----------------------------------------------------------------------------
\* From the moment the exit code is decided the group is gone.
OrphanInv == \A r \in Runs : pc[r] \in {"closing", "exited", "crashed"} => ~GroupUp(r)

\* A supervisor that ends by itself leaves no group behind, as long as the
\* run directory can be made and the log written: the two places where an
\* exception skips the clean-up of _execute.
THEOREM NoOrphanLeft ==
  ASSUME "runsdir" \notin Faults, "log" \notin Faults PROVE Spec => []NoOrphanOnExit
<1>1. Init => OrphanInv
  BY DEF Init, SupervisorInit, OrphanInv
<1>2. ASSUME SupervisorInv, OrphanInv, [Next]_vars PROVE OrphanInv'
  <2> USE DEF OrphanInv, GroupUp, Early
  <2>0. ProcessTypeOK /\ \A r \in Runs : RunInv(r)  BY <1>2 DEF SupervisorInv, TypeOK
  <2>1. ASSUME NEW r \in Runs, Run(r) PROVE OrphanInv'
    <3>1. CASE Boot(r) \/ Open(r) \/ CheckOwner(r) \/ Prepare(r) \/ Launch(r)
      BY <1>2, <2>0, <3>1
      DEF Boot, Open, CheckOwner, Prepare, Launch, ProcessTypeOK, RunInv, WorkerInv
    <3>2. CASE BeginRunfile(r) \/ EndRunfile(r)
      BY <1>2, <2>0, <3>2 DEF BeginRunfile, EndRunfile, ProcessTypeOK
    <3>3. CASE \/ WorkerEnded(r) \/ StopSignalled(r) \/ StopTimedOut(r) \/ StopHomeless(r)
               \/ StopClaimLost(r) \/ SuperviseRaises(r) \/ Cancel(r) \/ Collect(r) \/ Clean(r)
      BY <1>2, <2>0, <3>3 DEF WorkerEnded, StopSignalled, StopTimedOut, StopHomeless,
         StopClaimLost, SuperviseRaises, Cancel, Collect, Clean, ProcessTypeOK
    <3>4. CASE Unlink(r) \/ Apply(r) \/ Close(r)
      BY <1>2, <2>0, <3>4 DEF Unlink, Apply, Close, ProcessTypeOK, RunInv, WorkerInv
    <3> QED  BY <2>1, <3>1, <3>2, <3>3, <3>4 DEF Run
  <2>2. ASSUME NEW r \in Runs, WorkerExits(r) \/ Scheduling(r) \/ Kill(r) PROVE OrphanInv'
    BY <1>2, <2>0, <2>2 DEF WorkerExits, Scheduling, Spawn, SpawnFails, RecordPid, SchedulerLost,
       Sweep, Kill, ProcessTypeOK
  <2>3. ASSUME NEW t \in Tasks, Claim(t) \/ Hermes(t) PROVE OrphanInv'
    BY <1>2, <2>0, <2>3 DEF Claim, Hermes, ReclaimBegins, ReclaimKills, ReclaimEnds,
       ReleaseQuietly, BookCrash, RequeueCard, Signal, ProcessTypeOK
  <2>4. CASE UNCHANGED vars  BY <1>2, <2>4 DEF vars
  <2> QED  BY <1>2, <2>1, <2>2, <2>3, <2>4 DEF Next
<1>3. OrphanInv => NoOrphanOnExit  BY DEF OrphanInv, NoOrphanOnExit
<1> QED  BY <1>1, <1>2, <1>3, SupervisorInvariant, PTL DEF Spec
=============================================================================
