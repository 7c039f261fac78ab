----------------------------- MODULE Supervisor -----------------------------
(***************************************************************************)
(* The per-run supervisor process (supervisor.py) from its birth to its    *)
(* exit, with what surrounds it: the worker's process group, its run file, *)
(* the scheduler that claimed the card and spawned the process, the orphan *)
(* sweep, and Hermes, which may reclaim the card or book a crash whenever  *)
(* it likes.                                                               *)
(*                                                                         *)
(* pc[r] is where the supervisor of run r stands:                          *)
(*   boot       python starts; no signal handler yet                       *)
(*   opening    run(): the task log and the database connection            *)
(*   checking   still_owner at startup                                     *)
(*   preparing  _execute() up to adapter.launch                            *)
(*   launching  the termination check is behind it, launch is next         *)
(*   recording  _write_runfile() before the file exists                    *)
(*   writing    the run file exists but is incomplete                      *)
(*   supervising, cancelling, collecting    _supervise()                   *)
(*   cleaning, unlinking                    the finally block of _execute  *)
(*   applying, closing                      lifecycle.apply, the trailer   *)
(*   exited (trailer written), crashed (no trailer), killed                *)
(***************************************************************************)
EXTENDS Board, Lifecycle

CONSTANTS AdapterStatuses, \* what the adapter may report for an execution nobody stopped
          Faults           \* the failures that may happen

FaultKinds == {"open",       \* the task log or the connection cannot be opened
               "unfit",      \* the adapter is unavailable or the workspace unusable
               "raise",      \* still_owner, preparation, launch or supervision raises
               "runsdir",    \* an exception after the worker's start and before the try (runs_dir)
               "runfile",    \* the run file cannot be written, or only in part
               "write",      \* a lifecycle write raises or is refused
               "log",        \* a line cannot be written to the task log
               "spawn",      \* the scheduler cannot spawn, or dies before it has recorded the pid
               "quiet",      \* Hermes releases a card without a signal (TTL expiry)
               "kill"}       \* SIGKILL out of the blue

ASSUME SupervisorAssumption ==
  /\ AdapterStatuses \subseteq Status \ {"cancelled", "timed_out"}
  /\ Faults \subseteq FaultKinds

VARIABLES pc,        \* of every run, see above
          term,      \* "no", or how far the run was when the first SIGTERM arrived
          child,     \* the worker's process group: "none", "working", "leftover", "gone"
          result,    \* the WorkerResult's status; "raised" while an exception unwinds
          code,      \* the exit code run() returns
          runfile,   \* "absent", "torn" or "written"
          handoff,   \* the scheduler's part: "none", "claimed", "spawned", "done"
          reclaim    \* per task, the [run, pid] Hermes is terminating

supVars == <<pc, term, child, result, code, runfile>>
vars == <<card, runs, lastRun, pc, term, child, result, code, runfile, handoff, reclaim>>

Dead  == {"exited", "crashed", "killed"}
Early == {"boot", "opening", "checking", "preparing"}
Bound == {"launching", "recording", "writing", "supervising"}
Late  == {"cancelling", "collecting", "cleaning", "unlinking", "applying", "closing"}
Steps == Early \cup Bound \cup Late
NoReclaim == [run |-> NoRun, pid |-> NoRun]

ProcessTypeOK ==
  /\ pc \in [Runs -> Steps \cup Dead \cup {"unborn"}]
  /\ term \in [Runs -> {"no", "early", "bound", "late"}]
  /\ child \in [Runs -> {"none", "working", "leftover", "gone"}]
  /\ result \in [Runs -> Status \cup {"none", "raised"}]
  /\ code \in [Runs -> ExitCodes]
  /\ runfile \in [Runs -> {"absent", "torn", "written"}]
  /\ handoff \in [Runs -> {"none", "claimed", "spawned", "done"}]
  /\ reclaim \in [Tasks -> [run : Runs \cup {NoRun}, pid : Runs \cup {NoRun}]]

TypeOK == BoardTypeOK /\ ProcessTypeOK

SupervisorInit ==
  /\ pc = [r \in Runs |-> "unborn"]
  /\ term = [r \in Runs |-> "no"]
  /\ child = [r \in Runs |-> "none"]
  /\ result = [r \in Runs |-> "none"]
  /\ code = [r \in Runs |-> ExitOk]
  /\ runfile = [r \in Runs |-> "absent"]

Init ==
  /\ BoardInit
  /\ SupervisorInit
  /\ handoff = [r \in Runs |-> "none"]
  /\ reclaim = [t \in Tasks |-> NoReclaim]

Alive(r)    == pc[r] \in Steps
GroupUp(r)  == child[r] \in {"working", "leftover"}
Step(r, from, to) == pc[r] = from /\ pc' = [pc EXCEPT ![r] = to]
Rest == UNCHANGED <<handoff, reclaim>>

-----------------------------------------------------------------------------
(***************************************************************************)
(* supervisor.main and Supervisor.run up to the ownership check            *)
(***************************************************************************)
\* main installs the signal handlers and calls run().
Boot(r) ==
  /\ Step(r, "boot", "opening")
  /\ UNCHANGED <<boardVars, term, child, result, code, runfile>> /\ Rest

\* The log and the connection are opened outside the try: a failure there
\* ends the process without a trailer.
Open(r) ==
  /\ \/ Step(r, "opening", "checking")
     \/ "open" \in Faults /\ Step(r, "opening", "crashed")
  /\ UNCHANGED <<boardVars, term, child, result, code, runfile>> /\ Rest

\* An exception inside run()'s try: exit 1, the trailer still to be written.
Raise(r, from) ==
  /\ Step(r, from, "closing")
  /\ code' = [code EXCEPT ![r] = ExitFailed]

CheckOwner(r) ==
  /\ \/ /\ Owner(r)
        /\ Step(r, "checking", "preparing")
        /\ UNCHANGED code
     \/ /\ ~Owner(r)
        /\ Step(r, "checking", "closing")
        /\ code' = [code EXCEPT ![r] = ExitCancelled]
     \/ "raise" \in Faults /\ Raise(r, "checking")
  /\ UNCHANGED <<boardVars, term, child, result, runfile>> /\ Rest

(***************************************************************************)
(* Supervisor._execute                                                     *)
(***************************************************************************)
\* Up to the last look at _terminate before the launch.  An unfit executor
\* or workspace returns earlier, whatever _terminate says.
Prepare(r) ==
  /\ \/ /\ "unfit" \in Faults
        /\ Step(r, "preparing", "applying")
        /\ \E s \in {"unavailable", "failed"} : result' = [result EXCEPT ![r] = s]
        /\ UNCHANGED code
     \/ /\ term[r] # "no"
        /\ Step(r, "preparing", "applying")
        /\ result' = [result EXCEPT ![r] = "cancelled"]
        /\ UNCHANGED code
     \/ /\ term[r] = "no"
        /\ Step(r, "preparing", "launching")
        /\ UNCHANGED <<result, code>>
     \/ "raise" \in Faults /\ Raise(r, "preparing") /\ UNCHANGED result
  /\ UNCHANGED <<boardVars, term, child, runfile>> /\ Rest

Launch(r) ==
  /\ \/ /\ Step(r, "launching", "recording")
        /\ child' = [child EXCEPT ![r] = "working"]
        /\ UNCHANGED code
     \/ "raise" \in Faults /\ Raise(r, "launching") /\ UNCHANGED child
  /\ UNCHANGED <<boardVars, term, result, runfile>> /\ Rest

\* _write_runfile: open() truncates, then the contents arrive.  An OSError
\* gives up on the file; one from runs_dir() is caught by run() only, and
\* skips the finally block.
BeginRunfile(r) ==
  /\ \/ /\ Step(r, "recording", "writing")
        /\ runfile' = [runfile EXCEPT ![r] = "torn"]
        /\ UNCHANGED code
     \/ /\ "runfile" \in Faults
        /\ Step(r, "recording", "supervising")
        /\ UNCHANGED <<runfile, code>>
     \/ "runsdir" \in Faults /\ Raise(r, "recording") /\ UNCHANGED runfile
  /\ UNCHANGED <<boardVars, term, child, result>> /\ Rest

\* A file the sweep has found torn and unlinked stays unlinked.
EndRunfile(r) ==
  /\ Step(r, "writing", "supervising")
  /\ \/ runfile' = [runfile EXCEPT ![r] = IF @ = "torn" THEN "written" ELSE @]
     \/ "runfile" \in Faults /\ UNCHANGED runfile
  /\ UNCHANGED <<boardVars, term, child, result, code>> /\ Rest

\* Mutant: what the worker left in its group is not looked for.
CleanNothing(r) ==
  /\ Step(r, "cleaning", "unlinking")
  /\ UNCHANGED <<boardVars, term, child, result, code, runfile>> /\ Rest

\* finally: stragglers in the worker's group are logged and terminated, then
\* the run file goes (a torn one is not ours: _write_runfile returned None).
\* When the log fails here, neither happens.
Clean(r) ==
  /\ \/ /\ Step(r, "cleaning", "unlinking")
        /\ child' = [child EXCEPT ![r] = IF @ = "none" THEN @ ELSE "gone"]
        /\ UNCHANGED code
     \/ "log" \in Faults /\ GroupUp(r) /\ Raise(r, "cleaning") /\ UNCHANGED child
  /\ UNCHANGED <<boardVars, term, result, runfile>> /\ Rest

Unlink(r) ==
  /\ runfile' = [runfile EXCEPT ![r] = IF @ = "written" THEN "absent" ELSE @]
  /\ \/ result[r] = "raised" /\ Raise(r, "unlinking")
     \/ result[r] # "raised" /\ Step(r, "unlinking", "applying") /\ UNCHANGED code
  /\ UNCHANGED <<boardVars, term, child, result>> /\ Rest

(***************************************************************************)
(* Supervisor._supervise                                                   *)
(***************************************************************************)
\* adapter.poll() is true: the direct child has exited.
WorkerEnded(r) ==
  /\ child[r] # "working"
  /\ Step(r, "supervising", "collecting")
  /\ UNCHANGED <<boardVars, term, child, result, code, runfile>> /\ Rest

\* The four reasons to stop a worker that still runs, in their order: the
\* first one that holds in a round of the loop sets the override.
Stop(r, status) ==
  /\ child[r] = "working"
  /\ Step(r, "supervising", "cancelling")
  /\ result' = [result EXCEPT ![r] = status]
  /\ UNCHANGED <<boardVars, term, child, code, runfile>> /\ Rest

\* Mutant: a lost claim is noticed and not acted upon.
StopClaimLostIgnored(r) ==
  pc[r] = "supervising" /\ term[r] = "no" /\ ~Owner(r) /\ UNCHANGED vars

StopSignalled(r)  == term[r] # "no" /\ Stop(r, "cancelled")
StopTimedOut(r)   == term[r] = "no" /\ Stop(r, "timed_out")
StopHomeless(r)   == "unfit" \in Faults /\ term[r] = "no" /\ Stop(r, "failed")
StopClaimLost(r)  == term[r] = "no" /\ ~Owner(r) /\ Stop(r, "cancelled")

\* Mutant: the supervision is not inside a try ... finally.
SuperviseRaisesPastFinally(r) ==
  /\ "raise" \in Faults
  /\ Raise(r, "supervising")
  /\ UNCHANGED <<boardVars, term, child, result, runfile>> /\ Rest

\* An exception in the loop (the workspace cannot be examined, the log's disk
\* is full) unwinds through the finally block.
SuperviseRaises(r) ==
  /\ "raise" \in Faults
  /\ Step(r, "supervising", "cleaning")
  /\ result' = [result EXCEPT ![r] = "raised"]
  /\ UNCHANGED <<boardVars, term, child, code, runfile>> /\ Rest

\* Mutant: SIGTERM without the SIGKILL that follows it.
CancelPolitely(r) ==
  /\ child[r] # "working"
  /\ Step(r, "cancelling", "collecting")
  /\ UNCHANGED <<boardVars, term, child, result, code, runfile>> /\ Rest

\* adapter.cancel blocks until the whole group is gone.
Cancel(r) ==
  /\ Step(r, "cancelling", "collecting")
  /\ child' = [child EXCEPT ![r] = "gone"]
  /\ UNCHANGED <<boardVars, term, result, code, runfile>> /\ Rest

\* Mutant: a signal that raced with a natural exit is forgotten.
CollectUnsignalled(r) ==
  /\ Step(r, "collecting", "cleaning")
  /\ IF result[r] # "none"
     THEN UNCHANGED result
     ELSE \E s \in AdapterStatuses : result' = [result EXCEPT ![r] = s]
  /\ UNCHANGED <<boardVars, term, child, code, runfile>> /\ Rest

\* An override outranks the adapter's result, and so does a signal that
\* raced with a natural exit.  From here on _terminate is never read again.
Collect(r) ==
  /\ Step(r, "collecting", "cleaning")
  /\ \/ result[r] # "none" /\ UNCHANGED result
     \/ result[r] = "none" /\ term[r] # "no" /\ result' = [result EXCEPT ![r] = "cancelled"]
     \/ /\ result[r] = "none" /\ term[r] = "no"
        /\ \E s \in AdapterStatuses : result' = [result EXCEPT ![r] = s]
  /\ UNCHANGED <<boardVars, term, child, code, runfile>> /\ Rest

(***************************************************************************)
(* lifecycle.apply, the trailer and the exit                               *)
(***************************************************************************)
\* The transition is written, refused, or raises; a log line that fails after
\* it turns the exit code into 1, whatever was written.
Apply(r) ==
  /\ Step(r, "applying", "closing")
  /\ \E lane \in Lanes :
       LET plan == Plan(lane, result[r], PidTracked) IN
       \/ /\ plan.to # "none"
          /\ FinishRun(r, plan.to, plan.to)
          /\ code' = [code EXCEPT ![r] = IF Owner(r) THEN ExitOk ELSE plan.code]
       \/ /\ plan.to = "none" \/ "write" \in Faults
          /\ code' = [code EXCEPT ![r] = plan.code]
          /\ UNCHANGED boardVars
       \/ /\ "log" \in Faults
          /\ IF plan.to = "none" THEN UNCHANGED boardVars ELSE FinishRun(r, plan.to, plan.to)
          /\ code' = [code EXCEPT ![r] = ExitFailed]
  /\ result' = [result EXCEPT ![r] = "none"]   \* used up
  /\ UNCHANGED <<term, child, runfile>> /\ Rest

\* The trailer itself, or the line that reports an exception, may fail.
Close(r) ==
  /\ \/ Step(r, "closing", "exited")
     \/ "log" \in Faults /\ Step(r, "closing", "crashed")
  /\ UNCHANGED <<boardVars, term, child, result, code, runfile>> /\ Rest

Run(r) ==
  \/ Boot(r) \/ Open(r) \/ CheckOwner(r) \/ Prepare(r) \/ Launch(r)
  \/ BeginRunfile(r) \/ EndRunfile(r) \/ WorkerEnded(r)
  \/ StopSignalled(r) \/ StopTimedOut(r) \/ StopHomeless(r) \/ StopClaimLost(r)
  \/ SuperviseRaises(r) \/ Cancel(r) \/ Collect(r) \/ Clean(r) \/ Unlink(r)
  \/ Apply(r) \/ Close(r)

-----------------------------------------------------------------------------
(***************************************************************************)
(* The worker, and the scheduler as a supervisor meets it                  *)
(***************************************************************************)
\* The direct child exits, with or without leaving others in its group; or
\* the last of those goes.
WorkerExits(r) ==
  /\ GroupUp(r)
  /\ \/ child' = [child EXCEPT ![r] = "gone"]
     \/ child[r] = "working" /\ child' = [child EXCEPT ![r] = "leftover"]
  /\ UNCHANGED <<boardVars, pc, term, result, code, runfile>> /\ Rest

\* claim_task, then _spawn, then record_worker_pid, each a step of its own.
Claim(t) ==
  /\ ClaimTask(t)
  /\ handoff' = [handoff EXCEPT ![lastRun + 1] = "claimed"]
  /\ UNCHANGED <<supVars, reclaim>>

Spawn(r) ==
  /\ handoff[r] = "claimed"
  /\ handoff' = [handoff EXCEPT ![r] = "spawned"]
  /\ pc' = [pc EXCEPT ![r] = "boot"]
  /\ UNCHANGED <<boardVars, term, child, result, code, runfile, reclaim>>

\* _release_failed_spawn blocks the card; when that raises too, nothing does.
SpawnFails(r) ==
  /\ "spawn" \in Faults
  /\ handoff[r] = "claimed"
  /\ handoff' = [handoff EXCEPT ![r] = "done"]
  /\ FinishRun(r, "blocked", "unspawned") \/ UNCHANGED boardVars
  /\ UNCHANGED <<supVars, reclaim>>

\* Mutant: a supervisor that is over by then is not worth recording.
RecordPidAlive(r) ==
  /\ handoff[r] = "spawned"
  /\ handoff' = [handoff EXCEPT ![r] = "done"]
  /\ IF Alive(r) THEN RecordWorkerPid(r) ELSE UNCHANGED boardVars
  /\ UNCHANGED <<supVars, reclaim>>

RecordPid(r) ==
  /\ handoff[r] = "spawned"
  /\ handoff' = [handoff EXCEPT ![r] = "done"]
  /\ RecordWorkerPid(r)
  /\ UNCHANGED <<supVars, reclaim>>

\* The scheduler dies, or record_worker_pid raises.
SchedulerLost(r) ==
  /\ "spawn" \in Faults
  /\ handoff[r] \in {"claimed", "spawned"}
  /\ handoff' = [handoff EXCEPT ![r] = "done"]
  /\ UNCHANGED <<boardVars, supVars, reclaim>>

\* Mutant: the run file of a dead supervisor goes, its worker's group stays.
SweepUnlinksOnly(r) ==
  /\ runfile[r] = "torn" \/ (runfile[r] = "written" /\ ~Alive(r))
  /\ runfile' = [runfile EXCEPT ![r] = "absent"]
  /\ UNCHANGED <<boardVars, pc, term, child, result, code>> /\ Rest

\* Mutant: a killed supervisor, not reaped yet, is taken for a living one.
SweepSparesZombies(r) ==
  /\ runfile[r] = "written"
  /\ ~Alive(r) /\ pc[r] # "killed"
  /\ child' = [child EXCEPT ![r] = IF GroupUp(r) THEN "gone" ELSE @]
  /\ runfile' = [runfile EXCEPT ![r] = "absent"]
  /\ UNCHANGED <<boardVars, pc, term, result, code>> /\ Rest

\* One file of scheduler.sweep_orphans: an unreadable run file is removed;
\* a readable one only once its supervisor is dead, after the group.  (What
\* the supervisor writes between the failed read and the unlink is lost too.)
Sweep(r) ==
  /\ \/ runfile[r] = "torn" /\ UNCHANGED child
     \/ /\ runfile[r] = "written"
        /\ ~Alive(r)
        /\ child' = [child EXCEPT ![r] = IF GroupUp(r) THEN "gone" ELSE @]
  /\ runfile' = [runfile EXCEPT ![r] = "absent"]
  /\ UNCHANGED <<boardVars, pc, term, result, code>> /\ Rest

-----------------------------------------------------------------------------
(***************************************************************************)
(* Hermes                                                                  *)
(***************************************************************************)
\* SIGTERM: before main has installed the handlers it kills the process;
\* later request_termination keeps the first reason.
Phase(r) ==
  CASE pc[r] \in Early -> "early" [] pc[r] \in Bound -> "bound" [] OTHER -> "late"

Signal(r) ==
  IF pc[r] = "boot"
  THEN pc' = [pc EXCEPT ![r] = "killed"] /\ UNCHANGED term
  ELSE term' = [term EXCEPT ![r] = IF @ = "no" THEN Phase(r) ELSE @] /\ UNCHANGED pc

\* A reclaim (or max-runtime) signals the recorded supervisor first, kills
\* it when it lingers, and releases the card only then.
ReclaimBegins(t) ==
  LET p == card[t].pid IN
  /\ card[t].status = "running" /\ reclaim[t] = NoReclaim
  /\ reclaim' = [reclaim EXCEPT ![t] = [run |-> card[t].run, pid |-> p]]
  /\ IF p # NoRun /\ Alive(p) THEN Signal(p) ELSE UNCHANGED <<pc, term>>
  /\ UNCHANGED <<boardVars, child, result, code, runfile, handoff>>

ReclaimKills(t) ==
  LET p == reclaim[t].pid IN
  /\ p # NoRun /\ Alive(p)
  /\ pc' = [pc EXCEPT ![p] = "killed"]
  /\ UNCHANGED <<boardVars, term, child, result, code, runfile>> /\ Rest

ReclaimEnds(t) ==
  LET q == reclaim[t] IN
  /\ q.run # NoRun
  /\ q.pid # NoRun => ~Alive(q.pid)
  /\ reclaim' = [reclaim EXCEPT ![t] = NoReclaim]
  /\ FinishRun(q.run, "ready", "reclaimed")
  /\ UNCHANGED <<supVars, handoff>>

\* The card is released and nobody is told: the claim's TTL has run out.
ReleaseQuietly(t) ==
  /\ "quiet" \in Faults
  /\ card[t].status = "running"
  /\ MoveCard(card[t].run, "ready", "reclaimed")
  /\ UNCHANGED <<supVars, handoff, reclaim>>

\* detect_crashed_workers: a running card whose recorded process is dead.
BookCrash(t) ==
  LET p == card[t].pid IN
  /\ card[t].status = "running"
  /\ p # NoRun /\ ~Alive(p)
  /\ \E column \in {"ready", "blocked"} : MoveCard(card[t].run, column, "crashed")
  /\ UNCHANGED <<supVars, handoff, reclaim>>

RequeueCard(t) == Requeue(t) /\ UNCHANGED <<supVars, handoff, reclaim>>

Kill(r) ==
  /\ "kill" \in Faults
  /\ Alive(r)
  /\ pc' = [pc EXCEPT ![r] = "killed"]
  /\ UNCHANGED <<boardVars, term, child, result, code, runfile>> /\ Rest

Hermes(t) ==
  \/ ReclaimBegins(t) \/ ReclaimKills(t) \/ ReclaimEnds(t) \/ ReleaseQuietly(t)
  \/ BookCrash(t) \/ RequeueCard(t)

Scheduling(r) ==
  Spawn(r) \/ SpawnFails(r) \/ RecordPid(r) \/ SchedulerLost(r) \/ Sweep(r)

Next ==
  \/ \E r \in Runs : Run(r) \/ WorkerExits(r) \/ Scheduling(r) \/ Kill(r)
  \/ \E t \in Tasks : Claim(t) \/ Hermes(t)

Spec == Init /\ [][Next]_vars

-----------------------------------------------------------------------------
(***************************************************************************)
(* Safety                                                                  *)
(***************************************************************************)
\* A card that a run finished is finished for good by then: the run's worker,
\* with everything it left in its group, no longer touches the workspace.
WorkerGoneBeforeVerdict == \A r \in Runs : Verdict(r) => ~GroupUp(r)

\* Hermes reads the exit code of a dead supervisor: 0 only if this run itself
\* moved the card, and then 0 unless the task log failed, so that a run that
\* gave its card up never passes for a success nor a finished one for a failure.
ExitCodeMatchesVerdict ==
  \A r \in Runs : pc[r] = "exited" =>
    /\ code[r] = ExitOk => Verdict(r)
    /\ Verdict(r) => code[r] = ExitOk \/ "log" \in Faults

\* A run whose supervisor got its SIGTERM after the last check before the
\* launch and before the worker was stopped or had ended writes no transition.
SignalledRunLeavesCard ==
  \A r \in Runs : term[r] = "bound" => ~Verdict(r)

\* A supervisor that ends by itself leaves no process of its worker behind
\* (unless an exception or the log keeps it from cleaning up: see Faults).
NoOrphanOnExit ==
  \A r \in Runs : pc[r] \in {"exited", "crashed"} => ~GroupUp(r)

\* Claim-only mode has no crash sweep to read an exit code: a supervisor that
\* ends by itself while it still owns the card has closed the run.
ClaimOnlyRunIsClosed ==
  ~PidTracked => \A r \in Runs : pc[r] = "exited" => ~Owner(r)

\* A complete run file (not one a sweep has already found torn), the only way
\* to find an orphan, disappears only when the group it names is gone, whoever
\* removes it: the supervisor, or the sweep of any scheduler.
RunfileOutlivesWorker ==
  [][\A r \in Runs : runfile[r] = "written" /\ runfile'[r] # "written" => ~GroupUp(r)']_vars

(***************************************************************************)
(* The inductive invariant behind these (proved in SupervisorProofs): how  *)
(* far a run has come bounds what its worker and its verdict can be.       *)
(***************************************************************************)
\* No supervisor before the claim is handed over, no claim before its number.
HandoffInv(r) ==
  /\ r > lastRun => handoff[r] = "none"
  /\ handoff[r] \in {"none", "claimed"} => pc[r] = "unborn"

\* No worker before the launch, one until the group is found gone, none left
\* when the result is applied.
WorkerInv(r) ==
  /\ pc[r] \in Early \cup {"unborn", "launching"} => child[r] = "none"
  /\ pc[r] \in {"recording", "writing", "supervising", "cancelling"} => child[r] # "none"
  /\ pc[r] \in {"unlinking", "applying"} => ~GroupUp(r)

\* No verdict before lifecycle.apply; afterwards the exit code tells it.
VerdictInv(r) ==
  /\ Verdict(r) => pc[r] \in {"closing", "exited", "crashed", "killed"} /\ ~GroupUp(r)
  /\ pc[r] \in {"closing", "exited"} =>
       /\ code[r] = ExitOk => Verdict(r)
       /\ Verdict(r) => code[r] = ExitOk \/ "log" \in Faults

\* A signal that came in time is known before the result is.
SignalInv(r) ==
  /\ pc[r] \in Early \cup Bound \cup {"unborn"} => result[r] = "none"
  /\ term[r] = "bound" =>
       /\ pc[r] \notin Early \cup {"unborn"}
       /\ pc[r] \in Late \ {"closing"} =>
            \/ result[r] = "cancelled"
            \/ result[r] = "raised" /\ pc[r] # "applying"
            \/ result[r] = "none" /\ pc[r] = "collecting"
       /\ ~Verdict(r)

RunInv(r) == HandoffInv(r) /\ WorkerInv(r) /\ VerdictInv(r) /\ SignalInv(r)

SupervisorInv == TypeOK /\ BoardInv /\ \A r \in Runs : RunInv(r)

\* In claim-only mode nobody knows whom to signal, ...
Unsignalled ==
  /\ \A t \in Tasks : card[t].pid = NoRun /\ reclaim[t].pid = NoRun
  /\ \A r \in Runs : term[r] = "no"

\* ... and then, with no exception in the run and no failing write, a run that
\* reports "cancelled" has lost its card, and every other result gets written.
ClosingInv(r) ==
  /\ result[r] # "raised"
  /\ pc[r] \in {"cleaning", "unlinking", "applying"} => result[r] # "none"
  /\ result[r] = "cancelled" \/ pc[r] \in {"closing", "exited"} => ~Owner(r)

ClaimOnlyInv == SupervisorInv /\ Unsignalled /\ \A r \in Runs : ClosingInv(r)

(***************************************************************************)
(* Liveness                                                                *)
(***************************************************************************)
\* The supervisor's loop and its straight-line code go on; a finite sleep,
\* poll or kill ends; the worker, the timeout and Hermes owe nothing.
Progress(r) ==
  \/ Boot(r) \/ Open(r) \/ CheckOwner(r) \/ Prepare(r) \/ Launch(r)
  \/ BeginRunfile(r) \/ EndRunfile(r) \/ WorkerEnded(r) \/ StopSignalled(r)
  \/ Cancel(r) \/ Collect(r) \/ Clean(r) \/ Unlink(r) \/ Apply(r) \/ Close(r)

\* ... and the daemon keeps ticking.
FairSpec == Spec /\ \A r \in Runs : WF_vars(Progress(r)) /\ WF_vars(Sweep(r))

\* Of the two clocks in the loop, each property below uses one: the lane's
\* timeout strikes, or the claim is heartbeated.
TimeoutStrikes == \A r \in Runs : WF_vars(StopTimedOut(r))
ClaimKept      == \A r \in Runs : WF_vars(StopClaimLost(r))

\* Under the timeout alone every supervisor comes to its end, even if the
\* worker never exits and nobody ever signals.
RunEnds == TimeoutStrikes => \A r \in Runs : pc[r] = "boot" ~> pc[r] \in Dead

\* A worker whose run has lost its card is stopped, without any signal and
\* without the timeout, unless its supervisor was killed.
LostClaimStopsWorker ==
  ClaimKept =>
    \A r \in Runs : child[r] = "working" /\ ~Owner(r) ~> ~GroupUp(r) \/ pc[r] = "killed"

\* The group of a supervisor that died with its run file in place is swept.
OrphanSwept ==
  \A r \in Runs : pc[r] = "killed" /\ runfile[r] = "written" ~> ~GroupUp(r)

\* The scheduler that has spawned a supervisor records its pid, and Hermes looks
\* for dead ones.
DeadAreLookedFor ==
  (\A r \in Runs : WF_vars(RecordPid(r))) /\ (\A t \in Tasks : WF_vars(BookCrash(t)))

\* A supervisor that dies with the card in its hands, even before it has a log
\* to say so in, leaves it running to nobody only for a while: its pid was
\* recorded, or will be, dead or alive (supervisor.py:75, scheduler.py:92).
DeadRunIsBooked ==
  PidTracked /\ DeadAreLookedFor =>
    \A r \in Runs : pc[r] \in Dead /\ Owner(r) ~> ~Owner(r)

(***************************************************************************)
(* The contract with the board                                             *)
(***************************************************************************)
workerOf == [r \in Runs |-> CASE child[r] = "none" -> "idle"
                              [] GroupUp(r)        -> "up"
                              [] OTHER             -> "down"]

Contract == INSTANCE RunContract WITH worker <- workerOf

\* The supervisor with everything around it implements RunContract: one
\* worker per run, started before the run's verdict and never after it, and
\* a verdict only from the run that holds the card, once its worker is down.
ImplementsContract == Contract!ContractSpec

(***************************************************************************)
(* What the documentation says and the code does not keep (see README)     *)
(***************************************************************************)
\* supervisor.py: "on SIGTERM ... exits WITHOUT a lifecycle write".
SignalledNeverWrites == \A r \in Runs : term[r] # "no" => ~Verdict(r)
=============================================================================
