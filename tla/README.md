# hermes-worker-runtime in TLA+

`hermes-worker-runtime` runs external workers (deterministic commands, ACP coding agents)
on the cards of a Hermes kanban board. A scheduler claims ready cards and starts one
detached *supervisor* process per run; the supervisor launches the worker in a process
group of its own, watches it, and turns its result into a board transition or an exit
code that Hermes' crash sweep understands. The board, the processes, the signals and a
directory of run files are all that the parties share, and each of them may die, be killed
or lose its claim between any two steps. This directory models that, checks it with TLC,
and proves the central invariants with TLAPS.

Paths below are relative to `src/hermes_worker_runtime/` unless they say otherwise.

## 1. Inventory

| Component | State | Operations | Hard behaviour | What makes it correct |
|---|---|---|---|---|
| scheduler (`scheduler.py`) | tick position, `running` snapshot, list of ready cards, the claim in hand | `tick`, `_tick_board`, `_spawn`, `_release_failed_spawn`, `reap`, `run_forever` | several schedulers on one board; stale counts and lists; death between claim, spawn and record | concurrency limits; no claim without a supervisor; the recorded pid is the right one; no starvation |
| orphan sweep (`scheduler.py`) | run files | `sweep_orphans` | files half written, supervisors dying meanwhile, reused pids | kills only orphans; never loses the file of a living group |
| daemon lock (`scheduler.py`) | a file lock | enter, exit | one-off `tick` beside the daemon | one daemon per home |
| supervisor (`supervisor.py`) | `_terminate`, override, result, run file, exit code | `main`, `run`, `_execute`, `_supervise`, `_write_runfile`, `_keep_claim`, signal handler | SIGTERM at any step, SIGKILL, lost claims, exceptions in every phase | no write by a run that lost or gave up its card; the worker is gone before the verdict; the exit code agrees with the board; it ends |
| lifecycle (`lifecycle.py`) | none | `apply`, `_write` | refused and raising writes; two modes | every status ends in a transition or an exit code |
| board access (`hermes_api.py`) | none of its own; the kanban database | `claim_task`, `complete`, `request_review`, `block`, `record_worker_pid`, `still_owner`, `running_counts` | fenced and unfenced writes | a run is open exactly while it holds its card |
| command adapter (`adapters/command.py`) | process, output tail, reader thread | `launch`, `poll`, `cancel`, `collect_result` | children of the child | whole-group cancellation |
| ACP adapter (`adapters/acp.py`) | `_proc`, `_cancelled`, `_error`, `_stop_reason`, session thread | as above, and `_run`, `_request` in the thread | two threads without a lock; exit and answer racing | the agent is gone when the run is judged; an answer is not lost; a crash ends the session |
| process groups (`procutil.py`) | none | `group_alive`, `terminate_group` | zombies, grace periods | returns with the group gone |
| result parsing (`result.py`) | none | `parse_agent_result`, heuristics | several or broken result blocks | the last well-formed block wins; no card is done on faith |
| configuration (`config.py`) | none | `load_config`, `parse_config`, `Lane.to_dict`, `from_dict` | two validations with JSON in between; a duplicate assignee | every accepted lane reaches its supervisor whole and can be executed |
| environment (`envpolicy.py`) | none | `build_child_env`, redaction | layers that override one another | the child gets what its lane allows, the run's names, nothing of Hermes' claim |
| change evidence (`gitstate.py`) | none | `porcelain`, `change_metadata` | renames, failing listings | the files reported are the run's |
| command line (`cli.py`), paths | the daemon's stop flag | `handle` | signals at any step of a tick | a daemon that is told to stop does |

How they interact:

```
 scheduler --claim/record/block--> board <--fenced transition, heartbeat-- supervisor
     |  \--spawn--------------------------------------------------------^    |  |
     |                                                          launch/kill  |  | run file
     \--sweep--> run files --kill--> worker's process group <---------------/   |
 Hermes --SIGTERM, SIGKILL--> supervisor;  reclaim, expiry, crash booking --> board
```

What is hard to test here is listed, line by line, under `hazards` in `PROJECT.json`.

## 2. Modules

| Module | Models | State |
|---|---|---|
| `Board` | the board as `hermes_api.py` uses it (the kernel is external) | `card`, `runs`, `lastRun` |
| `Lifecycle` | `lifecycle.apply`, statuses, exit codes: pure operators | – |
| `Supervisor` | `supervisor.py`, with worker, scheduler, sweep and Hermes around it; extends `Board` and `Lifecycle` | `pc`, `term`, `child`, `result`, `code`, `runfile`, `handoff`, `reclaim` |
| `RunContract` | abstract specification: what a run promises the board | the board and `worker` |
| `Scheduler` | `scheduler.py`'s tick, any number of schedulers; extends `Board` | tick state per scheduler, `claims`, `spawned` |
| `AcpSession` | one run of the ACP adapter: main thread, session thread, agent | one variable per field of `AcpAdapter` that both threads read |
| `Deadlines` | one supervised run with durations: `_supervise`, `_keep_claim`, `terminate_group`, Hermes' window | `pc`, `worker`, `stop`, and a clock for every deadline |
| `Daemon` | the processes of one host: `cli.handle`, `daemon_lock`, `reap`, `sweep_orphans`, against supervisors and their run files | per process where it is, what it is sweeping; per run supervisor, group, file |
| `Config`, `EnvPolicy`, `GitState`, `AgentResult` | `config.py`, `build_child_env`, `gitstate.py`, `parse_agent_result` and both `collect_result`: pure operators | – |
| `CardPath` | the composition of these four and `Lifecycle`: one card from the file to its transition | what is handed from one to the next |
| `MCSupervisor`, `MCScheduler`, `MCCardPath` | instances for TLC (the other modules are small enough to be run as they are) | – |
| `BoardProofs`, `SupervisorProofs`, `ContractProofs`, `SchedulerProofs`, `AcpProofs`, `DeadlinesProofs`, `DaemonProofs`, `CardPathProofs` | theorems | – |

`Supervisor`, `Scheduler` and `AcpSession` have the control, each with the others as its
environment; `Deadlines` has the same loop as `Supervisor` with its durations, `Daemon` the
same sweep with every read, kill and unlink apart, `CardPath` the data that the control
modules leave out.

### Board

A claim's lock is unique to the claim (`new_claimer` makes a UUID), so it is identified
with the run the claim opens. `ClaimTask` is the kernel's compare-and-swap on a ready card;
it opens a run and clears `worker_pid`. `FinishRun(r, ...)` is every write that carries
`expected_run_id`; `RecordWorkerPid` is by card and fenced by nothing, as `_set_worker_pid`
is. A recorded pid is represented by the run whose supervisor it is. Ready cards carry no
claim lock, so `_tick_board`'s `if task.claim_lock: continue` never applies.

### Supervisor

`pc[r]` is the position of run r's supervisor, from `boot` (python starts, no handler yet)
to `exited` (trailer written), `crashed` (no trailer) or `killed`. Each action is the code
between two points at which somebody else can interfere:

| Action | Code |
|---|---|
| `Boot`, `Open`, `CheckOwner` | `main`, and `run` up to `still_owner` |
| `Prepare`, `Launch` | `_execute`: availability, workspace, the look at `_terminate`, `adapter.launch` |
| `BeginRunfile`, `EndRunfile` | `_write_runfile`: truncated, then filled |
| `WorkerEnded`, `StopSignalled`, `StopTimedOut`, `StopHomeless`, `StopClaimLost`, `SuperviseRaises` | one round of `_supervise`'s loop |
| `Cancel`, `Collect` | `adapter.cancel`; `collect_result` with the overrides |
| `Clean`, `Unlink` | the `finally` of `_execute` |
| `Apply`, `Close` | `lifecycle.apply`, trailer |
| `Claim`, `Spawn`, `SpawnFails`, `RecordPid`, `SchedulerLost`, `Sweep` | the scheduler as a supervisor meets it |
| `ReclaimBegins/Kills/Ends`, `ReleaseQuietly`, `BookCrash`, `RequeueCard`, `Kill`, `WorkerExits` | Hermes, operator, kernel, worker |

`child` is the worker's process group: `working` while the direct child lives, `leftover`
when it has exited and others of its group have not, `gone`. `term` remembers how far the
run was at the first SIGTERM. The constant `Faults` says which failures may happen; its
members are listed in the module.

### Scheduler

A tick visits boards, counts the lanes of a board once, lists a lane's ready cards, and
claims, spawns and records card by card; each is an action. Boards and lanes are visited
in any order. A scheduler may die anywhere; one that starts again knows the board only.
Two schedulers stand for a daemon and a one-off `tick` (which takes no lock), or for two
hosts.

### AcpSession

The session thread spawns the agent (`Fork`, then `Started` assigns `_proc`), asks
`initialize`, `new_session`, `prompt` in turn (`ReadAnswer`), and on the agent's exit grants
one second for an answer still in the pipe (`NoticeExit`, `DrainEnds`). The main thread is
the supervisor's calls; `known` remembers whether `_write_runfile`, which waits five seconds
for a pid, got one.

### Deadlines

`Supervisor` lets a timeout strike and a claim expire at any moment, and kills a group in
one step. Here every step has a longest stay (`Limit`), `Tick` is the only step that takes
time, and it waits when the code would have to act first. `age` is the time at the current
step, `elapsed` is `now - started`, `beat` runs from `next_claim_hb`, `claim` from the last
extension, `lost` from the loss of the card, `sig` from Hermes' SIGTERM. `stop` remembers
whether a stop was decided before the signal (and has the lane's grace) or after it (three
seconds), or whether the child ended by itself, with or without a signal before; what it
left in its group is then stopped only after its result is collected. Either grace may be
the longer one, since a lane may set `kill_grace_seconds` to 1. `Round` is one round of the loop in the code's order: poll, signal, timeout,
workspace, heartbeat. A heartbeat that raises counts as kept; `Misses` bounds how many do in
a row.

### Daemon

`Begin` is `run` or `tick`; only a daemon takes the lock, and `Over` is what the kernel does
at the end of any process: the lock is free, the children are init's. A sweep reads a file
(`ReadFile`), asks whether the supervisor lives (`Judge`), kills (`KillGroup`) and unlinks
(`UnlinkFile`). A `ps` that cannot be run or takes too long makes everything that has the pid
count as alive, a zombie too; one that exits with an error makes it count as dead, a living
supervisor too, and a sweep that is about to kill on its word is `blind`. Between any two of
these steps supervisors, workers and other sweeps go on. A supervisor that ends is a zombie
until `reap`, or until its parent is gone. `stranger` says that its pid belongs to an
unrelated process by now. A run file is `torn` between `write_text`'s truncation and its
content.

### Config, EnvPolicy, GitState, AgentResult and CardPath

A YAML mapping is a function from keys to *classes* of values, those that the rules tell
apart ("null", the empty string, a positive integer, a fraction, another string, ...).
`ConfigOk` is `parse_config`, `Lane` the lane it makes, `ToDict` and `FromDict` the way over
`--lane-json`, which drops what is empty and validates again. `ChildEnv` layers the
environments. `Porcelain` folds `ReadEntry` over what git prints. `Parsed` chooses among the
blocks of a message; `AcpResult` and `CommandOutcome` are `collect_result`; `Answer` is the
client's choice among permission options. `ChangeMetadata` cuts the two lists of names off
(`MaxChanged`, `MaxPreexisting`; 500 and 200 in the code) and leaves open which names come
first. `CardPath` has one action for each hand-over: `LoadConfig`, `Serve`, `NotLaunched`,
`Launch`, the worker's questions, `Collect` with the supervisor's own verdict on a run it has
stopped (`Overrides`), `Apply`; and the edits of the work tree during the run (`EditTree`), by
the run or by others who share the directory. `touched` has the paths the run has changed,
`foreign` those that others have, and the sources of renames that came apart (`Unpair`): git
lists such a source as a change of its own although nobody has changed it.

### RunContract

A run gets at most one worker; the worker starts before the verdict and is down when it
is given; only the run that holds the card gives one; a card can be lost at any time. That
a worker starts only while its run *holds* the card is not promised, because it is not
true: the claim may be lost between the check and the launch.

## 3. What the runs check

| Run | Instance | Properties |
|---|---|---|
| `sup_inside` | 1 card, 2 runs, failures inside a supervisor | `TypeOK`, `WorkerGoneBeforeVerdict`, `ExitCodeMatchesVerdict`, `SignalledRunLeavesCard`, `NoOrphanOnExit` |
| `sup_outside` | 1 card, 2 runs, expiring claims, killing reclaims, failing disk | `OpenRunHoldsCard`, `RunfileOutlivesWorker`, `ImplementsContract` |
| `sup_claim_only` | claim-only mode, 1 card, 2 runs, all ACP statuses, kills | `ClaimOnlyRunIsClosed` |
| `sup_live` | 1 run, `FairSpec`, supervisors that fail to open log or database | `RunEnds`, `LostClaimStopsWorker`, `OrphanSwept`, `DeadRunIsBooked` |
| `sched_two` | 2 schedulers, 2 cards of one lane, every failure and death | `CapPerScheduler` |
| `sched_one` | 1 scheduler, 3 cards on 2 boards, reassignment, failures it survives | `TypeOK`, `NoForgottenClaim`, `CapPerBoard`, `WorkerPidIsCurrent` |
| `sched_live` | 1 scheduler and the claims of another host's, 2 cards of one lane on a board, a second board that may fail, failing spawns, 3 runs, `FairSpec` | `ReadyCardIsServed` |
| `acp` | one session, `FairSpec` | `TypeOK`, `KnownAgentGone`, `AnswerNotLost`, `CrashEndsSession`, `CancelEnds` |
| `deadlines` | one run, durations of one to a few ticks | `TypeOK`, `KillFindsGroupGone`, `LostClaimStopsInTime`, `ClaimOutlivesRun`, `WorkerWithinTimeout` |
| `daemon` | 2 processes, each daemon or tick, 1 run, `FairSpec` | `TypeOK`, `LockIsTheDaemons`, `SweepSparesSupervised`, `OrphanHasFile`, `StopIsHeeded` |
| `card_path` | several hundred configuration files, every parent environment over five names, every message of up to three blocks, every list of up to three permission options, four work trees over three paths with two editors, lists cut off at 2 and 1 names | `TypeOK`, `LaneIsTheFiles`, `AcceptedLaneStarts`, `ChildIsConfined`, `OutcomeIsEarned`, `EvidenceIsTheRuns` |

Every property has a mutant of the code, in the module, that breaks it (`mutants`).

**Bounds.** `MaxRuns` caps the runs that are ever opened. Two runs of one card are what a
stale supervisor, a late pid, a reclaim and the run that follows need; a third adds no new
pair. Cards meet only through the scheduler, where three are used: two that compete for a
lane of concurrency 1 on one board, and one on another board. Liveness of a supervisor is
checked with one run: that includes the loss of its claim, and what a supervisor owes does
not depend on another run (with a second one the temporal checks take too long). Runs in
pid-tracked mode use `AdapterStatuses = {"success"}`, the one status that leads to a write
in every lane; the stops, timeouts, unfit executors and exceptions bring the other results
in. `sup_claim_only` uses all of an ACP agent's statuses, because there the mapping itself
is in question. `AcpSession` needs no bound: a session has three requests. `deadlines` makes
every duration as small as it can be with the order among them that matters in the code's
defaults: the lane's grace is longer than the signal's, and with the notice of a round longer
than Hermes' window; a heartbeat comes several times before the timeout and before the TTL; one heartbeat
may fail, and the TTL is little more than `ClaimAssumption` asks for. The theorems hold for
all others. Two processes are what a daemon beside a second daemon or a `tick` needs; runs
do not meet in `Daemon`, and one is enough for two sweeps to meet at its file. In `card_path`
each kind of case varies one hand-over and keeps the others plain, since they meet only in
what they hand on; with caps of two and one names, trees of three paths overflow both lists.
In `sched_live` a card becomes ready again only while there is a run left for every ready
card (`RunForEach`), so that no card waits only because the runs are used up. Deadlock is not checked where a run or a board may be over
(`Supervisor`, `Scheduler`, `AcpSession`, `CardPath`); it is in `Deadlines` and `Daemon`,
where a deadlock would be a deadline nobody meets, or a process that waits for nothing.

What a run leaves out is as much part of its statement: `sup_inside` has neither "runsdir"
nor "log", since with them `NoOrphanOnExit` is false (below); `sup_claim_only` has
no "raise", since an exception is not written as a block; `CapPerBoard` and
`WorkerPidIsCurrent` are properties of a single scheduler; `KillFindsGroupGone` excepts a
stop that was decided before the signal came, if the lane's grace does not fit Hermes' window,
and a child that ended by itself, before or after the signal, and left others in its group,
if collecting its result does not fit it; `OrphanHasFile` excepts a file that a sweep read
half written, `SweepSparesSupervised` a sweep whose `ps` has failed, and `EvidenceIsTheRuns`
what a full list has no room for, the run's commits, and the edits of others in a shared work
tree, because the code does not do better (below). `sched_live` has
none of "die", "release" and reassignment; and since the runs are bounded, it does not have the
cards of a lane that come back for ever, which may starve one that Hermes lists after them.

**Fairness.** A supervisor's own steps are weakly fair: it is a loop with finite sleeps,
finite polls and bounded kills. The daemon's sweep is, since the daemon keeps ticking. The
lane's timeout and the heartbeat are the two clocks of the loop, and each liveness property
assumes only the one it is about (`TimeoutStrikes => ...`, `ClaimKept => ...`). Neither the
worker nor Hermes nor an operator owes anything. In `Scheduler`'s `FairSpec` the daemon
loops and supervisors finish; the other host's scheduler may claim (`ClaimElsewhere`) but need
not, and a card on a board in `Unreliable`, which may fail on every tick, is owed nothing. In `Daemon`'s a process goes on with its tick and looks at its
flag; nobody has to start or to end. `DeadRunIsBooked` assumes that Hermes looks for the dead
supervisors whose pid is recorded (`DeadAreLookedFor`) and nothing else of it. In `AcpSession` both threads go on, but the agent need not
answer, the spawn need not return, and there need never be a reason to stop.

### Where documentation and code differ

`viol_signal` checks what a sentence of the repository says, and TLC shows a behaviour of the
code that contradicts it; `findings` in `PROJECT.json` quotes the lines. Signalled, the
supervisor is to make no lifecycle write; but a SIGTERM after the last look at `_terminate`
(while a timed-out worker is being cancelled, say) is followed by one.

The following are read off the code and the models' actions, and have no run of their own.
They are the reasons for the exceptions and assumptions in the properties.

* *Orphans.* A supervisor killed between `launch` and the end of `_write_runfile` leaves an
  orphan that no sweep finds. So does one whose half-written file a sweep has read: the sweep
  unlinks it, and what is written afterwards goes to an unlinked file ("One JSON file per live
  supervisor", `paths.py:17`; `Daemon`'s `misread`). An exception between the launch and the
  `try` (`runs_dir()` fails) skips the clean-up altogether.
* *Signals.* A SIGTERM that comes while the lane's grace is running does not shorten it: with
  ten seconds of grace the worker's group outlives its supervisor, which Hermes kills after
  five, until the next sweep (`Deadlines`' `stop = "plain"`). And what a child leaves behind
when it ends by itself is stopped only after `collect_result`, which may wait five seconds for
the reader of the output they hold (`command.py:69`); if a SIGTERM came before or comes then,
that is as long as Hermes waits ("the child group must be gone before that",
`supervisor.py:99`; `stop = "ended"`).
* *Sweeps.* A `ps` that exits with an error makes a supervisor count as dead that lives, and
  the sweep kills its worker (`scheduler.py:212`; "whose supervisor died", `:181`; `Daemon`'s
  `blind`).
* *Slow agents.* `cancel` and the `finally` block kill an ACP agent by a pid that is not known
  yet if starting it outlasts `_write_runfile`'s five seconds; the agent that is forked
  afterwards survives ("blocks until gone", `adapters/base.py:48`).
* *Trailers.* A failed `connect` or log ends a supervisor without the trailer; in claim-only
  mode an exception is not written as a block (`src/README.md:349`).
* *Claims.* After a lost claim two workers of one card run until the older one's next
  heartbeat. Nothing checks that the heartbeat interval is shorter than the TTL.
* *Limits.* A lane's `concurrency` bounds its cards per board and per scheduler, not in all,
  and a one-off `tick` is a second scheduler; with two schedulers a late `record_worker_pid`
  lands on the other's run; a card reassigned between listing and claim is claimed for the
  lane it was listed for.
* *Results.* A ```` ```json ```` block in an agent's prose is taken for its result too
  (`result.py:61`). A workspace-relative command that is not there counts as available, and
  its launch raises: exit 1, where `src/README.md:340` has 78 for a missing executable.
* *Evidence.* If the first git listing fails, every change in the work tree counts as the
  run's. What the run commits is not reported, and a file that was dirty before and is changed
  again counts as changed before. The lists end after 500 and 200 names, unmarked
  (`gitstate.py:40`, `:42`). What others change in a shared `dir:` workspace (`src/README.md:202`)
  counts as the run's, and so does the source of a rename that was staged before the run and
  unstaged during it.
* *Configuration.* `.nan` passes for an interval, and `.inf` or `.nan` for an integer, or a
  list where a name is due, raise something else than `ConfigError`. An `agent` of `0`, `false`
  or `{}` passes in a command lane (`config.py:167` asks for its truth), and the empty one becomes
  none on its way to the supervisor. A `kill_grace_seconds` below three is accepted, and then
  the supervisor's own grace after a signal is the longer one.

## 4. What is proved

For every set of cards, runs, processes, schedulers, lanes and boards, every duration, both
modes, every set of faults and statuses:

* `SupervisorProofs`: `SupervisorInv` is inductive. It says, besides types and a consistent
  board, for each run what its supervisor's position implies: no worker before the launch
  and none when the result is applied (`WorkerInv`); no verdict before `lifecycle.apply`,
  and the exit code tells it afterwards (`VerdictInv`); a signal that came in time is known
  before the result is (`SignalInv`); no supervisor before its claim (`HandoffInv`). The
  properties alone are not inductive: that the worker is gone at the verdict needs to know
  that it is gone from `Unlink` on, and that a stale write does nothing needs the board's
  consistency. From it follow `TypeCorrect`, `BoardConsistent`, `VerdictAfterWorker`,
  `ExitCodeHonest` and `SignalHonoured`. A step of one run leaves the others alone, except
  through the board; the lemmas `OneRunStep`, `PrivateStep` and `CardLost` say so once.
* `BoardProofs`: each operation of the board keeps it consistent.
* `ContractProofs`: `Refinement`, every step of `Supervisor` is a step of `RunContract` or
  a stutter; `RunfileLast`, an action property, from a second invariant; `NoOrphanLeft`,
  assuming away "runsdir" and "log", the failures that skip the clean-up.
* `AcpProofs`: `AcpInv` is inductive. An answer is kept because a session that is over has
  taken what it was given (`AnswerInv`), an agent killed by its pid was the only one
  (`PidInv`): `AnswerKept`, `AgentGone`. The latter speaks of agents that were started when
  the run file was written.
* `SchedulerProofs`: `SchedulerInv` says that claims are of distinct runs and that what a
  scheduler holds between claim and record is a run of the board and lane it is at
  (`HoldInv`); from it `TypeCorrect`. `ClaimsRemembered` needs it, and that no scheduler dies
  and no release fails. `CapHolds`: a scheduler's snapshot may be stale, but it never counts
  fewer cards of a lane than it has supervisors running there, but for the one it is about to
  count (`CountInv`); that needs claims and lists to keep to their lanes (`LaneInv`), so it
  assumes that nobody reassigns cards. `PidIsCurrent` assumes one scheduler: then nobody
  claims a card between its claim and the record of its pid (`PidInv`).
* `DeadlinesProofs`: `ClockInv` bounds each clock at each step by what the steps before can
  have taken, and by the failed heartbeats so far. `DurationAssumption` gives the types
  and nothing else: the lane's grace may be shorter than the signal's, and the longer of the two is
  in the bounds. `WindowAssumption` says that noticing, the signal's grace and the
  reaping fit Hermes' window (`KillFindsGroupGoneHolds`), `ClaimAssumption` that the TTL
  outlasts run-up, failed heartbeats and stop (`ClaimOutlivesRunHolds`).
* `DaemonProofs`: `DaemonInv` says that what a sweep has read stays true while it acts upon
  it (`VisitInv`): a supervisor seen dead stays dead although its pid lives on, unless the sweep is
  blind; and a file is about to be unlinked only if its group is gone, blind or not, or it was
  read torn; and that a whole file stays
  while its worker lives (`FileInv`), which is where the supervisor's order of kill and unlink
  comes in. `OneDaemonPerHome`, `SupervisedSpared` and `OrphansFound` follow.
* `CardPathProofs`: `EveryLaneStarts`, for every file the rules accept, of any number of lanes:
  each lane is accepted again by its supervisor, is the same lane, and can be executed. It
  goes key by key (`SentValues`): what `from_dict` drops is what has the default anyway.
  `PorcelainReads`, for every finite set of changes: the loop over git's entries collects the
  changed paths and skips the sources of renames. `PathInv` ties what is handed on to what it
  was made of: the lane to the file (`LaneInv`), the environment and the answer to the lane
  (`ChildInv`), result and transition to what the run left (`OutcomeInv`), the evidence to the
  work tree, where what differs from the first listing has been booked as the run's or as
  others' (`TreeInv`). The caps of the lists may be any numbers. With it
  every property of `card_path` holds for all files, environments, messages and work trees:
  `PathTypes`, `PathStarts`, `PathKeepsTheLane`, `PathConfines`, `PathEarnsOutcomes`,
  `PathShowsChanges`. `PathAssumption` gives the trees and the blocks their types (git lists
  finitely many changes) and keeps the run's names apart from the denied ones.

Two of these need more than the invariant that first comes to mind.

* `ClaimOnlyRunsClose` (in `SupervisorProofs`). In claim-only mode no pid is recorded, so
  Hermes signals no supervisor of a run that holds its card (`Unsignalled`); so no result is
  "cancelled" while the card is held, every other status plans a write, and a fenced write of
  a run that holds its card closes it (`ClosingInv`). A run that has lost its card for good is
  closed already. It assumes away "raise", "runsdir", "write" and "log", the faults that end a
  supervisor on an exit code alone.
* `CapHoldsPerBoard` (in `SchedulerProofs`). With one scheduler, a lane has no more cards
  running on the visited board than the tick has counted, but for the one in its hand
  (`BoardCountInv`), whoever started them and whether or not their supervisors live. It assumes one scheduler, no failing
  release, and either one lane or no reassignment. Each of these is needed: with a failing
  release, with a second scheduler, or with cards that are reassigned between two lanes, TLC
  finds a board above its cap.

Lists of unbounded length (git's entries, an agent's blocks) are reasoned about without the
induction theorems of the library, which the provers cannot instantiate: `Least` derives the
least member of a set of numbers from the well-foundedness of the finite sets, and a claim
about all lengths looks at the least length that refutes it. That the recursive functions
behind `FoldLeft` and `FlattenSeq` exist is shown in the same way (`FoldExists`, `FlatExists`).

Only model-checked: the liveness properties (`RunEnds`, `LostClaimStopsWorker`, `OrphanSwept`,
`DeadRunIsBooked`, `ReadyCardIsServed`, `CrashEndsSession`, `CancelEnds`, `StopIsHeeded`), since
fairness and ENABLED are out of the prover's reach. Every other property of a passing run is a
theorem.

## 5. Assumptions and what is left out

* `terminate_group` ends with the group gone: no process in uninterruptible sleep, no group
  the supervisor may not signal. Except in `Deadlines` it takes no time, and Hermes' SIGKILL
  is possible at any moment of it instead. `Deadlines` has no pause between two calls of the
  database beyond `Lag`, and no polite cancel of an ACP agent (it is part of the grace).
* In `Supervisor` one file's read and unlink in the sweep are one step (in `Daemon` they are
  three), and no pid is used twice. In both no process group id is used again while a run file
  names it: after a reboot the sweep may meet a foreign group of that id, and kill it.
* Git, the kernel and the work tree are as `GitState` and `Daemon` say: a listing has an entry
  per change and the source of a rename after it; an open file goes on after its unlinking.
* An answer that is in the pipe is read within the second granted for it.
* An operator's own SIGTERM to a supervisor in claim-only mode (where Hermes knows no pid)
  is not modelled.
* The kernel's `claim_task` compares the status, not the assignee, and clears `worker_pid`.
* Text is left out everywhere: summaries, reasons, logs, metadata, prompts; what a regular
  expression would find in it is an input. Value classes stand for YAML values.
* Not modelled: the `Redactor` and the heuristics' patterns (text), the command adapter's
  reader thread and the ACP client's `session_update` (they collect text), the writes of
  `resolve_workspace` (functions of the card, so a late one changes nothing), `heartbeat_worker`
  and comments (notes for people), `lanes` and `doctor` of the command line (printing),
  `adapters/base.py` (an interface; `RunContract` and `AcpSession` say what it promises).

## 6. Plan

Done: `Board`, `Lifecycle`, `Supervisor`, `RunContract`, `Scheduler`, `AcpSession`,
`Deadlines`, `Daemon`, the data operators with `CardPath`, and the proofs about them.

Left:

1. A composition of `Scheduler` and `Daemon`, the scheduler's start of a supervisor and the
   daemon's being one step.
2. The safety half of the liveness properties: that what is owed stays owed until it is done.
