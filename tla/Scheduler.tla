------------------------------ MODULE Scheduler ------------------------------
(***************************************************************************)
(* The scheduler (scheduler.py): one pass over the boards per tick, one    *)
(* over the lanes per board, claim, spawn and record per card.  There may  *)
(* be several of them, the daemon, a "tick" from the command line or a     *)
(* daemon on another host: they share nothing but the board.               *)
(*                                                                         *)
(* spc[s] is where scheduler s stands:                                     *)
(*   idle       between ticks                                              *)
(*   boards     in tick(), next a board                                    *)
(*   lanes      in _tick_board(), next a lane                              *)
(*   cards      in the loop over the cards listed as ready for the lane    *)
(*   spawning   a claim is won, its supervisor not yet started             *)
(*   recording  the supervisor runs, its pid is not yet recorded           *)
(*                                                                         *)
(* Supervisors are seen from outside here: a spawned run may finish its    *)
(* card, and Hermes may take any card away.                                *)
(***************************************************************************)
EXTENDS Board

CONSTANTS Schedulers,
          Boards, BoardOf,  \* the board of every card
          Assignees,        \* the assignees that have a lane
          Strangers,        \* assignees no lane lists
          Concurrency,      \* of every lane
          Reassigning,      \* whether an operator may reassign a card
          Unreliable,       \* the boards whose database may raise
          SchedulerFaults   \* the failures that may happen

SchedulerFaultKinds == {"board",    \* connecting, listing or claiming raises (Unreliable boards)
                        "spawn",    \* the supervisor cannot be started
                        "release",  \* ... and the block that should follow raises
                        "record",   \* record_worker_pid raises (Unreliable boards)
                        "die"}      \* the scheduler's process dies

ASSUME SchedulerAssumption ==
  /\ IsFiniteSet(Tasks) /\ Boards # {} /\ Assignees # {}
  /\ BoardOf \in [Tasks -> Boards]
  /\ Concurrency \in [Assignees -> Nat \ {0}]
  /\ Assignees \cap Strangers = {}
  /\ Reassigning \in BOOLEAN
  /\ Unreliable \subseteq Boards
  /\ SchedulerFaults \subseteq SchedulerFaultKinds

VARIABLES assignee,    \* of every card
          spc,         \* of every scheduler, see above
          boardsLeft,  \* boards this tick has still to visit
          board,       \* the board it is at
          lanesLeft,   \* lanes it has still to serve there
          lane,        \* the lane it is at, by its assignee
          running,     \* its running_counts snapshot, and what it has started since
          ready,       \* its list of ready cards, as far as not dealt with
          current,     \* the run it has claimed and not finished starting
          claims,      \* history: which scheduler claimed which run for which lane
          spawned      \* the runs whose supervisor was started

localVars == <<spc, boardsLeft, board, lanesLeft, lane, running, ready, current>>
vars == <<card, runs, lastRun, assignee, spc, boardsLeft, board, lanesLeft, lane, running,
          ready, current, claims, spawned>>

SomeBoard == CHOOSE b \in Boards : TRUE
SomeLane  == CHOOSE a \in Assignees : TRUE
NoCount   == [a \in Assignees |-> 0]

SchedulerTypeOK ==
  /\ assignee \in [Tasks -> Assignees \cup Strangers]
  /\ spc \in [Schedulers -> {"idle", "boards", "lanes", "cards", "spawning", "recording"}]
  /\ boardsLeft \in [Schedulers -> SUBSET Boards]
  /\ board \in [Schedulers -> Boards]
  /\ lanesLeft \in [Schedulers -> SUBSET Assignees]
  /\ lane \in [Schedulers -> Assignees]
  /\ running \in [Schedulers -> [Assignees -> Nat]]
  /\ ready \in [Schedulers -> SUBSET Tasks]
  /\ current \in [Schedulers -> Runs \cup {NoRun}]
  /\ claims \in SUBSET [run : Runs, by : Schedulers, lane : Assignees]
  /\ spawned \in SUBSET Runs

TypeOK == BoardTypeOK /\ SchedulerTypeOK

Init ==
  /\ BoardInit
  /\ assignee \in [Tasks -> Assignees]
  /\ spc = [s \in Schedulers |-> "idle"]
  /\ boardsLeft = [s \in Schedulers |-> {}]
  /\ board = [s \in Schedulers |-> SomeBoard]
  /\ lanesLeft = [s \in Schedulers |-> {}]
  /\ lane = [s \in Schedulers |-> SomeLane]
  /\ running = [s \in Schedulers |-> NoCount]
  /\ ready = [s \in Schedulers |-> {}]
  /\ current = [s \in Schedulers |-> NoRun]
  /\ claims = {}
  /\ spawned = {}

Go(s, from, to) == spc[s] = from /\ spc' = [spc EXCEPT ![s] = to]

\* list_tasks(conn, status=..., assignee=a) on board b
Listed(b, a, status) ==
  {t \in Tasks : BoardOf[t] = b /\ assignee[t] = a /\ card[t].status = status}
-----------------------------------------------------------------------------
(***************************************************************************)
(* Scheduler.tick                                                          *)
(***************************************************************************)
\* reap() and sweep_orphans() come first; neither touches the board.
StartTick(s) ==
  /\ Go(s, "idle", "boards")
  /\ boardsLeft' = [boardsLeft EXCEPT ![s] = Boards]
  /\ UNCHANGED <<boardVars, assignee, board, lanesLeft, lane, running, ready, current, claims, spawned>>

\* Mutant: every card of the lane counts as running.
OpenBoardCountsAll(s) ==
  /\ Go(s, "boards", "lanes")
  /\ \E b \in boardsLeft[s] :
       /\ boardsLeft' = [boardsLeft EXCEPT ![s] = @ \ {b}]
       /\ board' = [board EXCEPT ![s] = b]
       /\ running' = [running EXCEPT ![s] = [a \in Assignees |->
                        Cardinality({t \in Tasks : BoardOf[t] = b /\ assignee[t] = a})]]
  /\ lanesLeft' = [lanesLeft EXCEPT ![s] = Assignees]
  /\ UNCHANGED <<boardVars, assignee, lane, ready, current, claims, spawned>>

\* _tick_board begins: all lanes are counted once, before any is served.
OpenBoard(s) ==
  /\ Go(s, "boards", "lanes")
  /\ \E b \in boardsLeft[s] :
       /\ boardsLeft' = [boardsLeft EXCEPT ![s] = @ \ {b}]
       /\ board' = [board EXCEPT ![s] = b]
       /\ running' = [running EXCEPT ![s] =
                        [a \in Assignees |-> Cardinality(Listed(b, a, "running"))]]
  /\ lanesLeft' = [lanesLeft EXCEPT ![s] = Assignees]
  /\ UNCHANGED <<boardVars, assignee, lane, ready, current, claims, spawned>>

ListLane(s) ==
  /\ Go(s, "lanes", "cards")
  /\ \E a \in lanesLeft[s] :
       /\ lanesLeft' = [lanesLeft EXCEPT ![s] = @ \ {a}]
       /\ lane' = [lane EXCEPT ![s] = a]
       /\ ready' = [ready EXCEPT ![s] = Listed(board[s], a, "ready")]
  /\ UNCHANGED <<boardVars, assignee, boardsLeft, board, running, current, claims, spawned>>

\* Mutant: one too many.
AtCapOffByOne(s) == running[s][lane[s]] > Concurrency[lane[s]]

AtCap(s) == running[s][lane[s]] >= Concurrency[lane[s]]

\* Every card of the lane is claimed, lost or capped: on to the next lane.
LaneDone(s) ==
  /\ ready[s] = {} \/ AtCap(s)
  /\ Go(s, "cards", "lanes")
  /\ ready' = [ready EXCEPT ![s] = {}]
  /\ UNCHANGED <<boardVars, assignee, boardsLeft, board, lanesLeft, lane, running, current, claims, spawned>>

\* claim_task on a listed card: the CAS sees the card as it is now, which may
\* not be how it was listed.
ClaimWon(s) ==
  /\ ~AtCap(s)
  /\ Go(s, "cards", "spawning")
  /\ \E t \in ready[s] :
       /\ ClaimTask(t)
       /\ ready' = [ready EXCEPT ![s] = @ \ {t}]
  /\ current' = [current EXCEPT ![s] = lastRun + 1]
  /\ claims' = claims \cup {[run |-> lastRun + 1, by |-> s, lane |-> lane[s]]}
  /\ UNCHANGED <<assignee, boardsLeft, board, lanesLeft, lane, running, spawned>>

ClaimLost(s) ==
  /\ ~AtCap(s)
  /\ spc[s] = "cards"
  /\ \E t \in ready[s] :
       /\ ~Claimable(t)
       /\ ready' = [ready EXCEPT ![s] = @ \ {t}]
  /\ UNCHANGED <<boardVars, assignee, spc, boardsLeft, board, lanesLeft, lane, running, current, claims, spawned>>

\* _spawn
SpawnSupervisor(s) ==
  /\ Go(s, "spawning", "recording")
  /\ spawned' = spawned \cup {current[s]}
  /\ UNCHANGED <<boardVars, assignee, boardsLeft, board, lanesLeft, lane, running, ready, current, claims>>

\* Mutant: a failed spawn gives back a slot it never took.
SpawnFailsUncounts(s) ==
  /\ "spawn" \in SchedulerFaults
  /\ Go(s, "spawning", "cards")
  /\ FinishRun(current[s], "blocked", "unspawned")
  /\ running' = [running EXCEPT ![s][lane[s]] = @ - 1]
  /\ current' = [current EXCEPT ![s] = NoRun]
  /\ UNCHANGED <<assignee, boardsLeft, board, lanesLeft, lane, ready, claims, spawned>>

\* Mutant: a failed spawn is only logged.
SpawnFailsSilently(s) ==
  /\ "spawn" \in SchedulerFaults
  /\ Go(s, "spawning", "cards")
  /\ current' = [current EXCEPT ![s] = NoRun]
  /\ UNCHANGED <<boardVars, assignee, boardsLeft, board, lanesLeft, lane, running, ready,
                 claims, spawned>>

\* _spawn raised: _release_failed_spawn blocks the card, or fails in turn.
\* The card does not count as running.
SpawnFails(s) ==
  /\ "spawn" \in SchedulerFaults
  /\ Go(s, "spawning", "cards")
  /\ \/ FinishRun(current[s], "blocked", "unspawned")
     \/ "release" \in SchedulerFaults /\ UNCHANGED boardVars
  /\ current' = [current EXCEPT ![s] = NoRun]
  /\ UNCHANGED <<assignee, boardsLeft, board, lanesLeft, lane, running, ready, claims, spawned>>

\* Mutant: a started supervisor is not counted until the next tick.
RecordUncounted(s) ==
  /\ Go(s, "recording", "cards")
  /\ RecordWorkerPid(current[s])
  /\ current' = [current EXCEPT ![s] = NoRun]
  /\ UNCHANGED <<assignee, boardsLeft, board, lanesLeft, lane, running, ready, claims, spawned>>

\* record_worker_pid, then running[assignee] += 1
Record(s) ==
  /\ Go(s, "recording", "cards")
  /\ RecordWorkerPid(current[s])
  /\ running' = [running EXCEPT ![s][lane[s]] = @ + 1]
  /\ current' = [current EXCEPT ![s] = NoRun]
  /\ UNCHANGED <<assignee, boardsLeft, board, lanesLeft, lane, ready, claims, spawned>>

\* An exception leaves _tick_board; the tick goes on with the next board.
\* _spawn's are caught on the spot, so a claim being spawned is not lost here.
LeaveBoard(s) ==
  /\ \/ /\ board[s] \in Unreliable
        /\ \/ "board" \in SchedulerFaults /\ spc[s] \in {"lanes", "cards"}
           \/ "record" \in SchedulerFaults /\ spc[s] = "recording"
     \/ spc[s] = "lanes" /\ lanesLeft[s] = {}   \* or the board is simply done
  /\ spc' = [spc EXCEPT ![s] = "boards"]
  /\ lanesLeft' = [lanesLeft EXCEPT ![s] = {}]
  /\ running' = [running EXCEPT ![s] = NoCount]
  /\ ready' = [ready EXCEPT ![s] = {}]
  /\ current' = [current EXCEPT ![s] = NoRun]
  /\ UNCHANGED <<boardVars, assignee, boardsLeft, board, lane, claims, spawned>>

\* A board that cannot even be connected to is skipped.
SkipBoard(s) ==
  /\ "board" \in SchedulerFaults
  /\ spc[s] = "boards"
  /\ \E b \in boardsLeft[s] \cap Unreliable : boardsLeft' = [boardsLeft EXCEPT ![s] = @ \ {b}]
  /\ UNCHANGED <<boardVars, assignee, spc, board, lanesLeft, lane, running, ready, current, claims, spawned>>

EndTick(s) ==
  /\ boardsLeft[s] = {}
  /\ Go(s, "boards", "idle")
  /\ UNCHANGED <<boardVars, assignee, boardsLeft, board, lanesLeft, lane, running, ready, current, claims, spawned>>

\* The process dies, wherever it is; the next one starts from the board alone.
Die(s) ==
  /\ "die" \in SchedulerFaults
  /\ spc[s] # "idle"
  /\ spc' = [spc EXCEPT ![s] = "idle"]
  /\ boardsLeft' = [boardsLeft EXCEPT ![s] = {}]
  /\ lanesLeft' = [lanesLeft EXCEPT ![s] = {}]
  /\ running' = [running EXCEPT ![s] = NoCount]
  /\ ready' = [ready EXCEPT ![s] = {}]
  /\ current' = [current EXCEPT ![s] = NoRun]
  /\ UNCHANGED <<boardVars, assignee, board, lane, claims, spawned>>

Tick(s) ==
  \/ StartTick(s) \/ OpenBoard(s) \/ ListLane(s) \/ LaneDone(s) \/ ClaimWon(s) \/ ClaimLost(s)
  \/ SpawnSupervisor(s) \/ SpawnFails(s) \/ Record(s) \/ LeaveBoard(s) \/ SkipBoard(s)
  \/ EndTick(s)

-----------------------------------------------------------------------------
(***************************************************************************)
(* The board's other users                                                 *)
(***************************************************************************)
Others == UNCHANGED <<assignee, localVars, claims, spawned>>

\* A supervisor's lifecycle write (module Supervisor).
Finish(r) ==
  /\ r \in spawned /\ Owner(r)
  /\ \E column \in Finished : MoveCard(r, column, column)
  /\ Others

\* Hermes reclaims a card, lets a claim expire or books a crash.
Release(r) ==
  /\ Owner(r)
  /\ MoveCard(r, "ready", "reclaimed")
  /\ Others

RequeueCard(t) == Requeue(t) /\ Others

\* An operator reassigns a card no run holds.
Reassign(t) ==
  /\ Reassigning
  /\ card[t].status # "running"
  /\ \E a \in Assignees \cup Strangers : assignee' = [assignee EXCEPT ![t] = a]
  /\ UNCHANGED <<boardVars, localVars, claims, spawned>>

Next ==
  \/ \E s \in Schedulers : Tick(s) \/ Die(s)
  \/ \E r \in Runs : Finish(r) \/ Release(r)
  \/ \E t \in Tasks : RequeueCard(t) \/ Reassign(t)

Spec == Init /\ [][Next]_vars

-----------------------------------------------------------------------------
(***************************************************************************)
(* Safety                                                                  *)
(***************************************************************************)
\* The cards of lane a on board b that run under a supervisor s has started.
Supervised(s, b, a) ==
  {t \in Tasks : /\ BoardOf[t] = b /\ card[t].status = "running" /\ card[t].run \in spawned
                 /\ [run |-> card[t].run, by |-> s, lane |-> a] \in claims}

\* The lane's concurrency bounds what one scheduler keeps running on a board,
\* however stale its snapshot is and whatever the other schedulers, Hermes
\* and its own failures and restarts do.
CapPerScheduler ==
  \A s \in Schedulers, b \in Boards, a \in Assignees :
    Cardinality(Supervised(s, b, a)) <= Concurrency[a]

\* Unless the scheduler dies or cannot even block the card, a claim is never
\* forgotten: a running card has its supervisor, or the scheduler that
\* claimed it is about to start one.
NoForgottenClaim ==
  \A r \in Runs : Owner(r) /\ r \notin spawned =>
    \E s \in Schedulers : spc[s] = "spawning" /\ current[s] = r

\* The recorded worker pid, by which Hermes signals a run and books its crash,
\* belongs to the run that holds the card.
WorkerPidIsCurrent ==
  \A t \in Tasks : card[t].status = "running" => card[t].pid \in {NoRun, card[t].run}

\* With one scheduler, at most Concurrency cards of a lane run on a board, also
\* counting the claims whose supervisor is still to come.
CapPerBoard ==
  \A b \in Boards, a \in Assignees : Cardinality(Listed(b, a, "running")) <= Concurrency[a]

(***************************************************************************)
(* The inductive invariants behind these (proved in SchedulerProofs)       *)
(***************************************************************************)
\* Every claim is of its own run, and a supervisor is one of a run.
ClaimsInv ==
  /\ \A c \in claims : c.run <= lastRun
  /\ \A c, d \in claims : c.run = d.run => c = d
  /\ \A r \in spawned : r <= lastRun

\* What a scheduler holds between a claim and the pid of its supervisor: a run of
\* this board and lane, which there was room for.
HoldInv(s) ==
  /\ spc[s] = "cards" => \A t \in ready[s] : BoardOf[t] = board[s]
  /\ spc[s] \in {"spawning", "recording"} =>
       /\ current[s] \in Runs /\ current[s] <= lastRun
       /\ [run |-> current[s], by |-> s, lane |-> lane[s]] \in claims
       /\ BoardOf[runs[current[s]].task] = board[s]
       /\ running[s][lane[s]] < Concurrency[lane[s]]
       /\ \A t \in ready[s] : BoardOf[t] = board[s]
       /\ current[s] \in spawned <=> spc[s] = "recording"

SchedulerInv == TypeOK /\ BoardInv /\ ClaimsInv /\ \A s \in Schedulers : HoldInv(s)

\* Unless cards are reassigned, a run is of the lane it was claimed for, and so is
\* every card a scheduler has listed.
LaneInv ==
  /\ \A c \in claims : assignee[runs[c.run].task] = c.lane
  /\ \A s \in Schedulers : \A t \in ready[s] : assignee[t] = lane[s]

\* A scheduler never counts fewer than it has running, but for the one it is
\* about to count.
Uncounted(s, a) == IF spc[s] = "recording" /\ lane[s] = a THEN 1 ELSE 0
CountInv(s) ==
  spc[s] \in {"lanes", "cards", "spawning", "recording"} =>
    \A a \in Assignees :
      Cardinality(Supervised(s, board[s], a)) <= running[s][a] + Uncounted(s, a)

CapInv == LaneInv /\ CapPerScheduler /\ \A s \in Schedulers : CountInv(s)

\* Of the cards that run on its board in a lane, a lone scheduler has counted all
\* but the one it is just starting; and as long as no card changes from one lane to
\* another, no card it has listed or claimed for a lane is of another one.
Starting(s) == spc[s] \in {"spawning", "recording"}
OfOtherLane(s, t) == assignee[t] \in Assignees \ {lane[s]}
Counted(s, a) == {t \in Listed(board[s], a, "running") : card[t].run # current[s]}
BoardCountInv(s) ==
  /\ ~Starting(s) => current[s] = NoRun
  /\ \A t \in ready[s] : ~OfOtherLane(s, t)
  /\ Starting(s) => ~OfOtherLane(s, runs[current[s]].task)
  /\ spc[s] \in {"lanes", "cards", "spawning", "recording"} =>
       \A a \in Assignees : Cardinality(Counted(s, a)) <= running[s][a]

BoardCapInv == CapPerBoard /\ \A s \in Schedulers : BoardCountInv(s)

\* While a lone scheduler starts a supervisor, nobody else claims its card.
PidInv ==
  /\ WorkerPidIsCurrent
  /\ \A s \in Schedulers : spc[s] \in {"spawning", "recording"} =>
       LET t == runs[current[s]].task IN
       card[t].status = "running" => card[t].run = current[s]

(***************************************************************************)
(* Liveness                                                                *)
(***************************************************************************)
\* A card comes back to "ready" only while there is a run left for every ready
\* card, so that no card waits because of MaxRuns.
ReadyCards == {t \in Tasks : card[t].status = "ready"}
RunForEach == lastRun + Cardinality(ReadyCards) <= MaxRuns

\* A scheduler of another host wins a card and starts its supervisor; all that
\* the Schedulers here see of it is a race they lose and a lane that is fuller.
ClaimElsewhere(t) ==
  /\ ClaimTask(t)
  /\ spawned' = spawned \cup {lastRun + 1}
  /\ UNCHANGED <<assignee, localVars, claims>>

\* The schedulers loop for ever, supervisors finish what they run.
FairSpec ==
  /\ Init /\ [][(Next \/ \E t \in Tasks : ClaimElsewhere(t)) /\ RunForEach']_vars
  /\ \A s \in Schedulers : WF_vars(Tick(s))
  /\ \A r \in Runs : WF_vars(Finish(r))

\* Every ready card on a board that can be read is claimed in the end: neither a
\* full lane nor races lost to another scheduler nor a board that fails for ever
\* nor a supervisor that cannot be started keeps it waiting (scheduler.py:48-102).
\* Cards come back finitely often; a lane whose other cards do so for ever may
\* starve one, since the code takes them in the order in which Hermes lists them.
ReadyCardIsServed ==
  \A t \in Tasks : BoardOf[t] \notin Unreliable =>
    (card[t].status = "ready" ~> card[t].status # "ready")
==============================================================================
