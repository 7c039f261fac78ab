------------------------------ MODULE Deadlines ------------------------------
(***************************************************************************)
(* One supervised run against the clock: the rounds of                     *)
(* Supervisor._supervise, the claim's TTL and its heartbeat, the lane's    *)
(* timeout, procutil.terminate_group with its grace period, and Hermes,    *)
(* which kills a supervisor that lingers after its SIGTERM.  Module        *)
(* Supervisor has the same steps without their durations.                  *)
(*                                                                         *)
(* A variable that measures time counts ticks, and Tick is the only step   *)
(* that takes any.  It waits whenever the code would have to act first.    *)
(*                                                                         *)
(* pc: starting (claim to still_owner), preparing (to the last look at     *)
(*     _terminate), launching, sleeping (between two rounds), beating      *)
(*     (_keep_claim), stopping (terminate_group up to its SIGKILL),        *)
(*     reaping (after it), collecting, cleaning (the finally block),       *)
(*     exited; killed                                                      *)
(***************************************************************************)
EXTENDS Integers

CONSTANTS Starting,     \* claim, spawn, python and still_owner take this long at most
          Preparing,    \* the workspace and the first git status
          Lag,          \* a launch, a database call or a late wake-up
          Poll,         \* poll_interval
          Timeout,      \* lane.timeout_seconds
          LaneGrace,    \* lane.kill_grace_seconds
          SignalGrace,  \* SIGNAL_GRACE_SECONDS
          Reaping,      \* from SIGKILL to an empty group
          Collecting,   \* joining the reader thread, the second git status
          Interval,     \* heartbeat_interval
          TTL,          \* claim_ttl
          Misses,       \* heartbeats in a row that may raise: the bound on database failures
          HermesGrace   \* from Hermes' SIGTERM to its SIGKILL

Durations == {Starting, Preparing, Lag, Poll, Timeout, LaneGrace, SignalGrace, Reaping,
              Collecting, Interval, TTL, Misses, HermesGrace}

\* How late a round can be noticed, how far apart two heartbeats are, and how
\* long stopping a worker takes at most.  Either grace may be the longer one: a
\* lane may give less than SIGNAL_GRACE_SECONDS (config.py:202), and then a stop
\* after a signal takes longer than any other.
Notice == Poll + 2 * Lag
Gap    == Interval + Notice
Grace  == IF SignalGrace <= LaneGrace THEN LaneGrace ELSE SignalGrace
Stop   == Grace + Reaping
Missed(n) == n * Gap

ASSUME DurationAssumption == Durations \subseteq Nat

\* "The child group must be gone before that": the window the comment at
\* SIGNAL_GRACE_SECONDS has in mind.
ASSUME WindowAssumption == Notice + SignalGrace + Reaping < HermesGrace

\* What nothing in config.py checks: the TTL outlasts the slowest run-up, the
\* heartbeats that fail, and the work after the last one.
ASSUME ClaimAssumption ==
  Starting + Preparing + 2 * Lag + Missed(Misses + 1) + Stop + Collecting + SignalGrace + Reaping
    <= TTL

VARIABLES pc,        \* see above
          age,       \* since pc was entered
          worker,    \* its process group: "none", "working", "leftover", "gone"
          stop,      \* "no", "plain" (decided before a signal), "signal" (after);
                     \* "ended": the child exited by itself, whether or not there is a signal
          elapsed,   \* now - started
          beat,      \* since next_claim_hb was set
          claim,     \* since the claim was made or last extended
          misses,    \* heartbeats in a row that have raised
          held,      \* still_owner
          lost,      \* since the card was lost
          sig        \* since Hermes' SIGTERM; NoSignal before

vars == <<pc, age, worker, stop, elapsed, beat, claim, misses, held, lost, sig>>

NoSignal == -1
Running  == {"sleeping", "beating", "stopping", "reaping", "collecting", "cleaning"}
Steps    == {"starting", "preparing", "launching"} \cup Running

TypeOK ==
  /\ pc \in Steps \cup {"exited", "killed"}
  /\ worker \in {"none", "working", "leftover", "gone"}
  /\ stop \in {"no", "plain", "signal", "ended"}
  /\ age \in Nat /\ elapsed \in Nat /\ beat \in Nat /\ claim \in Nat /\ lost \in Nat
  /\ misses \in 0..Misses /\ held \in BOOLEAN /\ sig \in Nat \cup {NoSignal}

Init ==
  /\ pc = "starting" /\ age = 0 /\ worker = "none" /\ stop = "no"
  /\ elapsed = 0 /\ beat = 0 /\ claim = 0 /\ misses = 0
  /\ held = TRUE /\ lost = 0 /\ sig = NoSignal

GroupUp   == worker \in {"working", "leftover"}
Signalled == sig # NoSignal
Go(from, to) == pc = from /\ pc' = to /\ age' = 0

-----------------------------------------------------------------------------
(***************************************************************************)
(* Time                                                                    *)
(***************************************************************************)
\* Mutant: every stop gives the worker the lane's grace.
LimitOneGrace ==
  CASE pc = "starting"   -> Starting
    [] pc = "preparing"  -> Preparing
    [] pc = "launching"  -> Lag
    [] pc = "sleeping"   -> Poll + Lag
    [] pc = "beating"    -> Lag
    [] pc = "stopping"   -> LaneGrace
    [] pc = "reaping"    -> Reaping
    [] pc = "collecting" -> Collecting
    [] OTHER             -> SignalGrace + Reaping

\* The longest stay at every step.  A sleeping supervisor wakes up after Poll,
\* and has Lag more until its round has looked at everything.
Limit ==
  CASE pc = "starting"   -> Starting
    [] pc = "preparing"  -> Preparing
    [] pc = "launching"  -> Lag
    [] pc = "sleeping"   -> Poll + Lag
    [] pc = "beating"    -> Lag
    [] pc = "stopping"   -> IF stop = "signal" THEN SignalGrace ELSE LaneGrace
    [] pc = "reaping"    -> Reaping
    [] pc = "collecting" -> Collecting
    [] OTHER             -> SignalGrace + Reaping

\* Mutant: started - now
TickBackwards ==
  /\ pc \in Steps
  /\ age < Limit
  /\ Signalled => sig < HermesGrace
  /\ age' = age + 1
  /\ elapsed' = IF pc \in Running THEN elapsed - 1 ELSE elapsed
  /\ beat' = IF pc \in Running THEN beat + 1 ELSE beat
  /\ claim' = claim + 1
  /\ lost' = IF held THEN lost ELSE lost + 1
  /\ sig' = IF Signalled THEN sig + 1 ELSE sig
  /\ UNCHANGED <<pc, worker, stop, misses, held>>

Tick ==
  /\ pc \in Steps
  /\ age < Limit
  /\ Signalled => sig < HermesGrace
  /\ age' = age + 1
  /\ elapsed' = IF pc \in Running THEN elapsed + 1 ELSE elapsed
  /\ beat' = IF pc \in Running THEN beat + 1 ELSE beat
  /\ claim' = claim + 1
  /\ lost' = IF held THEN lost ELSE lost + 1
  /\ sig' = IF Signalled THEN sig + 1 ELSE sig
  /\ UNCHANGED <<pc, worker, stop, misses, held>>

-----------------------------------------------------------------------------
(***************************************************************************)
(* The supervisor                                                          *)
(***************************************************************************)
Clocks == <<elapsed, beat, claim, misses, held, lost, sig>>

\* still_owner at startup
CheckOwner ==
  /\ IF held THEN Go("starting", "preparing") ELSE Go("starting", "exited")
  /\ UNCHANGED <<worker, stop, Clocks>>

\* The last look at _terminate before adapter.launch
Prepared ==
  /\ IF Signalled THEN Go("preparing", "exited") ELSE Go("preparing", "launching")
  /\ UNCHANGED <<worker, stop, Clocks>>

\* The worker runs, its run file is written, and the first round comes at once.
Launch ==
  /\ pc = "launching" /\ pc' = "sleeping" /\ age' = Poll
  /\ worker' = "working"
  /\ UNCHANGED <<stop, Clocks>>

\* adapter.cancel, with the grace that fits the moment
StopWorker(from) ==
  /\ Go(from, "stopping")
  /\ stop' = IF Signalled THEN "signal" ELSE "plain"
  /\ UNCHANGED <<worker, Clocks>>

Awake == pc = "sleeping" /\ age >= Poll

\* One round of the loop: poll, then the reasons to stop (a signal, the timeout,
\* a workspace that is not there any more), then the heartbeat of the claim.
\* heartbeat_worker, which only reports, is in Lag.
RoundIf(present, late) ==
  \/ /\ Awake /\ worker # "working"
     /\ Go("sleeping", "collecting") /\ stop' = "ended"
     /\ UNCHANGED <<worker, Clocks>>
  \/ /\ Awake /\ worker = "working"
     /\ Signalled \/ late \/ ~present
     /\ StopWorker("sleeping")
  \/ /\ Awake /\ worker = "working" /\ ~Signalled /\ ~late /\ present
     /\ IF beat >= Interval THEN Go("sleeping", "beating") /\ beat' = 0
                            ELSE Go("sleeping", "sleeping") /\ UNCHANGED beat
     /\ UNCHANGED <<worker, stop, elapsed, claim, misses, held, lost, sig>>

\* Mutant: a round does not look at the timeout.
RoundNoTimeout == \E present \in BOOLEAN : RoundIf(present, FALSE)

Round == \E present \in BOOLEAN : RoundIf(present, elapsed > Timeout)

\* Mutant: what heartbeat_claim and still_owner answer is ignored.
KeepClaimAnyway ==
  \/ /\ Go("beating", "sleeping")
     /\ claim' = 0 /\ misses' = 0
     /\ UNCHANGED <<worker, stop, elapsed, beat, held, lost, sig>>
  \/ /\ misses < Misses
     /\ Go("beating", "sleeping")
     /\ misses' = misses + 1
     /\ UNCHANGED <<worker, stop, elapsed, beat, claim, held, lost, sig>>

\* Mutant: the round only asks still_owner, and extends nothing.
KeepClaimUnextended ==
  \/ /\ held
     /\ Go("beating", "sleeping")
     /\ misses' = 0
     /\ UNCHANGED <<worker, stop, elapsed, beat, claim, held, lost, sig>>
  \/ ~held /\ StopWorker("beating")

\* _keep_claim: the claim is extended, or gone, or the database raises and the
\* claim counts as kept.
KeepClaim ==
  \/ /\ held
     /\ Go("beating", "sleeping")
     /\ claim' = 0 /\ misses' = 0
     /\ UNCHANGED <<worker, stop, elapsed, beat, held, lost, sig>>
  \/ ~held /\ StopWorker("beating")
  \/ /\ misses < Misses
     /\ Go("beating", "sleeping")
     /\ misses' = misses + 1
     /\ UNCHANGED <<worker, stop, elapsed, beat, claim, held, lost, sig>>

\* terminate_group: SIGTERM, and SIGKILL when the grace is over; it returns
\* with the group gone, before or after that.
GraceOver ==
  /\ age = Limit
  /\ Go("stopping", "reaping")
  /\ UNCHANGED <<worker, stop, Clocks>>

GroupGone ==
  /\ worker' = "gone"
  /\ \/ worker = "gone" /\ Go("stopping", "collecting")
     \/ Go("reaping", "collecting")
  /\ UNCHANGED <<stop, Clocks>>

\* collect_result and the git status, then the finally block
Collected ==
  /\ IF GroupUp THEN Go("collecting", "cleaning") ELSE Go("collecting", "exited")
  /\ UNCHANGED <<worker, stop, Clocks>>

Cleaned ==
  /\ Go("cleaning", "exited")
  /\ worker' = "gone"
  /\ UNCHANGED <<stop, Clocks>>

Supervise ==
  \/ CheckOwner \/ Prepared \/ Launch \/ Round \/ KeepClaim
  \/ GraceOver \/ GroupGone \/ Collected \/ Cleaned

-----------------------------------------------------------------------------
(***************************************************************************)
(* The worker and Hermes                                                   *)
(***************************************************************************)
WorkerExits ==
  /\ GroupUp
  /\ \/ worker' = "gone"
     \/ worker = "working" /\ worker' = "leftover"
  /\ UNCHANGED <<pc, age, stop, Clocks>>

\* A stale claim is released; so is any card an operator takes away.
Release ==
  /\ pc \in Steps /\ held
  /\ held' = FALSE
  /\ UNCHANGED <<pc, age, worker, stop, elapsed, beat, claim, misses, lost, sig>>

Sigterm ==
  /\ pc \in Steps /\ ~Signalled
  /\ sig' = 0
  /\ UNCHANGED <<pc, age, worker, stop, elapsed, beat, claim, misses, held, lost>>

Sigkill ==
  /\ pc \in Steps /\ sig = HermesGrace
  /\ pc' = "killed"
  /\ UNCHANGED <<age, worker, stop, Clocks>>

\* Nothing is left to happen to an ended run.
Over == pc \in {"exited", "killed"} /\ UNCHANGED vars

Next == Tick \/ Supervise \/ WorkerExits \/ Release \/ Sigterm \/ Sigkill \/ Over

Spec == Init /\ [][Next]_vars

-----------------------------------------------------------------------------
(***************************************************************************)
(* Properties                                                              *)
(***************************************************************************)
\* When Hermes kills the supervisor it signalled, no process of the worker's
\* group is left (supervisor.py:99), but for two ways, and each of them only if
\* its durations do not fit Hermes' window:
\*   - the stop was decided before the signal, with the lane's grace (:166);
\*   - the direct child had ended by itself, before or after the signal, and left
\*     others in its group: they are stopped after the result is collected
\*     (:170, :135), which may wait for the reader of their output.
KillFindsGroupGone ==
  pc = "killed" /\ GroupUp =>
    \/ stop = "plain" /\ HermesGrace <= LaneGrace + Reaping
    \/ /\ stop = "ended" /\ worker = "leftover"
       /\ HermesGrace <= Notice + Collecting + SignalGrace + Reaping

\* A worker whose card was taken away works on for a bounded time: the
\* heartbeats that raise count as kept, so their number is in the bound, and
\* the TTL is not (supervisor.py:155-159, :204).
LostClaimStopsInTime ==
  ~held /\ worker = "working" /\ pc # "killed" =>
    lost <= Preparing + 2 * Lag + Missed(Misses + 1) + Stop

\* A run that still holds its card never lets the claim expire, from the claim
\* to the last write (supervisor.py:142, :156; scheduler.py:88).
ClaimOutlivesRun == pc \in Steps /\ held => claim <= TTL

\* No worker runs past the lane's timeout by more than it takes to notice and
\* to stop it (supervisor.py:150, :166).
WorkerWithinTimeout ==
  worker = "working" /\ pc # "killed" => elapsed <= Timeout + Notice + Stop
=============================================================================
