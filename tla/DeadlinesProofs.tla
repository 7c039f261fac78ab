--------------------------- MODULE DeadlinesProofs ---------------------------
(***************************************************************************)
(* The four bounds of Deadlines, for every choice of the durations that    *)
(* meets its assumptions.  Each bound is carried along the run: what a     *)
(* clock may show at a step is what it may show when the step is entered   *)
(* plus the time spent there, and age never exceeds the step's Limit.      *)
(***************************************************************************)
EXTENDS Deadlines, TLAPS

Alive == pc \in Steps

\* Where the run stands: no worker before the launch, and a reason for every stop.
PlaceInv ==
  /\ Alive => age <= Limit
  /\ pc \in {"starting", "preparing", "launching"} =>
       worker = "none" /\ stop = "no" /\ misses = 0 /\ elapsed = 0 /\ beat = 0
  /\ pc \in {"sleeping", "beating"} => worker # "none" /\ stop = "no"
  /\ pc \in {"stopping", "reaping"} => stop \in {"plain", "signal"}
  /\ pc \in {"collecting", "cleaning"} =>
       worker # "working" /\ stop # "no" /\ (stop = "ended" \/ worker = "gone")
  /\ pc = "killed" /\ worker # "none" => stop # "no"
  /\ pc = "killed" /\ stop = "ended" => worker # "working"
  /\ pc = "killed" => sig = HermesGrace
  /\ pc = "exited" => ~GroupUp

\* How old a signal is that the run has not yet acted on, or is acting on.
SignalInv ==
  /\ pc \in {"launching", "beating"} => sig <= age
  /\ pc = "sleeping" => sig <= age + Lag
  /\ pc = "stopping" /\ stop = "signal" => sig <= Notice + age
  /\ pc = "reaping" /\ stop = "signal" => sig <= Notice + SignalGrace + age
  /\ pc = "stopping" /\ stop = "plain" => sig <= age
  /\ pc = "reaping" /\ stop = "plain" => sig <= LaneGrace + age
  /\ pc = "collecting" /\ stop = "ended" => sig <= Notice + age
  /\ pc = "cleaning" /\ stop = "ended" => sig <= Notice + Collecting + age
  /\ pc = "killed" /\ stop = "signal" => ~GroupUp
  /\ pc = "killed" /\ stop = "plain" /\ GroupUp => HermesGrace <= LaneGrace + Reaping
  /\ pc = "killed" /\ stop = "ended" /\ GroupUp =>
       HermesGrace <= Notice + Collecting + SignalGrace + Reaping

\* How long the last heartbeat is ago, and the claim without one.
BeatInv ==
  /\ pc = "sleeping" => beat <= Interval + Lag + age
  /\ pc = "beating" => beat <= age

RunUp == Starting + Preparing + Lag

ClaimInv ==
  held =>
    /\ pc = "starting" => claim <= age
    /\ pc = "preparing" => claim <= Starting + age
    /\ pc = "launching" => claim <= Starting + Preparing + age
    /\ pc = "sleeping" => claim <= RunUp + Missed(misses) + beat
    /\ pc = "beating" => claim <= RunUp + Missed(misses) + Gap + beat
    /\ pc = "stopping" => claim <= RunUp + Missed(Misses + 1) + Lag + age
    /\ pc = "reaping" => claim <= RunUp + Missed(Misses + 1) + Lag + Grace + age
    /\ pc = "collecting" => claim <= RunUp + Missed(Misses + 1) + Lag + Stop + age
    /\ pc = "cleaning" => claim <= RunUp + Missed(Misses + 1) + Lag + Stop + Collecting + age

LostInv ==
  /\ held => lost = 0
  /\ pc = "preparing" => lost <= age
  /\ pc = "launching" => lost <= Preparing + age
  /\ pc = "sleeping" => lost <= Preparing + Lag + Missed(misses) + beat
  /\ pc = "beating" => lost <= Preparing + Lag + Missed(misses) + Gap + beat
  /\ pc = "stopping" => lost <= Preparing + 2 * Lag + Missed(Misses + 1) + age
  /\ pc = "reaping" => lost <= Preparing + 2 * Lag + Missed(Misses + 1) + Grace + age

ElapsedInv ==
  /\ pc = "sleeping" => elapsed <= Timeout + Lag + age
  /\ pc = "beating" => elapsed <= Timeout + age
  /\ pc = "stopping" => elapsed <= Timeout + Notice + age
  /\ pc = "reaping" => elapsed <= Timeout + Notice + Grace + age

ClockInv == PlaceInv /\ SignalInv /\ BeatInv /\ ClaimInv /\ LostInv /\ ElapsedInv

-----------------------------------------------------------------------------
(***************************************************************************)
(* The constants                                                           *)
(***************************************************************************)
\* All durations, and what is summed from them, are numbers.
LEMMA ConstantTypes ==
  /\ Starting \in Nat /\ Preparing \in Nat /\ Lag \in Nat /\ Poll \in Nat /\ Timeout \in Nat
  /\ LaneGrace \in Nat /\ SignalGrace \in Nat /\ Reaping \in Nat /\ Collecting \in Nat
  /\ Interval \in Nat /\ TTL \in Nat /\ Misses \in Nat /\ HermesGrace \in Nat
  /\ Grace \in Nat /\ SignalGrace <= Grace /\ LaneGrace <= Grace
  /\ Gap \in Nat /\ Gap = Interval + Poll + 2 * Lag
BY DurationAssumption DEF Durations, Gap, Notice, Grace

\* Missed grows by a Gap with every heartbeat missed, up to the bound.
LEMMA MissedGrows ==
  /\ Missed(0) = 0
  /\ Missed(Misses + 1) \in Nat
  /\ \A n \in 0..Misses : /\ Missed(n) \in Nat
                          /\ Missed(n + 1) = Missed(n) + Gap
                          /\ Missed(n) + Gap <= Missed(Misses + 1)
<1> USE ConstantTypes
<1>1. \A n \in Nat : n * Gap \in Nat
  OBVIOUS
<1>2. ASSUME NEW n \in 0..Misses
      PROVE  (n + 1) * Gap = n * Gap + Gap
  OBVIOUS
<1>3. ASSUME NEW n \in 0..Misses
      PROVE  (n + 1) * Gap <= (Misses + 1) * Gap
  <2>1. PICK d \in Nat : Misses + 1 = n + 1 + d
    <3>1. Misses - n \in Nat /\ Misses + 1 = n + 1 + (Misses - n)
      OBVIOUS
    <3> QED BY <3>1
  <2>2. (n + 1 + d) * Gap = (n + 1) * Gap + d * Gap
    OBVIOUS
  <2>3. (n + 1) * Gap \in Nat /\ d * Gap \in Nat
    BY <1>1
  <2> QED BY <2>1, <2>2, <2>3
<1>4. 0 * Gap = 0 /\ (Misses + 1) * Gap \in Nat
  BY <1>1
<1> QED BY <1>1, <1>2, <1>3, <1>4 DEF Missed

-----------------------------------------------------------------------------
(***************************************************************************)
(* The invariants                                                          *)
(***************************************************************************)
\* Every step keeps the types.
LEMMA TypeStep == TypeOK /\ [Next]_vars => TypeOK'
<1> SUFFICES ASSUME TypeOK, [Next]_vars PROVE TypeOK'
  OBVIOUS
<1> USE ConstantTypes DEF TypeOK, Running, Steps, NoSignal, Clocks, Signalled, GroupUp, Go
<1>1. CASE Tick
  BY <1>1 DEF Tick
<1>2. CASE Supervise
  <2>1. CASE CheckOwner \/ Prepared \/ Launch
    BY <2>1 DEF CheckOwner, Prepared, Launch
  <2>2. CASE Round
    BY <2>2 DEF Round, RoundIf, StopWorker, Awake
  <2>3. CASE KeepClaim
    BY <2>3 DEF KeepClaim, StopWorker
  <2>4. CASE GraceOver \/ GroupGone \/ Collected \/ Cleaned
    BY <2>4 DEF GraceOver, GroupGone, Collected, Cleaned
  <2> QED BY <1>2, <2>1, <2>2, <2>3, <2>4 DEF Supervise
<1>3. CASE WorkerExits \/ Release
  BY <1>3 DEF WorkerExits, Release
<1>4. CASE Sigterm \/ Sigkill
  BY <1>4 DEF Sigterm, Sigkill
<1>5. CASE Over \/ UNCHANGED vars
  BY <1>5 DEF Over, vars
<1> QED BY <1>1, <1>2, <1>3, <1>4, <1>5 DEF Next

\* A run is never killed before it has acted on a signal: the window is too long.
LEMMA PlaceStep ==
  TypeOK /\ PlaceInv /\ SignalInv /\ [Next]_vars => PlaceInv'
<1> SUFFICES ASSUME TypeOK, PlaceInv, SignalInv, [Next]_vars PROVE PlaceInv'
  OBVIOUS
<1> USE ConstantTypes DEF TypeOK, PlaceInv, Alive, Steps, Running, NoSignal, Clocks, Signalled, GroupUp, Go
<1>1. CASE Tick
  BY <1>1 DEF Tick, Limit
<1>2. CASE Supervise
  <2>1. CASE CheckOwner
    BY <2>1 DEF CheckOwner, Limit
  <2>2. CASE Prepared
    BY <2>2 DEF Prepared, Limit
  <2>3. CASE Launch
    BY <2>3 DEF Launch, Limit
  <2>4. CASE Round
    BY <2>4 DEF Round, RoundIf, StopWorker, Awake, Limit
  <2>5. CASE KeepClaim
    BY <2>5 DEF KeepClaim, StopWorker, Limit
  <2>6. CASE GraceOver
    BY <2>6 DEF GraceOver, Limit
  <2>7. CASE GroupGone
    BY <2>7 DEF GroupGone, Limit
  <2>8. CASE Collected
    BY <2>8 DEF Collected, Limit
  <2>9. CASE Cleaned
    BY <2>9 DEF Cleaned, Limit
  <2> QED BY <1>2, <2>1, <2>2, <2>3, <2>4, <2>5, <2>6, <2>7, <2>8, <2>9 DEF Supervise
<1>3. CASE WorkerExits \/ Release
  BY <1>3 DEF WorkerExits, Release, Limit
<1>4. CASE Sigterm
  BY <1>4 DEF Sigterm, Limit
<1>5. CASE Sigkill
  <2>1. pc \in {"sleeping", "beating"} => sig < HermesGrace
    BY WindowAssumption DEF PlaceInv, SignalInv, Limit, Notice
  <2>2. /\ pc \in Steps /\ pc \notin {"sleeping", "beating"}
        /\ pc' = "killed" /\ sig' = HermesGrace /\ UNCHANGED <<worker, stop>>
    BY <1>5, <2>1 DEF Sigkill
  <2>3. worker # "none" => stop # "no"
    BY <2>2
  <2>4. stop = "ended" => worker # "working"
    BY <2>2
  <2> QED BY <2>2, <2>3, <2>4
<1>6. CASE Over \/ UNCHANGED vars
  BY <1>6 DEF Over, vars, Limit
<1> QED BY <1>1, <1>2, <1>3, <1>4, <1>5, <1>6 DEF Next

\* A signal is noticed within Notice.
LEMMA SignalStep ==
  TypeOK /\ PlaceInv /\ SignalInv /\ [Next]_vars => SignalInv'
<1> SUFFICES ASSUME TypeOK, PlaceInv, SignalInv, [Next]_vars PROVE SignalInv'
  OBVIOUS
<1> USE ConstantTypes DEF TypeOK, SignalInv, Alive, Steps, Running, NoSignal, Clocks, Signalled, GroupUp, Go
<1>1. CASE Tick
  BY <1>1 DEF Tick, Limit, Notice
<1>2. CASE Supervise
  <2>1. CASE CheckOwner
    BY <2>1 DEF CheckOwner, PlaceInv
  <2>2. CASE Prepared
    BY <2>2 DEF Prepared, PlaceInv
  <2>3. CASE Launch
    BY <2>3 DEF Launch, PlaceInv, Limit
  <2>4. CASE Round
    BY <2>4 DEF Round, RoundIf, StopWorker, Awake, PlaceInv, Limit, Notice
  <2>5. CASE KeepClaim
    BY <2>5 DEF KeepClaim, StopWorker, PlaceInv, Limit, Notice
  <2>6. CASE GraceOver
    BY <2>6 DEF GraceOver, PlaceInv, Limit, Notice
  <2>7. CASE GroupGone
    BY <2>7 DEF GroupGone, PlaceInv, Notice
  <2>8. CASE Collected
    BY <2>8 DEF Collected, PlaceInv, Limit, Notice
  <2>9. CASE Cleaned
    BY <2>9 DEF Cleaned, PlaceInv
  <2> QED BY <1>2, <2>1, <2>2, <2>3, <2>4, <2>5, <2>6, <2>7, <2>8, <2>9 DEF Supervise
<1>3. CASE WorkerExits \/ Release
  BY <1>3 DEF WorkerExits, Release, PlaceInv
<1>4. CASE Sigterm
  BY <1>4 DEF Sigterm, PlaceInv, Limit, Notice
<1>5. CASE Sigkill
  BY <1>5, WindowAssumption DEF Sigkill, PlaceInv, Limit, Notice
<1>6. CASE Over \/ UNCHANGED vars
  BY <1>6 DEF Over, vars
<1> QED BY <1>1, <1>2, <1>3, <1>4, <1>5, <1>6 DEF Next

\* A round that comes Interval after the last heartbeat makes one.
LEMMA BeatStep ==
  TypeOK /\ PlaceInv /\ BeatInv /\ [Next]_vars => BeatInv'
<1> SUFFICES ASSUME TypeOK, PlaceInv, BeatInv, [Next]_vars PROVE BeatInv'
  OBVIOUS
<1> USE ConstantTypes DEF TypeOK, BeatInv, Alive, Steps, Running, NoSignal, Clocks, Signalled, GroupUp, Go
<1>1. CASE Tick
  BY <1>1 DEF Tick
<1>2. CASE Supervise
  <2>1. CASE CheckOwner
    BY <2>1 DEF CheckOwner
  <2>2. CASE Prepared
    BY <2>2 DEF Prepared
  <2>3. CASE Launch
    BY <2>3 DEF Launch, PlaceInv
  <2>4. CASE Round
    BY <2>4 DEF Round, RoundIf, StopWorker, Awake, PlaceInv, Limit
  <2>5. CASE KeepClaim
    BY <2>5 DEF KeepClaim, StopWorker, PlaceInv, Limit
  <2>6. CASE GraceOver
    BY <2>6 DEF GraceOver
  <2>7. CASE GroupGone
    BY <2>7 DEF GroupGone
  <2>8. CASE Collected
    BY <2>8 DEF Collected
  <2>9. CASE Cleaned
    BY <2>9 DEF Cleaned
  <2> QED BY <1>2, <2>1, <2>2, <2>3, <2>4, <2>5, <2>6, <2>7, <2>8, <2>9 DEF Supervise
<1>3. CASE WorkerExits \/ Release
  BY <1>3 DEF WorkerExits, Release
<1>4. CASE Sigterm
  BY <1>4 DEF Sigterm
<1>5. CASE Sigkill
  BY <1>5 DEF Sigkill
<1>6. CASE Over \/ UNCHANGED vars
  BY <1>6 DEF Over, vars
<1> QED BY <1>1, <1>2, <1>3, <1>4, <1>5, <1>6 DEF Next

\* A round that comes after the timeout stops the worker.
LEMMA ElapsedStep ==
  TypeOK /\ PlaceInv /\ ElapsedInv /\ [Next]_vars => ElapsedInv'
<1> SUFFICES ASSUME TypeOK, PlaceInv, ElapsedInv, [Next]_vars PROVE ElapsedInv'
  OBVIOUS
<1> USE ConstantTypes DEF TypeOK, ElapsedInv, Alive, Steps, Running, NoSignal, Clocks, Signalled, GroupUp, Go
<1>1. CASE Tick
  BY <1>1 DEF Tick, PlaceInv, Limit, Notice, Stop
<1>2. CASE Supervise
  <2>1. CASE CheckOwner
    BY <2>1 DEF CheckOwner, PlaceInv, Limit, Notice, Stop
  <2>2. CASE Prepared
    BY <2>2 DEF Prepared, PlaceInv, Limit, Notice, Stop
  <2>3. CASE Launch
    BY <2>3 DEF Launch, PlaceInv, Limit, Notice, Stop
  <2>4. CASE Round
    BY <2>4 DEF Round, RoundIf, StopWorker, Awake, PlaceInv, Limit, Notice, Stop
  <2>5. CASE KeepClaim
    BY <2>5 DEF KeepClaim, StopWorker, PlaceInv, Limit, Notice, Stop
  <2>6. CASE GraceOver
    BY <2>6 DEF GraceOver, PlaceInv, Limit, Notice, Stop
  <2>7. CASE GroupGone
    BY <2>7 DEF GroupGone, PlaceInv, Limit, Notice, Stop
  <2>8. CASE Collected
    BY <2>8 DEF Collected, PlaceInv, Limit, Notice, Stop
  <2>9. CASE Cleaned
    BY <2>9 DEF Cleaned, PlaceInv, Limit, Notice, Stop
  <2> QED BY <1>2, <2>1, <2>2, <2>3, <2>4, <2>5, <2>6, <2>7, <2>8, <2>9 DEF Supervise
<1>3. CASE WorkerExits \/ Release
  BY <1>3 DEF WorkerExits, Release, PlaceInv, Limit, Notice, Stop
<1>4. CASE Sigterm
  BY <1>4 DEF Sigterm, PlaceInv, Limit, Notice, Stop
<1>5. CASE Sigkill
  BY <1>5 DEF Sigkill, PlaceInv, Limit, Notice, Stop
<1>6. CASE Over \/ UNCHANGED vars
  BY <1>6 DEF Over, vars
<1> QED BY <1>1, <1>2, <1>3, <1>4, <1>5, <1>6 DEF Next

\* A held claim is extended, or one more heartbeat was missed.
LEMMA ClaimStep ==
  TypeOK /\ PlaceInv /\ BeatInv /\ ClaimInv /\ [Next]_vars => ClaimInv'
<1> SUFFICES ASSUME TypeOK, PlaceInv, BeatInv, ClaimInv, [Next]_vars PROVE ClaimInv'
  OBVIOUS
<1> USE ConstantTypes DEF TypeOK, ClaimInv, Alive, Steps, Running, NoSignal, Clocks, Signalled, GroupUp, Go
<1>1. CASE Tick
  BY <1>1, MissedGrows DEF Tick, PlaceInv, Limit, Notice, Stop, RunUp
<1>2. CASE Supervise
  <2>1. CASE CheckOwner
    BY <2>1, MissedGrows DEF CheckOwner, PlaceInv, Limit, Notice, Stop, RunUp
  <2>2. CASE Prepared
    BY <2>2, MissedGrows DEF Prepared, PlaceInv, Limit, Notice, Stop, RunUp
  <2>3. CASE Launch
    BY <2>3, MissedGrows DEF Launch, PlaceInv, Limit, Notice, Stop, RunUp
  <2>4. CASE Round
    <3>1. PICK present \in BOOLEAN : RoundIf(present, elapsed > Timeout)
      BY <2>4 DEF Round
    <3>2. /\ worker # "none" /\ age <= Poll + Lag /\ beat <= Gap
          /\ Missed(misses) + beat <= Missed(Misses + 1)
      BY <3>1, MissedGrows DEF RoundIf, Awake, PlaceInv, BeatInv, Limit
    <3>3. CASE worker # "working" /\ Go("sleeping", "collecting") /\ UNCHANGED <<worker, Clocks>>
      BY <3>2, <3>3, MissedGrows DEF RunUp, Stop
    <3>4. CASE Awake /\ StopWorker("sleeping")
      BY <3>2, <3>4, MissedGrows DEF Awake, StopWorker, RunUp
    <3>5. CASE /\ Awake
               /\ IF beat >= Interval THEN Go("sleeping", "beating") /\ beat' = 0
                                      ELSE Go("sleeping", "sleeping") /\ UNCHANGED beat
               /\ UNCHANGED <<worker, stop, elapsed, claim, misses, held, lost, sig>>
      BY <3>2, <3>5, MissedGrows DEF Awake, RunUp
    <3> QED BY <3>1, <3>3, <3>4, <3>5 DEF RoundIf
  <2>5. CASE KeepClaim
    <3>1. CASE ~held'
      BY <3>1
    <3>2. CASE held /\ Go("beating", "sleeping") /\ claim' = 0 /\ misses' = 0 /\ UNCHANGED <<beat, held>>
      BY <3>2, MissedGrows DEF RunUp
    <3>3. CASE /\ misses < Misses /\ Go("beating", "sleeping") /\ misses' = misses + 1
               /\ UNCHANGED <<beat, claim, held>>
      <4>1. Missed(misses') = Missed(misses) + Gap /\ Missed(misses) \in Nat
        BY <3>3, MissedGrows
      <4> QED BY <3>3, <4>1 DEF RunUp
    <3> QED BY <2>5, <3>1, <3>2, <3>3 DEF KeepClaim, StopWorker
  <2>6. CASE GraceOver
    BY <2>6, MissedGrows DEF GraceOver, PlaceInv, Limit, Notice, Stop, RunUp
  <2>7. CASE GroupGone
    BY <2>7, MissedGrows DEF GroupGone, PlaceInv, Limit, Notice, Stop, RunUp
  <2>8. CASE Collected
    BY <2>8, MissedGrows DEF Collected, PlaceInv, Limit, Notice, Stop, RunUp
  <2>9. CASE Cleaned
    BY <2>9, MissedGrows DEF Cleaned, PlaceInv, Limit, Notice, Stop, RunUp
  <2> QED BY <1>2, <2>1, <2>2, <2>3, <2>4, <2>5, <2>6, <2>7, <2>8, <2>9 DEF Supervise
<1>3. CASE WorkerExits \/ Release
  BY <1>3, MissedGrows DEF WorkerExits, Release, PlaceInv, Limit, Notice, Stop, RunUp
<1>4. CASE Sigterm
  BY <1>4, MissedGrows DEF Sigterm, PlaceInv, Limit, Notice, Stop, RunUp
<1>5. CASE Sigkill
  BY <1>5, MissedGrows DEF Sigkill, PlaceInv, Limit, Notice, Stop, RunUp
<1>6. CASE Over \/ UNCHANGED vars
  BY <1>6 DEF Over, vars
<1> QED BY <1>1, <1>2, <1>3, <1>4, <1>5, <1>6 DEF Next

\* A lost claim is found out, or one more heartbeat was missed.
LEMMA LostStep ==
  TypeOK /\ PlaceInv /\ BeatInv /\ LostInv /\ [Next]_vars => LostInv'
<1> SUFFICES ASSUME TypeOK, PlaceInv, BeatInv, LostInv, [Next]_vars PROVE LostInv'
  OBVIOUS
<1> USE ConstantTypes DEF TypeOK, LostInv, Alive, Steps, Running, NoSignal, Clocks, Signalled, GroupUp, Go
<1>1. CASE Tick
  BY <1>1, MissedGrows DEF Tick, PlaceInv, Limit, Notice, Stop
<1>2. CASE Supervise
  <2>1. CASE CheckOwner
    BY <2>1, MissedGrows DEF CheckOwner, PlaceInv, Limit, Notice, Stop
  <2>2. CASE Prepared
    BY <2>2, MissedGrows DEF Prepared, PlaceInv, Limit, Notice, Stop
  <2>3. CASE Launch
    BY <2>3, MissedGrows DEF Launch, PlaceInv, Limit, Notice, Stop
  <2>4. CASE Round
    BY <2>4, MissedGrows DEF Round, RoundIf, StopWorker, Awake, PlaceInv, BeatInv, Limit, Notice, Stop
  <2>5. CASE KeepClaim
    BY <2>5, MissedGrows DEF KeepClaim, StopWorker, PlaceInv, BeatInv, Limit, Notice, Stop
  <2>6. CASE GraceOver
    BY <2>6, MissedGrows DEF GraceOver, PlaceInv, Limit, Notice, Stop
  <2>7. CASE GroupGone
    BY <2>7, MissedGrows DEF GroupGone, PlaceInv, Limit, Notice, Stop
  <2>8. CASE Collected
    BY <2>8, MissedGrows DEF Collected, PlaceInv, Limit, Notice, Stop
  <2>9. CASE Cleaned
    BY <2>9, MissedGrows DEF Cleaned, PlaceInv, Limit, Notice, Stop
  <2> QED BY <1>2, <2>1, <2>2, <2>3, <2>4, <2>5, <2>6, <2>7, <2>8, <2>9 DEF Supervise
<1>3. CASE WorkerExits \/ Release
  BY <1>3, MissedGrows DEF WorkerExits, Release, PlaceInv, Limit, Notice, Stop
<1>4. CASE Sigterm
  BY <1>4, MissedGrows DEF Sigterm, PlaceInv, Limit, Notice, Stop
<1>5. CASE Sigkill
  BY <1>5, MissedGrows DEF Sigkill, PlaceInv, Limit, Notice, Stop
<1>6. CASE Over \/ UNCHANGED vars
  BY <1>6 DEF Over, vars
<1> QED BY <1>1, <1>2, <1>3, <1>4, <1>5, <1>6 DEF Next

\* Every variable keeps its type (the state of one supervised run).
THEOREM TypeCorrect == Spec => []TypeOK
<1>1. Init => TypeOK
  BY ConstantTypes DEF Init, TypeOK, NoSignal, Steps, Running
<1> QED BY <1>1, TypeStep, PTL DEF Spec

\* The six clock invariants together are inductive.
LEMMA ClockStep == TypeOK /\ ClockInv /\ [Next]_vars => ClockInv'
BY PlaceStep, SignalStep, BeatStep, ClaimStep, LostStep, ElapsedStep DEF ClockInv

\* The inductive invariant behind the four bounds.
THEOREM ClocksCorrect == Spec => []ClockInv
<1>1. Init => ClockInv
  <2> SUFFICES ASSUME Init PROVE ClockInv
    OBVIOUS
  <2> USE ConstantTypes DEF Init, Steps, Running, NoSignal
  <2>1. PlaceInv
    BY DEF PlaceInv, Alive, Limit
  <2>2. SignalInv /\ BeatInv /\ ElapsedInv
    BY DEF SignalInv, BeatInv, ElapsedInv
  <2>3. ClaimInv /\ LostInv
    BY DEF ClaimInv, LostInv
  <2> QED BY <2>1, <2>2, <2>3 DEF ClockInv
<1> QED BY <1>1, ClockStep, TypeCorrect, PTL DEF Spec

-----------------------------------------------------------------------------
(***************************************************************************)
(* The bounds                                                              *)
(***************************************************************************)
\* When Hermes kills the supervisor, a process of the worker is left only if a stop
\* with the lane's grace was under way before the signal and does not fit the window, or
\* if the direct child ended by itself, left others behind, and collecting from it,
\* which comes first, does not fit (SIGNAL_GRACE_SECONDS, supervisor.py:99).
THEOREM KillFindsGroupGoneHolds == Spec => []KillFindsGroupGone
<1>1. TypeOK /\ ClockInv => KillFindsGroupGone
  BY DEF TypeOK, ClockInv, PlaceInv, SignalInv, KillFindsGroupGone, GroupUp
<1> QED BY <1>1, TypeCorrect, ClocksCorrect, PTL

\* A worker whose card was taken away is stopped within a bounded time
\* (_keep_claim, supervisor.py:198).
THEOREM LostClaimStopsInTimeHolds == Spec => []LostClaimStopsInTime
<1>1. TypeOK /\ ClockInv => LostClaimStopsInTime
  <2> SUFFICES ASSUME TypeOK, ClockInv, ~held, worker = "working", pc # "killed"
               PROVE  lost <= Preparing + 2 * Lag + Missed(Misses + 1) + Stop
    BY DEF LostClaimStopsInTime
  <2> USE ConstantTypes DEF TypeOK, Steps, Running, Stop
  <2>1. CASE pc \in {"sleeping", "beating"}
    BY <2>1, MissedGrows DEF ClockInv, PlaceInv, Alive, BeatInv, LostInv, Limit, Notice
  <2>2. CASE pc \in {"stopping", "reaping"}
    BY <2>2, MissedGrows DEF ClockInv, PlaceInv, Alive, LostInv, Limit
  <2>3. pc \in {"sleeping", "beating", "stopping", "reaping"}
    BY DEF ClockInv, PlaceInv, GroupUp
  <2> QED BY <2>1, <2>2, <2>3
<1> QED BY <1>1, TypeCorrect, ClocksCorrect, PTL

\* The claim of a run that holds its card never expires before the run's last
\* write (_keep_claim, supervisor.py:198; claim, scheduler.py:88).
THEOREM ClaimOutlivesRunHolds == Spec => []ClaimOutlivesRun
<1>1. TypeOK /\ ClockInv => ClaimOutlivesRun
  <2> SUFFICES ASSUME TypeOK, ClockInv, pc \in Steps, held
               PROVE  claim <= TTL
    BY DEF ClaimOutlivesRun
  <2> USE ConstantTypes, ClaimAssumption DEF TypeOK, Steps, Running, RunUp
  <2>1. Stop \in Nat /\ Stop = Grace + Reaping
    BY DEF Stop
  <2>2. CASE pc \in {"starting", "preparing", "launching"}
    BY <2>1, <2>2, MissedGrows DEF ClockInv, PlaceInv, Alive, ClaimInv, Limit
  <2>3. CASE pc \in {"sleeping", "beating"}
    BY <2>1, <2>3, MissedGrows DEF ClockInv, PlaceInv, Alive, BeatInv, ClaimInv, Limit
  <2>4. CASE pc \in {"stopping", "reaping", "collecting", "cleaning"}
    BY <2>1, <2>4, MissedGrows DEF ClockInv, PlaceInv, Alive, ClaimInv, Limit
  <2> QED BY <2>2, <2>3, <2>4
<1> QED BY <1>1, TypeCorrect, ClocksCorrect, PTL

\* No worker runs past its lane's timeout by more than Notice and Stop
\* (supervisor.py:150).
THEOREM WorkerWithinTimeoutHolds == Spec => []WorkerWithinTimeout
<1>1. TypeOK /\ ClockInv => WorkerWithinTimeout
  <2> SUFFICES ASSUME TypeOK, ClockInv, worker = "working", pc # "killed"
               PROVE  elapsed <= Timeout + Notice + Stop
    BY DEF WorkerWithinTimeout
  <2>1. pc \in {"sleeping", "beating", "stopping", "reaping"}
    BY DEF ClockInv, PlaceInv, TypeOK, Steps, Running, GroupUp
  <2> QED BY <2>1, ConstantTypes
          DEF TypeOK, Steps, Running, ClockInv, PlaceInv, Alive, ElapsedInv, Limit, Notice, Stop
<1> QED BY <1>1, TypeCorrect, ClocksCorrect, PTL
=============================================================================
