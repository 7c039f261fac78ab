------------------------------ MODULE CardPath ------------------------------
(***************************************************************************)
(* One card on its way through the data: from the configuration file over  *)
(* the lane that serves it, the lane its supervisor reads back, the        *)
(* child's environment and the worker's doings, to the status, the change  *)
(* evidence and the transition.  Module Supervisor has the control of the  *)
(* same path, its failures and its races.                                  *)
(*                                                                         *)
(* stage: off, serving, started (the supervisor runs), launched, ended (a  *)
(*        result), applied; refused (ConfigError), broken (no supervisor   *)
(*        can be made of the lane)                                         *)
(***************************************************************************)
EXTENDS Config, EnvPolicy, GitState, AgentResult

\* A path is of one of several kinds, by the part of it that varies.  For each:
CONSTANTS Kinds,
          Files,     \* the configuration files, see Config
          Parents,   \* the environments a supervisor may have
          Trees,     \* the work tree before the run
          Paths,     \* what of it the worker may change
          Requests,  \* the options of permission requests
          Commands, Acps,  \* what a command or an ACP run may leave, see AgentResult
          Policies   \* what is in each of EnvPolicies

ASSUME PathAssumption ==
  /\ RunNames \cap DeniedNames = {}
  /\ \A k \in Kinds :
       /\ {NoSource, Cut} \cap Paths[k] = {}
       /\ \A tree \in Trees[k] :
            IsFiniteSet(tree) /\ tree \subseteq [path : Paths[k], source : Paths[k] \cup {NoSource}]
       /\ \A o \in Acps[k] : o.blocks \in Seq(Status \cup {"malformed"})

VARIABLES stage, kind, file,
          lanes,    \* RuntimeConfig.lanes
          card,     \* the assignee of the card
          lane,     \* the supervisor's lane
          env,      \* the child's environment
          dirty,    \* the work tree: its changes against HEAD
          before,   \* porcelain before the launch
          touched,  \* history: the paths the run has changed
          foreign,  \* history: those that came into the listing without it, see Books
          asked,    \* the last permission request and its answer
          left,     \* what the run left behind
          result, evidence,  \* the result's status and change evidence
          plan      \* lifecycle.apply's transition and exit code

vars == <<stage, kind, file, lanes, card, lane, env, dirty, before, touched, foreign, asked, left,
          result, evidence, plan>>

None == [none |-> TRUE]
Nobody == "nobody"

TypeOK ==
  /\ stage \in {"off", "refused", "serving", "started", "broken", "launched", "ended", "applied"}
  /\ kind \in Kinds /\ file \in Files[kind] /\ card \in Assignees \cup {Nobody}
  /\ dirty \subseteq [path : Paths[kind], source : Paths[kind] \cup {NoSource}]
  /\ before \subseteq Paths[kind] \/ before = NotARepository
  /\ touched \subseteq Paths[kind] /\ foreign \subseteq Paths[kind]
  /\ result \in Status \cup {"none"}
  /\ evidence.changed \subseteq Paths[kind] /\ evidence.preexisting \subseteq Paths[kind]

Init ==
  /\ kind \in Kinds /\ file \in Files[kind] /\ dirty \in Trees[kind]
  /\ stage = "off" /\ lanes = <<>> /\ card = Nobody /\ lane = None /\ env = <<>>
  /\ before = {} /\ touched = {} /\ foreign = {} /\ asked = None /\ left = None
  /\ result = "none" /\ evidence = NoEvidence /\ plan = None

Go(from, to) == stage = from /\ stage' = to

-----------------------------------------------------------------------------
(***************************************************************************)
(* The daemon                                                              *)
(***************************************************************************)
\* load_config, before a single card is claimed
LoadConfig ==
  /\ IF ConfigOk(file)
     THEN Go("off", "serving") /\ lanes' = ParseConfig(file)
     ELSE Go("off", "refused") /\ UNCHANGED lanes
  /\ UNCHANGED <<kind, file, card, lane, env, dirty, before, touched, foreign, asked, left, result, evidence, plan>>

\* _spawn with --lane-json, and the supervisor's main, which parses it.
Serve ==
  /\ \E a \in DOMAIN lanes :
       LET body == FromDict(ToDict(lanes[a]))
       IN /\ card' = a
          /\ IF LaneOk(body) THEN Go("serving", "started") /\ lane' = Lane(body)
                             ELSE Go("serving", "broken") /\ UNCHANGED lane
  /\ UNCHANGED <<kind, file, lanes, env, dirty, before, touched, foreign, asked, left, result, evidence, plan>>

-----------------------------------------------------------------------------
(***************************************************************************)
(* Supervisor._execute                                                     *)
(***************************************************************************)
\* create_adapter raises, or available says no.
Unfit ==
  /\ stage = "started"
  /\ IF Executable(lane) THEN Go("started", "ended") /\ result' = "unavailable"
                         ELSE Go("started", "broken") /\ UNCHANGED result
  /\ UNCHANGED <<kind, file, lanes, card, lane, env, dirty, before, touched, foreign, asked, left, evidence, plan>>

\* Its workspace cannot be had, or it has been told to stop before the launch.
NotLaunched ==
  /\ Go("started", "ended") /\ Executable(lane)
  /\ \/ result' = "failed" /\ UNCHANGED left
     \/ result' = "cancelled" /\ left' = [cancelled |-> TRUE]
  /\ UNCHANGED <<kind, file, lanes, card, lane, env, dirty, before, touched, foreign, asked, evidence, plan>>

\* The first git status (which may fail), the environment, the launch.
Launch ==
  /\ Go("started", "launched") /\ Executable(lane)
  /\ \E ok \in BOOLEAN : before' = Porcelain(ok, dirty)
  /\ \E parent \in Parents[kind] : env' = ChildEnv(Policies[lane.env], parent)
  /\ UNCHANGED <<kind, file, lanes, card, lane, dirty, touched, foreign, asked, left, result, evidence, plan>>

\* adapter.launch raises: a workspace-relative command that is not there, say.
LaunchRaises ==
  /\ Go("started", "applied") /\ Executable(lane)
  /\ plan' = NoWrite(ExitFailed)
  /\ UNCHANGED <<kind, file, lanes, card, lane, env, dirty, before, touched, foreign, asked, left, result, evidence>>

\* While the worker runs, it edits, restores, renames and commits files, and so
\* may others: another run in the same directory, or the user.
Gone  == {c.source : c \in dirty}
Dirty == {c.path : c \in dirty}

Editors == {"run", "others"}

\* Who has changed paths, and the further names git lists because of it.
Books(who, paths, listed) ==
  /\ touched' = touched \cup (IF who = "run" THEN paths ELSE {})
  /\ foreign' = foreign \cup listed \cup (IF who = "run" THEN {} ELSE paths)

Edit(who) ==
  /\ stage = "launched"
  /\ \E p \in Paths[kind], change \in BOOLEAN :
       /\ dirty' = IF change /\ p \notin Dirty THEN dirty \cup {Change(p, NoSource)}
                   ELSE IF ~change THEN {c \in dirty : c.path # p}
                   ELSE dirty
       /\ Books(who, {p}, {})
  /\ UNCHANGED <<stage, kind, file, lanes, card, lane, env, before, asked, left, result, evidence, plan>>

Rename(who) ==
  /\ stage = "launched"
  /\ \E p, q \in Paths[kind] \ (Gone \cup Dirty) :
       /\ p # q
       /\ dirty' = dirty \cup {Change(q, p)}
       /\ Books(who, {p, q}, {})
  /\ UNCHANGED <<stage, kind, file, lanes, card, lane, env, before, asked, left, result, evidence, plan>>

\* An edit after which the file is no longer like the one it was renamed from:
\* git lists both, the source though no one has changed it.
Unpair(who) ==
  /\ stage = "launched"
  /\ \E c \in dirty :
       /\ c.source # NoSource
       /\ dirty' = (dirty \ {c}) \cup {Change(c.path, NoSource), Change(c.source, NoSource)}
       /\ Books(who, {c.path}, {c.source})
  /\ UNCHANGED <<stage, kind, file, lanes, card, lane, env, before, asked, left, result, evidence, plan>>

Commit ==
  /\ stage = "launched" /\ dirty # {}
  /\ dirty' = {}
  /\ UNCHANGED <<stage, kind, file, lanes, card, lane, env, before, touched, foreign, asked, left, result, evidence, plan>>

EditTree == Commit \/ \E who \in Editors : Edit(who) \/ Rename(who) \/ Unpair(who)

\* _Client.request_permission
WorkerAsks ==
  /\ stage = "launched" /\ lane.adapter = "acp"
  /\ \E options \in Requests[kind] :
       asked' = [options |-> options, answer |-> Answer(lane.permission_policy, options)]
  /\ UNCHANGED <<stage, kind, file, lanes, card, lane, env, dirty, before, touched, foreign, left, result, evidence, plan>>

\* What the supervisor says of a run it has stopped, whatever the adapter says.
Overrides == {"cancelled", "timed_out", "failed"}

Final(o, status) == IF o.cancelled THEN Overrides ELSE {status}

\* collect_result, the second git status
Collect ==
  /\ Go("launched", "ended")
  /\ IF lane.adapter = "command"
     THEN \E o \in Commands[kind] : left' = o /\ result' \in Final(o, CommandOutcome(o))
     ELSE \E o \in Acps[kind] : left' = o /\ result' \in Final(o, AcpResult(o))
  /\ \E ok \in BOOLEAN : evidence' \in ChangeMetadata(before, Porcelain(ok, dirty))
  /\ UNCHANGED <<kind, file, lanes, card, lane, env, dirty, before, touched, foreign, asked, plan>>

\* lifecycle.apply
Apply ==
  /\ Go("ended", "applied")
  /\ \E pidTracked \in BOOLEAN : plan' = Plan(lane, result, pidTracked)
  /\ UNCHANGED <<kind, file, lanes, card, lane, env, dirty, before, touched, foreign, asked, left, result, evidence>>

Next ==
  \/ LoadConfig \/ Serve \/ Unfit \/ NotLaunched \/ Launch \/ LaunchRaises \/ EditTree
  \/ WorkerAsks \/ Collect \/ Apply

Spec == Init /\ [][Next]_vars

-----------------------------------------------------------------------------
(***************************************************************************)
(* Properties                                                              *)
(***************************************************************************)
\* The lane a card runs under is the only one of the file for its assignee,
\* whole: nothing is lost on the way over JSON (config.py:72-75, :120).
LaneIsTheFiles ==
  stage \in {"started", "launched", "ended", "applied"} =>
    \E n \in DOMAIN file.lanes :
      /\ \A m \in DOMAIN file.lanes : file.lanes[m]["assignee"] = card <=> m = n
      /\ \A k \in LaneKeys : \/ lane[k] = Lane(file.lanes[n])[k]
                             \/ k = "agent" /\ lane.adapter = "command"

\* A supervisor can be made of every lane of an accepted file: it parses what
\* the daemon wrote, and there is something to execute (config.py:3).
AcceptedLaneStarts == stage # "broken"

\* A child gets what its lane allows and no more.  It has the run's own names,
\* with the run's values, nothing of Hermes' claim, and nothing no one listed
\* (envpolicy.py:34-44); and a permission it asks for gets an option of the
\* policy's kind if there is one, the one for once if there is that, and is
\* cancelled otherwise (acp.py:43-55).
ChildIsConfined ==
  /\ stage = "launched" =>
       LET policy == Policies[lane.env] IN
       /\ \A n \in RunNames : n \in DOMAIN env /\ env[n] = "run"
       /\ DOMAIN env \cap DeniedNames = {}
       /\ DOMAIN env \subseteq RunNames \cup BaseAllowlist \cup policy.pass \cup DOMAIN policy.set
  /\ asked # None =>
       LET once   == IF lane.permission_policy = "allow" THEN "allow_once" ELSE "reject_once"
           always == IF lane.permission_policy = "allow" THEN "allow_always" ELSE "reject_always"
           fit    == {once, always} \cap ToSet(asked.options)
       IN /\ once \in fit     => asked.answer = once
          /\ fit = {always}  => asked.answer = always
          /\ fit = {}        => asked.answer = "cancelled"

\* No card is done on faith: a command has exited with 0; an agent has said
\* "success" in a block after which no other status came, and has neither
\* refused nor failed nor been stopped (README.md:325, result.py:76).  And what
\* only the runtime can say, that a run was cancelled or timed out, no agent can
\* claim in its result (result.py:62, :88).
OutcomeIsEarned ==
  /\ stage = "applied" /\ plan.to = "done" =>
       /\ lane.on_success = "complete" /\ ~left.cancelled
       /\ IF lane.adapter = "command" THEN left.code = 0
          ELSE /\ left.error = "none" /\ left.stop # "refusal"
               /\ \E i \in DOMAIN left.blocks :
                    /\ left.blocks[i] = "success"
                    /\ \A j \in DOMAIN left.blocks : j > i => left.blocks[j] \notin AgentStatuses
  /\ result \in {"cancelled", "timed_out"} => left.cancelled

\* Unless the first listing failed, a file is reported as changed only if the
\* run, or someone else in the same work tree, changed it or what was renamed
\* from it, and never one that had been changed before; and what the run touched
\* and did not commit is reported, as changed or as changed before, unless that
\* list is full (gitstate.py:32, :40-42).
EvidenceIsTheRuns ==
  evidence.listed /\ before # NotARepository =>
    /\ evidence.changed \subseteq (touched \cup foreign) \ before
    /\ Cardinality(evidence.changed) < MaxChanged =>
         (Dirty \cap touched) \ before \subseteq evidence.changed
    /\ Cardinality(evidence.preexisting) < MaxPreexisting =>
         Dirty \cap touched \cap before \subseteq evidence.preexisting

-----------------------------------------------------------------------------
(***************************************************************************)
(* What the proofs go by (module CardPathProofs)                           *)
(***************************************************************************)
Running == {"started", "launched", "ended", "applied"}

\* The lane is the one the supervisor has parsed of its card's.
LaneInv ==
  /\ stage \notin {"off", "refused"} => ConfigOk(file) /\ lanes = ParseConfig(file)
  /\ stage \in Running => /\ card \in DOMAIN lanes
                          /\ lane = Lane(FromDict(ToDict(lanes[card])))
  /\ AcceptedLaneStarts

\* The environment and the answer are made of this lane.
ChildInv ==
  /\ stage = "launched" => \E parent \in Parents[kind] : env = ChildEnv(Policies[lane.env], parent)
  /\ asked # None => /\ stage \in Running \ {"started"}
                     /\ asked.answer = Answer(lane.permission_policy, asked.options)

\* The result is of what was left behind, and the transition is of the result.
OutcomeInv ==
  /\ stage \notin {"ended", "applied"} => result = "none"
  /\ \/ result \in {"none", "unavailable", "failed"}
     \/ left.cancelled /\ result \in Overrides
     \/ IF lane.adapter = "command" THEN result = CommandOutcome(left)
                                  ELSE left \in Acps[kind] /\ result = AcpResult(left)
  /\ stage = "applied" => \/ plan = NoWrite(ExitFailed)
                          \/ \E pidTracked \in BOOLEAN : plan = Plan(lane, result, pidTracked)

\* What is listed since the first listing is booked, and the second listing is of
\* the work tree as it still is.
TreeInv ==
  /\ IsFiniteSet(dirty)
  /\ stage = "launched" \/ evidence.listed =>
       before = NotARepository \/ Dirty \ before \subseteq touched \cup foreign
  /\ \/ evidence = NoEvidence
     \/ stage \in {"ended", "applied"} /\ evidence \in ChangeMetadata(before, Dirty)

PathInv == TypeOK /\ LaneInv /\ ChildInv /\ OutcomeInv /\ TreeInv
=============================================================================
