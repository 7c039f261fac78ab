------------------------------- MODULE Config -------------------------------
(***************************************************************************)
(* The configuration file (config.py): which files are accepted, the lanes *)
(* they give, and a lane's way to its supervisor as JSON.  Pure operators. *)
(*                                                                         *)
(* A YAML mapping is a function from its keys to values, and a value is    *)
(* the name of a class of values the rules tell apart:                     *)
(*   "null"  ""  "[]"  "{}"   what YAML writes so                          *)
(*   "list"                   a non-empty list of non-empty strings        *)
(*   "int"  "fraction"        a positive number                            *)
(*   "zero"                   0 or false                                   *)
(*   "negative"               a negative number, or true                   *)
(*   a word                   that word, for a key whose rule names it     *)
(*   "blank"                  a string of spaces                           *)
(*   "text"                   any other string                             *)
(* A mapping where none is due, or none where one is, is rejected like one *)
(* with an unknown key.                                                    *)
(***************************************************************************)
CONSTANTS Assignees,     \* the words _ASSIGNEE_RE matches
          EnvPolicies    \* what _parse_env accepts, the empty policy among them

EmptyPolicy == "{}"

Adapters           == {"command", "acp"}
SuccessActions     == {"complete", "review"}
FailureActions     == {"block", "fail"}
PermissionPolicies == {"allow", "deny"}
Presets            == {"codex", "claude", "opencode"}

ASSUME ConfigAssumption ==
  /\ EmptyPolicy \in EnvPolicies
  /\ (Assignees \cup EnvPolicies) \cap {"null", "", "[]", "()"} = {}

TopKeys  == {"boards", "poll_interval_seconds", "heartbeat_interval_seconds",
             "worker_heartbeat_interval_seconds", "claim_ttl_seconds"}
Argvs    == {"command", "agent_command"}
Counts   == {"concurrency", "timeout_seconds", "kill_grace_seconds"}
LaneKeys == {"assignee", "adapter", "agent", "on_success", "on_failure", "reviewer", "env",
             "permission_policy", "instructions"} \cup Argvs \cup Counts

Positive == {"int", "fraction"}

\* What a key stands for that the mapping does not have.
LaneDefault(adapter) ==
  [k \in LaneKeys |->
     CASE k \in Counts            -> "int"
       [] k = "on_success"        -> IF adapter = "command" THEN "complete" ELSE "review"
       [] k = "on_failure"        -> IF adapter = "command" THEN "block" ELSE "fail"
       [] k = "permission_policy" -> "allow"
       [] k = "instructions"      -> ""
       [] OTHER                   -> "null"]

Adapter(body) == IF "adapter" \in DOMAIN body THEN body["adapter"] ELSE "null"
Get(body) ==
  [k \in LaneKeys |-> IF k \in DOMAIN body THEN body[k] ELSE LaneDefault(Adapter(body))[k]]

-----------------------------------------------------------------------------
(***************************************************************************)
(* _parse_lane, with _argv, _parse_env, _positive and _reject_unknown      *)
(***************************************************************************)
FieldsOk(f) ==
  /\ f["assignee"] \in Assignees
  /\ f["adapter"] \in Adapters
  /\ \A k \in Argvs : f[k] \in {"null", "list"}
  /\ \A k \in Counts : f[k] = "int"
  /\ f["on_success"] \in SuccessActions
  /\ f["on_failure"] \in FailureActions
  /\ f["permission_policy"] \in PermissionPolicies
  /\ f["reviewer"] \in {"null", "text"}
  /\ f["instructions"] \in {"", "blank", "text"}
  /\ f["env"] \in EnvPolicies \cup {"null"}

\* A command lane has a command and nothing of an agent's (a name of one that is
\* false to Python goes through); an ACP lane has a preset, a command of its own,
\* or both.
Falsy == {"null", "", "[]", "{}", "zero"}

WorkerOk(f) ==
  IF f["adapter"] = "command"
  THEN f["command"] # "null" /\ f["agent"] \in Falsy /\ f["agent_command"] = "null"
  ELSE /\ f["command"] = "null"
       /\ f["agent"] = "null" => f["agent_command"] # "null"
       /\ f["agent"] \in Presets \cup {"null"}

\* Mutant: an ACP lane needs no agent.
LaneOkAgentless(body) ==
  /\ DOMAIN body \subseteq LaneKeys
  /\ FieldsOk(Get(body))
  /\ Get(body)["adapter"] = "command" => WorkerOk(Get(body))

LaneOk(body) == DOMAIN body \subseteq LaneKeys /\ FieldsOk(Get(body)) /\ WorkerOk(Get(body))

\* The Lane of an accepted body: tuples for lists, a policy for none.
Lane(body) ==
  [k \in LaneKeys |->
     CASE k \in Argvs /\ Get(body)[k] = "null" -> "()"
       [] k = "env" /\ Get(body)[k] = "null"   -> EmptyPolicy
       [] OTHER                                -> Get(body)[k]]

-----------------------------------------------------------------------------
(***************************************************************************)
(* parse_config: the whole file, [top |-> the other keys, lanes |-> a      *)
(* mapping from names to bodies]                                           *)
(***************************************************************************)
TopOk(top) ==
  /\ DOMAIN top \subseteq TopKeys
  /\ \A k \in DOMAIN top :
       CASE k = "boards"            -> top[k] \in {"all", "null", "list"}
         [] k = "claim_ttl_seconds" -> top[k] \in {"null", "int"}
         [] OTHER                   -> top[k] \in Positive

\* Mutant: a second lane of an assignee replaces the first.
ConfigOkReplacing(file) ==
  /\ TopOk(file.top)
  /\ DOMAIN file.lanes # {}
  /\ \A n \in DOMAIN file.lanes : LaneOk(file.lanes[n])

ConfigOk(file) ==
  /\ TopOk(file.top)
  /\ DOMAIN file.lanes # {}
  /\ \A n \in DOMAIN file.lanes : LaneOk(file.lanes[n])
  /\ \A m, n \in DOMAIN file.lanes :
       file.lanes[m]["assignee"] = file.lanes[n]["assignee"] => m = n

\* RuntimeConfig.lanes: the lanes by assignee
ParseConfig(file) ==
  [a \in {file.lanes[n]["assignee"] : n \in DOMAIN file.lanes} |->
     Lane(file.lanes[CHOOSE n \in DOMAIN file.lanes : file.lanes[n]["assignee"] = a])]

-----------------------------------------------------------------------------
(***************************************************************************)
(* Lane.to_dict, --lane-json, Lane.from_dict                               *)
(***************************************************************************)
ToDict(lane) == [k \in LaneKeys |-> IF lane[k] = "()" THEN "[]" ELSE lane[k]]

\* Mutant: from_dict takes the dictionary as it is.
FromDictUnfiltered(data) == data

\* The body from_dict parses: what is empty counts as not given.
FromDict(data) == [k \in {k \in LaneKeys : data[k] \notin {"null", "[]", ""}} |-> data[k]]

(***************************************************************************)
(* adapters.create_adapter and agent_argv: the lane can be executed at all *)
(***************************************************************************)
Executable(lane) ==
  \/ lane["adapter"] = "command" /\ lane["command"] # "()"
  \/ lane["adapter"] = "acp" /\ (lane["agent_command"] # "()" \/ lane["agent"] \in Presets)
=============================================================================
