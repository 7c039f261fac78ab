----------------------------- MODULE EnvPolicy ------------------------------
(***************************************************************************)
(* The environment a worker gets (envpolicy.build_child_env).  An          *)
(* environment is a function from names to values; values are named after  *)
(* where they come from.  Redaction of logs is left out.                   *)
(***************************************************************************)
CONSTANTS BaseAllowlist,  \* the names every child gets
          DeniedNames     \* the names that start with HERMES_KANBAN_

\* What the supervisor adds for the run.
RunNames == {"WR_TASK_ID", "WR_RUN_ID", "WR_WORKSPACE", "WR_LANE"}
RunEnv   == [n \in RunNames |-> "run"]

\* A value bash would take for a function is not passed on.
FunctionExport == "()"

Passed(policy, parent) ==
  {n \in (BaseAllowlist \cup policy.pass) \cap DOMAIN parent :
     n \notin DeniedNames /\ parent[n] # FunctionExport}

Restricted(f, names) == [n \in names |-> f[n]]

\* What f sets is set over what is in g.
Over(f, g) == [n \in DOMAIN f \cup DOMAIN g |-> IF n \in DOMAIN f THEN f[n] ELSE g[n]]

OfLane(policy) == Restricted(policy.set, DOMAIN policy.set \ DeniedNames)

\* Mutant: the lane's own variables come last.
ChildEnvSetLast(policy, parent) ==
  Over(OfLane(policy), Over(RunEnv, Restricted(parent, Passed(policy, parent))))

ChildEnv(policy, parent) ==
  Over(RunEnv, Over(OfLane(policy), Restricted(parent, Passed(policy, parent))))
=============================================================================
