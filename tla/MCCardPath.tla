----------------------------- MODULE MCCardPath ------------------------------
(* Instances of CardPath for TLC: cases of four kinds, each of which varies  *)
(* one part of the way and keeps the others plain.                           *)
EXTENDS CardPath

CommandBody == [assignee |-> "wr:a", adapter |-> "command", command |-> "list"]
AcpBody     == [assignee |-> "wr:a", adapter |-> "acp", agent |-> "codex"]

\* A body with the keys of f on top, "absent" for none.
With(body, f) ==
  LET given == {k \in DOMAIN f : f[k] # "absent"}
  IN [k \in (DOMAIN body \ DOMAIN f) \cup given |-> IF k \in given THEN f[k] ELSE body[k]]

WorkerParts ==
  {[adapter |-> a, command |-> c, agent |-> g, agent_command |-> ac] :
     a \in {"absent", "command", "acp", "text"}, c \in {"absent", "null", "list", "[]"},
     g \in {"absent", "null", "", "{}", "zero", "codex", "text"}, ac \in {"absent", "null", "list", "text"}}

OutcomeParts ==
  {[on_success |-> s, on_failure |-> f, reviewer |-> r] :
     s \in {"absent", "null", "complete", "review"}, f \in {"absent", "block", "fail", "text"},
     r \in {"absent", "null", "", "blank", "text"}}

OtherParts ==
  {[concurrency |-> n, permission_policy |-> p, instructions |-> i, env |-> e] :
     n \in {"absent", "int", "fraction", "zero", "negative"}, p \in {"absent", "allow", "deny", "text"},
     i \in {"absent", "", "blank", "text"}, e \in EnvPolicies \cup {"absent", "null", "text"}}

Bodies ==
  {With(CommandBody, f) : f \in WorkerParts \cup OutcomeParts \cup OtherParts}
    \cup {With(AcpBody, f) : f \in OutcomeParts \cup OtherParts}
    \cup {With(AcpBody, [surprise |-> "text"]), With(AcpBody, [assignee |-> "text"])}

One(body) == [l1 |-> body]
Two(f, g) == [l1 |-> With(CommandBody, f), l2 |-> With(AcpBody, g)]

Tops == {<<>>, [boards |-> "list"], [boards |-> "[]"], [claim_ttl_seconds |-> "fraction"],
         [poll_interval_seconds |-> "fraction"], [surprise |-> "int"]}

Plain == [top |-> <<>>, lanes |-> One(CommandBody)]
PlainAcp(f) == [top |-> <<>>, lanes |-> One(With(AcpBody, f))]

ConfigFiles ==
  {[top |-> <<>>, lanes |-> One(b)] : b \in Bodies}
    \cup {[top |-> <<>>, lanes |-> Two([assignee |-> "wr:a"], [assignee |-> a])] : a \in Assignees}
    \cup {[top |-> t, lanes |-> One(CommandBody)] : t \in Tops}
    \cup {[top |-> <<>>, lanes |-> <<>>]}

-----------------------------------------------------------------------------
NoPolicy == [pass |-> {}, set |-> <<>>]
Greedy ==
  [pass |-> {"API_KEY", "HERMES_KANBAN_TASK", "WR_LANE"},
   set  |-> [WR_TASK_ID |-> "lane", HERMES_KANBAN_RUN |-> "lane", PATH |-> "lane"]]

TwoPolicies == {EmptyPolicy, "greedy"}
Contents == [e \in TwoPolicies |-> IF e = "greedy" THEN Greedy ELSE NoPolicy]

Names == {"PATH", "API_KEY", "HERMES_KANBAN_TASK", "WR_LANE", "OTHER"}
EveryParent == UNION {[names -> {"parent", FunctionExport}] : names \in SUBSET Names}

CommandLeaves == [cancelled : BOOLEAN, code : {0, 1}, limited : BOOLEAN]
AcpLeaves ==
  [cancelled : BOOLEAN, error : {"none", "auth", "limited", "missing", "other"},
   stop : {"end_turn", "refusal", "max_tokens"},
   blocks : SeqOf({"success", "blocked", "cancelled", "malformed"}, 3),
   prose : BOOLEAN, noise : BOOLEAN]

CleanExit == [cancelled |-> FALSE, code |-> 0, limited |-> FALSE]
Answered == [cancelled |-> FALSE, error |-> "none", stop |-> "end_turn", blocks |-> <<"success">>,
             prose |-> TRUE, noise |-> FALSE]

Options == {"allow_once", "allow_always", "reject_once", "reject_always"}

EveryKind == {"config", "environment", "permission", "command", "agent", "tree"}

\* S for the kind that varies it, plain for the others.
Varying(k, S, plain) == [x \in EveryKind |-> IF x = k THEN S ELSE {plain}]

FilesOf ==
  [x \in EveryKind |->
     CASE x = "config"      -> ConfigFiles
       [] x = "environment" -> {PlainAcp([env |-> e]) : e \in TwoPolicies}
       [] x = "permission"  -> {PlainAcp([permission_policy |-> p]) : p \in {"allow", "deny"}}
       [] x = "agent"       -> {PlainAcp([on_success |-> s]) : s \in {"complete", "review"}}
       [] OTHER                -> {Plain}]

ParentsOf  == Varying("environment", EveryParent, <<>>)
SomeTrees  == {{}, {Change("a", NoSource)}, {Change("b", "a")}, {Change("a", NoSource), Change("b", NoSource)}}
TreesOf    == Varying("tree", SomeTrees, {})
RequestsOf == Varying("permission", SeqOf(Options, 3), <<>>)
CommandsOf == Varying("command", CommandLeaves, CleanExit)
AcpsOf     == Varying("agent", AcpLeaves, Answered)
PathsOf    == [x \in EveryKind |-> IF x = "tree" THEN {"a", "b", "c"} ELSE {}]
=============================================================================
