---------------------------- MODULE AgentResult -----------------------------
(***************************************************************************)
(* From what a worker leaves behind to a status: collect_result of both    *)
(* adapters and parse_agent_result; and the answer to an agent's           *)
(* permission request.  Pure operators, on top of Lifecycle's statuses.    *)
(*                                                                         *)
(* An ACP run leaves                                                       *)
(*   cancelled  the supervisor stopped it                                  *)
(*   error      what ended the session: "none", "auth" and "limited" for   *)
(*              what the heuristics recognise, "missing" (no executable),  *)
(*              "other"                                                    *)
(*   stop       the stop reason of the prompt                              *)
(*   blocks     the fenced blocks of the message, each by the status in    *)
(*              it or "malformed"                                          *)
(*   prose      whether there is other text                                *)
(*   noise      whether stderr speaks of a rate limit                      *)
(* and a command [cancelled, code, limited].                               *)
(***************************************************************************)
EXTENDS Lifecycle, SequencesExt

AgentStatuses == {"success", "needs_review", "blocked", "failed"}

Among(blocks, S) == {i \in DOMAIN blocks : blocks[i] \in S}

\* Mutant: the first well-formed block wins.
ParsedFirst(blocks) ==
  LET good == Among(blocks, AgentStatuses) IN IF good = {} THEN "none" ELSE blocks[Min(good)]

\* Mutant: any status of the runtime's is accepted from an agent.
ParsedUnchecked(blocks) ==
  LET good == Among(blocks, Status) IN IF good = {} THEN "none" ELSE blocks[Max(good)]

\* parse_agent_result: the last well-formed block, or none
Parsed(blocks) ==
  LET good == Among(blocks, AgentStatuses) IN IF good = {} THEN "none" ELSE blocks[Max(good)]

\* Mutant: the kind of error is taken for a status.
ErrorStatusRaw(error) == error

ErrorStatus(error) ==
  CASE error \in {"auth", "missing"} -> "unavailable"
    [] error = "limited"             -> "rate_limited"
    [] OTHER                         -> "failed"

\* AcpAdapter.collect_result
AcpResult(o) ==
  CASE o.cancelled                                   -> "cancelled"
    [] ~o.cancelled /\ o.error # "none"              -> ErrorStatus(o.error)
    [] ~o.cancelled /\ o.error = "none"              ->
         IF o.stop = "refusal" THEN "blocked"
         ELSE IF Parsed(o.blocks) # "none" THEN Parsed(o.blocks)
         ELSE IF o.stop \in {"max_tokens", "max_turn_requests"} THEN "failed"
         ELSE IF o.blocks # <<>> \/ o.prose THEN "needs_review"
         ELSE IF o.noise THEN "rate_limited"
         ELSE "failed"

\* CommandAdapter.collect_result
CommandOutcome(o) == IF o.cancelled THEN "cancelled" ELSE CommandResult(o.code, o.limited)

-----------------------------------------------------------------------------
(* _Client.request_permission: the options of the policy's kind, and of    *)
(* these the one that is for once.                                         *)
Wanted(policy) ==
  IF policy = "allow" THEN <<"allow_once", "allow_always">> ELSE <<"reject_once", "reject_always">>

\* Mutant: the first option of either kind.
AnswerAny(policy, options) ==
  LET fit == Among(options, ToSet(Wanted(policy)))
  IN IF fit = {} THEN "cancelled" ELSE options[Min(fit)]

Answer(policy, options) ==
  LET fit == Among(Wanted(policy), ToSet(options))
  IN IF fit = {} THEN "cancelled" ELSE Wanted(policy)[Min(fit)]
=============================================================================
