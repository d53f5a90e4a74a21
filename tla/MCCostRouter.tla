---------------------------- MODULE MCCostRouter ----------------------------
(* Values of CostRouter's constants for TLC. *)
EXTENDS CostRouter, TLC

CONSTANTS c1, c2, t1, t2, err, diff, model, old, a1, a2, ev

Request(task, data, capability, error) ==
    [task |-> task, data |-> data, risk |-> "low", purpose |-> "classification",
     capability |-> capability, error |-> error, diff |-> diff, routes |-> RouteNames,
     max |-> "strong", primary |-> "codex"]

Public == Request(t1, "public", "chat", err)
Sensitive == Request(t2, "sensitive", "chat", None)
Secret == Request(t1, "secret", "chat", None)
Regex == [Request(t1, "public", "regex", None) EXCEPT !.max = "deterministic"]
MCRequests == {Public, Sensitive, Secret, Regex}

Provider(data, isEnabled, isPriced) ==
    [enabled |-> isEnabled, model |-> model, data |-> data, risks |-> {"low"},
     capabilities |-> {"chat", "regex"}, priced |-> isPriced]
MCConfig ==
    "local-ai" :> Provider({"public"}, TRUE, TRUE)
    @@ "deepseek" :> Provider({"public", "sensitive"}, TRUE, TRUE)
    @@ "qwen" :> Provider({"public"}, TRUE, FALSE)
    @@ "claude" :> Provider({"public", "sensitive"}, TRUE, TRUE)
MCProvidersOf ==
    "local" :> <<"local-ai">> @@ "cheap-cloud" :> <<"deepseek", "qwen">> @@ "strong" :> <<"claude">>

HealthOf(provider, ofModel, status) ==
    [type |-> "health", provider |-> provider, model |-> ofModel, status |-> status]
Health(provider, status) == HealthOf(provider, model, status)
Approval(task, scope, decision) ==
    [type |-> "approval", task |-> task, scope |-> scope, decision |-> decision]
Attempt(attempt, insufficient) ==
    [type |-> "attempt", attempt |-> attempt, request |-> Public, route |-> "local", failed |-> TRUE,
     error |-> err, patch |-> diff, insufficient |-> insufficient]
MCHistory ==
    <<Health("local-ai", "healthy"), HealthOf("local-ai", old, "unavailable"),
      Health("deepseek", "healthy"), Health("qwen", "healthy"),
      Health("claude", "healthy"), Approval(t1, "cheap-cloud", "approved"),
      Approval(t2, "cheap-cloud", "approved"), Attempt(a1, FALSE)>>
MCExternal ==
    {Health("local-ai", "unavailable"), Health("deepseek", "degraded"),
     Approval(t1, "cheap-cloud", "revoked"), Approval(t2, "sensitive-cloud", "approved"),
     Attempt(a2, TRUE),
     [type |-> "verification", attempt |-> a2, evidence |-> ev]}
MCMaxEvents == Len(MCHistory) + 2
=============================================================================
