----------------------------- MODULE CostRouter -----------------------------
(***************************************************************************)
(* The cost router and the executor behind it (packages/ai-cost-system:    *)
(* cost-router, routing-state, policy-evaluator, routing-contracts,        *)
(* ai-executor, execution-coordinator, local- and cheap-cloud-invoker).    *)
(*                                                                         *)
(* A call asks AiExecutor.execute for a request.  The router evaluates     *)
(* calls one at a time: it replays the ledger, asks the cache, chooses a   *)
(* route from what the ledger says of providers, approvals and earlier     *)
(* attempts, asks the budget for a quote, and records its decision.  The   *)
(* execution that follows is outside the router's queue.  Other components *)
(* append to the same ledger at any time.                                  *)
(*                                                                         *)
(* The ledger's decision records are kept apart, in audited: routing reads *)
(* only the other ones.  The reasons and the transition trace of a         *)
(* decision, which only explain it, are left out.                          *)
(***************************************************************************)
EXTENDS Naturals, Sequences, FiniteSetsExt

CONSTANTS
    Calls,         \* calls, each made once
    Requests,      \* task routing requests: task, data, risk, purpose,
                   \* capability, error, diff, routes, max, primary
    Config,        \* Config[p]: the providers of providers.json and pricing.json
    ProvidersOf,   \* ProvidersOf[r]: the providers of a route, in order
    ApprovalRequired,  \* routes whose use needs an approval
    Deterministic,     \* capabilities that need no provider
    LocalTasks,    \* purposes the local provider is allowed
    External,      \* events other components may append from now on
    History,       \* what the ledger holds when the process starts
    None,
    MaxEvents,     \* bound of the model: length of the ledger
    MaxFaults      \* bound of the model: failing appends and crashes

\* routingRoutes, and those of them that lead to a provider.
Routes == <<"deterministic", "local", "cheap-cloud", "strong">>
RouteNames == {"local", "cheap-cloud", "strong"}
DecisionOf == [r \in RouteNames |->
    CASE r = "local" -> "LOCAL" [] r = "cheap-cloud" -> "CHEAP_CLOUD" [] r = "strong" -> "STRONG"]
RouteRank(r) == CHOOSE i \in DOMAIN Routes : Routes[i] = r
ApprovalScopes == {"cheap-cloud", "strong", "sensitive-cloud", "secondary-claude"}

\* What the ledger holds, apart from the router's own decisions.
Events == {History[i] : i \in DOMAIN History} \cup External

ASSUME RouterAssumption ==
    /\ MaxEvents \in Nat /\ MaxFaults \in Nat
    /\ History \in Seq(Events)
    /\ ProvidersOf \in [RouteNames -> Seq(DOMAIN Config \ {None})]
    /\ \A r \in RouteNames : ProvidersOf[r] # <<>>
    /\ ApprovalRequired \subseteq RouteNames /\ None \notin RouteNames
    /\ \A q \in Requests : q.max \in RouteNames \cup {"deterministic"}

-----------------------------------------------------------------------------
(* What the ledger says *)

Matching(evs, T(_)) == {i \in DOMAIN evs : T(evs[i])}

\* deriveRoutingState and getApprovalState: the latest decision counts.
GetApprovalState(evs, task, scope) ==
    LET I == Matching(evs, LAMBDA e :
                 e.type = "approval" /\ e.task = task /\ e.scope = scope)
    IN  IF I = {} THEN "missing" ELSE evs[Max(I)].decision

\* deriveRoutingState and getProviderHealth: the latest state of the provider
\* with the model it is configured with.
GetProviderHealth(evs, provider) ==
    LET I == Matching(evs, LAMBDA e :
                 /\ e.type = "health" /\ e.provider = provider
                 /\ e.model = Config[provider].model)
    IN  IF I = {} THEN "unknown" ELSE evs[Max(I)].status

\* Defect: an attempt of the route is enough.
HasRouteInsufficiencyAnyAttempt(evs, q, route) ==
    \E i \in DOMAIN evs : evs[i].type = "attempt" /\ evs[i].request = q /\ evs[i].route = route

\* hasRouteInsufficiency: an attempt of this request failed, and was recorded
\* as a reason to escalate from the route.  Verification is not asked for.
HasRouteInsufficiency(evs, q, route) ==
    \E i \in DOMAIN evs :
        /\ evs[i].type = "attempt" /\ evs[i].request = q /\ evs[i].route = route
        /\ evs[i].failed /\ evs[i].insufficient

\* The verification evidence recorded for an attempt, before or after it ended.
Evidence(evs, attempt) ==
    LET all == Matching(evs, LAMBDA e : e.type = "verification")
        own == {i \in all : evs[i].attempt = attempt}
    IN  [h \in {evs[i].evidence : i \in all} |-> Cardinality({i \in own : evs[i].evidence = h})]

\* Defect: two equal failures are let pass.
HasRepeatedFailureThrice(evs, q) ==
    Cardinality(Matching(evs, LAMBDA e : e.type = "attempt" /\ e.request = q /\ e.failed)) > 2

\* hasRepeatedFailure: the last two failures with the request's error and diff
\* are of one route and have the same evidence.
HasRepeatedFailure(evs, q) ==
    /\ q.error # None /\ q.diff # None
    /\ LET failures == Matching(evs, LAMBDA e :
                          /\ e.type = "attempt" /\ e.request = q
                          /\ e.failed /\ e.error = q.error /\ e.patch = q.diff)
           latest == Max(failures)
           previous == Max(failures \ {latest})
       IN  /\ Cardinality(failures) >= 2
           /\ evs[previous].route = evs[latest].route
           /\ Evidence(evs, evs[previous].attempt) = Evidence(evs, evs[latest].attempt)

-----------------------------------------------------------------------------
(* Policy *)

\* evaluateRoutePolicy.
RouteAllowed(q, r) == r \in q.routes /\ RouteRank(r) <= RouteRank(q.max)

\* evaluateProviderPolicy.
ProviderAllowed(q, p) ==
    /\ Config[p].enabled
    /\ q.data # "secret" /\ q.data \in Config[p].data
    /\ q.risk \in Config[p].risks /\ q.capability \in Config[p].capabilities
    /\ p = "local-ai" => q.data = "public" /\ q.risk = "low" /\ q.purpose \in LocalTasks

\* evaluateProviderRoute, up to pricing.
Eligible(q, evs, p) ==
    ProviderAllowed(q, p) /\ Config[p].model # None /\ GetProviderHealth(evs, p) = "healthy"

Usable(q, evs, r) ==
    {i \in DOMAIN ProvidersOf[r] : Eligible(q, evs, ProvidersOf[r][i]) /\ Config[ProvidersOf[r][i]].priced}

\* The last provider of a cloud route has no usable price: cloud routing ends.
UnknownPrice(q, evs, r) ==
    LET p == ProvidersOf[r][Len(ProvidersOf[r])] IN
    r # "local" /\ Usable(q, evs, r) = {} /\ Eligible(q, evs, p) /\ ~Config[p].priced

Considered(q, evs, r) ==
    RouteAllowed(q, r) /\ (r # "strong" => ~HasRouteInsufficiency(evs, q, r))

\* The first route with a usable provider, unless pricing ended the search.
Selected(q, evs) ==
    {r \in RouteNames :
        /\ Considered(q, evs, r) /\ Usable(q, evs, r) # {}
        /\ \A s \in RouteNames :
              RouteRank(s) < RouteRank(r) /\ Considered(q, evs, s) =>
                  Usable(q, evs, s) = {} /\ ~UnknownPrice(q, evs, s)}

\* evaluateApproval: the scopes that are required, in this order.
RequiredScopes(q, route, provider) ==
    (IF route \in ApprovalRequired THEN <<route>> ELSE <<>>)
    \o (IF q.data = "sensitive" /\ route # "local" THEN <<"sensitive-cloud">> ELSE <<>>)
    \o (IF provider = "claude" /\ q.primary # "claude" THEN <<"secondary-claude">> ELSE <<>>)

\* Defect: an approval that was ever given counts.
EvaluateApprovalEver(q, evs, route, provider) ==
    LET required == RequiredScopes(q, route, provider) IN
    IF \A i \in DOMAIN required : \E j \in DOMAIN evs :
          /\ evs[j].type = "approval" /\ evs[j].task = q.task
          /\ evs[j].scope = required[i] /\ evs[j].decision = "approved"
    THEN "APPROVED" ELSE "REQUIRED"

\* The first required scope that is not approved decides.
EvaluateApproval(q, evs, route, provider) ==
    LET required == RequiredScopes(q, route, provider)
        open == {i \in DOMAIN required :
                    \/ required[i] \notin ApprovalScopes
                    \/ GetApprovalState(evs, q.task, required[i]) # "approved"}
        first == required[Min(open)]
    IN  IF open = {} THEN "APPROVED"
        ELSE IF first \in ApprovalScopes /\ GetApprovalState(evs, q.task, first) = "missing"
             THEN "REQUIRED" ELSE "DENIED"

-----------------------------------------------------------------------------
(* Decisions *)

Draft(decision, route, provider) ==
    [decision |-> decision, route |-> route, provider |-> provider]
Stop == Draft("STOP", None, None)

\* What validateDecisionSemantics accepts.
ValidDraft(d) ==
    /\ \A r \in RouteNames : d.decision = DecisionOf[r] => d.route = r
    /\ d.decision = "CACHE" => d.route = "cache"
    /\ d.decision = "DETERMINISTIC" => d.route = "deterministic" /\ d.provider = None
    /\ d.decision \in {"LOCAL", "CHEAP_CLOUD", "STRONG", "APPROVAL_REQUIRED"} => d.provider # None
    /\ d.decision = "APPROVAL_REQUIRED" => d.route \in RouteNames
    /\ d.route = None => d.provider = None

VARIABLES
    configValid,  \* the configuration snapshot is consistent
    ledger,       \* events, without the router's own
    torn,         \* the ledger file holds a partial record
    audited,      \* calls whose decision is recorded in the file
    queue,        \* evaluationQueue
    pc, request,  \* pc[c], request[c]: where a call is and what it asks
    seen,         \* seen[c]: how much of the ledger the call's replay returned
    draft,        \* draft[c]: its decision
    faults,       \* failures that may still happen
    asked,        \* asked[c]: the length of the ledger when the call was made
    tornAt,       \* calls that were made when the ledger was torn
    invoked       \* calls whose provider was called

file == <<ledger, torn, audited>>
ghosts == <<asked, tornAt, invoked>>
vars == <<configValid, file, queue, pc, request, seen, draft, faults, ghosts>>

Init ==
    /\ configValid \in BOOLEAN
    /\ ledger = History /\ torn = FALSE /\ audited = {}
    /\ queue = <<>>
    /\ pc = [c \in Calls |-> "new"] /\ request = [c \in Calls |-> None]
    /\ seen = [c \in Calls |-> 0] /\ draft = [c \in Calls |-> Stop]
    /\ faults = MaxFaults
    /\ asked = [c \in Calls |-> 0] /\ tornAt = {} /\ invoked = {}

Seen(c) == SubSeq(ledger, 1, seen[c])

Goto(c, where) == pc' = [pc EXCEPT ![c] = where]
Decide(c, d, where) == draft' = [draft EXCEPT ![c] = d] /\ Goto(c, where)

\* The call ends; what it knew is gone.
Finish(c) ==
    /\ Decide(c, Stop, "done")
    /\ request' = [request EXCEPT ![c] = None] /\ seen' = [seen EXCEPT ![c] = 0]
    /\ asked' = [asked EXCEPT ![c] = 0] /\ tornAt' = tornAt \ {c}

-----------------------------------------------------------------------------
(* CostRouter.evaluate *)

\* The call joins the queue.
Evaluate(c, q) ==
    /\ pc[c] = "new" /\ request' = [request EXCEPT ![c] = q]
    /\ queue' = Append(queue, c) /\ Goto(c, "queued")
    /\ asked' = [asked EXCEPT ![c] = Len(ledger)]
    /\ tornAt' = IF torn THEN tornAt \cup {c} ELSE tornAt
    /\ UNCHANGED <<configValid, file, seen, draft, faults, invoked>>

\* It is the call's turn.
Turn(c, where) == queue # <<>> /\ Head(queue) = c /\ pc[c] = where

\* ledger.replay; a decision on secret data needs nothing else.
Replay(c) ==
    /\ Turn(c, "queued") /\ configValid /\ ~torn
    /\ seen' = [seen EXCEPT ![c] = Len(ledger)]
    /\ Decide(c, Stop, IF request[c].data = "secret" THEN "audit" ELSE "cache")
    /\ UNCHANGED <<configValid, file, queue, request, faults, ghosts>>

\* createStopWithoutAudit.
StopWithoutAudit(c) ==
    /\ Turn(c, "queued") /\ (~configValid \/ torn)
    /\ Finish(c) /\ queue' = Tail(queue)
    /\ UNCHANGED <<configValid, file, faults, invoked>>

\* evaluateCache: a hit is the decision; an incompatible candidate, a
\* quarantined entry or a failing lookup stops; a miss goes on.  The provider
\* of the entry, which the decision repeats, is left out.
EvaluateCache(c) ==
    /\ Turn(c, "cache")
    /\ \/ Decide(c, Stop, "choose")
       \/ Decide(c, Stop, "audit")
       \/ Decide(c, Draft("CACHE", "cache", None), "audit")
    /\ UNCHANGED <<configValid, file, queue, request, seen, faults, ghosts>>

\* The rest of evaluateInternal, up to the budget's quote.
Choose(c) ==
    LET q == request[c] evs == Seen(c) IN
    /\ Turn(c, "choose")
    /\ \/ /\ q.capability \in Deterministic
          /\ Decide(c, Draft("DETERMINISTIC", "deterministic", None), "audit")
       \/ /\ q.capability \notin Deterministic
          /\ HasRepeatedFailure(evs, q) \/ Selected(q, evs) = {}
          /\ Decide(c, Stop, "audit")
       \/ /\ q.capability \notin Deterministic /\ ~HasRepeatedFailure(evs, q)
          /\ \E r \in Selected(q, evs) :
                Decide(c, Draft(DecisionOf[r], r, ProvidersOf[r][Min(Usable(q, evs, r))]), "quote")
    /\ UNCHANGED <<configValid, file, queue, request, seen, faults, ghosts>>

\* Defect: a decision that waits for an approval names no provider.
QuoteForgetsProvider(c) ==
    /\ Turn(c, "quote")
    /\ Decide(c, Draft("APPROVAL_REQUIRED", draft[c].route, None), "audit")
    /\ UNCHANGED <<configValid, file, queue, request, seen, faults, ghosts>>

\* The quote denies, fails, or allows; then approvals are looked up.
Quote(c) ==
    LET d == draft[c]
        approval == EvaluateApproval(request[c], Seen(c), d.route, d.provider)
    IN  /\ Turn(c, "quote")
        /\ \/ Decide(c, [d EXCEPT !.decision = "STOP"], "audit")
           \/ /\ approval = "APPROVED" /\ Decide(c, d, "audit")
           \/ /\ approval # "APPROVED"
              /\ Decide(c, [d EXCEPT !.decision =
                              IF approval = "REQUIRED" THEN "APPROVAL_REQUIRED" ELSE "STOP"], "audit")
        /\ UNCHANGED <<configValid, file, queue, request, seen, faults, ghosts>>

\* AiExecutor, the coordinator and the invokers accept these decisions.  Any
\* other one is returned, or refused, at once.
Executable(d) ==
    \/ d.decision = "LOCAL" /\ d.route = "local" /\ d.provider = "local-ai"
    \/ d.decision = "CHEAP_CLOUD" /\ d.route = "cheap-cloud" /\ d.provider = "deepseek"

\* evaluate resolves with d, and the next evaluation begins.
Resolve(c, d) ==
    /\ queue' = Tail(queue)
    /\ \/ Executable(d) /\ Decide(c, d, "decided") /\ UNCHANGED <<request, seen, asked, tornAt>>
       \/ ~Executable(d) /\ Finish(c)

\* audit: the decision is recorded and returned.
Audit(c) ==
    /\ Turn(c, "audit")
    /\ audited' = audited \cup {c}
    /\ Resolve(c, draft[c])
    /\ UNCHANGED <<configValid, ledger, torn, faults, invoked>>

\* What a failing append may leave in the file.
FailingAppend(S) ==
    \/ UNCHANGED file
    \/ audited' = audited \cup S /\ UNCHANGED <<ledger, torn>>
    \/ torn' = TRUE /\ UNCHANGED <<ledger, audited>>

\* Defect: the decision is returned although it could not be recorded.
FailAuditIgnored(c) ==
    /\ Turn(c, "audit")
    /\ faults > 0 /\ faults' = faults - 1
    /\ FailingAppend({c})
    /\ Resolve(c, draft[c])
    /\ UNCHANGED <<configValid, invoked>>

\* Defect: a failing evaluation ends the chain of promises.
FailAuditHeld(c) ==
    /\ Turn(c, "audit")
    /\ faults > 0 /\ faults' = faults - 1
    /\ FailingAppend({c})
    /\ Finish(c)
    /\ UNCHANGED <<configValid, queue, invoked>>

\* The append fails: the decision returned is STOP.
FailAudit(c) ==
    /\ Turn(c, "audit")
    /\ faults > 0 /\ faults' = faults - 1
    /\ FailingAppend({c})
    /\ Resolve(c, Stop)
    /\ UNCHANGED <<configValid, invoked>>

-----------------------------------------------------------------------------
(* AiExecutor.execute *)

\* The adapter is called.  Its own records name another task, so that no
\* replay for this one counts them; one of them may tear the file.
Invoke(c) ==
    /\ pc[c] = "decided"
    /\ invoked' = invoked \cup {c}
    /\ \/ UNCHANGED <<torn, faults>>
       \/ faults > 0 /\ faults' = faults - 1 /\ torn' = TRUE
    /\ Finish(c)
    /\ UNCHANGED <<configValid, ledger, audited, queue>>

-----------------------------------------------------------------------------
(* The environment *)

\* Another component appends an event: a provider's health, an approval or
\* its revocation, an attempt that ended, verification evidence.
Record(e) ==
    /\ Len(ledger) < MaxEvents
    /\ ledger' = Append(ledger, e)
    /\ UNCHANGED <<configValid, torn, audited, queue, pc, request, seen, draft, faults, ghosts>>

\* The process ends, and with it its calls.
Crash ==
    /\ faults > 0 /\ faults' = faults - 1
    /\ \E S \in SUBSET {c \in Calls : pc[c] = "audit"} : FailingAppend(S)
    /\ queue' = <<>>
    /\ pc' = [c \in Calls |-> IF pc[c] = "new" THEN "new" ELSE "done"]
    /\ seen' = [c \in Calls |-> 0] /\ draft' = [c \in Calls |-> Stop]
    /\ request' = [c \in Calls |-> None] /\ asked' = [c \in Calls |-> 0] /\ tornAt' = {}
    /\ UNCHANGED <<configValid, invoked>>

\* What a call does next.
Progress(c) ==
    \/ Replay(c) \/ StopWithoutAudit(c) \/ EvaluateCache(c) \/ Choose(c) \/ Quote(c)
    \/ Audit(c) \/ Invoke(c)

Next ==
    \/ \E c \in Calls : Progress(c) \/ FailAudit(c) \/ \E q \in Requests : Evaluate(c, q)
    \/ \E e \in External : Record(e)
    \/ Crash

Spec == Init /\ [][Next]_vars

\* Promises are settled: every call goes on.
FairSpec == Spec /\ \A c \in Calls : WF_vars(Progress(c))

-----------------------------------------------------------------------------
(***************************************************************************)
(* Properties                                                              *)
(***************************************************************************)

\* Every variable has its type, and every draft a call has passes the
\* validation of its decision, so that evaluate never rejects.
TypeOK ==
    /\ configValid \in BOOLEAN
    /\ DOMAIN ledger = 1 .. Len(ledger) /\ torn \in BOOLEAN /\ audited \subseteq Calls
    /\ queue \in Seq(Calls)
    /\ pc \in [Calls -> {"new", "queued", "cache", "choose", "quote", "audit", "decided", "done"}]
    /\ request \in [Calls -> Requests \cup {None}]
    /\ seen \in [Calls -> Nat] /\ \A c \in Calls : seen[c] <= Len(ledger)
    /\ DOMAIN draft = Calls /\ \A c \in Calls : ValidDraft(draft[c])
    /\ faults \in 0 .. MaxFaults
    /\ asked \in [Calls -> Nat] /\ tornAt \subseteq Calls /\ invoked \subseteq Calls

\* A provider is called for c.
Invokes(c) == c \in invoked' \ invoked

\* "Append failure returns an unaudited fail-closed STOP": no provider is
\* called for a decision that is not in the ledger, with an inconsistent
\* configuration, or for a call made when the ledger could not be read.
InvokedWasAudited ==
    [][\A c \in Calls : Invokes(c) => c \in audited /\ configValid /\ c \notin tornAt]_vars

\* The ledger at some time since the call was made.
Since(c) == {SubSeq(ledger, 1, n) : n \in asked[c] .. Len(ledger)}

\* The last approval event for a task and scope approves.
Approved(evs, task, scope) ==
    \E i \in DOMAIN evs :
        /\ evs[i].type = "approval" /\ evs[i].task = task /\ evs[i].scope = scope
        /\ evs[i].decision = "approved"
        /\ \A j \in DOMAIN evs :
              j > i /\ evs[j].type = "approval" => ~(evs[j].task = task /\ evs[j].scope = scope)

\* "Effective approvals come only from the latest validated ApprovalEvent for
\* the task and scope": a provider that needs approvals is called only if all
\* of them were in force at one moment after the call was made.  What was
\* revoked before that, or given to another task, is of no use, however many
\* calls waited in the queue.
RevocationRespected ==
    [][\A c \in Calls : Invokes(c) =>
        LET q == request[c]
            scopes == RequiredScopes(q, draft[c].route, draft[c].provider)
        IN  \E evs \in Since(c) : \A i \in DOMAIN scopes : Approved(evs, q.task, scopes[i])]_vars

\* Two failures i and j with the request's error and diff, the last of them,
\* on one route, and with the same evidence as many times.
RepeatedAt(evs, q) ==
    LET fails == {i \in DOMAIN evs :
                    /\ evs[i].type = "attempt" /\ evs[i].request = q /\ evs[i].failed
                    /\ <<evs[i].error, evs[i].patch>> = <<q.error, q.diff>>}
        shows(h) == {k \in DOMAIN evs : evs[k].type = "verification" /\ evs[k].evidence = h}
        times(i, h) == Cardinality({k \in shows(h) : evs[k].attempt = evs[i].attempt})
    IN  \E i, j \in fails :
            /\ i < j /\ evs[i].route = evs[j].route
            /\ \A k \in fails : k <= i \/ k = j
            /\ \A k \in DOMAIN evs : evs[k].type = "verification" =>
                  times(i, evs[k].evidence) = times(j, evs[k].evidence)

\* "A repeated request/error/diff fingerprint without new evidence returns
\* STOP": a provider is called only if something new had been recorded, at
\* some moment after the call was made, since the request failed twice alike.
StopsRepeating ==
    [][\A c \in Calls : Invokes(c) =>
        (request[c].error # None /\ request[c].diff # None =>
            \E evs \in Since(c) : ~RepeatedAt(evs, request[c]))]_vars

\* The request, the policy, the configuration or the price excludes p.
Excluded(q, p) == ~ProviderAllowed(q, p) \/ Config[p].model = None \/ ~Config[p].priced

\* Event i says that the local route failed this request and was insufficient.
LocalFailure(evs, q, i) ==
    /\ evs[i].type = "attempt" /\ evs[i].request = q
    /\ evs[i].route = "local" /\ evs[i].failed /\ evs[i].insufficient

\* "A stronger tier cannot be selected merely because it exists": a cloud
\* provider is called only if every local one is excluded, or the ledger, at
\* some moment after the call was made, said that it is not healthy or that
\* the route failed this request and was insufficient.  The design also wants
\* that failure to be "supported by ... verification evidence from the ledger";
\* hasRouteInsufficiency looks for none, and none is claimed here.
EscalationHasCause ==
    [][\A c \in Calls : Invokes(c) =>
        LET q == request[c] IN
        draft[c].route # "local" /\ "local" \in q.routes =>
            \A k \in DOMAIN ProvidersOf["local"] :
                LET p == ProvidersOf["local"][k] IN
                \/ Excluded(q, p)
                \/ \E evs \in Since(c) :
                      \/ GetProviderHealth(evs, p) # "healthy"
                      \/ \E i \in DOMAIN evs : LocalFailure(evs, q, i)]_vars

\* A call that was made is answered, whatever fails before it in the queue.
EvaluationsAnswered == \A c \in Calls : pc[c] # "new" ~> pc[c] = "done"
=============================================================================
